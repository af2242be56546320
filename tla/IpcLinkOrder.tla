---------------------------- MODULE IpcLinkOrder ----------------------------
(***************************************************************************)
(* The order of the events on the link, and that none is lost while        *)
(* nothing fails: the rest of the inductive invariant, the two properties, *)
(* and the refinement of LossyChannel.                                     *)
(***************************************************************************)
EXTENDS IpcLinkProofs

---------------------------------------------------------------------------
(* Sequences of lines *)

(* The event of a line, if it is one.                                      *)
EventOf(l) == IF l.kind = "event" THEN {l.arg} ELSE {}

(* The events of a sequence are those of its elements.                     *)
LEMMA EventsByElements ==
  ASSUME NEW S, NEW s \in Seq(S)
  PROVE  /\ \A e : e \in Events(s) <=> \E i \in 1..Len(s) : s[i].kind = "event" /\ s[i].arg = e
         /\ Sorted(s) <=> \A i, j \in 1..Len(s) :
              i < j /\ s[i].kind = "event" /\ s[j].kind = "event" => s[i].arg < s[j].arg
BY SeqByElements DEF Events, Sorted

(* What order says of two lines.                                           *)
LEMMA SortedByElements ==
  ASSUME NEW S, NEW s \in Seq(S), Sorted(s), NEW i \in 1..Len(s), NEW j \in 1..Len(s), i < j,
         s[i].kind = "event", s[j].kind = "event"
  PROVE  s[i].arg < s[j].arg
BY SeqByElements DEF Sorted

(* Nothing holds no event.                                                 *)
LEMMA NoEvents == Events(<<>>) = {} /\ Sorted(<<>>)
BY Nothing DEF Events, Sorted

(* A line at the end of a sequence.                                        *)
LEMMA EventsAppend ==
  ASSUME NEW s \in Seq(LineRef), NEW l \in LineRef
  PROVE  /\ Events(Append(s, l)) = Events(s) \cup EventOf(l)
         /\ Sorted(s) /\ Older(Events(s), EventOf(l)) => Sorted(Append(s, l))
<1> DEFINE t == Append(s, l)
<1>1. /\ Len(s) \in Nat /\ t \in Seq(LineRef) /\ Len(t) = Len(s) + 1
      /\ \A i \in 1..Len(s) : t[i] = s[i]
      /\ t[Len(s) + 1] = l
  OBVIOUS
<1> HIDE DEF t
<1>2. \A i \in 1..Len(t) : i \in 1..Len(s) \/ i = Len(s) + 1
  BY <1>1
<1>3. \A e : e \in Events(t) <=> e \in Events(s) \/ e \in EventOf(l)
  <2> TAKE e
  <2>1. ASSUME e \in Events(t) PROVE e \in Events(s) \/ e \in EventOf(l)
    <3>1. PICK i \in 1..Len(t) : t[i].kind = "event" /\ t[i].arg = e
      BY <1>1, <2>1, EventsByElements
    <3>2. CASE i \in 1..Len(s)
      BY <1>1, <3>1, <3>2, EventsByElements
    <3>3. CASE i = Len(s) + 1
      BY <1>1, <3>1, <3>3 DEF EventOf
    <3> QED BY <1>2, <3>2, <3>3
  <2>2. ASSUME e \in Events(s) PROVE e \in Events(t)
    <3>1. PICK i \in 1..Len(s) : s[i].kind = "event" /\ s[i].arg = e
      BY <2>2, EventsByElements
    <3>2. i \in 1..Len(t) /\ t[i] = s[i]
      BY <1>1
    <3> QED BY <1>1, <3>1, <3>2, EventsByElements
  <2>3. ASSUME e \in EventOf(l) PROVE e \in Events(t)
    <3>1. l.kind = "event" /\ l.arg = e
      BY <2>3 DEF EventOf
    <3>2. Len(s) + 1 \in 1..Len(t)
      BY <1>1
    <3> QED BY <1>1, <3>1, <3>2, EventsByElements
  <2> QED BY <2>1, <2>2, <2>3
<1>4. ASSUME Sorted(s), Older(Events(s), EventOf(l)) PROVE Sorted(t)
  <2>1. ASSUME NEW i \in 1..Len(t), NEW j \in 1..Len(t), i < j,
               t[i].kind = "event", t[j].kind = "event"
        PROVE  t[i].arg < t[j].arg
    <3>1. i \in 1..Len(s)
      BY <1>1, <2>1
    <3>2. CASE j \in 1..Len(s)
      BY <1>1, <1>4, <2>1, <3>1, <3>2, EventsByElements
    <3>3. CASE j = Len(s) + 1
      <4>1. t[i].arg \in Events(s) /\ t[j].arg \in EventOf(l)
        BY <1>1, <2>1, <3>1, <3>3, EventsByElements DEF EventOf
      <4> QED BY <1>4, <4>1 DEF Older
    <3> QED BY <1>2, <3>2, <3>3
  <2> QED BY <1>1, <2>1, EventsByElements
<1> QED BY <1>3, <1>4 DEF t

(* One sequence behind another.                                            *)
LEMMA EventsConcat ==
  ASSUME NEW s \in Seq(LineRef), NEW r \in Seq(LineRef)
  PROVE  /\ Events(s \o r) = Events(s) \cup Events(r)
         /\ Sorted(s) /\ Sorted(r) /\ Older(Events(s), Events(r)) => Sorted(s \o r)
<1> DEFINE t == s \o r
<1>1. /\ Len(s) \in Nat /\ Len(r) \in Nat /\ t \in Seq(LineRef) /\ Len(t) = Len(s) + Len(r)
      /\ \A i \in 1..Len(s) : t[i] = s[i]
      /\ \A i \in 1..Len(r) : t[Len(s) + i] = r[i]
  OBVIOUS
<1> HIDE DEF t
<1>2. \A i \in 1..Len(t) : i \in 1..Len(s) \/ \E k \in 1..Len(r) : i = Len(s) + k
  <2> TAKE i \in 1..Len(t)
  <2>1. CASE i > Len(s)
    <3>1. i - Len(s) \in 1..Len(r) /\ i = Len(s) + (i - Len(s))
      BY <1>1, <2>1
    <3> QED BY <3>1
  <2> QED BY <1>1, <2>1
<1>3. \A e : e \in Events(t) <=> e \in Events(s) \/ e \in Events(r)
  <2> TAKE e
  <2>1. ASSUME e \in Events(t) PROVE e \in Events(s) \/ e \in Events(r)
    <3>1. PICK i \in 1..Len(t) : t[i].kind = "event" /\ t[i].arg = e
      BY <1>1, <2>1, EventsByElements
    <3>2. CASE i \in 1..Len(s)
      BY <1>1, <3>1, <3>2, EventsByElements
    <3>3. CASE \E k \in 1..Len(r) : i = Len(s) + k
      BY <1>1, <3>1, <3>3, EventsByElements
    <3> QED BY <1>2, <3>2, <3>3
  <2>2. ASSUME e \in Events(s) PROVE e \in Events(t)
    <3>1. PICK i \in 1..Len(s) : s[i].kind = "event" /\ s[i].arg = e
      BY <2>2, EventsByElements
    <3>2. i \in 1..Len(t) /\ t[i] = s[i]
      BY <1>1
    <3> QED BY <1>1, <3>1, <3>2, EventsByElements
  <2>3. ASSUME e \in Events(r) PROVE e \in Events(t)
    <3>1. PICK i \in 1..Len(r) : r[i].kind = "event" /\ r[i].arg = e
      BY <2>3, EventsByElements
    <3>2. Len(s) + i \in 1..Len(t) /\ t[Len(s) + i] = r[i]
      BY <1>1
    <3> QED BY <1>1, <3>1, <3>2, EventsByElements
  <2> QED BY <2>1, <2>2, <2>3
<1>4. ASSUME Sorted(s), Sorted(r), Older(Events(s), Events(r)) PROVE Sorted(t)
  <2>1. ASSUME NEW i \in 1..Len(t), NEW j \in 1..Len(t), i < j,
               t[i].kind = "event", t[j].kind = "event"
        PROVE  t[i].arg < t[j].arg
    <3>1. CASE j \in 1..Len(s)
      <4>1. i \in 1..Len(s)
        BY <1>1, <2>1, <3>1
      <4>2. s[i].arg < s[j].arg
        BY <1>1, <1>4, <2>1, <3>1, <4>1, SortedByElements
      <4> QED BY <1>1, <3>1, <4>1, <4>2
    <3>2. ASSUME NEW k \in 1..Len(r), j = Len(s) + k PROVE t[i].arg < t[j].arg
      <4>1. CASE i \in 1..Len(s)
        <5>1. t[i] = s[i] /\ t[j] = r[k]
          BY <1>1, <3>2, <4>1
        <5>2. t[i].arg \in Events(s)
          BY <2>1, <4>1, <5>1, EventsByElements
        <5>3. t[j].arg \in Events(r)
          BY <2>1, <5>1, EventsByElements
        <5> QED BY <1>4, <5>2, <5>3 DEF Older
      <4>2. ASSUME NEW m \in 1..Len(r), i = Len(s) + m PROVE t[i].arg < t[j].arg
        <5>1. m < k
          BY <1>1, <2>1, <3>2, <4>2
        <5>2. t[i] = r[m] /\ t[j] = r[k]
          BY <1>1, <3>2, <4>2
        <5>3. r[m].arg < r[k].arg
          BY <1>1, <1>4, <2>1, <5>1, <5>2, SortedByElements
        <5> QED BY <5>2, <5>3
      <4> QED BY <1>2, <4>1, <4>2
    <3> QED BY <1>2, <3>1, <3>2
  <2> QED BY <1>1, <2>1, EventsByElements
<1> QED BY <1>3, <1>4 DEF t

(* A part of a sequence.                                                   *)
LEMMA EventsPart ==
  ASSUME NEW s \in Seq(LineRef), NEW m \in Nat \ {0}, NEW n \in Int, n <= Len(s), n >= m - 1
  PROVE  /\ Events(SubSeq(s, m, n)) \subseteq Events(s)
         /\ Sorted(s) => Sorted(SubSeq(s, m, n))
<1> DEFINE t == SubSeq(s, m, n)
<1>1. t \in Seq(LineRef) /\ Len(t) = n - m + 1 /\ Len(s) \in Nat
  BY PartOf
<1>2. \A i \in 1..Len(t) : t[i] = s[m + i - 1] /\ m + i - 1 \in 1..Len(s)
  BY <1>1
<1> HIDE DEF t
<1>3. \A e \in Events(t) : e \in Events(s)
  <2> TAKE e \in Events(t)
  <2>1. PICK i \in 1..Len(t) : t[i].kind = "event" /\ t[i].arg = e
    BY <1>1, EventsByElements
  <2> DEFINE k == m + i - 1
  <2>2. k \in 1..Len(s) /\ s[k].kind = "event" /\ s[k].arg = e
    BY <1>2, <2>1
  <2> HIDE DEF k
  <2> QED BY <2>2, EventsByElements
<1>4. ASSUME Sorted(s) PROVE Sorted(t)
  <2>1. ASSUME NEW i \in 1..Len(t), NEW j \in 1..Len(t), i < j,
               t[i].kind = "event", t[j].kind = "event"
        PROVE  t[i].arg < t[j].arg
    <3> DEFINE k == m + i - 1
               l == m + j - 1
    <3>1. /\ k \in 1..Len(s) /\ l \in 1..Len(s) /\ k < l
          /\ t[i] = s[k] /\ t[j] = s[l]
      BY <1>1, <1>2, <2>1
    <3> HIDE DEF k, l
    <3>2. s[k].arg < s[l].arg
      BY <1>4, <2>1, <3>1, SortedByElements
    <3> QED BY <3>1, <3>2
  <2> QED BY <1>1, <2>1, EventsByElements
<1> QED BY <1>3, <1>4 DEF t

(* The first line of a sequence and the rest.                              *)
LEMMA EventsFirst ==
  ASSUME NEW s \in Seq(LineRef), s # <<>>
  PROVE  /\ Head(s) \in LineRef
         /\ Events(s) = EventOf(Head(s)) \cup Events(Tail(s))
         /\ Sorted(s) => Sorted(Tail(s)) /\ Older(EventOf(Head(s)), Events(Tail(s)))
<1> DEFINE t == Tail(s)
<1>1. /\ t \in Seq(LineRef) /\ Len(s) \in Nat /\ Len(s) > 0 /\ Len(t) = Len(s) - 1
      /\ Head(s) = s[1] /\ Head(s) \in LineRef
      /\ \A i \in 1..Len(t) : t[i] = s[i + 1] /\ i + 1 \in 1..Len(s)
  OBVIOUS
<1> HIDE DEF t
<1>2. \A e : e \in Events(s) <=> e \in EventOf(Head(s)) \/ e \in Events(t)
  <2> TAKE e
  <2>1. ASSUME e \in Events(s) PROVE e \in EventOf(Head(s)) \/ e \in Events(t)
    <3>1. PICK i \in 1..Len(s) : s[i].kind = "event" /\ s[i].arg = e
      BY <2>1, EventsByElements
    <3>2. CASE i = 1
      BY <1>1, <3>1, <3>2 DEF EventOf
    <3>3. CASE i # 1
      <4>1. i - 1 \in 1..Len(t) /\ (i - 1) + 1 = i
        BY <1>1, <3>3
      <4>2. t[i - 1] = s[i]
        BY <1>1, <4>1
      <4> QED BY <1>1, <3>1, <4>1, <4>2, EventsByElements
    <3> QED BY <3>2, <3>3
  <2>2. ASSUME e \in EventOf(Head(s)) PROVE e \in Events(s)
    <3>1. s[1].kind = "event" /\ s[1].arg = e /\ 1 \in 1..Len(s)
      BY <1>1, <2>2 DEF EventOf
    <3> QED BY <3>1, EventsByElements
  <2>3. ASSUME e \in Events(t) PROVE e \in Events(s)
    <3>1. PICK i \in 1..Len(t) : t[i].kind = "event" /\ t[i].arg = e
      BY <1>1, <2>3, EventsByElements
    <3> DEFINE k == i + 1
    <3>2. k \in 1..Len(s) /\ s[k].kind = "event" /\ s[k].arg = e
      BY <1>1, <3>1
    <3> HIDE DEF k
    <3> QED BY <3>2, EventsByElements
  <2> QED BY <2>1, <2>2, <2>3
<1>3. ASSUME Sorted(s) PROVE Sorted(t) /\ Older(EventOf(Head(s)), Events(t))
  <2>1. ASSUME NEW i \in 1..Len(t), NEW j \in 1..Len(t), i < j,
               t[i].kind = "event", t[j].kind = "event"
        PROVE  t[i].arg < t[j].arg
    <3> DEFINE k == i + 1
               l == j + 1
    <3>1. /\ k \in 1..Len(s) /\ l \in 1..Len(s) /\ k < l
          /\ t[i] = s[k] /\ t[j] = s[l]
      BY <1>1, <2>1
    <3> HIDE DEF k, l
    <3>2. s[k].arg < s[l].arg
      BY <1>3, <2>1, <3>1, SortedByElements
    <3> QED BY <3>1, <3>2
  <2>2. ASSUME NEW a \in EventOf(Head(s)), NEW b \in Events(t) PROVE a < b
    <3>1. PICK j \in 1..Len(t) : t[j].kind = "event" /\ t[j].arg = b
      BY <1>1, EventsByElements
    <3>2. s[1].kind = "event" /\ s[1].arg = a /\ 1 \in 1..Len(s)
      BY <1>1 DEF EventOf
    <3> DEFINE k == j + 1
    <3>3. 1 < k /\ k \in 1..Len(s) /\ s[k].kind = "event" /\ s[k].arg = b
      BY <1>1, <3>1
    <3> HIDE DEF k
    <3>4. s[1].arg < s[k].arg
      BY <1>3, <3>2, <3>3, SortedByElements
    <3> QED BY <3>2, <3>3, <3>4
  <2> QED BY <1>1, <2>1, <2>2, EventsByElements DEF Older
<1> QED BY <1>1, <1>2, <1>3 DEF t

(* The marks of the flush.                                                 *)
LEMMA EventsMarked ==
  ASSUME NEW s \in Seq(LineRef)
  PROVE  /\ Flushed(s) \in Seq(LineRef) /\ Unflushed(s) \in Seq(LineRef)
         /\ Events(Flushed(s)) = Events(s) /\ Events(Unflushed(s)) = Events(s)
         /\ Sorted(s) => Sorted(Flushed(s)) /\ Sorted(Unflushed(s))
<1>1. /\ Len(s) \in Nat /\ DOMAIN s = 1..Len(s)
      /\ \A i \in 1..Len(s) : s[i] \in LineRef
  BY SeqByElements
<1>2. \A l \in LineRef, b \in BOOLEAN :
        /\ [l EXCEPT !.flushed = b] \in LineRef
        /\ [l EXCEPT !.flushed = b].kind = l.kind /\ [l EXCEPT !.flushed = b].arg = l.arg
  BY DEF LineRef
<1>3. ASSUME NEW t \in Seq(LineRef), Len(t) = Len(s),
             \A i \in 1..Len(s) : t[i].kind = s[i].kind /\ t[i].arg = s[i].arg
      PROVE  Events(t) = Events(s) /\ (Sorted(s) => Sorted(t))
  <2>1. /\ \A e : e \in Events(s) <=> \E i \in 1..Len(s) : s[i].kind = "event" /\ s[i].arg = e
        /\ \A e : e \in Events(t) <=> \E i \in 1..Len(s) : t[i].kind = "event" /\ t[i].arg = e
    <3>1. \A e : e \in Events(s) <=> \E i \in 1..Len(s) : s[i].kind = "event" /\ s[i].arg = e
      BY EventsByElements
    <3>2. \A e : e \in Events(t) <=> \E i \in 1..Len(t) : t[i].kind = "event" /\ t[i].arg = e
      BY <1>3, EventsByElements
    <3> QED BY <1>3, <3>1, <3>2
  <2>0. \A e : e \in Events(t) <=> e \in Events(s)
    BY <1>3, <2>1
  <2>2. ASSUME Sorted(s) PROVE Sorted(t)
    <3>1. ASSUME NEW i \in 1..Len(t), NEW j \in 1..Len(t), i < j,
                 t[i].kind = "event", t[j].kind = "event"
          PROVE  t[i].arg < t[j].arg
      <4>1. s[i].arg < s[j].arg
        BY <1>3, <2>2, <3>1, SortedByElements
      <4> QED BY <1>3, <3>1, <4>1
    <3> QED BY <3>1, EventsByElements
  <2> QED BY <2>0, <2>2
<1>4. /\ Flushed(s) \in [1..Len(s) -> LineRef] /\ Unflushed(s) \in [1..Len(s) -> LineRef]
      /\ \A i \in 1..Len(s) : /\ Flushed(s)[i] = [s[i] EXCEPT !.flushed = TRUE]
                              /\ Unflushed(s)[i] = [s[i] EXCEPT !.flushed = FALSE]
  BY <1>1, <1>2 DEF Flushed, Unflushed
<1>0. ASSUME NEW t, t \in [1..Len(s) -> LineRef] PROVE t \in Seq(LineRef) /\ Len(t) = Len(s)
  BY <1>0, <1>1
<1>5. /\ Flushed(s) \in Seq(LineRef) /\ Len(Flushed(s)) = Len(s)
      /\ Unflushed(s) \in Seq(LineRef) /\ Len(Unflushed(s)) = Len(s)
  BY <1>0, <1>4
<1>6. \A i \in 1..Len(s) : /\ Flushed(s)[i].kind = s[i].kind /\ Flushed(s)[i].arg = s[i].arg
                           /\ Unflushed(s)[i].kind = s[i].kind /\ Unflushed(s)[i].arg = s[i].arg
  BY <1>1, <1>2, <1>4
<1> QED BY <1>3, <1>5, <1>6

---------------------------------------------------------------------------
(* What is under way *)

(* The fields the order is about are well formed.                          *)
FormOK ==
  /\ cEnd \in [Socket -> {"closed", "dialing", "refused", "open", "ended"}]
  /\ sEnd \in [Socket -> {"closed", "backlog", "open", "ended"}]
  /\ up \in [Socket -> Seq(LineRef)] /\ buffer \in Seq(LineRef)
  /\ conns \in Seq(Socket) /\ clients \subseteq Socket
  /\ sent \in Nat /\ got \in Nat
  /\ ClientOK /\ NoSocket \notin Socket /\ socket \in Socket \cup {NoSocket}

(* The invariant of the link says so.                                      *)
LEMMA Form == LinkInv => FormOK
BY Constants DEF LinkInv, TypeOK, FormOK, ConstOK

(* A step after which less is under way, in fewer places, keeps the order. *)
LEMMA LessUnderWay ==
  ASSUME EventsOrdered, got' = got, sent' = sent,
         Sorted(buffer'), Events(buffer') \subseteq Events(buffer),
         \A s \in Socket : Sorted(up'[s]) /\ Events(up'[s]) \subseteq Events(up[s]),
         \A s, t \in Socket : Before(s, t)' \/ (s # t /\ cEnd'[t] # "closed")
           => Before(s, t) \/ (s # t /\ cEnd[t] # "closed") \/ Events(up[t]) = {}
  PROVE  EventsOrdered'
<1>1. \A s \in Socket : /\ Events(up'[s]) \subseteq (got' + 1)..sent'
                        /\ Older(Events(up'[s]), Events(buffer'))
  BY DEF EventsOrdered, Older
<1>2. Events(buffer') \subseteq (got' + 1)..sent'
  BY DEF EventsOrdered
<1>3. ASSUME NEW s \in Socket, NEW t \in Socket,
             Before(s, t)' \/ (s # t /\ cEnd'[t] # "closed")
      PROVE  Older(Events(up'[s]), Events(up'[t]))
  <2>1. Older(Events(up[s]), Events(up[t]))
    BY <1>3 DEF EventsOrdered, Older
  <2> QED BY <2>1 DEF Older
<1>4. got' <= sent'
  BY DEF EventsOrdered
<1> QED BY <1>1, <1>2, <1>3, <1>4 DEF EventsOrdered

(* A step that sends a line that is no event changes no events.            *)
LEMMA OtherLineSent ==
  ASSUME FormOK, EventsOrdered, NEW l \in LineRef, l.kind # "event", Send(l)
  PROVE  /\ Sorted(buffer') /\ Events(buffer') \subseteq Events(buffer)
         /\ \A s \in Socket : Sorted(up'[s]) /\ Events(up'[s]) \subseteq Events(up[s])
<1>0. EventOf(l) = {} /\ \A A : Older(A, EventOf(l))
  BY DEF EventOf, Older
<1>1. Sorted(buffer) /\ \A s \in Socket : Sorted(up[s])
  BY DEF EventsOrdered
<1>2. CASE state = "connected" /\ socket # NoSocket
  <2>1. up' = [up EXCEPT ![socket] = Append(@, l)] /\ buffer' = buffer /\ socket \in Socket
    BY <1>2 DEF Send, FormOK
  <2>2. up[socket] \in Seq(LineRef)
    BY <2>1 DEF FormOK
  <2>3. Events(Append(up[socket], l)) = Events(up[socket]) /\ Sorted(Append(up[socket], l))
    BY <1>0, <1>1, <2>1, <2>2, EventsAppend
  <2> QED BY <1>1, <2>1, <2>3 DEF FormOK
<1>3. CASE ~(state = "connected" /\ socket # NoSocket)
  <2>1. Enqueue(l) /\ up' = up
    BY <1>3 DEF Send
  <2>2. buffer \in Seq(LineRef)
    BY DEF FormOK
  <2>3. CASE buffer' = Append(buffer, l)
    BY <1>0, <1>1, <2>1, <2>2, <2>3, EventsAppend
  <2>4. CASE ~(Len(buffer) < MaxBufferSize)
    <3>1. buffer' = Append(Tail(buffer), l) /\ buffer # <<>>
      BY <2>1, <2>2, <2>4, Constants, Nothing DEF Enqueue, ConstOK
    <3>2. /\ Tail(buffer) \in Seq(LineRef) /\ Sorted(Tail(buffer))
          /\ Events(Tail(buffer)) \subseteq Events(buffer)
      BY <1>1, <2>2, <3>1, EventsFirst
    <3> QED BY <1>0, <1>1, <2>1, <3>1, <3>2, EventsAppend
  <2> QED BY <2>1, <2>3, <2>4 DEF Enqueue
<1> QED BY <1>2, <1>3

(* Two sequences joined.                                                   *)
LEMMA Joined ==
  ASSUME NEW S, NEW a \in Seq(S), NEW b \in Seq(S)
  PROVE  /\ a \o b \in Seq(S) /\ Len(a \o b) = Len(a) + Len(b)
         /\ \A k \in 1..Len(a) : (a \o b)[k] = a[k]
         /\ \A k \in 1..Len(b) : (a \o b)[Len(a) + k] = b[k]
OBVIOUS

(* The connections after one is taken out.                                 *)
Without(c, i) == SubSeq(c, 1, i - 1) \o SubSeq(c, i + 1, Len(c))

(* Those before it keep their place, those behind it move up.              *)
LEMMA TakenOut ==
  ASSUME NEW c \in Seq(Socket), NEW i \in 1..Len(c)
  PROVE  /\ Without(c, i) \in Seq(Socket) /\ Len(Without(c, i)) = Len(c) - 1
         /\ \A k \in 1..(Len(c) - 1) : Without(c, i)[k] = IF k < i THEN c[k] ELSE c[k + 1]
<1>1. Len(c) \in Nat /\ i \in Nat \ {0} /\ i <= Len(c)
  OBVIOUS
<1> DEFINE a == SubSeq(c, 1, i - 1)
           b == SubSeq(c, i + 1, Len(c))
<1>2. a \in Seq(Socket) /\ Len(a) = i - 1 /\ b \in Seq(Socket) /\ Len(b) = Len(c) - i
  BY <1>1, PartOf
<1>3. /\ \A k \in 1..(i - 1) : a[k] = c[k]
      /\ \A k \in 1..(Len(c) - i) : b[k] = c[k + i]
  <2>1. \A k \in 1..(i - 1) : a[k] = c[k]
    BY <1>1
  <2>2. \A k \in 1..(Len(c) - i) : b[k] = c[(i + 1) + k - 1] /\ (i + 1) + k - 1 = k + i
    BY <1>1
  <2> QED BY <2>1, <2>2
<1> HIDE DEF a, b
<1> DEFINE d == Without(c, i)
<1>4. d = a \o b
  BY DEF a, b, Without
<1> HIDE DEF d
<1>5. /\ d \in Seq(Socket) /\ Len(d) = Len(a) + Len(b)
      /\ \A k \in 1..Len(a) : d[k] = a[k]
      /\ \A k \in 1..Len(b) : d[Len(a) + k] = b[k]
  <2>1. a \in Seq(Socket) /\ b \in Seq(Socket)
    BY <1>2
  <2>2. /\ a \o b \in Seq(Socket) /\ Len(a \o b) = Len(a) + Len(b)
        /\ \A k \in 1..Len(a) : (a \o b)[k] = a[k]
        /\ \A k \in 1..Len(b) : (a \o b)[Len(a) + k] = b[k]
    BY ONLY <2>1, Joined
  <2> QED BY <1>4, <2>2, Zenon
<1>7. ASSUME NEW k \in 1..(Len(c) - 1) PROVE d[k] = IF k < i THEN c[k] ELSE c[k + 1]
  <2>1. CASE k < i
    <3>1. k \in 1..Len(a)
      BY <1>1, <1>2, <2>1
    <3> QED BY <1>2, <1>3, <1>5, <2>1, <3>1
  <2>2. CASE ~(k < i)
    <3> DEFINE m == k - Len(a)
    <3>1. m \in 1..Len(b) /\ Len(a) + m = k /\ m + i = k + 1 /\ m \in 1..(Len(c) - i)
      BY <1>1, <1>2, <1>5, <2>2
    <3> HIDE DEF m
    <3>2. d[k] = b[m]
      BY <1>5, <3>1
    <3>3. b[m] = c[k + 1]
      BY <1>3, <3>1
    <3> QED BY <2>2, <3>2, <3>3
  <2> QED BY <2>1, <2>2
<1> QED BY <1>1, <1>2, <1>5, <1>7 DEF d

(* A connection is made.                                                   *)
LEMMA ConnectionMade ==
  ASSUME NEW s \in Socket, conns \in Seq(Socket), conns' = Append(conns, s)
  PROVE  /\ \A t : InConns(t)' <=> InConns(t) \/ t = s
         /\ \A t, u : Before(t, u)' <=> Before(t, u) \/ (InConns(t) /\ u = s)
         /\ (\A i, j \in DOMAIN conns : conns[i] = conns[j] => i = j) /\ ~InConns(s)
              => (\A i, j \in DOMAIN conns : conns[i] = conns[j] => i = j)'
<1>1. /\ Len(conns) \in Nat /\ DOMAIN conns = 1..Len(conns)
      /\ DOMAIN conns' = 1..(Len(conns) + 1)
      /\ \A i \in 1..Len(conns) : conns'[i] = conns[i]
      /\ conns'[Len(conns) + 1] = s
  OBVIOUS
<1>2. \A i \in 1..(Len(conns) + 1) : i \in 1..Len(conns) \/ i = Len(conns) + 1
  BY <1>1
<1>3. \A i \in 1..Len(conns) : i < Len(conns) + 1 /\ i \in 1..(Len(conns) + 1)
  BY <1>1
<1>4. Len(conns) + 1 \in 1..(Len(conns) + 1)
  BY <1>1
<1>5. \A t : InConns(t)' <=> InConns(t) \/ t = s
  BY <1>1, <1>2, <1>3, <1>4 DEF InConns
<1>6. ASSUME NEW t, NEW u PROVE Before(t, u)' <=> Before(t, u) \/ (InConns(t) /\ u = s)
  <2>1. ASSUME Before(t, u)' PROVE Before(t, u) \/ (InConns(t) /\ u = s)
    <3>1. PICK i \in 1..(Len(conns) + 1), j \in 1..(Len(conns) + 1) :
            i < j /\ conns'[i] = t /\ conns'[j] = u
      BY <1>1, <2>1 DEF Before
    <3>2. i \in 1..Len(conns)
      BY <1>1, <3>1
    <3> QED BY <1>1, <1>2, <3>1, <3>2 DEF Before, InConns
  <2>2. ASSUME Before(t, u) PROVE Before(t, u)'
    BY <1>1, <1>3, <2>2 DEF Before
  <2>3. ASSUME InConns(t), u = s PROVE Before(t, u)'
    BY <1>1, <1>3, <1>4, <2>3 DEF Before, InConns
  <2> QED BY <2>1, <2>2, <2>3
<1>7. ASSUME \A i, j \in DOMAIN conns : conns[i] = conns[j] => i = j, ~InConns(s)
      PROVE  (\A i, j \in DOMAIN conns : conns[i] = conns[j] => i = j)'
  BY <1>1, <1>2, <1>7 DEF InConns
<1> QED BY <1>5, <1>6, <1>7

(* A connection is given up.                                               *)
LEMMA ConnectionGone ==
  ASSUME NEW s \in Socket, conns \in Seq(Socket), NEW i \in DOMAIN conns, conns[i] = s,
         conns' = SubSeq(conns, 1, i - 1) \o SubSeq(conns, i + 1, Len(conns)),
         \A j, k \in DOMAIN conns : conns[j] = conns[k] => j = k
  PROVE  /\ \A t : InConns(t)' <=> InConns(t) /\ t # s
         /\ \A t, u : Before(t, u)' => Before(t, u)
         /\ (\A j, k \in DOMAIN conns : conns[j] = conns[k] => j = k)'
<1>1. Len(conns) \in Nat /\ DOMAIN conns = 1..Len(conns) /\ i \in 1..Len(conns)
  OBVIOUS
<1> DEFINE At(k) == IF k < i THEN k ELSE k + 1
<1>2. /\ DOMAIN conns' = 1..(Len(conns) - 1)
      /\ \A k \in 1..(Len(conns) - 1) : conns'[k] = conns[At(k)]
  <2>1. conns' = Without(conns, i)
    BY DEF Without
  <2>2. /\ Without(conns, i) \in Seq(Socket) /\ Len(Without(conns, i)) = Len(conns) - 1
        /\ \A k \in 1..(Len(conns) - 1) :
             Without(conns, i)[k] = IF k < i THEN conns[k] ELSE conns[k + 1]
    BY <1>1, TakenOut, Zenon
  <2> QED BY ONLY <1>1, <2>1, <2>2 DEF At
<1>3. \A k \in 1..(Len(conns) - 1) : At(k) \in 1..Len(conns) /\ At(k) # i
  BY <1>1
<1>4. \A j, k \in 1..(Len(conns) - 1) : (j < k => At(j) < At(k)) /\ (At(j) = At(k) => j = k)
  <2>1. \A j, k \in Int : j < k => At(j) < At(k)
    OBVIOUS
  <2>2. \A j, k \in Int : At(j) = At(k) => j = k
    BY <1>1
  <2> QED BY <1>1, <2>1, <2>2
<1>5. \A n \in 1..Len(conns) : n # i => \E k \in 1..(Len(conns) - 1) : At(k) = n
  <2> TAKE n \in 1..Len(conns)
  <2> HAVE n # i
  <2>1. CASE n < i
    <3>1. n \in 1..(Len(conns) - 1) /\ At(n) = n
      BY <1>1, <2>1
    <3> QED BY <3>1
  <2>2. CASE ~(n < i)
    <3>1. n - 1 \in 1..(Len(conns) - 1) /\ At(n - 1) = n
      BY <1>1, <2>2
    <3> QED BY <3>1
  <2> QED BY <2>1, <2>2
<1> HIDE DEF At
<1>6. \A t : InConns(t)' <=> InConns(t) /\ t # s
  <2> TAKE t
  <2>1. ASSUME InConns(t)' PROVE InConns(t) /\ t # s
    <3>1. PICK k \in 1..(Len(conns) - 1) : conns'[k] = t
      BY <1>2, <2>1 DEF InConns
    <3>2. At(k) \in DOMAIN conns /\ At(k) # i /\ conns[At(k)] = t
      BY <1>1, <1>2, <1>3, <3>1
    <3> QED BY <3>2 DEF InConns
  <2>2. ASSUME InConns(t), t # s PROVE InConns(t)'
    <3>1. PICK n \in 1..Len(conns) : conns[n] = t
      BY <1>1, <2>2 DEF InConns
    <3>2. PICK k \in 1..(Len(conns) - 1) : At(k) = n
      BY <1>5, <2>2, <3>1
    <3> QED BY <1>2, <3>1, <3>2 DEF InConns
  <2> QED BY <2>1, <2>2
<1>7. ASSUME NEW t, NEW u, Before(t, u)' PROVE Before(t, u)
  <2>1. PICK j \in 1..(Len(conns) - 1), k \in 1..(Len(conns) - 1) :
          j < k /\ conns'[j] = t /\ conns'[k] = u
    BY <1>2, <1>7 DEF Before
  <2>2. At(j) < At(k) /\ conns[At(j)] = t /\ conns[At(k)] = u
    BY <1>2, <1>4, <2>1
  <2>3. At(j) \in DOMAIN conns /\ At(k) \in DOMAIN conns
    BY <1>1, <1>3
  <2> QED BY <2>2, <2>3 DEF Before
<1>8. (\A j, k \in DOMAIN conns : conns[j] = conns[k] => j = k)'
  <2>1. ASSUME NEW j \in 1..(Len(conns) - 1), NEW k \in 1..(Len(conns) - 1),
               conns'[j] = conns'[k]
        PROVE  j = k
    <3>1. conns[At(j)] = conns[At(k)] /\ At(j) \in DOMAIN conns /\ At(k) \in DOMAIN conns
      BY <1>1, <1>2, <1>3, <2>1
    <3> QED BY <1>4, <3>1
  <2> QED BY <1>2, <2>1
<1> QED BY <1>6, <1>7, <1>8

(* Connections that stay.                                                  *)
LEMMA ConnsStay ==
  ASSUME ConnsOK, conns' = conns, \A s \in Socket : sEnd'[s] = "closed" <=> sEnd[s] = "closed",
         clients \subseteq Socket, \A s \in clients' : s \in clients \/ sEnd'[s] # "closed",
         \A s \in Socket : cEnd[s] = "closed" => cEnd'[s] = "closed"
  PROVE  ConnsOK' /\ \A s, t : Before(s, t)' <=> Before(s, t)
BY DEF ConnsOK, InConns, Before

(* A step after which no more is under way and the client's connections    *)
(* are the same.                                                           *)
LEMMA QuietStep ==
  ASSUME OrderInv, UNCHANGED <<phase, state, socket, timer, cEnd, conns, sent, got>>,
         clients \subseteq Socket,
         \A s \in Socket : sEnd'[s] = "closed" <=> sEnd[s] = "closed",
         \A s \in clients' : s \in clients \/ sEnd'[s] # "closed",
         Sorted(buffer'), Events(buffer') \subseteq Events(buffer),
         \A s \in Socket : Sorted(up'[s]) /\ Events(up'[s]) \subseteq Events(up[s])
  PROVE  OrderInv'
<1>1. OneConnection'
  BY DEF OrderInv, OneConnection
<1>2. ConnsOK' /\ \A s, t : Before(s, t)' <=> Before(s, t)
  BY ConnsStay DEF OrderInv
<1>3. PlacesOK'
  BY DEF OrderInv, PlacesOK
<1>4. EventsOrdered'
  BY <1>2, LessUnderWay DEF OrderInv
<1> QED BY <1>1, <1>2, <1>3, <1>4 DEF OrderInv

---------------------------------------------------------------------------
(* The order, step by step *)

(* A new connection is the last one, and carries nothing yet.              *)
LEMMA DialOrdered ==
  ASSUME FormOK, OrderInv, Dial, \A s \in Socket : cEnd[s] = "closed",
         phase' # "idle", timer' = FALSE, UNCHANGED <<buffer, clients, sent, got>>
  PROVE  OrderInv'
<1>1. PICK s \in Socket :
        /\ sEnd[s] = "closed"
        /\ state' = "connecting" /\ socket' = s
        /\ cEnd' = [cEnd EXCEPT ![s] = IF listening THEN "dialing" ELSE "refused"]
        /\ sEnd' = [sEnd EXCEPT ![s] = IF listening THEN "backlog" ELSE "closed"]
        /\ conns' = IF listening THEN Append(conns, s) ELSE conns
        /\ UNCHANGED <<up, down>>
  BY DEF Dial
<1>2. Events(up[s]) = {}
  BY <1>1 DEF OrderInv, PlacesOK
<1>3. \A t \in Socket : cEnd'[t] # "closed" => t = s
  BY <1>1 DEF FormOK
<1>4. OneConnection'
  <2>1. state' # "connected"
    BY <1>1
  <2> QED BY <1>1, <1>3, <2>1 DEF OneConnection
<1>5. ConnsOK' /\ \A t, u \in Socket : Before(t, u)' => Before(t, u) \/ u = s
  <2>1. CASE ~listening
    <3>1. conns' = conns /\ \A t \in Socket : sEnd'[t] = sEnd[t]
      BY <1>1, <2>1 DEF FormOK
    <3>2. \A t, u \in Socket : Before(t, u)' => Before(t, u)
      BY <3>1 DEF Before
    <3>3. \A t, u \in Socket : Before(t, u) => t # s
      BY <1>1 DEF OrderInv, ConnsOK, Before, InConns
    <3> QED BY <1>3, <3>1, <3>2, <3>3 DEF OrderInv, ConnsOK, InConns, FormOK
  <2>2. CASE listening
    <3>0. conns \in Seq(Socket) /\ conns' = Append(conns, s) /\ ~InConns(s)
      BY <1>1, <2>2 DEF FormOK, OrderInv, ConnsOK
    <3>1. /\ \A t : InConns(t)' <=> InConns(t) \/ t = s
          /\ \A t, u : Before(t, u)' <=> Before(t, u) \/ (InConns(t) /\ u = s)
          /\ (\A i, j \in DOMAIN conns : conns[i] = conns[j] => i = j)'
      BY <3>0, ConnectionMade DEF OrderInv, ConnsOK
    <3>2. \A t \in Socket : sEnd'[t] # "closed" <=> sEnd[t] # "closed" \/ t = s
      BY <1>1, <2>2 DEF FormOK
    <3>3. \A t, u : Before(t, u) => InConns(t)
      BY DEF Before, InConns
    <3>4. \A t, u \in Socket : Before(t, u)' => cEnd'[t] = "closed"
      BY <1>3, <3>0, <3>1, <3>3
    <3>5. \A t \in Socket : InConns(t)' <=> sEnd'[t] # "closed"
      BY <3>1, <3>2 DEF OrderInv, ConnsOK
    <3>6. \A t \in clients' : sEnd'[t] # "closed"
      BY <3>2 DEF OrderInv, ConnsOK, FormOK
    <3> QED BY <3>1, <3>4, <3>5, <3>6 DEF ConnsOK
  <2> QED BY <2>1, <2>2
<1>6. PlacesOK'
  BY <1>1, <1>2 DEF OrderInv, PlacesOK, FormOK
<1>7. EventsOrdered'
  <2>1. \A t, u \in Socket : Before(t, u)' \/ (t # u /\ cEnd'[u] # "closed")
          => Before(t, u) \/ Events(up[u]) = {}
    BY <1>2, <1>3, <1>5
  <2> QED BY <1>1, <2>1, LessUnderWay DEF OrderInv, EventsOrdered
<1> QED BY <1>4, <1>5, <1>6, <1>7 DEF OrderInv

(* connect is called once in the life of a process.                        *)
LEMMA ConnectOrdered ==
  ASSUME LinkInv, ~MayReopen, OrderInv, Connect
  PROVE  OrderInv'
<1>0. FormOK
  BY Form
<1>1. phase = "idle"
  BY DEF Connect
<1>2. (\A s \in Socket : cEnd[s] = "closed") /\ ~timer
  BY <1>1 DEF OrderInv, OneConnection
<1>3. state \notin {"connected", "connecting"}
  BY <1>0, <1>2 DEF FormOK, ClientOK
<1>4. Dial
  BY <1>3 DEF Connect
<1>5. phase' # "idle" /\ timer' = FALSE /\ UNCHANGED <<buffer, clients, sent, got>>
  BY <1>2 DEF Connect, eventVars, LinkInv, TypeOK
<1> QED BY <1>0, <1>2, <1>4, <1>5, DialOrdered

(* The timer fires only when there is no connection.                       *)
LEMMA TimerOrdered ==
  ASSUME LinkInv, OrderInv, ReconnectTimer
  PROVE  OrderInv'
<1>0. FormOK
  BY Form
<1>1. \A s \in Socket : cEnd[s] = "closed"
  BY DEF ReconnectTimer, OrderInv, OneConnection
<1>2. state \notin {"connected", "connecting"}
  BY <1>0, <1>1 DEF FormOK, ClientOK
<1>3. Dial
  BY <1>2 DEF ReconnectTimer
<1>4. phase' # "idle" /\ timer' = FALSE /\ UNCHANGED <<buffer, clients, sent, got>>
  BY DEF ReconnectTimer, eventVars, OrderInv, OneConnection
<1> QED BY <1>0, <1>1, <1>3, <1>4, DialOrdered

(* What a process leaves behind is the beginning of what it wrote.         *)
LEMMA EndOrdered ==
  ASSUME LinkInv, OrderInv, ProcessEnds
  PROVE  OrderInv'
<1>0. FormOK
  BY Form
<1>1. PICK k \in 0..(IF socket = NoSocket THEN 0 ELSE Len(up[socket])) :
        up' = [s \in Socket |-> IF sEnd[s] = "closed" THEN <<>>
                                ELSE IF s = socket THEN SubSeq(up[s], 1, k)
                                ELSE up[s]]
  BY DEF ProcessEnds
<1>2. /\ phase' = "idle" /\ state' = "disconnected" /\ timer' = FALSE /\ buffer' = <<>>
      /\ cEnd' = [s \in Socket |-> "closed"]
      /\ UNCHANGED <<sEnd, conns, clients, sent, got>>
  BY DEF ProcessEnds, serverVars, eventVars
<1>3. OneConnection'
  BY <1>2 DEF OneConnection
<1>4. ConnsOK' /\ \A s, t : Before(s, t)' <=> Before(s, t)
  BY <1>0, <1>2, ConnsStay DEF OrderInv, FormOK
<1>5. ASSUME NEW s \in Socket
      PROVE  Sorted(up'[s]) /\ Events(up'[s]) \subseteq Events(up[s])
  <2>1. CASE sEnd[s] = "closed"
    BY <1>1, <2>1, NoEvents
  <2>2. CASE sEnd[s] # "closed" /\ s = socket
    <3>1. up[s] \in Seq(LineRef) /\ Len(up[s]) \in Nat /\ k \in 0..Len(up[s])
      BY <1>0, <2>2, SeqByElements DEF FormOK
    <3>2. up'[s] = SubSeq(up[s], 1, k)
      BY <1>1, <2>2
    <3>3. Sorted(up[s])
      BY DEF OrderInv, EventsOrdered
    <3> QED BY <3>1, <3>2, <3>3, EventsPart
  <2>3. CASE sEnd[s] # "closed" /\ s # socket
    BY <1>1, <2>3 DEF OrderInv, EventsOrdered
  <2> QED BY <2>1, <2>2, <2>3
<1>6. PlacesOK'
  BY <1>1, <1>2, NoEvents DEF PlacesOK
<1>7. EventsOrdered'
  BY <1>2, <1>4, <1>5, NoEvents, LessUnderWay DEF OrderInv
<1> QED BY <1>3, <1>4, <1>6, <1>7 DEF OrderInv

(* The buffer is written behind nothing, on the connection just made.      *)
LEMMA OnConnectOrdered ==
  ASSUME LinkInv, OrderInv, NEW s \in Socket, OnConnect(s)
  PROVE  OrderInv'
<1>0. FormOK
  BY Form
<1>1. CASE socket = NoSocket
  BY <1>1, EndOrdered DEF OnConnect
<1>2. CASE socket # NoSocket
  <2>1. /\ cEnd[s] = "dialing"
        /\ state' = "connected"
        /\ cEnd' = [cEnd EXCEPT ![s] = "open"]
        /\ up' = [up EXCEPT ![socket] = @ \o Greeting]
        /\ buffer' = <<>>
        /\ UNCHANGED <<phase, socket, timer, sEnd, conns, clients, sent, got>>
    BY <1>2 DEF OnConnect, BufferAfterFlush, serverVars, eventVars
  <2>2. socket = s
    BY <1>0, <1>2, <2>1 DEF FormOK, ClientOK, OrderInv, OneConnection
  <2>3. /\ up[s] \in Seq(LineRef) /\ buffer \in Seq(LineRef)
        /\ Sorted(up[s]) /\ Sorted(buffer) /\ Events(up[s]) = {}
    BY <1>0, <2>1 DEF FormOK, OrderInv, EventsOrdered, PlacesOK
  <2>4. up'[s] = up[s] \o Greeting /\ \A t \in Socket : t # s => up'[t] = up[t]
    BY <1>0, <2>1, <2>2 DEF FormOK
  <2>5. Events(up'[s]) = Events(buffer) /\ Sorted(up'[s])
    <3> DEFINE hello == Plain("connect", 0)
               c == Append(<<>>, hello)
    <3>1. c \in Seq(LineRef) /\ Events(c) = {} /\ Sorted(c)
      <4>1. hello \in LineRef /\ EventOf(hello) = {}
        BY DEF Plain, Line, LineRef, EventOf
      <4>2. <<>> \in Seq(LineRef) /\ Older(Events(<<>>), {}) /\ Events(<<>>) = {} /\ Sorted(<<>>)
        BY NoEvents, Nothing DEF Older
      <4> HIDE DEF hello
      <4>3. c \in Seq(LineRef)
        BY <4>1
      <4>4. Events(c) = Events(<<>>) \cup EventOf(hello) /\ Sorted(c)
        BY <4>1, <4>2, EventsAppend
      <4> QED BY <4>1, <4>2, <4>3, <4>4
    <3>2. /\ Flushed(buffer) \in Seq(LineRef) /\ Events(Flushed(buffer)) = Events(buffer)
          /\ Sorted(Flushed(buffer))
      BY <2>3, EventsMarked
    <3>3. Greeting = c \o Flushed(buffer)
      BY DEF Greeting
    <3> HIDE DEF c
    <3>4. Events(Greeting) = Events(buffer) /\ Sorted(Greeting) /\ Greeting \in Seq(LineRef)
      <4>1. Older(Events(c), Events(Flushed(buffer)))
        BY <3>1 DEF Older
      <4>2. Events(Greeting) = Events(c) \cup Events(Flushed(buffer)) /\ Sorted(Greeting)
        BY <3>1, <3>2, <3>3, <4>1, EventsConcat
      <4> QED BY <3>1, <3>2, <3>3, <4>2, Joined
    <3>5. Older(Events(up[s]), Events(Greeting))
      BY <2>3 DEF Older
    <3>6. Events(up[s] \o Greeting) = Events(up[s]) \cup Events(Greeting) /\ Sorted(up[s] \o Greeting)
      BY <2>3, <3>4, <3>5, EventsConcat
    <3> QED BY <2>3, <2>4, <3>4, <3>6
  <2>6. OneConnection'
    BY <1>0, <2>1, <2>2 DEF FormOK, OrderInv, OneConnection
  <2>7. ConnsOK' /\ \A t, u : Before(t, u)' <=> Before(t, u)
    BY <1>0, <2>1, ConnsStay DEF OrderInv, FormOK
  <2>8. PlacesOK'
    BY <1>0, <2>1, <2>4, NoEvents DEF FormOK, OrderInv, PlacesOK
  <2>9. EventsOrdered'
    <3>1. \A t \in Socket : cEnd'[t] # "closed" <=> cEnd[t] # "closed"
      BY <1>0, <2>1 DEF FormOK
    <3>2. \A t \in Socket : /\ Sorted(up'[t]) /\ Events(up'[t]) \subseteq (got' + 1)..sent'
                            /\ Older(Events(up'[t]), Events(buffer'))
      BY <2>1, <2>4, <2>5, NoEvents DEF OrderInv, EventsOrdered, Older
    <3>3. ASSUME NEW t \in Socket, NEW u \in Socket,
                 Before(t, u)' \/ (t # u /\ cEnd'[u] # "closed")
          PROVE  Older(Events(up'[t]), Events(up'[u]))
      <4>0. Before(t, u) \/ (t # u /\ cEnd[u] # "closed")
        BY <2>7, <3>1, <3>3
      <4>1. t # s
        <5>1. CASE Before(t, u)
          BY <2>1, <5>1 DEF OrderInv, ConnsOK
        <5>2. CASE t # u /\ cEnd[u] # "closed"
          BY <2>1, <5>2 DEF OrderInv, OneConnection
        <5> QED BY <4>0, <5>1, <5>2
      <4>2. CASE u = s
        BY <2>4, <2>5, <4>1, <4>2 DEF OrderInv, EventsOrdered
      <4>3. CASE u # s
        BY <2>4, <4>0, <4>1, <4>3 DEF OrderInv, EventsOrdered
      <4> QED BY <4>2, <4>3
    <3>4. got' <= sent'
      BY <2>1 DEF OrderInv, EventsOrdered
    <3> QED BY <2>1, <3>2, <3>3, <3>4, NoEvents DEF EventsOrdered
  <2> QED BY <2>6, <2>7, <2>8, <2>9 DEF OrderInv
<1> QED BY <1>1, <1>2

(* A refused connection never carried an event.                            *)
LEMMA OnErrorOrdered ==
  ASSUME LinkInv, OrderInv, NEW s \in Socket, OnError(s)
  PROVE  OrderInv'
<1>0. FormOK
  BY Form
<1>1. CASE socket = NoSocket
  BY <1>1, EndOrdered DEF OnError
<1>2. CASE socket # NoSocket
  <2>1. /\ cEnd[s] = "refused" /\ state' = "disconnected" /\ timer' = TRUE
        /\ cEnd' = [cEnd EXCEPT ![s] = "closed"]
        /\ UNCHANGED <<phase, buffer, sEnd, up, conns, clients, sent, got>>
    BY <1>2 DEF OnError, ScheduleReconnect, serverVars, eventVars
  <2>2. \A t \in Socket : cEnd'[t] = "closed"
    BY <1>0, <2>1 DEF FormOK, OrderInv, OneConnection
  <2>3. OneConnection'
    <3>1. phase # "idle"
      BY <2>1 DEF OrderInv, OneConnection
    <3> QED BY <2>1, <2>2, <3>1 DEF OneConnection
  <2>4. ConnsOK' /\ \A t, u : Before(t, u)' <=> Before(t, u)
    BY <1>0, <2>1, <2>2, ConnsStay DEF OrderInv, FormOK
  <2>5. PlacesOK'
    BY <1>0, <2>1, <2>2 DEF FormOK, OrderInv, PlacesOK
  <2>6. EventsOrdered'
    BY <2>1, <2>2, <2>4, LessUnderWay DEF OrderInv, EventsOrdered
  <2> QED BY <2>3, <2>4, <2>5, <2>6 DEF OrderInv
<1> QED BY <1>1, <1>2

(* What is put back was the newest under way, and the buffer held no event.*)
LEMMA OnCloseOrdered ==
  ASSUME LinkInv, OrderInv, NEW s \in Socket, OnClose(s)
  PROVE  OrderInv'
<1>0. FormOK
  BY Form
<1>1. /\ cEnd[s] \in {"open", "ended"} /\ sEnd[s] \in {"ended", "closed"}
      /\ cEnd' = [cEnd EXCEPT ![s] = "closed"]
      /\ state' # "connected" /\ timer' = TRUE
      /\ UNCHANGED <<phase, sEnd, conns, clients, sent, got>>
  BY DEF OnClose, ScheduleReconnect, serverVars, eventVars
<1>2. \A t \in Socket : cEnd'[t] = "closed"
  BY <1>0, <1>1 DEF FormOK, OrderInv, OneConnection
<1>3. OneConnection'
  <2>1. phase # "idle"
    BY <1>1 DEF OrderInv, OneConnection
  <2> QED BY <1>1, <1>2, <2>1 DEF OneConnection
<1>4. ConnsOK' /\ \A t, u : Before(t, u)' <=> Before(t, u)
  BY <1>0, <1>1, <1>2, ConnsStay DEF OrderInv, FormOK
<1>5. CASE sEnd[s] = "ended"
  <2>1. UNCHANGED <<up, buffer>>
    BY <1>5 DEF OnClose
  <2>2. PlacesOK'
    BY <1>0, <1>1, <1>2, <1>5, <2>1 DEF FormOK, OrderInv, PlacesOK
  <2>3. EventsOrdered'
    BY <1>1, <1>2, <1>4, <2>1, LessUnderWay DEF OrderInv, EventsOrdered
  <2> QED BY <1>3, <1>4, <2>2, <2>3 DEF OrderInv
<1>6. CASE sEnd[s] = "closed"
  <2>1. PICK i \in 1..Len(up[s]) + 1 : up' = [up EXCEPT ![s] = <<>>] /\ Rebuffer(s, i)
    BY <1>6 DEF OnClose
  <2>2. /\ up[s] \in Seq(LineRef) /\ buffer \in Seq(LineRef) /\ Len(up[s]) \in Nat
        /\ Len(buffer) \in Nat /\ Len(buffer) <= MaxBufferSize /\ MaxBufferSize \in Nat
    BY <1>0, Constants DEF FormOK, LinkInv, TypeOK, ConstOK
  <2>3. up'[s] = <<>> /\ \A t \in Socket : t # s => up'[t] = up[t]
    BY <1>0, <2>1 DEF FormOK
  <2> DEFINE room == MaxBufferSize - Len(buffer)
  <2>4. PICK j \in (i - 1)..Len(up[s]) :
          LET last == IF j - i < room THEN j ELSE i + room - 1
          IN  buffer' = buffer \o Unflushed(SubSeq(up[s], i, last))
    BY <2>1 DEF Rebuffer
  <2> DEFINE last == IF j - i < room THEN j ELSE i + room - 1
             back == SubSeq(up[s], i, last)
  <2>5. /\ last \in Int /\ last <= Len(up[s]) /\ last >= i - 1 /\ i \in Nat \ {0}
        /\ buffer' = buffer \o Unflushed(back)
    BY <2>2, <2>4
  <2> HIDE DEF last
  <2>6. /\ back \in Seq(LineRef) /\ Events(back) \subseteq Events(up[s]) /\ Sorted(back)
    BY <2>2, <2>5, PartOf, EventsPart DEF OrderInv, EventsOrdered
  <2> HIDE DEF back
  <2>7. /\ Unflushed(back) \in Seq(LineRef) /\ Events(Unflushed(back)) = Events(back)
        /\ Sorted(Unflushed(back))
    BY <2>6, EventsMarked
  <2>8. Events(buffer) = {} /\ Sorted(buffer)
    BY <1>1 DEF OrderInv, PlacesOK, EventsOrdered
  <2>9. Older(Events(buffer), Events(Unflushed(back)))
    BY <2>8 DEF Older
  <2>10. Events(buffer') = Events(buffer) \cup Events(Unflushed(back)) /\ Sorted(buffer')
    BY <2>2, <2>5, <2>7, <2>8, <2>9, EventsConcat
  <2>11. Events(buffer') \subseteq Events(up[s])
    BY <2>6, <2>7, <2>8, <2>10
  <2>12. PlacesOK'
    BY <1>0, <1>1, <1>2, <2>3, NoEvents DEF FormOK, OrderInv, PlacesOK
  <2>13. \A t \in Socket : /\ Sorted(up'[t]) /\ Events(up'[t]) \subseteq (got' + 1)..sent'
                           /\ Older(Events(up'[t]), Events(buffer'))
    <3> TAKE t \in Socket
    <3>1. CASE t = s
      BY <2>3, <3>1, NoEvents DEF Older
    <3>2. CASE t # s
      <4>1. Older(Events(up[t]), Events(up[s]))
        BY <1>1, <3>2 DEF OrderInv, EventsOrdered
      <4> QED BY <1>1, <2>3, <2>11, <3>2, <4>1 DEF OrderInv, EventsOrdered, Older
    <3> QED BY <3>1, <3>2
  <2>14. \A t, u \in Socket : Before(t, u)' \/ (t # u /\ cEnd'[u] # "closed")
            => Older(Events(up'[t]), Events(up'[u]))
    BY <1>2, <1>4, <2>3, NoEvents DEF OrderInv, EventsOrdered, Older
  <2>15. Events(buffer') \subseteq (got' + 1)..sent'
    BY <1>1, <2>11 DEF OrderInv, EventsOrdered
  <2>16. got' <= sent'
    BY <1>1 DEF OrderInv, EventsOrdered
  <2>17. EventsOrdered'
    BY <2>10, <2>13, <2>14, <2>15, <2>16 DEF EventsOrdered
  <2> QED BY <1>3, <1>4, <2>12, <2>17 DEF OrderInv
<1> QED BY <1>1, <1>5, <1>6

(* A stop says goodbye on the one connection there is.                     *)
LEMMA DisconnectOrdered ==
  ASSUME LinkInv, OrderInv, Disconnect
  PROVE  OrderInv'
<1>0. FormOK
  BY Form
<1>1. /\ phase' = "stopped" /\ state' = "disconnected" /\ timer' = FALSE
      /\ UNCHANGED <<buffer, sEnd, conns, clients, sent, got>>
  BY DEF Disconnect, serverVars, eventVars
<1>2. /\ \A t \in Socket : cEnd'[t] = cEnd[t] \/ (cEnd[t] = "open" /\ cEnd'[t] = "ended")
      /\ \A t \in Socket : Sorted(up'[t]) /\ Events(up'[t]) \subseteq Events(up[t])
  <2>1. CASE socket = NoSocket
    BY <2>1 DEF Disconnect, OrderInv, EventsOrdered
  <2>2. CASE socket # NoSocket
    <3> DEFINE bye == Plain("disconnect", 0)
    <3>1. bye \in LineRef /\ EventOf(bye) = {}
      BY DEF Plain, Line, LineRef, EventOf
    <3>2. /\ up' = [up EXCEPT ![socket] = Append(@, bye)]
          /\ cEnd' = [cEnd EXCEPT ![socket] = IF @ = "open" THEN "ended" ELSE @]
          /\ socket \in Socket /\ up[socket] \in Seq(LineRef)
      BY <1>0, <2>2 DEF Disconnect, FormOK
    <3>3. Sorted(up[socket]) /\ Older(Events(up[socket]), EventOf(bye))
      BY <3>1, <3>2 DEF OrderInv, EventsOrdered, Older
    <3> HIDE DEF bye
    <3>4. /\ Sorted(Append(up[socket], bye))
          /\ Events(Append(up[socket], bye)) = Events(up[socket]) \cup EventOf(bye)
      BY <3>1, <3>2, <3>3, EventsAppend
    <3>5. \A t \in Socket : Sorted(up'[t]) /\ Events(up'[t]) \subseteq Events(up[t])
      BY <1>0, <3>1, <3>2, <3>4 DEF FormOK, OrderInv, EventsOrdered
    <3> QED BY <1>0, <3>2, <3>5 DEF FormOK
  <2> QED BY <2>1, <2>2
<1>3. OneConnection'
  BY <1>1, <1>2 DEF OrderInv, OneConnection
<1>4. ConnsOK' /\ \A t, u : Before(t, u)' <=> Before(t, u)
  BY <1>0, <1>1, <1>2, ConnsStay DEF OrderInv, FormOK
<1>5. PlacesOK'
  BY <1>1, <1>2 DEF OrderInv, PlacesOK
<1>6. EventsOrdered'
  <2>1. \A t, u \in Socket : Before(t, u)' \/ (t # u /\ cEnd'[u] # "closed")
          => Before(t, u) \/ (t # u /\ cEnd[u] # "closed")
    BY <1>2, <1>4
  <2> QED BY <1>1, <1>2, <2>1, LessUnderWay DEF OrderInv, EventsOrdered
<1> QED BY <1>3, <1>4, <1>5, <1>6 DEF OrderInv

(* An event goes behind all others, to the buffer or to the connection.    *)
LEMMA SendEventOrdered ==
  ASSUME LinkInv, OrderInv, SendEvent
  PROVE  OrderInv'
<1>0. FormOK
  BY Form
<1> DEFINE e == sent + 1
           line == Event(e)
<1>1. /\ phase = "started" /\ sent' = e /\ Send(line)
      /\ UNCHANGED <<phase, state, socket, timer, cEnd, sEnd, conns, clients, got>>
  BY DEF SendEvent, serverVars
<1>2. line \in LineRef /\ EventOf(line) = {e} /\ sent \in Nat /\ got \in Nat
  BY <1>0 DEF FormOK, Event, Plain, Line, LineRef, EventOf
<1>3. /\ \A t \in Socket : Older(Events(up[t]), {e})
      /\ Older(Events(buffer), {e})
      /\ \A t \in Socket : Events(up[t]) \subseteq (got + 1)..e
      /\ Events(buffer) \subseteq (got + 1)..e
  BY <1>2 DEF OrderInv, EventsOrdered, Older
<1>8. got' <= sent'
  BY <1>1, <1>2 DEF OrderInv, EventsOrdered
<1>4. OneConnection'
  BY <1>1 DEF OrderInv, OneConnection
<1>5. ConnsOK' /\ \A t, u : Before(t, u)' <=> Before(t, u)
  BY <1>0, <1>1, ConnsStay DEF OrderInv, FormOK
<1>6. CASE state = "connected" /\ socket # NoSocket
  <2>1. /\ up' = [up EXCEPT ![socket] = Append(@, line)] /\ buffer' = buffer
        /\ socket \in Socket /\ cEnd[socket] = "open" /\ up[socket] \in Seq(LineRef)
    BY <1>0, <1>1, <1>6 DEF Send, FormOK, OrderInv, OneConnection
  <2>2. Events(buffer) = {} /\ Sorted(up[socket]) /\ Sorted(buffer)
    BY <2>1 DEF OrderInv, PlacesOK, EventsOrdered
  <2> HIDE DEF line
  <2>3. /\ Events(Append(up[socket], line)) = Events(up[socket]) \cup EventOf(line)
        /\ Sorted(Append(up[socket], line))
    BY <1>2, <1>3, <2>1, <2>2, EventsAppend
  <2>4. /\ up'[socket] = Append(up[socket], line)
        /\ \A t \in Socket : t # socket => up'[t] = up[t]
    BY <1>0, <2>1 DEF FormOK
  <2> HIDE DEF e
  <2>5. Events(up'[socket]) = Events(up[socket]) \cup {e} /\ Sorted(up'[socket])
    BY <1>2, <2>3, <2>4
  <2>6. PlacesOK'
    BY <1>0, <1>1, <2>1, <2>2, <2>4 DEF FormOK, OrderInv, PlacesOK
  <2>7. \A t \in Socket : /\ Sorted(up'[t]) /\ Events(up'[t]) \subseteq (got + 1)..e
                          /\ Older(Events(up'[t]), Events(buffer'))
    <3>1. e \in (got + 1)..e
      <4>1. got <= sent
        BY DEF OrderInv, EventsOrdered
      <4> QED BY <1>2, <4>1 DEF e
    <3> QED BY <1>3, <2>1, <2>2, <2>4, <2>5, <3>1 DEF OrderInv, EventsOrdered, Older
  <2>8. \A t, u \in Socket : Before(t, u) \/ (t # u /\ cEnd[u] # "closed")
          => Older(Events(up'[t]), Events(up'[u]))
    <3> TAKE t \in Socket, u \in Socket
    <3> HAVE Before(t, u) \/ (t # u /\ cEnd[u] # "closed")
    <3>1. t # socket
      <4>1. Before(t, u) => cEnd[t] = "closed"
        BY DEF OrderInv, ConnsOK
      <4> QED BY <2>1, <4>1 DEF OrderInv, OneConnection
    <3>2. Older(Events(up[t]), Events(up[u]))
      BY DEF OrderInv, EventsOrdered
    <3> QED BY <1>3, <2>4, <2>5, <3>1, <3>2 DEF Older
  <2> QED BY <1>1, <1>3, <1>4, <1>5, <2>1, <2>2, <2>6, <2>7, <2>8, <1>8 DEF OrderInv, EventsOrdered
<1>7. CASE ~(state = "connected" /\ socket # NoSocket)
  <2>1. Enqueue(line) /\ up' = up /\ buffer \in Seq(LineRef) /\ Sorted(buffer)
    BY <1>0, <1>1, <1>7 DEF Send, FormOK, OrderInv, EventsOrdered
  <2>2. \A t \in Socket : cEnd[t] \notin {"open", "ended"}
    <3>1. \A t \in Socket : cEnd[t] # "closed" => t = socket
      BY <1>1 DEF OrderInv, OneConnection
    <3> QED BY <1>0, <1>7, <3>1 DEF FormOK, ClientOK
  <2> HIDE DEF line
  <2>3. Sorted(buffer') /\ Events(buffer') \subseteq Events(buffer) \cup {e}
    <3>1. CASE buffer' = Append(buffer, line)
      BY <1>2, <1>3, <2>1, <3>1, EventsAppend
    <3>2. CASE ~(Len(buffer) < MaxBufferSize)
      <4>1. buffer' = Append(Tail(buffer), line) /\ buffer # <<>>
        BY <2>1, <3>2, Constants, Nothing DEF Enqueue, ConstOK
      <4>2. /\ Tail(buffer) \in Seq(LineRef) /\ Sorted(Tail(buffer))
            /\ Events(Tail(buffer)) \subseteq Events(buffer)
        BY <2>1, <4>1, EventsFirst
      <4>3. Older(Events(Tail(buffer)), {e})
        BY <1>3, <4>2 DEF Older
      <4> QED BY <1>2, <4>1, <4>2, <4>3, EventsAppend
    <3> QED BY <2>1, <3>1, <3>2 DEF Enqueue
  <2>4. PlacesOK'
    BY <1>1, <2>1, <2>2 DEF OrderInv, PlacesOK
  <2>5. Events(buffer') \subseteq (got + 1)..e
    <3>1. got <= sent
      BY DEF OrderInv, EventsOrdered
    <3> QED BY <1>2, <1>3, <2>3, <3>1
  <2>6. \A t \in Socket : Older(Events(up[t]), Events(buffer'))
    BY <1>3, <2>3 DEF OrderInv, EventsOrdered, Older
  <2> HIDE DEF e
  <2> QED BY <1>1, <1>3, <1>4, <1>5, <2>1, <2>3, <2>4, <2>5, <2>6, <1>8 DEF OrderInv, EventsOrdered
<1> QED BY <1>6, <1>7

(* The connections of which a line is read are the server's.               *)
LEMMA ReadOrdered ==
  ASSUME LinkInv, OrderInv, NEW s \in Socket, ReadAtServer(s)
  PROVE  /\ OrderInv'
         /\ Head(up[s]).kind = "event" => got' = Head(up[s]).arg /\ got' \in (got + 1)..sent
<1>0. FormOK
  BY Form
<1> DEFINE line == Head(up[s])
<1>1. /\ sEnd[s] \in {"open", "ended"} /\ up[s] # <<>> /\ ReadInOrder(s)
      /\ up' = [up EXCEPT ![s] = Tail(@)]
      /\ sEnd' = IF line.kind = "disconnect" /\ s \in clients
                   THEN [sEnd EXCEPT ![s] = "ended"] ELSE sEnd
      /\ line.kind = "event" => got' = line.arg
      /\ line.kind # "event" => got' = got
      /\ UNCHANGED <<phase, state, socket, timer, buffer, cEnd, conns, clients, sent>>
  BY DEF ReadAtServer, clientVars
<1>2. /\ up[s] \in Seq(LineRef) /\ sent \in Nat /\ got \in Nat
      /\ up'[s] = Tail(up[s]) /\ \A t \in Socket : t # s => up'[t] = up[t]
      /\ \A t \in Socket : sEnd'[t] = "closed" <=> sEnd[t] = "closed"
  BY <1>0, <1>1 DEF FormOK
<1>3. /\ line \in LineRef /\ Events(up[s]) = EventOf(line) \cup Events(Tail(up[s]))
      /\ Sorted(Tail(up[s])) /\ Older(EventOf(line), Events(Tail(up[s])))
  BY <1>1, <1>2, EventsFirst DEF OrderInv, EventsOrdered
<1>4. CASE line.kind # "event"
  <2>1. \A t \in Socket : Sorted(up'[t]) /\ Events(up'[t]) \subseteq Events(up[t])
    BY <1>2, <1>3 DEF OrderInv, EventsOrdered
  <2>2. Sorted(buffer') /\ Events(buffer') \subseteq Events(buffer)
    BY <1>1 DEF OrderInv, EventsOrdered
  <2>3. UNCHANGED <<phase, state, socket, timer, cEnd, conns, sent, got>> /\ clients' = clients
    BY <1>1, <1>4
  <2> QED BY <1>0, <1>2, <1>4, <2>1, <2>2, <2>3, QuietStep DEF FormOK
<1>5. CASE line.kind = "event"
  <2>1. EventOf(line) = {got'} /\ got' \in Events(up[s])
    BY <1>1, <1>3, <1>5 DEF EventOf
  <2>2. got' \in (got + 1)..sent
    BY <2>1 DEF OrderInv, EventsOrdered
  <2>3. OneConnection'
    BY <1>1 DEF OrderInv, OneConnection
  <2>4. ConnsOK' /\ \A t, u : Before(t, u)' <=> Before(t, u)
    BY <1>0, <1>1, <1>2, ConnsStay DEF OrderInv, FormOK
  <2>5. \A t \in Socket : Sorted(up'[t]) /\ Events(up'[t]) \subseteq Events(up[t])
    BY <1>2, <1>3 DEF OrderInv, EventsOrdered
  <2>6. PlacesOK'
    BY <1>1, <1>2, <2>5 DEF OrderInv, PlacesOK
  <2>7. ASSUME NEW t \in Socket PROVE \A e \in Events(up'[t]) : got' < e
    <3>1. CASE t = s
      BY <1>2, <1>3, <2>1, <3>1 DEF Older
    <3>2. CASE t # s /\ Before(t, s)
      <4>1. cEnd[t] = "closed"
        BY <3>2 DEF OrderInv, ConnsOK
      <4>2. up[t] = <<>>
        BY <1>1, <3>2, <4>1 DEF ReadInOrder, Before
      <4> QED BY <1>2, <3>2, <4>2, NoEvents
    <3>3. CASE t # s /\ (Before(s, t) \/ cEnd[t] # "closed")
      <4>1. Older(Events(up[s]), Events(up[t]))
        BY <3>3 DEF OrderInv, EventsOrdered
      <4> QED BY <1>2, <2>1, <3>3, <4>1 DEF Older
    <3>4. CASE t # s /\ ~Before(t, s) /\ ~Before(s, t) /\ cEnd[t] = "closed"
      <4>1. ~InConns(t)
        <5>1. InConns(s)
          BY <1>1 DEF OrderInv, ConnsOK
        <5> SUFFICES ASSUME InConns(t) PROVE FALSE
          OBVIOUS
        <5>2. PICK i \in DOMAIN conns, j \in DOMAIN conns : conns[i] = s /\ conns[j] = t
          BY <5>1 DEF InConns
        <5>3. DOMAIN conns \subseteq Int
          BY <1>0, SeqByElements DEF FormOK
        <5>4. i < j \/ j < i
          BY <3>4, <5>2, <5>3
        <5> QED BY <3>4, <5>2, <5>4 DEF Before
      <4>2. Events(up[t]) = {}
        BY <3>4, <4>1 DEF OrderInv, ConnsOK, PlacesOK
      <4> QED BY <1>2, <3>4, <4>2
    <3> QED BY <3>1, <3>2, <3>3, <3>4
  <2>8. \A e \in Events(buffer) : got' < e
    BY <2>1 DEF OrderInv, EventsOrdered, Older
  <2>9. /\ Events(buffer) \subseteq (got' + 1)..sent
        /\ \A t \in Socket : Events(up'[t]) \subseteq (got' + 1)..sent
    <3>1. got' \in Nat
      BY <1>2, <2>2
    <3>2. Events(buffer) \subseteq (got + 1)..sent
          /\ \A t \in Socket : Events(up'[t]) \subseteq (got + 1)..sent
      BY <2>5 DEF OrderInv, EventsOrdered
    <3>3. \A e \in (got + 1)..sent : got' < e => e \in (got' + 1)..sent
      <4> SUFFICES ASSUME NEW e \in (got + 1)..sent, got' < e PROVE e \in (got' + 1)..sent
        OBVIOUS
      <4> DEFINE g == got'
      <4>1. e \in Nat /\ e <= sent /\ g < e /\ g \in Nat /\ sent \in Nat
        BY <1>2, <3>1
      <4> HIDE DEF g
      <4>2. e \in (g + 1)..sent
        BY <4>1
      <4> QED BY <4>2 DEF g
    <3> QED BY <2>7, <2>8, <3>2, <3>3
  <2>10. /\ \A t \in Socket : Older(Events(up'[t]), Events(buffer))
         /\ \A t, u \in Socket : Before(t, u) \/ (t # u /\ cEnd[u] # "closed")
              => Older(Events(up'[t]), Events(up'[u]))
    BY <2>5 DEF OrderInv, EventsOrdered, Older
  <2>11. got' <= sent
    BY <1>2, <2>2
  <2>12. EventsOrdered'
    BY <1>1, <2>4, <2>5, <2>9, <2>10, <2>11 DEF OrderInv, EventsOrdered
  <2> QED BY <1>1, <1>5, <2>2, <2>3, <2>4, <2>6, <2>12 DEF OrderInv
<1> QED BY <1>4, <1>5

(* Sockets that close at the server carry nothing any more.                *)
LEMMA ServerCloseOrdered ==
  ASSUME LinkInv, OrderInv, NEW s \in Socket, ServerClose(s)
  PROVE  OrderInv'
<1>0. FormOK
  BY Form
<1>1. PICK i \in DOMAIN conns :
        /\ conns[i] = s
        /\ conns' = SubSeq(conns, 1, i - 1) \o SubSeq(conns, i + 1, Len(conns))
  BY DEF ServerClose
<1>2. /\ up[s] = <<>> /\ sEnd' = [sEnd EXCEPT ![s] = "closed"] /\ clients' = clients \ {s}
      /\ UNCHANGED <<phase, state, socket, timer, buffer, cEnd, up, sent, got>>
  BY DEF ServerClose, clientVars, eventVars
<1>3. /\ \A t : InConns(t)' <=> InConns(t) /\ t # s
      /\ \A t, u : Before(t, u)' => Before(t, u)
      /\ (\A j, k \in DOMAIN conns : conns[j] = conns[k] => j = k)'
  <2>1. conns \in Seq(Socket) /\ \A j, k \in DOMAIN conns : conns[j] = conns[k] => j = k
    BY <1>0 DEF FormOK, OrderInv, ConnsOK
  <2> QED BY <1>1, <2>1, ConnectionGone
<1>4. OneConnection'
  BY <1>2 DEF OrderInv, OneConnection
<1>5. ConnsOK'
  BY <1>0, <1>2, <1>3 DEF FormOK, OrderInv, ConnsOK
<1>6. PlacesOK'
  BY <1>0, <1>2, NoEvents DEF FormOK, OrderInv, PlacesOK
<1>7. EventsOrdered'
  BY <1>2, <1>3, LessUnderWay DEF OrderInv, EventsOrdered
<1> QED BY <1>4, <1>5, <1>6, <1>7 DEF OrderInv

(* The end of the gateway closes every connection at once.                 *)
LEMMA GatewayEndsOrdered ==
  ASSUME LinkInv, OrderInv, GatewayEnds
  PROVE  OrderInv'
<1>0. FormOK
  BY Form
<1>1. /\ conns' = <<>> /\ clients' = {}
      /\ sEnd' = [s \in Socket |-> "closed"]
      /\ up' = [s \in Socket |-> IF cEnd[s] = "closed" THEN <<>> ELSE up[s]]
      /\ UNCHANGED <<phase, state, socket, timer, buffer, cEnd, sent, got>>
  BY DEF GatewayEnds, clientVars, eventVars
<1>2. \A s, t : ~InConns(s)' /\ ~Before(s, t)'
  <2>1. DOMAIN conns' = {}
    BY <1>1
  <2> QED BY <2>1 DEF InConns, Before
<1>3. OneConnection'
  BY <1>1 DEF OrderInv, OneConnection
<1>4. ConnsOK'
  <2>1. DOMAIN conns' = {}
    BY <1>1
  <2> QED BY <1>1, <1>2, <2>1 DEF ConnsOK
<1>5. PlacesOK'
  BY <1>1, NoEvents DEF OrderInv, PlacesOK
<1>6. EventsOrdered'
  <2>1. \A s \in Socket : Sorted(up'[s]) /\ Events(up'[s]) \subseteq Events(up[s])
    BY <1>1, NoEvents DEF OrderInv, EventsOrdered
  <2> QED BY <1>1, <1>2, <2>1, LessUnderWay DEF OrderInv, EventsOrdered
<1> QED BY <1>3, <1>4, <1>5, <1>6 DEF OrderInv

(* Nothing else touches the events.                                        *)
LEMMA OthersOrdered ==
  ASSUME LinkInv, OrderInv,
         \/ GatewayStart \/ Sweep \/ UNCHANGED vars
         \/ \E s \in Socket : ReadAtClient(s) \/ Accept(s)
         \/ \E c \in Command : \/ Request(c) \/ Timeout(c)
                               \/ \E success \in BOOLEAN : Answer(c, success)
  PROVE  OrderInv'
<1>0. FormOK /\ Sorted(buffer) /\ \A s \in Socket : Sorted(up[s])
  BY Form DEF OrderInv, EventsOrdered
<1> DEFINE Same == UNCHANGED <<phase, state, socket, timer, cEnd, conns, sent, got>>
<1>1. ASSUME NEW l \in LineRef, l.kind # "event", Send(l), Same, UNCHANGED <<sEnd, clients>>
      PROVE  OrderInv'
  BY <1>0, <1>1, OtherLineSent, QuietStep DEF OrderInv, FormOK
<1>2. ASSUME Same, UNCHANGED <<up, buffer>>,
             \A s \in Socket : sEnd'[s] = "closed" <=> sEnd[s] = "closed",
             \A s \in clients' : s \in clients \/ sEnd'[s] # "closed"
      PROVE  OrderInv'
  BY <1>0, <1>2, QuietStep DEF FormOK
<1>3. CASE GatewayStart \/ UNCHANGED vars \/ \E c \in Command : Request(c) \/ Timeout(c)
  BY <1>2, <1>3 DEF GatewayStart, vars, Request, Timeout, clientVars, serverVars, commandVars,
                    eventVars
<1>4. CASE Sweep
  <2>1. Same /\ UNCHANGED <<up, buffer>> /\ clients' \subseteq clients
    BY <1>4 DEF Sweep, clientVars, eventVars
  <2>2. \A s \in Socket : sEnd'[s] = "closed" <=> sEnd[s] = "closed"
    BY <1>0, <1>4 DEF Sweep, FormOK, OrderInv, ConnsOK
  <2> QED BY <1>2, <2>1, <2>2
<1>5. ASSUME NEW s \in Socket, Accept(s) PROVE OrderInv'
  <2>1. Same /\ UNCHANGED <<up, buffer>>
    BY <1>5 DEF Accept, clientVars, eventVars
  <2>2. /\ \A t \in Socket : sEnd'[t] = "closed" <=> sEnd[t] = "closed"
        /\ \A t \in clients' : t \in clients \/ sEnd'[t] # "closed"
    BY <1>0, <1>5 DEF Accept, FormOK
  <2> QED BY <1>2, <2>1, <2>2
<1>6. ASSUME NEW s \in Socket, ReadAtClient(s) PROVE OrderInv'
  <2>1. Same /\ UNCHANGED <<sEnd, clients>>
    BY <1>6 DEF ReadAtClient, serverVars
  <2>2. CASE Send(Pong)
    <3>1. Pong \in LineRef /\ Pong.kind # "event"
      BY DEF Pong, Plain, Line, LineRef
    <3> QED BY <1>1, <2>1, <2>2, <3>1
  <2>3. CASE UNCHANGED <<up, buffer, dropped>>
    BY <1>2, <2>1, <2>3
  <2> QED BY <1>6, <2>2, <2>3 DEF ReadAtClient
<1>7. ASSUME NEW c \in Command, NEW success \in BOOLEAN, Answer(c, success) PROVE OrderInv'
  <2> DEFINE l == Plain(IF success THEN "success" ELSE "failure", c)
  <2>1. Same /\ UNCHANGED <<sEnd, clients>> /\ Send(l)
    BY <1>7 DEF Answer, serverVars
  <2>2. l \in LineRef /\ l.kind # "event"
    BY DEF Plain, Line, LineRef
  <2> HIDE DEF l
  <2> QED BY <1>1, <2>1, <2>2
<1> QED BY <1>3, <1>4, <1>5, <1>6, <1>7

---------------------------------------------------------------------------
(* The steps together *)

(* Nothing is under way at first.                                          *)
LEMMA InitOrdered == Init => OrderInv
<1> SUFFICES ASSUME Init PROVE OrderInv
  OBVIOUS
<1>1. /\ phase = "idle" /\ timer = FALSE /\ state = "disconnected"
      /\ \A s \in Socket : cEnd[s] = "closed" /\ sEnd[s] = "closed" /\ up[s] = <<>>
      /\ buffer = <<>> /\ conns = <<>> /\ clients = {} /\ sent = 0 /\ got = 0
  BY DEF Init
<1>2. DOMAIN conns = {}
  BY <1>1
<1>3. OneConnection
  BY <1>1 DEF OneConnection
<1>4. ConnsOK
  BY <1>1, <1>2 DEF ConnsOK, InConns, Before
<1>5. PlacesOK
  BY <1>1, NoEvents DEF PlacesOK
<1>6. EventsOrdered
  <2>1. \A s, t : ~Before(s, t)
    BY <1>2 DEF Before
  <2>2. Older({}, {}) /\ 0 <= 0
    BY DEF Older
  <2> QED BY <1>1, <2>1, <2>2, NoEvents DEF EventsOrdered
<1> QED BY <1>3, <1>4, <1>5, <1>6 DEF OrderInv

(* A client that is not opened again keeps the order, whatever happens.    *)
LEMMA StepOrdered ==
  ASSUME LinkInv, ~MayReopen, OrderInv, [Next]_vars
  PROVE  OrderInv'
<1>1. CASE Connect \/ ReconnectTimer
  BY <1>1, ConnectOrdered, TimerOrdered
<1>2. CASE Disconnect \/ DaemonEnds
  BY <1>2, DisconnectOrdered, EndOrdered DEF DaemonEnds
<1>3. CASE SendEvent \/ GatewayEnds
  BY <1>3, SendEventOrdered, GatewayEndsOrdered
<1>4. ASSUME NEW s \in Socket, ClientStep(s) \/ ServerStep(s) PROVE OrderInv'
  <2>1. CASE OnConnect(s) \/ OnError(s) \/ OnClose(s)
    BY <2>1, OnConnectOrdered, OnErrorOrdered, OnCloseOrdered
  <2>2. CASE ReadAtServer(s) \/ ServerClose(s)
    BY <2>2, ReadOrdered, ServerCloseOrdered
  <2>3. CASE ReadAtClient(s) \/ Accept(s)
    BY <2>3, OthersOrdered
  <2> QED BY <1>4, <2>1, <2>2, <2>3 DEF ClientStep, ServerStep
<1>5. CASE \/ GatewayStart \/ Sweep \/ UNCHANGED vars
           \/ \E c \in Command : \/ Request(c) \/ Timeout(c)
                                 \/ \E success \in BOOLEAN : Answer(c, success)
  BY <1>5, OthersOrdered
<1> QED BY <1>1, <1>2, <1>3, <1>4, <1>5 DEF Next

---------------------------------------------------------------------------
(* The calm *)

(* Nothing has failed, and the client was not stopped.                     *)
Calm == faults = 0 /\ ~restarted /\ phase # "stopped"

(* What the client has dialled or opened is open at the server.            *)
EndsCalm ==
  \A s \in Socket : /\ cEnd[s] # "ended"
                    /\ cEnd[s] \in {"dialing", "open"} => sEnd[s] \in {"backlog", "open"}

(* The lines of a client that is not stopped.                              *)
StayLine == {l \in LineRef : l.kind # "disconnect"}

LinesCalm == buffer \in Seq(StayLine) /\ up \in [Socket -> Seq(StayLine)]

(* Where an event may be.                                                  *)
Somewhere(e) == InUp(e) \/ InBuffer(e) \/ WasDropped(e)

Kept == \A e \in 1..sent : e \in delivered \/ Somewhere(e)

(* A sequence that does not say goodbye.                                   *)
LEMMA StaySequences ==
  ASSUME NEW s \in Seq(LineRef)
  PROVE  s \in Seq(StayLine) <=> \A i \in DOMAIN s : s[i].kind # "disconnect"
<1>1. ASSUME s \in Seq(StayLine) PROVE \A i \in DOMAIN s : s[i].kind # "disconnect"
  <2>1. \A i \in 1..Len(s) : s[i] \in StayLine
    BY <1>1, SeqByElements
  <2> QED BY <2>1, SeqByElements DEF StayLine
<1>2. ASSUME \A i \in DOMAIN s : s[i].kind # "disconnect" PROVE s \in Seq(StayLine)
  <2>1. \A i \in 1..Len(s) : s[i] \in StayLine
    BY <1>2, SeqByElements DEF StayLine
  <2> QED BY <2>1, SeqByElements
<1> QED BY <1>1, <1>2

(* The parts of CalmInv.                                                   *)
LEMMA CalmParts ==
  buffer \in Seq(LineRef) /\ up \in [Socket -> Seq(LineRef)]
    => (CalmInv <=> (Calm => EndsCalm /\ LinesCalm /\ Kept))
<1> SUFFICES ASSUME buffer \in Seq(LineRef), up \in [Socket -> Seq(LineRef)]
             PROVE  CalmInv <=> (Calm => EndsCalm /\ LinesCalm /\ Kept)
  OBVIOUS
<1> DEFINE Quiet(s) == \A i \in DOMAIN s : s[i].kind # "disconnect"
<1>1. buffer \in Seq(StayLine) <=> Quiet(buffer)
  BY StaySequences
<1>2. up \in [Socket -> Seq(StayLine)] <=> \A s \in Socket : Quiet(up[s])
  <2>1. \A s \in Socket : up[s] \in Seq(StayLine) <=> Quiet(up[s])
    BY StaySequences
  <2> QED BY <2>1
<1> QED BY <1>1, <1>2 DEF CalmInv, Calm, EndsCalm, LinesCalm, Kept, Somewhere

(* CalmInv holds after a step when its parts do.                           *)
LEMMA CalmNext ==
  LinkInv' /\ (Calm' => EndsCalm' /\ LinesCalm' /\ Kept') => CalmInv'
<1>1. LinkInv /\ (Calm => EndsCalm /\ LinesCalm /\ Kept) => CalmInv
  BY CalmParts DEF LinkInv, TypeOK
<1> QED BY <1>1, PTL

(* A line that is sent stands somewhere, and of the others a full buffer   *)
(* drops only what it remembers.                                           *)
LEMMA LineKept ==
  ASSUME LinkInv, LinesCalm, NEW l \in StayLine, Send(l)
  PROVE  /\ LinesCalm'
         /\ \A e : Somewhere(e) => Somewhere(e)'
         /\ \A e \in EventOf(l) : Somewhere(e)'
<1>0. /\ FormOK /\ l \in LineRef
      /\ buffer \in Seq(LineRef) /\ up \in [Socket -> Seq(LineRef)]
  BY Form DEF StayLine, FormOK
<1>1. CASE state = "connected" /\ socket # NoSocket
  <2>1. /\ up' = [up EXCEPT ![socket] = Append(@, l)] /\ socket \in Socket
        /\ UNCHANGED <<buffer, dropped>>
    BY <1>0, <1>1 DEF Send, FormOK
  <2>2. up[socket] \in Seq(StayLine) /\ up[socket] \in Seq(LineRef)
    BY <1>0, <2>1 DEF LinesCalm
  <2>3. Append(up[socket], l) \in Seq(StayLine)
    BY <2>2
  <2>4. Events(Append(up[socket], l)) = Events(up[socket]) \cup EventOf(l)
    BY <1>0, <2>2, EventsAppend
  <2>5. /\ up'[socket] = Append(up[socket], l)
        /\ \A t \in Socket : t # socket => up'[t] = up[t]
    BY <1>0, <2>1
  <2>6. LinesCalm'
    BY <2>1, <2>3 DEF LinesCalm
  <2>7. \A e : InUp(e) => InUp(e)'
    BY <2>4, <2>5 DEF InUp
  <2>8. \A e \in EventOf(l) : InUp(e)'
    BY <2>1, <2>4, <2>5 DEF InUp
  <2> QED BY <2>1, <2>6, <2>7, <2>8 DEF Somewhere, InBuffer, WasDropped
<1>2. CASE ~(state = "connected" /\ socket # NoSocket)
  <2>1. Enqueue(l) /\ up' = up
    BY <1>2 DEF Send
  <2>2. CASE Len(buffer) < MaxBufferSize
    <3>1. buffer' = Append(buffer, l) /\ dropped' = dropped
      BY <2>1, <2>2 DEF Enqueue
    <3>2. Events(buffer') = Events(buffer) \cup EventOf(l)
      BY <1>0, <3>1, EventsAppend
    <3>3. buffer' \in Seq(StayLine)
      BY <3>1 DEF LinesCalm
    <3> QED BY <2>1, <3>1, <3>2, <3>3 DEF LinesCalm, Somewhere, InUp, InBuffer, WasDropped
  <2>3. CASE ~(Len(buffer) < MaxBufferSize)
    <3>1. /\ buffer' = Append(Tail(buffer), l) /\ dropped' = dropped \cup {Head(buffer)}
          /\ buffer # <<>>
      BY <1>0, <2>1, <2>3, Constants, Nothing DEF Enqueue, ConstOK
    <3>2. Tail(buffer) \in Seq(StayLine) /\ Tail(buffer) \in Seq(LineRef)
      BY <1>0, <3>1 DEF LinesCalm
    <3>3. Events(buffer) = EventOf(Head(buffer)) \cup Events(Tail(buffer))
      BY <1>0, <3>1, EventsFirst
    <3>4. Events(buffer') = Events(Tail(buffer)) \cup EventOf(l)
      BY <1>0, <3>1, <3>2, EventsAppend
    <3>5. buffer' \in Seq(StayLine)
      BY <3>1, <3>2
    <3>6. ASSUME NEW e, InBuffer(e) PROVE InBuffer(e)' \/ WasDropped(e)'
      <4>1. CASE e \in EventOf(Head(buffer))
        BY <3>1, <4>1 DEF EventOf, WasDropped
      <4>2. CASE e \in Events(Tail(buffer))
        BY <3>4, <4>2 DEF InBuffer
      <4> QED BY <3>3, <3>6, <4>1, <4>2 DEF InBuffer
    <3>7. /\ \A e : InUp(e) => InUp(e)'
          /\ \A e : WasDropped(e) => WasDropped(e)'
          /\ \A e \in EventOf(l) : InBuffer(e)'
      BY <2>1, <3>1, <3>4 DEF InUp, InBuffer, WasDropped
    <3>8. LinesCalm'
      BY <2>1, <3>5 DEF LinesCalm
    <3> QED BY <3>6, <3>7, <3>8 DEF Somewhere
  <2> QED BY <2>2, <2>3
<1> QED BY <1>1, <1>2

(* What holds in the calm.                                                 *)
LEMMA InCalm == LinkInv /\ CalmInv /\ Calm => EndsCalm /\ LinesCalm /\ Kept
BY CalmParts DEF LinkInv, TypeOK

(* A step that moves no line keeps every event where it is.                *)
LEMMA NoLineMoves ==
  ASSUME LinesCalm, Kept, UNCHANGED <<up, buffer, dropped, delivered, sent>>
  PROVE  LinesCalm' /\ Kept'
BY DEF LinesCalm, Kept, Somewhere, InUp, InBuffer, WasDropped

(* A step that sends a line and nothing else keeps the calm.               *)
LEMMA LineSentCalm ==
  ASSUME LinkInv, EndsCalm, LinesCalm, Kept, NEW l \in StayLine, Send(l),
         UNCHANGED <<cEnd, sEnd, delivered, sent>>
  PROVE  EndsCalm' /\ LinesCalm' /\ Kept'
<1>1. LinesCalm' /\ \A e : Somewhere(e) => Somewhere(e)'
  BY LineKept
<1> QED BY <1>1 DEF EndsCalm, Kept

(* A dialled socket waits at the server.                                   *)
LEMMA DialCalm ==
  ASSUME LinkInv, EndsCalm, Dial
  PROVE  EndsCalm' /\ UNCHANGED <<up, down>>
<1>1. FormOK
  BY Form
<1>2. PICK s \in Socket :
        /\ cEnd' = [cEnd EXCEPT ![s] = IF listening THEN "dialing" ELSE "refused"]
        /\ sEnd' = [sEnd EXCEPT ![s] = IF listening THEN "backlog" ELSE "closed"]
        /\ UNCHANGED <<up, down>>
  BY DEF Dial
<1> QED BY <1>1, <1>2 DEF EndsCalm, FormOK

(* The daemon starts, or the timer of the reconnection fires.              *)
LEMMA ConnectCalm ==
  ASSUME LinkInv, CalmInv, Calm', Connect \/ ReconnectTimer
  PROVE  EndsCalm' /\ LinesCalm' /\ Kept'
<1>1. faults \in Nat
  BY DEF LinkInv, TypeOK
<1>2. Calm
  <2>1. CASE Connect
    BY <1>1, <2>1 DEF Connect, Calm
  <2>2. CASE ReconnectTimer
    BY <2>2 DEF ReconnectTimer, Calm
  <2> QED BY <2>1, <2>2
<1>3. EndsCalm /\ LinesCalm /\ Kept
  BY <1>2, InCalm
<1>4. /\ UNCHANGED <<buffer, dropped, delivered, sent>>
      /\ Dial \/ UNCHANGED <<cEnd, sEnd, up>>
  BY DEF Connect, ReconnectTimer, eventVars
<1>5. EndsCalm' /\ up' = up
  BY <1>3, <1>4, DialCalm DEF EndsCalm
<1> QED BY <1>3, <1>4, <1>5, NoLineMoves

(* The client's socket is open, and takes over what the buffer held.       *)
LEMMA OnConnectCalm ==
  ASSUME LinkInv, CalmInv, Calm', NEW s \in Socket, OnConnect(s)
  PROVE  EndsCalm' /\ LinesCalm' /\ Kept'
<1>1. FormOK
  BY Form
<1>2. /\ socket \in Socket
      /\ cEnd[s] = "dialing" /\ cEnd' = [cEnd EXCEPT ![s] = "open"]
      /\ up' = [up EXCEPT ![socket] = @ \o Greeting]
      /\ buffer' = <<>>
      /\ UNCHANGED <<phase, restarted, faults, sEnd, dropped, delivered, sent>>
  <2>1. socket # NoSocket
    BY DEF OnConnect, ProcessEnds, Calm
  <2> QED BY <1>1, <2>1 DEF OnConnect, BufferAfterFlush, eventVars, FormOK
<1>3. EndsCalm /\ LinesCalm /\ Kept
  <2>1. Calm
    BY <1>2 DEF Calm
  <2> QED BY <2>1, InCalm
<1>4. EndsCalm'
  BY <1>1, <1>2, <1>3 DEF EndsCalm, FormOK
<1>5. /\ buffer \in Seq(StayLine) /\ up[socket] \in Seq(StayLine)
      /\ buffer \in Seq(LineRef) /\ up[socket] \in Seq(LineRef)
  BY <1>1, <1>2, <1>3 DEF FormOK, LinesCalm
<1> DEFINE hello == Plain("connect", 0)
           c == Append(<<>>, hello)
<1>6. /\ Greeting = c \o Flushed(buffer)
      /\ c \in Seq(StayLine) /\ c \in Seq(LineRef)
  <2>1. hello \in StayLine /\ hello \in LineRef
    BY DEF Plain, Line, LineRef, StayLine
  <2>2. <<>> \in Seq(StayLine) /\ <<>> \in Seq(LineRef)
    BY Nothing
  <2>3. Greeting = c \o Flushed(buffer)
    BY DEF Greeting
  <2> HIDE DEF hello
  <2>4. c \in Seq(StayLine) /\ c \in Seq(LineRef)
    BY <2>1, <2>2
  <2> QED BY <2>3, <2>4
<1> HIDE DEF c
<1>7. /\ Flushed(buffer) \in Seq(StayLine) /\ Flushed(buffer) \in Seq(LineRef)
      /\ Events(Flushed(buffer)) = Events(buffer)
  <2>1. /\ Flushed(buffer) \in Seq(LineRef) /\ Events(Flushed(buffer)) = Events(buffer)
        /\ \A i \in DOMAIN buffer : buffer[i].kind # "disconnect"
    BY <1>5, EventsMarked, StaySequences
  <2>2. \A i \in DOMAIN Flushed(buffer) : Flushed(buffer)[i].kind # "disconnect"
    <3>1. \A i \in 1..Len(buffer) : buffer[i] \in LineRef
      BY <1>5, SeqByElements
    <3>2. \A i \in DOMAIN buffer : [buffer[i] EXCEPT !.flushed = TRUE].kind = buffer[i].kind
      <4>1. \A l \in LineRef : [l EXCEPT !.flushed = TRUE].kind = l.kind
        BY DEF LineRef
      <4> QED BY <1>5, <3>1, <4>1, SeqByElements
    <3> QED BY <2>1, <3>2 DEF Flushed
  <2> QED BY <2>1, <2>2, StaySequences
<1>8. /\ Greeting \in Seq(StayLine) /\ Greeting \in Seq(LineRef)
      /\ Events(Greeting) = Events(c) \cup Events(buffer)
  BY <1>6, <1>7, EventsConcat, Joined
<1>9. /\ up[socket] \o Greeting \in Seq(StayLine)
      /\ Events(up[socket] \o Greeting) = Events(up[socket]) \cup Events(Greeting)
  BY <1>5, <1>8, EventsConcat, Joined
<1>10. /\ up'[socket] = up[socket] \o Greeting
       /\ \A t \in Socket : t # socket => up'[t] = up[t]
  BY <1>1, <1>2 DEF FormOK
<1>11. LinesCalm'
  BY <1>2, <1>3, <1>9, Nothing DEF LinesCalm
<1>12. ASSUME NEW e, Somewhere(e) PROVE Somewhere(e)'
  <2>1. CASE InUp(e)
    BY <1>9, <1>10, <2>1 DEF InUp, Somewhere
  <2>2. CASE InBuffer(e)
    BY <1>2, <1>8, <1>9, <1>10, <2>2 DEF InBuffer, InUp, Somewhere
  <2>3. CASE WasDropped(e)
    BY <1>2, <2>3 DEF WasDropped, Somewhere
  <2> QED BY <1>12, <2>1, <2>2, <2>3 DEF Somewhere
<1>13. Kept'
  BY <1>2, <1>3, <1>12 DEF Kept
<1> QED BY <1>4, <1>11, <1>13

(* What the server reads of an open socket has arrived.                    *)
LEMMA ReadCalm ==
  ASSUME LinkInv, CalmInv, Calm', NEW s \in Socket, ReadAtServer(s)
  PROVE  EndsCalm' /\ LinesCalm' /\ Kept'
<1>1. FormOK
  BY Form
<1> DEFINE line == Head(up[s])
<1>2. /\ up[s] # <<>> /\ up' = [up EXCEPT ![s] = Tail(@)]
      /\ sEnd' = IF line.kind = "disconnect" /\ s \in clients
                   THEN [sEnd EXCEPT ![s] = "ended"] ELSE sEnd
      /\ IF line.kind = "event" THEN delivered' = delivered \cup {line.arg}
                                ELSE delivered' = delivered
      /\ UNCHANGED <<phase, restarted, faults, buffer, cEnd, dropped, sent>>
  BY DEF ReadAtServer, clientVars
<1>3. EndsCalm /\ LinesCalm /\ Kept
  <2>1. Calm
    BY <1>2 DEF Calm
  <2> QED BY <2>1, InCalm
<1>4. up[s] \in Seq(StayLine) /\ up[s] \in Seq(LineRef)
  BY <1>1, <1>3 DEF FormOK, LinesCalm
<1>5. line \in StayLine /\ Tail(up[s]) \in Seq(StayLine)
  BY <1>2, <1>4
<1>6. EndsCalm' /\ LinesCalm'
  BY <1>2, <1>3, <1>5 DEF EndsCalm, LinesCalm, StayLine
<1>7. Events(up[s]) = EventOf(line) \cup Events(Tail(up[s]))
  BY <1>2, <1>4, EventsFirst
<1>8. ASSUME NEW e, e \in delivered \/ Somewhere(e) PROVE e \in delivered' \/ Somewhere(e)'
  <2>1. CASE e \in delivered
    BY <1>2, <2>1
  <2>2. CASE InBuffer(e) \/ WasDropped(e)
    BY <1>2, <2>2 DEF Somewhere, InBuffer, WasDropped
  <2>3. CASE InUp(e)
    <3>1. PICK t \in Socket : e \in Events(up[t])
      BY <2>3 DEF InUp
    <3>2. CASE t # s
      <4>1. up'[t] = up[t]
        BY <1>1, <1>2, <3>2 DEF FormOK
      <4> QED BY <3>1, <4>1 DEF Somewhere, InUp
    <3>3. CASE t = s /\ e \in EventOf(line)
      BY <1>2, <3>3 DEF EventOf
    <3>4. CASE t = s /\ e \in Events(Tail(up[s]))
      <4>1. up'[s] = Tail(up[s])
        BY <1>1, <1>2 DEF FormOK
      <4> QED BY <3>4, <4>1 DEF Somewhere, InUp
    <3> QED BY <1>7, <3>1, <3>2, <3>3, <3>4
  <2> QED BY <1>8, <2>1, <2>2, <2>3 DEF Somewhere
<1>9. Kept'
  BY <1>2, <1>3, <1>8 DEF Kept
<1> QED BY <1>6, <1>9

(* An event that is sent is in the socket or in the buffer.                *)
LEMMA SendEventCalm ==
  ASSUME LinkInv, CalmInv, Calm', SendEvent
  PROVE  EndsCalm' /\ LinesCalm' /\ Kept'
<1> DEFINE l == Event(sent + 1)
<1>1. /\ sent' = sent + 1 /\ Send(l) /\ sent \in Nat
      /\ UNCHANGED <<phase, restarted, faults, cEnd, sEnd, delivered>>
  BY DEF SendEvent, LinkInv, TypeOK
<1>2. EndsCalm /\ LinesCalm /\ Kept
  <2>1. Calm
    BY <1>1 DEF Calm
  <2> QED BY <2>1, InCalm
<1>3. l \in StayLine /\ EventOf(l) = {sent + 1}
  BY <1>1 DEF Event, Plain, Line, LineRef, StayLine, EventOf
<1> HIDE DEF l
<1>4. /\ LinesCalm'
      /\ \A e : Somewhere(e) => Somewhere(e)'
      /\ \A e \in EventOf(l) : Somewhere(e)'
  BY <1>1, <1>2, <1>3, LineKept
<1>5. EndsCalm'
  BY <1>1, <1>2 DEF EndsCalm
<1>6. \A e \in 1..(sent + 1) : e \in 1..sent \/ e = sent + 1
  BY <1>1
<1>7. Kept'
  BY <1>1, <1>2, <1>3, <1>4, <1>6 DEF Kept
<1> QED BY <1>4, <1>5, <1>7

(* The client answers a ping or begins a command.                          *)
LEMMA ReadAtClientCalm ==
  ASSUME LinkInv, CalmInv, Calm', NEW s \in Socket, ReadAtClient(s)
  PROVE  EndsCalm' /\ LinesCalm' /\ Kept'
<1>1. /\ UNCHANGED <<phase, restarted, faults, cEnd, sEnd, delivered, sent>>
      /\ Send(Pong) \/ UNCHANGED <<up, buffer, dropped>>
  BY DEF ReadAtClient
<1>2. EndsCalm /\ LinesCalm /\ Kept
  <2>1. Calm
    BY <1>1 DEF Calm
  <2> QED BY <2>1, InCalm
<1>3. Pong \in StayLine
  BY DEF Pong, Plain, Line, LineRef, StayLine
<1>4. CASE Send(Pong)
  BY <1>1, <1>2, <1>3, <1>4, LineSentCalm
<1>5. CASE UNCHANGED <<up, buffer, dropped>>
  BY <1>1, <1>2, <1>5, NoLineMoves DEF EndsCalm
<1> QED BY <1>1, <1>4, <1>5

(* The result of a command is sent.                                        *)
LEMMA AnswerCalm ==
  ASSUME LinkInv, CalmInv, Calm', NEW c \in Command, NEW success \in BOOLEAN, Answer(c, success)
  PROVE  EndsCalm' /\ LinesCalm' /\ Kept'
<1> DEFINE l == Plain(IF success THEN "success" ELSE "failure", c)
<1>1. Send(l) /\ UNCHANGED <<phase, restarted, faults, cEnd, sEnd, delivered, sent>>
  BY DEF Answer
<1>2. EndsCalm /\ LinesCalm /\ Kept
  <2>1. Calm
    BY <1>1 DEF Calm
  <2> QED BY <2>1, InCalm
<1>3. l \in StayLine
  BY DEF Plain, Line, LineRef, StayLine
<1> HIDE DEF l
<1> QED BY <1>1, <1>2, <1>3, LineSentCalm

(* What moves no line leaves open what is open.                            *)
LEMMA EndsMoveCalm ==
  ASSUME LinkInv, CalmInv, Calm',
         \/ GatewayStart \/ Sweep \/ UNCHANGED vars
         \/ \E s \in Socket : Accept(s) \/ ServerClose(s) \/ (OnError(s) /\ socket # NoSocket)
         \/ \E c \in Command : Request(c) \/ Timeout(c)
  PROVE  EndsCalm' /\ LinesCalm' /\ Kept'
<1>1. FormOK /\ faults \in Nat
  BY Form DEF LinkInv, TypeOK
<1>2. UNCHANGED <<phase, restarted, up, buffer, dropped, delivered, sent>>
  BY DEF GatewayStart, Sweep, vars, Accept, ServerClose, OnError, Request, Timeout, clientVars,
         eventVars
<1>3. Calm
  <2>1. faults' = faults \/ faults' = faults + 1
    BY DEF GatewayStart, Sweep, vars, Accept, ServerClose, OnError, Request, Timeout
  <2> QED BY <1>1, <1>2, <2>1 DEF Calm
<1>4. EndsCalm /\ LinesCalm /\ Kept
  BY <1>3, InCalm
<1>5. ASSUME cEnd' = cEnd, sEnd' = sEnd PROVE EndsCalm'
  BY <1>4, <1>5 DEF EndsCalm
<1>6. ASSUME Sweep PROVE EndsCalm'
  <2> DEFINE late == {s \in clients : missed[s] >= MissLimit}
  <2>1. /\ {s \in late : cEnd[s] \in {"dialing", "open"}} = {}
        /\ sEnd' = [s \in Socket |-> IF s \in late THEN "ended" ELSE sEnd[s]] /\ cEnd' = cEnd
    BY <1>1, <1>6 DEF Sweep, Calm, clientVars
  <2> HIDE DEF late
  <2> QED BY <1>4, <2>1 DEF EndsCalm
<1>7. ASSUME NEW s \in Socket, Accept(s) PROVE EndsCalm'
  BY <1>1, <1>4, <1>7 DEF Accept, EndsCalm, FormOK
<1>8. ASSUME NEW s \in Socket, ServerClose(s) PROVE EndsCalm'
  BY <1>1, <1>4, <1>8 DEF ServerClose, EndsCalm, FormOK
<1>9. ASSUME NEW s \in Socket, OnError(s), socket # NoSocket PROVE EndsCalm'
  BY <1>1, <1>4, <1>9 DEF OnError, EndsCalm, FormOK
<1>10. EndsCalm'
  BY <1>5, <1>6, <1>7, <1>8, <1>9 DEF GatewayStart, vars, Request, Timeout
<1> QED BY <1>2, <1>4, <1>10, NoLineMoves

(* A close event, a stop and the end of a process are no part of the calm. *)
LEMMA NotCalm ==
  ASSUME LinkInv, CalmInv,
         \/ Disconnect \/ DaemonEnds \/ GatewayEnds
         \/ \E s \in Socket : OnClose(s) \/ (OnError(s) /\ socket = NoSocket)
  PROVE  ~Calm'
<1>1. faults \in Nat
  BY DEF LinkInv, TypeOK
<1>2. CASE Disconnect
  BY <1>2 DEF Disconnect, Calm
<1>3. CASE DaemonEnds \/ GatewayEnds
  BY <1>1, <1>3 DEF DaemonEnds, GatewayEnds, Calm
<1>4. ASSUME NEW s \in Socket, OnError(s), socket = NoSocket PROVE ~Calm'
  BY <1>4 DEF OnError, ProcessEnds, Calm
<1>5. ASSUME NEW s \in Socket, OnClose(s) PROVE ~Calm'
  <2>1. /\ cEnd[s] \in {"open", "ended"} /\ sEnd[s] \in {"ended", "closed"}
        /\ UNCHANGED <<phase, restarted, faults>>
    BY <1>5 DEF OnClose
  <2> QED BY <2>1, InCalm DEF EndsCalm, Calm
<1> QED BY <1>2, <1>3, <1>4, <1>5

(* The step of the calm.                                                   *)
LEMMA StepCalm ==
  ASSUME LinkInv, LinkInv', CalmInv, [Next]_vars
  PROVE  CalmInv'
<1> SUFFICES ASSUME Calm' PROVE EndsCalm' /\ LinesCalm' /\ Kept'
  BY CalmNext
<1>1. CASE Connect \/ ReconnectTimer
  BY <1>1, ConnectCalm
<1>2. CASE Disconnect \/ DaemonEnds \/ GatewayEnds
  BY <1>2, NotCalm
<1>3. CASE SendEvent
  BY <1>3, SendEventCalm
<1>4. ASSUME NEW s \in Socket, ClientStep(s) PROVE EndsCalm' /\ LinesCalm' /\ Kept'
  <2>1. CASE OnError(s)
    BY <2>1, NotCalm, EndsMoveCalm
  <2>2. CASE OnClose(s)
    BY <2>2, NotCalm
  <2>3. CASE OnConnect(s) \/ ReadAtClient(s)
    BY <2>3, OnConnectCalm, ReadAtClientCalm
  <2> QED BY <1>4, <2>1, <2>2, <2>3 DEF ClientStep
<1>5. ASSUME NEW s \in Socket, ServerStep(s) PROVE EndsCalm' /\ LinesCalm' /\ Kept'
  BY <1>5, ReadCalm, EndsMoveCalm DEF ServerStep
<1>6. CASE \/ GatewayStart \/ Sweep \/ UNCHANGED vars
           \/ \E c \in Command : Request(c) \/ Timeout(c)
  BY <1>6, EndsMoveCalm
<1>7. ASSUME NEW c \in Command, NEW success \in BOOLEAN, Answer(c, success)
      PROVE  EndsCalm' /\ LinesCalm' /\ Kept'
  BY <1>7, AnswerCalm
<1> QED BY <1>1, <1>2, <1>3, <1>4, <1>5, <1>6, <1>7 DEF Next

(* Nothing is lost at first.                                               *)
LEMMA InitCalm == Init => CalmInv
<1> SUFFICES ASSUME Init PROVE CalmInv
  OBVIOUS
<1>1. /\ \A s \in Socket : cEnd[s] = "closed" /\ up[s] = <<>>
      /\ buffer = <<>> /\ sent = 0
  BY DEF Init
<1>2. DOMAIN <<>> = {}
  OBVIOUS
<1>3. 1..0 = {}
  OBVIOUS
<1> QED BY <1>1, <1>2, <1>3 DEF CalmInv

---------------------------------------------------------------------------
(* The theorems *)

(* The inductive invariant: the fields and lines of the link, that nothing *)
(* is lost in the calm, and, of a client that is not opened again, that it *)
(* holds one connection and the events under way are in order.             *)
THEOREM LinkInvariant == Spec => []IInv
<1>1. Init => IInv
  BY InitHolds, InitCalm, InitOrdered DEF IInv
<1>2. IInv /\ [Next]_vars => IInv'
  <2> SUFFICES ASSUME IInv, [Next]_vars PROVE IInv'
    OBVIOUS
  <2>1. LinkInv'
    BY StepKeeps DEF IInv
  <2>2. CalmInv'
    BY <2>1, StepCalm DEF IInv
  <2>3. ~MayReopen => OrderInv'
    BY StepOrdered DEF IInv
  <2> QED BY <2>1, <2>2, <2>3 DEF IInv
<1> QED BY <1>1, <1>2, PTL DEF Spec

(* As long as nothing fails, an event is delivered, on its way, in the     *)
(* buffer, or was dropped by a full one: between send, the flush of the    *)
(* buffer and the events of the socket none is lost.                       *)
THEOREM EventsKept == Spec => []NothingLost
<1>1. IInv => NothingLost
  BY DEF IInv, CalmInv, NothingLost
<1> QED BY <1>1, LinkInvariant, PTL

(* A step of the link is a step of the lossy channel, or none: an event is *)
(* counted when it is sent, and what the gateway reads is newer than all   *)
(* it has read.                                                            *)
LEMMA StepOnChannel ==
  ASSUME LinkInv, OrderInv, [Next]_vars
  PROVE  [Channel!LSend \/ Channel!LDeliver]_<<sent, got>>
<1>1. CASE UNCHANGED <<sent, got>>
  BY <1>1
<1>2. CASE SendEvent
  BY <1>2 DEF SendEvent, Channel!LSend
<1>3. ASSUME NEW s \in Socket, ReadAtServer(s)
      PROVE  [Channel!LSend \/ Channel!LDeliver]_<<sent, got>>
  <2>1. CASE Head(up[s]).kind = "event"
    <3>1. got' \in (got + 1)..sent
      BY <1>3, <2>1, ReadOrdered
    <3>2. sent' = sent
      BY <1>3 DEF ReadAtServer
    <3> QED BY <3>1, <3>2 DEF Channel!LDeliver
  <2>2. CASE Head(up[s]).kind # "event"
    BY <1>1, <1>3, <2>2 DEF ReadAtServer
  <2> QED BY <2>1, <2>2
<1>4. \/ Connect \/ ReconnectTimer \/ Disconnect \/ DaemonEnds \/ UNCHANGED vars
      \/ GatewayStart \/ GatewayEnds \/ Sweep
      \/ \E s \in Socket : ClientStep(s) \/ Accept(s) \/ ServerClose(s)
      \/ \E c \in Command : \/ Request(c) \/ Timeout(c)
                            \/ \E success \in BOOLEAN : Answer(c, success)
      => UNCHANGED <<sent, got>>
  BY DEF Connect, ReconnectTimer, Disconnect, DaemonEnds, ProcessEnds, GatewayStart, GatewayEnds,
         Sweep, ClientStep, OnConnect, OnError, OnClose, ReadAtClient, Accept, ServerClose,
         Request, Timeout, Answer, vars, eventVars
<1> QED BY <1>1, <1>2, <1>3, <1>4 DEF Next, ServerStep

(* The link implements the lossy channel: whatever breaks, is flushed, put *)
(* back or sent again, events reach the event bus in order and once. The   *)
(* program opens the client once in a process, so MayReopen is false of it.*)
THEOREM EventsInOrder ==
  ASSUME ~MayReopen
  PROVE  Spec => ImplementsLossyChannel
<1>1. Init => Channel!LInit
  BY DEF Init, Channel!LInit
<1>2. IInv /\ [Next]_vars => [Channel!LSend \/ Channel!LDeliver]_<<sent, got>>
  BY StepOnChannel DEF IInv
<1> QED BY <1>1, <1>2, LinkInvariant, PTL
        DEF Spec, ImplementsLossyChannel, Channel!LossyChannelSpec
=============================================================================
