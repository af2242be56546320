-------------------------- MODULE WorkCycleProofs --------------------------
(* What holds of WorkCycle for any number of items and any limits of the   *)
(* loop: its inductive invariant, the bound on answers without a tool call *)
(* and the state of the run rows.                                          *)
EXTENDS WorkCycle, Integers, TLAPS, FiniteSetTheorems

(* A state of a cycle that goes on.                                        *)
Good(c) ==
  /\ c \in Cycle
  /\ c.phase # "idle"
  /\ IdleCounted(c)
  /\ LoopGoesOn(c)

(* The two counters bound the answers without a call: the product is of    *)
(* the constants only.                                                     *)
LEMMA Slack ==
  ASSUME NEW n \in Nat, NEW m \in Nat, NEW e \in Nat, NEW k \in Nat,
         n < m, e <= k
  PROVE  /\ n * (k + 1) \in Nat /\ m * (k + 1) \in Nat
         /\ (n + 1) * (k + 1) = n * (k + 1) + k + 1
         /\ (n + 1) * (k + 1) <= m * (k + 1)
         /\ n * (k + 1) + e < m * (k + 1)
<1>1. n * (k + 1) \in Nat /\ m * (k + 1) \in Nat
  OBVIOUS
<1>2. (n + 1) * (k + 1) = n * (k + 1) + k + 1
  OBVIOUS
<1>3. PICK d \in Nat : m = n + 1 + d
  <2>1. m - (n + 1) \in Nat /\ m = n + 1 + (m - (n + 1))
    OBVIOUS
  <2>2. QED
    BY <2>1
<1>4. m * (k + 1) = (n + 1) * (k + 1) + d * (k + 1)
  BY <1>3
<1>5. d * (k + 1) \in Nat
  BY <1>3
<1>6. QED
  BY <1>1, <1>2, <1>4, <1>5

(* Whoever is asked has slack left.                                        *)
LEMMA AskedHasSlack ==
  ASSUME NEW c \in Cycle, IdleCounted(c), c.phase = "asking"
  PROVE  c.idle < MaxNoAction * (MaxEmptyRetries + 1)
<1>1. /\ c.noAction \in Nat /\ c.empties \in Nat /\ c.idle \in Nat
      /\ c.noAction < MaxNoAction /\ c.empties <= MaxEmptyRetries
      /\ c.idle <= c.noAction * (MaxEmptyRetries + 1) + c.empties
  BY DEF Cycle, IdleCounted, InLoop
<1>2. /\ c.noAction * (MaxEmptyRetries + 1) \in Nat
      /\ MaxNoAction * (MaxEmptyRetries + 1) \in Nat
      /\ c.noAction * (MaxEmptyRetries + 1) + c.empties
           < MaxNoAction * (MaxEmptyRetries + 1)
  BY <1>1, LoopAssumption, Slack
<1>3. QED
  BY <1>1, <1>2

(* A cycle that is over, whatever its counters say.                        *)
LEMMA EndedGood ==
  ASSUME NEW c \in Cycle, NEW ok \in BOOLEAN
  PROVE  Good(Ended(c, ok))
BY DEF Good, Ended, Cycle, Phase, IdleCounted, LoopGoesOn, InLoop

(* The next round is asked for within the counters' limits, or the         *)
(* iterations are used up.                                                 *)
LEMMA NextRoundGood ==
  ASSUME NEW c \in Cycle, c.left > 0,
         c.noAction < MaxNoAction, c.empties <= MaxEmptyRetries,
         c.idle <= c.noAction * (MaxEmptyRetries + 1) + c.empties
  PROVE  Good(NextRound(c))
<1>1. CASE c.left > 1
  <2> DEFINE d == [c EXCEPT !.phase = "asking", !.left = @ - 1]
  <2>1. NextRound(c) = d
    BY <1>1 DEF NextRound
  <2>2. d \in Cycle /\ d.left > 0 /\ d.phase = "asking"
    <3>1. c.left \in Nat /\ c.left <= MaxIterations /\ MaxIterations \in Nat
      BY LoopAssumption DEF Cycle
    <3>2. c.left - 1 \in 0..MaxIterations /\ c.left - 1 > 0
      BY <3>1, <1>1
    <3>3. d.left = c.left - 1 /\ d.phase = "asking" /\ "asking" \in Phase
      BY DEF Cycle, Phase
    <3>4. d \in Cycle
      BY <3>2, <3>3 DEF Cycle
    <3>5. QED
      BY <3>2, <3>3, <3>4
  <2>3. d.noAction = c.noAction /\ d.empties = c.empties /\ d.idle = c.idle
    BY DEF Cycle
  <2>4. QED
    BY <2>1, <2>2, <2>3 DEF Good, IdleCounted, LoopGoesOn, InLoop
<1>2. CASE ~(c.left > 1)
  <2>1. NextRound(c) = [Ended(c, FALSE) EXCEPT !.left = 0]
    BY <1>2 DEF NextRound
  <2>2. Ended(c, FALSE) \in Cycle /\ Ended(c, FALSE).phase = "recording"
    BY DEF Ended, Cycle, Phase
  <2>3. NextRound(c) \in Cycle /\ NextRound(c).phase = "recording"
    <3> DEFINE e == Ended(c, FALSE)
    <3>1. 0 \in 0..MaxIterations
      BY LoopAssumption
    <3>2. NextRound(c) = [e EXCEPT !.left = 0]
      BY <2>1
    <3>3. e \in Cycle /\ e.phase = "recording"
      BY <2>2
    <3> HIDE DEF e
    <3>4. QED
      BY <3>1, <3>2, <3>3 DEF Cycle
  <2>4. QED
    BY <2>3 DEF Good, IdleCounted, LoopGoesOn, InLoop
<1>3. QED
  BY <1>1, <1>2

(* Counting the tokens of an answer disturbs nothing else.                 *)
LEMMA ChargedGood ==
  ASSUME NEW c, Good(c), NEW t \in Nat
  PROVE  Good([c EXCEPT !.tokens = @ + t])
BY DEF Good, Cycle, IdleCounted, LoopGoesOn, InLoop

(* What every action of a cycle relies on.                                 *)
LEMMA Here ==
  ASSUME IInv, NEW i \in Item
  PROVE  /\ cycle[i] \in Cycle
         /\ IdleCounted(cycle[i]) /\ LoopGoesOn(cycle[i])
         /\ row[i] \in Row
BY DEF IInv, TypeOK

(* A cycle that goes from one state to a good one keeps the invariant.     *)
LEMMA GoesOn ==
  ASSUME IInv, NEW i \in Item, cycle[i].phase # "idle",
         NEW c, Good(c), cycle' = [cycle EXCEPT ![i] = c],
         paid' \in Nat, UNCHANGED store
  PROVE  IInv'
<1>1. TypeOK'
  BY DEF IInv, TypeOK, Good, store
<1>2. \A j \in Item : cycle'[j] = IF j = i THEN c ELSE cycle[j]
  BY DEF IInv, TypeOK
<1>3. \A j \in Item : IdleCounted(cycle'[j]) /\ LoopGoesOn(cycle'[j])
  BY <1>2 DEF IInv, Good
<1>4. IdleBounded'
  BY <1>1, <1>3, AskedHasSlack DEF IdleBounded, TypeOK
<1>5. RunsAreClosed'
  BY <1>2 DEF IInv, RunsAreClosed, Good, store
<1>6. QED
  BY <1>1, <1>3, <1>4, <1>5 DEF IInv

(* The two ways a cycle steps: an answer arrives, or none does.            *)
LEMMA AnswerKeeps ==
  ASSUME IInv, NEW i \in Item, NEW phase, phase # "idle", NEW c, Good(c),
         Answer(i, phase, c)
  PROVE  IInv'
<1>1. PICK t \in Tokens : /\ cycle' = [cycle EXCEPT ![i] = [c EXCEPT !.tokens = @ + t]]
                          /\ paid' = paid + t
  BY DEF Answer
<1>2. t \in Nat /\ paid' \in Nat
  BY <1>1, AnswerAssumption DEF IInv, TypeOK
<1>3. Good([c EXCEPT !.tokens = @ + t])
  BY <1>2, ChargedGood
<1>4. QED
  BY <1>1, <1>2, <1>3, GoesOn DEF Answer

(* A step without an answer that leads to a good cycle keeps IInv.         *)
LEMMA ProceedKeeps ==
  ASSUME IInv, NEW i \in Item, cycle[i].phase # "idle", NEW c, Good(c),
         Proceed(i, c)
  PROVE  IInv'
BY GoesOn DEF Proceed, IInv, TypeOK

(* Each action of a cycle, with the state it leads to.                     *)
LEMMA ClassifyKeeps ==
  ASSUME IInv, NEW i \in Item, ClassifyIntent(i)
  PROVE  IInv'
<1>1. PICK phase \in {"answering", "asking"} :
        Proceed(i, [cycle[i] EXCEPT !.phase = phase])
  BY DEF ClassifyIntent
<1>2. cycle[i].phase = "classifying"
  BY DEF ClassifyIntent
<1>3. Good([cycle[i] EXCEPT !.phase = phase])
  BY <1>2, Here DEF Good, Cycle, Phase, IdleCounted, LoopGoesOn, InLoop
<1>4. QED
  BY <1>1, <1>2, <1>3, ProceedKeeps

(* A simple answer ends the cycle, or the loop begins.                     *)
LEMMA SimpleAnswerKeeps ==
  ASSUME IInv, NEW i \in Item, SimpleAnswer(i)
  PROVE  IInv'
<1>1. CASE Answer(i, "answering", Ended(cycle[i], TRUE))
  BY <1>1, Here, EndedGood, AnswerKeeps
<1>2. CASE Answer(i, "answering", [cycle[i] EXCEPT !.phase = "asking"])
  <2>1. cycle[i].phase = "answering"
    BY <1>2 DEF Answer
  <2>2. Good([cycle[i] EXCEPT !.phase = "asking"])
    BY <2>1, Here DEF Good, Cycle, Phase, IdleCounted, LoopGoesOn, InLoop
  <2>3. QED
    BY <1>2, <2>2, AnswerKeeps
<1>3. QED
  BY <1>1, <1>2 DEF SimpleAnswer

(* Tool calls reset both counters and the ghost with them.                 *)
LEMMA EmitCallsKeeps ==
  ASSUME IInv, NEW i \in Item, EmitCalls(i)
  PROVE  IInv'
<1> DEFINE After(calls) ==
      [cycle[i] EXCEPT !.phase = "acting", !.calls = calls,
                       !.noAction = 0, !.empties = 0, !.idle = 0]
<1>1. PICK calls \in CallLists : Answer(i, "asking", After(calls))
  BY DEF EmitCalls
<1>2. calls \in Seq(Call) /\ calls # <<>>
  BY AnswerAssumption
<1>3. cycle[i].phase = "asking"
  BY <1>1 DEF Answer
<1>4. After(calls) \in Cycle
  BY <1>2, Here DEF Cycle, Phase
<1>5. /\ After(calls).phase = "acting" /\ After(calls).calls # <<>>
      /\ After(calls).left > 0
      /\ After(calls).noAction = 0 /\ After(calls).empties = 0
      /\ After(calls).idle = 0
  BY <1>2, <1>3, Here DEF Cycle, LoopGoesOn
<1>6. 0 <= 0 * (MaxEmptyRetries + 1) + 0
  BY LoopAssumption
<1> HIDE DEF After
<1>7. Good(After(calls))
  BY <1>4, <1>5, <1>6, LoopAssumption DEF Good, IdleCounted, LoopGoesOn, InLoop
<1>8. QED
  BY <1>1, <1>7, AnswerKeeps

(* An empty answer is forgiven, or counts as one without action.           *)
LEMMA SayNothingKeeps ==
  ASSUME IInv, NEW i \in Item, SayNothing(i)
  PROVE  IInv'
<1> DEFINE c == [cycle[i] EXCEPT !.idle = @ + 1]
           d == [c EXCEPT !.empties = @ + 1]
<1>0. cycle[i].phase = "asking"
  BY DEF SayNothing, Answer
<1>1. /\ c \in Cycle /\ c.phase = "asking" /\ c.left > 0
      /\ c.noAction \in Nat /\ c.empties \in Nat /\ c.noAction < MaxNoAction
      /\ c.idle <= c.noAction * (MaxEmptyRetries + 1) + c.empties + 1
  <2>1. /\ c \in Cycle /\ c.phase = "asking" /\ c.left > 0
        /\ c.idle = cycle[i].idle + 1 /\ c.noAction = cycle[i].noAction
        /\ c.empties = cycle[i].empties
        /\ cycle[i].idle \in Nat /\ cycle[i].noAction \in Nat /\ cycle[i].empties \in Nat
    <3> DEFINE b == cycle[i]
    <3>1. b \in Cycle /\ b.phase = "asking" /\ b.left > 0
      BY <1>0, Here DEF LoopGoesOn
    <3> HIDE DEF b
    <3>2. b.idle \in Nat /\ b.noAction \in Nat /\ b.empties \in Nat
      BY <3>1 DEF Cycle
    <3>3. [b EXCEPT !.idle = @ + 1] \in Cycle
      BY <3>1, <3>2 DEF Cycle
    <3> QED BY <3>1, <3>2, <3>3 DEF b, Cycle
  <2>2. /\ cycle[i].noAction < MaxNoAction
        /\ cycle[i].empties <= MaxEmptyRetries
        /\ cycle[i].idle <= cycle[i].noAction * (MaxEmptyRetries + 1) + cycle[i].empties
    BY <1>0, Here DEF IdleCounted, InLoop
  <2> HIDE DEF c
  <2>3. cycle[i].noAction * (MaxEmptyRetries + 1) \in Nat
    BY <2>1, <2>2, LoopAssumption, Slack
  <2>4. QED
    BY <2>1, <2>2, <2>3
<1>2. CASE c.empties < MaxEmptyRetries /\ Answer(i, "asking", NextRound(d))
  <2> HIDE DEF c
  <2>1. /\ d \in Cycle /\ d.left > 0 /\ d.noAction = c.noAction
        /\ d.empties = c.empties + 1 /\ d.idle = c.idle
    BY <1>1 DEF Cycle
  <2> HIDE DEF d
  <2>2. /\ d.noAction < MaxNoAction /\ d.empties <= MaxEmptyRetries
        /\ d.idle <= d.noAction * (MaxEmptyRetries + 1) + d.empties
    <3>1. c.noAction * (MaxEmptyRetries + 1) \in Nat
      BY <1>1, <1>2, LoopAssumption, Slack
    <3>2. QED
      BY <1>1, <1>2, <2>1, <3>1, LoopAssumption
  <2>3. QED
    BY <1>2, <2>1, <2>2, NextRoundGood, AnswerKeeps
<1>3. CASE Answer(i, "asking", Ended(c, FALSE))
  BY <1>1, <1>3, EndedGood, AnswerKeeps
<1>4. CASE \E n \in 1..MaxSearches :
             Answer(i, "asking", [c EXCEPT !.phase = "searching", !.searches = n])
  <2> HIDE DEF c
  <2>1. PICK n \in 1..MaxSearches :
          Answer(i, "asking", [c EXCEPT !.phase = "searching", !.searches = n])
    BY <1>4
  <2>2. n \in 0..MaxSearches
    BY AnswerAssumption
  <2>3. Good([c EXCEPT !.phase = "searching", !.searches = n])
    BY <1>1, <2>2 DEF Good, Cycle, Phase, IdleCounted, LoopGoesOn, InLoop
  <2>4. QED
    BY <2>1, <2>3, AnswerKeeps
<1>5. QED
  BY <1>2, <1>3, <1>4 DEF SayNothing

(* An answer without action makes room for the forgiven ones again.        *)
LEMMA OnlyTalkKeeps ==
  ASSUME IInv, NEW i \in Item, OnlyTalk(i)
  PROVE  IInv'
<1> DEFINE c == [cycle[i] EXCEPT !.idle = @ + 1, !.noAction = @ + 1, !.empties = 0]
<1>0. cycle[i].phase = "asking"
  BY DEF OnlyTalk, Answer
<1>1. /\ c \in Cycle /\ c.left > 0
      /\ c.idle = cycle[i].idle + 1 /\ c.noAction = cycle[i].noAction + 1
      /\ c.empties = 0
      /\ cycle[i].idle \in Nat /\ cycle[i].noAction \in Nat /\ cycle[i].empties \in Nat
  <2>1. cycle[i] \in Cycle /\ cycle[i].left > 0
    BY <1>0, Here DEF LoopGoesOn
  <2>2. cycle[i].idle + 1 \in Nat /\ cycle[i].noAction + 1 \in Nat
    BY <2>1 DEF Cycle
  <2>3. c \in Cycle
    BY <2>1, <2>2 DEF Cycle
  <2>4. QED
    BY <2>1, <2>3 DEF Cycle
<1>2. /\ cycle[i].noAction < MaxNoAction
      /\ cycle[i].empties <= MaxEmptyRetries
      /\ cycle[i].idle <= cycle[i].noAction * (MaxEmptyRetries + 1) + cycle[i].empties
  BY <1>0, Here DEF IdleCounted, InLoop
<1>3. Answer(i, "asking", IF c.noAction >= MaxNoAction THEN Ended(c, FALSE) ELSE NextRound(c))
  BY DEF OnlyTalk
<1> HIDE DEF c
<1>4. c.idle <= c.noAction * (MaxEmptyRetries + 1) + c.empties
  <2>1. /\ (cycle[i].noAction + 1) * (MaxEmptyRetries + 1)
             = cycle[i].noAction * (MaxEmptyRetries + 1) + MaxEmptyRetries + 1
        /\ cycle[i].noAction * (MaxEmptyRetries + 1) \in Nat
    BY <1>1, <1>2, LoopAssumption, Slack
  <2>2. c.noAction * (MaxEmptyRetries + 1)
          = cycle[i].noAction * (MaxEmptyRetries + 1) + MaxEmptyRetries + 1
    BY <1>1, <2>1
  <2>3. QED
    BY <1>1, <1>2, <2>1, <2>2, LoopAssumption
<1>5. CASE c.noAction >= MaxNoAction
  BY <1>1, <1>3, <1>5, EndedGood, AnswerKeeps
<1>6. CASE ~(c.noAction >= MaxNoAction)
  <2>1. c.noAction < MaxNoAction /\ c.empties <= MaxEmptyRetries
    BY <1>1, <1>6, LoopAssumption
  <2>2. Good(NextRound(c))
    BY <1>1, <1>4, <2>1, NextRoundGood
  <2>3. QED
    BY <1>3, <1>6, <2>2, AnswerKeeps
<1>7. QED
  BY <1>5, <1>6

(* A call is executed, ends the cycle, or fails it.                        *)
LEMMA ExecuteCallKeeps ==
  ASSUME IInv, NEW i \in Item, ExecuteCall(i)
  PROVE  IInv'
<1> DEFINE c == cycle[i]
           rest == [c EXCEPT !.calls = Tail(@)]
<1>1. /\ c \in Cycle /\ c.phase = "acting" /\ c.left > 0 /\ c.calls # <<>>
      /\ IdleCounted(c)
  BY Here DEF ExecuteCall, LoopGoesOn
<1>2. CASE Proceed(i, IF rest.calls = <<>> THEN NextRound(rest) ELSE rest)
  <2>1. Tail(c.calls) \in Seq(Call)
    BY <1>1 DEF Cycle
  <2>2. /\ rest \in Cycle /\ rest.phase = "acting" /\ rest.left > 0
        /\ rest.noAction = c.noAction /\ rest.empties = c.empties
        /\ rest.idle = c.idle
    BY <1>1, <2>1 DEF Cycle
  <2> HIDE DEF rest
  <2>3. /\ rest.noAction < MaxNoAction /\ rest.empties <= MaxEmptyRetries
        /\ rest.idle <= rest.noAction * (MaxEmptyRetries + 1) + rest.empties
    BY <1>1, <2>2 DEF IdleCounted, InLoop
  <2>4. CASE rest.calls = <<>>
    BY <1>1, <1>2, <2>2, <2>3, <2>4, NextRoundGood, ProceedKeeps
  <2>5. CASE rest.calls # <<>>
    <3>1. Good(rest)
      BY <2>2, <2>3, <2>5 DEF Good, IdleCounted, LoopGoesOn
    <3>2. QED
      BY <1>1, <1>2, <2>5, <3>1, ProceedKeeps
  <2>6. QED
    BY <2>4, <2>5
<1>3. CASE \E ok \in BOOLEAN : Proceed(i, Ended(c, ok))
  BY <1>1, <1>3, EndedGood, ProceedKeeps
<1>4. QED
  BY <1>2, <1>3 DEF ExecuteCall

(* A search without result is followed by the next, or the cycle ends.     *)
LEMMA FallbackSearchKeeps ==
  ASSUME IInv, NEW i \in Item, FallbackSearch(i)
  PROVE  IInv'
<1>1. cycle[i] \in Cycle /\ cycle[i].phase = "searching" /\ cycle[i].left > 0
  BY Here DEF FallbackSearch, LoopGoesOn
<1>2. CASE Proceed(i, [cycle[i] EXCEPT !.phase = "concluding"])
  <2>1. Good([cycle[i] EXCEPT !.phase = "concluding"])
    BY <1>1 DEF Good, Cycle, Phase, IdleCounted, LoopGoesOn, InLoop
  <2>2. QED
    BY <1>1, <1>2, <2>1, ProceedKeeps
<1>3. CASE cycle[i].searches > 1 /\ Proceed(i, [cycle[i] EXCEPT !.searches = @ - 1])
  <2>1. cycle[i].searches - 1 \in 0..MaxSearches
    BY <1>1, <1>3, AnswerAssumption DEF Cycle
  <2>2. Good([cycle[i] EXCEPT !.searches = @ - 1])
    BY <1>1, <2>1 DEF Good, Cycle, Phase, IdleCounted, LoopGoesOn, InLoop
  <2>3. QED
    BY <1>1, <1>3, <2>2, ProceedKeeps
<1>4. CASE Proceed(i, Ended(cycle[i], FALSE))
  BY <1>1, <1>4, EndedGood, ProceedKeeps
<1>5. QED
  BY <1>2, <1>3, <1>4 DEF FallbackSearch

(* What ends the cycle at once: a claim, a question, a conclusion or an    *)
(* error of the model.                                                     *)
LEMMA EndingKeeps ==
  ASSUME IInv, NEW i \in Item,
         ClaimDone(i) \/ AskUser(i) \/ Conclude(i) \/ ModelFails(i)
  PROVE  IInv'
<1>1. \A ok \in BOOLEAN : Good(Ended(cycle[i], ok))
  BY Here, EndedGood
<1>2. CASE ClaimDone(i) \/ AskUser(i)
  BY <1>1, <1>2, AnswerKeeps DEF ClaimDone, AskUser
<1>3. CASE Conclude(i)
  BY <1>1, <1>3, AnswerKeeps DEF Conclude
<1>4. CASE ModelFails(i)
  BY <1>1, <1>4, ProceedKeeps DEF ModelFails
<1>5. QED
  BY <1>2, <1>3, <1>4

(* The actions that touch the books.                                       *)
LEMMA BeginKeeps ==
  ASSUME IInv, NEW i \in Item, Begin(i)
  PROVE  IInv'
<1> DEFINE c == [cycle[i] EXCEPT !.phase = "classifying"]
           r == [number |-> row[i].number + 1, status |-> "running", tokens |-> 0]
<1>1. /\ cycle' = [cycle EXCEPT ![i] = c] /\ row' = [row EXCEPT ![i] = r]
      /\ UNCHANGED <<spent, paid, faults>>
      /\ cycle[i].phase = "idle" /\ row[i].number < MaxRuns
  BY DEF Begin
<1>2. row[i].number \in Nat /\ row[i].number + 1 \in 0..MaxRuns
  BY <1>1, Here, AnswerAssumption DEF Row
<1>3. r \in Row
  BY <1>2 DEF Row
<1>4. TypeOK'
  <2>1. c \in Cycle
    <3> DEFINE b == cycle[i]
    <3>1. b \in Cycle
      BY Here
    <3> HIDE DEF b
    <3>2. [b EXCEPT !.phase = "classifying"] \in Cycle
      BY <3>1 DEF Cycle, Phase
    <3> QED BY <3>2 DEF b
  <2> HIDE DEF c, r
  <2>2. cycle' \in [Item -> Cycle] /\ row' \in [Item -> Row]
    BY <1>1, <1>3, <2>1 DEF IInv, TypeOK
  <2> QED BY <1>1, <2>2 DEF IInv, TypeOK
<1>5. \A j \in Item : IdleCounted(cycle'[j]) /\ LoopGoesOn(cycle'[j])
  <2>1. IdleCounted(c) /\ LoopGoesOn(c)
    BY <1>1, Here DEF Cycle, IdleCounted, LoopGoesOn, InLoop
  <2>2. \A j \in Item : cycle'[j] = IF j = i THEN c ELSE cycle[j]
    BY <1>1 DEF IInv, TypeOK
  <2>3. QED
    BY <2>1, <2>2, Here
<1>6. IdleBounded'
  BY <1>4, <1>5, AskedHasSlack DEF IdleBounded, TypeOK
<1>7. RunsAreClosed'
  <2>1. /\ \A j \in Item : cycle'[j] = IF j = i THEN c ELSE cycle[j]
        /\ \A j \in Item : row'[j] = IF j = i THEN r ELSE row[j]
    BY <1>1 DEF IInv, TypeOK
  <2>2. c.phase = "classifying" /\ r.status = "running"
    BY <1>1, Here DEF Cycle
  <2> HIDE DEF c, r
  <2>3. QED
    BY <1>1, <2>1, <2>2 DEF IInv, RunsAreClosed
<1>8. QED
  BY <1>4, <1>5, <1>6, <1>7 DEF IInv

(* The locals of a cycle that has not begun.                               *)
LEMMA FreshGood ==
  /\ Fresh \in Cycle
  /\ Fresh.phase = "idle"
  /\ IdleCounted(Fresh)
  /\ LoopGoesOn(Fresh)
<1>1. Fresh \in Cycle
  BY LoopAssumption, AnswerAssumption DEF Fresh, Cycle, Phase
<1>2. 0 <= 0 * (MaxEmptyRetries + 1) + 0
  BY LoopAssumption
<1>3. QED
  BY <1>1, <1>2, LoopAssumption DEF Fresh, IdleCounted, LoopGoesOn, InLoop

(* One cycle is over and its run is closed, or a fault kept it open.       *)
LEMMA ClosedKeeps ==
  ASSUME IInv, NEW i \in Item, NEW r \in Row, r.status # "running" \/ faults' > 0,
         cycle' = [cycle EXCEPT ![i] = Fresh], row' = [row EXCEPT ![i] = r],
         spent' \in Nat, paid' \in Nat, faults' \in 0..MaxFaults, faults' >= faults
  PROVE  IInv'
<1>1. /\ \A j \in Item : cycle'[j] = IF j = i THEN Fresh ELSE cycle[j]
      /\ \A j \in Item : row'[j] = IF j = i THEN r ELSE row[j]
  BY DEF IInv, TypeOK
<1>2. TypeOK'
  BY FreshGood DEF IInv, TypeOK
<1>3. \A j \in Item : IdleCounted(cycle'[j]) /\ LoopGoesOn(cycle'[j])
  BY <1>1, Here, FreshGood
<1>4. IdleBounded'
  BY <1>2, <1>3, AskedHasSlack DEF IdleBounded, TypeOK
<1>5. RunsAreClosed'
  <2>1. faults \in Nat /\ faults' \in Nat
    BY AnswerAssumption DEF IInv, TypeOK
  <2>2. QED
    BY <1>1, <2>1, FreshGood DEF IInv, RunsAreClosed
<1>6. QED
  BY <1>2, <1>3, <1>4, <1>5 DEF IInv

(* Every cycle is over at once and at most the runs' outcomes changed.     *)
LEMMA DeathKeeps ==
  ASSUME IInv, Die, row' \in [Item -> Row]
  PROVE  IInv'
<1>1. \A j \in Item : cycle'[j] = Fresh
  BY DEF Die
<1>2. faults' \in 0..MaxFaults /\ faults' > 0
  BY AnswerAssumption DEF IInv, TypeOK, Die
<1>3. TypeOK'
  BY <1>2, FreshGood DEF IInv, TypeOK, Die
<1>4. \A j \in Item : IdleCounted(cycle'[j]) /\ LoopGoesOn(cycle'[j])
  BY <1>1, FreshGood
<1>5. IdleBounded'
  BY <1>3, <1>4, AskedHasSlack DEF IdleBounded, TypeOK
<1>6. RunsAreClosed'
  BY <1>1, <1>2, FreshGood DEF RunsAreClosed
<1>7. QED
  BY <1>3, <1>4, <1>5, <1>6 DEF IInv

(* A recorded run is a row that is closed.                                 *)
LEMMA CompletedRunIsRow ==
  ASSUME IInv, NEW i \in Item
  PROVE  CompletedRun(i) \in Row /\ CompletedRun(i).status # "running"
BY Here DEF CompletedRun, Row, Cycle

(* Whatever the books take, the cycle ends and its row with it.            *)
LEMMA RecordKeeps ==
  ASSUME IInv, NEW i \in Item,
         Record(i) \/ BookingFails(i) \/ CrashWhileRecording(i)
  PROVE  IInv'
<1>1. /\ cycle[i].tokens \in Nat /\ spent \in Nat /\ paid \in Nat
      /\ faults \in 0..MaxFaults /\ MaxFaults \in Nat
  BY Here, AnswerAssumption DEF IInv, TypeOK, Cycle
<1>2. CASE Record(i)
  <2> DEFINE r == CompletedRun(i)
  <2>1. /\ cycle' = [cycle EXCEPT ![i] = Fresh] /\ row' = [row EXCEPT ![i] = r]
        /\ spent' = spent + cycle[i].tokens /\ UNCHANGED <<paid, faults>>
    BY <1>2 DEF Record
  <2>2. /\ spent' \in Nat /\ paid' \in Nat
        /\ faults' \in 0..MaxFaults /\ faults' >= faults
    BY <1>1, <2>1
  <2>3. r \in Row /\ r.status # "running"
    BY CompletedRunIsRow
  <2> HIDE DEF r
  <2>4. QED
    BY <2>1, <2>2, <2>3, ClosedKeeps
<1>3. CASE BookingFails(i)
  <2>1. PICK r \in {row[i], CompletedRun(i), FailedRun(i)} : row' = [row EXCEPT ![i] = r]
    BY <1>3 DEF BookingFails
  <2>2. FailedRun(i) \in Row
    BY Here DEF FailedRun, Row
  <2>3. r \in Row
    BY <2>1, <2>2, Here, CompletedRunIsRow
  <2>4. /\ cycle' = [cycle EXCEPT ![i] = Fresh] /\ faults' = faults + 1 /\ faults < MaxFaults
        /\ spent' \in {spent, spent + cycle[i].tokens} /\ paid' = paid
    BY <1>3 DEF BookingFails
  <2>5. /\ spent' \in Nat /\ paid' \in Nat
        /\ faults' \in 0..MaxFaults /\ faults' >= faults /\ faults' > 0
    BY <1>1, <2>4
  <2>6. QED
    BY <2>1, <2>3, <2>4, <2>5, ClosedKeeps
<1>4. CASE CrashWhileRecording(i)
  <2>1. row' \in [Item -> Row]
    BY <1>4, CompletedRunIsRow DEF CrashWhileRecording, IInv, TypeOK
  <2>2. QED
    BY <1>4, <2>1, DeathKeeps DEF CrashWhileRecording
<1>5. QED
  BY <1>2, <1>3, <1>4

(* The initial state satisfies the invariant.                              *)
LEMMA InitHolds ==
  ASSUME Init
  PROVE  IInv
<1>1. [number |-> 0, status |-> "none", tokens |-> 0] \in Row
  BY AnswerAssumption DEF Row
<1>2. TypeOK
  BY <1>1, FreshGood, AnswerAssumption DEF Init, TypeOK
<1>3. QED
  BY <1>2, FreshGood DEF Init, IInv, IdleBounded, RunsAreClosed

(* Every step keeps the invariant.                                         *)
LEMMA NextKeeps ==
  ASSUME IInv, [Next]_vars
  PROVE  IInv'
<1>1. CASE UNCHANGED vars
  BY <1>1 DEF vars, IInv, TypeOK, IdleBounded, RunsAreClosed
<1>2. CASE Crash
  BY <1>2, DeathKeeps DEF Crash, IInv, TypeOK
<1>3. ASSUME NEW i \in Item,
             Begin(i) \/ Step(i) \/ BookingFails(i) \/ CrashWhileRecording(i)
      PROVE  IInv'
  <2>1. CASE Begin(i)
    BY <2>1, BeginKeeps
  <2>2. CASE Record(i) \/ BookingFails(i) \/ CrashWhileRecording(i)
    BY <2>2, RecordKeeps
  <2>3. CASE ClassifyIntent(i) \/ SimpleAnswer(i) \/ EmitCalls(i) \/ SayNothing(i)
    BY <2>3, ClassifyKeeps, SimpleAnswerKeeps, EmitCallsKeeps, SayNothingKeeps
  <2>4. CASE OnlyTalk(i) \/ ExecuteCall(i) \/ FallbackSearch(i)
    BY <2>4, OnlyTalkKeeps, ExecuteCallKeeps, FallbackSearchKeeps
  <2>5. CASE ClaimDone(i) \/ AskUser(i) \/ Conclude(i) \/ ModelFails(i)
    BY <2>5, EndingKeeps
  <2>6. QED
    BY <1>3, <2>1, <2>2, <2>3, <2>4, <2>5 DEF Step
<1>4. QED
  BY <1>1, <1>2, <1>3 DEF Next

(* For any items, limits and answers: cycles work on open runs, and the    *)
(* loop's counters bound what the model may answer without acting.         *)
THEOREM WorkCycleInvariant == Spec => []IInv
BY InitHolds, NextKeeps, PTL DEF Spec

(* The model is never asked again after MaxNoAction * (MaxEmptyRetries + 1)*)
(* answers in a row that call no tool (executeWorkCycle's two counters).   *)
THEOREM AnswersWithoutAction == Spec => []IdleBounded
<1>1. IInv => IdleBounded
  BY DEF IInv
<1>2. QED
  BY <1>1, WorkCycleInvariant, PTL

(* A run stays open after its cycle only if the daemon died in it          *)
(* (executeWorkItem closes it on every other path).                        *)
THEOREM RunsClosedByTheirCycles == Spec => []RunsAreClosed
<1>1. IInv => RunsAreClosed
  BY DEF IInv
<1>2. QED
  BY <1>1, WorkCycleInvariant, PTL

-----------------------------------------------------------------------------
(* Tokens *)

(* A cycle's own tokens, and those of the others.                          *)
Own(cycles, i) == {i} \X (1..cycles[i].tokens)
Others(cycles, i) == UNION {Own(cycles, j) : j \in Item \ {i}}

(* Finitely many sets, one for each of some items, have a finite union if  *)
(* each is finite.                                                         *)
LEMMA FiniteTogether ==
  ASSUME NEW c, NEW I \in SUBSET Item, \A j \in I : IsFiniteSet(Own(c, j))
  PROVE  IsFiniteSet(UNION {Own(c, j) : j \in I})
<1> DEFINE S == {Own(c, j) : j \in I}
           f == [j \in I |-> Own(c, j)]
<1>1. IsFiniteSet(I)
  BY ItemAssumption, FS_Subset
<1>2. f \in Surjection(I, S)
  <2>1. f \in [I -> S]
    OBVIOUS
  <2>2. ASSUME NEW t \in S PROVE \E j \in I : f[j] = t
    <3>1. PICK j \in I : t = Own(c, j)
      OBVIOUS
    <3> QED BY <3>1
  <2> HIDE DEF f, S
  <2> QED BY <2>1, <2>2 DEF Surjection
<1>3. IsFiniteSet(S)
  BY <1>1, <1>2, FS_Surjection
<1> HIDE DEF S
<1>4. \A T \in S : IsFiniteSet(T)
  BY DEF S
<1> QED BY <1>3, <1>4, FS_UNION DEF S

(* A cycle has as many tokens as it counts.                                *)
LEMMA OwnTokens ==
  ASSUME NEW c, NEW i, c[i].tokens \in Nat
  PROVE  IsFiniteSet(Own(c, i)) /\ Cardinality(Own(c, i)) = c[i].tokens
<1>1. IsFiniteSet({i}) /\ Cardinality({i}) = 1
  BY FS_Singleton
<1>2. IsFiniteSet(1..c[i].tokens) /\ Cardinality(1..c[i].tokens) = c[i].tokens
  <2> DEFINE n == c[i].tokens
  <2>1. n \in Nat
    OBVIOUS
  <2> HIDE DEF n
  <2>2. IsFiniteSet(1..n) /\ Cardinality(1..n) = IF 1 > n THEN 0 ELSE n - 1 + 1
    BY <2>1, FS_Interval
  <2>3. (IF 1 > n THEN 0 ELSE n - 1 + 1) = n
    BY <2>1
  <2> QED BY <2>2, <2>3 DEF n
<1>3. /\ IsFiniteSet({i} \X (1..c[i].tokens))
      /\ Cardinality({i} \X (1..c[i].tokens)) = c[i].tokens
  <2> DEFINE n == c[i].tokens
             T == 1..c[i].tokens
  <2>1. n \in Nat /\ IsFiniteSet(T) /\ Cardinality(T) = n
    BY <1>2
  <2> HIDE DEF n, T
  <2>2. IsFiniteSet({i} \X T) /\ Cardinality({i} \X T) = Cardinality({i}) * Cardinality(T)
    BY <1>1, <2>1, FS_Product
  <2>3. Cardinality({i} \X T) = n
    BY <1>1, <2>1, <2>2
  <2> QED BY <2>2, <2>3 DEF n, T
<1> QED BY <1>3 DEF Own

(* All tokens are those of one cycle and those of the others.              *)
LEMMA CountedSplit ==
  ASSUME NEW c, \A j \in Item : c[j].tokens \in Nat, NEW i \in Item
  PROVE  /\ IsFiniteSet(Counted(c)) /\ Cardinality(Others(c, i)) \in Nat
         /\ Cardinality(Counted(c)) = Cardinality(Others(c, i)) + c[i].tokens
<1>1. IsFiniteSet(Own(c, i)) /\ Cardinality(Own(c, i)) = c[i].tokens
  BY OwnTokens
<1>2. IsFiniteSet(Others(c, i))
  <2> DEFINE I == Item \ {i}
  <2>1. I \in SUBSET Item /\ \A j \in I : IsFiniteSet(Own(c, j))
    BY OwnTokens
  <2> HIDE DEF I
  <2>2. IsFiniteSet(UNION {Own(c, j) : j \in I})
    BY <2>1, FiniteTogether
  <2> QED BY <2>2 DEF I, Others
<1>3. Counted(c) = Others(c, i) \cup Own(c, i)
  <2>1. Counted(c) = UNION {Own(c, j) : j \in Item}
    BY DEF Counted, Own
  <2> QED BY <2>1 DEF Others
<1>4. Others(c, i) \cap Own(c, i) = {}
  BY DEF Others, Own
<1>5. /\ IsFiniteSet(Counted(c))
      /\ Cardinality(Counted(c)) = Cardinality(Others(c, i)) + Cardinality(Own(c, i)) - Cardinality({})
  BY <1>1, <1>2, <1>3, <1>4, FS_Union
<1>6. Cardinality({}) = 0 /\ Cardinality(Others(c, i)) \in Nat
  BY <1>2, FS_EmptySet, FS_CardinalityType
<1> QED BY <1>1, <1>5, <1>6

(* When one cycle moves on, the sum changes by what it counts.             *)
LEMMA CountedChange ==
  ASSUME NEW c, \A j \in Item : c[j].tokens \in Nat,
         NEW d, \A j \in Item : d[j].tokens \in Nat,
         NEW i \in Item, \A j \in Item \ {i} : d[j] = c[j]
  PROVE  /\ Cardinality(Counted(c)) \in Nat /\ Cardinality(Counted(d)) \in Nat
         /\ Cardinality(Counted(d)) + c[i].tokens = Cardinality(Counted(c)) + d[i].tokens
         /\ c[i].tokens = d[i].tokens => Cardinality(Counted(d)) = Cardinality(Counted(c))
<1>1. Others(d, i) = Others(c, i)
  BY DEF Others, Own
<1>2. /\ Cardinality(Others(c, i)) \in Nat
      /\ Cardinality(Counted(c)) = Cardinality(Others(c, i)) + c[i].tokens
      /\ Cardinality(Counted(d)) = Cardinality(Others(c, i)) + d[i].tokens
  BY <1>1, CountedSplit
<1> QED BY <1>2

(* Cycles that have not begun have counted nothing.                        *)
LEMMA NothingCounted == Cardinality(Counted([i \in Item |-> Fresh])) = 0
<1>1. \A i \in Item : ([j \in Item |-> Fresh])[i].tokens = 0
  BY DEF Fresh
<1>0. 1..0 = {}
  OBVIOUS
<1>2. Counted([i \in Item |-> Fresh]) = {}
  BY <1>0, <1>1 DEF Counted
<1> QED BY <1>2, FS_EmptySet

(* Nothing moves between the books.                                        *)
LEMMA CountsStay ==
  ASSUME IInv, TokensConserved, NEW i \in Item, NEW c,
         cycle' = [cycle EXCEPT ![i] = c], c.tokens = cycle[i].tokens,
         UNCHANGED <<spent, paid, lost, faults>>
  PROVE  TokensConserved'
<1>1. \A j \in Item : cycle[j].tokens \in Nat
  BY Here DEF Cycle
<1>2. cycle'[i] = c /\ \A j \in Item \ {i} : cycle'[j] = cycle[j]
  BY DEF IInv, TypeOK
<1>3. \A j \in Item : cycle'[j].tokens \in Nat
  BY <1>1, <1>2
<1>4. Cardinality(Counted(cycle')) = Cardinality(Counted(cycle))
  BY <1>1, <1>2, <1>3, CountedChange
<1>5. InFlight' = InFlight
  BY <1>4 DEF InFlight
<1> QED BY <1>5 DEF TokensConserved

(* A record with a count of tokens.                                        *)
HasTokens(c) == "tokens" \in DOMAIN c /\ c = [f \in DOMAIN c |-> c[f]]

(* An answer is paid for and counted.                                      *)
LEMMA AnswerCounted ==
  ASSUME IInv, TokensConserved, NEW i \in Item, NEW phase, NEW c,
         HasTokens(c), c.tokens = cycle[i].tokens, Answer(i, phase, c)
  PROVE  TokensConserved'
<1>0. PICK t \in Tokens : /\ cycle' = [cycle EXCEPT ![i] = [c EXCEPT !.tokens = @ + t]]
                          /\ paid' = paid + t /\ UNCHANGED <<spent, lost, faults>>
  BY DEF Answer, store
<1>1. /\ t \in Nat /\ spent \in Nat /\ paid \in Nat
      /\ \A j \in Item : cycle[j].tokens \in Nat
  BY <1>0, Here, AnswerAssumption DEF Cycle, IInv, TypeOK
<1>2. cycle'[i].tokens = cycle[i].tokens + t /\ \A j \in Item \ {i} : cycle'[j] = cycle[j]
  <2>1. [c EXCEPT !.tokens = @ + t].tokens = cycle[i].tokens + t
    BY DEF HasTokens
  <2> QED BY <1>0, <2>1 DEF IInv, TypeOK
<1>3. \A j \in Item : cycle'[j].tokens \in Nat
  BY <1>1, <1>2
<1>4. /\ Cardinality(Counted(cycle)) \in Nat /\ Cardinality(Counted(cycle')) \in Nat
      /\ Cardinality(Counted(cycle')) + cycle[i].tokens
           = Cardinality(Counted(cycle)) + cycle'[i].tokens
  BY <1>1, <1>2, <1>3, CountedChange
<1>5. InFlight' = InFlight + t /\ InFlight \in Nat
  BY <1>1, <1>2, <1>4 DEF InFlight
<1> QED BY <1>0, <1>1, <1>5 DEF TokensConserved

(* The tokens of a cycle that ends go to the goal or are lost.             *)
LEMMA BookedTokens ==
  ASSUME IInv, TokensConserved, NEW i \in Item, Record(i) \/ BookingFails(i)
  PROVE  TokensConserved'
<1>1. /\ spent \in Nat /\ lost \in Nat /\ faults \in Nat /\ paid \in Nat
      /\ \A j \in Item : cycle[j].tokens \in Nat
  BY Here, AnswerAssumption DEF Cycle, IInv, TypeOK, TokensConserved
<1>2. cycle' = [cycle EXCEPT ![i] = Fresh] /\ paid' = paid
  BY DEF Record, BookingFails
<1>3. cycle'[i].tokens = 0 /\ \A j \in Item \ {i} : cycle'[j] = cycle[j]
  BY <1>2 DEF IInv, TypeOK, Fresh
<1>4. \A j \in Item : cycle'[j].tokens \in Nat
  BY <1>1, <1>3
<1>5. /\ Cardinality(Counted(cycle)) \in Nat /\ Cardinality(Counted(cycle')) \in Nat
      /\ Cardinality(Counted(cycle')) + cycle[i].tokens
           = Cardinality(Counted(cycle)) + cycle'[i].tokens
  BY <1>1, <1>3, <1>4, CountedChange
<1>6. InFlight' + cycle[i].tokens = InFlight /\ InFlight' \in Nat /\ InFlight \in Nat
  BY <1>3, <1>5 DEF InFlight
<1>7. \/ spent' = spent + cycle[i].tokens /\ lost' = lost /\ faults' = faults
      \/ spent' = spent /\ lost' = lost + cycle[i].tokens /\ faults' = faults + 1
      \/ spent' = spent + cycle[i].tokens /\ lost' = lost /\ faults' = faults + 1
  BY DEF Record, BookingFails
<1>8. spent' + InFlight' + lost' = paid' /\ lost' \in Nat /\ (faults' = 0 => lost' = 0)
  <2>1. /\ lost \in Nat /\ spent + InFlight + lost = paid
        /\ faults = 0 => lost = 0
    BY DEF TokensConserved
  <2> QED BY <1>1, <1>2, <1>6, <1>7, <2>1
<1> QED BY <1>8 DEF TokensConserved

(* What the cycles had counted is lost when the daemon dies.               *)
LEMMA DeathLoses ==
  ASSUME IInv, TokensConserved, Die
  PROVE  TokensConserved'
<1>1. /\ cycle' = [i \in Item |-> Fresh] /\ lost' = lost + InFlight
      /\ faults' = faults + 1 /\ spent' = spent /\ paid' = paid
  BY DEF Die
<1>2. InFlight' = 0
  BY <1>1, NothingCounted DEF InFlight
<1>3. /\ spent \in Nat /\ lost \in Nat /\ faults \in Nat /\ paid \in Nat
      /\ \A j \in Item : cycle[j].tokens \in Nat
  BY Here, AnswerAssumption DEF Cycle, IInv, TypeOK, TokensConserved
<1>4. InFlight \in Nat
  <2>1. CASE Item = {}
    <3>1. Counted(cycle) = {}
      BY <2>1 DEF Counted
    <3> QED BY <3>1, FS_EmptySet DEF InFlight
  <2>2. ASSUME NEW i \in Item PROVE InFlight \in Nat
    <3>1. IsFiniteSet(Counted(cycle))
      BY <1>3, CountedSplit
    <3> QED BY <3>1, FS_CardinalityType DEF InFlight
  <2> QED BY <2>1, <2>2
<1> QED BY <1>1, <1>2, <1>3, <1>4 DEF TokensConserved

(* What the steps of a cycle make of it: none touches the tokens.          *)
LEMMA SameTokens ==
  ASSUME NEW c, HasTokens(c)
  PROVE  /\ \A ok \in BOOLEAN : HasTokens(Ended(c, ok)) /\ Ended(c, ok).tokens = c.tokens
         /\ HasTokens(NextRound(c)) /\ NextRound(c).tokens = c.tokens
<1>1. \A ok \in BOOLEAN : HasTokens(Ended(c, ok)) /\ Ended(c, ok).tokens = c.tokens
  BY DEF Ended, HasTokens
<1>2. CASE c.left > 1
  <2> DEFINE k == c.left - 1
             e == [c EXCEPT !.phase = "asking", !.left = k]
  <2>1. NextRound(c) = e
    BY <1>2 DEF NextRound
  <2> HIDE DEF k
  <2>2. e.tokens = c.tokens /\ DOMAIN e = DOMAIN c
    BY DEF HasTokens
  <2>3. HasTokens(e)
    <3>1. e = [f \in DOMAIN c |-> e[f]]
      OBVIOUS
    <3> HIDE DEF e
    <3> QED BY <2>2, <3>1 DEF HasTokens
  <2> HIDE DEF e
  <2> QED BY <1>1, <2>1, <2>2, <2>3
<1>3. CASE ~(c.left > 1)
  <2> DEFINE e == Ended(c, FALSE)
  <2>1. NextRound(c) = [e EXCEPT !.left = 0] /\ HasTokens(e) /\ e.tokens = c.tokens
    BY <1>1, <1>3 DEF NextRound
  <2> HIDE DEF e
  <2> QED BY <1>1, <2>1 DEF HasTokens
<1> QED BY <1>2, <1>3

(* A cycle is such a record.                                               *)
LEMMA CycleHasTokens == \A c \in Cycle : HasTokens(c)
BY DEF Cycle, HasTokens

(* Answers that do not go astray, action by action.                        *)
LEMMA AnswersCounted ==
  ASSUME IInv, TokensConserved, NEW i \in Item,
         \/ SimpleAnswer(i) \/ ClaimDone(i) \/ AskUser(i) \/ EmitCalls(i)
         \/ SayNothing(i) \/ OnlyTalk(i) \/ Conclude(i)
  PROVE  TokensConserved'
<1> DEFINE c == cycle[i]
           Same(d) == HasTokens(d) /\ d.tokens = c.tokens
<1>1. HasTokens(c)
  BY Here, CycleHasTokens
<1>2. ASSUME NEW phase, NEW d, Same(d), Answer(i, phase, d) PROVE TokensConserved'
  BY <1>2, AnswerCounted
<1>3. \A ok \in BOOLEAN : Same(Ended(c, ok))
  BY <1>1, SameTokens
<1>4. CASE ClaimDone(i) \/ AskUser(i) \/ Conclude(i)
  BY <1>2, <1>3, <1>4 DEF ClaimDone, AskUser, Conclude
<1>5. CASE SimpleAnswer(i)
  <2>1. Same([c EXCEPT !.phase = "asking"])
    BY <1>1 DEF HasTokens
  <2> QED BY <1>2, <1>3, <1>5, <2>1 DEF SimpleAnswer
<1>6. CASE EmitCalls(i)
  <2>1. PICK calls \in CallLists :
          Answer(i, "asking", [c EXCEPT !.phase = "acting", !.calls = calls,
                                        !.noAction = 0, !.empties = 0, !.idle = 0])
    BY <1>6 DEF EmitCalls
  <2>2. Same([c EXCEPT !.phase = "acting", !.calls = calls,
                       !.noAction = 0, !.empties = 0, !.idle = 0])
    BY <1>1 DEF HasTokens
  <2> QED BY <1>2, <2>1, <2>2
<1>7. CASE SayNothing(i)
  <2> DEFINE d == [c EXCEPT !.idle = @ + 1]
             e == [d EXCEPT !.empties = @ + 1]
  <2>1. Same(d)
    BY <1>1 DEF HasTokens
  <2>2. \/ Answer(i, "asking", NextRound(e)) \/ Answer(i, "asking", Ended(d, FALSE))
        \/ \E n \in 1..MaxSearches :
             Answer(i, "asking", [d EXCEPT !.phase = "searching", !.searches = n])
    BY <1>7 DEF SayNothing
  <2> HIDE DEF d
  <2>3. Same(e) /\ \A n : Same([d EXCEPT !.phase = "searching", !.searches = n])
    BY <2>1 DEF HasTokens
  <2> HIDE DEF e
  <2>4. Same(NextRound(e)) /\ Same(Ended(d, FALSE))
    BY <2>1, <2>3, SameTokens
  <2> QED BY <1>2, <2>2, <2>3, <2>4
<1>8. CASE OnlyTalk(i)
  <2> DEFINE d == [c EXCEPT !.idle = @ + 1, !.noAction = @ + 1, !.empties = 0]
  <2>1. Same(d)
    BY <1>1 DEF HasTokens
  <2>2. Answer(i, "asking", IF d.noAction >= MaxNoAction THEN Ended(d, FALSE) ELSE NextRound(d))
    BY <1>8 DEF OnlyTalk
  <2> HIDE DEF d
  <2>3. Same(NextRound(d)) /\ Same(Ended(d, FALSE))
    BY <2>1, SameTokens
  <2> QED BY <1>2, <2>2, <2>3
<1> QED BY <1>4, <1>5, <1>6, <1>7, <1>8

(* Steps without an answer leave the tokens where they are.                *)
LEMMA OthersCounted ==
  ASSUME IInv, TokensConserved, NEW i \in Item,
         \/ Begin(i) \/ ClassifyIntent(i) \/ ExecuteCall(i) \/ FallbackSearch(i) \/ ModelFails(i)
  PROVE  TokensConserved'
<1> DEFINE c == cycle[i]
           Same(d) == HasTokens(d) /\ d.tokens = c.tokens
<1>1. HasTokens(c)
  BY Here, CycleHasTokens
<1>2. ASSUME NEW d, Same(d), cycle' = [cycle EXCEPT ![i] = d],
             UNCHANGED <<spent, paid, lost, faults>>
      PROVE  TokensConserved'
  BY <1>2, CountsStay
<1>3. ASSUME NEW d, Same(d), Proceed(i, d) PROVE TokensConserved'
  BY <1>2, <1>3 DEF Proceed, store
<1>4. \A ok \in BOOLEAN : Same(Ended(c, ok))
  BY <1>1, SameTokens
<1>5. CASE Begin(i)
  <2>1. Same([c EXCEPT !.phase = "classifying"])
    BY <1>1 DEF HasTokens
  <2>2. cycle' = [cycle EXCEPT ![i] = [c EXCEPT !.phase = "classifying"]]
    BY <1>5 DEF Begin
  <2> QED BY <1>2, <1>5, <2>1, <2>2 DEF Begin
<1>6. CASE ClassifyIntent(i)
  <2>1. \A phase : Same([c EXCEPT !.phase = phase])
    BY <1>1 DEF HasTokens
  <2> QED BY <1>3, <1>6, <2>1 DEF ClassifyIntent
<1>7. CASE ExecuteCall(i)
  <2> DEFINE rest == [c EXCEPT !.calls = Tail(@)]
  <2>1. Same(rest)
    BY <1>1 DEF HasTokens
  <2>2. \/ Proceed(i, NextRound(rest)) \/ Proceed(i, rest)
        \/ \E ok \in BOOLEAN : Proceed(i, Ended(c, ok))
    BY <1>7 DEF ExecuteCall
  <2> HIDE DEF rest
  <2>3. Same(NextRound(rest))
    BY <2>1, SameTokens
  <2> QED BY <1>3, <1>4, <2>1, <2>2, <2>3
<1>8. CASE FallbackSearch(i)
  <2>1. Same([c EXCEPT !.phase = "concluding"]) /\ Same([c EXCEPT !.searches = @ - 1])
    BY <1>1 DEF HasTokens
  <2> QED BY <1>3, <1>4, <1>8, <2>1 DEF FallbackSearch
<1>9. CASE ModelFails(i)
  BY <1>3, <1>4, <1>9 DEF ModelFails
<1> QED BY <1>5, <1>6, <1>7, <1>8, <1>9

(* The first state has counted nothing.                                    *)
LEMMA InitConserves == Init => TokensConserved
<1> SUFFICES ASSUME Init PROVE TokensConserved
  OBVIOUS
<1>1. InFlight = 0
  BY NothingCounted DEF Init, InFlight
<1> QED BY <1>1 DEF Init, TokensConserved

(* However the cycles end, every token the model was paid for is charged,  *)
(* still counted, or was lost to a fault (executeWorkCycle's totalTokens,  *)
(* completeRun and updateGoalSpending).                                    *)
THEOREM TokensAreConserved == Spec => []TokensConserved
<1>1. IInv /\ TokensConserved /\ [Next]_vars => TokensConserved'
  <2> SUFFICES ASSUME IInv, TokensConserved, [Next]_vars PROVE TokensConserved'
    OBVIOUS
  <2>1. CASE UNCHANGED vars
    BY <2>1 DEF vars, TokensConserved, InFlight, Counted
  <2>2. CASE Crash \/ \E i \in Item : CrashWhileRecording(i)
    BY <2>2, DeathLoses DEF Crash, CrashWhileRecording
  <2>3. ASSUME NEW i \in Item, Record(i) \/ BookingFails(i) PROVE TokensConserved'
    BY <2>3, BookedTokens
  <2>4. ASSUME NEW i \in Item,
               \/ SimpleAnswer(i) \/ ClaimDone(i) \/ AskUser(i) \/ EmitCalls(i)
               \/ SayNothing(i) \/ OnlyTalk(i) \/ Conclude(i)
        PROVE  TokensConserved'
    BY <2>4, AnswersCounted
  <2>5. ASSUME NEW i \in Item,
               \/ Begin(i) \/ ClassifyIntent(i) \/ ExecuteCall(i) \/ FallbackSearch(i)
               \/ ModelFails(i)
        PROVE  TokensConserved'
    BY <2>5, OthersCounted
  <2> QED BY <2>1, <2>2, <2>3, <2>4, <2>5 DEF Next, Step
<1> QED BY <1>1, InitConserves, WorkCycleInvariant, PTL DEF Spec

-----------------------------------------------------------------------------
(* Cycles run down *)

(* Tokens are no part of the measure.                                      *)
LEMMA AnswerNearer ==
  ASSUME IInv, NEW i \in Item, NEW phase, NEW d \in Cycle, Answer(i, phase, d),
         Nearer(d, cycle[i])
  PROVE  Nearer(cycle'[i], cycle[i])
<1>1. PICK t \in Tokens : cycle' = [cycle EXCEPT ![i] = [d EXCEPT !.tokens = @ + t]]
  BY DEF Answer
<1> DEFINE e == [d EXCEPT !.tokens = @ + t]
<1>2. cycle'[i] = e
  BY <1>1 DEF IInv, TypeOK
<1>3. e.left = d.left /\ e.phase = d.phase /\ e.calls = d.calls /\ e.searches = d.searches
  BY DEF Cycle
<1> HIDE DEF e
<1> QED BY <1>2, <1>3 DEF Nearer

LEMMA ProceedNearer ==
  ASSUME IInv, NEW i \in Item, NEW d, Proceed(i, d), Nearer(d, cycle[i])
  PROVE  Nearer(cycle'[i], cycle[i])
BY DEF Proceed, IInv, TypeOK

(* A cycle that ends has gone on: nothing but the end of the books is      *)
(* behind it.                                                              *)
LEMMA EndedNearer ==
  ASSUME NEW c \in Cycle, c.phase \notin {"idle", "recording"}, NEW ok \in BOOLEAN
  PROVE  Ended(c, ok) \in Cycle /\ Nearer(Ended(c, ok), c)
<1>1. Ended(c, ok) \in Cycle
  BY EndedGood DEF Good
<1>2. Ended(c, ok).left = c.left /\ Ended(c, ok).phase = "recording"
  BY DEF Ended, Cycle
<1>3. Rank["recording"] < Rank[c.phase]
  BY DEF Rank, Cycle, Phase
<1> QED BY <1>1, <1>2, <1>3 DEF Nearer

(* A round has passed, whatever the counters of b say.                     *)
LEMMA NextRoundNearer ==
  ASSUME NEW c \in Cycle, NEW b \in Cycle, b.left = c.left, c.left > 0
  PROVE  NextRound(b) \in Cycle /\ Nearer(NextRound(b), c)
<1>1. c.left \in Nat /\ b.left <= MaxIterations /\ MaxIterations \in Nat
  BY LoopAssumption DEF Cycle
<1>2. CASE b.left > 1
  <2>1. NextRound(b) = [b EXCEPT !.phase = "asking", !.left = @ - 1]
    BY <1>2 DEF NextRound
  <2>2. b.left - 1 \in 0..MaxIterations /\ b.left - 1 < c.left
    BY <1>1, <1>2
  <2>3. NextRound(b) \in Cycle /\ NextRound(b).left = b.left - 1
    BY <2>1, <2>2 DEF Cycle, Phase
  <2> QED BY <2>2, <2>3 DEF Nearer
<1>3. CASE ~(b.left > 1)
  <2> DEFINE e == Ended(b, FALSE)
  <2>1. NextRound(b) = [e EXCEPT !.left = 0] /\ e \in Cycle
    BY <1>3, EndedGood DEF NextRound, Good
  <2> HIDE DEF e
  <2>2. 0 \in 0..MaxIterations
    BY <1>1
  <2>3. NextRound(b) \in Cycle /\ NextRound(b).left = 0
    BY <2>1, <2>2 DEF Cycle
  <2> QED BY <1>1, <2>3 DEF Nearer
<1> QED BY <1>2, <1>3

(* The phases in their order.                                              *)
LEMMA RankOrder ==
  /\ Rank["recording"] < Rank["asking"] /\ Rank["asking"] < Rank["answering"]
  /\ Rank["acting"] < Rank["asking"] /\ Rank["searching"] < Rank["asking"]
  /\ Rank["concluding"] < Rank["searching"]
  /\ Rank["asking"] < Rank["classifying"] /\ Rank["answering"] < Rank["classifying"]
BY DEF Rank

(* Another phase of the same round.                                        *)
LEMMA PhaseNearer ==
  ASSUME NEW c \in Cycle, NEW d \in Cycle, d.left = c.left, Rank[d.phase] < Rank[c.phase]
  PROVE  Nearer(d, c)
BY DEF Nearer

(* Answers bring the loop on.                                              *)
LEMMA AnswersBringOn ==
  ASSUME IInv, NEW i \in Item,
         \/ SimpleAnswer(i) \/ ClaimDone(i) \/ AskUser(i) \/ EmitCalls(i)
         \/ SayNothing(i) \/ OnlyTalk(i) \/ Conclude(i)
  PROVE  Nearer(cycle'[i], cycle[i])
<1> DEFINE c == cycle[i]
<1>0. c \in Cycle /\ (c.phase # "recording" => c.left > 0)
  BY Here DEF LoopGoesOn
<1> HIDE DEF c
<1>1. ASSUME NEW phase, NEW ok \in BOOLEAN, Answer(i, phase, Ended(c, ok)),
             phase \notin {"idle", "recording"}
      PROVE  Nearer(cycle'[i], cycle[i])
  BY <1>0, <1>1, EndedNearer, AnswerNearer DEF Answer, c
<1>2. CASE Answer(i, "answering", [c EXCEPT !.phase = "asking"])
  <2> DEFINE d == [c EXCEPT !.phase = "asking"]
  <2>1. c.phase = "answering"
    BY <1>2 DEF Answer, c
  <2>2. d \in Cycle /\ d.left = c.left /\ d.phase = "asking"
    BY <1>0 DEF Cycle, Phase
  <2>3. Nearer(d, c)
    BY <1>0, <2>1, <2>2, PhaseNearer, RankOrder
  <2> QED BY <1>2, <2>2, <2>3, AnswerNearer DEF c
<1>3. CASE EmitCalls(i)
  <2>1. PICK calls \in CallLists :
          Answer(i, "asking", [c EXCEPT !.phase = "acting", !.calls = calls,
                                        !.noAction = 0, !.empties = 0, !.idle = 0])
    BY <1>3 DEF EmitCalls, c
  <2> DEFINE d == [c EXCEPT !.phase = "acting", !.calls = calls,
                            !.noAction = 0, !.empties = 0, !.idle = 0]
  <2>2. c.phase = "asking" /\ calls \in Seq(Call)
    BY <2>1, AnswerAssumption DEF Answer, c
  <2>3. d \in Cycle /\ d.left = c.left /\ d.phase = "acting"
    BY <1>0, <2>2 DEF Cycle, Phase
  <2>4. Nearer(d, c)
    BY <1>0, <2>2, <2>3, PhaseNearer, RankOrder
  <2> QED BY <2>1, <2>3, <2>4, AnswerNearer DEF c
<1>4. CASE SayNothing(i)
  <2> DEFINE b == [c EXCEPT !.idle = @ + 1]
             e == [b EXCEPT !.empties = @ + 1]
  <2>1. c.phase = "asking"
    BY <1>4 DEF SayNothing, Answer, c
  <2>2. b \in Cycle /\ b.left = c.left /\ b.phase = "asking" /\ b.empties \in Nat
    BY <1>0, <2>1 DEF Cycle
  <2>3. \/ Answer(i, "asking", NextRound(e))
        \/ Answer(i, "asking", Ended(b, FALSE))
        \/ \E n \in 1..MaxSearches :
             Answer(i, "asking", [b EXCEPT !.phase = "searching", !.searches = n])
    BY <1>4 DEF SayNothing, c
  <2> HIDE DEF b
  <2>4. e \in Cycle /\ e.left = c.left
    BY <2>2 DEF Cycle
  <2> HIDE DEF e
  <2>5. CASE Answer(i, "asking", NextRound(e))
    BY <1>0, <2>1, <2>4, <2>5, NextRoundNearer, AnswerNearer DEF c
  <2>6. CASE Answer(i, "asking", Ended(b, FALSE))
    <3>1. Ended(b, FALSE) \in Cycle /\ Nearer(Ended(b, FALSE), b)
      BY <2>2, EndedNearer
    <3>2. Nearer(Ended(b, FALSE), c)
      <4>1. Ended(b, FALSE).left = c.left /\ Ended(b, FALSE).phase = "recording"
        BY <2>2 DEF Ended, Cycle
      <4> QED BY <1>0, <2>1, <3>1, <4>1, PhaseNearer, RankOrder
    <3> QED BY <2>6, <3>1, <3>2, AnswerNearer DEF c
  <2>7. ASSUME NEW n \in 1..MaxSearches,
               Answer(i, "asking", [b EXCEPT !.phase = "searching", !.searches = n])
        PROVE  Nearer(cycle'[i], cycle[i])
    <3> DEFINE d == [b EXCEPT !.phase = "searching", !.searches = n]
    <3>1. n \in 0..MaxSearches
      BY AnswerAssumption
    <3>2. d \in Cycle /\ d.left = c.left /\ d.phase = "searching"
      BY <2>2, <3>1 DEF Cycle, Phase
    <3>3. Nearer(d, c)
      BY <1>0, <2>1, <3>2, PhaseNearer, RankOrder
    <3> QED BY <2>7, <3>2, <3>3, AnswerNearer DEF c
  <2> QED BY <2>3, <2>5, <2>6, <2>7
<1>5. CASE OnlyTalk(i)
  <2> DEFINE b == [c EXCEPT !.idle = @ + 1, !.noAction = @ + 1, !.empties = 0]
  <2>1. c.phase = "asking"
    BY <1>5 DEF OnlyTalk, Answer, c
  <2>2. b \in Cycle /\ b.left = c.left /\ b.phase = "asking"
    <3>1. c.idle + 1 \in Nat /\ c.noAction + 1 \in Nat
      BY <1>0 DEF Cycle
    <3> QED BY <1>0, <2>1, <3>1 DEF Cycle
  <2>3. \/ Answer(i, "asking", Ended(b, FALSE))
        \/ Answer(i, "asking", NextRound(b))
    BY <1>5 DEF OnlyTalk, c
  <2> HIDE DEF b
  <2>4. CASE Answer(i, "asking", NextRound(b))
    BY <1>0, <2>1, <2>2, <2>4, NextRoundNearer, AnswerNearer DEF c
  <2>5. CASE Answer(i, "asking", Ended(b, FALSE))
    <3>1. Ended(b, FALSE) \in Cycle /\ Nearer(Ended(b, FALSE), b)
      BY <2>2, EndedNearer
    <3>2. Ended(b, FALSE).left = c.left /\ Ended(b, FALSE).phase = "recording"
      BY <2>2 DEF Ended, Cycle
    <3>3. Nearer(Ended(b, FALSE), c)
      BY <1>0, <2>1, <3>1, <3>2, PhaseNearer, RankOrder
    <3> QED BY <2>5, <3>1, <3>3, AnswerNearer DEF c
  <2> QED BY <2>3, <2>4, <2>5
<1>6. CASE SimpleAnswer(i)
  <2>1. CASE Answer(i, "answering", Ended(c, TRUE))
    <3>1. TRUE \in BOOLEAN /\ "answering" \notin {"idle", "recording"}
      OBVIOUS
    <3> QED BY ONLY <1>1, <2>1, <3>1
  <2> QED BY <1>2, <1>6, <2>1 DEF SimpleAnswer, c
<1>7. CASE ClaimDone(i) \/ AskUser(i)
  <2>1. \E ok \in BOOLEAN : Answer(i, "asking", Ended(c, ok))
    BY <1>7 DEF ClaimDone, AskUser, c
  <2> QED BY <1>1, <2>1
<1>8. CASE Conclude(i)
  BY <1>1, <1>8 DEF Conclude, c
<1> QED BY <1>3, <1>4, <1>5, <1>6, <1>7, <1>8

(* So does what happens between two answers.                               *)
LEMMA OthersBringOn ==
  ASSUME IInv, NEW i \in Item,
         ClassifyIntent(i) \/ ExecuteCall(i) \/ FallbackSearch(i) \/ ModelFails(i)
  PROVE  Nearer(cycle'[i], cycle[i])
<1> DEFINE c == cycle[i]
<1>0. c \in Cycle /\ (c.phase # "recording" => c.left > 0) /\ (c.phase = "acting" => c.calls # <<>>)
  BY Here DEF LoopGoesOn
<1> HIDE DEF c
<1>1. ASSUME NEW ok \in BOOLEAN, Proceed(i, Ended(c, ok)), c.phase \notin {"idle", "recording"}
      PROVE  Nearer(cycle'[i], cycle[i])
  BY <1>0, <1>1, EndedNearer, ProceedNearer DEF c
<1>2. CASE ClassifyIntent(i)
  <2>1. PICK phase \in {"answering", "asking"} : Proceed(i, [c EXCEPT !.phase = phase])
    BY <1>2 DEF ClassifyIntent, c
  <2> DEFINE d == [c EXCEPT !.phase = phase]
  <2>2. c.phase = "classifying"
    BY <1>2 DEF ClassifyIntent, c
  <2>3. d \in Cycle /\ d.left = c.left /\ d.phase = phase
    BY <1>0 DEF Cycle, Phase
  <2>4. Nearer(d, c)
    BY <1>0, <2>2, <2>3, PhaseNearer, RankOrder
  <2> QED BY <2>1, <2>4, ProceedNearer DEF c
<1>3. CASE ExecuteCall(i)
  <2> DEFINE rest == [c EXCEPT !.calls = Tail(@)]
  <2>1. c.phase = "acting" /\ c.calls \in Seq(Call) /\ c.calls # <<>> /\ c.searches \in Nat
    BY <1>0, <1>3, AnswerAssumption DEF ExecuteCall, c, Cycle
  <2>2. /\ Tail(c.calls) \in Seq(Call)
        /\ Len(Tail(c.calls)) \in Nat /\ Len(c.calls) \in Nat
        /\ Len(Tail(c.calls)) < Len(c.calls)
    BY <2>1
  <2>3. /\ rest \in Cycle /\ rest.left = c.left /\ rest.phase = c.phase
        /\ rest.searches = c.searches /\ rest.calls = Tail(c.calls)
    BY <1>0, <2>2 DEF Cycle
  <2>4. \/ Proceed(i, NextRound(rest))
        \/ Proceed(i, rest)
        \/ \E ok \in BOOLEAN : Proceed(i, Ended(c, ok))
    BY <1>3 DEF ExecuteCall, c
  <2> HIDE DEF rest
  <2>5. Nearer(rest, c)
    BY <2>1, <2>2, <2>3 DEF Nearer
  <2>6. Nearer(NextRound(rest), c)
    BY <1>0, <2>1, <2>3, NextRoundNearer
  <2> QED BY <1>1, <2>1, <2>4, <2>5, <2>6, ProceedNearer DEF c
<1>4. CASE FallbackSearch(i)
  <2>1. c.phase = "searching" /\ c.searches \in Nat /\ c.calls \in Seq(Call)
    BY <1>0, <1>4, AnswerAssumption DEF FallbackSearch, c, Cycle
  <2>2. \/ Proceed(i, [c EXCEPT !.phase = "concluding"])
        \/ Proceed(i, [c EXCEPT !.searches = @ - 1])
        \/ Proceed(i, Ended(c, FALSE))
    BY <1>4 DEF FallbackSearch, c
  <2>3. Nearer([c EXCEPT !.phase = "concluding"], c)
    <3> DEFINE d == [c EXCEPT !.phase = "concluding"]
    <3>1. d \in Cycle /\ d.left = c.left /\ d.phase = "concluding"
      BY <1>0 DEF Cycle, Phase
    <3> QED BY <1>0, <2>1, <3>1, PhaseNearer, RankOrder
  <2>4. Nearer([c EXCEPT !.searches = @ - 1], c)
    <3> DEFINE d == [c EXCEPT !.searches = @ - 1]
    <3>1. /\ d.left = c.left /\ d.phase = c.phase /\ d.calls = c.calls
          /\ d.searches = c.searches - 1
      BY <1>0 DEF Cycle
    <3>2. Len(c.calls) \in Nat
      BY <2>1
    <3> HIDE DEF d
    <3> QED BY <2>1, <3>1, <3>2 DEF Nearer
  <2> QED BY <1>1, <2>1, <2>2, <2>3, <2>4, ProceedNearer DEF c
<1>5. CASE ModelFails(i)
  BY <1>1, <1>5 DEF ModelFails, c
<1> QED BY <1>2, <1>3, <1>4, <1>5

(* Only its own steps change a cycle, and faults that end it.              *)
LEMMA StepsBringOn ==
  ASSUME IInv, [Next]_vars, NEW i \in Item, cycle[i].phase # "idle"
  PROVE  \/ cycle'[i] = cycle[i] \/ cycle'[i].phase = "idle" \/ Nearer(cycle'[i], cycle[i])
<1>0. cycle \in [Item -> Cycle] /\ Fresh.phase = "idle"
  BY FreshGood DEF IInv, TypeOK
<1>1. CASE UNCHANGED vars
  BY <1>1 DEF vars
<1>2. CASE Crash \/ \E j \in Item : CrashWhileRecording(j)
  BY <1>0, <1>2 DEF Crash, CrashWhileRecording, Die
<1>3. ASSUME NEW j \in Item, Record(j) \/ BookingFails(j) \/ Begin(j) PROVE
             cycle'[i] = cycle[i] \/ cycle'[i].phase = "idle"
  <2>1. j = i => cycle' = [cycle EXCEPT ![i] = Fresh]
    BY <1>3 DEF Record, BookingFails, Begin
  <2>2. \E c : cycle' = [cycle EXCEPT ![j] = c]
    BY <1>3 DEF Record, BookingFails, Begin
  <2> QED BY <1>0, <2>1, <2>2
<1>4. ASSUME NEW j \in Item, j # i,
             \/ ClassifyIntent(j) \/ SimpleAnswer(j) \/ ClaimDone(j) \/ AskUser(j)
             \/ EmitCalls(j) \/ SayNothing(j) \/ OnlyTalk(j) \/ ExecuteCall(j)
             \/ FallbackSearch(j) \/ Conclude(j) \/ ModelFails(j)
      PROVE  cycle'[i] = cycle[i]
  <2>1. ASSUME NEW c, Proceed(j, c) PROVE cycle'[i] = cycle[i]
    BY <1>0, <1>4, <2>1 DEF Proceed
  <2>2. ASSUME NEW phase, NEW c, Answer(j, phase, c) PROVE cycle'[i] = cycle[i]
    BY <1>0, <1>4, <2>2 DEF Answer
  <2>3. CASE \/ ClassifyIntent(j) \/ ExecuteCall(j) \/ FallbackSearch(j) \/ ModelFails(j)
    BY <2>1, <2>3 DEF ClassifyIntent, ExecuteCall, FallbackSearch, ModelFails
  <2>4. CASE \/ SimpleAnswer(j) \/ ClaimDone(j) \/ AskUser(j)
             \/ EmitCalls(j) \/ SayNothing(j) \/ OnlyTalk(j) \/ Conclude(j)
    BY <2>2, <2>4 DEF SimpleAnswer, ClaimDone, AskUser, EmitCalls, SayNothing, OnlyTalk, Conclude
  <2> QED BY <1>4, <2>3, <2>4
<1> QED
  BY <1>1, <1>2, <1>3, <1>4, AnswersBringOn, OthersBringOn DEF Next, Step

(* No cycle is ever set back: with the rounds that are left, the phases of *)
(* a round and the calls and searches of a phase it comes to its end in    *)
(* finitely many steps (the loop of executeWorkCycle).                     *)
THEOREM CyclesAreFinite == Spec => CyclesRunDown
<1>1. IInv /\ [Next]_vars =>
        [\A i \in Item :
           cycle[i].phase # "idle" =>
             \/ cycle'[i] = cycle[i]
             \/ cycle'[i].phase = "idle"
             \/ Nearer(cycle'[i], cycle[i])]_vars
  BY StepsBringOn
<1> QED BY <1>1, WorkCycleInvariant, PTL DEF Spec, CyclesRunDown
=============================================================================
