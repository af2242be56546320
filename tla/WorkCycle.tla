----------------------------- MODULE WorkCycle -----------------------------
(* The execution of the work items of one goal: ExecutionService opens a   *)
(* run, ReActIntegration.executeWorkCycle asks the model in a loop and     *)
(* executes the tool calls it answers with, and the outcome and its tokens *)
(* are written to the run and added to the goal. Items of several lanes    *)
(* are executed at once; their steps interleave at every await.            *)
(*                                                                         *)
(* Messages, prompts and results are left out: of an answer of the model   *)
(* the loop tells apart whether it claims completion, asks the user, calls *)
(* tools, only talks or says nothing. A step is what runs between two      *)
(* awaits; the model, the tools and the store are external.                *)
EXTENDS Naturals, Sequences, FiniteSets

CONSTANTS
  Item,            \* work items of the goal
  MaxIterations,   \* maxIterations: rounds of the loop (20 in the code)
  MaxNoAction,     \* maxNoActionIterations: answers that only talk (3)
  MaxEmptyRetries, \* maxEmptyResponseRetries: empty answers forgiven (1)
  CallLists,       \* tool calls of one answer, in order
  Tokens,          \* tokensUsed of one answer
  MaxSearches,     \* bound: fallback searches found among the tools
  MaxRuns,         \* bound: runs of an item
  MaxFaults        \* bound: crashes of the daemon and failed bookings

Call == {"tool", "malformed", "complete_task"}

ASSUME LoopAssumption ==
  /\ MaxIterations \in Nat \ {0}
  /\ MaxNoAction \in Nat \ {0}
  /\ MaxEmptyRetries \in Nat
ASSUME ItemAssumption == IsFiniteSet(Item)
ASSUME AnswerAssumption ==
  /\ CallLists \subseteq Seq(Call) \ {<<>>}
  /\ Tokens \subseteq Nat
  /\ MaxSearches \in Nat
  /\ MaxRuns \in Nat
  /\ MaxFaults \in Nat

Phase == {"idle", "classifying", "answering", "asking", "acting",
          "searching", "concluding", "recording"}

(* The locals of executeWorkCycle. idle is kept for the properties only:   *)
(* the answers in a row that called no tool.                               *)
Cycle == [phase : Phase, left : 0..MaxIterations, noAction : Nat, empties : Nat,
          calls : Seq(Call), searches : 0..MaxSearches, tokens : Nat,
          success : BOOLEAN, idle : Nat]

Fresh == [phase |-> "idle", left |-> MaxIterations, noAction |-> 0, empties |-> 0,
          calls |-> <<>>, searches |-> 0, tokens |-> 0,
          success |-> FALSE, idle |-> 0]

Row == [number : 0..MaxRuns, status : {"none", "running", "success", "failure"},
        tokens : Nat]

VARIABLES
  cycle,   \* what the execution of an item holds in memory
  row,     \* the latest run of an item in the runs table
  spent,   \* spent_tokens of the goal
  paid,    \* tokens of every answer of the loop, for the properties only
  lost,    \* tokens that a fault kept from the books, likewise
  faults

vars == <<cycle, row, spent, paid, lost, faults>>
store == <<row, spent, lost, faults>>

Init ==
  /\ cycle = [i \in Item |-> Fresh]
  /\ row = [i \in Item |-> [number |-> 0, status |-> "none", tokens |-> 0]]
  /\ spent = 0
  /\ paid = 0
  /\ lost = 0
  /\ faults = 0

-----------------------------------------------------------------------------
(* The loop *)

Ended(c, ok) == [c EXCEPT !.phase = "recording", !.success = ok]

(* maxIterations-- and the loop's condition.                               *)
NextRound(c) ==
  IF c.left > 1
  THEN [c EXCEPT !.phase = "asking", !.left = @ - 1]
  ELSE [Ended(c, FALSE) EXCEPT !.left = 0]

(* The model answers: its tokens are counted before anything is made of it *)
(* and the cycle goes on as c.                                             *)
Answer(i, phase, c) ==
  /\ cycle[i].phase = phase
  /\ \E t \in Tokens :
       /\ cycle' = [cycle EXCEPT ![i] = [c EXCEPT !.tokens = @ + t]]
       /\ paid' = paid + t
  /\ UNCHANGED store

(* A step of the cycle in which no answer of the loop arrives.             *)
Proceed(i, c) ==
  /\ cycle' = [cycle EXCEPT ![i] = c]
  /\ UNCHANGED <<paid, store>>

Begin(i) ==
  /\ cycle[i].phase = "idle"
  /\ row[i].number < MaxRuns
  /\ cycle' = [cycle EXCEPT ![i].phase = "classifying"]
  /\ row' = [row EXCEPT ![i] = [number |-> @.number + 1, status |-> "running",
                                tokens |-> 0]]
  /\ UNCHANGED <<spent, paid, lost, faults>>

(* The tokens of the classification are not counted, and its failure is    *)
(* not the cycle's: a heuristic decides instead.                           *)
ClassifyIntent(i) ==
  /\ cycle[i].phase = "classifying"
  /\ \E phase \in {"answering", "asking"} :
       Proceed(i, [cycle[i] EXCEPT !.phase = phase])

(* A simple question is answered without tools; an empty answer falls      *)
(* through to the loop.                                                    *)
SimpleAnswer(i) ==
  \/ Answer(i, "answering", Ended(cycle[i], TRUE))
  \/ Answer(i, "answering", [cycle[i] EXCEPT !.phase = "asking"])

(* A text that claims completion, or else one that asks the user, ends the *)
(* cycle; tool calls that come with it are dropped.                        *)
ClaimDone(i) == Answer(i, "asking", Ended(cycle[i], TRUE))
AskUser(i) == Answer(i, "asking", Ended(cycle[i], FALSE))

EmitCalls(i) ==
  \E calls \in CallLists :
    Answer(i, "asking", [cycle[i] EXCEPT !.phase = "acting", !.calls = calls,
                                         !.noAction = 0, !.empties = 0, !.idle = 0])

(* Mutant: an empty answer clears the other counter as well. *)
SayNothingForgiven(i) ==
  LET c == [cycle[i] EXCEPT !.idle = @ + 1, !.noAction = 0]
  IN  \/ /\ c.empties < MaxEmptyRetries
         /\ Answer(i, "asking", NextRound([c EXCEPT !.empties = @ + 1]))
      \/ /\ c.empties >= MaxEmptyRetries
         /\ Answer(i, "asking", Ended(c, FALSE))

(* No call and no text: forgiven MaxEmptyRetries times in a row, then the  *)
(* tools that look like searches are tried once each. There may be none.   *)
SayNothing(i) ==
  LET c == [cycle[i] EXCEPT !.idle = @ + 1]
  IN  \/ /\ c.empties < MaxEmptyRetries
         /\ Answer(i, "asking", NextRound([c EXCEPT !.empties = @ + 1]))
      \/ /\ c.empties >= MaxEmptyRetries
         /\ \/ Answer(i, "asking", Ended(c, FALSE))
            \/ \E n \in 1..MaxSearches :
                 Answer(i, "asking", [c EXCEPT !.phase = "searching", !.searches = n])

(* A text and no call.                                                     *)
OnlyTalk(i) ==
  LET c == [cycle[i] EXCEPT !.idle = @ + 1, !.noAction = @ + 1, !.empties = 0]
  IN  Answer(i, "asking",
             IF c.noAction >= MaxNoAction THEN Ended(c, FALSE) ELSE NextRound(c))

(* Mutant: a call that does not parse is tried again. *)
ExecuteCallAgain(i) ==
  LET c == cycle[i]
      rest == [c EXCEPT !.calls = Tail(@)]
  IN  /\ c.phase = "acting"
      /\ \/ /\ Head(c.calls) = "tool"
            /\ Proceed(i, IF rest.calls = <<>> THEN NextRound(rest) ELSE rest)
         \/ /\ Head(c.calls) = "malformed"
            /\ Proceed(i, c)
         \/ /\ Head(c.calls) = "complete_task"
            /\ Proceed(i, Ended(c, TRUE))

(* The next call of the answer. Whatever the tool does, its result or its  *)
(* error is a message; arguments that do not parse end the cycle, and      *)
(* complete_task ends it before the calls that follow.                     *)
ExecuteCall(i) ==
  LET c == cycle[i]
      rest == [c EXCEPT !.calls = Tail(@)]
  IN  /\ c.phase = "acting"
      /\ \/ /\ Head(c.calls) = "tool"
            /\ Proceed(i, IF rest.calls = <<>> THEN NextRound(rest) ELSE rest)
         \/ /\ Head(c.calls) = "malformed"
            /\ Proceed(i, Ended(c, FALSE))
         \/ /\ Head(c.calls) = "complete_task"
            /\ Proceed(i, Ended(c, TRUE))

(* executeLocalFallback: the first search that yields something is put to  *)
(* the model for a conclusion.                                             *)
FallbackSearch(i) ==
  LET c == cycle[i]
  IN  /\ c.phase = "searching"
      /\ \/ Proceed(i, [c EXCEPT !.phase = "concluding"])
         \/ /\ c.searches > 1
            /\ Proceed(i, [c EXCEPT !.searches = @ - 1])
         \/ /\ c.searches = 1
            /\ Proceed(i, Ended(c, FALSE))

Conclude(i) ==
  \E ok \in BOOLEAN : Answer(i, "concluding", Ended(cycle[i], ok))

(* Mutant: the failure is returned without the tokens counted so far. *)
ModelFailsUncounted(i) ==
  /\ cycle[i].phase \in {"answering", "asking", "concluding"}
  /\ Proceed(i, [Ended(cycle[i], FALSE) EXCEPT !.tokens = 0])

(* complete() throws, after its fallbacks: the cycle fails and returns     *)
(* what it has counted so far.                                             *)
ModelFails(i) ==
  /\ cycle[i].phase \in {"answering", "asking", "concluding"}
  /\ Proceed(i, Ended(cycle[i], FALSE))

-----------------------------------------------------------------------------
(* The books *)

CompletedRun(i) ==
  [row[i] EXCEPT !.status = IF cycle[i].success THEN "success" ELSE "failure",
                 !.tokens = cycle[i].tokens]

(* The tokens that the cycles have counted and the books do not show yet:  *)
(* how many, each cycle's counted one by one.                              *)
Counted(cycles) == UNION {{i} \X (1..cycles[i].tokens) : i \in Item}
InFlight == Cardinality(Counted(cycle))

(* completeRun, then updateGoalSpending, which adds in the statement.      *)
Record(i) ==
  /\ cycle[i].phase = "recording"
  /\ row' = [row EXCEPT ![i] = CompletedRun(i)]
  /\ spent' = spent + cycle[i].tokens
  /\ cycle' = [cycle EXCEPT ![i] = Fresh]
  /\ UNCHANGED <<paid, lost, faults>>

(* What the catch clause makes of a run: a failure that used nothing.      *)
FailedRun(i) == [row[i] EXCEPT !.status = "failure", !.tokens = 0]

(* A statement throws, before the goal is charged or after, and the catch  *)
(* clause completes the run once more; or its own completeRun throws too,  *)
(* and the row stays as it was, open if completeRun had thrown before.     *)
BookingFails(i) ==
  /\ faults < MaxFaults
  /\ cycle[i].phase = "recording"
  /\ \/ /\ lost' = lost + cycle[i].tokens
        /\ UNCHANGED spent
        /\ \E r \in {row[i], CompletedRun(i), FailedRun(i)} : row' = [row EXCEPT ![i] = r]
     \/ /\ spent' = spent + cycle[i].tokens
        /\ UNCHANGED lost
        /\ \E r \in {CompletedRun(i), FailedRun(i)} : row' = [row EXCEPT ![i] = r]
  /\ cycle' = [cycle EXCEPT ![i] = Fresh]
  /\ faults' = faults + 1
  /\ UNCHANGED paid

Die ==
  /\ faults < MaxFaults
  /\ cycle' = [i \in Item |-> Fresh]
  /\ lost' = lost + InFlight
  /\ faults' = faults + 1
  /\ UNCHANGED <<spent, paid>>

(* The daemon dies: the runs it was executing stay open.                   *)
Crash == Die /\ UNCHANGED row

(* It dies between the two statements of Record.                           *)
CrashWhileRecording(i) ==
  /\ cycle[i].phase = "recording"
  /\ row' = [row EXCEPT ![i] = CompletedRun(i)]
  /\ Die

-----------------------------------------------------------------------------
Step(i) ==
  \/ ClassifyIntent(i)
  \/ SimpleAnswer(i)
  \/ ClaimDone(i)
  \/ AskUser(i)
  \/ EmitCalls(i)
  \/ SayNothing(i)
  \/ OnlyTalk(i)
  \/ ExecuteCall(i)
  \/ FallbackSearch(i)
  \/ Conclude(i)
  \/ ModelFails(i)
  \/ Record(i)

Next ==
  \/ \E i \in Item : Begin(i) \/ Step(i) \/ BookingFails(i) \/ CrashWhileRecording(i)
  \/ Crash

Spec == Init /\ [][Next]_vars

(* A request to the model times out (60 s unless told otherwise) and a     *)
(* tool returns: what is awaited arrives. Nothing obliges the scheduler to *)
(* begin a run, nor a fault to happen.                                     *)
FairSpec == Spec /\ \A i \in Item : WF_vars(Step(i))

-----------------------------------------------------------------------------
TypeOK ==
  /\ cycle \in [Item -> Cycle]
  /\ row \in [Item -> Row]
  /\ spent \in Nat
  /\ paid \in Nat
  /\ faults \in 0..MaxFaults

InLoop == {"asking", "acting"}

(* The loop's two counters, which reset each other's: what they admit of   *)
(* answers without a call.                                                 *)
IdleCounted(c) ==
  c.phase \in {"idle", "classifying", "answering"} \cup InLoop =>
    /\ c.noAction < MaxNoAction
    /\ c.empties <= MaxEmptyRetries
    /\ c.idle <= c.noAction * (MaxEmptyRetries + 1) + c.empties

LoopGoesOn(c) ==
  /\ c.phase # "recording" => c.left > 0
  /\ c.phase = "acting" => c.calls # <<>>

(* The model is never asked again after MaxNoAction * (MaxEmptyRetries + 1)*)
(* answers in a row without a tool call, however empty answers and texts   *)
(* alternate: a model that does nothing cannot use up the iterations.      *)
IdleBounded ==
  \A i \in Item :
    cycle[i].phase = "asking" => cycle[i].idle < MaxNoAction * (MaxEmptyRetries + 1)

(* A cycle works on an open run, and a run is open only while its cycle    *)
(* goes on, or after the daemon died in it or could not complete it twice. *)
RunsAreClosed ==
  \A i \in Item :
    /\ cycle[i].phase # "idle" => row[i].status = "running"
    /\ cycle[i].phase = "idle" /\ row[i].status = "running" => faults > 0

(* The inductive invariant of the proofs.                                  *)
IInv ==
  /\ TypeOK
  /\ \A i \in Item : IdleCounted(cycle[i]) /\ LoopGoesOn(cycle[i])
  /\ IdleBounded
  /\ RunsAreClosed

(* No token of the loop goes astray: what the model was paid for is        *)
(* charged to the goal, or still counted by a cycle that goes on, or was   *)
(* lost to a crash or a failed booking, and without those nothing is lost, *)
(* however the cycles end.                                                 *)
TokensConserved ==
  /\ lost \in Nat
  /\ spent + InFlight + lost = paid
  /\ faults = 0 => lost = 0

Rank == [idle |-> 0, recording |-> 1, concluding |-> 2, searching |-> 3, acting |-> 4,
         asking |-> 5, answering |-> 6, classifying |-> 7]

(* Cycle c is nearer to its end than d: fewer rounds are left, or it is    *)
(* further on in the same round, or has fewer calls and searches to make.  *)
Nearer(c, d) ==
  \/ c.left < d.left
  \/ /\ c.left = d.left
     /\ \/ Rank[c.phase] < Rank[d.phase]
        \/ /\ c.phase = d.phase
           /\ Len(c.calls) + c.searches < Len(d.calls) + d.searches

(* A cycle is never set back: whatever the model answers and the tools do, *)
(* every change to it, by whomever, ends it or brings it nearer to its     *)
(* end, and the measure cannot decrease for ever.                          *)
CyclesRunDown ==
  [][\A i \in Item :
       cycle[i].phase # "idle" =>
         \/ cycle'[i] = cycle[i]
         \/ cycle'[i].phase = "idle"
         \/ Nearer(cycle'[i], cycle[i])]_vars

(* Every cycle that begins comes to an end.                                *)
CycleEnds == \A i \in Item : cycle[i].phase # "idle" ~> cycle[i].phase = "idle"
=============================================================================
