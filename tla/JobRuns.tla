------------------------------ MODULE JobRuns ------------------------------
(***************************************************************************)
(* What the dispatch of scheduled agents promises: the runs of one agent   *)
(* follow each other. A run starts when none is in flight, for an instant  *)
(* later than every run before it, and is settled once.                    *)
(***************************************************************************)
EXTENDS Naturals

CONSTANTS
  Job,
  Instant  \* the instants runs are scheduled for, positive numbers

VARIABLES
  open,  \* the instant of the run in flight, 0 when there is none
  last   \* the instant of the latest run, 0 before the first

JInit == /\ open = [j \in Job |-> 0]
         /\ last = [j \in Job |-> 0]

Start(j, s) ==
  /\ open[j] = 0
  /\ s > last[j]
  /\ open' = [open EXCEPT ![j] = s]
  /\ last' = [last EXCEPT ![j] = s]

Settle(j) ==
  /\ open[j] # 0
  /\ open' = [open EXCEPT ![j] = 0]
  /\ UNCHANGED last

JNext == \E j \in Job : Settle(j) \/ \E s \in Instant : Start(j, s)

JobRunsSpec == JInit /\ [][JNext]_<<open, last>>
=============================================================================
