---------------------------- MODULE LossyChannel ----------------------------
(***************************************************************************)
(* What the gateway may rely on when it listens to the scheduler's events: *)
(* events arrive in the order they were sent and never twice, but any of   *)
(* them may be missing.                                                    *)
(***************************************************************************)
EXTENDS Naturals

VARIABLES
  sent,  \* events are numbered as they are sent: how many there are
  got    \* the latest event that arrived

LInit == sent = 0 /\ got = 0

LSend == sent' = sent + 1 /\ UNCHANGED got

LDeliver == /\ \E e \in (got + 1)..sent : got' = e
            /\ UNCHANGED sent

LossyChannelSpec == LInit /\ [][LSend \/ LDeliver]_<<sent, got>>
=============================================================================
