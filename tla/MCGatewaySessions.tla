------------------------- MODULE MCGatewaySessions -------------------------
(***************************************************************************)
(* Small instances of GatewaySessions: every address has room for one      *)
(* connection.                                                             *)
(***************************************************************************)
EXTENDS GatewaySessions, TLC

OneEach == [i \in Ip |-> 1]

Symmetry == Permutations(Ws) \cup Permutations(Key)
=============================================================================
