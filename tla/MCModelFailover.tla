-------------------------- MODULE MCModelFailover --------------------------
(* A primary model on two endpoints and a fallback that shares one of them *)
(* and lists one without credentials.                                      *)
EXTENDS ModelFailover, TLC

CONSTANTS r1, r2, m1, m2, e1, e2, e3, none

MCChain == <<m1, m2>>
MCEndpointsOf == [m \in Model |-> IF m = m1 THEN {e1, e2} ELSE {e2, e3}]
MCPriority == [e \in Endpoint |-> IF e = e1 THEN 1 ELSE 2]
Symmetry == Permutations(Request)
=============================================================================
