---------------------------- MODULE MCWorkCycle ----------------------------
(* A small instance of WorkCycle.                                          *)
EXTENDS WorkCycle

CONSTANTS i1, i2

MCCallLists == {<<"tool">>, <<"tool", "complete_task">>, <<"malformed">>}
=============================================================================
