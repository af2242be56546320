----------------------------- MODULE MCIpcLink -----------------------------
(* Small instances of IpcLink.                                             *)
EXTENDS IpcLink, TLC

Symmetry == Permutations(Socket) \cup Permutations(Command)
=============================================================================
