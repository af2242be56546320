-------------------------- MODULE MCConversations --------------------------
(* Three messages to two sessions; messages and sessions may be exchanged. *)
EXTENDS Conversations, TLC

Symmetry == Permutations(Msg) \cup Permutations(Sid)
=============================================================================
