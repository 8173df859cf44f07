---------------------------- MODULE MCChatContext ----------------------------
(* Model values and symmetry for checking ChatContext with TLC.            *)
EXTENDS ChatContext

RequestSymmetry == Permutations(Request)
=============================================================================
