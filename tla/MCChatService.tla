---------------------------- MODULE MCChatService ----------------------------
(* Model values and symmetry for checking ChatService with TLC.            *)
EXTENDS ChatService, TLC

RequestSymmetry == Permutations(Request)
=============================================================================
