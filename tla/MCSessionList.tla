---------------------------- MODULE MCSessionList ----------------------------
(* Model values and symmetry for checking SessionList with TLC.            *)
EXTENDS SessionList, TLC

SessionSymmetry == Permutations(SessionId)
=============================================================================
