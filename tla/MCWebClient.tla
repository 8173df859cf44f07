----------------------------- MODULE MCWebClient -----------------------------
(* Model values and symmetry for checking WebClient with TLC.              *)
EXTENDS WebClient, TLC

WebSymmetry == Permutations(Request) \cup Permutations(SessionId)
               \cup Permutations(Click)
=============================================================================
