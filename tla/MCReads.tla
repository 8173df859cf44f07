------------------------------- MODULE MCReads -------------------------------
(* Model values and symmetry for checking Reads with TLC.                  *)
EXTENDS Reads, TLC

RequestSymmetry == Permutations(Request)
=============================================================================
