----------------------------- MODULE MCWriteLock -----------------------------
(* Model-checking instance of WriteLock. *)
EXTENDS WriteLock, TLC
CONSTANTS r1, r2, r3
MCRequests == {r1, r2, r3}
RequestSymmetry == Permutations(MCRequests)
==============================================================================
