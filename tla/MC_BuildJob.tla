----------------------------- MODULE MC_BuildJob -----------------------------
(* Small instances of BuildJob for TLC. *)
EXTENDS BuildJob, TLC

CONSTANTS b1, b2, n1, n2

\* Nothing tells builds or names apart; used for safety only.
Interchangeable == Permutations(Builds) \cup Permutations(Names)
==============================================================================
