---------------------------- MODULE MCCheckPath ----------------------------
(* Small instances of CheckPath for TLC. *)
EXTENDS CheckPath, TLC

CONSTANTS a, b,          \* callers
          i, j,          \* instances
          k, none,       \* keys
          token_bucket   \* the algorithm

Symmetry == Permutations(Callers) \cup Permutations(Instances)

One == token_bucket :> 1
=============================================================================
