--------------------------- MODULE MCTokenBucket ---------------------------
(* Small instances of TokenBucket for TLC. *)
EXTENDS TokenBucket, TLC

CONSTANTS a, b,            \* callers
          small, large     \* policies

CallerSymmetry == Permutations(Callers)

(* Two policies on one identifier: one request a second and two in three   *)
(* seconds.  A second is two ticks and a token six units.                  *)
TwoLimits  == (small :> 1) @@ (large :> 2)
TwoWindows == (small :> 1) @@ (large :> 3)
TwoRates   == (small :> 3) @@ (large :> 2)

(* One policy with a refill slower than a second: one request in two       *)
(* seconds of two ticks.                                                   *)
SlowLimit  == small :> 1
SlowWindow == small :> 2
SlowRate   == small :> 1
=============================================================================
