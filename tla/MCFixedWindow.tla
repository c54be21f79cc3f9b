--------------------------- MODULE MCFixedWindow ---------------------------
(* Small instances of FixedWindow for TLC. *)
EXTENDS FixedWindow, TLC

CONSTANTS a, b,          \* callers
          short, long    \* policies

CallerSymmetry == Permutations(Callers)

(* One request in a window of one second, two in a window of two. *)
MixedWindows == (short :> 1) @@ (long :> 2)
BothLimits   == (short :> 1) @@ (long :> 2)
OneLimit     == short :> 1
OneSecond    == short :> 1
=============================================================================
