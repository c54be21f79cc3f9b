------------------------------- MODULE Budget -------------------------------
(***************************************************************************)
(* What any rate limiter promises, whatever its algorithm: requests are    *)
(* admitted one at a time, each paid from a supply that was earned, and    *)
(* what has been earned is never taken back.                               *)
(***************************************************************************)
EXTENDS Integers

CONSTANT Cost  \* a natural: of one admission, in units of the supply

VARIABLES
    supply,  \* all that was ever earned
    granted  \* requests admitted

vars == <<supply, granted>>

Covered == granted * Cost <= supply

Init ==
    /\ supply \in Nat
    /\ granted = 0

Earn ==
    /\ supply' \in Nat /\ supply' >= supply
    /\ UNCHANGED granted

(* What pays for the admission may be earned with it.                      *)
Admit ==
    /\ supply' \in Nat /\ supply' >= supply
    /\ granted' = granted + 1
    /\ Covered'

Next == Earn \/ Admit

Spec == Init /\ [][Next]_vars
=============================================================================
