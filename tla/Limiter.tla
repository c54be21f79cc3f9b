------------------------------ MODULE Limiter ------------------------------
(***************************************************************************)
(* A budget whose admissions are told to callers over an unreliable        *)
(* connection: an admission may be heard of late or by nobody, and nobody  *)
(* hears of an admission that was not paid for.                            *)
(***************************************************************************)
EXTENDS Integers

CONSTANT Cost

VARIABLES supply, granted,
          told  \* admissions their callers have heard of

Paid == INSTANCE Budget

vars == <<supply, granted, told>>

Init == Paid!Init /\ told = 0

Tell ==
    /\ told < granted
    /\ told' = told + 1
    /\ UNCHANGED <<supply, granted>>

Next ==
    \/ Paid!Next /\ UNCHANGED told
    \/ Tell

Spec == Init /\ [][Next]_vars
=============================================================================
