----------------------------- MODULE MCSession -----------------------------
(* Small instances of Session for TLC. *)
EXTENDS Session, TLC

CONSTANTS a, b,     \* tabs
          f, g,     \* addresses: a member's, and one not registered yet
          p, q,     \* passwords
          none

MCMembers == (f :> {p}) @@ (g :> {})
(* The tabs are alike: one of each pair of openings that differ by a swap. *)
MCOpenings ==
    {[t \in {a, b} |-> IF t = a THEN x ELSE y] :
        <<x, y>> \in {<<"login", "login">>, <<"login", "signup">>, <<"signup", "signup">>,
                      <<"dashboard", "login">>, <<"dashboard", "signup">>,
                      <<"dashboard", "dashboard">>}}
MCCredentials == {[email |-> f, password |-> p],
                  [email |-> g, password |-> p],
                  [email |-> g, password |-> q]}
=============================================================================
