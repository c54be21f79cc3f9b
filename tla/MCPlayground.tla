--------------------------- MODULE MCPlayground ----------------------------
(* Small instances of Playground for TLC. *)
EXTENDS Playground

CONSTANTS user,  \* a part of a name
          none

(* "user" and "user:1": the one's keys begin with the other's name, and so *)
(* does the other's key of limit 1 with the one's.                         *)
Names == {<<user>>, <<user, Unit>>}

(* Two tokens in a second. *)
FirstConfig == [id |-> <<user, Unit>>, algorithm |-> "token_bucket",
                limit |-> 2 * Unit, window |-> TicksPerSec]
=============================================================================
