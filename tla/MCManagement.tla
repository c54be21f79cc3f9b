--------------------------- MODULE MCManagement ----------------------------
(* Small instances of Management for TLC. *)
EXTENDS Management

CONSTANTS a, b,     \* tabs
          x, none   \* an identifier, and none

(* Two tabs of one page, or of the two that share the keys. *)
Pairs == {[t \in Tabs |-> {"limits"}], [t \in Tabs |-> {"keys"}],
          [t \in Tabs |-> IF t = a THEN {"keys"} ELSE {"playground"}]}
=============================================================================
