---------------------------- MODULE MCIdMapping ----------------------------
(***************************************************************************)
(* Tables of four slots, with names whose hashes collide in the table: two *)
(* of them start in one slot, and one is so large that adding the offset   *)
(* of its event type wraps around.                                         *)
(***************************************************************************)
EXTENDS IdMapping

CONSTANTS load, store, wrap

Hashes == [n \in Name |-> CASE n = load -> 2 [] n = store -> 6 [] OTHER -> U32 - 1]

ASSUME HashesApart
=============================================================================
