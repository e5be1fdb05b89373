-------------------------------- MODULE Once --------------------------------
(***************************************************************************)
(* A cell that is filled once: what OnceLock promises, and what the code   *)
(* makes of a mutex around an Option with get_or_insert_with.  Whoever     *)
(* comes first decides, and everybody else gets what is there.             *)
(***************************************************************************)
CONSTANTS Value, Unset

VARIABLE cell

Init == cell = Unset

Fill == cell = Unset /\ cell' \in Value

Spec == Init /\ [][Fill]_cell
=============================================================================
