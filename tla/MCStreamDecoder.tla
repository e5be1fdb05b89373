-------------------------- MODULE MCStreamDecoder --------------------------
(***************************************************************************)
(* One id and one ord id, and two differences: none, and one of three      *)
(* bytes with a zero among them.  Pages run up to two chunks and beyond,   *)
(* so that the chunks cut the frames at every place, and so that the ring  *)
(* overruns too.                                                           *)
(***************************************************************************)
EXTENDS StreamDecoder

Difference(low, mid, high) ==
  [i \in 1..Width |-> CASE i = 1 -> low [] i = 2 -> mid [] i = 3 -> high [] OTHER -> 0]

NoneAndLong == {Difference(0, 0, 0), Difference(0, 1, 77)}
=============================================================================
