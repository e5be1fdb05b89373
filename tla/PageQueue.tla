----------------------------- MODULE PageQueue -----------------------------
(***************************************************************************)
(* What the global storage is to its callers, without bytes, indices and   *)
(* thresholds: a queue of pages.  Pages enter behind the others; only the  *)
(* oldest are ever dropped, and their headers wait in the order in which   *)
(* they were dropped; whoever takes gets all these headers, and with them  *)
(* the whole queue or nothing of it.                                       *)
(***************************************************************************)
EXTENDS Integers, Sequences

CONSTANT Header

VARIABLES
  queue,   \* the headers of the pages held, oldest first
  dropped  \* the headers of the pages dropped since the last take

vars == <<queue, dropped>>

Init == queue = <<>> /\ dropped = <<>>

(* Of the pages q the d oldest are dropped. *)
Keep(q, d) ==
  /\ queue' = SubSeq(q, d + 1, Len(q))
  /\ dropped' = dropped \o SubSeq(q, 1, d)

(* A page enters, and as many as necessary are dropped, itself the last. *)
Push(header) == \E d \in 0..(Len(queue) + 1) : Keep(Append(queue, header), d)

(* Pages are dropped at another time. *)
Drop == \E d \in 0..Len(queue) : Keep(queue, d)

Take == queue' \in {queue, <<>>} /\ dropped' = <<>>

Next == Take \/ Drop \/ \E header \in Header : Push(header)

Spec == Init /\ [][Next]_vars
=============================================================================
