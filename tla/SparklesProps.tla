--------------------------- MODULE SparklesProps ---------------------------
(***************************************************************************)
(* The properties of the capture pipeline that speak of all the places a   *)
(* page can be in, and the pipeline as an implementation of EventLog.      *)
(***************************************************************************)
EXTENDS Sparkles

(* Where a page can be: in a packet that was sent, in the sending thread's   *)
(* hands, in the ring, or on the list of dropped headers.                    *)
Place(where, packet, index) == [where |-> where, packet |-> packet, index |-> index]

Places ==
  (UNION {{Place("sent", i, j) : j \in 1..Len(stream[i].headers)} : i \in 1..Len(stream)})
    \cup {Place("taken", 0, j) : j \in 1..Len(taken)}
    \cup {Place("failed", 0, j) : j \in 1..Len(failed)}
    \cup {Place("ring", 0, j) : j \in 1..Len(pages)}
    \cup {Place("dropped", 0, j) : j \in 1..Len(skipped)}

HeaderAt(p) ==
  CASE p.where = "sent"    -> stream[p.packet].headers[p.index]
    [] p.where = "taken"   -> taken[p.index]
    [] p.where = "failed"  -> failed[p.index]
    [] p.where = "ring"    -> pages[p.index].header
    [] p.where = "dropped" -> skipped[p.index]

Covers(header, t, n) == header.thread = t /\ n \in header.first..header.last

(***************************************************************************)
(* Every event that has left its thread's buffer is in exactly one page,   *)
(* and that page in exactly one place: sent, reported as dropped, in the   *)
(* sending thread's hands, in the ring or on the list of dropped headers.  *)
(* No interleaving of flushes, cleanups and takes loses or repeats one.    *)
(***************************************************************************)
EveryEventAccounted ==
  \A t \in Thread :
    /\ \A n \in 1..flushed[t] :
         \E p \in Places : /\ Covers(HeaderAt(p), t, n)
                          /\ \A q \in Places \ {p} : ~Covers(HeaderAt(q), t, n)
    /\ \A p \in Places : HeaderAt(p).thread = t => HeaderAt(p).last =< flushed[t]

Events(header) == {<<header.thread, n>> : n \in header.first..header.last}

(* The events of the packets of one type. *)
EventsSent(type) ==
  UNION {Events(HeaderAt(p)) :
           p \in {q \in Places : q.where = "sent" /\ stream[q.packet].type = type}}

Closed == stream # <<>> /\ stream[Len(stream)].type = "end"

Log == INSTANCE EventLog WITH
  produced   <- recorded,
  committed  <- flushed,
  delivered  <- EventsSent("data"),
  lost       <- EventsSent("failed"),
  finalizing <- finalizeStarted,
  promised   <- due,
  closed     <- Closed

(***************************************************************************)
(* The pipeline implements the event log: at most once, in order per       *)
(* thread, and nothing flushed before finalize was called is missing from  *)
(* a stream that ends with 0xff.                                           *)
(***************************************************************************)
ImplementsEventLog == Log!Spec
=============================================================================
