------------------------------ MODULE EventLog ------------------------------
(***************************************************************************)
(* What the capture pipeline promises, without buffers, mutexes or the     *)
(* sending thread.  Threads record numbered events and commit them; each   *)
(* committed event is at some point delivered, or declared lost, or        *)
(* neither, but never both and never twice; a thread's events are          *)
(* delivered in the order it recorded them.  The log is closed only after  *)
(* everything that was committed when finalization began is settled, and   *)
(* nothing is delivered or declared lost after that.                       *)
(***************************************************************************)
EXTENDS Integers

CONSTANT Thread

VARIABLES
  produced,   \* produced[t]: events thread t has recorded
  committed,  \* committed[t]: those it has handed over
  delivered,  \* the events delivered, as pairs of thread and number
  lost,       \* the events declared lost
  finalizing, \* finalization has begun
  promised,   \* committed as it was then
  closed      \* the log is complete

vars == <<produced, committed, delivered, lost, finalizing, promised, closed>>

Init ==
  /\ produced = [t \in Thread |-> 0]
  /\ committed = [t \in Thread |-> 0]
  /\ delivered = {} /\ lost = {}
  /\ finalizing = FALSE
  /\ promised = [t \in Thread |-> 0]
  /\ closed = FALSE

Committed(e) == e[1] \in Thread /\ e[2] \in 1..committed[e[1]]
Settled(e)   == e \in delivered \cup lost

Produce(t) ==
  /\ produced' = [produced EXCEPT ![t] = @ + 1]
  /\ UNCHANGED <<committed, delivered, lost, finalizing, promised, closed>>

Commit(t) ==
  /\ committed' = [committed EXCEPT ![t] = produced[t]]
  /\ UNCHANGED <<produced, delivered, lost, finalizing, promised, closed>>

(* A batch is delivered, each event after those its thread had before. *)
Deliver ==
  /\ ~closed
  /\ delivered \subseteq delivered'
  /\ \A e \in delivered' \ delivered :
       /\ Committed(e) /\ ~Settled(e)
       /\ \A d \in delivered : d[1] = e[1] => d[2] < e[2]
  /\ UNCHANGED <<produced, committed, lost, finalizing, promised, closed>>

(* A batch is declared lost. *)
Lose ==
  /\ ~closed
  /\ lost \subseteq lost'
  /\ \A e \in lost' \ lost : Committed(e) /\ ~Settled(e)
  /\ UNCHANGED <<produced, committed, delivered, finalizing, promised, closed>>

BeginFinalize ==
  /\ ~finalizing
  /\ finalizing' = TRUE
  /\ promised' = committed
  /\ UNCHANGED <<produced, committed, delivered, lost, closed>>

Close ==
  /\ finalizing /\ ~closed
  /\ \A t \in Thread : \A n \in 1..promised[t] : Settled(<<t, n>>)
  /\ closed' = TRUE
  /\ UNCHANGED <<produced, committed, delivered, lost, finalizing, promised>>

Next ==
  \/ \E t \in Thread : Produce(t) \/ Commit(t)
  \/ Deliver \/ Lose \/ BeginFinalize \/ Close

Spec == Init /\ [][Next]_vars
-----------------------------------------------------------------------------
(* What a reader of the log may rely on: no event is both delivered and lost, *)
(* and a closed log has settled all it promised.                              *)
PromiseKept ==
  /\ delivered \cap lost = {}
  /\ closed => \A t \in Thread : \A n \in 1..promised[t] : Settled(<<t, n>>)
=============================================================================
