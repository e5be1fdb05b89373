------------------------- MODULE GlobalStorageSpec -------------------------
(***************************************************************************)
(* The global storage under its two kinds of caller: threads that push     *)
(* pages in any order and of any permitted length, and the sending thread, *)
(* which in one critical section takes the dropped headers and then the    *)
(* ring.  Pages are numbered in the order they are pushed; the number      *)
(* stands for the header.                                                  *)
(***************************************************************************)
EXTENDS GlobalStorage

CONSTANTS
  BufLens,    \* the lengths of the event buffers that threads flush
  MaxPushes   \* bound: pages pushed in a behaviour

ASSUME LensAreNat == BufLens \subseteq Nat /\ MaxPushes \in Nat

VARIABLES
  pushes,   \* pages pushed so far
  sent,     \* numbers of the pages the sending thread has taken
  reported  \* numbers of the pages it has been told were dropped

vars == <<storageVars, pushes, sent, reported>>

Init ==
  /\ StorageInit
  /\ pushes = 0
  /\ sent = {}
  /\ reported = {}

(* A thread flushes its buffer of n bytes into the storage. *)
Push(n) ==
  /\ pushes < MaxPushes
  /\ PushBuf(pushes + 1, n)
  /\ pushes' = pushes + 1
  /\ UNCHANGED <<sent, reported>>

(* The sending thread's critical section. *)
SenderTakes(takeEverything) ==
  /\ TakeFailedPages
  /\ TryTakeBuf(takeEverything)
  /\ reported' = reported \cup {skipped[i] : i \in 1..Len(skipped)}
  /\ sent' = sent \cup {TakenPages(takeEverything)[i].header :
                          i \in 1..Len(TakenPages(takeEverything))}
  /\ UNCHANGED pushes

Next ==
  \/ \E n \in BufLens : Push(n)
  \/ \E takeEverything \in BOOLEAN : SenderTakes(takeEverything)

Spec == Init /\ [][Next]_vars
-----------------------------------------------------------------------------
(* Every variable has its type, and the pages account for every byte of the ring. *)
TypeOK ==
  /\ RingTyped(Nat)
  /\ pushes \in Nat
  /\ sent \subseteq Nat
  /\ reported \subseteq Nat

(***************************************************************************)
(* The conditions on a configuration under which a push never overruns the *)
(* ring, and never drops its own page: the room above the cleanup          *)
(* threshold holds the largest page, and so does the room below the level  *)
(* that cleanup goes down to.                                              *)
(***************************************************************************)
RoomAbove == \A n \in BufLens : CleanupAt + HdrLen + n =< Capacity
RoomBelow == \A n \in BufLens : HdrLen + n =< CleanupTo
PageFits  == RoomAbove /\ RoomBelow

(***************************************************************************)
(* No page in the ring is cut short, so that the sending thread hands the  *)
(* parser whole frames.  push_buf ignores what push_slice returns: this    *)
(* holds only because cleanup always leaves room for the next page.        *)
(***************************************************************************)
PagesStoredWhole == \A i \in 1..Len(pages) : Whole(pages[i])

(***************************************************************************)
(* Between two critical sections the ring is never over the cleanup        *)
(* threshold, and the cleanup loop has not taken other bytes for a page,   *)
(* whose unwraps would panic with the mutex held.                          *)
(***************************************************************************)
CleanupKeepsUp == Occupied =< CleanupAt /\ ~garbled

InRing   == {pages[i].header : i \in 1..Len(pages)}
Dropped  == {skipped[i] : i \in 1..Len(skipped)}

(***************************************************************************)
(* Every page ever pushed is in exactly one place: the ring, the list of   *)
(* dropped headers, the sender's data or the sender's dropped headers.     *)
(* None is lost silently and none is sent twice, whatever the order of     *)
(* pushes, cleanups and takes.                                             *)
(***************************************************************************)
EveryPageAccounted ==
  /\ InRing \cup Dropped \cup sent \cup reported = 1..pushes
  /\ InRing \cap (Dropped \cup sent \cup reported) = {}
  /\ Dropped \cap (sent \cup reported) = {}
  /\ sent \cap reported = {}
  /\ \A i, j \in 1..Len(pages) : i < j => pages[i].header < pages[j].header

(***************************************************************************)
(* Cleanup drops from the old end only, and never the page whose push      *)
(* caused it: whatever is dropped or taken is older than all that is left, *)
(* and the newest page is still there until the sending thread takes it.   *)
(***************************************************************************)
NewestPagesSurvive ==
  /\ \A h \in Dropped \cup sent \cup reported, p \in InRing : h < p
  /\ pushes \in InRing \cup sent \/ pushes = 0

(***************************************************************************)
(* A push drops nothing unless its page puts the ring over the cleanup     *)
(* threshold, and a cleanup stops as soon as it may: had it kept the last  *)
(* page it dropped, the ring would still be over the bottom threshold.     *)
(***************************************************************************)
CleanupDropsNoMoreThanNeeded ==
  [][\A n \in BufLens :
       LET last == Append(pages, PageFor(pushes + 1, n))[Len(skipped') - Len(skipped)]
       IN (Push(n) /\ Len(skipped') > Len(skipped)) =>
            wr' - rd > CleanupAt /\ wr' - last.lo > CleanupTo]_vars
=============================================================================
