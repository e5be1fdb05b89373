--------------------------- MODULE GlobalStorage ---------------------------
(***************************************************************************)
(* The methods of struct GlobalStorage (sparkles/src/global_storage.rs):   *)
(* the byte ring that every thread pushes its pages into, the cleanup that *)
(* drops the oldest pages when it fills up, and the two calls by which the *)
(* sending thread empties it.  Every method runs under GLOBAL_STORAGE, the *)
(* mutex, so each is one action.                                           *)
(*                                                                         *)
(* The ring keeps the two indices of ringbuf::LocalRb, which only grow.    *)
(* The bytes between them are the pages, each a header and an event        *)
(* buffer; of a page the model keeps the header, the bytes it should take  *)
(* and the bytes lo..hi-1 it got, since push_slice stores only what fits.  *)
(***************************************************************************)
EXTENDS Integers, Sequences

CONSTANTS
  Capacity,   \* global_capacity, the bytes of the ring
  CleanupAt,  \* cleanup_threshold * global_capacity, rounded down
  CleanupTo,  \* cleanup_bottom_threshold * global_capacity, rounded down
  FlushAt,    \* flush_threshold * global_capacity, rounded down
  HdrLen      \* bytes of a page before its events: two lengths, one header

ASSUME SizesAreNat ==
  /\ Capacity \in Nat /\ CleanupAt \in Nat /\ CleanupTo \in Nat
  /\ FlushAt \in Nat /\ HdrLen \in Nat \ {0}
  /\ CleanupTo =< CleanupAt

VARIABLES
  rd,       \* read index of the ring
  wr,       \* write index of the ring
  pages,    \* the pages between them, oldest first
  skipped,  \* skipped_msr_pages_headers: the headers cleanup has dropped
  garbled   \* cleanup has taken other bytes for lengths: it has panicked with
            \* the mutex held, or done what the model follows no further

storageVars == <<rd, wr, pages, skipped, garbled>>

StorageInit ==
  /\ rd = 0 /\ wr = 0
  /\ pages = <<>>
  /\ skipped = <<>>
  /\ garbled = FALSE

Occupied == wr - rd

(***************************************************************************)
(* What push_slice stores of n bytes, over the four calls of push_buf.     *)
(***************************************************************************)
Stored(n) == IF n =< Capacity - Occupied THEN n ELSE Capacity - Occupied

PageFor(header, n) ==
  [header |-> header, size |-> HdrLen + n,
   lo |-> wr, hi |-> wr + Stored(HdrLen + n)]

Whole(page) == page.hi - page.lo = page.size

(* The length fields and the header of the page are stored, if not all events. *)
HeaderStored(page) == page.hi - page.lo >= HdrLen

(* Where skip ends that starts at the page's events: behind them if they are *)
(* stored whole, in the middle of a later page if not, or at the end w.      *)
SkipsTo(page, w) ==
  IF page.lo + page.size =< w THEN page.lo + page.size ELSE w

(* Mutation: the length field is skipped twice. *)
FrontPastHeader(ps, k) == IF k = 0 THEN rd ELSE ps[k].hi + HdrLen

(* The read index once the k oldest pages of ps are gone. *)
FrontAfter(ps, k) == IF k = 0 THEN rd ELSE ps[k].hi

(* Mutation: one page is dropped, an if in place of the while. *)
CleanupDropsOne(ps, w, k) == k = 1

(* Mutation: the loop goes on while the ring is at the bottom threshold. *)
CleanupOvershoots(ps, w, k) ==
  /\ k \in 0..Len(ps)
  /\ w - FrontAfter(ps, k) < CleanupTo
  /\ \A j \in 0..(k - 1) : w - FrontAfter(ps, j) >= CleanupTo

(***************************************************************************)
(* The cleanup loop on the ring ps that ends at w: it drops k pages, the   *)
(* fewest that bring the ring down to CleanupTo.                           *)
(***************************************************************************)
CleanupStopsAfter(ps, w, k) ==
  /\ k \in 0..Len(ps)
  /\ w - FrontAfter(ps, k) =< CleanupTo
  /\ \A j \in 0..(k - 1) : w - FrontAfter(ps, j) > CleanupTo

(* Mutation: the headers of an earlier cleanup are overwritten. *)
DropForgetting(ps, k) ==
  /\ rd' = FrontAfter(ps, k)
  /\ pages' = SubSeq(ps, k + 1, Len(ps))
  /\ skipped' = [i \in 1..k |-> ps[i].header]

(* Mutation: the pages are popped from the end they are pushed on. *)
DropNewest(ps, k) ==
  /\ rd' = FrontAfter(ps, k)
  /\ pages' = SubSeq(ps, 1, Len(ps) - k)
  /\ skipped' = skipped \o [i \in 1..k |-> ps[Len(ps) - i + 1].header]

(* What the loop does to the k pages: out of the ring, headers kept. *)
DropOldest(ps, k) ==
  /\ rd' = FrontAfter(ps, k)
  /\ pages' = SubSeq(ps, k + 1, Len(ps))
  /\ skipped' = skipped \o [i \in 1..k |-> ps[i].header]

(* Mutation: cleanup waits until the ring itself is over-full. *)
NeedsCleanupLate(w) == w - rd > Capacity

(* Whether the ring that ends at w is over the limit that starts a cleanup. *)
NeedsCleanup(w) == w - rd > CleanupAt

(* The page that the loop reads behind k others is stored whole, and is     *)
(* where the loop takes it to be.                                            *)
Intact(ps, k) == Whole(ps[k + 1]) /\ ps[k + 1].lo = FrontAfter(ps, k)

(***************************************************************************)
(* The loop reads a page that is not intact, behind k that are.  If its  *)
(* lengths and header are there, it is dropped as if it were whole: skip  *)
(* takes what its events lack from the pages behind it, of which some may  *)
(* vanish unreported and one may stay in part.  If they are not, or if the *)
(* ring is still too full, the loop goes on with bytes that need not be    *)
(* the lengths of a page: most likely an unwrap panics.                    *)
(***************************************************************************)
ReadsBroken(ps, w, k) ==
  LET page == ps[k + 1]
      next == SkipsTo(page, w)
  IN
  \/ /\ page.lo = FrontAfter(ps, k) /\ HeaderStored(page)
     /\ w - next =< CleanupTo
     /\ rd' = next
     /\ \E gone \in (k + 1)..Len(ps) :
          /\ ps[gone].hi =< next
          /\ gone < Len(ps) => ps[gone + 1].hi > next
          /\ pages' = SubSeq(ps, gone + 1, Len(ps))
     /\ skipped' = skipped \o [i \in 1..(k + 1) |-> ps[i].header]
     /\ UNCHANGED garbled
  \/ /\ page.lo # FrontAfter(ps, k) \/ ~HeaderStored(page) \/ w - next > CleanupTo
     /\ DropOldest(ps, k)
     /\ garbled' = TRUE

(* push_buf: store the page, then clean up if the ring is now too full. *)
PushBuf(header, n) ==
  LET page == PageFor(header, n)
      ps   == Append(pages, page)
  IN
  /\ ~garbled
  /\ wr' = page.hi
  /\ \/ /\ ~NeedsCleanup(page.hi)
        /\ pages' = ps
        /\ UNCHANGED <<rd, skipped, garbled>>
     \/ /\ NeedsCleanup(page.hi)
        /\ \E k \in 0..Len(ps) :
             /\ \A j \in 0..(k - 1) : Intact(ps, j)
             /\ \/ /\ CleanupStopsAfter(ps, page.hi, k)
                   /\ DropOldest(ps, k)
                   /\ UNCHANGED garbled
                \/ /\ k < Len(ps) /\ ~Intact(ps, k)
                   /\ \A j \in 0..k : page.hi - FrontAfter(ps, j) > CleanupTo
                   /\ ReadsBroken(ps, page.hi, k)

(* take_failed_pages: the caller gets skipped, the storage starts afresh. *)
TakeFailedPages ==
  /\ ~garbled
  /\ skipped' = <<>>

(* try_take_buf's threshold, and what it returns: <<>> stands for None. *)
TakeThreshold(takeEverything) == IF takeEverything THEN 0 ELSE FlushAt

TakenPages(takeEverything) ==
  IF Occupied > TakeThreshold(takeEverything) THEN pages ELSE <<>>

TryTakeBuf(takeEverything) ==
  /\ ~garbled
  /\ IF Occupied > TakeThreshold(takeEverything)
       THEN rd' = wr /\ pages' = <<>>
       ELSE UNCHANGED <<rd, pages>>
  /\ UNCHANGED <<wr, garbled>>
-----------------------------------------------------------------------------
(***************************************************************************)
(* push_buf returns: cleanup has not gone wrong before, and if the page    *)
(* starts one, its loop stops after some page, having read all before it.  *)
(***************************************************************************)
PushReturns(header, n) ==
  LET page == PageFor(header, n)
      ps   == Append(pages, page)
  IN
  /\ ~garbled
  /\ NeedsCleanup(page.hi) =>
       \E k \in 0..Len(ps) :
         CleanupStopsAfter(ps, page.hi, k) /\ \A j \in 0..(k - 1) : Intact(ps, j)

(***************************************************************************)
(* The pages ps take up the bytes from one index to the other, one behind  *)
(* the other without a gap, so that a reader that starts at the first      *)
(* meets each length field where it expects one.                           *)
(***************************************************************************)
Tiled(ps, from, to) ==
  /\ ps = <<>> => from = to
  /\ ps # <<>> => ps[1].lo = from /\ ps[Len(ps)].hi = to
  /\ \A i \in 1..Len(ps) : from =< ps[i].lo /\ ps[i].lo =< ps[i].hi /\ ps[i].hi =< to
  /\ \A i, j \in 1..Len(ps) : i < j => ps[i].hi =< ps[j].lo
  /\ \A i, j \in 1..Len(ps) : j = i + 1 => ps[i].hi = ps[j].lo

PageOf(H) == [header : H, size : Nat, lo : Nat, hi : Nat]

(* The ring with headers in H: its indices, and the pages between them. *)
RingTyped(H) ==
  /\ wr \in Nat /\ rd \in 0..wr /\ Occupied =< Capacity
  /\ pages \in Seq(PageOf(H)) /\ Tiled(pages, rd, wr)
  /\ skipped \in Seq(H)
  /\ garbled \in BOOLEAN
=============================================================================
