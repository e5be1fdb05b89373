------------------------ MODULE GlobalStorageProofs ------------------------
(***************************************************************************)
(* Proofs about GlobalStorageSpec, for rings and thresholds of any size    *)
(* and any number of pushes, as long as the largest page fits above the    *)
(* cleanup threshold (RoomAbove).  Where it does not, push_slice may cut a *)
(* page short, and nothing is proved of what cleanup then makes of it.     *)
(***************************************************************************)
EXTENDS GlobalStorageSpec, RingLemmas

(***************************************************************************)
(* The inductive invariant.  Its parts need each other: the pages tile the *)
(* ring as long as cleanup meets whole pages only, they are stored whole   *)
(* as long as the ring is under the threshold, and a cleanup brings it     *)
(* there as long as the pages tile the ring.                               *)
(***************************************************************************)
RingInv == TypeOK /\ PagesStoredWhole /\ CleanupKeepsUp

LEMMA InitRing == Init => RingInv
<1> SUFFICES ASSUME Init PROVE RingInv
  OBVIOUS
<1>1. pages = <<>> /\ skipped = <<>> /\ rd = 0 /\ wr = 0 /\ Capacity \in Nat
  BY SizesAreNat DEF Init, StorageInit
<1>2. Tiled(pages, rd, wr)
  BY <1>1 DEF Tiled
<1>3. RingTyped(Nat)
  <2>1. pages \in Seq(PageOf(Nat)) /\ skipped \in Seq(Nat)
    BY <1>1, EmptySeq
  <2>2. garbled \in BOOLEAN
    BY DEF Init, StorageInit
  <2>3. wr \in Nat /\ rd \in 0..wr /\ Occupied =< Capacity
    BY <1>1 DEF Occupied
  <2> QED
    BY <1>2, <2>1, <2>2, <2>3 DEF RingTyped
<1>4. TypeOK
  BY <1>3 DEF Init, TypeOK
<1>5. PagesStoredWhole /\ CleanupKeepsUp
  <2>1. garbled = FALSE
    BY DEF Init, StorageInit
  <2> QED
    BY <1>1, <2>1, SizesAreNat DEF PagesStoredWhole, CleanupKeepsUp, Occupied
<1> QED
  BY <1>4, <1>5 DEF RingInv

(* What the lemmas about push_buf ask for, when a thread flushes.            *)
LEMMA PushRoom ==
  ASSUME RoomAbove, RingInv, NEW n \in BufLens
  PROVE  RingTyped(Nat) /\ pushes + 1 \in Nat /\ n \in Nat /\ RoomFor(n)
<1>1. RingTyped(Nat) /\ pushes + 1 \in Nat /\ n \in Nat
  BY LensAreNat DEF RingInv, TypeOK
<1>2. RoomFor(n)
  BY RoomAbove DEF RoomAbove, RoomFor, RingInv, PagesStoredWhole, CleanupKeepsUp
<1> QED
  BY <1>1, <1>2

LEMMA NextTyped ==
  ASSUME RoomAbove, RingInv, [Next]_vars
  PROVE  TypeOK'
<1> USE DEF RingInv
<1>1. ASSUME NEW n \in BufLens, Push(n) PROVE TypeOK'
  <2>1. /\ pushes + 1 \in Nat /\ n \in Nat /\ RingTyped(Nat) /\ RoomFor(n)
        /\ PushBuf(pushes + 1, n)
    BY <1>1, PushRoom DEF Push
  <2>2. RingTyped(Nat)'
    BY <2>1, PushBufTyped
  <2> QED
    BY <1>1, <2>1, <2>2 DEF TypeOK, Push
<1>2. ASSUME NEW takeEverything \in BOOLEAN, SenderTakes(takeEverything)
      PROVE  TypeOK'
  <2>1. RingTyped(Nat) /\ TakeFailedPages /\ TryTakeBuf(takeEverything)
    BY <1>2 DEF TypeOK, SenderTakes
  <2>2. RingTyped(Nat)'
    BY <2>1, TakeTyped
  <2>3. /\ TakenPages(takeEverything) \in Seq(PageOf(Nat))
        /\ skipped \in Seq(Nat)
    BY <2>1, TakenTyped DEF RingTyped
  <2>4. ASSUME NEW i \in 1..Len(TakenPages(takeEverything))
        PROVE  TakenPages(takeEverything)[i].header \in Nat
    <3>1. TakenPages(takeEverything)[i] \in PageOf(Nat)
      BY <2>3
    <3> QED
      BY <3>1 DEF PageOf
  <2>5. sent' \subseteq Nat /\ reported' \subseteq Nat
    <3>1. \A i \in 1..Len(skipped) : skipped[i] \in Nat
      BY <2>3
    <3>2. sent \subseteq Nat /\ reported \subseteq Nat
      BY DEF TypeOK
    <3> QED
      BY <1>2, <2>4, <3>1, <3>2 DEF SenderTakes
  <2> QED
    BY <1>2, <2>2, <2>5 DEF TypeOK, SenderTakes
<1>3. CASE UNCHANGED vars
  <2>1. RingTyped(Nat)'
    BY <1>3 DEF TypeOK, RingTyped, Occupied, Tiled, vars, storageVars
  <2> QED
    BY <1>3, <2>1 DEF TypeOK, vars
<1> QED
  BY <1>1, <1>2, <1>3 DEF Next

LEMMA NextWhole ==
  ASSUME RoomAbove, RingInv, [Next]_vars
  PROVE  PagesStoredWhole' /\ CleanupKeepsUp'
<1> USE DEF RingInv
<1>1. ASSUME NEW n \in BufLens, Push(n)
      PROVE  PagesStoredWhole' /\ CleanupKeepsUp'
  <2>1. /\ pushes + 1 \in Nat /\ n \in Nat /\ RingTyped(Nat) /\ RoomFor(n)
        /\ PushBuf(pushes + 1, n)
    BY <1>1, PushRoom DEF Push
  <2>2. /\ \A i \in 1..Len(pages') : Whole(pages'[i])
        /\ Occupied' =< CleanupAt /\ ~garbled'
    BY <2>1, PushBufFits
  <2> QED
    BY <2>2 DEF PagesStoredWhole, CleanupKeepsUp
<1>2. ASSUME NEW takeEverything \in BOOLEAN, SenderTakes(takeEverything)
      PROVE  PagesStoredWhole' /\ CleanupKeepsUp'
  <2>1. /\ wr' = wr /\ wr \in Nat /\ ~garbled'
        /\ \/ rd' = wr /\ pages' = <<>>
           \/ rd' = rd /\ pages' = pages
    BY <1>2 DEF SenderTakes, TryTakeBuf, CleanupKeepsUp, TypeOK, RingTyped
  <2> QED
    BY <2>1, SizesAreNat DEF PagesStoredWhole, CleanupKeepsUp, Occupied, Whole
<1>3. CASE UNCHANGED vars
  BY <1>3 DEF PagesStoredWhole, CleanupKeepsUp, Occupied, Whole, vars, storageVars
<1> QED
  BY <1>1, <1>2, <1>3 DEF Next

THEOREM RingInvariant ==
  ASSUME RoomAbove
  PROVE  Spec => []RingInv
<1>1. RingInv /\ [Next]_vars => RingInv'
  BY RoomAbove, NextTyped, NextWhole DEF RingInv
<1> QED
  BY <1>1, InitRing, PTL DEF Spec

(***************************************************************************)
(* In a configuration where the largest page fits above the cleanup        *)
(* threshold, the indices stay within the ring and the pages tile it: a    *)
(* reader that starts at the read index meets a length field where it      *)
(* expects one, after any pushes, cleanups and takes.                      *)
(***************************************************************************)
THEOREM TypeCorrect ==
  ASSUME RoomAbove
  PROVE  Spec => []TypeOK
<1>1. RingInv => TypeOK
  BY DEF RingInv
<1> QED
  BY <1>1, RingInvariant, PTL
-----------------------------------------------------------------------------
(***************************************************************************)
(* Under the same condition no page is ever stored in part and no cleanup  *)
(* ever panics: the discarded results of push_slice and the unwraps of     *)
(* push_buf are safe, whatever the threads push and however often the      *)
(* sender comes by.                                                        *)
(***************************************************************************)
THEOREM PagesWhole ==
  ASSUME RoomAbove
  PROVE  Spec => [](PagesStoredWhole /\ CleanupKeepsUp)
<1>1. RingInv => PagesStoredWhole /\ CleanupKeepsUp
  BY DEF RingInv
<1> QED
  BY <1>1, RingInvariant, PTL

(* Under the same condition the ring stays under the cleanup threshold, and  *)
(* the mutex is not poisoned by an unwrap of the cleanup loop.               *)
THEOREM CleanupHolds ==
  ASSUME RoomAbove
  PROVE  Spec => []CleanupKeepsUp
<1>1. Spec => [](PagesStoredWhole /\ CleanupKeepsUp)
  BY PagesWhole
<1> QED
  BY <1>1, PTL

(***************************************************************************)
(* Under the same condition every push comes to an end and returns: the    *)
(* cleanup loop finds a page after which it may stop, and nothing in it    *)
(* panics, so that no thread keeps GLOBAL_STORAGE locked for ever.         *)
(***************************************************************************)
THEOREM PushesReturn ==
  ASSUME RoomAbove
  PROVE  Spec => [](\A n \in BufLens : PushReturns(pushes + 1, n))
<1>1. ASSUME RingInv, NEW n \in BufLens PROVE PushReturns(pushes + 1, n)
  <2>1. /\ RingTyped(Nat) /\ pushes + 1 \in Nat /\ n \in Nat /\ RoomFor(n) /\ ~garbled
    BY <1>1, PushRoom DEF RingInv, CleanupKeepsUp
  <2> QED
    BY <2>1, PushEnds
<1>2. RingInv => \A n \in BufLens : PushReturns(pushes + 1, n)
  BY <1>1
<1> QED
  BY <1>2, RingInvariant, PTL
-----------------------------------------------------------------------------
(***************************************************************************)
(* Where the pages are.  In the order of their numbers come those that the *)
(* sending thread has been given, as data or as dropped, then those that   *)
(* cleanup has dropped since, then those in the ring.                      *)
(***************************************************************************)
Taken == pushes - Len(pages) - Len(skipped)

QueueInv ==
  /\ Taken >= 0
  /\ \A i \in 1..Len(pages) : pages[i].header = Taken + Len(skipped) + i
  /\ \A i \in 1..Len(skipped) : skipped[i] = Taken + i
  /\ sent \cup reported = 1..Taken
  /\ sent \cap reported = {}

LEMMA QueueTyped ==
  TypeOK => /\ pushes \in Nat /\ Len(pages) \in Nat /\ Len(skipped) \in Nat
            /\ pages \in Seq(PageOf(Nat)) /\ skipped \in Seq(Nat)
            /\ rd \in Nat /\ wr \in Nat /\ rd =< wr
  BY DEF TypeOK, RingTyped

(* The three places as intervals.                                            *)
LEMMA Places ==
  ASSUME TypeOK, QueueInv
  PROVE  /\ Taken \in Nat
         /\ Dropped = (Taken + 1)..(Taken + Len(skipped))
         /\ InRing = (Taken + Len(skipped) + 1)..pushes
<1>1. /\ pushes \in Nat /\ Len(pages) \in Nat /\ Len(skipped) \in Nat /\ Taken \in Nat
      /\ Taken + Len(skipped) + Len(pages) = pushes
  BY QueueTyped DEF QueueInv, Taken
<1> HIDE DEF Taken
<1>2. Dropped = (Taken + 1)..(Taken + Len(skipped))
  <2>1. ASSUME NEW x \in Dropped PROVE x \in (Taken + 1)..(Taken + Len(skipped))
    BY <1>1 DEF Dropped, QueueInv
  <2>2. ASSUME NEW x \in (Taken + 1)..(Taken + Len(skipped)) PROVE x \in Dropped
    <3>1. x - Taken \in 1..Len(skipped) /\ Taken + (x - Taken) = x
      BY <1>1
    <3>2. skipped[x - Taken] = x
      BY <3>1 DEF QueueInv
    <3> QED
      BY <3>1, <3>2 DEF Dropped
  <2> QED
    BY <2>1, <2>2
<1>3. InRing = (Taken + Len(skipped) + 1)..pushes
  <2>1. ASSUME NEW x \in InRing PROVE x \in (Taken + Len(skipped) + 1)..pushes
    BY <1>1 DEF InRing, QueueInv
  <2>2. ASSUME NEW x \in (Taken + Len(skipped) + 1)..pushes PROVE x \in InRing
    <3> DEFINE i == x - (Taken + Len(skipped))
    <3>1. i \in 1..Len(pages) /\ Taken + Len(skipped) + i = x
      BY <1>1
    <3> HIDE DEF i
    <3>2. pages[i].header = x
      BY <3>1 DEF QueueInv
    <3> QED
      BY <3>1, <3>2 DEF InRing
  <2> QED
    BY <2>1, <2>2
<1> QED
  BY <1>1, <1>2, <1>3

LEMMA PushQueue ==
  ASSUME RoomAbove, RingInv, QueueInv, NEW n \in BufLens, Push(n)
  PROVE  QueueInv'
<1> DEFINE page == PageFor(pushes + 1, n)
           ps   == Append(pages, page)
<1>0. /\ RingTyped(Nat) /\ pushes + 1 \in Nat /\ n \in Nat /\ RoomFor(n) /\ TypeOK
      /\ PushBuf(pushes + 1, n)
  BY PushRoom DEF RingInv, Push
<1>1. /\ pushes \in Nat /\ Len(pages) \in Nat /\ Len(skipped) \in Nat
      /\ skipped \in Seq(Nat) /\ pages \in Seq(PageOf(Nat))
      /\ pushes' = pushes + 1 /\ UNCHANGED <<sent, reported>>
  BY <1>0, QueueTyped DEF Push
<1>2. /\ Len(ps) = Len(pages) + 1 /\ \A i \in 1..Len(pages) : ps[i] = pages[i]
      /\ ps[Len(ps)] = page /\ page.header = pushes + 1
  BY <1>0, PushedRing DEF PageFor
<1>3. PICK d \in 0..Len(ps) :
        /\ Len(pages') = Len(ps) - d /\ Len(skipped') = Len(skipped) + d
        /\ \A i \in 1..Len(pages') : pages'[i] = ps[i + d]
        /\ \A i \in 1..Len(skipped) : skipped'[i] = skipped[i]
        /\ \A i \in 1..d : skipped'[Len(skipped) + i] = ps[i].header
        /\ \A i \in 1..d : wr' - rd > CleanupAt /\ wr' - ps[i].lo > CleanupTo
  BY <1>0, PushDrops
<1> HIDE DEF page, ps
<1>4. d \in Nat /\ Taken' = Taken /\ Taken \in Nat
      /\ Taken + Len(skipped) + Len(pages) = pushes
  BY <1>1, <1>2, <1>3 DEF Taken, QueueInv
<1>5. \A i \in 1..Len(ps) : ps[i].header = Taken + Len(skipped) + i
  <2> TAKE i \in 1..Len(ps)
  <2>1. CASE i \in 1..Len(pages)
    BY <1>2, <2>1 DEF QueueInv
  <2>2. CASE i = Len(ps)
    BY <1>1, <1>2, <1>4, <2>2
  <2> QED
    BY <1>1, <1>2, <2>1, <2>2
<1> HIDE DEF Taken
<1>6. \A i \in 1..Len(pages') : pages'[i].header = Taken' + Len(skipped') + i
  <2> TAKE i \in 1..Len(pages')
  <2>1. i + d \in 1..Len(ps) /\ pages'[i] = ps[i + d]
    BY <1>1, <1>2, <1>3, <1>4
  <2>2. pages'[i].header = Taken + Len(skipped) + (i + d)
    BY <1>5, <2>1
  <2> QED
    BY <1>1, <1>3, <1>4, <2>2
<1>7. \A i \in 1..Len(skipped') : skipped'[i] = Taken' + i
  <2> TAKE i \in 1..Len(skipped')
  <2>1. CASE i \in 1..Len(skipped)
    BY <1>3, <1>4, <2>1 DEF QueueInv
  <2>2. CASE i \notin 1..Len(skipped)
    <3> DEFINE j == i - Len(skipped)
    <3>1. j \in 1..d /\ Len(skipped) + j = i /\ j \in 1..Len(ps)
      BY <1>1, <1>2, <1>3, <1>4, <2>2
    <3> HIDE DEF j
    <3>2. skipped'[Len(skipped) + j] = ps[j].header /\ ps[j].header = Taken + Len(skipped) + j
      BY <1>3, <1>5, <3>1
    <3>3. Len(skipped) \in Nat /\ Taken \in Nat /\ j \in Nat
      BY <1>1, <1>4, <3>1
    <3>4. Taken + Len(skipped) + j = Taken + (Len(skipped) + j)
      BY <3>3
    <3> QED
      BY <1>4, <3>1, <3>2, <3>4
  <2> QED
    BY <2>1, <2>2
<1> QED
  BY <1>1, <1>4, <1>6, <1>7 DEF QueueInv

LEMMA TakeQueue ==
  ASSUME TypeOK, QueueInv, NEW takeEverything \in BOOLEAN, SenderTakes(takeEverything)
  PROVE  QueueInv'
<1>1. /\ pushes \in Nat /\ Len(pages) \in Nat /\ Len(skipped) \in Nat
      /\ Taken \in Nat /\ Taken + Len(skipped) + Len(pages) = pushes
  BY QueueTyped DEF QueueInv, Taken
<1>2. /\ skipped' = <<>> /\ pushes' = pushes /\ Len(skipped') = 0
      /\ reported' = reported \cup Dropped
  BY DEF SenderTakes, TakeFailedPages, Dropped
<1>3. /\ Dropped = (Taken + 1)..(Taken + Len(skipped))
      /\ InRing = (Taken + Len(skipped) + 1)..pushes
      /\ sent \cup reported = 1..Taken /\ sent \cap reported = {}
  BY Places DEF QueueInv
<1>4. CASE pages' = <<>> /\ sent' = sent \cup InRing
  <2>1. Taken' = pushes /\ Len(pages') = 0
    BY <1>1, <1>2, <1>4 DEF Taken
  <2> HIDE DEF Taken
  <2>2. sent' \cup reported' = 1..Taken'
    BY <1>1, <1>2, <1>3, <1>4, <2>1
  <2>3. sent' \cap reported' = {}
    BY <1>1, <1>2, <1>3, <1>4
  <2> QED
    BY <1>1, <1>2, <2>1, <2>2, <2>3 DEF QueueInv
<1>5. CASE pages' = pages /\ sent' = sent
  <2>1. Taken' = Taken + Len(skipped)
    BY <1>1, <1>2, <1>5 DEF Taken
  <2> HIDE DEF Taken
  <2>2. sent' \cup reported' = 1..Taken'
    BY <1>1, <1>2, <1>3, <1>5, <2>1
  <2>3. sent' \cap reported' = {}
    BY <1>1, <1>2, <1>3, <1>5
  <2>4. \A i \in 1..Len(pages') : pages'[i].header = Taken' + Len(skipped') + i
    BY <1>1, <1>2, <1>5, <2>1 DEF QueueInv
  <2> QED
    BY <1>1, <1>2, <2>1, <2>2, <2>3, <2>4 DEF QueueInv
<1> QED
  BY <1>4, <1>5 DEF SenderTakes, TryTakeBuf, TakenPages, InRing

LEMMA NextQueue ==
  ASSUME RoomAbove, RingInv, QueueInv, [Next]_vars
  PROVE  QueueInv'
<1>0. TypeOK
  BY DEF RingInv
<1>1. CASE UNCHANGED vars
  BY <1>1 DEF QueueInv, Taken, vars, storageVars
<1> QED
  BY <1>0, <1>1, PushQueue, TakeQueue DEF Next

LEMMA InitQueue == Init => QueueInv
  BY DEF Init, StorageInit, QueueInv, Taken

(***************************************************************************)
(* Where the largest page fits above the cleanup threshold, every page     *)
(* ever pushed is in exactly one place, and the ring has its pages in the  *)
(* order of the pushes.                                                    *)
(***************************************************************************)
THEOREM PagesAccounted ==
  ASSUME RoomAbove
  PROVE  Spec => []EveryPageAccounted
<1>1. TypeOK /\ QueueInv => EveryPageAccounted
  <2> SUFFICES ASSUME TypeOK, QueueInv PROVE EveryPageAccounted
    OBVIOUS
  <2>1. /\ pushes \in Nat /\ Len(pages) \in Nat /\ Len(skipped) \in Nat
        /\ Taken + Len(skipped) + Len(pages) = pushes
    BY QueueTyped DEF Taken
  <2>2. /\ Taken \in Nat
        /\ Dropped = (Taken + 1)..(Taken + Len(skipped))
        /\ InRing = (Taken + Len(skipped) + 1)..pushes
        /\ sent \cup reported = 1..Taken /\ sent \cap reported = {}
    BY Places DEF QueueInv
  <2>3. \A i, j \in 1..Len(pages) : i < j => pages[i].header < pages[j].header
    BY <2>1, <2>2 DEF QueueInv
  <2> HIDE DEF Taken
  <2>4. InRing \cup Dropped \cup sent \cup reported = 1..pushes
    <3>1. (1..Taken) \cup Dropped \cup InRing = 1..pushes
      BY <2>1, <2>2
    <3> QED
      BY <2>2, <3>1
  <2>5. InRing \cap (Dropped \cup (1..Taken)) = {} /\ Dropped \cap (1..Taken) = {}
    BY <2>1, <2>2
  <2> QED
    BY <2>2, <2>3, <2>4, <2>5 DEF EveryPageAccounted
<1>2. RingInv /\ QueueInv /\ [Next]_vars => QueueInv'
  BY RoomAbove, NextQueue
<1> QED
  BY <1>1, <1>2, RingInvariant, TypeCorrect, InitQueue, PTL DEF Spec
-----------------------------------------------------------------------------
(* Where a page fits under the bottom threshold, its own push never drops it. *)
LEMMA PushKeepsLast ==
  ASSUME PageFits, RingInv, NEW n \in BufLens, Push(n)
  PROVE  pages' # <<>>
<1> DEFINE page == PageFor(pushes + 1, n)
           ps   == Append(pages, page)
<1>1. /\ RingTyped(Nat) /\ pushes + 1 \in Nat /\ n \in Nat /\ RoomFor(n)
      /\ PushBuf(pushes + 1, n) /\ TypeOK /\ HdrLen + n =< CleanupTo
  BY PushRoom, PageFits DEF PageFits, RoomBelow, RingInv, Push
<1>2. /\ Len(ps) = Len(pages) + 1 /\ ps[Len(ps)] = page /\ Len(pages) \in Nat
  BY <1>1, PushedRing, QueueTyped
<1>3. page.lo = wr /\ page.hi =< wr + HdrLen + n /\ page.hi \in Nat /\ wr \in Nat
      /\ wr' = page.hi
  <2>1. page.lo = wr /\ page.hi = wr + Stored(HdrLen + n) /\ wr' = page.hi
    BY DEF PageFor, Push, PushBuf
  <2>2. Stored(HdrLen + n) \in Nat /\ Stored(HdrLen + n) =< HdrLen + n
    BY <1>1, SizesAreNat DEF Stored, RingTyped, Occupied
  <2> QED
    BY <1>1, <2>1, <2>2, QueueTyped, SizesAreNat
<1>4. PICK d \in 0..Len(ps) : /\ Len(pages') = Len(ps) - d
                              /\ \A i \in 1..d : wr' - ps[i].lo > CleanupTo
  BY <1>1, PushDrops
<1> HIDE DEF page, ps
<1>5. d # Len(ps)
  BY <1>1, <1>2, <1>3, <1>4, SizesAreNat
<1>6. Len(pages') # 0
  BY <1>2, <1>4, <1>5
<1> QED
  BY <1>6

(***************************************************************************)
(* Cleanup drops from the old end only: whatever is dropped or taken is    *)
(* older than all that is left; and where the largest page fits, the       *)
(* newest page stays until the sending thread takes it.                    *)
(***************************************************************************)
THEOREM NewestPagesStay ==
  ASSUME PageFits
  PROVE  Spec => []NewestPagesSurvive
<1> DEFINE NewestInv == pages # <<>> \/ pushes = 0 \/ pushes \in sent
<1>1. Init => NewestInv
  BY DEF Init
<1>0. RoomAbove
  BY PageFits DEF PageFits
<1>2. RingInv /\ QueueInv /\ NewestInv /\ [Next]_vars => NewestInv'
  <2> SUFFICES ASSUME RingInv, QueueInv, NewestInv, [Next]_vars PROVE NewestInv'
    OBVIOUS
  <2>0. TypeOK
    BY DEF RingInv
  <2>1. ASSUME NEW n \in BufLens, Push(n) PROVE NewestInv'
    BY <2>1, PageFits, PushKeepsLast
  <2>2. ASSUME NEW takeEverything \in BOOLEAN, SenderTakes(takeEverything) PROVE NewestInv'
    <3>1. \/ sent' = sent \cup InRing /\ pushes' = pushes
          \/ sent' = sent /\ pages' = pages /\ pushes' = pushes
      BY <2>2 DEF SenderTakes, TryTakeBuf, TakenPages, InRing
    <3>2. pages # <<>> => pushes \in InRing
      <4> SUFFICES ASSUME pages # <<>> PROVE pushes \in InRing
        OBVIOUS
      <4>1. Len(pages) \in Nat /\ Len(pages) # 0 /\ pushes \in Nat /\ Len(skipped) \in Nat
        BY <2>0, QueueTyped, EmptySeq
      <4>2. Taken \in Nat /\ Taken + Len(skipped) + 1 =< pushes
        BY <4>1 DEF Taken, QueueInv
      <4> QED
        BY <2>0, <4>1, <4>2, Places
    <3> QED
      BY <3>1, <3>2
  <2>3. CASE UNCHANGED vars
    BY <2>3 DEF vars, storageVars
  <2> QED
    BY <2>1, <2>2, <2>3 DEF Next
<1>3. TypeOK /\ QueueInv /\ NewestInv => NewestPagesSurvive
  <2> SUFFICES ASSUME TypeOK, QueueInv, NewestInv PROVE NewestPagesSurvive
    OBVIOUS
  <2>1. /\ pushes \in Nat /\ Len(pages) \in Nat /\ Len(skipped) \in Nat
        /\ Taken + Len(skipped) + Len(pages) = pushes
    BY QueueTyped DEF Taken
  <2>2. /\ Taken \in Nat
        /\ Dropped = (Taken + 1)..(Taken + Len(skipped))
        /\ InRing = (Taken + Len(skipped) + 1)..pushes
        /\ sent \cup reported = 1..Taken
    BY Places DEF QueueInv
  <2> HIDE DEF Taken
  <2>3. \A h \in Dropped \cup (1..Taken), p \in InRing : h < p
    BY <2>1, <2>2
  <2>4. pages # <<>> => pushes \in InRing
    BY <2>1, <2>2, EmptySeq, QueueTyped
  <2> QED
    BY <2>2, <2>3, <2>4 DEF NewestPagesSurvive
<1>4. RingInv /\ QueueInv /\ [Next]_vars => QueueInv'
  BY <1>0, NextQueue
<1>5. Spec => []RingInv
  BY <1>0, RingInvariant
<1>6. Spec => []TypeOK
  BY <1>0, TypeCorrect
<1> QED
  BY <1>1, <1>2, <1>3, <1>4, <1>5, <1>6, InitQueue, PTL DEF Spec

(***************************************************************************)
(* Where the largest page fits above the cleanup threshold, a push drops   *)
(* nothing unless the ring is over that threshold, and cleanup stops as    *)
(* soon as the ring is at the bottom one, whatever the sizes of the pages. *)
(***************************************************************************)
THEOREM CleanupStopsInTime ==
  ASSUME RoomAbove
  PROVE  Spec => CleanupDropsNoMoreThanNeeded
<1> DEFINE Step == \A n \in BufLens :
                     LET last == Append(pages, PageFor(pushes + 1, n))[Len(skipped') - Len(skipped)]
                     IN (Push(n) /\ Len(skipped') > Len(skipped)) =>
                          wr' - rd > CleanupAt /\ wr' - last.lo > CleanupTo
<1>1. RingInv => Step
  <2> SUFFICES ASSUME RingInv, NEW n \in BufLens, Push(n), Len(skipped') > Len(skipped)
               PROVE  /\ wr' - rd > CleanupAt
                      /\ wr' - Append(pages, PageFor(pushes + 1, n))
                                [Len(skipped') - Len(skipped)].lo > CleanupTo
    OBVIOUS
  <2> DEFINE ps == Append(pages, PageFor(pushes + 1, n))
  <2>1. PICK d \in 0..Len(ps) :
          /\ Len(skipped') = Len(skipped) + d
          /\ \A i \in 1..d : wr' - rd > CleanupAt /\ wr' - ps[i].lo > CleanupTo
    <3>1. /\ RingTyped(Nat) /\ pushes + 1 \in Nat /\ n \in Nat /\ RoomFor(n)
          /\ PushBuf(pushes + 1, n)
      BY PushRoom DEF Push
    <3> QED
      BY <3>1, PushDrops
  <2> HIDE DEF ps
  <2>2. Len(skipped) \in Nat
    BY QueueTyped DEF RingInv
  <2>3. d \in 1..d /\ Len(skipped') - Len(skipped) = d
    BY <2>1, <2>2
  <2> QED
    BY <2>1, <2>3 DEF ps
<1> QED
  BY <1>1, RingInvariant, PTL DEF CleanupDropsNoMoreThanNeeded
-----------------------------------------------------------------------------
(* The ring as a queue of pages. *)
Queue == INSTANCE PageQueue WITH
  Header <- Nat, queue <- Headers(pages), dropped <- skipped

(***************************************************************************)
(* Where the largest page fits above the cleanup threshold, GlobalStorage  *)
(* implements a queue of pages: push_buf appends and drops from the old    *)
(* end, and the dropped headers wait in this order until                   *)
(* take_failed_pages; try_take_buf gives all pages or none.                *)
(***************************************************************************)
THEOREM RingIsQueue ==
  ASSUME RoomAbove
  PROVE  Spec => Queue!Spec
<1>1. Init => Queue!Init
  BY DEF Init, StorageInit, Headers, Queue!Init
<1>2. RingInv /\ [Next]_vars => [Queue!Next]_(Queue!vars)
  <2> SUFFICES ASSUME RingInv, [Next]_vars PROVE [Queue!Next]_(Queue!vars)
    OBVIOUS
  <2>0. RingTyped(Nat)
    BY DEF RingInv, TypeOK
  <2>1. ASSUME NEW n \in BufLens, Push(n) PROVE Queue!Next
    <3>1. pushes + 1 \in Nat /\ n \in Nat /\ RoomFor(n) /\ PushBuf(pushes + 1, n)
      BY <2>1, PushRoom DEF Push
    <3>2. Queue!Push(pushes + 1)
      BY <2>0, <3>1, PushQueues DEF Queue!Push, Queue!Keep
    <3> QED
      BY <3>1, <3>2 DEF Queue!Next
  <2>2. ASSUME NEW takeEverything \in BOOLEAN, SenderTakes(takeEverything) PROVE Queue!Next
    <3>1. Queue!Take
      BY <2>0, <2>2, TakeQueues DEF SenderTakes, Queue!Take
    <3> QED
      BY <3>1 DEF Queue!Next
  <2>3. CASE UNCHANGED vars
    BY <2>3 DEF vars, storageVars, Queue!vars, Headers
  <2> QED
    BY <2>1, <2>2, <2>3 DEF Next
<1> QED
  BY <1>1, <1>2, RingInvariant, PTL DEF Spec, Queue!Spec
=============================================================================
