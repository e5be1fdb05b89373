----------------------------- MODULE RingLemmas -----------------------------
(***************************************************************************)
(* Lemmas about the methods of GlobalStorage, for headers of any set H, a  *)
(* ring and thresholds of any size and pages of any length: what a push, a *)
(* cleanup and a take leave in the ring, and that it is a queue of pages.  *)
(***************************************************************************)
EXTENDS GlobalStorage, SequenceTheorems, WellFoundedInduction, TLAPS

(* push_buf before its cleanup: the new page lies behind the others. *)
LEMMA PushedRing ==
  ASSUME NEW H, RingTyped(H), NEW header \in H, NEW n \in Nat
  PROVE  LET page == PageFor(header, n)
             ps   == Append(pages, page)
         IN  /\ page \in PageOf(H)
             /\ ps \in Seq(PageOf(H)) /\ Len(ps) = Len(pages) + 1
             /\ \A i \in 1..Len(pages) : ps[i] = pages[i]
             /\ ps[Len(ps)] = page
             /\ Tiled(ps, rd, page.hi)
             /\ wr =< page.hi /\ page.hi - rd =< Capacity
<1> DEFINE page == PageFor(header, n)
           ps   == Append(pages, page)
<1> USE DEF RingTyped
<1>1. /\ Stored(HdrLen + n) \in Nat
      /\ Stored(HdrLen + n) =< Capacity - Occupied
  BY SizesAreNat DEF Stored, Occupied
<1>2. /\ page \in PageOf(H)
      /\ page.lo = wr /\ wr =< page.hi /\ page.hi - rd =< Capacity
  BY <1>1, SizesAreNat DEF PageFor, PageOf, Occupied
<1>3. /\ ps \in Seq(PageOf(H)) /\ Len(ps) = Len(pages) + 1
      /\ \A i \in 1..Len(pages) : ps[i] = pages[i]
      /\ ps[Len(ps)] = page
  <2>1. pages \in Seq(PageOf(H)) /\ page \in PageOf(H)
    BY <1>2
  <2> HIDE DEF page
  <2> QED
    BY <2>1
<1> HIDE DEF page, ps
<1>4. /\ rd \in Nat /\ wr \in Nat /\ rd =< wr /\ page.lo \in Nat /\ page.hi \in Nat
      /\ Len(pages) \in Nat
      /\ \A i \in 1..Len(pages) : pages[i].lo \in Nat /\ pages[i].hi \in Nat
  <2>1. rd \in Nat /\ wr \in Nat /\ rd =< wr /\ Len(pages) \in Nat
    OBVIOUS
  <2>2. page.lo \in Nat /\ page.hi \in Nat
    BY <1>2 DEF PageOf
  <2>3. \A i \in 1..Len(pages) : pages[i] \in PageOf(H)
    OBVIOUS
  <2> QED
    BY <2>1, <2>2, <2>3 DEF PageOf
<1>5. ASSUME NEW i \in 1..Len(ps)
      PROVE  rd =< ps[i].lo /\ ps[i].lo =< ps[i].hi /\ ps[i].hi =< page.hi
  <2>1. CASE i \in 1..Len(pages)
    <3>1. /\ ps[i] = pages[i]
          /\ rd =< pages[i].lo /\ pages[i].lo =< pages[i].hi /\ pages[i].hi =< wr
      BY <1>3, <2>1 DEF Tiled
    <3> QED
      BY <1>2, <1>4, <2>1, <3>1
  <2>2. CASE i = Len(ps)
    BY <1>2, <1>3, <1>4, <2>2
  <2> QED
    BY <1>3, <2>1, <2>2
<1>6. ASSUME NEW i \in 1..Len(ps), NEW j \in 1..Len(ps), i < j
      PROVE  ps[i].hi =< ps[j].lo /\ (j = i + 1 => ps[i].hi = ps[j].lo)
  <2>1. CASE j \in 1..Len(pages)
    BY <1>3, <1>6, <2>1 DEF Tiled
  <2>2. CASE j = Len(ps)
    <3>1. i \in 1..Len(pages) /\ ps[i] = pages[i] /\ ps[j].lo = wr
      BY <1>2, <1>3, <1>6, <2>2
    <3>2. pages[i].hi =< wr /\ (i = Len(pages) => pages[i].hi = wr)
      BY <3>1 DEF Tiled
    <3> QED
      BY <1>3, <2>2, <3>1, <3>2
  <2> QED
    BY <1>3, <2>1, <2>2
<1>7. ps[1].lo = rd
  BY <1>2, <1>3 DEF Tiled
<1>8. Tiled(ps, rd, page.hi)
  BY <1>3, <1>5, <1>6, <1>7 DEF Tiled
<1> QED
  BY <1>2, <1>3, <1>8 DEF page, ps

(* A cleanup leaves the pages behind the k oldest where they were. *)
LEMMA DroppedRing ==
  ASSUME NEW H, NEW ps \in Seq(PageOf(H)), NEW k \in 0..Len(ps),
         rd \in Nat, NEW w \in Nat, rd =< w,
         Tiled(ps, rd, w), skipped \in Seq(H),
         DropOldest(ps, k)
  PROVE  /\ rd' \in rd..w /\ rd' = FrontAfter(ps, k)
         /\ pages' \in Seq(PageOf(H)) /\ Len(pages') = Len(ps) - k
         /\ \A i \in 1..Len(pages') : pages'[i] = ps[i + k]
         /\ Tiled(pages', rd', w)
         /\ skipped' \in Seq(H)
<1>0. Len(ps) \in Nat
  OBVIOUS
<1>1. \A i \in 1..Len(ps) : ps[i].lo \in Nat /\ ps[i].hi \in Nat /\ ps[i].header \in H
  <2> TAKE i \in 1..Len(ps)
  <2>1. ps[i] \in PageOf(H)
    OBVIOUS
  <2> QED
    BY <2>1 DEF PageOf
<1>2. rd' \in rd..w
  <2>1. CASE k = 0
    BY <2>1 DEF DropOldest, FrontAfter
  <2>2. CASE k # 0
    <3>1. k \in 1..Len(ps) /\ rd' = ps[k].hi /\ ps[k].lo \in Nat /\ ps[k].hi \in Nat
      BY <1>0, <1>1, <2>2 DEF DropOldest, FrontAfter
    <3>2. rd =< ps[k].lo /\ ps[k].lo =< ps[k].hi /\ ps[k].hi =< w
      BY <3>1 DEF Tiled
    <3> QED
      BY <3>1, <3>2
  <2> QED
    BY <2>1, <2>2
<1>3. /\ pages' \in Seq(PageOf(H)) /\ Len(pages') = Len(ps) - k
      /\ \A i \in 1..Len(pages') : pages'[i] = ps[i + k]
  BY DEF DropOldest
<1>4. \A i \in 1..Len(pages') : i + k \in 1..Len(ps) /\ pages'[i] = ps[i + k]
  BY <1>0, <1>3
<1>5. \A i \in 1..Len(pages') : /\ rd' =< pages'[i].lo /\ pages'[i].lo =< pages'[i].hi
                                /\ pages'[i].hi =< w
  <2> TAKE i \in 1..Len(pages')
  <2>1. rd =< ps[i + k].lo /\ ps[i + k].lo =< ps[i + k].hi /\ ps[i + k].hi =< w
    BY <1>4 DEF Tiled
  <2>2. k # 0 => ps[k].hi =< ps[i + k].lo
    BY <1>4 DEF Tiled
  <2>3. i + k \in 1..Len(ps) /\ pages'[i] = ps[i + k]
    BY <1>4
  <2>4. rd' = IF k = 0 THEN rd ELSE ps[k].hi
    BY DEF DropOldest, FrontAfter
  <2> QED
    BY <2>1, <2>2, <2>3, <2>4
<1>6. \A i, j \in 1..Len(pages') :
        /\ i < j => pages'[i].hi =< pages'[j].lo
        /\ j = i + 1 => pages'[i].hi = pages'[j].lo
  <2> TAKE i, j \in 1..Len(pages')
  <2>1. i < j <=> i + k < j + k
    OBVIOUS
  <2>2. j = i + 1 <=> j + k = (i + k) + 1
    OBVIOUS
  <2>3. /\ i + k \in 1..Len(ps) /\ pages'[i] = ps[i + k]
        /\ j + k \in 1..Len(ps) /\ pages'[j] = ps[j + k]
    BY <1>4
  <2>4. /\ i + k < j + k => ps[i + k].hi =< ps[j + k].lo
        /\ j + k = (i + k) + 1 => ps[i + k].hi = ps[j + k].lo
    BY <2>3 DEF Tiled
  <2> QED
    BY <2>1, <2>2, <2>3, <2>4
<1>7. ASSUME k = Len(ps)
      PROVE  Tiled(pages', rd', w)
  <2>1. pages' = <<>>
    BY <1>0, <1>3, <1>7
  <2>2. rd' = w
    <3>1. rd' = IF k = 0 THEN rd ELSE ps[Len(ps)].hi
      BY <1>7 DEF DropOldest, FrontAfter
    <3>2. k = 0 => ps = <<>>
      BY <1>0, <1>7, EmptySeq
    <3>3. k # 0 => ps # <<>>
      BY <1>0, <1>7, EmptySeq
    <3> QED
      BY <3>1, <3>2, <3>3 DEF Tiled
  <2> QED
    BY <2>1, <2>2 DEF Tiled
<1>8. ASSUME k # Len(ps)
      PROVE  Tiled(pages', rd', w)
  <2>1. /\ Len(ps) # 0 /\ ps # <<>> /\ Len(pages') # 0 /\ pages' # <<>>
        /\ k + 1 \in 1..Len(ps) /\ pages'[1] = ps[k + 1]
        /\ pages'[Len(pages')] = ps[Len(ps)]
    <3>1. k \in Nat /\ k < Len(ps) /\ Len(pages') = Len(ps) - k /\ Len(pages') # 0
      BY <1>0, <1>3, <1>8
    <3>2. ps # <<>> /\ pages' # <<>>
      BY <1>0, <3>1
    <3>3. 1 \in 1..Len(pages') /\ Len(pages') \in 1..Len(pages')
      BY <1>0, <3>1
    <3>4. pages'[1] = ps[1 + k] /\ pages'[Len(pages')] = ps[Len(pages') + k]
      BY <1>3, <3>3
    <3>5. 1 + k = k + 1 /\ Len(pages') + k = Len(ps) /\ k + 1 \in 1..Len(ps)
      BY <1>0, <3>1
    <3> QED
      BY <1>0, <3>1, <3>2, <3>4, <3>5
  <2>2. pages'[Len(pages')].hi = w
    BY <2>1 DEF Tiled
  <2>3. pages'[1].lo = rd'
    <3>1. k # 0 => ps[k].hi = ps[k + 1].lo
      BY <1>0, <2>1 DEF Tiled
    <3>2. k = 0 => ps[k + 1].lo = rd
      BY <2>1 DEF Tiled
    <3> QED
      BY <2>1, <3>1, <3>2 DEF DropOldest, FrontAfter
  <2> QED
    BY <1>5, <1>6, <2>1, <2>2, <2>3 DEF Tiled
<1>9. skipped' \in Seq(H)
  <2>1. [i \in 1..k |-> ps[i].header] \in Seq(H)
    BY <1>1
  <2> QED
    BY <2>1 DEF DropOldest
<1>10. rd' = FrontAfter(ps, k)
  BY DEF DropOldest
<1> QED
  BY <1>2, <1>3, <1>7, <1>8, <1>9, <1>10

(* The loop meets the pages one behind the other.                            *)
LEMMA NextFront ==
  ASSUME NEW H, NEW ps \in Seq(PageOf(H)), NEW w, Tiled(ps, rd, w), NEW i \in 1..Len(ps)
  PROVE  FrontAfter(ps, i - 1) = ps[i].lo
<1>1. Len(ps) \in Nat /\ ps # <<>>
  OBVIOUS
<1>2. CASE i = 1
  BY <1>1, <1>2 DEF Tiled, FrontAfter
<1>3. CASE i # 1
  <2>1. i - 1 \in 1..Len(ps) /\ i = (i - 1) + 1 /\ i - 1 # 0
    BY <1>1, <1>3
  <2> QED
    BY <2>1 DEF Tiled, FrontAfter
<1> QED
  BY <1>2, <1>3

(* The ring holds whole pages, and there is room for n bytes more.           *)
RoomFor(n) ==
  /\ CleanupAt + HdrLen + n =< Capacity
  /\ \A i \in 1..Len(pages) : Whole(pages[i])
  /\ Occupied =< CleanupAt

(* Then push_buf stores a whole page, and its cleanup meets whole pages only.*)
LEMMA PushIntact ==
  ASSUME NEW H, RingTyped(H), NEW header \in H, NEW n \in Nat, RoomFor(n)
  PROVE  LET ps == Append(pages, PageFor(header, n)) IN
         /\ \A i \in 1..Len(ps) : Whole(ps[i])
         /\ \A j \in 0..(Len(ps) - 1) : Intact(ps, j)
<1> DEFINE page == PageFor(header, n)
           ps   == Append(pages, page)
<1>1. /\ page \in PageOf(H)
      /\ ps \in Seq(PageOf(H)) /\ Len(ps) = Len(pages) + 1
      /\ \A i \in 1..Len(pages) : ps[i] = pages[i]
      /\ ps[Len(ps)] = page
      /\ Tiled(ps, rd, page.hi)
  BY PushedRing
<1>2. wr \in Nat /\ rd \in Nat /\ rd =< wr
  BY DEF RingTyped
<1>3. Whole(page)
  BY <1>2, SizesAreNat DEF PageFor, Whole, Stored, Occupied, RoomFor
<1>4. \A i \in 1..Len(ps) : Whole(ps[i])
  <2> SUFFICES ASSUME NEW i \in 1..Len(ps), i # Len(ps)
               PROVE  i \in 1..Len(pages)
    BY <1>1, <1>3 DEF RoomFor
  <2> QED
    BY <1>1
<1> HIDE DEF page, ps
<1>5. ASSUME NEW j \in 0..(Len(ps) - 1) PROVE Intact(ps, j)
  <2>1. j + 1 \in 1..Len(ps) /\ (j + 1) - 1 = j
    BY <1>1
  <2>2. FrontAfter(ps, (j + 1) - 1) = ps[j + 1].lo
    BY <1>1, <2>1, NextFront
  <2> QED
    BY <1>4, <2>1, <2>2 DEF Intact
<1> QED
  BY <1>4, <1>5 DEF page, ps

LEMMA PushWhole ==
  ASSUME NEW H, RingTyped(H), NEW header \in H, NEW n \in Nat, RoomFor(n),
         PushBuf(header, n)
  PROVE  LET page == PageFor(header, n)
             ps   == Append(pages, page)
         IN  /\ ~garbled /\ ~garbled' /\ wr' = page.hi
             /\ \/ /\ ~NeedsCleanup(page.hi)
                   /\ pages' = ps /\ UNCHANGED <<rd, skipped>>
                \/ /\ NeedsCleanup(page.hi)
                   /\ \E k \in 0..Len(ps) :
                        CleanupStopsAfter(ps, page.hi, k) /\ DropOldest(ps, k)
<1> DEFINE page == PageFor(header, n)
           ps   == Append(pages, page)
<1>1. ps \in Seq(PageOf(H)) /\ Len(ps) \in Nat
  BY PushedRing
<1>2. ASSUME NEW k \in 0..Len(ps), k < Len(ps) PROVE Intact(ps, k)
  <2>1. k \in 0..(Len(ps) - 1)
    BY <1>1, <1>2
  <2> QED
    BY <2>1, PushIntact
<1> QED
  BY <1>2 DEF PushBuf

(* Then the ring has its type and tiling also after the push.                *)
LEMMA PushBufTyped ==
  ASSUME NEW H, RingTyped(H), NEW header \in H, NEW n \in Nat, RoomFor(n),
         PushBuf(header, n)
  PROVE  RingTyped(H)'
<1> DEFINE page == PageFor(header, n)
           ps   == Append(pages, page)
<1>1. /\ page \in PageOf(H)
      /\ ps \in Seq(PageOf(H)) /\ Len(ps) = Len(pages) + 1
      /\ Tiled(ps, rd, page.hi)
      /\ wr =< page.hi /\ page.hi - rd =< Capacity
  BY PushedRing
<1>2. /\ wr' = page.hi /\ page.hi \in Nat /\ rd \in Nat /\ Capacity \in Nat
      /\ skipped \in Seq(H) /\ garbled' \in BOOLEAN
  <2>1. wr' = page.hi
    BY PushWhole
  <2>2. ~garbled'
    BY PushWhole
  <2>3. garbled' \in BOOLEAN
    BY <2>2 DEF PushBuf, DropOldest, ReadsBroken, RingTyped
  <2>4. page.hi \in Nat /\ rd \in Nat /\ Capacity \in Nat /\ skipped \in Seq(H)
    BY <1>1, SizesAreNat DEF PageOf, RingTyped
  <2> QED
    BY <2>1, <2>3, <2>4
<1>3. rd =< page.hi
  BY <1>1, <1>2 DEF RingTyped
<1>4. \/ pages' = ps /\ UNCHANGED <<rd, skipped>>
      \/ \E k \in 0..Len(ps) : DropOldest(ps, k)
  BY PushWhole
<1> HIDE DEF page, ps
<1>5. CASE pages' = ps /\ UNCHANGED <<rd, skipped>>
  BY <1>1, <1>2, <1>3, <1>5 DEF RingTyped, Occupied
<1>6. CASE \E k \in 0..Len(ps) : DropOldest(ps, k)
  <2>1. PICK k \in 0..Len(ps) : DropOldest(ps, k)
    BY <1>6
  <2>2. /\ rd' \in rd..page.hi
        /\ pages' \in Seq(PageOf(H))
        /\ Tiled(pages', rd', page.hi)
        /\ skipped' \in Seq(H)
    BY <1>1, <1>2, <1>3, <2>1, DroppedRing
  <2>3. rd' \in 0..wr' /\ Occupied' =< Capacity
    <3>1. page.hi - rd' =< page.hi - rd
      BY <1>2, <2>2
    <3> QED
      BY <1>1, <1>2, <2>2, <3>1 DEF Occupied
  <2> QED
    BY <1>2, <2>2, <2>3 DEF RingTyped
<1> QED
  BY <1>4, <1>5, <1>6

(***************************************************************************)
(* When the page fits above the cleanup threshold, push_buf stores it      *)
(* whole, and its cleanup, which then meets whole pages only, does not     *)
(* panic and brings the ring back under the threshold.                     *)
(***************************************************************************)
LEMMA PushBufFits ==
  ASSUME NEW H, RingTyped(H), NEW header \in H, NEW n \in Nat, RoomFor(n),
         PushBuf(header, n)
  PROVE  /\ \A i \in 1..Len(pages') : Whole(pages'[i])
         /\ Occupied' =< CleanupAt
         /\ ~garbled'
<1> DEFINE page == PageFor(header, n)
           ps   == Append(pages, page)
<1>1. /\ page \in PageOf(H)
      /\ ps \in Seq(PageOf(H)) /\ Len(ps) = Len(pages) + 1
      /\ Tiled(ps, rd, page.hi) /\ wr =< page.hi
  BY PushedRing
<1>2. wr \in Nat /\ rd \in Nat /\ rd =< wr /\ skipped \in Seq(H)
  BY DEF RingTyped
<1>3. \A i \in 1..Len(ps) : Whole(ps[i])
  BY PushIntact
<1>4. /\ ~garbled' /\ wr' = page.hi /\ page.hi \in Nat
      /\ \/ ~NeedsCleanup(page.hi) /\ pages' = ps /\ UNCHANGED <<rd, skipped>>
         \/ \E k \in 0..Len(ps) : CleanupStopsAfter(ps, page.hi, k) /\ DropOldest(ps, k)
  BY <1>1, PushWhole DEF PageOf
<1>5. rd =< page.hi
  BY <1>1, <1>2, <1>4
<1> HIDE DEF page, ps
<1>6. CASE ~NeedsCleanup(page.hi) /\ pages' = ps /\ UNCHANGED <<rd, skipped>>
  <2>1. \A i \in 1..Len(pages') : Whole(pages'[i])
    BY <1>3, <1>6
  <2>2. Occupied' =< CleanupAt
    BY <1>2, <1>4, <1>6, SizesAreNat DEF NeedsCleanup, Occupied
  <2> QED
    BY <1>4, <2>1, <2>2
<1>7. CASE \E k \in 0..Len(ps) : CleanupStopsAfter(ps, page.hi, k) /\ DropOldest(ps, k)
  <2>1. PICK k \in 0..Len(ps) : CleanupStopsAfter(ps, page.hi, k) /\ DropOldest(ps, k)
    BY <1>7
  <2>2. /\ rd' \in rd..page.hi /\ rd' = FrontAfter(ps, k)
        /\ Len(pages') = Len(ps) - k
        /\ \A i \in 1..Len(pages') : pages'[i] = ps[i + k]
    <3>1. /\ ps \in Seq(PageOf(H)) /\ k \in 0..Len(ps) /\ rd \in Nat /\ page.hi \in Nat
          /\ rd =< page.hi /\ Tiled(ps, rd, page.hi) /\ skipped \in Seq(H) /\ DropOldest(ps, k)
      BY <1>1, <1>2, <1>4, <1>5, <2>1
    <3> QED
      BY <3>1, DroppedRing
  <2>3. \A i \in 1..Len(pages') : i + k \in 1..Len(ps)
    BY <1>1, <2>2
  <2>4. \A i \in 1..Len(pages') : Whole(pages'[i])
    BY <1>3, <2>2, <2>3
  <2>5. page.hi - rd' =< CleanupTo
    BY <2>1, <2>2 DEF CleanupStopsAfter
  <2>6. Occupied' =< CleanupAt
    BY <1>2, <1>4, <2>2, <2>5, SizesAreNat DEF Occupied
  <2> QED
    BY <1>4, <2>4, <2>6
<1> QED
  BY <1>4, <1>6, <1>7

(* Two sequences one behind the other.                                       *)
LEMMA ConcatAt ==
  ASSUME NEW S, NEW f \in Seq(S), NEW g \in Seq(S)
  PROVE  /\ f \o g \in Seq(S) /\ Len(f \o g) = Len(f) + Len(g)
         /\ Len(f) \in Nat /\ Len(g) \in Nat
         /\ \A i \in 1..Len(f) : (f \o g)[i] = f[i]
         /\ \A i \in 1..Len(g) : (f \o g)[Len(f) + i] = g[i]
  OBVIOUS

(* What a push leaves in the ring and adds to the dropped headers: it drops  *)
(* the d oldest pages, if any because the ring was over the cleanup          *)
(* threshold, and the page before the last of these would have left it over  *)
(* the bottom one.                                                           *)
LEMMA PushDrops ==
  ASSUME NEW H, RingTyped(H), NEW header \in H, NEW n \in Nat, RoomFor(n),
         PushBuf(header, n)
  PROVE  LET ps == Append(pages, PageFor(header, n)) IN
         \E d \in 0..Len(ps) :
           /\ Len(pages') = Len(ps) - d /\ Len(skipped') = Len(skipped) + d
           /\ \A i \in 1..Len(pages') : pages'[i] = ps[i + d]
           /\ \A i \in 1..Len(skipped) : skipped'[i] = skipped[i]
           /\ \A i \in 1..d : skipped'[Len(skipped) + i] = ps[i].header
           /\ \A i \in 1..d : wr' - rd > CleanupAt /\ wr' - ps[i].lo > CleanupTo
<1> DEFINE page == PageFor(header, n)
           ps   == Append(pages, page)
           Goal(d) == /\ Len(pages') = Len(ps) - d /\ Len(skipped') = Len(skipped) + d
                      /\ \A i \in 1..Len(pages') : pages'[i] = ps[i + d]
                      /\ \A i \in 1..Len(skipped) : skipped'[i] = skipped[i]
                      /\ \A i \in 1..d : skipped'[Len(skipped) + i] = ps[i].header
                      /\ \A i \in 1..d : wr' - rd > CleanupAt /\ wr' - ps[i].lo > CleanupTo
<1>2. /\ page \in PageOf(H) /\ ps \in Seq(PageOf(H)) /\ Len(ps) = Len(pages) + 1
      /\ Tiled(ps, rd, page.hi) /\ wr =< page.hi
  BY PushedRing
<1>3. /\ wr' = page.hi /\ page.hi \in Nat /\ Len(ps) \in Nat
      /\ rd \in Nat /\ rd =< page.hi /\ skipped \in Seq(H) /\ Len(skipped) \in Nat
  BY <1>2 DEF PushBuf, PageOf, RingTyped
<1>4. \A i \in 1..Len(ps) : ps[i].header \in H /\ ps[i].lo \in Nat
  <2> TAKE i \in 1..Len(ps)
  <2>1. ps[i] \in PageOf(H)
    BY <1>2
  <2> QED
    BY <2>1 DEF PageOf
<1>5. \/ pages' = ps /\ skipped' = skipped
      \/ /\ NeedsCleanup(page.hi)
         /\ \E d \in 0..Len(ps) : CleanupStopsAfter(ps, page.hi, d) /\ DropOldest(ps, d)
  BY PushWhole
<1> HIDE DEF page, ps
<1>6. ASSUME pages' = ps, skipped' = skipped PROVE Goal(0)
  <2>1. \A i \in 1..Len(pages') : pages'[i] = ps[i + 0]
    BY <1>3, <1>6
  <2> QED
    BY <1>3, <1>6, <2>1
<1>7. ASSUME NeedsCleanup(page.hi), NEW d \in 0..Len(ps),
             CleanupStopsAfter(ps, page.hi, d), DropOldest(ps, d)
      PROVE  Goal(d)
  <2>1. Len(pages') = Len(ps) - d /\ \A i \in 1..Len(pages') : pages'[i] = ps[i + d]
    <3>1. /\ ps \in Seq(PageOf(H)) /\ rd \in Nat /\ page.hi \in Nat
          /\ rd =< page.hi /\ Tiled(ps, rd, page.hi) /\ skipped \in Seq(H) /\ DropOldest(ps, d)
      BY <1>2, <1>3, <1>7
    <3> QED
      BY <3>1, DroppedRing
  <2>2. /\ Len(skipped') = Len(skipped) + d
        /\ \A i \in 1..Len(skipped) : skipped'[i] = skipped[i]
        /\ \A i \in 1..d : skipped'[Len(skipped) + i] = ps[i].header
    <3> DEFINE headers == [i \in 1..d |-> ps[i].header]
    <3>1. headers \in Seq(H) /\ Len(headers) = d /\ \A i \in 1..d : headers[i] = ps[i].header
      BY <1>3, <1>4
    <3>2. skipped' = skipped \o headers
      BY <1>7 DEF DropOldest
    <3> HIDE DEF headers
    <3>3. /\ Len(skipped \o headers) = Len(skipped) + d
          /\ \A i \in 1..Len(skipped) : (skipped \o headers)[i] = skipped[i]
          /\ \A i \in 1..Len(headers) : (skipped \o headers)[Len(skipped) + i] = headers[i]
      <4>1. skipped \in Seq(H) /\ headers \in Seq(H) /\ Len(headers) = d
        BY <1>3, <3>1
      <4>2. Len(skipped) \in Nat /\ Len(headers) \in Nat
        BY <1>3, <3>1
      <4>3. Len(skipped \o headers) = Len(skipped) + Len(headers)
        BY <4>1
      <4>4. \A i \in 1..Len(skipped) : (skipped \o headers)[i] = skipped[i]
        BY <4>1, <4>2
      <4>5. \A i \in 1..Len(headers) : (skipped \o headers)[Len(skipped) + i] = headers[i]
        BY <4>1, <4>2
      <4> QED
        BY <4>1, <4>3, <4>4, <4>5
    <3> QED
      BY <3>1, <3>2, <3>3
  <2>3. ASSUME NEW i \in 1..d PROVE wr' - rd > CleanupAt /\ wr' - ps[i].lo > CleanupTo
    <3>1. i - 1 \in 0..(d - 1) /\ i \in 1..Len(ps) /\ i \in Nat
      BY <1>3
    <3>2. page.hi - FrontAfter(ps, i - 1) > CleanupTo
      BY <1>7, <3>1 DEF CleanupStopsAfter
    <3>3. FrontAfter(ps, i - 1) = ps[i].lo
      BY <1>2, <3>1, NextFront
    <3> QED
      BY <1>3, <1>7, <3>2, <3>3 DEF NeedsCleanup
  <2> QED
    BY <2>1, <2>2, <2>3
<1>8. \E d \in 0..Len(ps) : Goal(d)
  <2>1. 0 \in 0..Len(ps)
    BY <1>3
  <2> HIDE DEF Goal
  <2> QED
    BY <1>5, <1>6, <1>7, <2>1
<1> QED
  BY <1>8 DEF page, ps

(* A take leaves the ring as it is, or empty. *)
LEMMA TakeTyped ==
  ASSUME NEW H, RingTyped(H), NEW takeEverything \in BOOLEAN,
         TakeFailedPages, TryTakeBuf(takeEverything)
  PROVE  RingTyped(H)'
<1>1. /\ wr \in Nat /\ wr' = wr /\ rd \in 0..wr /\ Capacity \in Nat
      /\ skipped' = <<>> /\ garbled' \in BOOLEAN
  BY SizesAreNat DEF RingTyped, TakeFailedPages, TryTakeBuf
<1>2. CASE rd' = wr /\ pages' = <<>>
  <2>1. Tiled(pages', rd', wr')
    BY <1>1, <1>2 DEF Tiled
  <2> QED
    BY <1>1, <1>2, <2>1 DEF RingTyped, Occupied
<1>3. CASE UNCHANGED <<rd, pages>>
  BY <1>1, <1>3 DEF RingTyped, Occupied
<1> QED
  BY <1>2, <1>3 DEF TryTakeBuf

(* What a take returns has headers of the same set. *)
LEMMA TakenTyped ==
  ASSUME NEW H, RingTyped(H), NEW takeEverything \in BOOLEAN
  PROVE  TakenPages(takeEverything) \in Seq(PageOf(H))
  BY DEF RingTyped, TakenPages
-----------------------------------------------------------------------------
(* A set of numbers that is not empty has a least one.                       *)
LEMMA LeastOf ==
  ASSUME NEW T, T \subseteq Nat, T # {}
  PROVE  \E x \in T : \A y \in T : ~(y < x)
<1>1. PICK R : R = OpToRel(<, Nat)
  BY Zenon
<1>2. IsWellFoundedOn(R, Nat)
  BY <1>1, NatLessThanWellFounded, Zenon
<1>3. PICK x \in T : \A y \in T : ~(<<y, x>> \in R)
  BY <1>2, WFMin, Zenon
<1>4. R = {ss \in Nat \X Nat : ss[1] < ss[2]}
  BY <1>1 DEF OpToRel
<1>5. ASSUME NEW y \in T PROVE ~(y < x)
  <2>1. y \in Nat /\ x \in Nat /\ <<y, x>> \in Nat \X Nat
    OBVIOUS
  <2>2. <<y, x>> \notin R
    BY <1>3
  <2>3. <<y, x>>[1] = y /\ <<y, x>>[2] = x
    OBVIOUS
  <2> QED
    BY <1>4, <2>1, <2>2, <2>3
<1> QED
  BY <1>5

(***************************************************************************)
(* The cleanup loop stops, since the ring is empty once all its pages are  *)
(* dropped: pages that tile the ring leave no bytes that no page accounts  *)
(* for.                                                                    *)
(***************************************************************************)
LEMMA CleanupStops ==
  ASSUME NEW H, NEW ps \in Seq(PageOf(H)), rd \in Nat, NEW w \in Nat, rd =< w,
         Tiled(ps, rd, w)
  PROVE  \E k \in 0..Len(ps) : CleanupStopsAfter(ps, w, k)
<1>1. Len(ps) \in Nat /\ CleanupTo \in Nat
  BY SizesAreNat
<1>2. FrontAfter(ps, Len(ps)) = w
  <2>1. CASE Len(ps) = 0
    <3>1. ps = <<>>
      BY <2>1, EmptySeq
    <3> QED
      BY <2>1, <3>1 DEF Tiled, FrontAfter
  <2>2. CASE Len(ps) # 0
    <3>1. ps # <<>>
      BY <2>2
    <3> QED
      BY <2>2, <3>1 DEF Tiled, FrontAfter
  <2> QED
    BY <2>1, <2>2
<1> DEFINE T == {k \in 0..Len(ps) : w - FrontAfter(ps, k) =< CleanupTo}
<1>3. Len(ps) \in T /\ T \subseteq Nat
  BY <1>1, <1>2
<1>4. PICK k \in T : \A j \in T : ~(j < k)
  <2> HIDE DEF T
  <2> QED
    BY <1>3, LeastOf
<1>5. ASSUME NEW j \in 0..(k - 1) PROVE w - FrontAfter(ps, j) > CleanupTo
  <2>1. j \in 0..Len(ps) /\ j < k /\ j \notin T
    BY <1>1, <1>4
  <2>2. FrontAfter(ps, j) \in Nat
    <3>1. j # 0 => ps[j] \in PageOf(H)
      BY <1>1, <2>1
    <3> QED
      BY <3>1 DEF FrontAfter, PageOf
  <2> QED
    BY <1>1, <2>1, <2>2
<1>6. CleanupStopsAfter(ps, w, k)
  BY <1>4, <1>5 DEF CleanupStopsAfter
<1> QED
  BY <1>4, <1>6

(* A push onto a ring of whole pages returns if the page fits like them.     *)
LEMMA PushEnds ==
  ASSUME NEW H, RingTyped(H), NEW header \in H, NEW n \in Nat, RoomFor(n), ~garbled
  PROVE  PushReturns(header, n)
<1> DEFINE page == PageFor(header, n)
           ps   == Append(pages, page)
<1>1. /\ page \in PageOf(H) /\ ps \in Seq(PageOf(H)) /\ Len(ps) = Len(pages) + 1
      /\ Tiled(ps, rd, page.hi) /\ wr =< page.hi
  BY PushedRing
<1>2. wr \in Nat /\ rd \in Nat /\ rd =< wr /\ page.hi \in Nat /\ rd =< page.hi
  BY <1>1 DEF RingTyped, PageOf
<1>3. \A j \in 0..(Len(ps) - 1) : Intact(ps, j)
  BY PushIntact
<1> HIDE DEF page, ps
<1>4. PICK k \in 0..Len(ps) : CleanupStopsAfter(ps, page.hi, k)
  BY <1>1, <1>2, CleanupStops
<1>5. \A j \in 0..(k - 1) : Intact(ps, j)
  BY <1>1, <1>3, <1>4
<1> QED
  BY <1>4, <1>5 DEF PushReturns, page, ps
-----------------------------------------------------------------------------
(* The ring as a queue of headers (PageQueue).                               *)
Headers(ps) == [i \in 1..Len(ps) |-> ps[i].header]

LEMMA HeadersTyped ==
  ASSUME NEW H, NEW ps \in Seq(PageOf(H))
  PROVE  /\ Headers(ps) \in Seq(H) /\ Len(Headers(ps)) = Len(ps)
         /\ \A i \in 1..Len(ps) : Headers(ps)[i] = ps[i].header
<1>1. \A i \in 1..Len(ps) : ps[i].header \in H
  <2> TAKE i \in 1..Len(ps)
  <2>1. ps[i] \in PageOf(H)
    OBVIOUS
  <2> QED
    BY <2>1 DEF PageOf
<1>2. Len(ps) \in Nat
  OBVIOUS
<1> QED
  BY <1>1, <1>2 DEF Headers

(* Sequences of one length and with the same elements are equal.             *)
LEMMA SameSeq ==
  ASSUME NEW S, NEW s \in Seq(S), NEW t \in Seq(S), Len(s) = Len(t),
         \A i \in 1..Len(s) : s[i] = t[i]
  PROVE  s = t
  OBVIOUS

(* A push and its cleanup keep what is behind the d oldest pages.            *)
LEMMA PushQueues ==
  ASSUME NEW H, RingTyped(H), NEW header \in H, NEW n \in Nat, RoomFor(n),
         PushBuf(header, n)
  PROVE  LET q == Append(Headers(pages), header) IN
         \E d \in 0..(Len(Headers(pages)) + 1) :
           /\ Headers(pages') = SubSeq(q, d + 1, Len(q))
           /\ skipped' = skipped \o SubSeq(q, 1, d)
<1> DEFINE page == PageFor(header, n)
           ps   == Append(pages, page)
           q    == Append(Headers(pages), header)
<1>1. /\ pages \in Seq(PageOf(H)) /\ skipped \in Seq(H)
      /\ Headers(pages) \in Seq(H) /\ Len(Headers(pages)) = Len(pages) /\ Len(pages) \in Nat
      /\ \A i \in 1..Len(pages) : Headers(pages)[i] = pages[i].header
  BY HeadersTyped DEF RingTyped
<1>2. /\ pages' \in Seq(PageOf(H)) /\ skipped' \in Seq(H)
      /\ Headers(pages') \in Seq(H) /\ Len(Headers(pages')) = Len(pages')
      /\ \A i \in 1..Len(pages') : Headers(pages')[i] = pages'[i].header
  <2>1. RingTyped(H)'
    BY PushBufTyped
  <2>2. pages' \in Seq(PageOf(H)) /\ skipped' \in Seq(H)
    BY <2>1 DEF RingTyped
  <2> QED
    BY <2>2, HeadersTyped
<1>3. /\ Len(ps) = Len(pages) + 1 /\ \A i \in 1..Len(pages) : ps[i] = pages[i]
      /\ ps[Len(ps)].header = header
  BY PushedRing DEF PageFor
<1>4. /\ q \in Seq(H) /\ Len(q) = Len(pages) + 1
      /\ \A i \in 1..Len(q) : q[i] = ps[i].header
  <2>1. /\ q \in Seq(H) /\ Len(q) = Len(pages) + 1 /\ q[Len(pages) + 1] = header
        /\ \A i \in 1..Len(pages) : q[i] = Headers(pages)[i]
    BY <1>1
  <2> HIDE DEF q, ps
  <2>2. ASSUME NEW i \in 1..Len(q) PROVE q[i] = ps[i].header
    <3>1. i \in 1..Len(pages) \/ i = Len(pages) + 1
      BY <1>1, <2>1
    <3> QED
      BY <1>1, <1>3, <2>1, <3>1
  <2> QED
    BY <2>1, <2>2
<1>5. PICK d \in 0..Len(ps) :
        /\ Len(pages') = Len(ps) - d /\ Len(skipped') = Len(skipped) + d
        /\ \A i \in 1..Len(pages') : pages'[i] = ps[i + d]
        /\ \A i \in 1..Len(skipped) : skipped'[i] = skipped[i]
        /\ \A i \in 1..d : skipped'[Len(skipped) + i] = ps[i].header
        /\ \A i \in 1..d : wr' - rd > CleanupAt /\ wr' - ps[i].lo > CleanupTo
  BY PushDrops
<1> HIDE DEF page, ps, q
<1>6. d \in Nat /\ d =< Len(q) /\ Len(q) \in Nat /\ d \in 0..(Len(Headers(pages)) + 1)
      /\ Len(ps) = Len(q)
  BY <1>1, <1>3, <1>4, <1>5
<1> DEFINE rest == SubSeq(q, d + 1, Len(q))
           gone == SubSeq(q, 1, d)
<1>7. /\ rest \in Seq(H) /\ Len(rest) = Len(q) - d
      /\ \A i \in 1..(Len(q) - d) : rest[i] = q[i + d]
  BY <1>4, <1>6
<1>8. gone \in Seq(H) /\ Len(gone) = d /\ \A i \in 1..d : gone[i] = q[i]
  BY <1>4, <1>6
<1> HIDE DEF rest, gone
<1>9. Headers(pages') = rest
  <2>1. Len(Headers(pages')) = Len(rest)
    BY <1>2, <1>5, <1>6, <1>7
  <2>2. ASSUME NEW i \in 1..Len(Headers(pages')) PROVE Headers(pages')[i] = rest[i]
    <3>1. /\ i \in 1..Len(pages') /\ i \in 1..(Len(q) - d) /\ i + d \in 1..Len(q)
      BY <1>2, <1>5, <1>6, <2>2
    <3> QED
      BY <1>2, <1>4, <1>5, <1>7, <3>1
  <2> QED
    BY <1>2, <1>7, <2>1, <2>2, SameSeq
<1>10. skipped' = skipped \o gone
  <2> DEFINE both == skipped \o gone
  <2>1. both \in Seq(H) /\ Len(both) = Len(skipped) + d
    BY <1>1, <1>8, ConcatAt
  <2>2. ASSUME NEW i \in 1..Len(both) PROVE both[i] = skipped'[i]
    <3>1. Len(skipped) \in Nat /\ Len(gone) = d /\ i \in 1..(Len(skipped) + d)
      BY <1>1, <1>8, <2>1
    <3>2. CASE i \in 1..Len(skipped)
      <4>1. both[i] = skipped[i]
        BY <1>1, <1>8, <3>2
      <4> QED
        BY <1>5, <3>2, <4>1
    <3>3. CASE i \notin 1..Len(skipped)
      <4>1. PICK j \in 1..d : i = Len(skipped) + j
        <5>1. i - Len(skipped) \in 1..d /\ i = Len(skipped) + (i - Len(skipped))
          BY <1>6, <3>1, <3>3
        <5> QED
          BY <5>1
      <4>2. both[Len(skipped) + j] = gone[j]
        BY <1>1, <1>8, <3>1, ConcatAt
      <4>3. j \in 1..Len(q)
        BY <1>6
      <4> QED
        BY <1>4, <1>5, <1>8, <4>1, <4>2, <4>3
    <3> QED
      BY <3>2, <3>3
  <2> HIDE DEF both
  <2>3. Len(both) = Len(skipped')
    BY <1>5, <2>1
  <2> QED
    BY <1>2, <2>1, <2>2, <2>3, SameSeq DEF both
<1> QED
  BY <1>6, <1>9, <1>10 DEF rest, gone, q

(* A take leaves all of it or nothing, and forgets the dropped headers.      *)
LEMMA TakeQueues ==
  ASSUME NEW H, RingTyped(H), NEW takeEverything \in BOOLEAN,
         TakeFailedPages, TryTakeBuf(takeEverything)
  PROVE  Headers(pages') \in {Headers(pages), <<>>} /\ skipped' = <<>>
<1>1. pages' \in {pages, <<>>} /\ skipped' = <<>>
  BY DEF TakeFailedPages, TryTakeBuf
<1>2. Headers(<<>>) = <<>>
  BY DEF Headers
<1> QED
  BY <1>1, <1>2
=============================================================================
