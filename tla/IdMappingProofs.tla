-------------------------- MODULE IdMappingProofs --------------------------
(***************************************************************************)
(* Proofs about the id mapping, for tables of any size, any names and any  *)
(* hashes, in builds that check for overflow and in builds that do not.    *)
(*                                                                         *)
(* The probe invariant is Reached: a key lies where a probe for it passes  *)
(* only slots of other keys.  It makes a key be found and be unique.  The  *)
(* ids rest on counting: each tag has its slot and each slot its tag, so   *)
(* that a table with room has not used all the values of last_id.          *)
(***************************************************************************)
EXTENDS IdMapping, FiniteSetTheorems, WellFoundedInduction, TLAPS

LEMMA SlotTyped ==
  ASSUME NEW key \in Nat, NEW d \in Nat
  PROVE  Slot(key, d) \in Slots
<1>1. MapSize \in Nat \ {0} /\ Multiplier \in Nat
  BY MapTyped
<1>2. hash(key) \in Nat
  BY <1>1 DEF hash
<1> QED
  BY <1>1, <1>2 DEF Slot, Slots

LEMMA KeyTyped ==
  ASSUME NEW tag \in Tag
  PROVE  KeyOf(tag) \in Nat /\ KeyOf(tag) # NoKey
<1>1. U32 \in Nat \ {0} /\ HashOf \in [Name -> 0..(U32 - 1)] /\ NoKey \notin Nat
  BY MapTyped
<1>2. SumOf(tag) \in Nat
  BY <1>1 DEF SumOf, get_offs, Tag
<1>3. KeyOf(tag) \in Nat
  BY <1>1, <1>2 DEF KeyOf
<1> QED
  BY <1>1, <1>3

Reached(key, s) ==
  \E d \in Slots : /\ Slot(key, d) = s
                   /\ \A e \in 0..(d - 1) : keys[Slot(key, e)] \notin {key, NoKey}

ProbeInv == \A s \in Slots : keys[s] # NoKey => Reached(keys[s], s)

(* What insert_and_get_id can be for the table. *)
InsertsTag(tag) ==
  /\ ~panicked /\ ~Panics(tag)
  /\ Misses(KeyOf(tag)) /\ InsertNew(KeyOf(tag), tag)

LEMMA TagsTyped ==
  ASSUME TypeOK, NEW name \in Name, NEW start \in Id
  PROVE  /\ Instant(name) \in Tag /\ RangeStart(name) \in Tag
         /\ RangeEnd(name, start) \in Tag
  BY MapTyped DEF Instant, RangeStart, RangeEnd, NoStart, Tag, Id

(* What a step does to the table. *)
Keeps == /\ UNCHANGED <<keys, values, tags>>
         /\ panicked' = TRUE \/ UNCHANGED <<last_id, panicked>>

LEMMA MapKinds ==
  ASSUME TypeOK, [Next]_vars
  PROVE  Keeps \/ \E tag \in Tag : InsertsTag(tag)
<1>1. ASSUME NEW tag \in Tag, NEW id, insert_and_get_id(tag, id)
      PROVE  Keeps \/ InsertsTag(tag)
  BY <1>1 DEF insert_and_get_id, InsertsTag, mapVars, Keeps
<1>2. ASSUME NEW tag \in Tag, GetIdPanics(tag)
      PROVE  Keeps
  BY <1>2 DEF GetIdPanics, Keeps
<1>3. ASSUME NEW name \in Name, event_instant(name) \/ event_range_start(name)
      PROVE  Keeps \/ \E tag \in Tag : InsertsTag(tag)
  <2>1. Instant(name) \in Tag /\ RangeStart(name) \in Tag
    BY MapTyped DEF Instant, RangeStart, NoStart, Tag
  <2> QED
    BY <1>1, <1>2, <1>3, <2>1 DEF event_instant, event_range_start
<1>4. ASSUME NEW guard \in started, NEW name \in Name, event_range_end(guard, name)
      PROVE  Keeps \/ \E tag \in Tag : InsertsTag(tag)
  <2>1. RangeEnd(name, guard.id) \in Tag
    BY TagsTyped DEF TypeOK
  <2> QED
    BY <1>1, <1>2, <1>4, <2>1 DEF event_range_end
<1>5. ASSUME UNCHANGED vars
      PROVE  Keeps
  BY <1>5 DEF vars, mapVars, Keeps
<1> QED
  BY <1>3, <1>4, <1>5 DEF Next, Unwound
-----------------------------------------------------------------------------
(* A probe that misses ends at an empty slot, if it ends. *)
LEMMA MissIsEmpty ==
  ASSUME TypeOK, NEW key \in Nat, Misses(key), NEW d \in Slots, InsertsAt(key, d)
  PROVE  Slot(key, d) \in Slots /\ keys[Slot(key, d)] = NoKey
<1>1. Slot(key, d) \in Slots
  BY SlotTyped DEF Slots
<1>2. values[Slot(key, d)] \in Id
  BY <1>1 DEF TypeOK
<1>3. keys[Slot(key, d)] # key
  BY <1>2 DEF Misses, Finds, InsertsAt
<1> QED
  BY <1>1, <1>3 DEF InsertsAt, StopsAt

LEMMA ProbeNext ==
  ASSUME TypeOK, ProbeInv, [Next]_vars
  PROVE  ProbeInv'
<1>1. CASE Keeps
  BY <1>1 DEF Keeps, ProbeInv, Reached
<1>2. ASSUME NEW tag \in Tag, InsertsTag(tag)
      PROVE  ProbeInv'
  <2> DEFINE key == KeyOf(tag)
  <2>1. key \in Nat /\ key # NoKey
    BY KeyTyped
  <2> HIDE DEF key
  <2>2. PICK d \in Slots : /\ InsertsAt(key, d)
                          /\ keys' = [keys EXCEPT ![Slot(key, d)] = key]
    BY <1>2 DEF InsertsTag, InsertNew, key
  <2> DEFINE new == Slot(key, d)
  <2>3. new \in Slots /\ keys[new] = NoKey
    BY <1>2, <2>1, <2>2, MissIsEmpty DEF InsertsTag, key
  <2>4. \A s \in Slots : keys'[s] = IF s = new THEN key ELSE keys[s]
    BY <2>2 DEF TypeOK
  <2>5. ASSUME NEW e \in 0..(d - 1) PROVE Slot(key, e) \in Slots
    <3>1. e \in Nat
      BY DEF Slots
    <3> QED
      BY <2>1, <3>1, SlotTyped
  <2> SUFFICES ASSUME NEW s \in Slots, keys'[s] # NoKey
               PROVE  \E c \in Slots :
                        /\ Slot(keys'[s], c) = s
                        /\ \A e \in 0..(c - 1) :
                             keys'[Slot(keys'[s], e)] \notin {keys'[s], NoKey}
    BY DEF ProbeInv, Reached
  <2>6. CASE s = new
    <3>1. \A e \in 0..(d - 1) : keys[Slot(key, e)] \notin {key, NoKey}
      BY <2>2 DEF InsertsAt, StopsAt
    <3>2. \A e \in 0..(d - 1) : keys'[Slot(key, e)] \notin {key, NoKey}
      BY <2>3, <2>4, <2>5, <3>1
    <3>3. keys'[s] = key /\ Slot(key, d) = s
      BY <2>4, <2>6
    <3> QED
      BY <3>2, <3>3
  <2>7. CASE s # new
    <3>1. keys'[s] = keys[s] /\ keys[s] # NoKey /\ keys[s] \in Nat
      BY <2>4, <2>7 DEF TypeOK
    <3>2. PICK c \in Slots :
            /\ Slot(keys[s], c) = s
            /\ \A e \in 0..(c - 1) : keys[Slot(keys[s], e)] \notin {keys[s], NoKey}
      BY <3>1 DEF ProbeInv, Reached
    <3>3. ASSUME NEW e \in 0..(c - 1) PROVE Slot(keys[s], e) \in Slots
      <4>1. e \in Nat
        BY DEF Slots
      <4> QED
        BY <3>1, <4>1, SlotTyped
    <3>4. \A e \in 0..(c - 1) : keys'[Slot(keys[s], e)] \notin {keys[s], NoKey}
      BY <2>3, <2>4, <3>2, <3>3
    <3> QED
      BY <3>1, <3>2, <3>4
  <2> QED
    BY <2>6, <2>7
<1> QED
  BY <1>1, <1>2, MapKinds

(* get returns the value that is stored with the key. *)
LEMMA FoundIsStored ==
  ASSUME TypeOK, ProbeInv, NEW s \in Slots, keys[s] # NoKey
  PROVE  Finds(keys[s], values[s])
<1>1. PICK d \in Slots :
        /\ Slot(keys[s], d) = s
        /\ \A e \in 0..(d - 1) : keys[Slot(keys[s], e)] \notin {keys[s], NoKey}
  BY DEF ProbeInv, Reached
<1> QED
  BY <1>1 DEF Finds, StopsAt

LEMMA KeyIsUnique ==
  ASSUME TypeOK, ProbeInv, NEW s \in Slots, NEW r \in Slots,
         keys[s] = keys[r], keys[s] # NoKey
  PROVE  s = r
<1>1. PICK d \in Slots :
        /\ Slot(keys[s], d) = s
        /\ \A e \in 0..(d - 1) : keys[Slot(keys[s], e)] \notin {keys[s], NoKey}
  BY DEF ProbeInv, Reached
<1>2. PICK c \in Slots :
        /\ Slot(keys[s], c) = r
        /\ \A e \in 0..(c - 1) : keys[Slot(keys[s], e)] \notin {keys[s], NoKey}
  BY DEF ProbeInv, Reached
<1>3. d \in Nat /\ c \in Nat
  BY DEF Slots
<1>4. ~(d < c) /\ ~(c < d)
  BY <1>1, <1>2, <1>3
<1>5. d = c
  BY <1>3, <1>4
<1> QED
  BY <1>1, <1>2, <1>5
-----------------------------------------------------------------------------
LEMMA SizeTyped == MapSize \in Nat \ {0} /\ Slots = 0..(MapSize - 1) /\ Id = Slots
  BY MapTyped DEF Slots, Id

LEMMA InitTyped == Init => TypeOK /\ ProbeInv
<1> SUFFICES ASSUME Init PROVE TypeOK /\ ProbeInv
  OBVIOUS
<1>1. /\ keys = [s \in Slots |-> NoKey] /\ values = [s \in Slots |-> 0]
      /\ last_id = 0 /\ tags = <<>> /\ started = {} /\ issued = {}
  BY DEF Init
<1>2. panicked \in BOOLEAN /\ overflowChecks \in BOOLEAN /\ refused \subseteq Tag
  BY DEF Init
<1>3. 0 \in Id
  BY SizeTyped
<1> QED
  BY <1>1, <1>2, <1>3 DEF TypeOK, ProbeInv

(* The events and the guards that a call hands out. *)
LEMMA HistoryTyped ==
  ASSUME TypeOK, [Next]_vars
  PROVE  /\ started' \subseteq [id : Id, name : Name]
         /\ issued' \subseteq [id : Id, name : Name, from : Name,
                              type : {"Instant", "RangeStart", "RangeEnd"}]
<1> USE DEF TypeOK
<1>1. ASSUME NEW name \in Name, event_instant(name) \/ event_range_start(name)
      PROVE  /\ started' \subseteq [id : Id, name : Name]
             /\ issued' \subseteq [id : Id, name : Name, from : Name,
                                  type : {"Instant", "RangeStart", "RangeEnd"}]
  BY <1>1 DEF event_instant, event_range_start, Encode, Instant, RangeStart
<1>2. ASSUME NEW guard \in started, NEW name \in Name, event_range_end(guard, name)
      PROVE  /\ started' \subseteq [id : Id, name : Name]
             /\ issued' \subseteq [id : Id, name : Name, from : Name,
                                  type : {"Instant", "RangeStart", "RangeEnd"}]
  BY <1>2 DEF event_range_end, Encode, RangeEnd
<1> QED
  BY <1>1, <1>2 DEF Next, Unwound, vars

(* The counter and the flag. *)
LEMMA CounterKinds ==
  ASSUME [Next]_vars
  PROVE  last_id' \in {last_id, NextId} /\ panicked' \in {panicked, TRUE}
<1>1. ASSUME NEW tag, NEW id, insert_and_get_id(tag, id) \/ GetIdPanics(tag)
      PROVE  last_id' \in {last_id, NextId} /\ panicked' \in {panicked, TRUE}
  BY <1>1 DEF insert_and_get_id, InsertNew, GetIdPanics, mapVars
<1> QED
  BY <1>1 DEF Next, event_instant, event_range_start, event_range_end, Unwound,
              vars, mapVars

(* The tag of a call that panics. *)
LEMMA RefusedTyped ==
  ASSUME TypeOK, [Next]_vars
  PROVE  refused' \subseteq Tag
<1>0. refused \subseteq Tag
  BY DEF TypeOK
<1>1. ASSUME NEW tag \in Tag, NEW id, insert_and_get_id(tag, id) \/ GetIdPanics(tag)
      PROVE  refused' \subseteq Tag
  BY <1>0, <1>1 DEF insert_and_get_id, InsertNew, GetIdPanics, mapVars
<1>2. ASSUME NEW name \in Name, event_instant(name) \/ event_range_start(name)
      PROVE  refused' \subseteq Tag
  <2>1. Instant(name) \in Tag /\ RangeStart(name) \in Tag
    BY MapTyped DEF Instant, RangeStart, NoStart, Tag
  <2> QED
    BY <1>1, <1>2, <2>1 DEF event_instant, event_range_start
<1>3. ASSUME NEW guard \in started, NEW name \in Name, event_range_end(guard, name)
      PROVE  refused' \subseteq Tag
  <2>1. RangeEnd(name, guard.id) \in Tag
    BY TagsTyped DEF TypeOK
  <2> QED
    BY <1>1, <1>3, <2>1 DEF event_range_end
<1>4. CASE UNCHANGED vars
  BY <1>0, <1>4 DEF vars, mapVars
<1> QED
  BY <1>2, <1>3, <1>4 DEF Next, Unwound

LEMMA NextTyped ==
  ASSUME TypeOK, [Next]_vars
  PROVE  TypeOK'
<1>1. last_id' \in Id
  <2>1. NextId \in Id
    BY SizeTyped DEF NextId, TypeOK
  <2> QED
    BY <2>1, CounterKinds DEF TypeOK
<1>2. panicked' \in BOOLEAN /\ overflowChecks' \in BOOLEAN
  BY CounterKinds DEF TypeOK, Next, vars
<1>3. /\ keys' \in [Slots -> Nat \cup {NoKey}]
      /\ values' \in [Slots -> Id]
      /\ tags' \in Seq(Tag)
  <2>1. ASSUME NEW tag \in Tag, InsertsTag(tag)
        PROVE  /\ keys' \in [Slots -> Nat \cup {NoKey}]
               /\ values' \in [Slots -> Id]
               /\ tags' \in Seq(Tag)
    <3>1. KeyOf(tag) \in Nat
      BY KeyTyped
    <3>2. PICK d \in Slots :
            /\ keys' = [keys EXCEPT ![Slot(KeyOf(tag), d)] = KeyOf(tag)]
            /\ values' = [values EXCEPT ![Slot(KeyOf(tag), d)] = last_id]
      BY <2>1 DEF InsertsTag, InsertNew
    <3>3. keys' \in [Slots -> Nat \cup {NoKey}]
      BY <3>1, <3>2 DEF TypeOK
    <3>4. values' \in [Slots -> Id]
      BY <3>2 DEF TypeOK
    <3>5. tags' = Append(tags, tag)
      BY <2>1 DEF InsertsTag, InsertNew, PushTag
    <3>6. tags \in Seq(Tag)
      BY DEF TypeOK
    <3>7. tags' \in Seq(Tag)
      BY <3>5, <3>6
    <3> QED
      BY <3>3, <3>4, <3>7
  <2> QED
    BY <2>1, MapKinds DEF Keeps, TypeOK
<1> QED
  BY <1>1, <1>2, <1>3, HistoryTyped, RefusedTyped DEF TypeOK

(* Every variable has its type: ids and values stay bytes. *)
THEOREM TypeCorrect == Spec => []TypeOK
<1>1. TypeOK /\ [Next]_vars => TypeOK'
  BY NextTyped
<1>2. Init => TypeOK
  BY InitTyped
<1> QED
  BY <1>1, <1>2, PTL DEF Spec

(***************************************************************************)
(* Linear probing is right: get finds every key that insert has stored,    *)
(* with the id it was stored with, and stores none twice, whatever the     *)
(* hashes and however full the table.                                      *)
(***************************************************************************)
THEOREM LookupCorrect == Spec => []KeysAreFound
<1>1. Init => TypeOK /\ ProbeInv
  BY InitTyped
<1>2. TypeOK /\ ProbeInv /\ [Next]_vars => TypeOK' /\ ProbeInv'
  BY NextTyped, ProbeNext
<1>3. TypeOK /\ ProbeInv => KeysAreFound
  BY FoundIsStored, KeyIsUnique DEF KeysAreFound
<1> QED
  BY <1>1, <1>2, <1>3, PTL DEF Spec
-----------------------------------------------------------------------------
(***************************************************************************)
(* Ids and tags.  Every tag has a slot with its key and its index; every   *)
(* slot in use belongs to a tag.  There are as many of the ones as of the  *)
(* others, so that as long as there is an empty slot last_id has not       *)
(* wrapped around and is the index of the next tag.                        *)
(***************************************************************************)
Used == {s \in Slots : keys[s] # NoKey}

SlotsHaveTags ==
  \A s \in Slots : keys[s] # NoKey =>
    values[s] < Len(tags) /\ keys[s] = KeyOf(tags[values[s] + 1])

TagsHaveSlots ==
  \A i \in 1..Len(tags) : \E s \in Slots :
    keys[s] = KeyOf(tags[i]) /\ values[s] = i - 1

Counted ==
  /\ Cardinality(Used) = Len(tags)
  /\ ~panicked => last_id = IF Len(tags) = MapSize THEN 0 ELSE Len(tags)

TagInv == SlotsHaveTags /\ TagsHaveSlots /\ Counted

LEMMA UsedFinite ==
  IsFiniteSet(Slots) /\ IsFiniteSet(Used) /\ Cardinality(Slots) = MapSize
<1>1. MapSize \in Nat \ {0} /\ Slots = 0..(MapSize - 1)
  BY SizeTyped
<1>2. IsFiniteSet(Slots) /\ Cardinality(Slots) = (MapSize - 1) - 0 + 1
  BY <1>1, FS_Interval
<1>3. IsFiniteSet(Used)
  BY <1>2, FS_Subset DEF Used
<1> QED
  BY <1>1, <1>2, <1>3

(* A table with an empty slot has fewer tags than slots. *)
LEMMA RoomLeft ==
  ASSUME TypeOK, Counted, NEW s \in Slots, keys[s] = NoKey
  PROVE  Len(tags) < MapSize
<1>1. Used \subseteq Slots /\ Used # Slots
  BY DEF Used
<1>2. Cardinality(Used) \in Nat /\ Cardinality(Slots) \in Nat
  BY UsedFinite, FS_CardinalityType
<1>3. Used \in SUBSET Slots
  BY <1>1
<1>4. Cardinality(Used) =< Cardinality(Slots) /\ Cardinality(Used) # Cardinality(Slots)
  BY <1>1, <1>3, UsedFinite, FS_Subset
<1> QED
  BY <1>2, <1>4, UsedFinite DEF Counted

LEMMA TagsInsert ==
  ASSUME TypeOK, TagInv, NEW tag \in Tag, InsertsTag(tag)
  PROVE  /\ last_id = Len(tags) /\ tags' = Append(tags, tag)
         /\ TagInv'
<1> DEFINE key == KeyOf(tag)
<1>1. key \in Nat /\ key # NoKey
  BY KeyTyped
<1> HIDE DEF key
<1>2. PICK d \in Slots :
        /\ InsertsAt(key, d)
        /\ keys' = [keys EXCEPT ![Slot(key, d)] = key]
        /\ values' = [values EXCEPT ![Slot(key, d)] = last_id]
  BY DEF InsertsTag, InsertNew, key
<1> DEFINE new == Slot(key, d)
<1>3. new \in Slots /\ keys[new] = NoKey
  BY <1>1, <1>2, MissIsEmpty DEF InsertsTag, key
<1>4. \A s \in Slots : /\ keys'[s] = IF s = new THEN key ELSE keys[s]
                       /\ values'[s] = IF s = new THEN last_id ELSE values[s]
  BY <1>2 DEF TypeOK
<1> HIDE DEF new
<1>5. tags' = Append(tags, tag) /\ tags \in Seq(Tag) /\ Len(tags) \in Nat
  BY DEF InsertsTag, InsertNew, PushTag, TypeOK
<1>6. Len(tags) < MapSize /\ MapSize \in Nat
  BY <1>3, RoomLeft, SizeTyped DEF TagInv
<1>7. last_id = Len(tags)
  <2>1. ~panicked
    BY DEF InsertsTag
  <2> QED
    BY <2>1, <1>5, <1>6 DEF TagInv, Counted
<1>8. /\ Len(tags') = Len(tags) + 1 /\ tags'[Len(tags) + 1] = tag
      /\ \A i \in 1..Len(tags) : tags'[i] = tags[i]
  BY <1>5
<1>9. SlotsHaveTags'
  <2> SUFFICES ASSUME NEW s \in Slots, keys'[s] # NoKey
               PROVE  values'[s] < Len(tags') /\ keys'[s] = KeyOf(tags'[values'[s] + 1])
    BY DEF SlotsHaveTags, KeyOf, SumOf
  <2>1. CASE s = new
    BY <2>1, <1>4, <1>5, <1>7, <1>8 DEF key
  <2>2. CASE s # new
    <3>1. keys'[s] = keys[s] /\ values'[s] = values[s] /\ keys[s] # NoKey
      BY <2>2, <1>4
    <3>2. values[s] < Len(tags) /\ keys[s] = KeyOf(tags[values[s] + 1])
      BY <3>1 DEF TagInv, SlotsHaveTags
    <3>3. values[s] \in Nat
      BY SizeTyped DEF TypeOK
    <3>4. tags'[values[s] + 1] = tags[values[s] + 1]
      BY <3>2, <3>3, <1>5, <1>8
    <3> QED
      BY <3>1, <3>2, <3>3, <3>4, <1>5, <1>8
  <2> QED
    BY <2>1, <2>2
<1>10. TagsHaveSlots'
  <2> SUFFICES ASSUME NEW i \in 1..Len(tags')
               PROVE  \E s \in Slots : keys'[s] = KeyOf(tags'[i]) /\ values'[s] = i - 1
    BY DEF TagsHaveSlots, KeyOf, SumOf
  <2>1. CASE i = Len(tags) + 1
    BY <2>1, <1>3, <1>4, <1>5, <1>7, <1>8 DEF key
  <2>2. CASE i \in 1..Len(tags)
    <3>1. PICK s \in Slots : keys[s] = KeyOf(tags[i]) /\ values[s] = i - 1
      BY <2>2 DEF TagInv, TagsHaveSlots
    <3>2. tags[i] \in Tag
      BY <2>2, <1>5
    <3>3. s # new
      BY <3>1, <3>2, <1>3, KeyTyped
    <3> QED
      BY <3>1, <3>3, <2>2, <1>4, <1>8
  <2>3. i = Len(tags) + 1 \/ i \in 1..Len(tags)
    BY <1>5, <1>8
  <2> QED
    BY <2>1, <2>2, <2>3
<1>11. Counted'
  <2>1. Used' = Used \cup {new} /\ new \notin Used
    BY <1>1, <1>3, <1>4 DEF Used
  <2>2. Cardinality(Used') = Cardinality(Used) + 1
    BY <2>1, UsedFinite, FS_AddElement
  <2>3. Cardinality(Used') = Len(tags')
    BY <2>2, <1>8 DEF TagInv, Counted
  <2>4. last_id' = (Len(tags) + 1) % MapSize
    BY <1>7 DEF InsertsTag, InsertNew, NextId
  <2>5. last_id' = IF Len(tags') = MapSize THEN 0 ELSE Len(tags')
    BY <2>4, <1>5, <1>6, <1>8
  <2> QED
    BY <2>3, <2>5 DEF Counted
<1> QED
  BY <1>5, <1>7, <1>9, <1>10, <1>11 DEF TagInv

LEMMA TagNext ==
  ASSUME TypeOK, TagInv, [Next]_vars
  PROVE  TagInv'
<1>1. CASE Keeps
  <2>1. SlotsHaveTags' /\ TagsHaveSlots'
    BY <1>1 DEF Keeps, TagInv, SlotsHaveTags, TagsHaveSlots, KeyOf, SumOf
  <2>2. Cardinality(Used') = Len(tags')
    BY <1>1 DEF Keeps, TagInv, Counted, Used
  <2>3. ~panicked' => last_id' = IF Len(tags') = MapSize THEN 0 ELSE Len(tags')
    BY <1>1 DEF Keeps, TagInv, Counted
  <2> QED
    BY <2>1, <2>2, <2>3 DEF TagInv, Counted
<1>2. ASSUME NEW tag \in Tag, InsertsTag(tag)
      PROVE  TagInv'
  BY <1>2, TagsInsert
<1> QED
  BY <1>1, <1>2, MapKinds

LEMMA TagInit == Init => TagInv
<1> SUFFICES ASSUME Init PROVE TagInv
  OBVIOUS
<1>1. keys = [s \in Slots |-> NoKey] /\ last_id = 0 /\ tags = <<>>
  BY DEF Init
<1>2. Used = {} /\ Len(tags) = 0 /\ MapSize # 0
  BY <1>1, SizeTyped DEF Used
<1>3. Cardinality(Used) = 0
  BY <1>2, FS_EmptySet
<1> QED
  BY <1>1, <1>2, <1>3 DEF TagInv, SlotsHaveTags, TagsHaveSlots, Counted

LEMMA IdsFound ==
  ASSUME TypeOK, ProbeInv, TagInv
  PROVE  IdsIndexTags
<1>1. ASSUME NEW i \in 1..Len(tags)
      PROVE  Finds(KeyOf(tags[i]), i - 1)
  <2>1. PICK s \in Slots : keys[s] = KeyOf(tags[i]) /\ values[s] = i - 1
    BY DEF TagInv, TagsHaveSlots
  <2>2. tags[i] \in Tag
    BY DEF TypeOK
  <2>3. keys[s] # NoKey
    BY <2>1, <2>2, KeyTyped
  <2> QED
    BY <2>1, <2>3, FoundIsStored
<1>2. \A s \in Slots : keys[s] # NoKey => values[s] < Len(tags)
  BY DEF TagInv, SlotsHaveTags
<1> QED
  BY <1>1, <1>2 DEF IdsIndexTags

(***************************************************************************)
(* An id is the index of its tag: each tag can be looked up under its own  *)
(* index, and no slot holds an index that has no tag.                      *)
(***************************************************************************)
THEOREM IdsCorrect == Spec => []IdsIndexTags
<1>1. Init => TypeOK /\ ProbeInv /\ TagInv
  BY InitTyped, TagInit
<1>2. TypeOK /\ ProbeInv /\ TagInv /\ [Next]_vars => TypeOK' /\ ProbeInv' /\ TagInv'
  BY NextTyped, ProbeNext, TagNext
<1>3. TypeOK /\ ProbeInv /\ TagInv => IdsIndexTags
  BY IdsFound
<1> QED
  BY <1>1, <1>2, <1>3, PTL DEF Spec
-----------------------------------------------------------------------------
(***************************************************************************)
(* Names.  The id that a call gets is that of a tag with its key, and the  *)
(* keys of different tags differ under HashesApart.                        *)
(***************************************************************************)
IssuesEvent ==
  \E tag \in Tag, id \in Id : \E from \in Name :
    insert_and_get_id(tag, id) /\ Encode(id, tag, from)

LEMMA IssuedKinds ==
  ASSUME TypeOK, [Next]_vars
  PROVE  UNCHANGED issued \/ IssuesEvent
<1>1. ASSUME NEW name \in Name, event_instant(name) \/ event_range_start(name)
      PROVE  UNCHANGED issued \/ IssuesEvent
  <2>1. Instant(name) \in Tag /\ RangeStart(name) \in Tag
    BY MapTyped DEF Instant, RangeStart, NoStart, Tag
  <2> QED
    BY <1>1, <2>1 DEF event_instant, event_range_start, IssuesEvent
<1>2. ASSUME NEW guard \in started, NEW name \in Name, event_range_end(guard, name)
      PROVE  UNCHANGED issued \/ IssuesEvent
  <2>1. RangeEnd(name, guard.id) \in Tag /\ guard.name \in Name
    BY TagsTyped DEF TypeOK
  <2> QED
    BY <1>2, <2>1 DEF event_range_end, IssuesEvent
<1> QED
  BY <1>1, <1>2 DEF Next, Unwound, vars

LEMMA KeysTellTags ==
  ASSUME HashesApart, NEW tag \in Tag, NEW other \in Tag, KeyOf(tag) = KeyOf(other)
  PROVE  tag.name = other.name /\ tag.type = other.type
<1>1. /\ tag.name \in Name /\ other.name \in Name
      /\ tag.type \in {"Instant", "RangeStart", "RangeEnd"}
      /\ other.type \in {"Instant", "RangeStart", "RangeEnd"}
  BY DEF Tag
<1>2. get_offs(tag.type) \in 0..2 /\ get_offs(other.type) \in 0..2
  BY <1>1 DEF get_offs
<1>3. tag.name = other.name /\ get_offs(tag.type) = get_offs(other.type)
  BY <1>1, <1>2 DEF HashesApart, KeyOf, SumOf
<1> QED
  BY <1>1, <1>3 DEF get_offs

(* insert_and_get_id returns the index of a tag of this name and type. *)
LEMMA IdNamesTag ==
  ASSUME TypeOK, ProbeInv, TagInv, HashesApart,
         NEW tag \in Tag, NEW id \in Id, insert_and_get_id(tag, id)
  PROVE  /\ id < Len(tags')
         /\ tags'[id + 1].name = tag.name /\ tags'[id + 1].type = tag.type
<1>1. ASSUME Finds(KeyOf(tag), id), UNCHANGED mapVars
      PROVE  /\ id < Len(tags')
             /\ tags'[id + 1].name = tag.name /\ tags'[id + 1].type = tag.type
  <2>1. KeyOf(tag) \in Nat /\ KeyOf(tag) # NoKey
    BY KeyTyped
  <2>2. PICK s \in Slots : keys[s] = KeyOf(tag) /\ values[s] = id
    <3>1. PICK d \in Slots : /\ keys[Slot(KeyOf(tag), d)] = KeyOf(tag)
                            /\ values[Slot(KeyOf(tag), d)] = id
      BY <1>1 DEF Finds
    <3>2. d \in Nat
      BY DEF Slots
    <3> QED
      BY <2>1, <3>1, <3>2, SlotTyped
  <2>3. id < Len(tags) /\ KeyOf(tags[id + 1]) = KeyOf(tag)
    BY <2>1, <2>2 DEF TagInv, SlotsHaveTags
  <2>4. id \in Nat /\ tags \in Seq(Tag)
    BY SizeTyped DEF TypeOK
  <2>5. tags[id + 1] \in Tag
    BY <2>3, <2>4
  <2>6. tags[id + 1].name = tag.name /\ tags[id + 1].type = tag.type
    BY <2>3, <2>5, KeysTellTags
  <2>7. tags' = tags
    BY <1>1 DEF mapVars
  <2> QED
    BY <2>3, <2>6, <2>7
<1>2. ASSUME InsertsTag(tag), id = last_id
      PROVE  /\ id < Len(tags')
             /\ tags'[id + 1].name = tag.name /\ tags'[id + 1].type = tag.type
  <2>1. id = Len(tags) /\ tags' = Append(tags, tag)
    BY <1>2, TagsInsert
  <2>2. tags \in Seq(Tag)
    BY DEF TypeOK
  <2>3. Len(tags') = Len(tags) + 1 /\ tags'[Len(tags) + 1] = tag /\ Len(tags) \in Nat
    BY <2>1, <2>2
  <2> QED
    BY <2>1, <2>3
<1> QED
  BY <1>1, <1>2 DEF insert_and_get_id, InsertsTag

LEMMA NamesNext ==
  ASSUME TypeOK, ProbeInv, TagInv, HashesApart, EventsKeepTheirNames, [Next]_vars
  PROVE  EventsKeepTheirNames'
<1>1. ASSUME NEW e \in issued
      PROVE  /\ e.id < Len(tags')
             /\ tags'[e.id + 1].name = e.name /\ tags'[e.id + 1].type = e.type
  <2>1. e.id \in Nat
    BY SizeTyped DEF TypeOK
  <2>2. /\ e.id < Len(tags)
        /\ tags[e.id + 1].name = e.name /\ tags[e.id + 1].type = e.type
    BY DEF EventsKeepTheirNames
  <2>3. tags \in Seq(Tag)
    BY DEF TypeOK
  <2>4. CASE Keeps
    BY <2>2, <2>4 DEF Keeps
  <2>5. ASSUME NEW tag \in Tag, InsertsTag(tag)
        PROVE  e.id < Len(tags') /\ tags'[e.id + 1] = tags[e.id + 1]
    <3>1. tags' = Append(tags, tag)
      BY <2>5, TagsInsert
    <3> QED
      BY <2>1, <2>2, <2>3, <3>1
  <2> QED
    BY <2>2, <2>4, <2>5, MapKinds
<1>2. ASSUME IssuesEvent, NEW e \in issued', e \notin issued
      PROVE  /\ e.id < Len(tags')
             /\ tags'[e.id + 1].name = e.name /\ tags'[e.id + 1].type = e.type
  <2>1. PICK tag \in Tag, id \in Id : \E from \in Name :
          insert_and_get_id(tag, id) /\ Encode(id, tag, from)
    BY <1>2 DEF IssuesEvent
  <2>2. e.id = id /\ e.name = tag.name /\ e.type = tag.type
    BY <1>2, <2>1 DEF Encode
  <2> QED
    BY <2>1, <2>2, IdNamesTag
<1> QED
  BY <1>1, <1>2, IssuedKinds DEF EventsKeepTheirNames

(***************************************************************************)
(* An event is shown under the name and type it was recorded with, if the  *)
(* hashes of the names are apart.                                          *)
(***************************************************************************)
THEOREM NamesCorrect ==
  ASSUME HashesApart
  PROVE  Spec => []EventsKeepTheirNames
<1>1. Init => TypeOK /\ ProbeInv /\ TagInv /\ EventsKeepTheirNames
  <2>1. Init => EventsKeepTheirNames
    BY DEF Init, EventsKeepTheirNames
  <2> QED
    BY <2>1, InitTyped, TagInit
<1>2. TypeOK /\ ProbeInv /\ TagInv /\ EventsKeepTheirNames /\ [Next]_vars
        => TypeOK' /\ ProbeInv' /\ TagInv' /\ EventsKeepTheirNames'
  BY NextTyped, ProbeNext, TagNext, NamesNext
<1> QED
  BY <1>1, <1>2, PTL DEF Spec
-----------------------------------------------------------------------------
(* A set of numbers that is not empty has a least one.                       *)
LEMMA LeastOf ==
  ASSUME NEW T, T \subseteq Nat, T # {}
  PROVE  \E x \in T : \A y \in T : ~(y < x)
<1>1. PICK R : R = OpToRel(<, Nat)
  BY Zenon
<1>2. IsWellFoundedOn(R, Nat)
  BY <1>1, NatLessThanWellFounded, Zenon
<1>3. PICK x \in T : \A y \in T : ~(<<y, x>> \in R)
  BY <1>2, WFMin, Zenon
<1>4. R = {ss \in Nat \X Nat : ss[1] < ss[2]}
  BY <1>1 DEF OpToRel
<1>5. ASSUME NEW y \in T PROVE ~(y < x)
  <2>1. y \in Nat /\ x \in Nat /\ <<y, x>> \in Nat \X Nat
    OBVIOUS
  <2>2. <<y, x>> \notin R
    BY <1>3
  <2>3. <<y, x>>[1] = y /\ <<y, x>>[2] = x
    OBVIOUS
  <2> QED
    BY <1>4, <2>1, <2>2, <2>3
<1> QED
  BY <1>5

(* A number below m, and the same number one turn on.                        *)
LEMMA ModTwice ==
  ASSUME NEW m \in Nat \ {0}, NEW s \in 0..(m - 1)
  PROVE  s % m = s /\ (s + m) % m = s
  OBVIOUS

(* Some probe comes by each slot.                                            *)
LEMMA ProbesAllSlots ==
  ASSUME NEW key \in Nat, NEW s \in Slots
  PROVE  \E d \in Slots : Slot(key, d) = s
<1>1. PICK m, h : m = MapSize /\ h = hash(key)
  OBVIOUS
<1>2. m \in Nat \ {0} /\ h \in 0..(m - 1) /\ s \in 0..(m - 1) /\ Slots = 0..(m - 1)
  BY <1>1, MapTyped DEF hash, Slots
<1>3. CASE h =< s
  <2>1. s - h \in Slots /\ h + (s - h) = s
    BY <1>2, <1>3
  <2>2. Slot(key, s - h) = s
    BY <1>1, <1>2, <2>1, ModTwice DEF Slot
  <2> QED
    BY <2>1, <2>2
<1>4. CASE s < h
  <2>1. s - h + m \in Slots /\ h + (s - h + m) = s + m
    BY <1>2, <1>4
  <2>2. Slot(key, s - h + m) = s
    BY <1>1, <1>2, <2>1, ModTwice DEF Slot
  <2> QED
    BY <2>1, <2>2
<1> QED
  BY <1>2, <1>3, <1>4

(* insert gives up only a table without an empty slot.                       *)
LEMMA NoRoomIsFull ==
  ASSUME TypeOK, TagInv, NEW key \in Nat, ~HasRoom(key)
  PROVE  Len(tags) = MapSize
<1>1. ASSUME NEW s \in Slots, keys[s] = NoKey
      PROVE  FALSE
  <2>1. PICK T : T = {d \in Slots : keys[Slot(key, d)] \in {key, NoKey}}
    OBVIOUS
  <2>2. T \subseteq Nat /\ T # {}
    <3>1. Slots \subseteq Nat
      BY SizeTyped
    <3>2. PICK d \in Slots : Slot(key, d) = s
      BY ProbesAllSlots
    <3>3. d \in T
      BY <1>1, <2>1, <3>2
    <3> QED
      BY <2>1, <3>1, <3>3
  <2>3. PICK d \in T : \A e \in T : ~(e < d)
    BY <2>2, LeastOf
  <2>4. d \in Slots /\ d \in Nat /\ keys[Slot(key, d)] \in {key, NoKey}
    BY <2>1, <2>2, <2>3
  <2>5. ASSUME NEW e \in 0..(d - 1) PROVE keys[Slot(key, e)] \notin {key, NoKey}
    <3>1. e \in Slots /\ e < d
      BY <2>4, SizeTyped
    <3> QED
      BY <2>1, <2>3, <3>1
  <2>6. StopsAt(key, d)
    BY <2>4, <2>5 DEF StopsAt
  <2> QED
    BY <2>4, <2>6 DEF HasRoom, InsertsAt
<1>2. Used = Slots
  BY <1>1 DEF Used
<1> QED
  BY <1>2, UsedFinite DEF TagInv, Counted
-----------------------------------------------------------------------------
(* A build that checks for overflow never gives out the last id.             *)
LastIdLeft == overflowChecks => Len(tags) < MapSize

LEMMA LastIdNext ==
  ASSUME TypeOK, TagInv, LastIdLeft, [Next]_vars
  PROVE  LastIdLeft'
<1>0. overflowChecks' = overflowChecks
  BY DEF Next, vars
<1>1. CASE Keeps
  BY <1>0, <1>1 DEF Keeps, LastIdLeft
<1>2. ASSUME NEW tag \in Tag, InsertsTag(tag), overflowChecks
      PROVE  Len(tags') < MapSize
  <2>1. last_id # MapSize - 1
    BY <1>2 DEF InsertsTag, Panics, IdOverflows
  <2>2. Len(tags) < MapSize /\ Len(tags) \in Nat /\ MapSize \in Nat
    BY <1>2, SizeTyped DEF LastIdLeft, TypeOK
  <2>3. last_id = Len(tags)
    BY <1>2, <2>2 DEF InsertsTag, TagInv, Counted
  <2>4. Len(tags') = Len(tags) + 1
    BY <1>2 DEF InsertsTag, InsertNew, PushTag, TypeOK
  <2> QED
    BY <2>1, <2>2, <2>3, <2>4
<1> QED
  BY <1>0, <1>1, <1>2, MapKinds DEF LastIdLeft

(* A tag that is in the table is found.                                      *)
LEMMA MissIsNew ==
  ASSUME TypeOK, ProbeInv, TagInv, NEW key, Misses(key), NEW i \in 1..Len(tags)
  PROVE  KeyOf(tags[i]) # key
<1>1. Finds(KeyOf(tags[i]), i - 1)
  BY IdsFound DEF IdsIndexTags
<1>2. PICK s \in Slots : keys[s] = KeyOf(tags[i]) /\ values[s] = i - 1
  BY DEF TagInv, TagsHaveSlots
<1>3. i - 1 \in Id
  BY <1>2 DEF TypeOK
<1> QED
  BY <1>1, <1>3 DEF Misses

(* A call panics for one of three reasons, and each tells how full it is.    *)
LEMMA PanicNext ==
  ASSUME TypeOK, ProbeInv, TagInv, LastIdLeft, PanicsOnlyWhenFull, [Next]_vars
  PROVE  PanicsOnlyWhenFull'
<1> USE DEF PanicsOnlyWhenFull
<1>0. overflowChecks' = overflowChecks
  BY DEF Next, vars
<1>1. CASE panicked
  <2>1. UNCHANGED <<panicked, refused, tags>>
    BY <1>1 DEF Next, vars, mapVars, Unwound, event_instant, event_range_start, event_range_end,
       insert_and_get_id, GetIdPanics
  <2> QED
    BY <1>0, <1>1, <2>1 DEF KeyOf, SumOf
<1>2. ASSUME NEW tag \in Tag, GetIdPanics(tag)
      PROVE  PanicsOnlyWhenFull'
  <2>1. tags' = tags /\ ~panicked /\ Panics(tag) /\ tag \in refused'
    BY <1>2 DEF GetIdPanics
  <2>2. MapSize \in Nat \ {0} /\ Len(tags) \in Nat /\ KeyOf(tag) \in Nat
    BY SizeTyped, KeyTyped DEF TypeOK
  <2>3. CASE HashOverflows(tag)
    BY <1>0, <2>1, <2>3 DEF HashOverflows, SumOf
  <2>4. CASE Misses(KeyOf(tag)) /\ (IdOverflows \/ ~HasRoom(KeyOf(tag)))
    <3>1. \A i \in 1..Len(tags) : KeyOf(tags[i]) # KeyOf(tag)
      BY <2>4, MissIsNew
    <3>2. Len(tags) = IF overflowChecks THEN MapSize - 1 ELSE MapSize
      <4>1. CASE IdOverflows
        <5>1. overflowChecks /\ last_id = MapSize - 1
          BY <4>1 DEF IdOverflows
        <5>2. last_id = IF Len(tags) = MapSize THEN 0 ELSE Len(tags)
          BY <2>1 DEF TagInv, Counted
        <5> QED
          BY <2>2, <5>1, <5>2 DEF LastIdLeft
      <4>2. CASE ~HasRoom(KeyOf(tag))
        <5>1. Len(tags) = MapSize
          BY <2>2, <4>2, NoRoomIsFull
        <5> QED
          BY <2>2, <5>1 DEF LastIdLeft
      <4> QED
        BY <2>4, <4>1, <4>2
    <3> QED
      BY <1>0, <2>1, <3>1, <3>2 DEF KeyOf, SumOf
  <2> QED
    BY <2>1, <2>3, <2>4 DEF Panics
<1>3. CASE ~panicked /\ ~panicked'
  BY <1>3
<1>4. CASE ~panicked /\ panicked'
  <2>1. \A name \in Name : Instant(name) \in Tag /\ RangeStart(name) \in Tag
    BY MapTyped DEF Instant, RangeStart, NoStart, Tag
  <2>2. \A guard \in started, name \in Name : RangeEnd(name, guard.id) \in Tag
    BY TagsTyped DEF TypeOK
  <2>3. \A tag, id : insert_and_get_id(tag, id) => panicked' = panicked
    BY DEF insert_and_get_id, InsertNew, mapVars
  <2>4. \E tag \in Tag : GetIdPanics(tag)
    BY <1>4, <2>1, <2>2, <2>3 DEF Next, vars, mapVars, Unwound, event_instant, event_range_start,
       event_range_end
  <2> QED
    BY <1>2, <2>4
<1> QED
  BY <1>1, <1>3, <1>4

(***************************************************************************)
(* A thread panics in the tag table only at a tag that it has no id for,   *)
(* when all the ids are given out, or one less in a build that checks for  *)
(* overflow, or in such a build at a tag whose own hash is too large for   *)
(* the offset: for any hashes and any size of the table.                   *)
(***************************************************************************)
THEOREM PanicsCorrect == Spec => []PanicsOnlyWhenFull
<1>1. Init => TypeOK /\ ProbeInv /\ TagInv /\ LastIdLeft /\ PanicsOnlyWhenFull
  <2>1. Init => PanicsOnlyWhenFull
    BY DEF Init, PanicsOnlyWhenFull
  <2>2. Init => LastIdLeft
    BY SizeTyped DEF Init, LastIdLeft
  <2> QED
    BY <2>1, <2>2, InitTyped, TagInit
<1>2. TypeOK /\ ProbeInv /\ TagInv /\ LastIdLeft /\ PanicsOnlyWhenFull /\ [Next]_vars
        => TypeOK' /\ ProbeInv' /\ TagInv' /\ LastIdLeft' /\ PanicsOnlyWhenFull'
  BY NextTyped, ProbeNext, TagNext, LastIdNext, PanicNext
<1> QED
  BY <1>1, <1>2, PTL DEF Spec
-----------------------------------------------------------------------------
(* What a probe finds is what its key's slot holds, and the other way.       *)
LEMMA FoundAt ==
  ASSUME TypeOK, NEW key \in Nat, NEW id \in Id, Finds(key, id)
  PROVE  \E s \in Slots : keys[s] = key /\ values[s] = id /\ key # NoKey
<1>1. PICK d \in Slots : keys[Slot(key, d)] = key /\ values[Slot(key, d)] = id
  BY DEF Finds
<1>2. Slot(key, d) \in Slots
  <2>1. d \in Nat
    BY DEF Slots
  <2> QED
    BY <2>1, SlotTyped
<1>3. key # NoKey
  BY MapTyped
<1> QED
  BY <1>1, <1>2, <1>3

(* No slot in use is written again. *)
LEMMA SlotsStay ==
  ASSUME TypeOK, [Next]_vars, NEW s \in Slots, keys[s] # NoKey
  PROVE  keys'[s] = keys[s] /\ values'[s] = values[s]
<1>1. CASE Keeps
  BY <1>1 DEF Keeps
<1>2. ASSUME NEW tag \in Tag, InsertsTag(tag)
      PROVE  keys'[s] = keys[s] /\ values'[s] = values[s]
  <2> DEFINE key == KeyOf(tag)
  <2>1. key \in Nat
    BY KeyTyped
  <2> HIDE DEF key
  <2>2. PICK d \in Slots : /\ InsertsAt(key, d)
                          /\ keys' = [keys EXCEPT ![Slot(key, d)] = key]
                          /\ values' = [values EXCEPT ![Slot(key, d)] = last_id]
    BY <1>2 DEF InsertsTag, InsertNew, key
  <2>3. keys[Slot(key, d)] = NoKey
    BY <1>2, <2>1, <2>2, MissIsEmpty DEF InsertsTag, key
  <2> QED
    BY <2>2, <2>3 DEF TypeOK
<1> QED
  BY <1>1, <1>2, MapKinds

(***************************************************************************)
(* insert_and_get_id gives a name one id, and the same again for as long   *)
(* as the thread lives: of what the table holds, nothing is ever found     *)
(* twice, overwritten or hidden behind a later key, also when last_id has  *)
(* wrapped around and when a call has panicked.                            *)
(***************************************************************************)
THEOREM IdsStay ==
  Spec => /\ [](\A key \in Nat : \A i, j \in Id : Finds(key, i) /\ Finds(key, j) => i = j)
          /\ [][\A key \in Nat : \A id \in Id : Finds(key, id) => Finds(key, id)']_vars
<1>1. Init => TypeOK /\ ProbeInv
  BY InitTyped
<1>2. TypeOK /\ ProbeInv /\ [Next]_vars => TypeOK' /\ ProbeInv'
  BY NextTyped, ProbeNext
<1>3. TypeOK /\ ProbeInv
        => \A key \in Nat : \A i, j \in Id : Finds(key, i) /\ Finds(key, j) => i = j
  <2> SUFFICES ASSUME TypeOK, ProbeInv, NEW key \in Nat, NEW i \in Id, NEW j \in Id,
                      Finds(key, i), Finds(key, j)
               PROVE  i = j
    OBVIOUS
  <2>1. PICK s \in Slots : keys[s] = key /\ values[s] = i /\ key # NoKey
    BY FoundAt
  <2>2. PICK r \in Slots : keys[r] = key /\ values[r] = j
    BY FoundAt
  <2> QED
    BY <2>1, <2>2, KeyIsUnique
<1>4. TypeOK /\ ProbeInv /\ [Next]_vars /\ TypeOK' /\ ProbeInv'
        => [\A key \in Nat : \A id \in Id : Finds(key, id) => Finds(key, id)']_vars
  <2> SUFFICES ASSUME TypeOK, ProbeInv, [Next]_vars, TypeOK', ProbeInv',
                      NEW key \in Nat, NEW id \in Id, Finds(key, id)
               PROVE  Finds(key, id)'
    OBVIOUS
  <2>1. PICK s \in Slots : keys[s] = key /\ values[s] = id /\ key # NoKey
    BY FoundAt
  <2>2. keys'[s] = key /\ values'[s] = id
    BY <2>1, SlotsStay
  <2>3. PICK d \in Slots :
          /\ Slot(keys'[s], d) = s
          /\ \A e \in 0..(d - 1) : keys'[Slot(keys'[s], e)] \notin {keys'[s], NoKey}
    BY <2>1, <2>2 DEF ProbeInv, Reached
  <2> QED
    BY <2>2, <2>3 DEF Finds, StopsAt
<1> QED
  BY <1>1, <1>2, <1>3, <1>4, PTL DEF Spec
=============================================================================
