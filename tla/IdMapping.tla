----------------------------- MODULE IdMapping -----------------------------
(***************************************************************************)
(* The tags of one thread: IdMappingState of                               *)
(* sparkles-core/src/local_storage/id_mapping.rs, which gives each pair of *)
(* a name and an event type a one-byte id, and the calls of LocalStorage   *)
(* that use it.  The hash table is open-addressed with linear probing; its *)
(* keys are 32-bit hashes of the names, plus the offset of the event type. *)
(*                                                                         *)
(* The table has as many slots as a u8 has values.  MapSize is both, so a  *)
(* small one keeps the coincidences that the code relies on.               *)
(***************************************************************************)
EXTENDS Integers, Sequences

CONSTANTS
  Name,            \* the names that the application uses
  HashOf,          \* HashOf[name]: calculate_hash, a u32
  MapSize,         \* slots of U32U8Map and values of a u8, 256 in the code
  U32,             \* values of a u32, 2^32 in the code
  Multiplier,      \* the constant that U32U8Map::hash multiplies by
  NoKey            \* an empty slot

ASSUME MapTyped ==
  /\ MapSize \in Nat \ {0} /\ U32 \in Nat \ {0} /\ Multiplier \in Nat
  /\ HashOf \in [Name -> 0..(U32 - 1)]
  /\ NoKey \notin Nat

VARIABLES
  keys,      \* id_map.keys
  values,    \* id_map.values
  last_id,
  tags,      \* tags_store.tags
  panicked,  \* a call has panicked, and the thread unwinds
  overflowChecks,  \* whether the build checks arithmetic for overflow
  refused,   \* history: the tag at which a call has panicked, if one has
  started,   \* history: the guards handed out, as start id and name
  issued     \* history: the events encoded, as id and what was meant

mapVars == <<keys, values, last_id, tags, panicked, refused>>
vars == <<mapVars, overflowChecks, started, issued>>

Slots == 0..(MapSize - 1)
Id    == 0..(MapSize - 1)
NoStart == MapSize

(* A tag: a name and an EventType, RangeEnd with the id of its start. *)
Instant(name)         == [name |-> name, type |-> "Instant", start |-> NoStart]
RangeStart(name)      == [name |-> name, type |-> "RangeStart", start |-> NoStart]
RangeEnd(name, start) == [name |-> name, type |-> "RangeEnd", start |-> start]

Tag == [name : Name, type : {"Instant", "RangeStart", "RangeEnd"},
        start : 0..MapSize]

Init ==
  /\ keys = [s \in Slots |-> NoKey]
  /\ values = [s \in Slots |-> 0]
  /\ last_id = 0
  /\ tags = <<>>
  /\ panicked = FALSE
  /\ refused = {}
  /\ overflowChecks \in BOOLEAN
  /\ started = {}
  /\ issued = {}
-----------------------------------------------------------------------------
(* Mutation: a range start and a range end share their keys. *)
SharedOffset(type) == IF type = "Instant" THEN 0 ELSE 1

(* EventType::get_offs. *)
get_offs(type) ==
  CASE type = "Instant" -> 0 [] type = "RangeStart" -> 1 [] OTHER -> 2

SumOf(tag)  == HashOf[tag.name] + get_offs(tag.type)
KeyOf(tag) == SumOf(tag) % U32

(* U32U8Map::hash, and the slot that is looked at after d others. *)
hash(key)    == (key * Multiplier) % MapSize
Slot(key, d) == (hash(key) + d) % MapSize

(* Mutation: a probe looks at the first two slots only. *)
StopsEarly(key, d) ==
  /\ keys[Slot(key, d)] \in {key, NoKey}
  /\ d =< 1
  /\ \A e \in 0..(d - 1) : keys[Slot(key, e)] \notin {key, NoKey}

(* A probe for key ends after d slots: at the key, or at an empty slot. *)
StopsAt(key, d) ==
  /\ keys[Slot(key, d)] \in {key, NoKey}
  /\ \A e \in 0..(d - 1) : keys[Slot(key, e)] \notin {key, NoKey}

(* get returns Some(id). *)
Finds(key, id) ==
  \E d \in Slots : /\ StopsAt(key, d)
                   /\ keys[Slot(key, d)] = key
                   /\ values[Slot(key, d)] = id

(* get returns None. *)
Misses(key) == \A id \in Id : ~Finds(key, id)

(* Mutation: insert takes the last empty slot that it comes by. *)
InsertsAtLastFree(key, d) ==
  /\ keys[Slot(key, d)] = NoKey
  /\ \A e \in (d + 1)..(MapSize - 1) : keys[Slot(key, e)] # NoKey

(* insert takes the slot at which get gave up. *)
InsertsAt(key, d) == StopsAt(key, d)

HasRoom(key) == \E d \in Slots : InsertsAt(key, d)

(* Mutation: the id is counted in a wider integer. *)
NextIdWider == last_id + 1

(* last_id += 1, where it does not panic. *)
NextId == (last_id + 1) % MapSize

(* Mutation: the tag is not pushed, the id is that of the tag before. *)
PushesNoTag(tag) == tags' = tags

PushTag(tag) == tags' = Append(tags, tag)

(* The None branch: a new id, a new slot and a new tag. *)
InsertNew(key, tag) ==
  /\ last_id' = NextId
  /\ \E d \in Slots :
       /\ InsertsAt(key, d)
       /\ keys' = [keys EXCEPT ![Slot(key, d)] = key]
       /\ values' = [values EXCEPT ![Slot(key, d)] = last_id]
  /\ PushTag(tag)
  /\ UNCHANGED <<panicked, refused>>

(* Where insert_and_get_id panics: two checked additions and the unwrap. *)
HashOverflows(tag) == overflowChecks /\ SumOf(tag) >= U32
IdOverflows        == overflowChecks /\ last_id = MapSize - 1

Panics(tag) ==
  \/ HashOverflows(tag)
  \/ Misses(KeyOf(tag)) /\ (IdOverflows \/ ~HasRoom(KeyOf(tag)))

(* insert_and_get_id returns id. *)
insert_and_get_id(tag, id) ==
  /\ ~panicked /\ ~Panics(tag)
  /\ \/ Finds(KeyOf(tag), id) /\ UNCHANGED mapVars
     \/ Misses(KeyOf(tag)) /\ id = last_id /\ InsertNew(KeyOf(tag), tag)

(* insert_and_get_id panics; the unwrap does so after last_id += 1. *)
GetIdPanics(tag) ==
  /\ ~panicked /\ Panics(tag)
  /\ panicked' = TRUE
  /\ refused' = {tag}
  /\ last_id' = IF HashOverflows(tag) \/ IdOverflows THEN last_id ELSE NextId
  /\ UNCHANGED <<keys, values, tags>>

(* The event with this id goes into the buffer; from is the range's name. *)
Encode(id, tag, from) ==
  issued' = issued \cup {[id |-> id, name |-> tag.name, type |-> tag.type,
                          from |-> from]}
-----------------------------------------------------------------------------
event_instant(name) ==
  LET tag == Instant(name)
  IN
  /\ \/ \E id \in Id : insert_and_get_id(tag, id) /\ Encode(id, tag, name)
     \/ GetIdPanics(tag) /\ UNCHANGED issued
  /\ UNCHANGED started

event_range_start(name) ==
  LET tag == RangeStart(name)
  IN
  \/ \E id \in Id : /\ insert_and_get_id(tag, id)
                    /\ Encode(id, tag, name)
                    /\ started' = started \cup {[id |-> id, name |-> name]}
  \/ GetIdPanics(tag) /\ UNCHANGED <<started, issued>>

(***************************************************************************)
(* A range is ended under a name of its own.  A name whose hash is zero is *)
(* taken for no name; such an end, like a dropped guard, has no tag.  The  *)
(* guard stays in started: its like may be handed out again at any time    *)
(* without a change to the table.                                          *)
(***************************************************************************)
event_range_end(guard, name) ==
  LET tag == RangeEnd(name, guard.id)
  IN
  /\ HashOf[name] # 0
  /\ \/ \E id \in Id : insert_and_get_id(tag, id) /\ Encode(id, tag, guard.name)
     \/ GetIdPanics(tag) /\ UNCHANGED issued
  /\ UNCHANGED started

(* The thread has unwound. *)
Unwound == panicked /\ UNCHANGED vars

Next ==
  /\ \/ \E name \in Name : event_instant(name) \/ event_range_start(name)
     \/ \E guard \in started, name \in Name : event_range_end(guard, name)
     \/ Unwound
  /\ UNCHANGED overflowChecks

Spec == Init /\ [][Next]_vars
-----------------------------------------------------------------------------
(* Every variable has its type. *)
TypeOK ==
  /\ keys \in [Slots -> Nat \cup {NoKey}]
  /\ values \in [Slots -> Id]
  /\ last_id \in Id
  /\ tags \in Seq(Tag)
  /\ refused \subseteq Tag
  /\ panicked \in BOOLEAN /\ overflowChecks \in BOOLEAN
  /\ started \subseteq [id : Id, name : Name]
  /\ issued \subseteq [id : Id, name : Name, from : Name,
                       type : {"Instant", "RangeStart", "RangeEnd"}]

(***************************************************************************)
(* The condition on the hashes under which a tag is known by its key: 32   *)
(* bits tell the names apart, and no hash is one or two above another.     *)
(***************************************************************************)
HashesApart ==
  \A n, m \in Name : \A i, j \in 0..2 :
    (HashOf[n] + i) % U32 = (HashOf[m] + j) % U32 => n = m /\ i = j

(***************************************************************************)
(* Wherever the probing of insert has put a key, the probing of get finds  *)
(* it again, and no key is in two slots: a known tag never gets a second   *)
(* id, however the table has filled up.                                    *)
(***************************************************************************)
KeysAreFound ==
  /\ \A s \in Slots : keys[s] # NoKey => Finds(keys[s], values[s])
  /\ \A s, r \in Slots : keys[s] = keys[r] /\ keys[s] # NoKey => s = r

(***************************************************************************)
(* An id is the index of its tag: the table holds, for each tag that has   *)
(* been pushed, its key with its index, and nothing else, also when        *)
(* last_id has wrapped around.                                             *)
(***************************************************************************)
IdsIndexTags ==
  /\ \A i \in 1..Len(tags) : Finds(KeyOf(tags[i]), i - 1)
  /\ \A s \in Slots : keys[s] # NoKey => values[s] < Len(tags)

(***************************************************************************)
(* The parser shows each event under the name and the type it was recorded *)
(* with: pages carry the tags, and tags[id] is what the call meant, for    *)
(* events recorded long ago too.                                           *)
(***************************************************************************)
EventsKeepTheirNames ==
  \A e \in issued : /\ e.id < Len(tags)
                    /\ tags[e.id + 1].name = e.name
                    /\ tags[e.id + 1].type = e.type

(***************************************************************************)
(* The id of a range's start is "required to create potentially new end    *)
(* event", so that the parser can show a range under both of its names.    *)
(***************************************************************************)
RangesKeepTheirNames ==
  \A e \in issued :
    e.type = "RangeEnd" => tags[tags[e.id + 1].start + 1].name = e.from

(***************************************************************************)
(* A thread can use "256 id variants": a call panics at a tag that is not  *)
(* in the table, when as many are as there are ids; in a build that checks *)
(* for overflow, when one id is left.  Such a build also panics at a tag   *)
(* whose own hash is so large that the offset of its event type cannot be  *)
(* added, and at no other.                                                 *)
(***************************************************************************)
PanicsOnlyWhenFull ==
  panicked =>
    \E tag \in refused :
      \/ overflowChecks /\ SumOf(tag) >= U32
      \/ /\ \A i \in 1..Len(tags) : KeyOf(tags[i]) # KeyOf(tag)
         /\ Len(tags) = IF overflowChecks THEN MapSize - 1 ELSE MapSize
=============================================================================
