-------------------------- MODULE InitConfigProofs --------------------------
(***************************************************************************)
(* For any number of threads, any configurations and any order of calls    *)
(* the parts of sparkles agree on their settings, and each configuration   *)
(* is decided once.                                                        *)
(***************************************************************************)
EXTENDS InitConfig, TLAPS

USE DEF Thread, Field, Values

(* The values that the builder and the cells pass around. *)
LEMMA DefaultInConfig == Default \in Config
  BY FieldsTyped DEF Config

LEMMA LocalOfType == ASSUME NEW c \in Config PROVE LocalOf(c) \in LocalConfig
  BY DEF Config, LocalOf, LocalConfig

LEMMA WithType == ASSUME NEW c \in Config, NEW d \in With(c) PROVE d \in Config
  <1>1. PICK f \in DOMAIN Choice : \E v \in Choice[f] : d = [c EXCEPT ![f] = v]
    BY DEF With
  <1>2. PICK v \in Choice[f] : d = [c EXCEPT ![f] = v]
    BY <1>1
  <1>3. f \in Field /\ v \in Int /\ v \in Values(f)
    BY FieldsTyped
  <1>4. c \in [Field -> Int] /\ \A g \in Field : c[g] \in Values(g)
    BY DEF Config
  <1>5. d \in [Field -> Int]
    BY <1>2, <1>3, <1>4
  <1>6. ASSUME NEW g \in Field PROVE d[g] \in Values(g)
    BY <1>2, <1>3, <1>4
  <1>7. QED
    BY <1>5, <1>6 DEF Config

LEMMA TypeInit == Init => TypeOK
  BY FieldsTyped, DefaultInConfig DEF Init, TypeOK, Cell

LEMMA TypeNext == TypeOK /\ [Next]_vars => TypeOK'
  <1> SUFFICES ASSUME TypeOK, [Next]_vars PROVE TypeOK'
    OBVIOUS
  <1> USE DEF TypeOK, Cell
  <1>1. ASSUME NEW t \in App, Build(t) PROVE TypeOK'
    <2>1. PICK c \in With(config[t]) : config' = [config EXCEPT ![t] = c]
      BY <1>1 DEF Build
    <2>2. c \in Config
      BY <2>1, WithType
    <2>3. QED
      BY <1>1, <2>1, <2>2 DEF Build
  <1>2. ASSUME NEW t \in Thread, UseTracer(t) PROVE TypeOK'
    BY <1>2, DefaultInConfig, LocalOfType DEF UseTracer, GotOrInit
  <1>3. ASSUME NEW t \in App, Call(t) PROVE TypeOK'
    BY <1>3, DefaultInConfig DEF Call
  <1>4. ASSUME NEW t \in App, LockStorage(t) PROVE TypeOK'
    BY <1>4 DEF LockStorage, InsertIfNone
  <1>5. ASSUME NEW t \in App, SetLocalConfig(t) PROVE TypeOK'
    BY <1>5, LocalOfType DEF SetLocalConfig, SetBy
  <1>6. ASSUME NEW t \in App, SpawnSender(t) PROVE TypeOK'
    BY <1>6 DEF SpawnSender, ClonedConfig
  <1>7. ASSUME NEW t \in App, StoreStorage(t) PROVE TypeOK'
    BY <1>7 DEF StoreStorage
  <1>8. ASSUME NEW t \in App, Unlock(t) PROVE TypeOK'
    BY <1>8, DefaultInConfig DEF Unlock
  <1>9. CASE SetUpSenders
    BY <1>9 DEF SetUpSenders
  <1>10. CASE UNCHANGED vars
    BY <1>10 DEF vars
  <1>11. QED
    BY <1>1, <1>2, <1>3, <1>4, <1>5, <1>6, <1>7, <1>8, <1>9, <1>10 DEF Next

(* Configurations, cells and places are well formed at every step of init,   *)
(* of a flush and of a first event.                                          *)
THEOREM TypeCorrect == Spec => []TypeOK
  BY TypeInit, TypeNext, PTL DEF Spec
-----------------------------------------------------------------------------
(***************************************************************************)
(* SettingsAgree speaks of a finished GlobalStorage::new.  What makes it   *)
(* inductive is where the one thread inside of new is: the mutex keeps the *)
(* others out, and from its set on LOCAL_CONFIG holds its thresholds or    *)
(* the default ones that a TRACER put there before.                        *)
(***************************************************************************)
Locked == \A t \in App : pc[t] \in {"set", "spawn", "store", "unlock"} => lock = t

TracersAgree == \A t \in Thread : tracer[t] \in {Unset, localConfig}

LocalDecided ==
  /\ defaulted => localConfig = LocalOf(Default)
  /\ ~defaulted /\ localConfig # Unset =>
       \/ storage # Unset /\ localConfig = LocalOf(storage)
       \/ \E t \in App : pc[t] \in {"spawn", "store"} /\ localConfig = LocalOf(config[t])

NewInProgress ==
  \A t \in App :
    /\ pc[t] \in {"set", "spawn", "store"} => storage = Unset
    /\ pc[t] \in {"spawn", "store"} => localConfig # Unset
    /\ pc[t] = "store" => sender = config[t]

StorageComplete ==
  storage # Unset => sender = storage /\ localConfig # Unset

ConfigInv == Locked /\ TracersAgree /\ LocalDecided /\ NewInProgress /\ StorageComplete

LEMMA ConfigInit == Init => ConfigInv
  BY DEF Init, ConfigInv, Locked, TracersAgree, LocalDecided, NewInProgress, StorageComplete

LEMMA ConfigNext == TypeOK /\ ConfigInv /\ [Next]_vars => ConfigInv'
  <1> SUFFICES ASSUME TypeOK, ConfigInv, [Next]_vars PROVE ConfigInv'
    OBVIOUS
  <1>0. LocalOf(Default) # Unset /\ \A t \in App : LocalOf(config[t]) # Unset
    BY DefaultInConfig, LocalOfType, CellsAreTold DEF TypeOK
  <1> USE FieldsTyped, CellsAreTold
          DEF ConfigInv, Locked, TracersAgree, LocalDecided, NewInProgress, StorageComplete,
              TypeOK, Cell
  <1>1. ASSUME NEW t \in App, Build(t) PROVE ConfigInv'
    <2>1. PICK c \in With(config[t]) : config' = [config EXCEPT ![t] = c]
      BY <1>1 DEF Build
    <2>2. QED
      BY <1>1, <2>1 DEF Build
  <1>2. ASSUME NEW t \in Thread, UseTracer(t) PROVE ConfigInv'
    <2>1. localConfig' # Unset
      BY <1>2, DefaultInConfig, LocalOfType DEF UseTracer, GotOrInit
    <2>2. CASE localConfig = Unset
      BY <1>2, <2>1, <2>2 DEF UseTracer, GotOrInit
    <2>3. CASE localConfig # Unset
      BY <1>2, <2>3 DEF UseTracer, GotOrInit
    <2>4. QED
      BY <2>2, <2>3
  <1>3. ASSUME NEW t \in App, Call(t) PROVE ConfigInv'
    BY <1>3 DEF Call
  <1>4. ASSUME NEW t \in App, LockStorage(t) PROVE ConfigInv'
    BY <1>4 DEF LockStorage, InsertIfNone
  <1>5. ASSUME NEW t \in App, SetLocalConfig(t) PROVE ConfigInv'
    <2>1. storage = Unset /\ \A u \in App : pc[u] \notin {"spawn", "store"}
      BY <1>5 DEF SetLocalConfig
    <2>2. CASE localConfig = Unset
      BY <1>0, <1>5, <2>1, <2>2 DEF SetLocalConfig, SetBy
    <2>3. CASE localConfig # Unset
      BY <1>5, <2>1, <2>3 DEF SetLocalConfig, SetBy
    <2>4. QED
      BY <2>2, <2>3
  <1>6. ASSUME NEW t \in App, SpawnSender(t) PROVE ConfigInv'
    BY <1>6 DEF SpawnSender, ClonedConfig
  <1>7. ASSUME NEW t \in App, StoreStorage(t) PROVE ConfigInv'
    <2>1. \A u \in App \ {t} : pc[u] \notin {"set", "spawn", "store", "unlock"}
      BY <1>7 DEF StoreStorage
    <2>2. config[t] # Unset /\ localConfig # Unset /\ sender = config[t]
      BY <1>7 DEF StoreStorage
    <2>3. ~defaulted => localConfig = LocalOf(config[t])
      BY <1>7, <2>1, <2>2 DEF StoreStorage
    <2>4. QED
      BY <1>7, <2>1, <2>2, <2>3 DEF StoreStorage
  <1>8. ASSUME NEW t \in App, Unlock(t) PROVE ConfigInv'
    BY <1>8 DEF Unlock
  <1>9. CASE SetUpSenders
    BY <1>9 DEF SetUpSenders
  <1>10. CASE UNCHANGED vars
    BY <1>10 DEF vars
  <1>11. QED
    BY <1>1, <1>2, <1>3, <1>4, <1>5, <1>6, <1>7, <1>8, <1>9, <1>10 DEF Next

LEMMA ConfigSafe == Spec => [](TypeOK /\ ConfigInv)
  BY TypeInit, TypeNext, ConfigInit, ConfigNext, PTL DEF Spec

(* Whoever creates the storage, and whatever the others call meanwhile: ring *)
(* and sending thread have its configuration, and the threads its            *)
(* thresholds, or all of them the default ones.                              *)
THEOREM ConfigAgrees == Spec => []SettingsAgree
  <1>1. TypeOK /\ ConfigInv => SettingsAgree
    <2> SUFFICES ASSUME TypeOK, ConfigInv PROVE SettingsAgree
      OBVIOUS
    <2> USE DEF ConfigInv, TracersAgree, StorageComplete, LocalDecided, NewInProgress
    <2>1. CASE storage = Unset
      BY <2>1 DEF SettingsAgree
    <2>2. CASE storage # Unset
      <3>1. \A t \in App : pc[t] \notin {"spawn", "store"}
        BY <2>2
      <3>2. QED
        BY <2>2, <3>1 DEF SettingsAgree
    <2>3. QED
      BY <2>1, <2>2
  <1>2. QED
    BY <1>1, ConfigSafe, PTL

(* The assumption LargestPageFits of Sparkles, for every ring and every      *)
(* thread's buffer, from the same fact about the configuration alone.        *)
THEOREM PagesFit == Spec => []LargestPagesFit
  <1>1. TypeOK /\ SettingsAgree => LargestPagesFit
    <2> SUFFICES ASSUME TypeOK, SettingsAgree, storage # Unset,
                        Fits(storage, storage["thread_flush_threshold"]),
                        defaulted => Fits(storage, Default["thread_flush_threshold"]),
                        NEW t \in Thread, tracer[t] # Unset
                 PROVE  Fits(storage, tracer[t].force)
      BY DEF LargestPagesFit
    <2>1. tracer[t] = LocalOf(IF defaulted THEN Default ELSE storage)
      BY DEF SettingsAgree
    <2>2. tracer[t].force = IF defaulted THEN Default["thread_flush_threshold"]
                                         ELSE storage["thread_flush_threshold"]
      BY <2>1 DEF LocalOf
    <2>3. QED
      BY <2>2
  <1>2. QED
    BY <1>1, TypeCorrect, ConfigAgrees, PTL
-----------------------------------------------------------------------------
(* Each of the two cells implements a cell that is filled once.              *)
THEOREM CellsFilledOnce == Spec => FilledOnce
  <1>1. Init => StorageCell!Init /\ LocalCell!Init
    BY DEF Init, StorageCell!Init, LocalCell!Init
  <1>2. TypeOK /\ ConfigInv /\ [Next]_vars => [StorageCell!Fill]_storage
    <2> SUFFICES ASSUME TypeOK, ConfigInv, Next PROVE StorageCell!Fill \/ UNCHANGED storage
      BY DEF vars
    <2>1. ASSUME NEW t \in App, StoreStorage(t) PROVE StorageCell!Fill
      BY <2>1 DEF StoreStorage, StorageCell!Fill, TypeOK, ConfigInv, NewInProgress
    <2>2. QED
      BY <2>1 DEF Next, Build, Call, LockStorage, SetLocalConfig, SpawnSender, Unlock,
                  UseTracer, SetUpSenders
  <1>3. TypeOK /\ [Next]_vars => [LocalCell!Fill]_localConfig
    <2> SUFFICES ASSUME TypeOK, Next PROVE LocalCell!Fill \/ UNCHANGED localConfig
      BY DEF vars
    <2>1. ASSUME NEW t \in Thread, UseTracer(t) PROVE LocalCell!Fill \/ UNCHANGED localConfig
      BY <2>1, DefaultInConfig, LocalOfType DEF UseTracer, GotOrInit, LocalCell!Fill
    <2>2. ASSUME NEW t \in App, SetLocalConfig(t)
          PROVE  LocalCell!Fill \/ UNCHANGED localConfig
      BY <2>2, LocalOfType DEF SetLocalConfig, SetBy, LocalCell!Fill, TypeOK
    <2>3. QED
      BY <2>1, <2>2 DEF Next, Build, Call, LockStorage, SpawnSender, StoreStorage, Unlock,
                        SetUpSenders
  <1>4. QED
    BY <1>1, <1>2, <1>3, ConfigSafe, PTL
       DEF Spec, FilledOnce, StorageCell!Spec, LocalCell!Spec
=============================================================================
