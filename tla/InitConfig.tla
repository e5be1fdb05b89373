----------------------------- MODULE InitConfig -----------------------------
(***************************************************************************)
(* Which configuration each part of sparkles runs with.  There are two     *)
(* cells: GLOBAL_STORAGE, whose ring and sending thread get the            *)
(* configuration of the first init or, if a flush comes first, the         *)
(* default; and LOCAL_CONFIG, the thresholds of the threads' own buffers,  *)
(* which GlobalStorage::new fills, or else the first use of any thread's   *)
(* TRACER.  The mutex guards the first cell only.                          *)
(***************************************************************************)
EXTENDS Integers

CONSTANTS
  App,         \* the application threads
  Sender,      \* the sending thread
  NoThread,    \* the owner of a free mutex
  Unset,       \* an empty cell
  Default,     \* SparklesConfig::default(), thresholds in percent, file_sender 0 or 1
  Choice,      \* Choice[field]: what the application may set the field to
  HdrLen       \* a page's header and length fields in bytes, an upper bound

Thread == App \cup {Sender}

Field == {"global_capacity", "flush_threshold", "cleanup_threshold",
          "cleanup_bottom_threshold", "thread_flush_attempt_threshold",
          "thread_flush_threshold", "file_sender"}

(* `config.udp_sender_config` is left out: no builder function sets it. *)
ASSUME FieldsTyped ==
  /\ Sender \notin App /\ NoThread \notin Thread
  /\ Default \in [Field -> Int]
  /\ DOMAIN Choice \subseteq Field /\ \A f \in DOMAIN Choice : Choice[f] \subseteq Int

Values(field) ==
  {Default[field]} \cup (IF field \in DOMAIN Choice THEN Choice[field] ELSE {})

Config == {c \in [Field -> Int] : \A f \in Field : c[f] \in Values(f)}

(* Mutation: the two thresholds of LocalStorageConfig change places. *)
LocalSwapped(c) == [attempt |-> c["thread_flush_threshold"],
                    force   |-> c["thread_flush_attempt_threshold"]]

(* LocalStorageConfig, the part that the threads' buffers are run with. *)
LocalOf(c) == [attempt |-> c["thread_flush_attempt_threshold"],
               force   |-> c["thread_flush_threshold"]]

LocalConfig == [attempt : Values("thread_flush_attempt_threshold"),
                force   : Values("thread_flush_threshold")]

ASSUME CellsAreTold == Unset \notin Config /\ Unset \notin LocalConfig

VARIABLES
  config,       \* config[t]: what thread t builds, then what its call is given
  storage,      \* the configuration in GLOBAL_STORAGE
  localConfig,  \* LOCAL_CONFIG
  sender,       \* the configuration that the sending thread was spawned with
  chain,        \* its senders
  tracer,       \* tracer[t]: the thresholds in thread t's LocalStorage
  lock,         \* the owner of GLOBAL_STORAGE
  pc,
  defaulted     \* history: a TRACER was used when LOCAL_CONFIG was empty

vars == <<config, storage, localConfig, sender, chain, tracer, lock, pc, defaulted>>

Init ==
  /\ config = [t \in App |-> Default]
  /\ storage = Unset /\ localConfig = Unset /\ sender = Unset /\ chain = Unset
  /\ tracer = [t \in Thread |-> Unset]
  /\ lock = NoThread
  /\ pc = [t \in App |-> "run"]
  /\ defaulted = FALSE
-----------------------------------------------------------------------------
(* Mutation: a with_ function assigns the field next to its own. *)
WithMixedUp(c) ==
  UNION {{[c EXCEPT !["cleanup_threshold"] = v] : v \in Choice[f]} : f \in DOMAIN Choice}

(* One call of a with_ or without_ function: it replaces one field. *)
With(c) == UNION {{[c EXCEPT ![f] = v] : v \in Choice[f]} : f \in DOMAIN Choice}

Build(t) ==
  /\ pc[t] = "run"
  /\ config' \in {[config EXCEPT ![t] = c] : c \in With(config[t])}
  /\ UNCHANGED <<storage, localConfig, sender, chain, tracer, lock, pc, defaulted>>

(* What get_or_init returns and leaves in LOCAL_CONFIG. *)
GotOrInit == IF localConfig = Unset THEN LocalOf(Default) ELSE localConfig

(***************************************************************************)
(* The first use of a thread's TRACER: an event, set_cur_thread_name,      *)
(* flush_thread_local, or finalize, which calls it.  The sending thread    *)
(* uses its own as soon as it runs, for self-tracing and to finalize.      *)
(***************************************************************************)
UseTracer(t) ==
  /\ IF t = Sender THEN chain # Unset ELSE pc[t] = "run"
  /\ tracer[t] = Unset
  /\ localConfig' = GotOrInit
  /\ tracer' = [tracer EXCEPT ![t] = GotOrInit]
  /\ defaulted' = (defaulted \/ localConfig = Unset)
  /\ UNCHANGED <<config, storage, sender, chain, lock, pc>>

(* init(config), init_default(), or a flush of the thread's buffer. *)
Call(t) ==
  /\ pc[t] = "run"
  /\ config' \in {config, [config EXCEPT ![t] = Default]}
  /\ pc' = [pc EXCEPT ![t] = "lock"]
  /\ UNCHANGED <<storage, localConfig, sender, chain, tracer, lock, defaulted>>

(* get_or_insert_with calls GlobalStorage::new only if there is no storage. *)
InsertIfNone == IF storage = Unset THEN "set" ELSE "unlock"

LockStorage(t) ==
  /\ pc[t] = "lock" /\ lock = NoThread
  /\ lock' = t
  /\ pc' = [pc EXCEPT ![t] = InsertIfNone]
  /\ UNCHANGED <<config, storage, localConfig, sender, chain, tracer, defaulted>>

(* Mutation: LOCAL_CONFIG is overwritten. *)
OverwrittenBy(local) == local

(* LOCAL_CONFIG after set, which fails on a cell that is filled. *)
SetBy(local) == IF localConfig = Unset THEN local ELSE localConfig

SetLocalConfig(t) ==
  /\ pc[t] = "set"
  /\ localConfig' = SetBy(LocalOf(config[t]))
  /\ pc' = [pc EXCEPT ![t] = "spawn"]
  /\ UNCHANGED <<config, storage, sender, chain, tracer, lock, defaulted>>

(* Mutation: the sending thread gets the default configuration. *)
DefaultConfig(t) == Default

ClonedConfig(t) == config[t]

SpawnSender(t) ==
  /\ pc[t] = "spawn"
  /\ sender' = ClonedConfig(t)
  /\ pc' = [pc EXCEPT ![t] = "store"]
  /\ UNCHANGED <<config, storage, localConfig, chain, tracer, lock, defaulted>>

StoreStorage(t) ==
  /\ pc[t] = "store"
  /\ storage' = config[t]
  /\ pc' = [pc EXCEPT ![t] = "unlock"]
  /\ UNCHANGED <<config, localConfig, sender, chain, tracer, lock, defaulted>>

(* The call has consumed its configuration, the thread may build another. *)
Unlock(t) ==
  /\ pc[t] = "unlock"
  /\ lock' = NoThread
  /\ pc' = [pc EXCEPT ![t] = "run"]
  /\ config' = [config EXCEPT ![t] = Default]
  /\ UNCHANGED <<storage, localConfig, sender, chain, tracer, defaulted>>

(* The sending thread makes its chain; FileSender::new may fail. *)
SetUpSenders ==
  /\ sender # Unset /\ chain = Unset
  /\ chain' \in IF sender["file_sender"] = 1 THEN {{"file"}, {}} ELSE {{}}
  /\ UNCHANGED <<config, storage, localConfig, sender, tracer, lock, pc, defaulted>>

Next ==
  \/ \E t \in App :
       \/ Build(t) \/ Call(t) \/ LockStorage(t) \/ SetLocalConfig(t)
       \/ SpawnSender(t) \/ StoreStorage(t) \/ Unlock(t)
  \/ \E t \in Thread : UseTracer(t)
  \/ SetUpSenders

Spec == Init /\ [][Next]_vars
-----------------------------------------------------------------------------
Cell(S) == S \cup {Unset}

(* The configurations, cells, owner and places of the threads are well       *)
(* formed; what the builder makes has every field within its values.         *)
TypeOK ==
  /\ config \in [App -> Config]
  /\ storage \in Cell(Config) /\ sender \in Cell(Config)
  /\ localConfig \in Cell(LocalConfig)
  /\ chain \in {Unset, {}, {"file"}}
  /\ tracer \in [Thread -> Cell(LocalConfig)]
  /\ lock \in App \cup {NoThread}
  /\ pc \in [App -> {"run", "lock", "set", "spawn", "store", "unlock"}]
  /\ defaulted \in BOOLEAN

(***************************************************************************)
(* Once there is a storage, its ring and its sending thread have one       *)
(* configuration, and all threads flush by its thresholds, whoever created *)
(* it and whatever other configurations were given since.  The exception   *)
(* is a TRACER that was used before or during GlobalStorage::new: then all *)
(* threads, without exception, flush by the default thresholds.            *)
(***************************************************************************)
SettingsAgree ==
  /\ storage # Unset =>
       /\ sender = storage
       /\ localConfig = LocalOf(IF defaulted THEN Default ELSE storage)
  /\ \A t \in Thread : tracer[t] \in {Unset, localConfig}

(* The ring takes the largest page a thread flushes on top of the bytes      *)
(* that do not start a cleanup.                                              *)
Fits(c, force) ==
  (c["cleanup_threshold"] * c["global_capacity"]) \div 100 + HdrLen + force
    =< c["global_capacity"]

(***************************************************************************)
(* What the modules GlobalStorage and Sparkles assume of their constants,  *)
(* LargestPageFits, holds of each thread's buffer and the ring if it holds *)
(* of the configuration that came first - and, where a TRACER was used too *)
(* early, of its ring with the default buffers.                            *)
(***************************************************************************)
LargestPagesFit ==
  storage # Unset /\ Fits(storage, storage["thread_flush_threshold"])
    /\ (defaulted => Fits(storage, Default["thread_flush_threshold"]))
  => \A t \in Thread : tracer[t] # Unset => Fits(storage, tracer[t].force)

StorageCell == INSTANCE Once WITH cell <- storage, Value <- Config
LocalCell == INSTANCE Once WITH cell <- localConfig, Value <- LocalConfig

(* GLOBAL_STORAGE's and LOCAL_CONFIG's configurations are each decided once: *)
(* a later init, flush or use of a TRACER does not change them.              *)
FilledOnce == StorageCell!Spec /\ LocalCell!Spec
=============================================================================
