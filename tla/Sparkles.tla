------------------------------ MODULE Sparkles ------------------------------
(***************************************************************************)
(* The capture pipeline of the sparkles crate.  Application threads record *)
(* events into their thread-local buffers (LocalStorage) and flush them as *)
(* pages into the global storage; the sending thread takes the pages out   *)
(* and sends them as packets; finalize makes it send what is left and      *)
(* joins it.  The parties share the mutex GLOBAL_STORAGE and the atomics   *)
(* FINALIZE_STARTED and GLOBAL_FLUSHING_RUNNING.                           *)
(*                                                                         *)
(* The events of a thread are numbered; each takes one unit of its buffer. *)
(* A page header is the thread and the numbers of its first and last       *)
(* event, which stand for start_timestamp and end_timestamp.               *)
(*                                                                         *)
(* pc[t] is where a thread is in its own program and op[t] where it is in  *)
(* the flush that its LocalStorage is carrying out inside that program.    *)
(***************************************************************************)
EXTENDS GlobalStorage, FiniteSets

CONSTANTS
  App,           \* the application threads
  Sender,        \* the sending thread
  NoThread,      \* the owner of a free mutex
  LocalAttempt,  \* flush_attempt_threshold of LocalStorageConfig
  LocalForce,    \* flush_threshold of LocalStorageConfig
  SelfTracing,   \* the crate feature self-tracing
  SendMayFail,   \* whether a sender's unwrap may panic on an I/O error
  Finalizers,    \* the application threads that call finalize
  MaxEvents,     \* bound: events recorded by each application thread
  MaxSelf,       \* bound: events the sending thread records of itself
  MaxFreq        \* bound: frequency packets in the stream

Thread == App \cup {Sender}

ASSUME ThreadsDiffer ==
  /\ Sender \notin App /\ NoThread \notin Thread
  /\ Finalizers \subseteq App

ASSUME SettingsTyped ==
  /\ LocalAttempt \in Nat \ {0} /\ LocalForce \in Nat \ {0}
  /\ SelfTracing \in BOOLEAN /\ SendMayFail \in BOOLEAN
  /\ MaxEvents \in [App -> Nat] /\ MaxSelf \in Nat /\ MaxFreq \in Nat

(***************************************************************************)
(* The largest page, an event buffer at its flush threshold, fits above    *)
(* the cleanup threshold.  The default configuration meets this: 1 MiB and *)
(* a header go above 0.9 of 50 MiB.                                        *)
(***************************************************************************)
ASSUME LargestPageFits == CleanupAt + HdrLen + LocalForce =< Capacity

VARIABLES
  created,          \* GLOBAL_STORAGE is Some
  handle,           \* its sending_thread is Some
  lock,             \* the owner of GLOBAL_STORAGE
  flushing,         \* GLOBAL_FLUSHING_RUNNING
  finalizeStarted,  \* FINALIZE_STARTED
  recorded,         \* recorded[t]: events thread t has recorded
  flushed,          \* flushed[t]: those that have left its buffer
  pc,
  op,
  isFinalizing,     \* the sending thread's local copy of FINALIZE_STARTED
  taken,            \* headers of the pages it has taken and not sent
  failed,           \* dropped headers it has taken and not sent
  stream,           \* the packets it has sent
  due               \* history: flushed when FINALIZE_STARTED was first set

sharedVars == <<created, handle, lock, flushing, finalizeStarted>>
localVars  == <<recorded, flushed, pc, op>>
senderVars == <<isFinalizing, taken, failed, stream>>
vars == <<storageVars, sharedVars, localVars, senderVars, due>>

PcState ==
  {"none", "run", "initLock", "initCS", "finStore", "finLock", "finTake",
   "join", "after", "start", "sleep", "load", "lock", "take", "unlock",
   "unflag", "data", "sendData", "sent", "failed", "end", "exit", "gone"}

OpState == {"ready", "try", "wait", "push"}

(* A page has events of one thread, at least one. *)
Header == {h \in [thread : Thread, first : Nat, last : Nat] : h.first =< h.last}
Packet == [type : {"info", "data", "failed", "freq", "end"},
           headers : Seq(Header)]

Init ==
  /\ StorageInit
  /\ created = FALSE /\ handle = FALSE
  /\ lock = NoThread
  /\ flushing = FALSE
  /\ finalizeStarted = FALSE
  /\ recorded = [t \in Thread |-> 0]
  /\ flushed = [t \in Thread |-> 0]
  /\ pc = [t \in Thread |-> IF t = Sender THEN "none" ELSE "run"]
  /\ op = [t \in Thread |-> "ready"]
  /\ isFinalizing = FALSE
  /\ taken = <<>> /\ failed = <<>> /\ stream = <<>>
  /\ due = [t \in Thread |-> 0]
-----------------------------------------------------------------------------
(***************************************************************************)
(* LocalStorage: recording and flushing, for whichever thread does it.     *)
(***************************************************************************)
Buffered(t) == recorded[t] - flushed[t]

(* Mutation: a buffer at its limit is given up when the mutex is busy. *)
AutoFlushNeverForced(len, busy) ==
  IF len >= LocalAttempt /\ ~busy THEN "try" ELSE "ready"

(***************************************************************************)
(* auto_flush for a buffer of length len: what the thread does next.  busy *)
(* is GLOBAL_FLUSHING_RUNNING as is_buf_available reads it.                *)
(***************************************************************************)
AutoFlush(len, busy) ==
  CASE len >= LocalForce -> "wait"
    [] len < LocalForce /\ len >= LocalAttempt /\ ~busy -> "try"
    [] OTHER -> "ready"

(* event_instant and the range events: push the event, then auto_flush. *)
RecordEvent(t, busy) ==
  /\ recorded' = [recorded EXCEPT ![t] = @ + 1]
  /\ op' = [op EXCEPT ![t] = AutoFlush(Buffered(t) + 1, busy)]

(* Mutation: an empty buffer is flushed too. *)
FlushEmptyToo(t) == op' = [op EXCEPT ![t] = "wait"]

(* flush(true), which ignores an empty buffer. *)
FlushForced(t) ==
  op' = [op EXCEPT ![t] = IF Buffered(t) = 0 THEN "ready" ELSE "wait"]

(* try_flush: try_lock fails on a busy mutex, and the buffer is kept. *)
TryLock(t) ==
  /\ op[t] = "try"
  /\ IF lock = NoThread
       THEN lock' = t /\ op' = [op EXCEPT ![t] = "push"]
       ELSE op' = [op EXCEPT ![t] = "ready"] /\ UNCHANGED lock
  /\ UNCHANGED <<storageVars, created, handle, flushing, finalizeStarted,
                 recorded, flushed, pc, senderVars, due>>

(* GlobalStorageImpl::flush blocks until it has the mutex. *)
LockForFlush(t) ==
  /\ op[t] = "wait"
  /\ lock = NoThread
  /\ lock' = t
  /\ op' = [op EXCEPT ![t] = "push"]
  /\ UNCHANGED <<storageVars, created, handle, flushing, finalizeStarted,
                 recorded, flushed, pc, senderVars, due>>

(* get_or_insert_with: GlobalStorage::new spawns the sending thread. *)
GetOrCreate ==
  /\ created' = TRUE
  /\ handle' = IF created THEN handle ELSE TRUE

PcAfterCreate == IF created THEN pc ELSE [pc EXCEPT ![Sender] = "start"]

(* The header of the page that a thread makes of its buffer. *)
NewHeader(t) == [thread |-> t, first |-> flushed[t] + 1, last |-> recorded[t]]

(* Mutation: a flushed buffer is not cleared. *)
FlushedKeepsBuffer(t) == flushed

(* The buffer is cleared once its page is in the storage. *)
FlushedAfterPush(t) == [flushed EXCEPT ![t] = recorded[t]]

(* flush and try_flush with the mutex held: the buffer becomes a page. *)
PushPage(t) ==
  /\ op[t] = "push"
  /\ GetOrCreate
  /\ PushBuf(NewHeader(t), Buffered(t))
  /\ flushed' = FlushedAfterPush(t)
  /\ pc' = PcAfterCreate
  /\ op' = [op EXCEPT ![t] = "ready"]
  /\ lock' = NoThread
  /\ UNCHANGED <<flushing, finalizeStarted, recorded, senderVars, due>>
-----------------------------------------------------------------------------
(***************************************************************************)
(* The application threads.                                                *)
(***************************************************************************)
Idle(t) == pc[t] \in {"run", "after"} /\ op[t] = "ready"

(* instant_event, range_event_start and the end of a range guard. *)
Event(t) ==
  /\ Idle(t)
  /\ recorded[t] < MaxEvents[t]
  /\ RecordEvent(t, flushing)
  /\ UNCHANGED <<storageVars, sharedVars, flushed, pc, senderVars, due>>

(* flush_thread_local, called by the application. *)
FlushThreadLocal(t) ==
  /\ Idle(t)
  /\ FlushForced(t)
  /\ UNCHANGED <<storageVars, sharedVars, recorded, flushed, pc, senderVars, due>>

(* The thread ends; dropping its LocalStorage flushes it. *)
Exit(t) ==
  /\ Idle(t)
  /\ FlushForced(t)
  /\ pc' = [pc EXCEPT ![t] = "gone"]
  /\ UNCHANGED <<storageVars, sharedVars, recorded, flushed, senderVars, due>>

(* init and init_default: create the storage under the mutex. *)
CallInit(t) ==
  /\ Idle(t) /\ pc[t] = "run"
  /\ pc' = [pc EXCEPT ![t] = "initLock"]
  /\ UNCHANGED <<storageVars, sharedVars, recorded, flushed, op, senderVars, due>>

InitLock(t) ==
  /\ pc[t] = "initLock"
  /\ lock = NoThread
  /\ lock' = t
  /\ pc' = [pc EXCEPT ![t] = "initCS"]
  /\ UNCHANGED <<storageVars, created, handle, flushing, finalizeStarted,
                 recorded, flushed, op, senderVars, due>>

InitStorage(t) ==
  /\ pc[t] = "initCS"
  /\ GetOrCreate
  /\ pc' = [PcAfterCreate EXCEPT ![t] = "run"]
  /\ lock' = NoThread
  /\ UNCHANGED <<storageVars, flushing, finalizeStarted, recorded, flushed,
                 op, senderVars, due>>

(* finalize, called or by the drop of a guard: flush the caller's buffer first. *)
CallFinalize(t) ==
  /\ t \in Finalizers
  /\ Idle(t)
  /\ FlushForced(t)
  /\ pc' = [pc EXCEPT ![t] = "finStore"]
  /\ UNCHANGED <<storageVars, sharedVars, recorded, flushed, senderVars, due>>

FinalizeStore(t) ==
  /\ pc[t] = "finStore" /\ op[t] = "ready"
  /\ finalizeStarted' = TRUE
  /\ due' = IF finalizeStarted THEN due ELSE flushed
  /\ pc' = [pc EXCEPT ![t] = "finLock"]
  /\ UNCHANGED <<storageVars, created, handle, lock, flushing, recorded,
                 flushed, op, senderVars>>

FinalizeLock(t) ==
  /\ pc[t] = "finLock"
  /\ lock = NoThread
  /\ lock' = t
  /\ pc' = [pc EXCEPT ![t] = "finTake"]
  /\ UNCHANGED <<storageVars, created, handle, flushing, finalizeStarted,
                 recorded, flushed, op, senderVars, due>>

(* Mutation: the handle is joined inside the if let that locks the mutex. *)
FinalizeJoinsLocked(t) ==
  /\ pc[t] = "finTake"
  /\ handle' = FALSE
  /\ lock' = IF handle THEN lock ELSE NoThread
  /\ pc' = [pc EXCEPT ![t] = IF handle THEN "join" ELSE "after"]
  /\ UNCHANGED <<storageVars, created, flushing, finalizeStarted, recorded,
                 flushed, op, senderVars, due>>

(* Mutation: the handle is dropped, which detaches the sending thread. *)
FinalizeDetaches(t) ==
  /\ pc[t] = "finTake"
  /\ handle' = FALSE
  /\ lock' = NoThread
  /\ pc' = [pc EXCEPT ![t] = "after"]
  /\ UNCHANGED <<storageVars, created, flushing, finalizeStarted, recorded,
                 flushed, op, senderVars, due>>

(* take_jh: only the caller that gets the handle joins. *)
FinalizeTakeHandle(t) ==
  /\ pc[t] = "finTake"
  /\ handle' = FALSE
  /\ lock' = NoThread
  /\ pc' = [pc EXCEPT ![t] = IF handle THEN "join" ELSE "after"]
  /\ UNCHANGED <<storageVars, created, flushing, finalizeStarted, recorded,
                 flushed, op, senderVars, due>>

SenderGone == pc[Sender] = "gone" /\ op[Sender] = "ready"

FinalizeJoin(t) ==
  /\ pc[t] = "join"
  /\ SenderGone
  /\ pc' = [pc EXCEPT ![t] = "after"]
  /\ UNCHANGED <<storageVars, sharedVars, recorded, flushed, op, senderVars, due>>
-----------------------------------------------------------------------------
(***************************************************************************)
(* The sending thread.                                                     *)
(***************************************************************************)
At(state) == pc[Sender] = state /\ op[Sender] = "ready"

GoTo(state) == pc' = [pc EXCEPT ![Sender] = state]

(***************************************************************************)
(* One end of a range that the feature self-tracing records.  The sending  *)
(* thread goes on to auto_flush like any other thread, whether or not it   *)
(* holds the mutex at this point.                                          *)
(***************************************************************************)
SelfEvent(busy) ==
  IF SelfTracing /\ recorded[Sender] < MaxSelf
    THEN RecordEvent(Sender, busy)
    ELSE UNCHANGED <<recorded, op>>

PacketOf(type, headers) == [type |-> type, headers |-> headers]

(* Mutation: the end marker is sent before the last frequency. *)
OutgoingEndFirst ==
  CASE pc[Sender] = "start"    -> << PacketOf("info", <<>>) >>
    [] pc[Sender] = "sleep"    -> << PacketOf("freq", <<>>) >>
    [] pc[Sender] = "sendData" -> << PacketOf("data", taken) >>
    [] pc[Sender] = "failed"   -> [i \in 1..Len(failed) |->
                                     PacketOf("failed", << failed[i] >>)]
    [] pc[Sender] = "end"      -> << PacketOf("end", <<>>), PacketOf("freq", <<>>) >>
    [] OTHER -> <<>>

(* The packets the sending thread sends from where it is. *)
Outgoing ==
  CASE pc[Sender] = "start"    -> << PacketOf("info", <<>>) >>
    [] pc[Sender] = "sleep"    -> << PacketOf("freq", <<>>) >>
    [] pc[Sender] = "sendData" -> << PacketOf("data", taken) >>
    [] pc[Sender] = "failed"   -> [i \in 1..Len(failed) |->
                                     PacketOf("failed", << failed[i] >>)]
    [] pc[Sender] = "end"      -> << PacketOf("freq", <<>>), PacketOf("end", <<>>) >>
    [] OTHER -> <<>>

Send == stream' = stream \o Outgoing

(* send_encoder_info_packet, before the loop. *)
SenderStart ==
  /\ At("start")
  /\ Send
  /\ GoTo("sleep")
  /\ UNCHANGED <<storageVars, sharedVars, recorded, flushed, op,
                 isFinalizing, taken, failed, due>>

(* The frequency detector's interval has passed: send_timestamp_freq. *)
SenderFreq ==
  /\ At("sleep")
  /\ Cardinality({i \in 1..Len(stream) : stream[i].type = "freq"}) < MaxFreq
  /\ Send
  /\ GoTo("load")
  /\ UNCHANGED <<storageVars, sharedVars, recorded, flushed, op,
                 isFinalizing, taken, failed, due>>

(* Read FINALIZE_STARTED, and flush the own buffer when it is set. *)
SenderLoad ==
  /\ At("sleep") \/ At("load")
  /\ isFinalizing' = finalizeStarted
  /\ IF finalizeStarted THEN FlushForced(Sender) ELSE UNCHANGED op
  /\ GoTo("lock")
  /\ UNCHANGED <<storageVars, sharedVars, recorded, flushed, taken, failed,
                 stream, due>>

(* Lock the storage; self-tracing opens a range with the mutex held. *)
SenderLock ==
  /\ At("lock")
  /\ lock = NoThread
  /\ lock' = Sender
  /\ SelfEvent(flushing)
  /\ GoTo("take")
  /\ UNCHANGED <<storageVars, created, handle, flushing, finalizeStarted,
                 flushed, senderVars, due>>

(* Mutation: the last round also waits for the flush threshold. *)
TakeEverythingNever == FALSE

TakeEverything == isFinalizing

(***************************************************************************)
(* take_failed_pages and try_take_buf, with GLOBAL_FLUSHING_RUNNING set    *)
(* between them; the range is closed before the mutex is released.         *)
(***************************************************************************)
SenderTake ==
  /\ At("take")
  /\ failed' = skipped
  /\ TakeFailedPages
  /\ LET ps == TakenPages(TakeEverything)
     IN taken' = [i \in 1..Len(ps) |-> ps[i].header]
  /\ TryTakeBuf(TakeEverything)
  /\ flushing' = TRUE
  /\ SelfEvent(TRUE)
  /\ GoTo("unlock")
  /\ UNCHANGED <<created, handle, lock, finalizeStarted, flushed,
                 isFinalizing, stream, due>>

SenderUnlock ==
  /\ At("unlock")
  /\ lock' = NoThread
  /\ GoTo("unflag")
  /\ UNCHANGED <<storageVars, created, handle, flushing, finalizeStarted,
                 recorded, flushed, op, senderVars, due>>

SenderUnflag ==
  /\ At("unflag")
  /\ flushing' = FALSE
  /\ GoTo("data")
  /\ UNCHANGED <<storageVars, created, handle, lock, finalizeStarted,
                 recorded, flushed, op, senderVars, due>>

(* Nothing was taken, or a range is opened around send_data_bytes. *)
SenderData ==
  /\ At("data")
  /\ IF taken = <<>>
       THEN GoTo("failed") /\ UNCHANGED <<recorded, op>>
       ELSE GoTo("sendData") /\ SelfEvent(flushing)
  /\ UNCHANGED <<storageVars, sharedVars, flushed, senderVars, due>>

SenderSendData ==
  /\ At("sendData")
  /\ Send
  /\ taken' = <<>>
  /\ GoTo("sent")
  /\ UNCHANGED <<storageVars, sharedVars, recorded, flushed, op, isFinalizing, failed, due>>

(* The range around send_data_bytes is closed. *)
SenderSent ==
  /\ At("sent")
  /\ SelfEvent(flushing)
  /\ GoTo("failed")
  /\ UNCHANGED <<storageVars, sharedVars, flushed, senderVars, due>>

(* Mutation: FINALIZE_STARTED is read again to decide whether to stop. *)
StopRereads == finalizeStarted

Stop == isFinalizing

(* send_failed_page_headers, then the last packets or the next round. *)
SenderSendFailed ==
  /\ At("failed")
  /\ Send
  /\ failed' = <<>>
  /\ GoTo(IF Stop THEN "end" ELSE "sleep")
  /\ UNCHANGED <<storageVars, sharedVars, recorded, flushed, op,
                 isFinalizing, taken, due>>

(* The last packets. *)
SenderEnd ==
  /\ At("end")
  /\ Send
  /\ GoTo("exit")
  /\ UNCHANGED <<storageVars, sharedVars, recorded, flushed, op,
                 isFinalizing, taken, failed, due>>

(***************************************************************************)
(* FileSender's write_all or UdpSender's send_to fails after some of the   *)
(* packets, and the unwrap panics.  Unwinding closes the range that is     *)
(* open around the data.  What the thread had taken and not sent is lost:  *)
(* the model leaves it in taken and failed, which nothing reads any more.  *)
(***************************************************************************)
SenderPanics ==
  /\ SendMayFail
  /\ op[Sender] = "ready"
  /\ \E k \in 0..(Len(Outgoing) - 1) :
       /\ stream' = stream \o SubSeq(Outgoing, 1, k)
       /\ failed' = IF pc[Sender] = "failed" THEN SubSeq(failed, k + 1, Len(failed)) ELSE failed
  /\ IF pc[Sender] = "sendData" THEN SelfEvent(flushing) ELSE UNCHANGED <<recorded, op>>
  /\ GoTo("exit")
  /\ UNCHANGED <<storageVars, sharedVars, flushed, isFinalizing, taken, due>>

(* The thread ends; dropping its LocalStorage flushes it. *)
SenderExit ==
  /\ At("exit")
  /\ FlushForced(Sender)
  /\ GoTo("gone")
  /\ UNCHANGED <<storageVars, sharedVars, recorded, flushed, senderVars, due>>
-----------------------------------------------------------------------------
FlushStep(t) == TryLock(t) \/ LockForFlush(t) \/ PushPage(t)

CallStep(t) ==
  \/ Event(t) \/ FlushThreadLocal(t) \/ Exit(t) \/ CallInit(t) \/ CallFinalize(t)

(* The steps of a call that is under way. *)
BodyStep(t) ==
  \/ InitLock(t) \/ InitStorage(t)
  \/ FinalizeStore(t) \/ FinalizeLock(t) \/ FinalizeTakeHandle(t) \/ FinalizeJoin(t)

SenderStep ==
  \/ SenderStart \/ SenderFreq \/ SenderLoad \/ SenderLock \/ SenderTake
  \/ SenderUnlock \/ SenderUnflag \/ SenderData \/ SenderSendData
  \/ SenderSent \/ SenderSendFailed \/ SenderEnd \/ SenderPanics \/ SenderExit

(* Every application thread has ended: the process is about to exit. *)
Terminated ==
  /\ \A t \in App : pc[t] = "gone" /\ op[t] = "ready"
  /\ UNCHANGED vars

Next ==
  \/ \E t \in Thread : FlushStep(t)
  \/ \E t \in App : CallStep(t) \/ BodyStep(t)
  \/ SenderStep
  \/ Terminated

Spec == Init /\ [][Next]_vars

(***************************************************************************)
(* A thread inside a call keeps running, and one that waits for the mutex  *)
(* gets it if it is free again and again: every critical section is short, *)
(* and the sending thread sleeps a millisecond outside of it in each       *)
(* round.  Nothing makes an application thread record, flush or exit.      *)
(***************************************************************************)
Fairness ==
  /\ \A t \in Thread : /\ WF_vars(TryLock(t) \/ PushPage(t))
                       /\ SF_vars(LockForFlush(t))
  /\ \A t \in App : /\ WF_vars(BodyStep(t))
                    /\ SF_vars(InitLock(t)) /\ SF_vars(FinalizeLock(t))
  /\ WF_vars(SenderStep) /\ SF_vars(SenderLock)

FairSpec == Spec /\ Fairness
-----------------------------------------------------------------------------
(* Every variable has its type, and the pages account for every byte of the ring. *)
TypeOK ==
  /\ RingTyped(Header)
  /\ created \in BOOLEAN /\ handle \in BOOLEAN
  /\ lock \in Thread \cup {NoThread}
  /\ flushing \in BOOLEAN /\ finalizeStarted \in BOOLEAN
  /\ recorded \in [Thread -> Nat]
  /\ flushed \in [Thread -> Nat]
  /\ pc \in [Thread -> PcState]
  /\ op \in [Thread -> OpState]
  /\ isFinalizing \in BOOLEAN
  /\ taken \in Seq(Header) /\ failed \in Seq(Header)
  /\ stream \in Seq(Packet)
  /\ due \in [Thread -> Nat]

(***************************************************************************)
(* A thread-local buffer never grows past flush_threshold, whichever       *)
(* attempts to flush it early have failed: a thread whose buffer is full   *)
(* records nothing more before it has flushed it.                          *)
(***************************************************************************)
LocalBufferBounded ==
  \A t \in Thread :
    /\ Buffered(t) \in 0..LocalForce
    /\ Buffered(t) = LocalForce => op[t] \in {"wait", "push"}

(***************************************************************************)
(* However the flushes of all threads interleave with the sending thread,  *)
(* no page is cut short in the ring, a cleanup always brings the ring back *)
(* under its threshold, and never takes other bytes for a page, whose      *)
(* unwraps would panic with the mutex held.                                *)
(***************************************************************************)
RingNeverOverruns ==
  /\ \A i \in 1..Len(pages) : Whole(pages[i])
  /\ Occupied =< CleanupAt
  /\ ~garbled

(***************************************************************************)
(* The packets form what decode_packets reads: the encoder info first, no  *)
(* data packet without a page, and 0xff at the end only, right after the   *)
(* timestamp frequency, with nothing taken left behind.                    *)
(***************************************************************************)
StreamWellFormed ==
  \A i \in 1..Len(stream) :
    /\ stream[i].type = "info" <=> i = 1
    /\ stream[i].type \in {"data", "failed"} => stream[i].headers # <<>>
    /\ stream[i].type = "end" =>
         /\ i = Len(stream)
         /\ stream[i - 1].type = "freq"
         /\ taken = <<>> /\ failed = <<>>

(***************************************************************************)
(* finalize is a "blocking wait for global sending thread to finish its    *)
(* job".  Once there is a sending thread, a call that returns before that  *)
(* thread has ended has found the handle taken, by a caller that is still  *)
(* waiting.                                                                *)
(***************************************************************************)
FinalizeWaits ==
  [][\A t \in App : pc[t] # "after" /\ pc'[t] = "after" /\ created =>
       SenderGone \/ \E u \in App \ {t} : pc[u] = "join"]_vars

(* A thread inside a call, or the sending thread on its way. *)
InCall(t) == op[t] # "ready" \/ pc[t] \notin {"none", "run", "after", "gone"}

WaitsForLock(t) ==
  \/ op[t] = "wait"
  \/ op[t] = "ready" /\ pc[t] \in {"initLock", "finLock", "lock"}

(* The next step of a thread inside a call has its guard. *)
CanGoOn(t) ==
  /\ InCall(t)
  /\ WaitsForLock(t) => lock = NoThread
  /\ op[t] = "ready" /\ pc[t] = "join" => SenderGone
  /\ op[t] = "push" => PushReturns(NewHeader(t), Buffered(t))

(* The sending thread waits for the mutex that it holds itself. *)
SelfLocked == lock = Sender /\ op[Sender] = "wait"

(***************************************************************************)
(* The sending thread that locks itself out is the only deadlock there is. *)
(* Otherwise a thread inside a call can go on, or else the owner of the    *)
(* mutex or the sending thread can, for which it waits: nobody joins or    *)
(* waits while holding the mutex, and with it in hand every push returns.  *)
(***************************************************************************)
NobodyIsStuck ==
  \/ SelfLocked
  \/ \A t \in Thread : InCall(t) =>
       \E u \in {t, lock, Sender} \ {NoThread} : CanGoOn(u)

(* finalize returns, whatever the other threads and the senders do. *)
FinalizeReturns ==
  \A t \in Finalizers : pc[t] = "finStore" ~> pc[t] = "after"

(* A thread that waits for the mutex to flush, because its buffer is full or *)
(* because it has called flush, is not blocked for ever.                     *)
ForcedFlushReturns ==
  \A t \in Thread : op[t] = "wait" ~> op[t] = "ready"
=============================================================================
