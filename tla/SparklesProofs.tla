--------------------------- MODULE SparklesProofs ---------------------------
(***************************************************************************)
(* Proofs about the capture pipeline, for any number of threads, events,   *)
(* rounds of the sending thread and finalizers, any ring and thresholds    *)
(* that LargestPageFits admits, with self-tracing and without.             *)
(*                                                                         *)
(* The proofs do not go through the actions one by one for each invariant: *)
(* two lemmas first say what an action can be for the local buffers and    *)
(* for the ring, and the invariants follow from the few kinds there are.   *)
(* The last part is about the places that pages pass through, and shows    *)
(* that the pipeline implements the event log.                             *)
(***************************************************************************)
EXTENDS SparklesProps, RingLemmas

LEMMA ConstantsTyped ==
  /\ Sender \in Thread /\ App \subseteq Thread /\ NoThread \notin Thread
  /\ LocalAttempt \in Nat /\ LocalForce \in Nat \ {0} /\ LocalAttempt > 0
  /\ CleanupAt \in Nat /\ HdrLen \in Nat /\ Capacity \in Nat
<1>1. Sender \in Thread /\ App \subseteq Thread /\ NoThread \notin Thread
  BY ThreadsDiffer DEF Thread
<1>2. LocalAttempt \in Nat \ {0} /\ LocalForce \in Nat \ {0}
  BY SettingsTyped
<1> QED
  BY <1>1, <1>2, SizesAreNat

(* What the variables of LocalStorage can hold, and when. *)
LocalTyped ==
  /\ recorded \in [Thread -> Nat]
  /\ flushed \in [Thread -> Nat]
  /\ op \in [Thread -> OpState]

(***************************************************************************)
(* The strengthening of LocalBufferBounded: a flush is under way only when *)
(* there is something to flush, so that every page has an event.           *)
(***************************************************************************)
LocalInv ==
  /\ LocalTyped
  /\ LocalBufferBounded
  /\ \A t \in Thread : op[t] # "ready" => Buffered(t) # 0

SharedTyped ==
  /\ created \in BOOLEAN /\ handle \in BOOLEAN
  /\ lock \in Thread \cup {NoThread}
  /\ flushing \in BOOLEAN /\ finalizeStarted \in BOOLEAN
  /\ pc \in [Thread -> PcState]
  /\ isFinalizing \in BOOLEAN

PacketsTyped ==
  /\ taken \in Seq(Header) /\ failed \in Seq(Header)
  /\ stream \in Seq(Packet)

LEMMA TypeParts ==
  TypeOK <=> /\ RingTyped(Header) /\ SharedTyped /\ LocalTyped /\ PacketsTyped
             /\ due \in [Thread -> Nat]
  BY DEF TypeOK, SharedTyped, LocalTyped, PacketsTyped
-----------------------------------------------------------------------------
(* The kinds of steps. *)

StartsFlush(t) ==
  op[t] = "ready" /\ FlushForced(t) /\ UNCHANGED <<recorded, flushed>>

Records(t) ==
  /\ op[t] = "ready"
  /\ \E busy \in BOOLEAN : RecordEvent(t, busy)
  /\ UNCHANGED flushed

(* What a step can be for the local buffers. *)
LEMMA LocalKinds ==
  ASSUME SharedTyped, [Next]_vars
  PROVE  \/ UNCHANGED <<recorded, flushed, op>>
         \/ \E t \in Thread : \/ StartsFlush(t) \/ Records(t)
                              \/ TryLock(t) \/ LockForFlush(t) \/ PushPage(t)
<1> DEFINE Same == UNCHANGED <<recorded, flushed, op>>
<1>1. ASSUME NEW t \in App, CallStep(t)
      PROVE  StartsFlush(t) \/ Records(t) \/ Same
  <2>1. flushing \in BOOLEAN
    BY DEF SharedTyped
  <2> QED
    BY <1>1, <2>1 DEF CallStep, Event, FlushThreadLocal, Exit, CallInit,
                      CallFinalize, Idle, StartsFlush, Records, localVars
<1>2. ASSUME NEW t \in App, BodyStep(t) PROVE Same
  BY <1>2 DEF BodyStep, InitLock, InitStorage, FinalizeStore, FinalizeLock,
              FinalizeTakeHandle, FinalizeJoin
<1>3. ASSUME SenderStep
      PROVE  StartsFlush(Sender) \/ Records(Sender) \/ Same
  <2>1. ASSUME NEW busy \in BOOLEAN, SelfEvent(busy), op[Sender] = "ready",
               UNCHANGED flushed
        PROVE  Records(Sender) \/ Same
    BY <2>1 DEF SelfEvent, Records
  <2>2. flushing \in BOOLEAN
    BY DEF SharedTyped
  <2>3. CASE SenderLock \/ SenderTake \/ SenderData \/ SenderSent \/ SenderPanics
    BY <2>1, <2>2, <2>3 DEF SenderLock, SenderTake, SenderData, SenderSent,
                            SenderPanics, At
  <2>4. CASE SenderLoad \/ SenderExit
    BY <2>4 DEF SenderLoad, SenderExit, At, StartsFlush
  <2>5. CASE \/ SenderStart \/ SenderFreq \/ SenderUnlock \/ SenderUnflag
             \/ SenderSendData \/ SenderSendFailed \/ SenderEnd
    BY <2>5 DEF SenderStart, SenderFreq, SenderUnlock, SenderUnflag,
                SenderSendData, SenderSendFailed, SenderEnd
  <2> QED
    BY <1>3, <2>3, <2>4, <2>5 DEF SenderStep
<1>4. CASE UNCHANGED vars
  BY <1>4 DEF vars, localVars
<1>5. Terminated => UNCHANGED vars
  BY DEF Terminated
<1> QED
  BY <1>1, <1>2, <1>3, <1>4, <1>5, ConstantsTyped DEF Next, FlushStep

(* What a step can be for the ring. *)
LEMMA RingKinds ==
  ASSUME [Next]_vars
  PROVE  \/ UNCHANGED storageVars
         \/ \E t \in Thread : PushPage(t)
         \/ SenderTake
<1>1. ASSUME NEW t \in App, CallStep(t) \/ BodyStep(t)
      PROVE  UNCHANGED storageVars
  BY <1>1 DEF CallStep, Event, FlushThreadLocal, Exit, CallInit, CallFinalize,
              BodyStep, InitLock, InitStorage, FinalizeStore, FinalizeLock,
              FinalizeTakeHandle, FinalizeJoin
<1>2. ASSUME SenderStep
      PROVE  SenderTake \/ UNCHANGED storageVars
  BY <1>2 DEF SenderStep, SenderStart, SenderFreq, SenderLoad, SenderLock,
              SenderUnlock, SenderUnflag, SenderData, SenderSendData, SenderSent,
              SenderSendFailed, SenderEnd, SenderPanics, SenderExit
<1>3. ASSUME NEW t \in Thread, TryLock(t) \/ LockForFlush(t)
      PROVE  UNCHANGED storageVars
  BY <1>3 DEF TryLock, LockForFlush
<1>4. UNCHANGED vars => UNCHANGED storageVars
  BY DEF vars
<1> QED
  BY <1>1, <1>2, <1>3, <1>4 DEF Next, FlushStep, Terminated
-----------------------------------------------------------------------------
(* The thread-local buffers. *)

LEMMA LocalInit == Init => LocalInv
<1> SUFFICES ASSUME Init PROVE LocalInv
  OBVIOUS
<1>1. LocalTyped
  BY DEF Init, LocalTyped, OpState
<1>2. ASSUME NEW t \in Thread
      PROVE  Buffered(t) = 0 /\ op[t] = "ready"
  BY DEF Init, Buffered
<1> QED
  BY <1>1, <1>2, ConstantsTyped DEF LocalInv, LocalBufferBounded

LEMMA LocalNext ==
  ASSUME LocalInv, SharedTyped, [Next]_vars
  PROVE  LocalInv'
<1>1. /\ recorded \in [Thread -> Nat] /\ flushed \in [Thread -> Nat]
      /\ op \in [Thread -> OpState]
      /\ LocalForce \in Nat \ {0}
  BY ConstantsTyped DEF LocalInv, LocalTyped
<1>2. \A t \in Thread :
        /\ recorded[t] - flushed[t] \in 0..LocalForce
        /\ recorded[t] - flushed[t] = LocalForce => op[t] \in {"wait", "push"}
        /\ op[t] # "ready" => recorded[t] - flushed[t] # 0
  BY DEF LocalInv, LocalBufferBounded, Buffered
<1>3. SUFFICES
        /\ recorded' \in [Thread -> Nat] /\ flushed' \in [Thread -> Nat]
        /\ op' \in [Thread -> OpState]
        /\ \A t \in Thread :
             /\ recorded'[t] - flushed'[t] \in 0..LocalForce
             /\ recorded'[t] - flushed'[t] = LocalForce => op'[t] \in {"wait", "push"}
             /\ op'[t] # "ready" => recorded'[t] - flushed'[t] # 0
  BY DEF LocalInv, LocalTyped, LocalBufferBounded, Buffered
<1>4. CASE UNCHANGED <<recorded, flushed, op>>
  BY <1>1, <1>2, <1>4
<1>5. CASE \E t \in Thread : StartsFlush(t)
  BY <1>1, <1>2, <1>5 DEF StartsFlush, FlushForced, Buffered, OpState
<1>6. CASE \E t \in Thread : Records(t)
  <2>1. PICK t \in Thread, busy \in BOOLEAN :
          op[t] = "ready" /\ RecordEvent(t, busy) /\ UNCHANGED flushed
    BY <1>6 DEF Records
  <2>2. recorded[t] - flushed[t] < LocalForce
    BY <1>1, <1>2, <2>1
  <2>3. /\ AutoFlush(recorded[t] - flushed[t] + 1, busy) \in OpState
        /\ recorded[t] - flushed[t] + 1 = LocalForce
             => AutoFlush(recorded[t] - flushed[t] + 1, busy) = "wait"
    BY <1>1, <1>2, <2>1 DEF AutoFlush, OpState
  <2>4. /\ recorded' = [recorded EXCEPT ![t] = @ + 1]
        /\ op' = [op EXCEPT ![t] = AutoFlush(recorded[t] - flushed[t] + 1, busy)]
        /\ flushed' = flushed
    BY <2>1 DEF RecordEvent, Buffered
  <2> QED
    BY <1>1, <1>2, <2>2, <2>3, <2>4
<1>7. CASE \E t \in Thread : TryLock(t) \/ LockForFlush(t)
  <2>1. PICK t \in Thread : TryLock(t) \/ LockForFlush(t)
    BY <1>7
  <2>2. /\ UNCHANGED <<recorded, flushed>>
        /\ op[t] \in {"try", "wait"}
        /\ \/ op' = [op EXCEPT ![t] = "push"]
           \/ op[t] = "try" /\ op' = [op EXCEPT ![t] = "ready"]
    BY <2>1 DEF TryLock, LockForFlush
  <2> QED
    BY <1>1, <1>2, <2>2 DEF OpState
<1>8. CASE \E t \in Thread : PushPage(t)
  BY <1>1, <1>2, <1>8 DEF PushPage, FlushedAfterPush, OpState
<1> QED
  BY <1>4, <1>5, <1>6, <1>7, <1>8, LocalKinds
-----------------------------------------------------------------------------
(* The mutex, the atomics and the threads' places in their programs. *)

LEMMA SharedInit == Init => SharedTyped
  BY ConstantsTyped DEF Init, SharedTyped, PcState

LEMMA SharedNext ==
  ASSUME SharedTyped, [Next]_vars
  PROVE  SharedTyped'
<1> USE ConstantsTyped DEF SharedTyped
<1>1. ASSUME NEW t \in Thread, FlushStep(t)
      PROVE  SharedTyped'
  BY <1>1 DEF FlushStep, TryLock, LockForFlush, PushPage, GetOrCreate,
              PcAfterCreate, PcState, senderVars
<1>2. ASSUME NEW t \in App, CallStep(t)
      PROVE  SharedTyped'
  BY <1>2 DEF CallStep, Event, FlushThreadLocal, Exit, CallInit, CallFinalize,
              PcState, sharedVars, senderVars
<1>3. ASSUME NEW t \in App, BodyStep(t)
      PROVE  SharedTyped'
  <2>1. CASE InitLock(t) \/ InitStorage(t)
    BY <2>1 DEF InitLock, InitStorage, GetOrCreate, PcAfterCreate, PcState, senderVars
  <2>2. CASE FinalizeStore(t) \/ FinalizeLock(t)
    BY <2>2 DEF FinalizeStore, FinalizeLock, PcState, senderVars
  <2>3. CASE FinalizeTakeHandle(t) \/ FinalizeJoin(t)
    BY <2>3 DEF FinalizeTakeHandle, FinalizeJoin, PcState, sharedVars, senderVars
  <2> QED
    BY <1>3, <2>1, <2>2, <2>3 DEF BodyStep
<1>4. ASSUME SenderStep
      PROVE  SharedTyped'
  <2> USE DEF GoTo, PcState, sharedVars, senderVars
  <2>1. CASE SenderStart \/ SenderFreq \/ SenderLoad \/ SenderLock
    BY <2>1 DEF SenderStart, SenderFreq, SenderLoad, SenderLock
  <2>2. CASE SenderTake \/ SenderUnlock \/ SenderUnflag \/ SenderData
    BY <2>2 DEF SenderTake, SenderUnlock, SenderUnflag, SenderData
  <2>3. CASE SenderSendData \/ SenderSent \/ SenderSendFailed
    BY <2>3 DEF SenderSendData, SenderSent, SenderSendFailed
  <2>4. CASE SenderEnd \/ SenderPanics \/ SenderExit
    BY <2>4 DEF SenderEnd, SenderPanics, SenderExit
  <2> QED
    BY <1>4, <2>1, <2>2, <2>3, <2>4 DEF SenderStep
<1>5. CASE UNCHANGED vars
  BY <1>5 DEF vars, sharedVars, localVars, senderVars
<1> QED
  BY <1>1, <1>2, <1>3, <1>4, <1>5 DEF Next, Terminated
-----------------------------------------------------------------------------
(* What the sending thread has in its hands, and has sent. *)

LEMMA OutgoingTyped ==
  ASSUME PacketsTyped
  PROVE  Outgoing \in Seq(Packet)
<1>1. <<>> \in Seq(Header) /\ taken \in Seq(Header)
  BY DEF PacketsTyped
<1>2. ASSUME NEW headers \in Seq(Header), NEW type \in {"info", "data", "failed", "freq", "end"}
      PROVE  PacketOf(type, headers) \in Packet
  BY DEF PacketOf, Packet
<1>3. ASSUME NEW i \in 1..Len(failed)
      PROVE  PacketOf("failed", << failed[i] >>) \in Packet
  <2>1. failed[i] \in Header
    BY DEF PacketsTyped
  <2>2. << failed[i] >> \in Seq(Header)
    BY <2>1
  <2> QED
    BY <1>2, <2>2
<1>4. Len(failed) \in Nat
  BY DEF PacketsTyped
<1>5. [i \in 1..Len(failed) |-> PacketOf("failed", << failed[i] >>)] \in Seq(Packet)
  BY <1>3, <1>4
<1>6. /\ PacketOf("info", <<>>) \in Packet /\ PacketOf("freq", <<>>) \in Packet
      /\ PacketOf("end", <<>>) \in Packet /\ PacketOf("data", taken) \in Packet
  BY <1>1, <1>2
<1>7. <<>> \in Seq(Packet)
  OBVIOUS
<1> QED
  BY <1>5, <1>6, <1>7 DEF Outgoing

LEMMA PacketsNext ==
  ASSUME RingTyped(Header), SharedTyped, PacketsTyped, [Next]_vars
  PROVE  PacketsTyped'
<1>1. Outgoing \in Seq(Packet)
  BY OutgoingTyped
<1>2. /\ taken \in Seq(Header) /\ failed \in Seq(Header) /\ stream \in Seq(Packet)
      /\ skipped \in Seq(Header) /\ <<>> \in Seq(Header)
  BY DEF PacketsTyped, RingTyped
<1>3. stream \o Outgoing \in Seq(Packet)
  BY <1>1, <1>2
<1>4. ASSUME NEW t \in Thread, FlushStep(t)
      PROVE  UNCHANGED <<taken, failed, stream>>
  BY <1>4 DEF FlushStep, TryLock, LockForFlush, PushPage, senderVars
<1>5. ASSUME NEW t \in App, CallStep(t) \/ BodyStep(t)
      PROVE  UNCHANGED <<taken, failed, stream>>
  BY <1>5 DEF CallStep, Event, FlushThreadLocal, Exit, CallInit, CallFinalize,
              BodyStep, InitLock, InitStorage, FinalizeStore, FinalizeLock,
              FinalizeTakeHandle, FinalizeJoin, senderVars
<1>6. ASSUME SenderTake
      PROVE  PacketsTyped'
  <2>1. TakeEverything \in BOOLEAN
    BY DEF TakeEverything, SharedTyped
  <2>2. TakenPages(TakeEverything) \in Seq(PageOf(Header))
    BY <2>1, TakenTyped
  <2> DEFINE ps == TakenPages(TakeEverything)
  <2>3. ASSUME NEW i \in 1..Len(ps)
        PROVE  ps[i].header \in Header
    <3>1. ps[i] \in PageOf(Header)
      BY <2>2
    <3> QED
      BY <3>1 DEF PageOf
  <2>4. Len(ps) \in Nat
    BY <2>2
  <2>5. taken' = [i \in 1..Len(ps) |-> ps[i].header]
    BY <1>6 DEF SenderTake
  <2> HIDE DEF ps
  <2>6. taken' \in Seq(Header)
    BY <2>3, <2>4, <2>5
  <2>7. failed' = skipped /\ stream' = stream
    BY <1>6 DEF SenderTake
  <2> QED
    BY <1>2, <2>6, <2>7 DEF PacketsTyped
<1>7. ASSUME SenderPanics
      PROVE  PacketsTyped'
  <2>1. PICK k \in 0..(Len(Outgoing) - 1) :
          /\ stream' = stream \o SubSeq(Outgoing, 1, k)
          /\ failed' = IF pc[Sender] = "failed" THEN SubSeq(failed, k + 1, Len(failed))
                       ELSE failed
    BY <1>7 DEF SenderPanics
  <2>2. Len(Outgoing) \in Nat /\ Len(failed) \in Nat
    BY <1>1, <1>2
  <2>3. SubSeq(Outgoing, 1, k) \in Seq(Packet)
    BY <1>1, <2>2
  <2>4. SubSeq(failed, k + 1, Len(failed)) \in Seq(Header)
    BY <1>2, <2>2
  <2>5. taken' = taken
    BY <1>7 DEF SenderPanics
  <2> QED
    BY <1>2, <2>1, <2>3, <2>4, <2>5 DEF PacketsTyped
<1>8. ASSUME SenderStep, ~SenderTake, ~SenderPanics
      PROVE  /\ taken' \in {taken, <<>>}
             /\ failed' \in {failed, <<>>}
             /\ stream' \in {stream, stream \o Outgoing}
  BY <1>8 DEF SenderStep, SenderStart, SenderFreq, SenderLoad, SenderLock,
              SenderUnlock, SenderUnflag, SenderData, SenderSendData, SenderSent,
              SenderSendFailed, SenderEnd, SenderExit, Send, senderVars
<1>9. UNCHANGED vars => UNCHANGED <<taken, failed, stream>>
  BY DEF vars, senderVars
<1> QED
  BY <1>2, <1>3, <1>4, <1>5, <1>6, <1>7, <1>8, <1>9 DEF Next, Terminated, PacketsTyped
-----------------------------------------------------------------------------
(* The ring. *)

(* A page that is pushed has an event, and not more than it can have. *)
LEMMA PageToPush ==
  ASSUME LocalInv, NEW t \in Thread, op[t] = "push"
  PROVE  /\ Buffered(t) \in Nat /\ Buffered(t) =< LocalForce
         /\ NewHeader(t) \in Header
<1>1. /\ recorded[t] \in Nat /\ flushed[t] \in Nat /\ LocalForce \in Nat
      /\ recorded[t] - flushed[t] \in 0..LocalForce
      /\ recorded[t] - flushed[t] # 0
  BY ConstantsTyped DEF LocalInv, LocalTyped, LocalBufferBounded, Buffered
<1>2. flushed[t] + 1 =< recorded[t]
  BY <1>1
<1>3. NewHeader(t) \in Header
  BY <1>1, <1>2 DEF Header, NewHeader
<1> QED
  BY <1>1, <1>3 DEF Buffered

LEMMA PushedPage ==
  ASSUME LocalInv, NEW t \in Thread, PushPage(t)
  PROVE  /\ Buffered(t) \in Nat /\ Buffered(t) =< LocalForce
         /\ NewHeader(t) \in Header
         /\ PushBuf(NewHeader(t), Buffered(t))
  BY PageToPush DEF PushPage

LEMMA PushedRoom ==
  ASSUME LocalInv, RingNeverOverruns, NEW t \in Thread, PushPage(t)
  PROVE  RoomFor(Buffered(t))
<1>1. Buffered(t) \in Nat /\ Buffered(t) =< LocalForce
  BY PushedPage
<1>2. CleanupAt + HdrLen + Buffered(t) =< Capacity
  BY <1>1, LargestPageFits, ConstantsTyped
<1> QED
  BY <1>2 DEF RoomFor, RingNeverOverruns

LEMMA RingNext ==
  ASSUME RingTyped(Header), LocalInv, RingNeverOverruns, SharedTyped, [Next]_vars
  PROVE  RingTyped(Header)'
<1>1. CASE UNCHANGED storageVars
  BY <1>1 DEF RingTyped, Occupied, Tiled, storageVars
<1>2. CASE \E t \in Thread : PushPage(t)
  BY <1>2, PushedPage, PushedRoom, PushBufTyped
<1>3. CASE SenderTake
  <2>1. TakeEverything \in BOOLEAN
    BY DEF TakeEverything, SharedTyped
  <2>2. TakeFailedPages /\ TryTakeBuf(TakeEverything)
    BY <1>3 DEF SenderTake
  <2> QED
    BY <2>1, <2>2, TakeTyped
<1> QED
  BY <1>1, <1>2, <1>3, RingKinds

LEMMA OverrunNext ==
  ASSUME RingNeverOverruns, RingTyped(Header), LocalInv, [Next]_vars
  PROVE  RingNeverOverruns'
<1>1. CASE UNCHANGED storageVars
  BY <1>1 DEF RingNeverOverruns, Occupied, Whole, storageVars
<1>2. ASSUME NEW t \in Thread, PushPage(t)
      PROVE  RingNeverOverruns'
  BY <1>2, PushedPage, PushedRoom, PushBufFits DEF RingNeverOverruns
<1>3. CASE SenderTake
  <2>1. /\ wr' = wr /\ wr \in Nat /\ ~garbled'
        /\ \/ rd' = wr /\ pages' = <<>>
           \/ rd' = rd /\ pages' = pages
    BY <1>3 DEF SenderTake, TryTakeBuf, RingNeverOverruns, RingTyped
  <2> QED
    BY <2>1, SizesAreNat DEF RingNeverOverruns, Occupied, Whole
<1> QED
  BY <1>1, <1>2, <1>3, RingKinds
-----------------------------------------------------------------------------
(* The invariant that the theorems come from. *)
PipelineInv == TypeOK /\ LocalInv /\ RingNeverOverruns

LEMMA PipelineInit == Init => PipelineInv
<1> SUFFICES ASSUME Init PROVE PipelineInv
  OBVIOUS
<1>1. /\ pages = <<>> /\ skipped = <<>> /\ rd = 0 /\ wr = 0 /\ garbled = FALSE
      /\ taken = <<>> /\ failed = <<>> /\ stream = <<>>
  BY DEF Init, StorageInit
<1>2. RingTyped(Header)
  <2>1. pages \in Seq(PageOf(Header)) /\ skipped \in Seq(Header)
    BY <1>1
  <2>2. wr \in Nat /\ rd \in 0..wr /\ Occupied =< Capacity
    BY <1>1, ConstantsTyped DEF Occupied
  <2>3. Tiled(pages, rd, wr)
    BY <1>1 DEF Tiled
  <2>4. garbled \in BOOLEAN
    BY <1>1
  <2> QED
    BY <2>1, <2>2, <2>3, <2>4 DEF RingTyped
<1>3. PacketsTyped
  BY <1>1 DEF PacketsTyped
<1>4. due \in [Thread -> Nat]
  BY DEF Init
<1>5. RingNeverOverruns
  BY <1>1, ConstantsTyped DEF RingNeverOverruns, Occupied
<1>6. LocalInv /\ LocalTyped /\ SharedTyped
  BY LocalInit, SharedInit DEF LocalInv
<1> QED
  BY <1>2, <1>3, <1>4, <1>5, <1>6, TypeParts DEF PipelineInv

LEMMA DueNext ==
  ASSUME due \in [Thread -> Nat], LocalTyped, [Next]_vars
  PROVE  due' \in [Thread -> Nat]
<1>1. UNCHANGED due \/ \E t \in App : FinalizeStore(t)
  BY DEF Next, FlushStep, TryLock, LockForFlush, PushPage, CallStep, Event,
         FlushThreadLocal, Exit, CallInit, CallFinalize, BodyStep, InitLock,
         InitStorage, FinalizeLock, FinalizeTakeHandle, FinalizeJoin,
         SenderStep, SenderStart, SenderFreq, SenderLoad, SenderLock,
         SenderTake, SenderUnlock, SenderUnflag, SenderData, SenderSendData, SenderSent,
         SenderSendFailed, SenderEnd, SenderPanics, SenderExit, Terminated, vars
<1> QED
  BY <1>1 DEF FinalizeStore, LocalTyped

LEMMA PipelineNext == PipelineInv /\ [Next]_vars => PipelineInv'
<1> SUFFICES ASSUME PipelineInv, [Next]_vars PROVE PipelineInv'
  OBVIOUS
<1>1. /\ RingTyped(Header) /\ SharedTyped /\ LocalTyped /\ PacketsTyped
      /\ due \in [Thread -> Nat]
      /\ LocalInv /\ RingNeverOverruns
  BY TypeParts DEF PipelineInv
<1>2. RingTyped(Header)' /\ SharedTyped' /\ LocalInv' /\ RingNeverOverruns'
  BY <1>1, RingNext, SharedNext, LocalNext, OverrunNext
<1>3. PacketsTyped' /\ (due \in [Thread -> Nat])'
  BY <1>1, PacketsNext, DueNext
<1>4. LocalTyped'
  BY <1>2 DEF LocalInv
<1>5. TypeOK'
  BY <1>2, <1>3, <1>4, TypeParts DEF TypeOK, SharedTyped, LocalTyped, PacketsTyped
<1> QED
  BY <1>2, <1>5 DEF PipelineInv

THEOREM PipelineInvariant == Spec => []PipelineInv
<1> QED
  BY PipelineInit, PipelineNext, PTL DEF Spec

(***************************************************************************)
(* The type invariant: in particular, every page and every packet has only *)
(* headers of pages with at least one event, and the pages tile the ring.  *)
(***************************************************************************)
THEOREM TypeCorrect == Spec => []TypeOK
<1>1. PipelineInv => TypeOK
  BY DEF PipelineInv
<1> QED
  BY <1>1, PipelineInvariant, PTL

(* No thread-local buffer outgrows its flush threshold (auto_flush). *)
THEOREM BuffersBounded == Spec => []LocalBufferBounded
<1>1. PipelineInv => LocalBufferBounded
  BY DEF PipelineInv, LocalInv
<1> QED
  BY <1>1, PipelineInvariant, PTL

(***************************************************************************)
(* push_buf never cuts a page short and never panics, whichever threads    *)
(* flush when: the bound on the buffers and LargestPageFits together keep  *)
(* the discarded results of push_slice harmless.                           *)
(***************************************************************************)
THEOREM RingSafe == Spec => []RingNeverOverruns
<1>1. PipelineInv => RingNeverOverruns
  BY DEF PipelineInv
<1> QED
  BY <1>1, PipelineInvariant, PTL
-----------------------------------------------------------------------------
(* finalize. *)

(* Where the handle has gone: its taker is at the join, or back from it. *)
FinalizeInv ==
  created /\ ~handle => SenderGone \/ \E t \in App : pc[t] = "join"

LEMMA FinalizeInit == Init => FinalizeInv
<1> SUFFICES ASSUME Init PROVE FinalizeInv
  OBVIOUS
<1>1. created = FALSE
  BY DEF Init
<1> QED
  BY <1>1 DEF FinalizeInv

LEMMA FinalizeNext == TypeOK /\ FinalizeInv /\ [Next]_vars => FinalizeInv'
<1> SUFFICES ASSUME TypeOK, FinalizeInv, [Next]_vars PROVE FinalizeInv'
  OBVIOUS
<1>1. created \in BOOLEAN /\ handle \in BOOLEAN
  BY DEF TypeOK
<1>2. /\ pc \in [Thread -> PcState] /\ op \in [Thread -> OpState]
      /\ App \subseteq Thread /\ Sender \in Thread /\ Sender \notin App
  BY ConstantsTyped, ThreadsDiffer DEF TypeOK
<1>3. SUFFICES ASSUME created', ~handle'
               PROVE  SenderGone' \/ \E t \in App : pc'[t] = "join"
  BY DEF FinalizeInv
<1>4. ASSUME created /\ ~handle,
             SenderGone => SenderGone',
             \A t \in App : pc[t] = "join" => pc'[t] = "join"
      PROVE  SenderGone' \/ \E t \in App : pc'[t] = "join"
  BY <1>4 DEF FinalizeInv
<1>5. ASSUME GetOrCreate PROVE created /\ ~handle /\ PcAfterCreate = pc
  BY <1>1, <1>3, <1>5 DEF GetOrCreate, PcAfterCreate
<1>6. ASSUME NEW t \in Thread, FlushStep(t)
      PROVE  SenderGone' \/ \E u \in App : pc'[u] = "join"
  <2>1. op[t] # "ready" /\ \A u \in Thread \ {t} : op'[u] = op[u]
    BY <1>2, <1>6 DEF FlushStep, TryLock, LockForFlush, PushPage
  <2>2. pc' = pc /\ created /\ ~handle
    BY <1>1, <1>3, <1>5, <1>6 DEF FlushStep, TryLock, LockForFlush, PushPage
  <2>3. SenderGone => SenderGone'
    BY <1>2, <2>1, <2>2 DEF SenderGone
  <2> QED
    BY <1>4, <2>2, <2>3
<1>7. ASSUME SenderStep PROVE SenderGone' \/ \E u \in App : pc'[u] = "join"
  <2>1. pc[Sender] # "gone"
    <3>1. ASSUME SenderPanics PROVE pc[Sender] # "gone"
      <4>1. Len(Outgoing) - 1 >= 0
        BY <3>1 DEF SenderPanics
      <4>2. pc[Sender] = "gone" => Outgoing = <<>>
        BY DEF Outgoing
      <4> QED
        BY <4>1, <4>2
    <3> QED
      BY <1>7, <3>1 DEF SenderStep, SenderStart, SenderFreq, SenderLoad, SenderLock,
                SenderTake, SenderUnlock, SenderUnflag, SenderData, SenderSendData, SenderSent,
                SenderSendFailed, SenderEnd, SenderExit, At
  <2>2. created /\ ~handle /\ \A u \in App : pc'[u] = pc[u]
    BY <1>1, <1>2, <1>3, <1>7 DEF SenderStep, SenderStart, SenderFreq, SenderLoad, SenderLock,
              SenderTake, SenderUnlock, SenderUnflag, SenderData, SenderSendData, SenderSent,
              SenderSendFailed, SenderEnd, SenderPanics, SenderExit, GoTo, sharedVars
  <2> QED
    BY <1>4, <2>1, <2>2 DEF SenderGone
<1>8. ASSUME NEW t \in App, CallStep(t)
      PROVE  SenderGone' \/ \E u \in App : pc'[u] = "join"
  <2>1. /\ created /\ ~handle
        /\ pc[t] # "join" /\ \A u \in Thread \ {t} : pc'[u] = pc[u] /\ op'[u] = op[u]
    BY <1>1, <1>2, <1>3, <1>8 DEF CallStep, Event, FlushThreadLocal, Exit, CallInit,
                            CallFinalize, Idle, RecordEvent, FlushForced, sharedVars
  <2> QED
    BY <1>2, <1>4, <2>1 DEF SenderGone
<1>9. ASSUME NEW t \in App, BodyStep(t)
      PROVE  SenderGone' \/ \E u \in App : pc'[u] = "join"
  <2>1. CASE InitLock(t) \/ InitStorage(t) \/ FinalizeStore(t) \/ FinalizeLock(t)
    <3>1. created /\ ~handle
      BY <1>1, <1>3, <1>5, <2>1 DEF InitLock, InitStorage, FinalizeStore, FinalizeLock
    <3>2. /\ pc[t] # "join" /\ op' = op
          /\ \A u \in Thread \ {t} : pc'[u] = pc[u]
      BY <1>2, <1>5, <2>1 DEF InitLock, InitStorage, FinalizeStore, FinalizeLock
    <3> QED
      BY <1>2, <1>4, <3>1, <3>2 DEF SenderGone
  <2>2. CASE FinalizeTakeHandle(t)
    <3>1. CASE handle
      BY <1>2, <2>2, <3>1 DEF FinalizeTakeHandle
    <3>2. CASE ~handle
      <4>1. created /\ pc[t] # "join" /\ op' = op
            /\ \A u \in Thread \ {t} : pc'[u] = pc[u]
        BY <1>2, <1>3, <2>2 DEF FinalizeTakeHandle
      <4> QED
        BY <1>2, <1>4, <3>2, <4>1 DEF SenderGone
    <3> QED
      BY <3>1, <3>2
  <2>3. CASE FinalizeJoin(t)
    BY <1>2, <2>3 DEF FinalizeJoin, SenderGone
  <2> QED
    BY <1>9, <2>1, <2>2, <2>3 DEF BodyStep
<1>10. CASE UNCHANGED vars
  BY <1>3, <1>4, <1>10 DEF vars, sharedVars, localVars, SenderGone
<1> QED
  BY <1>6, <1>7, <1>8, <1>9, <1>10 DEF Next, Terminated

(***************************************************************************)
(* However many threads call finalize, and however often, what its comment *)
(* says holds for the one that takes the handle, and the others return     *)
(* early only while that one waits.                                        *)
(***************************************************************************)
THEOREM FinalizeJoins == Spec => FinalizeWaits
<1> DEFINE Waits == \A t \in App : pc[t] # "after" /\ pc'[t] = "after" /\ created =>
                      SenderGone \/ \E u \in App \ {t} : pc[u] = "join"
<1>1. TypeOK /\ FinalizeInv /\ [Next]_vars => [Waits]_vars
  <2> SUFFICES ASSUME TypeOK, FinalizeInv, Next, NEW t \in App,
                      pc[t] # "after", pc'[t] = "after", created
               PROVE  SenderGone \/ \E u \in App \ {t} : pc[u] = "join"
    BY DEF vars, sharedVars, localVars
  <2>1. pc \in [Thread -> PcState] /\ App \subseteq Thread /\ Sender \notin App
    BY ConstantsTyped, ThreadsDiffer DEF TypeOK
  <2>2. ASSUME NEW u \in Thread, FlushStep(u) PROVE FALSE
    BY <2>1, <2>2 DEF FlushStep, TryLock, LockForFlush, PushPage, PcAfterCreate
  <2>3. ASSUME SenderStep PROVE FALSE
    BY <2>1, <2>3 DEF SenderStep, SenderStart, SenderFreq, SenderLoad, SenderLock,
              SenderTake, SenderUnlock, SenderUnflag, SenderData, SenderSendData, SenderSent,
              SenderSendFailed, SenderEnd, SenderPanics, SenderExit, GoTo
  <2>4. ASSUME NEW u \in App, CallStep(u) PROVE FALSE
    BY <2>1, <2>4 DEF CallStep, Event, FlushThreadLocal, Exit, CallInit,
                      CallFinalize
  <2>5. ASSUME NEW u \in App, BodyStep(u)
        PROVE  SenderGone \/ \E v \in App \ {t} : pc[v] = "join"
    <3>1. CASE FinalizeTakeHandle(u)
      <4>1. u = t /\ pc[t] = "finTake" /\ ~handle
        BY <2>1, <3>1 DEF FinalizeTakeHandle
      <4> QED
        BY <4>1 DEF FinalizeInv
    <3>2. CASE FinalizeJoin(u)
      BY <3>2 DEF FinalizeJoin
    <3>3. ASSUME \/ InitLock(u) \/ InitStorage(u)
                 \/ FinalizeStore(u) \/ FinalizeLock(u)
          PROVE  FALSE
      BY <2>1, <3>3 DEF InitLock, InitStorage, FinalizeStore, FinalizeLock,
                        PcAfterCreate
    <3> QED
      BY <2>5, <3>1, <3>2, <3>3 DEF BodyStep
  <2>6. Terminated => FALSE
    BY DEF Terminated, vars, localVars
  <2> QED
    BY <2>2, <2>3, <2>4, <2>5, <2>6 DEF Next
<1>2. Spec => []FinalizeInv
  BY FinalizeInit, FinalizeNext, TypeCorrect, PTL DEF Spec
<1> QED
  BY <1>1, <1>2, TypeCorrect, PTL DEF Spec, FinalizeWaits
-----------------------------------------------------------------------------
(***************************************************************************)
(* What the sending thread writes is a stream that decode_packets can      *)
(* read: the invariant joins the place where the thread is in its program  *)
(* with what it has in its hands and what it has sent.                     *)
(***************************************************************************)
Ended == {"exit", "gone"}

(* Where the sending thread has nothing to send.                             *)
EmptyHanded == {"none", "start", "sleep", "load", "lock", "take", "end"}

(* The packets that bring pages.                                             *)
Headed ==
  \A i \in 1..Len(stream) :
    stream[i].type \in {"data", "failed"} <=> stream[i].headers # <<>>

(* A stream that more may be sent after.                                     *)
Open ==
  \A i \in 1..Len(stream) :
    /\ stream[i].type = "info" <=> i = 1
    /\ stream[i].type \in {"data", "failed"} <=> stream[i].headers # <<>>
    /\ stream[i].type # "end"

SenderInv ==
  /\ ~created => pc[Sender] = "none"
  /\ pc[Sender] \in {"none", "start"} => stream = <<>>
  /\ pc[Sender] \notin {"none", "start"} \cup Ended => stream # <<>>
  /\ pc[Sender] \in EmptyHanded => taken = <<>> /\ failed = <<>>
  /\ pc[Sender] = "sendData" => taken # <<>>
  /\ pc[Sender] \in {"sent", "failed"} => taken = <<>>
  /\ pc[Sender] \notin Ended => Open
  /\ Headed /\ StreamWellFormed

LEMMA OpenIsFormed == Open => Headed /\ StreamWellFormed
  BY DEF Open, Headed, StreamWellFormed
-----------------------------------------------------------------------------
(* Packets that are in the middle of a stream leave it open.                 *)
Inner(packets) ==
  \A i \in 1..Len(packets) :
    /\ packets[i].type \in {"data", "failed", "freq"}
    /\ packets[i].type # "freq" <=> packets[i].headers # <<>>

LEMMA InnerSent ==
  ASSUME stream \in Seq(Packet), Open, NEW g \in Seq(Packet), Inner(g),
         stream # <<>> \/ g = <<>>, stream' = stream \o g
  PROVE  Open' /\ (stream # <<>> => stream' # <<>>)
<1>1. /\ Len(stream') = Len(stream) + Len(g) /\ Len(stream) \in Nat /\ Len(g) \in Nat
      /\ \A i \in 1..Len(stream) : stream'[i] = stream[i]
      /\ \A i \in 1..Len(g) : stream'[Len(stream) + i] = g[i]
  BY ConcatAt
<1>2. /\ stream # <<>> => Len(stream) # 0
      /\ g = <<>> => Len(g) = 0
      /\ Len(stream') # 0 => stream' # <<>>
  OBVIOUS
<1>3. stream # <<>> => stream' # <<>>
  BY <1>1, <1>2
<1>4. ASSUME NEW i \in 1..Len(stream')
      PROVE  /\ stream'[i].type = "info" <=> i = 1
             /\ stream'[i].type \in {"data", "failed"} <=> stream'[i].headers # <<>>
             /\ stream'[i].type # "end"
  <2>1. CASE i \in 1..Len(stream)
    BY <1>1, <2>1 DEF Open
  <2>2. CASE i \notin 1..Len(stream)
    <3>1. i - Len(stream) \in 1..Len(g) /\ i = Len(stream) + (i - Len(stream)) /\ i # 1
      BY <1>1, <1>2, <2>2
    <3>2. stream'[i] = g[i - Len(stream)]
      BY <1>1, <3>1
    <3> QED
      BY <3>1, <3>2 DEF Inner
  <2> QED
    BY <2>1, <2>2
<1> QED
  BY <1>3, <1>4 DEF Open

LEMMA PrefixInner ==
  ASSUME NEW g \in Seq(Packet), Inner(g), NEW k \in 0..Len(g)
  PROVE  SubSeq(g, 1, k) \in Seq(Packet) /\ Inner(SubSeq(g, 1, k))
<1> DEFINE h == SubSeq(g, 1, k)
<1>1. h \in Seq(Packet) /\ Len(h) = k /\ \A i \in 1..k : h[i] = g[i]
  OBVIOUS
<1> HIDE DEF h
<1>2. Inner(h)
  BY <1>1 DEF Inner
<1> QED
  BY <1>1, <1>2 DEF h

(* What is sent from each place.                                             *)
LEMMA OutgoingKinds ==
  ASSUME PacketsTyped, SenderInv
  PROVE  /\ Outgoing \in Seq(Packet)
         /\ pc[Sender] = "start" => /\ Len(Outgoing) = 1 /\ Outgoing[1].type = "info"
                                    /\ Outgoing[1].headers = <<>>
         /\ pc[Sender] \in {"sleep", "sendData", "failed"} => Inner(Outgoing)
         /\ pc[Sender] = "end" => /\ Len(Outgoing) = 2 /\ Outgoing[1].type = "freq"
                                  /\ Outgoing[2].type = "end"
                                  /\ Outgoing[1].headers = <<>> /\ Outgoing[2].headers = <<>>
         /\ pc[Sender] \notin {"start", "sleep", "sendData", "failed", "end"} => Len(Outgoing) = 0
<1>1. Outgoing \in Seq(Packet)
  BY OutgoingTyped
<1>2. CASE pc[Sender] = "start"
  BY <1>1, <1>2 DEF Outgoing, PacketOf
<1>3. CASE pc[Sender] = "sleep"
  <2>1. Outgoing = << PacketOf("freq", <<>>) >>
    BY <1>3 DEF Outgoing
  <2>2. Len(Outgoing) = 1 /\ Outgoing[1].type = "freq" /\ Outgoing[1].headers = <<>>
    BY <2>1 DEF PacketOf
  <2>3. Inner(Outgoing)
    BY <2>2 DEF Inner
  <2> QED
    BY <1>1, <1>3, <2>3
<1>4. CASE pc[Sender] = "sendData"
  <2>1. Outgoing = << PacketOf("data", taken) >>
    BY <1>4 DEF Outgoing
  <2>2. Len(Outgoing) = 1 /\ Outgoing[1].type = "data" /\ Outgoing[1].headers # <<>>
    BY <1>4, <2>1 DEF PacketOf, SenderInv
  <2>3. Inner(Outgoing)
    BY <2>2 DEF Inner
  <2> QED
    BY <1>1, <1>4, <2>3
<1>5. CASE pc[Sender] = "failed"
  <2>1. Outgoing = [i \in 1..Len(failed) |-> PacketOf("failed", << failed[i] >>)]
    BY <1>5 DEF Outgoing
  <2>2. Len(failed) \in Nat
    BY DEF PacketsTyped
  <2>3. Len(Outgoing) = Len(failed)
    BY <2>1, <2>2
  <2>4. Inner(Outgoing)
    BY <2>1, <2>3 DEF Inner, PacketOf
  <2> QED
    BY <1>1, <1>5, <2>4
<1>6. CASE pc[Sender] = "end"
  BY <1>1, <1>6 DEF Outgoing, PacketOf
<1>7. CASE pc[Sender] \notin {"start", "sleep", "sendData", "failed", "end"}
  BY <1>1, <1>7 DEF Outgoing
<1> QED
  BY <1>2, <1>3, <1>4, <1>5, <1>6, <1>7
-----------------------------------------------------------------------------
LEMMA SenderInit == Init => SenderInv
<1> SUFFICES ASSUME Init PROVE SenderInv
  OBVIOUS
<1>1. created = FALSE /\ stream = <<>> /\ pc[Sender] = "none"
  BY ConstantsTyped DEF Init
<1>2. Open
  BY <1>1 DEF Open
<1> QED
  BY <1>1, <1>2, OpenIsFormed, ConstantsTyped DEF SenderInv, Ended, Init

(* The other threads can only start the sending thread.                      *)
LEMMA OthersSteps ==
  ASSUME TypeOK, SenderInv,
         \/ \E t \in Thread : FlushStep(t)
         \/ \E t \in App : CallStep(t) \/ BodyStep(t)
         \/ UNCHANGED vars
  PROVE  SenderInv'
<1>1. pc \in [Thread -> PcState] /\ Sender \in Thread /\ App \subseteq Thread /\ Sender \notin App
  BY ConstantsTyped, ThreadsDiffer DEF TypeOK
<1>2. UNCHANGED <<taken, failed, stream>>
  BY DEF FlushStep, TryLock, LockForFlush, PushPage, CallStep, Event, FlushThreadLocal, Exit,
         CallInit, CallFinalize, BodyStep, InitLock, InitStorage, FinalizeStore, FinalizeLock,
         FinalizeTakeHandle, FinalizeJoin, vars, senderVars
<1>3. \/ pc'[Sender] = pc[Sender] /\ (created' = created \/ created' = TRUE)
      \/ ~created /\ created' = TRUE /\ pc'[Sender] = "start"
  <2>1. ASSUME NEW t \in Thread, FlushStep(t)
        PROVE  \/ pc' = pc /\ (created' = created \/ created' = TRUE)
               \/ ~created /\ created' = TRUE /\ pc'[Sender] = "start"
    BY <1>1, <2>1 DEF FlushStep, TryLock, LockForFlush, PushPage, GetOrCreate, PcAfterCreate
  <2>2. ASSUME NEW t \in App, CallStep(t)
        PROVE  pc'[Sender] = pc[Sender] /\ created' = created
    BY <1>1, <2>2 DEF CallStep, Event, FlushThreadLocal, Exit, CallInit, CallFinalize, sharedVars
  <2>3. ASSUME NEW t \in App, BodyStep(t), ~InitStorage(t)
        PROVE  pc'[Sender] = pc[Sender] /\ created' = created
    BY <1>1, <2>3 DEF BodyStep, InitLock, FinalizeStore, FinalizeLock, FinalizeTakeHandle,
                      FinalizeJoin, sharedVars
  <2>4. ASSUME NEW t \in App, InitStorage(t)
        PROVE  \/ pc'[Sender] = pc[Sender] /\ created' = TRUE
               \/ ~created /\ created' = TRUE /\ pc'[Sender] = "start"
    BY <1>1, <2>4 DEF InitStorage, GetOrCreate, PcAfterCreate
  <2>5. UNCHANGED vars => pc' = pc /\ created' = created
    BY DEF vars, sharedVars, localVars
  <2> QED
    BY <2>1, <2>2, <2>3, <2>4, <2>5
<1>4. Open' <=> Open
  BY <1>2 DEF Open
<1>5. StreamWellFormed' /\ Headed'
  BY <1>2 DEF SenderInv, StreamWellFormed, Headed
<1> QED
  BY <1>2, <1>3, <1>4, <1>5 DEF SenderInv, Ended, EmptyHanded

(* A step that sends nothing.                                                *)
LEMMA QuietSteps ==
  ASSUME TypeOK, SenderInv,
         \/ SenderLoad \/ SenderLock \/ SenderTake \/ SenderUnlock \/ SenderUnflag
         \/ SenderData \/ SenderSent \/ SenderExit
  PROVE  SenderInv'
<1>1. pc \in [Thread -> PcState] /\ Sender \in Thread
  BY ConstantsTyped DEF TypeOK
<1>2. stream' = stream /\ created' = created
  BY DEF SenderLoad, SenderLock, SenderTake, SenderUnlock, SenderUnflag, SenderData, SenderSent,
         SenderExit,
         sharedVars, senderVars
<1>3. Open' <=> Open
  BY <1>2 DEF Open
<1>4. CASE SenderExit
  <2>1. pc[Sender] = "exit" /\ pc'[Sender] = "gone" /\ UNCHANGED <<taken, failed>>
    BY <1>1, <1>4 DEF SenderExit, At, GoTo, senderVars
  <2>2. StreamWellFormed' /\ Headed'
    BY <1>2, <2>1 DEF SenderInv, StreamWellFormed, Headed
  <2> QED
    BY <1>2, <2>1, <2>2 DEF SenderInv, Ended, EmptyHanded
<1>5. CASE SenderLoad \/ SenderLock \/ SenderTake \/ SenderUnlock \/ SenderUnflag
  <2>1. /\ pc[Sender] \in {"sleep", "load", "lock", "take", "unlock", "unflag"}
        /\ \/ pc'[Sender] \in {"unlock", "unflag", "data"}
           \/ /\ pc'[Sender] \in {"lock", "take"} /\ pc[Sender] \in {"sleep", "load", "lock"}
              /\ UNCHANGED <<taken, failed>>
    BY <1>1, <1>5 DEF SenderLoad, SenderLock, SenderTake, SenderUnlock, SenderUnflag, At, GoTo,
                      senderVars
  <2>2. Open' /\ stream' # <<>> /\ created'
    BY <1>2, <1>3, <2>1 DEF SenderInv, Ended
  <2>3. StreamWellFormed' /\ Headed'
    BY <2>2 DEF Open, StreamWellFormed, Headed
  <2> QED
    BY <2>1, <2>2, <2>3 DEF SenderInv, Ended, EmptyHanded
<1>6. CASE SenderData
  <2>1. /\ pc[Sender] = "data" /\ UNCHANGED <<taken, failed>>
        /\ \/ pc'[Sender] = "failed" /\ taken = <<>>
           \/ pc'[Sender] = "sendData" /\ taken # <<>>
    BY <1>1, <1>6 DEF SenderData, At, GoTo, senderVars
  <2>2. Open' /\ stream' # <<>> /\ created'
    BY <1>2, <1>3, <2>1 DEF SenderInv, Ended
  <2>3. StreamWellFormed' /\ Headed'
    BY <2>2 DEF Open, StreamWellFormed, Headed
  <2> QED
    BY <2>1, <2>2, <2>3 DEF SenderInv, Ended, EmptyHanded
<1>7. CASE SenderSent
  <2>1. /\ pc[Sender] = "sent" /\ pc'[Sender] = "failed" /\ UNCHANGED <<taken, failed>>
    BY <1>1, <1>7 DEF SenderSent, At, GoTo, senderVars
  <2>2. Open' /\ stream' # <<>> /\ created' /\ taken' = <<>>
    BY <1>2, <1>3, <2>1 DEF SenderInv, Ended
  <2>3. StreamWellFormed' /\ Headed'
    BY <2>2 DEF Open, StreamWellFormed, Headed
  <2> QED
    BY <2>1, <2>2, <2>3 DEF SenderInv, Ended, EmptyHanded
<1> QED
  BY <1>4, <1>5, <1>6, <1>7

(* A step that sends its packets.                                            *)
LEMMA SendingSteps ==
  ASSUME TypeOK, SenderInv,
         SenderStart \/ SenderFreq \/ SenderSendData \/ SenderSendFailed \/ SenderEnd
  PROVE  SenderInv'
<1>1. /\ pc \in [Thread -> PcState] /\ Sender \in Thread /\ PacketsTyped /\ stream \in Seq(Packet)
  BY ConstantsTyped, TypeParts DEF TypeOK
<1>2. stream' = stream \o Outgoing /\ created' = created
  BY DEF SenderStart, SenderFreq, SenderSendData, SenderSendFailed, SenderEnd, Send, sharedVars
<1>3. Outgoing \in Seq(Packet)
  BY <1>1, OutgoingKinds
<1>4. /\ Len(stream') = Len(stream) + Len(Outgoing) /\ Len(stream) \in Nat
      /\ \A i \in 1..Len(stream) : stream'[i] = stream[i]
      /\ \A i \in 1..Len(Outgoing) : stream'[Len(stream) + i] = Outgoing[i]
  BY <1>1, <1>2, <1>3, ConcatAt
<1>5. CASE SenderStart
  <2>1. pc[Sender] = "start" /\ pc'[Sender] = "sleep" /\ Len(stream) = 0
        /\ taken' = <<>> /\ failed' = <<>> /\ created'
    BY <1>1, <1>2, <1>5 DEF SenderStart, At, GoTo, SenderInv, EmptyHanded
  <2>2. Len(stream') = 1 /\ stream'[1].type = "info" /\ stream'[1].headers = <<>>
    <3>1. Len(Outgoing) = 1 /\ Outgoing[1].type = "info" /\ Outgoing[1].headers = <<>>
      BY <1>1, <2>1, OutgoingKinds
    <3>2. 1 \in 1..Len(Outgoing) /\ Len(stream) + 1 = 1 /\ Len(stream') = 1
      BY <1>4, <2>1, <3>1
    <3> QED
      BY <1>4, <3>1, <3>2
  <2>3. Open' /\ stream' # <<>>
    BY <2>2 DEF Open
  <2>4. StreamWellFormed' /\ Headed'
    BY <2>3 DEF Open, StreamWellFormed, Headed
  <2> QED
    BY <2>1, <2>3, <2>4 DEF SenderInv, Ended, EmptyHanded
<1>6. CASE SenderFreq \/ SenderSendData \/ SenderSendFailed
  <2>1. /\ pc[Sender] \in {"sleep", "sendData", "failed"}
        /\ \/ pc'[Sender] = "sent" /\ taken' = <<>>
           \/ pc'[Sender] \in {"load", "end", "sleep"} /\ taken' = <<>> /\ failed' = <<>>
    BY <1>1, <1>6 DEF SenderFreq, SenderSendData, SenderSendFailed, At, GoTo, SenderInv, EmptyHanded
  <2>2. Inner(Outgoing) /\ Open /\ stream # <<>>
    BY <1>1, <2>1, OutgoingKinds DEF SenderInv, Ended
  <2>3. Open' /\ stream' # <<>>
    BY <1>1, <1>2, <1>3, <2>2, InnerSent
  <2>4. StreamWellFormed' /\ Headed' /\ created'
    BY <1>2, <2>1, <2>3 DEF Open, StreamWellFormed, Headed, SenderInv
  <2> QED
    BY <2>1, <2>3, <2>4 DEF SenderInv, Ended, EmptyHanded
<1>7. CASE SenderEnd
  <2>1. /\ pc[Sender] = "end" /\ pc'[Sender] = "exit"
        /\ taken' = <<>> /\ failed' = <<>> /\ created'
    BY <1>1, <1>2, <1>7 DEF SenderEnd, At, GoTo, SenderInv, EmptyHanded
  <2>2. Open /\ Len(stream) # 0
    <3>1. Open /\ stream # <<>>
      BY <2>1 DEF SenderInv, Ended
    <3> QED
      BY <1>1, <3>1, EmptySeq
  <2>3. /\ Len(Outgoing) = 2 /\ Outgoing[1].type = "freq" /\ Outgoing[2].type = "end"
        /\ Outgoing[1].headers = <<>> /\ Outgoing[2].headers = <<>>
    BY <1>1, <2>1, OutgoingKinds
  <2>4. /\ Len(stream') = Len(stream) + 2
        /\ stream'[Len(stream) + 1] = Outgoing[1] /\ stream'[Len(stream) + 2] = Outgoing[2]
    BY <1>4, <2>3
  <2>5. ASSUME NEW i \in 1..Len(stream')
        PROVE  /\ stream'[i].type = "info" <=> i = 1
               /\ stream'[i].type \in {"data", "failed"} <=> stream'[i].headers # <<>>
               /\ stream'[i].type = "end" => i = Len(stream') /\ stream'[i - 1].type = "freq"
    <3>1. CASE i \in 1..Len(stream)
      BY <1>4, <2>2, <3>1 DEF Open
    <3>2. CASE i = Len(stream) + 1
      BY <1>4, <2>2, <2>3, <2>4, <3>2
    <3>3. CASE i = Len(stream) + 2
      <4>1. i - 1 = Len(stream) + 1
        BY <1>4, <3>3
      <4> QED
        BY <1>4, <2>2, <2>3, <2>4, <3>3, <4>1
    <3> QED
      BY <1>4, <2>4, <3>1, <3>2, <3>3
  <2>6. StreamWellFormed' /\ Headed'
    BY <2>1, <2>5 DEF StreamWellFormed, Headed
  <2> QED
    BY <2>1, <2>6 DEF SenderInv, Ended, EmptyHanded
<1> QED
  BY <1>5, <1>6, <1>7

(* A panic leaves a stream without its end.                                  *)
LEMMA PanicStep ==
  ASSUME TypeOK, SenderInv, SenderPanics
  PROVE  SenderInv'
<1>1. /\ pc \in [Thread -> PcState] /\ Sender \in Thread /\ PacketsTyped /\ stream \in Seq(Packet)
  BY ConstantsTyped, TypeParts DEF TypeOK
<1>2. PICK k \in 0..(Len(Outgoing) - 1) : stream' = stream \o SubSeq(Outgoing, 1, k)
  BY DEF SenderPanics
<1>3. pc'[Sender] = "exit" /\ created' = created
  BY <1>1 DEF SenderPanics, GoTo, sharedVars
<1> DEFINE g == SubSeq(Outgoing, 1, k)
<1>4. /\ Outgoing \in Seq(Packet) /\ Len(Outgoing) \in Nat
        /\ k \in 0..Len(Outgoing) /\ k < Len(Outgoing)
  BY <1>1, <1>2, OutgoingKinds
<1>5. g \in Seq(Packet) /\ Len(g) = k /\ \A i \in 1..k : g[i] = Outgoing[i]
  BY <1>4
<1>6. pc[Sender] \in {"start", "sleep", "sendData", "failed", "end"}
  BY <1>1, <1>4, OutgoingKinds
<1>7. Inner(g) /\ (stream # <<>> \/ g = <<>>)
  <2>1. CASE pc[Sender] = "start"
    <3> HIDE DEF g
    <3>0. Len(Outgoing) = 1
      BY <1>1, <2>1, OutgoingKinds
    <3>1. Len(g) = 0
      BY <1>4, <1>5, <3>0
    <3>2. g = <<>>
      BY <1>5, <3>1, EmptySeq
    <3> QED
      BY <3>1, <3>2 DEF Inner
  <2>2. CASE pc[Sender] = "end"
    <3> HIDE DEF g
    <3>0. Len(Outgoing) = 2 /\ Outgoing[1].type = "freq" /\ Outgoing[1].headers = <<>>
      BY <1>1, <2>2, OutgoingKinds
    <3>1. k =< 1 /\ Outgoing[1].type = "freq" /\ Outgoing[1].headers = <<>>
      BY <1>4, <3>0
    <3>2. Inner(g)
      BY <1>4, <1>5, <3>1 DEF Inner
    <3> QED
      BY <2>2, <3>2 DEF SenderInv, Ended
  <2>3. CASE pc[Sender] \in {"sleep", "sendData", "failed"}
    BY <1>1, <1>4, <2>3, OutgoingKinds, PrefixInner DEF SenderInv, Ended
  <2> QED
    BY <1>6, <2>1, <2>2, <2>3
<1> HIDE DEF g
<1>8. stream' = stream \o g
  BY <1>2 DEF g
<1>9. Open
  BY <1>6 DEF SenderInv, Ended
<1>10. Open'
  BY <1>1, <1>5, <1>7, <1>8, <1>9, InnerSent
<1>11. StreamWellFormed' /\ Headed' /\ created'
  BY <1>3, <1>6, <1>10 DEF Open, StreamWellFormed, Headed, SenderInv
<1> QED
  BY <1>3, <1>11 DEF SenderInv, Ended, EmptyHanded

LEMMA SenderNext == TypeOK /\ SenderInv /\ [Next]_vars => SenderInv'
  BY OthersSteps, QuietSteps, SendingSteps, PanicStep DEF Next, SenderStep, Terminated

(***************************************************************************)
(* The packets form what decode_packets reads, whoever creates the storage *)
(* and whenever a sender panics: the information first, no data packet     *)
(* without a page, and 0xff at the end only and right after a frequency,   *)
(* once nothing that was taken is left behind.                             *)
(***************************************************************************)
THEOREM StreamFramed == Spec => []StreamWellFormed
<1>1. SenderInv => StreamWellFormed
  BY DEF SenderInv
<1> QED
  BY <1>1, SenderInit, SenderNext, TypeCorrect, PTL DEF Spec
-----------------------------------------------------------------------------
(***************************************************************************)
(* Every event is accounted for, and the pipeline implements EventLog, for *)
(* any number of threads.  The invariant speaks of the places a page can   *)
(* be in: the pages in them never overlap, cover whatever has left a       *)
(* buffer, and are in the order in which a thread recorded them as far as  *)
(* they are on their way to a data packet.  All steps but a push move the  *)
(* pages from place to place.                                              *)
(***************************************************************************)
(* The places on the way to a data packet, in the order of the pages there.  *)
Rank(p) ==
  CASE p.where = "sent" /\ stream[p.packet].type = "data" -> 0
    [] p.where = "taken" -> 1
    [] p.where = "ring"  -> 2
    [] OTHER -> 3

(* The places of the pages the sending thread has taken out of the storage.  *)
Held(p) == p.where \in {"sent", "taken", "failed"}

(* Where the sending thread has left the storage behind.                     *)
AfterTake == {"unlock", "unflag", "data", "sendData", "sent", "failed", "end"}

Before(h, g) == h.thread = g.thread => h.last < g.first

PlacesApart ==
  \A p, q \in Places :
    p # q => Before(HeaderAt(p), HeaderAt(q)) \/ Before(HeaderAt(q), HeaderAt(p))

PlacesCover ==
  \A t \in Thread : \A n \in 1..flushed[t] :
    \E p \in Places : Covers(HeaderAt(p), t, n)

PlacesBounded ==
  \A p \in Places :
    /\ HeaderAt(p) \in Header
    /\ 1 =< HeaderAt(p).first /\ HeaderAt(p).last =< flushed[HeaderAt(p).thread]

PlacesOrdered ==
  \A p, q \in Places :
    Rank(p) < Rank(q) /\ Rank(q) =< 2 => Before(HeaderAt(p), HeaderAt(q))

PlaceInv == PlacesApart /\ PlacesCover /\ PlacesBounded /\ PlacesOrdered

SizeInv == \A i \in 1..Len(pages) : pages[i].size # 0

DrainInv ==
  /\ isFinalizing => finalizeStarted
  /\ pc[Sender] = "end" => isFinalizing
  /\ \A t \in Thread : due[t] =< flushed[t]
  /\ pc[Sender] \in AfterTake /\ isFinalizing =>
       \A t \in Thread : \A n \in 1..due[t] :
         \E p \in Places : Held(p) /\ Covers(HeaderAt(p), t, n)
-----------------------------------------------------------------------------
(* A step that moves pages: to says where the page in each place goes.       *)
Moves(to) ==
  /\ to \in [Places -> Places']
  /\ \A q \in Places' : \E p \in Places : q = to[p]
  /\ \A p \in Places : HeaderAt(to[p])' = HeaderAt(p) /\ (Held(p) => Held(to[p]))
  /\ \A p, q \in Places :
       Rank(to[p])' < Rank(to[q])' /\ Rank(to[q])' =< 2 => Rank(p) < Rank(q) /\ Rank(q) =< 2

LEMMA MovedPages ==
  ASSUME PlaceInv, NEW to, Moves(to), UNCHANGED flushed
  PROVE  PlaceInv'
<1>1. PlacesApart'
  BY DEF PlaceInv, Moves, PlacesApart
<1>2. PlacesCover'
  BY DEF PlaceInv, Moves, PlacesCover
<1>3. PlacesBounded'
  BY DEF PlaceInv, Moves, PlacesBounded
<1>4. PlacesOrdered'
  BY DEF PlaceInv, Moves, PlacesOrdered
<1> QED
  BY <1>1, <1>2, <1>3, <1>4 DEF PlaceInv
-----------------------------------------------------------------------------
LEMMA PlaceParts ==
  ASSUME NEW w, NEW i, NEW j
  PROVE  /\ Place(w, i, j).where = w /\ Place(w, i, j).packet = i /\ Place(w, i, j).index = j
         /\ \A w2, i2, j2 : Place(w, i, j) = Place(w2, i2, j2) => w = w2 /\ i = i2 /\ j = j2
  BY DEF Place

(* The places, listed.                                                       *)
PlacesListed ==
  \A p : p \in Places <=>
    \/ \E i \in 1..Len(stream) : \E j \in 1..Len(stream[i].headers) : p = Place("sent", i, j)
    \/ \E j \in 1..Len(taken)   : p = Place("taken", 0, j)
    \/ \E j \in 1..Len(failed)  : p = Place("failed", 0, j)
    \/ \E j \in 1..Len(pages)   : p = Place("ring", 0, j)
    \/ \E j \in 1..Len(skipped) : p = Place("dropped", 0, j)

(* What is there.                                                            *)
PlacesHold ==
  /\ \A i, j : /\ HeaderAt(Place("sent", i, j)) = stream[i].headers[j]
               /\ HeaderAt(Place("taken", i, j)) = taken[j]
               /\ HeaderAt(Place("failed", i, j)) = failed[j]
               /\ HeaderAt(Place("ring", i, j)) = pages[j].header
               /\ HeaderAt(Place("dropped", i, j)) = skipped[j]
  /\ \A i, j : /\ Rank(Place("sent", i, j)) = IF stream[i].type = "data" THEN 0 ELSE 3
               /\ Rank(Place("taken", i, j)) = 1
               /\ Rank(Place("failed", i, j)) = 3
               /\ Rank(Place("ring", i, j)) = 2
               /\ Rank(Place("dropped", i, j)) = 3

LEMMA PlacesAre == PlacesListed
<1> SUFFICES ASSUME NEW p
             PROVE  p \in Places <=>
       \/ \E i \in 1..Len(stream) : \E j \in 1..Len(stream[i].headers) : p = Place("sent", i, j)
       \/ \E j \in 1..Len(taken)   : p = Place("taken", 0, j)
       \/ \E j \in 1..Len(failed)  : p = Place("failed", 0, j)
       \/ \E j \in 1..Len(pages)   : p = Place("ring", 0, j)
       \/ \E j \in 1..Len(skipped) : p = Place("dropped", 0, j)
  BY DEF PlacesListed
<1> DEFINE In(i) == {Place("sent", i, j) : j \in 1..Len(stream[i].headers)}
           Sent  == UNION {In(i) : i \in 1..Len(stream)}
<1>1. p \in Sent <=>
        \E i \in 1..Len(stream) : \E j \in 1..Len(stream[i].headers) : p = Place("sent", i, j)
  <2>1. p \in Sent <=> \E i \in 1..Len(stream) : p \in In(i)
    BY Zenon
  <2>2. \A i : p \in In(i) <=> \E j \in 1..Len(stream[i].headers) : p = Place("sent", i, j)
    OBVIOUS
  <2> QED
    BY <2>1, <2>2, Zenon
<1>2. Places = Sent \cup {Place("taken", 0, j) : j \in 1..Len(taken)}
                    \cup {Place("failed", 0, j) : j \in 1..Len(failed)}
                    \cup {Place("ring", 0, j) : j \in 1..Len(pages)}
                    \cup {Place("dropped", 0, j) : j \in 1..Len(skipped)}
  BY Zenon DEF Places
<1> HIDE DEF Sent
<1> QED
  BY <1>1, <1>2

LEMMA PlacesAreNext == PlacesListed'
  BY PlacesAre, PTL

LEMMA PlacesHoldThat == PlacesHold
<1>1. \A i, j : /\ HeaderAt(Place("sent", i, j)) = stream[i].headers[j]
               /\ HeaderAt(Place("taken", i, j)) = taken[j]
               /\ HeaderAt(Place("failed", i, j)) = failed[j]
               /\ HeaderAt(Place("ring", i, j)) = pages[j].header
               /\ HeaderAt(Place("dropped", i, j)) = skipped[j]
  BY PlaceParts DEF HeaderAt
<1>2. \A i, j : /\ Rank(Place("sent", i, j)) = IF stream[i].type = "data" THEN 0 ELSE 3
               /\ Rank(Place("taken", i, j)) = 1
               /\ Rank(Place("failed", i, j)) = 3
               /\ Rank(Place("ring", i, j)) = 2
               /\ Rank(Place("dropped", i, j)) = 3
  BY PlaceParts DEF Rank
<1> QED
  BY <1>1, <1>2 DEF PlacesHold

LEMMA PlacesHoldNext == PlacesHold'
  BY PlacesHoldThat, PTL
-----------------------------------------------------------------------------
(* What each step does to the places.                                        *)

LEMMA PlaceOf ==
  ASSUME NEW p \in Places
  PROVE  \/ /\ p.where = "sent"
            /\ \E i \in 1..Len(stream) :
                 \E j \in 1..Len(stream[i].headers) : p = Place("sent", i, j)
         \/ p.where = "taken"   /\ \E j \in 1..Len(taken)   : p = Place("taken", 0, j)
         \/ p.where = "failed"  /\ \E j \in 1..Len(failed)  : p = Place("failed", 0, j)
         \/ p.where = "ring"    /\ \E j \in 1..Len(pages)   : p = Place("ring", 0, j)
         \/ p.where = "dropped" /\ \E j \in 1..Len(skipped) : p = Place("dropped", 0, j)
<1>1. CASE \E i \in 1..Len(stream) : \E j \in 1..Len(stream[i].headers) : p = Place("sent", i, j)
  BY <1>1, PlaceParts
<1>2. CASE \E j \in 1..Len(taken) : p = Place("taken", 0, j)
  BY <1>2, PlaceParts
<1>3. CASE \E j \in 1..Len(failed) : p = Place("failed", 0, j)
  BY <1>3, PlaceParts
<1>4. CASE \E j \in 1..Len(pages) : p = Place("ring", 0, j)
  BY <1>4, PlaceParts
<1>5. CASE \E j \in 1..Len(skipped) : p = Place("dropped", 0, j)
  BY <1>5, PlaceParts
<1> QED
  BY <1>1, <1>2, <1>3, <1>4, <1>5, PlacesAre DEF PlacesListed

(* A place that a step leaves alone.                                         *)
LEMMA SamePlace ==
  ASSUME NEW p,
         \/ \E i \in 1..Len(stream) : \E j \in 1..Len(stream[i].headers) :
              p = Place("sent", i, j) /\ i \in 1..Len(stream') /\ stream'[i] = stream[i]
         \/ \E j \in 1..Len(taken)   : p = Place("taken", 0, j) /\ taken' = taken
         \/ \E j \in 1..Len(failed)  : p = Place("failed", 0, j) /\ failed' = failed
         \/ \E j \in 1..Len(pages)   : p = Place("ring", 0, j) /\ pages' = pages
         \/ \E j \in 1..Len(skipped) : p = Place("dropped", 0, j) /\ skipped' = skipped
  PROVE  p \in Places' /\ HeaderAt(p)' = HeaderAt(p) /\ Rank(p)' = Rank(p) /\ Rank(p) \in 0..3
<1>1. CASE \E i \in 1..Len(stream) : \E j \in 1..Len(stream[i].headers) :
             p = Place("sent", i, j) /\ i \in 1..Len(stream') /\ stream'[i] = stream[i]
  <2>1. PICK i \in 1..Len(stream) : \E j \in 1..Len(stream[i].headers) :
               p = Place("sent", i, j) /\ i \in 1..Len(stream') /\ stream'[i] = stream[i]
    BY <1>1
  <2>2. PICK j \in 1..Len(stream[i].headers) : p = Place("sent", i, j)
    BY <2>1
  <2>3. i \in 1..Len(stream') /\ stream'[i] = stream[i]
    BY <2>1
  <2>4. p \in Places'
    BY <2>2, <2>3, PlacesAreNext DEF PlacesListed
  <2>5. /\ HeaderAt(p) = stream[i].headers[j]
        /\ Rank(p) = IF stream[i].type = "data" THEN 0 ELSE 3
    BY <2>2, PlacesHoldThat DEF PlacesHold
  <2>6. /\ HeaderAt(p)' = stream'[i].headers[j]
        /\ Rank(p)' = IF stream'[i].type = "data" THEN 0 ELSE 3
    BY <2>2, PlacesHoldNext DEF PlacesHold
  <2> QED
    BY <2>3, <2>4, <2>5, <2>6
<1>2. CASE \E j \in 1..Len(taken) : p = Place("taken", 0, j) /\ taken' = taken
  <2>1. p \in Places'
    BY <1>2, PlacesAreNext DEF PlacesListed
  <2> QED
    BY <1>2, <2>1, PlacesHoldThat, PlacesHoldNext DEF PlacesHold
<1>3. CASE \E j \in 1..Len(failed) : p = Place("failed", 0, j) /\ failed' = failed
  <2>1. p \in Places'
    BY <1>3, PlacesAreNext DEF PlacesListed
  <2> QED
    BY <1>3, <2>1, PlacesHoldThat, PlacesHoldNext DEF PlacesHold
<1>4. CASE \E j \in 1..Len(pages) : p = Place("ring", 0, j) /\ pages' = pages
  <2>1. p \in Places'
    BY <1>4, PlacesAreNext DEF PlacesListed
  <2> QED
    BY <1>4, <2>1, PlacesHoldThat, PlacesHoldNext DEF PlacesHold
<1>5. CASE \E j \in 1..Len(skipped) : p = Place("dropped", 0, j) /\ skipped' = skipped
  <2>1. p \in Places'
    BY <1>5, PlacesAreNext DEF PlacesListed
  <2> QED
    BY <1>5, <2>1, PlacesHoldThat, PlacesHoldNext DEF PlacesHold
<1> QED
  BY <1>1, <1>2, <1>3, <1>4, <1>5

(* Packets without a page, or no packet at all.                              *)
LEMMA MovesNone ==
  ASSUME PacketsTyped, NEW g \in Seq(Packet), \A i \in 1..Len(g) : g[i].headers = <<>>,
         stream' = stream \o g, UNCHANGED <<pages, skipped, taken, failed>>
  PROVE  \E to : Moves(to)
<1>1. /\ Len(stream') = Len(stream) + Len(g) /\ Len(stream) \in Nat /\ Len(g) \in Nat
      /\ \A i \in 1..Len(stream) : stream'[i] = stream[i]
      /\ \A i \in 1..Len(g) : stream'[Len(stream) + i] = g[i]
  BY ConcatAt DEF PacketsTyped
<1>2. ASSUME NEW i \in 1..Len(stream'), i \notin 1..Len(stream),
             NEW j \in 1..Len(stream'[i].headers)
      PROVE  FALSE
  <2>1. i - Len(stream) \in 1..Len(g) /\ i = Len(stream) + (i - Len(stream))
    BY <1>1, <1>2
  <2>2. stream'[i].headers = <<>>
    BY <1>1, <2>1
  <2>3. Len(stream'[i].headers) = 0
    BY <2>2
  <2> QED
    BY <1>2, <2>3
<1>3. \A i \in 1..Len(stream) : i \in 1..Len(stream')
  BY <1>1
<1>4. ASSUME NEW p PROVE p \in Places' <=> p \in Places
  BY <1>1, <1>2, <1>3, PlacesAre, PlacesAreNext DEF PlacesListed
<1>5. ASSUME NEW p \in Places
      PROVE  HeaderAt(p)' = HeaderAt(p) /\ Rank(p)' = Rank(p)
  BY <1>1, <1>3, SamePlace, PlacesAre DEF PlacesListed
<1>6. Places' = Places
  BY <1>4
<1>7. PICK to : to = [p \in Places |-> p]
  OBVIOUS
<1>8. Moves(to)
  BY <1>5, <1>6, <1>7 DEF Moves
<1> QED
  BY <1>8

(* The pages in the sending thread's hands go into a data packet.            *)
LEMMA MovesTaken ==
  ASSUME PacketsTyped, stream' = stream \o << PacketOf("data", taken) >>,
         taken' = <<>>, UNCHANGED <<pages, skipped, failed>>
  PROVE  \E to : Moves(to)
<1>0. PICK n, to : /\ n = Len(stream) + 1
                   /\ to = [p \in Places |->
                              IF p.where = "taken" THEN Place("sent", n, p.index) ELSE p]
  OBVIOUS
<1>1. /\ Len(stream') = n /\ Len(stream) \in Nat /\ Len(taken) \in Nat /\ Len(taken') = 0
      /\ \A i \in 1..Len(stream) : stream'[i] = stream[i]
      /\ stream'[n].type = "data" /\ stream'[n].headers = taken
  <2>1. PacketOf("data", taken) \in Packet
    BY DEF PacketsTyped, PacketOf, Packet
  <2>2. << PacketOf("data", taken) >> \in Seq(Packet) /\ Len(<< PacketOf("data", taken) >>) = 1
        /\ << PacketOf("data", taken) >>[1] = PacketOf("data", taken)
    BY <2>1
  <2>3. /\ Len(stream') = n /\ Len(stream) \in Nat
        /\ \A i \in 1..Len(stream) : stream'[i] = stream[i]
        /\ stream'[n] = PacketOf("data", taken)
    BY <1>0, <2>2, ConcatAt DEF PacketsTyped
  <2> QED
    BY <2>3 DEF PacketOf, PacketsTyped
<1>2. /\ \A i : i \in 1..Len(stream') <=> i \in 1..Len(stream) \/ i = n
      /\ \A j : j \notin 1..Len(taken')
  BY <1>1
(* What becomes of the page in each place.                                   *)
<1> DEFINE Sound(p) ==
             /\ to[p] \in Places' /\ HeaderAt(to[p])' = HeaderAt(p) /\ (Held(p) => Held(to[p]))
             /\ Rank(p) \in 0..3 /\ Rank(to[p])' = IF Rank(p) = 1 THEN 0 ELSE Rank(p)
<1>3. ASSUME NEW p \in Places, p.where # "taken"
      PROVE  Sound(p) /\ to[p] = p
  <2>1. to[p] = p
    BY <1>0, <1>3
  <2>2. \/ \E i \in 1..Len(stream) : \E j \in 1..Len(stream[i].headers) : p = Place("sent", i, j)
        \/ \E j \in 1..Len(failed)  : p = Place("failed", 0, j)
        \/ \E j \in 1..Len(pages)   : p = Place("ring", 0, j)
        \/ \E j \in 1..Len(skipped) : p = Place("dropped", 0, j)
    BY <1>3, PlaceOf
  <2>3. p \in Places' /\ HeaderAt(p)' = HeaderAt(p) /\ Rank(p)' = Rank(p)
    BY <1>1, <1>2, <2>2, SamePlace
  <2>4. Rank(p) \in {0, 2, 3}
    BY <2>2, PlacesHoldThat DEF PlacesHold
  <2> QED
    BY <2>1, <2>3, <2>4
<1>4. ASSUME NEW j \in 1..Len(taken)
      PROVE  /\ Place("taken", 0, j) \in Places /\ to[Place("taken", 0, j)] = Place("sent", n, j)
             /\ Sound(Place("taken", 0, j))
  <2>1. Place("taken", 0, j) \in Places
    BY PlacesAre DEF PlacesListed
  <2>2. to[Place("taken", 0, j)] = Place("sent", n, j)
    BY <1>0, <2>1, PlaceParts
  <2>3. Place("sent", n, j) \in Places'
    BY <1>1, <1>2, PlacesAreNext DEF PlacesListed
  <2>4. HeaderAt(Place("sent", n, j))' = HeaderAt(Place("taken", 0, j))
    BY <1>1, PlacesHoldThat, PlacesHoldNext DEF PlacesHold
  <2>6. Rank(Place("sent", n, j))' = 0 /\ Rank(Place("taken", 0, j)) = 1
    BY <1>1, PlacesHoldThat, PlacesHoldNext DEF PlacesHold
  <2>5. Held(Place("sent", n, j))
    BY PlaceParts DEF Held
  <2> QED
    BY <2>1, <2>2, <2>3, <2>4, <2>5, <2>6
<1>5. ASSUME NEW p \in Places PROVE Sound(p)
  <2>1. CASE p.where # "taken"
    BY <1>3, <2>1
  <2>2. CASE p.where = "taken"
    <3>1. PICK j \in 1..Len(taken) : p = Place("taken", 0, j)
      BY <2>2, PlaceOf
    <3> QED
      BY <1>4, <3>1
  <2> QED
    BY <2>1, <2>2
<1>6. ASSUME NEW q \in Places' PROVE \E p \in Places : q = to[p]
  <2>1. CASE \E j \in 1..Len(taken) : q = Place("sent", n, j)
    BY <1>4, <2>1
  <2>2. CASE q \in Places /\ q.where # "taken"
    BY <1>3, <2>2
  <2>3. (\E j \in 1..Len(taken) : q = Place("sent", n, j)) \/ (q \in Places /\ q.where # "taken")
    <3>1. CASE \E i \in 1..Len(stream') :
                 \E j \in 1..Len(stream'[i].headers) : q = Place("sent", i, j)
      BY <1>1, <1>2, <3>1, PlaceParts, PlacesAre DEF PlacesListed
    <3>2. CASE \/ \E j \in 1..Len(failed)  : q = Place("failed", 0, j)
               \/ \E j \in 1..Len(pages)   : q = Place("ring", 0, j)
               \/ \E j \in 1..Len(skipped) : q = Place("dropped", 0, j)
      BY <3>2, PlaceParts, PlacesAre DEF PlacesListed
    <3> QED
      BY <1>2, <3>1, <3>2, PlacesAreNext DEF PlacesListed
  <2> QED
    BY <2>1, <2>2, <2>3
<1>7. to \in [Places -> Places']
  BY <1>0, <1>5
<1>8. Moves(to)
  BY <1>5, <1>6, <1>7 DEF Moves
<1> QED
  BY <1>8

(* The first k of the dropped headers go into packets of their own.          *)
HeadersSent(k) ==
  /\ k \in 0..Len(failed)
  /\ \E g \in Seq(Packet) :
       /\ stream' = stream \o g /\ Len(g) = k
       /\ \A i \in 1..k : g[i] = PacketOf("failed", << failed[i] >>)
  /\ Len(failed') = Len(failed) - k
  /\ \A j \in 1..(Len(failed) - k) : failed'[j] = failed[j + k]
  /\ UNCHANGED <<pages, skipped, taken>>

LEMMA MovesFailed ==
  ASSUME PacketsTyped, NEW k, HeadersSent(k)
  PROVE  \E to : Moves(to)
<1>0. PICK n, to : /\ n = Len(stream)
                   /\ to = [p \in Places |->
                              IF p.where # "failed" THEN p
                              ELSE IF p.index =< k THEN Place("sent", n + p.index, 1)
                              ELSE Place("failed", 0, p.index - k)]
  OBVIOUS
<1>1. /\ Len(stream') = n + k /\ n \in Nat /\ n = Len(stream) /\ k \in Nat
      /\ \A i \in 1..Len(stream) : stream'[i] = stream[i]
      /\ \A i \in 1..k : stream'[n + i] = PacketOf("failed", << failed[i] >>)
  <2>1. PICK g \in Seq(Packet) :
          /\ stream' = stream \o g /\ Len(g) = k
          /\ \A i \in 1..k : g[i] = PacketOf("failed", << failed[i] >>)
    BY DEF HeadersSent
  <2>2. stream \in Seq(Packet)
    BY DEF PacketsTyped
  <2>3. /\ Len(stream') = Len(stream) + Len(g) /\ Len(stream) \in Nat /\ Len(g) \in Nat
        /\ \A i \in 1..Len(stream) : stream'[i] = stream[i]
        /\ \A i \in 1..Len(g) : stream'[Len(stream) + i] = g[i]
    <3>1. /\ Len(stream \o g) = Len(stream) + Len(g) /\ Len(stream) \in Nat /\ Len(g) \in Nat
          /\ \A i \in 1..Len(stream) : (stream \o g)[i] = stream[i]
          /\ \A i \in 1..Len(g) : (stream \o g)[Len(stream) + i] = g[i]
      BY <2>2, ConcatAt
    <3> QED
      BY <2>1, <3>1
  <2> QED
    BY <1>0, <2>1, <2>3
<1>2. \A i \in 1..k : /\ stream'[n + i].type = "failed" /\ Len(stream'[n + i].headers) = 1
                      /\ stream'[n + i].headers[1] = failed[i]
  <2> TAKE i \in 1..k
  <2>1. stream'[n + i] = [type |-> "failed", headers |-> << failed[i] >>]
    BY <1>1 DEF PacketOf
  <2>2. stream'[n + i].type = "failed" /\ stream'[n + i].headers = << failed[i] >>
    BY <2>1
  <2> QED
    BY <2>2
<1>3. /\ Len(failed) \in Nat /\ k \in 0..Len(failed) /\ Len(failed') = Len(failed) - k
      /\ \A j \in 1..(Len(failed) - k) : failed'[j] = failed[j + k]
      /\ UNCHANGED <<pages, skipped, taken>>
  BY DEF PacketsTyped, HeadersSent
<1>4. \A i : i \in 1..Len(stream') <=>
               i \in 1..Len(stream) \/ \E j \in 1..k : i = n + j
  <2> TAKE i
  <2>1. ASSUME i \in 1..Len(stream'), i \notin 1..Len(stream)
        PROVE  i - n \in 1..k /\ i = n + (i - n)
    BY <1>1, <2>1
  <2>2. ASSUME NEW j \in 1..k, i = n + j
        PROVE  i \in 1..Len(stream')
    BY <1>1, <2>2
  <2>3. i \in 1..Len(stream) => i \in 1..Len(stream')
    BY <1>1
  <2> QED
    BY <2>1, <2>2, <2>3
<1> DEFINE Sound(p) ==
             /\ to[p] \in Places' /\ HeaderAt(to[p])' = HeaderAt(p) /\ (Held(p) => Held(to[p]))
             /\ Rank(p) \in 0..3 /\ Rank(to[p])' = Rank(p)
<1>5. ASSUME NEW p \in Places, p.where # "failed"
      PROVE  Sound(p) /\ to[p] = p
  <2>1. to[p] = p
    BY <1>0, <1>5
  <2>2. \/ \E i \in 1..Len(stream) : \E j \in 1..Len(stream[i].headers) : p = Place("sent", i, j)
        \/ \E j \in 1..Len(taken)   : p = Place("taken", 0, j)
        \/ \E j \in 1..Len(pages)   : p = Place("ring", 0, j)
        \/ \E j \in 1..Len(skipped) : p = Place("dropped", 0, j)
    BY <1>5, PlaceOf
  <2>3. p \in Places' /\ HeaderAt(p)' = HeaderAt(p) /\ Rank(p)' = Rank(p) /\ Rank(p) \in 0..3
    BY <1>1, <1>3, <1>4, <2>2, SamePlace
  <2> QED
    BY <2>1, <2>3
<1>6. ASSUME NEW j \in 1..k
      PROVE  /\ Place("failed", 0, j) \in Places
             /\ to[Place("failed", 0, j)] = Place("sent", n + j, 1)
             /\ Sound(Place("failed", 0, j))
  <2>1. j \in 1..Len(failed) /\ j =< k
    BY <1>1, <1>3
  <2>2. Place("failed", 0, j) \in Places
    BY <2>1, PlacesAre DEF PlacesListed
  <2>0. PICK i : i = n + j
    OBVIOUS
  <2>3. to[Place("failed", 0, j)] = Place("sent", i, 1)
    <3>1. Place("failed", 0, j).where = "failed" /\ Place("failed", 0, j).index = j
      BY PlaceParts
    <3> QED
      BY <1>0, <2>0, <2>1, <2>2, <3>1
  <2>4. /\ i \in 1..Len(stream') /\ Len(stream'[i].headers) = 1
        /\ stream'[i].type = "failed" /\ stream'[i].headers[1] = failed[j]
    BY <1>2, <1>4, <2>0
  <2>5. Place("sent", i, 1) \in Places'
    <3>1. 1 \in 1..Len(stream'[i].headers)
      BY <2>4
    <3> QED
      BY <2>4, <3>1, PlacesAreNext DEF PlacesListed
  <2>6. HeaderAt(Place("sent", i, 1))' = HeaderAt(Place("failed", 0, j))
    <3>1. HeaderAt(Place("sent", i, 1))' = stream'[i].headers[1]
      BY PlacesHoldNext DEF PlacesHold
    <3>2. HeaderAt(Place("failed", 0, j)) = failed[j]
      BY PlacesHoldThat DEF PlacesHold
    <3> QED
      BY <2>4, <3>1, <3>2
  <2>8. Rank(Place("sent", i, 1))' = 3 /\ Rank(Place("failed", 0, j)) = 3
    <3>1. Rank(Place("sent", i, 1))' = IF stream'[i].type = "data" THEN 0 ELSE 3
      BY PlacesHoldNext DEF PlacesHold
    <3>2. Rank(Place("failed", 0, j)) = 3
      BY PlacesHoldThat DEF PlacesHold
    <3> QED
      BY <2>4, <3>1, <3>2
  <2>7. Held(Place("sent", i, 1))
    BY PlaceParts DEF Held
  <2> QED
    BY <2>0, <2>2, <2>3, <2>5, <2>6, <2>7, <2>8
<1>7. ASSUME NEW j \in 1..(Len(failed) - k)
      PROVE  \E i : /\ i = j + k /\ Place("failed", 0, i) \in Places
                    /\ to[Place("failed", 0, i)] = Place("failed", 0, j)
                    /\ Sound(Place("failed", 0, i))
  <2>0. PICK i : i = j + k
    OBVIOUS
  <2>1. i \in 1..Len(failed) /\ ~ (i =< k) /\ i - k = j
    BY <1>1, <1>3, <2>0
  <2>2. Place("failed", 0, i) \in Places
    BY <2>1, PlacesAre DEF PlacesListed
  <2>3. to[Place("failed", 0, i)] = Place("failed", 0, j)
    <3>1. Place("failed", 0, i).where = "failed" /\ Place("failed", 0, i).index = i
      BY PlaceParts
    <3> QED
      BY <1>0, <2>1, <2>2, <3>1
  <2>4. Place("failed", 0, j) \in Places'
    BY <1>3, PlacesAreNext DEF PlacesListed
  <2>7. failed'[j] = failed[i]
    BY <1>3, <2>0
  <2>5. HeaderAt(Place("failed", 0, j))' = HeaderAt(Place("failed", 0, i))
    BY <2>7, PlacesHoldThat, PlacesHoldNext DEF PlacesHold
  <2>8. Rank(Place("failed", 0, j))' = 3 /\ Rank(Place("failed", 0, i)) = 3
    BY PlacesHoldThat, PlacesHoldNext DEF PlacesHold
  <2>6. Held(Place("failed", 0, j))
    BY PlaceParts DEF Held
  <2> QED
    BY <2>0, <2>2, <2>3, <2>4, <2>5, <2>6, <2>8
<1>8. \A j \in 1..Len(failed) : j \in 1..k \/ \E i \in 1..(Len(failed) - k) : j = i + k
  <2> TAKE j \in 1..Len(failed)
  <2>1. CASE j =< k
    BY <1>1, <1>3, <2>1
  <2>2. CASE ~ (j =< k)
    <3>1. j - k \in 1..(Len(failed) - k) /\ j = (j - k) + k
      BY <1>1, <1>3, <2>2
    <3> QED
      BY <3>1
  <2> QED
    BY <2>1, <2>2
<1>9. ASSUME NEW p \in Places PROVE Sound(p)
  <2>1. CASE p.where # "failed"
    BY <1>5, <2>1
  <2>2. CASE p.where = "failed"
    <3>1. PICK j \in 1..Len(failed) : p = Place("failed", 0, j)
      BY <2>2, PlaceOf
    <3> QED
      BY <1>6, <1>7, <1>8, <3>1
  <2> QED
    BY <2>1, <2>2
<1>10. ASSUME NEW q \in Places' PROVE \E p \in Places : q = to[p]
  <2>1. CASE \E j \in 1..k : q = Place("sent", n + j, 1)
    BY <1>6, <2>1
  <2>2. CASE \E j \in 1..(Len(failed) - k) : q = Place("failed", 0, j)
    BY <1>7, <2>2
  <2>3. CASE q \in Places /\ q.where # "failed"
    BY <1>5, <2>3
  <2>4. CASE \E i \in 1..Len(stream') :
               \E j \in 1..Len(stream'[i].headers) : q = Place("sent", i, j)
    <3>0. PICK i \in 1..Len(stream') : \E j \in 1..Len(stream'[i].headers) : q = Place("sent", i, j)
      BY <2>4
    <3>1. PICK j \in 1..Len(stream'[i].headers) : q = Place("sent", i, j)
      BY <3>0
    <3>2. CASE i \in 1..Len(stream)
      BY <1>1, <2>3, <3>1, <3>2, PlaceParts, PlacesAre DEF PlacesListed
    <3>3. CASE \E l \in 1..k : i = n + l
      <4>1. PICK l \in 1..k : i = n + l
        BY <3>3
      <4>2. j = 1
        <5>1. Len(stream'[i].headers) = 1
          BY <1>2, <4>1
        <5> QED
          BY <5>1
      <4> QED
        BY <2>1, <3>1, <4>1, <4>2
    <3> QED
      BY <1>4, <3>2, <3>3
  <2>5. CASE \E j \in 1..Len(failed') : q = Place("failed", 0, j)
    BY <1>3, <2>2, <2>5
  <2>6. CASE \/ \E j \in 1..Len(taken)   : q = Place("taken", 0, j)
             \/ \E j \in 1..Len(pages)   : q = Place("ring", 0, j)
             \/ \E j \in 1..Len(skipped) : q = Place("dropped", 0, j)
    BY <1>3, <2>3, <2>6, PlaceParts, PlacesAre DEF PlacesListed
  <2> QED
    BY <1>3, <2>4, <2>5, <2>6, PlacesAreNext DEF PlacesListed
<1>11. to \in [Places -> Places']
  BY <1>0, <1>9
<1>12. Moves(to)
  BY <1>9, <1>10, <1>11 DEF Moves
<1> QED
  BY <1>12

(* The ring and the list of dropped headers go to the sending thread; out    *)
(* says whether the ring is full enough.                                     *)
StorageTaken(out) ==
  /\ out \in BOOLEAN
  /\ taken = <<>> /\ failed = <<>> /\ stream' = stream
  /\ failed' = skipped /\ skipped' = <<>>
  /\ out  => pages' = <<>> /\ taken' = [j \in 1..Len(pages) |-> pages[j].header]
  /\ ~out => pages' = pages /\ taken' = <<>>

LEMMA MovesOut ==
  ASSUME Len(pages) \in Nat, Len(skipped) \in Nat, NEW out, StorageTaken(out)
  PROVE  \E to : Moves(to)
<1>0. PICK to : to = [p \in Places |->
                        CASE p.where = "dropped" -> Place("failed", 0, p.index)
                          [] p.where = "ring" /\ out -> Place("taken", 0, p.index)
                          [] OTHER -> p]
  OBVIOUS
<1>1. /\ out \in BOOLEAN /\ stream' = stream /\ failed' = skipped /\ Len(failed') = Len(skipped)
      /\ \A j : j \notin 1..Len(taken) /\ j \notin 1..Len(failed) /\ j \notin 1..Len(skipped')
      /\ out  => /\ \A j : j \notin 1..Len(pages')
                 /\ Len(taken') = Len(pages)
                 /\ \A j \in 1..Len(pages) : taken'[j] = pages[j].header
      /\ ~out => pages' = pages /\ \A j : j \notin 1..Len(taken')
  BY DEF StorageTaken
<1> DEFINE Sound(p) ==
             /\ to[p] \in Places' /\ HeaderAt(to[p])' = HeaderAt(p) /\ (Held(p) => Held(to[p]))
             /\ Rank(p) \in {0, 2, 3}
             /\ Rank(to[p])' = IF Rank(p) = 2 /\ out THEN 1 ELSE Rank(p)
<1>2. ASSUME NEW p \in Places, p.where # "dropped", p.where # "ring"
      PROVE  Sound(p) /\ to[p] = p
  <2>1. to[p] = p
    BY <1>0, <1>2
  <2>2. \E i \in 1..Len(stream) : \E j \in 1..Len(stream[i].headers) : p = Place("sent", i, j)
    BY <1>1, <1>2, PlaceOf
  <2>3. p \in Places' /\ HeaderAt(p)' = HeaderAt(p) /\ Rank(p)' = Rank(p) /\ Rank(p) \in {0, 3}
    <3>1. Rank(p) \in {0, 3}
      BY <2>2, PlacesHoldThat DEF PlacesHold
    <3> QED
      BY <1>1, <2>2, <3>1, SamePlace
  <2> QED
    BY <2>1, <2>3
<1>3. ASSUME NEW j \in 1..Len(skipped)
      PROVE  /\ Place("dropped", 0, j) \in Places
             /\ to[Place("dropped", 0, j)] = Place("failed", 0, j)
             /\ Sound(Place("dropped", 0, j))
  <2>1. Place("dropped", 0, j) \in Places
    BY PlacesAre DEF PlacesListed
  <2>2. to[Place("dropped", 0, j)] = Place("failed", 0, j)
    <3>1. Place("dropped", 0, j).where = "dropped" /\ Place("dropped", 0, j).index = j
      BY PlaceParts
    <3> QED
      BY <1>0, <2>1, <3>1
  <2>3. Place("failed", 0, j) \in Places'
    BY <1>1, PlacesAreNext DEF PlacesListed
  <2>4. HeaderAt(Place("failed", 0, j))' = HeaderAt(Place("dropped", 0, j))
    BY <1>1, PlacesHoldThat, PlacesHoldNext DEF PlacesHold
  <2>5. Rank(Place("failed", 0, j))' = 3 /\ Rank(Place("dropped", 0, j)) = 3
    BY PlacesHoldThat, PlacesHoldNext DEF PlacesHold
  <2>6. Held(Place("failed", 0, j))
    BY PlaceParts DEF Held
  <2> QED
    BY <2>1, <2>2, <2>3, <2>4, <2>5, <2>6
<1>4. ASSUME NEW j \in 1..Len(pages), out
      PROVE  /\ Place("ring", 0, j) \in Places
             /\ to[Place("ring", 0, j)] = Place("taken", 0, j)
             /\ Sound(Place("ring", 0, j))
  <2>1. Place("ring", 0, j) \in Places
    BY PlacesAre DEF PlacesListed
  <2>2. to[Place("ring", 0, j)] = Place("taken", 0, j)
    <3>1. Place("ring", 0, j).where = "ring" /\ Place("ring", 0, j).index = j
      BY PlaceParts
    <3> QED
      BY <1>0, <1>4, <2>1, <3>1
  <2>3. Place("taken", 0, j) \in Places'
    BY <1>1, <1>4, PlacesAreNext DEF PlacesListed
  <2>4. HeaderAt(Place("taken", 0, j))' = HeaderAt(Place("ring", 0, j))
    BY <1>1, <1>4, PlacesHoldThat, PlacesHoldNext DEF PlacesHold
  <2>5. Rank(Place("taken", 0, j))' = 1 /\ Rank(Place("ring", 0, j)) = 2
    BY PlacesHoldThat, PlacesHoldNext DEF PlacesHold
  <2>6. Held(Place("taken", 0, j))
    BY PlaceParts DEF Held
  <2> QED
    BY <1>4, <2>1, <2>2, <2>3, <2>4, <2>5, <2>6
<1>5. ASSUME NEW j \in 1..Len(pages), ~out
      PROVE  /\ Place("ring", 0, j) \in Places
             /\ to[Place("ring", 0, j)] = Place("ring", 0, j)
             /\ Sound(Place("ring", 0, j))
  <2>1. Place("ring", 0, j) \in Places
    BY PlacesAre DEF PlacesListed
  <2>2. to[Place("ring", 0, j)] = Place("ring", 0, j)
    <3>1. Place("ring", 0, j).where = "ring"
      BY PlaceParts
    <3> QED
      BY <1>0, <1>5, <2>1, <3>1
  <2>3. /\ Place("ring", 0, j) \in Places'
        /\ HeaderAt(Place("ring", 0, j))' = HeaderAt(Place("ring", 0, j))
        /\ Rank(Place("ring", 0, j))' = Rank(Place("ring", 0, j))
    BY <1>1, <1>5, SamePlace
  <2>4. Rank(Place("ring", 0, j)) = 2
    BY PlacesHoldThat DEF PlacesHold
  <2> QED
    BY <1>5, <2>1, <2>2, <2>3, <2>4
<1>6. ASSUME NEW p \in Places PROVE Sound(p)
  <2>1. CASE p.where \notin {"dropped", "ring"}
    BY <1>2, <2>1
  <2>2. CASE p.where = "dropped"
    <3>1. PICK j \in 1..Len(skipped) : p = Place("dropped", 0, j)
      BY <2>2, PlaceOf
    <3> QED
      BY <1>3, <3>1
  <2>3. CASE p.where = "ring"
    <3>1. PICK j \in 1..Len(pages) : p = Place("ring", 0, j)
      BY <2>3, PlaceOf
    <3> QED
      BY <1>4, <1>5, <3>1
  <2> QED
    BY <2>1, <2>2, <2>3
<1>7. ASSUME NEW q \in Places' PROVE \E p \in Places : q = to[p]
  <2>1. CASE \E i \in 1..Len(stream') :
               \E j \in 1..Len(stream'[i].headers) : q = Place("sent", i, j)
    <3>1. q \in Places /\ q.where = "sent"
      BY <1>1, <2>1, PlaceParts, PlacesAre DEF PlacesListed
    <3> QED
      BY <1>2, <3>1
  <2>2. CASE \E j \in 1..Len(taken') : q = Place("taken", 0, j)
    BY <1>1, <1>4, <2>2
  <2>3. CASE \E j \in 1..Len(failed') : q = Place("failed", 0, j)
    BY <1>1, <1>3, <2>3
  <2>4. CASE \E j \in 1..Len(pages') : q = Place("ring", 0, j)
    BY <1>1, <1>5, <2>4
  <2> QED
    BY <1>1, <2>1, <2>2, <2>3, <2>4, PlacesAreNext DEF PlacesListed
<1>8. to \in [Places -> Places']
  BY <1>0, <1>6
<1>9. Moves(to)
  BY <1>6, <1>7, <1>8 DEF Moves
<1> QED
  BY <1>9

(* A push adds a page and drops the d oldest ones.                           *)
PagePushed(header, d) ==
  /\ d \in 0..(Len(pages) + 1)
  /\ Len(pages') = Len(pages) + 1 - d /\ Len(skipped') = Len(skipped) + d
  /\ \A j \in 1..Len(skipped) : skipped'[j] = skipped[j]
  /\ \A j \in 1..(Len(pages) + 1) :
       LET h == IF j = Len(pages) + 1 THEN header ELSE pages[j].header
       IN  IF j =< d THEN skipped'[Len(skipped) + j] = h ELSE pages'[j - d].header = h
  /\ UNCHANGED <<taken, failed, stream>>

(* to says where the pages go that were there, new where the new one is.     *)
MovesAndAdds(to, new, header) ==
  /\ to \in [Places -> Places'] /\ new \in Places'
  /\ \A q \in Places' : q = new \/ \E p \in Places : q = to[p]
  /\ \A p \in Places : HeaderAt(to[p])' = HeaderAt(p) /\ (Held(p) => Held(to[p]))
  /\ HeaderAt(new)' = header /\ Rank(new)' \in {2, 3}
  /\ \A p \in Places : Rank(p) \in 0..3 /\ Rank(to[p])' \in {Rank(p), 3}

LEMMA AddedPage ==
  ASSUME Len(pages) \in Nat, Len(skipped) \in Nat, NEW header, NEW d, PagePushed(header, d)
  PROVE  \E to, new : MovesAndAdds(to, new, header)
<1> DEFINE Dest(n, s, j) == IF j =< d THEN Place("dropped", 0, s + j) ELSE Place("ring", 0, j - d)
<1>0. PICK n, s, to, new :
        /\ n = Len(pages) /\ s = Len(skipped)
        /\ to = [p \in Places |-> IF p.where = "ring" THEN Dest(n, s, p.index) ELSE p]
        /\ new = Dest(n, s, n + 1)
  OBVIOUS
<1>1. /\ n \in Nat /\ s \in Nat /\ d \in 0..(n + 1) /\ n = Len(pages) /\ s = Len(skipped)
      /\ Len(pages') = n + 1 - d /\ Len(skipped') = s + d
      /\ \A j \in 1..s : skipped'[j] = skipped[j]
      /\ UNCHANGED <<taken, failed, stream>>
  BY <1>0 DEF PagePushed
<1>2. ASSUME NEW j \in 1..(n + 1)
      PROVE  /\ Dest(n, s, j) \in Places'
             /\ HeaderAt(Dest(n, s, j))' = IF j = n + 1 THEN header ELSE pages[j].header
             /\ Rank(Dest(n, s, j))' \in {2, 3}
  <2>1. CASE j =< d
    <3>1. PICK i : i = s + j
      OBVIOUS
    <3>2. i \in 1..Len(skipped') /\ skipped'[i] = IF j = n + 1 THEN header ELSE pages[j].header
      BY <1>1, <2>1, <3>1 DEF PagePushed
    <3>3. /\ Place("dropped", 0, i) \in Places'
      BY <3>2, PlacesAreNext DEF PlacesListed
    <3>4. HeaderAt(Place("dropped", 0, i))' = skipped'[i] /\ Rank(Place("dropped", 0, i))' = 3
      BY PlacesHoldNext DEF PlacesHold
    <3> QED
      BY <2>1, <3>1, <3>2, <3>3, <3>4
  <2>2. CASE ~ (j =< d)
    <3>1. PICK i : i = j - d
      OBVIOUS
    <3>0. j \in Nat /\ d \in Nat /\ i \in Nat /\ i + d = j
      BY <1>1, <2>2, <3>1
    <3>2. i \in 1..Len(pages') /\ pages'[i].header = IF j = n + 1 THEN header ELSE pages[j].header
      <4>1. i \in 1..Len(pages')
        BY <1>1, <2>2, <3>0
      <4>2. j \in 1..(Len(pages) + 1) /\ Len(pages) = n /\ j - d = i
        BY <1>1, <3>0
      <4>3. pages'[j - d].header = IF j = Len(pages) + 1 THEN header ELSE pages[j].header
        BY <2>2, <4>2 DEF PagePushed
      <4> QED
        BY <4>1, <4>2, <4>3
    <3>3. /\ Place("ring", 0, i) \in Places'
      BY <3>2, PlacesAreNext DEF PlacesListed
    <3>4. HeaderAt(Place("ring", 0, i))' = pages'[i].header /\ Rank(Place("ring", 0, i))' = 2
      BY PlacesHoldNext DEF PlacesHold
    <3> QED
      BY <2>2, <3>1, <3>2, <3>3, <3>4
  <2> QED
    BY <2>1, <2>2
<1> DEFINE Sound(p) ==
             /\ to[p] \in Places' /\ HeaderAt(to[p])' = HeaderAt(p) /\ (Held(p) => Held(to[p]))
             /\ Rank(p) \in 0..3 /\ Rank(to[p])' \in {Rank(p), 3}
<1>3. ASSUME NEW j \in 1..n
      PROVE  /\ Place("ring", 0, j) \in Places
             /\ to[Place("ring", 0, j)] = Dest(n, s, j)
             /\ Sound(Place("ring", 0, j))
  <2>1. Place("ring", 0, j) \in Places
    BY <1>1, PlacesAre DEF PlacesListed
  <2>2. to[Place("ring", 0, j)] = Dest(n, s, j) /\ ~Held(Place("ring", 0, j))
    <3>1. Place("ring", 0, j).where = "ring" /\ Place("ring", 0, j).index = j
      BY PlaceParts
    <3> HIDE DEF Dest
    <3> QED
      BY <1>0, <2>1, <3>1 DEF Held
  <2>3. /\ Dest(n, s, j) \in Places' /\ HeaderAt(Dest(n, s, j))' = pages[j].header
        /\ Rank(Dest(n, s, j))' \in {2, 3}
    <3>1. j \in 1..(n + 1) /\ j # n + 1
      BY <1>1
    <3> QED
      BY <1>2, <3>1
  <2>4. HeaderAt(Place("ring", 0, j)) = pages[j].header /\ Rank(Place("ring", 0, j)) = 2
    BY PlacesHoldThat DEF PlacesHold
  <2> HIDE DEF Dest
  <2> QED
    BY <2>1, <2>2, <2>3, <2>4
<1>4. ASSUME NEW p \in Places, p.where # "ring"
      PROVE  Sound(p) /\ to[p] = p
  <2>1. to[p] = p
    BY <1>0, <1>4
  <2>2. \/ \E i \in 1..Len(stream) : \E j \in 1..Len(stream[i].headers) : p = Place("sent", i, j)
        \/ \E j \in 1..Len(taken)  : p = Place("taken", 0, j)
        \/ \E j \in 1..Len(failed) : p = Place("failed", 0, j)
        \/ \E j \in 1..s : p = Place("dropped", 0, j)
    BY <1>1, <1>4, PlaceOf
  <2>3. CASE \E j \in 1..s : p = Place("dropped", 0, j)
    <3>1. PICK j \in 1..s : p = Place("dropped", 0, j)
      BY <2>3
    <3>2. j \in 1..Len(skipped') /\ skipped'[j] = skipped[j]
      BY <1>1
    <3>3. p \in Places'
      BY <3>1, <3>2, PlacesAreNext DEF PlacesListed
    <3>4. HeaderAt(p)' = skipped'[j] /\ HeaderAt(p) = skipped[j] /\ Rank(p) = 3 /\ Rank(p)' = 3
      BY <3>1, PlacesHoldThat, PlacesHoldNext DEF PlacesHold
    <3> QED
      BY <2>1, <3>2, <3>3, <3>4
  <2>4. CASE ~ \E j \in 1..s : p = Place("dropped", 0, j)
    <3>1. p \in Places' /\ HeaderAt(p)' = HeaderAt(p) /\ Rank(p)' = Rank(p) /\ Rank(p) \in 0..3
      BY <1>1, <2>2, <2>4, SamePlace
    <3> QED
      BY <2>1, <3>1
  <2> QED
    BY <2>3, <2>4
<1>5. ASSUME NEW p \in Places PROVE Sound(p)
  <2>1. CASE p.where # "ring"
    BY <1>4, <2>1
  <2>2. CASE p.where = "ring"
    <3>1. PICK j \in 1..n : p = Place("ring", 0, j)
      BY <1>1, <2>2, PlaceOf
    <3> QED
      BY <1>3, <3>1
  <2> QED
    BY <2>1, <2>2
<1>6. ASSUME NEW q \in Places' PROVE q = new \/ \E p \in Places : q = to[p]
  <2>1. ASSUME NEW j \in 1..(n + 1), q = Dest(n, s, j)
        PROVE  q = new \/ \E p \in Places : q = to[p]
    <3>1. j = n + 1 \/ j \in 1..n
      BY <1>1
    <3> HIDE DEF Dest
    <3> QED
      BY <1>0, <1>3, <2>1, <3>1
  <2>2. ASSUME NEW i \in 1..Len(skipped'), q = Place("dropped", 0, i)
        PROVE  q = new \/ \E p \in Places : q = to[p]
    <3>1. CASE i \in 1..s
      <4>1. q \in Places /\ q.where # "ring"
        BY <1>1, <2>2, <3>1, PlaceParts, PlacesAre DEF PlacesListed
      <4> QED
        BY <1>4, <4>1
    <3>2. CASE i \notin 1..s
      <4>1. i - s \in 1..(n + 1) /\ i - s =< d /\ s + (i - s) = i
        BY <1>1, <3>2
      <4> QED
        BY <2>1, <2>2, <4>1
    <3> QED
      BY <3>1, <3>2
  <2>3. ASSUME NEW i \in 1..Len(pages'), q = Place("ring", 0, i)
        PROVE  q = new \/ \E p \in Places : q = to[p]
    <3>1. i + d \in 1..(n + 1) /\ ~ (i + d =< d) /\ (i + d) - d = i
      BY <1>1
    <3> QED
      BY <2>1, <2>3, <3>1
  <2>4. CASE \/ \E i \in 1..Len(stream) :
                  \E j \in 1..Len(stream[i].headers) : q = Place("sent", i, j)
             \/ \E j \in 1..Len(taken)  : q = Place("taken", 0, j)
             \/ \E j \in 1..Len(failed) : q = Place("failed", 0, j)
    <3>1. q \in Places /\ q.where # "ring"
      BY <2>4, PlaceParts, PlacesAre DEF PlacesListed
    <3> QED
      BY <1>4, <3>1
  <2> QED
    BY <1>1, <2>2, <2>3, <2>4, PlacesAreNext DEF PlacesListed
<1>7. to \in [Places -> Places']
  BY <1>0, <1>5
<1>8. new \in Places' /\ HeaderAt(new)' = header /\ Rank(new)' \in {2, 3}
  <2>1. n + 1 \in 1..(n + 1)
    BY <1>1
  <2> HIDE DEF Dest
  <2> QED
    BY <1>0, <1>2, <2>1
<1>9. MovesAndAdds(to, new, header)
  BY <1>5, <1>6, <1>7, <1>8 DEF MovesAndAdds
<1> QED
  BY <1>9

LEMMA PushAdds ==
  ASSUME TypeOK, LocalInv, RingNeverOverruns, NEW t \in Thread, PushPage(t)
  PROVE  /\ Len(pages) \in Nat /\ Len(skipped) \in Nat
         /\ \E d : PagePushed(NewHeader(t), d)
<1>1. /\ RingTyped(Header) /\ Buffered(t) \in Nat /\ NewHeader(t) \in Header
      /\ PushBuf(NewHeader(t), Buffered(t)) /\ RoomFor(Buffered(t))
  BY PushedPage, PushedRoom, TypeParts
<1> DEFINE page == PageFor(NewHeader(t), Buffered(t))
           ps   == Append(pages, page)
<1>2. PICK d \in 0..Len(ps) :
        /\ Len(pages') = Len(ps) - d /\ Len(skipped') = Len(skipped) + d
        /\ \A i \in 1..Len(pages') : pages'[i] = ps[i + d]
        /\ \A i \in 1..Len(skipped) : skipped'[i] = skipped[i]
        /\ \A i \in 1..d : skipped'[Len(skipped) + i] = ps[i].header
        /\ \A i \in 1..d : wr' - rd > CleanupAt /\ wr' - ps[i].lo > CleanupTo
  BY <1>1, PushDrops, Zenon
<1>3. /\ Len(ps) = Len(pages) + 1 /\ ps[Len(ps)] = page
      /\ \A i \in 1..Len(pages) : ps[i] = pages[i]
  BY <1>1, PushedRing
<1>4. page.header = NewHeader(t)
  BY DEF PageFor
<1>5. Len(pages) \in Nat /\ Len(skipped) \in Nat
  BY <1>1 DEF RingTyped
<1>6. UNCHANGED <<taken, failed, stream>>
  BY DEF PushPage, senderVars
<1> HIDE DEF ps, page
<1>7. ASSUME NEW j \in 1..(Len(pages) + 1)
      PROVE  LET h == IF j = Len(pages) + 1 THEN NewHeader(t) ELSE pages[j].header
             IN  IF j =< d THEN skipped'[Len(skipped) + j] = h ELSE pages'[j - d].header = h
  <2>1. ps[j].header = IF j = Len(pages) + 1 THEN NewHeader(t) ELSE pages[j].header
    <3>1. j = Len(ps) \/ j \in 1..Len(pages)
      BY <1>3, <1>5
    <3> QED
      BY <1>3, <1>4, <1>5, <3>1
  <2>2. CASE j =< d
    <3>1. j \in 1..d
      BY <1>2, <2>2
    <3> QED
      BY <1>2, <2>1, <2>2, <3>1
  <2>3. CASE ~ (j =< d)
    <3>1. j - d \in 1..Len(pages') /\ (j - d) + d = j
      BY <1>2, <1>3, <1>5, <2>3
    <3>2. pages'[j - d] = ps[j]
      BY <1>2, <3>1
    <3> QED
      BY <2>1, <2>3, <3>2
  <2> QED
    BY <2>2, <2>3
<1>8. PagePushed(NewHeader(t), d)
  BY <1>2, <1>3, <1>5, <1>6, <1>7 DEF PagePushed
<1> QED
  BY <1>5, <1>8

(* The new page goes on where its thread's last page ended.                  *)
LEMMA PushedPlaces ==
  ASSUME TypeOK, LocalInv, RingNeverOverruns, PlaceInv, NEW t \in Thread, PushPage(t)
  PROVE  /\ PlaceInv'
         /\ \A u \in Thread : flushed[u] =< flushed'[u]
         /\ \A u \in Thread, n \in Nat, p \in Places :
              Held(p) /\ Covers(HeaderAt(p), u, n) =>
                \E q \in Places' : Held(q) /\ Covers(HeaderAt(q), u, n)'
<1>1. PICK to, new : MovesAndAdds(to, new, NewHeader(t))
  <2>1. PICK d : PagePushed(NewHeader(t), d)
    BY PushAdds
  <2> QED
    BY <2>1, PushAdds, AddedPage
<1>2. /\ flushed \in [Thread -> Nat] /\ recorded \in [Thread -> Nat]
      /\ flushed' = [flushed EXCEPT ![t] = recorded[t]]
      /\ flushed[t] < recorded[t] /\ NewHeader(t) \in Header
      /\ NewHeader(t).thread = t /\ NewHeader(t).first = flushed[t] + 1
      /\ NewHeader(t).last = recorded[t]
  <2>1. NewHeader(t) \in Header
    BY PushedPage
  <2>2. flushed[t] + 1 =< recorded[t]
    BY <2>1 DEF NewHeader, Header
  <2> QED
    BY <2>1, <2>2 DEF TypeOK, PushPage, FlushedAfterPush, NewHeader
<1> DEFINE h == NewHeader(t)
<1>3. \A u \in Thread : flushed'[u] \in Nat /\ flushed[u] \in Nat /\ flushed[u] =< flushed'[u]
                        /\ (u # t => flushed'[u] = flushed[u])
  BY <1>2
<1>4. /\ \A p \in Places : to[p] \in Places' /\ HeaderAt(to[p])' = HeaderAt(p)
                           /\ (Held(p) => Held(to[p]))
                           /\ Rank(p) \in 0..3 /\ Rank(to[p])' \in {Rank(p), 3}
      /\ \A q \in Places' : q = new \/ \E p \in Places : q = to[p]
      /\ new \in Places' /\ HeaderAt(new)' = h /\ Rank(new)' \in {2, 3}
  BY <1>1 DEF MovesAndAdds
<1> HIDE DEF h
<1>5. \A p \in Places : /\ HeaderAt(p).thread \in Thread /\ HeaderAt(p).first \in Nat
                        /\ HeaderAt(p).last \in Nat /\ 1 =< HeaderAt(p).first
                        /\ HeaderAt(p).last =< flushed[HeaderAt(p).thread]
                        /\ HeaderAt(p) \in Header
  BY DEF PlaceInv, PlacesBounded, Header
<1>6. h \in Header /\ h.thread = t /\ h.first = flushed[t] + 1 /\ h.last = recorded[t]
  BY <1>2 DEF h
<1>7. ASSUME NEW p \in Places PROVE Before(HeaderAt(p), h)
  BY <1>2, <1>5, <1>6 DEF Before
<1>8. PlacesApart'
  <2> SUFFICES ASSUME NEW p \in Places', NEW q \in Places', p # q
               PROVE  Before(HeaderAt(p)', HeaderAt(q)') \/ Before(HeaderAt(q)', HeaderAt(p)')
    BY DEF PlacesApart
  <2>1. CASE p = new \/ q = new
    BY <1>4, <1>7, <2>1
  <2>2. CASE p # new /\ q # new
    <3>1. PICK p1 \in Places, q1 \in Places : p = to[p1] /\ q = to[q1]
      BY <1>4, <2>2
    <3>2. Before(HeaderAt(p1), HeaderAt(q1)) \/ Before(HeaderAt(q1), HeaderAt(p1))
      BY <3>1 DEF PlaceInv, PlacesApart
    <3> QED
      BY <1>4, <3>1, <3>2
  <2> QED
    BY <2>1, <2>2
<1>9. PlacesCover'
  <2> SUFFICES ASSUME NEW u \in Thread, NEW n \in 1..flushed'[u]
               PROVE  \E q \in Places' : Covers(HeaderAt(q)', u, n)
    BY DEF PlacesCover
  <2>1. CASE n \in 1..flushed[u]
    <3>1. PICK p \in Places : Covers(HeaderAt(p), u, n)
      BY <2>1 DEF PlaceInv, PlacesCover
    <3> QED
      BY <1>4, <3>1
  <2>2. CASE n \notin 1..flushed[u]
    <3>1. u = t /\ n \in h.first..h.last
      BY <1>2, <1>3, <1>6, <2>2
    <3> QED
      BY <1>4, <1>6, <3>1 DEF Covers
  <2> QED
    BY <2>1, <2>2
<1>10. PlacesBounded'
  <2> SUFFICES ASSUME NEW q \in Places'
               PROVE  /\ HeaderAt(q)' \in Header /\ 1 =< HeaderAt(q)'.first
                      /\ HeaderAt(q)'.last =< flushed'[HeaderAt(q)'.thread]
    BY DEF PlacesBounded, Header
  <2>1. CASE q = new
    BY <1>2, <1>3, <1>4, <1>6, <2>1
  <2>2. CASE q # new
    <3>1. PICK p \in Places : q = to[p]
      BY <1>4, <2>2
    <3>2. HeaderAt(q)' = HeaderAt(p)
      BY <1>4, <3>1
    <3>3. HeaderAt(p).last =< flushed'[HeaderAt(p).thread]
      <4>1. /\ HeaderAt(p).last =< flushed[HeaderAt(p).thread]
            /\ HeaderAt(p).last \in Nat /\ HeaderAt(p).thread \in Thread
        BY <1>5
      <4> QED
        BY <1>3, <4>1
    <3> QED
      BY <1>5, <3>2, <3>3
  <2> QED
    BY <2>1, <2>2
<1>11. PlacesOrdered'
  <2> SUFFICES ASSUME NEW p \in Places', NEW q \in Places', Rank(p)' < Rank(q)', Rank(q)' =< 2
               PROVE  Before(HeaderAt(p)', HeaderAt(q)')
    BY DEF PlacesOrdered
  <2>1. CASE q = new
    <3>1. p # new
      BY <1>4, <2>1
    <3> QED
      BY <1>4, <1>7, <2>1, <3>1
  <2>2. CASE q # new
    <3>1. PICK q1 \in Places : q = to[q1]
      BY <1>4, <2>2
    <3>2. Rank(q)' = Rank(q1) /\ Rank(q1) \in 0..2
      BY <1>4, <3>1
    <3>3. p # new
      BY <1>4, <3>2
    <3>4. PICK p1 \in Places : p = to[p1]
      BY <1>4, <3>3
    <3>5. Rank(p)' = Rank(p1)
      BY <1>4, <3>2, <3>4
    <3>6. Before(HeaderAt(p1), HeaderAt(q1))
      BY <3>2, <3>5 DEF PlaceInv, PlacesOrdered
    <3> QED
      BY <1>4, <3>1, <3>4, <3>6
  <2> QED
    BY <2>1, <2>2
<1>12. ASSUME NEW u \in Thread, NEW n \in Nat, NEW p \in Places, Held(p), Covers(HeaderAt(p), u, n)
       PROVE  \E q \in Places' : Held(q) /\ Covers(HeaderAt(q), u, n)'
  BY <1>4, <1>12
<1> QED
  BY <1>3, <1>8, <1>9, <1>10, <1>11, <1>12 DEF PlaceInv
-----------------------------------------------------------------------------
(* Every step but a push moves pages, or leaves all of them where they are.  *)
Still == UNCHANGED <<pages, skipped, taken, failed, stream>>

LEMMA StillMoves ==
  ASSUME PacketsTyped, Still
  PROVE  \E to : Moves(to)
<1>1. <<>> \in Seq(Packet) /\ \A i \in 1..Len(<<>>) : <<>>[i].headers = <<>>
  OBVIOUS
<1>2. stream' = stream \o <<>>
  BY DEF Still, PacketsTyped
<1> QED
  BY <1>1, <1>2, MovesNone DEF Still

LEMMA StillSteps ==
  ASSUME \/ \E t \in Thread : TryLock(t) \/ LockForFlush(t)
         \/ \E t \in App : CallStep(t) \/ BodyStep(t)
         \/ SenderLoad \/ SenderLock \/ SenderUnlock \/ SenderUnflag \/ SenderData
         \/ SenderSent \/ SenderExit
         \/ UNCHANGED vars
  PROVE  Still /\ UNCHANGED flushed
<1>1. CASE \E t \in Thread : TryLock(t) \/ LockForFlush(t)
  BY <1>1 DEF Still, TryLock, LockForFlush, storageVars, senderVars
<1>2. CASE \E t \in App : CallStep(t)
  BY <1>2 DEF Still, CallStep, Event, FlushThreadLocal, Exit, CallInit, CallFinalize,
              storageVars, senderVars
<1>3. CASE \E t \in App : BodyStep(t)
  BY <1>3 DEF Still, BodyStep, InitLock, InitStorage, FinalizeStore, FinalizeLock,
              FinalizeTakeHandle, FinalizeJoin, storageVars, senderVars
<1>4. CASE \/ SenderLoad \/ SenderLock \/ SenderUnlock \/ SenderUnflag \/ SenderData
           \/ SenderSent \/ SenderExit
  BY <1>4 DEF Still, SenderLoad, SenderLock, SenderUnlock, SenderUnflag, SenderData,
              SenderSent, SenderExit, storageVars, senderVars
<1>5. CASE UNCHANGED vars
  BY <1>5 DEF Still, vars, storageVars, senderVars, localVars
<1> QED
  BY <1>1, <1>2, <1>3, <1>4, <1>5

LEMMA TakeMoves ==
  ASSUME TypeOK, SenderInv, SenderTake
  PROVE  /\ \E out : /\ StorageTaken(out)
                     /\ TakeEverything /\ SizeInv /\ RingNeverOverruns => out \/ pages = <<>>
         /\ UNCHANGED flushed /\ \E to : Moves(to)
<1>1. RingTyped(Header)
  BY TypeParts
<1>2. /\ taken = <<>> /\ failed = <<>> /\ stream' = stream /\ UNCHANGED flushed
  BY DEF SenderTake, At, SenderInv, EmptyHanded
<1>3. PICK out : out = (Occupied > TakeThreshold(TakeEverything))
  OBVIOUS
<1>4. failed' = skipped /\ skipped' = <<>>
  BY DEF SenderTake, TakeFailedPages
<1>5. out => pages' = <<>> /\ taken' = [j \in 1..Len(pages) |-> pages[j].header]
  BY <1>3 DEF SenderTake, TryTakeBuf, TakenPages
<1>6. ~out => pages' = pages /\ taken' = <<>>
  <2> SUFFICES ASSUME ~out PROVE pages' = pages /\ taken' = <<>>
    OBVIOUS
  <2>1. TakenPages(TakeEverything) = <<>> /\ pages' = pages
    BY <1>3 DEF SenderTake, TryTakeBuf, TakenPages
  <2>2. taken' = [i \in 1..Len(<<>>) |-> <<>>[i].header]
    BY <2>1 DEF SenderTake
  <2> QED
    BY <2>1, <2>2
<1>7. StorageTaken(out)
  BY <1>2, <1>3, <1>4, <1>5, <1>6 DEF StorageTaken
<1>8. ASSUME TakeEverything, SizeInv, RingNeverOverruns, pages # <<>>
      PROVE  out
  <2>1. Len(pages) \in Nat /\ Len(pages) # 0 /\ pages \in Seq(PageOf(Header))
    BY <1>1, <1>8 DEF RingTyped
  <2>2. pages[1] \in PageOf(Header) /\ pages[1].size # 0 /\ Whole(pages[1])
    BY <1>8, <2>1 DEF SizeInv, RingNeverOverruns
  <2>3. rd =< pages[1].lo /\ pages[1].hi =< wr /\ rd \in Nat /\ wr \in Nat
    BY <1>1, <2>1 DEF RingTyped, Tiled
  <2>4. Occupied > 0
    BY <2>2, <2>3 DEF PageOf, Whole, Occupied
  <2> QED
    BY <1>3, <1>8, <2>4 DEF TakeThreshold
<1>9. Len(pages) \in Nat /\ Len(skipped) \in Nat
  BY <1>1 DEF RingTyped
<1> QED
  BY <1>2, <1>7, <1>8, <1>9, MovesOut

(* Packets without pages.                                                    *)
LEMMA PlainMoves ==
  ASSUME TypeOK, SenderInv,
         \/ SenderStart \/ SenderFreq \/ SenderEnd
         \/ SenderPanics /\ pc[Sender] # "failed"
  PROVE  /\ UNCHANGED <<flushed, pages, skipped, taken, failed>>
         /\ \E g \in Seq(Packet) : /\ stream' = stream \o g
                                   /\ \A i \in 1..Len(g) : g[i].headers = <<>>
<1>1. PacketsTyped /\ Outgoing \in Seq(Packet)
  BY TypeParts, OutgoingTyped
<1>2. CASE SenderStart \/ SenderFreq \/ SenderEnd
  <2>1. UNCHANGED <<flushed, pages, skipped, taken, failed>> /\ stream' = stream \o Outgoing
        /\ pc[Sender] \in {"start", "sleep", "end"}
    BY <1>2 DEF SenderStart, SenderFreq, SenderEnd, Send, At, storageVars
  <2>2. \A i \in 1..Len(Outgoing) : Outgoing[i].headers = <<>>
    BY <2>1 DEF Outgoing, PacketOf
  <2> QED
    BY <1>1, <2>1, <2>2
<1>3. CASE SenderPanics /\ pc[Sender] # "failed"
  <2>1. UNCHANGED <<flushed, pages, skipped, taken, failed>>
    BY <1>3 DEF SenderPanics, storageVars
  <2>2. PICK k \in 0..(Len(Outgoing) - 1) : stream' = stream \o SubSeq(Outgoing, 1, k)
    BY <1>3 DEF SenderPanics
  <2>3. k \in Nat /\ k < Len(Outgoing) /\ Len(Outgoing) \in Nat
    BY <1>1, <2>2
  <2>4. /\ SubSeq(Outgoing, 1, k) \in Seq(Packet) /\ Len(SubSeq(Outgoing, 1, k)) = k
        /\ \A i \in 1..k : SubSeq(Outgoing, 1, k)[i] = Outgoing[i]
    BY <1>1, <2>3
  <2>5. \A i \in 1..k : Outgoing[i].headers = <<>>
    <3>1. pc[Sender] \in {"start", "sleep", "sendData", "end"}
      BY <1>1, <1>3, <2>3, OutgoingKinds
    <3>2. CASE pc[Sender] = "sendData"
      <4>1. Len(Outgoing) = 1
        BY <3>2 DEF Outgoing
      <4> QED
        BY <2>3, <4>1
    <3>3. CASE pc[Sender] \in {"start", "sleep"}
      <4>1. Len(Outgoing) = 1
        BY <3>3 DEF Outgoing
      <4> QED
        BY <2>3, <4>1
    <3>4. CASE pc[Sender] = "end"
      <4>1. Len(Outgoing) = 2 /\ Outgoing[1].headers = <<>>
        BY <1>1, <3>4, OutgoingKinds
      <4> QED
        BY <2>3, <4>1
    <3> QED
      BY <3>1, <3>2, <3>3, <3>4
  <2> QED
    BY <2>1, <2>2, <2>4, <2>5
<1> QED
  BY <1>2, <1>3

(* The first k of a sequence, and the others.                                *)
LEMMA SplitAt ==
  ASSUME NEW S, NEW f \in Seq(S), NEW k \in 0..Len(f)
  PROVE  /\ SubSeq(f, 1, k) \in Seq(S) /\ Len(SubSeq(f, 1, k)) = k
         /\ \A i \in 1..k : SubSeq(f, 1, k)[i] = f[i]
         /\ SubSeq(f, k + 1, Len(f)) \in Seq(S) /\ Len(SubSeq(f, k + 1, Len(f))) = Len(f) - k
         /\ \A i \in 1..(Len(f) - k) : SubSeq(f, k + 1, Len(f))[i] = f[i + k]
  OBVIOUS

LEMMA HeadersMove ==
  ASSUME TypeOK, SenderInv,
         SenderSendFailed \/ (SenderPanics /\ pc[Sender] = "failed")
  PROVE  /\ UNCHANGED flushed /\ \E k : HeadersSent(k)
         /\ pc[Sender] = "failed" /\ (SenderSendFailed => failed' = <<>>)
<1>1. /\ PacketsTyped /\ Outgoing \in Seq(Packet) /\ failed \in Seq(Header) /\ Len(failed) \in Nat
  BY TypeParts, OutgoingTyped DEF PacketsTyped
<1>2. pc[Sender] = "failed" /\ UNCHANGED <<flushed, pages, skipped, taken>>
  BY DEF SenderSendFailed, SenderPanics, At, storageVars
<1>3. Outgoing = [i \in 1..Len(failed) |-> PacketOf("failed", << failed[i] >>)]
  BY <1>2 DEF Outgoing
<1>4. /\ Len(Outgoing) = Len(failed)
      /\ \A i \in 1..Len(failed) : Outgoing[i] = PacketOf("failed", << failed[i] >>)
  BY <1>1, <1>3
<1>5. CASE SenderSendFailed
  <2>1. stream' = stream \o Outgoing /\ failed' = <<>>
    BY <1>5 DEF SenderSendFailed, Send
  <2>2. Len(failed') = Len(failed) - Len(failed) /\ \A j : j \notin 1..(Len(failed) - Len(failed))
    BY <1>1, <2>1
  <2>3. HeadersSent(Len(failed))
    <3>1. \E g \in Seq(Packet) :
            /\ stream' = stream \o g /\ Len(g) = Len(failed)
            /\ \A i \in 1..Len(failed) : g[i] = PacketOf("failed", << failed[i] >>)
      BY <1>1, <1>4, <2>1
    <3>2. Len(failed) \in 0..Len(failed)
      BY <1>1
    <3> QED
      BY <1>2, <2>2, <3>1, <3>2 DEF HeadersSent
  <2> QED
    BY <1>2, <2>1, <2>3
<1>6. CASE SenderPanics /\ pc[Sender] = "failed" /\ ~SenderSendFailed
  <2>1. PICK k \in 0..(Len(Outgoing) - 1) :
          /\ stream' = stream \o SubSeq(Outgoing, 1, k)
          /\ failed' = SubSeq(failed, k + 1, Len(failed))
    BY <1>6 DEF SenderPanics
  <2>2. k \in 0..Len(failed) /\ k \in 0..Len(Outgoing) /\ k \in Nat
    BY <1>1, <1>4, <2>1
  <2>3. /\ SubSeq(Outgoing, 1, k) \in Seq(Packet) /\ Len(SubSeq(Outgoing, 1, k)) = k
        /\ \A i \in 1..k : SubSeq(Outgoing, 1, k)[i] = Outgoing[i]
    BY <1>1, <2>2, SplitAt
  <2>4. /\ Len(failed') = Len(failed) - k
        /\ \A i \in 1..(Len(failed) - k) : failed'[i] = failed[i + k]
    BY <1>1, <2>1, <2>2, SplitAt
  <2>5. \A i \in 1..k : SubSeq(Outgoing, 1, k)[i] = PacketOf("failed", << failed[i] >>)
    BY <1>1, <1>4, <2>2, <2>3
  <2>6. HeadersSent(k)
    BY <1>2, <2>1, <2>2, <2>3, <2>4, <2>5 DEF HeadersSent
  <2> QED
    BY <1>2, <1>6, <2>6
<1> QED
  BY <1>5, <1>6

LEMMA StepMoves ==
  ASSUME TypeOK, LocalInv, SenderInv, [Next]_vars, \A t \in Thread : ~PushPage(t)
  PROVE  UNCHANGED flushed /\ \E to : Moves(to)
<1>1. PacketsTyped
  BY TypeParts
<1>2. CASE \/ \E t \in Thread : TryLock(t) \/ LockForFlush(t)
           \/ \E t \in App : CallStep(t) \/ BodyStep(t)
           \/ SenderLoad \/ SenderLock \/ SenderUnlock \/ SenderUnflag \/ SenderData
           \/ SenderSent \/ SenderExit
           \/ UNCHANGED vars
  BY <1>1, <1>2, StillSteps, StillMoves
<1>3. CASE SenderTake
  BY <1>3, TakeMoves
<1>4. CASE SenderStart \/ SenderFreq \/ SenderEnd \/ (SenderPanics /\ pc[Sender] # "failed")
  BY <1>1, <1>4, PlainMoves, MovesNone
<1>5. CASE SenderSendFailed \/ (SenderPanics /\ pc[Sender] = "failed")
  BY <1>1, <1>5, HeadersMove, MovesFailed
<1>6. CASE SenderSendData
  <2>1. /\ stream' = stream \o << PacketOf("data", taken) >> /\ taken' = <<>>
        /\ UNCHANGED <<flushed, pages, skipped, failed>>
    BY <1>6 DEF SenderSendData, Send, Outgoing, At, storageVars
  <2> QED
    BY <1>1, <2>1, MovesTaken
<1> QED
  BY <1>2, <1>3, <1>4, <1>5, <1>6 DEF Next, SenderStep, FlushStep, Terminated

LEMMA PlaceInit == Init => PlaceInv /\ SizeInv
<1> SUFFICES ASSUME Init PROVE PlaceInv /\ SizeInv
  OBVIOUS
<1>1. /\ taken = <<>> /\ failed = <<>> /\ stream = <<>> /\ pages = <<>> /\ skipped = <<>>
      /\ flushed = [t \in Thread |-> 0]
  BY DEF Init, StorageInit
<1>2. Places = {}
  <2>1. \A j : j \notin 1..Len(taken) /\ j \notin 1..Len(failed) /\ j \notin 1..Len(stream)
               /\ j \notin 1..Len(pages) /\ j \notin 1..Len(skipped)
    BY <1>1
  <2> QED
    BY <2>1, PlacesAre DEF PlacesListed
<1> QED
  BY <1>1, <1>2 DEF PlaceInv, PlacesApart, PlacesCover, PlacesBounded, PlacesOrdered, SizeInv

LEMMA PlaceNext ==
  ASSUME TypeOK, LocalInv, RingNeverOverruns, SenderInv, PlaceInv, [Next]_vars
  PROVE  PlaceInv'
  BY StepMoves, MovedPages, PushedPlaces

(* A page has its two length fields at least.                                *)
LEMMA SizeNext ==
  ASSUME TypeOK, LocalInv, RingNeverOverruns, SizeInv, [Next]_vars
  PROVE  SizeInv'
<1>1. CASE UNCHANGED storageVars
  BY <1>1 DEF SizeInv, storageVars
<1>2. CASE SenderTake
  BY <1>2 DEF SizeInv, SenderTake, TryTakeBuf
<1>3. ASSUME NEW t \in Thread, PushPage(t)
      PROVE  SizeInv'
  <2>1. /\ RingTyped(Header) /\ Buffered(t) \in Nat /\ NewHeader(t) \in Header
        /\ PushBuf(NewHeader(t), Buffered(t)) /\ RoomFor(Buffered(t))
        /\ HdrLen \in Nat \ {0}
    BY <1>3, PushedPage, PushedRoom, TypeParts, SizesAreNat
  <2> DEFINE page == PageFor(NewHeader(t), Buffered(t))
             ps   == Append(pages, page)
  <2>2. PICK d \in 0..Len(ps) :
          /\ Len(pages') = Len(ps) - d /\ Len(skipped') = Len(skipped) + d
          /\ \A i \in 1..Len(pages') : pages'[i] = ps[i + d]
          /\ \A i \in 1..Len(skipped) : skipped'[i] = skipped[i]
          /\ \A i \in 1..d : skipped'[Len(skipped) + i] = ps[i].header
          /\ \A i \in 1..d : wr' - rd > CleanupAt /\ wr' - ps[i].lo > CleanupTo
    BY <2>1, PushDrops, Zenon
  <2>3. /\ Len(ps) = Len(pages) + 1 /\ ps[Len(ps)] = page /\ Len(pages) \in Nat
        /\ \A i \in 1..Len(pages) : ps[i] = pages[i]
    BY <2>1, PushedRing DEF RingTyped
  <2>4. page.size # 0
    BY <2>1 DEF PageFor
  <2> HIDE DEF ps, page
  <2>5. ASSUME NEW i \in 1..Len(pages') PROVE pages'[i].size # 0
    <3>1. i + d \in 1..Len(ps)
      BY <2>2, <2>3
    <3>2. i + d \in 1..Len(pages) \/ i + d = Len(ps)
      BY <2>3, <3>1
    <3> QED
      BY <2>2, <2>3, <2>4, <3>2 DEF SizeInv
  <2> QED
    BY <2>5 DEF SizeInv
<1> QED
  BY <1>1, <1>2, <1>3, RingKinds

(* Everything that has left a buffer is in exactly one page, and that page   *)
(* in one place.                                                             *)
LEMMA PlacesAccount == TypeOK /\ PlaceInv => EveryEventAccounted
<1> SUFFICES ASSUME TypeOK, PlaceInv, NEW t \in Thread
             PROVE  /\ \A n \in 1..flushed[t] :
                         \E p \in Places : /\ Covers(HeaderAt(p), t, n)
                                           /\ \A q \in Places \ {p} : ~Covers(HeaderAt(q), t, n)
                    /\ \A p \in Places : HeaderAt(p).thread = t => HeaderAt(p).last =< flushed[t]
  BY DEF EveryEventAccounted
<1>1. ASSUME NEW n \in 1..flushed[t]
      PROVE  \E p \in Places : /\ Covers(HeaderAt(p), t, n)
                               /\ \A q \in Places \ {p} : ~Covers(HeaderAt(q), t, n)
  <2>1. PICK p \in Places : Covers(HeaderAt(p), t, n)
    BY DEF PlaceInv, PlacesCover
  <2>2. ASSUME NEW q \in Places, q # p, Covers(HeaderAt(q), t, n)
        PROVE  FALSE
    <3>1. /\ HeaderAt(p).first \in Nat /\ HeaderAt(p).last \in Nat
          /\ HeaderAt(q).first \in Nat /\ HeaderAt(q).last \in Nat
      BY DEF PlaceInv, PlacesBounded, Header
    <3>2. Before(HeaderAt(p), HeaderAt(q)) \/ Before(HeaderAt(q), HeaderAt(p))
      BY <2>2 DEF PlaceInv, PlacesApart
    <3> QED
      BY <2>1, <2>2, <3>1, <3>2 DEF Before, Covers
  <2> QED
    BY <2>1, <2>2
<1>2. \A p \in Places : HeaderAt(p).thread = t => HeaderAt(p).last =< flushed[t]
  BY DEF PlaceInv, PlacesBounded
<1> QED
  BY <1>1, <1>2
-----------------------------------------------------------------------------
(* What finalize waits for.                                                  *)
HeldDue(t, n) == \E p \in Places : Held(p) /\ Covers(HeaderAt(p), t, n)

LEMMA StaysHeld ==
  ASSUME TypeOK, LocalInv, RingNeverOverruns, SenderInv, PlaceInv, [Next]_vars
  PROVE  /\ \A t \in Thread, n \in Nat : HeldDue(t, n) => HeldDue(t, n)'
         /\ \A t \in Thread : flushed[t] =< flushed'[t]
<1>1. CASE \E t \in Thread : PushPage(t)
  BY <1>1, PushedPlaces DEF HeldDue
<1>2. CASE \A t \in Thread : ~PushPage(t)
  <2>1. UNCHANGED flushed /\ \E to : Moves(to)
    BY <1>2, StepMoves
  <2>2. PICK to : Moves(to)
    BY <2>1
  <2>3. \A p \in Places : to[p] \in Places' /\ HeaderAt(to[p])' = HeaderAt(p)
                          /\ (Held(p) => Held(to[p]))
    BY <2>2 DEF Moves
  <2>4. ASSUME NEW t \in Thread, NEW n \in Nat, HeldDue(t, n)
        PROVE  HeldDue(t, n)'
    <3>1. PICK p \in Places : Held(p) /\ Covers(HeaderAt(p), t, n)
      BY <2>4 DEF HeldDue
    <3> QED
      BY <2>3, <3>1 DEF HeldDue
  <2>5. \A t \in Thread : flushed[t] =< flushed'[t]
    BY <2>1 DEF TypeOK
  <2> QED
    BY <2>4, <2>5
<1> QED
  BY <1>1, <1>2

(* The last take leaves nothing behind.                                      *)
LEMMA LastTake ==
  ASSUME TypeOK, SenderInv, PlaceInv, SizeInv, RingNeverOverruns, SenderTake, isFinalizing
  PROVE  \A t \in Thread : \A n \in 1..flushed[t] : HeldDue(t, n)'
<1>1. PICK out : StorageTaken(out) /\ (out \/ pages = <<>>)
  BY TakeMoves DEF TakeEverything
<1>2. UNCHANGED flushed
  BY TakeMoves
<1>3. PlaceInv'
  BY <1>2, TakeMoves, MovedPages
<1>4. \A j : j \notin 1..Len(pages') /\ j \notin 1..Len(skipped')
  BY <1>1 DEF StorageTaken
<1>5. ASSUME NEW p \in Places' PROVE Held(p)
  <2>1. \/ \E i, j : p = Place("sent", i, j)
        \/ \E j : p = Place("taken", 0, j)
        \/ \E j : p = Place("failed", 0, j)
    BY <1>4, PlacesAreNext DEF PlacesListed
  <2> QED
    BY <2>1, PlaceParts DEF Held
<1> QED
  BY <1>2, <1>3, <1>5 DEF HeldDue, PlaceInv, PlacesCover

LEMMA DrainKinds ==
  ASSUME TypeOK, [Next]_vars
  PROVE  /\ \/ UNCHANGED due /\ (finalizeStarted' = finalizeStarted \/ finalizeStarted')
            \/ ~finalizeStarted /\ finalizeStarted' /\ due' = flushed /\ flushed' = flushed
               /\ UNCHANGED isFinalizing
         /\ \/ UNCHANGED isFinalizing
            \/ /\ isFinalizing' = finalizeStarted /\ finalizeStarted' = finalizeStarted
               /\ pc'[Sender] = "lock"
         /\ pc'[Sender] = "end" => pc[Sender] = "end" \/ isFinalizing
         /\ pc'[Sender] \in AfterTake => pc[Sender] \in AfterTake \/ SenderTake
<1>1. pc \in [Thread -> PcState] /\ Sender \in Thread /\ App \subseteq Thread /\ Sender \notin App
  BY ConstantsTyped, ThreadsDiffer DEF TypeOK
<1>2. ASSUME NEW t \in Thread, FlushStep(t)
      PROVE  /\ UNCHANGED <<due, finalizeStarted, isFinalizing>>
             /\ pc'[Sender] = pc[Sender] \/ pc'[Sender] = "start"
  BY <1>1, <1>2 DEF FlushStep, TryLock, LockForFlush, PushPage, PcAfterCreate, senderVars
<1>3. ASSUME NEW t \in App, CallStep(t)
      PROVE  UNCHANGED <<due, finalizeStarted, isFinalizing>> /\ pc'[Sender] = pc[Sender]
  BY <1>1, <1>3 DEF CallStep, Event, FlushThreadLocal, Exit, CallInit, CallFinalize,
                    senderVars, sharedVars
<1>4. ASSUME NEW t \in App, BodyStep(t), ~FinalizeStore(t)
      PROVE  /\ UNCHANGED <<due, finalizeStarted, isFinalizing>>
             /\ pc'[Sender] = pc[Sender] \/ pc'[Sender] = "start"
  BY <1>1, <1>4 DEF BodyStep, InitLock, InitStorage, FinalizeLock, FinalizeTakeHandle,
                    FinalizeJoin, PcAfterCreate, senderVars, sharedVars
<1>5. ASSUME NEW t \in App, FinalizeStore(t)
      PROVE  /\ finalizeStarted' /\ UNCHANGED <<flushed, isFinalizing>>
             /\ due' = (IF finalizeStarted THEN due ELSE flushed) /\ pc'[Sender] = pc[Sender]
  BY <1>1, <1>5 DEF FinalizeStore, senderVars
<1>6. ASSUME SenderStep
      PROVE  /\ UNCHANGED <<due, finalizeStarted>>
             /\ \/ isFinalizing' = isFinalizing
                \/ isFinalizing' = finalizeStarted /\ pc'[Sender] = "lock"
             /\ pc'[Sender] = "end" => isFinalizing
             /\ pc'[Sender] \in AfterTake => pc[Sender] \in AfterTake \/ SenderTake
  <2>1. CASE SenderStart \/ SenderFreq \/ SenderLock
    <3>1. UNCHANGED <<due, finalizeStarted>> /\ isFinalizing' = isFinalizing
      BY <2>1 DEF SenderStart, SenderFreq, SenderLock, senderVars, sharedVars
    <3>2. pc'[Sender] \in {"sleep", "load", "take"}
      BY <1>1, <2>1 DEF SenderStart, SenderFreq, SenderLock, GoTo
    <3> QED
      BY <3>1, <3>2 DEF AfterTake
  <2>2. CASE SenderLoad
    <3>1. UNCHANGED <<due, finalizeStarted>> /\ isFinalizing' = finalizeStarted
      BY <2>2 DEF SenderLoad, sharedVars
    <3>2. pc'[Sender] = "lock"
      BY <1>1, <2>2 DEF SenderLoad, GoTo
    <3> QED
      BY <3>1, <3>2 DEF AfterTake
  <2>3. CASE SenderTake
    <3>1. UNCHANGED <<due, finalizeStarted>> /\ isFinalizing' = isFinalizing
      BY <2>3 DEF SenderTake
    <3>2. pc'[Sender] = "unlock"
      BY <1>1, <2>3 DEF SenderTake, GoTo
    <3> QED
      BY <2>3, <3>1, <3>2
  <2>4. CASE SenderUnlock \/ SenderUnflag \/ SenderData \/ SenderSendData \/ SenderSent
    <3>1. UNCHANGED <<due, finalizeStarted>> /\ isFinalizing' = isFinalizing
      BY <2>4 DEF SenderUnlock, SenderUnflag, SenderData, SenderSendData, SenderSent,
                  senderVars, sharedVars
    <3>2. pc'[Sender] \in {"unflag", "data", "failed", "sendData", "sent"}
      BY <1>1, <2>4 DEF SenderUnlock, SenderUnflag, SenderData, SenderSendData, SenderSent, GoTo
    <3>3. pc[Sender] \in AfterTake
      BY <2>4 DEF SenderUnlock, SenderUnflag, SenderData, SenderSendData, SenderSent, At, AfterTake
    <3> QED
      BY <3>1, <3>2, <3>3
  <2>5. CASE SenderSendFailed
    <3>1. UNCHANGED <<due, finalizeStarted>> /\ isFinalizing' = isFinalizing
      BY <2>5 DEF SenderSendFailed, sharedVars
    <3>2. pc[Sender] = "failed" /\ (pc'[Sender] = "end" => isFinalizing)
      BY <1>1, <2>5 DEF SenderSendFailed, Stop, At, GoTo
    <3> QED
      BY <3>1, <3>2 DEF AfterTake
  <2>6. CASE SenderEnd \/ SenderPanics \/ SenderExit
    <3>1. UNCHANGED <<due, finalizeStarted>> /\ isFinalizing' = isFinalizing
      BY <2>6 DEF SenderEnd, SenderPanics, SenderExit, senderVars, sharedVars
    <3>2. pc'[Sender] \in {"exit", "gone"}
      BY <1>1, <2>6 DEF SenderEnd, SenderPanics, SenderExit, GoTo
    <3> QED
      BY <3>1, <3>2 DEF AfterTake
  <2> QED
    BY <1>6, <2>1, <2>2, <2>3, <2>4, <2>5, <2>6 DEF SenderStep
<1>7. UNCHANGED vars => UNCHANGED <<due, finalizeStarted, isFinalizing, pc>>
  BY DEF vars, sharedVars, localVars, senderVars
<1>8. "start" \notin AfterTake /\ "lock" \notin AfterTake
  BY DEF AfterTake
<1>9. CASE \E t \in Thread : FlushStep(t)
  BY <1>2, <1>8, <1>9
<1>10. CASE \E t \in App : CallStep(t)
  BY <1>3, <1>10
<1>11. CASE \E t \in App : BodyStep(t)
  <2>1. PICK t \in App : BodyStep(t)
    BY <1>11
  <2>2. CASE FinalizeStore(t)
    BY <1>5, <2>2
  <2>3. CASE ~FinalizeStore(t)
    BY <1>4, <1>8, <2>1, <2>3
  <2> QED
    BY <2>2, <2>3
<1>12. CASE SenderStep
  BY <1>6, <1>12
<1>13. CASE UNCHANGED vars
  BY <1>7, <1>13
<1> QED
  BY <1>9, <1>10, <1>11, <1>12, <1>13 DEF Next, Terminated

LEMMA DrainNext ==
  ASSUME TypeOK, LocalInv, SenderInv, PlaceInv, SizeInv, RingNeverOverruns, DrainInv, [Next]_vars
  PROVE  DrainInv'
<1>1. /\ due \in [Thread -> Nat] /\ flushed \in [Thread -> Nat] /\ due' \in [Thread -> Nat]
      /\ flushed' \in [Thread -> Nat]
  BY DueNext, LocalNext, TypeParts DEF LocalInv, LocalTyped
<1>2. \A t \in Thread : due'[t] =< flushed'[t]
  BY <1>1, StaysHeld, DrainKinds DEF DrainInv
<1>3. isFinalizing' => finalizeStarted'
  BY DrainKinds DEF DrainInv, TypeOK
<1>4. pc'[Sender] = "end" => isFinalizing'
  BY DrainKinds DEF DrainInv
<1>5. ASSUME pc'[Sender] \in AfterTake, isFinalizing', NEW t \in Thread, NEW n \in 1..due'[t]
      PROVE  HeldDue(t, n)'
  <2>1. isFinalizing /\ finalizeStarted
    BY <1>5, DrainKinds DEF AfterTake, DrainInv
  <2>2. due' = due /\ n \in Nat /\ n \in 1..due[t] /\ n \in 1..flushed[t]
    <3>1. due' = due
      BY <2>1, DrainKinds
    <3> QED
      BY <1>1, <1>5, <3>1 DEF DrainInv
  <2>3. CASE SenderTake
    BY <2>1, <2>2, <2>3, LastTake
  <2>4. CASE pc[Sender] \in AfterTake
    <3>1. HeldDue(t, n)
      BY <2>1, <2>2, <2>4 DEF DrainInv, HeldDue
    <3> QED
      BY <2>2, <3>1, StaysHeld
  <2> QED
    BY <1>5, <2>3, <2>4, DrainKinds
<1> QED
  BY <1>2, <1>3, <1>4, <1>5 DEF DrainInv, HeldDue

LEMMA DrainInit == Init => DrainInv
  BY ConstantsTyped DEF Init, DrainInv, AfterTake
-----------------------------------------------------------------------------
(* The refinement.                                                           *)
LEMMA EventsAre ==
  \A type, e : e \in EventsSent(type) <=>
    \E i \in 1..Len(stream) : \E j \in 1..Len(stream[i].headers) :
      stream[i].type = type /\ e \in Events(stream[i].headers[j])
<1> TAKE type, e
<1>1. e \in EventsSent(type) <=>
        \E p \in Places : /\ p.where = "sent" /\ stream[p.packet].type = type
                          /\ e \in Events(HeaderAt(p))
  BY Zenon DEF EventsSent
<1>2. ASSUME NEW p \in Places, p.where = "sent", stream[p.packet].type = type,
             e \in Events(HeaderAt(p))
      PROVE  \E i \in 1..Len(stream) : \E j \in 1..Len(stream[i].headers) :
               stream[i].type = type /\ e \in Events(stream[i].headers[j])
  <2>1. PICK i \in 1..Len(stream) : \E j \in 1..Len(stream[i].headers) : p = Place("sent", i, j)
    BY <1>2, PlaceOf
  <2>2. PICK j \in 1..Len(stream[i].headers) : p = Place("sent", i, j)
    BY <2>1
  <2>3. p.packet = i /\ HeaderAt(p) = stream[i].headers[j]
    BY <2>2, PlaceParts, PlacesHoldThat DEF PlacesHold
  <2> QED
    BY <1>2, <2>3
<1>3. ASSUME NEW i \in 1..Len(stream), NEW j \in 1..Len(stream[i].headers),
             stream[i].type = type, e \in Events(stream[i].headers[j])
      PROVE  \E p \in Places : /\ p.where = "sent" /\ stream[p.packet].type = type
                               /\ e \in Events(HeaderAt(p))
  <2>1. Place("sent", i, j) \in Places
    BY PlacesAre DEF PlacesListed
  <2>2. Place("sent", i, j).where = "sent" /\ Place("sent", i, j).packet = i
    BY PlaceParts
  <2>3. HeaderAt(Place("sent", i, j)) = stream[i].headers[j]
    BY PlacesHoldThat DEF PlacesHold
  <2> QED
    BY <1>3, <2>1, <2>2, <2>3
<1> QED
  BY <1>1, <1>2, <1>3

EventsListed ==
  \A type, e : e \in EventsSent(type) <=>
    \E i \in 1..Len(stream) : \E j \in 1..Len(stream[i].headers) :
      stream[i].type = type /\ e \in Events(stream[i].headers[j])

LEMMA EventsAreNext == EventsListed'
<1>1. EventsListed
  BY EventsAre DEF EventsListed
<1> QED
  BY <1>1, PTL

(* What a step adds to the packets of each type.                             *)
LEMMA EventsGrow ==
  ASSUME stream \in Seq(Packet), NEW g \in Seq(Packet), stream' = stream \o g
  PROVE  \A type, e :
           e \in EventsSent(type)' <=>
             \/ e \in EventsSent(type)
             \/ \E i \in 1..Len(g) : \E j \in 1..Len(g[i].headers) :
                  g[i].type = type /\ e \in Events(g[i].headers[j])
<1> TAKE type, e
<1>0. (e \in EventsSent(type)') <=>
        \E i \in 1..Len(stream') : \E j \in 1..Len(stream'[i].headers) :
          stream'[i].type = type /\ e \in Events(stream'[i].headers[j])
  <2>1. \A type1, e1 : (e1 \in EventsSent(type1)') <=>
          \E i \in 1..Len(stream') : \E j \in 1..Len(stream'[i].headers) :
            stream'[i].type = type1 /\ e1 \in Events(stream'[i].headers[j])
    BY EventsAreNext DEF EventsListed
  <2> QED
    BY <2>1
<1>1. /\ Len(stream') = Len(stream) + Len(g) /\ Len(stream) \in Nat /\ Len(g) \in Nat
      /\ \A i \in 1..Len(stream) : stream'[i] = stream[i]
      /\ \A i \in 1..Len(g) : stream'[Len(stream) + i] = g[i]
  BY ConcatAt
<1>2. \A i \in 1..Len(stream) : i \in 1..Len(stream')
  BY <1>1
<1>3. \A i \in 1..Len(g) : Len(stream) + i \in 1..Len(stream')
  BY <1>1
<1>4. ASSUME NEW i \in 1..Len(stream'), i \notin 1..Len(stream)
      PROVE  \E l \in 1..Len(g) : stream'[i] = g[l]
  <2>1. i - Len(stream) \in 1..Len(g) /\ i = Len(stream) + (i - Len(stream))
    BY <1>1, <1>4
  <2> QED
    BY <1>1, <2>1
<1>5. ASSUME e \in EventsSent(type)'
      PROVE  \/ e \in EventsSent(type)
             \/ \E i \in 1..Len(g) : \E j \in 1..Len(g[i].headers) :
                  g[i].type = type /\ e \in Events(g[i].headers[j])
  <2>0. \E i \in 1..Len(stream') : \E j \in 1..Len(stream'[i].headers) :
               stream'[i].type = type /\ e \in Events(stream'[i].headers[j])
    BY <1>0, <1>5
  <2>1. PICK i \in 1..Len(stream') : \E j \in 1..Len(stream'[i].headers) :
               stream'[i].type = type /\ e \in Events(stream'[i].headers[j])
    BY <2>0
  <2>2. CASE i \in 1..Len(stream)
    BY <1>1, <2>1, <2>2, EventsAre
  <2>3. CASE i \notin 1..Len(stream)
    <3>1. PICK l \in 1..Len(g) : stream'[i] = g[l]
      BY <1>4, <2>3
    <3>2. \E j \in 1..Len(g[l].headers) : g[l].type = type /\ e \in Events(g[l].headers[j])
      BY <2>1, <3>1
    <3> QED
      BY <3>2
  <2> QED
    BY <2>2, <2>3
<1>6. ASSUME e \in EventsSent(type)
      PROVE  e \in EventsSent(type)'
  <2>1. PICK i \in 1..Len(stream) : \E j \in 1..Len(stream[i].headers) :
               stream[i].type = type /\ e \in Events(stream[i].headers[j])
    BY <1>6, EventsAre
  <2>2. i \in 1..Len(stream') /\ stream'[i] = stream[i]
    BY <1>1, <1>2
  <2> QED
    BY <2>1, <2>2, EventsAreNext DEF EventsListed
<1>7. ASSUME NEW i \in 1..Len(g), NEW j \in 1..Len(g[i].headers),
             g[i].type = type, e \in Events(g[i].headers[j])
      PROVE  e \in EventsSent(type)'
  <2>1. PICK l : l = Len(stream) + i
    OBVIOUS
  <2>2. l \in 1..Len(stream') /\ stream'[l] = g[i]
    BY <1>1, <1>3, <2>1
  <2> QED
    BY <1>7, <2>2, EventsAreNext DEF EventsListed
<1> QED
  BY <1>5, <1>6, <1>7

(* Packets without pages leave the events that were sent as they were.       *)
LEMMA SameSent ==
  ASSUME stream \in Seq(Packet), NEW g \in Seq(Packet), stream' = stream \o g,
         \A i \in 1..Len(g) : g[i].headers = <<>>, NEW type
  PROVE  EventsSent(type)' = EventsSent(type)
<1>1. \A i \in 1..Len(g) : \A j \in 1..Len(g[i].headers) : FALSE
  OBVIOUS
<1>2. ASSUME NEW e PROVE e \in EventsSent(type)' <=> e \in EventsSent(type)
  <2>1. \A type1, e1 :
          e1 \in EventsSent(type1)' <=>
            \/ e1 \in EventsSent(type1)
            \/ \E i \in 1..Len(g) : \E j \in 1..Len(g[i].headers) :
                 g[i].type = type1 /\ e1 \in Events(g[i].headers[j])
    BY EventsGrow, Zenon
  <2> QED
    BY <1>1, <2>1
<1> QED
  BY <1>2

(* What the log sees of a step that leaves the stream alone.                 *)
LEMMA QuietSent ==
  ASSUME stream \in Seq(Packet), UNCHANGED stream
  PROVE  /\ UNCHANGED Closed
         /\ \A type : EventsSent(type)' = EventsSent(type)
<1>1. <<>> \in Seq(Packet) /\ stream' = stream \o <<>>
      /\ \A i \in 1..Len(<<>>) : <<>>[i].headers = <<>>
  OBVIOUS
<1>2. \A type : EventsSent(type)' = EventsSent(type)
  BY <1>1, SameSent
<1> QED
  BY <1>2 DEF Closed

(* An open stream is not closed, and packets other than 0xff do not close it. *)
LEMMA StaysOpen ==
  ASSUME stream \in Seq(Packet), Open, NEW g \in Seq(Packet), stream' = stream \o g,
         \A i \in 1..Len(g) : g[i].type # "end"
  PROVE  ~Closed /\ UNCHANGED Closed
<1>1. /\ Len(stream') = Len(stream) + Len(g) /\ Len(stream) \in Nat /\ Len(g) \in Nat
      /\ \A i \in 1..Len(stream) : stream'[i] = stream[i]
      /\ \A i \in 1..Len(g) : stream'[Len(stream) + i] = g[i]
  BY ConcatAt
<1>2. ~Closed
  BY DEF Closed, Open
<1>3. stream' # <<>> => Len(stream') # 0
  <2>1. stream' \in Seq(Packet)
    OBVIOUS
  <2> QED
    BY <2>1
<1>4. ASSUME NEW i \in 1..Len(stream') PROVE stream'[i].type # "end"
  <2>1. CASE i \in 1..Len(stream)
    BY <1>1, <2>1 DEF Open
  <2>2. CASE i \notin 1..Len(stream)
    <3>1. i - Len(stream) \in 1..Len(g) /\ i = Len(stream) + (i - Len(stream))
      BY <1>1, <2>2
    <3> QED
      BY <1>1, <3>1
  <2> QED
    BY <2>1, <2>2
<1> QED
  BY <1>1, <1>2, <1>3, <1>4 DEF Closed

(* A page outside the packets holds events that are committed and not settled. *)
LEMMA NotSettled ==
  ASSUME LocalTyped, PlaceInv, NEW q \in Places, q.where # "sent", NEW e \in Events(HeaderAt(q))
  PROVE  Log!Committed(e) /\ ~Log!Settled(e)
<1>1. PICK h : h = HeaderAt(q)
  OBVIOUS
<1>2. /\ h \in Header /\ 1 =< h.first /\ h.last =< flushed[h.thread]
      /\ h.thread \in Thread /\ h.first \in Nat /\ h.last \in Nat /\ flushed[h.thread] \in Nat
  BY <1>1 DEF PlaceInv, PlacesBounded, Header, LocalTyped
<1>3. PICK n \in h.first..h.last : e = <<h.thread, n>>
  BY <1>1 DEF Events
<1>4. e[1] = h.thread /\ e[2] = n /\ n \in Nat
  BY <1>2, <1>3
<1>5. ASSUME NEW type, e \in EventsSent(type) PROVE FALSE
  <2>1. PICK p \in Places : p.where = "sent" /\ e \in Events(HeaderAt(p))
    BY <1>5, Zenon DEF EventsSent
  <2>2. PICK f : f = HeaderAt(p) /\ f \in Header
    BY DEF PlaceInv, PlacesBounded
  <2>3. PICK m \in f.first..f.last : e = <<f.thread, m>>
    BY <2>1, <2>2 DEF Events
  <2>4. f.thread = h.thread /\ m = n
    BY <1>4, <2>3
  <2>5. p # q
    BY <2>1
  <2>6. Before(f, h) \/ Before(h, f)
    BY <1>1, <2>2, <2>5 DEF PlaceInv, PlacesApart
  <2> QED
    <3>1. f.first \in Nat /\ f.last \in Nat
      BY <2>2 DEF Header
    <3>2. n \in f.first..f.last
      BY <2>3, <2>4
    <3>3. f.last < h.first \/ h.last < f.first
      BY <2>4, <2>6 DEF Before
    <3> QED
      BY <1>2, <1>3, <1>4, <3>1, <3>2, <3>3
<1>6. n \in 1..flushed[h.thread]
  BY <1>2, <1>3
<1> QED
  BY <1>2, <1>4, <1>5, <1>6 DEF Log!Committed, Log!Settled

LEMMA CommitStep ==
  ASSUME TypeOK, NEW t \in Thread, PushPage(t)
  PROVE  Log!Commit(t)
<1>1. /\ UNCHANGED <<stream, recorded, finalizeStarted, due>>
      /\ flushed' = [flushed EXCEPT ![t] = recorded[t]]
  BY DEF PushPage, FlushedAfterPush, senderVars
<1>2. /\ UNCHANGED Closed
      /\ EventsSent("data")' = EventsSent("data") /\ EventsSent("failed")' = EventsSent("failed")
  BY <1>1, QuietSent DEF TypeOK
<1> QED
  BY <1>1, <1>2 DEF Log!Commit

LEMMA StoreStep ==
  ASSUME TypeOK, NEW t \in App, FinalizeStore(t)
  PROVE  Log!BeginFinalize \/ UNCHANGED Log!vars
<1>1. /\ UNCHANGED <<stream, recorded, flushed>> /\ finalizeStarted'
      /\ finalizeStarted' = TRUE /\ due' = (IF finalizeStarted THEN due ELSE flushed)
  BY DEF FinalizeStore, senderVars
<1>2. /\ UNCHANGED Closed
      /\ EventsSent("data")' = EventsSent("data") /\ EventsSent("failed")' = EventsSent("failed")
  BY <1>1, QuietSent DEF TypeOK
<1>3. CASE finalizeStarted
  BY <1>1, <1>2, <1>3 DEF Log!vars, TypeOK
<1>4. CASE ~finalizeStarted
  BY <1>1, <1>2, <1>4 DEF Log!BeginFinalize
<1> QED
  BY <1>3, <1>4

(* Whatever leaves the storage and the packets alone can only record.        *)
LEMMA RecordStep ==
  ASSUME TypeOK, [Next]_vars, \A t \in Thread : ~PushPage(t),
         UNCHANGED <<finalizeStarted, due, Closed>>,
         EventsSent("data")' = EventsSent("data"), EventsSent("failed")' = EventsSent("failed")
  PROVE  [Log!Next]_(Log!vars)
<1>1. CASE UNCHANGED <<recorded, flushed>>
  BY <1>1 DEF Log!vars
<1>2. CASE \E t \in Thread : Records(t)
  <2>1. PICK t \in Thread : Records(t)
    BY <1>2
  <2>2. recorded' = [recorded EXCEPT ![t] = @ + 1] /\ flushed' = flushed
    BY <2>1 DEF Records, RecordEvent
  <2>3. Log!Produce(t)
    BY <2>2 DEF Log!Produce
  <2> QED
    BY <2>3 DEF Log!Next
<1>3. \A t \in Thread : StartsFlush(t) \/ TryLock(t) \/ LockForFlush(t) =>
                          UNCHANGED <<recorded, flushed>>
  BY DEF StartsFlush, TryLock, LockForFlush
<1> QED
  BY <1>1, <1>2, <1>3, LocalKinds, TypeParts

LEMMA DeliverStep ==
  ASSUME TypeOK, SenderInv, PlaceInv, SenderSendData
  PROVE  Log!Deliver
<1>1. /\ stream' = stream \o << PacketOf("data", taken) >> /\ pc[Sender] = "sendData"
      /\ UNCHANGED <<recorded, flushed, finalizeStarted, due>>
  BY DEF SenderSendData, Send, Outgoing, At, sharedVars
<1>2. PICK g : g = << PacketOf("data", taken) >>
  OBVIOUS
<1>3. /\ g \in Seq(Packet) /\ stream \in Seq(Packet) /\ Len(g) = 1 /\ stream' = stream \o g
      /\ g[1].type = "data" /\ g[1].headers = taken
  BY <1>1, <1>2 DEF PacketOf, Packet, TypeOK
<1>4. ~Closed /\ UNCHANGED Closed
  <2>1. Open
    BY <1>1 DEF SenderInv, Ended
  <2>2. \A i \in 1..Len(g) : g[i].type # "end"
    BY <1>3
  <2> QED
    BY <1>3, <2>1, <2>2, StaysOpen
<1>5. \A type, e :
        e \in EventsSent(type)' <=>
          \/ e \in EventsSent(type)
          \/ \E i \in 1..Len(g) : \E j \in 1..Len(g[i].headers) :
               g[i].type = type /\ e \in Events(g[i].headers[j])
  BY <1>3, EventsGrow, Zenon
<1>6. \A e : e \in EventsSent("data")' <=>
               e \in EventsSent("data") \/ \E j \in 1..Len(taken) : e \in Events(taken[j])
  <2>1. 1..Len(g) = {1}
    BY <1>3
  <2>2. \A e : (\E i \in 1..Len(g) : \E j \in 1..Len(g[i].headers) :
                  g[i].type = "data" /\ e \in Events(g[i].headers[j]))
                <=> \E j \in 1..Len(taken) : e \in Events(taken[j])
    BY <1>3, <2>1
  <2> QED
    BY <1>5, <2>2, Zenon
<1>7. EventsSent("failed")' = EventsSent("failed")
  <2>1. \A e : e \in EventsSent("failed")' <=> e \in EventsSent("failed")
    BY <1>3, <1>5
  <2> QED
    BY <2>1
<1>8. ASSUME NEW e \in EventsSent("data")' \ EventsSent("data")
      PROVE  /\ Log!Committed(e) /\ ~Log!Settled(e)
             /\ \A d \in EventsSent("data") : d[1] = e[1] => d[2] < e[2]
  <2>1. PICK j \in 1..Len(taken) : e \in Events(taken[j])
    BY <1>6
  <2>2. PICK q \in Places : q = Place("taken", 0, j)
    BY PlacesAre DEF PlacesListed
  <2>3. q.where = "taken" /\ HeaderAt(q) = taken[j]
    BY <2>2, PlaceParts, PlacesHoldThat DEF PlacesHold
  <2>4. Log!Committed(e) /\ ~Log!Settled(e)
    BY <2>1, <2>3, NotSettled, TypeParts
  <2>5. ASSUME NEW d \in EventsSent("data"), d[1] = e[1] PROVE d[2] < e[2]
    <3>1. PICK p \in Places : /\ p.where = "sent" /\ stream[p.packet].type = "data"
                              /\ d \in Events(HeaderAt(p))
      BY <2>5, Zenon DEF EventsSent
    <3>2. PICK f, h : f = HeaderAt(p) /\ h = HeaderAt(q) /\ f \in Header /\ h \in Header
      BY DEF PlaceInv, PlacesBounded
    <3>3. PICK m \in f.first..f.last : d = <<f.thread, m>>
      BY <3>1, <3>2 DEF Events
    <3>4. PICK n \in h.first..h.last : e = <<h.thread, n>>
      BY <2>1, <2>3, <3>2 DEF Events
    <3>5. d[1] = f.thread /\ d[2] = m /\ e[1] = h.thread /\ e[2] = n
      BY <3>3, <3>4
    <3>6. Rank(p) = 0 /\ Rank(q) = 1
      BY <2>3, <3>1 DEF Rank
    <3>7. Before(f, h)
      BY <3>2, <3>6 DEF PlaceInv, PlacesOrdered
    <3>8. f.last < h.first
      BY <2>5, <3>5, <3>7 DEF Before
    <3>9. f.first \in Nat /\ f.last \in Nat /\ h.first \in Nat /\ h.last \in Nat
      BY <3>2 DEF Header
    <3> QED
      BY <3>3, <3>4, <3>5, <3>8, <3>9
  <2> QED
    BY <2>4, <2>5
<1>9. EventsSent("data") \subseteq EventsSent("data")'
  BY <1>6
<1> QED
  BY <1>1, <1>4, <1>7, <1>8, <1>9 DEF Log!Deliver

LEMMA LoseStep ==
  ASSUME TypeOK, SenderInv, PlaceInv, NEW k, HeadersSent(k), pc[Sender] = "failed",
         UNCHANGED <<recorded, flushed, finalizeStarted, due>>
  PROVE  Log!Lose
<1>1. PICK g \in Seq(Packet) :
        /\ stream' = stream \o g /\ Len(g) = k
        /\ \A i \in 1..k : g[i] = PacketOf("failed", << failed[i] >>)
  BY DEF HeadersSent
<1>2. stream \in Seq(Packet) /\ k \in 0..Len(failed) /\ Len(failed) \in Nat
  BY DEF TypeOK, HeadersSent
<1>3. \A i \in 1..Len(g) : /\ g[i].type = "failed" /\ Len(g[i].headers) = 1
                           /\ g[i].headers[1] = failed[i] /\ i \in 1..Len(failed)
  BY <1>1, <1>2 DEF PacketOf
<1>4. ~Closed /\ UNCHANGED Closed
  <2>1. Open
    BY DEF SenderInv, Ended
  <2> QED
    BY <1>1, <1>2, <1>3, <2>1, StaysOpen
<1>5. \A type, e :
        e \in EventsSent(type)' <=>
          \/ e \in EventsSent(type)
          \/ \E i \in 1..Len(g) : \E j \in 1..Len(g[i].headers) :
               g[i].type = type /\ e \in Events(g[i].headers[j])
  BY <1>1, <1>2, EventsGrow, Zenon
<1>6. EventsSent("data")' = EventsSent("data")
  <2>1. \A e : e \in EventsSent("data")' <=> e \in EventsSent("data")
    BY <1>3, <1>5
  <2> QED
    BY <2>1
<1>7. EventsSent("failed") \subseteq EventsSent("failed")'
  <2>1. \A e : e \in EventsSent("failed") => e \in EventsSent("failed")'
    BY <1>5
  <2> QED
    BY <2>1
<1>8. ASSUME NEW e \in EventsSent("failed")' \ EventsSent("failed")
      PROVE  Log!Committed(e) /\ ~Log!Settled(e)
  <2>1. \E i \in 1..Len(g) : \E j \in 1..Len(g[i].headers) : e \in Events(g[i].headers[j])
    BY <1>5
  <2>2. PICK i \in 1..Len(failed) : e \in Events(failed[i])
    BY <1>3, <2>1
  <2>3. PICK q \in Places : q = Place("failed", 0, i)
    BY PlacesAre DEF PlacesListed
  <2>4. q.where = "failed" /\ HeaderAt(q) = failed[i]
    BY <2>3, PlaceParts, PlacesHoldThat DEF PlacesHold
  <2> QED
    BY <2>2, <2>4, NotSettled, TypeParts
<1> QED
  BY <1>4, <1>6, <1>7, <1>8 DEF Log!Lose

LEMMA CloseStep ==
  ASSUME TypeOK, SenderInv, PlaceInv, DrainInv, SenderEnd
  PROVE  Log!Close
<1>1. /\ pc[Sender] = "end" /\ stream' = stream \o Outgoing
      /\ UNCHANGED <<recorded, flushed, finalizeStarted, due>>
  BY DEF SenderEnd, Send, At, sharedVars
<1>2. /\ Outgoing \in Seq(Packet) /\ Len(Outgoing) = 2 /\ Outgoing[2].type = "end"
      /\ Outgoing[1].headers = <<>> /\ Outgoing[2].headers = <<>>
      /\ stream \in Seq(Packet)
  BY <1>1, OutgoingKinds, TypeParts DEF PacketsTyped
<1>3. taken = <<>> /\ failed = <<>> /\ Open
  BY <1>1 DEF SenderInv, EmptyHanded, Ended
<1>4. /\ EventsSent("data")' = EventsSent("data") /\ EventsSent("failed")' = EventsSent("failed")
  <2>1. \A i \in 1..Len(Outgoing) : Outgoing[i].headers = <<>>
    BY <1>2
  <2> QED
    BY <1>1, <1>2, <2>1, SameSent
<1>5. ~Closed
  BY <1>2, <1>3 DEF Closed, Open
<1>6. Closed' = TRUE
  <2>0. PICK g \in Seq(Packet) : g = Outgoing /\ stream' = stream \o g
    BY <1>1, <1>2
  <2>1. /\ Len(stream') = Len(stream) + Len(g) /\ Len(stream) \in Nat
        /\ \A i \in 1..Len(g) : stream'[Len(stream) + i] = g[i]
    BY <1>2, <2>0, ConcatAt
  <2>2. stream'[Len(stream')].type = "end" /\ Len(stream') # 0
    <3>1. Len(g) = 2 /\ g[2].type = "end"
      BY <1>2, <2>0
    <3>2. Len(stream') = Len(stream) + 2 /\ stream'[Len(stream) + 2] = g[2]
      BY <2>1, <3>1
    <3> QED
      BY <2>1, <3>1, <3>2
  <2> QED
    BY <2>2 DEF Closed
<1>7. finalizeStarted
  BY <1>1 DEF DrainInv
<1>8. ASSUME NEW t \in Thread, NEW n \in 1..due[t]
      PROVE  Log!Settled(<<t, n>>)
  <2>1. PICK p \in Places : Held(p) /\ Covers(HeaderAt(p), t, n)
    BY <1>1, <1>7, <1>8 DEF DrainInv, AfterTake
  <2>2. \A j : j \notin 1..Len(taken) /\ j \notin 1..Len(failed)
    BY <1>3
  <2>3. p.where = "sent"
    BY <2>1, <2>2, PlaceOf DEF Held
  <2>4. PICK i \in 1..Len(stream) : \E j \in 1..Len(stream[i].headers) : p = Place("sent", i, j)
    BY <2>3, PlaceOf
  <2>5. p.packet = i /\ stream[i].headers # <<>>
    BY <2>4, PlaceParts
  <2>6. stream[i].type \in {"data", "failed"}
    BY <1>3, <2>5 DEF Open
  <2>7. <<t, n>> \in Events(HeaderAt(p))
    BY <2>1 DEF Covers, Events
  <2>8. <<t, n>> \in EventsSent(stream[i].type)
    BY <2>3, <2>5, <2>7, Zenon DEF EventsSent
  <2> QED
    BY <2>6, <2>8 DEF Log!Settled
<1> QED
  BY <1>1, <1>4, <1>5, <1>6, <1>7, <1>8 DEF Log!Close

LEMMA OpenStays ==
  ASSUME TypeOK, SenderInv,
         SenderStart \/ SenderFreq \/ (SenderPanics /\ pc[Sender] # "failed")
  PROVE  UNCHANGED Closed
<1>1. PacketsTyped /\ Outgoing \in Seq(Packet) /\ stream \in Seq(Packet)
  BY TypeParts, OutgoingTyped DEF PacketsTyped
<1>2. CASE SenderStart \/ SenderFreq
  <2>1. stream' = stream \o Outgoing /\ pc[Sender] \in {"start", "sleep"}
    BY <1>2 DEF SenderStart, SenderFreq, Send, At
  <2>2. \A i \in 1..Len(Outgoing) : Outgoing[i].type # "end"
    BY <2>1 DEF Outgoing, PacketOf
  <2>3. Open
    BY <2>1 DEF SenderInv, Ended
  <2> QED
    BY <1>1, <2>1, <2>2, <2>3, StaysOpen
<1>3. CASE SenderPanics /\ pc[Sender] # "failed"
  <2>1. PICK k \in 0..(Len(Outgoing) - 1) : stream' = stream \o SubSeq(Outgoing, 1, k)
    BY <1>3 DEF SenderPanics
  <2>2. k \in Nat /\ k < Len(Outgoing) /\ Len(Outgoing) \in Nat
    BY <1>1, <2>1
  <2>3. /\ SubSeq(Outgoing, 1, k) \in Seq(Packet) /\ Len(SubSeq(Outgoing, 1, k)) = k
        /\ \A i \in 1..k : SubSeq(Outgoing, 1, k)[i] = Outgoing[i]
    BY <1>1, <2>2
  <2>4. pc[Sender] \in {"start", "sleep", "sendData", "end"}
    BY <1>1, <1>3, <2>2, OutgoingKinds
  <2>5. Open
    BY <2>4 DEF SenderInv, Ended
  <2>6. \A i \in 1..k : Outgoing[i].type # "end"
    <3>1. CASE pc[Sender] \in {"start", "sleep", "sendData"}
      <4>1. Len(Outgoing) = 1
        BY <3>1 DEF Outgoing
      <4> QED
        BY <2>2, <4>1
    <3>2. CASE pc[Sender] = "end"
      <4>1. Len(Outgoing) = 2 /\ Outgoing[1].type = "freq"
        BY <1>1, <3>2, OutgoingKinds
      <4>2. \A i \in 1..k : i = 1
        BY <2>2, <4>1
      <4> QED
        BY <4>1, <4>2
    <3> QED
      BY <2>4, <3>1, <3>2
  <2> QED
    BY <1>1, <2>1, <2>3, <2>5, <2>6, StaysOpen
<1> QED
  BY <1>2, <1>3

LEMMA LogInit == Init => Log!Init
<1> SUFFICES ASSUME Init PROVE Log!Init
  OBVIOUS
<1>1. /\ stream = <<>> /\ recorded = [t \in Thread |-> 0] /\ flushed = [t \in Thread |-> 0]
      /\ finalizeStarted = FALSE /\ due = [t \in Thread |-> 0]
  BY DEF Init
<1>2. \A type : EventsSent(type) = {}
  <2>1. \A i : i \notin 1..Len(stream)
    BY <1>1
  <2>2. \A type, e : e \notin EventsSent(type)
    BY <2>1, EventsAre
  <2> QED
    BY <2>2
<1>3. Closed = FALSE
  BY <1>1 DEF Closed
<1> QED
  BY <1>1, <1>2, <1>3 DEF Log!Init

(* Every step of the pipeline is a step of the log, or none.                 *)
LEMMA LogNext ==
  ASSUME TypeOK, LocalInv, SenderInv, PlaceInv, DrainInv, [Next]_vars
  PROVE  [Log!Next]_(Log!vars)
<1>0. App \subseteq Thread /\ PacketsTyped /\ stream \in Seq(Packet)
  BY ConstantsTyped, TypeParts DEF PacketsTyped
<1>1. CASE \E t \in Thread : PushPage(t)
  BY <1>1, CommitStep DEF Log!Next
<1>2. CASE \E t \in App : FinalizeStore(t)
  BY <1>2, StoreStep DEF Log!Next
<1>3. CASE SenderSendData
  BY <1>3, DeliverStep DEF Log!Next
<1>4. CASE SenderSendFailed \/ (SenderPanics /\ pc[Sender] = "failed")
  <2>1. UNCHANGED <<recorded, flushed, finalizeStarted, due>>
    BY <1>4 DEF SenderSendFailed, SenderPanics, sharedVars
  <2>2. pc[Sender] = "failed" /\ \E k : HeadersSent(k)
    BY <1>4, HeadersMove
  <2> QED
    BY <2>1, <2>2, LoseStep DEF Log!Next
<1>5. CASE SenderEnd
  BY <1>5, CloseStep DEF Log!Next
<1>6. CASE /\ \A t \in Thread : ~PushPage(t)
           /\ SenderStart \/ SenderFreq \/ (SenderPanics /\ pc[Sender] # "failed")
  <2>1. PICK g \in Seq(Packet) : stream' = stream \o g /\ \A i \in 1..Len(g) : g[i].headers = <<>>
    BY <1>6, PlainMoves
  <2>2. EventsSent("data")' = EventsSent("data") /\ EventsSent("failed")' = EventsSent("failed")
    BY <1>0, <2>1, SameSent
  <2>3. UNCHANGED Closed
    BY <1>6, OpenStays
  <2>4. UNCHANGED <<finalizeStarted, due>>
    BY <1>6 DEF SenderStart, SenderFreq, SenderPanics, sharedVars
  <2> QED
    BY <1>6, <2>2, <2>3, <2>4, RecordStep
<1>7. CASE /\ \A t \in Thread : ~PushPage(t)
           /\ \A t \in App : ~FinalizeStore(t)
           /\ \/ \E t \in Thread : TryLock(t) \/ LockForFlush(t)
              \/ \E t \in App : CallStep(t) \/ BodyStep(t)
              \/ SenderLoad \/ SenderLock \/ SenderTake \/ SenderUnlock \/ SenderUnflag
              \/ SenderData \/ SenderSent \/ SenderExit
              \/ UNCHANGED vars
  <2>1. UNCHANGED stream
    BY <1>7, StillSteps DEF Still, SenderTake
  <2>2. UNCHANGED <<finalizeStarted, due>>
    BY <1>7 DEF TryLock, LockForFlush, CallStep, Event, FlushThreadLocal, Exit, CallInit,
         CallFinalize, BodyStep, InitLock, InitStorage, FinalizeLock, FinalizeTakeHandle,
         FinalizeJoin, SenderLoad, SenderLock, SenderTake, SenderUnlock, SenderUnflag,
         SenderData, SenderSent, SenderExit, vars, sharedVars
  <2>3. /\ UNCHANGED Closed
        /\ EventsSent("data")' = EventsSent("data") /\ EventsSent("failed")' = EventsSent("failed")
    BY <1>0, <2>1, QuietSent
  <2> QED
    BY <1>7, <2>2, <2>3, RecordStep
<1> QED
  BY <1>1, <1>2, <1>3, <1>4, <1>5, <1>6, <1>7 DEF Next, SenderStep, FlushStep, Terminated

LogInv == TypeOK /\ LocalInv /\ RingNeverOverruns /\ SenderInv /\ PlaceInv /\ SizeInv /\ DrainInv

LEMMA LogInvariant == Spec => []LogInv
<1>1. Init => SenderInv /\ PlaceInv /\ SizeInv /\ DrainInv
  BY SenderInit, PlaceInit, DrainInit
<1>2. PipelineInv /\ SenderInv /\ PlaceInv /\ SizeInv /\ DrainInv /\ [Next]_vars
        => (SenderInv /\ PlaceInv /\ SizeInv /\ DrainInv)'
  BY SenderNext, PlaceNext, SizeNext, DrainNext DEF PipelineInv
<1>3. PipelineInv /\ SenderInv /\ PlaceInv /\ SizeInv /\ DrainInv => LogInv
  BY DEF PipelineInv, LogInv
<1> QED
  BY <1>1, <1>2, <1>3, PipelineInvariant, PTL DEF Spec

(***************************************************************************)
(* Every event that has left its thread's buffer is in exactly one page,   *)
(* and that page in exactly one place, whatever the flushes, cleanups,     *)
(* takes and sends of all threads do in between.                           *)
(***************************************************************************)
THEOREM EventsAccounted == Spec => []EveryEventAccounted
<1>1. LogInv => EveryEventAccounted
  BY PlacesAccount DEF LogInv
<1> QED
  BY <1>1, LogInvariant, PTL

(***************************************************************************)
(* The pipeline implements the event log: no event is delivered twice, or  *)
(* delivered and declared lost; each thread's events are delivered in the  *)
(* order it recorded them; and a stream that ends with 0xff accounts for   *)
(* everything that was flushed before finalize was called.                 *)
(***************************************************************************)
THEOREM PipelineImplementsLog == Spec => ImplementsEventLog
<1>1. LogInv /\ [Next]_vars => [Log!Next]_(Log!vars)
  BY LogNext DEF LogInv
<1> QED
  BY <1>1, LogInit, LogInvariant, PTL DEF Spec, ImplementsEventLog, Log!Spec
-----------------------------------------------------------------------------
(***************************************************************************)
(* Deadlocks.  The invariant says who owns the mutex: the threads that are *)
(* in a critical section, of which there is one at most, and which wait    *)
(* for nothing there.                                                      *)
(***************************************************************************)
AppPlaces ==
  {"run", "initLock", "initCS", "finStore", "finLock", "finTake", "join", "after", "gone"}

SenderPlaces ==
  {"none", "start", "sleep", "load", "lock", "take", "unlock", "unflag", "data",
   "sendData", "sent", "failed", "end", "exit", "gone"}

(* Where a thread's program has locked the mutex, other than for a flush. *)
LockedPlaces == {"initCS", "finTake", "take", "unlock"}

PlacesTyped ==
  /\ \A t \in App : /\ pc[t] \in AppPlaces
                    /\ pc[t] \in {"initLock", "initCS", "finLock", "finTake", "join"}
                         => op[t] = "ready"
  /\ pc[Sender] \in SenderPlaces
  /\ created <=> pc[Sender] # "none"
  /\ handle => created
  /\ \A t \in App : pc[t] = "join" => created

Inside(t) == op[t] = "push" \/ pc[t] \in LockedPlaces

MutexInv ==
  /\ \A t \in Thread : lock = t <=> Inside(t)
  /\ \A t \in Thread : op[t] = "push" => pc[t] \notin LockedPlaces

LEMMA MutexInit == Init => PlacesTyped /\ MutexInv
<1> SUFFICES ASSUME Init PROVE PlacesTyped /\ MutexInv
  OBVIOUS
<1>1. /\ lock = NoThread /\ NoThread \notin Thread /\ created = FALSE /\ handle = FALSE
      /\ \A t \in Thread : op[t] = "ready" /\ pc[t] = IF t = Sender THEN "none" ELSE "run"
      /\ Sender \in Thread /\ App \subseteq Thread /\ Sender \notin App
  BY ConstantsTyped, ThreadsDiffer DEF Init
<1>2. PlacesTyped
  BY <1>1 DEF PlacesTyped, AppPlaces, SenderPlaces
<1>3. MutexInv
  BY <1>1 DEF MutexInv, Inside, LockedPlaces
<1> QED
  BY <1>2, <1>3

LEMMA PlacesTypedNext ==
  ASSUME SharedTyped, LocalTyped, PlacesTyped, [Next]_vars
  PROVE  PlacesTyped'
<1> USE DEF PlacesTyped, AppPlaces, SenderPlaces
<1>1. /\ pc \in [Thread -> PcState] /\ op \in [Thread -> OpState]
      /\ created \in BOOLEAN /\ handle \in BOOLEAN
      /\ Sender \in Thread /\ App \subseteq Thread /\ Sender \notin App
  BY ConstantsTyped, ThreadsDiffer DEF SharedTyped, LocalTyped
<1>2. ASSUME NEW t \in Thread, FlushStep(t)
      PROVE  PlacesTyped'
  <2>1. CASE TryLock(t) \/ LockForFlush(t)
    BY <1>1, <2>1 DEF TryLock, LockForFlush
  <2>2. CASE PushPage(t)
    BY <1>1, <2>2 DEF PushPage, GetOrCreate, PcAfterCreate
  <2> QED
    BY <1>2, <2>1, <2>2 DEF FlushStep
<1>3. ASSUME NEW t \in App, CallStep(t)
      PROVE  PlacesTyped'
  BY <1>1, <1>3 DEF CallStep, Event, FlushThreadLocal, Exit, CallInit, CallFinalize, Idle,
                    RecordEvent, FlushForced, sharedVars
<1>4. ASSUME NEW t \in App, BodyStep(t)
      PROVE  PlacesTyped'
  <2>1. CASE InitLock(t) \/ FinalizeStore(t) \/ FinalizeLock(t)
    BY <1>1, <2>1 DEF InitLock, FinalizeStore, FinalizeLock
  <2>2. CASE InitStorage(t)
    BY <1>1, <2>2 DEF InitStorage, GetOrCreate, PcAfterCreate
  <2>3. CASE FinalizeTakeHandle(t) \/ FinalizeJoin(t)
    BY <1>1, <2>3 DEF FinalizeTakeHandle, FinalizeJoin, sharedVars
  <2> QED
    BY <1>4, <2>1, <2>2, <2>3 DEF BodyStep
<1>5. ASSUME SenderStep PROVE PlacesTyped'
  <2>1. /\ pc'[Sender] \in SenderPlaces \ {"none"} /\ created' = created /\ handle' = handle
        /\ \A t \in App : pc'[t] = pc[t] /\ op'[t] = op[t]
    BY <1>1, <1>5 DEF SenderStep, SenderStart, SenderFreq, SenderLoad, SenderLock, SenderTake,
         SenderUnlock, SenderUnflag, SenderData, SenderSendData, SenderSent, SenderSendFailed,
         SenderEnd, SenderPanics, SenderExit, GoTo, SelfEvent, RecordEvent, FlushForced,
         sharedVars
  <2>2. pc[Sender] # "none"
    <3>1. ASSUME SenderPanics PROVE pc[Sender] # "none"
      <4>1. Len(Outgoing) - 1 >= 0
        BY <3>1 DEF SenderPanics
      <4>2. pc[Sender] = "none" => Outgoing = <<>>
        BY DEF Outgoing
      <4> QED
        BY <4>1, <4>2
    <3> QED
      BY <1>5, <3>1 DEF SenderStep, SenderStart, SenderFreq, SenderLoad, SenderLock,
           SenderTake, SenderUnlock, SenderUnflag, SenderData, SenderSendData, SenderSent,
           SenderSendFailed, SenderEnd, SenderExit, At
  <2> QED
    BY <2>1, <2>2
<1>6. CASE UNCHANGED vars
  BY <1>6 DEF vars, sharedVars, localVars
<1> QED
  BY <1>2, <1>3, <1>4, <1>5, <1>6 DEF Next, Terminated

(***************************************************************************)
(* What a step of one thread can be for the mutex: it stays outside of its *)
(* critical sections, enters one from outside while the mutex is free,     *)
(* leaves one, or stays where it is.                                       *)
(***************************************************************************)
Enters(t) == lock = NoThread /\ lock' = t /\ ~Inside(t) /\ Inside(t)'
Leaves(t) == Inside(t) /\ lock' = NoThread /\ ~Inside(t)'
Keeps(t)  == lock' = lock /\ (Inside(t)' <=> Inside(t))

MutexStep(t) ==
  /\ Enters(t) \/ Leaves(t) \/ Keeps(t)
  /\ (op[t] = "push" => pc[t] \notin LockedPlaces)'
  /\ \A u \in Thread \ {t} :
       op'[u] = op[u] /\ (pc'[u] = pc[u] \/ {pc[u], pc'[u]} \cap LockedPlaces = {})

LEMMA MutexStepKeeps ==
  ASSUME SharedTyped, MutexInv, NEW t \in Thread, MutexStep(t)
  PROVE  MutexInv'
<1>1. NoThread \notin Thread /\ t # NoThread /\ lock \in Thread \cup {NoThread}
  BY ConstantsTyped DEF SharedTyped
<1>2. \A u \in Thread \ {t} : Inside(u)' <=> Inside(u)
  BY DEF MutexStep, Inside
<1>3. \A u \in Thread \ {t} : (op[u] = "push" => pc[u] \notin LockedPlaces)'
  BY DEF MutexStep, MutexInv
<1>4. \A u \in Thread : lock = u <=> Inside(u)
  BY DEF MutexInv
<1>5. \A u \in Thread : lock' = u <=> Inside(u)'
  <2>1. CASE Enters(t)
    BY <1>1, <1>2, <1>4, <2>1 DEF Enters
  <2>2. CASE Leaves(t)
    BY <1>1, <1>2, <1>4, <2>2 DEF Leaves
  <2>3. CASE Keeps(t)
    BY <1>1, <1>2, <1>4, <2>3 DEF Keeps
  <2> QED
    BY <2>1, <2>2, <2>3 DEF MutexStep
<1> QED
  BY <1>3, <1>5 DEF MutexInv, MutexStep

(* What a call can do to the thread's flush: nothing, or begin one.          *)
LEMMA BeginsAtMost ==
  ASSUME op \in [Thread -> OpState], NEW t \in Thread, op[t] = "ready",
         \/ FlushForced(t) \/ UNCHANGED op
         \/ \E busy : RecordEvent(t, busy)
         \/ t = Sender /\ \E busy : SelfEvent(busy)
  PROVE  /\ op'[t] \in {"ready", "try", "wait"}
         /\ \A u \in Thread \ {t} : op'[u] = op[u]
<1>1. ASSUME NEW len, NEW busy PROVE AutoFlush(len, busy) \in {"ready", "try", "wait"}
  BY DEF AutoFlush
<1>2. ASSUME NEW busy, RecordEvent(t, busy)
      PROVE  /\ op'[t] \in {"ready", "try", "wait"}
             /\ \A u \in Thread \ {t} : op'[u] = op[u]
  <2>1. PICK next : next = AutoFlush(Buffered(t) + 1, busy) /\ op' = [op EXCEPT ![t] = next]
    BY <1>2 DEF RecordEvent
  <2> QED
    BY <1>1, <2>1
<1> QED
  BY <1>2 DEF FlushForced, SelfEvent

LEMMA FlushIsMutexStep ==
  ASSUME SharedTyped, LocalTyped, PlacesTyped, MutexInv, NEW t \in Thread, FlushStep(t)
  PROVE  MutexStep(t)
<1>1. /\ pc \in [Thread -> PcState] /\ op \in [Thread -> OpState]
      /\ t # NoThread /\ Sender \in Thread /\ (lock = t <=> Inside(t))
      /\ op[t] = "push" => pc[t] \notin LockedPlaces
      /\ created <=> pc[Sender] # "none"
  BY ConstantsTyped DEF SharedTyped, LocalTyped, MutexInv, PlacesTyped
<1>2. CASE TryLock(t) \/ LockForFlush(t)
  <2>1. /\ op[t] \in {"try", "wait"} /\ pc' = pc
        /\ \/ lock = NoThread /\ lock' = t /\ op' = [op EXCEPT ![t] = "push"]
           \/ lock' = lock /\ op' = [op EXCEPT ![t] = "ready"]
    BY <1>2 DEF TryLock, LockForFlush
  <2> QED
    BY <1>1, <2>1 DEF MutexStep, Enters, Keeps, Inside
<1>3. CASE PushPage(t)
  <2>1. /\ op[t] = "push" /\ op' = [op EXCEPT ![t] = "ready"] /\ lock' = NoThread
        /\ \/ pc' = pc
           \/ pc[Sender] = "none" /\ pc' = [pc EXCEPT ![Sender] = "start"]
    BY <1>1, <1>3 DEF PushPage, PcAfterCreate
  <2>2. Leaves(t)
    BY <1>1, <2>1 DEF Leaves, Inside, LockedPlaces
  <2> QED
    BY <1>1, <2>1, <2>2 DEF MutexStep, LockedPlaces
<1> QED
  BY <1>2, <1>3 DEF FlushStep

LEMMA CallIsMutexStep ==
  ASSUME SharedTyped, LocalTyped, MutexInv, NEW t \in App, CallStep(t)
  PROVE  MutexStep(t)
<1>1. /\ pc \in [Thread -> PcState] /\ op \in [Thread -> OpState] /\ t \in Thread
  BY ConstantsTyped DEF SharedTyped, LocalTyped
<1>2. /\ op[t] = "ready" /\ pc[t] \in {"run", "after"}
      /\ lock' = lock /\ \A u \in Thread \ {t} : pc'[u] = pc[u]
      /\ pc'[t] \in {"run", "after", "gone", "initLock", "finStore"}
      /\ FlushForced(t) \/ UNCHANGED op \/ \E busy : RecordEvent(t, busy)
  BY <1>1 DEF CallStep, Event, FlushThreadLocal, Exit, CallInit, CallFinalize, Idle, sharedVars
<1>3. /\ op'[t] \in {"ready", "try", "wait"}
      /\ \A u \in Thread \ {t} : op'[u] = op[u]
  BY <1>1, <1>2, BeginsAtMost
<1> QED
  BY <1>2, <1>3 DEF MutexStep, Keeps, Inside, LockedPlaces

LEMMA BodyIsMutexStep ==
  ASSUME SharedTyped, LocalTyped, PlacesTyped, MutexInv, NEW t \in App, BodyStep(t)
  PROVE  MutexStep(t)
<1>1. /\ pc \in [Thread -> PcState] /\ op \in [Thread -> OpState] /\ t \in Thread
      /\ t # NoThread /\ Sender \in Thread /\ (lock = t <=> Inside(t)) /\ t # Sender
      /\ op[t] = "push" => pc[t] \notin LockedPlaces
      /\ pc[t] \in {"initLock", "initCS", "finLock", "finTake", "join"} => op[t] = "ready"
      /\ created <=> pc[Sender] # "none"
  BY ConstantsTyped, ThreadsDiffer DEF SharedTyped, LocalTyped, MutexInv, PlacesTyped
<1>2. CASE InitLock(t) \/ FinalizeLock(t)
  <2>1. /\ pc[t] \in {"initLock", "finLock"} /\ op' = op /\ lock = NoThread /\ lock' = t
        /\ pc'[t] \in {"initCS", "finTake"} /\ \A u \in Thread \ {t} : pc'[u] = pc[u]
    BY <1>1, <1>2 DEF InitLock, FinalizeLock
  <2> QED
    BY <1>1, <2>1 DEF MutexStep, Enters, Inside, LockedPlaces
<1>3. CASE InitStorage(t) \/ FinalizeTakeHandle(t)
  <2>1. /\ pc[t] \in {"initCS", "finTake"} /\ op' = op /\ lock' = NoThread
        /\ pc'[t] \in {"run", "join", "after"}
        /\ \A u \in Thread \ {t} :
             pc'[u] = pc[u] \/ (pc[u] = "none" /\ pc'[u] = "start")
    BY <1>1, <1>3 DEF InitStorage, FinalizeTakeHandle, PcAfterCreate
  <2> QED
    BY <1>1, <2>1 DEF MutexStep, Leaves, Inside, LockedPlaces
<1>4. CASE FinalizeStore(t) \/ FinalizeJoin(t)
  <2>1. /\ pc[t] \in {"finStore", "join"} /\ op' = op /\ op[t] = "ready" /\ lock' = lock
        /\ pc'[t] \in {"finLock", "after"} /\ \A u \in Thread \ {t} : pc'[u] = pc[u]
    BY <1>1, <1>4 DEF FinalizeStore, FinalizeJoin, sharedVars
  <2> QED
    BY <1>1, <2>1 DEF MutexStep, Keeps, Inside, LockedPlaces
<1> QED
  BY <1>2, <1>3, <1>4 DEF BodyStep

LEMMA SenderIsMutexStep ==
  ASSUME SharedTyped, LocalTyped, PlacesTyped, MutexInv, SenderStep
  PROVE  MutexStep(Sender)
<1>1. /\ pc \in [Thread -> PcState] /\ op \in [Thread -> OpState]
      /\ Sender # NoThread /\ Sender \in Thread /\ (lock = Sender <=> Inside(Sender))
  BY ConstantsTyped DEF SharedTyped, LocalTyped, MutexInv
<1>2. op[Sender] = "ready" /\ \A u \in Thread \ {Sender} : pc'[u] = pc[u]
  BY <1>1 DEF SenderStep, SenderStart, SenderFreq, SenderLoad, SenderLock, SenderTake,
       SenderUnlock, SenderUnflag, SenderData, SenderSendData, SenderSent, SenderSendFailed,
       SenderEnd, SenderPanics, SenderExit, GoTo, At
<1>3. FlushForced(Sender) \/ UNCHANGED op \/ \E busy : SelfEvent(busy)
  BY DEF SenderStep, SenderStart, SenderFreq, SenderLoad, SenderLock, SenderTake,
       SenderUnlock, SenderUnflag, SenderData, SenderSendData, SenderSent, SenderSendFailed,
       SenderEnd, SenderPanics, SenderExit
<1>4. /\ op'[Sender] \in {"ready", "try", "wait"}
      /\ \A u \in Thread \ {Sender} : op'[u] = op[u]
  BY <1>1, <1>2, <1>3, BeginsAtMost
<1>5. CASE SenderLock
  <2>1. pc[Sender] = "lock" /\ pc'[Sender] = "take" /\ lock = NoThread /\ lock' = Sender
    BY <1>1, <1>5 DEF SenderLock, At, GoTo
  <2> QED
    BY <1>1, <1>2, <1>4, <2>1 DEF MutexStep, Enters, Inside, LockedPlaces
<1>6. CASE SenderTake
  <2>1. pc[Sender] = "take" /\ pc'[Sender] = "unlock" /\ lock' = lock
    BY <1>1, <1>6 DEF SenderTake, At, GoTo
  <2> QED
    BY <1>1, <1>2, <1>4, <2>1 DEF MutexStep, Keeps, Inside, LockedPlaces
<1>7. CASE SenderUnlock
  <2>1. pc[Sender] = "unlock" /\ pc'[Sender] = "unflag" /\ lock' = NoThread
    BY <1>1, <1>7 DEF SenderUnlock, At, GoTo
  <2> QED
    BY <1>1, <1>2, <1>4, <2>1 DEF MutexStep, Leaves, Inside, LockedPlaces
<1>8. CASE SenderPanics
  <2>1. pc[Sender] \in {"start", "sleep", "sendData", "failed", "end"}
    <3>1. Len(Outgoing) - 1 >= 0
      BY <1>8 DEF SenderPanics
    <3>2. pc[Sender] \notin {"start", "sleep", "sendData", "failed", "end"} => Outgoing = <<>>
      BY DEF Outgoing
    <3> QED
      BY <3>1, <3>2
  <2>2. pc'[Sender] = "exit" /\ lock' = lock
    BY <1>1, <1>8 DEF SenderPanics, GoTo, sharedVars
  <2> QED
    BY <1>1, <1>2, <1>4, <2>1, <2>2 DEF MutexStep, Keeps, Inside, LockedPlaces
<1>9. CASE \/ SenderStart \/ SenderFreq \/ SenderLoad \/ SenderUnflag \/ SenderData
           \/ SenderSendData \/ SenderSent \/ SenderSendFailed \/ SenderEnd \/ SenderExit
  <2>1. /\ pc[Sender] \notin LockedPlaces /\ pc'[Sender] \notin LockedPlaces /\ lock' = lock
    BY <1>1, <1>9 DEF SenderStart, SenderFreq, SenderLoad, SenderUnflag, SenderData,
         SenderSendData, SenderSent, SenderSendFailed, SenderEnd, SenderExit, At, GoTo,
         sharedVars, LockedPlaces
  <2> QED
    BY <1>1, <1>2, <1>4, <2>1 DEF MutexStep, Keeps, Inside, LockedPlaces
<1> QED
  BY <1>5, <1>6, <1>7, <1>8, <1>9 DEF SenderStep

LEMMA MutexNext ==
  ASSUME TypeOK, PlacesTyped, MutexInv, [Next]_vars
  PROVE  PlacesTyped' /\ MutexInv'
<1>1. SharedTyped /\ LocalTyped
  BY TypeParts
<1>2. PlacesTyped'
  BY <1>1, PlacesTypedNext
<1>3. CASE UNCHANGED vars
  BY <1>2, <1>3 DEF MutexInv, Inside, vars, sharedVars, localVars
<1>4. CASE \E t \in Thread : MutexStep(t)
  BY <1>1, <1>2, <1>4, MutexStepKeeps
<1>5. UNCHANGED vars \/ \E t \in Thread : MutexStep(t)
  BY <1>1, FlushIsMutexStep, CallIsMutexStep, BodyIsMutexStep, SenderIsMutexStep, ConstantsTyped
     DEF Next, Terminated
<1> QED
  BY <1>2, <1>3, <1>4, <1>5

(***************************************************************************)
(* GLOBAL_STORAGE excludes: only its owner is in a critical section, in    *)
(* init, finalize, a flush or the sending thread's round, and every thread *)
(* that leaves one has unlocked it.                                        *)
(***************************************************************************)
THEOREM MutualExclusion ==
  Spec => [](\A t \in Thread : lock = t <=> Inside(t))
<1>1. MutexInv => \A t \in Thread : lock = t <=> Inside(t)
  BY DEF MutexInv
<1> QED
  BY <1>1, MutexInit, MutexNext, TypeCorrect, PTL DEF Spec
-----------------------------------------------------------------------------
(* Nobody waits with the mutex in hand, so its owner can go on.              *)
LEMMA OwnerGoesOn ==
  ASSUME TypeOK, LocalInv, RingNeverOverruns, PlacesTyped, MutexInv,
         ~SelfLocked, lock # NoThread
  PROVE  lock \in Thread /\ CanGoOn(lock)
<1>1. PICK t \in Thread : t = lock /\ Inside(t)
  BY DEF TypeOK, MutexInv
<1>2. CASE op[t] = "push"
  <2>1. Buffered(t) \in Nat /\ Buffered(t) =< LocalForce /\ NewHeader(t) \in Header
    BY <1>2, PageToPush
  <2>2. RingTyped(Header) /\ ~garbled
    BY TypeParts DEF RingNeverOverruns
  <2>3. RoomFor(Buffered(t))
    <3>1. CleanupAt + HdrLen + Buffered(t) =< Capacity
      BY <2>1, LargestPageFits, ConstantsTyped
    <3> QED
      BY <3>1 DEF RoomFor, RingNeverOverruns
  <2>4. PushReturns(NewHeader(t), Buffered(t))
    BY <2>1, <2>2, <2>3, PushEnds
  <2> QED
    BY <1>1, <1>2, <2>4 DEF CanGoOn, InCall, WaitsForLock
<1>3. CASE op[t] # "push"
  <2>1. pc[t] \in LockedPlaces
    BY <1>1, <1>3 DEF Inside
  <2>2. CASE t = Sender
    BY <1>1, <1>3, <2>1, <2>2 DEF CanGoOn, InCall, WaitsForLock, LockedPlaces, SelfLocked
  <2>3. CASE t \in App
    <3>1. pc[t] \in {"initCS", "finTake"} /\ op[t] = "ready"
      BY <2>1, <2>3 DEF PlacesTyped, AppPlaces, LockedPlaces
    <3> QED
      BY <1>1, <3>1 DEF CanGoOn, InCall, WaitsForLock
  <2> QED
    BY <2>2, <2>3 DEF Thread
<1> QED
  BY <1>2, <1>3

LEMMA SomebodyGoesOn ==
  ASSUME TypeOK, LocalInv, RingNeverOverruns, PlacesTyped, MutexInv, ~SelfLocked,
         NEW t \in Thread, InCall(t)
  PROVE  \E u \in {t, lock, Sender} \ {NoThread} : CanGoOn(u)
<1>0. NoThread \notin Thread /\ Sender \in Thread
  BY ConstantsTyped
<1>1. CASE lock # NoThread
  BY <1>1, OwnerGoesOn
<1>2. CASE lock = NoThread
  <2>1. \A u \in Thread : op[u] # "push"
    BY <1>0, <1>2 DEF MutexInv, Inside
  <2>2. ASSUME NEW u \in Thread, InCall(u), ~(op[u] = "ready" /\ pc[u] = "join")
        PROVE  CanGoOn(u)
    BY <1>2, <2>1, <2>2 DEF CanGoOn
  <2>3. CASE op[t] = "ready" /\ pc[t] = "join"
    <3>1. CASE SenderGone
      BY <1>0, <2>1, <2>3, <3>1 DEF CanGoOn, InCall, WaitsForLock
    <3>2. CASE ~SenderGone
      <4>1. t \in App /\ created
        BY <2>3 DEF PlacesTyped, SenderPlaces, Thread
      <4>2. pc[Sender] \notin {"none", "run", "after", "join"}
        BY <4>1 DEF PlacesTyped, SenderPlaces
      <4>3. InCall(Sender)
        BY <3>2, <4>2 DEF InCall, SenderGone
      <4> QED
        BY <1>0, <2>2, <4>2, <4>3
    <3> QED
      BY <3>1, <3>2
  <2> QED
    BY <1>0, <2>2, <2>3
<1> QED
  BY <1>1, <1>2

LEMMA StuckFacts ==
  Spec => []((TypeOK /\ LocalInv /\ RingNeverOverruns) /\ (PlacesTyped /\ MutexInv))
<1>1. PipelineInv => TypeOK /\ LocalInv /\ RingNeverOverruns
  BY DEF PipelineInv
<1> QED
  BY <1>1, MutexInit, MutexNext, PipelineInvariant, PTL DEF Spec

(***************************************************************************)
(* For any number of threads, finalizers and flushes: whenever a thread is *)
(* inside a call, it can go on or the one it waits for can, the owner of   *)
(* GLOBAL_STORAGE or the sending thread that is joined.  The one exception *)
(* is the sending thread that waits for the mutex it holds.                *)
(***************************************************************************)
THEOREM NoOtherDeadlock == Spec => []NobodyIsStuck
<1>1. (TypeOK /\ LocalInv /\ RingNeverOverruns) /\ (PlacesTyped /\ MutexInv) => NobodyIsStuck
  BY SomebodyGoesOn DEF NobodyIsStuck
<1> QED
  BY <1>1, StuckFacts, PTL

(* Without self-tracing the sending thread records nothing and never flushes. *)
SenderQuiet == recorded[Sender] = 0 /\ op[Sender] = "ready"

LEMMA QuietNext ==
  ASSUME ~SelfTracing, LocalInv, SharedTyped, SenderQuiet, [Next]_vars
  PROVE  SenderQuiet'
<1>1. /\ recorded \in [Thread -> Nat] /\ flushed \in [Thread -> Nat]
      /\ op \in [Thread -> OpState] /\ Sender \in Thread /\ Sender \notin App
      /\ recorded[Sender] = 0 /\ op[Sender] = "ready"
  BY ConstantsTyped, ThreadsDiffer DEF LocalInv, LocalTyped, SenderQuiet
<1>2. Buffered(Sender) = 0
  BY <1>1, ConstantsTyped DEF LocalInv, LocalBufferBounded, Buffered
<1>3. ASSUME NEW t \in Thread, FlushStep(t) PROVE SenderQuiet'
  BY <1>1, <1>3 DEF FlushStep, TryLock, LockForFlush, PushPage, SenderQuiet
<1>4. ASSUME NEW t \in App, CallStep(t) PROVE SenderQuiet'
  <2>1. t \in Thread /\ t # Sender
    BY <1>1, ConstantsTyped
  <2>2. recorded'[Sender] = recorded[Sender] /\ op'[Sender] = op[Sender]
    BY <1>1, <1>4, <2>1 DEF CallStep, Event, FlushThreadLocal, Exit, CallInit, CallFinalize,
                            RecordEvent, FlushForced
  <2> QED
    BY <1>1, <2>2 DEF SenderQuiet
<1>5. ASSUME NEW t \in App, BodyStep(t) PROVE SenderQuiet'
  BY <1>1, <1>5 DEF BodyStep, InitLock, InitStorage, FinalizeStore, FinalizeLock,
                    FinalizeTakeHandle, FinalizeJoin, SenderQuiet
<1>6. ASSUME SenderStep PROVE SenderQuiet'
  <2>1. /\ UNCHANGED recorded
        /\ UNCHANGED op \/ FlushForced(Sender)
    BY <1>6 DEF SenderStep, SenderStart, SenderFreq, SenderLoad, SenderLock, SenderTake,
         SenderUnlock, SenderUnflag, SenderData, SenderSendData, SenderSent, SenderSendFailed,
         SenderEnd, SenderPanics, SenderExit, SelfEvent
  <2> QED
    BY <1>1, <1>2, <2>1 DEF FlushForced, SenderQuiet
<1>7. UNCHANGED vars => SenderQuiet'
  BY <1>1 DEF vars, localVars, SenderQuiet
<1> QED
  BY <1>3, <1>4, <1>5, <1>6, <1>7 DEF Next, Terminated

(***************************************************************************)
(* Without the feature self-tracing there is no deadlock at all: finalize, *)
(* init and every flush are blocked only while some other thread can go on. *)
(***************************************************************************)
THEOREM NoDeadlock ==
  ASSUME ~SelfTracing
  PROVE  Spec => [](\A t \in Thread : InCall(t) =>
                      \E u \in {t, lock, Sender} \ {NoThread} : CanGoOn(u))
<1>1. Init => SenderQuiet
  BY ConstantsTyped DEF Init, SenderQuiet
<1>2. PipelineInv /\ SenderQuiet /\ [Next]_vars => SenderQuiet'
  BY QuietNext, TypeParts DEF PipelineInv
<1>3. Spec => []SenderQuiet
  BY <1>1, <1>2, PipelineInvariant, PTL DEF Spec
<1>4. SenderQuiet /\ NobodyIsStuck =>
        \A t \in Thread : InCall(t) => \E u \in {t, lock, Sender} \ {NoThread} : CanGoOn(u)
  BY DEF SenderQuiet, NobodyIsStuck, SelfLocked
<1> QED
  BY <1>3, <1>4, NoOtherDeadlock, PTL
-----------------------------------------------------------------------------
(* The steps of the sending thread's round from a place to its end.          *)
StepsOfRound(place) ==
  CASE place = "failed" -> 3 [] place = "sent" -> 4 [] place = "sendData" -> 5
    [] place = "data" -> 6 [] place = "unflag" -> 7 [] place = "unlock" -> 8
    [] place = "take" -> 9 [] OTHER -> 10

(***************************************************************************)
(* A bound on the steps that a thread's program has ahead of it until its  *)
(* call returns.  For the sending thread: until it ends, once              *)
(* FINALIZE_STARTED is set, which it may find out in its next round only.  *)
(***************************************************************************)
Ahead(place, lastRound) ==
  CASE place \in {"none", "run", "after", "gone"} -> 0
    [] place \in {"initCS", "join", "exit"} -> 1
    [] place \in {"initLock", "finTake", "end"} -> 2
    [] place = "finLock" -> 3
    [] place = "finStore" -> 4
    [] place = "load" -> 11
    [] place = "sleep" -> 12
    [] place = "start" -> 13
    [] OTHER -> StepsOfRound(place) + (IF lastRound THEN 0 ELSE 10)

(* The steps of a flush, which each step of the program may begin.           *)
FlushAhead(state) == CASE state = "ready" -> 0 [] state = "push" -> 1 [] OTHER -> 2

StepsLeft(t) == 3 * Ahead(pc[t], isFinalizing) + FlushAhead(op[t])

(* A step brings t closer to the end of its call, or it is one of some other *)
(* thread and leaves t where it is.                                          *)
ComesCloser(t) ==
  \/ StepsLeft(t)' < StepsLeft(t)
  \/ StepsLeft(t)' = StepsLeft(t) /\ UNCHANGED <<pc[t], op[t]>>

LEMMA AheadTyped ==
  ASSUME NEW place, NEW lastRound
  PROVE  /\ Ahead(place, lastRound) \in 0..20
         /\ Ahead(place, lastRound) = 0 <=> place \in {"none", "run", "after", "gone"}
<1>1. StepsOfRound(place) \in 3..10
  BY DEF StepsOfRound
<1>2. StepsOfRound(place) + (IF lastRound THEN 0 ELSE 10) \in 3..20
  BY <1>1
<1> QED
  BY <1>2 DEF Ahead

LEMMA FlushAheadTyped ==
  ASSUME NEW state
  PROVE  FlushAhead(state) \in 0..2 /\ (FlushAhead(state) = 0 <=> state = "ready")
BY DEF FlushAhead

LEMMA StepsTyped ==
  ASSUME NEW t \in Thread
  PROVE  StepsLeft(t) \in 0..62 /\ (StepsLeft(t) = 0 <=> ~InCall(t))
<1>1. /\ Ahead(pc[t], isFinalizing) \in 0..20
      /\ Ahead(pc[t], isFinalizing) = 0 <=> pc[t] \in {"none", "run", "after", "gone"}
  BY AheadTyped
<1>2. FlushAhead(op[t]) \in 0..2 /\ (FlushAhead(op[t]) = 0 <=> op[t] = "ready")
  BY FlushAheadTyped
<1>3. /\ StepsLeft(t) \in 0..62
      /\ StepsLeft(t) = 0 <=> Ahead(pc[t], isFinalizing) = 0 /\ FlushAhead(op[t]) = 0
  BY <1>1, <1>2 DEF StepsLeft
<1> QED
  BY <1>1, <1>2, <1>3 DEF InCall

(* A step of some other thread.                                              *)
LEMMA StaysThere ==
  ASSUME PlacesTyped, NEW t \in Thread, UNCHANGED <<pc[t], op[t]>>,
         t \in App \/ UNCHANGED isFinalizing
  PROVE  ComesCloser(t)
<1>1. CASE t \in App
  <2>1. pc[t] \in AppPlaces
    BY <1>1 DEF PlacesTyped
  <2>2. Ahead(pc[t], isFinalizing') = Ahead(pc[t], isFinalizing)
    BY <2>1 DEF Ahead, AppPlaces
  <2> QED
    BY <2>2 DEF ComesCloser, StepsLeft
<1>2. CASE UNCHANGED isFinalizing
  BY <1>2 DEF ComesCloser, StepsLeft
<1> QED
  BY <1>1, <1>2

(* A step of the thread's program, which may begin a flush.                  *)
LEMMA ProgramStep ==
  ASSUME NEW t \in Thread, op[t] = "ready",
         Ahead(pc'[t], isFinalizing') < Ahead(pc[t], isFinalizing)
  PROVE  ComesCloser(t)
<1>1. /\ Ahead(pc[t], isFinalizing) \in 0..20 /\ FlushAhead(op[t]) \in 0..2
      /\ Ahead(pc'[t], isFinalizing') \in 0..20 /\ FlushAhead(op'[t]) \in 0..2
  BY AheadTyped, FlushAheadTyped
<1>2. 3 * Ahead(pc'[t], isFinalizing') + FlushAhead(op'[t])
        < 3 * Ahead(pc[t], isFinalizing) + FlushAhead(op[t])
  BY <1>1
<1> QED
  BY <1>2 DEF ComesCloser, StepsLeft

(* A step of its flush.                                                      *)
LEMMA FlushIsCloser ==
  ASSUME NEW t \in Thread, UNCHANGED <<pc[t], isFinalizing>>,
         FlushAhead(op'[t]) < FlushAhead(op[t])
  PROVE  ComesCloser(t)
<1>1. Ahead(pc[t], isFinalizing) \in 0..20
      /\ FlushAhead(op[t]) \in 0..2 /\ FlushAhead(op'[t]) \in 0..2
  BY AheadTyped, FlushAheadTyped
<1>2. 3 * Ahead(pc'[t], isFinalizing') + FlushAhead(op'[t])
        < 3 * Ahead(pc[t], isFinalizing) + FlushAhead(op[t])
  BY <1>1
<1> QED
  BY <1>2 DEF ComesCloser, StepsLeft

(* The sending thread flushes nothing before it exists.                      *)
UnbornIdle == pc[Sender] = "none" => op[Sender] = "ready"

LEMMA FlushComesCloser ==
  ASSUME SharedTyped, LocalTyped, PlacesTyped, UnbornIdle,
         NEW t \in Thread, NEW u \in Thread, FlushStep(u), InCall(t)
  PROVE  ComesCloser(t)
<1>1. /\ pc \in [Thread -> PcState] /\ op \in [Thread -> OpState] /\ Sender \in Thread
      /\ created <=> pc[Sender] # "none"
  BY ConstantsTyped DEF SharedTyped, LocalTyped, PlacesTyped
<1>2. /\ op[u] # "ready" /\ UNCHANGED isFinalizing
      /\ FlushAhead(op'[u]) < FlushAhead(op[u])
      /\ \A v \in Thread \ {u} : op'[v] = op[v]
  BY <1>1 DEF FlushStep, TryLock, LockForFlush, PushPage, FlushAhead, senderVars
<1>3. \A v \in Thread : pc'[v] = pc[v] \/ (v = Sender /\ pc[v] = "none")
  BY <1>1 DEF FlushStep, TryLock, LockForFlush, PushPage, PcAfterCreate
<1>4. pc'[t] = pc[t]
  BY <1>3 DEF InCall, UnbornIdle
<1> QED
  BY <1>2, <1>4, FlushIsCloser, StaysThere

LEMMA AppComesCloser ==
  ASSUME SharedTyped, LocalTyped, PlacesTyped, UnbornIdle,
         NEW t \in Thread, NEW u \in App, CallStep(u) \/ BodyStep(u), InCall(t)
  PROVE  ComesCloser(t)
<1>1. /\ pc \in [Thread -> PcState] /\ op \in [Thread -> OpState] /\ Sender \in Thread
      /\ u \in Thread /\ u # Sender
      /\ created <=> pc[Sender] # "none"
      /\ pc[u] \in {"initLock", "initCS", "finLock", "finTake", "join"} => op[u] = "ready"
  BY ConstantsTyped, ThreadsDiffer DEF SharedTyped, LocalTyped, PlacesTyped
<1>2. CASE CallStep(u)
  <2>1. /\ op[u] = "ready" /\ pc[u] \in {"run", "after"} /\ UNCHANGED isFinalizing
        /\ \A v \in Thread \ {u} : pc'[v] = pc[v] /\ op'[v] = op[v]
    BY <1>1, <1>2 DEF CallStep, Event, FlushThreadLocal, Exit, CallInit, CallFinalize, Idle,
                      FlushForced, RecordEvent, senderVars
  <2> QED
    BY <2>1, StaysThere DEF InCall
<1>3. CASE BodyStep(u)
  <2>1. /\ op[u] = "ready" /\ UNCHANGED <<op, isFinalizing>>
        /\ Ahead(pc'[u], isFinalizing) < Ahead(pc[u], isFinalizing)
    BY <1>1, <1>3 DEF BodyStep, InitLock, InitStorage, FinalizeStore, FinalizeLock,
                      FinalizeTakeHandle, FinalizeJoin, PcAfterCreate, Ahead, senderVars
  <2>2. \A v \in Thread \ {u} : pc'[v] = pc[v] \/ (v = Sender /\ pc[v] = "none")
    BY <1>1, <1>3 DEF BodyStep, InitLock, InitStorage, FinalizeStore, FinalizeLock,
                      FinalizeTakeHandle, FinalizeJoin, PcAfterCreate
  <2>3. t = u \/ pc'[t] = pc[t]
    BY <2>2 DEF InCall, UnbornIdle
  <2> QED
    BY <2>1, <2>3, ProgramStep, StaysThere
<1> QED
  BY <1>2, <1>3

LEMMA SenderComesCloser ==
  ASSUME SharedTyped, LocalTyped, PlacesTyped, SenderStep, finalizeStarted
  PROVE  ComesCloser(Sender)
<1>1. /\ pc \in [Thread -> PcState] /\ op \in [Thread -> OpState] /\ Sender \in Thread
      /\ isFinalizing \in BOOLEAN
  BY ConstantsTyped DEF SharedTyped, LocalTyped
<1>2. op[Sender] = "ready"
  BY DEF SenderStep, SenderStart, SenderFreq, SenderLoad, SenderLock, SenderTake,
         SenderUnlock, SenderUnflag, SenderData, SenderSendData, SenderSent, SenderSendFailed,
         SenderEnd, SenderPanics, SenderExit, At
<1>3. CASE SenderStart \/ SenderFreq \/ SenderLoad \/ SenderEnd \/ SenderExit
  <2>1. \/ pc[Sender] = "start" /\ pc'[Sender] = "sleep"
        \/ pc[Sender] = "sleep" /\ pc'[Sender] = "load"
        \/ pc[Sender] \in {"sleep", "load"} /\ pc'[Sender] = "lock" /\ isFinalizing'
        \/ pc[Sender] = "end" /\ pc'[Sender] = "exit"
        \/ pc[Sender] = "exit" /\ pc'[Sender] = "gone"
    BY <1>1, <1>3 DEF SenderStart, SenderFreq, SenderLoad, SenderEnd, SenderExit, At, GoTo
  <2>2. Ahead(pc'[Sender], isFinalizing') < Ahead(pc[Sender], isFinalizing)
    BY <2>1 DEF Ahead, StepsOfRound
  <2> QED
    BY <1>1, <1>2, <2>2, ProgramStep
<1>4. CASE SenderLock \/ SenderTake \/ SenderUnlock \/ SenderUnflag
  <2>1. /\ UNCHANGED isFinalizing
        /\ \/ pc[Sender] = "lock" /\ pc'[Sender] = "take"
           \/ pc[Sender] = "take" /\ pc'[Sender] = "unlock"
           \/ pc[Sender] = "unlock" /\ pc'[Sender] = "unflag"
           \/ pc[Sender] = "unflag" /\ pc'[Sender] = "data"
    BY <1>1, <1>4 DEF SenderLock, SenderTake, SenderUnlock, SenderUnflag, At, GoTo, senderVars
  <2>2. Ahead(pc'[Sender], isFinalizing') < Ahead(pc[Sender], isFinalizing)
    BY <1>1, <2>1 DEF Ahead, StepsOfRound
  <2> QED
    BY <1>1, <1>2, <2>2, ProgramStep
<1>5. CASE SenderData \/ SenderSendData \/ SenderSent \/ SenderSendFailed
  <2>1. /\ UNCHANGED isFinalizing
        /\ \/ pc[Sender] = "data" /\ pc'[Sender] \in {"sendData", "failed"}
           \/ pc[Sender] = "sendData" /\ pc'[Sender] = "sent"
           \/ pc[Sender] = "sent" /\ pc'[Sender] = "failed"
           \/ pc[Sender] = "failed" /\ pc'[Sender] = IF isFinalizing THEN "end" ELSE "sleep"
    BY <1>1, <1>5 DEF SenderData, SenderSendData, SenderSent, SenderSendFailed, Stop, At, GoTo,
                      senderVars
  <2>2. Ahead(pc'[Sender], isFinalizing') < Ahead(pc[Sender], isFinalizing)
    BY <1>1, <2>1 DEF Ahead, StepsOfRound
  <2> QED
    BY <1>1, <1>2, <2>2, ProgramStep
<1>6. CASE SenderPanics
  <2>1. pc[Sender] \in {"start", "sleep", "sendData", "failed", "end"}
    <3>1. Len(Outgoing) - 1 >= 0
      BY <1>6 DEF SenderPanics
    <3>2. pc[Sender] \notin {"start", "sleep", "sendData", "failed", "end"} => Outgoing = <<>>
      BY DEF Outgoing
    <3> QED
      BY <3>1, <3>2
  <2>2. pc'[Sender] = "exit"
    BY <1>1, <1>6 DEF SenderPanics, GoTo
  <2>3. Ahead(pc'[Sender], isFinalizing') < Ahead(pc[Sender], isFinalizing)
    BY <2>1, <2>2 DEF Ahead, StepsOfRound
  <2> QED
    BY <1>1, <1>2, <2>3, ProgramStep
<1> QED
  BY <1>3, <1>4, <1>5, <1>6 DEF SenderStep

LEMMA EachStepComesCloser ==
  ASSUME TypeOK, PlacesTyped, UnbornIdle, [Next]_vars,
         NEW t \in Thread, InCall(t), t = Sender => finalizeStarted
  PROVE  ComesCloser(t)
<1>1. SharedTyped /\ LocalTyped /\ op \in [Thread -> OpState]
  BY TypeParts DEF LocalTyped
<1>2. t \in App \/ t = Sender
  BY DEF Thread
<1>3. CASE SenderStep
  <2>1. CASE t = Sender
    BY <1>1, <1>3, <2>1, SenderComesCloser
  <2>2. CASE t # Sender
    <3>1. pc'[t] = pc[t]
      BY <1>1, <1>3, <2>2 DEF SharedTyped, SenderStep, SenderStart, SenderFreq, SenderLoad,
         SenderLock, SenderTake, SenderUnlock, SenderUnflag, SenderData, SenderSendData,
         SenderSent, SenderSendFailed, SenderEnd, SenderPanics, SenderExit, GoTo
    <3>2. op'[t] = op[t]
      BY <1>1, <1>3, <2>2 DEF SenderStep, SenderStart, SenderFreq, SenderLoad, SenderLock,
         SenderTake, SenderUnlock, SenderUnflag, SenderData, SenderSendData, SenderSent,
         SenderSendFailed, SenderEnd, SenderPanics, SenderExit, FlushForced, SelfEvent,
         RecordEvent
    <3> QED
      BY <1>2, <2>2, <3>1, <3>2, StaysThere
  <2> QED
    BY <2>1, <2>2
<1>4. CASE UNCHANGED vars
  BY <1>4, StaysThere DEF vars, localVars, senderVars
<1> QED
  BY <1>1, <1>3, <1>4, FlushComesCloser, AppComesCloser DEF Next, Terminated

LEMMA UnbornNext ==
  ASSUME TypeOK, PlacesTyped, UnbornIdle, [Next]_vars
  PROVE  UnbornIdle'
<1>1. /\ SharedTyped /\ LocalTyped /\ pc \in [Thread -> PcState] /\ op \in [Thread -> OpState]
      /\ Sender \in Thread /\ Sender \notin App
  BY TypeParts, ConstantsTyped, ThreadsDiffer DEF SharedTyped, LocalTyped
<1>2. ASSUME NEW t \in Thread, FlushStep(t) PROVE UnbornIdle'
  <2>1. op[t] # "ready" /\ \A u \in Thread \ {t} : op'[u] = op[u]
    BY <1>1, <1>2 DEF FlushStep, TryLock, LockForFlush, PushPage
  <2>2. pc'[Sender] \in {pc[Sender], "start"}
    BY <1>1, <1>2 DEF FlushStep, TryLock, LockForFlush, PushPage, PcAfterCreate
  <2> QED
    BY <1>1, <2>1, <2>2 DEF UnbornIdle
<1>3. ASSUME NEW t \in App, CallStep(t) \/ BodyStep(t) PROVE UnbornIdle'
  <2>1. t \in Thread /\ t # Sender
    BY <1>1, ConstantsTyped
  <2>2. op'[Sender] = op[Sender]
    BY <1>1, <1>3, <2>1 DEF CallStep, Event, FlushThreadLocal, Exit, CallInit, CallFinalize,
         FlushForced, RecordEvent, BodyStep, InitLock, InitStorage, FinalizeStore,
         FinalizeLock, FinalizeTakeHandle, FinalizeJoin
  <2>3. pc'[Sender] \in {pc[Sender], "start"}
    BY <1>1, <1>3, <2>1 DEF CallStep, Event, FlushThreadLocal, Exit, CallInit, CallFinalize,
         BodyStep, InitLock, InitStorage, FinalizeStore, FinalizeLock, FinalizeTakeHandle,
         FinalizeJoin, PcAfterCreate
  <2> QED
    BY <2>2, <2>3 DEF UnbornIdle
<1>4. ASSUME SenderStep PROVE UnbornIdle'
  <2>1. pc'[Sender] # "none"
    BY <1>1, <1>4 DEF SenderStep, SenderStart, SenderFreq, SenderLoad, SenderLock, SenderTake,
         SenderUnlock, SenderUnflag, SenderData, SenderSendData, SenderSent, SenderSendFailed,
         SenderEnd, SenderPanics, SenderExit, GoTo
  <2> QED
    BY <2>1 DEF UnbornIdle
<1>5. UNCHANGED vars => UnbornIdle'
  BY DEF UnbornIdle, vars, localVars
<1> QED
  BY <1>2, <1>3, <1>4, <1>5 DEF Next, Terminated

(***************************************************************************)
(* A call of an application thread has at most 62 steps of its own until   *)
(* it returns, and so has the sending thread until it ends, from the       *)
(* moment FINALIZE_STARTED is set, which it stays: nothing that the other  *)
(* threads do, and no failing sender, adds to them.                        *)
(***************************************************************************)
THEOREM CallsEnd ==
  Spec => /\ [](\A t \in Thread : StepsLeft(t) \in 0..62 /\ (StepsLeft(t) = 0 <=> ~InCall(t)))
          /\ [][finalizeStarted => finalizeStarted']_vars
          /\ [][\A t \in Thread : InCall(t) /\ (t = Sender => finalizeStarted)
                                    => ComesCloser(t)]_vars
<1>1. Init => UnbornIdle
  BY ConstantsTyped DEF Init, UnbornIdle
<1>2. TypeOK /\ PlacesTyped /\ UnbornIdle /\ [Next]_vars => UnbornIdle'
  BY UnbornNext
<1>3. Spec => []UnbornIdle
  BY <1>1, <1>2, StuckFacts, PTL DEF Spec
<1>4. \A t \in Thread : StepsLeft(t) \in 0..62 /\ (StepsLeft(t) = 0 <=> ~InCall(t))
  BY StepsTyped
<1>5. [Next]_vars => [finalizeStarted => finalizeStarted']_vars
  BY DEF Next, Terminated, FlushStep, TryLock, LockForFlush, PushPage, CallStep, Event,
     FlushThreadLocal, Exit, CallInit, CallFinalize, BodyStep, InitLock, InitStorage,
     FinalizeStore, FinalizeLock, FinalizeTakeHandle, FinalizeJoin, SenderStep, SenderStart,
     SenderFreq, SenderLoad, SenderLock, SenderTake, SenderUnlock, SenderUnflag, SenderData,
     SenderSendData, SenderSent, SenderSendFailed, SenderEnd, SenderPanics, SenderExit,
     vars, sharedVars
<1>6. TypeOK /\ PlacesTyped /\ UnbornIdle /\ [Next]_vars =>
        [\A t \in Thread : InCall(t) /\ (t = Sender => finalizeStarted) => ComesCloser(t)]_vars
  BY EachStepComesCloser
<1> QED
  BY <1>3, <1>4, <1>5, <1>6, StuckFacts, PTL DEF Spec
-----------------------------------------------------------------------------
(* The promise of the event log, which is closed while it finalizes only.    *)
LEMMA LogPromise == Log!Spec => []Log!PromiseKept
<1> DEFINE Inv == Log!PromiseKept /\ (Closed => finalizeStarted)
<1>1. Log!Init => Inv
  BY DEF Log!Init, Log!PromiseKept
<1>2. Inv /\ [Log!Next]_Log!vars => Inv'
  <2> SUFFICES ASSUME Inv, [Log!Next]_Log!vars PROVE Inv'
    OBVIOUS
  <2>1. CASE Log!Deliver
    <3>1. /\ EventsSent("data") \subseteq EventsSent("data")'
          /\ \A e \in EventsSent("data")' \ EventsSent("data") : e \notin EventsSent("failed")
          /\ ~Closed
          /\ UNCHANGED <<EventsSent("failed"), finalizeStarted, due, Closed>>
      BY <2>1 DEF Log!Deliver, Log!Settled
    <3> QED
      BY <3>1 DEF Log!PromiseKept
  <2>2. CASE Log!Lose
    <3>1. /\ EventsSent("failed") \subseteq EventsSent("failed")'
          /\ \A e \in EventsSent("failed")' \ EventsSent("failed") : e \notin EventsSent("data")
          /\ ~Closed
          /\ UNCHANGED <<EventsSent("data"), finalizeStarted, due, Closed>>
      BY <2>2 DEF Log!Lose, Log!Settled
    <3> QED
      BY <3>1 DEF Log!PromiseKept
  <2>3. CASE Log!Close
    BY <2>3 DEF Log!Close, Log!PromiseKept, Log!Settled
  <2>4. CASE Log!BeginFinalize
    BY <2>4 DEF Log!BeginFinalize, Log!PromiseKept, Log!Settled
  <2>5. ASSUME NEW t \in Thread, Log!Produce(t) \/ Log!Commit(t) PROVE Inv'
    BY <2>5 DEF Log!Produce, Log!Commit, Log!PromiseKept, Log!Settled
  <2>6. CASE UNCHANGED Log!vars
    BY <2>6 DEF Log!vars, Log!PromiseKept, Log!Settled
  <2> QED
    BY <2>1, <2>2, <2>3, <2>4, <2>5, <2>6 DEF Log!Next
<1>3. Inv => Log!PromiseKept
  OBVIOUS
<1> QED
  BY <1>1, <1>2, <1>3, PTL DEF Log!Spec

(***************************************************************************)
(* Nothing is sent both as data and as dropped, and a stream that ends     *)
(* with 0xff has in its packets, in one way or the other, every event that *)
(* was flushed before finalize was first called, of every thread.          *)
(***************************************************************************)
THEOREM StreamKeepsPromise ==
  Spec => [](/\ EventsSent("data") \cap EventsSent("failed") = {}
             /\ Closed => \A t \in Thread : \A n \in 1..due[t] :
                            <<t, n>> \in EventsSent("data") \cup EventsSent("failed"))
<1>1. Log!PromiseKept =>
        /\ EventsSent("data") \cap EventsSent("failed") = {}
        /\ Closed => \A t \in Thread : \A n \in 1..due[t] :
                       <<t, n>> \in EventsSent("data") \cup EventsSent("failed")
  BY DEF Log!PromiseKept, Log!Settled
<1> QED
  BY <1>1, LogPromise, PipelineImplementsLog, PTL DEF ImplementsEventLog

(* A sending thread whose senders never fail has closed the stream when it   *)
(* comes to its end.                                                         *)
ClosedAtEnd == pc[Sender] \in Ended => Closed

LEMMA ClosedAtEndNext ==
  ASSUME ~SendMayFail, TypeOK, ClosedAtEnd, [Next]_vars
  PROVE  ClosedAtEnd'
<1>1. /\ pc \in [Thread -> PcState] /\ stream \in Seq(Packet)
      /\ Sender \in Thread /\ Sender \notin App /\ App \subseteq Thread
  BY ConstantsTyped, ThreadsDiffer DEF TypeOK
<1>2. ASSUME UNCHANGED stream, pc'[Sender] \in Ended => pc[Sender] \in Ended
      PROVE  ClosedAtEnd'
  BY <1>2 DEF ClosedAtEnd, Closed
<1>3. ASSUME NEW t \in Thread, FlushStep(t) PROVE ClosedAtEnd'
  <2>1. UNCHANGED stream /\ pc'[Sender] \in {pc[Sender], "start"}
    BY <1>1, <1>3 DEF FlushStep, TryLock, LockForFlush, PushPage, PcAfterCreate, senderVars
  <2> QED
    BY <1>2, <2>1 DEF Ended
<1>4. ASSUME NEW t \in App, CallStep(t) \/ BodyStep(t) PROVE ClosedAtEnd'
  <2>1. t # Sender
    BY <1>1
  <2>2. UNCHANGED stream
    BY <1>4 DEF CallStep, Event, FlushThreadLocal, Exit, CallInit, CallFinalize, BodyStep,
         InitLock, InitStorage, FinalizeStore, FinalizeLock, FinalizeTakeHandle, FinalizeJoin,
         senderVars
  <2>3. pc'[Sender] \in {pc[Sender], "start"}
    BY <1>1, <1>4, <2>1 DEF CallStep, Event, FlushThreadLocal, Exit, CallInit, CallFinalize,
         BodyStep, InitLock, InitStorage, FinalizeStore, FinalizeLock, FinalizeTakeHandle,
         FinalizeJoin, PcAfterCreate
  <2> QED
    BY <1>2, <2>2, <2>3 DEF Ended
<1>5. CASE SenderExit
  BY <1>1, <1>2, <1>5 DEF SenderExit, At, GoTo, Ended, senderVars
<1>6. CASE SenderEnd
  <2>1. stream' = stream \o << PacketOf("freq", <<>>), PacketOf("end", <<>>) >>
    BY <1>6 DEF SenderEnd, Send, Outgoing, At
  <2>2. /\ stream' # <<>> /\ stream'[Len(stream')] = PacketOf("end", <<>>)
    BY <1>1, <2>1
  <2> QED
    BY <2>2 DEF ClosedAtEnd, Closed, PacketOf
<1>7. CASE \/ SenderStart \/ SenderFreq \/ SenderLoad \/ SenderLock \/ SenderTake
           \/ SenderUnlock \/ SenderUnflag \/ SenderData \/ SenderSendData
           \/ SenderSent \/ SenderSendFailed
  <2>1. pc'[Sender] \notin Ended
    BY <1>1, <1>7 DEF SenderStart, SenderFreq, SenderLoad, SenderLock, SenderTake, SenderUnlock,
         SenderUnflag, SenderData, SenderSendData, SenderSent, SenderSendFailed, At, GoTo, Ended
  <2> QED
    BY <2>1 DEF ClosedAtEnd
<1>8. UNCHANGED vars => ClosedAtEnd'
  BY DEF vars, localVars, senderVars, ClosedAtEnd, Closed
<1> QED
  BY <1>3, <1>4, <1>5, <1>6, <1>7, <1>8 DEF Next, SenderStep, SenderPanics, Terminated

(***************************************************************************)
(* "finalize: blocking wait for global sending thread to finish its job".  *)
(* Where no sender fails, the stream is complete when the call that joins  *)
(* the sending thread returns: it ends with 0xff, and every event that was *)
(* flushed before finalize was first called is in it or reported dropped.  *)
(***************************************************************************)
THEOREM FinalizeCompletes ==
  ASSUME ~SendMayFail
  PROVE  Spec => [][\A t \in App : pc[t] = "join" /\ pc'[t] # "join" =>
                      /\ Closed
                      /\ \A u \in Thread : \A n \in 1..due[u] :
                           <<u, n>> \in EventsSent("data") \cup EventsSent("failed")]_vars
<1>1. Init => ClosedAtEnd
  BY ConstantsTyped DEF Init, ClosedAtEnd, Ended
<1>2. TypeOK /\ ClosedAtEnd /\ [Next]_vars => ClosedAtEnd'
  BY ClosedAtEndNext
<1>3. Spec => []ClosedAtEnd
  BY <1>1, <1>2, TypeCorrect, PTL DEF Spec
<1>4. ASSUME TypeOK, PlacesTyped, ClosedAtEnd, [Next]_vars,
             NEW t \in App, pc[t] = "join", pc'[t] # "join"
      PROVE  Closed
  <2>1. /\ pc \in [Thread -> PcState] /\ Sender \in Thread /\ Sender \notin App /\ t \in Thread
        /\ created <=> pc[Sender] # "none"
    BY <1>4, ConstantsTyped, ThreadsDiffer DEF TypeOK, PlacesTyped
  <2>2. FinalizeJoin(t)
    <3>1. ASSUME NEW u \in Thread, FlushStep(u) PROVE pc'[t] = pc[t]
      BY <2>1, <3>1 DEF FlushStep, TryLock, LockForFlush, PushPage, PcAfterCreate
    <3>2. ASSUME NEW u \in App, CallStep(u) \/ BodyStep(u), u # t PROVE pc'[t] = pc[t]
      BY <2>1, <3>2 DEF CallStep, Event, FlushThreadLocal, Exit, CallInit, CallFinalize,
         BodyStep, InitLock, InitStorage, FinalizeStore, FinalizeLock, FinalizeTakeHandle,
         FinalizeJoin, PcAfterCreate
    <3>3. CallStep(t) \/ BodyStep(t) => FinalizeJoin(t)
      BY <1>4 DEF CallStep, Event, FlushThreadLocal, Exit, CallInit, CallFinalize, Idle,
         BodyStep, InitLock, InitStorage, FinalizeStore, FinalizeLock, FinalizeTakeHandle
    <3>4. SenderStep => pc'[t] = pc[t]
      BY <2>1, <1>4 DEF SenderStep, SenderStart, SenderFreq, SenderLoad, SenderLock,
         SenderTake, SenderUnlock, SenderUnflag, SenderData, SenderSendData, SenderSent,
         SenderSendFailed, SenderEnd, SenderPanics, SenderExit, GoTo
    <3>5. UNCHANGED vars => pc'[t] = pc[t]
      BY DEF vars, localVars
    <3> QED
      BY <1>4, <3>1, <3>2, <3>3, <3>4, <3>5 DEF Next, Terminated
  <2> QED
    BY <1>4, <2>2 DEF FinalizeJoin, SenderGone, ClosedAtEnd, Ended
<1>5. ASSUME TypeOK, PlacesTyped, ClosedAtEnd, Log!PromiseKept, [Next]_vars
      PROVE  [\A t \in App : pc[t] = "join" /\ pc'[t] # "join" =>
                /\ Closed
                /\ \A u \in Thread : \A n \in 1..due[u] :
                     <<u, n>> \in EventsSent("data") \cup EventsSent("failed")]_vars
  BY <1>4, <1>5 DEF Log!PromiseKept, Log!Settled
<1> QED
  BY <1>3, <1>5, StuckFacts, LogPromise, PipelineImplementsLog, PTL DEF Spec, ImplementsEventLog
-----------------------------------------------------------------------------
(* The storage as the other parts see it. *)
Queue == INSTANCE PageQueue WITH
  Header <- Header, queue <- Headers(pages), dropped <- skipped

(***************************************************************************)
(* In the pipeline too the storage is a queue of pages: no thread touches  *)
(* it but by a push or a take, whatever step the others are at.            *)
(***************************************************************************)
THEOREM StorageIsQueue == Spec => Queue!Spec
<1>1. Init => Queue!Init
  BY DEF Init, StorageInit, Headers, Queue!Init
<1>2. PipelineInv /\ [Next]_vars => [Queue!Next]_(Queue!vars)
  <2> SUFFICES ASSUME PipelineInv, [Next]_vars PROVE [Queue!Next]_(Queue!vars)
    OBVIOUS
  <2>1. RingTyped(Header) /\ LocalInv /\ RingNeverOverruns
    BY DEF PipelineInv, TypeOK
  <2>2. ASSUME NEW t \in Thread, PushPage(t) PROVE Queue!Next
    <3>1. /\ NewHeader(t) \in Header /\ Buffered(t) \in Nat /\ RoomFor(Buffered(t))
          /\ PushBuf(NewHeader(t), Buffered(t))
      BY <2>1, <2>2, PushedPage, PushedRoom
    <3>2. Queue!Push(NewHeader(t))
      BY <2>1, <3>1, PushQueues DEF Queue!Push, Queue!Keep
    <3> QED
      BY <3>1, <3>2 DEF Queue!Next
  <2>3. ASSUME SenderTake PROVE Queue!Next
    <3>1. TakeFailedPages /\ TryTakeBuf(TakeEverything) /\ TakeEverything \in BOOLEAN
      BY <2>3 DEF SenderTake, TakeEverything, PipelineInv, TypeOK
    <3>2. Queue!Take
      BY <2>1, <3>1, TakeQueues DEF Queue!Take
    <3> QED
      BY <3>2 DEF Queue!Next
  <2>4. \/ \E t \in Thread : PushPage(t)
        \/ SenderTake
        \/ UNCHANGED <<pages, skipped>>
    BY DEF Next, FlushStep, TryLock, LockForFlush, CallStep, Event,
         FlushThreadLocal, Exit, CallInit, CallFinalize, BodyStep, InitLock,
         InitStorage, FinalizeStore, FinalizeLock, FinalizeTakeHandle, FinalizeJoin,
         SenderStep, SenderStart, SenderFreq, SenderLoad, SenderLock,
         SenderUnlock, SenderUnflag, SenderData, SenderSendData, SenderSent,
         SenderSendFailed, SenderEnd, SenderPanics, SenderExit, Terminated, vars, storageVars
  <2>5. UNCHANGED <<pages, skipped>> => UNCHANGED Queue!vars
    BY DEF Queue!vars, Headers
  <2> QED
    BY <2>2, <2>3, <2>4, <2>5
<1> QED
  BY <1>1, <1>2, PipelineInvariant, PTL DEF Spec, Queue!Spec
=============================================================================
