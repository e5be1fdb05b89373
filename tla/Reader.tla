------------------------------- MODULE Reader -------------------------------
(***************************************************************************)
(* The pages of several threads on their way into one file and onto the    *)
(* tracks of the trace.  A thread gets its ord id with its first event;    *)
(* its pages bring its OS thread id and, until a page is stored that       *)
(* brought it, its name.  The sending thread writes packets, which cleanup *)
(* may have left without some of the pages; decode_packets reads them, and *)
(* parse_and_save gives each thread a track.                               *)
(*                                                                         *)
(* A page stands for its header; its events are those of TraceStream.  The *)
(* steps of the sending thread that other threads may come between are     *)
(* those of Sparkles.  The file is a sequence of tokens: a packet, or in a *)
(* data packet its head, with the length, and then each page.              *)
(***************************************************************************)
EXTENDS Integers, Sequences, FiniteSets

CONSTANTS
  Thread,     \* the application's threads
  Tid,        \* the ids that the operating system gives to threads
  NoName, NoTid, NoTrack,
  MaxPages,   \* bound: pages that each thread flushes
  MaxRenames  \* bound: calls of set_cur_thread_name by each thread

(* <<t, k>> is the name of thread t after k calls of set_cur_thread_name.  *)
Name == UNION {{t} \X (0..MaxRenames[t]) : t \in Thread}

ASSUME ReaderTyped ==
  /\ IsFiniteSet(Thread)
  /\ Tid \subseteq Nat /\ NoTid \notin Nat
  /\ MaxPages \in [Thread -> Nat]
  /\ MaxRenames \in [Thread -> Nat]
  /\ NoName \notin Name

VARIABLES
  tid, ord,         \* of each thread, NoTid and 0 before its first event
  live,             \* the threads that run
  CUR_THREAD_ID, new_thread_name,
  renames, count,   \* history: of each thread, its renamings and its pages
  ring, skipped_msr_pages_headers,
  file, writer,     \* the writer may end the stream, or be cut off
  settled,          \* history: count when the stream was ended
  phase, left,      \* of the reader; left: pages still to come in this packet
  encoder_info, ticks_per_ns, event_parsers,
  next, thread_descriptors, trace   \* parse_and_save, by ord id

threadVars == <<tid, ord, live, CUR_THREAD_ID, new_thread_name, renames, count>>
storeVars  == <<ring, skipped_msr_pages_headers>>
fileVars   == <<writer, settled>>
parserVars == <<encoder_info, ticks_per_ns, event_parsers>>
traceVars  == <<next, thread_descriptors, trace>>
vars == <<threadVars, storeVars, file, fileVars, phase, left, parserVars, traceVars>>

Ord == 1..Cardinality(Thread)
Track == Tid \cup Ord

NewParser == [thread_name |-> NoName, thread_id |-> NoTid, event_buf |-> <<>>,
              missed_events |-> <<>>]

Init ==
  /\ tid = [t \in Thread |-> NoTid] /\ ord = [t \in Thread |-> 0] /\ live = {}
  /\ CUR_THREAD_ID = 1
  /\ new_thread_name = [t \in Thread |-> <<t, 0>>]
  /\ renames = [t \in Thread |-> 0] /\ count = [t \in Thread |-> 0]
  /\ ring = <<>> /\ skipped_msr_pages_headers = <<>>
  /\ file = <<[type |-> "info"]>> /\ writer = "writing"
  /\ settled = count
  /\ phase = "wait" /\ left = 0
  /\ encoder_info = FALSE /\ ticks_per_ns = FALSE
  /\ event_parsers = [o \in Ord |-> NewParser]
  /\ next = 1 /\ thread_descriptors = [k \in Track |-> NoTrack] /\ trace = <<>>
-----------------------------------------------------------------------------
(* The threads of the application. *)

(* new_local_storage.  The ids of threads that have exited may come again.   *)
FirstEvent(t) ==
  /\ ord[t] = 0
  /\ \E i \in Tid \ {tid[u] : u \in live} : tid' = [tid EXCEPT ![t] = i]
  /\ ord' = [ord EXCEPT ![t] = CUR_THREAD_ID]
  /\ CUR_THREAD_ID' = CUR_THREAD_ID + 1
  /\ live' = live \cup {t}
  /\ UNCHANGED <<new_thread_name, renames, count, storeVars, file, fileVars, phase, left,
                 parserVars, traceVars>>

set_cur_thread_name(t) ==
  /\ t \in live /\ renames[t] < MaxRenames[t]
  /\ renames' = [renames EXCEPT ![t] = @ + 1]
  /\ new_thread_name' = [new_thread_name EXCEPT ![t] = <<t, renames'[t]>>]
  /\ UNCHANGED <<tid, ord, live, CUR_THREAD_ID, count, storeVars, file, fileVars, phase,
                 left, parserVars, traceVars>>

(* What flush hands to push_buf; no and renamed are history. *)
PageOf(t) == [thread_ord_id |-> ord[t], thread_id |-> tid[t],
              new_thread_name |-> new_thread_name[t],
              thread |-> t, no |-> count[t] + 1, renamed |-> renames[t]]

(* A flush with events in the buffer; an exiting thread may have one more. *)
Flush(t) ==
  /\ t \in live /\ count[t] < MaxPages[t]
  /\ ring' = Append(ring, PageOf(t))
  /\ count' = [count EXCEPT ![t] = @ + 1]
  /\ new_thread_name' = [new_thread_name EXCEPT ![t] = NoName]
  /\ live' \in {live, live \ {t}}
  /\ UNCHANGED <<tid, ord, CUR_THREAD_ID, renames, skipped_msr_pages_headers, file, fileVars,
                 phase, left, parserVars, traceVars>>

(* Cleanup drops the oldest page. *)
DropOldest ==
  /\ ring # <<>>
  /\ ring' = Tail(ring)
  /\ skipped_msr_pages_headers' = Append(skipped_msr_pages_headers, Head(ring))
  /\ UNCHANGED <<threadVars, file, fileVars, phase, left, parserVars, traceVars>>
-----------------------------------------------------------------------------
(* The sending thread. *)

Tokens(type, pages) == [i \in 1..Len(pages) |-> [type |-> type, page |-> pages[i]]]

(* send_data_bytes and send_failed_page_headers.  out is what try_take_buf   *)
(* gives: the whole ring, or nothing if there is less than its threshold.    *)
Taken(out) ==
  (IF out = <<>> THEN <<>>
   ELSE <<[type |-> "data", total |-> Len(out)]>> \o Tokens("page", out))
    \o Tokens("failed", skipped_msr_pages_headers)

(* What is left in the storage. *)
LeftBehind(out) ==
  /\ ring' = IF out = <<>> THEN ring ELSE <<>>
  /\ skipped_msr_pages_headers' = <<>>

SenderRound ==
  /\ writer = "writing"
  /\ \E out \in {ring, <<>>} :
       /\ Taken(out) # <<>>
       /\ file' = file \o Taken(out)
       /\ LeftBehind(out)
  /\ UNCHANGED <<threadVars, fileVars, phase, left, parserVars, traceVars>>

SenderFreq ==
  /\ writer = "writing" /\ [type |-> "freq"] \notin {file[i] : i \in 1..Len(file)}
  /\ file' = Append(file, [type |-> "freq"])
  /\ UNCHANGED <<threadVars, storeVars, fileVars, phase, left, parserVars, traceVars>>

(* The last round, of finalize. *)
SenderEnd ==
  /\ writer = "writing"
  /\ file' = file \o Taken(ring) \o <<[type |-> "freq"], [type |-> "end"]>>
  /\ LeftBehind(ring)
  /\ writer' = "ended" /\ settled' = count
  /\ phase' = "decode"
  /\ UNCHANGED <<threadVars, left, parserVars, traceVars>>

(* The sender panics or the process ends without finalize: the file ends     *)
(* before, behind or within any token of a round.                            *)
CutOff ==
  /\ writer = "writing"
  /\ \E out \in {ring, <<>>} :
       /\ \E n \in 0..Len(Taken(out)) : file' = file \o SubSeq(Taken(out), 1, n)
       /\ LeftBehind(out)
  /\ writer' = "cut"
  /\ phase' = "decode"
  /\ UNCHANGED <<threadVars, settled, left, parserVars, traceVars>>
-----------------------------------------------------------------------------
(* decode_packets. *)

Reads(type) ==
  /\ phase = "decode" /\ file # <<>> /\ Head(file).type = type
  /\ (type = "page") = (left > 0)
  /\ file' = Tail(file)
  /\ UNCHANGED <<threadVars, storeVars, fileVars, traceVars>>

ReadInfo ==
  /\ Reads("info")
  /\ encoder_info' = TRUE
  /\ UNCHANGED <<phase, left, ticks_per_ns, event_parsers>>

ReadData ==
  /\ Reads("data")
  /\ left' = Head(file).total
  /\ UNCHANGED <<phase, parserVars>>

(* Mutation: total_bytes is decreased twice for a page. *)
LeftAfterTwice == left - 2

LeftAfterPage == left - 1

(* Mutation: a name is taken once. *)
NamedOnce(parser, page) ==
  IF page.new_thread_name = NoName \/ parser.thread_name # NoName THEN parser
  ELSE [parser EXCEPT !.thread_name = page.new_thread_name, !.thread_id = page.thread_id]

Named(parser, page) ==
  IF page.new_thread_name = NoName THEN parser
  ELSE [parser EXCEPT !.thread_name = page.new_thread_name, !.thread_id = page.thread_id]

(* Mutation: the pages of one data packet replace those of the last. *)
WithPageOnly(parser, page) == [parser EXCEPT !.event_buf = <<page>>]

WithPage(parser, page) == [parser EXCEPT !.event_buf = Append(@, page)]

ReadPage ==
  LET page == Head(file).page
  IN
  /\ Reads("page")
  /\ left' = LeftAfterPage
  /\ event_parsers' = [event_parsers EXCEPT ![page.thread_ord_id] =
                         WithPage(Named(@, page), page)]
  /\ UNCHANGED <<phase, encoder_info, ticks_per_ns>>

(* Of a failed page's header the times are kept, and its name is not. *)
ReadFailed ==
  LET page == Head(file).page
  IN
  /\ Reads("failed")
  /\ event_parsers' = [event_parsers EXCEPT ![page.thread_ord_id].missed_events =
                         Append(@, page)]
  /\ UNCHANGED <<phase, left, encoder_info, ticks_per_ns>>

ReadFreq ==
  /\ Reads("freq")
  /\ ticks_per_ns' = TRUE
  /\ UNCHANGED <<phase, left, encoder_info, event_parsers>>

ReadEnd ==
  /\ Reads("end")
  /\ phase' = "parse"
  /\ UNCHANGED <<left, parserVars>>

(* read_exact fails at the end of the file, and decode_packets with it; and  *)
(* where the reader takes one thing for another, it panics: on an unknown    *)
(* packet type, a header that is none, or a length that runs below zero.     *)
ReadFails ==
  /\ phase = "decode"
  /\ file # <<>> => (Head(file).type = "page") # (left > 0)
  /\ phase' = IF file = <<>> THEN "rejected" ELSE "panicked"
  /\ UNCHANGED <<threadVars, storeVars, file, fileVars, left, parserVars, traceVars>>
-----------------------------------------------------------------------------
(* parse_and_save. *)

(* Mutation: a thread without an id gets track 1. *)
FirstTrack(o) == IF event_parsers[o].thread_id = NoTid THEN 1 ELSE event_parsers[o].thread_id

TrackOf(o) == IF event_parsers[o].thread_id = NoTid THEN o ELSE event_parsers[o].thread_id

set_thread_name(track, name) ==
  thread_descriptors' =
    IF thread_descriptors[track] # NoTrack THEN thread_descriptors
    ELSE [thread_descriptors EXCEPT ![track] = name]

ParseThread ==
  LET parser == event_parsers[next]
      track  == TrackOf(next)
  IN
  /\ phase = "parse" /\ next \in Ord
  /\ next' = next + 1
  /\ IF parser.event_buf = <<>> THEN UNCHANGED thread_descriptors
                               ELSE set_thread_name(track, parser.thread_name)
  /\ trace' = trace \o [i \in 1..Len(parser.event_buf) |->
                          [track |-> track, page |-> parser.event_buf[i]]]
  /\ UNCHANGED <<threadVars, storeVars, file, fileVars, phase, left, parserVars>>

Save ==
  /\ phase = "parse" /\ next \notin Ord
  /\ phase' = "saved"
  /\ UNCHANGED <<threadVars, storeVars, file, fileVars, left, parserVars, traceVars>>

Done == phase \in {"saved", "rejected", "panicked"} /\ UNCHANGED vars

Next ==
  \/ phase = "wait" /\ (\/ \E t \in Thread : FirstEvent(t) \/ set_cur_thread_name(t) \/ Flush(t)
                        \/ DropOldest)
  \/ SenderRound \/ SenderFreq \/ SenderEnd \/ CutOff
  \/ ReadInfo \/ ReadData \/ ReadPage \/ ReadFailed \/ ReadFreq \/ ReadEnd \/ ReadFails
  \/ ParseThread \/ Save
  \/ Done

Spec == Init /\ [][Next]_vars
-----------------------------------------------------------------------------
(* Ord ids, tracks, parsers and the count of pages to come are well formed.  *)
TypeOK ==
  /\ tid \in [Thread -> Tid \cup {NoTid}] /\ ord \in [Thread -> 0..Cardinality(Thread)]
  /\ live \subseteq Thread /\ CUR_THREAD_ID \in 1..(Cardinality(Thread) + 1)
  /\ new_thread_name \in [Thread -> Name \cup {NoName}]
  /\ writer \in {"writing", "ended", "cut"}
  /\ phase \in {"wait", "decode", "parse", "saved", "rejected", "panicked"}
  /\ left \in 0..Len(file) \cup (IF writer = "cut" THEN Nat ELSE {})
  /\ \A o \in Ord : /\ event_parsers[o].thread_name \in Name \cup {NoName}
                    /\ event_parsers[o].thread_id \in Tid \cup {NoTid}
  /\ thread_descriptors \in [Track -> Name \cup {NoName, NoTrack}]

(***************************************************************************)
(* The reader stays in step with what was written: it takes no header for  *)
(* a packet and no packet for a header, and it gives up a stream only if   *)
(* the stream was cut off.                                                 *)
(***************************************************************************)
ReadsInStep == phase # "panicked" /\ (phase = "rejected" => writer = "cut")

Used == {t \in Thread : ord[t] # 0}

NosOf(pages) == {pages[i].no : i \in 1..Len(pages)}

(***************************************************************************)
(* Every page that a thread flushed before the stream was ended is on the  *)
(* thread's own track once and in order, or is listed as missed, never     *)
(* both - whichever pages cleanup dropped, whatever thread ids were reused *)
(* and however the pages were spread over packets.  Only a stream with its *)
(* end is saved, and it has its information and a frequency.               *)
(***************************************************************************)
TraceIsWhole ==
  phase = "saved" =>
    /\ writer = "ended" /\ encoder_info /\ ticks_per_ns
    /\ \A t \in Used :
         LET Entries == {i \in 1..Len(trace) : trace[i].page.thread = t}
             shown   == {trace[i].page.no : i \in Entries}
             missed  == NosOf(event_parsers[ord[t]].missed_events)
         IN /\ \A i, j \in Entries : i < j => trace[i].page.no < trace[j].page.no
            /\ shown \cap missed = {}
            /\ shown \cup missed = 1..settled[t]

(* No thread id is given twice, nor is it the ord id of another thread.      *)
IdsApart == \A t, u \in Used : t # u => tid[t] # tid[u] /\ tid[t] # ord[u]

(***************************************************************************)
(* Two threads never share a track, and no thread has two, whether or not  *)
(* the page that brought its id has been dropped.  This needs ids that are *)
(* apart: where the system reuses one, the threads do share a track, and   *)
(* where a name is dropped the ord id of one may be the id of another.     *)
(***************************************************************************)
TracksAreThreads ==
  phase = "saved" /\ IdsApart =>
    \A i, j \in 1..Len(trace) :
      (trace[i].track = trace[j].track) = (trace[i].page.thread = trace[j].page.thread)

(***************************************************************************)
(* A track has the name that its thread had when it last flushed: a new    *)
(* name overrides the earlier ones, also for earlier pages, and the pages  *)
(* that bring no name do not clear it.  If a page was dropped, the name    *)
(* may be an older one or missing, but it is never that of another thread. *)
(***************************************************************************)
TracksAreNamed ==
  phase = "saved" /\ IdsApart =>
    \A i \in 1..Len(trace) :
      LET page   == trace[i].page
          parser == event_parsers[page.thread_ord_id]
          shown  == thread_descriptors[trace[i].track]
      IN IF parser.missed_events # <<>>
           THEN shown = NoName \/ shown \in {<<page.thread, k>> : k \in 0..MaxRenames[page.thread]}
           ELSE shown = <<page.thread, parser.event_buf[Len(parser.event_buf)].renamed>>
=============================================================================
