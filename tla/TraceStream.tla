---------------------------- MODULE TraceStream ----------------------------
(***************************************************************************)
(* One thread's events on their way to the trace.  LocalStorage gives each *)
(* event the difference to the timestamp before it, gives each range an    *)
(* ord id, and flushes pages, which reach the file as a data packet or,    *)
(* where cleanup has dropped them, as a header only.  decode_packets reads *)
(* the file, and parse_and_save rebuilds the timestamps, in nanoseconds,   *)
(* and joins the two ends of each range.  The clock may step back.         *)
(*                                                                         *)
(* The bytes of the events are the subject of StreamDecoder, their names   *)
(* that of IdMapping, threads and tracks that of Reader.  Here an event    *)
(* has the number no under which it was recorded, which only the           *)
(* properties look at.  A named and an unnamed range end differ by the     *)
(* name alone, and are one type.                                           *)
(***************************************************************************)
EXTENDS Integers, Sequences, FiniteSets

CONSTANTS
  OrdMod,     \* values of range_ord_id, a u8
  ClockMod,   \* values of a timestamp, 2^64 in the code
  Ticks, Nanos,  \* the frequency in the stream: Ticks take Nanos nanoseconds
  Offset,     \* nanoseconds between events of one timestamp, 10 in the code
  MaxEvents,  \* bound: events that are recorded
  MaxClock    \* bound: the timestamps, which start at 1

ASSUME TraceTyped ==
  /\ OrdMod \in Nat \ {0} /\ Offset \in Nat \ {0}
  /\ Ticks \in Nat \ {0} /\ Nanos \in Nat \ {0}
  /\ MaxEvents \in Nat /\ MaxClock \in Nat \ {0} /\ ClockMod \in Nat /\ ClockMod > MaxClock

VARIABLES
  log,        \* history: what was recorded: type, timestamp, and an end's start
  guards,     \* the range guards that the application holds
  prev_tm, start_timestamp, last_range_ord_id, buf,
  stream,     \* the packets in the file that are not read yet
  phase,
  event_buf, missed_events,
  pageNo, eventNo,  \* where the loops of parse_and_save are
  cur_tm, zero_diff_cnt, cur_started_ranges,
  trace       \* what is written: points and ranges

localVars  == <<prev_tm, start_timestamp, last_range_ord_id, buf>>
appVars    == <<log, guards>>
readVars   == <<event_buf, missed_events>>
parseVars  == <<pageNo, eventNo, cur_tm, zero_diff_cnt, cur_started_ranges, trace>>
vars == <<localVars, appVars, stream, phase, readVars, parseVars>>

OrdId == 0..(OrdMod - 1)
NoRange == [no |-> 0, tm |-> 0]

Init ==
  /\ log = <<>> /\ guards = {}
  /\ prev_tm = 0 /\ start_timestamp = 0 /\ last_range_ord_id = 0 /\ buf = <<>>
  /\ stream = <<>> /\ phase = "record"
  /\ event_buf = <<>> /\ missed_events = {}
  /\ pageNo = 0 /\ eventNo = 0
  /\ cur_tm = 0 /\ zero_diff_cnt = 0
  /\ cur_started_ranges = [ord \in OrdId |-> NoRange]
  /\ trace = {}
-----------------------------------------------------------------------------
(* Recording. *)

(***************************************************************************)
(* event and range_event at timestamp now: update_local_info, then push.   *)
(* A start_timestamp of zero says that the page has no event yet.          *)
(***************************************************************************)
PushEvent(type, ord, start, now) ==
  LET first == start_timestamp = 0
  IN
  /\ phase = "record" /\ Len(log) < MaxEvents
  /\ prev_tm' = now
  /\ start_timestamp' = IF first THEN now ELSE start_timestamp
  /\ buf' = Append(buf, [type |-> type, ord |-> ord, no |-> Len(log) + 1,
                         dif |-> IF first THEN 0 ELSE (now - prev_tm) % ClockMod])
  /\ log' = Append(log, [type |-> type, tm |-> now, start |-> start])
  /\ UNCHANGED <<stream, phase, readVars, parseVars>>

event_instant(now) ==
  /\ PushEvent("Instant", 0, 0, now)
  /\ UNCHANGED <<guards, last_range_ord_id>>

(* Mutation: the ord id is that of the number of ranges that are open. *)
OrdByDepth == Cardinality(guards) % OrdMod

NewRangeOrdId == last_range_ord_id

(* Mutation: the counter does not wrap. *)
OrdIdCountsOn == last_range_ord_id + 1

OrdIdAfter == (last_range_ord_id + 1) % OrdMod

event_range_start(now) ==
  /\ PushEvent("RangeStart", NewRangeOrdId, 0, now)
  /\ guards' = guards \cup {[ord |-> NewRangeOrdId, no |-> Len(log) + 1]}
  /\ last_range_ord_id' = OrdIdAfter

event_range_end(guard, now) ==
  /\ PushEvent("RangeEnd", guard.ord, guard.no, now)
  /\ guards' = guards \ {guard}
  /\ UNCHANGED last_range_ord_id

(* Mutation: the header's end is the timestamp that it was flushed at before. *)
EndIsStart == start_timestamp

EndTimestamp == prev_tm

(* Mutation: the next page keeps the start of this one. *)
StartKept == start_timestamp

StartAfterFlush == 0

(***************************************************************************)
(* A page is flushed, and is stored or, sooner or later, dropped.  In the  *)
(* file a dropped page's header comes behind newer pages; the reader keeps *)
(* the two kinds apart, so that their order makes no difference to it.     *)
(***************************************************************************)
Flush ==
  LET header == [start |-> start_timestamp, end |-> EndTimestamp]
  IN
  /\ phase = "record" /\ buf # <<>>
  /\ \/ stream' = Append(stream, [type |-> "data", header |-> header, events |-> buf])
     \/ stream' = Append(stream, [type |-> "failed", header |-> header, events |-> buf])
  /\ buf' = <<>> /\ start_timestamp' = StartAfterFlush
  /\ UNCHANGED <<prev_tm, last_range_ord_id, appVars, phase, readVars, parseVars>>

(* The stream ends; what is in the buffer now does not get into it. *)
Close ==
  /\ phase = "record"
  /\ phase' = "decode"
  /\ UNCHANGED <<localVars, appVars, stream, readVars, parseVars>>
-----------------------------------------------------------------------------
(* decode_packets. *)

Packet(type) == phase = "decode" /\ stream # <<>> /\ stream[1].type = type

ReadData ==
  /\ Packet("data")
  /\ event_buf' = Append(event_buf, [header |-> stream[1].header,
                                     events |-> stream[1].events])
  /\ stream' = Tail(stream)
  /\ UNCHANGED <<localVars, appVars, phase, missed_events, parseVars>>

(* A header whose end is before its start, as a clock that steps back makes  *)
(* it: a subtraction that wraps, or in a build with overflow checks a panic. *)
Backward(header) == header.end < header.start

ReadFailed ==
  LET header == stream[1].header
  IN
  /\ Packet("failed")
  /\ missed_events' = missed_events \cup
       {[start |-> header.start, dur |-> (header.end - header.start) % ClockMod,
         nos |-> {stream[1].events[i].no : i \in 1..Len(stream[1].events)}]}
  /\ stream' = Tail(stream)
  /\ phase' \in IF Backward(header) THEN {phase, "panicked"} ELSE {phase}
  /\ UNCHANGED <<localVars, appVars, event_buf, parseVars>>

ReadEnd ==
  /\ phase = "decode" /\ stream = <<>>
  /\ phase' = "parse"
  /\ UNCHANGED <<localVars, appVars, stream, readVars, parseVars>>
-----------------------------------------------------------------------------
(* parse_and_save, one event at a time. *)

PageRead == eventNo = (IF pageNo = 0 THEN 0 ELSE Len(event_buf[pageNo].events))

(* Mutation: the ranges that are open at the end of a page are forgotten. *)
StartedPerPage == [ord \in OrdId |-> NoRange]

StartedAcrossPages == cur_started_ranges

BeginPage ==
  /\ phase = "parse" /\ PageRead /\ pageNo < Len(event_buf)
  /\ pageNo' = pageNo + 1 /\ eventNo' = 0
  /\ cur_tm' = event_buf[pageNo + 1].header.start
  /\ cur_started_ranges' = StartedAcrossPages
  /\ UNCHANGED <<localVars, appVars, stream, phase, readVars, zero_diff_cnt, trace>>

Event == event_buf[pageNo].events[eventNo + 1]

(* The first event of a page is at its start, whatever its difference. *)
Dif  == IF eventNo = 0 THEN 0 ELSE Event.dif
Zero == IF eventNo > 0 /\ Event.dif = 0 THEN zero_diff_cnt + 1 ELSE 0

TmAfter == (cur_tm + Dif) % ClockMod

(* A timestamp in nanoseconds: tm / ticks_per_ns, cut to an integer.  The    *)
(* quotient is exact here, while an f64 rounds timestamps above 2^53.        *)
ToNs(tm) == (tm * Nanos) \div Ticks

(* Mutation: events of one timestamp are shown at one time. *)
AtTick == ToNs(TmAfter)

Timestamp == ToNs(TmAfter) + Offset * Zero

AddOverflows == cur_tm + Dif >= ClockMod

NextEvent(type) ==
  /\ phase = "parse" /\ ~PageRead
  /\ Event.type = type
  /\ eventNo' = eventNo + 1
  /\ cur_tm' = TmAfter
  /\ zero_diff_cnt' = Zero
  /\ UNCHANGED <<localVars, appVars, stream, readVars, pageNo>>

add_point_event(no, at) == trace' = trace \cup {[type |-> "point", no |-> no, at |-> at]}

add_range_event(from, to, begin, end) ==
  trace' = trace \cup {[type |-> "range", from |-> from, to |-> to,
                        begin |-> begin, end |-> end]}

ParseInstant ==
  /\ NextEvent("Instant")
  /\ add_point_event(Event.no, Timestamp)
  /\ UNCHANGED <<phase, cur_started_ranges>>

ParseRangeStart ==
  /\ NextEvent("RangeStart")
  /\ cur_started_ranges' =
       [cur_started_ranges EXCEPT ![Event.ord] = [no |-> Event.no, tm |-> Timestamp]]
  /\ UNCHANGED <<phase, trace>>

(* remove(ord_id).unwrap() panics if no range has been started with this id. *)
ParseRangeEnd ==
  LET range == cur_started_ranges[Event.ord]
  IN
  /\ NextEvent("RangeEnd")
  /\ cur_started_ranges' = [cur_started_ranges EXCEPT ![Event.ord] = NoRange]
  /\ IF range = NoRange
       THEN phase' = "panicked" /\ UNCHANGED trace
       ELSE /\ add_range_event(range.no, Event.no, range.tm, Timestamp)
            /\ UNCHANGED phase

(* A build with overflow checks panics on a difference that wraps, on the    *)
(* duration of a page that goes backward, and, without a page, on the        *)
(* statistics, which subtract 2^64 - 1 from 0.                               *)
OverflowPanic ==
  /\ phase = "parse"
  /\ \/ ~PageRead /\ AddOverflows
     \/ PageRead /\ pageNo > 0 /\ Backward(event_buf[pageNo].header)
     \/ event_buf = <<>>
  /\ phase' = "panicked"
  /\ UNCHANGED <<localVars, appVars, stream, readVars, parseVars>>

Finish ==
  /\ phase = "parse" /\ PageRead /\ pageNo = Len(event_buf)
  /\ phase' = "done"
  /\ UNCHANGED <<localVars, appVars, stream, readVars, parseVars>>

Ended == phase \in {"done", "panicked"} /\ UNCHANGED vars

Now == 1..MaxClock

Next ==
  \/ \E now \in Now : event_instant(now) \/ event_range_start(now)
  \/ \E now \in Now, guard \in guards : event_range_end(guard, now)
  \/ Flush \/ Close
  \/ ReadData \/ ReadFailed \/ ReadEnd
  \/ BeginPage \/ ParseInstant \/ ParseRangeStart \/ ParseRangeEnd
  \/ OverflowPanic \/ Finish
  \/ Ended

Spec == Init /\ [][Next]_vars
-----------------------------------------------------------------------------
(* Every variable has its type. *)
TypeOK ==
  /\ log \in Seq([type : {"Instant", "RangeStart", "RangeEnd"}, tm : 1..MaxClock,
                  start : 0..MaxEvents])
  /\ guards \subseteq [ord : OrdId, no : 1..MaxEvents]
  /\ prev_tm \in 0..MaxClock /\ start_timestamp \in 0..MaxClock
  /\ last_range_ord_id \in OrdId
  /\ buf \in Seq([type : {"Instant", "RangeStart", "RangeEnd"}, ord : OrdId,
                  no : 1..MaxEvents, dif : 0..(ClockMod - 1)])
  /\ phase \in {"record", "decode", "parse", "done", "panicked"}
  /\ \A m \in missed_events : m.dur \in Nat
  /\ cur_tm \in 0..(ClockMod - 1)
  /\ cur_started_ranges \in [OrdId -> [no : 0..MaxEvents, tm : Nat]]

(***************************************************************************)
(* The event is shown at its time, or later by one Offset for each event   *)
(* right before it that has the same time.                                 *)
(***************************************************************************)
ShownAt(no, at) ==
  \E k \in 0..(no - 1) : /\ at = ToNs(log[no].tm) + k * Offset
                         /\ \A j \in 1..k : log[no - j].tm = log[no].tm

ClockIsSteady == \A i \in 2..Len(log) : log[i - 1].tm =< log[i].tm

(***************************************************************************)
(* The differences add up again: however the events were cut into pages,   *)
(* whichever pages were dropped and however the clock stepped back, each   *)
(* point is shown at the time at which it was recorded.                    *)
(***************************************************************************)
PointsKeepTheirTime ==
  \A p \in trace : p.type = "point" => ShownAt(p.no, p.at)

Starts == {i \in 1..Len(log) : log[i].type = "RangeStart"}
OrdOf(no) == Cardinality({i \in Starts : i < no}) % OrdMod

(* A range was still open when another one got its ord id, and ended then. *)
OrdReused ==
  \E e \in 1..Len(log), s \in Starts :
    /\ log[e].type = "RangeEnd" /\ log[e].start < s /\ s < e
    /\ OrdOf(s) = OrdOf(log[e].start)

NoWrap == Cardinality(Starts) =< OrdMod

(* The id of a range is "required to match with start event during parsing". *)
RangesMatchGuards ==
  \A r \in trace : r.type = "range" =>
    /\ log[r.to].start = r.from
    /\ ShownAt(r.from, r.begin) /\ ShownAt(r.to, r.end)

(***************************************************************************)
(* A range in the trace is one that the application had: its two ends are  *)
(* those of one guard, at their times.  This needs ord ids that are apart: *)
(* no range open while OrdMod others start, and where pages are dropped no *)
(* id that was used before.                                                *)
(***************************************************************************)
RangesMatchIfApart ==
  ~OrdReused /\ (missed_events = {} \/ NoWrap) => RangesMatchGuards

(***************************************************************************)
(* Nothing is missing: if no page was dropped and no ord id was reused,    *)
(* the parser gets to the end and has written every instant event and      *)
(* every range whose end was flushed, also across pages.  It panics only   *)
(* on a stream without pages or with times that go backward.               *)
(***************************************************************************)
TraceIsComplete ==
  phase \in {"done", "panicked"} /\ missed_events = {} /\ ~OrdReused =>
    /\ phase = "panicked" => event_buf = <<>> \/ ~ClockIsSteady
    /\ phase = "done" => \A no \in 1..(Len(log) - Len(buf)) :
         /\ log[no].type = "Instant" => \E p \in trace : p.type = "point" /\ p.no = no
         /\ log[no].type = "RangeEnd" => \E r \in trace : r.type = "range" /\ r.to = no

(***************************************************************************)
(* The time span that is reported for a dropped page has the times of all  *)
(* its events, and no time of a page that was not dropped, while the clock *)
(* is steady.                                                              *)
(***************************************************************************)
LossIsReported ==
  ClockIsSteady => \A m \in missed_events :
    /\ \A no \in m.nos : m.start =< log[no].tm /\ log[no].tm =< m.start + m.dur
    /\ \A no \in (1..Len(log)) \ m.nos :
         log[no].tm =< m.start \/ m.start + m.dur =< log[no].tm

ShownTimes == {<<p.no, p.at>> : p \in {e \in trace : e.type = "point"}}
  \cup UNION {{<<r.from, r.begin>>, <<r.to, r.end>>} : r \in {e \in trace : e.type = "range"}}

FirstOfPage == {event_buf[p].events[1].no : p \in 1..Len(event_buf)}

(* Equal timestamps come in runs, which do not go on in another page, and    *)
(* after which the clock takes as long to move on as their offsets add up to.*)
RunsAreShort ==
  /\ \A i, j, m \in 1..Len(log) :
       i =< j /\ log[i].tm = log[j].tm /\ log[j].tm < log[m].tm =>
         (j - i) * Offset * Ticks =< (log[m].tm - log[j].tm) * Nanos
  /\ \A no \in FirstOfPage \ {1} : log[no - 1].tm # log[no].tm

(***************************************************************************)
(* Nothing is shown before what was recorded earlier, although nanoseconds *)
(* are cut off, and events of one timestamp are shown apart, so that the   *)
(* viewer nests the ranges as the application did, also those that begin   *)
(* or end at one timestamp.  This needs short runs: the offset of a long   *)
(* run takes its last events past those of the next timestamp, and it is   *)
(* not carried over to the next page.                                      *)
(***************************************************************************)
ShownInOrder ==
  ClockIsSteady /\ RunsAreShort =>
    \A x, y \in ShownTimes : x[1] < y[1] =>
      /\ x[2] =< y[2]
      /\ log[x[1]].tm = log[y[1]].tm => x[2] < y[2]
=============================================================================
