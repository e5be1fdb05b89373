------------------------- MODULE TraceStreamProofs -------------------------
(***************************************************************************)
(* The way of a thread's events into the trace, for any number of events   *)
(* and ord ids, any clock and any cut into pages, of which any may be      *)
(* dropped.  The invariant has four parts.                                 *)
(*   TimeInv   a page's events are consecutive in the log, its header has  *)
(*             the times of the first and the last, the differences are    *)
(*             those of the events' times; and the parser's clock is at    *)
(*             the event it has read last.                                 *)
(*   OrdInv    the ord id of a range is the number of the ranges before it *)
(*             modulo OrdMod, in the guards and in every page, and an end  *)
(*             has that of its start.                                      *)
(*   OrderInv  pages keep their order, and hold all that was flushed.      *)
(*   ParseInv  the ranges that the parser has open, and what it has        *)
(*             written, are those of the events it has read.               *)
(***************************************************************************)
EXTENDS TraceStream, TLAPS, FiniteSetTheorems

Type == {"Instant", "RangeStart", "RangeEnd"}

Logged == [type : Type, tm : 1..MaxClock, start : 0..MaxEvents]

Recorded == [type : Type, ord : OrdId, no : 1..MaxEvents, dif : 0..(ClockMod - 1)]

Header == [start : 1..MaxClock, end : 1..MaxClock]

Page == [header : Header, events : Seq(Recorded)]

Packets == [type : {"data", "failed"}, header : Header, events : Seq(Recorded)]

LogTyped ==
  /\ log \in Seq(Logged)
  /\ Len(log) =< MaxEvents
  /\ guards \subseteq [ord : OrdId, no : 1..MaxEvents]

LocalTyped ==
  /\ prev_tm \in 0..MaxClock /\ start_timestamp \in 0..MaxClock
  /\ last_range_ord_id \in OrdId
  /\ buf \in Seq(Recorded)

FileTyped ==
  /\ stream \in Seq(Packets)
  /\ event_buf \in Seq(Page)
  /\ \A m \in missed_events : m.dur \in Nat
  /\ phase \in {"record", "decode", "parse", "done", "panicked"}

ParserTyped ==
  /\ pageNo \in Nat /\ eventNo \in Nat /\ zero_diff_cnt \in Nat
  /\ cur_tm \in 0..(ClockMod - 1)
  /\ cur_started_ranges \in [OrdId -> [no : 0..MaxEvents, tm : Nat]]

Typed == LogTyped /\ LocalTyped /\ FileTyped /\ ParserTyped
-----------------------------------------------------------------------------
(* The events of a page are those of the log l behind the first b.           *)
Follows(l, b, events) ==
  /\ b \in Nat /\ Len(events) > 0 /\ b + Len(events) =< Len(l)
  /\ \A i \in 1..Len(events) : events[i].no = b + i
  /\ \A i \in 2..Len(events) : events[i].dif = (l[b + i].tm - l[b + i - 1].tm) % ClockMod

Chained(l, events, header) ==
  \E b \in Nat : /\ Follows(l, b, events)
                 /\ header.start = l[b + 1].tm /\ header.end = l[b + Len(events)].tm

BufChained ==
  /\ Len(buf) =< Len(log)
  /\ log # <<>> => prev_tm = log[Len(log)].tm
  /\ buf = <<>> <=> start_timestamp = 0
  /\ buf # <<>> => /\ Follows(log, Len(log) - Len(buf), buf)
                   /\ start_timestamp = log[Len(log) - Len(buf) + 1].tm

FileChained ==
  /\ \A i \in 1..Len(stream) : Chained(log, stream[i].events, stream[i].header)
  /\ \A i \in 1..Len(event_buf) : Chained(log, event_buf[i].events, event_buf[i].header)

(* The k events before an event have its time.                               *)
SameTime(l, no, k) == k \in 0..(no - 1) /\ \A j \in 1..k : l[no - j].tm = l[no].tm

(* They are all that do, back to the first of the page, which is in firsts.  *)
RunOf(l, firsts, no, k) ==
  SameTime(l, no, k) /\ (no - k \in firsts \/ l[no - k - 1].tm # l[no].tm)

ParserInStep ==
  /\ phase \in {"record", "decode"} => pageNo = 0 /\ eventNo = 0 /\ trace = {}
  /\ phase = "record" => event_buf = <<>> /\ missed_events = {}
  /\ pageNo =< Len(event_buf) /\ (pageNo = 0 => eventNo = 0)
  /\ pageNo > 0 =>
       LET events == event_buf[pageNo].events
       IN /\ eventNo =< Len(events)
          /\ eventNo = 0 => cur_tm = event_buf[pageNo].header.start
          /\ eventNo > 0 => /\ cur_tm = log[events[eventNo].no].tm
                            /\ RunOf(log, FirstOfPage, events[eventNo].no, zero_diff_cnt)

(* A dropped page is that of n events behind the first b.                    *)
MissedAt(l, m, b, n) ==
  /\ b \in Nat /\ n \in Nat \ {0} /\ b + n =< Len(l) /\ m.nos = (b + 1)..(b + n)
  /\ m.start = l[b + 1].tm /\ m.dur = (l[b + n].tm - l[b + 1].tm) % ClockMod

MissedInFile == \A m \in missed_events : \E b, n \in Nat : MissedAt(log, m, b, n)

Steady(l) == \A i, j \in 1..Len(l) : i =< j => l[i].tm =< l[j].tm

TimeInv ==
  /\ Typed /\ BufChained /\ FileChained /\ ParserInStep
  /\ PointsKeepTheirTime
  /\ MissedInFile /\ (ClockIsSteady => Steady(log))
-----------------------------------------------------------------------------
LEMMA TypedIsTypeOK == Typed => TypeOK
  BY DEF Typed, LogTyped, LocalTyped, FileTyped, ParserTyped, TypeOK, Type, Logged,
     Recorded

LEMMA Constants ==
  /\ OrdMod \in Nat \ {0} /\ ClockMod \in Nat /\ MaxClock \in Nat \ {0} /\ ClockMod > MaxClock
  /\ MaxEvents \in Int /\ Offset \in Nat \ {0}
  /\ Ticks \in Nat \ {0} /\ Nanos \in Nat \ {0}
  /\ 0 \in OrdId
  BY TraceTyped DEF OrdId

(* A quotient is the largest number whose product is not above.              *)
LEMMA DivBelow ==
  ASSUME NEW t \in Nat \ {0}, NEW x \in Nat
  PROVE  x \div t \in Nat /\ (x \div t) * t =< x
  OBVIOUS

LEMMA DivAtLeast ==
  ASSUME NEW t \in Nat \ {0}, NEW x \in Nat, NEW q \in Nat, q * t =< x
  PROVE  q =< x \div t
  OBVIOUS

LEMMA ToNsTyped ==
  ASSUME NEW tm \in Nat
  PROVE  ToNs(tm) \in Nat
  <1>1. tm * Nanos \in Nat
    BY Constants
  <1>2. QED
    BY <1>1, Constants, DivBelow DEF ToNs

LEMMA ElementTyped ==
  ASSUME NEW S, NEW s \in Seq(S), NEW i \in 1..Len(s) PROVE s[i] \in S
  OBVIOUS

LEMMA NotEmpty ==
  ASSUME NEW S, NEW s \in Seq(S)
  PROVE  /\ Len(s) \in Nat
         /\ s # <<>> <=> Len(s) # 0
         /\ s # <<>> <=> Len(s) \in 1..Len(s)
  OBVIOUS

LEMMA Appended ==
  ASSUME NEW S, NEW s \in Seq(S), NEW e
  PROVE  /\ Len(Append(s, e)) = Len(s) + 1 /\ Append(s, e)[Len(s) + 1] = e
         /\ \A i \in 1..Len(s) : Append(s, e)[i] = s[i]
  OBVIOUS

(* Sums and differences of two times.                                        *)
LEMMA ModRange ==
  ASSUME NEW m \in Nat \ {0}, NEW a \in Int PROVE a % m \in 0..(m - 1)
  OBVIOUS

LEMMA ModSmall ==
  ASSUME NEW m \in Nat \ {0}, NEW s \in 0..(m - 1)
  PROVE  s % m = s /\ (s + m) % m = s /\ (s - m) % m = s
  OBVIOUS

LEMMA AddsUp ==
  ASSUME NEW m \in Nat \ {0}, NEW a \in 0..(m - 1), NEW b \in 0..(m - 1)
  PROVE  /\ (a + ((b - a) % m)) % m = b
         /\ (b - a) % m = 0 => a = b
         /\ a =< b => (b - a) % m = b - a
  <1>1. CASE a =< b
    <2>1. b - a \in 0..(m - 1)
      BY <1>1
    <2>2. (b - a) % m = b - a
      BY <2>1, ModSmall
    <2>3. a + (b - a) = b /\ b % m = b
      BY ModSmall
    <2>4. QED
      BY <1>1, <2>2, <2>3
  <1>2. CASE b < a
    <2>1. b - a + m \in 0..(m - 1) /\ b - a + m # 0 /\ (b - a + m) - m = b - a
      BY <1>2
    <2>2. (b - a) % m = b - a + m
      <3>1. PICK s \in 0..(m - 1) : s = b - a + m
        BY <2>1
      <3>2. (s - m) % m = s /\ s - m = b - a
        BY <2>1, <3>1, ModSmall
      <3>3. QED
        BY <3>1, <3>2
    <2>3. a + (b - a + m) = b + m /\ (b + m) % m = b
      BY ModSmall
    <2>4. QED
      BY <1>2, <2>1, <2>2, <2>3
  <1>3. QED
    BY <1>1, <1>2
-----------------------------------------------------------------------------
LEMMA InitTyped == Init => Typed
  <1> SUFFICES ASSUME Init PROVE Typed
    OBVIOUS
  <1> USE Constants DEF Init
  <1>1. LogTyped
    <2>1. 0 =< MaxEvents
      BY TraceTyped
    <2>2. QED
      BY <2>1 DEF LogTyped
  <1>2. LocalTyped
    BY DEF LocalTyped
  <1>3. FileTyped
    BY DEF FileTyped
  <1>4. ParserTyped
    <2>1. NoRange \in [no : 0..MaxEvents, tm : Nat]
      BY TraceTyped DEF NoRange
    <2>2. cur_started_ranges \in [OrdId -> [no : 0..MaxEvents, tm : Nat]]
      BY <2>1
    <2>3. 0 \in 0..(ClockMod - 1)
      OBVIOUS
    <2>4. QED
      BY <2>2, <2>3 DEF ParserTyped
  <1>5. QED
    BY <1>1, <1>2, <1>3, <1>4 DEF Typed

(* What an event adds to the log and to the buffer.                          *)
LEMMA PushTyped ==
  ASSUME Typed, NEW type \in Type, NEW ord \in OrdId, NEW start \in 0..MaxEvents,
         NEW now \in Now, PushEvent(type, ord, start, now)
  PROVE  /\ log' \in Seq(Logged)
         /\ Len(log') =< MaxEvents /\ Len(log) + 1 \in 1..MaxEvents
         /\ prev_tm' \in 0..MaxClock /\ start_timestamp' \in 0..MaxClock
         /\ buf' \in Seq(Recorded)
         /\ FileTyped' /\ ParserTyped'
  <1> USE Constants
  <1> DEFINE first == start_timestamp = 0
             logged   == [type |-> type, tm |-> now, start |-> start]
             recorded == [type |-> type, ord |-> ord, no |-> Len(log) + 1,
                          dif |-> IF first THEN 0 ELSE (now - prev_tm) % ClockMod]
  <1>1. /\ log \in Seq(Logged)
        /\ Len(log) \in Nat /\ Len(log) < MaxEvents
        /\ prev_tm \in 0..MaxClock /\ start_timestamp \in 0..MaxClock /\ buf \in Seq(Recorded)
        /\ now \in 1..MaxClock
    BY DEF Typed, LogTyped, LocalTyped, PushEvent, Now
  <1>2. /\ log' = Append(log, logged) /\ buf' = Append(buf, recorded)
        /\ prev_tm' = now /\ start_timestamp' \in {now, start_timestamp}
        /\ UNCHANGED <<stream, phase, readVars, parseVars>>
    BY DEF PushEvent
  <1>3. logged \in Logged
    BY <1>1 DEF Logged
  <1>4. Len(log) + 1 \in 1..MaxEvents
    BY <1>1
  <1>5. recorded \in Recorded
    <2>1. (now - prev_tm) % ClockMod \in 0..(ClockMod - 1)
      <3>1. ClockMod \in Nat \ {0} /\ now - prev_tm \in Int
        BY <1>1
      <3>2. QED
        BY <3>1, ModRange
    <2>2. 0 \in 0..(ClockMod - 1)
      OBVIOUS
    <2>3. QED
      BY <1>4, <2>1, <2>2 DEF Recorded
  <1> HIDE DEF logged, recorded
  <1>6. /\ log' \in Seq(Logged)
        /\ Len(log') = Len(log) + 1
    BY <1>1, <1>2, <1>3
  <1>7. buf' \in Seq(Recorded)
    BY <1>1, <1>2, <1>5
  <1>8. FileTyped' /\ ParserTyped'
    BY <1>2 DEF Typed, FileTyped, ParserTyped, readVars, parseVars
  <1>9. prev_tm' \in 0..MaxClock /\ start_timestamp' \in 0..MaxClock
    BY <1>1, <1>2
  <1>10. Len(log') =< MaxEvents
    BY <1>1, <1>6
  <1>11. QED
    BY <1>4, <1>6, <1>7, <1>8, <1>9, <1>10

LEMMA EventTyped ==
  ASSUME Typed,
         \/ \E now \in Now : event_instant(now) \/ event_range_start(now)
         \/ \E now \in Now, guard \in guards : event_range_end(guard, now)
  PROVE  Typed'
  <1> USE Constants
  <1>1. /\ guards \subseteq [ord : OrdId, no : 1..MaxEvents] /\ last_range_ord_id \in OrdId
        /\ 0 \in 0..MaxEvents
    BY DEF Typed, LogTyped, LocalTyped
  <1>2. ASSUME NEW now \in Now, event_instant(now) PROVE Typed'
    <2>1. PushEvent("Instant", 0, 0, now) /\ UNCHANGED <<guards, last_range_ord_id>>
      BY <1>2 DEF event_instant
    <2>2. QED
      BY <1>1, <2>1, PushTyped DEF Typed, LogTyped, LocalTyped, Type
  <1>3. ASSUME NEW now \in Now, event_range_start(now) PROVE Typed'
    <2>1. /\ PushEvent("RangeStart", last_range_ord_id, 0, now)
          /\ guards' = guards \cup {[ord |-> last_range_ord_id, no |-> Len(log) + 1]}
          /\ last_range_ord_id' = (last_range_ord_id + 1) % OrdMod
      BY <1>3 DEF event_range_start, NewRangeOrdId, OrdIdAfter
    <2>2. last_range_ord_id' \in OrdId
      BY <1>1, <2>1, ModRange DEF OrdId
    <2>3. Len(log) + 1 \in 1..MaxEvents
      BY <1>1, <2>1, PushTyped DEF Type
    <2>4. guards' \subseteq [ord : OrdId, no : 1..MaxEvents]
      BY <1>1, <2>1, <2>3
    <2>5. QED
      BY <1>1, <2>1, <2>2, <2>4, PushTyped DEF Typed, LogTyped, LocalTyped, Type
  <1>4. ASSUME NEW now \in Now, NEW guard \in guards, event_range_end(guard, now) PROVE Typed'
    <2>1. /\ PushEvent("RangeEnd", guard.ord, guard.no, now)
          /\ guards' = guards \ {guard} /\ UNCHANGED last_range_ord_id
      BY <1>4 DEF event_range_end
    <2>2. guard.ord \in OrdId /\ guard.no \in 0..MaxEvents
      BY <1>1
    <2>3. guards' \subseteq [ord : OrdId, no : 1..MaxEvents]
      BY <1>1, <2>1
    <2>4. QED
      BY <1>1, <2>1, <2>2, <2>3, PushTyped DEF Typed, LogTyped, LocalTyped, Type
  <1>5. QED
    BY <1>2, <1>3, <1>4

(* What the reader has read of the page it is in.                            *)
LEMMA CurrentEvent ==
  ASSUME Typed, ParserInStep, phase = "parse", ~PageRead
  PROVE  /\ pageNo \in 1..Len(event_buf) /\ eventNo + 1 \in 1..Len(event_buf[pageNo].events)
         /\ event_buf[pageNo].events \in Seq(Recorded) /\ Event \in Recorded
         /\ event_buf[pageNo].header \in Header
  <1>1. pageNo # 0 /\ pageNo \in Nat /\ pageNo =< Len(event_buf) /\ eventNo \in Nat
    BY DEF ParserInStep, PageRead, Typed, ParserTyped
  <1>2. pageNo \in 1..Len(event_buf)
    BY <1>1 DEF Typed, FileTyped
  <1>3. event_buf[pageNo] \in [header : Header, events : Seq(Recorded)]
    BY <1>2, ElementTyped DEF Typed, FileTyped, Page
  <1>4. eventNo =< Len(event_buf[pageNo].events) /\ eventNo # Len(event_buf[pageNo].events)
    BY <1>1 DEF ParserInStep, PageRead
  <1>5. eventNo + 1 \in 1..Len(event_buf[pageNo].events)
    BY <1>1, <1>3, <1>4
  <1>6. event_buf[pageNo].events[eventNo + 1] \in Recorded
    BY <1>3, <1>5
  <1>7. QED
    BY <1>2, <1>3, <1>5, <1>6 DEF Event

LEMMA ParseTyped ==
  ASSUME Typed, ParserInStep,
         BeginPage \/ ParseInstant \/ ParseRangeStart \/ ParseRangeEnd \/ OverflowPanic \/ Finish
  PROVE  Typed'
  <1> USE Constants
  <1>1. UNCHANGED <<localVars, appVars, stream, readVars>>
    BY DEF BeginPage, ParseInstant, ParseRangeStart, ParseRangeEnd, OverflowPanic, Finish,
           NextEvent
  <1>2. LogTyped' /\ LocalTyped'
    BY <1>1 DEF Typed, LogTyped, LocalTyped, appVars, localVars
  <1>3. phase' \in {"parse", "done", "panicked"}
    BY DEF BeginPage, ParseInstant, ParseRangeStart, ParseRangeEnd, OverflowPanic, Finish,
           NextEvent
  <1>4. FileTyped'
    BY <1>1, <1>3 DEF Typed, FileTyped, readVars
  <1>5. CASE OverflowPanic \/ Finish
    <2>1. UNCHANGED parseVars
      BY <1>5 DEF OverflowPanic, Finish
    <2>2. QED
      BY <1>2, <1>4, <2>1 DEF Typed, ParserTyped, parseVars
  <1>6. CASE BeginPage
    <2>1. pageNo + 1 \in 1..Len(event_buf) /\ pageNo \in Nat
      BY <1>6 DEF BeginPage, Typed, ParserTyped, FileTyped
    <2>2. event_buf[pageNo + 1] \in [header : Header, events : Seq(Recorded)]
      BY <2>1, ElementTyped DEF Typed, FileTyped, Page
    <2>3. event_buf[pageNo + 1].header.start \in 0..(ClockMod - 1)
      BY <2>2 DEF Header
    <2>4. QED
      BY <1>2, <1>4, <1>6, <2>1, <2>3 DEF BeginPage, StartedAcrossPages, Typed, ParserTyped
  <1>7. CASE ParseInstant \/ ParseRangeStart \/ ParseRangeEnd
    <2>1. /\ phase = "parse" /\ ~PageRead
          /\ eventNo' = eventNo + 1 /\ cur_tm' = TmAfter /\ zero_diff_cnt' = Zero
          /\ UNCHANGED pageNo
      BY <1>7 DEF ParseInstant, ParseRangeStart, ParseRangeEnd, NextEvent
    <2>2. Event \in Recorded /\ Event.ord \in OrdId /\ Event.no \in 1..MaxEvents
          /\ Event.dif \in 0..(ClockMod - 1)
      BY <2>1, CurrentEvent DEF Recorded
    <2>3. /\ cur_tm \in Nat /\ eventNo \in Nat /\ pageNo \in Nat /\ zero_diff_cnt \in Nat
          /\ cur_started_ranges \in [OrdId -> [no : 0..MaxEvents, tm : Nat]]
      BY DEF Typed, ParserTyped
    <2>4. TmAfter \in 0..(ClockMod - 1)
      <3>1. Dif \in Nat
        BY <2>2 DEF Dif
      <3>2. QED
        BY <2>3, <3>1, ModRange DEF TmAfter
    <2>5. Zero \in Nat
      BY <2>3 DEF Zero
    <2>6. Timestamp \in Nat
      BY <2>4, <2>5, ToNsTyped DEF Timestamp
    <2>7. cur_started_ranges' \in [OrdId -> [no : 0..MaxEvents, tm : Nat]]
      <3>1. CASE ParseInstant
        BY <2>3, <3>1 DEF ParseInstant
      <3>2. CASE ParseRangeStart
        <4>1. [no |-> Event.no, tm |-> Timestamp] \in [no : 0..MaxEvents, tm : Nat]
          BY <2>2, <2>6
        <4>2. QED
          BY <2>3, <3>2, <4>1 DEF ParseRangeStart
      <3>3. CASE ParseRangeEnd
        <4>1. NoRange \in [no : 0..MaxEvents, tm : Nat]
          BY <2>2 DEF NoRange
        <4>2. QED
          BY <2>3, <3>3, <4>1 DEF ParseRangeEnd
      <3>4. QED
        BY <1>7, <3>1, <3>2, <3>3
    <2>8. ParserTyped'
      BY <2>1, <2>3, <2>4, <2>5, <2>7 DEF ParserTyped
    <2>9. QED
      BY <1>2, <1>4, <2>8 DEF Typed
  <1>8. QED
    BY <1>5, <1>6, <1>7

(* A page is flushed only when it has events, and so a start and an end.     *)
LEMMA FlushTyped == ASSUME Typed, BufChained, Flush PROVE Typed'
  <1> USE Constants
  <1> DEFINE header == [start |-> start_timestamp, end |-> prev_tm]
             packet(type) == [type |-> type, header |-> header, events |-> buf]
  <1>1. /\ buf # <<>> /\ UNCHANGED <<prev_tm, last_range_ord_id, appVars, phase,
                                     readVars, parseVars>>
        /\ buf' = <<>> /\ start_timestamp' = 0
        /\ \E type \in {"data", "failed"} : stream' = Append(stream, packet(type))
    BY DEF Flush, EndTimestamp, StartAfterFlush
  <1>2. buf \in Seq(Recorded) /\ stream \in Seq(Packets)
    BY DEF Typed, LocalTyped, FileTyped
  <1>3. start_timestamp \in 1..MaxClock
    BY <1>1 DEF BufChained, Typed, LocalTyped
  <1>4. prev_tm \in 1..MaxClock
    <2>1. Len(log) \in 1..Len(log)
      <3>1. Len(buf) \in Nat /\ Len(buf) # 0
        BY <1>1, <1>2, NotEmpty
      <3>2. Len(log) \in Nat /\ Len(buf) =< Len(log)
        BY NotEmpty DEF Typed, LogTyped, BufChained
      <3>3. QED
        BY <3>1, <3>2
    <2>2. log \in Seq(Logged) /\ log[Len(log)] \in Logged
      BY <2>1, ElementTyped DEF Typed, LogTyped
    <2>3. prev_tm = log[Len(log)].tm
      BY <2>1, <2>2, NotEmpty DEF BufChained
    <2>4. QED
      BY <2>2, <2>3 DEF Logged
  <1>5. \A type \in {"data", "failed"} : packet(type) \in Packets
    BY <1>2, <1>3, <1>4 DEF Packets, Header
  <1>6. stream' \in Seq(Packets)
    <2> HIDE DEF packet
    <2>1. QED
      BY <1>1, <1>2, <1>5
  <1>7. LogTyped' /\ ParserTyped'
    BY <1>1 DEF Typed, LogTyped, ParserTyped, appVars, parseVars
  <1>8. LocalTyped'
    BY <1>1 DEF Typed, LocalTyped
  <1>9. FileTyped'
    BY <1>1, <1>6 DEF Typed, FileTyped, readVars
  <1>10. QED
    BY <1>7, <1>8, <1>9 DEF Typed

LEMMA ReadTyped == ASSUME Typed, Close \/ ReadData \/ ReadFailed \/ ReadEnd PROVE Typed'
  <1> USE Constants
  <1>1. UNCHANGED <<localVars, appVars, parseVars>>
    BY DEF Close, ReadData, ReadFailed, ReadEnd
  <1>2. LogTyped' /\ LocalTyped' /\ ParserTyped'
    BY <1>1 DEF Typed, LogTyped, LocalTyped, ParserTyped, appVars, localVars, parseVars
  <1>3. stream \in Seq(Packets) /\ event_buf \in Seq(Page)
    BY DEF Typed, FileTyped
  <1>4. CASE Close \/ ReadEnd
    <2>1. UNCHANGED <<stream, readVars>> /\ phase' \in {"decode", "parse"}
      BY <1>4 DEF Close, ReadEnd
    <2>2. FileTyped'
      BY <2>1 DEF Typed, FileTyped, readVars
    <2>3. QED
      BY <1>2, <2>2 DEF Typed
  <1>5. CASE ReadData \/ ReadFailed
    <2>1. stream # <<>> /\ stream' = Tail(stream) /\ 1 \in 1..Len(stream)
      BY <1>3, <1>5 DEF ReadData, ReadFailed, Packet
    <2>2. stream' \in Seq(Packets)
      BY <1>3, <2>1
    <2>3. stream[1] \in Packets
      BY <1>3, <2>1, ElementTyped
    <2>4. CASE ReadData
      <3>1. [header |-> stream[1].header, events |-> stream[1].events] \in Page
        BY <2>3 DEF Packets, Page
      <3>2. event_buf' \in Seq(Page)
        BY <1>3, <2>4, <3>1 DEF ReadData
      <3>3. FileTyped'
        BY <2>2, <2>4, <3>2 DEF ReadData, Typed, FileTyped
      <3>4. QED
        BY <1>2, <3>3 DEF Typed
    <2>5. CASE ReadFailed
      <3>1. (stream[1].header.end - stream[1].header.start) % ClockMod \in Nat
        <4>1. stream[1].header.end - stream[1].header.start \in Int
          BY <2>3 DEF Packets, Header
        <4>2. ClockMod \in Nat \ {0}
          OBVIOUS
        <4>3. QED
          BY <4>1, <4>2, ModRange
      <3>2. \A m \in missed_events' : m.dur \in Nat
        BY <2>5, <3>1 DEF ReadFailed, Typed, FileTyped
      <3>3. event_buf' = event_buf /\ phase' \in {phase, "panicked"}
        BY <2>5 DEF ReadFailed
      <3>4. FileTyped'
        BY <1>3, <2>2, <3>2, <3>3 DEF Typed, FileTyped
      <3>5. QED
        BY <1>2, <3>4 DEF Typed
    <2>6. QED
      BY <1>5, <2>4, <2>5
  <1>6. QED
    BY <1>4, <1>5
-----------------------------------------------------------------------------
(* What is in the log stays where it is.                                     *)
LEMMA FollowsGrows ==
  ASSUME NEW l \in Seq(Logged), NEW e, NEW b, NEW events \in Seq(Recorded), Follows(l, b, events)
  PROVE  Follows(Append(l, e), b, events)
  <1>1. /\ Len(Append(l, e)) = Len(l) + 1 /\ Len(l) \in Nat /\ Len(events) \in Nat /\ b \in Nat
        /\ \A i \in 1..Len(l) : Append(l, e)[i] = l[i]
    BY Appended, NotEmpty DEF Follows
  <1>2. b + Len(events) =< Len(l) /\ Len(events) > 0
    BY DEF Follows
  <1>3. ASSUME NEW i \in 2..Len(events)
        PROVE  events[i].dif = (Append(l, e)[b + i].tm - Append(l, e)[b + i - 1].tm) % ClockMod
    <2>1. b + i \in 1..Len(l) /\ b + i - 1 \in 1..Len(l)
      BY <1>1, <1>2
    <2>2. QED
      BY <1>1, <2>1 DEF Follows
  <1>4. b + Len(events) =< Len(Append(l, e))
    BY <1>1, <1>2
  <1>5. QED
    BY <1>1, <1>2, <1>3, <1>4 DEF Follows

LEMMA ChainedGrows ==
  ASSUME NEW l \in Seq(Logged), NEW e, NEW events \in Seq(Recorded), NEW header,
         Chained(l, events, header)
  PROVE  Chained(Append(l, e), events, header)
  <1>1. PICK b \in Nat : /\ Follows(l, b, events)
                         /\ header.start = l[b + 1].tm /\ header.end = l[b + Len(events)].tm
    BY DEF Chained
  <1>2. b + 1 \in 1..Len(l) /\ b + Len(events) \in 1..Len(l)
    BY <1>1, NotEmpty DEF Follows
  <1>3. Follows(Append(l, e), b, events)
    BY <1>1, FollowsGrows
  <1>4. QED
    BY <1>1, <1>2, <1>3, Appended DEF Chained

LEMMA SteadyGrows ==
  ASSUME NEW l \in Seq(Logged), NEW e \in Logged, Steady(l),
         l # <<>> => l[Len(l)].tm =< e.tm
  PROVE  Steady(Append(l, e))
  <1>1. /\ Len(Append(l, e)) = Len(l) + 1 /\ Append(l, e)[Len(l) + 1] = e /\ Len(l) \in Nat
        /\ \A i \in 1..Len(l) : Append(l, e)[i] = l[i] /\ l[i].tm \in Nat
    <2>1. \A i \in 1..Len(l) : l[i] \in Logged
      BY ElementTyped
    <2>2. QED
      BY <2>1, Appended, NotEmpty DEF Logged
  <1>2. ASSUME NEW i \in 1..(Len(l) + 1), NEW j \in 1..(Len(l) + 1), i =< j
        PROVE  Append(l, e)[i].tm =< Append(l, e)[j].tm
    <2>1. CASE j =< Len(l)
      BY <1>1, <1>2, <2>1 DEF Steady
    <2>2. CASE j = Len(l) + 1 /\ i = Len(l) + 1
      BY <1>1, <2>2 DEF Logged
    <2>3. CASE j = Len(l) + 1 /\ i =< Len(l)
      <3>1. i \in 1..Len(l) /\ Len(l) \in 1..Len(l) /\ l # <<>>
        BY <1>1, <2>3, NotEmpty
      <3>2. l[i].tm =< l[Len(l)].tm /\ l[Len(l)].tm =< e.tm
        BY <1>1, <3>1 DEF Steady
      <3>3. e.tm \in Nat
        BY DEF Logged
      <3>4. QED
        BY <1>1, <2>3, <3>1, <3>2, <3>3
    <2>4. QED
      BY <1>1, <2>1, <2>2, <2>3
  <1>3. QED
    BY <1>1, <1>2 DEF Steady
-----------------------------------------------------------------------------
LEMMA InitTime == Init => TimeInv
  <1> SUFFICES ASSUME Init PROVE TimeInv
    OBVIOUS
  <1>1. Typed
    BY InitTyped
  <1>2. BufChained /\ FileChained /\ ParserInStep /\ MissedInFile /\ Steady(log)
    BY DEF Init, BufChained, FileChained, ParserInStep, MissedInFile, Steady
  <1>3. PointsKeepTheirTime
    BY DEF Init, PointsKeepTheirTime
  <1>4. QED
    BY <1>1, <1>2, <1>3 DEF TimeInv

(* Recording: the page that is being filled goes on with the next event.     *)
LEMMA PushTime ==
  ASSUME TimeInv, NEW type \in Type, NEW ord \in OrdId, NEW start \in 0..MaxEvents,
         NEW now \in Now, PushEvent(type, ord, start, now)
  PROVE  /\ BufChained' /\ FileChained' /\ ParserInStep' /\ PointsKeepTheirTime'
         /\ MissedInFile' /\ (ClockIsSteady' => Steady(log'))
  <1> DEFINE first == start_timestamp = 0
             logged   == [type |-> type, tm |-> now, start |-> start]
             recorded == [type |-> type, ord |-> ord, no |-> Len(log) + 1,
                          dif |-> IF first THEN 0 ELSE (now - prev_tm) % ClockMod]
  <1>1. /\ Typed /\ log \in Seq(Logged) /\ buf \in Seq(Recorded)
        /\ Len(log) \in Nat /\ Len(buf) \in Nat /\ Len(buf) =< Len(log)
        /\ start_timestamp \in Nat
    BY NotEmpty DEF TimeInv, Typed, LogTyped, LocalTyped, BufChained
  <1>2. /\ log' = Append(log, logged) /\ buf' = Append(buf, recorded)
        /\ phase = "record" /\ prev_tm' = now
        /\ start_timestamp' = IF first THEN now ELSE start_timestamp
        /\ UNCHANGED <<stream, phase, event_buf, missed_events, pageNo, eventNo, cur_tm,
                       zero_diff_cnt, trace>>
    BY DEF PushEvent, readVars, parseVars
  <1>3. logged \in Logged /\ logged.tm = now /\ now # 0
    BY <1>1, Constants DEF Logged, Now
  <1>4. recorded.no = Len(log) + 1 /\ (~first => recorded.dif = (now - prev_tm) % ClockMod)
    OBVIOUS
  <1> HIDE DEF logged, recorded
  <1>5. /\ Len(log') = Len(log) + 1 /\ log'[Len(log) + 1].tm = now
        /\ \A i \in 1..Len(log) : log'[i] = log[i]
    BY <1>1, <1>2, <1>3, Appended
  <1>6. /\ Len(buf') = Len(buf) + 1 /\ buf'[Len(buf) + 1] = recorded
        /\ \A i \in 1..Len(buf) : buf'[i] = buf[i]
    BY <1>1, <1>2, Appended
  <1>7. buf' # <<>> /\ log' # <<>>
    <2>1. Len(buf') # 0 /\ Len(log') # 0
      BY <1>1, <1>5, <1>6
    <2>2. QED
      BY <2>1
  <1>8. BufChained'
    <2>1. start_timestamp' # 0
      BY <1>2, <1>3
    <2>2. CASE first
      <3>1. Len(buf) = 0 /\ start_timestamp' = now
        BY <1>1, <1>2, <2>2, NotEmpty DEF TimeInv, BufChained
      <3>2. Len(log') - Len(buf') = Len(log) /\ Len(buf') = 1 /\ buf'[1] = recorded
        BY <1>1, <1>5, <1>6, <3>1
      <3>3. Follows(log', Len(log), buf')
        BY <1>1, <1>4, <1>5, <3>2 DEF Follows
      <3>4. QED
        BY <1>1, <1>2, <1>5, <1>7, <2>1, <3>1, <3>2, <3>3 DEF BufChained
    <2>3. CASE ~first
      <3> DEFINE b == Len(log) - Len(buf)
      <3>1. buf # <<>> /\ Follows(log, b, buf) /\ start_timestamp = log[b + 1].tm
        BY <2>3 DEF TimeInv, BufChained
      <3>2. b \in Nat /\ Len(buf) > 0 /\ b + Len(buf) = Len(log)
        BY <1>1, <3>1, NotEmpty
      <3>3. prev_tm = log[Len(log)].tm
        BY <1>1, <3>2, NotEmpty DEF TimeInv, BufChained
      <3>4. Len(log') - Len(buf') = b /\ b + Len(buf') = Len(log')
        BY <1>1, <1>5, <1>6, <3>2
      <3>5. Follows(log', b, buf)
        BY <1>1, <1>2, <3>1, FollowsGrows
      <3>6. \A i \in 1..Len(buf') : buf'[i].no = b + i
        <4> HIDE DEF b
        <4>1. ASSUME NEW i \in 1..Len(buf) PROVE buf'[i].no = b + i
          BY <1>6, <3>5 DEF Follows
        <4>2. buf'[Len(buf) + 1].no = b + (Len(buf) + 1)
          <5>1. b + (Len(buf) + 1) = Len(log) + 1
            BY <1>1, <3>2
          <5>2. QED
            BY <1>4, <1>6, <5>1
        <4>3. QED
          BY <1>1, <1>6, <4>1, <4>2
      <3>7. ASSUME NEW i \in 2..Len(buf')
            PROVE  buf'[i].dif = (log'[b + i].tm - log'[b + i - 1].tm) % ClockMod
        <4>1. CASE i \in 2..Len(buf)
          <5> HIDE DEF b
          <5>1. buf'[i] = buf[i]
            BY <1>1, <1>6, <4>1
          <5>2. QED
            BY <3>5, <4>1, <5>1 DEF Follows
        <4>2. CASE i = Len(buf) + 1
          <5>1. b + i = Len(log) + 1 /\ b + i - 1 = Len(log) /\ Len(log) \in 1..Len(log)
            BY <1>1, <3>2, <4>2
          <5>2. QED
            BY <1>4, <1>5, <1>6, <2>3, <3>3, <4>2, <5>1
        <4>3. QED
          BY <1>1, <1>6, <4>1, <4>2
      <3>8. Follows(log', b, buf')
        BY <1>1, <1>6, <3>2, <3>4, <3>6, <3>7 DEF Follows
      <3>9. start_timestamp' = log'[b + 1].tm
        <4>1. b + 1 \in 1..Len(log)
          BY <1>1, <3>2
        <4>2. QED
          BY <1>2, <1>5, <2>3, <3>1, <4>1
      <3> HIDE DEF b
      <3>10. Len(buf') =< Len(log') /\ prev_tm' = log'[Len(log')].tm
        BY <1>1, <1>2, <1>5, <1>6
      <3>11. QED
        BY <1>7, <2>1, <3>4, <3>8, <3>9, <3>10 DEF BufChained
    <2>4. QED
      BY <2>2, <2>3
  <1>9. FileChained'
    <2>1. ASSUME NEW i \in 1..Len(stream)
          PROVE  Chained(log', stream[i].events, stream[i].header)
      <3>1. stream[i].events \in Seq(Recorded)
        <4>1. stream[i] \in Packets
          BY <1>1, ElementTyped DEF Typed, FileTyped
        <4>2. QED
          BY <4>1 DEF Packets
      <3>2. QED
        BY <1>1, <1>2, <3>1, ChainedGrows DEF TimeInv, FileChained
    <2>2. event_buf = <<>>
      BY <1>2 DEF TimeInv, ParserInStep
    <2>3. QED
      BY <1>2, <2>1, <2>2 DEF FileChained
  <1>10. ParserInStep'
    <2>1. pageNo = 0 /\ eventNo = 0 /\ trace = {} /\ event_buf = <<>> /\ missed_events = {}
      BY <1>2 DEF TimeInv, ParserInStep
    <2>2. QED
      BY <1>2, <2>1 DEF ParserInStep
  <1>11. PointsKeepTheirTime' /\ MissedInFile'
    <2>1. trace' = {} /\ missed_events' = {}
      BY <1>2 DEF TimeInv, ParserInStep
    <2>2. QED
      BY <2>1 DEF PointsKeepTheirTime, MissedInFile
  <1>12. ASSUME ClockIsSteady' PROVE Steady(log')
    <2>1. \A i \in 2..Len(log) : log[i - 1].tm =< log[i].tm
      <3>1. \A i \in 2..Len(log) : i \in 2..Len(log') /\ i \in 1..Len(log) /\ i - 1 \in 1..Len(log)
        BY <1>1, <1>5
      <3>2. QED
        BY <1>5, <1>12, <3>1 DEF ClockIsSteady
    <2>2. Steady(log)
      BY <2>1 DEF TimeInv, ClockIsSteady
    <2>3. ASSUME log # <<>> PROVE log[Len(log)].tm =< now
      <3>1. /\ Len(log) \in 1..Len(log) /\ (Len(log) + 1) - 1 = Len(log)
            /\ Len(log) + 1 \in 2..Len(log')
        BY <1>1, <1>5, <2>3, NotEmpty
      <3>2. log'[(Len(log) + 1) - 1].tm =< log'[Len(log) + 1].tm
        BY <1>12, <3>1 DEF ClockIsSteady
      <3>3. QED
        BY <1>5, <3>1, <3>2
    <2>4. QED
      BY <1>1, <1>2, <1>3, <2>2, <2>3, SteadyGrows
  <1>13. QED
    BY <1>8, <1>9, <1>10, <1>11, <1>12
-----------------------------------------------------------------------------
LEMMA EventTime ==
  ASSUME TimeInv,
         \/ \E now \in Now : event_instant(now) \/ event_range_start(now)
         \/ \E now \in Now, guard \in guards : event_range_end(guard, now)
  PROVE  TimeInv'
  <1>1. Typed /\ Typed'
    BY EventTyped DEF TimeInv
  <1> DEFINE Pushed == \E type \in Type, ord \in OrdId, start \in 0..MaxEvents, now \in Now :
                         PushEvent(type, ord, start, now)
  <1>2. Pushed
    <2>1. 0 \in OrdId /\ 0 \in 0..MaxEvents /\ last_range_ord_id \in OrdId
      BY <1>1, Constants, TraceTyped DEF Typed, LocalTyped
    <2>2. \A guard \in guards : guard.ord \in OrdId /\ guard.no \in 0..MaxEvents
      BY <1>1 DEF Typed, LogTyped
    <2>3. ASSUME NEW now \in Now, event_instant(now) PROVE Pushed
      BY <2>1, <2>3 DEF event_instant, Type
    <2>4. ASSUME NEW now \in Now, event_range_start(now) PROVE Pushed
      BY <2>1, <2>4 DEF event_range_start, NewRangeOrdId, Type
    <2>5. ASSUME NEW now \in Now, NEW guard \in guards, event_range_end(guard, now)
          PROVE Pushed
      BY <2>2, <2>5 DEF event_range_end, Type
    <2>6. QED
      BY <2>3, <2>4, <2>5
  <1>3. QED
    BY <1>1, <1>2, PushTime DEF TimeInv

(* The steps that leave the log, the trace and the parser alone.             *)
LEMMA Unmoved ==
  ASSUME TimeInv, UNCHANGED <<log, trace>>
  PROVE  PointsKeepTheirTime' /\ (ClockIsSteady' => Steady(log'))
  BY DEF TimeInv, PointsKeepTheirTime, ShownAt, ClockIsSteady

LEMMA FlushTime == ASSUME TimeInv, Flush PROVE TimeInv'
  <1> DEFINE packet(type) == [type |-> type,
                              header |-> [start |-> start_timestamp, end |-> prev_tm],
                              events |-> buf]
  <1>1. /\ buf # <<>> /\ buf' = <<>> /\ start_timestamp' = 0
        /\ UNCHANGED <<log, guards, prev_tm, phase, event_buf, missed_events, parseVars>>
    BY DEF Flush, StartAfterFlush, appVars, readVars
  <1>2. PICK type \in {"data", "failed"} : stream' = Append(stream, packet(type))
    BY DEF Flush, EndTimestamp
  <1>3. Typed /\ BufChained /\ Typed'
    BY FlushTyped DEF TimeInv
  <1>4. /\ buf \in Seq(Recorded) /\ stream \in Seq(Packets) /\ log \in Seq(Logged)
        /\ Len(buf) \in Nat /\ Len(log) \in Nat /\ Len(buf) # 0 /\ Len(buf) =< Len(log)
    BY <1>1, <1>3, NotEmpty DEF Typed, LocalTyped, FileTyped, LogTyped, BufChained
  <1>5. Chained(log, buf, [start |-> start_timestamp, end |-> prev_tm])
    <2>1. Len(log) - Len(buf) \in Nat /\ (Len(log) - Len(buf)) + Len(buf) = Len(log)
      BY <1>4
    <2>2. Follows(log, Len(log) - Len(buf), buf)
          /\ start_timestamp = log[(Len(log) - Len(buf)) + 1].tm
      BY <1>1, <1>3 DEF BufChained
    <2>3. log # <<>>
      BY <1>4, NotEmpty
    <2>4. prev_tm = log[(Len(log) - Len(buf)) + Len(buf)].tm
      BY <1>3, <2>1, <2>3 DEF BufChained
    <2>5. QED
      BY <2>1, <2>2, <2>4 DEF Chained
  <1>6. packet(type).events = buf
        /\ packet(type).header = [start |-> start_timestamp, end |-> prev_tm]
    OBVIOUS
  <1> HIDE DEF packet
  <1>7. FileChained'
    <2>1. /\ Len(stream') = Len(stream) + 1 /\ stream'[Len(stream) + 1] = packet(type)
          /\ \A i \in 1..Len(stream) : stream'[i] = stream[i]
      BY <1>2, <1>4, Appended
    <2>2. ASSUME NEW i \in 1..Len(stream')
          PROVE  Chained(log, stream'[i].events, stream'[i].header)
      <3>1. CASE i \in 1..Len(stream)
        <4>1. stream'[i] = stream[i]
          BY <2>1, <3>1
        <4>2. QED
          BY <3>1, <4>1 DEF TimeInv, FileChained
      <3>2. CASE i = Len(stream) + 1
        BY <1>5, <1>6, <2>1, <3>2
      <3>3. Len(stream) \in Nat
        BY <1>4, NotEmpty
      <3>4. QED
        BY <2>1, <3>1, <3>2, <3>3
    <2>3. QED
      BY <1>1, <2>2 DEF TimeInv, FileChained
  <1>8. BufChained'
    <2>1. Len(buf') = 0
      BY <1>1
    <2>2. QED
      BY <1>1, <1>3, <1>4, <2>1 DEF BufChained
  <1>9. ParserInStep' /\ MissedInFile'
    BY <1>1 DEF TimeInv, ParserInStep, FirstOfPage, MissedInFile, parseVars
  <1>10. PointsKeepTheirTime' /\ (ClockIsSteady' => Steady(log'))
    BY <1>1, Unmoved DEF parseVars
  <1>11. QED
    BY <1>3, <1>7, <1>8, <1>9, <1>10 DEF TimeInv

(* A page that is read was in the file.                                      *)
LEMMA ReadTime == ASSUME TimeInv, Close \/ ReadData \/ ReadFailed \/ ReadEnd PROVE TimeInv'
  <1>1. Typed /\ Typed'
    BY ReadTyped DEF TimeInv
  <1>2. UNCHANGED <<localVars, appVars, parseVars>>
    BY DEF Close, ReadData, ReadFailed, ReadEnd
  <1>3. BufChained'
    BY <1>2 DEF TimeInv, BufChained, localVars, appVars
  <1>4. PointsKeepTheirTime' /\ (ClockIsSteady' => Steady(log'))
    BY <1>2, Unmoved DEF appVars, parseVars
  <1>5. pageNo = 0 /\ eventNo = 0 /\ trace = {} /\ phase \in {"record", "decode"}
    BY DEF Close, ReadData, ReadFailed, ReadEnd, Packet, TimeInv, ParserInStep
  <1>6. phase' # "record" /\ (Close => phase' = "decode")
    BY DEF Close, ReadData, ReadFailed, ReadEnd, Packet
  <1>7. event_buf \in Seq(Page) /\ event_buf' \in Seq(Page) /\ stream \in Seq(Packets)
    BY <1>1 DEF Typed, FileTyped
  <1>8. ParserInStep'
    <2>1. pageNo' = 0 /\ eventNo' = 0 /\ trace' = {}
      BY <1>2, <1>5 DEF parseVars
    <2>2. Len(event_buf') \in Nat
      BY <1>7, NotEmpty
    <2>3. QED
      BY <1>6, <2>1, <2>2 DEF ParserInStep
  <1>9. FileChained' /\ MissedInFile'
    <2>1. CASE Close \/ ReadEnd
      <3>1. UNCHANGED <<log, stream, event_buf, missed_events>>
        BY <1>2, <2>1 DEF Close, ReadEnd, appVars, readVars
      <3>2. QED
        BY <3>1 DEF TimeInv, FileChained, MissedInFile
    <2>2. CASE ReadData \/ ReadFailed
      <3>1. stream # <<>> /\ stream' = Tail(stream) /\ log' = log
        BY <1>2, <2>2 DEF ReadData, ReadFailed, Packet, appVars
      <3>2. 1 \in 1..Len(stream)
        BY <1>7, <3>1
      <3>3. Chained(log, stream[1].events, stream[1].header)
        BY <3>2 DEF TimeInv, FileChained
      <3>4. \A i \in 1..Len(stream') : Chained(log, stream'[i].events, stream'[i].header)
        <4>1. \A i \in 1..Len(stream') : i + 1 \in 1..Len(stream) /\ stream'[i] = stream[i + 1]
          BY <1>7, <3>1
        <4>2. QED
          BY <4>1 DEF TimeInv, FileChained
      <3>5. CASE ReadData
        <4> DEFINE page == [header |-> stream[1].header, events |-> stream[1].events]
        <4>1. event_buf' = Append(event_buf, page) /\ missed_events' = missed_events
          BY <3>5 DEF ReadData
        <4>2. page.events = stream[1].events /\ page.header = stream[1].header
          OBVIOUS
        <4> HIDE DEF page
        <4>3. /\ Len(event_buf') = Len(event_buf) + 1 /\ event_buf'[Len(event_buf) + 1] = page
              /\ Len(event_buf) \in Nat
              /\ \A i \in 1..Len(event_buf) : event_buf'[i] = event_buf[i]
          BY <1>7, <4>1, Appended, NotEmpty
        <4>4. ASSUME NEW i \in 1..Len(event_buf')
              PROVE  Chained(log, event_buf'[i].events, event_buf'[i].header)
          <5>1. CASE i \in 1..Len(event_buf)
            <6>1. event_buf'[i] = event_buf[i]
              BY <4>3, <5>1
            <6>2. QED
              BY <5>1, <6>1 DEF TimeInv, FileChained
          <5>2. CASE i = Len(event_buf) + 1
            BY <3>3, <4>2, <4>3, <5>2
          <5>3. QED
            BY <4>3, <5>1, <5>2
        <4>5. QED
          BY <3>1, <3>4, <4>1, <4>4 DEF TimeInv, FileChained, MissedInFile
      <3>6. CASE ReadFailed
        <4> DEFINE events == stream[1].events
                   header == stream[1].header
                   m == [start |-> header.start, dur |-> (header.end - header.start) % ClockMod,
                         nos |-> {events[i].no : i \in 1..Len(events)}]
        <4>1. missed_events' = missed_events \cup {m} /\ event_buf' = event_buf
          BY <3>6 DEF ReadFailed
        <4>2. PICK b \in Nat : /\ Follows(log, b, events)
                               /\ header.start = log[b + 1].tm
                               /\ header.end = log[b + Len(events)].tm
          BY <3>3 DEF Chained
        <4>3. events \in Seq(Recorded)
          <5>1. stream[1] \in Packets
            BY <1>7, <3>2, ElementTyped
          <5>2. QED
            BY <5>1 DEF Packets
        <4>4. Len(events) \in Nat \ {0}
          BY <4>2, <4>3, NotEmpty DEF Follows
        <4>5. m.nos = (b + 1)..(b + Len(events))
          <5>1. \A i \in 1..Len(events) : events[i].no = b + i
            BY <4>2 DEF Follows
          <5>2. m.nos = {b + i : i \in 1..Len(events)}
            BY <5>1
          <5> HIDE DEF m, events
          <5>3. \A x \in (b + 1)..(b + Len(events)) : x - b \in 1..Len(events) /\ x = b + (x - b)
            BY <4>4
          <5>4. \A i \in 1..Len(events) : b + i \in (b + 1)..(b + Len(events))
            BY <4>4
          <5>5. QED
            BY <5>2, <5>3, <5>4
        <4>6. MissedAt(log, m, b, Len(events))
          BY <4>2, <4>4, <4>5 DEF MissedAt, Follows
        <4> HIDE DEF m, events, header
        <4>7. QED
          BY <3>1, <3>4, <4>1, <4>4, <4>6 DEF TimeInv, FileChained, MissedInFile
      <3>7. QED
        BY <2>2, <3>5, <3>6
    <2>3. QED
      BY <2>1, <2>2
  <1>10. QED
    BY <1>1, <1>3, <1>4, <1>8, <1>9 DEF TimeInv
-----------------------------------------------------------------------------
(* The event that is read next: its time comes out as it was recorded.       *)
LEMMA NextTime ==
  ASSUME TimeInv, phase = "parse", ~PageRead
  PROVE  /\ Event.no \in 1..Len(log) /\ TmAfter = log[Event.no].tm
         /\ Zero \in Nat /\ RunOf(log, FirstOfPage, Event.no, Zero)
         /\ ClockIsSteady => ~AddOverflows
  <1> DEFINE events == event_buf[pageNo].events
             header == event_buf[pageNo].header
             no == Event.no
  <1>1. /\ pageNo \in 1..Len(event_buf) /\ eventNo + 1 \in 1..Len(events)
        /\ events \in Seq(Recorded) /\ Event \in Recorded /\ Event = events[eventNo + 1]
        /\ eventNo \in Nat /\ zero_diff_cnt \in Nat
    BY CurrentEvent DEF TimeInv, Typed, ParserTyped, Event
  <1>2. PICK b \in Nat : /\ Follows(log, b, events)
                         /\ header.start = log[b + 1].tm /\ header.end = log[b + Len(events)].tm
    BY <1>1 DEF TimeInv, FileChained, Chained
  <1>3. /\ eventNo = 0 => cur_tm = header.start
        /\ eventNo > 0 => /\ cur_tm = log[events[eventNo].no].tm
                          /\ RunOf(log, FirstOfPage, events[eventNo].no, zero_diff_cnt)
    BY <1>1 DEF TimeInv, ParserInStep
  <1>4. log \in Seq(Logged) /\ Len(log) \in Nat /\ Len(events) \in Nat
    BY <1>1, NotEmpty DEF TimeInv, Typed, LogTyped
  <1>5. \A i \in 1..Len(log) : log[i].tm \in 0..(ClockMod - 1)
    <2>1. \A i \in 1..Len(log) : log[i] \in Logged
      BY <1>4, ElementTyped
    <2>2. QED
      BY <2>1, Constants DEF Logged
  <1>6. no = b + (eventNo + 1) /\ b + (eventNo + 1) \in 1..Len(log)
    <2>1. b + Len(events) =< Len(log) /\ no = b + (eventNo + 1)
      BY <1>1, <1>2 DEF Follows
    <2> HIDE DEF events, no
    <2>2. QED
      BY <1>1, <1>4, <2>1
  <1>7. ClockMod \in Nat \ {0}
    BY Constants
  <1> HIDE DEF events, header
  <1>8. CASE eventNo = 0
    <2>1. cur_tm = log[no].tm /\ Dif = 0 /\ Zero = 0
      BY <1>2, <1>3, <1>6, <1>8 DEF Dif, Zero
    <2>2. TmAfter = log[no].tm
      <3>1. log[no].tm + 0 = log[no].tm /\ log[no].tm % ClockMod = log[no].tm
        <4>1. PICK t \in 0..(ClockMod - 1) : t = log[no].tm
          BY <1>5, <1>6
        <4>2. t + 0 = t /\ t % ClockMod = t
          BY <1>7, <4>1, ModSmall
        <4>3. QED
          BY <4>1, <4>2
      <3>2. QED
        BY <2>1, <3>1 DEF TmAfter
    <2>3. SameTime(log, no, 0)
      BY <1>6 DEF SameTime
    <2>4. no - 0 \in FirstOfPage
      <3>1. no - 0 = no
        BY <1>6
      <3>2. QED
        BY <1>1, <1>8, <3>1 DEF FirstOfPage, events
    <2>5. ~AddOverflows
      BY <1>5, <1>6, <1>7, <2>1 DEF AddOverflows
    <2>6. QED
      BY <1>6, <2>1, <2>2, <2>3, <2>4, <2>5 DEF RunOf
  <1>9. CASE eventNo > 0
    <2> DEFINE last == b + eventNo
    <2>1. /\ events[eventNo].no = last /\ last \in 1..Len(log) /\ no = last + 1
          /\ no \in 1..Len(log)
      <3>1. eventNo \in 1..Len(events)
        BY <1>1, <1>4, <1>9
      <3>2. QED
        BY <1>2, <1>4, <1>6, <1>9, <3>1 DEF Follows
    <2>2. Event.dif = (log[no].tm - log[last].tm) % ClockMod
      <3>1. eventNo + 1 \in 2..Len(events)
        BY <1>1, <1>4, <1>9
      <3>2. b + (eventNo + 1) - 1 = last
        BY <1>1, <1>2
      <3>3. QED
        BY <1>1, <1>2, <1>6, <3>1, <3>2 DEF Follows
    <2>3. cur_tm = log[last].tm /\ RunOf(log, FirstOfPage, last, zero_diff_cnt)
          /\ Dif = Event.dif
      BY <1>3, <1>9, <2>1 DEF Dif
    <2> HIDE DEF last, no
    <2>4. log[no].tm \in 0..(ClockMod - 1) /\ log[last].tm \in 0..(ClockMod - 1)
      BY <1>5, <2>1
    <2>5. /\ TmAfter = log[no].tm /\ (Event.dif = 0 <=> log[last].tm = log[no].tm)
          /\ ClockIsSteady => ~AddOverflows
      <3>1. PICK t \in 0..(ClockMod - 1), u \in 0..(ClockMod - 1) :
              t = log[last].tm /\ u = log[no].tm
        BY <2>4
      <3>2. /\ (t + ((u - t) % ClockMod)) % ClockMod = u
            /\ (u - t) % ClockMod = 0 => t = u
            /\ t =< u => (u - t) % ClockMod = u - t
        BY <1>7, <3>1, AddsUp
      <3>3. TmAfter = u /\ (Event.dif = 0 <=> t = u)
        BY <2>2, <2>3, <3>1, <3>2 DEF TmAfter
      <3>4. ASSUME ClockIsSteady PROVE ~AddOverflows
        <4>1. t =< u
          BY <1>4, <2>1, <3>1, <3>4 DEF TimeInv, Steady
        <4>2. cur_tm + Dif = u /\ u < ClockMod
          <5>1. cur_tm = t /\ Dif = u - t
            BY <2>2, <2>3, <3>1, <3>2, <4>1
          <5>2. t + (u - t) = u /\ u < ClockMod
            BY <1>7, <3>1
          <5>3. QED
            BY <5>1, <5>2
        <4>3. QED
          BY <3>1, <4>2, <1>7 DEF AddOverflows
      <3>5. QED
        BY <3>1, <3>3, <3>4
    <2>6. CASE Event.dif = 0
      <3>1. Zero = zero_diff_cnt + 1
        BY <1>9, <2>6 DEF Zero
      <3>2. zero_diff_cnt + 1 \in 0..(no - 1)
        BY <1>1, <1>4, <2>1, <2>3 DEF RunOf, SameTime
      <3>3. ASSUME NEW j \in 1..(zero_diff_cnt + 1) PROVE log[no - j].tm = log[no].tm
        <4>1. CASE j = 1
          <5>1. no - j = last
            BY <1>4, <2>1, <4>1
          <5>2. QED
            BY <2>5, <2>6, <5>1
        <4>2. CASE j # 1
          <5>1. j - 1 \in 1..zero_diff_cnt /\ no - j = last - (j - 1)
            BY <1>1, <1>4, <2>1, <4>2
          <5>2. QED
            BY <2>3, <2>5, <2>6, <5>1 DEF RunOf, SameTime
        <4>3. QED
          BY <4>1, <4>2
      <3>4. SameTime(log, no, zero_diff_cnt + 1)
        BY <3>2, <3>3 DEF SameTime
      <3>5. /\ no - (zero_diff_cnt + 1) = last - zero_diff_cnt
            /\ no - (zero_diff_cnt + 1) - 1 = last - zero_diff_cnt - 1
        BY <1>1, <1>4, <2>1
      <3>6. RunOf(log, FirstOfPage, no, zero_diff_cnt + 1)
        BY <2>3, <2>5, <2>6, <3>4, <3>5 DEF RunOf
      <3>7. QED
        BY <1>1, <2>1, <2>5, <3>1, <3>6 DEF no
    <2>7. CASE Event.dif # 0
      <3>1. Zero = 0
        BY <2>7 DEF Zero
      <3>2. SameTime(log, no, 0)
        BY <1>4, <2>1 DEF SameTime
      <3>3. no - 0 - 1 = last /\ log[last].tm # log[no].tm
        BY <1>4, <2>1, <2>5, <2>7
      <3>4. RunOf(log, FirstOfPage, no, 0)
        BY <3>2, <3>3 DEF RunOf
      <3>5. QED
        BY <2>1, <2>5, <3>1, <3>4 DEF no
    <2>8. QED
      BY <2>6, <2>7
  <1>10. QED
    BY <1>1, <1>8, <1>9

LEMMA ProductsCommute == \A a, b \in Nat : a * b = b * a
  OBVIOUS

LEMMA ParseTime ==
  ASSUME TimeInv,
         BeginPage \/ ParseInstant \/ ParseRangeStart \/ ParseRangeEnd \/ OverflowPanic \/ Finish
  PROVE  TimeInv'
  <1>1. Typed /\ Typed'
    BY ParseTyped DEF TimeInv
  <1>2. /\ UNCHANGED <<localVars, appVars, stream, readVars>>
        /\ phase = "parse" /\ phase' \in {"parse", "done", "panicked"}
    BY DEF BeginPage, ParseInstant, ParseRangeStart, ParseRangeEnd, OverflowPanic, Finish,
           NextEvent
  <1>3. BufChained' /\ FileChained' /\ MissedInFile' /\ (ClockIsSteady' => Steady(log'))
    BY <1>2 DEF TimeInv, BufChained, FileChained, MissedInFile, ClockIsSteady, localVars,
                appVars, readVars
  <1>4. CASE OverflowPanic \/ Finish
    <2>1. UNCHANGED parseVars
      BY <1>4 DEF OverflowPanic, Finish
    <2>2. ParserInStep' /\ PointsKeepTheirTime'
      BY <1>2, <2>1 DEF TimeInv, ParserInStep, FirstOfPage, PointsKeepTheirTime, ShownAt,
                        parseVars, readVars, appVars
    <2>3. QED
      BY <1>1, <1>3, <2>2 DEF TimeInv
  <1>5. CASE BeginPage
    <2>1. /\ pageNo < Len(event_buf) /\ pageNo' = pageNo + 1 /\ eventNo' = 0
          /\ cur_tm' = event_buf[pageNo + 1].header.start
          /\ UNCHANGED <<log, event_buf, trace>>
      BY <1>2, <1>5 DEF BeginPage, appVars, readVars
    <2>2. /\ pageNo' \in 1..Len(event_buf)
          /\ Len(event_buf[pageNo + 1].events) \in Nat
      <3>1. /\ event_buf \in Seq(Page) /\ Len(event_buf) \in Nat /\ pageNo \in Nat
            /\ pageNo + 1 \in 1..Len(event_buf)
        BY <1>1, <2>1, NotEmpty DEF Typed, FileTyped, ParserTyped
      <3>2. event_buf[pageNo + 1] \in Page
        BY <3>1, ElementTyped
      <3>3. event_buf[pageNo + 1].events \in Seq(Recorded)
        BY <3>2 DEF Page
      <3>4. QED
        BY <2>1, <3>1, <3>3, NotEmpty
    <2>3. ParserInStep'
      BY <1>2, <2>1, <2>2 DEF ParserInStep
    <2>4. PointsKeepTheirTime'
      BY <2>1 DEF TimeInv, PointsKeepTheirTime, ShownAt
    <2>5. QED
      BY <1>1, <1>3, <2>3, <2>4 DEF TimeInv
  <1>6. CASE ParseInstant \/ ParseRangeStart \/ ParseRangeEnd
    <2>1. /\ ~PageRead /\ eventNo' = eventNo + 1 /\ cur_tm' = TmAfter /\ zero_diff_cnt' = Zero
          /\ UNCHANGED <<log, event_buf, pageNo>>
      BY <1>2, <1>6 DEF ParseInstant, ParseRangeStart, ParseRangeEnd, NextEvent, appVars, readVars
    <2>2. /\ Event.no \in 1..Len(log) /\ TmAfter = log[Event.no].tm
          /\ Zero \in Nat /\ RunOf(log, FirstOfPage, Event.no, Zero)
      BY <1>2, <2>1, NextTime
    <2>3. /\ pageNo \in 1..Len(event_buf) /\ eventNo + 1 \in 1..Len(event_buf[pageNo].events)
          /\ event_buf[pageNo].events \in Seq(Recorded) /\ eventNo \in Nat
          /\ Event = event_buf[pageNo].events[eventNo + 1]
      BY <1>2, <2>1, CurrentEvent DEF TimeInv, Typed, ParserTyped, Event
    <2>4. ParserInStep'
      <3>1. /\ Len(event_buf[pageNo].events) \in Nat /\ Len(event_buf) \in Nat
            /\ eventNo + 1 =< Len(event_buf[pageNo].events) /\ eventNo + 1 > 0
            /\ eventNo + 1 # 0 /\ pageNo > 0 /\ pageNo # 0 /\ pageNo =< Len(event_buf)
        BY <1>1, <2>3, NotEmpty DEF Typed, FileTyped
      <3>2. QED
        BY <1>2, <2>1, <2>2, <2>3, <3>1 DEF ParserInStep, FirstOfPage
    <2>5. PointsKeepTheirTime'
      <3>1. CASE ParseInstant
        <4>1. trace' = trace \cup {[type |-> "point", no |-> Event.no, at |-> Timestamp]}
          BY <3>1 DEF ParseInstant, add_point_event
        <4>2. Timestamp = ToNs(log[Event.no].tm) + Zero * Offset
          <5>1. Offset * Zero = Zero * Offset
            BY <2>2, Constants, ProductsCommute
          <5>2. QED
            BY <2>2, <5>1 DEF Timestamp
        <4>3. ShownAt(Event.no, Timestamp)
          BY <2>2, <4>2 DEF ShownAt, RunOf, SameTime
        <4>4. ASSUME NEW p \in trace', p.type = "point" PROVE ShownAt(p.no, p.at)
          BY <4>1, <4>3, <4>4 DEF TimeInv, PointsKeepTheirTime
        <4>5. QED
          BY <2>1, <4>4 DEF PointsKeepTheirTime, ShownAt
      <3>2. CASE ParseRangeStart \/ ParseRangeEnd
        <4>1. ASSUME NEW p \in trace', p.type = "point" PROVE p \in trace
          BY <3>2, <4>1 DEF ParseRangeStart, ParseRangeEnd, add_range_event
        <4>2. QED
          BY <2>1, <4>1 DEF TimeInv, PointsKeepTheirTime, ShownAt
      <3>3. QED
        BY <1>6, <3>1, <3>2
    <2>6. QED
      BY <1>1, <1>3, <2>4, <2>5 DEF TimeInv
  <1>7. QED
    BY <1>4, <1>5, <1>6
-----------------------------------------------------------------------------
LEMMA NextKeepsTime == TimeInv /\ [Next]_vars => TimeInv'
  <1> SUFFICES ASSUME TimeInv, [Next]_vars PROVE TimeInv'
    OBVIOUS
  <1>1. CASE \/ \E now \in Now : event_instant(now) \/ event_range_start(now)
             \/ \E now \in Now, guard \in guards : event_range_end(guard, now)
    BY <1>1, EventTime
  <1>2. CASE Flush
    BY <1>2, FlushTime
  <1>3. CASE Close \/ ReadData \/ ReadFailed \/ ReadEnd
    BY <1>3, ReadTime
  <1>4. CASE BeginPage \/ ParseInstant \/ ParseRangeStart \/ ParseRangeEnd \/ OverflowPanic
             \/ Finish
    BY <1>4, ParseTime
  <1>5. CASE UNCHANGED vars
    <2>1. UNCHANGED <<log, guards, prev_tm, start_timestamp, last_range_ord_id, buf, stream, phase,
                      event_buf, missed_events, pageNo, eventNo, cur_tm, zero_diff_cnt,
                      cur_started_ranges, trace>>
      BY <1>5 DEF vars, localVars, appVars, readVars, parseVars
    <2>2. Typed'
      BY <2>1 DEF TimeInv, Typed, LogTyped, LocalTyped, FileTyped, ParserTyped
    <2>3. BufChained' /\ FileChained' /\ ParserInStep' /\ MissedInFile'
      BY <2>1 DEF TimeInv, BufChained, FileChained, ParserInStep, FirstOfPage, MissedInFile
    <2>4. PointsKeepTheirTime' /\ (ClockIsSteady' => Steady(log'))
      BY <2>1, Unmoved
    <2>5. QED
      BY <2>2, <2>3, <2>4 DEF TimeInv
  <1>6. QED
    BY <1>1, <1>2, <1>3, <1>4, <1>5 DEF Next, Ended

THEOREM TimeInvariant == Spec => []TimeInv
  <1>1. QED
    BY InitTime, NextKeepsTime, PTL DEF Spec

(* Every variable has its type: in particular neither the clock that the     *)
(* parser counts nor the duration it reports leaves its range.               *)
THEOREM TypeCorrect == Spec => []TypeOK
  <1>1. TimeInv => TypeOK
    BY TypedIsTypeOK DEF TimeInv
  <1>2. QED
    BY <1>1, TimeInvariant, PTL

(* Each point is shown at the time at which its event was recorded, however  *)
(* long the recording, however it was cut into pages, whichever of them were *)
(* dropped, and wherever the clock stepped back.                             *)
THEOREM PointsKeepTime == Spec => []PointsKeepTheirTime
  <1>1. TimeInv => PointsKeepTheirTime
    BY DEF TimeInv
  <1>2. QED
    BY <1>1, TimeInvariant, PTL

(* While the clock is steady, the time span reported for a dropped page has  *)
(* all the page's events in it and no event of another one inside it.        *)
THEOREM LossReported == Spec => []LossIsReported
  <1>1. ASSUME TimeInv, ClockIsSteady, NEW m \in missed_events
        PROVE  /\ \A no \in m.nos : m.start =< log[no].tm /\ log[no].tm =< m.start + m.dur
               /\ \A no \in (1..Len(log)) \ m.nos :
                    log[no].tm =< m.start \/ m.start + m.dur =< log[no].tm
    <2>1. PICK b \in Nat, n \in Nat : MissedAt(log, m, b, n)
      BY <1>1 DEF TimeInv, MissedInFile
    <2>2. log \in Seq(Logged) /\ Len(log) \in Nat /\ Steady(log)
      BY <1>1, NotEmpty DEF TimeInv, Typed, LogTyped
    <2>3. \A i \in 1..Len(log) : log[i].tm \in 0..(ClockMod - 1)
      <3>1. \A i \in 1..Len(log) : log[i] \in Logged
        BY <2>2, ElementTyped
      <3>2. QED
        BY <3>1, Constants DEF Logged
    <2> DEFINE first == b + 1
               last  == b + n
    <2>4. first \in 1..Len(log) /\ last \in 1..Len(log) /\ first =< last /\ m.nos = first..last
          /\ m.start = log[first].tm /\ m.dur = (log[last].tm - log[first].tm) % ClockMod
      BY <2>1, <2>2 DEF MissedAt
    <2> HIDE DEF first, last
    <2>5. log[first].tm =< log[last].tm
          /\ log[first].tm \in 0..(ClockMod - 1) /\ log[last].tm \in 0..(ClockMod - 1)
      BY <2>2, <2>3, <2>4 DEF Steady
    <2>6. m.dur = log[last].tm - log[first].tm
      <3>1. PICK t \in 0..(ClockMod - 1), u \in 0..(ClockMod - 1) :
              t = log[first].tm /\ u = log[last].tm /\ t =< u
        BY <2>5
      <3>2. (u - t) % ClockMod = u - t
        <4>1. ClockMod \in Nat \ {0}
          BY Constants
        <4>2. QED
          BY <3>1, <4>1, AddsUp
      <3>3. QED
        BY <2>4, <3>1, <3>2
    <2>7. m.start + m.dur = log[last].tm
      BY <2>4, <2>5, <2>6
    <2>8. ASSUME NEW no \in m.nos PROVE log[first].tm =< log[no].tm /\ log[no].tm =< log[last].tm
      <3>1. no \in 1..Len(log) /\ first =< no /\ no =< last
        BY <2>2, <2>4
      <3>2. QED
        BY <2>2, <2>4, <3>1 DEF Steady
    <2>9. ASSUME NEW no \in (1..Len(log)) \ m.nos
          PROVE  log[no].tm =< log[first].tm \/ log[last].tm =< log[no].tm
      <3>1. no \in 1..Len(log) /\ (no =< first \/ last =< no)
        BY <2>2, <2>4
      <3>2. QED
        BY <2>2, <2>4, <3>1 DEF Steady
    <2>10. QED
      BY <2>4, <2>7, <2>8, <2>9
  <1>2. TimeInv => LossIsReported
    BY <1>1 DEF LossIsReported
  <1>3. QED
    BY <1>2, TimeInvariant, PTL
-----------------------------------------------------------------------------
(***************************************************************************)
(* Ord ids.  An end has the ord id of its start, and a start the number of *)
(* the starts before it, modulo OrdMod.                                    *)
(***************************************************************************)
StartsBelow(l, no) == {i \in 1..Len(l) : i < no /\ l[i].type = "RangeStart"}

OrdIn(l, no) == Cardinality(StartsBelow(l, no)) % OrdMod

EventFits(l, e) ==
  /\ e.no \in 1..Len(l) /\ e.type = l[e.no].type
  /\ e.type = "RangeStart" => e.ord = OrdIn(l, e.no)
  /\ e.type = "RangeEnd" => e.ord = OrdIn(l, l[e.no].start)

AllFit(l, events) == \A i \in 1..Len(events) : EventFits(l, events[i])

PagesFit ==
  /\ AllFit(log, buf)
  /\ \A i \in 1..Len(stream) : AllFit(log, stream[i].events)
  /\ \A i \in 1..Len(event_buf) : AllFit(log, event_buf[i].events)

(* Every end belongs to a start before it, and no two belong to one start.   *)
EndsPaired(l) ==
  /\ \A e \in 1..Len(l) : l[e].type = "RangeEnd" =>
       l[e].start \in 1..(e - 1) /\ l[l[e].start].type = "RangeStart"
  /\ \A d, e \in 1..Len(l) : l[d].type = "RangeEnd" /\ l[e].type = "RangeEnd"
                             /\ l[d].start = l[e].start => d = e

(* A guard is that of a range that has not ended.                            *)
Open(l, g) ==
  /\ g.no \in 1..Len(l) /\ l[g.no].type = "RangeStart" /\ g.ord = OrdIn(l, g.no)
  /\ \A e \in 1..Len(l) : l[e].type = "RangeEnd" => l[e].start # g.no

OrdInv ==
  /\ last_range_ord_id = OrdIn(log, Len(log) + 1)
  /\ EndsPaired(log) /\ (\A g \in guards : Open(log, g))
  /\ PagesFit
-----------------------------------------------------------------------------
LEMMA StartsFinite ==
  ASSUME NEW l \in Seq(Logged), NEW no
  PROVE  IsFiniteSet(StartsBelow(l, no)) /\ Cardinality(StartsBelow(l, no)) \in Nat
  <1>1. IsFiniteSet(1..Len(l))
    BY NotEmpty, FS_Interval
  <1>2. StartsBelow(l, no) \subseteq 1..Len(l)
    BY DEF StartsBelow
  <1>3. QED
    BY <1>1, <1>2, FS_Subset, FS_CardinalityType

(* The ord ids of the events in the log do not change when it grows.         *)
LEMMA OrdStays ==
  ASSUME NEW l \in Seq(Logged), NEW e, NEW no \in 1..(Len(l) + 1)
  PROVE  OrdIn(Append(l, e), no) = OrdIn(l, no)
  <1>1. StartsBelow(Append(l, e), no) = StartsBelow(l, no)
    <2>1. /\ Len(Append(l, e)) = Len(l) + 1 /\ Len(l) \in Nat
          /\ \A i \in 1..Len(l) : Append(l, e)[i] = l[i]
      BY Appended, NotEmpty
    <2>2. \A i \in 1..(Len(l) + 1) : i < no => i \in 1..Len(l)
      BY <2>1
    <2>3. \A i \in 1..Len(l) : i \in 1..(Len(l) + 1)
      BY <2>1
    <2>4. QED
      BY <2>1, <2>2, <2>3 DEF StartsBelow
  <1>2. QED
    BY <1>1 DEF OrdIn

LEMMA ModUnique ==
  ASSUME NEW m \in Nat \ {0}, NEW q \in Nat, NEW r \in 0..(m - 1)
  PROVE  (q * m + r) % m = r
  OBVIOUS

LEMMA ModSuccessor ==
  ASSUME NEW m \in Nat \ {0}, NEW c \in Nat
  PROVE  ((c % m) + 1) % m = (c + 1) % m
  <1>1. PICK q \in Nat, r \in 0..(m - 1) : c = q * m + r /\ r = c % m
    <2>1. c \div m \in Nat /\ c % m \in 0..(m - 1)
      OBVIOUS
    <2>2. c = m * (c \div m) + (c % m) /\ m * (c \div m) = (c \div m) * m
      OBVIOUS
    <2>3. QED
      BY <2>1, <2>2
  <1>2. q * m \in Nat
    OBVIOUS
  <1>3. CASE r + 1 =< m - 1
    <2>1. r + 1 \in 0..(m - 1) /\ c + 1 = q * m + (r + 1)
      BY <1>1, <1>2, <1>3
    <2>2. (r + 1) % m = r + 1
      BY <2>1, ModSmall
    <2>3. (q * m + (r + 1)) % m = r + 1
      BY <2>1, ModUnique
    <2>4. QED
      BY <1>1, <2>1, <2>2, <2>3
  <1>4. CASE r + 1 = m
    <2>1. c + 1 = (q + 1) * m + 0 /\ 0 \in 0..(m - 1) /\ q + 1 \in Nat
      <3>1. (q + 1) * m = q * m + m
        OBVIOUS
      <3>2. QED
        BY <1>1, <1>2, <1>4, <3>1
    <2>2. ((q + 1) * m + 0) % m = 0
      BY <2>1, ModUnique
    <2>3. m % m = 0
      OBVIOUS
    <2>4. QED
      BY <1>1, <1>4, <2>1, <2>2, <2>3
  <1>5. QED
    BY <1>1, <1>3, <1>4

LEMMA OrdAfterStart ==
  ASSUME NEW l \in Seq(Logged), NEW e \in Logged
  PROVE  /\ e.type = "RangeStart" =>
              OrdIn(Append(l, e), Len(l) + 2) = (OrdIn(l, Len(l) + 1) + 1) % OrdMod
         /\ e.type # "RangeStart" => OrdIn(Append(l, e), Len(l) + 2) = OrdIn(l, Len(l) + 1)
  <1> DEFINE before == StartsBelow(l, Len(l) + 1)
             after  == StartsBelow(Append(l, e), Len(l) + 2)
  <1>1. /\ Len(Append(l, e)) = Len(l) + 1 /\ Len(l) \in Nat /\ Append(l, e)[Len(l) + 1] = e
        /\ \A i \in 1..Len(l) : Append(l, e)[i] = l[i]
    BY Appended, NotEmpty
  <1>2. \A i : i \in after <=> i \in before \/ (i = Len(l) + 1 /\ e.type = "RangeStart")
    <2>1. \A i \in 1..(Len(l) + 1) : i < Len(l) + 2 /\ (i \in 1..Len(l) \/ i = Len(l) + 1)
      BY <1>1
    <2>2. \A i \in 1..Len(l) : i \in 1..(Len(l) + 1) /\ i < Len(l) + 1
      BY <1>1
    <2>3. Len(l) + 1 \in 1..(Len(l) + 1) /\ Len(l) + 1 \notin 1..Len(l)
      BY <1>1
    <2>4. QED
      BY <1>1, <2>1, <2>2, <2>3 DEF StartsBelow
  <1>3. Len(l) + 1 \notin before
    BY <1>1 DEF StartsBelow
  <1>4. IsFiniteSet(before) /\ Cardinality(before) \in Nat
    BY StartsFinite
  <1> HIDE DEF before, after
  <1>5. ASSUME e.type = "RangeStart"
        PROVE  Cardinality(after) = Cardinality(before) + 1
    <2>1. after = before \cup {Len(l) + 1}
      BY <1>2, <1>5
    <2>2. QED
      BY <1>3, <1>4, <2>1, FS_AddElement
  <1>6. ASSUME e.type # "RangeStart" PROVE after = before
    BY <1>2, <1>6
  <1>7. ((Cardinality(before) % OrdMod) + 1) % OrdMod = (Cardinality(before) + 1) % OrdMod
    BY <1>4, Constants, ModSuccessor
  <1>8. QED
    BY <1>5, <1>6, <1>7 DEF OrdIn, before, after

(* Where no more than OrdMod ranges start, each has an ord id of its own.    *)
LEMMA OrdsApart ==
  ASSUME NEW l \in Seq(Logged), NEW s \in 1..Len(l), NEW t \in 1..Len(l), s < t,
         l[s].type = "RangeStart", l[t].type = "RangeStart",
         Cardinality(StartsBelow(l, Len(l) + 1)) =< OrdMod
  PROVE  OrdIn(l, s) # OrdIn(l, t)
  <1> DEFINE below(i) == StartsBelow(l, i)
  <1>0. Len(l) \in Nat
    BY NotEmpty
  <1>1. \A i : IsFiniteSet(below(i)) /\ Cardinality(below(i)) \in Nat
    BY StartsFinite
  <1>2. s \notin below(s) /\ below(s) \cup {s} \subseteq below(t)
    BY <1>0 DEF StartsBelow
  <1>3. t \notin below(t) /\ below(t) \cup {t} \subseteq below(Len(l) + 1)
    BY <1>0 DEF StartsBelow
  <1> HIDE DEF below
  <1>4. Cardinality(below(s)) + 1 =< Cardinality(below(t))
    <2>1. Cardinality(below(s) \cup {s}) = Cardinality(below(s)) + 1
      BY <1>1, <1>2, FS_AddElement
    <2>2. QED
      BY <1>1, <1>2, <2>1, FS_Subset
  <1>5. Cardinality(below(t)) + 1 =< Cardinality(below(Len(l) + 1))
    <2>1. Cardinality(below(t) \cup {t}) = Cardinality(below(t)) + 1
      BY <1>1, <1>3, FS_AddElement
    <2>2. QED
      BY <1>1, <1>3, <2>1, FS_Subset
  <1>6. PICK c \in 0..(OrdMod - 1), d \in 0..(OrdMod - 1) :
          c = Cardinality(below(s)) /\ d = Cardinality(below(t)) /\ c # d
    <2>1. Cardinality(below(Len(l) + 1)) =< OrdMod
      BY DEF below
    <2>2. QED
      BY <1>1, <1>4, <1>5, <2>1, Constants
  <1>7. c % OrdMod = c /\ d % OrdMod = d
    BY <1>6, Constants, ModSmall
  <1>8. QED
    BY <1>6, <1>7 DEF OrdIn, below
-----------------------------------------------------------------------------
LEMMA FitsGrows ==
  ASSUME NEW l \in Seq(Logged), NEW e, NEW events, AllFit(l, events), EndsPaired(l)
  PROVE  AllFit(Append(l, e), events)
  <1>1. /\ Len(Append(l, e)) = Len(l) + 1 /\ Len(l) \in Nat
        /\ \A i \in 1..Len(l) : Append(l, e)[i] = l[i] /\ i \in 1..(Len(l) + 1)
    BY Appended, NotEmpty
  <1>2. ASSUME NEW i \in 1..Len(events) PROVE EventFits(Append(l, e), events[i])
    <2> DEFINE event == events[i]
    <2>1. EventFits(l, event)
      BY DEF AllFit
    <2> HIDE DEF event
    <2>2. event.no \in 1..Len(l) /\ event.no \in 1..(Len(l) + 1)
      BY <1>1, <2>1 DEF EventFits
    <2>3. OrdIn(Append(l, e), event.no) = OrdIn(l, event.no)
      BY <2>2, OrdStays
    <2>4. ASSUME event.type = "RangeEnd"
          PROVE  OrdIn(Append(l, e), l[event.no].start) = OrdIn(l, l[event.no].start)
      <3>1. l[event.no].start \in 1..(event.no - 1)
        BY <2>1, <2>2, <2>4 DEF EventFits, EndsPaired
      <3>2. l[event.no].start \in 1..(Len(l) + 1)
        BY <1>1, <2>2, <3>1
      <3>3. QED
        BY <3>2, OrdStays
    <2>5. EventFits(Append(l, e), event)
      BY <1>1, <2>1, <2>2, <2>3, <2>4 DEF EventFits
    <2>6. QED
      BY <2>5 DEF event
  <1>3. QED
    BY <1>2 DEF AllFit

LEMMA InitOrd == Init => OrdInv
  <1> SUFFICES ASSUME Init PROVE OrdInv
    OBVIOUS
  <1>1. log = <<>> /\ guards = {} /\ last_range_ord_id = 0 /\ buf = <<>> /\ stream = <<>>
        /\ event_buf = <<>>
    BY DEF Init
  <1>2. PagesFit /\ EndsPaired(log)
    BY <1>1 DEF PagesFit, AllFit, EndsPaired
  <1>3. OrdIn(log, Len(log) + 1) = 0
    <2>1. StartsBelow(log, Len(log) + 1) = {}
      BY <1>1 DEF StartsBelow
    <2>2. 0 \in 0..(OrdMod - 1) /\ OrdMod \in Nat \ {0}
      BY Constants
    <2>3. 0 % OrdMod = 0
      BY <2>2, ModSmall
    <2>4. QED
      BY <2>1, <2>3, FS_EmptySet DEF OrdIn
  <1>4. QED
    BY <1>1, <1>2, <1>3 DEF OrdInv

(* An event that is pushed with the ord id that belongs to it.               *)
LEMMA PushOrd ==
  ASSUME TimeInv, OrdInv, NEW type \in Type, NEW ord \in OrdId, NEW start \in 0..MaxEvents,
         NEW now \in Now, PushEvent(type, ord, start, now),
         type = "RangeStart" => ord = OrdIn(log, Len(log) + 1),
         type = "RangeEnd" => Open(log, [ord |-> ord, no |-> start])
  PROVE  /\ EndsPaired(log') /\ PagesFit'
         /\ OrdIn(log', Len(log') + 1) =
              IF type = "RangeStart" THEN (last_range_ord_id + 1) % OrdMod
                                         ELSE last_range_ord_id
         /\ Len(log') = Len(log) + 1 /\ log'[Len(log) + 1].type = type
         /\ log'[Len(log) + 1].start = start
         /\ \A g \in guards : (type = "RangeEnd" => g.no # start) => Open(log', g)
         /\ type = "RangeStart" => Open(log', [ord |-> ord, no |-> Len(log) + 1])
  <1> DEFINE logged   == [type |-> type, tm |-> now, start |-> start]
             recorded == [type |-> type, ord |-> ord, no |-> Len(log) + 1,
                          dif |-> IF start_timestamp = 0 THEN 0 ELSE (now - prev_tm) % ClockMod]
             n == Len(log) + 1
  <1>1. log \in Seq(Logged) /\ buf \in Seq(Recorded) /\ Len(log) \in Nat /\ Len(buf) \in Nat
    BY NotEmpty DEF TimeInv, Typed, LogTyped, LocalTyped
  <1>2. /\ log' = Append(log, logged) /\ buf' = Append(buf, recorded)
        /\ UNCHANGED <<stream, event_buf>>
    BY DEF PushEvent, readVars
  <1>3. logged \in Logged /\ logged.type = type /\ logged.start = start
    BY DEF Logged, Now
  <1>4. recorded.no = n /\ recorded.type = type /\ recorded.ord = ord
    OBVIOUS
  <1> HIDE DEF logged, recorded
  <1>5. /\ Len(log') = n /\ log'[n] = logged /\ n \in 1..n
        /\ \A i \in 1..Len(log) : log'[i] = log[i] /\ i \in 1..n /\ i # n
        /\ \A i \in 1..n : i = n \/ i \in 1..Len(log)
    BY <1>1, <1>2, Appended
  <1>6. /\ Len(buf') = Len(buf) + 1 /\ buf'[Len(buf) + 1] = recorded
        /\ \A i \in 1..Len(buf) : buf'[i] = buf[i]
    BY <1>1, <1>2, Appended
  <1>7. \A i \in 1..n : OrdIn(log', i) = OrdIn(log, i)
    BY <1>1, <1>2, OrdStays
  <1>8. type = "RangeEnd" => /\ start \in 1..Len(log) /\ log[start].type = "RangeStart"
                             /\ ord = OrdIn(log, start)
                             /\ \A e \in 1..Len(log) : log[e].type = "RangeEnd" =>
                                  log[e].start # start
    BY DEF Open
  <1>9. EndsPaired(log) /\ PagesFit /\ last_range_ord_id = OrdIn(log, Len(log) + 1)
    BY DEF OrdInv
  <1>10. EndsPaired(log')
    <2>1. ASSUME NEW e \in 1..Len(log'), log'[e].type = "RangeEnd"
          PROVE  log'[e].start \in 1..(e - 1) /\ log'[log'[e].start].type = "RangeStart"
      <3>1. CASE e = n
        <4>1. log'[e].start = start /\ type = "RangeEnd"
          BY <1>3, <1>5, <2>1, <3>1
        <4>2. start \in 1..(n - 1) /\ log'[start] = log[start]
          BY <1>1, <1>5, <1>8, <4>1
        <4>3. QED
          BY <1>8, <3>1, <4>1, <4>2
      <3>2. CASE e \in 1..Len(log)
        <4>1. log'[e] = log[e] /\ log[e].type = "RangeEnd"
          BY <1>5, <2>1, <3>2
        <4>2. log[e].start \in 1..(e - 1) /\ log[log[e].start].type = "RangeStart"
          BY <1>9, <3>2, <4>1 DEF EndsPaired
        <4>3. log[e].start \in 1..Len(log)
          BY <1>1, <3>2, <4>2
        <4>4. QED
          BY <1>5, <4>1, <4>2, <4>3
      <3>3. QED
        BY <1>5, <3>1, <3>2
    <2>2. ASSUME NEW d \in 1..Len(log'), NEW e \in 1..Len(log'), log'[d].type = "RangeEnd",
                 log'[e].type = "RangeEnd", log'[d].start = log'[e].start
          PROVE  d = e
      <3>1. \A i \in 1..Len(log) : log'[i].type = "RangeEnd" /\ type = "RangeEnd" =>
              log'[i].start # start
        BY <1>5, <1>8
      <3>2. log'[n].type = type /\ log'[n].start = start
        BY <1>3, <1>5
      <3>3. CASE d \in 1..Len(log) /\ e \in 1..Len(log)
        <4>1. log'[d] = log[d] /\ log'[e] = log[e]
          BY <1>5, <3>3
        <4>2. QED
          BY <1>9, <2>2, <3>3, <4>1 DEF EndsPaired
      <3>4. CASE d = n \/ e = n
        BY <1>5, <2>2, <3>1, <3>2, <3>4
      <3>5. QED
        BY <1>5, <3>3, <3>4
    <2>3. QED
      BY <2>1, <2>2 DEF EndsPaired
  <1>11. EventFits(log', recorded)
    <2>1. n \in 1..Len(log') /\ log'[n].type = type
      BY <1>3, <1>5
    <2>2. type = "RangeStart" => ord = OrdIn(log', n)
      BY <1>5, <1>7
    <2>3. type = "RangeEnd" => ord = OrdIn(log', log'[n].start)
      BY <1>3, <1>5, <1>7, <1>8
    <2>4. QED
      BY <1>4, <2>1, <2>2, <2>3 DEF EventFits
  <1>12. PagesFit'
    <2>1. AllFit(log', buf)
      BY <1>1, <1>2, <1>9, FitsGrows DEF PagesFit
    <2>2. AllFit(log', buf')
      <3>1. ASSUME NEW i \in 1..Len(buf') PROVE EventFits(log', buf'[i])
        <4>1. CASE i \in 1..Len(buf)
          BY <1>6, <2>1, <4>1 DEF AllFit
        <4>2. CASE i = Len(buf) + 1
          BY <1>6, <1>11, <4>2
        <4>3. QED
          BY <1>1, <1>6, <4>1, <4>2
      <3>2. QED
        BY <3>1 DEF AllFit
    <2>3. /\ \A i \in 1..Len(stream) : AllFit(log', stream[i].events)
          /\ \A i \in 1..Len(event_buf) : AllFit(log', event_buf[i].events)
      BY <1>1, <1>2, <1>9, FitsGrows DEF PagesFit
    <2>4. QED
      BY <1>2, <2>2, <2>3 DEF PagesFit
  <1>13. OrdIn(log', Len(log') + 1) = IF type = "RangeStart" THEN (last_range_ord_id + 1) % OrdMod
                                      ELSE last_range_ord_id
    <2>1. Len(log') + 1 = Len(log) + 2
      BY <1>1, <1>5
    <2>2. QED
      BY <1>1, <1>2, <1>3, <1>9, <2>1, OrdAfterStart
  <1>14. ASSUME NEW g \in guards, type = "RangeEnd" => g.no # start
         PROVE  Open(log', g)
    <2>1. Open(log, g)
      BY DEF OrdInv
    <2>2. g.no \in 1..Len(log) /\ g.no \in 1..n /\ log'[g.no] = log[g.no]
          /\ OrdIn(log', g.no) = OrdIn(log, g.no)
      BY <1>5, <1>7, <2>1 DEF Open
    <2>3. ASSUME NEW e \in 1..Len(log'), log'[e].type = "RangeEnd" PROVE log'[e].start # g.no
      <3>1. CASE e = n
        BY <1>3, <1>5, <1>14, <2>3, <3>1
      <3>2. CASE e \in 1..Len(log)
        <4>1. log'[e] = log[e]
          BY <1>5, <3>2
        <4>2. QED
          BY <2>1, <2>3, <3>2, <4>1 DEF Open
      <3>3. QED
        BY <1>5, <3>1, <3>2
    <2>4. QED
      BY <1>5, <2>1, <2>2, <2>3 DEF Open
  <1>15. ASSUME type = "RangeStart" PROVE Open(log', [ord |-> ord, no |-> n])
    <2>1. n \in 1..Len(log') /\ log'[n].type = "RangeStart" /\ ord = OrdIn(log', n)
      BY <1>3, <1>5, <1>7, <1>15
    <2>2. ASSUME NEW e \in 1..Len(log'), log'[e].type = "RangeEnd" PROVE log'[e].start # n
      <3>1. log'[e].start \in 1..(e - 1)
        BY <1>10, <2>2 DEF EndsPaired
      <3>2. QED
        BY <1>1, <1>5, <3>1
    <2>3. QED
      BY <2>1, <2>2 DEF Open
  <1>16. QED
    BY <1>3, <1>5, <1>10, <1>12, <1>13, <1>14, <1>15
-----------------------------------------------------------------------------
LEMMA EventOrd ==
  ASSUME TimeInv, OrdInv,
         \/ \E now \in Now : event_instant(now) \/ event_range_start(now)
         \/ \E now \in Now, guard \in guards : event_range_end(guard, now)
  PROVE  OrdInv'
  <1>1. /\ 0 \in OrdId /\ 0 \in 0..MaxEvents /\ last_range_ord_id \in OrdId
        /\ guards \subseteq [ord : OrdId, no : 1..MaxEvents]
        /\ last_range_ord_id = OrdIn(log, Len(log) + 1) /\ \A g \in guards : Open(log, g)
    BY Constants, TraceTyped DEF TimeInv, Typed, LocalTyped, LogTyped, OrdInv
  <1>2. ASSUME NEW now \in Now, event_instant(now) PROVE OrdInv'
    <2>1. PushEvent("Instant", 0, 0, now) /\ UNCHANGED <<guards, last_range_ord_id>>
      BY <1>2 DEF event_instant
    <2>2. QED
      BY <1>1, <2>1, PushOrd DEF OrdInv, Type
  <1>3. ASSUME NEW now \in Now, event_range_start(now) PROVE OrdInv'
    <2> DEFINE guard == [ord |-> last_range_ord_id, no |-> Len(log) + 1]
    <2>1. /\ PushEvent("RangeStart", last_range_ord_id, 0, now)
          /\ guards' = guards \cup {guard}
          /\ last_range_ord_id' = (last_range_ord_id + 1) % OrdMod
      BY <1>3 DEF event_range_start, NewRangeOrdId, OrdIdAfter
    <2>2. /\ EndsPaired(log') /\ PagesFit' /\ Open(log', guard)
          /\ OrdIn(log', Len(log') + 1) = (last_range_ord_id + 1) % OrdMod
          /\ \A g \in guards : Open(log', g)
      BY <1>1, <2>1, PushOrd DEF Type
    <2> HIDE DEF guard
    <2>3. QED
      BY <2>1, <2>2 DEF OrdInv
  <1>4. ASSUME NEW now \in Now, NEW guard \in guards, event_range_end(guard, now) PROVE OrdInv'
    <2>1. /\ PushEvent("RangeEnd", guard.ord, guard.no, now)
          /\ guards' = guards \ {guard} /\ UNCHANGED last_range_ord_id
      BY <1>4 DEF event_range_end
    <2>2. /\ guard.ord \in OrdId /\ guard.no \in 0..MaxEvents
          /\ guard = [ord |-> guard.ord, no |-> guard.no] /\ Open(log, guard)
      BY <1>1
    <2>3. Open(log, [ord |-> guard.ord, no |-> guard.no])
      BY <2>2
    <2>4. /\ EndsPaired(log') /\ PagesFit'
          /\ OrdIn(log', Len(log') + 1) = last_range_ord_id
          /\ \A g \in guards : g.no # guard.no => Open(log', g)
      BY <2>1, <2>2, <2>3, PushOrd DEF Type
    <2>5. \A g \in guards \ {guard} : g.no # guard.no
      <3>1. ASSUME NEW g \in guards, g.no = guard.no PROVE g = guard
        <4>1. g.ord = guard.ord
          BY <1>1, <3>1 DEF Open
        <4>2. g = [ord |-> g.ord, no |-> g.no]
          BY <1>1
        <4>3. QED
          BY <2>2, <3>1, <4>1, <4>2
      <3>2. QED
        BY <3>1
    <2>6. QED
      BY <2>1, <2>4, <2>5 DEF OrdInv
  <1>5. QED
    BY <1>2, <1>3, <1>4

(* The other steps move pages and leave the log alone.                       *)
LEMMA MoveOrd ==
  ASSUME TimeInv, OrdInv, UNCHANGED <<log, guards, last_range_ord_id>>,
         \A i \in 1..Len(buf') : i \in 1..Len(buf) /\ buf'[i] = buf[i],
         \A i \in 1..Len(stream') :
           \/ stream'[i].events = buf
           \/ \E j \in 1..Len(stream) : stream'[i].events = stream[j].events,
         \A i \in 1..Len(event_buf') :
           \/ \E j \in 1..Len(stream) : event_buf'[i].events = stream[j].events
           \/ \E j \in 1..Len(event_buf) : event_buf'[i].events = event_buf[j].events
  PROVE  OrdInv'
  <1>1. AllFit(log, buf) /\ AllFit(log, buf')
    BY DEF OrdInv, PagesFit, AllFit
  <1>2. \A i \in 1..Len(stream') : AllFit(log, stream'[i].events)
    BY <1>1 DEF OrdInv, PagesFit
  <1>3. \A i \in 1..Len(event_buf') : AllFit(log, event_buf'[i].events)
    BY DEF OrdInv, PagesFit
  <1>4. QED
    BY <1>1, <1>2, <1>3 DEF OrdInv, PagesFit

(* How the pages move: Flush appends one to the file, and the reader takes   *)
(* the first.                                                                *)
Filed ==
  /\ buf # <<>> /\ buf' = <<>> /\ UNCHANGED <<event_buf, missed_events>>
  /\ Len(stream') = Len(stream) + 1 /\ stream'[Len(stream) + 1].events = buf
  /\ \A i \in 1..Len(stream) : stream'[i] = stream[i]

FirstRead ==
  /\ buf' = buf /\ 1 \in 1..Len(stream) /\ Len(stream') = Len(stream) - 1
  /\ \A i \in 1..Len(stream') : stream'[i] = stream[i + 1]

Kept ==
  /\ FirstRead /\ UNCHANGED missed_events /\ Len(event_buf') = Len(event_buf) + 1
  /\ event_buf'[Len(event_buf) + 1].events = stream[1].events
  /\ \A i \in 1..Len(event_buf) : event_buf'[i] = event_buf[i]

Missed ==
  /\ FirstRead /\ UNCHANGED event_buf
  /\ \E m : /\ missed_events' = missed_events \cup {m}
            /\ m.nos = {stream[1].events[i].no : i \in 1..Len(stream[1].events)}

LEMMA PageMoves ==
  ASSUME TimeInv, [Next]_vars,
         ~\E now \in Now : event_instant(now) \/ event_range_start(now),
         ~\E now \in Now, guard \in guards : event_range_end(guard, now)
  PROVE  /\ UNCHANGED <<log, guards, last_range_ord_id>>
         /\ UNCHANGED <<buf, stream, event_buf, missed_events>> \/ Filed \/ Kept \/ Missed
  <1>1. stream \in Seq(Packets) /\ event_buf \in Seq(Page)
    BY DEF TimeInv, Typed, FileTyped
  <1>2. CASE Flush
    <2> DEFINE header == [start |-> start_timestamp, end |-> prev_tm]
    <2>1. /\ UNCHANGED <<log, guards, last_range_ord_id, event_buf, missed_events>>
          /\ buf # <<>> /\ buf' = <<>>
      BY <1>2 DEF Flush, appVars, readVars
    <2>2. PICK type \in {"data", "failed"} :
            stream' = Append(stream, [type |-> type, header |-> header, events |-> buf])
      BY <1>2 DEF Flush, EndTimestamp
    <2>3. /\ Len(stream') = Len(stream) + 1 /\ stream'[Len(stream) + 1].events = buf
          /\ \A i \in 1..Len(stream) : stream'[i] = stream[i]
      BY <1>1, <2>2, Appended
    <2>4. QED
      BY <2>1, <2>3 DEF Filed
  <1>3. CASE ReadData \/ ReadFailed
    <2>1. /\ stream # <<>> /\ stream' = Tail(stream)
          /\ UNCHANGED <<buf, log, guards, last_range_ord_id>>
      BY <1>3 DEF ReadData, ReadFailed, Packet, localVars, appVars
    <2>2. FirstRead
      BY <1>1, <2>1 DEF FirstRead
    <2>3. CASE ReadData
      <3> DEFINE page == [header |-> stream[1].header, events |-> stream[1].events]
      <3>1. event_buf' = Append(event_buf, page) /\ UNCHANGED missed_events
        BY <2>3 DEF ReadData
      <3>2. /\ Len(event_buf') = Len(event_buf) + 1
            /\ event_buf'[Len(event_buf) + 1].events = stream[1].events
            /\ \A i \in 1..Len(event_buf) : event_buf'[i] = event_buf[i]
        BY <1>1, <3>1, Appended
      <3>3. QED
        BY <2>1, <2>2, <3>1, <3>2 DEF Kept
    <2>4. CASE ReadFailed
      <3> DEFINE header == stream[1].header
                 nos == {stream[1].events[i].no : i \in 1..Len(stream[1].events)}
                 m == [start |-> header.start, dur |-> (header.end - header.start) % ClockMod,
                       nos |-> nos]
      <3>1. UNCHANGED event_buf /\ missed_events' = missed_events \cup {m}
        BY <2>4 DEF ReadFailed
      <3>2. m.nos = nos
        OBVIOUS
      <3> HIDE DEF m
      <3>3. QED
        BY <2>1, <2>2, <3>1, <3>2 DEF Missed
    <2>5. QED
      BY <1>3, <2>3, <2>4
  <1>4. CASE Close \/ ReadEnd \/ BeginPage \/ ParseInstant \/ ParseRangeStart \/ ParseRangeEnd
             \/ OverflowPanic \/ Finish \/ UNCHANGED vars
    BY <1>4 DEF Close, ReadEnd, BeginPage, ParseInstant, ParseRangeStart, ParseRangeEnd,
                OverflowPanic, Finish, NextEvent, vars, localVars, appVars, readVars
  <1>5. QED
    BY <1>2, <1>3, <1>4 DEF Next, Ended

LEMMA NextOrd == ASSUME TimeInv, OrdInv, [Next]_vars PROVE OrdInv'
  <1>1. CASE \/ \E now \in Now : event_instant(now) \/ event_range_start(now)
             \/ \E now \in Now, guard \in guards : event_range_end(guard, now)
    BY <1>1, EventOrd
  <1>2. CASE /\ ~\E now \in Now : event_instant(now) \/ event_range_start(now)
             /\ ~\E now \in Now, guard \in guards : event_range_end(guard, now)
    <2>1. stream \in Seq(Packets) /\ event_buf \in Seq(Page)
          /\ Len(stream) \in Nat /\ Len(event_buf) \in Nat
      BY NotEmpty DEF TimeInv, Typed, FileTyped
    <2>2. UNCHANGED <<log, guards, last_range_ord_id>>
      BY <1>2, PageMoves
    <2>3. \A i \in 1..Len(buf') : i \in 1..Len(buf) /\ buf'[i] = buf[i]
      BY <1>2, PageMoves DEF Filed, Kept, Missed, FirstRead
    <2>4. \A i \in 1..Len(stream') : \/ stream'[i].events = buf
                                     \/ \E j \in 1..Len(stream) :
                                          stream'[i].events = stream[j].events
      <3>1. CASE Filed
        BY <2>1, <3>1 DEF Filed
      <3>2. CASE UNCHANGED stream \/ FirstRead
        <4>1. \A i \in 1..Len(stream') : \E j \in 1..Len(stream) : stream'[i] = stream[j]
          BY <2>1, <3>2 DEF FirstRead
        <4>2. QED
          BY <4>1
      <3>3. QED
        BY <1>2, <3>1, <3>2, PageMoves DEF Kept, Missed
    <2>5. \A i \in 1..Len(event_buf') :
            \/ \E j \in 1..Len(stream) : event_buf'[i].events = stream[j].events
            \/ \E j \in 1..Len(event_buf) : event_buf'[i].events = event_buf[j].events
      BY <1>2, <2>1, PageMoves DEF Filed, Kept, Missed, FirstRead
    <2>6. QED
      BY <2>2, <2>3, <2>4, <2>5, MoveOrd
  <1>3. QED
    BY <1>1, <1>2
-----------------------------------------------------------------------------
(***************************************************************************)
(* Order.  The pages are read in the order in which they were flushed, and *)
(* those that are not dropped cover all that has left the buffer.          *)
(***************************************************************************)
NosOf(events) == {events[i].no : i \in 1..Len(events)}

Before(events, others) == \A x \in NosOf(events), y \in NosOf(others) : x < y

Flushed == Len(log) - Len(buf)

Ordered ==
  /\ \A i, j \in 1..Len(stream) : i < j => Before(stream[i].events, stream[j].events)
  /\ \A i, j \in 1..Len(event_buf) : i < j => Before(event_buf[i].events, event_buf[j].events)
  /\ \A i \in 1..Len(event_buf), j \in 1..Len(stream) :
       Before(event_buf[i].events, stream[j].events)
  /\ \A i \in 1..Len(stream) : NosOf(stream[i].events) \subseteq 1..Flushed
  /\ \A i \in 1..Len(event_buf) : NosOf(event_buf[i].events) \subseteq 1..Flushed

Covered ==
  \A no \in 1..Flushed :
    \/ \E i \in 1..Len(stream) : no \in NosOf(stream[i].events)
    \/ \E i \in 1..Len(event_buf) : no \in NosOf(event_buf[i].events)
    \/ \E m \in missed_events : no \in m.nos

OrderInv == Ordered /\ Covered /\ (phase \in {"parse", "done"} => stream = <<>>)

LEMMA InitOrder == Init => OrderInv
  BY DEF Init, OrderInv, Ordered, Covered, Flushed

LEMMA FiledOrder == ASSUME TimeInv, OrderInv, log' = log, Filed PROVE Ordered' /\ Covered'
  <1>1. /\ Len(log) \in Nat /\ Len(buf) \in Nat /\ Len(buf) =< Len(log) /\ Len(buf) # 0
        /\ Len(stream) \in Nat /\ Flushed \in Nat
    BY NotEmpty DEF TimeInv, Typed, LogTyped, LocalTyped, FileTyped, BufChained, Filed, Flushed
  <1>2. Len(buf') = 0 /\ Flushed' = Len(log)
    BY <1>1 DEF Filed, Flushed
  <1>3. NosOf(buf) = (Flushed + 1)..Len(log)
    <2>1. \A i \in 1..Len(buf) : buf[i].no = Flushed + i
      BY DEF TimeInv, BufChained, Follows, Filed, Flushed
    <2>2. Flushed + Len(buf) = Len(log)
      BY <1>1 DEF Flushed
    <2>3. \A i \in 1..Len(buf) : buf[i].no \in (Flushed + 1)..Len(log)
      BY <1>1, <2>1, <2>2
    <2>4. \A x \in (Flushed + 1)..Len(log) :
            x - Flushed \in 1..Len(buf) /\ x = Flushed + (x - Flushed)
      BY <1>1, <2>2
    <2>5. \A x \in (Flushed + 1)..Len(log) : x = buf[x - Flushed].no
      BY <2>1, <2>4
    <2>6. QED
      BY <2>3, <2>4, <2>5 DEF NosOf
  <1> DEFINE n == Len(stream) + 1
  <1>4. /\ Len(stream') = n /\ stream'[n].events = buf /\ event_buf' = event_buf
        /\ missed_events' = missed_events
        /\ \A i \in 1..Len(stream) : stream'[i] = stream[i] /\ i \in 1..n /\ i < n
        /\ \A i \in 1..n : i = n \/ i \in 1..Len(stream)
        /\ n \in 1..n /\ ~(n < n) /\ \A i \in 1..n : ~(n < i)
    BY <1>1 DEF Filed
  <1> HIDE DEF n
  <1>5. \A x \in 1..Flushed, y \in NosOf(buf) : x < y
    BY <1>1, <1>3
  <1>6. 1..Flushed \subseteq 1..Len(log) /\ NosOf(buf) \subseteq 1..Len(log)
    BY <1>1, <1>3 DEF Flushed
  <1>7. \A i \in 1..Len(stream) : Before(stream[i].events, buf)
    BY <1>5 DEF OrderInv, Ordered, Before
  <1>8. \A i \in 1..Len(event_buf) : Before(event_buf[i].events, buf)
    BY <1>5 DEF OrderInv, Ordered, Before
  <1>9. Ordered'
    <2>1. \A i, j \in 1..Len(stream') : i < j => Before(stream'[i].events, stream'[j].events)
      BY <1>4, <1>7 DEF OrderInv, Ordered
    <2>2. \A i \in 1..Len(event_buf'), j \in 1..Len(stream') :
            Before(event_buf'[i].events, stream'[j].events)
      BY <1>4, <1>8 DEF OrderInv, Ordered
    <2>3. /\ \A i \in 1..Len(stream') : NosOf(stream'[i].events) \subseteq 1..Flushed'
          /\ \A i \in 1..Len(event_buf') : NosOf(event_buf'[i].events) \subseteq 1..Flushed'
      BY <1>2, <1>4, <1>6 DEF OrderInv, Ordered
    <2>4. QED
      BY <1>4, <2>1, <2>2, <2>3 DEF OrderInv, Ordered
  <1>10. Covered'
    <2>1. ASSUME NEW no \in 1..Len(log)
          PROVE  \/ \E i \in 1..Len(stream') : no \in NosOf(stream'[i].events)
                 \/ \E i \in 1..Len(event_buf) : no \in NosOf(event_buf[i].events)
                 \/ \E m \in missed_events : no \in m.nos
      <3>1. CASE no \in 1..Flushed
        BY <1>4, <3>1 DEF OrderInv, Covered
      <3>2. CASE no \in NosOf(buf)
        BY <1>4, <3>2
      <3>3. QED
        BY <1>1, <1>3, <3>1, <3>2
    <2>2. QED
      BY <1>2, <1>4, <2>1 DEF Covered
  <1>11. QED
    BY <1>9, <1>10

LEMMA ReadOrder ==
  ASSUME TimeInv, OrderInv, log' = log, Kept \/ Missed PROVE Ordered' /\ Covered'
  <1>1. /\ Len(stream) \in Nat /\ Len(event_buf) \in Nat
    BY NotEmpty DEF TimeInv, Typed, FileTyped
  <1>2. FirstRead /\ buf' = buf /\ Flushed' = Flushed
    BY DEF Kept, Missed, FirstRead, Flushed
  <1>3. /\ 1 \in 1..Len(stream)
        /\ \A i \in 1..Len(stream') : /\ i + 1 \in 1..Len(stream) /\ stream'[i] = stream[i + 1]
                                      /\ 1 < i + 1
        /\ \A i, j \in 1..Len(stream') : i < j => i + 1 < j + 1
        /\ \A i \in 1..Len(stream) :
             i = 1 \/ (i - 1 \in 1..Len(stream') /\ stream'[i - 1] = stream[i])
    BY <1>1, <1>2 DEF FirstRead
  <1>4. \A i, j \in 1..Len(stream') : i < j => Before(stream'[i].events, stream'[j].events)
    BY <1>3 DEF OrderInv, Ordered
  <1>5. \A i \in 1..Len(stream') : /\ NosOf(stream'[i].events) \subseteq 1..Flushed
                                   /\ Before(stream[1].events, stream'[i].events)
    BY <1>3 DEF OrderInv, Ordered
  <1>6. \A i \in 1..Len(event_buf), j \in 1..Len(stream') :
          Before(event_buf[i].events, stream'[j].events)
    BY <1>3 DEF OrderInv, Ordered
  <1>7. \A no \in 1..Flushed :
          \/ no \in NosOf(stream[1].events)
          \/ \E i \in 1..Len(stream') : no \in NosOf(stream'[i].events)
          \/ \E i \in 1..Len(event_buf) : no \in NosOf(event_buf[i].events)
          \/ \E m \in missed_events : no \in m.nos
    <2>1. ASSUME NEW no, NEW i \in 1..Len(stream), no \in NosOf(stream[i].events)
          PROVE  no \in NosOf(stream[1].events)
                 \/ \E j \in 1..Len(stream') : no \in NosOf(stream'[j].events)
      BY <1>3, <2>1
    <2>2. QED
      BY <2>1 DEF OrderInv, Covered
  <1>8. CASE Kept
    <2> DEFINE n == Len(event_buf) + 1
    <2>1. /\ Len(event_buf') = n /\ event_buf'[n].events = stream[1].events
          /\ missed_events' = missed_events
          /\ \A i \in 1..Len(event_buf) : event_buf'[i] = event_buf[i] /\ i \in 1..n
          /\ \A i \in 1..n : i = n \/ i \in 1..Len(event_buf)
          /\ n \in 1..n /\ \A i \in 1..n : ~(n < i)
      BY <1>1, <1>8 DEF Kept
    <2> HIDE DEF n
    <2>2. \A i, j \in 1..Len(event_buf') :
            i < j => Before(event_buf'[i].events, event_buf'[j].events)
      BY <1>3, <2>1 DEF OrderInv, Ordered
    <2>3. \A i \in 1..Len(event_buf'), j \in 1..Len(stream') :
            Before(event_buf'[i].events, stream'[j].events)
      BY <1>5, <1>6, <2>1
    <2>4. \A i \in 1..Len(event_buf') : NosOf(event_buf'[i].events) \subseteq 1..Flushed
      BY <1>3, <2>1 DEF OrderInv, Ordered
    <2>5. Ordered'
      BY <1>2, <1>4, <1>5, <2>2, <2>3, <2>4 DEF Ordered
    <2>6. Covered'
      BY <1>2, <1>7, <2>1 DEF Covered
    <2>7. QED
      BY <2>5, <2>6
  <1>9. CASE Missed
    <2>1. event_buf' = event_buf
      BY <1>9 DEF Missed
    <2>2. PICK m : /\ missed_events' = missed_events \cup {m}
                   /\ m.nos = NosOf(stream[1].events)
      BY <1>9 DEF Missed, NosOf
    <2>3. Ordered'
      BY <1>2, <1>4, <1>5, <1>6, <2>1 DEF OrderInv, Ordered
    <2>4. Covered'
      BY <1>2, <1>7, <2>1, <2>2 DEF Covered
    <2>5. QED
      BY <2>3, <2>4
  <1>10. QED
    BY <1>8, <1>9

LEMMA NextOrder == ASSUME TimeInv, OrderInv, [Next]_vars PROVE OrderInv'
  <1>1. phase' \in {"parse", "done"} => stream' = <<>>
    BY DEF Next, event_instant, event_range_start, event_range_end, PushEvent, Flush, Close,
           ReadData, ReadFailed, ReadEnd, Packet, BeginPage, ParseInstant, ParseRangeStart,
           ParseRangeEnd, NextEvent, OverflowPanic, Finish, Ended, vars, OrderInv
  <1>2. CASE \/ \E now \in Now : event_instant(now) \/ event_range_start(now)
             \/ \E now \in Now, guard \in guards : event_range_end(guard, now)
    <2>1. PICK e, f : log' = Append(log, e) /\ buf' = Append(buf, f)
                      /\ UNCHANGED <<stream, event_buf, missed_events>>
      BY <1>2 DEF event_instant, event_range_start, event_range_end, PushEvent, readVars
    <2>2. Flushed' = Flushed
      <3>1. log \in Seq(Logged) /\ buf \in Seq(Recorded) /\ Len(log) \in Nat /\ Len(buf) \in Nat
        BY NotEmpty DEF TimeInv, Typed, LogTyped, LocalTyped
      <3>2. Len(log') = Len(log) + 1 /\ Len(buf') = Len(buf) + 1
        BY <2>1, <3>1, Appended
      <3>3. QED
        BY <3>1, <3>2 DEF Flushed
    <2>3. Ordered' /\ Covered'
      BY <2>1, <2>2 DEF OrderInv, Ordered, Covered
    <2>4. QED
      BY <1>1, <2>3 DEF OrderInv
  <1>3. CASE /\ ~\E now \in Now : event_instant(now) \/ event_range_start(now)
             /\ ~\E now \in Now, guard \in guards : event_range_end(guard, now)
    <2>1. /\ log' = log
          /\ UNCHANGED <<buf, stream, event_buf, missed_events>> \/ Filed \/ Kept \/ Missed
      BY <1>3, PageMoves
    <2>2. CASE UNCHANGED <<buf, stream, event_buf, missed_events>>
      BY <1>1, <2>1, <2>2 DEF OrderInv, Ordered, Covered, Flushed
    <2>3. QED
      BY <1>1, <2>1, <2>2, FiledOrder, ReadOrder DEF OrderInv
  <1>4. QED
    BY <1>2, <1>3
-----------------------------------------------------------------------------
(***************************************************************************)
(* Parsing.  The events that parse_and_save has read so far, and what it   *)
(* knows of them.                                                          *)
(***************************************************************************)
ReadAt(p, i) == p < pageNo \/ (p = pageNo /\ i =< eventNo)

Read ==
  {no \in 1..Len(log) : \E p \in 1..Len(event_buf) : \E i \in 1..Len(event_buf[p].events) :
                          ReadAt(p, i) /\ no = event_buf[p].events[i].no}

(* Of the events R in the log l, the starts and the ends with an ord id.     *)
StartsOf(l, R, ord) == {s \in R : l[s].type = "RangeStart" /\ OrdIn(l, s) = ord}

EndsOf(l, R, ord) == {e \in R : l[e].type = "RangeEnd" /\ OrdIn(l, l[e].start) = ord}

LastOf(l, R, ord, s) == s \in StartsOf(l, R, ord) /\ \A t \in StartsOf(l, R, ord) : t =< s

(* The time at which an event is shown.                                      *)
Exact(l, firsts, no, at) ==
  \E k \in Nat : RunOf(l, firsts, no, k) /\ at = ToNs(l[no].tm) + k * Offset

(* An open range is the last that started with its ord id, and the last that *)
(* started is open unless one with its ord id has ended since.               *)
RangesOpen(l, firsts, R, ranges) ==
  \A ord \in OrdId : ranges[ord] # NoRange =>
    /\ LastOf(l, R, ord, ranges[ord].no)
    /\ Exact(l, firsts, ranges[ord].no, ranges[ord].tm)

RangesKnown(l, R, ranges) ==
  \A ord \in OrdId : \A s \in R : LastOf(l, R, ord, s) =>
    ranges[ord].no = s \/ \E e \in EndsOf(l, R, ord) : e > s

Apart == ~OrdReused /\ (missed_events = {} \/ NoWrap)

(* What is in the trace was read, and what was read is in the trace.         *)
TraceFits(l, firsts, R, apart, tr) ==
  \A x \in tr :
    /\ x.type = "point" => x.no \in R /\ Exact(l, firsts, x.no, x.at)
    /\ x.type = "range" =>
         /\ x.from \in R /\ x.to \in R
         /\ Exact(l, firsts, x.from, x.begin) /\ Exact(l, firsts, x.to, x.end)
         /\ apart => l[x.to].start = x.from

TraceFull(l, R, tr) ==
  \A no \in R :
    /\ l[no].type = "Instant" => \E x \in tr : x.type = "point" /\ x.no = no
    /\ l[no].type = "RangeEnd" => \E x \in tr : x.type = "range" /\ x.to = no

ParseInv ==
  /\ phase \in {"record", "decode"} => cur_started_ranges = [ord \in OrdId |-> NoRange]
  /\ RangesOpen(log, FirstOfPage, Read, cur_started_ranges)
  /\ phase # "panicked" => RangesKnown(log, Read, cur_started_ranges)
  /\ TraceFits(log, FirstOfPage, Read, Apart, trace)
  /\ phase # "panicked" => TraceFull(log, Read, trace)
  /\ phase = "panicked" /\ missed_events = {} /\ ~OrdReused => event_buf = <<>> \/ ~ClockIsSteady
  /\ phase = "done" => PageRead /\ pageNo = Len(event_buf)

RoundTripInv == TimeInv /\ OrdInv /\ OrderInv /\ ParseInv
-----------------------------------------------------------------------------
(* The definitions of the properties are about the same ord ids.             *)
LEMMA OrdsAgree ==
  /\ \A no : OrdOf(no) = OrdIn(log, no)
  /\ Len(log) \in Nat /\ NoWrap => Cardinality(StartsBelow(log, Len(log) + 1)) =< OrdMod
  <1>1. \A no : {i \in Starts : i < no} = StartsBelow(log, no)
    BY DEF Starts, StartsBelow
  <1>2. ASSUME Len(log) \in Nat PROVE StartsBelow(log, Len(log) + 1) = Starts
    BY <1>2 DEF Starts, StartsBelow
  <1>3. QED
    BY <1>1, <1>2 DEF OrdOf, OrdIn, NoWrap

(* An end e is joined to the start s that is open under its ord id: it is    *)
(* its own, if that has been read and no other range got its ord id.         *)
LEMMA JoinedIsOwn ==
  ASSUME TimeInv, OrdInv, ~OrdReused, NEW R \in SUBSET (1..Len(log)), NEW e \in 1..Len(log),
         \A x \in R : x < e, log[e].type = "RangeEnd", NEW ord, ord = OrdIn(log, log[e].start),
         NEW s, LastOf(log, R, ord, s), log[e].start \in R
  PROVE  s = log[e].start
  <1>1. Len(log) \in Nat /\ s \in R /\ s \in 1..Len(log) /\ s < e
    BY NotEmpty DEF TimeInv, Typed, LogTyped, LastOf, StartsOf
  <1>2. log[e].start \in 1..(e - 1) /\ log[log[e].start].type = "RangeStart"
    BY DEF OrdInv, EndsPaired
  <1>3. log[e].start \in StartsOf(log, R, ord)
    BY <1>2 DEF StartsOf
  <1>4. log[e].start =< s
    BY <1>3 DEF LastOf
  <1>5. s \in Starts /\ OrdOf(s) = OrdOf(log[e].start)
    BY <1>1, OrdsAgree DEF Starts, LastOf, StartsOf
  <1>6. ~(log[e].start < s)
    BY <1>1, <1>5 DEF OrdReused
  <1>7. QED
    BY <1>1, <1>2, <1>4, <1>6

(* Where no ord id was given twice, there is no other start to join it to.   *)
LEMMA JoinedIsOnly ==
  ASSUME TimeInv, OrdInv, NoWrap, NEW e \in 1..Len(log), log[e].type = "RangeEnd",
         NEW s \in 1..Len(log), log[s].type = "RangeStart",
         OrdIn(log, s) = OrdIn(log, log[e].start)
  PROVE  s = log[e].start
  <1>1. log \in Seq(Logged) /\ Len(log) \in Nat
    BY NotEmpty DEF TimeInv, Typed, LogTyped
  <1>2. PICK t \in 1..Len(log) : t = log[e].start /\ log[t].type = "RangeStart"
    BY <1>1 DEF OrdInv, EndsPaired
  <1>3. Cardinality(StartsBelow(log, Len(log) + 1)) =< OrdMod
    BY <1>1, OrdsAgree
  <1>4. ~(s < t) /\ ~(t < s)
    BY <1>1, <1>2, <1>3, OrdsApart
  <1>5. QED
    BY <1>1, <1>2, <1>4

(* The start of an end that is read is open, if nothing was dropped.         *)
LEMMA StartIsOpen ==
  ASSUME TimeInv, OrdInv, ~OrdReused, NEW R \in SUBSET (1..Len(log)), NEW e \in 1..Len(log),
         R = 1..(e - 1), log[e].type = "RangeEnd", NEW ord \in OrdId,
         ord = OrdIn(log, log[e].start), NEW ranges, RangesKnown(log, R, ranges)
  PROVE  ranges[ord] # NoRange
  <1> DEFINE s == log[e].start
  <1>1. Len(log) \in Nat /\ e \in Nat
    BY NotEmpty DEF TimeInv, Typed, LogTyped
  <1>2. s \in 1..(e - 1) /\ log[s].type = "RangeStart"
    BY DEF OrdInv, EndsPaired
  <1>3. s \in StartsOf(log, R, ord)
    BY <1>2 DEF StartsOf
  <1>4. ASSUME NEW t \in StartsOf(log, R, ord) PROVE t =< s
    <2>1. t \in 1..Len(log) /\ t < e /\ t \in Starts /\ OrdOf(t) = OrdOf(s)
      BY <1>1, OrdsAgree DEF StartsOf, Starts
    <2>2. ~(s < t)
      BY <2>1 DEF OrdReused
    <2>3. QED
      BY <1>1, <1>2, <2>1, <2>2
  <1>5. LastOf(log, R, ord, s)
    BY <1>3, <1>4 DEF LastOf
  <1>6. ASSUME NEW d \in EndsOf(log, R, ord), d > s PROVE FALSE
    <2>1. d \in 1..Len(log) /\ d < e /\ log[d].type = "RangeEnd" /\ OrdIn(log, log[d].start) = ord
      BY <1>1 DEF EndsOf
    <2>2. log[d].start \in 1..(d - 1) /\ log[log[d].start].type = "RangeStart"
      BY <2>1 DEF OrdInv, EndsPaired
    <2>3. log[d].start # s
      BY <1>1, <2>1 DEF OrdInv, EndsPaired
    <2>4. log[d].start \in 1..Len(log) /\ s \in 1..Len(log)
      BY <1>1, <1>2, <2>1, <2>2
    <2>5. log[d].start \in Starts /\ s \in Starts /\ OrdOf(s) = OrdOf(log[d].start)
      BY <1>2, <2>1, <2>2, <2>4, OrdsAgree DEF Starts
    <2>6. CASE log[d].start < s
      BY <1>1, <1>6, <2>1, <2>5, <2>6 DEF OrdReused
    <2>7. CASE s < log[d].start
      <3>1. log[d].start < e
        BY <1>1, <2>1, <2>2
      <3>2. QED
        BY <2>5, <2>7, <3>1 DEF OrdReused
    <2>8. log[d].start < s \/ s < log[d].start
      BY <1>1, <1>2, <2>3, <2>4
    <2>9. QED
      BY <2>6, <2>7, <2>8
  <1>7. ranges[ord].no = s
    BY <1>3, <1>5, <1>6 DEF RangesKnown, StartsOf
  <1>8. QED
    BY <1>2, <1>7 DEF NoRange
-----------------------------------------------------------------------------
(* What was read before the next event.                                      *)
LEMMA ReadNext ==
  ASSUME TimeInv, OrderInv, phase = "parse", ~PageRead
  PROVE  /\ \A x \in Read : x < Event.no
         /\ missed_events = {} => Read = 1..(Event.no - 1)
         /\ \A type : NextEvent(type) => Read' = Read \cup {Event.no}
  <1> DEFINE events == event_buf[pageNo].events
             n == Event.no
  <1>1. /\ pageNo \in 1..Len(event_buf) /\ eventNo + 1 \in 1..Len(events)
        /\ Event = events[eventNo + 1] /\ eventNo \in Nat /\ pageNo \in Nat
        /\ Len(log) \in Nat /\ Len(buf) \in Nat /\ n \in 1..Len(log)
        /\ Len(event_buf) \in Nat /\ Len(events) \in Nat
    BY CurrentEvent, NextTime, NotEmpty
       DEF TimeInv, Typed, ParserTyped, LogTyped, LocalTyped, FileTyped, Event
  <1>2. PICK b \in Nat : Follows(log, b, events)
    BY <1>1 DEF TimeInv, FileChained, Chained
  <1>3. n = b + (eventNo + 1) /\ \A i \in 1..Len(events) : events[i].no = b + i
    BY <1>1, <1>2 DEF Follows
  <1>4. n \in NosOf(events)
    BY <1>1 DEF NosOf
  <1> HIDE DEF events, n
  <1>5. ASSUME NEW x \in Read PROVE x < n
    <2>1. PICK p \in 1..Len(event_buf) : \E i \in 1..Len(event_buf[p].events) :
            ReadAt(p, i) /\ x = event_buf[p].events[i].no
      BY DEF Read
    <2>2. PICK i \in 1..Len(event_buf[p].events) :
            ReadAt(p, i) /\ x = event_buf[p].events[i].no
      BY <2>1
    <2>3. CASE p < pageNo
      <3>1. Before(event_buf[p].events, events)
        BY <1>1, <2>3 DEF OrderInv, Ordered, events
      <3>2. x \in NosOf(event_buf[p].events)
        BY <2>2 DEF NosOf
      <3>3. QED
        BY <1>4, <3>1, <3>2 DEF Before
    <2>4. CASE p = pageNo /\ i =< eventNo
      <3>1. i \in 1..Len(events) /\ x = events[i].no
        BY <2>2, <2>4 DEF events
      <3>2. x = b + i
        BY <1>3, <3>1
      <3>3. QED
        BY <1>1, <1>3, <2>4, <3>1, <3>2
    <2>5. QED
      BY <2>2, <2>3, <2>4 DEF ReadAt
  <1>6. ASSUME missed_events = {}, NEW x \in 1..(n - 1) PROVE x \in Read
    <2>1. x \in 1..Flushed /\ x \in 1..Len(log)
      <3>1. n \in 1..Flushed
        BY <1>1, <1>4 DEF OrderInv, Ordered, events
      <3>2. Flushed \in Int
        BY <1>1 DEF Flushed
      <3>3. QED
        BY <1>1, <3>1, <3>2
    <2>2. stream = <<>>
      BY DEF OrderInv
    <2>3. PICK q \in 1..Len(event_buf) : x \in NosOf(event_buf[q].events)
      BY <1>6, <2>1, <2>2 DEF OrderInv, Covered
    <2>4. PICK i \in 1..Len(event_buf[q].events) : x = event_buf[q].events[i].no
      BY <2>3 DEF NosOf
    <2>5. CASE q < pageNo
      BY <2>1, <2>4, <2>5 DEF Read, ReadAt
    <2>6. CASE q = pageNo
      <3>1. i \in 1..Len(events) /\ x = events[i].no
        BY <2>4, <2>6 DEF events
      <3>2. x = b + i
        BY <1>3, <3>1
      <3>3. i =< eventNo
        BY <1>1, <1>3, <1>6, <3>1, <3>2
      <3>4. QED
        BY <2>1, <2>4, <2>6, <3>3 DEF Read, ReadAt
    <2>7. CASE pageNo < q
      <3>1. Before(events, event_buf[q].events)
        BY <1>1, <2>7 DEF OrderInv, Ordered, events
      <3>2. n < x
        BY <1>4, <2>3, <3>1 DEF Before
      <3>3. QED
        BY <1>1, <1>6, <3>2
    <2>8. QED
      BY <1>1, <2>5, <2>6, <2>7
  <1>7. ASSUME missed_events = {} PROVE Read = 1..(n - 1)
    <2>1. Read \subseteq 1..Len(log)
      BY DEF Read
    <2>2. \A x \in Read : x \in 1..(n - 1)
      BY <1>1, <1>5, <2>1
    <2>3. QED
      BY <1>6, <1>7, <2>2
  <1>8. ASSUME NEW type, NextEvent(type) PROVE Read' = Read \cup {n}
    <2>1. eventNo' = eventNo + 1 /\ UNCHANGED <<pageNo, event_buf, log>>
      BY <1>8 DEF NextEvent, appVars, readVars
    <2>2. \A p \in 1..Len(event_buf) : \A i \in 1..Len(event_buf[p].events) :
            ReadAt(p, i)' <=> ReadAt(p, i) \/ (p = pageNo /\ i = eventNo + 1)
      <3>1. ASSUME NEW p \in 1..Len(event_buf), NEW i \in 1..Len(event_buf[p].events),
                   p = pageNo
            PROVE  i =< eventNo + 1 <=> i =< eventNo \/ i = eventNo + 1
        <4>1. i \in Nat
          BY <1>1, <3>1 DEF events
        <4>2. QED
          BY <1>1, <4>1
      <3>2. QED
        BY <2>1, <3>1 DEF ReadAt
    <2>3. n \in Read'
      <3>1. n = event_buf[pageNo].events[eventNo + 1].no
        BY <1>1 DEF n, events
      <3>2. eventNo + 1 =< eventNo + 1
        BY <1>1
      <3>3. QED
        BY <1>1, <2>1, <3>1, <3>2 DEF Read, ReadAt, events
    <2>4. ASSUME NEW x \in Read PROVE x \in Read'
      BY <2>1, <2>2 DEF Read
    <2>5. ASSUME NEW x \in Read' PROVE x \in Read \/ x = n
      <3>1. PICK p \in 1..Len(event_buf) : \E i \in 1..Len(event_buf[p].events) :
              ReadAt(p, i)' /\ x = event_buf[p].events[i].no
        BY <2>1, <2>5 DEF Read
      <3>2. PICK i \in 1..Len(event_buf[p].events) :
              ReadAt(p, i)' /\ x = event_buf[p].events[i].no
        BY <3>1
      <3>3. CASE ReadAt(p, i)
        BY <2>1, <2>5, <3>2, <3>3 DEF Read
      <3>4. CASE p = pageNo /\ i = eventNo + 1
        BY <1>1, <3>2, <3>4 DEF n, events
      <3>5. QED
        BY <2>2, <3>2, <3>3, <3>4
    <2>6. QED
      BY <2>3, <2>4, <2>5
  <1>9. QED
    BY <1>5, <1>7, <1>8 DEF n

(* When all pages are read, so are all events that have left the buffer.     *)
LEMMA AllRead ==
  ASSUME TimeInv, OrderInv, phase \in {"parse", "done"}, PageRead, pageNo = Len(event_buf),
         missed_events = {}
  PROVE  1..Flushed \subseteq Read
  <1>1. /\ Len(log) \in Nat /\ Len(buf) \in Nat /\ Len(event_buf) \in Nat
    BY NotEmpty DEF TimeInv, Typed, LogTyped, LocalTyped, FileTyped
  <1>2. ASSUME NEW x \in 1..Flushed PROVE x \in Read
    <2>1. stream = <<>> /\ x \in 1..Len(log)
      BY <1>1 DEF OrderInv, Flushed
    <2>2. PICK q \in 1..Len(event_buf) : x \in NosOf(event_buf[q].events)
      BY <2>1 DEF OrderInv, Covered
    <2>3. PICK i \in 1..Len(event_buf[q].events) : x = event_buf[q].events[i].no
      BY <2>2 DEF NosOf
    <2>4. q < pageNo \/ (q = pageNo /\ eventNo = Len(event_buf[pageNo].events))
      BY <1>1 DEF PageRead
    <2>5. ReadAt(q, i)
      BY <2>3, <2>4 DEF ReadAt
    <2>6. QED
      BY <2>1, <2>3, <2>5 DEF Read
  <1>3. QED
    BY <1>2
-----------------------------------------------------------------------------
(* What reading the event n of the log l adds to the events R before it.     *)
LEMMA NoStartRead ==
  ASSUME NEW l, NEW R, NEW n, l[n].type # "RangeStart"
  PROVE  \A ord : StartsOf(l, R \cup {n}, ord) = StartsOf(l, R, ord)
  BY DEF StartsOf

LEMMA ExactNow ==
  ASSUME TimeInv, phase = "parse", ~PageRead
  PROVE  Exact(log, FirstOfPage, Event.no, Timestamp)
  <1>1. /\ TmAfter = log[Event.no].tm /\ Zero \in Nat
        /\ RunOf(log, FirstOfPage, Event.no, Zero)
    BY NextTime
  <1>2. Offset * Zero = Zero * Offset
    BY <1>1, Constants, ProductsCommute
  <1>3. Timestamp = ToNs(log[Event.no].tm) + Zero * Offset
    BY <1>1, <1>2 DEF Timestamp
  <1>4. QED
    BY <1>1, <1>3 DEF Exact

LEMMA FitsLonger ==
  ASSUME NEW l, NEW F, NEW R, NEW n, NEW apart, NEW tr, TraceFits(l, F, R, apart, tr)
  PROVE  TraceFits(l, F, R \cup {n}, apart, tr)
  BY DEF TraceFits

LEMMA ReadInstant ==
  ASSUME NEW l, NEW F, NEW R \in SUBSET Nat, NEW n \in Nat, NEW apart, NEW tr, NEW ranges, NEW at,
         l[n].type = "Instant", Exact(l, F, n, at)
  PROVE  /\ RangesOpen(l, F, R, ranges) => RangesOpen(l, F, R \cup {n}, ranges)
         /\ RangesKnown(l, R, ranges) => RangesKnown(l, R \cup {n}, ranges)
         /\ LET more == tr \cup {[type |-> "point", no |-> n, at |-> at]}
            IN  /\ TraceFits(l, F, R, apart, tr) => TraceFits(l, F, R \cup {n}, apart, more)
                /\ TraceFull(l, R, tr) => TraceFull(l, R \cup {n}, more)
  <1> DEFINE point == [type |-> "point", no |-> n, at |-> at]
             S == R \cup {n}
  <1>1. \A ord : StartsOf(l, S, ord) = StartsOf(l, R, ord)
    BY NoStartRead
  <1>2. \A ord, s : LastOf(l, S, ord, s) <=> LastOf(l, R, ord, s)
    BY <1>1 DEF LastOf
  <1>3. \A ord : EndsOf(l, R, ord) \subseteq EndsOf(l, S, ord)
    BY DEF EndsOf
  <1>4. RangesOpen(l, F, R, ranges) => RangesOpen(l, F, S, ranges)
    BY <1>2 DEF RangesOpen
  <1>5. ASSUME RangesKnown(l, R, ranges), NEW ord \in OrdId, NEW s \in S, LastOf(l, S, ord, s)
        PROVE  ranges[ord].no = s \/ \E e \in EndsOf(l, S, ord) : e > s
    <2>1. LastOf(l, R, ord, s) /\ s \in R
      BY <1>2, <1>5 DEF LastOf, StartsOf
    <2>2. QED
      BY <1>3, <1>5, <2>1 DEF RangesKnown
  <1>6. point.type = "point" /\ point.no = n /\ point.at = at
    OBVIOUS
  <1> HIDE DEF point
  <1>7. ASSUME TraceFits(l, F, R, apart, tr) PROVE TraceFits(l, F, S, apart, tr \cup {point})
    <2>1. TraceFits(l, F, S, apart, tr)
      BY <1>7, FitsLonger
    <2>2. n \in S /\ point.type # "range"
      BY <1>6
    <2>3. QED
      BY <1>6, <2>1, <2>2 DEF TraceFits
  <1>8. ASSUME TraceFull(l, R, tr) PROVE TraceFull(l, S, tr \cup {point})
    BY <1>6, <1>8 DEF TraceFull
  <1>9. QED
    BY <1>4, <1>5, <1>7, <1>8 DEF RangesKnown, point

LEMMA ReadStart ==
  ASSUME NEW l, NEW F, NEW R \in SUBSET Nat, NEW n \in Nat, \A x \in R : x < n,
         NEW apart, NEW tr, NEW ranges \in [OrdId -> [no : 0..MaxEvents, tm : Nat]],
         NEW ord \in OrdId, NEW at,
         l[n].type = "RangeStart", ord = OrdIn(l, n), Exact(l, F, n, at)
  PROVE  LET more == [ranges EXCEPT ![ord] = [no |-> n, tm |-> at]]
         IN  /\ RangesOpen(l, F, R, ranges) => RangesOpen(l, F, R \cup {n}, more)
             /\ RangesKnown(l, R, ranges) => RangesKnown(l, R \cup {n}, more)
             /\ TraceFull(l, R, tr) => TraceFull(l, R \cup {n}, tr)
  <1> DEFINE S == R \cup {n}
             range == [no |-> n, tm |-> at]
             more == [ranges EXCEPT ![ord] = range]
  <1>1. /\ more[ord] = range /\ range.no = n /\ range.tm = at
        /\ \A o \in OrdId : o # ord => more[o] = ranges[o]
    OBVIOUS
  <1> HIDE DEF more, range
  <1>2. \A o \in OrdId : o # ord => StartsOf(l, S, o) = StartsOf(l, R, o)
    BY DEF StartsOf
  <1>3. \A s : \A o \in OrdId : o # ord => (LastOf(l, S, o, s) <=> LastOf(l, R, o, s))
    BY <1>2 DEF LastOf
  <1>4. LastOf(l, S, ord, n)
    <2>1. n \in StartsOf(l, S, ord)
      BY DEF StartsOf
    <2>2. \A t \in StartsOf(l, S, ord) : t =< n
      <3>1. StartsOf(l, S, ord) \subseteq S
        BY DEF StartsOf
      <3>2. \A t \in S : t =< n
        OBVIOUS
      <3>3. QED
        BY <3>1, <3>2
    <2>3. QED
      BY <2>1, <2>2 DEF LastOf
  <1>5. \A o : EndsOf(l, R, o) \subseteq EndsOf(l, S, o)
    BY DEF EndsOf
  <1>6. ASSUME RangesOpen(l, F, R, ranges) PROVE RangesOpen(l, F, S, more)
    BY <1>1, <1>3, <1>4, <1>6 DEF RangesOpen
  <1>7. ASSUME RangesKnown(l, R, ranges), NEW o \in OrdId, NEW s \in S, LastOf(l, S, o, s)
        PROVE  more[o].no = s \/ \E e \in EndsOf(l, S, o) : e > s
    <2>1. CASE o = ord
      <3>1. n \in StartsOf(l, S, ord) /\ s \in StartsOf(l, S, ord)
        BY <1>4, <1>7, <2>1 DEF LastOf
      <3>2. n =< s /\ s =< n
        BY <1>4, <1>7, <2>1, <3>1 DEF LastOf
      <3>3. s = n
        BY <3>2
      <3>4. QED
        BY <1>1, <2>1, <3>3
    <2>2. CASE o # ord
      <3>1. LastOf(l, R, o, s)
        BY <1>3, <1>7, <2>2
      <3>2. s \in R
        BY <3>1 DEF LastOf, StartsOf
      <3>3. QED
        BY <1>1, <1>5, <1>7, <2>2, <3>1, <3>2 DEF RangesKnown
    <2>3. QED
      BY <2>1, <2>2
  <1>8. ASSUME TraceFull(l, R, tr) PROVE TraceFull(l, S, tr)
    BY <1>8 DEF TraceFull
  <1>9. QED
    BY <1>6, <1>7, <1>8 DEF RangesKnown, more, range

LEMMA ReadRangeEnd ==
  ASSUME NEW l, NEW F, NEW R \in SUBSET Nat, NEW n \in Nat, \A x \in R : x < n,
         NEW ranges \in [OrdId -> [no : 0..MaxEvents, tm : Nat]], NEW ord \in OrdId,
         l[n].type = "RangeEnd", ord = OrdIn(l, l[n].start), RangesOpen(l, F, R, ranges)
  PROVE  LET fewer == [ranges EXCEPT ![ord] = NoRange]
         IN  /\ RangesOpen(l, F, R \cup {n}, fewer)
             /\ RangesKnown(l, R, ranges) => RangesKnown(l, R \cup {n}, fewer)
  <1> DEFINE S == R \cup {n}
             fewer == [ranges EXCEPT ![ord] = NoRange]
  <1>1. fewer[ord] = NoRange /\ \A o \in OrdId : o # ord => fewer[o] = ranges[o]
    OBVIOUS
  <1> HIDE DEF fewer
  <1>2. \A o : StartsOf(l, S, o) = StartsOf(l, R, o)
    BY NoStartRead
  <1>3. \A o, s : LastOf(l, S, o, s) <=> LastOf(l, R, o, s)
    BY <1>2 DEF LastOf
  <1>4. \A o : EndsOf(l, R, o) \subseteq EndsOf(l, S, o)
    BY DEF EndsOf
  <1>5. RangesOpen(l, F, S, fewer)
    BY <1>1, <1>3 DEF RangesOpen
  <1>6. ASSUME RangesKnown(l, R, ranges), NEW o \in OrdId, NEW s \in S, LastOf(l, S, o, s)
        PROVE  fewer[o].no = s \/ \E e \in EndsOf(l, S, o) : e > s
    <2>1. LastOf(l, R, o, s) /\ s \in R /\ s < n
      BY <1>3, <1>6 DEF LastOf, StartsOf
    <2>2. CASE o = ord
      <3>1. n \in EndsOf(l, S, ord)
        BY DEF EndsOf
      <3>2. n > s
        BY <2>1
      <3>3. QED
        BY <2>2, <3>1, <3>2
    <2>3. CASE o # ord
      BY <1>1, <1>4, <1>6, <2>1, <2>3 DEF RangesKnown
    <2>4. QED
      BY <2>2, <2>3
  <1>7. QED
    BY <1>5, <1>6 DEF RangesKnown, fewer

(* The range that an end n and the start that is open are joined to.         *)
LEMMA RangeJoined ==
  ASSUME NEW l, NEW F, NEW R, NEW n, NEW at, NEW range, NEW apart, NEW tr, NEW joined,
         l[n].type = "RangeEnd", Exact(l, F, n, at),
         range.no \in R, Exact(l, F, range.no, range.tm), apart => l[n].start = range.no,
         joined.type = "range", joined.from = range.no, joined.to = n,
         joined.begin = range.tm, joined.end = at
  PROVE  /\ TraceFits(l, F, R, apart, tr) => TraceFits(l, F, R \cup {n}, apart, tr \cup {joined})
         /\ TraceFull(l, R, tr) => TraceFull(l, R \cup {n}, tr \cup {joined})
  <1>1. ASSUME TraceFits(l, F, R, apart, tr)
        PROVE  TraceFits(l, F, R \cup {n}, apart, tr \cup {joined})
    <2>1. TraceFits(l, F, R \cup {n}, apart, tr)
      BY <1>1, FitsLonger
    <2>2. n \in R \cup {n} /\ joined.type # "point"
      OBVIOUS
    <2>3. QED
      BY <2>1, <2>2 DEF TraceFits
  <1>2. ASSUME TraceFull(l, R, tr) PROVE TraceFull(l, R \cup {n}, tr \cup {joined})
    BY <1>2 DEF TraceFull
  <1>3. QED
    BY <1>1, <1>2
-----------------------------------------------------------------------------
LEMMA InitParse == Init => ParseInv
  <1> SUFFICES ASSUME Init PROVE ParseInv
    OBVIOUS
  <1>1. /\ log = <<>> /\ event_buf = <<>> /\ phase = "record" /\ trace = {} /\ pageNo = 0
        /\ cur_started_ranges = [ord \in OrdId |-> NoRange]
    BY DEF Init
  <1>2. Read = {}
    BY <1>1 DEF Read
  <1>3. RangesOpen(log, FirstOfPage, Read, cur_started_ranges)
    BY <1>1 DEF RangesOpen
  <1>4. /\ RangesKnown(log, Read, cur_started_ranges)
        /\ TraceFits(log, FirstOfPage, Read, Apart, trace) /\ TraceFull(log, Read, trace)
    BY <1>1, <1>2 DEF RangesKnown, TraceFits, TraceFull
  <1>5. QED
    BY <1>1, <1>3, <1>4 DEF ParseInv

(* Before parsing nothing has been read.                                     *)
LEMMA NotYet ==
  ASSUME TimeInv, ParseInv, phase \in {"record", "decode"}, UNCHANGED parseVars,
         phase' # "done", phase' = "panicked" => missed_events' # {}
  PROVE  ParseInv'
  <1>1. /\ pageNo' = 0 /\ trace' = {}
        /\ cur_started_ranges' = [ord \in OrdId |-> NoRange]
    BY DEF TimeInv, ParserInStep, ParseInv, parseVars
  <1>2. Read' = {}
    <2>1. \A p \in 1..Len(event_buf') : ~(p < 0 \/ p = 0)
      OBVIOUS
    <2>2. QED
      BY <1>1, <2>1 DEF Read, ReadAt
  <1>3. RangesOpen(log, FirstOfPage, Read, cur_started_ranges)'
    BY <1>1 DEF RangesOpen
  <1>4. /\ RangesKnown(log, Read, cur_started_ranges)'
        /\ TraceFits(log, FirstOfPage, Read, Apart, trace)' /\ TraceFull(log, Read, trace)'
    BY <1>1, <1>2 DEF RangesKnown, TraceFits, TraceFull
  <1>5. QED
    BY <1>1, <1>3, <1>4 DEF ParseInv

LEMMA SameLog ==
  ASSUME UNCHANGED <<log, missed_events, event_buf>>
  PROVE  /\ OrdReused' <=> OrdReused
         /\ NoWrap' <=> NoWrap
         /\ Apart' <=> Apart
         /\ ClockIsSteady' <=> ClockIsSteady
         /\ FirstOfPage' = FirstOfPage
  BY DEF OrdReused, NoWrap, Apart, ClockIsSteady, FirstOfPage, Starts, OrdOf

(* A step of the parser that reads no event.                                 *)
LEMMA NoEventRead ==
  ASSUME ParseInv, phase \in {"parse", "done", "panicked"},
         phase = "panicked" => phase' = "panicked",
         UNCHANGED <<log, missed_events, event_buf, cur_started_ranges, trace>>, Read' = Read,
         phase' \notin {"record", "decode"},
         phase' = "panicked" /\ missed_events = {} /\ ~OrdReused =>
           event_buf = <<>> \/ ~ClockIsSteady,
         phase' = "done" => (PageRead /\ pageNo = Len(event_buf))'
  PROVE  ParseInv'
  <1>1. TraceFits(log, FirstOfPage, Read, Apart', trace)
    BY SameLog DEF ParseInv, TraceFits
  <1>2. QED
    BY <1>1, SameLog DEF ParseInv

LEMMA BeginPageParse == ASSUME TimeInv, ParseInv, BeginPage PROVE ParseInv'
  <1>1. /\ phase = "parse" /\ phase' = phase /\ PageRead /\ pageNo' = pageNo + 1 /\ eventNo' = 0
        /\ UNCHANGED <<log, missed_events, event_buf, cur_started_ranges, trace>>
    BY DEF BeginPage, StartedAcrossPages, appVars, readVars
  <1>2. /\ pageNo \in Nat /\ event_buf \in Seq(Page) /\ Len(event_buf) \in Nat
        /\ eventNo = IF pageNo = 0 THEN 0 ELSE Len(event_buf[pageNo].events)
    BY <1>1, NotEmpty DEF TimeInv, Typed, ParserTyped, FileTyped, PageRead
  <1>3. \A p \in 1..Len(event_buf) : \A i \in 1..Len(event_buf[p].events) :
          ReadAt(p, i)' <=> ReadAt(p, i)
    <2>1. \A p \in 1..Len(event_buf) : p < pageNo + 1 <=> p < pageNo \/ p = pageNo
      BY <1>2
    <2>2. ASSUME NEW p \in 1..Len(event_buf), NEW i \in 1..Len(event_buf[p].events)
          PROVE  ~(i =< 0) /\ (p = pageNo => i =< eventNo)
      <3>1. event_buf[p] \in Page
        BY <1>2, ElementTyped
      <3>2. Len(event_buf[p].events) \in Nat
        BY <3>1, NotEmpty DEF Page
      <3>3. QED
        BY <1>2, <3>2
    <2>3. QED
      BY <1>1, <2>1, <2>2 DEF ReadAt
  <1>4. Read' = Read
    BY <1>1, <1>3 DEF Read
  <1>5. QED
    BY <1>1, <1>4, NoEventRead

(* While the clock is steady, no page ends before it starts.                 *)
LEMMA SteadyIsForward ==
  ASSUME TimeInv, ClockIsSteady, NEW p \in 1..Len(event_buf)
  PROVE  ~Backward(event_buf[p].header)
  <1>1. PICK b \in Nat : /\ Follows(log, b, event_buf[p].events)
                         /\ event_buf[p].header.start = log[b + 1].tm
                         /\ event_buf[p].header.end = log[b + Len(event_buf[p].events)].tm
    BY DEF TimeInv, FileChained, Chained
  <1>2. event_buf[p].header \in Header /\ Len(event_buf[p].events) \in Nat /\ Len(log) \in Nat
    <2>1. event_buf[p] \in Page
      BY ElementTyped DEF TimeInv, Typed, FileTyped
    <2>2. QED
      BY <2>1, NotEmpty DEF Page, TimeInv, Typed, LogTyped
  <1> DEFINE n == Len(event_buf[p].events)
  <1>3. b + 1 \in 1..Len(log) /\ b + n \in 1..Len(log) /\ b + 1 =< b + n
    BY <1>1, <1>2 DEF Follows
  <1>4. log[b + 1].tm =< log[b + n].tm
    BY <1>3 DEF TimeInv, Steady
  <1>5. event_buf[p].header.start =< event_buf[p].header.end
    BY <1>1, <1>4
  <1>6. event_buf[p].header.start \in Int /\ event_buf[p].header.end \in Int
    BY <1>2 DEF Header
  <1>7. QED
    BY <1>5, <1>6 DEF Backward

LEMMA PanicParse == ASSUME TimeInv, ParseInv, OverflowPanic PROVE ParseInv'
  <1>1. /\ phase = "parse" /\ phase' = "panicked"
        /\ UNCHANGED <<log, missed_events, event_buf, cur_started_ranges, trace, pageNo, eventNo>>
    BY DEF OverflowPanic, appVars, readVars, parseVars
  <1>2. Read' = Read
    BY <1>1 DEF Read, ReadAt
  <1>3. ASSUME event_buf # <<>>, ClockIsSteady PROVE FALSE
    <2>1. CASE ~PageRead /\ AddOverflows
      BY <1>1, <1>3, <2>1, NextTime
    <2>2. CASE PageRead /\ pageNo > 0 /\ Backward(event_buf[pageNo].header)
      <3>1. pageNo \in 1..Len(event_buf)
        BY <2>2, NotEmpty DEF TimeInv, Typed, ParserTyped, FileTyped, ParserInStep
      <3>2. QED
        BY <1>3, <2>2, <3>1, SteadyIsForward
    <2>3. QED
      BY <1>3, <2>1, <2>2 DEF OverflowPanic
  <1>4. QED
    BY <1>1, <1>2, <1>3, NoEventRead

LEMMA FinishParse == ASSUME TimeInv, ParseInv, Finish PROVE ParseInv'
  <1>1. /\ phase = "parse" /\ phase' = "done" /\ PageRead /\ pageNo = Len(event_buf)
        /\ UNCHANGED <<log, missed_events, event_buf, cur_started_ranges, trace, pageNo, eventNo>>
    BY DEF Finish, appVars, readVars, parseVars
  <1>2. Read' = Read /\ PageRead'
    BY <1>1 DEF Read, ReadAt, PageRead
  <1>3. QED
    BY <1>1, <1>2, NoEventRead

(* A step that reads an event.                                               *)
LEMMA EventParse ==
  ASSUME RoundTripInv, ParseInstant \/ ParseRangeStart \/ ParseRangeEnd
  PROVE  ParseInv'
  <1> DEFINE n == Event.no
             R == Read
             F == FirstOfPage
             at == Timestamp
             ranges == cur_started_ranges
             ord == Event.ord
  <1>1. /\ TimeInv /\ OrdInv /\ OrderInv /\ phase = "parse" /\ ~PageRead
        /\ UNCHANGED <<log, missed_events, event_buf>>
        /\ RangesOpen(log, F, R, ranges) /\ RangesKnown(log, R, ranges)
        /\ TraceFits(log, F, R, Apart, trace) /\ TraceFull(log, R, trace)
    BY DEF RoundTripInv, ParseInv, ParseInstant, ParseRangeStart, ParseRangeEnd, NextEvent,
           appVars, readVars
  <1>2. /\ n \in 1..Len(log) /\ Exact(log, F, n, at)
        /\ \A x \in R : x < n
        /\ missed_events = {} => R = 1..(n - 1)
        /\ R \subseteq 1..Len(log) /\ Len(log) \in Nat
    BY <1>1, NextTime, ExactNow, ReadNext, NotEmpty DEF Read, TimeInv, Typed, LogTyped
  <1>3. /\ R \in SUBSET Nat /\ n \in Nat /\ ord \in OrdId
        /\ ranges \in [OrdId -> [no : 0..MaxEvents, tm : Nat]]
    <2>1. Event \in Recorded
      BY <1>1, CurrentEvent DEF TimeInv
    <2>2. ord \in OrdId
      BY <2>1 DEF Recorded
    <2>3. ranges \in [OrdId -> [no : 0..MaxEvents, tm : Nat]]
      BY <1>1 DEF TimeInv, Typed, ParserTyped
    <2> HIDE DEF n, R, ord, ranges
    <2>4. n \in Nat /\ \A x \in R : x \in Nat
      BY <1>2
    <2>5. QED
      BY <2>2, <2>3, <2>4
  <1>4. /\ Event.type = log[n].type
        /\ Event.type = "RangeStart" => ord = OrdIn(log, n)
        /\ Event.type = "RangeEnd" => ord = OrdIn(log, log[n].start)
    BY <1>1, CurrentEvent DEF TimeInv, OrdInv, PagesFit, AllFit, EventFits, Event
  <1>5. Read' = R \cup {n}
    BY <1>1, ReadNext DEF ParseInstant, ParseRangeStart, ParseRangeEnd
  <1>6. FirstOfPage' = F /\ log' = log /\ (Apart' <=> Apart) /\ (OrdReused' <=> OrdReused)
    BY <1>1, SameLog
  <1> HIDE DEF n, R, F, at, ranges, ord
  <1>7. CASE ParseInstant
    <2>1. /\ Event.type = "Instant" /\ phase' = "parse" /\ cur_started_ranges' = ranges
          /\ trace' = trace \cup {[type |-> "point", no |-> n, at |-> at]}
      BY <1>1, <1>7 DEF ParseInstant, NextEvent, add_point_event, n, at, ranges
    <2>2. /\ RangesOpen(log, F, R \cup {n}, ranges) /\ RangesKnown(log, R \cup {n}, ranges)
          /\ TraceFits(log, F, R \cup {n}, Apart, trace') /\ TraceFull(log, R \cup {n}, trace')
      BY <1>1, <1>2, <1>3, <1>4, <2>1, ReadInstant
    <2>3. TraceFits(log, F, R \cup {n}, Apart', trace')
      BY <1>6, <2>2 DEF TraceFits
    <2>4. QED
      BY <1>5, <1>6, <2>1, <2>2, <2>3 DEF ParseInv
  <1>8. CASE ParseRangeStart
    <2>1. /\ Event.type = "RangeStart" /\ phase' = "parse" /\ trace' = trace
          /\ cur_started_ranges' = [ranges EXCEPT ![ord] = [no |-> n, tm |-> at]]
      BY <1>1, <1>8 DEF ParseRangeStart, NextEvent, n, at, ranges, ord
    <2>2. /\ RangesOpen(log, F, R \cup {n}, cur_started_ranges')
          /\ RangesKnown(log, R \cup {n}, cur_started_ranges')
          /\ TraceFull(log, R \cup {n}, trace)
      BY <1>1, <1>2, <1>3, <1>4, <2>1, ReadStart
    <2>3. TraceFits(log, F, R \cup {n}, Apart', trace)
      <3>1. TraceFits(log, F, R \cup {n}, Apart, trace)
        BY <1>1, FitsLonger
      <3>2. QED
        BY <1>6, <3>1 DEF TraceFits
    <2>4. QED
      BY <1>5, <1>6, <2>1, <2>2, <2>3 DEF ParseInv
  <1>9. CASE ParseRangeEnd
    <2> DEFINE range == ranges[ord]
               joined == [type |-> "range", from |-> range.no, to |-> n, begin |-> range.tm,
                          end |-> at]
    <2>1. /\ Event.type = "RangeEnd" /\ log[n].type = "RangeEnd"
          /\ cur_started_ranges' = [ranges EXCEPT ![ord] = NoRange]
          /\ range = NoRange => phase' = "panicked" /\ trace' = trace
          /\ range # NoRange => phase' = "parse" /\ trace' = trace \cup {joined}
      BY <1>1, <1>4, <1>9
         DEF ParseRangeEnd, NextEvent, add_range_event, n, at, ranges, ord
    <2>2. /\ RangesOpen(log, F, R \cup {n}, cur_started_ranges')
          /\ RangesKnown(log, R \cup {n}, cur_started_ranges')
      BY <1>1, <1>2, <1>3, <1>4, <2>1, ReadRangeEnd
    <2>3. CASE range = NoRange
      <3>1. missed_events # {} \/ OrdReused
        <4>1. ASSUME missed_events = {}, ~OrdReused PROVE FALSE
          <5>1. R = 1..(n - 1) /\ R \in SUBSET (1..Len(log)) /\ ord = OrdIn(log, log[n].start)
            BY <1>2, <1>4, <2>1, <4>1
          <5>2. ranges[ord] # NoRange
            BY <1>1, <1>2, <1>3, <2>1, <4>1, <5>1, StartIsOpen
          <5>3. QED
            BY <2>3, <5>2
        <4>2. QED
          BY <4>1
      <3>2. TraceFits(log, F, R \cup {n}, Apart', trace)
        <4>1. TraceFits(log, F, R \cup {n}, Apart, trace)
          BY <1>1, FitsLonger
        <4>2. QED
          BY <1>6, <4>1 DEF TraceFits
      <3>3. QED
        BY <1>1, <1>5, <1>6, <2>1, <2>2, <2>3, <3>1, <3>2 DEF ParseInv
    <2>4. CASE range # NoRange
      <3>1. ASSUME Apart PROVE log[n].start = range.no
        <4>1. LastOf(log, R, ord, range.no) /\ range.no \in R /\ log[range.no].type = "RangeStart"
              /\ OrdIn(log, range.no) = ord /\ ord = OrdIn(log, log[n].start)
          BY <1>1, <1>3, <1>4, <2>1, <2>4 DEF RangesOpen, LastOf, StartsOf
        <4>2. CASE missed_events = {}
          <5>1. R = 1..(n - 1) /\ R \in SUBSET (1..Len(log)) /\ ~OrdReused
            BY <1>2, <3>1, <4>2 DEF Apart
          <5>2. log[n].start \in R
            BY <1>1, <1>2, <2>1, <5>1 DEF OrdInv, EndsPaired
          <5>3. QED
            BY <1>1, <1>2, <2>1, <4>1, <5>1, <5>2, JoinedIsOwn
        <4>3. CASE NoWrap
          <5>1. range.no \in 1..Len(log)
            BY <1>2, <4>1
          <5>2. QED
            BY <1>1, <1>2, <2>1, <4>1, <4>3, <5>1, JoinedIsOnly
        <4>4. QED
          BY <3>1, <4>2, <4>3 DEF Apart
      <3>2. TraceFits(log, F, R \cup {n}, Apart, trace') /\ TraceFull(log, R \cup {n}, trace')
        <4>1. /\ joined.type = "range" /\ joined.from = range.no /\ joined.to = n
              /\ joined.begin = range.tm /\ joined.end = at /\ trace' = trace \cup {joined}
          BY <2>1, <2>4
        <4>2. range.no \in R /\ Exact(log, F, range.no, range.tm)
          BY <1>1, <1>3, <2>4 DEF RangesOpen, LastOf, StartsOf
        <4>3. PICK apart \in BOOLEAN : apart <=> Apart
          BY Zenon
        <4>4. apart => log[n].start = range.no
          BY <3>1, <4>3
        <4>5. TraceFits(log, F, R, apart, trace)
          BY <1>1, <4>3 DEF TraceFits
        <4> HIDE DEF joined, range
        <4>6. /\ TraceFits(log, F, R \cup {n}, apart, trace \cup {joined})
              /\ TraceFull(log, R \cup {n}, trace \cup {joined})
          BY <1>1, <1>2, <2>1, <4>1, <4>2, <4>4, <4>5, RangeJoined
        <4>7. QED
          BY <4>1, <4>3, <4>6 DEF TraceFits
      <3>3. TraceFits(log, F, R \cup {n}, Apart', trace')
        BY <1>6, <3>2 DEF TraceFits
      <3>4. QED
        BY <1>5, <1>6, <2>1, <2>2, <2>4, <3>2, <3>3 DEF ParseInv
    <2>5. QED
      BY <2>3, <2>4
  <1>10. QED
    BY <1>7, <1>8, <1>9

LEMMA NextParse == ASSUME RoundTripInv, [Next]_vars PROVE ParseInv'
  <1>1. TimeInv /\ OrdInv /\ OrderInv /\ ParseInv
    BY DEF RoundTripInv
  <1>2. CASE \/ \E now \in Now : event_instant(now) \/ event_range_start(now)
             \/ \E now \in Now, guard \in guards : event_range_end(guard, now)
    <2>1. phase = "record" /\ phase' = "record" /\ UNCHANGED parseVars
      BY <1>2 DEF event_instant, event_range_start, event_range_end, PushEvent
    <2>2. QED
      BY <1>1, <2>1, NotYet
  <1>3. CASE Flush \/ Close \/ ReadData
    <2>1. phase \in {"record", "decode"} /\ phase' \in {"record", "decode"} /\ UNCHANGED parseVars
      BY <1>3 DEF Flush, Close, ReadData, Packet
    <2>2. QED
      BY <1>1, <2>1, NotYet
  <1>4. CASE ReadFailed
    <2>1. phase = "decode" /\ phase' \in {"decode", "panicked"} /\ UNCHANGED parseVars
      BY <1>4 DEF ReadFailed, Packet
    <2>2. missed_events' # {}
      BY <1>4 DEF ReadFailed
    <2>3. QED
      BY <1>1, <2>1, <2>2, NotYet
  <1>5. CASE ReadEnd
    <2>1. phase = "decode" /\ phase' = "parse" /\ UNCHANGED parseVars
      BY <1>5 DEF ReadEnd
    <2>2. QED
      BY <1>1, <2>1, NotYet
  <1>6. CASE UNCHANGED vars
    <2>1. /\ UNCHANGED <<log, missed_events, event_buf, cur_started_ranges, trace, phase, pageNo,
                         eventNo>>
          /\ UNCHANGED parseVars
      BY <1>6 DEF vars, appVars, readVars, parseVars
    <2>2. Read' = Read /\ (PageRead' <=> PageRead)
      BY <2>1 DEF Read, ReadAt, PageRead
    <2>3. TraceFits(log, FirstOfPage, Read, Apart', trace)
      BY <1>1, <2>1, SameLog DEF ParseInv, TraceFits
    <2>4. QED
      BY <1>1, <2>1, <2>2, <2>3, SameLog DEF ParseInv
  <1>7. QED
    BY <1>1, <1>2, <1>3, <1>4, <1>5, <1>6, BeginPageParse, EventParse, PanicParse, FinishParse
       DEF Next, Ended
-----------------------------------------------------------------------------
(***************************************************************************)
(* The invariant of the whole way: ord ids are those of the ranges that    *)
(* started, pages are in the order in which they were recorded, and the    *)
(* parser has the ranges open that it should have of what it has read.     *)
(***************************************************************************)
THEOREM RoundTrip == Spec => []RoundTripInv
  <1>1. Init => RoundTripInv
    BY InitTime, InitOrd, InitOrder, InitParse DEF RoundTripInv
  <1>2. RoundTripInv /\ [Next]_vars => RoundTripInv'
    <2> SUFFICES ASSUME RoundTripInv, [Next]_vars PROVE RoundTripInv'
      OBVIOUS
    <2>1. TimeInv /\ OrdInv /\ OrderInv
      BY DEF RoundTripInv
    <2>2. TimeInv'
      BY <2>1, NextKeepsTime
    <2>3. OrdInv'
      BY <2>1, NextOrd
    <2>4. OrderInv'
      BY <2>1, NextOrder
    <2>5. ParseInv'
      BY NextParse
    <2>6. QED
      BY <2>2, <2>3, <2>4, <2>5 DEF RoundTripInv
  <1>3. QED
    BY <1>1, <1>2, PTL DEF Spec

LEMMA ExactIsShown ==
  ASSUME NEW F, NEW no, NEW at, Exact(log, F, no, at) PROVE ShownAt(no, at)
  BY DEF Exact, RunOf, SameTime, ShownAt

(***************************************************************************)
(* A range in the trace has the two ends that one guard recorded, at their *)
(* times, as long as ord ids are apart: remove(ord_id) in parse_and_save   *)
(* finds the start that range_event gave this id, for any number of events *)
(* and ord ids, pages and dropped pages.                                   *)
(***************************************************************************)
THEOREM RangesMatch == Spec => []RangesMatchIfApart
  <1>1. RoundTripInv => RangesMatchIfApart
    <2> SUFFICES ASSUME RoundTripInv, Apart, NEW r \in trace, r.type = "range"
                 PROVE  /\ log[r.to].start = r.from
                        /\ ShownAt(r.from, r.begin) /\ ShownAt(r.to, r.end)
      BY DEF RangesMatchIfApart, RangesMatchGuards, Apart
    <2>1. TraceFits(log, FirstOfPage, Read, Apart, trace)
      BY DEF RoundTripInv, ParseInv
    <2>2. /\ log[r.to].start = r.from
          /\ Exact(log, FirstOfPage, r.from, r.begin) /\ Exact(log, FirstOfPage, r.to, r.end)
      BY <2>1 DEF TraceFits
    <2>3. QED
      BY <2>2, ExactIsShown
  <1>2. QED
    BY <1>1, RoundTrip, PTL

(***************************************************************************)
(* Without dropped pages and reused ord ids, parse_and_save writes every   *)
(* instant event and every ended range that was flushed, and its unwrap of *)
(* an unknown ord id does not panic.                                       *)
(***************************************************************************)
THEOREM TraceComplete == Spec => []TraceIsComplete
  <1>1. RoundTripInv => TraceIsComplete
    <2> SUFFICES ASSUME RoundTripInv, phase \in {"done", "panicked"}, missed_events = {},
                        ~OrdReused
                 PROVE  /\ phase = "panicked" => event_buf = <<>> \/ ~ClockIsSteady
                        /\ phase = "done" => \A no \in 1..(Len(log) - Len(buf)) :
                             /\ log[no].type = "Instant" =>
                                  \E p \in trace : p.type = "point" /\ p.no = no
                             /\ log[no].type = "RangeEnd" =>
                                  \E r \in trace : r.type = "range" /\ r.to = no
      BY DEF TraceIsComplete
    <2>1. TimeInv /\ OrderInv /\ ParseInv
      BY DEF RoundTripInv
    <2>2. phase = "panicked" => event_buf = <<>> \/ ~ClockIsSteady
      BY <2>1 DEF ParseInv
    <2>3. ASSUME phase = "done" PROVE 1..Flushed \subseteq Read /\ TraceFull(log, Read, trace)
      <3>1. PageRead /\ pageNo = Len(event_buf) /\ TraceFull(log, Read, trace)
        BY <2>1, <2>3 DEF ParseInv
      <3>2. QED
        BY <2>1, <2>3, <3>1, AllRead
    <2>4. QED
      BY <2>2, <2>3 DEF TraceFull, Flushed
  <1>2. QED
    BY <1>1, RoundTrip, PTL
-----------------------------------------------------------------------------
(* What is shown, is shown at the time of an event that was read.            *)
LEMMA ShownIsExact ==
  ASSUME RoundTripInv, NEW x \in ShownTimes
  PROVE  x[1] \in 1..Len(log) /\ Exact(log, FirstOfPage, x[1], x[2])
  <1>1. TraceFits(log, FirstOfPage, Read, Apart, trace) /\ Read \subseteq 1..Len(log)
    BY DEF RoundTripInv, ParseInv, Read
  <1>2. CASE \E p \in trace : p.type = "point" /\ x = <<p.no, p.at>>
    <2>1. PICK p \in trace : p.type = "point" /\ x = <<p.no, p.at>>
      BY <1>2
    <2>2. x[1] = p.no /\ x[2] = p.at
      BY <2>1
    <2>3. p.no \in Read /\ Exact(log, FirstOfPage, p.no, p.at)
      BY <1>1, <2>1 DEF TraceFits
    <2>4. QED
      BY <1>1, <2>2, <2>3
  <1>3. CASE \E r \in trace : r.type = "range" /\ (x = <<r.from, r.begin>> \/ x = <<r.to, r.end>>)
    <2>1. PICK r \in trace : /\ r.type = "range"
                             /\ x = <<r.from, r.begin>> \/ x = <<r.to, r.end>>
      BY <1>3
    <2>2. (x[1] = r.from /\ x[2] = r.begin) \/ (x[1] = r.to /\ x[2] = r.end)
      BY <2>1
    <2>3. /\ r.from \in Read /\ Exact(log, FirstOfPage, r.from, r.begin)
          /\ r.to \in Read /\ Exact(log, FirstOfPage, r.to, r.end)
      BY <1>1, <2>1 DEF TraceFits
    <2>4. QED
      BY <1>1, <2>2, <2>3
  <1>4. QED
    BY <1>2, <1>3 DEF ShownTimes

(* What takes c nanoseconds is c nanoseconds on, although both are cut.      *)
LEMMA NanosApart ==
  ASSUME NEW a \in Nat, NEW b \in Nat, NEW c \in Nat, c * Ticks =< (b - a) * Nanos
  PROVE  ToNs(a) + c =< ToNs(b)
  <1> DEFINE q == (a * Nanos) \div Ticks
  <1>1. a * Nanos \in Nat /\ b * Nanos \in Nat /\ c * Ticks \in Nat
    BY Constants
  <1>2. (b - a) * Nanos = b * Nanos - a * Nanos
    BY Constants
  <1>3. q \in Nat /\ q * Ticks =< a * Nanos
    BY <1>1, Constants, DivBelow
  <1> HIDE DEF q
  <1>4. (q + c) * Ticks = q * Ticks + c * Ticks /\ q * Ticks \in Nat
    BY <1>3, Constants
  <1>5. q + c \in Nat /\ (q + c) * Ticks =< b * Nanos
    BY <1>1, <1>2, <1>3, <1>4
  <1>6. q + c =< (b * Nanos) \div Ticks
    BY <1>1, <1>5, Constants, DivAtLeast
  <1>7. QED
    BY <1>6 DEF q, ToNs

LEMMA OffsetsApart ==
  ASSUME NEW k \in Nat, NEW m \in Nat, k < m, NEW off \in Nat \ {0}
  PROVE  k * off < m * off
  <1>1. PICK d \in Nat : m = k + 1 + d
    <2>1. m - k - 1 \in Nat /\ m = k + 1 + (m - k - 1)
      OBVIOUS
    <2>2. QED
      BY <2>1
  <1>2. m * off = k * off + off + d * off
    BY <1>1
  <1>3. d * off \in Nat /\ k * off \in Nat /\ m * off \in Nat
    BY <1>1
  <1>4. QED
    BY <1>2, <1>3

(* Of two events with one time the later has more of them before it.         *)
LEMMA RunsNest ==
  ASSUME TimeInv, ClockIsSteady, RunsAreShort,
         NEW n \in 1..Len(log), NEW m \in 1..Len(log), n < m, log[n].tm = log[m].tm,
         NEW k, SameTime(log, n, k), NEW d, RunOf(log, FirstOfPage, m, d)
  PROVE  k < d
  <1>1. Len(log) \in Nat /\ Steady(log) /\ \A i \in 1..Len(log) : log[i].tm \in Int
    <2>1. log \in Seq(Logged)
      BY DEF TimeInv, Typed, LogTyped
    <2>2. \A i \in 1..Len(log) : log[i] \in Logged
      BY <2>1, ElementTyped
    <2>3. \A i \in 1..Len(log) : log[i].tm \in Int
      BY <2>2 DEF Logged
    <2>4. Steady(log)
      BY DEF TimeInv
    <2>5. QED
      BY <2>1, <2>3, <2>4, NotEmpty
  <1>2. /\ k \in 0..(n - 1) /\ d \in 0..(m - 1) /\ n \in Nat /\ m \in Nat
    BY <1>1 DEF RunOf, SameTime
  <1>3. log[n - k].tm = log[n].tm
    <2>1. CASE k = 0
      BY <1>2, <2>1
    <2>2. CASE k # 0
      BY <1>2, <2>2 DEF SameTime
    <2>3. QED
      BY <2>1, <2>2
  <1>4. log[m - d].tm = log[m].tm
    <2>1. CASE d = 0
      BY <1>2, <2>1
    <2>2. CASE d # 0
      BY <1>2, <2>2 DEF RunOf, SameTime
    <2>3. QED
      BY <2>1, <2>2
  <1>5. ASSUME n - k < m - d PROVE FALSE
    <2> DEFINE i == m - d - 1
    <2>1. i \in 1..Len(log) /\ n - k \in 1..Len(log) /\ n - k =< i /\ i =< m /\ m - d # 1
      <3>1. k \in Int /\ d \in Int /\ n - k >= 1 /\ n - k =< n /\ m - d =< m /\ n - k < m - d
        BY <1>2, <1>5
      <3>2. n =< Len(log) /\ m =< Len(log) /\ Len(log) \in Nat /\ n \in Int /\ m \in Int
        BY <1>1
      <3>3. QED
        BY <3>1, <3>2
    <2>2. log[n - k].tm =< log[i].tm /\ log[i].tm =< log[m].tm
      BY <1>1, <2>1 DEF Steady
    <2>3. log[i].tm = log[m].tm
      BY <1>1, <1>3, <2>1, <2>2
    <2>4. m - d \in FirstOfPage \ {1}
      BY <2>1, <2>3 DEF RunOf
    <2>5. log[i].tm # log[m - d].tm
      BY <2>4 DEF RunsAreShort
    <2>6. QED
      BY <1>4, <2>3, <2>5
  <1>6. QED
    BY <1>2, <1>5

(* A run's offsets take no longer than the clock to the next timestamp.      *)
LEMMA RunIsShort ==
  ASSUME TimeInv, RunsAreShort, NEW n \in 1..Len(log), NEW k, SameTime(log, n, k),
         NEW m \in 1..Len(log), log[n].tm < log[m].tm
  PROVE  k * Offset * Ticks =< (log[m].tm - log[n].tm) * Nanos
  <1>1. Len(log) \in Nat
    BY NotEmpty DEF TimeInv, Typed, LogTyped
  <1>2. k \in 0..(n - 1) /\ n - k \in 1..Len(log) /\ n - k =< n /\ n - (n - k) = k
    BY <1>1 DEF SameTime
  <1>3. log[n - k].tm = log[n].tm
    <2>1. CASE k = 0
      BY <1>1, <2>1
    <2>2. CASE k # 0
      BY <1>2, <2>2 DEF SameTime
    <2>3. QED
      BY <2>1, <2>2
  <1>4. (n - (n - k)) * Offset * Ticks =< (log[m].tm - log[n].tm) * Nanos
    BY <1>2, <1>3 DEF RunsAreShort
  <1>5. QED
    BY <1>2, <1>4

(***************************************************************************)
(* Nothing is shown before what was recorded earlier, and equal timestamps *)
(* are shown apart, for any events of a steady clock of any frequency      *)
(* whose runs of one timestamp are short: the offsets that parse_and_save  *)
(* adds order such a run and do not take it past the next timestamp, also  *)
(* when both are cut to nanoseconds.                                       *)
(***************************************************************************)
THEOREM InOrder == Spec => []ShownInOrder
  <1>1. RoundTripInv => ShownInOrder
    <2> SUFFICES ASSUME RoundTripInv, ClockIsSteady, RunsAreShort,
                        NEW x \in ShownTimes, NEW y \in ShownTimes, x[1] < y[1]
                 PROVE  /\ x[2] =< y[2]
                        /\ log[x[1]].tm = log[y[1]].tm => x[2] < y[2]
      BY DEF ShownInOrder
    <2> DEFINE n == x[1]
               m == y[1]
    <2>1. TimeInv /\ n \in 1..Len(log) /\ m \in 1..Len(log) /\ n < m
      BY ShownIsExact DEF RoundTripInv
    <2>2. PICK k \in Nat : /\ RunOf(log, FirstOfPage, n, k)
                           /\ x[2] = ToNs(log[n].tm) + k * Offset
      BY ShownIsExact DEF Exact
    <2>3. PICK d \in Nat : /\ RunOf(log, FirstOfPage, m, d)
                           /\ y[2] = ToNs(log[m].tm) + d * Offset
      BY ShownIsExact DEF Exact
    <2> HIDE DEF n, m
    <2>4. log[n].tm \in Nat /\ log[m].tm \in Nat /\ Len(log) \in Nat
      <3>1. log \in Seq(Logged)
        BY <2>1 DEF TimeInv, Typed, LogTyped
      <3>2. log[n] \in Logged /\ log[m] \in Logged
        BY <2>1, <3>1, ElementTyped
      <3>3. QED
        BY <3>1, <3>2, NotEmpty DEF Logged
    <2>5. log[n].tm =< log[m].tm
      BY <2>1, <2>4 DEF TimeInv, Steady
    <2>6. /\ k * Offset \in Nat /\ d * Offset \in Nat
          /\ ToNs(log[n].tm) \in Nat /\ ToNs(log[m].tm) \in Nat
      <3>1. \A c \in Nat : c * Offset \in Nat
        BY Constants
      <3>2. QED
        BY <2>4, <3>1, ToNsTyped
    <2>7. CASE log[n].tm < log[m].tm
      <3>1. k * Offset * Ticks =< (log[m].tm - log[n].tm) * Nanos
        BY <2>1, <2>2, <2>7, RunIsShort DEF RunOf
      <3>2. ToNs(log[n].tm) + k * Offset =< ToNs(log[m].tm)
        BY <2>4, <2>6, <3>1, NanosApart
      <3>3. x[2] =< y[2]
        BY <2>2, <2>3, <2>6, <3>2
      <3>4. QED
        BY <2>4, <2>7, <3>3 DEF n, m
    <2>8. CASE log[n].tm = log[m].tm
      <3>1. k < d
        BY <2>1, <2>2, <2>3, <2>8, RunsNest DEF RunOf
      <3>2. k * Offset < d * Offset
        BY <3>1, OffsetsApart, Constants
      <3>3. QED
        BY <2>2, <2>3, <2>6, <2>8, <3>2
    <2>9. QED
      BY <2>4, <2>5, <2>7, <2>8
  <1>2. QED
    BY <1>1, RoundTrip, PTL
-----------------------------------------------------------------------------
ReadingFile == phase \in {"decode", "parse"}

(* The guards of the steps of decode_packets and parse_and_save.             *)
ParserGoesOn ==
  \/ phase = "decode" /\ stream = <<>>
  \/ phase = "decode" /\ stream # <<>> /\ stream[1].type \in {"data", "failed"}
  \/ phase = "parse" /\ PageRead /\ pageNo < Len(event_buf)
  \/ phase = "parse" /\ PageRead /\ pageNo = Len(event_buf)
  \/ phase = "parse" /\ ~PageRead /\ Event.type \in {"Instant", "RangeStart", "RangeEnd"}

(* A step reads a packet, ends a loop, or goes on to the next of the pages   *)
(* or events, of which there are no more than before.                        *)
PacketFewer == phase = "decode" /\ phase' = "decode" /\ Len(stream') = Len(stream) - 1

LoopEnds ==
  \/ phase = "decode" /\ phase' \in {"parse", "panicked"}
  \/ phase = "parse" /\ phase' \in {"done", "panicked"}

PageOn ==
  /\ phase = "parse" /\ phase' = "parse" /\ event_buf' = event_buf
  /\ pageNo' = pageNo + 1 /\ pageNo' =< Len(event_buf)

EventOn ==
  /\ phase = "parse" /\ phase' = "parse" /\ event_buf' = event_buf
  /\ pageNo' = pageNo /\ pageNo \in 1..Len(event_buf)
  /\ eventNo' = eventNo + 1 /\ eventNo' =< Len(event_buf[pageNo].events)

LessToRead == PacketFewer \/ LoopEnds \/ PageOn \/ EventOn

LEMMA ParserNotStuck ==
  ASSUME TimeInv, ReadingFile PROVE ParserGoesOn
  <1>1. Typed /\ ParserInStep
    BY DEF TimeInv
  <1>2. CASE phase = "decode" /\ stream # <<>>
    <2>1. stream \in Seq(Packets) /\ 1 \in 1..Len(stream)
      BY <1>1, <1>2, NotEmpty DEF Typed, FileTyped
    <2>2. stream[1] \in Packets
      BY <2>1, ElementTyped
    <2>3. QED
      BY <1>2, <2>2 DEF ParserGoesOn, Packets
  <1>3. CASE phase = "parse" /\ ~PageRead
    <2>1. Event \in Recorded
      BY <1>1, <1>3, CurrentEvent
    <2>2. QED
      BY <1>3, <2>1 DEF ParserGoesOn, Recorded, Type
  <1>4. CASE phase = "parse" /\ PageRead
    <2>1. pageNo \in Nat /\ Len(event_buf) \in Nat /\ pageNo =< Len(event_buf)
      BY <1>1, NotEmpty DEF Typed, FileTyped, ParserTyped, ParserInStep
    <2>2. QED
      BY <1>4, <2>1 DEF ParserGoesOn
  <1>5. QED
    BY <1>2, <1>3, <1>4 DEF ReadingFile, ParserGoesOn

LEMMA ParserGetsOn ==
  ASSUME TimeInv, ReadingFile, Next PROVE LessToRead
  <1>1. Typed /\ ParserInStep
    BY DEF TimeInv
  <1>2. CASE ReadData \/ ReadFailed
    <2>1. /\ phase = "decode" /\ stream # <<>> /\ stream' = Tail(stream)
          /\ phase' \in {"decode", "panicked"}
      BY <1>2 DEF ReadData, ReadFailed, Packet
    <2>2. stream \in Seq(Packets)
      BY <1>1 DEF Typed, FileTyped
    <2>3. Len(Tail(stream)) = Len(stream) - 1
      BY <2>1, <2>2
    <2>4. QED
      BY <2>1, <2>3 DEF LessToRead, PacketFewer, LoopEnds
  <1>3. CASE ReadEnd \/ OverflowPanic \/ Finish
    BY <1>3 DEF ReadEnd, OverflowPanic, Finish, LessToRead, LoopEnds
  <1>4. CASE BeginPage
    <2>1. /\ phase = "parse" /\ phase' = phase /\ event_buf' = event_buf
          /\ pageNo' = pageNo + 1 /\ pageNo < Len(event_buf)
      BY <1>4 DEF BeginPage, readVars
    <2>2. pageNo \in Nat /\ Len(event_buf) \in Nat
      BY <1>1, NotEmpty DEF Typed, FileTyped, ParserTyped
    <2>3. QED
      BY <2>1, <2>2 DEF LessToRead, PageOn
  <1>5. CASE ParseInstant \/ ParseRangeStart \/ ParseRangeEnd
    <2>1. /\ phase = "parse" /\ ~PageRead /\ phase' \in {"parse", "panicked"}
          /\ event_buf' = event_buf /\ pageNo' = pageNo /\ eventNo' = eventNo + 1
      BY <1>5 DEF ParseInstant, ParseRangeStart, ParseRangeEnd, NextEvent, readVars
    <2>2. /\ pageNo \in 1..Len(event_buf)
          /\ eventNo + 1 \in 1..Len(event_buf[pageNo].events)
      BY <1>1, <2>1, CurrentEvent
    <2>3. QED
      BY <2>1, <2>2 DEF LessToRead, LoopEnds, EventOn
  <1>6. QED
    BY <1>2, <1>3, <1>4, <1>5
       DEF Next, ReadingFile, event_instant, event_range_start, event_range_end, PushEvent,
           Flush, Close, Ended

(***************************************************************************)
(* decode_packets and parse_and_save come to their end for any stream: in  *)
(* every state one of their steps is possible, and each of them leaves     *)
(* less to read, in the order of the loops: packets, pages, the events of  *)
(* a page.  So the end that TraceIsComplete speaks of is reached.          *)
(***************************************************************************)
THEOREM ReadingEnds ==
  Spec => /\ [](ReadingFile => ParserGoesOn)
          /\ [][ReadingFile => LessToRead]_vars
  <1>1. TimeInv => (ReadingFile => ParserGoesOn)
    BY ParserNotStuck
  <1>2. TimeInv /\ [Next]_vars => [ReadingFile => LessToRead]_vars
    BY ParserGetsOn
  <1>3. QED
    BY <1>1, <1>2, TimeInvariant, PTL DEF Spec
=============================================================================
