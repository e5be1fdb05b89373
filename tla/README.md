# sparkles in TLA+

Models, model-checking configurations and proofs for *sparkles*, a tracing
library in Rust. An application marks instants and ranges; sparkles records
them with a timestamp into buffers of the recording threads, a sending thread
writes the buffers to a file (or over UDP), and a parser makes a Perfetto trace
of them.

    tlc -workers 2 -config MCSparkles.cfg MCSparkles      # one run
    tlapm SparklesProofs.tla                              # one proof module

`PROJECT.json` lists, for every definition, the source lines it stands for, and
the runs, the mutants that show that a property can fail, the hazards and the
theorems.

## 1. The system

Paths are relative to `src/`; `GS` is `sparkles/src/global_storage.rs`, `TL`
`sparkles/src/thread_local_storage.rs`, `LS`
`sparkles-core/src/local_storage/mod.rs`, `PAR` `sparkles-parser/src/lib.rs`.

| Component | State | Operations | Modelled by |
|---|---|---|---|
| `GlobalStorage` (GS) | byte ring, list of dropped headers, join handle | `push_buf` with cleanup, `take_failed_pages`, `try_take_buf`, `take_jh` | `GlobalStorage`, `GlobalStorageSpec`, `Sparkles` |
| `LocalStorage` (LS, TL), one per thread | event buffer, page header, thread name, previous timestamp, next `range_ord_id` | `event_instant`, range start and end, `set_cur_thread_name`, `auto_flush`, `flush`, drop | `Sparkles` (flushing), `StreamDecoder` (bytes), `TraceStream` (times, ord ids), `Reader` (thread ids, names) |
| `IdMappingState` (`id_mapping.rs`), one per thread | hash table, next id, tags | `insert_and_get_id` | `IdMapping` |
| Sending thread (GS:109-197) | local copy of the finalize flag, what it has taken | its loop and its end | `Sparkles` |
| `init`, `finalize`, `FinalizeGuard` (GS, `lib.rs`) | `GLOBAL_STORAGE` (a mutex), `FINALIZE_STARTED`, `GLOBAL_FLUSHING_RUNNING` | create, finalize, join | `Sparkles` |
| configuration (`config.rs`, `LOCAL_CONFIG` in TL) | the builder's value, one cell for the threads' thresholds | `with_` and `without_` functions, `get_or_init` | `InitConfig`, `Once` |
| Encoder (`encoder.rs`) | none of its own | packets info, data, failed, freq, end | `Sparkles` (their order), `Reader` (what is in them) |
| Senders (`sender/`) | a file | `send` | `Sparkles` (a panic), `InitConfig` (a file that cannot be created), `Reader` (a file that ends early) |
| `decode_packets` (PAR) | parsing state, pages and missed pages per thread | read a packet | `Reader` |
| `StreamFrameDecoder` (`decoder.rs`) | state of a frame, ring of `PARSER_BUF_SIZE` | `decode_many`, `ensure_buf_end` | `StreamDecoder` |
| `parse_and_save` (PAR) and `PerfettoTraceFile` | current time, open ranges, tracks | events to points and ranges, threads to tracks and names | `TraceStream`, `Reader` |
| `TimestampFreqDetector` (GS) | last pair of clocks | when to send a frequency | `Sparkles` (a choice) |
| macros, timestamp providers, binaries | - | - | section 8 |

The parts interact as follows. A recording thread works alone until its buffer
is at a threshold; then `auto_flush` either tries the mutex (from 32 KB on, if
the sending thread is not in its critical section) or waits for it (at 1 MB).
With the mutex it pushes the buffer, together with a header, as one *page* into
the ring. If that brings the ring over the cleanup threshold, the same call
drops the oldest pages and keeps their headers. The sending thread wakes up
once a millisecond, and under the mutex takes the dropped headers and, if the
ring is over its own threshold or finalization has begun, the whole ring; it
sends the pages as one data packet and each dropped header as a failed packet.
`finalize` flushes the caller, sets a flag, and joins the sending thread, which
in the round in which it sees the flag takes everything and ends the stream
with 0xff. The parser reads packets up to 0xff, and then events.

What is hard here, and what makes each part correct:

* **The ring** must keep whole pages although nobody looks at what
  `push_slice` stored, drop the oldest pages and no more than needed, and
  account for each page it was given.
* **The pipeline** is concurrent: flushes of many threads, a stale availability
  flag, a finalize flag that is read while threads still flush, a sending
  thread that records events itself (feature `self-tracing`), senders that
  panic. Events must arrive at most once, in order, and completely up to
  `finalize`; `finalize` and forced flushes must return; buffers stay bounded.
* **The configuration** goes into two cells, of which the mutex guards one. The
  parts must agree on it whoever comes first: an init, a flush or an event.
* **The tag table** fills up completely and wraps around in three places; ids
  must stay indices of tags, and it may give up only when it is full.
* **The stream** has no markers, neither between the bytes of events nor
  between the pages of a packet: one byte or page miscounted and everything
  behind it is misread. Pages are read in chunks that cut events anywhere, and
  a file may end anywhere.
* **The round trip** to the trace has to put times together again from
  differences, over pages of which some are missing, to join the ends of ranges
  by an id of one byte, and to bring the pages of a thread to one track under
  a name that only one of them carries.

The hazards in `PROJECT.json` name the lines, and the properties for each.

## 2. The modules

    GlobalStorage ---- GlobalStorageSpec ---- MCGlobalStorage
        |    \              |
        |     RingLemmas -- GlobalStorageProofs (INSTANCE PageQueue)
        |          \
     Sparkles       \
        |            \
     SparklesProps -- SparklesProofs
     (INSTANCE EventLog)
        |
     MCSparkles

     IdMapping --- MCIdMapping          InitConfig (INSTANCE Once) --- MCInitConfig
         \-------- IdMappingProofs          \------- InitConfigProofs

     Reader ------ MCReader             StreamDecoder --- MCStreamDecoder
         \-------- ReaderProofs             \--------- StreamDecoderProofs

                                        TraceStream --- TraceStreamProofs

**GlobalStorage** has the methods of the ring as actions, each atomic since
each runs under the mutex. A page is its header, the length it should have and
the bytes it got; `Stored` is the short write of `push_slice`. The cleanup loop
is one step that chooses the number of dropped pages by its exit condition
(`CleanupStopsAfter`). If it comes to a page that was cut short
(`ReadsBroken`), it drops it as if it were whole, and `skip` takes the missing
bytes from the pages behind it: silently, if that brings the ring to the bottom
threshold, or else the loop goes on with bytes that are no lengths. There the
model stops (`garbled`), for it has no bytes to go on with.
**GlobalStorageSpec** runs it with its two kinds of caller.

**PageQueue** is what the storage is to its callers, without bytes and
thresholds: a queue of which only the oldest pages are dropped, and which is
taken whole or not at all. `GlobalStorageSpec` and `Sparkles` implement it, and
the storage of `Reader` is an instance of it.

**Sparkles** composes it with the threads. `pc[t]` is where a thread is in
`init`, `finalize` or the sending loop, `op[t]` where it is in a flush inside
of that, so that the sending thread can be in `auto_flush` in the middle of its
loop, as it is with `self-tracing`. Each lock, unlock, load and store of the
shared atomics is a step of its own. The atomics are sequentially consistent in
the model and `Relaxed` in the code. Of `GLOBAL_FLUSHING_RUNNING` a thread only
decides whether to try now or later, and the model has it stale already. Of
`FINALIZE_STARTED` it matters that a round which sees it comes after the
caller's flush: if the sending thread's critical section came before that
flush, its load came before the flush too, and cannot return what the caller
stores after it. `SenderPanics` ends the sending thread
after any number of the packets it was about to send. A thread may finalize as
often as it likes, and so may several. Events are numbered per thread; an event
takes one unit of buffer.

**EventLog** is what the pipeline promises: threads produce and commit events;
each is delivered or declared lost, never both, never twice, in order; the log
closes only when all that was committed before finalization began is settled.
**SparklesProps** lists the places a page can be in (`Places`) and maps the
pipeline to the log: what is flushed is committed, the events of data packets
are delivered, those of failed packets lost, and 0xff closes the log.

**InitConfig** has the configuration of each caller, built field by field, and
follows it into `GlobalStorage::new` with its three steps: `LOCAL_CONFIG`, the
sending thread and its senders, the ring. Other threads may use their `TRACER`
between the steps, because the mutex does not guard `LOCAL_CONFIG`. **Once** is
a cell that is filled once; both cells implement it.

**IdMapping** is the table with its probing and its panics, in builds that check
for overflow and in builds that do not; the ids it gave out are kept as history
with what they were meant for, and so is the tag at which a call panicked.

**Reader** follows the pages of several threads through the file. A thread gets
its ord id with its first event and an OS thread id that an exited thread may
have had; its pages carry the name until one with the name is stored. The
sending thread writes packets as tokens, a data packet as its head, with the
length, and each page; the file may be cut off at every token. `decode_packets`
reads one header at a time. A round takes the dropped headers always and the
ring only if it is over its threshold, which to this module is a choice
(`Taken`). `parse_and_save` chooses tracks and names, in
debug and release builds. Where the code would take bytes of another kind for a
header, `ReadsInStep` is violated.

**StreamDecoder** has the encoding of events into bytes, the page read in
chunks, and the decoder with one action per state of `try_decode_event`; its
ring drops the bytes that do not fit, as `push_slice` does.

**TraceStream** follows one thread's events with their timestamps and ord ids
through flushed pages, any of which may be dropped, to the points and ranges of
the trace, in nanoseconds and with the ten nanoseconds that set events of one
timestamp apart. `ToNs` cuts fractions of a nanosecond off as the code does,
with any ratio of ticks to nanoseconds, so that several timestamps may share
one. The clock may step back; differences and the parser's sums
wrap as `u64` does, and what panics in `parse_and_save` panics here.

## 3. The runs

| Run | Properties | What it shows |
|---|---|---|
| `ring` | `TypeOK`, `PagesStoredWhole`, `CleanupKeepsUp`, `EveryPageAccounted`, `NewestPagesSurvive`, `CleanupDropsNoMoreThanNeeded` | With the proportions of the default configuration no page is cut or lost silently, and cleanup is exact. |
| `pipeline` | `TypeOK`, `LocalBufferBounded`, `RingNeverOverruns`, `StreamWellFormed`, `EveryEventAccounted`, `FinalizeWaits`, `NobodyIsStuck`, `ImplementsEventLog` | All interleavings of two application threads and the sending thread, with self-tracing, failing senders and repeated finalizers. |
| `live` | `FinalizeReturns`, `ForcedFlushReturns` | Without self-tracing every finalize returns, and so does every forced flush, that of a full buffer among them, also after the sending thread has panicked. |
| `config` | `TypeOK`, `SettingsAgree`, `LargestPagesFit`, `FilledOnce` | Whoever comes first, ring, sending thread and buffers agree on a configuration, and neither cell changes again. |
| `tags` | `TypeOK`, `KeysAreFound`, `IdsIndexTags`, `EventsKeepTheirNames`, `PanicsOnlyWhenFull` | A table of four slots, filled completely, with colliding hashes and a hash that wraps; it panics for want of an id or at the hash that overflows, and nowhere else. |
| `reader` | `TypeOK`, `ReadsInStep`, `TraceIsWhole`, `TracksAreThreads`, `TracksAreNamed` | Pages of two threads, some dropped, in a file that may be cut off: each page comes to its thread's track or is listed as missed. |
| `decoder` | `TypeOK`, `DecodesWhatWasRecorded`, `LittleIsLeft`, `PagesDecodeWhole` | Chunks that cut the frames at every place; pages that fit the decoder's ring are decoded whole. |
| `trace` | `TypeOK`, `PointsKeepTheirTime`, `RangesMatchIfApart`, `TraceIsComplete`, `LossIsReported`, `ShownInOrder` | Times, order and range ends come out as recorded, over any cut into pages, any loss of pages and a clock that steps back. |
| `full_threshold`, `self_deadlock`, `range_end_name`, `range_match` | one each | What section 7 says: the code does something else than its documentation or a comment says. |

Each property of a passing run has a mutant: an alternative of one definition,
kept beside it under a comment "Mutation", that a plausible slip would make of
the code, and with which TLC finds the property violated.

### Bounds

* `ring`: 12 bytes, cleanup from 8 to 6, event buffers of 1 to 3 bytes under a
  header of 1, seven pushes (`MaxPushes`). The ring wraps over twice the cleanup
  threshold, a cleanup drops one page or several, and cleanups happen twice
  before a take.
* `pipeline`: three events of the application (`MaxEvents`), and four of the
  sending thread (`MaxSelf`), which is one full round of its loop; thresholds
  that make a buffer flush on try at one event and by force at three; a ring of
  9 whose cleanup goes from 5 to 3. `MaxFreq` is 0: the frequency packet before
  the end is always there, another one in a round is in `live`. Every action
  fires; so do cleanups between a take and its packets, failing try_locks, and
  the deadlock of section 7, which is why stopping is not an error in this run.
  About 800,000 states.
* `live`: without `self-tracing`, one frequency packet before the last; two
  events of the worker, which are as many as force a flush (`LocalForce`). If the
  `try_flush` after the first one failed or was skipped, the second fills the
  buffer, and `auto_flush` waits for the mutex, among others while the other
  thread, which records nothing here, is in `finalize`.
* `config`: two threads; the default proportions at a small scale (50, 10, 90,
  70, 1, 4), and builders that may set a ring that default buffers do not fit,
  larger and smaller buffers, and no file.
* `tags`: three names, of which two start in one slot, and one whose hash is the
  largest; nine possible tags for four slots.
* `reader`: two threads with two pages each (`MaxPages`), one change of name
  (`MaxRenames`), and two thread ids, of which one is an ord id too.
* `decoder`: chunks and ring of 8 bytes, frames of 2 to 6, pages up to 17. One
  id with its top bit set, one ord id, a zero difference and one of three bytes
  whose lowest is zero. Pages over two chunks overrun the ring, as pages over
  2,000,000 bytes do in the code.
* `trace`: two ord ids in place of 256, a clock of 8 values in place of 2^64,
  five ticks to three nanoseconds (`Ticks`, `Nanos`), an offset of 1, four events
  (`MaxEvents`), three timestamps (`MaxClock`). Timestamps 2 and 3 fall into one
  nanosecond, 1 and 3 are further apart than the offset of a run of two. The
  third range reuses an ord id, and equal timestamps occur in and across pages.

## 4. Fairness

`FairSpec` of `Sparkles` is used by the runs of liveness properties only. Weak
fairness says that a thread inside a call, and the sending thread in its loop,
keep running. Strong fairness is assumed for getting the mutex: it is free
again and again, since every critical section is a short piece of straight code
and the sending thread sleeps for a millisecond outside of it in every round; a
thread that waits for it is assumed not to be overtaken for ever.
`std::sync::Mutex` promises no order, so this is an assumption about the
platform, and the runs say nothing of one where it does not hold. Nothing makes
an application thread record, flush, finalize or exit.

## 5. What is proved

For every number of threads, every capacity, threshold and hash, and without
the bounds of the runs:

* **GlobalStorageProofs**: `TypeCorrect`; `PagesWhole`, that no page is cut;
  `CleanupHolds`, that the ring stays at or under the threshold and the unwraps
  of cleanup do not panic; `PagesAccounted` and `CleanupStopsInTime`. All of
  them are about configurations in which the largest page fits above the cleanup
  threshold (`RoomAbove`): without it pages are cut short, and of what cleanup
  then makes of the ring nothing is proved. `NewestPagesStay` needs in addition
  that the largest page fits below the bottom threshold (both: `PageFits`).
  `RingInvariant` comes first. Its `RingInv` joins three facts, of which none
  can be had without the others: pages lie one behind the other without a gap
  (`Tiled`), so that dropping some frees what they take; all are whole, so that
  cleanup finds where the next one begins; and the ring is at or under the
  threshold, so that the next page is whole too. The
  others need `QueueInv`: taken pages, dropped headers and the ring are three
  consecutive stretches of the pages pushed. `PushesReturn` is why a push ends:
  each page that is dropped brings the ring down, an empty one is at the bottom
  threshold, and of the numbers of pages that are enough there is a least one,
  where the loop stops, having read whole pages only. `RingIsQueue` is the
  refinement of `PageQueue`, under `RoomAbove` too.
* **SparklesProofs**: `TypeCorrect`, `BuffersBounded`, `RingSafe`,
  `FinalizeJoins`, `StreamFramed`, `EventsAccounted` and
  `PipelineImplementsLog`. The first three come from one inductive invariant,
  `PipelineInv`. Its part `LocalInv` adds to `LocalBufferBounded` that a thread
  in a flush has something to flush: a full buffer then always has its thread
  waiting or pushing, so that it records nothing; and the page it pushes is
  never longer than `LocalForce`, which with the assumption `LargestPageFits`
  keeps the ring whole. `LargestPageFits` is `RoomAbove` for the pages of the
  pipeline, which needs no room below the bottom threshold, because a page that
  is whole can be dropped again. `FinalizeJoins` holds for any number of
  finalizers, who may come again; its invariant `FinalizeInv` says that a
  storage without a handle has a thread at the join or an ended sending thread.
  For `StreamFramed` the invariant `SenderInv` joins the place where the sending
  thread is with what it holds and what it has sent, so that wherever a sender
  panics the packets before it form a stream that `decode_packets` can read.
  The last two need `PlaceInv`, which is about the pages in the `Places`: no two
  of one thread overlap (`PlacesApart`), together they cover what has left the
  buffers (`PlacesCover`) and nothing else (`PlacesBounded`), and those on the way to a
  data packet lie in the order in which each thread recorded them
  (`PlacesOrdered`). A push adds one page; every other step only moves pages
  from place to place, and a lemma says what such a move keeps. `DrainInv`
  says what is left behind once the sending thread has seen the flag: nothing
  that was flushed before finalization began. For the refinement each kind of
  step, a push, a data packet, a failed packet, the end, is shown to be one step of
  the log, and all others to be stutters; a data packet is a delivery in order
  because its pages are not empty (`SizeInv`) and are ordered. `LogPromise`, a
  theorem about `EventLog` alone, then gives `StreamKeepsPromise`: nothing is
  both sent and reported as dropped, and a stream with 0xff has all it
  promised. `FinalizeCompletes` adds that, unless a sender fails, this is so
  when `finalize` comes back from its join.

  `MutualExclusion` and the absence of deadlock are about any number of
  threads. `MutexInv` says that a thread owns the mutex exactly while it is
  inside a critical section. Nobody waits in one, but for the sending thread
  whose range event flushes (`SelfLocked`); a push returns, by the argument of
  `PushesReturn`; so the owner can go on. If the mutex is free, whoever waits
  for it can go on, and who waits at the join waits for the sending thread,
  which can: this is `NoOtherDeadlock`, and without `self-tracing`
  `NoDeadlock`. `CallsEnd` counts the rest: `StepsLeft`, from the place of a
  thread and of its flush, gets smaller with each step of the thread and with
  no step of another one larger, so that a call has at most 62 steps.
* **InitConfigProofs**: `TypeCorrect`, `ConfigAgrees`, `PagesFit` and
  `CellsFilledOnce`. `ConfigInv` says who is inside of `GlobalStorage::new` and
  what has been decided so far. `PagesFit` is where `LargestPageFits`, an
  assumption of the pipeline, comes from: it follows from the same fact about
  the configuration that came first.
* **IdMappingProofs**: `TypeCorrect`, `LookupCorrect` (linear probing finds
  every key, in a table of any size with any hash), `IdsCorrect`,
  `NamesCorrect`, `PanicsCorrect`, and `IdsStay`, that a key which has an id
  keeps it and never has two. Lookup rests on `ProbeInv`: all slots
  between a key's first slot and its own are taken, which holds since keys are
  never removed. Ids rest on a correspondence between slots and tags, each with
  its index; in a full table `last_id` has wrapped to zero, and no insertion can
  follow. Names need `HashesApart`: no two names whose hashes are equal or
  differ by one or two. Panics need that a probe passes all slots, so that one
  that finds no room has seen as many keys as there are tags, and that the tag
  at which a call panicked (`refused`) is none of them.
* **ReaderProofs**: `TypeCorrect`, `StaysInStep`, `TracksApart`, `TraceWhole`
  and `TracksNamed`, all of the module's properties, and two that no run checks.
  `EndedIsSaved`: a stream that was ended is read and saved, since in step with
  the tokens (`ReadsInStep`) one of the reader's steps is always possible, and
  each leaves fewer tokens or threads. `PagesQueue`: of the storage the module
  asks no more than `PageQueue`. For `StaysInStep`, two
  facts about the tokens not read yet are invariant: a token is a page exactly
  if a data packet, or what is left of the one being read, announces it
  (`Framed`), and in a file that is not cut off all announced pages are there
  (`Complete`). For `TracksApart`, `TrackInv` follows the ids: each ord id is
  given once, every page and header keeps that of its thread on its whole way,
  and the thread id that the reader has stored for an ord id is that of the
  thread, or none. `OrdsCounted` adds that ord ids are as many as the threads
  that have one, so that each has a parser. `TraceWhole` and `TracksNamed` need
  `PagesInv`: the pages of a thread that its parser keeps, those in the file and
  those in the ring lie in the order of their numbers (`InOrder`), and with the
  dropped ones they are all that were flushed, each once (`Accounted`). A page
  without a name follows one of the same name (`NamesFollow`), so the name that
  the parser has is that of its last page, unless one was lost (`ParserNamed`).
  `EndInv` says that behind the end of a stream there is nothing, and `ParseInv`
  that the trace has the pages of the threads parsed so far and no others.
* **TraceStreamProofs**: `TypeCorrect`, `PointsKeepTime`, `LossReported`,
  `RangesMatch`, `TraceComplete` and `InOrder`, all of the module's properties.
  The invariant `RoundTripInv` has four parts, each kept with the help of those
  before it. `TimeInv` says of every page, in the buffer, in the file and with
  the parser, that its events are consecutive in the log, that its header has
  the times of the first and the last, and that its differences are those of
  the events' times modulo `ClockMod` (`Chained`); and of the parser that its
  clock is at the event it has read last (`ParserInStep`). The one arithmetic
  fact is that differences add up again although both they and the sums wrap.
  `OrdInv` ties the u8 counter to the log: a range's ord id is the number of
  ranges before it modulo `OrdMod`, in its guard and in every page, so that
  ranges whose ids are equal have at least `OrdMod` starts between them
  (`OrdsApart`). `OrderInv` keeps the pages in order and, while none is dropped,
  covering all that was flushed. `ParseInv` is about the events `Read` so far:
  an open range is the last one started with its ord id (`RangesOpen`), the last
  one started is open until one with its ord id ends (`RangesKnown`), and the
  trace has these events and no others (`TraceFull`, `TraceFits`). Order rests on
  `RunOf`: an event's offset counts all events of its time back to the start of
  its page, so that of two with one time the later has more (`RunsNest`). Of two
  with different times, `NanosApart` says that as many nanoseconds as fit between
  the times lie between what `ToNs` makes of them, whatever is cut off, and
  `RunIsShort` that the offset of the earlier is no more than that. It
  needs an offset above zero, which `TraceTyped` says; the code has 10.
  `ReadingEnds` says of any stream that `decode_packets` and `parse_and_save` are
  never stuck, and that each step leaves fewer packets, pages or events to read.
* **StreamDecoderProofs**: `TypeCorrect`, `DecodesRecorded`, `LittleLeft` and
  `PagesDecode`, all of the module's properties, for any ids, differences,
  thresholds and ring, and `PagesEnd`: for any bytes the loops come to the end
  of a page, because `BytesLeft`, which counts a byte to be read, a byte to be
  popped and the steps that pop none, gets smaller with each step. Nothing marks where a frame starts, so the invariant
  `DecoderInv` names the bytes of the page and the offset of every frame in them
  (`Encoding`, which each recorded event extends by one), instead of decoding
  them by recursion. Ring and rest of the page are then a window of these bytes
  (`Aligned`), and the decoder's state is what it must be behind the first zero
  to three bytes of the frame of the next event (`InFrame`). `Chunked` is why
  the ring is large enough within `RingFits`: a page then has at most two
  chunks, and the second shares the ring with less than a longest difference.
  That a difference can be put together again rests on `DifLenTyped`: the bytes
  that `DifLen` leaves out are zero.
* **RingLemmas** holds what `GlobalStorageProofs` and `SparklesProofs` share:
  facts about `SubSeq`, appending and the three methods of the ring.

The assumptions on constants are named `ASSUME`s of the modules; TLC evaluates
them in the runs. Two facts are about the default configuration: 1 MiB and a
header fit above 0.9 of 50 MiB (`LargestPageFits`), as long as the header with
its tags is under 4 MiB.

## 6. What is model-checked only

Liveness (`FinalizeReturns`, `ForcedFlushReturns`) is out of the prover's
reach, and so both are checked on the instances of section 3 only. What they
rest on besides fairness is proved: that somebody can always go on
(`NoOtherDeadlock`) and that each call has a bounded number of steps of its own
(`CallsEnd`). ENABLED is out of reach too: `CanGoOn`, `ReaderGoesOn`,
`ParserGoesOn` and `DecoderGoesOn` are the guards of the actions written out. All the other
properties of the passing runs are theorems.

## 7. Where code and documentation disagree

* `self_deadlock`: the sending thread opens and closes a range while it holds
  `GLOBAL_STORAGE` (GS:161). If that event fills its local buffer to
  `flush_threshold`, `auto_flush` locks the mutex that the thread itself holds.
  `finalize`, a "blocking wait for global sending thread to finish its job",
  never returns.
* `full_threshold`: `cleanup_threshold` "should be in range [0.0, 1.0]". At 1.0
  the ring is full before cleanup starts, and pages are cut short. (The run ends
  at the first such page. A later cleanup, with a threshold below 1.0 that still
  leaves too little room, drops such a page together with bytes of the pages
  behind it, some of which may then be missing without a report.)
* `range_end_name`: the key of a named range end does not contain the start, so
  that ranges with different starts that end under one name are all shown with
  the start name of the first.
* `range_match`: `range_ord_id` is "required to match with start event during
  parsing", but wraps without regard to the ranges that are open. A range that
  stays open while 256 others start gets the end of another one.

Behaviour that no document speaks of and that the models show as well:

* The second of two callers of `finalize` finds no handle and returns at once,
  while the first still joins (`FinalizeWaits` says so), and what this second
  caller has flushed after the flag was set need not be in the stream: the log
  promises what was flushed when the first one set it. A finalize before init
  leaves `FINALIZE_STARTED` set, and a storage that is created afterwards gets a
  sending thread that ends after one round.
* Events flushed after the last take stay in the ring.
* A thread that uses its `TRACER` before init, or while `GlobalStorage::new` is
  between its steps, fixes `LOCAL_CONFIG` at the default for all threads.
* A build that checks for overflow panics one tag before the table is full, and
  at the two largest hashes.
* The end of a range whose start was in a dropped page panics the parser, and
  nothing is saved. A stream without pages panics a debug build.
* Pages of more than two chunks can be misread (`RingFits`).
* The 10 ns between events of one timestamp are not carried over to the next
  page, and after many such events overtake the next timestamp; `ShownInOrder`
  is about runs that are shorter. With more than one tick per nanosecond,
  different timestamps may be shown at one nanosecond, the later never earlier.
* The name and the thread id in the header of a failed packet are ignored. A
  thread all of whose other headers have been read without a thread id gets its
  ord id for a track, which may be another thread's id. Threads that got the
  same OS thread id one after the other share a track under the first one's
  name.
* The events missed are counted and not written to the trace.

## 8. What is not modelled

* The bytes of headers and packets (bincode), protobuf, and the statistics that
  the parser prints, except where they panic.
* The frequency detector's quotient, in floating point. When the detector sends
  is nondeterministic; that the last one may be measured over nanoseconds is
  listed as a hazard without a property.
* Timestamp providers: each reads a counter. `TraceStream` takes any timestamp
  but zero.
* The rounding of the parser's floating-point division: `ToNs` divides exactly
  and cuts the fraction off. Timestamps above 2^53 lose their last bits in the
  code and not in the model, and a quotient next to a whole number may be
  rounded up to it.
* What cleanup makes of a ring with a cut page after the first silent skip: the
  model has no bytes to read lengths from, and ends (`garbled`).
* What becomes of a legal configuration whose pages do not fit, of a range whose
  start was dropped, of a trace without pages, of threads that share a thread
  id: the models go there, but no property says what should happen, because the
  code panics or mixes things up and no document promises otherwise. These are
  hazards with a note and without a property.
* What senders do with the bytes is I/O. `UdpSender` has no destination at this
  commit.
* Macros: the hash they compute is the constant `HashOf`.
* The two binaries, which call `parse_and_save` once with a parser of their own.
* Wording: the parser's messages, the file name `trace.perf`.

## 9. What is left

`Reader` and `TraceStream` as one module would have several threads' events in
one trace, and the frequency as it is measured.
