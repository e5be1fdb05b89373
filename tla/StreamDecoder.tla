--------------------------- MODULE StreamDecoder ---------------------------
(***************************************************************************)
(* The bytes of one thread's events: LocalStorage (sparkles-core) encodes  *)
(* them into its buffer and flushes the buffer as a page; decode_packets   *)
(* (sparkles-parser) reads the page in chunks and hands them to the        *)
(* thread's StreamFrameDecoder, which takes the events apart again.        *)
(*                                                                         *)
(* A frame is an id, a byte with the length of the timestamp difference    *)
(* and two flags, for ranges an ord id, and the difference without its     *)
(* leading zero bytes.  Nothing marks where a frame starts.                *)
(***************************************************************************)
EXTENDS Integers, Sequences

CONSTANTS
  Width,    \* bytes of a timestamp, 8 in the code
  Ids,      \* the ids in use
  OrdIds,   \* the range_ord_ids in use
  Difs,     \* the timestamp differences in use, as to_le_bytes gives them
  FlushAt,  \* flush_threshold of LocalStorageConfig
  BufSize,  \* PARSER_BUF_SIZE: the chunks, and the decoder's ring
  NoId      \* the id of an unnamed range end

Byte == 0..255

ASSUME BytesTyped ==
  /\ Width \in 1..15 /\ Ids \subseteq Byte /\ OrdIds \subseteq Byte
  /\ Difs \subseteq [1..Width -> Byte]
  /\ FlushAt \in Nat /\ BufSize \in Nat \ {0}
  /\ NoId \notin Byte

VARIABLES
  buf,       \* LocalStorage.buf
  recorded,  \* history: the events in buf
  phase,     \* what the program is doing
  page,      \* the bytes of the page that are still to be read
  size,      \* the length of the whole page
  expected,  \* history: the events in the page
  ring,      \* StreamFrameDecoder.buf
  state,     \* StreamFrameDecoder.state
  decoded    \* event_buf: what decode_many has returned for the page

localVars  == <<buf, recorded>>
readerVars == <<page, size, expected>>
decoderVars == <<ring, state, decoded>>
vars == <<localVars, phase, readerVars, decoderVars>>

Instant(id, dif)      == [type |-> "Instant", id |-> id, dif |-> dif, ord |-> 0]
RangePart(id, dif, ord) == [type |-> "RangePart", id |-> id, dif |-> dif, ord |-> ord]
UnnamedRangeEnd(dif, ord) ==
  [type |-> "UnnamedRangeEnd", id |-> NoId, dif |-> dif, ord |-> ord]

Events ==
  {Instant(id, dif) : id \in Ids, dif \in Difs}
    \cup {RangePart(id, dif, ord) : id \in Ids, dif \in Difs, ord \in OrdIds}
    \cup {UnnamedRangeEnd(dif, ord) : dif \in Difs, ord \in OrdIds}

(* ParsingState: how far the decoder is in a frame, and what it has of it. *)
At(at, id, len, ord) == [at |-> at, id |-> id, len |-> len, ord |-> ord]
NewFrame == At("NewFrame", NoId, 0, 0)

Init ==
  /\ buf = <<>> /\ recorded = <<>>
  /\ phase = "record"
  /\ page = <<>> /\ size = 0 /\ expected = <<>>
  /\ ring = <<>> /\ state = NewFrame /\ decoded = <<>>
-----------------------------------------------------------------------------
(* Recording: event and range_event, and the flush that ends a page. *)

(* Mutation: a difference keeps its low byte only if it is not zero. *)
DifLenDropsZeros(dif) ==
  IF dif[1] = 0 THEN 0 ELSE CHOOSE n \in 0..Width : \A i \in (n + 1)..Width : dif[i] = 0

(* dif_tm_bytes_len: the bytes of the difference without leading zeros. *)
DifLen(dif) ==
  CHOOSE n \in 0..Width :
    /\ \A i \in (n + 1)..Width : dif[i] = 0
    /\ n > 0 => dif[n] # 0

Frame(e) ==
  LET n   == DifLen(e.dif)
      dif == SubSeq(e.dif, 1, n)
  IN CASE e.type = "Instant"         -> <<e.id, n>> \o dif
       [] e.type = "RangePart"       -> <<e.id, n + 128, e.ord>> \o dif
       [] e.type = "UnnamedRangeEnd" -> <<0, n + 192, e.ord>> \o dif

(* The bytes become a page, which the parser comes to read. *)
FlushAsPage(bytes, events) ==
  /\ buf' = <<>> /\ recorded' = <<>>
  /\ phase' = "read"
  /\ page' = bytes /\ size' = Len(bytes)
  /\ expected' = events /\ decoded' = <<>>
  /\ UNCHANGED <<ring, state>>

(* auto_flush always flushes at flush_threshold, and before it may do so. *)
Record(e) ==
  LET bytes == buf \o Frame(e)
  IN
  /\ phase = "record"
  /\ \/ /\ Len(bytes) < FlushAt
        /\ buf' = bytes
        /\ recorded' = Append(recorded, e)
        /\ UNCHANGED <<phase, readerVars, decoderVars>>
     \/ FlushAsPage(bytes, Append(recorded, e))

(* flush_thread_local, or the end of the thread. *)
Flush ==
  /\ phase = "record" /\ buf # <<>>
  /\ FlushAsPage(buf, recorded)
-----------------------------------------------------------------------------
(***************************************************************************)
(* Reading.  decode_many pushes a chunk of the page into the ring, of      *)
(* which push_slice stores what fits, and then calls try_decode_event      *)
(* until that says that there are not enough bytes.                        *)
(***************************************************************************)
Smaller(m, n) == IF m < n THEN m ELSE n

(* Mutation: the bytes of the last chunk that were left over are lost. *)
PushedAfresh(chunk) == chunk

(* Mutation: the ring grows when it is full. *)
PushedOntoAll(chunk) == ring \o chunk

PushedOnto(chunk) ==
  ring \o SubSeq(chunk, 1, Smaller(Len(chunk), BufSize - Len(ring)))

ReadChunk ==
  LET n == Smaller(BufSize, Len(page))
  IN
  /\ phase = "read" /\ page # <<>>
  /\ ring' = PushedOnto(SubSeq(page, 1, n))
  /\ page' = SubSeq(page, n + 1, Len(page))
  /\ phase' = "decode"
  /\ UNCHANGED <<localVars, size, expected, state, decoded>>

Available(n) == phase = "decode" /\ Len(ring) >= n

Popped(n) == SubSeq(ring, n + 1, Len(ring))

PopId ==
  /\ state.at = "NewFrame" /\ Available(1)
  /\ ring' = Popped(1)
  /\ state' = At("DifTmLen", ring[1], 0, 0)
  /\ UNCHANGED <<localVars, phase, readerVars, decoded>>

(* Mutation: the flag of an unnamed end is not looked at. *)
UnnamedIgnored(b) == FALSE

IsRange(b)   == (b \div 128) % 2 = 1
IsUnnamed(b) == (b \div 64) % 2 = 1

PopDifTmLen ==
  LET b == ring[1]
  IN
  /\ state.at = "DifTmLen" /\ Available(1)
  /\ ring' = Popped(1)
  /\ state' = IF IsRange(b)
                THEN At("RangeOrdId", IF IsUnnamed(b) THEN NoId ELSE state.id, b % 16, 0)
                ELSE At("DifTm", state.id, b % 16, 0)
  /\ UNCHANGED <<localVars, phase, readerVars, decoded>>

(* Mutation: the ord id and the difference are waited for together. *)
OrdIdWithTm(s) == 1 + s.len

(* How many bytes try_decode_event waits for at the ord id. *)
OrdIdNeeds(s) == 1

PopOrdId ==
  /\ state.at = "RangeOrdId" /\ Available(OrdIdNeeds(state))
  /\ ring' = Popped(1)
  /\ state' = [state EXCEPT !.at = "RangeTm", !.ord = ring[1]]
  /\ UNCHANGED <<localVars, phase, readerVars, decoded>>

(* The difference from its bytes, filled up with zeros. *)
DifFrom(bytes) == [i \in 1..Width |-> IF i =< Len(bytes) THEN bytes[i] ELSE 0]

EventFrom(s, dif) ==
  CASE s.at = "DifTm" -> Instant(s.id, dif)
    [] s.at = "RangeTm" /\ s.id # NoId -> RangePart(s.id, dif, s.ord)
    [] s.at = "RangeTm" /\ s.id = NoId -> UnnamedRangeEnd(dif, s.ord)

(* A frame is complete.  A length over that of a timestamp is out of bounds. *)
PopTm ==
  /\ state.at \in {"DifTm", "RangeTm"} /\ Available(state.len)
  /\ state' = NewFrame
  /\ IF state.len =< Width
       THEN /\ ring' = Popped(state.len)
            /\ decoded' = Append(decoded,
                 EventFrom(state, DifFrom(SubSeq(ring, 1, state.len))))
            /\ UNCHANGED phase
       ELSE phase' = "panicked" /\ UNCHANGED <<ring, decoded>>
  /\ UNCHANGED <<localVars, readerVars>>

(* What try_decode_event waits for; with less it keeps its state. *)
Needs(s) ==
  CASE s.at \in {"NewFrame", "DifTmLen"} -> 1
    [] s.at = "RangeOrdId" -> OrdIdNeeds(s)
    [] s.at \in {"DifTm", "RangeTm"} -> s.len

NotEnough ==
  /\ phase = "decode" /\ Len(ring) < Needs(state)
  /\ phase' = "read"
  /\ UNCHANGED <<localVars, readerVars, decoderVars>>

(* ensure_buf_end: two assertions when the page has been read. *)
EndPage ==
  /\ phase = "read" /\ page = <<>>
  /\ phase' = IF ring = <<>> /\ state = NewFrame THEN "record" ELSE "panicked"
  /\ size' = 0 /\ expected' = <<>> /\ decoded' = <<>>
  /\ UNCHANGED <<localVars, page, ring, state>>

(* The parser has panicked. *)
Stopped == phase = "panicked" /\ UNCHANGED vars

Next ==
  \/ \E e \in Events : Record(e)
  \/ Flush
  \/ ReadChunk \/ PopId \/ PopDifTmLen \/ PopOrdId \/ PopTm \/ NotEnough
  \/ EndPage \/ Stopped

Spec == Init /\ [][Next]_vars
-----------------------------------------------------------------------------
(* Every variable has its type; the decoder never holds more than a ring of bytes. *)
TypeOK ==
  /\ buf \in Seq(Byte) /\ recorded \in Seq(Events)
  /\ phase \in {"record", "read", "decode", "panicked"}
  /\ page \in Seq(Byte) /\ size \in Nat /\ expected \in Seq(Events)
  /\ ring \in Seq(Byte) /\ Len(ring) =< BufSize
  /\ state \in [at : {"NewFrame", "DifTmLen", "DifTm", "RangeOrdId", "RangeTm"},
                id : Byte \cup {NoId}, len : 0..15, ord : Byte]

(* The longest difference in use, in bytes. *)
LongestDif ==
  CHOOSE n \in {DifLen(dif) : dif \in Difs} : \A dif \in Difs : DifLen(dif) =< n

(***************************************************************************)
(* The pages that the ring is large enough for: those of one chunk, and    *)
(* those of two that leave room for the start of a difference.  With the   *)
(* default flush_threshold of 1 MiB and PARSER_BUF_SIZE = 1,000,000 all    *)
(* pages are of this kind; with a threshold of 2 MB they no longer are.    *)
(***************************************************************************)
RingFits == size =< BufSize \/ size + LongestDif =< 2 * BufSize + 1

(***************************************************************************)
(* Wherever the chunks of a page are cut, the decoder returns the events   *)
(* that were recorded, in that order, with their ids and differences.      *)
(***************************************************************************)
DecodesWhatWasRecorded ==
  RingFits => /\ Len(decoded) =< Len(expected)
              /\ \A i \in 1..Len(decoded) : decoded[i] = expected[i]

(***************************************************************************)
(* The parser gets through every page: all its events are decoded when     *)
(* ensure_buf_end finds nothing left of it, and the assertions hold.       *)
(***************************************************************************)
PagesDecodeWhole ==
  [][(phase = "read" /\ phase' \in {"record", "panicked"} /\ RingFits)
       => (phase' = "record" /\ decoded = expected)]_vars

(***************************************************************************)
(* Between two chunks the decoder holds at most a difference that is not   *)
(* complete: this is all that the next chunk has to share the ring with.   *)
(***************************************************************************)
LittleIsLeft == RingFits /\ phase = "read" => Len(ring) = 0 \/ Len(ring) < LongestDif
=============================================================================
