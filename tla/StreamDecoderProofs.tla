------------------------ MODULE StreamDecoderProofs ------------------------
(***************************************************************************)
(* The decoder returns the events that were recorded, for pages of any     *)
(* size that the ring is large enough for, wherever chunks cut them, with  *)
(* any ids and differences.  No length of a page is known to the decoder:  *)
(* the invariant names the bytes of the page and the offset of each frame  *)
(* in them (Encoding), where the decoder is (Aligned), and what it has of  *)
(* the frame there (InFrame).                                              *)
(***************************************************************************)
EXTENDS StreamDecoder, WellFoundedInduction, TLAPS

(* The bytes of the events, whose frames begin behind the offsets off.       *)
Encoding(bytes, events, off) ==
  /\ bytes \in Seq(Byte) /\ events \in Seq(Events)
  /\ off \in [1..(Len(events) + 1) -> Nat]
  /\ off[1] = 0 /\ off[Len(events) + 1] = Len(bytes)
  /\ \A i \in 1..Len(events) :
       /\ off[i + 1] = off[i] + Len(Frame(events[i])) /\ off[i + 1] =< Len(bytes)
       /\ \A j \in 1..Len(Frame(events[i])) : bytes[off[i] + j] = Frame(events[i])[j]

(* How much of the page the decoder has taken.                               *)
Pos == size - Len(ring) - Len(page)

Aligned(bytes) ==
  /\ Pos \in Nat /\ Len(bytes) = size
  /\ \A j \in 1..Len(ring) : ring[j] = bytes[Pos + j]
  /\ \A j \in 1..Len(page) : page[j] = bytes[Pos + Len(ring) + j]

(* The state s behind the first n bytes of the frame of e.                   *)
InFrame(s, e, n) ==
  \/ n = 1 /\ s = At("DifTmLen", Frame(e)[1], 0, 0)
  \/ e.type = "Instant" /\ n = 2 /\ s = At("DifTm", e.id, DifLen(e.dif), 0)
  \/ e.type # "Instant" /\ n = 2 /\ s = At("RangeOrdId", e.id, DifLen(e.dif), 0)
  \/ e.type # "Instant" /\ n = 3 /\ s = At("RangeTm", e.id, DifLen(e.dif), e.ord)

Following(off) ==
  /\ decoded \in Seq(Events) /\ Len(decoded) =< Len(expected)
  /\ \A i \in 1..Len(decoded) : decoded[i] = expected[i]
  /\ \/ state = NewFrame /\ Pos = off[Len(decoded) + 1]
     \/ /\ Len(decoded) < Len(expected)
        /\ InFrame(state, expected[Len(decoded) + 1], Pos - off[Len(decoded) + 1])

Decoding(bytes, off) == Encoding(bytes, expected, off) /\ Aligned(bytes) /\ Following(off)

(* The chunks that are left, and what they find in the ring.                 *)
Chunked ==
  /\ size # 0
  /\ Len(page) = size => phase = "read" /\ ring = <<>> /\ state = NewFrame
  /\ Len(page) # size => page = <<>> \/ Len(page) + BufSize =< size
  /\ phase = "read" /\ Len(page) # size => Len(ring) < Needs(state)

PageInv ==
  phase \in {"read", "decode"} /\ RingFits =>
    Chunked /\ \E bytes, off : Decoding(bytes, off)

DecoderInv ==
  /\ TypeOK
  /\ \E off : Encoding(buf, recorded, off)
  /\ phase = "record" => /\ page = <<>> /\ ring = <<>> /\ state = NewFrame
                         /\ expected = <<>> /\ decoded = <<>>
  /\ phase = "panicked" => ~RingFits \/ decoded = <<>>
  /\ PageInv
-----------------------------------------------------------------------------
LEMMA Constants ==
  /\ Width \in 1..15 /\ Width \in Nat /\ Ids \subseteq 0..255 /\ OrdIds \subseteq 0..255
  /\ Difs \subseteq [1..Width -> 0..255]
  /\ FlushAt \in Nat /\ BufSize \in Nat \ {0} /\ NoId \notin 0..255
  <1>1. Width \in Nat
    BY BytesTyped
  <1>2. QED
    BY <1>1, BytesTyped, Zenon DEF Byte

(* A set of numbers that is not empty has a least one.                       *)
LEMMA LeastOf ==
  ASSUME NEW T, T \subseteq Nat, T # {}
  PROVE  \E x \in T : \A y \in T : ~(y < x)
  <1>1. PICK R : R = OpToRel(<, Nat)
    BY Zenon
  <1>2. IsWellFoundedOn(R, Nat)
    BY <1>1, NatLessThanWellFounded, Zenon
  <1>3. PICK x \in T : \A y \in T : ~(<<y, x>> \in R)
    BY <1>2, WFMin, Zenon
  <1>4. R = {ss \in Nat \X Nat : ss[1] < ss[2]}
    BY <1>1 DEF OpToRel
  <1>5. ASSUME NEW y \in T PROVE ~(y < x)
    <2>1. y \in Nat /\ x \in Nat /\ <<y, x>> \in Nat \X Nat
      OBVIOUS
    <2>2. <<y, x>> \notin R
      BY <1>3
    <2>3. <<y, x>>[1] = y /\ <<y, x>>[2] = x
      OBVIOUS
    <2>4. QED
      BY <1>4, <2>1, <2>2, <2>3
  <1>6. QED
    BY <1>5

(* The bytes that dif_tm_bytes_len leaves out are zero.                      *)
LEMMA DifLenTyped ==
  ASSUME NEW dif \in Difs
  PROVE  DifLen(dif) \in 0..Width /\ \A i \in (DifLen(dif) + 1)..Width : dif[i] = 0
  <1> DEFINE T == {n \in 0..Width : \A i \in (n + 1)..Width : dif[i] = 0}
             P(n) == /\ \A i \in (n + 1)..Width : dif[i] = 0
                     /\ n > 0 => dif[n] # 0
  <1>1. T \subseteq Nat /\ Width \in T
    <2>1. Width \in Nat /\ Width \in 0..Width /\ (Width + 1)..Width = {}
      BY Constants
    <2>2. QED
      BY <2>1
  <1>2. PICK n \in T : \A m \in T : ~(m < n)
    <2>1. T # {}
      BY <1>1
    <2> HIDE DEF T
    <2>2. QED
      BY <1>1, <2>1, LeastOf
  <1>3. ASSUME n > 0, dif[n] = 0 PROVE FALSE
    <2>1. n \in 0..Width /\ n - 1 \in 0..Width /\ n - 1 < n
      BY <1>1, <1>3, Constants
    <2>2. \A i \in ((n - 1) + 1)..Width : i = n \/ i \in (n + 1)..Width
      BY <2>1, Constants
    <2>3. n - 1 \in T
      BY <1>3, <2>1, <2>2
    <2>4. QED
      BY <1>2, <2>1, <2>3
  <1>4. \E m \in 0..Width : P(m)
    BY <1>2, <1>3
  <1>5. DifLen(dif) \in 0..Width /\ P(DifLen(dif))
    <2>1. DifLen(dif) = CHOOSE m \in 0..Width : P(m)
      BY DEF DifLen
    <2> HIDE DEF P
    <2>2. QED
      BY <1>4, <2>1
  <1>6. QED
    BY <1>5

(* The longest of the differences in use.                                    *)
LEMMA LongestBounds ==
  ASSUME NEW dif \in Difs
  PROVE  LongestDif \in 0..Width /\ DifLen(dif) =< LongestDif
  <1> DEFINE L == {DifLen(d) : d \in Difs}
             T == {Width - n : n \in L}
  <1>1. L \subseteq 0..Width /\ \A d \in Difs : DifLen(d) \in L
    BY DifLenTyped
  <1>2. T \subseteq Nat /\ T # {}
    <2> HIDE DEF L
    <2>1. \A n \in L : Width - n \in Nat
      BY <1>1, Constants
    <2>2. DifLen(dif) \in L
      BY <1>1
    <2>3. QED
      BY <2>1, <2>2
  <1>3. PICK x \in T : \A y \in T : ~(y < x)
    BY <1>2, LeastOf
  <1>4. PICK m \in L : x = Width - m
    OBVIOUS
  <1>5. \A d \in Difs : DifLen(d) =< m
    <2> SUFFICES ASSUME NEW d \in Difs PROVE DifLen(d) =< m
      OBVIOUS
    <2>1. DifLen(d) \in L /\ DifLen(d) \in 0..Width /\ m \in 0..Width
      BY <1>1
    <2> HIDE DEF L
    <2>2. Width - DifLen(d) \in T
      BY <2>1
    <2>3. ~(Width - DifLen(d) < Width - m)
      BY <1>3, <1>4, <2>2
    <2>4. Width \in Nat /\ DifLen(d) \in Int /\ m \in Int
      BY <2>1, Constants
    <2> DEFINE n == DifLen(d)
    <2> HIDE DEF n
    <2>5. n =< m
      BY <2>3, <2>4 DEF n
    <2>6. QED
      BY <2>5 DEF n
  <1>6. LongestDif \in L /\ \A d \in Difs : DifLen(d) =< LongestDif
    <2>1. LongestDif = CHOOSE n \in L : \A d \in Difs : DifLen(d) =< n
      BY DEF LongestDif
    <2> HIDE DEF L
    <2>2. QED
      BY <1>5, <2>1
  <1>7. QED
    BY <1>1, <1>6
-----------------------------------------------------------------------------
(* Events and frames.                                                        *)
LEMMA EventKinds ==
  ASSUME NEW e \in Events
  PROVE  /\ e.dif \in Difs /\ e.ord \in Byte /\ e.id \in Byte \cup {NoId}
         /\ \/ e = Instant(e.id, e.dif) /\ e.type = "Instant" /\ e.id \in Byte
            \/ e = RangePart(e.id, e.dif, e.ord) /\ e.type = "RangePart" /\ e.id \in Byte
            \/ e = UnnamedRangeEnd(e.dif, e.ord) /\ e.type = "UnnamedRangeEnd" /\ e.id = NoId
  <1>1. Ids \subseteq Byte /\ OrdIds \subseteq Byte /\ 0 \in Byte
    <2>1. 0 \in Byte
      BY DEF Byte
    <2>2. QED
      BY <2>1, BytesTyped
  <1>2. CASE \E id \in Ids, dif \in Difs : e = Instant(id, dif)
    <2>1. PICK id \in Ids, dif \in Difs : e = Instant(id, dif)
      BY <1>2
    <2>2. e.type = "Instant" /\ e.id = id /\ e.dif = dif /\ e.ord = 0
      BY <2>1 DEF Instant
    <2>3. e.id \in Byte /\ e.dif \in Difs /\ e.ord \in Byte /\ e = Instant(e.id, e.dif)
      BY <1>1, <2>1, <2>2
    <2>4. QED
      BY <2>2, <2>3
  <1>3. CASE \E id \in Ids, dif \in Difs, ord \in OrdIds : e = RangePart(id, dif, ord)
    <2>1. PICK id \in Ids, dif \in Difs, ord \in OrdIds : e = RangePart(id, dif, ord)
      BY <1>3
    <2>2. e.type = "RangePart" /\ e.id = id /\ e.dif = dif /\ e.ord = ord
      BY <2>1 DEF RangePart
    <2>3. e.id \in Byte /\ e.dif \in Difs /\ e.ord \in Byte /\ e = RangePart(e.id, e.dif, e.ord)
      BY <1>1, <2>1, <2>2
    <2>4. QED
      BY <2>2, <2>3
  <1>4. CASE \E dif \in Difs, ord \in OrdIds : e = UnnamedRangeEnd(dif, ord)
    BY <1>1, <1>4 DEF UnnamedRangeEnd
  <1>5. QED
    BY <1>2, <1>3, <1>4 DEF Events

(* What stands where in a frame.                                             *)
HeadLen(e) == IF e.type = "Instant" THEN 2 ELSE 3

LEMMA FrameParts ==
  ASSUME NEW e \in Events
  PROVE  /\ Frame(e) \in Seq(Byte) /\ DifLen(e.dif) \in 0..15 /\ DifLen(e.dif) =< Width
         /\ Len(Frame(e)) = HeadLen(e) + DifLen(e.dif)
         /\ \A j \in 1..DifLen(e.dif) : Frame(e)[HeadLen(e) + j] = e.dif[j]
         /\ e.type = "Instant" => Frame(e)[1] = e.id /\ Frame(e)[2] = DifLen(e.dif)
         /\ e.type = "RangePart" => /\ Frame(e)[1] = e.id /\ Frame(e)[2] = DifLen(e.dif) + 128
                                    /\ Frame(e)[3] = e.ord
         /\ e.type = "UnnamedRangeEnd" => /\ Frame(e)[1] = 0
                                          /\ Frame(e)[2] = DifLen(e.dif) + 192
                                          /\ Frame(e)[3] = e.ord
  <1> DEFINE n == DifLen(e.dif)
             dif == SubSeq(e.dif, 1, n)
  <1>1. /\ n \in 0..15 /\ n =< Width /\ Width \in 1..15
        /\ e.dif \in [1..Width -> Byte] /\ e.ord \in Byte
    <2>1. e.dif \in Difs /\ e.ord \in Byte
      BY EventKinds
    <2>2. n \in 0..Width
      BY <2>1, DifLenTyped
    <2>3. Width \in 1..15
      BY Constants
    <2> HIDE DEF n
    <2>4. n \in 0..15 /\ n =< Width
      BY <2>2, <2>3
    <2>5. e.dif \in [1..Width -> Byte]
      BY <2>1, Constants DEF Byte
    <2>6. QED
      BY <2>1, <2>3, <2>4, <2>5
  <1>2. dif \in Seq(Byte) /\ Len(dif) = n /\ \A j \in 1..n : dif[j] = e.dif[j]
    <2>1. e.dif \in Seq(Byte) /\ Len(e.dif) = Width
      BY <1>1
    <2> HIDE DEF n
    <2>2. QED
      BY <1>1, <2>1
  <1> HIDE DEF n, dif
  <1>3. CASE e.type = "Instant"
    <2>1. Frame(e) = <<e.id, n>> \o dif /\ e.id \in Byte /\ HeadLen(e) = 2
      BY <1>3, EventKinds DEF Frame, HeadLen, n, dif
    <2>2. <<e.id, n>> \in Seq(Byte)
      BY <1>1, <2>1 DEF Byte
    <2>3. QED
      BY <1>1, <1>2, <1>3, <2>1, <2>2 DEF n
  <1>4. CASE e.type = "RangePart"
    <2>1. Frame(e) = <<e.id, n + 128, e.ord>> \o dif /\ e.id \in Byte /\ HeadLen(e) = 3
      BY <1>4, EventKinds DEF Frame, HeadLen, n, dif
    <2>2. <<e.id, n + 128, e.ord>> \in Seq(Byte)
      BY <1>1, <2>1 DEF Byte
    <2>3. QED
      BY <1>1, <1>2, <1>4, <2>1, <2>2 DEF n
  <1>5. CASE e.type = "UnnamedRangeEnd"
    <2>1. Frame(e) = <<0, n + 192, e.ord>> \o dif /\ HeadLen(e) = 3
      BY <1>5 DEF Frame, HeadLen, n, dif
    <2>2. <<0, n + 192, e.ord>> \in Seq(Byte)
      BY <1>1, <2>1 DEF Byte
    <2>3. QED
      BY <1>1, <1>2, <1>5, <2>1, <2>2 DEF n
  <1>6. QED
    BY <1>3, <1>4, <1>5, EventKinds

LEMMA FrameLong ==
  ASSUME NEW e \in Events
  PROVE  Len(Frame(e)) \in Nat /\ Len(Frame(e)) >= HeadLen(e) /\ HeadLen(e) \in {2, 3}
  <1>1. /\ Len(Frame(e)) = HeadLen(e) + DifLen(e.dif) /\ DifLen(e.dif) \in 0..15
        /\ HeadLen(e) \in {2, 3}
    BY FrameParts DEF HeadLen
  <1>2. \A h \in {2, 3}, n \in 0..15 : h + n \in Nat /\ h + n >= h
    OBVIOUS
  <1>3. QED
    BY <1>1, <1>2

(* The second byte of a frame, taken apart.                                  *)
LEMMA Flags ==
  ASSUME NEW n \in 0..15
  PROVE  /\ n % 16 = n /\ (n + 128) % 16 = n /\ (n + 192) % 16 = n
         /\ ~IsRange(n) /\ IsRange(n + 128) /\ IsRange(n + 192)
         /\ ~IsUnnamed(n + 128) /\ IsUnnamed(n + 192)
  <1>1. n % 16 = n /\ (n + 128) % 16 = n /\ (n + 192) % 16 = n
    OBVIOUS
  <1>2. n \div 128 = 0 /\ (n + 128) \div 128 = 1 /\ (n + 192) \div 128 = 1
    OBVIOUS
  <1>3. (n + 128) \div 64 = 2 /\ (n + 192) \div 64 = 3
    OBVIOUS
  <1>4. QED
    BY <1>1, <1>2, <1>3 DEF IsRange, IsUnnamed
-----------------------------------------------------------------------------
(* Recording.                                                                *)
LEMMA NothingEncoded == \E off : Encoding(<<>>, <<>>, off)
  <1> DEFINE off == [i \in 1..1 |-> 0]
  <1>1. off \in [1..(Len(<<>>) + 1) -> Nat] /\ off[1] = 0 /\ off[Len(<<>>) + 1] = Len(<<>>)
    OBVIOUS
  <1>2. <<>> \in Seq(Byte) /\ <<>> \in Seq(Events) /\ 1..Len(<<>>) = {}
    OBVIOUS
  <1> HIDE DEF off
  <1>3. Encoding(<<>>, <<>>, off)
    BY <1>1, <1>2 DEF Encoding
  <1>4. QED
    BY <1>3

LEMMA FrameEncoded ==
  ASSUME NEW bytes, NEW events, NEW off, Encoding(bytes, events, off), NEW e \in Events
  PROVE  \E o : Encoding(bytes \o Frame(e), Append(events, e), o)
  <1> DEFINE f == Frame(e)
             more == bytes \o f
             all == Append(events, e)
             n == Len(events)
             o == [i \in 1..(n + 2) |-> IF i =< n + 1 THEN off[i] ELSE Len(bytes) + Len(f)]
  <1>1. /\ bytes \in Seq(Byte) /\ events \in Seq(Events) /\ f \in Seq(Byte)
        /\ n \in Nat /\ Len(bytes) \in Nat /\ Len(f) \in Nat
        /\ off \in [1..(n + 1) -> Nat] /\ off[1] = 0 /\ off[n + 1] = Len(bytes)
    BY FrameParts DEF Encoding
  <1> HIDE DEF f
  <1>2. /\ more \in Seq(Byte) /\ Len(more) = Len(bytes) + Len(f)
        /\ \A j \in 1..Len(bytes) : more[j] = bytes[j]
        /\ \A j \in 1..Len(f) : more[Len(bytes) + j] = f[j]
    BY <1>1
  <1>3. all \in Seq(Events) /\ Len(all) = n + 1 /\ all[n + 1] = e
        /\ \A i \in 1..n : all[i] = events[i]
    BY <1>1
  <1>4. /\ o \in [1..(n + 2) -> Nat] /\ o[n + 2] = Len(more)
        /\ \A i \in 1..(n + 1) : o[i] = off[i]
    BY <1>1, <1>2
  <1> HIDE DEF o, n, more, all
  <1>5. ASSUME NEW i \in 1..(n + 1)
        PROVE  /\ o[i + 1] = o[i] + Len(Frame(all[i])) /\ o[i + 1] =< Len(more)
               /\ \A j \in 1..Len(Frame(all[i])) : more[o[i] + j] = Frame(all[i])[j]
    <2>1. CASE i = n + 1
      <3>1. /\ all[i] = e /\ Frame(all[i]) = f /\ i + 1 = n + 2 /\ n + 1 \in 1..(n + 1)
        <4>1. i + 1 = n + 2 /\ n + 1 \in 1..(n + 1)
          BY <1>1, <2>1
        <4>2. all[i] = e
          BY <1>3, <2>1
        <4>3. QED
          BY <4>1, <4>2 DEF f
      <3>2. o[i + 1] = Len(more) /\ o[i] = Len(bytes)
        BY <1>1, <1>4, <2>1, <3>1
      <3>3. o[i + 1] = o[i] + Len(Frame(all[i])) /\ o[i + 1] =< Len(more)
        BY <1>1, <1>2, <3>1, <3>2
      <3>4. \A j \in 1..Len(f) : more[o[i] + j] = f[j]
        BY <1>2, <3>2
      <3>5. QED
        BY <3>1, <3>3, <3>4
    <2>2. CASE i \in 1..n
      <3>1. /\ off[i + 1] = off[i] + Len(Frame(events[i])) /\ off[i + 1] =< Len(bytes)
            /\ \A j \in 1..Len(Frame(events[i])) : bytes[off[i] + j] = Frame(events[i])[j]
        BY <2>2 DEF Encoding, n
      <3>2. /\ all[i] = events[i] /\ o[i] = off[i] /\ o[i + 1] = off[i + 1]
            /\ off[i] \in Nat /\ off[i + 1] \in Nat /\ Len(Frame(events[i])) \in Nat
        <4>1. i \in 1..(n + 1) /\ i + 1 \in 1..(n + 1)
          BY <1>1, <2>2
        <4>2. events[i] \in Events
          BY <1>1, <2>2 DEF n
        <4>3. Frame(events[i]) \in Seq(Byte)
          BY <4>2, FrameParts
        <4>4. QED
          BY <1>1, <1>3, <1>4, <2>2, <4>1, <4>3
      <3>3. ASSUME NEW j \in 1..Len(Frame(events[i])) PROVE more[off[i] + j] = Frame(events[i])[j]
        <4>1. off[i] + j \in 1..Len(bytes)
          BY <1>1, <3>1, <3>2
        <4>2. QED
          BY <1>2, <3>1, <4>1
      <3>4. off[i + 1] =< Len(more)
        BY <1>1, <1>2, <3>1, <3>2
      <3>5. QED
        BY <3>1, <3>2, <3>3, <3>4
    <2>3. QED
      BY <1>1, <2>1, <2>2
  <1>6. o[1] = 0 /\ Len(all) + 1 = n + 2
    BY <1>1, <1>3, <1>4
  <1>7. Encoding(more, all, o)
    BY <1>2, <1>3, <1>4, <1>5, <1>6 DEF Encoding
  <1>8. QED
    BY <1>7 DEF more, all, f

LEMMA InitDecoder == Init => DecoderInv
  <1> SUFFICES ASSUME Init PROVE DecoderInv
    OBVIOUS
  <1>1. TypeOK
    <2>1. NewFrame \in [at : {"NewFrame", "DifTmLen", "DifTm", "RangeOrdId", "RangeTm"},
                        id : Byte \cup {NoId}, len : 0..15, ord : Byte]
      BY DEF NewFrame, At, Byte
    <2>2. 0 =< BufSize
      BY Constants
    <2>3. QED
      BY <2>1, <2>2 DEF Init, TypeOK
  <1>2. QED
    BY <1>1, NothingEncoded DEF Init, DecoderInv, PageInv

(* A page that has not been touched.                                         *)
LEMMA FlushedPage ==
  ASSUME DecoderInv, phase = "record", NEW bytes, NEW events, NEW off,
         Encoding(bytes, events, off), Len(bytes) # 0, FlushAsPage(bytes, events)
  PROVE  DecoderInv'
  <1>1. /\ buf' = <<>> /\ recorded' = <<>> /\ phase' = "read" /\ page' = bytes
        /\ size' = Len(bytes) /\ expected' = events /\ decoded' = <<>>
        /\ ring' = <<>> /\ state' = NewFrame
    BY DEF FlushAsPage, DecoderInv
  <1>2. bytes \in Seq(Byte) /\ events \in Seq(Events) /\ Len(bytes) \in Nat
        /\ Len(events) \in Nat /\ off[1] = 0
    BY DEF Encoding
  <1>3. TypeOK'
    BY <1>1, <1>2 DEF DecoderInv, TypeOK, FlushAsPage
  <1>4. Pos' = 0
    BY <1>1, <1>2 DEF Pos
  <1>5. Aligned(bytes)'
    BY <1>1, <1>2, <1>4 DEF Aligned
  <1>6. Following(off)'
    BY <1>1, <1>2, <1>4 DEF Following
  <1>7. Decoding(bytes, off)'
    BY <1>1, <1>5, <1>6 DEF Decoding
  <1>8. Chunked'
    BY <1>1 DEF Chunked
  <1>9. (\E o : Encoding(buf, recorded, o))'
    BY <1>1, NothingEncoded
  <1>10. QED
    BY <1>1, <1>3, <1>7, <1>8, <1>9 DEF DecoderInv, PageInv

LEMMA RecordStep == ASSUME DecoderInv, NEW e \in Events, Record(e) PROVE DecoderInv'
  <1> DEFINE bytes == buf \o Frame(e)
             events == Append(recorded, e)
  <1>1. phase = "record"
    BY DEF Record
  <1>2. PICK off : Encoding(bytes, events, off)
    BY FrameEncoded DEF DecoderInv
  <1>3. Len(bytes) # 0
    <2>1. buf \in Seq(Byte) /\ Frame(e) \in Seq(Byte) /\ Len(Frame(e)) >= 2
      <3>1. Frame(e) \in Seq(Byte)
        BY FrameParts
      <3>2. Len(Frame(e)) >= 2
        BY FrameLong
      <3>3. QED
        BY <3>1, <3>2 DEF DecoderInv, TypeOK
    <2>2. QED
      BY <2>1
  <1> HIDE DEF bytes, events
  <1>4. CASE FlushAsPage(bytes, events)
    BY <1>1, <1>2, <1>3, <1>4, FlushedPage
  <1>5. CASE /\ buf' = bytes /\ recorded' = events
             /\ UNCHANGED <<phase, readerVars, decoderVars>>
    <2>1. UNCHANGED <<phase, page, size, expected, ring, state, decoded>>
      BY <1>5 DEF readerVars, decoderVars
    <2>2. TypeOK'
      BY <1>2, <1>5, <2>1 DEF DecoderInv, TypeOK, Encoding
    <2>3. PageInv'
      BY <1>1, <2>1 DEF PageInv
    <2>4. (\E o : Encoding(buf, recorded, o))'
      BY <1>2, <1>5
    <2>5. QED
      BY <1>1, <2>1, <2>2, <2>3, <2>4 DEF DecoderInv
  <1>6. QED
    BY <1>4, <1>5 DEF Record, bytes, events

LEMMA FlushStep == ASSUME DecoderInv, Flush PROVE DecoderInv'
  <1>1. phase = "record" /\ FlushAsPage(buf, recorded) /\ Len(buf) # 0
    BY DEF Flush, DecoderInv, TypeOK
  <1>2. PICK off : Encoding(buf, recorded, off)
    BY DEF DecoderInv
  <1>3. QED
    BY <1>1, <1>2, FlushedPage
-----------------------------------------------------------------------------
(* Reading.                                                                  *)
LEMMA PageTyped ==
  ASSUME TypeOK, NEW bytes, NEW off, Decoding(bytes, off)
  PROVE  /\ Len(ring) \in Nat /\ Len(page) \in Nat /\ size \in Nat /\ Len(bytes) = size
         /\ Pos = size - Len(ring) - Len(page) /\ Pos \in Nat
         /\ Len(decoded) \in Nat /\ Len(expected) \in Nat
         /\ off \in [1..(Len(expected) + 1) -> Nat]
         /\ Len(decoded) + 1 \in 1..(Len(expected) + 1)
         /\ ring \in Seq(Byte) /\ page \in Seq(Byte) /\ expected \in Seq(Events)
         /\ decoded \in Seq(Events)
  <1>1. ring \in Seq(Byte) /\ page \in Seq(Byte) /\ expected \in Seq(Events)
        /\ decoded \in Seq(Events) /\ size \in Nat
    BY DEF TypeOK, Decoding, Following
  <1>2. /\ Len(ring) \in Nat /\ Len(page) \in Nat /\ Len(decoded) \in Nat
        /\ Len(expected) \in Nat
    BY <1>1
  <1>3. Len(decoded) + 1 \in 1..(Len(expected) + 1)
    BY <1>2 DEF Decoding, Following
  <1>4. QED
    BY <1>1, <1>2, <1>3 DEF Decoding, Aligned, Encoding, Pos

(* The frame that the decoder is in, and its bytes that are in the ring.     *)
LEMMA CurrentFrame ==
  ASSUME TypeOK, NEW bytes, NEW off, Decoding(bytes, off), Len(ring) >= 1 \/ state # NewFrame
  PROVE  LET k  == Len(decoded) + 1
             e  == expected[k]
             at == Pos - off[k]
         IN  /\ k =< Len(expected) /\ k \in 1..Len(expected) /\ e \in Events /\ off[k] \in Nat
             /\ at \in {0, 1, 2, 3} /\ Pos = off[k] + at
             /\ (at = 0 /\ state = NewFrame) \/ InFrame(state, e, at)
             /\ off[k + 1] = off[k] + Len(Frame(e)) /\ off[k + 1] =< size
             /\ \A j \in 1..Len(ring) : at + j =< Len(Frame(e)) => ring[j] = Frame(e)[at + j]
  <1> DEFINE k  == Len(decoded) + 1
             e  == expected[k]
             at == Pos - off[k]
  <1>1. /\ Len(ring) \in Nat /\ Len(page) \in Nat /\ size \in Nat
        /\ Pos = size - Len(ring) - Len(page) /\ Pos \in Nat
        /\ Len(decoded) \in Nat /\ Len(expected) \in Nat /\ k \in 1..(Len(expected) + 1)
        /\ off[k] \in Nat /\ expected \in Seq(Events) /\ off[Len(expected) + 1] = size
    BY PageTyped DEF Decoding, Encoding
  <1>2. k = Len(decoded) + 1 /\ e = expected[k] /\ at = Pos - off[k]
    OBVIOUS
  <1>3. \/ Pos = off[k] /\ state = NewFrame
        \/ Len(decoded) < Len(expected) /\ InFrame(state, e, at)
    BY DEF Decoding, Following
  <1> HIDE DEF k, e, at
  <1>4. k =< Len(expected)
    <2>1. CASE InFrame(state, e, at) /\ Len(decoded) < Len(expected)
      BY <1>1, <1>2, <2>1
    <2>2. CASE state = NewFrame /\ Pos = off[k]
      <3>1. Pos < size
        BY <1>1, <2>2
      <3>2. k # Len(expected) + 1
        BY <1>1, <2>2, <3>1
      <3>3. QED
        BY <1>1, <3>2
    <2>3. QED
      BY <1>3, <2>1, <2>2
  <1>5. k \in 1..Len(expected) /\ e \in Events
    BY <1>1, <1>2, <1>4
  <1>6. (at = 0 /\ state = NewFrame) \/ InFrame(state, e, at)
    BY <1>1, <1>2, <1>3
  <1>7. at \in {0, 1, 2, 3}
    BY <1>6 DEF InFrame
  <1>8. Pos = off[k] + at
    BY <1>1, <1>2, <1>7
  <1>9. /\ off[k + 1] = off[k] + Len(Frame(e)) /\ off[k + 1] =< size
        /\ \A j \in 1..Len(Frame(e)) : bytes[off[k] + j] = Frame(e)[j]
    BY <1>2, <1>5, PageTyped DEF Decoding, Encoding
  <1>10. ASSUME NEW j \in 1..Len(ring), at + j =< Len(Frame(e))
         PROVE  ring[j] = Frame(e)[at + j]
    <2>1. ring[j] = bytes[Pos + j]
      BY DEF Decoding, Aligned
    <2>2. at + j \in 1..Len(Frame(e)) /\ Pos + j = off[k] + (at + j)
      <3>1. Len(Frame(e)) \in Nat
        BY <1>5, FrameParts
      <3>2. j \in Nat /\ j >= 1 /\ at \in Nat
        BY <1>1, <1>7
      <3>3. \A a, b, c \in Nat : (a + b) + c = a + (b + c)
        OBVIOUS
      <3>4. Pos + j = off[k] + (at + j)
        <4>1. off[k] \in Nat
          BY <1>1
        <4>2. QED
          BY <1>8, <3>2, <3>3, <4>1
      <3>5. at + j \in 1..Len(Frame(e))
        BY <1>10, <3>1, <3>2
      <3>6. QED
        BY <3>4, <3>5
    <2>3. QED
      BY <1>9, <2>1, <2>2
  <1>11. QED
    BY <1>1, <1>4, <1>5, <1>6, <1>7, <1>8, <1>9, <1>10 DEF k, e, at

(* What is left in the ring when try_decode_event waits.                     *)
LEMMA LittleWaits ==
  ASSUME TypeOK, NEW bytes, NEW off, Decoding(bytes, off), Len(ring) < Needs(state)
  PROVE  Len(ring) = 0 \/ (Len(ring) < LongestDif /\ LongestDif \in Nat)
  <1>1. Len(ring) \in Nat
    BY PageTyped
  <1>2. CASE state = NewFrame
    <2>1. Needs(state) = 1
      BY <1>2 DEF Needs, NewFrame, At
    <2>2. QED
      BY <1>1, <2>1
  <1>3. CASE state # NewFrame
    <2> DEFINE e == expected[Len(decoded) + 1]
    <2>1. e \in Events /\ InFrame(state, e, Pos - off[Len(decoded) + 1])
      BY <1>3, CurrentFrame
    <2>2. DifLen(e.dif) =< LongestDif /\ LongestDif \in Nat /\ DifLen(e.dif) \in Nat
      <3>1. e.dif \in Difs
        BY <2>1, EventKinds
      <3>2. LongestDif \in 0..Width /\ DifLen(e.dif) =< LongestDif /\ DifLen(e.dif) \in 0..Width
        BY <3>1, LongestBounds, DifLenTyped
      <3>3. QED
        BY <3>2
    <2> HIDE DEF e
    <2>3. Needs(state) = 1 \/ Needs(state) = DifLen(e.dif)
      BY <2>1 DEF InFrame, Needs, OrdIdNeeds, At
    <2>4. QED
      BY <1>1, <2>2, <2>3
  <1>4. QED
    BY <1>2, <1>3
(* The bytes that stay in the ring when the first n are taken.               *)
LEMMA RingPopped ==
  ASSUME TypeOK, NEW bytes, NEW off, Decoding(bytes, off), NEW n \in Nat, n =< Len(ring),
         ring' = Popped(n), UNCHANGED <<page, size>>
  PROVE  /\ ring' \in Seq(Byte) /\ Len(ring') = Len(ring) - n
         /\ Pos' = Pos + n /\ Aligned(bytes)'
  <1>1. /\ Len(ring) \in Nat /\ Len(page) \in Nat /\ size \in Nat /\ Len(bytes) = size
        /\ Pos = size - Len(ring) - Len(page) /\ Pos \in Nat /\ ring \in Seq(Byte)
    BY PageTyped
  <1>2. /\ ring' \in Seq(Byte) /\ Len(ring') = Len(ring) - n
        /\ \A j \in 1..(Len(ring) - n) : ring'[j] = ring[n + j]
    BY <1>1 DEF Popped
  <1>3. Pos' = size - Len(ring') - Len(page)
    BY DEF Pos
  <1>4. Pos' = Pos + n
    BY <1>1, <1>2, <1>3
  <1>5. ASSUME NEW j \in 1..Len(ring') PROVE ring'[j] = bytes[Pos' + j]
    <2>1. n + j \in 1..Len(ring) /\ Pos' + j = Pos + (n + j) /\ j \in 1..(Len(ring) - n)
      BY <1>1, <1>2, <1>4
    <2>2. QED
      BY <1>2, <2>1 DEF Decoding, Aligned
  <1>6. ASSUME NEW j \in 1..Len(page) PROVE page[j] = bytes[Pos' + Len(ring') + j]
    <2>1. Pos' + Len(ring') = Pos + Len(ring)
      BY <1>1, <1>2, <1>4
    <2>2. QED
      BY <2>1 DEF Decoding, Aligned
  <1>7. QED
    BY <1>1, <1>2, <1>4, <1>5, <1>6 DEF Aligned

(* What the four steps of try_decode_event have in common.                   *)
Pops == PopId \/ PopDifTmLen \/ PopOrdId \/ PopTm

LEMMA PopKept ==
  ASSUME DecoderInv, Pops
  PROVE  /\ phase = "decode" /\ UNCHANGED <<buf, recorded, page, size, expected>>
         /\ RingFits' <=> RingFits
  BY DEF Pops, PopId, PopDifTmLen, PopOrdId, PopTm, Available, localVars, readerVars, RingFits

(* Each leaves the decoder behind the next piece of the frame.               *)
LEMMA IdPopped ==
  ASSUME TypeOK, NEW bytes, NEW off, Decoding(bytes, off), PopId
  PROVE  Decoding(bytes, off)' /\ phase' = "decode"
  <1> DEFINE k == Len(decoded) + 1
             e == expected[k]
  <1>1. /\ state.at = "NewFrame" /\ phase' = "decode" /\ phase = "decode" /\ Len(ring) >= 1
        /\ ring' = Popped(1) /\ state' = At("DifTmLen", ring[1], 0, 0)
        /\ UNCHANGED <<page, size, expected, decoded>>
    BY DEF PopId, Available, readerVars
  <1>2. /\ k =< Len(expected) /\ e \in Events /\ off[k] \in Nat /\ Pos = off[k] + (Pos - off[k])
        /\ (Pos - off[k] = 0 /\ state = NewFrame) \/ InFrame(state, e, Pos - off[k])
        /\ \A j \in 1..Len(ring) :
             Pos - off[k] + j =< Len(Frame(e)) => ring[j] = Frame(e)[Pos - off[k] + j]
    BY <1>1, CurrentFrame
  <1>3. Pos - off[k] = 0
    BY <1>1, <1>2 DEF InFrame, At
  <1>4. Aligned(bytes)' /\ Pos' = Pos + 1
    BY <1>1, RingPopped
  <1>5. ring[1] = Frame(e)[1]
    <2>1. 1 \in 1..Len(ring) /\ 0 + 1 = 1
      BY <1>1, PageTyped
    <2>2. 1 =< Len(Frame(e))
      BY <1>2, FrameLong
    <2>3. QED
      BY <1>2, <1>3, <2>1, <2>2
  <1>6. Pos' - off[k] = 1
    BY <1>2, <1>3, <1>4
  <1>7. InFrame(state', e, Pos' - off[k])
    BY <1>1, <1>5, <1>6 DEF InFrame
  <1>8. Following(off)'
    BY <1>1, <1>2, <1>7, PageTyped DEF Following, Decoding
  <1>9. QED
    BY <1>1, <1>4, <1>8 DEF Decoding
LEMMA DifTmLenPopped ==
  ASSUME TypeOK, NEW bytes, NEW off, Decoding(bytes, off), PopDifTmLen
  PROVE  Decoding(bytes, off)' /\ phase' = "decode"
  <1> DEFINE k == Len(decoded) + 1
             e == expected[k]
             b == ring[1]
             n == DifLen(e.dif)
  <1>1. /\ state.at = "DifTmLen" /\ phase' = "decode" /\ Len(ring) >= 1 /\ ring' = Popped(1)
        /\ state' = IF IsRange(b)
                      THEN At("RangeOrdId", IF IsUnnamed(b) THEN NoId ELSE state.id, b % 16, 0)
                      ELSE At("DifTm", state.id, b % 16, 0)
        /\ UNCHANGED <<page, size, expected, decoded>>
    BY DEF PopDifTmLen, Available, readerVars
  <1>2. /\ k =< Len(expected) /\ e \in Events /\ off[k] \in Nat /\ Pos = off[k] + (Pos - off[k])
        /\ (Pos - off[k] = 0 /\ state = NewFrame) \/ InFrame(state, e, Pos - off[k])
        /\ \A j \in 1..Len(ring) :
             Pos - off[k] + j =< Len(Frame(e)) => ring[j] = Frame(e)[Pos - off[k] + j]
    BY <1>1, CurrentFrame
  <1>3. Pos - off[k] = 1 /\ state = At("DifTmLen", Frame(e)[1], 0, 0)
    BY <1>1, <1>2 DEF InFrame, At, NewFrame
  <1>4. Aligned(bytes)' /\ Pos' = Pos + 1
    BY <1>1, RingPopped
  <1>5. b = Frame(e)[2]
    <2>1. 1 \in 1..Len(ring) /\ 1 + 1 = 2
      BY <1>1, PageTyped
    <2>2. 2 =< Len(Frame(e))
      BY <1>2, FrameLong
    <2>3. QED
      BY <1>2, <1>3, <2>1, <2>2
  <1>6. Pos' - off[k] = 2
    BY <1>2, <1>3, <1>4
  <1>7. state.id = Frame(e)[1] /\ n \in 0..15
    BY <1>2, <1>3, FrameParts DEF At
  <1> HIDE DEF k, e, b, n
  <1>8. InFrame(state', e, Pos' - off[k])
    <2>1. CASE e.type = "Instant"
      <3>1. b = n /\ state.id = e.id
        BY <1>2, <1>5, <1>7, <2>1, FrameParts DEF n
      <3>2. ~IsRange(b) /\ b % 16 = n
        BY <1>7, <3>1, Flags
      <3>3. state' = At("DifTm", e.id, n, 0)
        BY <1>1, <3>1, <3>2
      <3>4. QED
        BY <1>6, <2>1, <3>3 DEF InFrame, n
    <2>2. CASE e.type = "RangePart"
      <3>1. b = n + 128 /\ state.id = e.id
        BY <1>2, <1>5, <1>7, <2>2, FrameParts DEF n
      <3>2. IsRange(b) /\ ~IsUnnamed(b) /\ b % 16 = n
        BY <1>7, <3>1, Flags
      <3>3. state' = At("RangeOrdId", e.id, n, 0)
        BY <1>1, <3>1, <3>2
      <3>4. QED
        BY <1>6, <2>2, <3>3 DEF InFrame, n
    <2>3. CASE e.type = "UnnamedRangeEnd"
      <3>1. b = n + 192 /\ e.id = NoId
        BY <1>2, <1>5, <1>7, <2>3, FrameParts, EventKinds DEF n
      <3>2. IsRange(b) /\ IsUnnamed(b) /\ b % 16 = n
        BY <1>7, <3>1, Flags
      <3>3. state' = At("RangeOrdId", e.id, n, 0)
        BY <1>1, <3>1, <3>2
      <3>4. QED
        BY <1>6, <2>3, <3>3 DEF InFrame, n
    <2>4. QED
      BY <1>2, <2>1, <2>2, <2>3, EventKinds
  <1>9. Following(off)'
    BY <1>1, <1>2, <1>8, PageTyped DEF Following, Decoding, k, e
  <1>10. QED
    BY <1>1, <1>4, <1>9 DEF Decoding

LEMMA OrdIdPopped ==
  ASSUME TypeOK, NEW bytes, NEW off, Decoding(bytes, off), PopOrdId
  PROVE  Decoding(bytes, off)' /\ phase' = "decode"
  <1> DEFINE k == Len(decoded) + 1
             e == expected[k]
             n == DifLen(e.dif)
  <1>1. /\ state.at = "RangeOrdId" /\ phase' = "decode" /\ Len(ring) >= 1 /\ ring' = Popped(1)
        /\ state' = [state EXCEPT !.at = "RangeTm", !.ord = ring[1]]
        /\ UNCHANGED <<page, size, expected, decoded>>
    BY DEF PopOrdId, Available, OrdIdNeeds, readerVars
  <1>2. /\ k =< Len(expected) /\ e \in Events /\ off[k] \in Nat /\ Pos = off[k] + (Pos - off[k])
        /\ (Pos - off[k] = 0 /\ state = NewFrame) \/ InFrame(state, e, Pos - off[k])
        /\ \A j \in 1..Len(ring) :
             Pos - off[k] + j =< Len(Frame(e)) => ring[j] = Frame(e)[Pos - off[k] + j]
    BY <1>1, CurrentFrame
  <1>3. /\ Pos - off[k] = 2 /\ state = At("RangeOrdId", e.id, n, 0)
        /\ e.type # "Instant"
    BY <1>1, <1>2 DEF InFrame, At, NewFrame
  <1>4. Aligned(bytes)' /\ Pos' = Pos + 1
    BY <1>1, RingPopped
  <1>5. ring[1] = e.ord
    <2>1. 1 \in 1..Len(ring) /\ 2 + 1 = 3
      BY <1>1, PageTyped
    <2>2. 3 =< Len(Frame(e))
      BY <1>2, <1>3, FrameLong DEF HeadLen
    <2>3. ring[1] = Frame(e)[3]
      BY <1>2, <1>3, <2>1, <2>2
    <2>4. QED
      BY <1>2, <1>3, <2>3, FrameParts, EventKinds
  <1>6. Pos' - off[k] = 3
    BY <1>2, <1>3, <1>4
  <1>7. state' = At("RangeTm", e.id, n, e.ord)
    BY <1>1, <1>3, <1>5 DEF At
  <1>8. InFrame(state', e, Pos' - off[k])
    BY <1>3, <1>6, <1>7 DEF InFrame
  <1>9. Following(off)'
    BY <1>1, <1>2, <1>8, PageTyped DEF Following, Decoding
  <1>10. QED
    BY <1>1, <1>4, <1>9 DEF Decoding
(* The bytes of a difference, filled up with the zeros that were left out.   *)
LEMMA DifRead ==
  ASSUME NEW e \in Events, NEW bytes \in Seq(Byte), DifLen(e.dif) =< Len(bytes),
         \A j \in 1..DifLen(e.dif) : bytes[j] = e.dif[j]
  PROVE  DifFrom(SubSeq(bytes, 1, DifLen(e.dif))) = e.dif
  <1> DEFINE n == DifLen(e.dif)
             sub == SubSeq(bytes, 1, n)
  <1>1. /\ e.dif \in Difs /\ n \in 0..Width /\ Width \in Nat
        /\ \A i \in (n + 1)..Width : e.dif[i] = 0
    BY EventKinds, DifLenTyped, Constants
  <1>2. e.dif \in [1..Width -> 0..255]
    BY <1>1, Constants
  <1>3. Len(sub) = n /\ \A j \in 1..n : sub[j] = e.dif[j]
    <2> HIDE DEF n
    <2>1. n \in Nat /\ n =< Len(bytes) /\ \A j \in 1..n : bytes[j] = e.dif[j]
      BY <1>1 DEF n
    <2>2. Len(SubSeq(bytes, 1, n)) = n /\ \A j \in 1..n : SubSeq(bytes, 1, n)[j] = bytes[j]
      BY <2>1
    <2>3. QED
      BY <2>1, <2>2
  <1> HIDE DEF n, sub
  <1>4. \A i \in 1..Width : (IF i =< Len(sub) THEN sub[i] ELSE 0) = e.dif[i]
    <2> SUFFICES ASSUME NEW i \in 1..Width
                 PROVE  (IF i =< n THEN sub[i] ELSE 0) = e.dif[i]
      BY <1>3
    <2>1. CASE i =< n
      <3>1. i \in 1..n
        BY <1>1, <2>1
      <3>2. QED
        BY <1>3, <2>1, <3>1
    <2>2. CASE ~(i =< n)
      <3>1. i \in (n + 1)..Width
        BY <1>1, <2>2
      <3>2. QED
        BY <1>1, <2>2, <3>1
    <2>3. QED
      BY <2>1, <2>2
  <1>5. DifFrom(sub) = [i \in 1..Width |-> e.dif[i]]
    BY <1>4 DEF DifFrom
  <1>6. QED
    BY <1>2, <1>5 DEF sub, n

LEMMA TmPopped ==
  ASSUME TypeOK, NEW bytes, NEW off, Decoding(bytes, off), PopTm
  PROVE  Decoding(bytes, off)' /\ phase' = "decode"
  <1> DEFINE k == Len(decoded) + 1
             e == expected[k]
             n == DifLen(e.dif)
             h == HeadLen(e)
             event == EventFrom(state, DifFrom(SubSeq(ring, 1, state.len)))
  <1>1. /\ state.at \in {"DifTm", "RangeTm"} /\ phase = "decode" /\ Len(ring) >= state.len
        /\ state' = NewFrame /\ UNCHANGED <<page, size, expected>>
        /\ state.len =< Width => /\ ring' = Popped(state.len) /\ phase' = phase
                                /\ decoded' = Append(decoded, event)
    BY DEF PopTm, Available, readerVars
  <1>2. state # NewFrame
    BY <1>1 DEF NewFrame, At
  <1>3. /\ k =< Len(expected) /\ e \in Events /\ off[k] \in Nat /\ Pos = off[k] + (Pos - off[k])
        /\ InFrame(state, e, Pos - off[k]) /\ off[k + 1] = off[k] + Len(Frame(e))
        /\ \A j \in 1..Len(ring) :
             Pos - off[k] + j =< Len(Frame(e)) => ring[j] = Frame(e)[Pos - off[k] + j]
    BY <1>2, CurrentFrame
  <1>4. /\ Pos - off[k] = h /\ h \in {2, 3} /\ state.len = n /\ state.id = e.id
        /\ IF e.type = "Instant" THEN state.at = "DifTm"
           ELSE state.at = "RangeTm" /\ state.ord = e.ord
    BY <1>1, <1>3 DEF InFrame, At, HeadLen
  <1>5. /\ n \in Nat /\ n =< Width /\ n =< Len(ring) /\ Len(Frame(e)) = h + n
        /\ \A j \in 1..n : Frame(e)[h + j] = e.dif[j]
    <2>1. /\ n \in 0..15 /\ n =< Width /\ Len(Frame(e)) = h + n
          /\ \A j \in 1..n : Frame(e)[h + j] = e.dif[j]
      BY <1>3, FrameParts
    <2>2. n =< Len(ring)
      BY <1>1, <1>4
    <2>3. QED
      BY <2>1, <2>2
  <1>6. /\ Len(ring) \in Nat /\ ring \in Seq(Byte) /\ decoded \in Seq(Events)
        /\ Len(decoded) \in Nat /\ Len(expected) \in Nat
    BY PageTyped
  <1>7. DifFrom(SubSeq(ring, 1, n)) = e.dif
    <2>1. ASSUME NEW j \in 1..n PROVE ring[j] = e.dif[j]
      <3> HIDE DEF n, h, e, k
      <3>1. j \in 1..Len(ring) /\ h + j =< h + n
        BY <1>4, <1>5, <1>6
      <3>2. QED
        BY <1>3, <1>4, <1>5, <2>1, <3>1
    <2>2. QED
      BY <1>3, <1>5, <1>6, <2>1, DifRead
  <1>8. event = e
    <2>1. event = EventFrom(state, e.dif)
      BY <1>4, <1>7
    <2> HIDE DEF event, e, n, h, k
    <2>2. CASE e.type = "Instant"
      BY <1>3, <1>4, <2>1, <2>2, EventKinds DEF EventFrom
    <2>3. CASE e.type = "RangePart"
      <3>1. e.id # NoId
        <4>1. e.id \in Byte /\ NoId \notin Byte
          BY <1>3, <2>3, EventKinds, BytesTyped
        <4>2. QED
          BY <4>1
      <3>2. QED
        BY <1>3, <1>4, <2>1, <2>3, <3>1, EventKinds DEF EventFrom
    <2>4. CASE e.type = "UnnamedRangeEnd"
      BY <1>3, <1>4, <2>1, <2>4, EventKinds DEF EventFrom
    <2>5. QED
      BY <1>3, <2>2, <2>3, <2>4, EventKinds
  <1>9. ring' = Popped(n) /\ phase' = "decode" /\ decoded' = Append(decoded, e)
    BY <1>1, <1>4, <1>5, <1>8
  <1> HIDE DEF event, e, n, h
  <1>10. Aligned(bytes)' /\ Pos' = Pos + n
    BY <1>1, <1>5, <1>9, RingPopped
  <1>11. Pos' = off[k + 1]
    <2> HIDE DEF k
    <2>1. QED
      BY <1>3, <1>4, <1>5, <1>10
  <1>12. /\ decoded' \in Seq(Events) /\ Len(decoded') = k /\ decoded'[k] = e
         /\ \A i \in 1..Len(decoded) : decoded'[i] = decoded[i]
    BY <1>3, <1>6, <1>9
  <1>13. \A i \in 1..k : decoded'[i] = expected[i]
    <2>1. \A i \in 1..k : i = k \/ i \in 1..Len(decoded)
      BY <1>6
    <2>2. \A i \in 1..Len(decoded) : decoded[i] = expected[i]
      BY DEF Decoding, Following
    <2>3. QED
      BY <1>12, <2>1, <2>2 DEF e
  <1>14. Following(off)'
    <2> HIDE DEF k
    <2>1. QED
      BY <1>1, <1>3, <1>11, <1>12, <1>13 DEF Following
  <1>15. QED
    BY <1>1, <1>9, <1>10, <1>14 DEF Decoding
LEMMA PopTyped == ASSUME TypeOK, Pops PROVE TypeOK'
  <1> DEFINE States == [at : {"NewFrame", "DifTmLen", "DifTm", "RangeOrdId", "RangeTm"},
                        id : Byte \cup {NoId}, len : 0..15, ord : Byte]
  <1>1. /\ ring \in Seq(Byte) /\ Len(ring) =< BufSize /\ state \in States
        /\ UNCHANGED <<buf, recorded, page, size, expected>>
        /\ phase' \in {"decode", "panicked"}
    BY DEF TypeOK, Pops, PopId, PopDifTmLen, PopOrdId, PopTm, Available, localVars, readerVars
  <1>2. ASSUME NEW n \in Nat, n =< Len(ring), ring' = Popped(n)
        PROVE  ring' \in Seq(Byte) /\ Len(ring') =< BufSize
    <2>1. Len(ring) \in Nat /\ BufSize \in Nat
      BY <1>1, Constants
    <2>2. ring' \in Seq(Byte) /\ Len(ring') = Len(ring) - n
      BY <1>1, <1>2, <2>1 DEF Popped
    <2>3. QED
      BY <1>1, <1>2, <2>1, <2>2
  <1>3. ASSUME Len(ring) >= 1 PROVE ring[1] \in Byte /\ 1 \in Nat /\ 1 =< Len(ring)
    <2>1. 1 \in 1..Len(ring)
      BY <1>1, <1>3
    <2>2. QED
      BY <1>1, <2>1
  <1>4. 0 \in Byte /\ \A b \in Byte : b % 16 \in 0..15
    BY DEF Byte
  <1>5. CASE PopId
    <2>1. Len(ring) >= 1 /\ ring' = Popped(1) /\ state' = At("DifTmLen", ring[1], 0, 0)
      BY <1>5 DEF PopId, Available
    <2>2. state' \in States
      BY <1>3, <1>4, <2>1 DEF At
    <2>3. QED
      BY <1>1, <1>2, <1>3, <2>1, <2>2 DEF TypeOK
  <1>6. CASE PopDifTmLen
    <2> DEFINE id == IF IsUnnamed(ring[1]) THEN NoId ELSE state.id
    <2>1. /\ Len(ring) >= 1 /\ ring' = Popped(1)
          /\ \/ state' = At("RangeOrdId", id, ring[1] % 16, 0)
             \/ state' = At("DifTm", state.id, ring[1] % 16, 0)
      BY <1>6 DEF PopDifTmLen, Available
    <2>2. id \in Byte \cup {NoId} /\ state.id \in Byte \cup {NoId}
      BY <1>1
    <2> HIDE DEF id
    <2>3. state' \in States
      BY <1>3, <1>4, <2>1, <2>2 DEF At
    <2>4. QED
      BY <1>1, <1>2, <1>3, <2>1, <2>3 DEF TypeOK
  <1>7. CASE PopOrdId
    <2>1. /\ Len(ring) >= 1 /\ ring' = Popped(1)
          /\ state' = [state EXCEPT !.at = "RangeTm", !.ord = ring[1]]
      BY <1>7 DEF PopOrdId, Available, OrdIdNeeds
    <2>2. state' \in States
      BY <1>1, <1>3, <2>1
    <2>3. QED
      BY <1>1, <1>2, <1>3, <2>1, <2>2 DEF TypeOK
  <1>8. CASE PopTm
    <2>1. /\ Len(ring) >= state.len /\ state' = NewFrame
          /\ ring' = Popped(state.len) \/ ring' = ring
      BY <1>8 DEF PopTm, Available
    <2>2. state.len \in Nat /\ state.len =< Len(ring) /\ Len(ring) \in Nat
      BY <1>1, <2>1
    <2>3. ring' \in Seq(Byte) /\ Len(ring') =< BufSize
      BY <1>1, <1>2, <2>1, <2>2
    <2>4. NewFrame \in States
      BY <1>4 DEF NewFrame, At
    <2>5. QED
      BY <1>1, <2>1, <2>3, <2>4 DEF TypeOK
  <1>9. QED
    BY <1>5, <1>6, <1>7, <1>8 DEF Pops

LEMMA PopStep == ASSUME DecoderInv, Pops PROVE DecoderInv'
  <1>1. /\ phase = "decode" /\ UNCHANGED <<buf, recorded, page, size, expected>>
        /\ RingFits' <=> RingFits
    BY PopKept
  <1>2. TypeOK /\ TypeOK'
    BY PopTyped DEF DecoderInv
  <1>3. (\E off : Encoding(buf, recorded, off))'
    BY <1>1 DEF DecoderInv
  <1>4. ASSUME RingFits
        PROVE  phase' = "decode" /\ Chunked' /\ (\E bytes, off : Decoding(bytes, off))'
    <2>1. Chunked /\ \E bytes, off : Decoding(bytes, off)
      BY <1>1, <1>4 DEF DecoderInv, PageInv
    <2>2. PICK bytes, off : Decoding(bytes, off)
      BY <2>1
    <2>3. Decoding(bytes, off)' /\ phase' = "decode"
      BY <1>2, <2>2, IdPopped, DifTmLenPopped, OrdIdPopped, TmPopped DEF Pops
    <2>4. Chunked'
      BY <1>1, <2>1, <2>3 DEF Chunked
    <2>5. QED
      BY <2>3, <2>4
  <1>5. phase' \in {"decode", "panicked"}
    BY <1>1 DEF Pops, PopId, PopDifTmLen, PopOrdId, PopTm
  <1>6. QED
    BY <1>1, <1>2, <1>3, <1>4, <1>5 DEF DecoderInv, PageInv
-----------------------------------------------------------------------------
(* Chunks.                                                                   *)
LEMMA Joined ==
  ASSUME NEW S, NEW s \in Seq(S), NEW t \in Seq(S)
  PROVE  /\ s \o t \in Seq(S) /\ Len(s \o t) = Len(s) + Len(t)
         /\ \A j \in 1..Len(s) : (s \o t)[j] = s[j]
         /\ \A j \in 1..Len(t) : (s \o t)[Len(s) + j] = t[j]
  OBVIOUS

LEMMA ChunkKinds ==
  ASSUME TypeOK, ReadChunk
  PROVE  \E n, m \in Nat :
           /\ n \in 1..BufSize /\ n =< Len(page) /\ (n = BufSize \/ n = Len(page))
           /\ m =< n /\ (Len(ring) + n =< BufSize => m = n)
           /\ ring' \in Seq(Byte) /\ Len(ring') = Len(ring) + m /\ Len(ring') =< BufSize
           /\ \A j \in 1..Len(ring) : ring'[j] = ring[j]
           /\ \A j \in 1..m : ring'[Len(ring) + j] = page[j]
           /\ page' \in Seq(Byte) /\ Len(page') = Len(page) - n
           /\ \A j \in 1..Len(page') : page'[j] = page[n + j]
  <1> DEFINE n == Smaller(BufSize, Len(page))
             chunk == SubSeq(page, 1, n)
             m == Smaller(Len(chunk), BufSize - Len(ring))
  <1>1. /\ ring \in Seq(Byte) /\ page \in Seq(Byte) /\ Len(ring) \in Nat /\ Len(page) \in Nat
        /\ Len(ring) =< BufSize /\ BufSize \in Nat \ {0} /\ Len(page) # 0
    <2>1. ring \in Seq(Byte) /\ page \in Seq(Byte) /\ Len(ring) =< BufSize
      BY DEF TypeOK
    <2>2. page # <<>>
      BY DEF ReadChunk
    <2>3. Len(ring) \in Nat /\ Len(page) \in Nat /\ Len(page) # 0
      BY <2>1, <2>2
    <2>4. QED
      BY <2>1, <2>3, Constants
  <1>2. n \in 1..BufSize /\ n =< Len(page) /\ (n = BufSize \/ n = Len(page)) /\ n \in Nat
    BY <1>1 DEF Smaller
  <1>3. /\ ring' = ring \o SubSeq(chunk, 1, m) /\ page' = SubSeq(page, n + 1, Len(page))
    BY DEF ReadChunk, PushedOnto
  <1> HIDE DEF n
  <1>4. chunk \in Seq(Byte) /\ Len(chunk) = n /\ \A j \in 1..n : chunk[j] = page[j]
    BY <1>1, <1>2
  <1> HIDE DEF chunk
  <1>5. m \in Nat /\ m =< n /\ Len(ring) + m =< BufSize /\ (Len(ring) + n =< BufSize => m = n)
    BY <1>1, <1>2, <1>4 DEF Smaller
  <1> HIDE DEF m
  <1>6. /\ SubSeq(chunk, 1, m) \in Seq(Byte) /\ Len(SubSeq(chunk, 1, m)) = m
        /\ \A j \in 1..m : SubSeq(chunk, 1, m)[j] = page[j]
    BY <1>2, <1>4, <1>5
  <1>7. /\ ring' \in Seq(Byte) /\ Len(ring') = Len(ring) + m /\ Len(ring') =< BufSize
        /\ \A j \in 1..Len(ring) : ring'[j] = ring[j]
        /\ \A j \in 1..m : ring'[Len(ring) + j] = page[j]
    <2> DEFINE stored == SubSeq(chunk, 1, m)
    <2>1. ring' = ring \o stored
      BY <1>3
    <2>2. stored \in Seq(Byte) /\ Len(stored) = m /\ \A j \in 1..m : stored[j] = page[j]
      BY <1>6
    <2> HIDE DEF stored
    <2>3. /\ ring' \in Seq(Byte) /\ Len(ring') = Len(ring) + m
          /\ \A j \in 1..Len(ring) : ring'[j] = ring[j]
          /\ \A j \in 1..m : ring'[Len(ring) + j] = stored[j]
      <3>0. ring \in Seq(Byte) /\ stored \in Seq(Byte)
        BY <1>1, <2>2
      <3>1. /\ ring \o stored \in Seq(Byte) /\ Len(ring \o stored) = Len(ring) + Len(stored)
            /\ \A j \in 1..Len(ring) : (ring \o stored)[j] = ring[j]
            /\ \A j \in 1..Len(stored) : (ring \o stored)[Len(ring) + j] = stored[j]
        BY <3>0, Joined
      <3>2. QED
        BY <2>1, <2>2, <3>1
    <2>4. QED
      BY <1>5, <2>2, <2>3
  <1>8. /\ page' \in Seq(Byte) /\ Len(page') = Len(page) - n
        /\ \A j \in 1..(Len(page) - n) : page'[j] = page[n + j]
    BY <1>1, <1>2, <1>3
  <1>9. QED
    BY <1>2, <1>5, <1>7, <1>8

(* The next chunk fits into the ring.                                        *)
LEMMA ChunkFits ==
  ASSUME DecoderInv, RingFits, phase = "read", NEW n \in 1..BufSize, n =< Len(page)
  PROVE  Len(ring) + n =< BufSize
  <1>1. TypeOK /\ Chunked /\ \E bytes, off : Decoding(bytes, off)
    BY DEF DecoderInv, PageInv
  <1>2. PICK bytes, off : Decoding(bytes, off)
    BY <1>1
  <1>3. /\ Len(ring) \in Nat /\ Len(page) \in Nat /\ size \in Nat /\ BufSize \in Nat \ {0}
        /\ n \in Nat /\ n =< BufSize /\ n >= 1
    BY <1>1, <1>2, PageTyped, Constants
  <1>4. CASE Len(page) = size
    <2>1. Len(ring) = 0
      BY <1>1, <1>4 DEF Chunked
    <2>2. QED
      BY <1>3, <2>1
  <1>5. CASE Len(page) # size
    <2>1. page # <<>>
      BY <1>3
    <2>2. Len(page) + BufSize =< size /\ Len(ring) < Needs(state)
      BY <1>1, <1>5, <2>1 DEF Chunked
    <2>3. Len(ring) = 0 \/ (Len(ring) < LongestDif /\ LongestDif \in Nat)
      BY <1>1, <1>2, <2>2, LittleWaits
    <2>4. size + LongestDif =< 2 * BufSize + 1
      BY <1>3, <2>2 DEF RingFits
    <2>5. QED
      BY <1>3, <2>2, <2>3, <2>4
  <1>6. QED
    BY <1>4, <1>5

LEMMA ReadStep == ASSUME DecoderInv, ReadChunk PROVE DecoderInv'
  <1>1. /\ phase = "read" /\ phase' = "decode" /\ TypeOK
        /\ UNCHANGED <<buf, recorded, size, expected, state, decoded>>
    BY DEF ReadChunk, DecoderInv, localVars
  <1>2. PICK n, m \in Nat :
           /\ n \in 1..BufSize /\ n =< Len(page) /\ (n = BufSize \/ n = Len(page))
           /\ m =< n /\ (Len(ring) + n =< BufSize => m = n)
           /\ ring' \in Seq(Byte) /\ Len(ring') = Len(ring) + m /\ Len(ring') =< BufSize
           /\ \A j \in 1..Len(ring) : ring'[j] = ring[j]
           /\ \A j \in 1..m : ring'[Len(ring) + j] = page[j]
           /\ page' \in Seq(Byte) /\ Len(page') = Len(page) - n
           /\ \A j \in 1..Len(page') : page'[j] = page[n + j]
    BY <1>1, ChunkKinds
  <1>3. TypeOK'
    BY <1>1, <1>2 DEF TypeOK
  <1>4. (\E off : Encoding(buf, recorded, off))'
    BY <1>1 DEF DecoderInv
  <1>5. ASSUME RingFits PROVE Chunked' /\ (\E bytes, off : Decoding(bytes, off))'
    <2>1. Chunked /\ \E bytes, off : Decoding(bytes, off)
      BY <1>1, <1>5 DEF DecoderInv, PageInv
    <2>2. PICK bytes, off : Decoding(bytes, off)
      BY <2>1
    <2>3. m = n
      BY <1>1, <1>2, <1>5, ChunkFits
    <2>4. /\ Len(ring) \in Nat /\ Len(page) \in Nat /\ size \in Nat /\ Len(bytes) = size
          /\ Pos = size - Len(ring) - Len(page) /\ Pos \in Nat /\ page \in Seq(Byte)
          /\ BufSize \in Nat \ {0}
      BY <1>1, <2>2, PageTyped, Constants
    <2>5. Pos' = size - Len(ring') - Len(page')
      BY <1>1 DEF Pos
    <2>6. Pos' = Pos
      BY <1>2, <2>3, <2>4, <2>5
    <2>7. ASSUME NEW j \in 1..Len(ring') PROVE ring'[j] = bytes[Pos + j]
      <3>1. CASE j \in 1..Len(ring)
        BY <1>2, <2>2, <3>1 DEF Decoding, Aligned
      <3>2. CASE j \notin 1..Len(ring)
        <4>1. /\ j - Len(ring) \in 1..m /\ j - Len(ring) \in 1..Len(page)
              /\ Len(ring) + (j - Len(ring)) = j
              /\ Pos + Len(ring) + (j - Len(ring)) = Pos + j
          BY <1>2, <2>3, <2>4, <3>2
        <4>2. ring'[j] = page[j - Len(ring)]
          BY <1>2, <4>1
        <4>3. page[j - Len(ring)] = bytes[Pos + Len(ring) + (j - Len(ring))]
          BY <2>2, <4>1 DEF Decoding, Aligned
        <4>4. QED
          BY <4>1, <4>2, <4>3
      <3>3. QED
        BY <3>1, <3>2
    <2>8. ASSUME NEW j \in 1..Len(page') PROVE page'[j] = bytes[Pos + Len(ring') + j]
      <3>1. n + j \in 1..Len(page) /\ Pos + Len(ring) + (n + j) = Pos + Len(ring') + j
        BY <1>2, <2>3, <2>4
      <3>2. page[n + j] = bytes[Pos + Len(ring) + (n + j)]
        BY <2>2, <3>1 DEF Decoding, Aligned
      <3>3. QED
        BY <1>2, <3>1, <3>2
    <2>9. Aligned(bytes)'
      BY <1>1, <2>4, <2>6, <2>7, <2>8 DEF Aligned
    <2>10. Following(off)'
      BY <1>1, <2>2, <2>6 DEF Decoding, Following
    <2>11. Decoding(bytes, off)'
      BY <1>1, <2>2, <2>9, <2>10 DEF Decoding
    <2>12. Chunked'
      <3>1. Len(page) =< size /\ Len(page') # size
        BY <1>2, <2>4
      <3>2. page' = <<>> \/ Len(page') + BufSize =< size
        BY <1>2, <2>4, <3>1
      <3>3. QED
        BY <1>1, <2>1, <3>1, <3>2 DEF Chunked
    <2>13. QED
      BY <2>11, <2>12
  <1>6. RingFits' <=> RingFits
    BY <1>1 DEF RingFits
  <1>7. QED
    BY <1>1, <1>3, <1>4, <1>5, <1>6 DEF DecoderInv, PageInv

LEMMA WaitStep == ASSUME DecoderInv, NotEnough PROVE DecoderInv'
  <1>1. /\ phase = "decode" /\ phase' = "read" /\ Len(ring) < Needs(state)
        /\ UNCHANGED <<buf, recorded, page, size, expected, ring, state, decoded>>
    BY DEF NotEnough, localVars, readerVars, decoderVars
  <1>2. TypeOK'
    BY <1>1 DEF DecoderInv, TypeOK
  <1>3. (RingFits' <=> RingFits) /\ Pos' = Pos
    BY <1>1 DEF RingFits, Pos
  <1>4. ASSUME RingFits PROVE Chunked' /\ (\E bytes, off : Decoding(bytes, off))'
    <2>1. Chunked /\ \E bytes, off : Decoding(bytes, off)
      BY <1>1, <1>4 DEF DecoderInv, PageInv
    <2>2. PICK bytes, off : Decoding(bytes, off)
      BY <2>1
    <2>3. Decoding(bytes, off)'
      BY <1>1, <1>3, <2>2 DEF Decoding, Aligned, Following
    <2>4. Needs(state') = Needs(state)
      BY <1>1
    <2>5. Chunked'
      BY <1>1, <2>1, <2>4 DEF Chunked
    <2>6. QED
      BY <2>3, <2>5
  <1>5. QED
    BY <1>1, <1>2, <1>3, <1>4 DEF DecoderInv, PageInv

(* ensure_buf_end finds nothing, and all events are decoded.                 *)
LEMMA NothingLeft ==
  ASSUME DecoderInv, RingFits, phase = "read", page = <<>>
  PROVE  ring = <<>> /\ state = NewFrame /\ decoded = expected
  <1>1. TypeOK /\ Chunked /\ \E bytes, off : Decoding(bytes, off)
    BY DEF DecoderInv, PageInv
  <1>2. PICK bytes, off : Decoding(bytes, off)
    BY <1>1
  <1>3. /\ Len(ring) \in Nat /\ size \in Nat /\ Pos \in Nat /\ Len(page) = 0
        /\ Pos = size - Len(ring) - Len(page) /\ ring \in Seq(Byte)
        /\ Len(decoded) \in Nat /\ Len(expected) \in Nat /\ Len(decoded) =< Len(expected)
        /\ decoded \in Seq(Events) /\ expected \in Seq(Events)
    BY <1>1, <1>2, PageTyped DEF Decoding, Following
  <1>4. Len(ring) < Needs(state)
    BY <1>1, <1>3 DEF Chunked
  <1>5. ASSUME state # NewFrame PROVE FALSE
    <2> DEFINE k == Len(decoded) + 1
               e == expected[k]
               at == Pos - off[k]
    <2>1. /\ e \in Events /\ InFrame(state, e, at) /\ off[k] \in Nat /\ Pos = off[k] + at
          /\ off[k + 1] = off[k] + Len(Frame(e)) /\ off[k + 1] =< size /\ at \in {0, 1, 2, 3}
      BY <1>1, <1>2, <1>5, CurrentFrame
    <2>2. Len(Frame(e)) = HeadLen(e) + DifLen(e.dif) /\ DifLen(e.dif) \in Nat
      <3>1. Len(Frame(e)) = HeadLen(e) + DifLen(e.dif) /\ DifLen(e.dif) \in 0..15
        BY <2>1, FrameParts
      <3>2. \A n \in 0..15 : n \in Nat
        OBVIOUS
      <3>3. QED
        BY <3>1, <3>2
    <2> HIDE DEF k, e, at
    <2>3. at + Needs(state) =< Len(Frame(e)) /\ Needs(state) \in Nat
      <3>1. CASE at = HeadLen(e) /\ Needs(state) = DifLen(e.dif)
        BY <2>1, <2>2, <3>1
      <3>2. CASE at < HeadLen(e) /\ Needs(state) = 1
        <4>1. HeadLen(e) \in {2, 3}
          BY DEF HeadLen
        <4>2. QED
          BY <2>1, <2>2, <3>2, <4>1
      <3>3. QED
        BY <2>1, <3>1, <3>2 DEF InFrame, Needs, OrdIdNeeds, At, HeadLen
    <2>4. Len(Frame(e)) \in Nat /\ Pos = size - Len(ring)
      BY <1>3, <2>1, FrameParts
    <2>5. QED
      BY <1>3, <1>4, <2>1, <2>3, <2>4
  <1>6. Len(ring) = 0 /\ Pos = size
    <2>1. Needs(NewFrame) = 1
      BY DEF Needs, NewFrame, At
    <2>2. QED
      BY <1>3, <1>4, <1>5, <2>1
  <1>7. Len(decoded) = Len(expected)
    <2>1. Pos = off[Len(decoded) + 1]
      <3>1. \A e, n : ~InFrame(NewFrame, e, n)
        BY DEF InFrame, NewFrame, At
      <3>2. QED
        BY <1>2, <1>5, <3>1 DEF Decoding, Following
    <2>2. ASSUME Len(decoded) < Len(expected) PROVE FALSE
      <3> DEFINE k == Len(decoded) + 1
                 e == expected[k]
      <3>1. k \in 1..Len(expected) /\ e \in Events /\ off[k] \in Nat
        <4>1. k \in 1..Len(expected) /\ k \in 1..(Len(expected) + 1)
          BY <1>3, <2>2
        <4>2. e \in Events
          BY <1>3, <4>1
        <4>3. off[k] \in Nat
          BY <1>1, <1>2, <4>1, PageTyped
        <4>4. QED
          BY <4>1, <4>2, <4>3
      <3>2. off[k + 1] = off[k] + Len(Frame(e)) /\ off[k + 1] =< size
        BY <1>1, <1>2, <3>1, PageTyped DEF Decoding, Encoding
      <3>3. Len(Frame(e)) \in Nat /\ Len(Frame(e)) >= 2
        BY <3>1, FrameLong
      <3> HIDE DEF e
      <3>4. QED
        BY <1>3, <1>6, <2>1, <3>1, <3>2, <3>3
    <2>3. QED
      BY <1>3, <2>2
  <1>8. \A i \in 1..Len(decoded) : decoded[i] = expected[i]
    BY <1>2 DEF Decoding, Following
  <1>9. QED
    BY <1>3, <1>5, <1>6, <1>7, <1>8

LEMMA EndStep == ASSUME DecoderInv, EndPage PROVE DecoderInv'
  <1>1. /\ phase = "read" /\ page = <<>> /\ size' = 0 /\ expected' = <<>> /\ decoded' = <<>>
        /\ UNCHANGED <<buf, recorded, page, ring, state>>
        /\ phase' = IF ring = <<>> /\ state = NewFrame THEN "record" ELSE "panicked"
    BY DEF EndPage, localVars
  <1>2. TypeOK'
    BY <1>1 DEF DecoderInv, TypeOK
  <1>3. QED
    BY <1>1, <1>2 DEF DecoderInv, PageInv

LEMMA NextDecoder == DecoderInv /\ [Next]_vars => DecoderInv'
  <1> SUFFICES ASSUME DecoderInv, [Next]_vars PROVE DecoderInv'
    OBVIOUS
  <1>1. CASE UNCHANGED vars
    <2>1. UNCHANGED <<buf, recorded, phase, page, size, expected, ring, state, decoded>>
      BY <1>1 DEF vars, localVars, readerVars, decoderVars
    <2>2. TypeOK' /\ Pos' = Pos /\ (RingFits' <=> RingFits) /\ Needs(state') = Needs(state)
      BY <2>1 DEF DecoderInv, TypeOK, Pos, RingFits
    <2>3. Chunked' <=> Chunked
      BY <2>1, <2>2 DEF Chunked
    <2>4. \A bytes, off : Decoding(bytes, off) => Decoding(bytes, off)'
      BY <2>1, <2>2 DEF Decoding, Aligned, Following
    <2>5. PageInv'
      BY <2>1, <2>2, <2>3, <2>4 DEF DecoderInv, PageInv
    <2>6. QED
      BY <2>1, <2>2, <2>5 DEF DecoderInv
  <1>2. QED
    BY <1>1, RecordStep, FlushStep, ReadStep, PopStep, WaitStep, EndStep DEF Next, Pops, Stopped
-----------------------------------------------------------------------------
(***************************************************************************)
(* The invariant: a page's bytes are the frames of its events, and the     *)
(* decoder has taken some of them off the front.                           *)
(***************************************************************************)
THEOREM DecoderInvariant == Spec => []DecoderInv
  BY InitDecoder, NextDecoder, PTL DEF Spec

(***************************************************************************)
(* The decoder's ring, the length of a difference and the state of a frame *)
(* stay in their ranges for any bytes, also those of a page that overran   *)
(* the ring.                                                               *)
(***************************************************************************)
THEOREM TypeCorrect == Spec => []TypeOK
  <1>1. DecoderInv => TypeOK
    BY DEF DecoderInv
  <1>2. QED
    BY <1>1, DecoderInvariant, PTL

(***************************************************************************)
(* try_decode_event returns the events that event and range_event wrote,   *)
(* for any events and any cut into chunks that the ring has room for.      *)
(***************************************************************************)
THEOREM DecodesRecorded == Spec => []DecodesWhatWasRecorded
  <1>1. DecoderInv => DecodesWhatWasRecorded
    <2> SUFFICES ASSUME DecoderInv, RingFits
                 PROVE  /\ Len(decoded) =< Len(expected)
                        /\ \A i \in 1..Len(decoded) : decoded[i] = expected[i]
      BY DEF DecodesWhatWasRecorded
    <2>1. CASE phase \in {"read", "decode"}
      <3>1. PICK bytes, off : Decoding(bytes, off)
        BY <2>1 DEF DecoderInv, PageInv
      <3>2. QED
        BY <3>1 DEF Decoding, Following
    <2>2. CASE phase \in {"record", "panicked"}
      <3>1. decoded = <<>> /\ expected \in Seq(Events)
        BY <2>2 DEF DecoderInv, TypeOK
      <3>2. QED
        BY <3>1
    <2>3. QED
      BY <2>1, <2>2 DEF DecoderInv, TypeOK
  <1>2. QED
    BY <1>1, DecoderInvariant, PTL

(***************************************************************************)
(* Between two chunks of decode_packets at most an incomplete difference   *)
(* stays in the ring.                                                      *)
(***************************************************************************)
THEOREM LittleLeft == Spec => []LittleIsLeft
  <1>1. DecoderInv => LittleIsLeft
    <2> SUFFICES ASSUME DecoderInv, RingFits, phase = "read"
                 PROVE  Len(ring) = 0 \/ Len(ring) < LongestDif
      BY DEF LittleIsLeft
    <2>1. TypeOK /\ Chunked /\ \E bytes, off : Decoding(bytes, off)
      BY DEF DecoderInv, PageInv
    <2>2. CASE Len(page) = size
      BY <2>1, <2>2 DEF Chunked
    <2>3. CASE Len(page) # size
      BY <2>1, <2>3, LittleWaits DEF Chunked
    <2>4. QED
      BY <2>2, <2>3
  <1>2. QED
    BY <1>1, DecoderInvariant, PTL

(***************************************************************************)
(* The two assertions of ensure_buf_end hold at the end of each page that  *)
(* the ring has room for, and all its events have been decoded then.       *)
(***************************************************************************)
THEOREM PagesDecode == Spec => PagesDecodeWhole
  <1> DEFINE Whole == phase = "read" /\ phase' \in {"record", "panicked"} /\ RingFits
                        => (phase' = "record" /\ decoded = expected)
  <1>1. DecoderInv /\ [Next]_vars => [Whole]_vars
    <2> SUFFICES ASSUME DecoderInv, Next, phase = "read", phase' \in {"record", "panicked"},
                        RingFits
                 PROVE  phase' = "record" /\ decoded = expected
      OBVIOUS
    <2>1. EndPage
      BY DEF Next, Record, Flush, ReadChunk, PopId, PopDifTmLen, PopOrdId, PopTm, NotEnough,
             Available, Stopped
    <2>2. QED
      BY <2>1, NothingLeft DEF EndPage
  <1>2. QED
    BY <1>1, DecoderInvariant, PTL DEF Spec, PagesDecodeWhole
-----------------------------------------------------------------------------
(***************************************************************************)
(* The decoder is never stuck and never turns on the spot.                 *)
(***************************************************************************)
Reading == phase \in {"read", "decode"}

(* The guards of the steps of decode_packets and try_decode_event.           *)
DecoderGoesOn ==
  \/ phase = "read"   (* ReadChunk or, with no page left, EndPage *)
  \/ phase = "decode" /\ Len(ring) < Needs(state)
  \/ phase = "decode" /\ state.at \in {"NewFrame", "DifTmLen"} /\ Len(ring) >= 1
  \/ phase = "decode" /\ state.at = "RangeOrdId" /\ Len(ring) >= OrdIdNeeds(state)
  \/ phase = "decode" /\ state.at \in {"DifTm", "RangeTm"} /\ Len(ring) >= state.len

(* What is left to do for the page.  A byte is read once and popped once,    *)
(* but for those that the ring has no room for, and a difference may have    *)
(* no bytes: its step is counted with its place in the frame.                *)
BytesLeft ==
  IF Reading
    THEN 4 * Len(page) + 2 * Len(ring) + (IF state.at \in {"DifTm", "RangeTm"} THEN 1 ELSE 0)
           + (IF phase = "decode" THEN 2 ELSE 1)
    ELSE 0

LEMMA LeftOfPage ==
  ASSUME TypeOK
  PROVE  BytesLeft \in Nat /\ (Reading => BytesLeft > 0 /\ DecoderGoesOn)
  <1>1. /\ Len(page) \in Nat /\ Len(ring) \in Nat /\ state.len \in 0..15
        /\ state.at \in {"NewFrame", "DifTmLen", "DifTm", "RangeOrdId", "RangeTm"}
    <2>1. page \in Seq(Byte) /\ ring \in Seq(Byte)
      BY DEF TypeOK
    <2>2. Len(page) \in Nat /\ Len(ring) \in Nat
      BY <2>1
    <2>3. QED
      BY <2>2 DEF TypeOK
  <1>2. BytesLeft \in Nat /\ (Reading => BytesLeft > 0)
    BY <1>1 DEF BytesLeft
  <1>3. Reading => DecoderGoesOn
    BY <1>1 DEF Reading, DecoderGoesOn, Needs, OrdIdNeeds
  <1>4. QED
    BY <1>2, <1>3

LEMMA PageGetsShorter ==
  ASSUME TypeOK, Reading, Next
  PROVE  BytesLeft' < BytesLeft
  <1>1. /\ page \in Seq(Byte) /\ ring \in Seq(Byte) /\ state.len \in 0..15
        /\ Len(page) \in Nat /\ Len(ring) \in Nat
    <2>1. page \in Seq(Byte) /\ ring \in Seq(Byte)
      BY DEF TypeOK
    <2>2. Len(page) \in Nat /\ Len(ring) \in Nat
      BY <2>1
    <2>3. QED
      BY <2>1, <2>2 DEF TypeOK
  <1>2. ASSUME NEW n \in 0..15, n =< Len(ring) PROVE Len(Popped(n)) = Len(ring) - n
    BY <1>1, <1>2 DEF Popped
  <1>3. CASE ReadChunk
    <2>1. PICK n \in Nat, m \in Nat :
             n \in 1..BufSize /\ m =< n /\ Len(ring') = Len(ring) + m /\ Len(page') = Len(page) - n
      BY <1>3, ChunkKinds
    <2>2. n >= 1
      BY <2>1, Constants
    <2>3. phase = "read" /\ phase' = "decode" /\ state' = state
      BY <1>3 DEF ReadChunk
    <2>4. QED
      BY <1>1, <2>1, <2>2, <2>3 DEF BytesLeft, Reading
  <1>4. CASE PopId \/ PopDifTmLen \/ PopOrdId
    <2>1. /\ phase = "decode" /\ phase' = phase /\ page' = page
          /\ Len(ring) >= 1 /\ ring' = Popped(1)
          /\ state.at \notin {"DifTm", "RangeTm"}
      BY <1>4 DEF PopId, PopDifTmLen, PopOrdId, Available, OrdIdNeeds, readerVars
    <2>2. Len(ring') = Len(ring) - 1
      BY <1>2, <2>1
    <2>3. QED
      BY <1>1, <2>1, <2>2 DEF BytesLeft, Reading
  <1>5. CASE PopTm
    <2>1. /\ phase = "decode" /\ state.at \in {"DifTm", "RangeTm"} /\ Len(ring) >= state.len
          /\ state' = NewFrame /\ page' = page
          /\ \/ phase' = phase /\ ring' = Popped(state.len)
             \/ phase' = "panicked"
      BY <1>5 DEF PopTm, Available, readerVars
    <2>2. CASE phase' = "panicked"
      BY <1>1, <2>1, <2>2 DEF BytesLeft, Reading
    <2>3. CASE phase' = phase /\ ring' = Popped(state.len)
      <3>1. Len(ring') = Len(ring) - state.len
        BY <1>1, <1>2, <2>1, <2>3
      <3>2. state'.at \notin {"DifTm", "RangeTm"}
        BY <2>1 DEF NewFrame, At
      <3>3. BytesLeft = 4 * Len(page) + 2 * Len(ring) + 3
        BY <1>1, <2>1 DEF BytesLeft, Reading
      <3>4. BytesLeft' = 4 * Len(page) + 2 * Len(ring') + 2
        BY <1>1, <2>1, <2>3, <3>2 DEF BytesLeft, Reading
      <3>5. ASSUME NEW p \in Nat, NEW r \in Nat, NEW n \in Nat, NEW s \in Int, s = r - n
            PROVE  4 * p + 2 * s + 2 < 4 * p + 2 * r + 3
        BY <3>5
      <3>6. ASSUME NEW r \in Nat, NEW n \in 0..15, NEW s, s = r - n PROVE n \in Nat /\ s \in Int
        BY <3>6
      <3>7. /\ Len(page) \in Nat /\ Len(ring) \in Nat /\ state.len \in Nat
            /\ Len(ring') \in Int
        BY <1>1, <3>1, <3>6, Zenon
      <3>8. QED
        BY <3>1, <3>3, <3>4, <3>5, <3>7, Zenon
    <2>4. QED
      BY <2>1, <2>2, <2>3
  <1>6. CASE NotEnough
    <2>1. phase = "decode" /\ phase' = "read" /\ page' = page /\ ring' = ring /\ state' = state
      BY <1>6 DEF NotEnough, readerVars, decoderVars
    <2>2. QED
      BY <1>1, <2>1 DEF BytesLeft, Reading
  <1>7. CASE EndPage
    <2>1. phase = "read" /\ phase' \in {"record", "panicked"}
      BY <1>7 DEF EndPage
    <2>2. QED
      BY <1>1, <2>1 DEF BytesLeft, Reading
  <1>8. QED
    BY <1>3, <1>4, <1>5, <1>6, <1>7 DEF Next, Record, Flush, Stopped, Reading

(***************************************************************************)
(* The loops of decode_packets and of decode_many come to their end for    *)
(* any bytes, also those of a page that overran the ring: in every state   *)
(* of the decoder one of its steps is possible, and each of them leaves    *)
(* less of the page to do.  A page that the ring has room for therefore    *)
(* ends as PagesDecode says.                                               *)
(***************************************************************************)
THEOREM PagesEnd ==
  Spec => /\ [](BytesLeft \in Nat /\ (Reading => BytesLeft > 0 /\ DecoderGoesOn))
          /\ [][Reading => BytesLeft' < BytesLeft]_vars
  <1>1. TypeOK => BytesLeft \in Nat /\ (Reading => BytesLeft > 0 /\ DecoderGoesOn)
    BY LeftOfPage
  <1>2. TypeOK /\ [Next]_vars => [Reading => BytesLeft' < BytesLeft]_vars
    BY PageGetsShorter
  <1>3. QED
    BY <1>1, <1>2, TypeCorrect, PTL DEF Spec
=============================================================================
