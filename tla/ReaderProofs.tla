---------------------------- MODULE ReaderProofs ----------------------------
(***************************************************************************)
(* For any number of threads and pages the reader stays in step with the   *)
(* sending thread, and every page comes to the track of its thread, under  *)
(* its thread's name.  The first invariant is about the tokens that are    *)
(* not read yet: a token is a page exactly if a data packet, or what is    *)
(* left of the one that is being read, announces it; and in a file that is *)
(* not cut off all the pages that are announced are there.  The second is  *)
(* about ids, and the third about where the pages of a thread are: with    *)
(* its parser, in the file and in the ring, in this order.                 *)
(***************************************************************************)
EXTENDS Reader, FiniteSetTheorems, TLAPS

AnyPage == [thread_ord_id : Nat, thread_id : Tid \cup {NoTid},
            new_thread_name : Name \cup {NoName}, thread : Thread, no : Nat, renamed : Nat]

(* A page that brings a name brings the last that the thread was given.      *)
Page == {p \in AnyPage : /\ p.renamed =< MaxRenames[p.thread]
                         /\ p.new_thread_name \in {NoName, <<p.thread, p.renamed>>}}

Token == [type : {"info", "freq", "end"}] \cup [type : {"data"}, total : Nat]
           \cup [type : {"page", "failed"}, page : Page]

(* Token i of the file f, of which l pages of a packet are still to come.    *)
Announced(f, l, i) ==
  i =< l \/ \E d \in 1..(i - 1) : f[d].type = "data" /\ i =< d + f[d].total

Framed(f, l) == \A i \in 1..Len(f) : (f[i].type = "page") <=> Announced(f, l, i)

Complete(f, l) ==
  l =< Len(f) /\ \A d \in 1..Len(f) : f[d].type = "data" => d + f[d].total =< Len(f)
-----------------------------------------------------------------------------
LEMMA IsName ==
  ASSUME NEW t \in Thread, NEW k \in Nat, k =< MaxRenames[t]
  PROVE  <<t, k>> \in Name
  <1>1. k \in 0..MaxRenames[t]
    BY ReaderTyped
  <1>2. <<t, k>> \in {t} \X (0..MaxRenames[t])
    BY <1>1
  <1>3. QED
    BY <1>2 DEF Name

LEMMA PageFields ==
  ASSUME NEW p \in Page
  PROVE  /\ p.thread \in Thread /\ p.no \in Nat /\ p.thread_ord_id \in Nat
         /\ p.thread_id \in Tid \cup {NoTid} /\ p.renamed \in 0..MaxRenames[p.thread]
         /\ p.new_thread_name \in {NoName, <<p.thread, p.renamed>>}
  <1>1. p \in AnyPage
    BY DEF Page
  <1>2. /\ p.thread \in Thread /\ p.no \in Nat /\ p.thread_ord_id \in Nat
        /\ p.thread_id \in Tid \cup {NoTid} /\ p.renamed \in Nat
    BY <1>1 DEF AnyPage
  <1>3. MaxRenames[p.thread] \in Nat
    BY <1>2, ReaderTyped
  <1>4. QED
    BY <1>2, <1>3 DEF Page

LEMMA DataToken ==
  ASSUME NEW k \in Token, k.type = "data" PROVE k.total \in Nat
  BY DEF Token

LEMMA ConcatAt ==
  ASSUME NEW f \in Seq(Token), NEW g \in Seq(Token)
  PROVE  /\ Len(f \o g) = Len(f) + Len(g) /\ Len(f) \in Nat
         /\ \A i \in 1..Len(g) : (f \o g)[Len(f) + i] = g[i]
  OBVIOUS

(* A file that is complete stays framed when more is written.                *)
LEMMA ConcatFramed ==
  ASSUME NEW f \in Seq(Token), NEW g \in Seq(Token), NEW l \in Nat,
         Framed(f, l), Complete(f, l), Framed(g, 0)
  PROVE  Framed(f \o g, l)
  <1> DEFINE h == f \o g
  <1>1. h \in Seq(Token) /\ Len(h) = Len(f) + Len(g) /\ Len(f) \in Nat /\ Len(g) \in Nat
    OBVIOUS
  <1>2. \A i \in 1..Len(f) : h[i] = f[i]
    OBVIOUS
  <1>3. \A i \in 1..Len(g) : h[Len(f) + i] = g[i]
    OBVIOUS
  <1> HIDE DEF h
  <1>4. ASSUME NEW i \in 1..Len(h) PROVE (h[i].type = "page") <=> Announced(h, l, i)
    <2>1. CASE i =< Len(f)
      <3>1. \A d \in 1..(i - 1) : h[d] = f[d]
        BY <1>1, <1>2, <2>1
      <3>2. Announced(h, l, i) <=> Announced(f, l, i)
        BY <3>1 DEF Announced
      <3>3. QED
        BY <1>1, <1>2, <2>1, <3>2 DEF Framed
    <2>2. CASE i > Len(f)
      <3> DEFINE j == i - Len(f)
      <3>1. j \in 1..Len(g) /\ h[i] = g[j] /\ i = Len(f) + j
        BY <1>1, <1>3, <2>2
      <3>2. (h[i].type = "page") <=> Announced(g, 0, j)
        BY <3>1 DEF Framed
      <3>3. ASSUME Announced(g, 0, j) PROVE Announced(h, l, i)
        <4>1. PICK d \in 1..(j - 1) : g[d].type = "data" /\ j =< d + g[d].total
          BY <3>1, <3>3 DEF Announced
        <4>2. d \in 1..Len(g) /\ Len(f) + d \in 1..(i - 1) /\ h[Len(f) + d] = g[d]
          BY <1>1, <1>3, <3>1
        <4>3. g[d] \in Token /\ g[d].total \in Nat
          BY <4>1, <4>2, DataToken
        <4>4. i =< Len(f) + d + g[d].total
          <5>1. PICK m \in Nat : m = g[d].total
            BY <4>3
          <5>2. Len(f) \in Nat /\ j \in Nat /\ d \in Nat /\ j =< d + m /\ i = Len(f) + j
            BY <1>1, <3>1, <4>1, <5>1
          <5>3. i =< Len(f) + d + m
            BY <5>2
          <5>4. QED
            BY <5>1, <5>3
        <4>5. QED
          BY <4>1, <4>2, <4>4 DEF Announced
      <3>4. ASSUME Announced(h, l, i) PROVE Announced(g, 0, j)
        <4>1. ~(i =< l)
          BY <1>1, <2>2 DEF Complete
        <4>2. PICK d \in 1..(i - 1) : h[d].type = "data" /\ i =< d + h[d].total
          BY <3>4, <4>1 DEF Announced
        <4>3. h[d] \in Token /\ h[d].total \in Nat
          BY <1>1, <4>2, DataToken
        <4>4. ~(d =< Len(f))
          <5> SUFFICES ASSUME d =< Len(f) PROVE FALSE
            OBVIOUS
          <5>1. d \in 1..Len(f) /\ h[d] = f[d]
            BY <1>1, <1>2
          <5>2. d + h[d].total =< Len(f)
            BY <4>2, <5>1 DEF Complete
          <5>3. QED
            BY <1>1, <2>2, <4>2, <4>3, <5>2
        <4>5. d - Len(f) \in 1..(j - 1) /\ h[d] = g[d - Len(f)]
          <5>1. d - Len(f) \in 1..(j - 1) /\ d - Len(f) \in 1..Len(g)
            BY <1>1, <3>1, <4>2, <4>4
          <5>2. d = Len(f) + (d - Len(f))
            BY <1>1, <4>2
          <5>3. QED
            BY <1>3, <5>1, <5>2
        <4>6. j =< (d - Len(f)) + h[d].total
          BY <1>1, <3>1, <4>2, <4>3
        <4>7. QED
          BY <4>2, <4>5, <4>6 DEF Announced
      <3>5. QED
        BY <3>2, <3>3, <3>4
    <2>3. QED
      BY <1>1, <2>1, <2>2
  <1>5. QED
    BY <1>4 DEF Framed, h

LEMMA ConcatComplete ==
  ASSUME NEW f \in Seq(Token), NEW g \in Seq(Token), NEW l \in Nat,
         Complete(f, l), Complete(g, 0)
  PROVE  Complete(f \o g, l)
  <1> DEFINE h == f \o g
  <1>1. h \in Seq(Token) /\ Len(h) = Len(f) + Len(g) /\ Len(f) \in Nat /\ Len(g) \in Nat
    OBVIOUS
  <1>2. \A i \in 1..Len(f) : h[i] = f[i]
    OBVIOUS
  <1>3. \A i \in 1..Len(g) : h[Len(f) + i] = g[i]
    OBVIOUS
  <1> HIDE DEF h
  <1>4. ASSUME NEW d \in 1..Len(h), h[d].type = "data" PROVE d + h[d].total =< Len(h)
    <2>1. h[d].total \in Nat
      BY <1>1, <1>4, DataToken
    <2>2. CASE d =< Len(f)
      <3>1. d + h[d].total =< Len(f)
        BY <1>1, <1>2, <1>4, <2>2 DEF Complete
      <3>2. QED
        BY <1>1, <2>1, <3>1
    <2>3. CASE d > Len(f)
      <3>1. d - Len(f) \in 1..Len(g) /\ h[d] = g[d - Len(f)]
        BY <1>1, <1>3, <2>3
      <3>2. (d - Len(f)) + h[d].total =< Len(g)
        BY <1>4, <3>1 DEF Complete
      <3>3. QED
        BY <1>1, <2>1, <3>2
    <2>4. QED
      BY <1>1, <2>2, <2>3
  <1>5. l =< Len(h)
    BY <1>1 DEF Complete
  <1>6. QED
    BY <1>4, <1>5 DEF Complete, h

(* Where a file is cut off makes no difference to the tokens that are there. *)
LEMMA PrefixFramed ==
  ASSUME NEW f \in Seq(Token), NEW l \in Nat, NEW n \in 0..Len(f), Framed(f, l)
  PROVE  SubSeq(f, 1, n) \in Seq(Token) /\ Framed(SubSeq(f, 1, n), l)
  <1> DEFINE g == SubSeq(f, 1, n)
  <1>1. g \in Seq(Token) /\ Len(g) = n /\ n \in Nat /\ n =< Len(f)
    OBVIOUS
  <1>2. \A i \in 1..n : g[i] = f[i]
    OBVIOUS
  <1> HIDE DEF g
  <1>3. ASSUME NEW i \in 1..Len(g) PROVE (g[i].type = "page") <=> Announced(g, l, i)
    <2>1. \A d \in 1..(i - 1) : g[d] = f[d]
      BY <1>1, <1>2
    <2>2. Announced(g, l, i) <=> Announced(f, l, i)
      BY <2>1 DEF Announced
    <2>3. QED
      BY <1>1, <1>2, <2>2 DEF Framed
  <1>4. QED
    BY <1>1, <1>3 DEF Framed, g

(* Reading the first token leaves the rest framed, with one page less to     *)
(* come, or with as many as the data packet that it begins announces.        *)
LEMMA TailFramed ==
  ASSUME NEW f \in Seq(Token), f # <<>>, NEW l \in Nat, Framed(f, l), NEW m \in Nat,
         m = IF l > 0 THEN l - 1 ELSE IF f[1].type = "data" THEN f[1].total ELSE 0
  PROVE  Tail(f) \in Seq(Token) /\ Framed(Tail(f), m)
  <1> DEFINE h == Tail(f)
  <1>1. h \in Seq(Token) /\ Len(h) = Len(f) - 1 /\ Len(f) \in Nat /\ Len(f) > 0
    OBVIOUS
  <1>2. \A i \in 1..Len(h) : h[i] = f[i + 1]
    OBVIOUS
  <1> HIDE DEF h
  <1>3. ASSUME NEW d \in 1..Len(f), f[d].type = "data" PROVE f[d].total \in Nat
    BY <1>3, DataToken
  <1>4. l > 0 => f[1].type # "data"
    <2> SUFFICES ASSUME l > 0 PROVE f[1].type # "data"
      OBVIOUS
    <2>1. 1 \in 1..Len(f) /\ 1 =< l
      BY <1>1
    <2>2. Announced(f, l, 1)
      BY <2>1 DEF Announced
    <2>3. QED
      BY <2>1, <2>2 DEF Framed
  <1>5. ASSUME NEW i \in 1..Len(h) PROVE (h[i].type = "page") <=> Announced(h, m, i)
    <2>1. h[i] = f[i + 1] /\ i + 1 \in 1..Len(f)
      BY <1>1, <1>2
    <2>2. ASSUME Announced(f, l, i + 1) PROVE Announced(h, m, i)
      <3>1. CASE i + 1 =< l
        BY <1>1, <3>1 DEF Announced
      <3>2. CASE ~(i + 1 =< l)
        <4>1. PICK d \in 1..i : f[d].type = "data" /\ i + 1 =< d + f[d].total
          BY <2>2, <3>2 DEF Announced
        <4>2. d \in 1..Len(f) /\ f[d].total \in Nat
          BY <1>1, <1>3, <4>1
        <4>3. CASE d = 1
          <5>1. ~(l > 0) /\ m = f[d].total
            BY <1>4, <4>1, <4>3
          <5>2. i =< m
            BY <4>1, <4>2, <4>3, <5>1
          <5>3. QED
            BY <5>2 DEF Announced
        <4>4. CASE d # 1
          <5>1. d - 1 \in 1..(i - 1) /\ d - 1 \in 1..Len(h)
            BY <1>1, <4>4
          <5>2. h[d - 1] = f[d]
            <6>1. d = (d - 1) + 1
              OBVIOUS
            <6>2. QED
              BY <1>2, <5>1, <6>1
          <5>3. i =< (d - 1) + f[d].total
            BY <4>1, <4>2
          <5>4. QED
            BY <4>1, <5>1, <5>2, <5>3 DEF Announced
        <4>5. QED
          BY <4>3, <4>4
      <3>3. QED
        BY <3>1, <3>2
    <2>3. ASSUME Announced(h, m, i) PROVE Announced(f, l, i + 1)
      <3>1. CASE i =< m
        <4>1. CASE l > 0
          BY <3>1, <4>1 DEF Announced
        <4>2. CASE ~(l > 0)
          <5>1. f[1].type = "data" /\ m = f[1].total
            BY <3>1, <4>2
          <5>2. 1 \in 1..((i + 1) - 1) /\ i + 1 =< 1 + f[1].total
            BY <3>1, <5>1
          <5>3. QED
            BY <5>1, <5>2 DEF Announced
        <4>3. QED
          BY <4>1, <4>2
      <3>2. CASE ~(i =< m)
        <4>1. PICK d \in 1..(i - 1) : h[d].type = "data" /\ i =< d + h[d].total
          BY <2>3, <3>2 DEF Announced
        <4>2. h[d] = f[d + 1] /\ d + 1 \in 1..Len(f) /\ d + 1 \in 1..((i + 1) - 1)
          BY <1>1, <1>2
        <4>3. f[d + 1].total \in Nat
          BY <1>3, <4>1, <4>2
        <4>4. i + 1 =< (d + 1) + f[d + 1].total
          BY <4>1, <4>2, <4>3
        <4>5. QED
          BY <4>1, <4>2, <4>4 DEF Announced
      <3>3. QED
        BY <3>1, <3>2
    <2>4. QED
      BY <2>1, <2>2, <2>3 DEF Framed
  <1>6. QED
    BY <1>1, <1>5 DEF Framed, h
(* ... and complete, if it was.                                              *)
LEMMA TailComplete ==
  ASSUME NEW f \in Seq(Token), f # <<>>, NEW l \in Nat, Complete(f, l), NEW m \in Nat,
         m = IF l > 0 THEN l - 1 ELSE IF f[1].type = "data" THEN f[1].total ELSE 0
  PROVE  Complete(Tail(f), m)
  <1> DEFINE h == Tail(f)
  <1>1. h \in Seq(Token) /\ Len(h) = Len(f) - 1 /\ Len(f) \in Nat /\ Len(f) > 0
    OBVIOUS
  <1>2. \A i \in 1..Len(h) : h[i] = f[i + 1] /\ i + 1 \in 1..Len(f)
    OBVIOUS
  <1> HIDE DEF h
  <1>3. ASSUME NEW d \in 1..Len(f), f[d].type = "data"
        PROVE  f[d].total \in Nat /\ d + f[d].total =< Len(f)
    BY <1>3, DataToken DEF Complete
  <1>4. m =< Len(h)
    <2>1. CASE l > 0
      BY <1>1, <2>1 DEF Complete
    <2>2. CASE ~(l > 0) /\ f[1].type = "data"
      <3>1. f[1].total \in Nat /\ 1 + f[1].total =< Len(f) /\ m = f[1].total
        BY <1>1, <1>3, <2>2
      <3>2. QED
        BY <1>1, <3>1
    <2>3. CASE ~(l > 0) /\ f[1].type # "data"
      BY <1>1, <2>3
    <2>4. QED
      BY <2>1, <2>2, <2>3
  <1>5. ASSUME NEW d \in 1..Len(h), h[d].type = "data" PROVE d + h[d].total =< Len(h)
    <2>1. h[d] = f[d + 1] /\ d + 1 \in 1..Len(f)
      BY <1>2
    <2>2. f[d + 1].total \in Nat /\ (d + 1) + f[d + 1].total =< Len(f)
      BY <1>3, <1>5, <2>1
    <2>3. QED
      BY <1>1, <2>1, <2>2
  <1>6. QED
    BY <1>4, <1>5 DEF Complete, h
-----------------------------------------------------------------------------
(* What the sending thread writes in one round. *)

LEMMA PlainFramed ==
  ASSUME NEW g \in Seq(Token), \A i \in 1..Len(g) : g[i].type \notin {"page", "data"}
  PROVE  Framed(g, 0) /\ Complete(g, 0)
  BY DEF Framed, Complete, Announced

LEMMA TokensType ==
  ASSUME NEW type \in {"page", "failed"}, NEW pages \in Seq(Page)
  PROVE  /\ Tokens(type, pages) \in Seq(Token) /\ Len(Tokens(type, pages)) = Len(pages)
         /\ \A i \in 1..Len(pages) : Tokens(type, pages)[i].type = type
  <1>1. \A i \in 1..Len(pages) : [type |-> type, page |-> pages[i]] \in Token
    BY DEF Token
  <1>2. QED
    BY <1>1 DEF Tokens

LEMMA PacketFramed ==
  ASSUME NEW pages \in Seq(Page)
  PROVE  LET packet == <<[type |-> "data", total |-> Len(pages)]>> \o Tokens("page", pages)
         IN packet \in Seq(Token) /\ Framed(packet, 0) /\ Complete(packet, 0)
  <1> DEFINE head == [type |-> "data", total |-> Len(pages)]
             tail == Tokens("page", pages)
             packet == <<head>> \o tail
  <1>1. tail \in Seq(Token) /\ Len(tail) = Len(pages) /\ Len(pages) \in Nat
        /\ \A i \in 1..Len(pages) : tail[i].type = "page"
    BY TokensType
  <1>2. head \in Token
    BY DEF Token
  <1> HIDE DEF tail
  <1>3. packet \in Seq(Token) /\ Len(packet) = Len(pages) + 1 /\ packet[1] = head
    BY <1>1, <1>2
  <1>4. \A i \in 2..(Len(pages) + 1) : packet[i] = tail[i - 1]
    BY <1>1, <1>2
  <1> HIDE DEF packet
  <1>5. \A i \in 2..(Len(pages) + 1) : packet[i].type = "page"
    <2> TAKE i \in 2..(Len(pages) + 1)
    <2>1. i - 1 \in 1..Len(pages)
      BY <1>1
    <2>2. QED
      BY <1>1, <1>4, <2>1
  <1>6. packet[1].type = "data" /\ packet[1].total = Len(pages)
    BY <1>3
  <1>7. Complete(packet, 0)
    BY <1>1, <1>3, <1>5, <1>6 DEF Complete
  <1>8. ASSUME NEW i \in 1..Len(packet) PROVE (packet[i].type = "page") <=> Announced(packet, 0, i)
    <2>1. CASE i = 1
      BY <1>6, <2>1 DEF Announced
    <2>2. CASE i # 1
      <3>1. 1 \in 1..(i - 1) /\ i =< 1 + packet[1].total
        BY <1>1, <1>3, <1>6, <2>2
      <3>2. Announced(packet, 0, i)
        BY <1>6, <3>1 DEF Announced
      <3>3. packet[i].type = "page"
        BY <1>1, <1>3, <1>5, <2>2
      <3>4. QED
        BY <3>2, <3>3
    <2>3. QED
      BY <2>1, <2>2
  <1>9. QED
    BY <1>3, <1>7, <1>8 DEF Framed, packet, tail

LEMMA TakenFramed ==
  ASSUME NEW out \in Seq(Page), skipped_msr_pages_headers \in Seq(Page)
  PROVE  Taken(out) \in Seq(Token) /\ Framed(Taken(out), 0) /\ Complete(Taken(out), 0)
  <1> DEFINE packet == IF out = <<>> THEN <<>>
                       ELSE <<[type |-> "data", total |-> Len(out)]>> \o Tokens("page", out)
             failed == Tokens("failed", skipped_msr_pages_headers)
  <1>1. packet \in Seq(Token) /\ Framed(packet, 0) /\ Complete(packet, 0)
    <2>1. CASE out = <<>>
      <3>1. packet = <<>> /\ <<>> \in Seq(Token)
        BY <2>1
      <3>2. QED
        BY <3>1, PlainFramed
    <2>2. CASE out # <<>>
      BY <2>2, PacketFramed
    <2>3. QED
      BY <2>1, <2>2
  <1>2. failed \in Seq(Token) /\ Framed(failed, 0) /\ Complete(failed, 0)
    <2>1. failed \in Seq(Token) /\ \A i \in 1..Len(failed) : failed[i].type = "failed"
      BY TokensType
    <2>2. QED
      BY <2>1, PlainFramed
  <1>3. Taken(out) = packet \o failed
    BY DEF Taken
  <1> HIDE DEF packet, failed
  <1>4. packet \o failed \in Seq(Token)
    BY <1>1, <1>2
  <1>5. QED
    BY <1>1, <1>2, <1>3, <1>4, ConcatFramed, ConcatComplete
-----------------------------------------------------------------------------
ThreadsTyped ==
  /\ tid \in [Thread -> Tid \cup {NoTid}] /\ ord \in [Thread -> Nat]
  /\ CUR_THREAD_ID \in Nat
  /\ new_thread_name \in [Thread -> Name \cup {NoName}]
  /\ renames \in [Thread -> Nat] /\ count \in [Thread -> Nat]
  /\ \A t \in Thread : /\ renames[t] =< MaxRenames[t]
                        /\ new_thread_name[t] \in {NoName, <<t, renames[t]>>}

LEMMA PageIsTyped ==
  ASSUME ThreadsTyped, NEW t \in Thread
  PROVE  PageOf(t) \in Page
  <1>1. PageOf(t) \in AnyPage
    BY DEF ThreadsTyped, PageOf, AnyPage
  <1>2. PageOf(t).thread = t /\ PageOf(t).renamed = renames[t]
        /\ PageOf(t).new_thread_name = new_thread_name[t]
    BY DEF PageOf
  <1>3. QED
    BY <1>1, <1>2 DEF ThreadsTyped, Page

StoreTyped == ring \in Seq(Page) /\ skipped_msr_pages_headers \in Seq(Page)

(* While it is written the file is complete; once the stream is ended, what  *)
(* is left to read of it has the end behind everything else.                 *)
FileFramed ==
  /\ file \in Seq(Token) /\ left \in Nat /\ Framed(file, left)
  /\ writer \in {"writing", "ended", "cut"}
  /\ phase = "wait" <=> writer = "writing"
  /\ phase = "wait" => left = 0 /\ Complete(file, 0)
  /\ writer # "cut" => Complete(file, left)
  /\ phase = "decode" /\ writer = "ended" => file # <<>> /\ file[Len(file)].type = "end"

StreamInv == ThreadsTyped /\ StoreTyped /\ FileFramed /\ ReadsInStep

LEMMA InitStream == Init => StreamInv
  <1> SUFFICES ASSUME Init PROVE StreamInv
    OBVIOUS
  <1>1. ThreadsTyped
    <2>1. \A t \in Thread : MaxRenames[t] \in Nat /\ <<t, 0>> \in Name
      BY ReaderTyped, IsName
    <2>2. QED
      BY <2>1 DEF Init, ThreadsTyped
  <1>2. StoreTyped
    BY DEF Init, StoreTyped
  <1>3. FileFramed
    <2>1. file = <<[type |-> "info"]>> /\ [type |-> "info"] \in Token
      BY DEF Init, Token
    <2>2. file \in Seq(Token) /\ Len(file) = 1 /\ file[1].type = "info"
      BY <2>1
    <2>3. Framed(file, 0) /\ Complete(file, 0)
      BY <2>2, PlainFramed
    <2>4. QED
      BY <2>2, <2>3 DEF Init, FileFramed
  <1>4. ReadsInStep
    BY DEF Init, ReadsInStep
  <1>5. QED
    BY <1>1, <1>2, <1>3, <1>4 DEF StreamInv

(* The threads and cleanup touch no token of the file.                       *)
LEMMA ThreadSteps ==
  ASSUME StreamInv, phase = "wait",
         (\E t \in Thread : FirstEvent(t) \/ set_cur_thread_name(t) \/ Flush(t)) \/ DropOldest
  PROVE  StreamInv'
  <1> USE DEF StreamInv
  <1>1. FileFramed' /\ ReadsInStep'
    <2>1. UNCHANGED <<file, left, writer, phase>>
      BY DEF FirstEvent, set_cur_thread_name, Flush, DropOldest, storeVars, fileVars
    <2>2. QED
      BY <2>1 DEF FileFramed, ReadsInStep
  <1>2. ThreadsTyped'
    <2>1. ASSUME NEW t \in Thread, FirstEvent(t) PROVE ThreadsTyped'
      BY <2>1 DEF FirstEvent, ThreadsTyped
    <2>2. ASSUME NEW t \in Thread, set_cur_thread_name(t) PROVE ThreadsTyped'
      <3>1. /\ renames' \in [Thread -> Nat] /\ renames'[t] \in Nat
            /\ \A u \in Thread : renames'[u] =< MaxRenames[u]
            /\ \A u \in Thread : u # t => renames'[u] = renames[u]
        <4>1. /\ renames' = [renames EXCEPT ![t] = @ + 1] /\ renames[t] < MaxRenames[t]
              /\ renames \in [Thread -> Nat] /\ \A u \in Thread : renames[u] =< MaxRenames[u]
          BY <2>2 DEF set_cur_thread_name, ThreadsTyped
        <4>2. MaxRenames[t] \in Nat
          BY ReaderTyped
        <4>3. /\ renames' \in [Thread -> Nat] /\ renames'[t] = renames[t] + 1
              /\ \A u \in Thread : u # t => renames'[u] = renames[u]
          BY <4>1
        <4>4. renames'[t] \in Nat /\ renames'[t] =< MaxRenames[t]
          BY <4>1, <4>2, <4>3
        <4>5. QED
          BY <4>1, <4>3, <4>4
      <3>2. <<t, renames'[t]>> \in Name
        BY <3>1, IsName
      <3>3. new_thread_name' = [new_thread_name EXCEPT ![t] = <<t, renames'[t]>>]
            /\ UNCHANGED <<tid, ord, CUR_THREAD_ID, count>>
        BY <2>2 DEF set_cur_thread_name
      <3>4. new_thread_name' \in [Thread -> Name \cup {NoName}]
        BY <3>2, <3>3 DEF ThreadsTyped
      <3>5. \A u \in Thread : new_thread_name'[u] \in {NoName, <<u, renames'[u]>>}
        BY <3>1, <3>3 DEF ThreadsTyped
      <3>6. QED
        BY <3>1, <3>3, <3>4, <3>5 DEF ThreadsTyped
    <2>3. ASSUME NEW t \in Thread, Flush(t) PROVE ThreadsTyped'
      BY <2>3 DEF Flush, ThreadsTyped
    <2>4. CASE DropOldest
      BY <2>4 DEF DropOldest, threadVars, ThreadsTyped
    <2>5. QED
      BY <2>1, <2>2, <2>3, <2>4
  <1>3. StoreTyped'
    <2>1. ASSUME NEW t \in Thread, FirstEvent(t) \/ set_cur_thread_name(t) PROVE StoreTyped'
      BY <2>1 DEF FirstEvent, set_cur_thread_name, storeVars, StoreTyped
    <2>2. ASSUME NEW t \in Thread, Flush(t) PROVE StoreTyped'
      <3>1. PageOf(t) \in Page
        BY PageIsTyped
      <3>2. QED
        BY <2>2, <3>1 DEF Flush, StoreTyped
    <2>3. CASE DropOldest
      <3>1. Head(ring) \in Page /\ Tail(ring) \in Seq(Page)
        BY <2>3 DEF DropOldest, StoreTyped
      <3>2. QED
        BY <2>3, <3>1 DEF DropOldest, StoreTyped
    <2>4. QED
      BY <2>1, <2>2, <2>3
  <1>4. QED
    BY <1>1, <1>2, <1>3

(* The sending thread takes the whole ring or leaves it.                     *)
LEMMA OutTyped ==
  ASSUME NEW P, ring \in Seq(P), NEW out \in {ring, <<>>}
  PROVE  out \in Seq(P)
  <1>1. <<>> \in Seq(P)
    OBVIOUS
  <1>2. QED
    BY <1>1

LEMMA WhatIsLeft ==
  ASSUME NEW P, ring \in Seq(P), NEW out \in {ring, <<>>}, LeftBehind(out)
  PROVE  /\ ring' \in Seq(P) /\ skipped_msr_pages_headers' = <<>>
         /\ \/ out = ring /\ ring' = <<>>
            \/ out = <<>> /\ ring' = ring
  <1>1. <<>> \in Seq(P)
    OBVIOUS
  <1>2. QED
    BY <1>1 DEF LeftBehind

(* What the sending thread appends is framed by itself.                      *)
LEMMA SenderSteps ==
  ASSUME StreamInv, SenderRound \/ SenderFreq \/ SenderEnd \/ CutOff
  PROVE  StreamInv'
  <1> DEFINE freq == [type |-> "freq"]
             end  == [type |-> "end"]
  <1>1. phase = "wait" /\ writer = "writing" /\ left = 0 /\ file \in Seq(Token)
        /\ Framed(file, 0) /\ Complete(file, 0)
    BY DEF StreamInv, FileFramed, SenderRound, SenderFreq, SenderEnd, CutOff
  <1>2. ThreadsTyped'
    BY DEF StreamInv, ThreadsTyped, SenderRound, SenderFreq, SenderEnd, CutOff, threadVars
  <1>3. StoreTyped'
    <2>1. <<>> \in Seq(Page)
      OBVIOUS
    <2>2. CASE SenderFreq
      BY <2>2 DEF StreamInv, StoreTyped, SenderFreq, storeVars
    <2>3. CASE SenderRound \/ SenderEnd \/ CutOff
      <3>1. PICK out \in {ring, <<>>} : LeftBehind(out)
        BY <2>3 DEF SenderRound, SenderEnd, CutOff
      <3>2. ring' \in Seq(Page) /\ skipped_msr_pages_headers' = <<>>
        BY <3>1, WhatIsLeft DEF StreamInv, StoreTyped
      <3>3. QED
        BY <2>1, <3>2 DEF StoreTyped
    <2>4. QED
      BY <2>2, <2>3
  <1>4. ASSUME NEW out \in {ring, <<>>}
        PROVE  Taken(out) \in Seq(Token) /\ Framed(Taken(out), 0) /\ Complete(Taken(out), 0)
    <2>1. out \in Seq(Page) /\ skipped_msr_pages_headers \in Seq(Page)
      BY OutTyped DEF StreamInv, StoreTyped
    <2>2. QED
      BY <2>1, TakenFramed
  <1>5. freq \in Token /\ end \in Token
    BY DEF Token
  <1>6. ReadsInStep'
    BY <1>1 DEF ReadsInStep, SenderRound, SenderFreq, SenderEnd, CutOff, fileVars
  <1>7. left' = 0
    BY <1>1 DEF SenderRound, SenderFreq, SenderEnd, CutOff
  <1>8. CASE SenderRound
    <2>1. PICK out \in {ring, <<>>} : file' = file \o Taken(out) /\ UNCHANGED <<writer, phase>>
      BY <1>8 DEF SenderRound, fileVars
    <2>2. file' \in Seq(Token) /\ Framed(file', 0) /\ Complete(file', 0)
      BY <1>1, <1>4, <2>1, ConcatFramed, ConcatComplete
    <2>3. FileFramed'
      BY <1>1, <1>7, <2>1, <2>2 DEF FileFramed
    <2>4. QED
      BY <1>2, <1>3, <1>6, <2>3 DEF StreamInv
  <1>9. CASE SenderFreq
    <2> DEFINE one == <<freq>>
    <2>1. file' = file \o one /\ UNCHANGED <<writer, phase>>
      <3>1. file' = Append(file, freq)
        BY <1>9 DEF SenderFreq
      <3>2. Append(file, freq) = file \o one
        BY <1>1, <1>5
      <3>3. QED
        BY <1>9, <3>1, <3>2 DEF SenderFreq, fileVars
    <2>2. one \in Seq(Token) /\ Framed(one, 0) /\ Complete(one, 0)
      <3>1. one \in Seq(Token) /\ Len(one) = 1 /\ one[1].type = "freq"
        BY <1>5
      <3> HIDE DEF one
      <3>2. QED
        BY <3>1, PlainFramed
    <2> HIDE DEF one
    <2>3. file' \in Seq(Token) /\ Framed(file', 0) /\ Complete(file', 0)
      BY <1>1, <2>1, <2>2, ConcatFramed, ConcatComplete
    <2>4. FileFramed'
      BY <1>1, <1>7, <2>1, <2>3 DEF FileFramed
    <2>5. QED
      BY <1>2, <1>3, <1>6, <2>4 DEF StreamInv
  <1>10. CASE SenderEnd
    <2> DEFINE last == <<freq, end>>
               most == file \o Taken(ring)
    <2>1. file' = most \o last /\ writer' = "ended" /\ phase' = "decode"
      BY <1>1, <1>4, <1>5, <1>10 DEF SenderEnd
    <2>2. last \in Seq(Token) /\ Framed(last, 0) /\ Complete(last, 0)
          /\ Len(last) = 2 /\ last[2].type = "end"
      <3>1. last \in Seq(Token) /\ Len(last) = 2
            /\ last[1].type = "freq" /\ last[2].type = "end"
        BY <1>5
      <3> HIDE DEF last
      <3>2. QED
        BY <3>1, PlainFramed
    <2>3. most \in Seq(Token) /\ Framed(most, 0) /\ Complete(most, 0)
      BY <1>1, <1>4, ConcatFramed, ConcatComplete
    <2> HIDE DEF last, most
    <2>4. file' \in Seq(Token) /\ Framed(file', 0) /\ Complete(file', 0)
      BY <2>1, <2>2, <2>3, ConcatFramed, ConcatComplete
    <2>5. Len(file') = Len(most) + 2 /\ file'[Len(most) + 2] = last[2] /\ Len(most) \in Nat
      <3>1. most \in Seq(Token) /\ last \in Seq(Token) /\ Len(last) = 2
        BY <2>2, <2>3
      <3>2. /\ Len(most \o last) = Len(most) + Len(last) /\ Len(most) \in Nat
            /\ \A i \in 1..Len(last) : (most \o last)[Len(most) + i] = last[i]
        BY <3>1, ConcatAt
      <3>3. 2 \in 1..Len(last)
        BY <3>1
      <3>4. QED
        BY <2>1, <3>1, <3>2, <3>3
    <2>6. file' # <<>> /\ file'[Len(file')].type = "end"
      BY <2>2, <2>4, <2>5
    <2>7. FileFramed'
      BY <1>7, <2>1, <2>4, <2>6 DEF FileFramed
    <2>8. QED
      BY <1>2, <1>3, <1>6, <2>7 DEF StreamInv
  <1>11. CASE CutOff
    <2>0. PICK out \in {ring, <<>>} :
            \E n \in 0..Len(Taken(out)) : file' = file \o SubSeq(Taken(out), 1, n)
      BY <1>11 DEF CutOff
    <2>1. PICK n \in 0..Len(Taken(out)) : file' = file \o SubSeq(Taken(out), 1, n)
      BY <2>0
    <2> DEFINE part == SubSeq(Taken(out), 1, n)
    <2>2. writer' = "cut" /\ phase' = "decode"
      BY <1>11 DEF CutOff
    <2>3. part \in Seq(Token) /\ Framed(part, 0) /\ file' = file \o part
      BY <1>4, <2>1, PrefixFramed
    <2> HIDE DEF part
    <2>4. file' \in Seq(Token) /\ Framed(file', 0)
      BY <1>1, <2>3, ConcatFramed
    <2>5. FileFramed'
      BY <1>7, <2>2, <2>4 DEF FileFramed
    <2>6. QED
      BY <1>2, <1>3, <1>6, <2>5 DEF StreamInv
  <1>12. QED
    BY <1>8, <1>9, <1>10, <1>11

(* Whatever the reader reads first, the rest is framed for what it expects.  *)
LEMMA ReaderSteps ==
  ASSUME StreamInv,
         ReadInfo \/ ReadData \/ ReadPage \/ ReadFailed \/ ReadFreq \/ ReadEnd
  PROVE  StreamInv'
  <1>1. phase = "decode" /\ file # <<>> /\ file' = Tail(file)
        /\ UNCHANGED <<threadVars, storeVars, fileVars>>
    BY DEF ReadInfo, ReadData, ReadPage, ReadFailed, ReadFreq, ReadEnd, Reads
  <1>2. file \in Seq(Token) /\ left \in Nat /\ Framed(file, left) /\ Head(file) = file[1]
        /\ Len(file) \in Nat /\ Len(file) > 0
    BY <1>1 DEF StreamInv, FileFramed
  <1>3. file[1].type = "page" <=> left > 0
    <2>1. 1 \in 1..Len(file) /\ (Announced(file, left, 1) <=> 1 =< left)
      BY <1>2 DEF Announced
    <2>2. QED
      BY <1>2, <2>1 DEF Framed
  <1>4. left' \in Nat
        /\ left' = IF left > 0 THEN left - 1 ELSE IF file[1].type = "data" THEN file[1].total ELSE 0
    <2>1. CASE ReadData
      <3>1. file[1].type = "data" /\ left' = file[1].total
        BY <1>2, <2>1 DEF ReadData, Reads
      <3>2. file[1] \in Token
        BY <1>2
      <3>3. QED
        BY <1>2, <1>3, <3>1, <3>2, DataToken
    <2>2. CASE ReadPage
      <3>1. file[1].type = "page" /\ left' = left - 1
        BY <1>2, <2>2 DEF ReadPage, Reads, LeftAfterPage
      <3>2. QED
        BY <1>2, <1>3, <3>1
    <2>3. CASE ReadInfo \/ ReadFailed \/ ReadFreq \/ ReadEnd
      <3>1. file[1].type \in {"info", "failed", "freq", "end"} /\ left' = left
        BY <1>2, <2>3 DEF ReadInfo, ReadFailed, ReadFreq, ReadEnd, Reads
      <3>2. QED
        BY <1>2, <1>3, <3>1
    <2>4. QED
      BY <2>1, <2>2, <2>3
  <1>5. /\ file' \in Seq(Token) /\ Framed(file', left')
        /\ Complete(file, left) => Complete(file', left')
    BY <1>1, <1>2, <1>4, TailFramed, TailComplete
  <1>6. ASSUME phase' = "decode", writer = "ended"
        PROVE  file' # <<>> /\ file'[Len(file')].type = "end"
    <2>1. file[Len(file)].type = "end"
      BY <1>1, <1>6 DEF StreamInv, FileFramed
    <2>2. ~ReadEnd
      BY <1>6 DEF ReadEnd
    <2>3. file[1].type # "end"
      BY <1>2, <2>2 DEF ReadInfo, ReadData, ReadPage, ReadFailed, ReadFreq, Reads
    <2>4. Len(file) # 1
      BY <2>1, <2>3
    <2>5. Len(file') = Len(file) - 1 /\ file'[Len(file) - 1] = file[Len(file)]
      <3>1. /\ Len(Tail(file)) = Len(file) - 1
            /\ \A i \in 1..(Len(file) - 1) : Tail(file)[i] = file[i + 1]
        BY <1>2
      <3>2. ASSUME NEW n \in Nat, n > 0, n # 1 PROVE n - 1 \in 1..(n - 1) /\ (n - 1) + 1 = n
        BY <3>2
      <3>3. Len(file) - 1 \in 1..(Len(file) - 1) /\ (Len(file) - 1) + 1 = Len(file)
        BY <1>2, <2>4, <3>2
      <3>4. QED
        BY <1>1, <3>1, <3>3
    <2>6. QED
      BY <1>2, <2>1, <2>4, <2>5
  <1>7. phase' \in {"decode", "parse"}
    BY <1>1 DEF ReadInfo, ReadData, ReadPage, ReadFailed, ReadFreq, ReadEnd
  <1>8. writer' = writer
    BY <1>1 DEF fileVars
  <1>9. FileFramed'
    BY <1>1, <1>4, <1>5, <1>6, <1>7, <1>8 DEF StreamInv, FileFramed
  <1>10. ThreadsTyped' /\ StoreTyped'
    BY <1>1 DEF StreamInv, ThreadsTyped, StoreTyped, threadVars, storeVars
  <1>11. QED
    BY <1>7, <1>9, <1>10 DEF StreamInv, ReadsInStep

(* The reader fails at the end of a file that was cut off, and only there.   *)
LEMMA FailStep ==
  ASSUME StreamInv, ReadFails PROVE StreamInv'
  <1>1. phase = "decode" /\ UNCHANGED <<threadVars, storeVars, file, writer, left>>
    BY DEF ReadFails, fileVars
  <1>2. file = <<>>
    <2> SUFFICES ASSUME file # <<>> PROVE FALSE
      OBVIOUS
    <2>1. file \in Seq(Token) /\ left \in Nat /\ Framed(file, left) /\ Head(file) = file[1]
          /\ 1 \in 1..Len(file)
      BY DEF StreamInv, FileFramed
    <2>2. Announced(file, left, 1) <=> left > 0
      BY <2>1 DEF Announced
    <2>3. (file[1].type = "page") <=> (left > 0)
      BY <2>1, <2>2 DEF Framed
    <2>4. QED
      BY <2>1, <2>3 DEF ReadFails
  <1>3. writer = "cut" /\ phase' = "rejected"
    BY <1>1, <1>2 DEF StreamInv, FileFramed, ReadFails
  <1>4. QED
    BY <1>1, <1>3 DEF StreamInv, ThreadsTyped, StoreTyped, FileFramed, ReadsInStep,
                      threadVars, storeVars

LEMMA NextStream == StreamInv /\ [Next]_vars => StreamInv'
  <1> SUFFICES ASSUME StreamInv, [Next]_vars PROVE StreamInv'
    OBVIOUS
  <1>1. CASE ParseThread \/ Save
    BY <1>1 DEF ParseThread, Save, StreamInv, ThreadsTyped, StoreTyped, FileFramed,
                ReadsInStep, threadVars, storeVars, fileVars
  <1>2. CASE UNCHANGED vars
    BY <1>2 DEF vars, StreamInv, ThreadsTyped, StoreTyped, FileFramed, ReadsInStep,
                threadVars, storeVars, fileVars
  <1>3. QED
    BY <1>1, <1>2, ThreadSteps, SenderSteps, ReaderSteps, FailStep DEF Next, Done

(***************************************************************************)
(* For any number of threads, pages and renamings, and wherever a stream   *)
(* is cut off, decode_packets takes no header for a packet and no packet   *)
(* for a header; and it gives up a stream only if the stream was cut off.  *)
(***************************************************************************)
THEOREM StaysInStep == Spec => []ReadsInStep
  <1>1. StreamInv => ReadsInStep
    BY DEF StreamInv
  <1>2. QED
    BY <1>1, InitStream, NextStream, PTL DEF Spec
-----------------------------------------------------------------------------
(***************************************************************************)
(* The tracks.  A page keeps the ord id and the thread id of its thread    *)
(* wherever it is, ord ids are given once, and the parser of an ord id has *)
(* either no thread id or the one of the thread that has this ord id.      *)
(***************************************************************************)
TaggedPage ==
  {p \in Page : /\ ord[p.thread] # 0 /\ p.thread_ord_id = ord[p.thread]
                /\ p.thread_id = tid[p.thread]}

TaggedToken == {k \in Token : k.type \in {"page", "failed"} => k.page \in TaggedPage}

OrdsApart ==
  /\ CUR_THREAD_ID > 0 /\ live \subseteq Used
  /\ \A t \in Used : ord[t] < CUR_THREAD_ID /\ \A u \in Thread : ord[t] = ord[u] => t = u

PagesTagged ==
  /\ ring \in Seq(TaggedPage) /\ skipped_msr_pages_headers \in Seq(TaggedPage)
  /\ file \in Seq(TaggedToken)

PagesOf(o) == {p \in TaggedPage : p.thread_ord_id = o}

TidsOf(o) == {NoTid} \cup {tid[t] : t \in {u \in Used : ord[u] = o}}

NamesOf(o) == {name \in Name : \E t \in Used : ord[t] = o /\ \E k \in Nat : name = <<t, k>>}

Parser(o) ==
  [thread_name : NamesOf(o) \cup {NoName}, thread_id : TidsOf(o),
   event_buf : Seq(PagesOf(o)), missed_events : Seq(PagesOf(o))]

ParsersTagged ==
  /\ event_parsers = [o \in Ord |-> event_parsers[o]]
  /\ \A o \in Ord : event_parsers[o] \in Parser(o)
  /\ phase = "wait" => \A o \in Ord : event_parsers[o] = NewParser

Entry == {[track |-> TrackOf(p.thread_ord_id), page |-> p] :
            p \in {q \in TaggedPage : q.thread_ord_id \in Ord}}

TraceTagged == trace \in Seq(Entry) /\ (phase \in {"wait", "decode"} => trace = <<>>)

TrackInv == StreamInv /\ OrdsApart /\ PagesTagged /\ ParsersTagged /\ TraceTagged

LEMMA NoOrdIsZero == 0 \notin Ord
  BY DEF Ord

LEMMA WiderSeq ==
  ASSUME NEW S, NEW T, S \subseteq T, NEW f \in Seq(S) PROVE f \in Seq(T)
  OBVIOUS

LEMMA NewParserType == \A o \in Ord : NewParser \in Parser(o)
  <1> TAKE o \in Ord
  <1>1. <<>> \in Seq(PagesOf(o))
    OBVIOUS
  <1>2. NoTid \in TidsOf(o)
    BY DEF TidsOf
  <1>3. QED
    BY <1>1, <1>2 DEF NewParser, Parser

(* What a step leaves of it that changes no ids.                             *)
LEMMA SameIds ==
  ASSUME UNCHANGED <<ord, tid>>
  PROVE  /\ TaggedPage' = TaggedPage /\ TaggedToken' = TaggedToken /\ Used' = Used
         /\ \A o : PagesOf(o)' = PagesOf(o) /\ TidsOf(o)' = TidsOf(o) /\ Parser(o)' = Parser(o)
  <1>1. TaggedPage' = TaggedPage
    BY DEF TaggedPage
  <1>2. Used' = Used
    BY DEF Used
  <1>3. TaggedToken' = TaggedToken
    BY <1>1 DEF TaggedToken
  <1>4. \A o : PagesOf(o)' = PagesOf(o) /\ TidsOf(o)' = TidsOf(o) /\ NamesOf(o)' = NamesOf(o)
    BY <1>1, <1>2 DEF PagesOf, TidsOf, NamesOf
  <1>5. \A o : Parser(o)' = Parser(o)
    BY <1>4 DEF Parser
  <1>6. QED
    BY <1>1, <1>2, <1>3, <1>4, <1>5

LEMMA InitTracks == Init => TrackInv
  <1> SUFFICES ASSUME Init PROVE TrackInv
    OBVIOUS
  <1>1. OrdsApart
    BY DEF Init, OrdsApart, Used
  <1>2. PagesTagged
    <2>1. [type |-> "info"] \in TaggedToken
      BY DEF TaggedToken, Token
    <2>2. <<[type |-> "info"]>> \in Seq(TaggedToken)
      BY <2>1
    <2>3. QED
      BY <2>2 DEF Init, PagesTagged
  <1>3. ParsersTagged
    <2>1. \A o \in Ord : event_parsers[o] = NewParser
      BY DEF Init
    <2>2. event_parsers = [o \in Ord |-> event_parsers[o]]
      BY DEF Init
    <2>3. QED
      BY <2>1, <2>2, NewParserType DEF ParsersTagged
  <1>4. TraceTagged
    BY DEF Init, TraceTagged
  <1>5. QED
    BY <1>1, <1>2, <1>3, <1>4, InitStream DEF TrackInv

(* The threads give out ord ids and tag their pages; nothing is read yet.    *)
LEMMA ThreadTracks ==
  ASSUME TrackInv, phase = "wait",
         (\E t \in Thread : FirstEvent(t) \/ set_cur_thread_name(t) \/ Flush(t)) \/ DropOldest
  PROVE  OrdsApart' /\ PagesTagged' /\ ParsersTagged' /\ TraceTagged'
  <1> USE DEF TrackInv
  <1>1. UNCHANGED <<phase, file, event_parsers, trace>>
    BY DEF FirstEvent, set_cur_thread_name, Flush, DropOldest, storeVars, fileVars,
           parserVars, traceVars
  <1>2. ParsersTagged'
    <2>1. \A o \in Ord : NewParser \in Parser(o)'
      <3> TAKE o \in Ord
      <3>1. <<>> \in Seq(PagesOf(o)')
        OBVIOUS
      <3>2. NoTid \in TidsOf(o)'
        BY DEF TidsOf
      <3>3. QED
        BY <3>1, <3>2 DEF NewParser, Parser
    <2>2. QED
      BY <1>1, <2>1 DEF ParsersTagged
  <1>3. TraceTagged'
    BY <1>1 DEF TraceTagged
  <1>4. ASSUME NEW t \in Thread, FirstEvent(t) PROVE OrdsApart' /\ PagesTagged'
    <2>1. /\ ord' = [ord EXCEPT ![t] = CUR_THREAD_ID] /\ ord[t] = 0
          /\ CUR_THREAD_ID' = CUR_THREAD_ID + 1 /\ live' = live \cup {t}
          /\ UNCHANGED <<ring, skipped_msr_pages_headers>>
      BY <1>4 DEF FirstEvent, storeVars
    <2>2. PICK i \in Tid : tid' = [tid EXCEPT ![t] = i]
      BY <1>4 DEF FirstEvent
    <2>3. /\ ord \in [Thread -> Nat] /\ tid \in [Thread -> Tid \cup {NoTid}]
          /\ CUR_THREAD_ID \in Nat
      BY DEF StreamInv, ThreadsTyped
    <2>4. \A u \in Thread : u # t => ord'[u] = ord[u] /\ tid'[u] = tid[u]
      BY <2>1, <2>2, <2>3
    <2>5. ord'[t] = CUR_THREAD_ID
      BY <2>1, <2>3
    <2>6. OrdsApart'
      <3>1. Used' = Used \cup {t}
        BY <2>3, <2>4, <2>5 DEF Used, OrdsApart
      <3>2. \A u \in Used : u # t /\ u \in Thread /\ ord[u] < CUR_THREAD_ID
        BY <2>1 DEF Used, OrdsApart
      <3>3. \A u \in Thread : ord[u] < CUR_THREAD_ID
        BY <2>3, <3>2 DEF Used, OrdsApart
      <3>4. ASSUME NEW u \in Used', NEW v \in Thread, ord'[u] = ord'[v] PROVE u = v
        <4>1. CASE u = t
          BY <2>3, <2>4, <2>5, <3>3, <3>4, <4>1
        <4>2. CASE u # t
          <5>1. u \in Used /\ ord'[u] = ord[u] /\ ord[u] < CUR_THREAD_ID
            BY <2>4, <3>1, <3>2, <4>2
          <5>2. v # t
            <6> SUFFICES ASSUME v = t PROVE FALSE
              OBVIOUS
            <6>1. ord[u] = CUR_THREAD_ID /\ ord[u] \in Nat
              BY <2>3, <2>5, <3>2, <3>4, <5>1
            <6>2. QED
              BY <2>3, <5>1, <6>1
          <5>3. QED
            BY <2>4, <3>4, <5>1, <5>2 DEF OrdsApart
        <4>3. QED
          BY <4>1, <4>2
      <3>5. \A u \in Used' : ord'[u] < CUR_THREAD_ID'
        BY <2>1, <2>3, <2>4, <2>5, <3>1, <3>2
      <3>6. CUR_THREAD_ID' > 0 /\ live' \subseteq Used'
        BY <2>1, <2>3, <3>1 DEF OrdsApart
      <3>7. QED
        BY <3>4, <3>5, <3>6 DEF OrdsApart
    <2>7. TaggedPage \subseteq TaggedPage'
      <3> SUFFICES ASSUME NEW p \in TaggedPage PROVE p \in TaggedPage'
        OBVIOUS
      <3>1. p \in Page /\ p.thread \in Thread /\ p.thread # t
        BY <2>1, PageFields DEF TaggedPage
      <3>2. QED
        BY <2>4, <3>1 DEF TaggedPage
    <2>8. TaggedToken \subseteq TaggedToken'
      BY <2>7 DEF TaggedToken
    <2>9. PagesTagged'
      BY <1>1, <2>1, <2>7, <2>8, WiderSeq DEF PagesTagged
    <2>10. QED
      BY <2>6, <2>9
  <1>5. ASSUME NEW t \in Thread, set_cur_thread_name(t) PROVE OrdsApart' /\ PagesTagged'
    <2>1. UNCHANGED <<ord, tid, live, CUR_THREAD_ID, ring, skipped_msr_pages_headers>>
      BY <1>5 DEF set_cur_thread_name, storeVars
    <2>2. QED
      BY <1>1, <2>1, SameIds DEF OrdsApart, PagesTagged
  <1>6. ASSUME NEW t \in Thread, Flush(t) PROVE OrdsApart' /\ PagesTagged'
    <2>1. /\ UNCHANGED <<ord, tid, CUR_THREAD_ID, skipped_msr_pages_headers>>
          /\ t \in live /\ live' \subseteq live /\ ring' = Append(ring, PageOf(t))
      BY <1>6 DEF Flush
    <2>2. PageOf(t) \in TaggedPage
      <3>1. PageOf(t) \in Page
        BY PageIsTyped DEF StreamInv
      <3>2. ord[t] # 0
        BY <2>1 DEF OrdsApart, Used
      <3>3. QED
        BY <3>1, <3>2 DEF PageOf, TaggedPage
    <2>3. ring' \in Seq(TaggedPage)
      BY <2>1, <2>2 DEF PagesTagged
    <2>4. QED
      BY <1>1, <2>1, <2>3, SameIds DEF OrdsApart, PagesTagged
  <1>7. CASE DropOldest
    <2>1. /\ UNCHANGED <<ord, tid, live, CUR_THREAD_ID>> /\ ring # <<>>
          /\ ring' = Tail(ring)
          /\ skipped_msr_pages_headers' = Append(skipped_msr_pages_headers, Head(ring))
      BY <1>7 DEF DropOldest, threadVars
    <2>2. ring \in Seq(TaggedPage) /\ skipped_msr_pages_headers \in Seq(TaggedPage)
      BY DEF PagesTagged
    <2>3. Head(ring) \in TaggedPage /\ Tail(ring) \in Seq(TaggedPage)
      BY <2>1, <2>2
    <2>4. skipped_msr_pages_headers' \in Seq(TaggedPage)
      BY <2>1, <2>2, <2>3
    <2>5. Used' = Used /\ TaggedPage' = TaggedPage /\ TaggedToken' = TaggedToken
      BY <2>1, SameIds
    <2>6. OrdsApart'
      BY <2>1, <2>5 DEF OrdsApart
    <2>7. PagesTagged'
      BY <1>1, <2>1, <2>3, <2>4, <2>5 DEF PagesTagged
    <2>8. QED
      BY <1>2, <1>3, <2>6, <2>7
  <1>8. QED
    BY <1>2, <1>3, <1>4, <1>5, <1>6, <1>7

LEMMA TokensTagged ==
  ASSUME NEW type \in {"page", "failed"}, NEW pages \in Seq(TaggedPage)
  PROVE  Tokens(type, pages) \in Seq(TaggedToken)
  <1>1. ASSUME NEW i \in 1..Len(pages) PROVE [type |-> type, page |-> pages[i]] \in TaggedToken
    <2>1. pages[i] \in TaggedPage /\ pages[i] \in Page
      BY DEF TaggedPage
    <2>2. QED
      BY <2>1 DEF TaggedToken, Token
  <1>2. QED
    BY <1>1 DEF Tokens

LEMMA TakenTagged ==
  ASSUME PagesTagged, NEW out \in Seq(TaggedPage)
  PROVE  Taken(out) \in Seq(TaggedToken)
  <1> DEFINE head == [type |-> "data", total |-> Len(out)]
             failed == Tokens("failed", skipped_msr_pages_headers)
  <1>1. failed \in Seq(TaggedToken) /\ Tokens("page", out) \in Seq(TaggedToken)
    BY TokensTagged DEF PagesTagged
  <1>2. head \in TaggedToken
    <2>1. Len(out) \in Nat
      OBVIOUS
    <2>2. QED
      BY <2>1 DEF TaggedToken, Token
  <1>3. Taken(out) = (IF out = <<>> THEN <<>> ELSE <<head>> \o Tokens("page", out)) \o failed
    BY DEF Taken
  <1> HIDE DEF head, failed
  <1>4. <<head>> \in Seq(TaggedToken)
    BY <1>2
  <1>5. <<head>> \o Tokens("page", out) \in Seq(TaggedToken)
    BY <1>1, <1>4
  <1>6. (IF out = <<>> THEN <<>> ELSE <<head>> \o Tokens("page", out)) \in Seq(TaggedToken)
    BY <1>5
  <1>7. QED
    BY <1>1, <1>3, <1>6

(* The sending thread writes the pages as they are.                          *)
LEMMA SenderTracks ==
  ASSUME TrackInv, SenderRound \/ SenderFreq \/ SenderEnd \/ CutOff
  PROVE  OrdsApart' /\ PagesTagged' /\ ParsersTagged' /\ TraceTagged'
  <1>1. /\ UNCHANGED <<threadVars, event_parsers, trace>>
        /\ phase = "wait" /\ phase' \in {"wait", "decode"}
    BY DEF TrackInv, StreamInv, FileFramed, SenderRound, SenderFreq, SenderEnd, CutOff,
           parserVars, traceVars, fileVars
  <1>2. /\ TaggedPage' = TaggedPage /\ TaggedToken' = TaggedToken /\ Used' = Used
        /\ \A o : Parser(o)' = Parser(o)
    BY <1>1, SameIds DEF threadVars
  <1>3. OrdsApart'
    BY <1>1, <1>2 DEF TrackInv, OrdsApart, threadVars
  <1>4. ParsersTagged'
    BY <1>1, <1>2 DEF TrackInv, ParsersTagged
  <1>5. TraceTagged'
    BY <1>1 DEF TrackInv, TraceTagged
  <1>6. /\ file \in Seq(TaggedToken)
        /\ \A out \in {ring, <<>>} : Taken(out) \in Seq(TaggedToken)
    <2>1. \A out \in {ring, <<>>} : out \in Seq(TaggedPage)
      BY OutTyped DEF TrackInv, PagesTagged
    <2>2. QED
      BY <2>1, TakenTagged DEF TrackInv, PagesTagged
  <1>7. [type |-> "freq"] \in TaggedToken /\ [type |-> "end"] \in TaggedToken
    BY DEF TaggedToken, Token
  <1>8. file' \in Seq(TaggedToken)
    <2>1. CASE SenderRound
      BY <1>6, <2>1 DEF SenderRound
    <2>2. CASE SenderFreq
      BY <1>6, <1>7, <2>2 DEF SenderFreq
    <2>3. CASE SenderEnd
      <3>1. file' = file \o Taken(ring) \o <<[type |-> "freq"], [type |-> "end"]>>
        BY <2>3 DEF SenderEnd
      <3>2. file \o Taken(ring) \in Seq(TaggedToken)
        BY <1>6
      <3>3. <<[type |-> "freq"], [type |-> "end"]>> \in Seq(TaggedToken)
        BY <1>7
      <3>4. QED
        BY <3>1, <3>2, <3>3
    <2>4. CASE CutOff
      <3>0. PICK out \in {ring, <<>>} :
              \E n \in 0..Len(Taken(out)) : file' = file \o SubSeq(Taken(out), 1, n)
        BY <2>4 DEF CutOff
      <3>1. PICK n \in 0..Len(Taken(out)) : file' = file \o SubSeq(Taken(out), 1, n)
        BY <3>0
      <3>2. SubSeq(Taken(out), 1, n) \in Seq(TaggedToken)
        BY <1>6, <3>1
      <3>3. QED
        BY <1>6, <3>1, <3>2
    <2>5. QED
      BY <2>1, <2>2, <2>3, <2>4
  <1>9. ring' \in Seq(TaggedPage) /\ skipped_msr_pages_headers' \in Seq(TaggedPage)
    <2>1. CASE SenderFreq
      BY <2>1 DEF TrackInv, PagesTagged, SenderFreq, storeVars
    <2>2. CASE SenderRound \/ SenderEnd \/ CutOff
      <3>1. PICK out \in {ring, <<>>} : LeftBehind(out)
        BY <2>2 DEF SenderRound, SenderEnd, CutOff
      <3>2. ring' \in Seq(TaggedPage) /\ skipped_msr_pages_headers' = <<>>
        BY <3>1, WhatIsLeft DEF TrackInv, PagesTagged
      <3>3. QED
        BY <3>2
    <2>3. QED
      BY <2>1, <2>2
  <1>10. QED
    BY <1>2, <1>3, <1>4, <1>5, <1>8, <1>9 DEF PagesTagged

(* A page goes to the parser of its ord id.                                  *)
LEMMA PageToParser ==
  ASSUME TrackInv, NEW page \in TaggedPage, page.thread_ord_id \in Ord
  PROVE  LET o == page.thread_ord_id
             parser == event_parsers[o]
         IN /\ WithPage(Named(parser, page), page) \in Parser(o)
            /\ [parser EXCEPT !.missed_events = Append(@, page)] \in Parser(o)
  <1> DEFINE o == page.thread_ord_id
             parser == event_parsers[o]
  <1>1. parser \in Parser(o)
    BY DEF TrackInv, ParsersTagged
  <1>2. page \in Page /\ page \in PagesOf(o)
    BY DEF TaggedPage, PagesOf
  <1>3. /\ page.thread \in Used /\ ord[page.thread] = o /\ page.thread_id = tid[page.thread]
        /\ page.renamed \in 0..MaxRenames[page.thread]
        /\ page.new_thread_name \in {NoName, <<page.thread, page.renamed>>}
    BY <1>2, PageFields DEF TaggedPage, Used
  <1>4. page.thread_id \in TidsOf(o) /\ page.new_thread_name \in NamesOf(o) \cup {NoName}
    <2>1. page.thread_id \in TidsOf(o)
      BY <1>3 DEF TidsOf
    <2>2. <<page.thread, page.renamed>> \in Name /\ page.renamed \in Nat
      BY <1>3, IsName, ReaderTyped DEF Used
    <2>3. QED
      BY <1>3, <2>1, <2>2 DEF NamesOf
  <1> HIDE DEF o, parser
  <1>5. Named(parser, page) \in Parser(o)
    BY <1>1, <1>4 DEF Named, Parser
  <1>6. WithPage(Named(parser, page), page) \in Parser(o)
    <2>1. PICK named \in Parser(o) : named = Named(parser, page)
      BY <1>5
    <2>2. Append(named.event_buf, page) \in Seq(PagesOf(o))
      BY <1>2 DEF Parser
    <2>3. QED
      BY <2>1, <2>2 DEF WithPage, Parser
  <1>7. [parser EXCEPT !.missed_events = Append(@, page)] \in Parser(o)
    <2>1. Append(parser.missed_events, page) \in Seq(PagesOf(o))
      BY <1>1, <1>2 DEF Parser
    <2>2. QED
      BY <1>1, <2>1 DEF Parser
  <1>8. QED
    BY <1>6, <1>7 DEF o, parser

LEMMA ReaderTracks ==
  ASSUME TrackInv,
         ReadInfo \/ ReadData \/ ReadPage \/ ReadFailed \/ ReadFreq \/ ReadEnd \/ ReadFails
  PROVE  OrdsApart' /\ PagesTagged' /\ ParsersTagged' /\ TraceTagged'
  <1>1. /\ UNCHANGED <<threadVars, storeVars, trace>>
        /\ phase = "decode" /\ phase' # "wait"
        /\ file' = file \/ (file # <<>> /\ file' = Tail(file))
    <2>1. CASE \E type \in {"info", "data", "page", "failed", "freq", "end"} : Reads(type)
      <3>1. /\ UNCHANGED <<threadVars, storeVars, trace>> /\ phase = "decode"
            /\ file # <<>> /\ file' = Tail(file)
        BY <2>1 DEF Reads, traceVars
      <3>2. phase' # "wait"
        <4>1. CASE ReadInfo \/ ReadData \/ ReadFreq \/ ReadEnd
          BY <3>1, <4>1 DEF ReadInfo, ReadData, ReadFreq, ReadEnd
        <4>2. CASE ReadPage
          BY <3>1, <4>2 DEF ReadPage
        <4>3. CASE ReadFailed
          BY <3>1, <4>3 DEF ReadFailed
        <4>4. CASE ReadFails
          BY <4>4 DEF ReadFails
        <4>5. QED
          BY <4>1, <4>2, <4>3, <4>4
      <3>3. QED
        BY <3>1, <3>2
    <2>2. CASE ReadFails
      BY <2>2 DEF ReadFails, traceVars
    <2>3. QED
      BY <2>1, <2>2 DEF ReadInfo, ReadData, ReadPage, ReadFailed, ReadFreq, ReadEnd
  <1>2. /\ TaggedPage' = TaggedPage /\ TaggedToken' = TaggedToken /\ Used' = Used
        /\ \A o : Parser(o)' = Parser(o)
    BY <1>1, SameIds DEF threadVars
  <1>3. OrdsApart'
    BY <1>1, <1>2 DEF TrackInv, OrdsApart, threadVars
  <1>4. PagesTagged'
    <2>1. file \in Seq(TaggedToken)
      BY DEF TrackInv, PagesTagged
    <2>2. ASSUME file # <<>> PROVE Tail(file) \in Seq(TaggedToken)
      BY <2>1, <2>2
    <2>3. file' \in Seq(TaggedToken)
      BY <1>1, <2>1, <2>2
    <2>4. QED
      BY <1>1, <1>2, <2>3 DEF TrackInv, PagesTagged, storeVars
  <1>5. TraceTagged'
    <2>1. trace' = <<>>
      BY <1>1 DEF TrackInv, TraceTagged
    <2>2. QED
      BY <2>1 DEF TraceTagged
  <1>6. /\ event_parsers = [o \in Ord |-> event_parsers[o]]
        /\ \A o \in Ord : event_parsers[o] \in Parser(o)
    BY DEF TrackInv, ParsersTagged
  <1>7. event_parsers' = [o \in Ord |-> event_parsers'[o]]
        /\ \A o \in Ord : event_parsers'[o] \in Parser(o)
    <2>1. CASE ReadInfo \/ ReadData \/ ReadFreq \/ ReadEnd \/ ReadFails
      <3>1. event_parsers' = event_parsers
        BY <2>1 DEF ReadInfo, ReadData, ReadFreq, ReadEnd, ReadFails, parserVars
      <3>2. QED
        BY <1>6, <3>1
    <2>2. CASE ReadPage \/ ReadFailed
      <3> DEFINE page == Head(file).page
                 x == page.thread_ord_id
      <3>1. page \in TaggedPage
        <4>1. file # <<>> /\ Head(file).type \in {"page", "failed"}
          <5>1. Reads("page") \/ Reads("failed")
            <6>1. CASE ReadPage
              BY <6>1 DEF ReadPage
            <6>2. CASE ReadFailed
              BY <6>2 DEF ReadFailed
            <6>3. QED
              BY <2>2, <6>1, <6>2
          <5>2. QED
            BY <5>1 DEF Reads
        <4>2. Head(file) \in TaggedToken
          BY <4>1 DEF TrackInv, PagesTagged
        <4>3. QED
          BY <4>1, <4>2 DEF TaggedToken
      <3>2. \/ event_parsers' = [event_parsers EXCEPT ![x] = WithPage(Named(@, page), page)]
            \/ event_parsers' = [event_parsers EXCEPT ![x].missed_events = Append(@, page)]
        <4>1. CASE ReadPage
          BY <4>1 DEF ReadPage
        <4>2. CASE ReadFailed
          BY <4>2 DEF ReadFailed
        <4>3. QED
          BY <2>2, <4>1, <4>2
      <3> HIDE DEF page
      <3>3. ASSUME x \in Ord
            PROVE  /\ WithPage(Named(event_parsers[x], page), page) \in Parser(x)
                   /\ [event_parsers[x] EXCEPT !.missed_events = Append(@, page)] \in Parser(x)
        BY <3>1, <3>3, PageToParser
      <3> HIDE DEF x
      <3>4. event_parsers' = [o \in Ord |-> event_parsers'[o]]
        BY <1>6, <3>2
      <3>5. ASSUME NEW o \in Ord PROVE event_parsers'[o] \in Parser(o)
        <4>1. CASE o = x
          BY <1>6, <3>2, <3>3, <4>1
        <4>2. CASE o # x
          <5>1. event_parsers'[o] = event_parsers[o]
            BY <1>6, <3>2, <4>2
          <5>2. QED
            BY <1>6, <5>1
        <4>3. QED
          BY <4>1, <4>2
      <3>6. QED
        BY <3>4, <3>5
    <2>3. QED
      BY <2>1, <2>2
  <1>8. ParsersTagged'
    BY <1>1, <1>2, <1>7 DEF ParsersTagged
  <1>9. QED
    BY <1>3, <1>4, <1>5, <1>8

(* parse_and_save puts all the pages of an ord id on one track.              *)
LEMMA ParseTracks ==
  ASSUME TrackInv, ParseThread \/ Save \/ UNCHANGED vars
  PROVE  OrdsApart' /\ PagesTagged' /\ ParsersTagged' /\ TraceTagged'
  <1>1. /\ UNCHANGED <<threadVars, storeVars, file, event_parsers>>
        /\ phase' = "wait" => phase = "wait"
    BY DEF ParseThread, Save, vars, parserVars
  <1>2. /\ TaggedPage' = TaggedPage /\ TaggedToken' = TaggedToken /\ Used' = Used
        /\ \A o : Parser(o)' = Parser(o)
    BY <1>1, SameIds DEF threadVars
  <1>3. OrdsApart'
    BY <1>1, <1>2 DEF TrackInv, OrdsApart, threadVars
  <1>4. PagesTagged'
    BY <1>1, <1>2 DEF TrackInv, PagesTagged, storeVars
  <1>5. ParsersTagged'
    BY <1>1, <1>2 DEF TrackInv, ParsersTagged
  <1>6. Entry' = Entry
    <2>1. \A o : TrackOf(o)' = TrackOf(o)
      BY <1>1 DEF TrackOf
    <2>2. QED
      BY <1>2, <2>1 DEF Entry
  <1>7. trace \in Seq(Entry) /\ (phase \in {"wait", "decode"} => trace = <<>>)
    BY DEF TrackInv, TraceTagged
  <1>8. CASE ParseThread
    <2> DEFINE shown == event_parsers[next].event_buf
               more  == [i \in 1..Len(shown) |-> [track |-> TrackOf(next), page |-> shown[i]]]
    <2>1. next \in Ord /\ phase = "parse" /\ phase' = phase /\ trace' = trace \o more
      BY <1>8 DEF ParseThread
    <2>2. shown \in Seq(PagesOf(next))
      <3>1. event_parsers[next] \in Parser(next)
        BY <2>1 DEF TrackInv, ParsersTagged
      <3>2. QED
        BY <3>1 DEF Parser
    <2>3. ASSUME NEW i \in 1..Len(shown)
          PROVE  [track |-> TrackOf(next), page |-> shown[i]] \in Entry
      <3>1. PICK p \in PagesOf(next) : p = shown[i]
        BY <2>2
      <3>2. p \in TaggedPage /\ p.thread_ord_id = next
        BY DEF PagesOf
      <3>3. QED
        BY <2>1, <3>1, <3>2 DEF Entry
    <2>4. more \in Seq(Entry)
      <3>1. Len(shown) \in Nat
        BY <2>2
      <3>2. QED
        BY <2>3, <3>1
    <2> HIDE DEF more
    <2>5. trace' \in Seq(Entry)
      BY <1>7, <2>1, <2>4
    <2>6. TraceTagged'
      BY <1>6, <2>1, <2>5 DEF TraceTagged
    <2>7. QED
      BY <1>3, <1>4, <1>5, <2>6
  <1>9. CASE Save \/ UNCHANGED vars
    <2>1. trace' = trace /\ phase' \in {phase, "saved"}
      BY <1>9 DEF Save, vars, traceVars
    <2>2. TraceTagged'
      BY <1>6, <1>7, <2>1 DEF TraceTagged
    <2>3. QED
      BY <1>3, <1>4, <1>5, <2>2
  <1>10. QED
    BY <1>8, <1>9

LEMMA NextTracks == TrackInv /\ [Next]_vars => TrackInv'
  <1> SUFFICES ASSUME TrackInv, [Next]_vars PROVE TrackInv'
    OBVIOUS
  <1>1. StreamInv'
    BY NextStream DEF TrackInv
  <1>2. OrdsApart' /\ PagesTagged' /\ ParsersTagged' /\ TraceTagged'
    BY ThreadTracks, SenderTracks, ReaderTracks, ParseTracks DEF Next, Done
  <1>3. QED
    BY <1>1, <1>2 DEF TrackInv

LEMMA TrackInvApart == TrackInv => TracksAreThreads
  <1> SUFFICES ASSUME TrackInv, IdsApart, NEW i \in 1..Len(trace), NEW j \in 1..Len(trace)
               PROVE  (trace[i].track = trace[j].track)
                        = (trace[i].page.thread = trace[j].page.thread)
    BY DEF TracksAreThreads
  <1>1. ASSUME NEW k \in 1..Len(trace)
        PROVE  /\ trace[k].page.thread \in Used
               /\ trace[k].track = TrackOf(ord[trace[k].page.thread])
               /\ trace[k].track \in {tid[trace[k].page.thread], ord[trace[k].page.thread]}
    <2>1. trace[k] \in Entry
      BY DEF TrackInv, TraceTagged
    <2>2. PICK p \in TaggedPage : /\ p.thread_ord_id \in Ord
                                  /\ trace[k] = [track |-> TrackOf(p.thread_ord_id), page |-> p]
      BY <2>1 DEF Entry
    <2>3. /\ p.thread \in Used /\ p.thread_ord_id = ord[p.thread]
          /\ trace[k].page = p /\ trace[k].track = TrackOf(ord[p.thread])
      BY <2>2, PageFields DEF TaggedPage, Used
    <2>4. event_parsers[ord[p.thread]].thread_id \in TidsOf(ord[p.thread])
      BY <2>2, <2>3 DEF TrackInv, ParsersTagged, Parser
    <2>5. TidsOf(ord[p.thread]) \subseteq {NoTid, tid[p.thread]}
      BY <2>3 DEF TidsOf, TrackInv, OrdsApart, Used
    <2>6. QED
      BY <2>3, <2>4, <2>5 DEF TrackOf
  <1>2. CASE trace[i].page.thread = trace[j].page.thread
    BY <1>1, <1>2
  <1>3. CASE trace[i].page.thread # trace[j].page.thread
    <2>1. PICK t \in Used, u \in Used : t = trace[i].page.thread /\ u = trace[j].page.thread
      BY <1>1
    <2>2. tid[t] # tid[u] /\ tid[t] # ord[u] /\ tid[u] # ord[t]
      BY <1>3, <2>1 DEF IdsApart
    <2>3. ord[t] # ord[u]
      BY <1>3, <2>1 DEF TrackInv, OrdsApart, Used
    <2>4. trace[i].track \in {tid[t], ord[t]} /\ trace[j].track \in {tid[u], ord[u]}
      BY <1>1, <2>1
    <2>5. QED
      BY <1>3, <2>2, <2>3, <2>4
  <1>4. QED
    BY <1>2, <1>3

(***************************************************************************)
(* For any number of threads and pages, whichever of them cleanup dropped  *)
(* and whichever of them brought a name, two threads never share a track   *)
(* and no thread has two, as long as the ids are apart.                    *)
(***************************************************************************)
THEOREM TracksApart == Spec => []TracksAreThreads
  <1>1. QED
    BY InitTracks, NextTracks, TrackInvApart, PTL DEF Spec
-----------------------------------------------------------------------------
(* Ord ids are as many as threads that have one, so that each has a parser.  *)
OrdsCounted == CUR_THREAD_ID = Cardinality(Used) + 1

LEMMA OrdsBounded ==
  ASSUME TrackInv, OrdsCounted
  PROVE  /\ Cardinality(Thread) \in Nat /\ CUR_THREAD_ID \in 1..(Cardinality(Thread) + 1)
         /\ \A t \in Used : ord[t] \in Ord
         /\ \A t \in Thread : ord[t] \in 0..Cardinality(Thread)
         /\ \A t \in Thread : t \notin Used => CUR_THREAD_ID \in Ord
  <1>1. Used \subseteq Thread /\ IsFiniteSet(Thread)
    BY ReaderTyped DEF Used
  <1>2. /\ IsFiniteSet(Used) /\ Cardinality(Used) =< Cardinality(Thread)
        /\ Cardinality(Thread) \in Nat /\ Cardinality(Used) \in Nat
    BY <1>1, FS_Subset, FS_CardinalityType
  <1>3. CUR_THREAD_ID \in 1..(Cardinality(Thread) + 1)
    BY <1>2 DEF OrdsCounted
  <1>4. ASSUME NEW t \in Used PROVE ord[t] \in Ord
    <2>1. ord[t] \in Nat /\ ord[t] # 0 /\ ord[t] < CUR_THREAD_ID
      BY DEF TrackInv, StreamInv, ThreadsTyped, OrdsApart, Used
    <2>2. QED
      BY <1>2, <1>3, <2>1 DEF Ord
  <1>5. ASSUME NEW t \in Thread PROVE ord[t] \in 0..Cardinality(Thread)
    <2>1. CASE t \in Used
      BY <1>2, <1>4, <2>1 DEF Ord
    <2>2. CASE t \notin Used
      BY <1>2, <2>2 DEF Used
    <2>3. QED
      BY <2>1, <2>2
  <1>6. ASSUME NEW t \in Thread, t \notin Used PROVE CUR_THREAD_ID \in Ord
    <2>1. /\ IsFiniteSet(Used \cup {t}) /\ Cardinality(Used \cup {t}) = Cardinality(Used) + 1
      BY <1>2, <1>6, FS_AddElement
    <2>2. Used \cup {t} \subseteq Thread
      BY <1>1
    <2>3. Cardinality(Used \cup {t}) =< Cardinality(Thread)
      BY <1>1, <2>2, FS_Subset
    <2>4. QED
      BY <1>2, <2>1, <2>3 DEF OrdsCounted, Ord
  <1>7. QED
    BY <1>2, <1>3, <1>4, <1>5, <1>6

LEMMA InitCounted == Init => OrdsCounted
  <1> SUFFICES ASSUME Init PROVE OrdsCounted
    OBVIOUS
  <1>1. Used = {} /\ CUR_THREAD_ID = 1
    BY DEF Init, Used
  <1>2. QED
    BY <1>1, FS_EmptySet DEF OrdsCounted

LEMMA NextCounted ==
  ASSUME TrackInv, OrdsCounted, [Next]_vars
  PROVE  OrdsCounted'
  <1>1. ASSUME NEW t \in Thread, FirstEvent(t) PROVE OrdsCounted'
    <2>1. /\ ord' = [ord EXCEPT ![t] = CUR_THREAD_ID] /\ ord[t] = 0
          /\ CUR_THREAD_ID' = CUR_THREAD_ID + 1
      BY <1>1 DEF FirstEvent
    <2>2. ord \in [Thread -> Nat] /\ CUR_THREAD_ID > 0
      BY DEF TrackInv, StreamInv, ThreadsTyped, OrdsApart
    <2>3. Used' = Used \cup {t} /\ t \notin Used
      BY <2>1, <2>2 DEF Used
    <2>4. IsFiniteSet(Used)
      BY ReaderTyped, FS_Subset DEF Used
    <2>5. Cardinality(Used') = Cardinality(Used) + 1 /\ Cardinality(Used) \in Nat
      BY <2>3, <2>4, FS_AddElement, FS_CardinalityType
    <2>6. QED
      BY <2>1, <2>5 DEF OrdsCounted
  <1>2. CASE UNCHANGED <<ord, CUR_THREAD_ID>>
    BY <1>2 DEF OrdsCounted, Used
  <1>3. CASE \E t \in Thread : set_cur_thread_name(t) \/ Flush(t)
    BY <1>2, <1>3 DEF set_cur_thread_name, Flush
  <1>4. CASE DropOldest \/ SenderRound \/ SenderFreq \/ SenderEnd \/ CutOff
    BY <1>2, <1>4 DEF DropOldest, SenderRound, SenderFreq, SenderEnd, CutOff, threadVars
  <1>5. CASE ReadInfo \/ ReadData \/ ReadPage \/ ReadFailed \/ ReadFreq \/ ReadEnd
    BY <1>2, <1>5 DEF ReadInfo, ReadData, ReadPage, ReadFailed, ReadFreq, ReadEnd, Reads,
                      threadVars
  <1>6. CASE ReadFails \/ ParseThread \/ Save \/ UNCHANGED vars
    BY <1>2, <1>6 DEF ReadFails, ParseThread, Save, vars, threadVars
  <1>7. QED
    BY <1>1, <1>3, <1>4, <1>5, <1>6 DEF Next, Done
-----------------------------------------------------------------------------
(* The pages of thread t among the tokens f, and their order.                *)
Pages(f, type, t) ==
  {f[i].page : i \in {j \in 1..Len(f) : f[j].type = type /\ f[j].page.thread = t}}

IsPage(k, t) == k.type = "page" /\ k.page.thread = t

Ascending(f, t) ==
  \A i, j \in 1..Len(f) :
    i < j /\ IsPage(f[i], t) /\ IsPage(f[j], t) => f[i].page.no < f[j].page.no

Below(S, T) == \A p \in S, q \in T : p.no < q.no

LEMMA Parts ==
  ASSUME NEW S, NEW f \in Seq(S), NEW g \in Seq(S)
  PROVE  /\ f \o g \in Seq(S) /\ Len(f \o g) = Len(f) + Len(g) /\ Len(f) \in Nat /\ Len(g) \in Nat
         /\ \A i \in 1..Len(f) : (f \o g)[i] = f[i]
         /\ \A i \in 1..Len(g) : (f \o g)[Len(f) + i] = g[i]
         /\ \A i \in 1..Len(f \o g) : i > Len(f) => /\ i - Len(f) \in 1..Len(g)
                                                    /\ (f \o g)[i] = g[i - Len(f)]
  <1>1. /\ f \o g \in Seq(S) /\ Len(f \o g) = Len(f) + Len(g) /\ Len(f) \in Nat /\ Len(g) \in Nat
    OBVIOUS
  <1>2. \A i \in 1..Len(f) : (f \o g)[i] = f[i]
    OBVIOUS
  <1>3. \A i \in 1..Len(g) : (f \o g)[Len(f) + i] = g[i]
    OBVIOUS
  <1>4. \A i \in 1..Len(f \o g) : i > Len(f) => /\ i - Len(f) \in 1..Len(g)
                                                /\ (f \o g)[i] = g[i - Len(f)]
    OBVIOUS
  <1>5. QED
    BY <1>1, <1>2, <1>3, <1>4

LEMMA PagesConcat ==
  ASSUME NEW f \in Seq(Token), NEW g \in Seq(Token), NEW type, NEW t
  PROVE  Pages(f \o g, type, t) = Pages(f, type, t) \cup Pages(g, type, t)
  <1> DEFINE h == f \o g
  <1>1. /\ Len(h) = Len(f) + Len(g) /\ Len(f) \in Nat /\ Len(g) \in Nat
        /\ \A i \in 1..Len(f) : h[i] = f[i]
        /\ \A i \in 1..Len(g) : h[Len(f) + i] = g[i]
        /\ \A i \in 1..Len(h) : i > Len(f) => i - Len(f) \in 1..Len(g) /\ h[i] = g[i - Len(f)]
    BY Parts
  <1> HIDE DEF h
  <1>2. ASSUME NEW p \in Pages(h, type, t) PROVE p \in Pages(f, type, t) \cup Pages(g, type, t)
    <2>1. PICK i \in 1..Len(h) : h[i].type = type /\ h[i].page.thread = t /\ p = h[i].page
      BY DEF Pages
    <2>2. CASE i \in 1..Len(f)
      <3>1. h[i] = f[i]
        BY <1>1, <2>2
      <3>2. QED
        BY <2>1, <2>2, <3>1 DEF Pages
    <2>3. CASE i > Len(f)
      <3>1. i - Len(f) \in 1..Len(g) /\ h[i] = g[i - Len(f)]
        BY <1>1, <2>3
      <3>2. QED
        BY <2>1, <3>1 DEF Pages
    <2>4. QED
      BY <1>1, <2>2, <2>3
  <1>3. ASSUME NEW p \in Pages(f, type, t) PROVE p \in Pages(h, type, t)
    <2>1. PICK i \in 1..Len(f) : f[i].type = type /\ f[i].page.thread = t /\ p = f[i].page
      BY DEF Pages
    <2>2. i \in 1..Len(h) /\ h[i] = f[i]
      BY <1>1
    <2>3. QED
      BY <2>1, <2>2 DEF Pages
  <1>4. ASSUME NEW p \in Pages(g, type, t) PROVE p \in Pages(h, type, t)
    <2>1. PICK i \in 1..Len(g) : g[i].type = type /\ g[i].page.thread = t /\ p = g[i].page
      BY DEF Pages
    <2>2. Len(f) + i \in 1..Len(h) /\ h[Len(f) + i] = g[i]
      BY <1>1
    <2>3. QED
      BY <2>1, <2>2 DEF Pages
  <1>5. QED
    BY <1>2, <1>3, <1>4 DEF h

LEMMA AscendingConcat ==
  ASSUME NEW f \in Seq(Token), NEW g \in Seq(Token), NEW t
  PROVE  Ascending(f \o g, t) <=>
           /\ Ascending(f, t) /\ Ascending(g, t)
           /\ Below(Pages(f, "page", t), Pages(g, "page", t))
  <1> DEFINE h == f \o g
  <1>1. /\ Len(h) = Len(f) + Len(g) /\ Len(f) \in Nat /\ Len(g) \in Nat
        /\ \A i \in 1..Len(f) : h[i] = f[i]
        /\ \A i \in 1..Len(g) : h[Len(f) + i] = g[i]
        /\ \A i \in 1..Len(h) : i > Len(f) => i - Len(f) \in 1..Len(g) /\ h[i] = g[i - Len(f)]
    BY Parts
  <1> HIDE DEF h
  <1>2. ASSUME Ascending(h, t)
        PROVE  /\ Ascending(f, t) /\ Ascending(g, t)
               /\ Below(Pages(f, "page", t), Pages(g, "page", t))
    <2>1. Ascending(f, t)
      <3> SUFFICES ASSUME NEW i \in 1..Len(f), NEW j \in 1..Len(f), i < j,
                          IsPage(f[i], t), IsPage(f[j], t)
                   PROVE  f[i].page.no < f[j].page.no
        BY DEF Ascending
      <3>1. i \in 1..Len(h) /\ j \in 1..Len(h) /\ h[i] = f[i] /\ h[j] = f[j]
        BY <1>1
      <3>2. QED
        BY <1>2, <3>1 DEF Ascending
    <2>2. Ascending(g, t)
      <3> SUFFICES ASSUME NEW i \in 1..Len(g), NEW j \in 1..Len(g), i < j,
                          IsPage(g[i], t), IsPage(g[j], t)
                   PROVE  g[i].page.no < g[j].page.no
        BY DEF Ascending
      <3> DEFINE k == Len(f) + i
                 l == Len(f) + j
      <3>1. k \in 1..Len(h) /\ l \in 1..Len(h) /\ k < l /\ h[k] = g[i] /\ h[l] = g[j]
        BY <1>1
      <3> HIDE DEF k, l
      <3>2. QED
        BY <1>2, <3>1 DEF Ascending
    <2>3. ASSUME NEW p \in Pages(f, "page", t), NEW q \in Pages(g, "page", t)
          PROVE  p.no < q.no
      <3>1. PICK i \in 1..Len(f) : IsPage(f[i], t) /\ p = f[i].page
        BY DEF Pages, IsPage
      <3>2. PICK j \in 1..Len(g) : IsPage(g[j], t) /\ q = g[j].page
        BY DEF Pages, IsPage
      <3> DEFINE l == Len(f) + j
      <3>3. i \in 1..Len(h) /\ l \in 1..Len(h) /\ i < l /\ h[i] = f[i] /\ h[l] = g[j]
        BY <1>1
      <3> HIDE DEF l
      <3>4. QED
        BY <1>2, <3>1, <3>2, <3>3 DEF Ascending
    <2>4. QED
      BY <2>1, <2>2, <2>3 DEF Below
  <1>3. ASSUME Ascending(f, t), Ascending(g, t),
               Below(Pages(f, "page", t), Pages(g, "page", t))
        PROVE  Ascending(h, t)
    <2> SUFFICES ASSUME NEW i \in 1..Len(h), NEW j \in 1..Len(h), i < j,
                        IsPage(h[i], t), IsPage(h[j], t)
                 PROVE  h[i].page.no < h[j].page.no
      BY DEF Ascending
    <2>1. CASE j =< Len(f)
      <3>1. i \in 1..Len(f) /\ j \in 1..Len(f) /\ h[i] = f[i] /\ h[j] = f[j]
        BY <1>1, <2>1
      <3>2. QED
        BY <1>3, <3>1 DEF Ascending
    <2>2. CASE i > Len(f)
      <3>1. /\ i - Len(f) \in 1..Len(g) /\ h[i] = g[i - Len(f)]
            /\ j - Len(f) \in 1..Len(g) /\ h[j] = g[j - Len(f)] /\ i - Len(f) < j - Len(f)
        BY <1>1, <2>2
      <3>2. QED
        BY <1>3, <3>1 DEF Ascending
    <2>3. CASE i =< Len(f) /\ j > Len(f)
      <3>1. i \in 1..Len(f) /\ h[i] = f[i] /\ j - Len(f) \in 1..Len(g) /\ h[j] = g[j - Len(f)]
        BY <1>1, <2>3
      <3>2. h[i].page \in Pages(f, "page", t) /\ h[j].page \in Pages(g, "page", t)
        BY <3>1 DEF Pages, IsPage
      <3>3. QED
        BY <1>3, <3>2 DEF Below
    <2>4. QED
      BY <1>1, <2>1, <2>2, <2>3
  <1>4. QED
    BY <1>2, <1>3 DEF h

LEMMA PagesOfOne ==
  ASSUME NEW k \in Token, NEW t
  PROVE  /\ <<k>> \in Seq(Token) /\ Ascending(<<k>>, t)
         /\ \A type : Pages(<<k>>, type, t) =
                        IF k.type = type /\ k.page.thread = t THEN {k.page} ELSE {}
  <1> DEFINE f == <<k>>
  <1>1. f \in Seq(Token) /\ Len(f) = 1 /\ f[1] = k
    OBVIOUS
  <1> HIDE DEF f
  <1>2. Ascending(f, t)
    BY <1>1 DEF Ascending
  <1>3. ASSUME NEW type
        PROVE  Pages(f, type, t) = IF k.type = type /\ k.page.thread = t THEN {k.page} ELSE {}
    <2>1. \A i \in 1..Len(f) : i = 1 /\ f[i] = k
      BY <1>1
    <2>2. 1 \in 1..Len(f)
      BY <1>1
    <2>3. CASE k.type = type /\ k.page.thread = t
      BY <2>1, <2>2, <2>3 DEF Pages
    <2>4. CASE ~(k.type = type /\ k.page.thread = t)
      BY <2>1, <2>4 DEF Pages
    <2>5. QED
      BY <2>3, <2>4
  <1>4. QED
    BY <1>1, <1>2, <1>3 DEF f

LEMMA PagesOfNone ==
  ASSUME NEW t
  PROVE  /\ <<>> \in Seq(Token) /\ Ascending(<<>>, t) /\ \A type : Pages(<<>>, type, t) = {}
  <1>1. \A i \in 1..Len(<<>>) : FALSE
    OBVIOUS
  <1>2. <<>> \in Seq(Token)
    OBVIOUS
  <1>3. QED
    BY <1>1, <1>2 DEF Ascending, Pages

(* The first of the tokens and the rest.                                     *)
LEMMA HeadAndTail ==
  ASSUME NEW f \in Seq(Token), f # <<>>
  PROVE  Head(f) \in Token /\ Tail(f) \in Seq(Token) /\ f = <<Head(f)>> \o Tail(f)
  <1>1. Head(f) \in Token /\ Tail(f) \in Seq(Token)
    OBVIOUS
  <1>2. f = <<Head(f)>> \o Tail(f)
    OBVIOUS
  <1>3. QED
    BY <1>1, <1>2

LEMMA PagesTail ==
  ASSUME NEW f \in Seq(Token), f # <<>>, NEW t
  PROVE  /\ Tail(f) \in Seq(Token)
         /\ \A type : Pages(f, type, t) =
              Pages(Tail(f), type, t)
                \cup (IF Head(f).type = type /\ Head(f).page.thread = t THEN {Head(f).page} ELSE {})
         /\ Ascending(f, t) =>
              /\ Ascending(Tail(f), t)
              /\ IsPage(Head(f), t) => Below({Head(f).page}, Pages(Tail(f), "page", t))
  <1>1. Head(f) \in Token /\ Tail(f) \in Seq(Token) /\ f = <<Head(f)>> \o Tail(f)
    BY HeadAndTail
  <1>2. /\ <<Head(f)>> \in Seq(Token)
        /\ \A type : Pages(<<Head(f)>>, type, t) =
                       IF Head(f).type = type /\ Head(f).page.thread = t THEN {Head(f).page} ELSE {}
    BY <1>1, PagesOfOne
  <1>3. \A type : Pages(f, type, t) = Pages(<<Head(f)>>, type, t) \cup Pages(Tail(f), type, t)
    <2> TAKE type
    <2> DEFINE first == <<Head(f)>>
    <2>1. Pages(first \o Tail(f), type, t) = Pages(first, type, t) \cup Pages(Tail(f), type, t)
      <3>1. first \in Seq(Token)
        BY <1>2
      <3> HIDE DEF first
      <3>2. PICK rest \in Seq(Token) : rest = Tail(f)
        BY <1>1
      <3>3. Pages(first \o rest, type, t) = Pages(first, type, t) \cup Pages(rest, type, t)
        BY <3>1, PagesConcat
      <3>4. QED
        BY <3>2, <3>3
    <2>2. QED
      BY <1>1, <2>1
  <1>4. Ascending(f, t) => /\ Ascending(Tail(f), t)
                           /\ Below(Pages(<<Head(f)>>, "page", t), Pages(Tail(f), "page", t))
    <2>1. Ascending(<<Head(f)>> \o Tail(f), t) =>
            /\ Ascending(Tail(f), t)
            /\ Below(Pages(<<Head(f)>>, "page", t), Pages(Tail(f), "page", t))
      BY <1>1, <1>2, AscendingConcat
    <2>2. QED
      BY <1>1, <2>1
  <1>5. IsPage(Head(f), t) => Pages(<<Head(f)>>, "page", t) = {Head(f).page}
    BY <1>2 DEF IsPage
  <1>6. \A type : Pages(f, type, t) =
          Pages(Tail(f), type, t)
            \cup (IF Head(f).type = type /\ Head(f).page.thread = t THEN {Head(f).page} ELSE {})
    BY <1>2, <1>3
  <1>7. QED
    BY <1>1, <1>4, <1>5, <1>6

(* A sequence of pages as tokens.                                            *)
LEMMA TokensAppend ==
  ASSUME NEW type \in {"page", "failed"}, NEW s \in Seq(Page), NEW p \in Page
  PROVE  /\ [type |-> type, page |-> p] \in Token
         /\ Tokens(type, Append(s, p)) = Tokens(type, s) \o <<[type |-> type, page |-> p]>>
  <1> DEFINE k == [type |-> type, page |-> p]
             f == Tokens(type, s)
             g == Tokens(type, Append(s, p))
  <1>1. k \in Token
    BY DEF Token
  <1>2. f \in Seq(Token) /\ Len(f) = Len(s) /\ Len(s) \in Nat
        /\ \A i \in 1..Len(s) : f[i] = [type |-> type, page |-> s[i]]
    BY TokensType DEF Tokens
  <1>3. /\ Append(s, p) \in Seq(Page) /\ Len(Append(s, p)) = Len(s) + 1
        /\ \A i \in 1..Len(s) : Append(s, p)[i] = s[i]
        /\ Append(s, p)[Len(s) + 1] = p
    OBVIOUS
  <1>4. g \in Seq(Token) /\ Len(g) = Len(s) + 1
        /\ \A i \in 1..(Len(s) + 1) : g[i] = [type |-> type, page |-> Append(s, p)[i]]
    <2>1. PICK all \in Seq(Page) : all = Append(s, p)
      BY <1>3
    <2>2. Tokens(type, all) \in Seq(Token) /\ Len(Tokens(type, all)) = Len(all)
      BY TokensType
    <2>3. \A i \in 1..Len(all) : Tokens(type, all)[i] = [type |-> type, page |-> all[i]]
      BY DEF Tokens
    <2>4. QED
      BY <1>3, <2>1, <2>2, <2>3
  <1> HIDE DEF f, g, k
  <1>5. f \o <<k>> \in Seq(Token) /\ Len(f \o <<k>>) = Len(s) + 1
        /\ \A i \in 1..Len(s) : (f \o <<k>>)[i] = f[i]
        /\ (f \o <<k>>)[Len(s) + 1] = k
    BY <1>1, <1>2
  <1>6. ASSUME NEW i \in 1..(Len(s) + 1) PROVE g[i] = (f \o <<k>>)[i]
    <2>1. CASE i \in 1..Len(s)
      BY <1>2, <1>3, <1>4, <1>5, <2>1
    <2>2. CASE i = Len(s) + 1
      BY <1>3, <1>4, <1>5, <2>2 DEF k
    <2>3. QED
      BY <1>2, <2>1, <2>2
  <1>7. g = f \o <<k>>
    <2>1. g = [i \in 1..(Len(s) + 1) |-> g[i]]
      BY <1>4
    <2>2. f \o <<k>> = [i \in 1..(Len(s) + 1) |-> (f \o <<k>>)[i]]
      BY <1>5
    <2>3. QED
      BY <1>6, <2>1, <2>2
  <1>8. QED
    BY <1>1, <1>7 DEF f, g, k

LEMMA TokensTail ==
  ASSUME NEW type \in {"page", "failed"}, NEW s \in Seq(Page), s # <<>>
  PROVE  /\ Tail(s) \in Seq(Page) /\ Head(s) \in Page
         /\ Tokens(type, s) # <<>> /\ Tail(Tokens(type, s)) = Tokens(type, Tail(s))
         /\ Head(Tokens(type, s)) = [type |-> type, page |-> Head(s)]
  <1> DEFINE f == Tokens(type, s)
             g == Tokens(type, Tail(s))
  <1>1. /\ Tail(s) \in Seq(Page) /\ Head(s) \in Page /\ Head(s) = s[1]
        /\ Len(Tail(s)) = Len(s) - 1 /\ Len(s) \in Nat /\ Len(s) > 0
        /\ \A i \in 1..(Len(s) - 1) : Tail(s)[i] = s[i + 1]
    OBVIOUS
  <1>2. f \in Seq(Token) /\ Len(f) = Len(s)
        /\ \A i \in 1..Len(s) : f[i] = [type |-> type, page |-> s[i]]
    BY TokensType DEF Tokens
  <1>3. g \in Seq(Token) /\ Len(g) = Len(s) - 1
        /\ \A i \in 1..(Len(s) - 1) : g[i] = [type |-> type, page |-> Tail(s)[i]]
    BY <1>1, TokensType DEF Tokens
  <1> HIDE DEF f, g
  <1>4. /\ f # <<>> /\ Head(f) = f[1] /\ Tail(f) \in Seq(Token) /\ Len(Tail(f)) = Len(s) - 1
        /\ \A i \in 1..(Len(s) - 1) : Tail(f)[i] = f[i + 1]
    BY <1>1, <1>2
  <1>5. Head(f) = [type |-> type, page |-> Head(s)]
    <2>1. 1 \in 1..Len(s)
      BY <1>1
    <2>2. QED
      BY <1>1, <1>2, <1>4, <2>1
  <1>6. ASSUME NEW i \in 1..(Len(s) - 1) PROVE Tail(f)[i] = g[i]
    <2>1. i + 1 \in 1..Len(s)
      BY <1>1
    <2>2. Tail(f)[i] = f[i + 1]
      BY <1>4
    <2>3. f[i + 1] = [type |-> type, page |-> s[i + 1]]
      BY <1>2, <2>1
    <2>4. g[i] = [type |-> type, page |-> s[i + 1]]
      BY <1>1, <1>3
    <2>5. QED
      BY <2>2, <2>3, <2>4
  <1>7. Tail(f) = g
    <2>1. g = [i \in 1..(Len(s) - 1) |-> g[i]]
      BY <1>3
    <2>2. PICK h \in Seq(Token) : h = Tail(f) /\ Len(h) = Len(s) - 1
      BY <1>4
    <2>3. h = [i \in 1..Len(h) |-> h[i]]
      OBVIOUS
    <2>4. \A i \in 1..(Len(s) - 1) : h[i] = g[i]
      BY <1>6, <2>2
    <2>5. QED
      BY <2>1, <2>2, <2>3, <2>4
  <1>8. QED
    BY <1>1, <1>4, <1>5, <1>7 DEF f, g

LEMMA TokensOfNone == \A type : Tokens(type, <<>>) = <<>>
  BY DEF Tokens

LEMMA OneType ==
  ASSUME NEW type \in {"page", "failed"}, NEW other, other # type, NEW s \in Seq(Page), NEW t
  PROVE  /\ Pages(Tokens(type, s), other, t) = {}
         /\ type = "failed" => Ascending(Tokens(type, s), t)
  <1>1. \A i \in 1..Len(Tokens(type, s)) : Tokens(type, s)[i].type = type
    BY TokensType
  <1>2. QED
    BY <1>1 DEF Pages, Ascending, IsPage

(* Tokens without pages to show make no difference to those beside them.     *)
LEMMA BesideNothing ==
  ASSUME NEW f \in Seq(Token), NEW g \in Seq(Token), NEW t
  PROVE  /\ Pages(f, "page", t) = {} /\ Ascending(f, t) =>
              /\ Pages(f \o g, "page", t) = Pages(g, "page", t)
              /\ Ascending(f \o g, t) <=> Ascending(g, t)
         /\ Pages(g, "page", t) = {} /\ Ascending(g, t) =>
              /\ Pages(f \o g, "page", t) = Pages(f, "page", t)
              /\ Ascending(f \o g, t) <=> Ascending(f, t)
         /\ Pages(f, "failed", t) = {} => Pages(f \o g, "failed", t) = Pages(g, "failed", t)
         /\ Pages(g, "failed", t) = {} => Pages(f \o g, "failed", t) = Pages(f, "failed", t)
  <1>1. \A type : Pages(f \o g, type, t) = Pages(f, type, t) \cup Pages(g, type, t)
    BY PagesConcat
  <1>2. Ascending(f \o g, t) <=> /\ Ascending(f, t) /\ Ascending(g, t)
                                 /\ Below(Pages(f, "page", t), Pages(g, "page", t))
    BY AscendingConcat
  <1>3. /\ Pages(f, "page", t) = {} => Below(Pages(f, "page", t), Pages(g, "page", t))
        /\ Pages(g, "page", t) = {} => Below(Pages(f, "page", t), Pages(g, "page", t))
    BY DEF Below
  <1>4. QED
    BY <1>1, <1>2, <1>3

(* What the sending thread takes from the ring.                              *)
LEMMA PagesTaken ==
  ASSUME NEW out \in Seq(Page), skipped_msr_pages_headers \in Seq(Page), NEW t
  PROVE  /\ Taken(out) \in Seq(Token)
         /\ Pages(Taken(out), "page", t) = Pages(Tokens("page", out), "page", t)
         /\ Pages(Taken(out), "failed", t)
              = Pages(Tokens("failed", skipped_msr_pages_headers), "failed", t)
         /\ Ascending(Taken(out), t) <=> Ascending(Tokens("page", out), t)
  <1> DEFINE head   == [type |-> "data", total |-> Len(out)]
             pages  == Tokens("page", out)
             failed == Tokens("failed", skipped_msr_pages_headers)
             packet == IF out = <<>> THEN <<>> ELSE <<head>> \o pages
  <1>1. pages \in Seq(Token) /\ failed \in Seq(Token)
    BY TokensType
  <1>2. head \in Token /\ head.type = "data"
    BY DEF Token
  <1>3. Taken(out) = packet \o failed
    BY DEF Taken
  <1>4. /\ Pages(pages, "failed", t) = {} /\ Pages(failed, "page", t) = {}
        /\ Ascending(failed, t)
    BY OneType
  <1>5. out = <<>> => pages = <<>>
    BY TokensOfNone
  <1> HIDE DEF head, pages, failed
  <1>6. /\ <<head>> \in Seq(Token) /\ Ascending(<<head>>, t)
        /\ Pages(<<head>>, "page", t) = {} /\ Pages(<<head>>, "failed", t) = {}
    BY <1>2, PagesOfOne
  <1>7. /\ packet \in Seq(Token) /\ Pages(packet, "page", t) = Pages(pages, "page", t)
        /\ Pages(packet, "failed", t) = {} /\ (Ascending(packet, t) <=> Ascending(pages, t))
    <2>1. CASE out = <<>>
      BY <1>1, <1>4, <1>5, <2>1
    <2>2. CASE out # <<>>
      <3>1. packet = <<head>> \o pages /\ packet \in Seq(Token)
        BY <1>1, <1>6, <2>2
      <3>2. /\ Pages(<<head>> \o pages, "page", t) = Pages(pages, "page", t)
            /\ Pages(<<head>> \o pages, "failed", t) = {}
            /\ Ascending(<<head>> \o pages, t) <=> Ascending(pages, t)
        BY <1>1, <1>4, <1>6, BesideNothing
      <3>3. QED
        BY <3>1, <3>2
    <2>3. QED
      BY <2>1, <2>2
  <1> HIDE DEF packet
  <1>8. packet \o failed \in Seq(Token)
    BY <1>1, <1>7
  <1>9. /\ Pages(packet \o failed, "page", t) = Pages(pages, "page", t)
        /\ Pages(packet \o failed, "failed", t) = Pages(failed, "failed", t)
        /\ Ascending(packet \o failed, t) <=> Ascending(pages, t)
    BY <1>1, <1>4, <1>7, BesideNothing
  <1>10. QED
    BY <1>3, <1>8, <1>9 DEF pages, failed
-----------------------------------------------------------------------------
(* The end of the stream.                                                    *)
TypesOf(f) == {f[i].type : i \in 1..Len(f)}

EndsLast(f) == \A i \in 1..Len(f) : f[i].type = "end" => i = Len(f)

(* The stream has its information, and once it is ended a frequency; behind  *)
(* its end there is nothing, neither in the file nor in the ring.            *)
EndInv ==
  /\ encoder_info \/ "info" \in TypesOf(file)
  /\ writer # "ended" => "end" \notin TypesOf(file) /\ phase \notin {"parse", "saved"}
  /\ writer = "ended" => /\ EndsLast(file) /\ (ticks_per_ns \/ "freq" \in TypesOf(file))
                         /\ ring = <<>> /\ skipped_msr_pages_headers = <<>>
                         /\ settled = count
  /\ phase \in {"parse", "saved"} => file = <<>>
  /\ encoder_info \in BOOLEAN /\ ticks_per_ns \in BOOLEAN
  /\ phase \in {"wait", "decode", "parse", "saved", "rejected", "panicked"}

LEMMA TypesConcat ==
  ASSUME NEW f \in Seq(Token), NEW g \in Seq(Token)
  PROVE  TypesOf(f \o g) = TypesOf(f) \cup TypesOf(g)
  <1> DEFINE h == f \o g
  <1>1. /\ Len(h) = Len(f) + Len(g) /\ Len(f) \in Nat /\ Len(g) \in Nat
        /\ \A i \in 1..Len(f) : h[i] = f[i]
        /\ \A i \in 1..Len(g) : h[Len(f) + i] = g[i]
        /\ \A i \in 1..Len(h) : i > Len(f) => i - Len(f) \in 1..Len(g) /\ h[i] = g[i - Len(f)]
    BY Parts
  <1> HIDE DEF h
  <1>2. \A i \in 1..Len(f) : i \in 1..Len(h)
    BY <1>1
  <1>3. \A i \in 1..Len(g) : Len(f) + i \in 1..Len(h)
    BY <1>1
  <1>4. \A i \in 1..Len(h) : i \in 1..Len(f) \/ i > Len(f)
    BY <1>1
  <1>5. TypesOf(f) \subseteq TypesOf(h)
    BY <1>1, <1>2 DEF TypesOf
  <1>6. TypesOf(g) \subseteq TypesOf(h)
    BY <1>1, <1>3 DEF TypesOf
  <1>7. TypesOf(h) \subseteq TypesOf(f) \cup TypesOf(g)
    <2>1. ASSUME NEW i \in 1..Len(h) PROVE h[i].type \in TypesOf(f) \cup TypesOf(g)
      <3>1. CASE i \in 1..Len(f)
        <4>1. h[i] = f[i]
          BY <1>1, <3>1
        <4>2. QED
          BY <3>1, <4>1 DEF TypesOf
      <3>2. CASE i > Len(f)
        <4>1. i - Len(f) \in 1..Len(g) /\ h[i] = g[i - Len(f)]
          BY <1>1, <3>2
        <4>2. QED
          BY <4>1 DEF TypesOf
      <3>3. QED
        BY <1>4, <3>1, <3>2
    <2>2. QED
      BY <2>1 DEF TypesOf
  <1>8. QED
    BY <1>5, <1>6, <1>7 DEF h

LEMMA TypesOfOne == ASSUME NEW k \in Token PROVE TypesOf(<<k>>) = {k.type}
  <1>1. Len(<<k>>) = 1 /\ <<k>>[1] = k
    OBVIOUS
  <1>2. QED
    BY <1>1 DEF TypesOf

LEMMA TypesTail ==
  ASSUME NEW f \in Seq(Token), f # <<>>
  PROVE  /\ TypesOf(f) = {Head(f).type} \cup TypesOf(Tail(f))
         /\ EndsLast(f) => EndsLast(Tail(f)) /\ (Head(f).type = "end" => Tail(f) = <<>>)
  <1>1. Head(f) \in Token /\ Tail(f) \in Seq(Token) /\ f = <<Head(f)>> \o Tail(f)
    BY HeadAndTail
  <1>2. TypesOf(f) = {Head(f).type} \cup TypesOf(Tail(f))
    <2> DEFINE first == <<Head(f)>>
    <2>1. first \in Seq(Token) /\ TypesOf(first) = {Head(f).type}
      BY <1>1, TypesOfOne
    <2> HIDE DEF first
    <2>2. PICK rest \in Seq(Token) : rest = Tail(f)
      BY <1>1
    <2>3. TypesOf(first \o rest) = TypesOf(first) \cup TypesOf(rest)
      BY <2>1, TypesConcat
    <2>4. QED
      BY <1>1, <2>1, <2>2, <2>3 DEF first
  <1> DEFINE h == Tail(f)
  <1>3. /\ Len(h) = Len(f) - 1 /\ Len(f) \in Nat /\ Len(f) > 0 /\ Head(f) = f[1]
        /\ \A i \in 1..(Len(f) - 1) : h[i] = f[i + 1]
    OBVIOUS
  <1>4. h \in Seq(Token)
    BY <1>1
  <1> HIDE DEF h
  <1>5. ASSUME EndsLast(f) PROVE EndsLast(h)
    <2> SUFFICES ASSUME NEW i \in 1..Len(h), h[i].type = "end"
                 PROVE  i = Len(h)
      BY DEF EndsLast
    <2>1. i \in 1..(Len(f) - 1) /\ i + 1 \in 1..Len(f) /\ f[i + 1].type = "end"
      BY <1>3
    <2>2. i + 1 = Len(f)
      BY <1>5, <2>1 DEF EndsLast
    <2>3. QED
      BY <1>3, <2>1, <2>2
  <1>6. ASSUME EndsLast(f), Head(f).type = "end" PROVE h = <<>>
    <2>1. 1 \in 1..Len(f) /\ f[1].type = "end"
      BY <1>3, <1>6
    <2>2. 1 = Len(f)
      BY <1>6, <2>1 DEF EndsLast
    <2>3. Len(h) = 0
      <3>1. Len(h) = Len(f) - 1
        BY <1>3
      <3>2. QED
        BY <2>2, <3>1
    <2>4. QED
      BY <1>4, <2>3
  <1>7. QED
    BY <1>2, <1>5, <1>6 DEF h

LEMMA TypesTaken ==
  ASSUME StoreTyped, NEW out \in {ring, <<>>}
  PROVE  Taken(out) \in Seq(Token) /\ "end" \notin TypesOf(Taken(out))
  <1>0. out \in Seq(Page)
    BY OutTyped DEF StoreTyped
  <1>1. Taken(out) \in Seq(Token)
    BY <1>0, TakenFramed DEF StoreTyped
  <1> DEFINE head   == [type |-> "data", total |-> Len(out)]
             pages  == Tokens("page", out)
             failed == Tokens("failed", skipped_msr_pages_headers)
             packet == IF out = <<>> THEN <<>> ELSE <<head>> \o pages
  <1>2. /\ pages \in Seq(Token) /\ \A i \in 1..Len(pages) : pages[i].type = "page"
        /\ failed \in Seq(Token) /\ \A i \in 1..Len(failed) : failed[i].type = "failed"
    BY <1>0, TokensType DEF StoreTyped
  <1>3. head \in Token /\ head.type = "data"
    BY <1>0 DEF Token
  <1>4. Taken(out) = packet \o failed
    BY DEF Taken
  <1> HIDE DEF head, pages, failed
  <1>5. "end" \notin TypesOf(pages) /\ "end" \notin TypesOf(failed)
    BY <1>2 DEF TypesOf
  <1>6. packet \in Seq(Token) /\ "end" \notin TypesOf(packet)
    <2>1. CASE out = <<>>
      BY <2>1 DEF TypesOf
    <2>2. CASE out # <<>>
      <3>1. <<head>> \in Seq(Token) /\ TypesOf(<<head>>) = {head.type}
        BY <1>3, TypesOfOne
      <3>2. TypesOf(<<head>> \o pages) = {head.type} \cup TypesOf(pages)
        BY <1>2, <3>1, TypesConcat
      <3>3. <<head>> \o pages \in Seq(Token)
        BY <1>2, <3>1
      <3>4. QED
        BY <1>3, <1>5, <2>2, <3>2, <3>3
    <2>3. QED
      BY <2>1, <2>2
  <1> HIDE DEF packet
  <1>7. TypesOf(packet \o failed) = TypesOf(packet) \cup TypesOf(failed)
    BY <1>2, <1>6, TypesConcat
  <1>8. QED
    BY <1>1, <1>4, <1>5, <1>6, <1>7

LEMMA InitEnd == Init => EndInv
  <1> SUFFICES ASSUME Init PROVE EndInv
    OBVIOUS
  <1>1. [type |-> "info"] \in Token /\ file = <<[type |-> "info"]>>
    BY DEF Init, Token
  <1>2. TypesOf(file) = {"info"}
    BY <1>1, TypesOfOne
  <1>3. QED
    BY <1>2 DEF Init, EndInv

(* What is written before the end has none.                                  *)
LEMMA SenderEnds ==
  ASSUME StreamInv, EndInv, SenderRound \/ SenderFreq \/ SenderEnd \/ CutOff
  PROVE  EndInv'
  <1> DEFINE freq == [type |-> "freq"]
             end  == [type |-> "end"]
  <1>1. /\ phase = "wait" /\ writer = "writing" /\ file \in Seq(Token)
        /\ UNCHANGED <<encoder_info, ticks_per_ns>>
    BY DEF StreamInv, FileFramed, SenderRound, SenderFreq, SenderEnd, CutOff, parserVars
  <1>2. \A out \in {ring, <<>>} :
          Taken(out) \in Seq(Token) /\ "end" \notin TypesOf(Taken(out))
    BY TypesTaken DEF StreamInv
  <1>3. /\ encoder_info \/ "info" \in TypesOf(file)
        /\ "end" \notin TypesOf(file)
        /\ encoder_info \in BOOLEAN /\ ticks_per_ns \in BOOLEAN
    BY <1>1 DEF EndInv
  <1>4. /\ freq \in Token /\ end \in Token
        /\ TypesOf(<<freq>>) = {"freq"} /\ TypesOf(<<end>>) = {"end"}
    <2>1. freq \in Token /\ end \in Token
      BY DEF Token
    <2>2. QED
      BY <2>1, TypesOfOne
  <1> HIDE DEF freq, end
  <1>5. CASE SenderRound
    <2>1. PICK out \in {ring, <<>>} : file' = file \o Taken(out) /\ UNCHANGED <<writer, phase>>
      BY <1>5 DEF SenderRound, fileVars
    <2>2. TypesOf(file') = TypesOf(file) \cup TypesOf(Taken(out))
      BY <1>1, <1>2, <2>1, TypesConcat
    <2>3. QED
      BY <1>1, <1>2, <1>3, <2>1, <2>2 DEF EndInv
  <1>6. CASE SenderFreq
    <2>1. file' = Append(file, freq) /\ UNCHANGED <<writer, phase>>
      BY <1>6 DEF SenderFreq, fileVars, freq
    <2>2. file' = file \o <<freq>> /\ <<freq>> \in Seq(Token)
      <3>1. file \in Seq(Token) /\ freq \in Token
        BY <1>1, <1>4
      <3>2. Append(file, freq) = file \o <<freq>> /\ <<freq>> \in Seq(Token)
        BY <3>1
      <3>3. QED
        BY <2>1, <3>2
    <2>3. TypesOf(file') = TypesOf(file) \cup {"freq"}
      <3>1. TypesOf(file \o <<freq>>) = TypesOf(file) \cup TypesOf(<<freq>>)
        BY <1>1, <2>2, TypesConcat
      <3>2. QED
        BY <1>4, <2>2, <3>1
    <2>4. QED
      BY <1>1, <1>3, <2>1, <2>3 DEF EndInv
  <1>7. CASE SenderEnd
    <2> DEFINE most == file \o Taken(ring)
               last == <<freq, end>>
    <2>1. /\ file' = most \o last /\ writer' = "ended" /\ phase' = "decode"
          /\ ring' = <<>> /\ skipped_msr_pages_headers' = <<>> /\ settled' = count
          /\ count' = count
      BY <1>1, <1>2, <1>4, <1>7 DEF SenderEnd, LeftBehind, threadVars, freq, end
    <2>2. last \in Seq(Token) /\ Len(last) = 2 /\ last[1] = freq /\ last[2] = end
      BY <1>4
    <2>3. most \in Seq(Token) /\ TypesOf(most) = TypesOf(file) \cup TypesOf(Taken(ring))
      BY <1>1, <1>2, TypesConcat
    <2> HIDE DEF most, last
    <2>4. TypesOf(file') = TypesOf(most) \cup TypesOf(last)
      BY <2>1, <2>2, <2>3, TypesConcat
    <2>5. "freq" \in TypesOf(last)
      BY <2>2 DEF TypesOf, freq
    <2>6. EndsLast(file')
      <3>1. /\ Len(file') = Len(most) + 2 /\ Len(most) \in Nat
            /\ \A i \in 1..Len(most) : file'[i] = most[i]
            /\ file'[Len(most) + 1] = freq
        <4>1. /\ Len(most \o last) = Len(most) + Len(last) /\ Len(most) \in Nat
              /\ \A i \in 1..Len(most) : (most \o last)[i] = most[i]
              /\ \A i \in 1..Len(last) : (most \o last)[Len(most) + i] = last[i]
          <5>1. most \in Seq(Token) /\ last \in Seq(Token)
            BY <2>2, <2>3
          <5>2. QED
            BY <5>1, Parts
        <4>2. 1 \in 1..Len(last)
          BY <2>2
        <4>3. QED
          BY <2>1, <2>2, <4>1, <4>2
      <3>2. \A i \in 1..Len(most) : most[i].type # "end"
        BY <1>2, <1>3, <2>3 DEF TypesOf
      <3>3. \A i \in 1..Len(file') : i \in 1..Len(most) \/ i = Len(most) + 1 \/ i = Len(file')
        BY <3>1
      <3>4. QED
        BY <3>1, <3>2, <3>3 DEF EndsLast, freq
    <2>7. QED
      BY <1>1, <1>3, <2>1, <2>3, <2>4, <2>5, <2>6 DEF EndInv
  <1>8. CASE CutOff
    <2>0. PICK out \in {ring, <<>>} :
            \E n \in 0..Len(Taken(out)) : file' = file \o SubSeq(Taken(out), 1, n)
      BY <1>8 DEF CutOff
    <2>1. PICK n \in 0..Len(Taken(out)) : file' = file \o SubSeq(Taken(out), 1, n)
      BY <2>0
    <2> DEFINE part == SubSeq(Taken(out), 1, n)
    <2>2. /\ part \in Seq(Token)
          /\ \A i \in 1..Len(part) : i \in 1..Len(Taken(out)) /\ part[i] = Taken(out)[i]
      BY <1>2, <2>1
    <2>3. file' = file \o part
      BY <2>1
    <2> HIDE DEF part
    <2>4. "end" \notin TypesOf(part)
      BY <1>2, <2>2 DEF TypesOf
    <2>5. TypesOf(file') = TypesOf(file) \cup TypesOf(part)
      BY <1>1, <2>2, <2>3, TypesConcat
    <2>6. writer' = "cut" /\ phase' = "decode"
      BY <1>8 DEF CutOff
    <2>7. QED
      BY <1>1, <1>3, <2>4, <2>5, <2>6 DEF EndInv
  <1>9. QED
    BY <1>5, <1>6, <1>7, <1>8

(* Every token read is kept in what the parser has, and the end comes last.  *)
LEMMA ReaderEnds ==
  ASSUME StreamInv, EndInv,
         ReadInfo \/ ReadData \/ ReadPage \/ ReadFailed \/ ReadFreq \/ ReadEnd
  PROVE  EndInv'
  <1>1. /\ phase = "decode" /\ file # <<>> /\ file' = Tail(file)
        /\ UNCHANGED <<threadVars, storeVars, fileVars>>
    BY DEF ReadInfo, ReadData, ReadPage, ReadFailed, ReadFreq, ReadEnd, Reads
  <1>2. file \in Seq(Token)
    BY DEF StreamInv, FileFramed
  <1>3. /\ TypesOf(file) = {Head(file).type} \cup TypesOf(file')
        /\ EndsLast(file) => EndsLast(file') /\ (Head(file).type = "end" => file' = <<>>)
    BY <1>1, <1>2, TypesTail
  <1>4. /\ UNCHANGED <<writer, settled, count, ring, skipped_msr_pages_headers>>
    BY <1>1 DEF threadVars, storeVars, fileVars
  <1>5. CASE ReadInfo
    <2>1. Head(file).type = "info" /\ encoder_info' = TRUE /\ UNCHANGED <<phase, ticks_per_ns>>
      BY <1>5 DEF ReadInfo, Reads
    <2>2. QED
      BY <1>1, <1>3, <1>4, <2>1 DEF EndInv
  <1>6. CASE ReadData \/ ReadPage \/ ReadFailed
    <2>1. /\ Head(file).type \in {"data", "page", "failed"}
          /\ UNCHANGED <<phase, encoder_info, ticks_per_ns>>
      BY <1>6 DEF ReadData, ReadPage, ReadFailed, Reads, parserVars
    <2>2. QED
      BY <1>1, <1>3, <1>4, <2>1 DEF EndInv
  <1>7. CASE ReadFreq
    <2>1. Head(file).type = "freq" /\ ticks_per_ns' = TRUE /\ UNCHANGED <<phase, encoder_info>>
      BY <1>7 DEF ReadFreq, Reads
    <2>2. QED
      BY <1>1, <1>3, <1>4, <2>1 DEF EndInv
  <1>8. CASE ReadEnd
    <2>1. /\ Head(file).type = "end" /\ phase' = "parse"
          /\ UNCHANGED <<encoder_info, ticks_per_ns>>
      BY <1>8 DEF ReadEnd, Reads, parserVars
    <2>2. writer = "ended"
      BY <1>3, <2>1 DEF EndInv
    <2>3. QED
      BY <1>1, <1>3, <1>4, <2>1, <2>2 DEF EndInv
  <1>9. QED
    BY <1>5, <1>6, <1>7, <1>8

LEMMA NextEnd ==
  ASSUME StreamInv, EndInv, [Next]_vars
  PROVE  EndInv'
  <1>1. CASE phase = "wait" /\ ((\E t \in Thread : FirstEvent(t) \/ set_cur_thread_name(t)
                                                     \/ Flush(t)) \/ DropOldest)
    <2>1. UNCHANGED <<file, writer, phase, encoder_info, ticks_per_ns>>
      BY <1>1 DEF FirstEvent, set_cur_thread_name, Flush, DropOldest, fileVars, parserVars
    <2>2. writer = "writing" /\ phase = "wait"
      BY <1>1 DEF StreamInv, FileFramed
    <2>3. QED
      BY <2>1, <2>2 DEF EndInv
  <1>2. CASE ReadFails
    <2>1. /\ phase = "decode" /\ phase' \in {"rejected", "panicked"}
          /\ UNCHANGED <<file, writer, settled, count, ring, skipped_msr_pages_headers,
                         encoder_info, ticks_per_ns>>
      BY <1>2 DEF ReadFails, threadVars, storeVars, fileVars, parserVars
    <2>2. QED
      BY <2>1 DEF EndInv
  <1>3. CASE ParseThread \/ Save \/ UNCHANGED vars
    <2>1. /\ phase' = phase \/ (phase = "parse" /\ phase' = "saved")
          /\ UNCHANGED <<file, writer, settled, count, ring, skipped_msr_pages_headers,
                         encoder_info, ticks_per_ns>>
      BY <1>3 DEF ParseThread, Save, vars, threadVars, storeVars, fileVars, parserVars
    <2>2. QED
      BY <2>1 DEF EndInv
  <1>4. QED
    BY <1>1, <1>2, <1>3, SenderEnds, ReaderEnds DEF Next, Done
-----------------------------------------------------------------------------
(***************************************************************************)
(* The pages.  Until a page is shown or missed it is in the ring or among  *)
(* the dropped headers, in the file, or with the parser of its ord id.     *)
(***************************************************************************)
KeptBy(t) == Tokens("page", event_parsers[ord[t]].event_buf)
Stored    == Tokens("page", ring)

Shown(t) == Pages(KeptBy(t), "page", t) \cup Pages(file, "page", t) \cup Pages(Stored, "page", t)

MissedBy(t) == Tokens("failed", event_parsers[ord[t]].missed_events)
Dropped     == Tokens("failed", skipped_msr_pages_headers)

Lost(t) ==
  Pages(MissedBy(t), "failed", t) \cup Pages(file, "failed", t) \cup Pages(Dropped, "failed", t)

Numbers(S) == {p.no : p \in S}

InOrder(t) == Ascending((KeptBy(t) \o file) \o Stored, t)

Accounted(t) ==
  /\ Numbers(Shown(t)) \cap Numbers(Lost(t)) = {}
  /\ Numbers(Shown(t)) \cup Numbers(Lost(t)) = 1..count[t]

(* A page without a name follows one with the same name.                     *)
NamesFollow(t) ==
  /\ \A p, q \in Shown(t) :
       q.no = p.no + 1 /\ q.new_thread_name = NoName => q.renamed = p.renamed
  /\ \A p \in Shown(t) : p.no = 1 => p.new_thread_name # NoName
  /\ new_thread_name[t] = NoName =>
       count[t] # 0 /\ \A p \in Shown(t) : p.no = count[t] => p.renamed = renames[t]

ParserNamed(t) ==
  LET parser == event_parsers[ord[t]]
  IN parser.event_buf # <<>> =>
       \/ Lost(t) # {}
       \/ parser.thread_name = <<t, parser.event_buf[Len(parser.event_buf)].renamed>>

PagesInv ==
  /\ \A t \in Thread : t \notin Used => count[t] = 0 /\ new_thread_name[t] # NoName
  /\ writer # "cut" =>
       \A t \in Used : InOrder(t) /\ Accounted(t) /\ NamesFollow(t) /\ ParserNamed(t)

WholeInv == TrackInv /\ OrdsCounted /\ EndInv /\ PagesInv

LEMMA ParserTyped ==
  ASSUME TrackInv, OrdsCounted, NEW t \in Used
  PROVE  /\ ord[t] \in Ord /\ event_parsers[ord[t]] \in Parser(ord[t])
         /\ event_parsers[ord[t]].event_buf \in Seq(PagesOf(ord[t]))
         /\ event_parsers[ord[t]].event_buf \in Seq(Page)
         /\ event_parsers[ord[t]].missed_events \in Seq(PagesOf(ord[t]))
         /\ event_parsers[ord[t]].missed_events \in Seq(Page)
  <1>1. ord[t] \in Ord
    BY OrdsBounded
  <1>2. event_parsers[ord[t]] \in Parser(ord[t])
    BY <1>1 DEF TrackInv, ParsersTagged
  <1>3. PagesOf(ord[t]) \subseteq Page
    BY DEF PagesOf, TaggedPage
  <1>4. /\ event_parsers[ord[t]].event_buf \in Seq(PagesOf(ord[t]))
        /\ event_parsers[ord[t]].missed_events \in Seq(PagesOf(ord[t]))
    BY <1>2 DEF Parser
  <1>5. QED
    BY <1>1, <1>2, <1>3, <1>4, WiderSeq

LEMMA PlacesTyped ==
  ASSUME TrackInv
  PROVE  /\ file \in Seq(Token) /\ ring \in Seq(Page) /\ skipped_msr_pages_headers \in Seq(Page)
         /\ Stored \in Seq(Token) /\ Dropped \in Seq(Token)
  <1>1. /\ file \in Seq(Token) /\ ring \in Seq(Page) /\ skipped_msr_pages_headers \in Seq(Page)
    BY DEF TrackInv, StreamInv, FileFramed, StoreTyped
  <1>2. QED
    BY <1>1, TokensType DEF Stored, Dropped

LEMMA KeptTyped ==
  ASSUME TrackInv, OrdsCounted, NEW t \in Used
  PROVE  KeptBy(t) \in Seq(Token) /\ MissedBy(t) \in Seq(Token)
  BY ParserTyped, TokensType DEF KeptBy, MissedBy

(* Order, place by place.                                                    *)
LEMMA ThreeAscending ==
  ASSUME NEW f \in Seq(Token), NEW g \in Seq(Token), NEW h \in Seq(Token), NEW t
  PROVE  Ascending((f \o g) \o h, t) <=>
           /\ Ascending(f, t) /\ Ascending(g, t) /\ Ascending(h, t)
           /\ Below(Pages(f, "page", t), Pages(g, "page", t))
           /\ Below(Pages(f, "page", t) \cup Pages(g, "page", t), Pages(h, "page", t))
  <1>1. PICK fg \in Seq(Token) : fg = f \o g
    BY Parts
  <1>2. Ascending(fg \o h, t) <=> /\ Ascending(fg, t) /\ Ascending(h, t)
                                  /\ Below(Pages(fg, "page", t), Pages(h, "page", t))
    BY AscendingConcat
  <1>3. Ascending(f \o g, t) <=> /\ Ascending(f, t) /\ Ascending(g, t)
                                 /\ Below(Pages(f, "page", t), Pages(g, "page", t))
    BY AscendingConcat
  <1>4. Pages(f \o g, "page", t) = Pages(f, "page", t) \cup Pages(g, "page", t)
    BY PagesConcat
  <1>5. QED
    BY <1>1, <1>2, <1>3, <1>4

LEMMA NumbersTyped ==
  ASSUME NEW f \in Seq(Token), NEW type \in {"page", "failed"}, NEW t
  PROVE  Pages(f, type, t) \subseteq {p \in Page : p.thread = t}
  <1> SUFFICES ASSUME NEW i \in 1..Len(f), f[i].type = type, f[i].page.thread = t
               PROVE  f[i].page \in Page
    BY DEF Pages
  <1>1. f[i] \in Token
    OBVIOUS
  <1>2. QED
    BY <1>1 DEF Token

LEMMA ShownTyped ==
  ASSUME TrackInv, OrdsCounted, NEW t \in Used
  PROVE  Shown(t) \cup Lost(t) \subseteq {p \in Page : p.thread = t}
  BY PlacesTyped, KeptTyped, NumbersTyped DEF Shown, Lost

LEMMA NonePages ==
  ASSUME NEW f \in Seq(Token), NEW t, Pages(f, "page", t) = {}
  PROVE  Ascending(f, t)
  BY DEF Pages, Ascending, IsPage

(* A step that takes pages from place to place, in order, keeps the rest.    *)
LEMMA Moved ==
  ASSUME NEW t, Shown(t)' = Shown(t), Lost(t)' = Lost(t), count'[t] = count[t],
         new_thread_name'[t] = new_thread_name[t], renames'[t] = renames[t],
         Accounted(t), NamesFollow(t)
  PROVE  Accounted(t)' /\ NamesFollow(t)'
  <1>1. Accounted(t)'
    BY DEF Accounted
  <1>2. NamesFollow(t)'
    BY DEF NamesFollow
  <1>3. QED
    BY <1>1, <1>2

LEMMA Unmoved ==
  ASSUME NEW t, UNCHANGED <<file, ring, skipped_msr_pages_headers, event_parsers>>,
         ord'[t] = ord[t]
  PROVE  Shown(t)' = Shown(t) /\ Lost(t)' = Lost(t) /\ (InOrder(t)' <=> InOrder(t))
         /\ (ParserNamed(t)' <=> ParserNamed(t))
  <1>1. KeptBy(t)' = KeptBy(t) /\ MissedBy(t)' = MissedBy(t) /\ Stored' = Stored
        /\ Dropped' = Dropped
    BY DEF KeptBy, MissedBy, Stored, Dropped
  <1>2. Shown(t)' = Shown(t) /\ Lost(t)' = Lost(t) /\ (InOrder(t)' <=> InOrder(t))
    BY <1>1 DEF Shown, Lost, InOrder
  <1>3. ParserNamed(t)' <=> ParserNamed(t)
    BY <1>2 DEF ParserNamed
  <1>4. QED
    BY <1>2, <1>3

(* Before anything is read the parsers keep nothing.                         *)
LEMMA NothingKept ==
  ASSUME TrackInv, phase = "wait", NEW t, ord[t] \in Ord
  PROVE  KeptBy(t) = <<>> /\ MissedBy(t) = <<>> /\ ParserNamed(t)
  <1>1. event_parsers[ord[t]] = NewParser
    BY DEF TrackInv, ParsersTagged
  <1>2. /\ event_parsers[ord[t]].event_buf = <<>> /\ event_parsers[ord[t]].missed_events = <<>>
    BY <1>1 DEF NewParser
  <1>3. QED
    BY <1>2, TokensOfNone DEF KeptBy, MissedBy, ParserNamed

LEMMA InitPages == Init => PagesInv
  <1> SUFFICES ASSUME Init PROVE PagesInv
    OBVIOUS
  <1>1. ASSUME NEW t \in Thread PROVE t \notin Used /\ count[t] = 0 /\ new_thread_name[t] # NoName
    <2>1. <<t, 0>> \in Name /\ NoName \notin Name
      BY ReaderTyped, IsName
    <2>2. QED
      BY <2>1 DEF Init, Used
  <1>2. Used \subseteq Thread
    BY DEF Used
  <1>3. QED
    BY <1>1, <1>2 DEF PagesInv

(* What holds of each thread while the stream is not cut off. *)
LEMMA EachThread ==
  ASSUME WholeInv, writer # "cut", NEW t \in Used
  PROVE  InOrder(t) /\ Accounted(t) /\ NamesFollow(t) /\ ParserNamed(t) /\ t \in Thread
  BY DEF WholeInv, PagesInv, Used

LEMMA NumbersShown ==
  ASSUME WholeInv, writer # "cut", NEW t \in Used
  PROVE  /\ \A p \in Shown(t) \cup Lost(t) : p.no \in 1..count[t]
         /\ count[t] \in Nat
  <1>1. count[t] \in Nat
    BY DEF WholeInv, TrackInv, StreamInv, ThreadsTyped, Used
  <1>2. Accounted(t)
    BY EachThread
  <1>3. QED
    BY <1>1, <1>2 DEF Accounted, Numbers

LEMMA NoPagesYet ==
  ASSUME NEW f \in Seq(TaggedToken), NEW type \in {"page", "failed"}, NEW t, ord[t] = 0
  PROVE  Pages(f, type, t) = {}
  <1>1. ASSUME NEW i \in 1..Len(f), f[i].type = type PROVE f[i].page.thread # t
    <2>1. f[i] \in TaggedToken
      OBVIOUS
    <2>2. f[i].page \in TaggedPage
      BY <1>1, <2>1 DEF TaggedToken
    <2>3. QED
      BY <2>2 DEF TaggedPage
  <1>2. QED
    BY <1>1 DEF Pages

(* A thread that begins has no pages anywhere.                               *)
LEMMA FirstEventPages ==
  ASSUME WholeInv, phase = "wait", NEW u \in Thread, FirstEvent(u)
  PROVE  PagesInv'
  <1>1. /\ ord' = [ord EXCEPT ![u] = CUR_THREAD_ID] /\ ord[u] = 0
        /\ UNCHANGED <<file, ring, skipped_msr_pages_headers, event_parsers, count, renames,
                       new_thread_name, writer>>
    BY DEF FirstEvent, storeVars, fileVars, parserVars
  <1>2. /\ ord \in [Thread -> Nat] /\ TrackInv /\ OrdsCounted /\ u \notin Used
        /\ CUR_THREAD_ID \in Ord /\ writer # "cut"
    <2>1. ord \in [Thread -> Nat] /\ TrackInv /\ OrdsCounted /\ u \notin Used /\ writer # "cut"
      BY <1>1 DEF WholeInv, TrackInv, StreamInv, ThreadsTyped, FileFramed, Used
    <2>2. QED
      BY <2>1, OrdsBounded
  <1>3. ord'[u] = CUR_THREAD_ID /\ \A t \in Thread : t # u => ord'[t] = ord[t]
    BY <1>1, <1>2
  <1>4. \A t \in Thread : t \in Used' <=> t \in Used \/ t = u
    BY <1>2, <1>3, NoOrdIsZero DEF Used
  <1>5. count[u] = 0 /\ new_thread_name[u] # NoName
    BY <1>2 DEF WholeInv, PagesInv
  <1>6. ASSUME NEW t \in Used, t # u
        PROVE  InOrder(t)' /\ Accounted(t)' /\ NamesFollow(t)' /\ ParserNamed(t)'
    <2>1. t \in Thread /\ ord'[t] = ord[t]
      BY <1>3, <1>6 DEF Used
    <2>2. /\ Shown(t)' = Shown(t) /\ Lost(t)' = Lost(t) /\ (InOrder(t)' <=> InOrder(t))
          /\ (ParserNamed(t)' <=> ParserNamed(t))
      BY <1>1, <2>1, Unmoved
    <2>3. InOrder(t) /\ Accounted(t) /\ NamesFollow(t) /\ ParserNamed(t)
      BY <1>2, EachThread
    <2>4. QED
      BY <1>1, <2>2, <2>3, Moved
  <1>7. InOrder(u)' /\ Accounted(u)' /\ NamesFollow(u)' /\ ParserNamed(u)'
    <2>1. event_parsers'[ord'[u]] = NewParser
      <3>1. phase = "wait" /\ CUR_THREAD_ID \in Ord
        BY <1>2
      <3>2. event_parsers[CUR_THREAD_ID] = NewParser
        BY <1>2, <3>1 DEF TrackInv, ParsersTagged
      <3>3. QED
        BY <1>1, <1>3, <3>2
    <2>2. KeptBy(u)' = <<>> /\ MissedBy(u)' = <<>> /\ ParserNamed(u)'
      BY <2>1, TokensOfNone DEF KeptBy, MissedBy, ParserNamed, NewParser
    <2>3. /\ file' = file /\ Stored' = Stored /\ Dropped' = Dropped
          /\ file \in Seq(Token) /\ Stored \in Seq(Token)
      BY <1>1, <1>2, PlacesTyped DEF Stored, Dropped
    <2>4. /\ Pages(file, "page", u) = {} /\ Pages(file, "failed", u) = {}
          /\ Pages(Stored, "page", u) = {} /\ Pages(Dropped, "failed", u) = {}
      <3>1. file \in Seq(TaggedToken) /\ ring \in Seq(TaggedPage)
            /\ skipped_msr_pages_headers \in Seq(TaggedPage)
        BY <1>2 DEF TrackInv, PagesTagged
      <3>2. Stored \in Seq(TaggedToken) /\ Dropped \in Seq(TaggedToken)
        BY <3>1, TokensTagged DEF Stored, Dropped
      <3>3. QED
        BY <1>1, <3>1, <3>2, NoPagesYet
    <2>5. Shown(u)' = {} /\ Lost(u)' = {}
      BY <2>2, <2>3, <2>4, PagesOfNone DEF Shown, Lost
    <2>6. InOrder(u)'
      <3>1. Ascending((<<>> \o file) \o Stored, u)
        <4>1. PICK none \in Seq(Token) :
                none = <<>> /\ Ascending(none, u) /\ Pages(none, "page", u) = {}
          BY PagesOfNone
        <4>2. Ascending(file, u) /\ Ascending(Stored, u)
          BY <2>3, <2>4, NonePages
        <4>3. Below({}, {}) /\ Below({} \cup {}, {})
          BY DEF Below
        <4>4. Ascending((none \o file) \o Stored, u) <=>
                /\ Ascending(none, u) /\ Ascending(file, u) /\ Ascending(Stored, u)
                /\ Below(Pages(none, "page", u), Pages(file, "page", u))
                /\ Below(Pages(none, "page", u) \cup Pages(file, "page", u),
                         Pages(Stored, "page", u))
          BY <2>3, ThreeAscending
        <4>5. QED
          BY <2>4, <4>1, <4>2, <4>3, <4>4
      <3>2. QED
        BY <2>2, <2>3, <3>1 DEF InOrder
    <2>7. Accounted(u)'
      <3>1. count'[u] = 0 /\ 1..0 = {}
        BY <1>1, <1>5
      <3>2. QED
        BY <2>5, <3>1 DEF Accounted, Numbers
    <2>8. NamesFollow(u)'
      BY <1>1, <1>5, <2>5 DEF NamesFollow
    <2>9. QED
      BY <2>2, <2>6, <2>7, <2>8
  <1>8. \A t \in Thread : t \notin Used' => count'[t] = 0 /\ new_thread_name'[t] # NoName
    BY <1>1, <1>4 DEF WholeInv, PagesInv
  <1>9. \A t \in Used' : t \in Thread
    BY DEF Used
  <1>10. QED
    BY <1>4, <1>6, <1>7, <1>8, <1>9 DEF PagesInv

LEMMA RenamePages ==
  ASSUME WholeInv, phase = "wait", NEW u \in Thread, set_cur_thread_name(u)
  PROVE  PagesInv'
  <1>1. /\ UNCHANGED <<ord, live, file, ring, skipped_msr_pages_headers, event_parsers, count,
                       writer>>
        /\ u \in live /\ new_thread_name' = [new_thread_name EXCEPT ![u] = <<u, renames'[u]>>]
        /\ renames' = [renames EXCEPT ![u] = @ + 1] /\ renames[u] < MaxRenames[u]
    BY DEF set_cur_thread_name, storeVars, fileVars, parserVars
  <1>2. /\ u \in Used /\ Used' = Used /\ writer # "cut"
        /\ renames \in [Thread -> Nat] /\ new_thread_name \in [Thread -> Name \cup {NoName}]
    BY <1>1 DEF WholeInv, TrackInv, StreamInv, ThreadsTyped, FileFramed, OrdsApart, Used
  <1>3. \A t \in Thread : t # u => new_thread_name'[t] = new_thread_name[t]
                                  /\ renames'[t] = renames[t]
    BY <1>1, <1>2
  <1>4. new_thread_name'[u] # NoName
    <2>1. renames'[u] = renames[u] + 1 /\ renames[u] \in Nat /\ MaxRenames[u] \in Nat
      BY <1>1, <1>2, ReaderTyped
    <2>2. <<u, renames'[u]>> \in Name /\ NoName \notin Name
      BY <1>1, <2>1, IsName, ReaderTyped
    <2>3. QED
      BY <1>1, <1>2, <2>2
  <1>5. ASSUME NEW t \in Used
        PROVE  InOrder(t)' /\ Accounted(t)' /\ NamesFollow(t)' /\ ParserNamed(t)'
    <2>1. InOrder(t) /\ Accounted(t) /\ NamesFollow(t) /\ ParserNamed(t) /\ t \in Thread
      BY <1>2, EachThread
    <2>2. /\ Shown(t)' = Shown(t) /\ Lost(t)' = Lost(t) /\ (InOrder(t)' <=> InOrder(t))
          /\ (ParserNamed(t)' <=> ParserNamed(t))
      BY <1>1, Unmoved
    <2>3. CASE t # u
      BY <1>1, <1>3, <2>1, <2>2, <2>3, Moved
    <2>4. CASE t = u
      <3>1. Accounted(t)'
        BY <1>1, <2>1, <2>2 DEF Accounted
      <3>2. NamesFollow(t)'
        BY <1>4, <2>1, <2>2, <2>4 DEF NamesFollow
      <3>3. QED
        BY <2>1, <2>2, <3>1, <3>2
    <2>5. QED
      BY <2>3, <2>4
  <1>6. \A t \in Thread : t \notin Used' => count'[t] = 0 /\ new_thread_name'[t] # NoName
    BY <1>1, <1>2, <1>3 DEF WholeInv, PagesInv
  <1>7. QED
    BY <1>2, <1>5, <1>6 DEF PagesInv

(* A new page comes behind all others of its thread, and brings a name if    *)
(* the thread was given one since the last.                                  *)
LEMMA FlushPages ==
  ASSUME WholeInv, phase = "wait", NEW u \in Thread, Flush(u)
  PROVE  PagesInv'
  <1> DEFINE P == PageOf(u)
             k == [type |-> "page", page |-> P]
  <1>1. /\ UNCHANGED <<ord, file, skipped_msr_pages_headers, event_parsers, renames, writer>>
        /\ u \in live /\ ring' = Append(ring, P) /\ count' = [count EXCEPT ![u] = @ + 1]
        /\ new_thread_name' = [new_thread_name EXCEPT ![u] = NoName]
    BY DEF Flush, fileVars, parserVars
  <1>2. /\ u \in Used /\ Used' = Used /\ writer # "cut" /\ TrackInv /\ OrdsCounted
        /\ count \in [Thread -> Nat] /\ new_thread_name \in [Thread -> Name \cup {NoName}]
    BY <1>1 DEF WholeInv, TrackInv, StreamInv, ThreadsTyped, FileFramed, OrdsApart, Used
  <1>3. /\ P \in Page /\ P.thread = u /\ P.no = count[u] + 1 /\ P.renamed = renames[u]
        /\ P.new_thread_name = new_thread_name[u]
    BY <1>2, PageIsTyped DEF TrackInv, StreamInv, PageOf
  <1>4. /\ k.type = "page" /\ k.page = P
    OBVIOUS
  <1>5. k \in Token /\ Stored' = Stored \o <<k>>
    BY <1>1, <1>2, <1>3, PlacesTyped, TokensAppend DEF Stored
  <1> HIDE DEF P, k
  <1>6. /\ Stored \in Seq(Token) /\ <<k>> \in Seq(Token) /\ Stored' \in Seq(Token)
        /\ file \in Seq(Token)
    BY <1>2, <1>5, PlacesTyped, PagesOfOne
  <1>7. ASSUME NEW t
        PROVE  /\ Pages(Stored', "page", t) = Pages(Stored, "page", t)
                                                \cup (IF t = u THEN {P} ELSE {})
               /\ Ascending(Stored', t) <=>
                    Ascending(Stored, t) /\ (t = u => Below(Pages(Stored, "page", t), {P}))
    <2>1. /\ Ascending(<<k>>, t)
          /\ Pages(<<k>>, "page", t) = IF t = u THEN {P} ELSE {}
      BY <1>3, <1>4, <1>5, PagesOfOne
    <2>2. Pages(Stored \o <<k>>, "page", t) = Pages(Stored, "page", t) \cup Pages(<<k>>, "page", t)
      <3>1. PICK f \in Seq(Token), g \in Seq(Token) : f = Stored /\ g = <<k>>
        BY <1>6
      <3>2. Pages(f \o g, "page", t) = Pages(f, "page", t) \cup Pages(g, "page", t)
        BY PagesConcat
      <3>3. QED
        BY <3>1, <3>2
    <2>3. Ascending(Stored \o <<k>>, t) <=>
            /\ Ascending(Stored, t) /\ Ascending(<<k>>, t)
            /\ Below(Pages(Stored, "page", t), Pages(<<k>>, "page", t))
      BY <1>6, AscendingConcat
    <2>4. Below(Pages(Stored, "page", t), {})
      BY DEF Below
    <2>5. QED
      BY <1>5, <2>1, <2>2, <2>3, <2>4
  <1>8. ASSUME NEW t \in Used
        PROVE  /\ Shown(t)' = Shown(t) \cup (IF t = u THEN {P} ELSE {}) /\ Lost(t)' = Lost(t)
               /\ InOrder(t)' /\ ParserNamed(t)'
    <2>1. InOrder(t) /\ ParserNamed(t)
      BY <1>2, EachThread
    <2>2. KeptBy(t)' = KeptBy(t) /\ MissedBy(t)' = MissedBy(t) /\ Dropped' = Dropped
      BY <1>1 DEF KeptBy, MissedBy, Dropped
    <2>3. Shown(t)' = Shown(t) \cup (IF t = u THEN {P} ELSE {}) /\ Lost(t)' = Lost(t)
      BY <1>1, <1>7, <2>2 DEF Shown, Lost
    <2>4. ParserNamed(t)'
      BY <1>1, <2>1, <2>3 DEF ParserNamed
    <2>5. InOrder(t)'
      <3>1. KeptBy(t) \in Seq(Token)
        BY <1>2, KeptTyped
      <3>2. /\ Ascending(KeptBy(t), t) /\ Ascending(file, t) /\ Ascending(Stored, t)
            /\ Below(Pages(KeptBy(t), "page", t), Pages(file, "page", t))
            /\ Below(Pages(KeptBy(t), "page", t) \cup Pages(file, "page", t),
                     Pages(Stored, "page", t))
        BY <1>6, <2>1, <3>1, ThreeAscending DEF InOrder
      <3>3. t = u => \A p \in Shown(t) : p.no < P.no
        <4> SUFFICES ASSUME t = u, NEW p \in Shown(t) PROVE p.no < P.no
          OBVIOUS
        <4>1. p.no \in 1..count[t] /\ count[t] \in Nat
          BY <1>2, NumbersShown
        <4>2. QED
          BY <1>3, <4>1
      <3>4. Ascending(Stored', t)
        BY <1>7, <3>2, <3>3 DEF Below, Shown
      <3>5. Below(Pages(KeptBy(t), "page", t) \cup Pages(file, "page", t),
                  Pages(Stored', "page", t))
        BY <1>7, <3>2, <3>3 DEF Below, Shown
      <3>6. Ascending((KeptBy(t) \o file) \o Stored', t)
        BY <1>6, <3>1, <3>2, <3>4, <3>5, ThreeAscending
      <3>7. QED
        BY <1>1, <2>2, <3>6 DEF InOrder
    <2>6. QED
      BY <2>3, <2>4, <2>5
  <1>9. ASSUME NEW t \in Used PROVE Accounted(t)' /\ NamesFollow(t)'
    <2>1. Accounted(t) /\ NamesFollow(t) /\ t \in Thread
      BY <1>2, EachThread
    <2>2. CASE t # u
      <3>1. /\ count'[t] = count[t] /\ new_thread_name'[t] = new_thread_name[t]
            /\ renames'[t] = renames[t]
        BY <1>1, <1>2, <2>1, <2>2
      <3>2. Shown(t)' = Shown(t) /\ Lost(t)' = Lost(t)
        BY <1>8, <2>2
      <3>3. QED
        BY <2>1, <3>1, <3>2, Moved
    <2>3. CASE t = u
      <3>1. Shown(t)' = Shown(t) \cup {P} /\ Lost(t)' = Lost(t)
        BY <1>8, <2>3
      <3>2. /\ count[t] \in Nat /\ P.no = count[t] + 1 /\ count'[t] = count[t] + 1
            /\ \A p \in Shown(t) \cup Lost(t) : p.no \in 1..count[t]
            /\ new_thread_name'[t] = NoName /\ renames'[t] = renames[t]
        BY <1>1, <1>2, <1>3, <2>1, <2>3, NumbersShown
      <3>3. Accounted(t)'
        <4>1. Numbers(Shown(t)') = Numbers(Shown(t)) \cup {count[t] + 1}
          BY <3>1, <3>2 DEF Numbers
        <4>2. count[t] + 1 \notin Numbers(Lost(t))
          BY <3>2 DEF Numbers
        <4>3. 1..(count[t] + 1) = (1..count[t]) \cup {count[t] + 1}
          BY <3>2
        <4>4. QED
          BY <2>1, <3>1, <3>2, <4>1, <4>2, <4>3 DEF Accounted
      <3>4. NamesFollow(t)'
        <4>1. ASSUME NEW p \in Shown(t)', NEW q \in Shown(t)', q.no = p.no + 1,
                     q.new_thread_name = NoName
              PROVE  q.renamed = p.renamed
          <5>1. CASE p \in Shown(t) /\ q \in Shown(t)
            BY <2>1, <4>1, <5>1 DEF NamesFollow
          <5>2. CASE p \in Shown(t) /\ q = P
            <6>1. p.no = count[t]
              BY <3>2, <4>1, <5>2
            <6>2. new_thread_name[t] = NoName
              BY <1>3, <2>3, <4>1, <5>2
            <6>3. QED
              BY <1>3, <2>1, <2>3, <5>2, <6>1, <6>2 DEF NamesFollow
          <5>3. CASE p = P
            <6>1. q.no = count[t] + 2
              BY <3>2, <4>1, <5>3
            <6>2. QED
              BY <3>1, <3>2, <6>1
          <5>4. QED
            BY <3>1, <5>1, <5>2, <5>3
        <4>2. ASSUME NEW p \in Shown(t)', p.no = 1 PROVE p.new_thread_name # NoName
          <5>1. CASE p \in Shown(t)
            BY <2>1, <4>2, <5>1 DEF NamesFollow
          <5>2. CASE p = P
            <6>1. count[t] = 0
              BY <3>2, <4>2, <5>2
            <6>2. QED
              BY <1>3, <2>1, <2>3, <5>2, <6>1 DEF NamesFollow
          <5>3. QED
            BY <3>1, <5>1, <5>2
        <4>3. ASSUME NEW p \in Shown(t)', p.no = count'[t] PROVE p.renamed = renames'[t]
          <5>1. p = P
            BY <3>1, <3>2, <4>3
          <5>2. QED
            BY <1>3, <2>3, <3>2, <5>1
        <4>4. count'[t] # 0
          BY <3>2
        <4>5. QED
          BY <4>1, <4>2, <4>3, <4>4 DEF NamesFollow
      <3>5. QED
        BY <3>3, <3>4
    <2>4. QED
      BY <2>2, <2>3
  <1>10. \A t \in Thread : t \notin Used' => count'[t] = 0 /\ new_thread_name'[t] # NoName
    <2>1. \A t \in Thread : t # u => /\ count'[t] = count[t]
                                     /\ new_thread_name'[t] = new_thread_name[t]
      BY <1>1, <1>2
    <2>2. QED
      BY <1>2, <2>1 DEF WholeInv, PagesInv
  <1>11. QED
    BY <1>2, <1>8, <1>9, <1>10 DEF PagesInv

(* A page that cleanup drops is lost, and no page with its number is left.   *)
LEMMA DropPages ==
  ASSUME WholeInv, phase = "wait", DropOldest
  PROVE  PagesInv'
  <1> DEFINE P == Head(ring)
             k == [type |-> "page", page |-> P]
             lost == [type |-> "failed", page |-> P]
  <1>1. /\ ring # <<>> /\ ring' = Tail(ring)
        /\ skipped_msr_pages_headers' = Append(skipped_msr_pages_headers, P)
        /\ UNCHANGED <<ord, file, event_parsers, count, new_thread_name, renames, writer>>
    BY DEF DropOldest, threadVars, fileVars, parserVars
  <1>2. /\ Used' = Used /\ writer # "cut" /\ TrackInv /\ OrdsCounted
    BY <1>1 DEF WholeInv, TrackInv, StreamInv, FileFramed, Used
  <1>3. /\ P \in Page /\ Stored # <<>> /\ Tail(Stored) = Stored' /\ Head(Stored) = k
    BY <1>1, <1>2, PlacesTyped, TokensTail DEF Stored
  <1>4. lost \in Token /\ Dropped' = Dropped \o <<lost>>
    BY <1>1, <1>2, <1>3, PlacesTyped, TokensAppend DEF Dropped
  <1>5. k.type = "page" /\ k.page = P /\ lost.type = "failed" /\ lost.page = P
    OBVIOUS
  <1> HIDE DEF P, k, lost
  <1>6. /\ Stored \in Seq(Token) /\ file \in Seq(Token) /\ Dropped \in Seq(Token)
        /\ Stored' \in Seq(Token)
    <2>1. /\ Stored \in Seq(Token) /\ file \in Seq(Token) /\ Dropped \in Seq(Token)
      BY <1>2, PlacesTyped
    <2>2. QED
      BY <1>3, <2>1, HeadAndTail
  <1>7. ASSUME NEW t
        PROVE  /\ Pages(Stored, "page", t) = Pages(Stored', "page", t)
                                               \cup (IF P.thread = t THEN {P} ELSE {})
               /\ Ascending(Stored, t) =>
                    /\ Ascending(Stored', t)
                    /\ P.thread = t => Below({P}, Pages(Stored', "page", t))
    <2>1. PICK f \in Seq(Token) : f = Stored
      BY <1>6
    <2>2. f # <<>>
      BY <1>3, <2>1
    <2>3. /\ Pages(f, "page", t) =
               Pages(Tail(f), "page", t)
                 \cup (IF Head(f).type = "page" /\ Head(f).page.thread = t THEN {Head(f).page}
                                                                           ELSE {})
          /\ Ascending(f, t) =>
               /\ Ascending(Tail(f), t)
               /\ IsPage(Head(f), t) => Below({Head(f).page}, Pages(Tail(f), "page", t))
      BY <2>2, PagesTail
    <2>4. Tail(f) = Stored' /\ Head(f) = k
      BY <1>3, <2>1
    <2>5. QED
      BY <1>5, <2>1, <2>3, <2>4 DEF IsPage
  <1>8. ASSUME NEW t
        PROVE  Pages(Dropped', "failed", t) = Pages(Dropped, "failed", t)
                                                \cup (IF P.thread = t THEN {P} ELSE {})
    <2>1. /\ <<lost>> \in Seq(Token)
          /\ Pages(<<lost>>, "failed", t) = IF P.thread = t THEN {P} ELSE {}
      BY <1>4, <1>5, PagesOfOne
    <2>2. PICK f \in Seq(Token), g \in Seq(Token) : f = Dropped /\ g = <<lost>>
      BY <1>6, <2>1
    <2>3. Pages(f \o g, "failed", t) = Pages(f, "failed", t) \cup Pages(g, "failed", t)
      BY PagesConcat
    <2>4. QED
      BY <1>4, <2>1, <2>2, <2>3
  <1>9. ASSUME NEW t \in Used
        PROVE  /\ Shown(t) = Shown(t)' \cup (IF P.thread = t THEN {P} ELSE {})
               /\ Lost(t)' = Lost(t) \cup (IF P.thread = t THEN {P} ELSE {})
               /\ InOrder(t)' /\ ParserNamed(t)'
               /\ P.thread = t => P.no \notin Numbers(Shown(t)')
    <2>1. InOrder(t)
      BY <1>2, EachThread
    <2>2. /\ KeptBy(t)' = KeptBy(t) /\ MissedBy(t)' = MissedBy(t)
          /\ KeptBy(t) = <<>>
      <3>1. ord[t] \in Ord
        BY <1>2, OrdsBounded
      <3>2. QED
        BY <1>1, <1>2, <3>1, NothingKept DEF KeptBy, MissedBy
    <2>3. /\ Shown(t) = Shown(t)' \cup (IF P.thread = t THEN {P} ELSE {})
          /\ Lost(t)' = Lost(t) \cup (IF P.thread = t THEN {P} ELSE {})
      BY <1>1, <1>7, <1>8, <2>2 DEF Shown, Lost
    <2>4. ParserNamed(t)'
      <3>1. ord[t] \in Ord
        BY <1>2, OrdsBounded
      <3>2. event_parsers[ord[t]] = NewParser
        BY <1>2, <3>1 DEF TrackInv, ParsersTagged
      <3>3. event_parsers'[ord'[t]].event_buf = <<>>
        BY <1>1, <3>2 DEF NewParser
      <3>4. QED
        BY <3>3 DEF ParserNamed
    <2>5. KeptBy(t) \in Seq(Token)
      BY <1>2, KeptTyped
    <2>6. /\ Ascending(KeptBy(t), t) /\ Ascending(file, t) /\ Ascending(Stored, t)
          /\ Below(Pages(KeptBy(t), "page", t), Pages(file, "page", t))
          /\ Below(Pages(KeptBy(t), "page", t) \cup Pages(file, "page", t),
                   Pages(Stored, "page", t))
      BY <1>6, <2>1, <2>5, ThreeAscending DEF InOrder
    <2>7. InOrder(t)'
      <3>1. /\ Ascending(Stored', t)
            /\ Below(Pages(KeptBy(t), "page", t) \cup Pages(file, "page", t),
                     Pages(Stored', "page", t))
        BY <1>7, <2>6 DEF Below
      <3>2. Ascending((KeptBy(t) \o file) \o Stored', t)
        BY <1>6, <2>5, <2>6, <3>1, ThreeAscending
      <3>3. QED
        BY <1>1, <2>2, <3>2 DEF InOrder
    <2>8. ASSUME P.thread = t PROVE P.no \notin Numbers(Shown(t)')
      <3>1. Pages(KeptBy(t), "page", t) = {}
        BY <2>2, PagesOfNone
      <3>2. Shown(t)' = Pages(file, "page", t) \cup Pages(Stored', "page", t)
        BY <1>1, <2>2, <3>1 DEF Shown
      <3>3. ASSUME NEW q \in Shown(t)' PROVE q.no # P.no
        <4>1. q \in Shown(t) /\ P \in Shown(t)
          BY <2>3, <2>8
        <4>2. q.no \in Nat /\ P.no \in Nat
          BY <1>2, <4>1, NumbersShown
        <4>3. CASE q \in Pages(file, "page", t)
          <5>1. P \in Pages(Stored, "page", t)
            BY <1>7, <2>8
          <5>2. q.no < P.no
            BY <2>6, <4>3, <5>1 DEF Below
          <5>3. QED
            BY <4>2, <5>2
        <4>4. CASE q \in Pages(Stored', "page", t)
          <5>1. P.no < q.no
            BY <1>7, <2>6, <2>8, <4>4 DEF Below
          <5>2. QED
            BY <4>2, <5>1
        <4>5. QED
          BY <3>2, <4>3, <4>4
      <3>4. QED
        BY <3>3 DEF Numbers
    <2>9. QED
      BY <2>3, <2>4, <2>7, <2>8
  <1>10. ASSUME NEW t \in Used PROVE Accounted(t)' /\ NamesFollow(t)'
    <2>1. Accounted(t) /\ NamesFollow(t)
      BY <1>2, EachThread
    <2>2. CASE P.thread # t
      <3>1. Shown(t)' = Shown(t) /\ Lost(t)' = Lost(t)
        BY <1>9, <2>2
      <3>2. QED
        BY <1>1, <2>1, <3>1, Moved
    <2>3. CASE P.thread = t
      <3>1. /\ Shown(t) = Shown(t)' \cup {P} /\ Lost(t)' = Lost(t) \cup {P}
            /\ P.no \notin Numbers(Shown(t)')
        BY <1>9, <2>3
      <3>2. /\ Numbers(Shown(t)) = Numbers(Shown(t)') \cup {P.no}
            /\ Numbers(Lost(t)') = Numbers(Lost(t)) \cup {P.no}
        BY <3>1 DEF Numbers
      <3>3. Accounted(t)'
        BY <1>1, <2>1, <3>1, <3>2 DEF Accounted
      <3>4. Shown(t)' \subseteq Shown(t)
        BY <3>1
      <3>5. NamesFollow(t)'
        BY <1>1, <2>1, <3>4 DEF NamesFollow
      <3>6. QED
        BY <3>3, <3>5
    <2>4. QED
      BY <2>2, <2>3
  <1>11. \A t \in Thread : t \notin Used' => count'[t] = 0 /\ new_thread_name'[t] # NoName
    BY <1>1, <1>2 DEF WholeInv, PagesInv
  <1>12. QED
    BY <1>2, <1>9, <1>10, <1>11 DEF PagesInv

(* The sending thread moves pages from the ring to the end of the file.      *)
LEMMA WrittenPages ==
  ASSUME WholeInv, writer = "writing", NEW g \in Seq(Token), file' = file \o g,
         UNCHANGED <<ord, event_parsers, count, new_thread_name, renames>>,
         Stored' \in Seq(Token), NEW t \in Used,
         Pages(Stored, "page", t) = Pages(g, "page", t) \cup Pages(Stored', "page", t),
         Pages(Dropped, "failed", t) = Pages(g, "failed", t) \cup Pages(Dropped', "failed", t),
         Ascending(g, t), Ascending(Stored', t),
         Below(Pages(g, "page", t), Pages(Stored', "page", t))
  PROVE  InOrder(t)' /\ Accounted(t)' /\ NamesFollow(t)' /\ ParserNamed(t)'
  <1>1. InOrder(t) /\ Accounted(t) /\ NamesFollow(t) /\ ParserNamed(t)
    BY EachThread
  <1>2. TrackInv /\ OrdsCounted
    BY DEF WholeInv
  <1>3. file \in Seq(Token) /\ Stored \in Seq(Token) /\ KeptBy(t) \in Seq(Token)
    BY <1>2, PlacesTyped, KeptTyped
  <1>4. KeptBy(t)' = KeptBy(t) /\ MissedBy(t)' = MissedBy(t)
    BY DEF KeptBy, MissedBy
  <1>5. file' \in Seq(Token) /\ \A type : Pages(file', type, t) = Pages(file, type, t)
                                                                    \cup Pages(g, type, t)
    <2>1. PICK f \in Seq(Token) : f = file
      BY <1>3
    <2>2. f \o g \in Seq(Token)
          /\ \A type : Pages(f \o g, type, t) = Pages(f, type, t) \cup Pages(g, type, t)
      BY Parts, PagesConcat
    <2>3. QED
      BY <2>1, <2>2
  <1>6. Shown(t)' = Shown(t) /\ Lost(t)' = Lost(t)
    BY <1>4, <1>5 DEF Shown, Lost
  <1>7. /\ Ascending(KeptBy(t), t) /\ Ascending(file, t) /\ Ascending(Stored, t)
        /\ Below(Pages(KeptBy(t), "page", t), Pages(file, "page", t))
        /\ Below(Pages(KeptBy(t), "page", t) \cup Pages(file, "page", t),
                 Pages(Stored, "page", t))
    BY <1>1, <1>3, ThreeAscending DEF InOrder
  <1>8. Ascending(file', t)
    <2>1. Below(Pages(file, "page", t), Pages(g, "page", t))
      BY <1>7 DEF Below
    <2>2. PICK f \in Seq(Token) : f = file
      BY <1>3
    <2>3. Ascending(f \o g, t) <=> /\ Ascending(f, t) /\ Ascending(g, t)
                                   /\ Below(Pages(f, "page", t), Pages(g, "page", t))
      BY AscendingConcat
    <2>4. QED
      BY <1>7, <2>1, <2>2, <2>3
  <1>9. /\ Below(Pages(KeptBy(t), "page", t), Pages(file', "page", t))
        /\ Below(Pages(KeptBy(t), "page", t) \cup Pages(file', "page", t),
                 Pages(Stored', "page", t))
    <2>1. Pages(file', "page", t) = Pages(file, "page", t) \cup Pages(g, "page", t)
      BY <1>5
    <2>2. QED
      BY <1>7, <2>1 DEF Below
  <1>10. InOrder(t)'
    <2>1. PICK kept \in Seq(Token), f \in Seq(Token), h \in Seq(Token) :
            kept = KeptBy(t) /\ f = file' /\ h = Stored'
      BY <1>3, <1>5
    <2>2. Ascending((kept \o f) \o h, t) <=>
            /\ Ascending(kept, t) /\ Ascending(f, t) /\ Ascending(h, t)
            /\ Below(Pages(kept, "page", t), Pages(f, "page", t))
            /\ Below(Pages(kept, "page", t) \cup Pages(f, "page", t), Pages(h, "page", t))
      BY ThreeAscending
    <2>3. Ascending((kept \o f) \o h, t)
      BY <1>7, <1>8, <1>9, <2>1, <2>2
    <2>4. QED
      BY <1>4, <2>1, <2>3 DEF InOrder
  <1>11. ParserNamed(t)'
    BY <1>1, <1>6 DEF ParserNamed
  <1>12. QED
    BY <1>1, <1>6, <1>10, <1>11, Moved

LEMMA SenderPages ==
  ASSUME WholeInv, SenderRound \/ SenderFreq \/ SenderEnd \/ CutOff
  PROVE  PagesInv'
  <1>1. /\ writer = "writing"
        /\ UNCHANGED <<ord, event_parsers, count, new_thread_name, renames>>
    BY DEF SenderRound, SenderFreq, SenderEnd, CutOff, threadVars, parserVars
  <1>2. TrackInv /\ Used' = Used
    BY <1>1 DEF WholeInv, Used
  <1>3. /\ ring \in Seq(Page) /\ skipped_msr_pages_headers \in Seq(Page)
        /\ file \in Seq(Token) /\ Stored \in Seq(Token)
    BY <1>2, PlacesTyped
  <1>4. \A t \in Thread : t \notin Used' => count'[t] = 0 /\ new_thread_name'[t] # NoName
    BY <1>1, <1>2 DEF WholeInv, PagesInv
  <1>5. ASSUME NEW t
        PROVE  /\ Taken(ring) \in Seq(Token)
               /\ Pages(Taken(ring), "page", t) = Pages(Stored, "page", t)
               /\ Pages(Taken(ring), "failed", t) = Pages(Dropped, "failed", t)
               /\ Ascending(Taken(ring), t) <=> Ascending(Stored, t)
    BY <1>3, PagesTaken DEF Stored, Dropped
  <1>0. ASSUME NEW t
        PROVE  /\ Taken(<<>>) \in Seq(Token)
               /\ Pages(Taken(<<>>), "page", t) = {}
               /\ Pages(Taken(<<>>), "failed", t) = Pages(Dropped, "failed", t)
               /\ Ascending(Taken(<<>>), t)
    <2>1. <<>> \in Seq(Page) /\ Tokens("page", <<>>) = <<>>
      BY TokensOfNone
    <2>2. /\ Taken(<<>>) \in Seq(Token)
          /\ Pages(Taken(<<>>), "page", t) = Pages(<<>>, "page", t)
          /\ Pages(Taken(<<>>), "failed", t) = Pages(Dropped, "failed", t)
          /\ Ascending(Taken(<<>>), t) <=> Ascending(<<>>, t)
      BY <1>3, <2>1, PagesTaken DEF Dropped
    <2>3. QED
      BY <2>2, PagesOfNone
  <1>6. ASSUME NEW t \in Used PROVE Ascending(Stored, t)
    <2>1. CASE writer # "cut"
      <3>1. InOrder(t) /\ KeptBy(t) \in Seq(Token)
        BY <2>1, EachThread, KeptTyped DEF WholeInv
      <3>2. QED
        BY <1>3, <3>1, ThreeAscending DEF InOrder
    <2>2. QED
      BY <1>1, <2>1
  <1>7. ASSUME NEW t, ring' = <<>>, skipped_msr_pages_headers' = <<>>
        PROVE  /\ Stored' = <<>> /\ Stored' \in Seq(Token) /\ Ascending(Stored', t)
               /\ Pages(Stored', "page", t) = {} /\ Pages(Dropped', "failed", t) = {}
    <2>1. Stored' = <<>> /\ Dropped' = <<>>
      BY <1>7, TokensOfNone DEF Stored, Dropped
    <2>2. QED
      BY <2>1, PagesOfNone
  <1>8. \A S : Below(S, {}) /\ Below({}, S)
    BY DEF Below
  <1>9. CASE SenderRound
    <2>1. PICK out \in {ring, <<>>} : file' = file \o Taken(out) /\ LeftBehind(out)
      BY <1>9 DEF SenderRound
    <2>2. /\ skipped_msr_pages_headers' = <<>>
          /\ \/ out = ring /\ ring' = <<>>
             \/ out = <<>> /\ ring' = ring
      BY <2>1 DEF LeftBehind
    <2>3. ASSUME NEW t \in Used
          PROVE  /\ Stored' \in Seq(Token) /\ Ascending(Stored', t)
                 /\ Pages(Stored, "page", t)
                      = Pages(Taken(out), "page", t) \cup Pages(Stored', "page", t)
                 /\ Below(Pages(Taken(out), "page", t), Pages(Stored', "page", t))
                 /\ Taken(out) \in Seq(Token) /\ Ascending(Taken(out), t)
                 /\ Pages(Taken(out), "failed", t) = Pages(Dropped, "failed", t)
      <3>1. CASE out = ring /\ ring' = <<>>
        BY <1>5, <1>6, <1>7, <1>8, <2>2, <3>1
      <3>2. CASE out = <<>> /\ ring' = ring
        <4>1. Stored' = Stored
          BY <3>2 DEF Stored
        <4>2. QED
          BY <1>0, <1>3, <1>6, <1>8, <3>2, <4>1
      <3>3. QED
        BY <2>2, <3>1, <3>2
    <2>4. ASSUME NEW t PROVE Pages(Dropped', "failed", t) = {}
      <3>1. Dropped' = <<>>
        BY <2>2, TokensOfNone DEF Dropped
      <3>2. QED
        BY <3>1, PagesOfNone
    <2>5. ASSUME NEW t \in Used
          PROVE  InOrder(t)' /\ Accounted(t)' /\ NamesFollow(t)' /\ ParserNamed(t)'
      <3>1. Pages(Dropped, "failed", t)
              = Pages(Taken(out), "failed", t) \cup Pages(Dropped', "failed", t)
        BY <2>3, <2>4
      <3>2. PICK g \in Seq(Token) : g = Taken(out)
        BY <2>3
      <3>3. QED
        BY <1>1, <2>1, <2>3, <3>1, <3>2, WrittenPages
    <2>6. QED
      BY <1>2, <1>4, <2>5 DEF PagesInv
  <1>10. CASE SenderEnd
    <2> DEFINE freq == [type |-> "freq"]
               end  == [type |-> "end"]
               last == <<freq, end>>
               g    == Taken(ring) \o last
    <2>1. last \in Seq(Token) /\ Len(last) = 2 /\ last[1].type = "freq" /\ last[2].type = "end"
      BY DEF Token
    <2>2. file' = file \o Taken(ring) \o last /\ ring' = <<>> /\ skipped_msr_pages_headers' = <<>>
      BY <1>10 DEF SenderEnd, LeftBehind
    <2> HIDE DEF last
    <2>3. g \in Seq(Token) /\ file' = file \o g
      <3>1. Taken(ring) \in Seq(Token)
        BY <1>5
      <3>2. PICK f \in Seq(Token), h \in Seq(Token) : f = file /\ h = Taken(ring)
        BY <1>3, <3>1
      <3>3. (f \o h) \o last = f \o (h \o last) /\ h \o last \in Seq(Token)
        BY <2>1
      <3>4. QED
        BY <2>2, <3>2, <3>3
    <2>4. ASSUME NEW t
          PROVE  /\ Pages(last, "page", t) = {} /\ Pages(last, "failed", t) = {}
                 /\ Ascending(last, t)
      <3>1. \A i \in 1..Len(last) : last[i].type \notin {"page", "failed"}
        <4>1. \A i \in 1..Len(last) : i = 1 \/ i = 2
          BY <2>1
        <4>2. QED
          BY <2>1, <4>1
      <3>2. QED
        BY <3>1 DEF Pages, Ascending, IsPage
    <2>5. ASSUME NEW t
          PROVE  /\ Pages(g, "page", t) = Pages(Taken(ring), "page", t)
                 /\ Pages(g, "failed", t) = Pages(Taken(ring), "failed", t)
                 /\ Ascending(g, t) <=> Ascending(Taken(ring), t)
      <3>1. PICK h \in Seq(Token) : h = Taken(ring)
        BY <1>5
      <3>2. /\ Pages(h \o last, "page", t) = Pages(h, "page", t)
            /\ Ascending(h \o last, t) <=> Ascending(h, t)
            /\ Pages(h \o last, "failed", t) = Pages(h, "failed", t)
        BY <2>1, <2>4, BesideNothing
      <3>3. QED
        BY <3>1, <3>2
    <2> HIDE DEF g
    <2>6. ASSUME NEW t \in Used
          PROVE  InOrder(t)' /\ Accounted(t)' /\ NamesFollow(t)' /\ ParserNamed(t)'
      <3>1. /\ Stored' \in Seq(Token) /\ Ascending(Stored', t)
            /\ Pages(Stored', "page", t) = {} /\ Pages(Dropped', "failed", t) = {}
        BY <1>7, <2>2
      <3>2. /\ Pages(Stored, "page", t) = Pages(g, "page", t) \cup Pages(Stored', "page", t)
            /\ Pages(Dropped, "failed", t)
                 = Pages(g, "failed", t) \cup Pages(Dropped', "failed", t)
            /\ Ascending(g, t) /\ Below(Pages(g, "page", t), Pages(Stored', "page", t))
        BY <1>5, <1>6, <1>8, <2>5, <3>1
      <3>3. QED
        BY <1>1, <2>3, <3>1, <3>2, WrittenPages
    <2>7. QED
      BY <1>2, <1>4, <2>6 DEF PagesInv
  <1>11. CASE SenderFreq
    <2> DEFINE freq == [type |-> "freq"]
               g    == <<freq>>
    <2>1. freq \in Token /\ freq.type = "freq"
      BY DEF Token
    <2>2. file' = Append(file, freq) /\ UNCHANGED <<ring, skipped_msr_pages_headers>>
      BY <1>11 DEF SenderFreq, storeVars
    <2> HIDE DEF freq
    <2>3. file' = file \o g
      <3>1. file \in Seq(Token)
        BY <1>3
      <3>2. Append(file, freq) = file \o <<freq>>
        BY <2>1, <3>1
      <3>3. QED
        BY <2>2, <3>2
    <2>4. ASSUME NEW t
          PROVE  /\ g \in Seq(Token) /\ Ascending(g, t)
                 /\ Pages(g, "page", t) = {} /\ Pages(g, "failed", t) = {}
      BY <2>1, PagesOfOne
    <2> HIDE DEF g
    <2>5. ASSUME NEW t \in Used
          PROVE  InOrder(t)' /\ Accounted(t)' /\ NamesFollow(t)' /\ ParserNamed(t)'
      <3>1. Stored' = Stored /\ Dropped' = Dropped
        BY <2>2 DEF Stored, Dropped
      <3>2. /\ Pages(Stored, "page", t) = Pages(g, "page", t) \cup Pages(Stored', "page", t)
            /\ Pages(Dropped, "failed", t)
                 = Pages(g, "failed", t) \cup Pages(Dropped', "failed", t)
            /\ Ascending(g, t) /\ Below(Pages(g, "page", t), Pages(Stored', "page", t))
            /\ Stored' \in Seq(Token) /\ Ascending(Stored', t)
        BY <1>3, <1>6, <1>8, <2>4, <3>1
      <3>3. g \in Seq(Token)
        BY <2>4
      <3>4. QED
        BY <1>1, <2>3, <3>2, <3>3, WrittenPages
    <2>6. QED
      BY <1>2, <1>4, <2>5 DEF PagesInv
  <1>12. CASE CutOff
    <2>1. writer' = "cut"
      BY <1>12 DEF CutOff
    <2>2. QED
      BY <1>4, <2>1 DEF PagesInv
  <1>13. QED
    BY <1>9, <1>10, <1>11, <1>12

(* The reader moves the first token of the file to a parser, or drops one    *)
(* that is no page.                                                          *)
LEMMA ReadPages ==
  ASSUME WholeInv, writer # "cut", file # <<>>, file' = Tail(file), NEW t \in Used,
         UNCHANGED <<ord, ring, skipped_msr_pages_headers, count, new_thread_name, renames>>,
         IF IsPage(Head(file), t) THEN KeptBy(t)' = KeptBy(t) \o <<Head(file)>>
                                  ELSE KeptBy(t)' = KeptBy(t),
         IF Head(file).type = "failed" /\ Head(file).page.thread = t
           THEN MissedBy(t)' = MissedBy(t) \o <<Head(file)>>
           ELSE MissedBy(t)' = MissedBy(t)
  PROVE  /\ Shown(t)' = Shown(t) /\ Lost(t)' = Lost(t)
         /\ InOrder(t)' /\ Accounted(t)' /\ NamesFollow(t)'
  <1> DEFINE k == Head(file)
             one(type) == IF k.type = type /\ k.page.thread = t THEN {k.page} ELSE {}
  <1>1. InOrder(t) /\ Accounted(t) /\ NamesFollow(t) /\ TrackInv /\ OrdsCounted
    BY EachThread DEF WholeInv
  <1>2. /\ file \in Seq(Token) /\ Stored \in Seq(Token)
        /\ KeptBy(t) \in Seq(Token) /\ MissedBy(t) \in Seq(Token)
    BY <1>1, PlacesTyped, KeptTyped
  <1>3. Stored' = Stored /\ Dropped' = Dropped
    BY DEF Stored, Dropped
  <1>4. k \in Token /\ file' \in Seq(Token)
    BY <1>2, HeadAndTail
  <1>5. /\ \A type : Pages(file, type, t) = Pages(file', type, t) \cup one(type)
        /\ Ascending(file, t) => /\ Ascending(file', t)
                                 /\ Below(one("page"), Pages(file', "page", t))
    <2>1. PICK f \in Seq(Token) : f = file
      BY <1>2
    <2>2. f # <<>>
      BY <2>1
    <2>3. /\ \A type : Pages(f, type, t) =
               Pages(Tail(f), type, t)
                 \cup (IF Head(f).type = type /\ Head(f).page.thread = t THEN {Head(f).page}
                                                                         ELSE {})
          /\ Ascending(f, t) =>
               /\ Ascending(Tail(f), t)
               /\ IsPage(Head(f), t) => Below({Head(f).page}, Pages(Tail(f), "page", t))
      BY <2>2, PagesTail
    <2>4. \A S : Below({}, S)
      BY DEF Below
    <2>5. QED
      BY <2>1, <2>3, <2>4 DEF IsPage
  <1>6. /\ <<k>> \in Seq(Token) /\ Ascending(<<k>>, t)
        /\ \A type : Pages(<<k>>, type, t) = one(type)
    BY <1>4, PagesOfOne
  <1>7. /\ Pages(KeptBy(t)', "page", t) = Pages(KeptBy(t), "page", t) \cup one("page")
        /\ KeptBy(t)' \in Seq(Token)
        /\ Ascending(KeptBy(t), t) /\ Below(Pages(KeptBy(t), "page", t), one("page"))
             => Ascending(KeptBy(t)', t)
    <2>1. PICK kept \in Seq(Token), g \in Seq(Token) : kept = KeptBy(t) /\ g = <<k>>
      BY <1>2, <1>6
    <2>2. /\ kept \o g \in Seq(Token)
          /\ Pages(kept \o g, "page", t) = Pages(kept, "page", t) \cup Pages(g, "page", t)
          /\ Ascending(kept \o g, t) <=> /\ Ascending(kept, t) /\ Ascending(g, t)
                                         /\ Below(Pages(kept, "page", t), Pages(g, "page", t))
      BY Parts, PagesConcat, AscendingConcat
    <2>3. CASE IsPage(k, t)
      <3>1. KeptBy(t)' = kept \o g
        BY <2>1, <2>3
      <3>2. QED
        BY <1>6, <2>1, <2>2, <3>1
    <2>4. CASE ~IsPage(k, t)
      <3>1. KeptBy(t)' = kept /\ one("page") = {}
        BY <2>1, <2>4 DEF IsPage
      <3>2. QED
        BY <2>1, <3>1
    <2>5. QED
      BY <2>3, <2>4
  <1>8. Pages(MissedBy(t)', "failed", t) = Pages(MissedBy(t), "failed", t) \cup one("failed")
    <2>1. PICK missed \in Seq(Token), g \in Seq(Token) : missed = MissedBy(t) /\ g = <<k>>
      BY <1>2, <1>6
    <2>2. Pages(missed \o g, "failed", t) = Pages(missed, "failed", t) \cup Pages(g, "failed", t)
      BY PagesConcat
    <2>3. CASE k.type = "failed" /\ k.page.thread = t
      <3>1. MissedBy(t)' = missed \o g
        BY <2>1, <2>3
      <3>2. QED
        BY <1>6, <2>1, <2>2, <3>1
    <2>4. CASE ~(k.type = "failed" /\ k.page.thread = t)
      BY <2>4
    <2>5. QED
      BY <2>3, <2>4
  <1> HIDE DEF one, k
  <1>9. Shown(t)' = Shown(t) /\ Lost(t)' = Lost(t)
    <2>1. Shown(t)' = Shown(t)
      BY <1>3, <1>5, <1>7 DEF Shown
    <2>2. Lost(t)' = Lost(t)
      BY <1>3, <1>5, <1>8 DEF Lost
    <2>3. QED
      BY <2>1, <2>2
  <1>10. InOrder(t)'
    <2>1. /\ Ascending(KeptBy(t), t) /\ Ascending(file, t) /\ Ascending(Stored, t)
          /\ Below(Pages(KeptBy(t), "page", t), Pages(file, "page", t))
          /\ Below(Pages(KeptBy(t), "page", t) \cup Pages(file, "page", t),
                   Pages(Stored, "page", t))
      BY <1>1, <1>2, ThreeAscending DEF InOrder
    <2>2. PICK K, F, G, O, S : /\ K = Pages(KeptBy(t), "page", t) /\ F = Pages(file, "page", t)
                               /\ G = Pages(file', "page", t) /\ O = one("page")
                               /\ S = Pages(Stored, "page", t)
      OBVIOUS
    <2>3. F = G \cup O /\ Below(K, F) /\ Below(K \cup F, S) /\ Below(O, G)
      BY <1>5, <2>1, <2>2
    <2>4. Below(K, O) /\ Below(K \cup O, G) /\ Below((K \cup O) \cup G, S)
      BY <2>3 DEF Below
    <2>5. Ascending(KeptBy(t)', t) /\ Ascending(file', t)
      BY <1>5, <1>7, <2>1, <2>2, <2>4
    <2>6. Pages(KeptBy(t)', "page", t) = K \cup O
      BY <1>7, <2>2
    <2>7. PICK kept \in Seq(Token), f \in Seq(Token), h \in Seq(Token) :
            kept = KeptBy(t)' /\ f = file' /\ h = Stored
      BY <1>2, <1>4, <1>7
    <2>8. Ascending((kept \o f) \o h, t) <=>
            /\ Ascending(kept, t) /\ Ascending(f, t) /\ Ascending(h, t)
            /\ Below(Pages(kept, "page", t), Pages(f, "page", t))
            /\ Below(Pages(kept, "page", t) \cup Pages(f, "page", t), Pages(h, "page", t))
      BY ThreeAscending
    <2>9. Ascending((kept \o f) \o h, t)
      BY <2>1, <2>2, <2>4, <2>5, <2>6, <2>7, <2>8
    <2>10. QED
      BY <1>3, <2>7, <2>9 DEF InOrder
  <1>11. QED
    BY <1>1, <1>9, <1>10, Moved

(* The page that is read comes behind all that its parser keeps.  Without a  *)
(* name it follows the last of these, or one that was lost.                  *)
LEMMA LastName ==
  ASSUME WholeInv, writer # "cut", file # <<>>, NEW t \in Used, IsPage(Head(file), t),
         Head(file).page.new_thread_name = NoName, Lost(t) = {}
  PROVE  LET page   == Head(file).page
             parser == event_parsers[ord[t]]
         IN /\ parser.event_buf # <<>>
            /\ page.renamed = parser.event_buf[Len(parser.event_buf)].renamed
  <1> DEFINE page   == Head(file).page
             buf == event_parsers[ord[t]].event_buf
  <1>1. InOrder(t) /\ Accounted(t) /\ NamesFollow(t) /\ TrackInv /\ OrdsCounted
    BY EachThread DEF WholeInv
  <1>2. /\ file \in Seq(Token) /\ Stored \in Seq(Token) /\ KeptBy(t) \in Seq(Token)
        /\ buf \in Seq(PagesOf(ord[t])) /\ buf \in Seq(Page)
    BY <1>1, PlacesTyped, KeptTyped, ParserTyped
  <1>3. /\ Ascending(KeptBy(t), t) /\ Ascending(file, t) /\ Ascending(Stored, t)
        /\ Below(Pages(KeptBy(t), "page", t), Pages(file, "page", t))
        /\ Below(Pages(KeptBy(t), "page", t) \cup Pages(file, "page", t),
                 Pages(Stored, "page", t))
    BY <1>1, <1>2, ThreeAscending DEF InOrder
  <1>4. /\ Pages(file, "page", t) = Pages(Tail(file), "page", t) \cup {page}
        /\ Below({page}, Pages(Tail(file), "page", t))
    <2>1. /\ \A type : Pages(file, type, t) =
               Pages(Tail(file), type, t)
                 \cup (IF Head(file).type = type /\ Head(file).page.thread = t
                       THEN {Head(file).page} ELSE {})
          /\ Ascending(file, t) /\ IsPage(Head(file), t) =>
               Below({Head(file).page}, Pages(Tail(file), "page", t))
      BY <1>2, PagesTail
    <2>2. QED
      BY <1>3, <2>1 DEF IsPage
  <1>5. page \in Shown(t) /\ \A p \in Shown(t) : p.no \in 1..count[t]
    BY <1>4, NumbersShown DEF Shown
  <1>6. page.no # 1 /\ page.no \in 1..count[t] /\ count[t] \in Nat
    BY <1>1, <1>5, NumbersShown DEF NamesFollow
  <1>7. PICK q \in Shown(t) : q.no = page.no - 1
    <2>1. page.no - 1 \in 1..count[t]
      BY <1>6
    <2>2. Numbers(Lost(t)) = {}
      BY DEF Numbers
    <2>3. page.no - 1 \in Numbers(Shown(t))
      BY <1>1, <2>1, <2>2 DEF Accounted
    <2>4. QED
      BY <2>3 DEF Numbers
  <1>8. q \in Pages(KeptBy(t), "page", t)
    <2>1. ~(page.no < q.no) /\ q.no # page.no
      BY <1>6, <1>7
    <2>2. q \notin Pages(Tail(file), "page", t) /\ q # page
      BY <1>4, <2>1 DEF Below
    <2>3. q \notin Pages(Stored, "page", t)
      BY <1>3, <1>4, <2>1 DEF Below
    <2>4. QED
      BY <1>4, <1>7, <2>2, <2>3 DEF Shown
  <1>9. /\ Len(KeptBy(t)) = Len(buf) /\ Len(buf) \in Nat
        /\ \A i \in 1..Len(buf) : KeptBy(t)[i].type = "page" /\ KeptBy(t)[i].page = buf[i]
    <2>1. KeptBy(t) = Tokens("page", buf)
      BY DEF KeptBy
    <2>2. PICK s \in Seq(Page) : s = buf
      BY <1>2
    <2>3. /\ Len(Tokens("page", s)) = Len(s) /\ Len(s) \in Nat
          /\ \A i \in 1..Len(s) : /\ Tokens("page", s)[i].type = "page"
                                  /\ Tokens("page", s)[i].page = s[i]
      BY DEF Tokens
    <2>4. QED
      BY <2>1, <2>2, <2>3
  <1>10. PICK i \in 1..Len(buf) : q = buf[i]
    <2>1. PICK i \in 1..Len(KeptBy(t)) : q = KeptBy(t)[i].page
      BY <1>8 DEF Pages
    <2>2. QED
      BY <1>9, <2>1
  <1>11. Len(buf) \in 1..Len(buf) /\ buf # <<>>
    BY <1>2, <1>9, <1>10
  <1>12. ASSUME NEW j \in 1..Len(buf)
         PROVE  IsPage(KeptBy(t)[j], t) /\ buf[j] \in Pages(KeptBy(t), "page", t)
    <2>1. buf[j] \in PagesOf(ord[t])
      BY <1>2
    <2>2. buf[j].thread = t
      BY <1>1, <2>1 DEF PagesOf, TaggedPage, Page, AnyPage, TrackInv, OrdsApart
    <2>3. KeptBy(t)[j].type = "page" /\ KeptBy(t)[j].page = buf[j]
      BY <1>9
    <2>4. QED
      BY <1>9, <2>2, <2>3 DEF IsPage, Pages
  <1> DEFINE last == buf[Len(buf)]
  <1>13. last \in Shown(t) /\ last.no < page.no
    <2>1. last \in Pages(KeptBy(t), "page", t)
      BY <1>11, <1>12
    <2>2. QED
      BY <1>3, <1>4, <2>1 DEF Below, Shown
  <1>14. q.no =< last.no
    <2>1. CASE i = Len(buf)
      BY <1>5, <1>10, <1>13, <2>1
    <2>2. CASE i < Len(buf)
      <3>1. q.no < last.no
        <4>1. KeptBy(t)[i].page = q /\ KeptBy(t)[Len(buf)].page = last
          BY <1>9, <1>10, <1>11
        <4>2. IsPage(KeptBy(t)[i], t) /\ IsPage(KeptBy(t)[Len(buf)], t)
          BY <1>11, <1>12
        <4>3. QED
          BY <1>3, <1>9, <1>11, <2>2, <4>1, <4>2 DEF Ascending
      <3>2. QED
        BY <1>5, <1>13, <3>1
    <2>3. QED
      BY <1>9, <2>1, <2>2
  <1>15. page.no = last.no + 1
    <2>1. last.no \in 1..count[t] /\ q.no \in 1..count[t]
      BY <1>5, <1>13
    <2> HIDE DEF last, page
    <2>2. QED
      BY <1>6, <1>7, <1>13, <1>14, <2>1
  <1>16. page.renamed = last.renamed
    BY <1>1, <1>5, <1>13, <1>15 DEF NamesFollow
  <1>17. QED
    BY <1>11, <1>16

(* What ReadPage and ReadFailed do to the parser of the page's thread.       *)
LEMMA ParserReads ==
  ASSUME TrackInv, OrdsCounted, file # <<>>, Head(file).type \in {"page", "failed"}
  PROVE  LET page == Head(file).page
             u    == page.thread
         IN /\ u \in Used /\ ord[u] = page.thread_ord_id /\ ord[u] \in Ord /\ page \in Page
            /\ Head(file) = [type |-> Head(file).type, page |-> page]
            /\ \A t \in Used : t # u => ord[t] # ord[u]
            /\ \A t \in Used : event_parsers[ord[t]] \in Parser(ord[t])
            /\ \A parser : [event_parsers EXCEPT ![ord[u]] = parser][ord[u]] = parser
            /\ \A t \in Used : \A parser :
                 t # u => [event_parsers EXCEPT ![ord[u]] = parser][ord[t]] = event_parsers[ord[t]]
  <1> DEFINE page == Head(file).page
             u    == page.thread
  <1>1. Head(file) \in TaggedToken /\ Head(file) \in Token
    <2>1. file \in Seq(TaggedToken) /\ file \in Seq(Token)
      BY DEF TrackInv, PagesTagged, StreamInv, FileFramed
    <2>2. QED
      BY <2>1
  <1>2. page \in TaggedPage
    BY <1>1 DEF TaggedToken
  <1>3. page \in Page /\ u \in Used /\ ord[u] = page.thread_ord_id
    BY <1>2, PageFields DEF TaggedPage, Used
  <1>4. Head(file) = [type |-> Head(file).type, page |-> page]
    BY <1>1 DEF Token
  <1> HIDE DEF page, u
  <1>5. ord[u] \in Ord /\ \A t \in Used : ord[t] \in Ord
    BY <1>3, OrdsBounded
  <1>6. \A t \in Used : t # u => ord[t] # ord[u]
    BY <1>3 DEF TrackInv, OrdsApart, Used
  <1>7. /\ event_parsers = [o \in Ord |-> event_parsers[o]]
        /\ \A t \in Used : event_parsers[ord[t]] \in Parser(ord[t])
    BY <1>5 DEF TrackInv, ParsersTagged
  <1>8. \A parser : [event_parsers EXCEPT ![ord[u]] = parser][ord[u]] = parser
    BY <1>5, <1>7
  <1>9. \A t \in Used : \A parser :
          t # u => [event_parsers EXCEPT ![ord[u]] = parser][ord[t]] = event_parsers[ord[t]]
    BY <1>5, <1>6, <1>7
  <1>10. QED
    BY <1>3, <1>4, <1>5, <1>6, <1>7, <1>8, <1>9 DEF page, u

LEMMA ReaderPages ==
  ASSUME WholeInv,
         ReadInfo \/ ReadData \/ ReadPage \/ ReadFailed \/ ReadFreq \/ ReadEnd
  PROVE  PagesInv'
  <1>1. /\ file # <<>> /\ file' = Tail(file)
        /\ UNCHANGED <<ord, ring, skipped_msr_pages_headers, count, new_thread_name, renames,
                       writer>>
    BY DEF ReadInfo, ReadData, ReadPage, ReadFailed, ReadFreq, ReadEnd, Reads, threadVars,
           storeVars, fileVars
  <1>2. TrackInv /\ OrdsCounted /\ Used' = Used
    BY <1>1 DEF WholeInv, Used
  <1>3. \A t \in Thread : t \notin Used' => count'[t] = 0 /\ new_thread_name'[t] # NoName
    BY <1>1, <1>2 DEF WholeInv, PagesInv
  <1>4. SUFFICES ASSUME writer # "cut", NEW t \in Used
                 PROVE  InOrder(t)' /\ Accounted(t)' /\ NamesFollow(t)' /\ ParserNamed(t)'
    BY <1>1, <1>2, <1>3 DEF PagesInv
  <1>5. ParserNamed(t)
    BY <1>4, EachThread
  <1>6. ASSUME event_parsers'[ord[t]] = event_parsers[ord[t]], ~IsPage(Head(file), t),
               ~(Head(file).type = "failed" /\ Head(file).page.thread = t)
        PROVE  InOrder(t)' /\ Accounted(t)' /\ NamesFollow(t)' /\ ParserNamed(t)'
    <2>1. KeptBy(t)' = KeptBy(t) /\ MissedBy(t)' = MissedBy(t)
      BY <1>1, <1>6 DEF KeptBy, MissedBy
    <2>2. Lost(t)' = Lost(t) /\ InOrder(t)' /\ Accounted(t)' /\ NamesFollow(t)'
      BY <1>1, <1>4, <1>6, <2>1, ReadPages
    <2>3. ParserNamed(t)'
      BY <1>1, <1>5, <1>6, <2>2 DEF ParserNamed
    <2>4. QED
      BY <2>2, <2>3
  <1>7. CASE ReadInfo \/ ReadData \/ ReadFreq \/ ReadEnd
    <2>1. event_parsers' = event_parsers /\ Head(file).type \notin {"page", "failed"}
      BY <1>7 DEF ReadInfo, ReadData, ReadFreq, ReadEnd, Reads, parserVars
    <2>2. QED
      BY <1>6, <2>1 DEF IsPage
  <1> DEFINE page == Head(file).page
             u    == page.thread
  <1>8. CASE ReadPage
    <2> DEFINE read == WithPage(Named(event_parsers[ord[u]], page), page)
    <2>1. /\ Head(file).type = "page"
          /\ event_parsers' = [event_parsers EXCEPT ![page.thread_ord_id] =
                                 WithPage(Named(@, page), page)]
      BY <1>8 DEF ReadPage, Reads
    <2>2. /\ u \in Used /\ ord[u] = page.thread_ord_id /\ page \in Page
          /\ Head(file) = [type |-> "page", page |-> page]
          /\ event_parsers[ord[t]] \in Parser(ord[t])
      BY <1>1, <1>2, <2>1, ParserReads
    <2>3. /\ event_parsers'[ord[u]] = read
          /\ t # u => event_parsers'[ord[t]] = event_parsers[ord[t]]
      <3>1. event_parsers' = [event_parsers EXCEPT ![ord[u]] = read]
        BY <2>1, <2>2
      <3>2. PICK parser : parser = read
        OBVIOUS
      <3> HIDE DEF read
      <3>3. /\ [event_parsers EXCEPT ![ord[u]] = parser][ord[u]] = parser
            /\ t # u =>
                 [event_parsers EXCEPT ![ord[u]] = parser][ord[t]] = event_parsers[ord[t]]
        BY <1>1, <1>2, <1>4, <2>1, ParserReads
      <3>4. QED
        BY <3>1, <3>2, <3>3
    <2>4. CASE t # u
      BY <1>6, <2>1, <2>3, <2>4 DEF IsPage
    <2>5. CASE t = u
      <3> HIDE DEF read, page, u
      <3>1. PICK parser \in Parser(ord[t]) : parser = event_parsers[ord[t]]
        BY <2>2
      <3>2. /\ parser.event_buf \in Seq(Page) /\ parser.missed_events \in Seq(Page)
        BY <1>2, <3>1, ParserTyped
      <3>3. /\ event_parsers'[ord'[t]] = WithPage(Named(parser, page), page)
        BY <1>1, <2>3, <2>5, <3>1 DEF read
      <3>4. /\ WithPage(Named(parser, page), page).event_buf = Append(parser.event_buf, page)
            /\ WithPage(Named(parser, page), page).missed_events = parser.missed_events
            /\ WithPage(Named(parser, page), page).thread_name =
                 IF page.new_thread_name = NoName THEN parser.thread_name
                                                  ELSE page.new_thread_name
        BY DEF WithPage, Named, Parser
      <3>5. KeptBy(t)' = KeptBy(t) \o <<Head(file)>> /\ MissedBy(t)' = MissedBy(t)
        <4>1. KeptBy(t)' = Tokens("page", Append(parser.event_buf, page))
          BY <3>3, <3>4 DEF KeptBy
        <4>2. Tokens("page", Append(parser.event_buf, page))
                = Tokens("page", parser.event_buf) \o <<[type |-> "page", page |-> page]>>
          BY <2>2, <3>2, TokensAppend
        <4>3. MissedBy(t)' = MissedBy(t)
          BY <3>1, <3>3, <3>4 DEF MissedBy
        <4>4. QED
          BY <2>2, <3>1, <4>1, <4>2, <4>3 DEF KeptBy
      <3>6. IsPage(Head(file), t) /\ Head(file).type # "failed"
        BY <2>1, <2>5 DEF IsPage, u, page
      <3>7. Lost(t)' = Lost(t) /\ InOrder(t)' /\ Accounted(t)' /\ NamesFollow(t)'
        BY <1>1, <1>4, <3>5, <3>6, ReadPages
      <3>8. ParserNamed(t)'
        <4>1. Append(parser.event_buf, page)[Len(Append(parser.event_buf, page))] = page
          BY <2>2, <3>2
        <4>2. SUFFICES ASSUME Lost(t) = {}
                       PROVE  event_parsers'[ord'[t]].thread_name = <<t, page.renamed>>
          BY <3>3, <3>4, <3>7, <4>1 DEF ParserNamed
        <4>3. CASE page.new_thread_name # NoName
          <5>1. page.new_thread_name = <<t, page.renamed>>
            BY <2>2, <2>5, <4>3, PageFields DEF u
          <5>2. QED
            BY <3>3, <3>4, <4>3, <5>1
        <4>4. CASE page.new_thread_name = NoName
          <5>1. /\ parser.event_buf # <<>>
                /\ page.renamed = parser.event_buf[Len(parser.event_buf)].renamed
            BY <1>1, <1>4, <3>1, <3>6, <4>2, <4>4, LastName DEF page
          <5>2. parser.thread_name = <<t, page.renamed>>
            BY <1>5, <3>1, <4>2, <5>1 DEF ParserNamed
          <5>3. QED
            BY <3>3, <3>4, <4>4, <5>2
        <4>5. QED
          BY <4>3, <4>4
      <3>9. QED
        BY <3>7, <3>8
    <2>6. QED
      BY <2>4, <2>5
  <1>9. CASE ReadFailed
    <2> DEFINE old  == event_parsers[ord[u]]
               read == [old EXCEPT !.missed_events = Append(@, page)]
    <2>1. /\ Head(file).type = "failed"
          /\ event_parsers' = [event_parsers EXCEPT ![page.thread_ord_id].missed_events =
                                 Append(@, page)]
      BY <1>9 DEF ReadFailed, Reads
    <2>2. /\ u \in Used /\ ord[u] = page.thread_ord_id /\ page \in Page
          /\ Head(file) = [type |-> "failed", page |-> page]
          /\ event_parsers[ord[t]] \in Parser(ord[t])
      BY <1>1, <1>2, <2>1, ParserReads
    <2>3. /\ event_parsers'[ord[u]] = read
          /\ t # u => event_parsers'[ord[t]] = event_parsers[ord[t]]
      <3>1. event_parsers' = [event_parsers EXCEPT ![ord[u]] = read]
        BY <2>1, <2>2
      <3>2. PICK parser : parser = read
        OBVIOUS
      <3> HIDE DEF read
      <3>3. /\ [event_parsers EXCEPT ![ord[u]] = parser][ord[u]] = parser
            /\ t # u =>
                 [event_parsers EXCEPT ![ord[u]] = parser][ord[t]] = event_parsers[ord[t]]
        BY <1>1, <1>2, <1>4, <2>1, ParserReads
      <3>4. QED
        BY <3>1, <3>2, <3>3
    <2>4. ~IsPage(Head(file), t)
      BY <2>1 DEF IsPage
    <2>5. CASE t # u
      BY <1>6, <2>1, <2>3, <2>4, <2>5
    <2>6. CASE t = u
      <3> HIDE DEF read, page, u
      <3>1. PICK parser \in Parser(ord[t]) : parser = event_parsers[ord[t]]
        BY <2>2
      <3>2. /\ parser.event_buf \in Seq(Page) /\ parser.missed_events \in Seq(Page)
        BY <1>2, <3>1, ParserTyped
      <3>3. /\ event_parsers'[ord'[t]] = [parser EXCEPT !.missed_events = Append(@, page)]
        BY <1>1, <2>3, <2>6, <3>1 DEF read
      <3>4. /\ event_parsers'[ord'[t]].event_buf = parser.event_buf
            /\ event_parsers'[ord'[t]].missed_events = Append(parser.missed_events, page)
            /\ event_parsers'[ord'[t]].thread_name = parser.thread_name
        BY <3>3 DEF Parser
      <3>5. KeptBy(t)' = KeptBy(t) /\ MissedBy(t)' = MissedBy(t) \o <<Head(file)>>
        <4>1. MissedBy(t)' = Tokens("failed", Append(parser.missed_events, page))
          BY <3>4 DEF MissedBy
        <4>2. Tokens("failed", Append(parser.missed_events, page))
                = Tokens("failed", parser.missed_events) \o <<[type |-> "failed", page |-> page]>>
          BY <2>2, <3>2, TokensAppend
        <4>3. KeptBy(t)' = KeptBy(t)
          BY <3>1, <3>4 DEF KeptBy
        <4>4. QED
          BY <2>2, <3>1, <4>1, <4>2, <4>3 DEF MissedBy
      <3>6. Head(file).type = "failed" /\ Head(file).page.thread = t
        BY <2>1, <2>6 DEF u, page
      <3>7. Lost(t)' = Lost(t) /\ InOrder(t)' /\ Accounted(t)' /\ NamesFollow(t)'
        BY <1>1, <1>4, <2>4, <3>5, <3>6, ReadPages
      <3>8. ParserNamed(t)'
        BY <1>5, <3>1, <3>4, <3>7 DEF ParserNamed
      <3>9. QED
        BY <3>7, <3>8
    <2>7. QED
      BY <2>5, <2>6
  <1>10. QED
    BY <1>7, <1>8, <1>9

LEMMA NextPages ==
  ASSUME WholeInv, [Next]_vars
  PROVE  PagesInv'
  <1>1. CASE phase = "wait" /\ ((\E t \in Thread : FirstEvent(t) \/ set_cur_thread_name(t)
                                                     \/ Flush(t)) \/ DropOldest)
    BY <1>1, FirstEventPages, RenamePages, FlushPages, DropPages
  <1>2. CASE ReadFails \/ ParseThread \/ Save \/ UNCHANGED vars
    <2>1. UNCHANGED <<ord, file, ring, skipped_msr_pages_headers, event_parsers, count,
                      new_thread_name, renames, writer>>
      BY <1>2 DEF ReadFails, ParseThread, Save, vars, threadVars, storeVars, fileVars, parserVars
    <2>2. Used' = Used
      BY <2>1 DEF Used
    <2>3. ASSUME writer # "cut", NEW t \in Used
          PROVE  InOrder(t)' /\ Accounted(t)' /\ NamesFollow(t)' /\ ParserNamed(t)'
      <3>1. InOrder(t) /\ Accounted(t) /\ NamesFollow(t) /\ ParserNamed(t)
        BY <2>3, EachThread
      <3>2. /\ Shown(t)' = Shown(t) /\ Lost(t)' = Lost(t) /\ (InOrder(t)' <=> InOrder(t))
            /\ (ParserNamed(t)' <=> ParserNamed(t))
        BY <2>1, Unmoved
      <3>3. QED
        BY <2>1, <3>1, <3>2, Moved
    <2>4. QED
      BY <2>1, <2>2, <2>3 DEF WholeInv, PagesInv
  <1>3. QED
    BY <1>1, <1>2, SenderPages, ReaderPages DEF Next, Done

LEMMA InitWhole == Init => WholeInv
  BY InitTracks, InitCounted, InitEnd, InitPages DEF WholeInv

LEMMA NextWhole == WholeInv /\ [Next]_vars => WholeInv'
  <1> SUFFICES ASSUME WholeInv, [Next]_vars PROVE WholeInv'
    OBVIOUS
  <1>1. TrackInv'
    BY NextTracks DEF WholeInv
  <1>2. OrdsCounted'
    BY NextCounted DEF WholeInv
  <1>3. EndInv'
    BY NextEnd DEF WholeInv, TrackInv
  <1>4. QED
    BY <1>1, <1>2, <1>3, NextPages DEF WholeInv
-----------------------------------------------------------------------------
(***************************************************************************)
(* parse_and_save.  The threads with ord ids below next have their pages   *)
(* in the trace, and each track has the name of its thread's parser.       *)
(***************************************************************************)
Traced == [i \in 1..Len(trace) |-> [type |-> "page", page |-> trace[i].page]]

IsParsed(t) == ord[t] < next

TraceOf(t) ==
  /\ Pages(Traced, "page", t) = IF IsParsed(t) THEN Pages(KeptBy(t), "page", t) ELSE {}
  /\ Ascending(Traced, t)

NameOf(t) ==
  thread_descriptors[TrackOf(ord[t])] =
    IF IsParsed(t) /\ event_parsers[ord[t]].event_buf # <<>>
      THEN event_parsers[ord[t]].thread_name ELSE NoTrack

ParseInv ==
  /\ next \in 1..(Cardinality(Thread) + 1)
  /\ phase = "saved" => next = Cardinality(Thread) + 1
  /\ thread_descriptors \in [Track -> Name \cup {NoName, NoTrack}]
  /\ phase \notin {"parse", "saved"} =>
       next = 1 /\ trace = <<>> /\ thread_descriptors = [k \in Track |-> NoTrack]
  /\ phase \in {"parse", "saved"} => \A t \in Used : TraceOf(t) /\ (IdsApart => NameOf(t))

LEMMA ParserFields ==
  ASSUME TrackInv, NEW o \in Ord
  PROVE  /\ event_parsers[o] \in Parser(o)
         /\ event_parsers[o].thread_name \in Name \cup {NoName}
         /\ event_parsers[o].thread_id \in Tid \cup {NoTid}
         /\ event_parsers[o].event_buf \in Seq(PagesOf(o))
         /\ event_parsers[o].event_buf \in Seq(Page)
         /\ TrackOf(o) \in Track
  <1>1. event_parsers[o] \in Parser(o)
    BY DEF TrackInv, ParsersTagged
  <1>2. NamesOf(o) \subseteq Name /\ TidsOf(o) \subseteq Tid \cup {NoTid}
    BY DEF NamesOf, TidsOf, Used, TrackInv, StreamInv, ThreadsTyped
  <1>3. /\ event_parsers[o].thread_name \in Name \cup {NoName}
        /\ event_parsers[o].thread_id \in Tid \cup {NoTid}
        /\ event_parsers[o].event_buf \in Seq(PagesOf(o))
    BY <1>1, <1>2 DEF Parser
  <1>4. event_parsers[o].event_buf \in Seq(Page)
    BY <1>3, WiderSeq DEF PagesOf, TaggedPage
  <1>5. TrackOf(o) \in Track
    BY <1>3 DEF TrackOf, Track
  <1>6. QED
    BY <1>1, <1>3, <1>4, <1>5

LEMMA OwnTracks ==
  ASSUME TrackInv, OrdsCounted, IdsApart, NEW t \in Used, NEW u \in Used, t # u
  PROVE  TrackOf(ord[t]) # TrackOf(ord[u])
  <1>1. \A x \in Used : TrackOf(ord[x]) \in {tid[x], ord[x]}
    <2> TAKE x \in Used
    <2>1. event_parsers[ord[x]].thread_id \in TidsOf(ord[x])
      BY ParserTyped DEF Parser
    <2>2. TidsOf(ord[x]) \subseteq {NoTid, tid[x]}
      BY DEF TidsOf, TrackInv, OrdsApart, Used
    <2>3. QED
      BY <2>1, <2>2 DEF TrackOf
  <1>2. ord[t] # ord[u]
    BY DEF TrackInv, OrdsApart, Used
  <1>3. tid[t] # tid[u] /\ tid[t] # ord[u] /\ tid[u] # ord[t]
    BY DEF IdsApart
  <1>4. QED
    BY <1>1, <1>2, <1>3

LEMMA EntryFields ==
  ASSUME TrackInv, NEW i \in 1..Len(trace)
  PROVE  /\ trace[i].page \in TaggedPage /\ trace[i].page \in Page
         /\ trace[i].page.thread \in Used
         /\ trace[i].page.thread_ord_id = ord[trace[i].page.thread]
         /\ trace[i].track = TrackOf(ord[trace[i].page.thread])
  <1>1. trace[i] \in Entry
    BY DEF TrackInv, TraceTagged
  <1>2. PICK p \in TaggedPage : /\ p.thread_ord_id \in Ord
                                /\ trace[i] = [track |-> TrackOf(p.thread_ord_id), page |-> p]
    BY <1>1 DEF Entry
  <1>3. /\ p \in Page /\ p.thread \in Used /\ p.thread_ord_id = ord[p.thread]
        /\ trace[i].page = p /\ trace[i].track = TrackOf(ord[p.thread])
    BY <1>2, PageFields DEF TaggedPage, Used
  <1>4. QED
    BY <1>3

LEMMA TracedTyped ==
  ASSUME TrackInv
  PROVE  /\ Traced \in Seq(Token) /\ Len(Traced) = Len(trace) /\ Len(trace) \in Nat
         /\ \A i \in 1..Len(trace) : Traced[i].type = "page" /\ Traced[i].page = trace[i].page
  <1>1. Len(trace) \in Nat
    BY DEF TrackInv, TraceTagged
  <1>2. \A i \in 1..Len(trace) : [type |-> "page", page |-> trace[i].page] \in Token
    BY EntryFields DEF Token
  <1>3. QED
    BY <1>1, <1>2 DEF Traced

(* The pages of one parser come behind those that are in the trace.          *)
LEMMA TracedGrows ==
  ASSUME TrackInv, ParseThread
  PROVE  /\ next \in Ord
         /\ Traced' = Traced \o Tokens("page", event_parsers[next].event_buf)
  <1> DEFINE shown == event_parsers[next].event_buf
             more  == [i \in 1..Len(shown) |-> [track |-> TrackOf(next), page |-> shown[i]]]
             f     == Tokens("page", shown)
  <1>1. next \in Ord /\ trace' = trace \o more
    BY DEF ParseThread
  <1>2. shown \in Seq(Page) /\ Len(shown) \in Nat
    BY <1>1, ParserFields
  <1>3. f \in Seq(Token) /\ Len(f) = Len(shown)
        /\ \A i \in 1..Len(shown) : f[i] = [type |-> "page", page |-> shown[i]]
    <2>1. PICK s \in Seq(Page) : s = shown
      BY <1>2
    <2>2. Tokens("page", s) \in Seq(Token) /\ Len(Tokens("page", s)) = Len(s)
      BY TokensType
    <2>3. \A i \in 1..Len(s) : Tokens("page", s)[i] = [type |-> "page", page |-> s[i]]
      BY DEF Tokens
    <2>4. QED
      BY <2>1, <2>2, <2>3
  <1>4. /\ more = [i \in 1..Len(shown) |-> more[i]] /\ Len(more) = Len(shown)
        /\ \A i \in 1..Len(shown) : more[i].page = shown[i]
        /\ more \in Seq({more[i] : i \in 1..Len(shown)})
    <2>1. more = [i \in 1..Len(shown) |-> more[i]] /\ Len(more) = Len(shown)
      BY <1>2
    <2>2. \A i \in 1..Len(shown) : more[i].page = shown[i]
      OBVIOUS
    <2> HIDE DEF more
    <2>3. more \in Seq({more[i] : i \in 1..Len(shown)})
      <3> DEFINE S == {more[i] : i \in 1..Len(shown)}
      <3>1. \A i \in 1..Len(shown) : more[i] \in S
        OBVIOUS
      <3> HIDE DEF S
      <3>2. more \in Seq(S)
        BY <1>2, <2>1, <3>1
      <3>3. QED
        BY <3>2 DEF S
    <2>4. QED
      BY <2>1, <2>2, <2>3
  <1>5. trace \in Seq(Entry)
    BY DEF TrackInv, TraceTagged
  <1> HIDE DEF more, f, shown
  <1>6. /\ Len(trace') = Len(trace) + Len(shown) /\ Len(trace) \in Nat
        /\ \A i \in 1..Len(trace) : trace'[i] = trace[i]
        /\ \A i \in 1..Len(shown) : trace'[Len(trace) + i] = more[i]
    <2> DEFINE S == Entry \cup {more[i] : i \in 1..Len(shown)}
    <2>1. trace \in Seq(S) /\ more \in Seq(S)
      BY <1>4, <1>5, WiderSeq
    <2>2. PICK g \in Seq(S), h \in Seq(S) : g = trace /\ h = more
      BY <2>1
    <2>3. /\ Len(g \o h) = Len(g) + Len(h) /\ Len(g) \in Nat
          /\ \A i \in 1..Len(g) : (g \o h)[i] = g[i]
          /\ \A i \in 1..Len(h) : (g \o h)[Len(g) + i] = h[i]
      BY Parts
    <2>4. QED
      BY <1>1, <1>4, <2>2, <2>3
  <1>7. /\ Traced \in Seq(Token) /\ Len(Traced) = Len(trace)
        /\ \A i \in 1..Len(trace) : Traced[i] = [type |-> "page", page |-> trace[i].page]
    <2>1. Traced \in Seq(Token) /\ Len(Traced) = Len(trace)
      BY TracedTyped
    <2>2. \A i \in 1..Len(trace) : Traced[i] = [type |-> "page", page |-> trace[i].page]
      BY DEF Traced
    <2>3. QED
      BY <2>1, <2>2
  <1>8. Traced' = Traced \o f
    <2> DEFINE n == Len(trace) + Len(shown)
               h == Traced \o f
    <2>1. Traced' = [i \in 1..n |-> [type |-> "page", page |-> trace'[i].page]]
      BY <1>6 DEF Traced
    <2>2. /\ h \in Seq(Token) /\ Len(h) = n
          /\ \A i \in 1..Len(trace) : h[i] = Traced[i]
          /\ \A i \in 1..n : i > Len(trace) => /\ i - Len(trace) \in 1..Len(shown)
                                               /\ h[i] = f[i - Len(trace)]
      <3>1. PICK g \in Seq(Token), e \in Seq(Token) : g = Traced /\ e = f
        BY <1>3, <1>7
      <3>2. /\ g \o e \in Seq(Token) /\ Len(g \o e) = Len(g) + Len(e)
            /\ \A i \in 1..Len(g) : (g \o e)[i] = g[i]
            /\ \A i \in 1..Len(g \o e) : i > Len(g) => /\ i - Len(g) \in 1..Len(e)
                                                       /\ (g \o e)[i] = e[i - Len(g)]
        BY Parts
      <3>3. QED
        BY <1>3, <1>7, <3>1, <3>2
    <2> HIDE DEF h
    <2>3. ASSUME NEW i \in 1..n PROVE h[i] = [type |-> "page", page |-> trace'[i].page]
      <3>1. CASE i =< Len(trace)
        <4>1. i \in 1..Len(trace)
          BY <1>2, <1>6, <3>1
        <4>2. QED
          BY <1>6, <1>7, <2>2, <4>1
      <3>2. CASE i > Len(trace)
        <4>1. PICK j \in 1..Len(shown) : i = Len(trace) + j /\ h[i] = f[j]
          <5>1. i - Len(trace) \in 1..Len(shown) /\ h[i] = f[i - Len(trace)]
            BY <2>2, <3>2
          <5>2. i = Len(trace) + (i - Len(trace))
            BY <1>2, <1>6
          <5>3. QED
            BY <5>1, <5>2
        <4>2. trace'[i].page = shown[j]
          BY <1>4, <1>6, <4>1
        <4>3. QED
          BY <1>3, <4>1, <4>2
      <3>3. QED
        BY <1>2, <1>6, <3>1, <3>2
    <2>4. h = [i \in 1..n |-> h[i]]
      BY <2>2
    <2>5. Traced' = h
      BY <2>1, <2>3, <2>4
    <2>6. QED
      BY <2>5 DEF h
  <1>9. QED
    BY <1>1, <1>8 DEF f, shown

(* What a step leaves of it that changes neither the parsers nor the ids.    *)
LEMMA SameTracks ==
  ASSUME UNCHANGED <<ord, tid, event_parsers>>
  PROVE  /\ Used' = Used /\ (IdsApart' <=> IdsApart) /\ \A o : TrackOf(o)' = TrackOf(o)
         /\ \A t : KeptBy(t)' = KeptBy(t)
  <1>1. Used' = Used
    BY DEF Used
  <1>2. IdsApart' <=> IdsApart
    BY <1>1 DEF IdsApart
  <1>3. \A o : TrackOf(o)' = TrackOf(o)
    BY DEF TrackOf
  <1>4. \A t : KeptBy(t)' = KeptBy(t)
    BY DEF KeptBy
  <1>5. QED
    BY <1>1, <1>2, <1>3, <1>4

LEMMA ParseLays ==
  ASSUME WholeInv, ParseInv, ParseThread
  PROVE  ParseInv'
  <1> DEFINE parser == event_parsers[next]
             buf    == parser.event_buf
             track  == TrackOf(next)
             f      == Tokens("page", buf)
  <1>1. /\ phase = "parse" /\ phase' = "parse" /\ next \in Ord /\ next' = next + 1
        /\ UNCHANGED <<ord, tid, event_parsers>>
    BY DEF ParseThread, threadVars, parserVars
  <1>2. /\ TrackInv /\ OrdsCounted /\ writer # "cut"
        /\ \A t \in Used : TraceOf(t) /\ (IdsApart => NameOf(t))
        /\ thread_descriptors \in [Track -> Name \cup {NoName, NoTrack}]
    BY <1>1 DEF WholeInv, EndInv, ParseInv
  <1>3. /\ Used' = Used /\ (IdsApart' <=> IdsApart) /\ \A o : TrackOf(o)' = TrackOf(o)
        /\ \A t : KeptBy(t)' = KeptBy(t)
    BY <1>1, SameTracks
  <1>4. next \in Nat /\ next' \in 1..(Cardinality(Thread) + 1)
    BY <1>1, <1>2, OrdsBounded DEF Ord
  <1>5. /\ parser.thread_name \in Name \cup {NoName} /\ track \in Track
        /\ buf \in Seq(PagesOf(next)) /\ buf \in Seq(Page)
    BY <1>1, <1>2, ParserFields
  <1>6. thread_descriptors' =
          IF buf = <<>> \/ thread_descriptors[track] # NoTrack THEN thread_descriptors
          ELSE [thread_descriptors EXCEPT ![track] = parser.thread_name]
    BY DEF ParseThread, set_thread_name
  <1>7. f \in Seq(Token) /\ Traced' = Traced \o f /\ Traced \in Seq(Token)
    BY <1>2, <1>5, TokensType, TracedGrows, TracedTyped
  <1>8. ASSUME NEW i \in 1..Len(buf)
        PROVE  buf[i] \in Page /\ buf[i].thread \in Used /\ ord[buf[i].thread] = next
    <2>1. PICK p \in PagesOf(next) : p = buf[i]
      BY <1>5
    <2>2. p \in Page /\ p.thread \in Used /\ ord[p.thread] = next
      BY PageFields DEF PagesOf, TaggedPage, Used
    <2>3. QED
      BY <2>1, <2>2
  <1>9. \A t \in Used : ord[t] \in Nat /\ ord'[t] = ord[t]
    BY <1>1, <1>2, OrdsBounded DEF Ord
  <1> HIDE DEF parser, track, f
  <1>10. ASSUME NEW t \in Used PROVE TraceOf(t)'
    <2>1. /\ Pages(Traced', "page", t) = Pages(Traced, "page", t) \cup Pages(f, "page", t)
          /\ Ascending(Traced', t) <=>
               /\ Ascending(Traced, t) /\ Ascending(f, t)
               /\ Below(Pages(Traced, "page", t), Pages(f, "page", t))
      <3>1. PICK g \in Seq(Token) : g = Traced
        BY <1>7
      <3>2. /\ Pages(g \o f, "page", t) = Pages(g, "page", t) \cup Pages(f, "page", t)
            /\ Ascending(g \o f, t) <=>
                 /\ Ascending(g, t) /\ Ascending(f, t)
                 /\ Below(Pages(g, "page", t), Pages(f, "page", t))
        BY <1>7, PagesConcat, AscendingConcat
      <3>3. QED
        BY <1>7, <3>1, <3>2
    <2>2. /\ Pages(Traced, "page", t) = IF IsParsed(t) THEN Pages(KeptBy(t), "page", t) ELSE {}
          /\ Ascending(Traced, t)
      BY <1>2 DEF TraceOf
    <2>3. \A S : Below({}, S) /\ Below(S, {})
      BY DEF Below
    <2>4. CASE ord[t] = next
      <3>1. ~IsParsed(t) /\ IsParsed(t)'
        BY <1>1, <1>4, <1>9, <2>4 DEF IsParsed
      <3>2. f = KeptBy(t)
        BY <2>4 DEF f, parser, KeptBy
      <3>3. Ascending(f, t)
        <4>1. InOrder(t) /\ KeptBy(t) \in Seq(Token)
          BY <1>2, EachThread, KeptTyped
        <4>2. file \in Seq(Token) /\ Stored \in Seq(Token)
          BY <1>2, PlacesTyped
        <4>3. QED
          BY <3>2, <4>1, <4>2, ThreeAscending DEF InOrder
      <3>4. /\ Pages(Traced', "page", t) = Pages(KeptBy(t), "page", t)
            /\ Ascending(Traced', t)
        BY <2>1, <2>2, <2>3, <3>1, <3>2, <3>3
      <3>5. QED
        BY <1>3, <3>1, <3>4 DEF TraceOf
    <2>5. CASE ord[t] # next
      <3>1. IsParsed(t)' <=> IsParsed(t)
        BY <1>1, <1>4, <1>9, <2>5 DEF IsParsed
      <3>2. Pages(f, "page", t) = {}
        <4>1. Len(f) = Len(buf) /\ \A i \in 1..Len(buf) : f[i].page = buf[i]
          <5>1. PICK s \in Seq(Page) : s = buf
            BY <1>5
          <5>2. /\ Len(Tokens("page", s)) = Len(s)
                /\ \A i \in 1..Len(s) : Tokens("page", s)[i].page = s[i]
            BY DEF Tokens
          <5>3. QED
            BY <5>1, <5>2 DEF f
        <4>2. ASSUME NEW i \in 1..Len(f) PROVE f[i].page.thread # t
          <5>1. ord[buf[i].thread] = next /\ f[i].page = buf[i]
            BY <1>8, <4>1
          <5>2. QED
            BY <2>5, <5>1
        <4>3. QED
          BY <4>2 DEF Pages
      <3>3. Ascending(f, t)
        BY <1>7, <3>2, NonePages
      <3>4. Pages(Traced', "page", t) = Pages(Traced, "page", t) /\ Ascending(Traced', t)
        BY <2>1, <2>2, <2>3, <3>2, <3>3
      <3>5. QED
        BY <1>3, <2>2, <3>1, <3>4 DEF TraceOf
    <2>6. QED
      BY <2>4, <2>5
  <1>11. ASSUME IdsApart, NEW t \in Used PROVE NameOf(t)'
    <2>1. TrackOf(ord[t]) \in Track /\ NameOf(t)
      BY <1>2, <1>11, OrdsBounded, ParserFields
    <2>2. CASE ord[t] = next
      <3>1. ~IsParsed(t) /\ IsParsed(t)' /\ track = TrackOf(ord[t])
        BY <1>1, <1>4, <1>9, <2>2 DEF IsParsed, track
      <3>2. thread_descriptors[track] = NoTrack
        BY <2>1, <3>1 DEF NameOf
      <3>3. thread_descriptors'[track] = IF buf = <<>> THEN NoTrack ELSE parser.thread_name
        BY <1>2, <1>5, <1>6, <3>2
      <3>4. event_parsers'[ord'[t]] = parser
        BY <1>1, <1>9, <2>2 DEF parser
      <3>5. TrackOf(ord[t])' = track
        BY <1>1, <3>1 DEF TrackOf
      <3>6. QED
        BY <3>1, <3>3, <3>4, <3>5 DEF NameOf
    <2>3. CASE ord[t] # next
      <3>1. IsParsed(t)' <=> IsParsed(t)
        BY <1>1, <1>4, <1>9, <2>3 DEF IsParsed
      <3>2. thread_descriptors'[TrackOf(ord[t])] = thread_descriptors[TrackOf(ord[t])]
        <4>1. CASE buf = <<>>
          BY <1>6, <4>1
        <4>2. CASE buf # <<>>
          <5>1. 1 \in 1..Len(buf)
            BY <1>5, <4>2
          <5>2. PICK u \in Used : ord[u] = next
            BY <1>8, <5>1
          <5>3. TrackOf(ord[t]) # TrackOf(ord[u])
            BY <1>2, <1>11, <2>3, <5>2, OwnTracks
          <5>4. TrackOf(ord[t]) # track
            BY <5>2, <5>3 DEF track
          <5>5. QED
            BY <1>2, <1>6, <2>1, <5>4
        <4>3. QED
          BY <4>1, <4>2
      <3>3. /\ TrackOf(ord[t])' = TrackOf(ord[t])
            /\ event_parsers'[ord'[t]] = event_parsers[ord[t]]
        BY <1>1 DEF TrackOf
      <3>4. QED
        BY <2>1, <3>1, <3>2, <3>3 DEF NameOf
    <2>4. QED
      BY <2>2, <2>3
  <1>12. thread_descriptors' \in [Track -> Name \cup {NoName, NoTrack}]
    BY <1>2, <1>5, <1>6
  <1>13. QED
    BY <1>1, <1>3, <1>4, <1>10, <1>11, <1>12 DEF ParseInv

LEMMA InitParse == Init => ParseInv
  <1> SUFFICES ASSUME Init PROVE ParseInv
    OBVIOUS
  <1>1. Cardinality(Thread) \in Nat
    BY ReaderTyped, FS_CardinalityType
  <1>2. QED
    BY <1>1 DEF Init, ParseInv

LEMMA NextParse ==
  ASSUME WholeInv, ParseInv, [Next]_vars
  PROVE  ParseInv'
  <1>1. TrackInv /\ OrdsCounted /\ Cardinality(Thread) \in Nat
    BY OrdsBounded DEF WholeInv
  <1>2. ASSUME UNCHANGED traceVars, phase \notin {"parse", "saved"},
               phase' \notin {"parse", "saved"}
        PROVE  ParseInv'
    BY <1>2 DEF ParseInv, traceVars
  <1>3. CASE ReadEnd
    <2>1. /\ phase = "decode" /\ phase' = "parse"
          /\ UNCHANGED <<ord, tid, event_parsers, next, trace, thread_descriptors>>
      BY <1>3 DEF ReadEnd, Reads, threadVars, parserVars, traceVars
    <2>2. next = 1 /\ trace = <<>> /\ thread_descriptors = [k \in Track |-> NoTrack]
      BY <2>1 DEF ParseInv
    <2>3. /\ Used' = Used /\ (IdsApart' <=> IdsApart) /\ \A o : TrackOf(o)' = TrackOf(o)
      BY <2>1, SameTracks
    <2>4. Traced' = <<>>
      BY <2>1, <2>2 DEF Traced
    <2>5. ASSUME NEW t \in Used PROVE TraceOf(t)' /\ NameOf(t)'
      <3>1. ord[t] \in Ord /\ TrackOf(ord[t]) \in Track
        BY <1>1, OrdsBounded, ParserFields
      <3>2. ~IsParsed(t)'
        BY <2>1, <2>2, <3>1 DEF IsParsed, Ord
      <3>3. TraceOf(t)'
        BY <2>4, <3>2, PagesOfNone DEF TraceOf
      <3>4. NameOf(t)'
        BY <2>1, <2>2, <2>3, <3>1, <3>2 DEF NameOf
      <3>5. QED
        BY <3>3, <3>4
    <2>6. QED
      BY <2>1, <2>3, <2>5 DEF ParseInv
  <1>4. CASE Save \/ UNCHANGED vars
    <2>1. /\ UNCHANGED <<ord, tid, event_parsers, next, trace, thread_descriptors>>
          /\ phase' = phase \/ (phase = "parse" /\ phase' = "saved" /\ next \notin Ord)
      BY <1>4 DEF Save, vars, threadVars, parserVars, traceVars
    <2>2. /\ Used' = Used /\ (IdsApart' <=> IdsApart) /\ \A o : TrackOf(o)' = TrackOf(o)
          /\ \A t : KeptBy(t)' = KeptBy(t)
      BY <2>1, SameTracks
    <2>3. Traced' = Traced /\ \A t : IsParsed(t)' <=> IsParsed(t)
      BY <2>1 DEF Traced, IsParsed
    <2>4. \A t : (TraceOf(t)' <=> TraceOf(t)) /\ (NameOf(t)' <=> NameOf(t))
      <3> TAKE t
      <3>1. TraceOf(t)' <=> TraceOf(t)
        BY <2>2, <2>3 DEF TraceOf
      <3>2. TrackOf(ord[t])' = TrackOf(ord[t])
        BY <2>1 DEF TrackOf
      <3>3. NameOf(t)' <=> NameOf(t)
        BY <2>1, <2>3, <3>2 DEF NameOf
      <3>4. QED
        BY <3>1, <3>3
    <2>5. phase' = "saved" => next' = Cardinality(Thread) + 1
      BY <1>1, <2>1 DEF ParseInv, Ord
    <2>6. QED
      BY <2>1, <2>2, <2>4, <2>5 DEF ParseInv
  <1>5. CASE phase = "wait" /\ ((\E t \in Thread : FirstEvent(t) \/ set_cur_thread_name(t)
                                                     \/ Flush(t)) \/ DropOldest)
    BY <1>2, <1>5 DEF FirstEvent, set_cur_thread_name, Flush, DropOldest
  <1>6. CASE SenderRound \/ SenderFreq \/ SenderEnd \/ CutOff
    <2>1. phase = "wait"
      BY <1>1, <1>6 DEF TrackInv, StreamInv, FileFramed, SenderRound, SenderFreq, SenderEnd, CutOff
    <2>2. UNCHANGED traceVars /\ phase' \in {"wait", "decode"}
      BY <1>6, <2>1 DEF SenderRound, SenderFreq, SenderEnd, CutOff
    <2>3. QED
      BY <1>2, <2>1, <2>2
  <1>7. CASE ReadInfo \/ ReadData \/ ReadPage \/ ReadFailed \/ ReadFreq
    <2>1. phase = "decode" /\ phase' = "decode" /\ UNCHANGED traceVars
      BY <1>7 DEF ReadInfo, ReadData, ReadPage, ReadFailed, ReadFreq, Reads
    <2>2. QED
      BY <1>2, <2>1
  <1>8. CASE ReadFails
    <2>1. phase = "decode" /\ phase' \in {"rejected", "panicked"} /\ UNCHANGED traceVars
      BY <1>8 DEF ReadFails
    <2>2. QED
      BY <1>2, <2>1
  <1>9. QED
    BY <1>3, <1>4, <1>5, <1>6, <1>7, <1>8, ParseLays DEF Next, Done

LEMMA AllHolds == Spec => [](WholeInv /\ ParseInv)
  <1>1. Init => WholeInv /\ ParseInv
    BY InitWhole, InitParse
  <1>2. (WholeInv /\ ParseInv) /\ [Next]_vars => (WholeInv /\ ParseInv)'
    BY NextWhole, NextParse
  <1>3. QED
    BY <1>1, <1>2, PTL DEF Spec

(* What is where when the trace is saved.                                    *)
LEMMA SavedPages ==
  ASSUME WholeInv, ParseInv, phase = "saved", NEW t \in Used
  PROVE  /\ writer = "ended" /\ encoder_info /\ ticks_per_ns /\ settled = count
         /\ Shown(t) = Pages(Traced, "page", t) /\ Ascending(Traced, t)
         /\ Pages(Traced, "page", t) = Pages(KeptBy(t), "page", t)
         /\ Lost(t) = Pages(MissedBy(t), "failed", t)
         /\ Accounted(t) /\ ParserNamed(t) /\ IsParsed(t)
  <1>1. /\ writer = "ended" /\ file = <<>> /\ ring = <<>> /\ skipped_msr_pages_headers = <<>>
        /\ settled = count
    BY DEF WholeInv, EndInv
  <1>2. encoder_info /\ ticks_per_ns
    <2>1. TypesOf(file) = {}
      BY <1>1 DEF TypesOf
    <2>2. QED
      BY <1>1, <2>1 DEF WholeInv, EndInv
  <1>3. Stored = <<>> /\ Dropped = <<>>
    BY <1>1, TokensOfNone DEF Stored, Dropped
  <1>4. /\ Shown(t) = Pages(KeptBy(t), "page", t)
        /\ Lost(t) = Pages(MissedBy(t), "failed", t)
    BY <1>1, <1>3, PagesOfNone DEF Shown, Lost
  <1>5. Accounted(t) /\ ParserNamed(t)
    BY <1>1, EachThread
  <1>6. IsParsed(t) /\ TraceOf(t)
    <2>1. ord[t] \in Ord /\ Cardinality(Thread) \in Nat
      BY OrdsBounded DEF WholeInv
    <2>2. next = Cardinality(Thread) + 1 /\ TraceOf(t)
      BY DEF ParseInv
    <2>3. QED
      BY <2>1, <2>2 DEF IsParsed, Ord
  <1>7. QED
    BY <1>1, <1>2, <1>4, <1>5, <1>6 DEF TraceOf

LEMMA SavedWhole == WholeInv /\ ParseInv => TraceIsWhole
  <1> SUFFICES ASSUME WholeInv, ParseInv, phase = "saved" PROVE TraceIsWhole
    BY DEF TraceIsWhole
  <1>1. TrackInv /\ OrdsCounted
    BY DEF WholeInv
  <1>2. writer = "ended" /\ encoder_info /\ ticks_per_ns
    <2>1. writer = "ended" /\ file = <<>>
      BY DEF WholeInv, EndInv
    <2>2. TypesOf(file) = {}
      BY <2>1 DEF TypesOf
    <2>3. QED
      BY <2>1, <2>2 DEF WholeInv, EndInv
  <1>3. ASSUME NEW t \in Used
        PROVE  LET Entries == {i \in 1..Len(trace) : trace[i].page.thread = t}
                   shown   == {trace[i].page.no : i \in Entries}
                   missed  == NosOf(event_parsers[ord[t]].missed_events)
               IN /\ \A i, j \in Entries : i < j => trace[i].page.no < trace[j].page.no
                  /\ shown \cap missed = {}
                  /\ shown \cup missed = 1..settled[t]
    <2> DEFINE Entries == {i \in 1..Len(trace) : trace[i].page.thread = t}
               shown   == {trace[i].page.no : i \in Entries}
               list    == event_parsers[ord[t]].missed_events
               missed  == NosOf(list)
    <2>1. /\ Shown(t) = Pages(Traced, "page", t) /\ Ascending(Traced, t)
          /\ Lost(t) = Pages(MissedBy(t), "failed", t) /\ Accounted(t) /\ settled = count
      BY SavedPages
    <2>2. /\ Len(Traced) = Len(trace)
          /\ \A i \in 1..Len(trace) : Traced[i].type = "page" /\ Traced[i].page = trace[i].page
      BY <1>1, TracedTyped
    <2>3. \A i, j \in Entries : i < j => trace[i].page.no < trace[j].page.no
      <3>1. \A i \in Entries : i \in 1..Len(Traced) /\ IsPage(Traced[i], t)
        BY <2>2 DEF IsPage
      <3>2. QED
        BY <2>1, <2>2, <3>1 DEF Ascending
    <2>4. shown = Numbers(Shown(t))
      <3>1. Pages(Traced, "page", t) = {trace[i].page : i \in Entries}
        BY <2>2 DEF Pages
      <3>2. QED
        BY <2>1, <3>1 DEF Numbers
    <2>5. missed = Numbers(Lost(t))
      <3>1. list \in Seq(Page) /\ list \in Seq(PagesOf(ord[t]))
        BY <1>1, ParserTyped
      <3>2. PICK s \in Seq(Page) : s = list
        BY <3>1
      <3>3. /\ Len(Tokens("failed", s)) = Len(s)
            /\ \A i \in 1..Len(s) : /\ Tokens("failed", s)[i].type = "failed"
                                    /\ Tokens("failed", s)[i].page = s[i]
        BY DEF Tokens
      <3>4. \A i \in 1..Len(s) : s[i].thread = t
        <4> TAKE i \in 1..Len(s)
        <4>1. s[i] \in PagesOf(ord[t])
          BY <3>1, <3>2
        <4>2. QED
          BY <1>1, <4>1 DEF PagesOf, TaggedPage, Page, AnyPage, TrackInv, OrdsApart
      <3>5. Pages(Tokens("failed", s), "failed", t) = {s[i] : i \in 1..Len(s)}
        BY <3>3, <3>4 DEF Pages
      <3>6. Lost(t) = {s[i] : i \in 1..Len(s)}
        BY <2>1, <3>2, <3>5 DEF MissedBy
      <3>7. QED
        BY <3>2, <3>6 DEF Numbers, NosOf
    <2>6. shown \cap missed = {} /\ shown \cup missed = 1..settled[t]
      <3>1. /\ Numbers(Shown(t)) \cap Numbers(Lost(t)) = {}
            /\ Numbers(Shown(t)) \cup Numbers(Lost(t)) = 1..settled[t]
        BY <2>1 DEF Accounted
      <3> HIDE DEF shown, missed
      <3>2. QED
        BY <2>4, <2>5, <3>1
    <2>7. QED
      BY <2>3, <2>6
  <1>4. QED
    BY <1>2, <1>3 DEF TraceIsWhole

(***************************************************************************)
(* Whatever number of threads and pages there is, whichever pages cleanup  *)
(* dropped and however the pages were spread over packets: in a trace that *)
(* is saved every page flushed before the stream was ended is shown once   *)
(* and in order, or is listed as missed, never both.                       *)
(***************************************************************************)
THEOREM TraceWhole == Spec => []TraceIsWhole
  BY AllHolds, SavedWhole, PTL

LEMMA SavedNames == WholeInv /\ ParseInv => TracksAreNamed
  <1> SUFFICES ASSUME WholeInv, ParseInv, phase = "saved", IdsApart, NEW i \in 1..Len(trace)
               PROVE  LET page   == trace[i].page
                          parser == event_parsers[page.thread_ord_id]
                          shown  == thread_descriptors[trace[i].track]
                      IN IF parser.missed_events # <<>>
                           THEN shown = NoName \/ shown \in {<<page.thread, k>> :
                                                              k \in 0..MaxRenames[page.thread]}
                           ELSE shown = <<page.thread,
                                          parser.event_buf[Len(parser.event_buf)].renamed>>
    BY DEF TracksAreNamed
  <1> DEFINE page   == trace[i].page
             parser == event_parsers[page.thread_ord_id]
             shown  == thread_descriptors[trace[i].track]
             t      == page.thread
  <1>1. TrackInv /\ OrdsCounted
    BY DEF WholeInv
  <1>2. t \in Used /\ page.thread_ord_id = ord[t] /\ trace[i].track = TrackOf(ord[t])
    BY <1>1, EntryFields
  <1>3. page \in Pages(Traced, "page", t)
    <2>1. /\ i \in 1..Len(Traced) /\ Traced[i].type = "page" /\ Traced[i].page = page
      BY <1>1, TracedTyped
    <2>2. QED
      BY <2>1 DEF Pages
  <1> HIDE DEF page, t
  <1>4. /\ ParserNamed(t) /\ IsParsed(t) /\ NameOf(t)
        /\ Pages(Traced, "page", t) = Pages(KeptBy(t), "page", t)
        /\ Lost(t) = Pages(MissedBy(t), "failed", t)
    BY <1>2, SavedPages DEF ParseInv
  <1>5. parser.event_buf # <<>>
    <2>1. Pages(KeptBy(t), "page", t) # {}
      BY <1>3, <1>4
    <2>2. SUFFICES ASSUME parser.event_buf = <<>> PROVE FALSE
      OBVIOUS
    <2>3. KeptBy(t) = <<>>
      BY <1>2, <2>2, TokensOfNone DEF KeptBy
    <2>4. QED
      BY <2>1, <2>3, PagesOfNone
  <1>6. shown = parser.thread_name
    BY <1>2, <1>4, <1>5 DEF NameOf
  <1>7. CASE parser.missed_events # <<>>
    <2>1. parser.thread_name \in NamesOf(ord[t]) \cup {NoName}
      BY <1>1, <1>2, ParserTyped DEF Parser
    <2>2. ASSUME NEW name \in NamesOf(ord[t])
          PROVE  name \in {<<t, k>> : k \in 0..MaxRenames[t]}
      <3>1. PICK u \in Used, k \in Nat : ord[u] = ord[t] /\ name = <<u, k>>
        BY DEF NamesOf
      <3>2. u = t
        BY <1>1, <1>2, <3>1 DEF TrackInv, OrdsApart, Used
      <3>3. PICK v \in Thread, l \in Nat : l \in 0..MaxRenames[v] /\ name = <<v, l>>
        <4>1. PICK v \in Thread : name \in {v} \X (0..MaxRenames[v])
          BY DEF NamesOf, Name
        <4>2. QED
          BY <4>1, ReaderTyped
      <3>4. QED
        BY <3>1, <3>2, <3>3
    <2>3. shown = NoName \/ shown \in {<<t, k>> : k \in 0..MaxRenames[t]}
      BY <1>6, <2>1, <2>2
    <2>4. QED
      BY <1>7, <2>3 DEF t, page
  <1>8. CASE parser.missed_events = <<>>
    <2>1. Lost(t) = {}
      <3>1. MissedBy(t) = <<>>
        BY <1>2, <1>8, TokensOfNone DEF MissedBy
      <3>2. QED
        BY <1>4, <3>1, PagesOfNone
    <2>2. parser.thread_name = <<t, parser.event_buf[Len(parser.event_buf)].renamed>>
      BY <1>2, <1>4, <1>5, <2>1 DEF ParserNamed
    <2>3. shown = <<t, parser.event_buf[Len(parser.event_buf)].renamed>>
      BY <1>6, <2>2
    <2>4. QED
      BY <1>8, <2>3 DEF t, page
  <1>9. QED
    BY <1>7, <1>8

(***************************************************************************)
(* As long as the ids are apart, and whichever page brought a name: the    *)
(* track of a thread none of whose pages was dropped has the name that the *)
(* thread had when it last flushed, and no track has that of another       *)
(* thread.                                                                 *)
(***************************************************************************)
THEOREM TracksNamed == Spec => []TracksAreNamed
  BY AllHolds, SavedNames, PTL

LEMMA AllTyped == WholeInv /\ ParseInv => TypeOK
  <1> SUFFICES ASSUME WholeInv, ParseInv PROVE TypeOK
    OBVIOUS
  <1>1. TrackInv /\ OrdsCounted /\ EndInv /\ ThreadsTyped /\ FileFramed /\ OrdsApart
    BY DEF WholeInv, TrackInv, StreamInv
  <1>2. /\ tid \in [Thread -> Tid \cup {NoTid}] /\ ord \in [Thread -> 0..Cardinality(Thread)]
        /\ live \subseteq Thread /\ CUR_THREAD_ID \in 1..(Cardinality(Thread) + 1)
        /\ new_thread_name \in [Thread -> Name \cup {NoName}]
    <2>1. ord \in [Thread -> Nat] /\ \A t \in Thread : ord[t] \in 0..Cardinality(Thread)
      BY <1>1, OrdsBounded DEF ThreadsTyped
    <2>2. live \subseteq Thread
      BY <1>1 DEF OrdsApart, Used
    <2>3. CUR_THREAD_ID \in 1..(Cardinality(Thread) + 1)
      BY <1>1, OrdsBounded
    <2>4. ord \in [Thread -> 0..Cardinality(Thread)]
      BY <2>1
    <2>5. QED
      BY <1>1, <2>2, <2>3, <2>4 DEF ThreadsTyped
  <1>3. left \in 0..Len(file) \cup (IF writer = "cut" THEN Nat ELSE {})
    <2>1. left \in Nat /\ Len(file) \in Nat
      BY <1>1 DEF FileFramed
    <2>2. CASE writer = "cut"
      BY <2>1, <2>2
    <2>3. CASE writer # "cut"
      <3>1. left =< Len(file)
        BY <1>1, <2>3 DEF FileFramed, Complete
      <3>2. QED
        BY <2>1, <3>1
    <2>4. QED
      BY <2>2, <2>3
  <1>4. \A o \in Ord : /\ event_parsers[o].thread_name \in Name \cup {NoName}
                       /\ event_parsers[o].thread_id \in Tid \cup {NoTid}
    BY <1>1, ParserFields
  <1>5. thread_descriptors \in [Track -> Name \cup {NoName, NoTrack}]
    BY DEF ParseInv
  <1>6. /\ writer \in {"writing", "ended", "cut"}
        /\ phase \in {"wait", "decode", "parse", "saved", "rejected", "panicked"}
    BY <1>1 DEF FileFramed, EndInv
  <1>7. QED
    BY <1>2, <1>3, <1>4, <1>5, <1>6 DEF TypeOK

(***************************************************************************)
(* Every ord id that is given out has a parser, whatever number of threads *)
(* there is, and a packet never announces more pages than are behind it    *)
(* unless the stream was cut off.                                          *)
(***************************************************************************)
THEOREM TypeCorrect == Spec => []TypeOK
  BY AllHolds, AllTyped, PTL
-----------------------------------------------------------------------------
(***************************************************************************)
(* The reader comes to an end.  Every step of decode_packets takes a token *)
(* off the file, every step of parse_and_save a thread, and ReadingLeft    *)
(* bounds how many are left.                                               *)
(***************************************************************************)
Reading == phase \in {"decode", "parse"}

ReadingLeft ==
  CASE phase = "decode" -> Len(file) + Cardinality(Thread) + 2
    [] phase = "parse"  -> Cardinality(Thread) + 2 - next
    [] OTHER -> 0

(* One of the reader's actions has its guard.                                *)
ReaderGoesOn ==
  phase = "decode" =>
    \/ file = <<>>
    \/ (Head(file).type = "page") # (left > 0)
    \/ Head(file).type \in {"info", "data", "page", "failed", "freq", "end"}

LEMMA LeftTyped ==
  ASSUME WholeInv, ParseInv
  PROVE  /\ ReadingLeft \in Nat /\ ReaderGoesOn
         /\ Reading => ReadingLeft > 0
         /\ writer = "ended" => phase \in {"decode", "parse", "saved"}
  <1>1. /\ file \in Seq(Token) /\ Cardinality(Thread) \in Nat
        /\ next \in 1..(Cardinality(Thread) + 1)
    BY OrdsBounded DEF WholeInv, TrackInv, StreamInv, FileFramed, ParseInv
  <1>2. /\ phase \in {"wait", "decode", "parse", "saved", "rejected", "panicked"}
        /\ phase = "wait" <=> writer = "writing"
        /\ ReadsInStep
    BY DEF WholeInv, TrackInv, StreamInv, FileFramed, EndInv
  <1>3. ReadingLeft \in Nat /\ (Reading => ReadingLeft > 0)
    <2>1. Len(file) \in Nat
      BY <1>1
    <2>2. QED
      BY <1>1, <2>1 DEF ReadingLeft, Reading
  <1>4. ReaderGoesOn
    <2>1. file # <<>> => Head(file) \in Token
      BY <1>1
    <2>2. QED
      BY <2>1 DEF ReaderGoesOn, Token
  <1>5. QED
    BY <1>2, <1>3, <1>4 DEF ReadsInStep

LEMMA LeftDecreases ==
  ASSUME WholeInv, ParseInv, Reading, [Next]_vars
  PROVE  ReadingLeft' < ReadingLeft \/ UNCHANGED vars
  <1>1. /\ file \in Seq(Token) /\ Cardinality(Thread) \in Nat
        /\ next \in 1..(Cardinality(Thread) + 1)
        /\ phase = "decode" => next = 1
        /\ writer # "writing"
    BY OrdsBounded DEF WholeInv, TrackInv, StreamInv, FileFramed, ParseInv, Reading
  <1>2. CASE ReadInfo \/ ReadData \/ ReadPage \/ ReadFailed \/ ReadFreq \/ ReadEnd
    <2>1. /\ phase = "decode" /\ file # <<>> /\ file' = Tail(file) /\ next' = next
          /\ phase' \in {"decode", "parse"}
      BY <1>2 DEF ReadInfo, ReadData, ReadPage, ReadFailed, ReadFreq, ReadEnd, Reads, traceVars
    <2>2. Len(file) \in Nat \ {0} /\ Len(file') = Len(file) - 1
      BY <1>1, <2>1
    <2>3. QED
      BY <1>1, <2>1, <2>2 DEF ReadingLeft
  <1>3. CASE ReadFails
    <2>1. phase = "decode" /\ phase' \in {"rejected", "panicked"} /\ Len(file) \in Nat
      BY <1>1, <1>3 DEF ReadFails
    <2>2. QED
      BY <1>1, <2>1 DEF ReadingLeft
  <1>4. CASE ParseThread
    <2>1. phase = "parse" /\ phase' = phase /\ next' = next + 1
      BY <1>4 DEF ParseThread
    <2>2. QED
      BY <1>1, <2>1 DEF ReadingLeft
  <1>5. CASE Save
    <2>1. phase = "parse" /\ phase' = "saved"
      BY <1>5 DEF Save
    <2>2. QED
      BY <1>1, <2>1 DEF ReadingLeft
  <1>6. QED
    BY <1>1, <1>2, <1>3, <1>4, <1>5
       DEF Next, SenderRound, SenderFreq, SenderEnd, CutOff, Done, Reading

(***************************************************************************)
(* A stream that was ended is saved: with any number of threads and pages  *)
(* the reader never stops between two tokens or two threads, a bounded     *)
(* number of steps is left to it, and the only place where it can come to  *)
(* an end is behind parse_and_save.                                        *)
(***************************************************************************)
THEOREM EndedIsSaved ==
  Spec => /\ [](/\ Reading => ReadingLeft > 0 /\ ReaderGoesOn
                /\ ReadingLeft \in Nat
                /\ writer = "ended" => phase \in {"decode", "parse", "saved"})
          /\ [][Reading => ReadingLeft' < ReadingLeft]_vars
  <1>1. WholeInv /\ ParseInv => /\ Reading => ReadingLeft > 0 /\ ReaderGoesOn
                                /\ ReadingLeft \in Nat
                                /\ writer = "ended" => phase \in {"decode", "parse", "saved"}
    BY LeftTyped
  <1>2. WholeInv /\ ParseInv /\ [Next]_vars => [Reading => ReadingLeft' < ReadingLeft]_vars
    BY LeftDecreases
  <1>3. QED
    BY <1>1, <1>2, AllHolds, PTL DEF Spec
-----------------------------------------------------------------------------
(* The storage as a queue of pages. *)
Queue == INSTANCE PageQueue WITH
  Header <- Page, queue <- ring, dropped <- skipped_msr_pages_headers

(***************************************************************************)
(* The storage that the pages of this module go through is the queue that  *)
(* GlobalStorage implements: what is shown here of the way of the pages    *)
(* asks nothing of push_buf and try_take_buf that they do not provide.     *)
(***************************************************************************)
THEOREM PagesQueue == Spec => Queue!Spec
  <1>1. Init => Queue!Init
    BY DEF Init, Queue!Init
  <1>2. StoreTyped /\ StoreTyped' /\ [Next]_vars => [Queue!Next]_(Queue!vars)
    <2> SUFFICES ASSUME StoreTyped, StoreTyped', [Next]_vars
                 PROVE  [Queue!Next]_(Queue!vars)
      OBVIOUS
    <2>1. ring \in Seq(Page) /\ skipped_msr_pages_headers \in Seq(Page) /\ ring' \in Seq(Page)
      BY DEF StoreTyped
    <2>2. ASSUME NEW p, NEW q \in Seq(Page), q = Append(ring, p)
          PROVE  p \in Page /\ SubSeq(q, 1, Len(q)) = q /\ SubSeq(q, 1, 0) = <<>>
      <3>1. q[Len(ring) + 1] = p /\ Len(ring) + 1 \in 1..Len(q)
        BY <2>1, <2>2
      <3> QED
        BY <2>2, <3>1
    <2>3. ASSUME NEW t \in Thread, Flush(t) PROVE Queue!Push(PageOf(t)) /\ PageOf(t) \in Page
      <3>1. /\ ring' = Append(ring, PageOf(t))
            /\ skipped_msr_pages_headers' = skipped_msr_pages_headers
        BY <2>3 DEF Flush
      <3>2. /\ PageOf(t) \in Page /\ SubSeq(ring', 1, Len(ring')) = ring'
            /\ SubSeq(ring', 1, 0) = <<>>
        BY <2>1, <2>2, <3>1
      <3>3. skipped_msr_pages_headers \o <<>> = skipped_msr_pages_headers
        BY <2>1
      <3>4. 0 \in 0..(Len(ring) + 1) /\ 0 + 1 = 1
        BY <2>1
      <3>5. Queue!Keep(Append(ring, PageOf(t)), 0)
        BY <3>1, <3>2, <3>3, <3>4 DEF Queue!Keep
      <3> QED
        BY <3>2, <3>4, <3>5 DEF Queue!Push
    <2>4. ASSUME DropOldest PROVE Queue!Drop
      <3>1. /\ ring # <<>> /\ ring' = Tail(ring)
            /\ skipped_msr_pages_headers' = Append(skipped_msr_pages_headers, Head(ring))
        BY <2>4 DEF DropOldest
      <3>2. 1 \in 0..Len(ring) /\ Len(ring) # 0
        BY <2>1, <3>1
      <3>3. Tail(ring) = SubSeq(ring, 1 + 1, Len(ring))
        BY <2>1, <3>1, <3>2
      <3>4. SubSeq(ring, 1, 1) = <<Head(ring)>>
        <4>1. SubSeq(ring, 1, 1) \in Seq(Page) /\ Len(SubSeq(ring, 1, 1)) = 1
          BY <2>1, <3>1, <3>2
        <4>2. SubSeq(ring, 1, 1)[1] = ring[1] /\ Head(ring) = ring[1]
          BY <2>1, <3>1, <3>2
        <4>3. ASSUME NEW s \in Seq(Page), Len(s) = 1 PROVE s = <<s[1]>>
          BY <4>3
        <4> QED
          BY <4>1, <4>2, <4>3
      <3>5. Append(skipped_msr_pages_headers, Head(ring))
              = skipped_msr_pages_headers \o <<Head(ring)>>
        BY <2>1, <3>1
      <3> QED
        BY <3>1, <3>2, <3>3, <3>4, <3>5 DEF Queue!Drop, Queue!Keep
    <2>5. ASSUME NEW out \in {ring, <<>>}, LeftBehind(out) PROVE Queue!Take
      BY <2>5 DEF LeftBehind, Queue!Take
    <2>6. CASE UNCHANGED storeVars
      BY <2>6 DEF storeVars, Queue!vars
    <2>7. \/ \E t \in Thread : Flush(t)
          \/ DropOldest
          \/ \E out \in {ring, <<>>} : LeftBehind(out)
          \/ UNCHANGED storeVars
      BY DEF Next, FirstEvent, set_cur_thread_name, SenderRound, SenderFreq, SenderEnd, CutOff,
             ReadInfo, ReadData, ReadPage, ReadFailed, ReadFreq, ReadEnd, Reads, ReadFails,
             ParseThread, Save, Done, vars
    <2>8. QED
      BY <2>3, <2>4, <2>5, <2>6, <2>7 DEF Queue!Next
  <1>3. WholeInv => StoreTyped
    BY DEF WholeInv, TrackInv, StreamInv
  <1>4. QED
    BY <1>1, <1>2, <1>3, AllHolds, PTL DEF Spec, Queue!Spec
=============================================================================
