------------------------------ MODULE TtyProofs ------------------------------
(***************************************************************************)
(* A theorem about Tty: the order of the bytes, for every number of tasks, *)
(* readers and bytes.                                                      *)
(***************************************************************************)
EXTENDS Tty, SequenceTheorems, TLAPS

Item == [at : Nat, class : Byte]

(* The bytes handed out and the bytes waiting, as one stream. *)
Stream == got \o input_buffer

Increasing(s) == \A i, j \in 1 .. Len(s) : i < j => s[i].at < s[j].at

(* The stream is in order, and what is typed next comes after all of it. *)
StreamInv ==
  /\ typed \in Nat
  /\ got \in Seq(Item) /\ input_buffer \in Seq(Item)
  /\ Increasing(Stream)
  /\ \A i \in 1 .. Len(Stream) : Stream[i].at <= typed

(* Reading k bytes moves them from one part of the stream to the other. *)
LEMMA ReadKeepsStream ==
  ASSUME NEW s \in Seq(Item), NEW b \in Seq(Item), NEW k \in 0 .. Len(b)
  PROVE  /\ s \o SubSeq(b, 1, k) \in Seq(Item) /\ SubSeq(b, k + 1, Len(b)) \in Seq(Item)
         /\ (s \o SubSeq(b, 1, k)) \o SubSeq(b, k + 1, Len(b)) = s \o b
<1> DEFINE f == SubSeq(b, 1, k)
           r == SubSeq(b, k + 1, Len(b))
<1>1. f \in Seq(Item) /\ r \in Seq(Item)
  OBVIOUS
<1>2. f \o r = b
  <2>1. 1 \in 1 .. Len(b) + 1 /\ k \in 1 - 1 .. Len(b) /\ Len(b) \in k .. Len(b)
    OBVIOUS
  <2>2. f \o r = SubSeq(b, 1, Len(b))
    BY <2>1, ConcatAdjacentSubSeq, Zenon
  <2>3. QED BY <2>2, SubSeqFull, Zenon
<1> HIDE DEF f, r
<1>3. s \o f \in Seq(Item)
  BY <1>1, ConcatProperties
<1>4. (s \o f) \o r = s \o (f \o r)
  <2>1. \A x, y, z \in Seq(Item) : (x \o y) \o z = x \o (y \o z)
    BY ConcatAssociative, SMTT(40)
  <2>2. QED BY <1>1, <2>1, Zenon
<1>5. QED BY <1>1, <1>2, <1>3, <1>4, Zenon DEF f, r

(* The first n bytes. *)
LEMMA FrontOf ==
  ASSUME NEW b \in Seq(Item), NEW n \in 0 .. Len(b)
  PROVE  /\ SubSeq(b, 1, n) \in Seq(Item) /\ Len(SubSeq(b, 1, n)) = n
         /\ \A i \in 1 .. n : SubSeq(b, 1, n)[i] = b[i]
  OBVIOUS

(* The stream without its last byte. *)
LEMMA WithoutLast ==
  ASSUME NEW s \in Seq(Item), NEW b \in Seq(Item), b # <<>>
  PROVE  /\ SubSeq(b, 1, Len(b) - 1) \in Seq(Item)
         /\ Len(s \o SubSeq(b, 1, Len(b) - 1)) = Len(s \o b) - 1 /\ Len(s \o b) \in Nat
         /\ \A i \in 1 .. Len(s \o SubSeq(b, 1, Len(b) - 1)) :
                (s \o SubSeq(b, 1, Len(b) - 1))[i] = (s \o b)[i]
<1> DEFINE n == Len(b) - 1
           c == SubSeq(b, 1, n)
<1>1. /\ c \in Seq(Item) /\ Len(c) = Len(b) - 1
      /\ \A i \in 1 .. Len(b) - 1 : c[i] = b[i]
  <2>1. n \in 0 .. Len(b)
    OBVIOUS
  <2> HIDE DEF n
  <2>2. c \in Seq(Item) /\ Len(c) = n /\ \A i \in 1 .. n : c[i] = b[i]
    BY <2>1, FrontOf
  <2> HIDE DEF c
  <2>3. QED BY <2>2 DEF n
<1> HIDE DEF n, c
<1>2. /\ Len(s \o c) = Len(s) + Len(c)
      /\ \A i \in 1 .. Len(s) + Len(c) :
             (s \o c)[i] = IF i <= Len(s) THEN s[i] ELSE c[i - Len(s)]
  BY <1>1, ConcatProperties, Zenon
<1>3. /\ Len(s \o b) = Len(s) + Len(b)
      /\ \A i \in 1 .. Len(s) + Len(b) :
             (s \o b)[i] = IF i <= Len(s) THEN s[i] ELSE b[i - Len(s)]
  BY ConcatProperties
<1>4. ASSUME NEW i \in 1 .. Len(s \o c)
      PROVE  (s \o c)[i] = (s \o b)[i]
  <2>1. i \in 1 .. Len(s) + Len(c) /\ i \in 1 .. Len(s) + Len(b)
    BY <1>1, <1>2
  <2>2. CASE i <= Len(s)
    BY <1>2, <1>3, <2>1, <2>2
  <2>3. CASE ~(i <= Len(s))
    <3>1. i - Len(s) \in 1 .. Len(b) - 1
      BY <1>1, <2>1, <2>3
    <3>2. (s \o c)[i] = c[i - Len(s)] /\ (s \o b)[i] = b[i - Len(s)]
      BY <1>2, <1>3, <2>1, <2>3
    <3>3. QED BY <1>1, <3>1, <3>2
  <2>4. QED BY <2>2, <2>3, Zenon
<1>5. QED BY <1>1, <1>2, <1>3, <1>4 DEF n, c

(* The stream with one more byte. *)
LEMMA WithOneMore ==
  ASSUME NEW s \in Seq(Item), NEW b \in Seq(Item), NEW r \in Item,
         NEW c, c = Append(b, r)
  PROVE  /\ c \in Seq(Item) /\ Len(s \o c) = Len(s \o b) + 1 /\ Len(s \o b) \in Nat
         /\ (s \o c)[Len(s \o b) + 1] = r
         /\ \A i \in 1 .. Len(s \o b) : (s \o c)[i] = (s \o b)[i]
<1>1. /\ c \in Seq(Item) /\ Len(c) = Len(b) + 1 /\ c[Len(b) + 1] = r
      /\ \A i \in 1 .. Len(b) : c[i] = b[i]
  OBVIOUS
<1>2. /\ Len(s \o c) = Len(s) + Len(c)
      /\ \A i \in 1 .. Len(s) + Len(c) :
             (s \o c)[i] = IF i <= Len(s) THEN s[i] ELSE c[i - Len(s)]
  BY <1>1, ConcatProperties, Zenon
<1>3. /\ Len(s \o b) = Len(s) + Len(b)
      /\ \A i \in 1 .. Len(s) + Len(b) :
             (s \o b)[i] = IF i <= Len(s) THEN s[i] ELSE b[i - Len(s)]
  BY ConcatProperties
<1>4. ASSUME NEW i \in 1 .. Len(s \o b)
      PROVE  (s \o c)[i] = (s \o b)[i]
  <2>1. i \in 1 .. Len(s) + Len(c) /\ i \in 1 .. Len(s) + Len(b)
    BY <1>1, <1>3
  <2>2. CASE i <= Len(s)
    BY <1>2, <1>3, <2>1, <2>2
  <2>3. CASE ~(i <= Len(s))
    <3>1. i - Len(s) \in 1 .. Len(b)
      BY <2>1, <2>3
    <3>2. (s \o c)[i] = c[i - Len(s)] /\ (s \o b)[i] = b[i - Len(s)]
      BY <1>2, <1>3, <2>1, <2>3
    <3>3. QED BY <1>1, <3>1, <3>2
  <2>4. QED BY <2>2, <2>3
<1>5. (s \o c)[Len(s) + Len(b) + 1] = r
  <2>1. Len(s) + Len(b) + 1 \in 1 .. Len(s) + Len(c)
    BY <1>1
  <2>2. ~(Len(s) + Len(b) + 1 <= Len(s)) /\ (Len(s) + Len(b) + 1) - Len(s) = Len(b) + 1
    OBVIOUS
  <2>3. QED BY <1>1, <1>2, <2>1, <2>2
<1>6. QED BY <1>1, <1>2, <1>3, <1>4, <1>5

(* The bytes of the stream carry their ordinals. *)
LEMMA StreamOfItems ==
  ASSUME StreamInv
  PROVE  \A i \in 1 .. Len(Stream) : Stream[i].at \in Nat
<1>1. Stream \in Seq(Item)
  BY ConcatProperties DEF Stream, StreamInv
<1>2. \A i \in 1 .. Len(Stream) : Stream[i] \in Item
  BY <1>1
<1>3. QED BY <1>2 DEF Item

(* The interrupt adds a newer byte at the end, takes the last one back, or *)
(* leaves the stream as it is.                                             *)
LEMMA EditKeepsOrder ==
  ASSUME StreamInv, NEW b \in Byte, typed' = typed + 1, input_buffer' = Edited(b), UNCHANGED got
  PROVE  StreamInv'
<1>1. \A i \in 1 .. Len(Stream) : Stream[i].at \in Nat
  BY StreamOfItems
<1>2. CASE b = "erase" /\ input_buffer # <<>>
  <2>1. input_buffer' = SubSeq(input_buffer, 1, Len(input_buffer) - 1)
    BY <1>2 DEF Edited
  <2>2. /\ input_buffer' \in Seq(Item) /\ Len(Stream') = Len(Stream) - 1 /\ Len(Stream) \in Nat
        /\ \A i \in 1 .. Len(Stream') : Stream'[i] = Stream[i]
    <3>1. /\ got \in Seq(Item) /\ input_buffer \in Seq(Item) /\ input_buffer # <<>>
          /\ Stream = got \o input_buffer /\ Stream' = got \o input_buffer'
      BY <1>2 DEF StreamInv, Stream
    <3> DEFINE c == SubSeq(input_buffer, 1, Len(input_buffer) - 1)
    <3>2. /\ c \in Seq(Item)
          /\ Len(got \o c) = Len(got \o input_buffer) - 1 /\ Len(got \o input_buffer) \in Nat
          /\ \A i \in 1 .. Len(got \o c) : (got \o c)[i] = (got \o input_buffer)[i]
      BY <3>1, WithoutLast
    <3>3. input_buffer' = c
      BY <2>1
    <3> HIDE DEF c
    <3>4. QED BY <3>1, <3>2, <3>3, Zenon
  <2>3. Increasing(Stream')
    <3>1. SUFFICES ASSUME NEW i \in 1 .. Len(Stream'), NEW j \in 1 .. Len(Stream'), i < j
                   PROVE  Stream'[i].at < Stream'[j].at
      BY DEF Increasing
    <3>2. i \in 1 .. Len(Stream) /\ j \in 1 .. Len(Stream)
      BY <2>2
    <3>3. Stream[i].at < Stream[j].at
      BY <3>1, <3>2 DEF StreamInv, Increasing
    <3>4. QED BY <2>2, <3>3
  <2>4. \A i \in 1 .. Len(Stream') : Stream'[i].at <= typed'
    <3>1. \A i \in 1 .. Len(Stream') : i \in 1 .. Len(Stream)
      BY <2>2
    <3>2. QED BY <1>1, <2>2, <3>1 DEF StreamInv
  <2>5. QED BY <2>2, <2>3, <2>4 DEF StreamInv
<1>3. CASE b \in {"newline", "char"}
  <2> DEFINE r == [at |-> typed + 1, class |-> b]
  <2>1. input_buffer' = Append(input_buffer, r) /\ r \in Item /\ r.at = typed + 1
    BY <1>3 DEF Edited, StreamInv, Item, Byte
  <2> HIDE DEF r
  <2>2. /\ input_buffer' \in Seq(Item) /\ Len(Stream') = Len(Stream) + 1 /\ Len(Stream) \in Nat
        /\ Stream'[Len(Stream) + 1] = r
        /\ \A i \in 1 .. Len(Stream) : Stream'[i] = Stream[i]
    BY <2>1, WithOneMore, SMTT(40) DEF StreamInv, Stream
  <2>3. \A i \in 1 .. Len(Stream') : i \in 1 .. Len(Stream) \/ i = Len(Stream) + 1
    BY <2>2
  <2>4. \A i \in 1 .. Len(Stream) : Stream'[i].at \in Nat /\ Stream'[i].at <= typed
    BY <1>1, <2>2 DEF StreamInv
  <2>5. Increasing(Stream')
    <3>1. SUFFICES ASSUME NEW i \in 1 .. Len(Stream'), NEW j \in 1 .. Len(Stream'), i < j
                   PROVE  Stream'[i].at < Stream'[j].at
      BY DEF Increasing
    <3>2. i \in 1 .. Len(Stream)
      BY <2>2, <3>1
    <3>3. CASE j \in 1 .. Len(Stream)
      BY <2>2, <3>1, <3>2, <3>3 DEF StreamInv, Increasing
    <3>4. CASE j = Len(Stream) + 1
      BY <2>1, <2>2, <2>4, <3>2, <3>4 DEF StreamInv
    <3>5. QED BY <2>3, <3>3, <3>4
  <2>6. \A i \in 1 .. Len(Stream') : Stream'[i].at <= typed'
    <3>1. typed \in Nat /\ Stream'[Len(Stream) + 1].at = typed + 1
      BY <2>1, <2>2 DEF StreamInv
    <3>2. QED BY <2>3, <2>4, <3>1
  <2>7. QED BY <2>2, <2>5, <2>6 DEF StreamInv
<1>4. CASE input_buffer' = input_buffer
  <2>1. Stream' = Stream
    BY <1>4 DEF Stream
  <2>2. QED BY <1>1, <1>4, <2>1 DEF StreamInv, Increasing
<1>5. QED BY <1>2, <1>3, <1>4 DEF Edited

(* A read hands the front of the buffer out: all of it when it waits. *)
LEMMA ReadKeepsOrder ==
  ASSUME StreamInv, NEW n \in 1 .. MaxRead, Read(n)
  PROVE  StreamInv'
<1> DEFINE Moves(k) == /\ got' = got \o SubSeq(input_buffer, 1, k)
                       /\ input_buffer' = SubSeq(input_buffer, k + 1, Len(input_buffer))
<1>1. Len(input_buffer) \in Nat
  BY DEF StreamInv
<1>2. ASSUME NEW k \in 0 .. Len(input_buffer), Moves(k)
      PROVE  StreamInv'
  <2>1. got' \in Seq(Item) /\ input_buffer' \in Seq(Item) /\ Stream' = Stream
    BY <1>2, ReadKeepsStream, Zenon DEF StreamInv, Stream
  <2>2. typed' = typed
    BY DEF Read
  <2>3. QED BY <2>1, <2>2 DEF StreamInv
<1>3. CASE Len(input_buffer) >= n
  <2>1. n \in 0 .. Len(input_buffer)
    BY <1>1, <1>3
  <2>2. Moves(n)
    BY <1>3 DEF Read, Front
  <2>3. QED BY <1>2, <2>1, <2>2, Zenon
<1>4. CASE Len(input_buffer) < n
  <2>1. got' = got \o SubSeq(input_buffer, 1, Len(input_buffer)) /\ input_buffer' = <<>>
    BY <1>4 DEF Read, Front, StreamInv
  <2>2. SubSeq(input_buffer, Len(input_buffer) + 1, Len(input_buffer)) = <<>>
    BY DEF StreamInv
  <2>3. Moves(Len(input_buffer)) /\ Len(input_buffer) \in 0 .. Len(input_buffer)
    BY <1>1, <2>1, <2>2
  <2>4. QED BY <1>2, <2>3
<1>5. QED BY <1>1, <1>3, <1>4

(* Every step keeps the stream in order. *)
LEMMA StreamInvStep == StreamInv /\ [Next]_vars => StreamInv'
<1>1. SUFFICES ASSUME StreamInv, [Next]_vars
               PROVE  StreamInv'
  OBVIOUS
<1>2. ASSUME UNCHANGED ttyVars
      PROVE  StreamInv'
  BY <1>1, <1>2 DEF ttyVars, StreamInv, Stream, Increasing
<1>3. CASE Machine \/ Tick \/ UNCHANGED vars
  BY <1>2, <1>3 DEF Machine, Tick, vars
<1>4. CASE ReadCall
  BY <1>1, <1>4, ReadKeepsOrder DEF ReadCall
<1>5. CASE \E b \in Byte : Interrupt(b)
  BY <1>1, <1>5, EditKeepsOrder DEF Interrupt
<1>6. QED BY <1>1, <1>3, <1>4, <1>5 DEF Next

(* The terminal hands the bytes out in the order they were typed and none  *)
(* twice, whatever is erased, whoever reads, and however a read that waits *)
(* goes on: CharDevice::read and handle_input_byte.                        *)
THEOREM TerminalKeepsOrder == Spec => []InOrderOnce
<1>1. Init => StreamInv
  BY DEF Init, StreamInv, Stream, Increasing
<1>2. StreamInv => InOrderOnce
  BY Zenon DEF StreamInv, Stream, Increasing, InOrderOnce
<1>3. QED BY <1>1, <1>2, StreamInvStep, PTL DEF Spec
=============================================================================
