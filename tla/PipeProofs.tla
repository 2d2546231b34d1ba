----------------------------- MODULE PipeProofs -----------------------------
(***************************************************************************)
(* For every size and every request bound, the ring buffer of a pipe stays *)
(* consistent and is a bounded byte stream: each call maps to the call of  *)
(* module ByteStream on the bytes that wait in the ring.                   *)
(***************************************************************************)
EXTENDS Pipe, SequenceTheorems, TLAPS

(* Every index of the ring is computed from a sum below twice its size. *)
LEMMA ModOnce ==
    \A x \in 0 .. (2 * PIPE_SIZE - 1) :
        x % PIPE_SIZE = IF x < PIPE_SIZE THEN x ELSE x - PIPE_SIZE
<1> SUFFICES ASSUME NEW x \in 0 .. (2 * PIPE_SIZE - 1)
             PROVE  x % PIPE_SIZE = IF x < PIPE_SIZE THEN x ELSE x - PIPE_SIZE
  OBVIOUS
<1> USE PipeAssumption
<1>1. CASE x \in 0 .. (PIPE_SIZE - 1)
  BY <1>1, SMTT(20)
<1>2. CASE x \in PIPE_SIZE .. (2 * PIPE_SIZE - 1)
  BY <1>2, SMTT(20)
<1> QED
  BY <1>1, <1>2

(* The part of TypeOK that concerns the ring, with its indices tied        *)
(* together: what every call needs to compute the next indices.            *)
Ring ==
    /\ head \in Cells
    /\ tail \in Cells
    /\ count \in 0 .. PIPE_SIZE
    /\ RingConsistent

LEMMA LeastBounds ==
    ASSUME NEW a \in Nat, NEW b \in Nat
    PROVE  Least(a, b) \in Nat /\ Least(a, b) <= a /\ Least(a, b) <= b
  BY DEF Least

(* Where head stands, without the remainder. *)
LEMMA HeadOf ==
    ASSUME Ring
    PROVE  head = IF tail + count < PIPE_SIZE THEN tail + count
                                              ELSE tail + count - PIPE_SIZE
<1>1. tail + count \in 0 .. (2 * PIPE_SIZE - 1)
  BY PipeAssumption DEF Ring, Cells
<1>2. (tail + count) % PIPE_SIZE
        = IF tail + count < PIPE_SIZE THEN tail + count
                                      ELSE tail + count - PIPE_SIZE
  BY <1>1, ModOnce, PipeAssumption DEF Ring, Cells
<1> QED
  BY <1>2 DEF Ring, RingConsistent

LEMMA WriteKeepsRing ==
    ASSUME Ring, NEW data \in Requests, Write(data)
    PROVE  Ring'
<1> USE PipeAssumption
<1> DEFINE n == Written(data)
<1>1. n \in Nat /\ n <= PIPE_SIZE - count
  <2>1. Len(data) \in Nat
    BY DEF Requests
  <2>2. PIPE_SIZE - count \in Nat
    BY DEF Ring
  <2>3. CASE closed
    BY <2>2, <2>3 DEF Written
  <2>4. CASE ~closed
    BY <2>1, <2>2, <2>4, LeastBounds DEF Written
  <2> QED
    BY <2>3, <2>4
<1>2. /\ head' = (head + n) % PIPE_SIZE
      /\ count' = count + n
      /\ tail' = tail
  BY DEF Write
<1> HIDE DEF n
<1>3. /\ head + n \in 0 .. (2 * PIPE_SIZE - 1)
      /\ tail + (count + n) \in 0 .. (2 * PIPE_SIZE - 1)
  BY <1>1 DEF Ring, Cells
<1>4. (head + n) % PIPE_SIZE
        = IF head + n < PIPE_SIZE THEN head + n ELSE head + n - PIPE_SIZE
  BY <1>1, <1>3, ModOnce DEF Ring, Cells
<1>5. (tail + (count + n)) % PIPE_SIZE
        = IF tail + (count + n) < PIPE_SIZE
          THEN tail + (count + n) ELSE tail + (count + n) - PIPE_SIZE
  BY <1>1, <1>3, ModOnce DEF Ring, Cells
<1> QED
  BY <1>1, <1>2, <1>4, <1>5, HeadOf DEF Ring, RingConsistent, Cells

LEMMA ReadKeepsRing ==
    ASSUME Ring, NEW k \in 0 .. MaxRequest, Read(k)
    PROVE  Ring'
<1> USE PipeAssumption
<1> DEFINE n == Least(k, count)
<1>1. n \in Nat /\ n <= count
  BY LeastBounds DEF Ring
<1>2. /\ tail' = (tail + n) % PIPE_SIZE
      /\ count' = count - n
      /\ head' = head
  BY DEF Read
<1> HIDE DEF n
<1>3. tail + n \in 0 .. (2 * PIPE_SIZE - 1)
  BY <1>1 DEF Ring, Cells
<1>4. (tail + n) % PIPE_SIZE
        = IF tail + n < PIPE_SIZE THEN tail + n ELSE tail + n - PIPE_SIZE
  BY <1>1, <1>3, ModOnce DEF Ring, Cells
<1>5. /\ tail' \in Cells
      /\ count - n \in Nat
      /\ tail' + (count - n) \in 0 .. (2 * PIPE_SIZE - 1)
  BY <1>1, <1>2, <1>4 DEF Ring, Cells
<1>6. head = (tail' + (count - n)) % PIPE_SIZE
  <2>1. /\ PIPE_SIZE \in Nat /\ tail \in Nat /\ count \in Nat
        /\ tail < PIPE_SIZE /\ count <= PIPE_SIZE
    BY DEF Ring, Cells
  <2>2. CASE tail + n < PIPE_SIZE
    <3>1. tail' + (count - n) = tail + count
      BY <1>1, <1>2, <1>4, <2>1, <2>2
    <3>2. head = (tail + count) % PIPE_SIZE
      BY DEF Ring, RingConsistent
    <3> QED
      BY ONLY <3>1, <3>2, Zenon
  <2>3. CASE ~(tail + n < PIPE_SIZE)
    <3> DEFINE z == tail + count - PIPE_SIZE
    <3>1. tail' + (count - n) = z
      BY <1>1, <1>2, <1>4, <2>1, <2>3
    <3>2. z \in 0 .. (2 * PIPE_SIZE - 1) /\ z < PIPE_SIZE
      BY <1>1, <2>1, <2>3
    <3>3. head = z
      BY <2>1, <3>2, HeadOf DEF Ring
    <3> HIDE DEF z
    <3>4. z % PIPE_SIZE = z
      BY ONLY <3>2, ModOnce, Zenon
    <3> QED
      BY ONLY <3>1, <3>3, <3>4, Zenon
  <2> QED
    BY <2>2, <2>3
<1> QED
  BY <1>1, <1>2, <1>5, <1>6 DEF Ring, RingConsistent, Cells

LEMMA RingStep == ASSUME Ring, [Next]_pvars PROVE Ring'
<1>1. CASE Close
  BY <1>1 DEF Close, Ring, RingConsistent
<1>2. CASE UNCHANGED pvars
  BY <1>2 DEF pvars, Ring, RingConsistent
<1> QED
  BY <1>1, <1>2, WriteKeepsRing, ReadKeepsRing DEF Next

(* Whatever mix of full, empty and partial transfers has happened, the     *)
(* three indices kept by PipeBuffer::write and PipeBuffer::read describe   *)
(* one window of the ring.                                                 *)
THEOREM PipeRing == Spec => []RingConsistent
<1>1. Init => Ring
  <2>1. 0 % PIPE_SIZE = 0
    BY PipeAssumption, ModOnce
  <2> QED
    BY <2>1, PipeAssumption DEF Init, Ring, RingConsistent, Cells
<1>2. Ring /\ [Next]_pvars => Ring'
  BY RingStep
<1>3. Ring => RingConsistent
  BY DEF Ring
<1> QED
  BY <1>1, <1>2, <1>3, PTL DEF Spec

-----------------------------------------------------------------------------
(* The ring buffer implements the byte stream.                             *)

Inv == TypeOK /\ RingConsistent

LEMMA InvRing == Inv => Ring
  BY DEF Inv, TypeOK, Ring

(* The cell of the i-th waiting byte, counted from the cell t.             *)
Cell(t, i) == (t + i - 1) % PIPE_SIZE

LEMMA CellOf ==
    ASSUME NEW t \in Cells, NEW i \in 1 .. PIPE_SIZE
    PROVE  /\ Cell(t, i) \in Cells
           /\ Cell(t, i) = IF t + i - 1 < PIPE_SIZE THEN t + i - 1 ELSE t + i - 1 - PIPE_SIZE
<1> DEFINE z == t + i - 1
<1>1. z \in 0 .. (2 * PIPE_SIZE - 1)
  BY PipeAssumption DEF Cells
<1>2. Cell(t, i) = z % PIPE_SIZE
  BY DEF Cell
<1> HIDE DEF z
<1>3. z % PIPE_SIZE = IF z < PIPE_SIZE THEN z ELSE z - PIPE_SIZE
  BY ONLY <1>1, ModOnce, Zenon
<1>4. Cell(t, i) = IF t + i - 1 < PIPE_SIZE THEN t + i - 1 ELSE t + i - 1 - PIPE_SIZE
  BY <1>2, <1>3, PipeAssumption DEF z, Cells
<1> QED
  BY <1>4, PipeAssumption DEF Cells

LEMMA BytesAreSeq ==
    ASSUME NEW S, NEW m \in Nat, NEW f \in [1 .. m -> S]
    PROVE  f \in Seq(S) /\ Len(f) = m
  OBVIOUS

(* The m bytes of the ring b from the cell t on. *)
Window(b, t, m) == [i \in 1 .. m |-> b[Cell(t, i)]]

LEMMA WindowFacts ==
    ASSUME NEW b \in [Cells -> Byte], NEW t \in Cells, NEW m \in 0 .. PIPE_SIZE
    PROVE  /\ Window(b, t, m) \in Seq(Byte)
           /\ Len(Window(b, t, m)) = m
           /\ \A i \in 1 .. m : Window(b, t, m)[i] = b[Cell(t, i)]
           /\ \A i \in 1 .. m : Window(b, t, m)[i] \in Byte
<1>1. \A i \in 1 .. m : Cell(t, i) \in Cells
  <2>1. \A i \in 1 .. m : i \in 1 .. PIPE_SIZE
    BY PipeAssumption
  <2> QED
    BY <2>1, CellOf
<1>2. \A i \in 1 .. m : Window(b, t, m)[i] = b[Cell(t, i)]
  BY DEF Window
<1>3. \A i \in 1 .. m : b[Cell(t, i)] \in Byte
  BY <1>1
<1>4. Window(b, t, m) \in [1 .. m -> Byte]
  BY <1>3 DEF Window
<1>5. m \in Nat
  OBVIOUS
<1> QED
  BY <1>2, <1>3, <1>4, <1>5, BytesAreSeq

LEMMA WaitingOf ==
    ASSUME Inv
    PROVE  /\ Waiting = Window(buffer, tail, count)
           /\ Waiting \in Seq(Byte)
           /\ Len(Waiting) = count
           /\ \A i \in 1 .. count : Waiting[i] = buffer[Cell(tail, i)]
           /\ \A i \in 1 .. count : Waiting[i] \in Byte
<1>1. Waiting = Window(buffer, tail, count)
  BY DEF Waiting, Window, Cell
<1>2. count \in 0 .. PIPE_SIZE /\ tail \in Cells /\ buffer \in [Cells -> Byte]
  BY DEF Inv, TypeOK
<1> QED
  BY <1>1, <1>2, WindowFacts

LEMMA RequestFacts ==
    ASSUME NEW data \in Requests
    PROVE  /\ data \in Seq(Byte) /\ Len(data) \in 0 .. MaxRequest
           /\ \A i \in 1 .. Len(data) : data[i] \in Byte
<1>1. PICK m \in 0 .. MaxRequest : data \in [1 .. m -> Byte]
  BY DEF Requests
<1> QED
  BY <1>1

LEMMA WriteKeeps ==
    ASSUME Inv, NEW data \in Requests, Write(data)
    PROVE  Inv' /\ Stream!Put(data)
<1> USE PipeAssumption
<1> DEFINE n == Written(data)
<1>1. /\ n \in Nat /\ n <= PIPE_SIZE - count /\ n <= Len(data)
      /\ n = IF ~closed THEN Stream!Least(Len(data), PIPE_SIZE - Len(Waiting)) ELSE 0
  BY RequestFacts, WaitingOf, InvRing DEF Written, Least, Stream!Least, Ring
<1>2. /\ buffer' = Stored(data, n)
      /\ count' = count + n
      /\ tail' = tail /\ closed' = closed
      /\ result' = [n |-> n, bytes |-> <<>>]
  BY DEF Write
<1> HIDE DEF n
<1>3. /\ head \in Cells /\ tail \in Cells /\ count \in Nat /\ count <= PIPE_SIZE
      /\ buffer \in [Cells -> Byte] /\ closed \in BOOLEAN
  BY DEF Inv, TypeOK
<1> DEFINE K(c) == (c + PIPE_SIZE - head) % PIPE_SIZE
<1>4. ASSUME NEW c \in Cells
      PROVE  /\ K(c) \in Cells
             /\ K(c) = IF c < head THEN c + PIPE_SIZE - head ELSE c - head
  <2> DEFINE z == c + PIPE_SIZE - head
  <2>1. z \in 0 .. (2 * PIPE_SIZE - 1)
    BY <1>3 DEF Cells
  <2>2. K(c) = z % PIPE_SIZE
    OBVIOUS
  <2> HIDE DEF z, K
  <2>3. z % PIPE_SIZE = IF z < PIPE_SIZE THEN z ELSE z - PIPE_SIZE
    BY ONLY <2>1, ModOnce, Zenon
  <2>4. K(c) = IF c + PIPE_SIZE - head < PIPE_SIZE THEN c + PIPE_SIZE - head
               ELSE c - head
    BY <1>3, <2>2, <2>3 DEF z, Cells
  <2> QED
    BY <1>3, <2>4 DEF Cells
<1>5. ASSUME NEW c \in Cells
      PROVE  buffer'[c] = IF K(c) < n THEN data[K(c) + 1] ELSE buffer[c]
  BY <1>2 DEF Stored
<1>6. Ring'
  BY WriteKeepsRing, InvRing
<1>7. TypeOK'
  <2>1. buffer' \in [Cells -> Byte]
    <3>1. ASSUME NEW c \in Cells, K(c) < n PROVE data[K(c) + 1] \in Byte
      <4> HIDE DEF K
      <4>1. K(c) \in Nat /\ K(c) < n /\ Len(data) \in Nat
        BY <1>4, <3>1, RequestFacts DEF Cells
      <4>2. K(c) + 1 \in 1 .. Len(data)
        BY <1>1, <4>1
      <4> QED
        BY <4>2, RequestFacts
    <3> HIDE DEF K
    <3>2. \A c \in Cells : buffer'[c] \in Byte
      BY <1>3, <1>5, <3>1
    <3>3. buffer' = [c \in Cells |-> buffer'[c]]
      BY <1>2 DEF Stored
    <3> QED
      BY <3>2, <3>3
  <2>2. result' \in [n : 0 .. MaxRequest, bytes : Requests]
    <3>1. <<>> \in [1 .. 0 -> Byte] /\ n \in 0 .. MaxRequest
      BY <1>1, RequestFacts
    <3> QED
      BY <1>2, <3>1 DEF Requests
  <2> QED
    BY <1>2, <1>3, <1>6, <2>1, <2>2 DEF TypeOK, Ring
<1>8. Inv'
  BY <1>6, <1>7 DEF Inv, Ring
<1>9. /\ count + n \in Nat /\ count + n <= PIPE_SIZE
      /\ head = IF tail + count < PIPE_SIZE THEN tail + count ELSE tail + count - PIPE_SIZE
  BY <1>1, <1>3, HeadOf, InvRing
(* What was waiting is not touched, and the new bytes follow it.           *)
<1>10. ASSUME NEW i \in 1 .. count + n
       PROVE  buffer'[Cell(tail, i)]
                = IF i <= count THEN buffer[Cell(tail, i)] ELSE data[i - count]
  <2> DEFINE c == Cell(tail, i)
  <2>1. /\ c \in Cells
        /\ c = IF tail + i - 1 < PIPE_SIZE THEN tail + i - 1 ELSE tail + i - 1 - PIPE_SIZE
    BY <1>3, <1>9, CellOf
  <2> HIDE DEF c, K
  <2>2. K(c) = IF c < head THEN c + PIPE_SIZE - head ELSE c - head
    BY <1>4, <2>1
  <2>3. /\ tail \in Nat /\ tail < PIPE_SIZE /\ i \in Nat /\ i >= 1 /\ i <= count + n
        /\ PIPE_SIZE \in Nat /\ count + n <= PIPE_SIZE
    BY <1>1, <1>3, <1>9 DEF Cells
  <2>4. i <= count => ~(K(c) < n)
    <3>1. count \in Nat /\ n \in Nat
      BY <1>1, <1>3
    <3> QED
      BY ONLY <1>9, <2>1, <2>2, <2>3, <3>1
  <2>5. i > count => K(c) = i - count - 1
    <3> SUFFICES ASSUME i > count PROVE K(c) = i - count - 1
      OBVIOUS
    <3>1. CASE tail + i - 1 < PIPE_SIZE
      <4>1. c = tail + i - 1 /\ head = tail + count /\ ~(c < head)
        BY <1>1, <1>3, <1>9, <2>1, <2>3, <3>1
      <4> QED
        BY <1>3, <2>2, <2>3, <4>1
    <3>2. CASE ~(tail + i - 1 < PIPE_SIZE) /\ tail + count < PIPE_SIZE
      <4>1. c = tail + i - 1 - PIPE_SIZE /\ head = tail + count /\ c < head
        BY <1>1, <1>3, <1>9, <2>1, <2>3, <3>2
      <4> QED
        BY <1>3, <2>2, <2>3, <4>1
    <3>3. CASE ~(tail + count < PIPE_SIZE)
      <4>1. /\ c = tail + i - 1 - PIPE_SIZE /\ head = tail + count - PIPE_SIZE
            /\ ~(c < head)
        BY <1>1, <1>3, <1>9, <2>1, <2>3, <3>3
      <4> QED
        BY <1>3, <2>2, <2>3, <4>1
    <3> QED
      BY <3>1, <3>2, <3>3
  <2>6. i > count => K(c) < n /\ K(c) + 1 = i - count
    BY <1>1, <1>3, <2>5
  <2> QED
    BY <1>3, <1>5, <2>1, <2>4, <2>6 DEF c
<1>11. Waiting' = Waiting \o SubSeq(data, 1, n)
  <2>1. /\ Waiting' \in Seq(Byte) /\ Len(Waiting') = count + n
        /\ \A i \in 1 .. count + n : Waiting'[i] = buffer'[Cell(tail, i)]
    <3>1. Waiting' = Window(buffer', tail, count + n)
      BY <1>2 DEF Waiting, Window, Cell
    <3>2. buffer' \in [Cells -> Byte] /\ count + n \in 0 .. PIPE_SIZE
      BY <1>7, <1>9 DEF TypeOK
    <3> QED
      BY <1>3, <3>1, <3>2, WindowFacts
  <2>2. /\ SubSeq(data, 1, n) \in Seq(Byte) /\ Len(SubSeq(data, 1, n)) = n
        /\ \A i \in 1 .. n : SubSeq(data, 1, n)[i] = data[i]
    BY <1>1, RequestFacts, SubSeqProperties
  <2>3. /\ Waiting \o SubSeq(data, 1, n) \in Seq(Byte)
        /\ Len(Waiting \o SubSeq(data, 1, n)) = count + n
        /\ \A i \in 1 .. count + n :
              (Waiting \o SubSeq(data, 1, n))[i]
                = IF i <= count THEN Waiting[i] ELSE SubSeq(data, 1, n)[i - count]
    <3> HIDE DEF K
    <3> DEFINE t == SubSeq(data, 1, n)
    <3>1. t \in Seq(Byte) /\ Len(t) = n
      BY <2>2
    <3>2. Waiting \in Seq(Byte) /\ Len(Waiting) = count
      BY WaitingOf
    <3> HIDE DEF t
    <3> QED
      BY <3>1, <3>2, ConcatProperties DEF t
  <2>4. ASSUME NEW i \in 1 .. count + n
        PROVE  Waiting'[i] = (Waiting \o SubSeq(data, 1, n))[i]
    <3>1. Waiting'[i] = IF i <= count THEN buffer[Cell(tail, i)] ELSE data[i - count]
      BY <1>10, <2>1
    <3>2. i <= count => i \in 1 .. count
      BY <1>1, <1>3
    <3>3. ~(i <= count) => i - count \in 1 .. n
      BY <1>1, <1>3
    <3> QED
      BY <2>2, <2>3, <3>1, <3>2, <3>3, WaitingOf
  <2> QED
    BY <2>1, <2>3, <2>4, SeqEqual
<1> QED
  BY <1>1, <1>2, <1>8, <1>11 DEF Stream!Put

LEMMA ReadKeeps ==
    ASSUME Inv, NEW k \in 0 .. MaxRequest, Read(k)
    PROVE  Inv' /\ Stream!Take(k)
<1> USE PipeAssumption
<1> DEFINE n == Least(k, count)
<1>1. /\ n \in Nat /\ n <= count /\ n <= k
      /\ n = Stream!Least(k, Len(Waiting))
  BY WaitingOf DEF Least, Stream!Least, Inv, TypeOK
<1>2. /\ tail' = (tail + n) % PIPE_SIZE
      /\ count' = count - n
      /\ result' = [n |-> n, bytes |-> [i \in 1 .. n |-> buffer[Cell(tail, i)]]]
      /\ buffer' = buffer /\ head' = head /\ closed' = closed
  BY DEF Read, Cell
<1> HIDE DEF n
<1>3. /\ tail \in Cells /\ count \in Nat /\ count <= PIPE_SIZE
      /\ buffer \in [Cells -> Byte] /\ closed \in BOOLEAN /\ head \in Cells
  BY DEF Inv, TypeOK
<1>4. Ring'
  BY ReadKeepsRing, InvRing
<1>5. \A i \in 1 .. count : Cell(tail, i) \in Cells
  BY <1>3, CellOf
<1>6. TypeOK'
  <2>1. [i \in 1 .. n |-> buffer[Cell(tail, i)]] \in [1 .. n -> Byte]
    BY <1>1, <1>3, <1>5
  <2>2. result' \in [n : 0 .. MaxRequest, bytes : Requests]
    BY <1>1, <1>2, <2>1 DEF Requests
  <2> QED
    BY <1>2, <1>3, <1>4, <2>2 DEF TypeOK, Ring
<1>7. Inv'
  BY <1>4, <1>6 DEF Inv, Ring
<1>8. tail' = IF tail + n < PIPE_SIZE THEN tail + n ELSE tail + n - PIPE_SIZE
  <2> DEFINE z == tail + n
  <2>1. z \in 0 .. (2 * PIPE_SIZE - 1)
    BY <1>1, <1>3 DEF Cells
  <2>2. tail' = z % PIPE_SIZE
    BY <1>2
  <2> HIDE DEF z
  <2>3. z % PIPE_SIZE = IF z < PIPE_SIZE THEN z ELSE z - PIPE_SIZE
    BY ONLY <2>1, ModOnce, Zenon
  <2>4. tail' = IF z < PIPE_SIZE THEN z ELSE z - PIPE_SIZE
    BY ONLY <2>2, <2>3, Zenon
  <2>5. n \in Nat /\ tail \in Nat /\ PIPE_SIZE \in Nat
    BY <1>1, <1>3 DEF Cells
  <2> QED
    BY ONLY <2>4, <2>5 DEF z
(* The bytes after the first n are where they were.                        *)
<1>9. ASSUME NEW i \in 1 .. count - n
      PROVE  Cell(tail', i) = Cell(tail, i + n)
  <2>1. /\ i \in 1 .. PIPE_SIZE /\ i + n \in 1 .. PIPE_SIZE /\ tail' \in Cells
    <3>1. n \in Nat /\ count \in Nat /\ count <= PIPE_SIZE /\ PIPE_SIZE \in Nat
      BY <1>1, <1>3
    <3>2. i \in 1 .. PIPE_SIZE /\ i + n \in 1 .. PIPE_SIZE
      BY ONLY <3>1, i \in 1 .. count - n
    <3> QED
      BY <1>4, <3>2 DEF Ring
  <2>2. /\ Cell(tail', i) = IF tail' + i - 1 < PIPE_SIZE THEN tail' + i - 1
                            ELSE tail' + i - 1 - PIPE_SIZE
        /\ Cell(tail, i + n) = IF tail + (i + n) - 1 < PIPE_SIZE THEN tail + (i + n) - 1
                               ELSE tail + (i + n) - 1 - PIPE_SIZE
    BY <1>3, <2>1, CellOf
  <2>3. /\ tail \in Nat /\ tail < PIPE_SIZE /\ i \in Nat /\ i >= 1 /\ i <= count - n
        /\ PIPE_SIZE \in Nat
    BY <1>1, <1>3 DEF Cells
  <2>4. CASE tail + n < PIPE_SIZE
    <3>1. tail' + i - 1 = tail + (i + n) - 1
      BY <1>1, <1>8, <2>3, <2>4
    <3>2. /\ Cell(tail', i) = (tail' + i - 1) % PIPE_SIZE
          /\ Cell(tail, i + n) = (tail + (i + n) - 1) % PIPE_SIZE
      BY DEF Cell
    <3> QED
      BY ONLY <3>1, <3>2, Zenon
  <2>5. CASE ~(tail + n < PIPE_SIZE)
    <3>1. tail' = tail + n - PIPE_SIZE
      BY <1>8, <2>5
    <3>2. n \in Nat /\ count \in Nat /\ count <= PIPE_SIZE
      BY <1>1, <1>3
    <3>3. tail' + i - 1 < PIPE_SIZE /\ ~(tail + (i + n) - 1 < PIPE_SIZE)
      BY ONLY <2>3, <2>5, <3>1, <3>2
    <3>4. tail' + i - 1 = tail + (i + n) - 1 - PIPE_SIZE
      BY ONLY <2>3, <3>1, <3>2
    <3> QED
      BY ONLY <2>2, <3>3, <3>4
  <2> QED
    BY <2>4, <2>5
<1>10. Waiting' = SubSeq(Waiting, n + 1, Len(Waiting))
  <2>1. /\ Waiting' \in Seq(Byte) /\ Len(Waiting') = count - n
        /\ \A i \in 1 .. count - n : Waiting'[i] = buffer[Cell(tail', i)]
    <3>1. Waiting' = Window(buffer, tail', count - n)
      BY <1>2 DEF Waiting, Window, Cell
    <3>2. tail' \in Cells /\ count - n \in 0 .. PIPE_SIZE
      BY <1>1, <1>3, <1>4 DEF Ring
    <3> QED
      BY <1>3, <3>1, <3>2, WindowFacts
  <2>2. /\ SubSeq(Waiting, n + 1, count) \in Seq(Byte)
        /\ Len(SubSeq(Waiting, n + 1, count)) = count - n
        /\ \A i \in 1 .. count - n : SubSeq(Waiting, n + 1, count)[i] = Waiting[n + i]
    <3>1. \A i \in n + 1 .. count : Waiting[i] \in Byte
      BY <1>1, <1>3, <1>5, WaitingOf
    <3>2. /\ SubSeq(Waiting, n + 1, count) \in Seq(Byte)
          /\ Len(SubSeq(Waiting, n + 1, count))
               = IF n + 1 <= count THEN count - (n + 1) + 1 ELSE 0
          /\ \A i \in 1 .. count - (n + 1) + 1 :
                SubSeq(Waiting, n + 1, count)[i] = Waiting[(n + 1) + i - 1]
      <4>1. n + 1 \in Nat /\ count \in Nat
        BY <1>1, <1>3
      <4>2. Waiting \in Seq(Byte)
        BY <1>3, WaitingOf
      <4> QED
        BY ONLY <3>1, <4>1, <4>2, SubSeqProperties
    <3>3. Len(SubSeq(Waiting, n + 1, count)) = count - n
      BY <1>1, <1>3, <3>2
    <3>4. ASSUME NEW i \in 1 .. count - n
          PROVE  SubSeq(Waiting, n + 1, count)[i] = Waiting[n + i]
      <4>1. i \in 1 .. count - (n + 1) + 1 /\ (n + 1) + i - 1 = n + i
        BY <1>1, <1>3
      <4>2. SubSeq(Waiting, n + 1, count)[i] = Waiting[(n + 1) + i - 1]
        BY <3>2, <4>1
      <4> QED
        BY <4>1, <4>2
    <3> QED
      BY <3>2, <3>3, <3>4
  <2>3. ASSUME NEW i \in 1 .. count - n
        PROVE  Waiting'[i] = SubSeq(Waiting, n + 1, count)[i]
    <3>1. i + n \in 1 .. count /\ i + n = n + i
      BY <1>1, <1>3
    <3>2. /\ Waiting'[i] = buffer[Cell(tail', i)] /\ Cell(tail', i) = Cell(tail, i + n)
          /\ SubSeq(Waiting, n + 1, count)[i] = Waiting[n + i]
      BY <1>9, <2>1, <2>2
    <3>3. Waiting[i + n] = buffer[Cell(tail, i + n)]
      BY <3>1, WaitingOf
    <3> QED
      BY ONLY <3>1, <3>2, <3>3
  <2> QED
    BY <2>1, <2>2, <2>3, SeqEqual, WaitingOf
<1>11. [i \in 1 .. n |-> buffer[Cell(tail, i)]] = SubSeq(Waiting, 1, n)
  <2>1. \A i \in 1 .. n : Waiting[i] \in Byte
    BY <1>1, <1>3, <1>5, WaitingOf
  <2>2. /\ SubSeq(Waiting, 1, n) \in Seq(Byte) /\ Len(SubSeq(Waiting, 1, n)) = n
        /\ \A i \in 1 .. n : SubSeq(Waiting, 1, n)[i] = Waiting[i]
    BY <1>1, <2>1, SubSeqProperties
  <2>3. SubSeq(Waiting, 1, n) = [i \in 1 .. n |-> SubSeq(Waiting, 1, n)[i]]
    BY <2>2
  <2>4. \A i \in 1 .. n : SubSeq(Waiting, 1, n)[i] = buffer[Cell(tail, i)]
    BY <1>1, <1>3, <2>2, WaitingOf
  <2> QED
    BY <2>3, <2>4
<1> QED
  BY <1>1, <1>2, <1>7, <1>10, <1>11 DEF Stream!Take

LEMMA InitImplements == Init => Inv /\ Stream!Init
<1> SUFFICES ASSUME Init PROVE Inv /\ Stream!Init
  OBVIOUS
<1>1. 0 % PIPE_SIZE = 0
  BY PipeAssumption, ModOnce
<1>2. <<>> \in [1 .. 0 -> Byte]
  OBVIOUS
<1>3. Inv
  <2>1. result \in [n : 0 .. MaxRequest, bytes : Requests]
    <3>1. 0 \in 0 .. MaxRequest
      BY PipeAssumption
    <3>2. <<>> \in Requests
      BY <1>2, <3>1 DEF Requests
    <3> QED
      BY <3>1, <3>2 DEF Init
  <2>2. RingConsistent
    BY <1>1 DEF Init, RingConsistent
  <2>3. 0 \in Cells /\ 0 \in 0 .. PIPE_SIZE
    BY PipeAssumption DEF Cells
  <2>4. buffer \in [Cells -> Byte]
    BY PipeAssumption DEF Init
  <2> QED
    BY <2>1, <2>2, <2>3, <2>4 DEF Init, Inv, TypeOK
<1>4. Waiting = <<>>
  BY <1>3, WaitingOf DEF Init
<1> QED
  BY <1>3, <1>4 DEF Init, Stream!Init

LEMMA StepImplements == Inv /\ [Next]_pvars => Inv' /\ [Stream!Next]_(Stream!svars)
<1> SUFFICES ASSUME Inv, [Next]_pvars PROVE Inv' /\ [Stream!Next]_(Stream!svars)
  OBVIOUS
<1>1. CASE \E data \in Requests : Write(data)
  BY <1>1, WriteKeeps DEF Stream!Next, Stream!Requests, Requests
<1>2. CASE \E k \in 0 .. MaxRequest : Read(k)
  BY <1>2, ReadKeeps DEF Stream!Next
<1>3. CASE Close
  BY <1>3 DEF Close, Inv, TypeOK, RingConsistent, Waiting, Stream!Next, Stream!Shut
<1>4. CASE UNCHANGED pvars
  BY <1>4 DEF pvars, Inv, TypeOK, RingConsistent, Waiting, Stream!svars
<1> QED
  BY <1>1, <1>2, <1>3, <1>4 DEF Next

(* Indices, bytes and results keep their types (PipeBuffer).               *)
THEOREM PipeTypes == Spec => []TypeOK
<1>1. Inv => TypeOK
  BY DEF Inv
<1> QED
  BY <1>1, InitImplements, StepImplements, PTL DEF Spec

(* A pipe is a bounded byte stream: no byte is lost, duplicated or         *)
(* reordered across the wrap-around, a full pipe takes a prefix and        *)
(* reports its length, and what was accepted before the close can still be *)
(* read (PipeBuffer::write, PipeBuffer::read, Pipe::close).                *)
THEOREM PipeImplementsStream == Spec => ImplementsStream
  BY InitImplements, StepImplements, PTL DEF Spec, ImplementsStream, Stream!Spec
=============================================================================
