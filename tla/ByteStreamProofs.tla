-------------------------- MODULE ByteStreamProofs --------------------------
(***************************************************************************)
(* The ring of ByteStream is a FIFO for every capacity, every alphabet and *)
(* every length of stream, as long as the two cursors fit in an int.       *)
(***************************************************************************)
EXTENDS ByteStream, NumberFacts, SequenceTheorems

\* The cursors are the counters, the reader's one capacity ahead; no more
\* than a capacity is unread; and the slots of unread bytes hold bytes.
IInv ==
  /\ ring \in [Slots -> Byte \cup {NoByte}]
  /\ is_end \in BOOLEAN /\ error \in BOOLEAN
  /\ returned \in Seq(Byte)
  /\ write_cnt \in 0 .. MaxBytes
  /\ read_cnt \in 0 .. write_cnt
  /\ write_cnt - read_cnt <= Capacity
  /\ begin = write_cnt
  /\ end = Capacity + read_cnt
  /\ \A i \in read_cnt .. write_cnt - 1 : ring[i % Capacity] \in Byte

\* What the constants are, for the arithmetic below.
LEMMA Bounds ==
  ASSUME CursorsFit
  PROVE  /\ Capacity \in Nat \ {0} /\ MaxBytes \in Nat /\ IntHalf \in Nat \ {0}
         /\ SizeModulus \in Nat \ {0} /\ SizeModulus >= 2 * IntHalf
         /\ MaxBytes + Capacity < IntHalf
         /\ NoByte \notin Byte
         /\ MaxString \in Nat
  BY StreamAssumption, SMT DEF CursorsFit

\* A number that fits in an int is unchanged by the conversion to int.
LEMMA ToIntFits ==
  ASSUME NEW x \in Nat, x < IntHalf
  PROVE  ToInt(x) = x
<1>1. IntHalf \in Nat /\ 2 * IntHalf \in Nat \ {0}  BY StreamAssumption, SMT
<1>2. x + IntHalf \in 0 .. 2 * IntHalf - 1  BY <1>1, SMT
<1>3. (0 * (2 * IntHalf) + (x + IntHalf)) % (2 * IntHalf) = x + IntHalf
  BY <1>1, <1>2, ModUnique
<1>4. 0 * (2 * IntHalf) + (x + IntHalf) = x + IntHalf  BY <1>1, SMT
<1> QED  BY <1>1, <1>3, <1>4, SMT DEF ToInt

\* A number that fits in an int is unchanged by the conversion to size_t.
LEMMA ToSizeFits ==
  ASSUME NEW x \in Nat, x < IntHalf
  PROVE  ToSize(x) = x
<1>1. x \in 0 .. SizeModulus - 1 /\ SizeModulus \in Nat \ {0}
  BY StreamAssumption, SMT
<1>2. (0 * SizeModulus + x) % SizeModulus = x  BY <1>1, ModUnique
<1>3. 0 * SizeModulus + x = x  BY <1>1, SMT
<1> QED  BY <1>2, <1>3 DEF ToSize

\* The slot of a cursor is a slot of the ring.
LEMMA SlotType ==
  ASSUME NEW x \in Nat, x < IntHalf
  PROVE  Slot(x) = x % Capacity /\ Slot(x) \in Slots
<1>1. Slot(x) = x % Capacity  BY ToSizeFits DEF Slot
<1> QED  BY <1>1, ModSplit, StreamAssumption DEF Slots

\* The arithmetic part of the invariant, with the bound it gives.
LEMMA Counters ==
  ASSUME CursorsFit, IInv
  PROVE  /\ Capacity \in Nat \ {0} /\ IntHalf \in Nat
         /\ write_cnt \in Nat /\ read_cnt \in Nat
         /\ read_cnt <= write_cnt /\ write_cnt - read_cnt <= Capacity
         /\ write_cnt - read_cnt \in Nat
         /\ begin = write_cnt /\ end = Capacity + read_cnt
         /\ write_cnt + Capacity < IntHalf
  BY Bounds, SMT DEF IInv

\* The sizes that the code computes from the cursors are the true ones.
LEMMA SizesAreTrue ==
  ASSUME CursorsFit, IInv
  PROVE  /\ BufferSize = write_cnt - read_cnt
         /\ Remaining = Capacity - (write_cnt - read_cnt)
<1>1. begin - (end - Capacity) = write_cnt - read_cnt
  BY Counters, SMT
<1>2. write_cnt - read_cnt \in Nat /\ write_cnt - read_cnt < IntHalf
  BY Counters, SMT
<1>3. BufferSize = write_cnt - read_cnt
  BY <1>1, <1>2, ToSizeFits DEF BufferSize
<1>4. Capacity - BufferSize \in Nat /\ Capacity - BufferSize < IntHalf
  BY <1>2, <1>3, Counters, SMT
<1> QED  BY <1>3, <1>4, ToSizeFits DEF Remaining

\* The bytes between two counters of a ring, oldest first.
Unread(rg, r, w) == [j \in 1 .. w - r |-> rg[Slot(r + j - 1)]]

\* They form a sequence of bytes, and each of them is in its slot.
LEMMA UnreadInRing ==
  ASSUME CursorsFit, NEW rg, NEW r \in Nat, NEW w \in Nat,
         r <= w, w + Capacity < IntHalf,
         \A i \in r .. w - 1 : rg[i % Capacity] \in Byte
  PROVE  /\ Unread(rg, r, w) \in Seq(Byte)
         /\ Len(Unread(rg, r, w)) = w - r
         /\ \A j \in 1 .. w - r :
              /\ Unread(rg, r, w)[j] = rg[(r + j - 1) % Capacity]
              /\ Unread(rg, r, w)[j] \in Byte
<1> DEFINE k == w - r
           s == Unread(rg, r, w)
<1>1. k \in Nat /\ Capacity \in Nat /\ IntHalf \in Nat  BY Bounds, SMT
<1>2. ASSUME NEW j \in 1 .. k
      PROVE  Slot(r + j - 1) = (r + j - 1) % Capacity
  <2>1. r + j - 1 \in Nat /\ r + j - 1 < IntHalf  BY <1>1, SMT
  <2> QED  BY <2>1, SlotType
<1>3. ASSUME NEW j \in 1 .. k
      PROVE  rg[(r + j - 1) % Capacity] \in Byte
  <2>1. r + j - 1 \in r .. w - 1  BY <1>1, SMT
  <2> QED  BY <2>1
<1>4. s = [j \in 1 .. k |-> rg[Slot(r + j - 1)]]
  BY DEF Unread
<1> HIDE DEF s
<1>5. s \in [1 .. k -> Byte]  BY <1>2, <1>3, <1>4
<1>6. s \in Seq(Byte) /\ Len(s) = k
  <2>1. s \in Seq(Byte)  BY <1>1, <1>5, SeqDef
  <2>2. Len(s) \in Nat /\ DOMAIN s = 1 .. Len(s)  BY <2>1, LenProperties
  <2>3. DOMAIN s = 1 .. k  BY <1>5
  <2> QED  BY <1>1, <2>1, <2>2, <2>3, SMT
<1> QED  BY <1>2, <1>3, <1>4, <1>6 DEF s

LEMMA ContentsInRing ==
  ASSUME CursorsFit, IInv
  PROVE  /\ Contents = Unread(ring, read_cnt, write_cnt)
         /\ Contents \in Seq(Byte)
         /\ Len(Contents) = write_cnt - read_cnt
         /\ \A j \in 1 .. write_cnt - read_cnt :
              /\ Contents[j] = ring[(read_cnt + j - 1) % Capacity]
              /\ Contents[j] \in Byte
<1>1. Contents = Unread(ring, read_cnt, write_cnt)  BY DEF Contents, Unread
<1>2. \A i \in read_cnt .. write_cnt - 1 : ring[i % Capacity] \in Byte
  BY DEF IInv
<1> DEFINE s == Unread(ring, read_cnt, write_cnt)
<1>3. /\ s \in Seq(Byte)
      /\ Len(s) = write_cnt - read_cnt
      /\ \A j \in 1 .. write_cnt - read_cnt :
           /\ s[j] = ring[(read_cnt + j - 1) % Capacity]
           /\ s[j] \in Byte
  <2>1. /\ write_cnt \in Nat /\ read_cnt \in Nat /\ read_cnt <= write_cnt
        /\ write_cnt + Capacity < IntHalf
    BY Counters
  <2> QED  BY <1>2, <2>1, UnreadInRing, Zenon
<1> QED  BY <1>1, <1>3, Zenon

\* The loops of peek_output() and read() return the oldest unread bytes.
LEMMA CollectIsPeek ==
  ASSUME CursorsFit, IInv, NEW n \in 0 .. write_cnt - read_cnt
  PROVE  /\ Collect(n) = SubSeq(Contents, 1, n)
         /\ Collect(n) \in Seq(Byte)
<1>1. /\ n \in Nat /\ end + n \in Nat /\ end + n < IntHalf
      /\ end \in Nat /\ ~(end + n < end)
  BY Counters, SMT
<1>2. ToInt(end + n) = end + n  BY <1>1, ToIntFits
<1>3. Collect(n) = [j \in 1 .. n |-> ring[Slot(end + j - 1)]]
  BY <1>1, <1>2 DEF Collect
<1>4. ASSUME NEW j \in 1 .. n
      PROVE  ring[Slot(end + j - 1)] = Contents[j] /\ Contents[j] \in Byte
  <2>1. /\ end + j - 1 \in Nat /\ end + j - 1 < IntHalf
        /\ read_cnt + j - 1 \in Int
        /\ end + j - 1 = Capacity + (read_cnt + j - 1)
        /\ j \in 1 .. write_cnt - read_cnt
    BY Counters, SMT
  <2>2. Slot(end + j - 1) = (end + j - 1) % Capacity  BY <2>1, SlotType
  <2>3. (Capacity + (read_cnt + j - 1)) % Capacity
          = (read_cnt + j - 1) % Capacity
    BY <2>1, Counters, ModShiftOnce, Zenon
  <2>4. Slot(end + j - 1) = (read_cnt + j - 1) % Capacity
    BY <2>1, <2>2, <2>3
  <2> QED  BY <2>1, <2>4, ContentsInRing
<1>5. Collect(n) = [j \in 1 .. n |-> Contents[j]]  BY <1>3, <1>4
<1>6. SubSeq(Contents, 1, n) = [j \in 1 .. n |-> Contents[j]]
  BY <1>1, SMT
<1> QED  BY <1>1, <1>4, <1>5, <1>6, SMT

LEMMA StringType ==
  ASSUME CursorsFit, NEW data \in Strings
  PROVE  data \in Seq(Byte) /\ Len(data) \in Nat
<1>1. PICK k \in 0 .. MaxString : data \in [1 .. k -> Byte]  BY DEF Strings
<1> QED  BY <1>1, Bounds, SMT

\* How many bytes write() accepts.
LEMMA WriteSize ==
  ASSUME CursorsFit, IInv, NEW data \in Strings
  PROVE  Smaller(Len(data), Capacity - (write_cnt - read_cnt)) \in Nat
  BY StringType, Counters, SMT DEF Smaller

\* What write() does to the ring: the accepted bytes go to the slots after
\* the unread ones, and the slots of unread bytes are left alone.
LEMMA WriteRing ==
  ASSUME CursorsFit, IInv, NEW data \in Strings, Write(data),
         NEW n \in Nat, n = Smaller(Len(data), Capacity - (write_cnt - read_cnt))
  PROVE  /\ n \in Nat /\ n <= Len(data) /\ data \in Seq(Byte)
         /\ n <= Capacity - (write_cnt - read_cnt)
         /\ ring' \in [Slots -> Byte \cup {NoByte}]
         /\ begin' = begin + n /\ write_cnt' = write_cnt + n
         /\ write_cnt + n <= MaxBytes
         /\ \A i \in read_cnt .. write_cnt - 1 :
              ring'[i % Capacity] = ring[i % Capacity]
         /\ \A i \in write_cnt .. write_cnt + n - 1 :
              /\ ring'[i % Capacity] = data[i - write_cnt + 1]
              /\ data[i - write_cnt + 1] \in Byte
<1> DEFINE hits(p) == {j \in Loop(begin, n) : Slot(begin + j) = p}
           last(p) == CHOOSE j \in hits(p) : \A i \in hits(p) : i <= j
<1>1. data \in Seq(Byte) /\ Len(data) \in Nat  BY StringType
<1>2. n = Smaller(Len(data), Remaining)
  BY SizesAreTrue DEF Smaller
<1>n. n <= Capacity - (write_cnt - read_cnt)
  BY <1>1, Counters, SMT DEF Smaller
<1>3. n \in Nat /\ n <= Len(data) /\ n <= Capacity - (write_cnt - read_cnt)
  BY <1>1, Counters, SMT DEF Smaller
<1>4. /\ write_cnt + n <= MaxBytes
      /\ ring' = RingAfter(data, n)
      /\ begin' = ToInt(begin + n)
      /\ write_cnt' = write_cnt + n
  BY <1>2, Zenon DEF Write
<1>0. ring' = [p \in Slots |-> IF hits(p) = {} THEN ring[p]
                               ELSE data[last(p) + 1]]
  BY <1>4, Zenon DEF RingAfter
<1> HIDE DEF last
<1>5. begin + n \in Nat /\ begin + n < IntHalf
  <2>1. write_cnt + n <= MaxBytes  BY <1>4
  <2> QED  BY <1>3, <2>1, Bounds, Counters, SMTT(30)
<1>6. ToInt(begin + n) = begin + n  BY <1>5, ToIntFits
<1>7. Loop(begin, n) = 0 .. n - 1  BY <1>3, <1>6, Counters, SMT DEF Loop
<1>8. ASSUME NEW j \in 0 .. n - 1
      PROVE  Slot(begin + j) = (write_cnt + j) % Capacity
  <2>1. begin + j \in Nat /\ begin + j < IntHalf /\ begin = write_cnt
    BY <1>3, <1>5, Counters, SMTT(30)
  <2> QED  BY <2>1, SlotType
<1>9. ASSUME NEW i \in read_cnt .. write_cnt - 1
      PROVE  ring'[i % Capacity] = ring[i % Capacity]
  <2>0. i \in Int  BY Counters, SMT
  <2>1. i % Capacity \in Slots  BY <2>0, Counters, ModSplit DEF Slots
  <2>2. ASSUME NEW j \in 0 .. n - 1
        PROVE  Slot(begin + j) # i % Capacity
    <3>0. j + (write_cnt - read_cnt) < Capacity /\ i < write_cnt /\ read_cnt <= i
      BY <1>n, Counters, SMTT(30)
    <3>t. write_cnt \in Int /\ read_cnt \in Int /\ Capacity \in Int
      BY Counters, SMT
    <3>1. write_cnt + j \in Int /\ write_cnt + j > i /\ (write_cnt + j) - i < Capacity
      BY <2>0, <3>0, <3>t, SMT
    <3>2. (write_cnt + j) % Capacity # i % Capacity
      BY <2>0, <3>1, Counters, ModInjective
    <3> QED  BY <1>8, <3>2
  <2>3. hits(i % Capacity) = {}  BY <1>7, <2>2
  <2> QED  BY <1>0, <2>1, <2>3
<1>10. ASSUME NEW i \in write_cnt .. write_cnt + n - 1
       PROVE  /\ ring'[i % Capacity] = data[i - write_cnt + 1]
              /\ data[i - write_cnt + 1] \in Byte
  <2>j. i - write_cnt \in 0 .. n - 1 /\ i = write_cnt + (i - write_cnt)
    BY Counters, <1>3, SMTT(30)
  <2>p. PICK j \in 0 .. n - 1 : j = i - write_cnt  BY <2>j
  <2>0. i \in Int /\ j \in 0 .. n - 1 /\ i = write_cnt + j
    BY Counters, <1>3, <2>j, <2>p, SMTT(30)
  <2>1. i % Capacity \in Slots  BY <2>0, Counters, ModSplit DEF Slots
  <2>n. n \in Nat /\ n <= Capacity /\ write_cnt \in Nat /\ Capacity \in Nat
    BY <1>3, Counters, SMTT(30)
  <2>2. j + 1 \in 1 .. Len(data)  BY <1>1, <1>3, <2>0, SMT
  <2>3. j \in hits(i % Capacity)  BY <1>7, <1>8, <2>0
  <2>4. ASSUME NEW k \in 0 .. n - 1, Slot(begin + k) = i % Capacity
        PROVE  k = j
    <3>0. k \in 0 .. n - 1  OBVIOUS
    <3>1. (write_cnt + k) % Capacity = (write_cnt + j) % Capacity
      BY <1>8, <2>0, <2>4
    <3>2. CASE k > j
      <4>1. /\ write_cnt + k \in Int /\ write_cnt + j \in Int
            /\ write_cnt + k > write_cnt + j
            /\ (write_cnt + k) - (write_cnt + j) < Capacity
        BY <2>n, <3>0, <3>2, SMT
      <4> QED  BY <3>1, <4>1, Counters, ModInjective
    <3>3. CASE j > k
      <4>1. /\ write_cnt + k \in Int /\ write_cnt + j \in Int
            /\ write_cnt + j > write_cnt + k
            /\ (write_cnt + j) - (write_cnt + k) < Capacity
        BY <2>n, <3>0, <3>3, SMT
      <4> QED  BY <3>1, <4>1, Counters, ModInjective
    <3> QED  BY <2>0, <3>0, <3>2, <3>3, SMT
  <2>5. hits(i % Capacity) = {j}  BY <1>7, <2>3, <2>4
  <2>6. last(i % Capacity) = j
    <3>1. j <= j  BY <2>0, SMT
    <3> QED  BY <2>5, <3>1 DEF last
  <2>7. ring'[i % Capacity] = data[j + 1]  BY <1>0, <2>1, <2>5, <2>6
  <2> QED  BY <1>1, <2>2, <2>7, <2>p
<1>11. ring' \in [Slots -> Byte \cup {NoByte}]
  <2> SUFFICES ASSUME NEW p \in Slots
               PROVE  ring'[p] \in Byte \cup {NoByte}
    BY <1>0
  <2>1. CASE hits(p) = {}  BY <1>0, <2>1 DEF IInv
  <2>2. CASE hits(p) # {}
    <3>1. PICK j \in 0 .. n - 1 : (write_cnt + j) % Capacity = p
      BY <1>7, <1>8, <2>2
    <3>2. write_cnt + j \in write_cnt .. write_cnt + n - 1
      BY <1>3, Counters, SMTT(30)
    <3> QED  BY <1>10, <3>1, <3>2
  <2> QED  BY <2>1, <2>2
<1> QED  BY <1>1, <1>3, <1>4, <1>6, <1>9, <1>10, <1>11

\* write() appends what it accepts to the unread bytes.
LEMMA WriteAppends ==
  ASSUME CursorsFit, IInv, NEW data \in Strings, Write(data)
  PROVE  /\ Contents' = Contents \o
              SubSeq(data, 1, Smaller(Len(data), Capacity - Len(Contents)))
         /\ IInv'
<1>s. PICK n \in Nat : n = Smaller(Len(data), Capacity - (write_cnt - read_cnt))
  BY WriteSize
<1> DEFINE w == write_cnt + n
<1>1. /\ n \in Nat /\ n <= Len(data) /\ data \in Seq(Byte)
      /\ n <= Capacity - (write_cnt - read_cnt)
      /\ ring' \in [Slots -> Byte \cup {NoByte}]
      /\ begin' = begin + n /\ write_cnt' = w /\ w <= MaxBytes
  BY <1>s, WriteRing
<1>2. \A i \in read_cnt .. write_cnt - 1 : ring'[i % Capacity] = ring[i % Capacity]
  BY <1>s, WriteRing
<1>3. \A i \in write_cnt .. write_cnt + n - 1 :
        /\ ring'[i % Capacity] = data[i - write_cnt + 1]
        /\ data[i - write_cnt + 1] \in Byte
  BY <1>s, WriteRing, Zenon
<1>4. /\ end' = end /\ read_cnt' = read_cnt /\ is_end' = is_end
      /\ error' = error /\ returned' = returned
  BY Zenon DEF Write
<1>w. w = write_cnt + n  OBVIOUS
<1> HIDE DEF w
<1>n. /\ n \in Nat /\ n <= Capacity - (write_cnt - read_cnt) /\ w <= MaxBytes
  BY <1>1
<1>5. /\ w \in Nat /\ read_cnt <= w /\ w - read_cnt <= Capacity
      /\ w + Capacity < IntHalf /\ w \in 0 .. MaxBytes /\ read_cnt \in 0 .. w
  BY <1>n, <1>w, Counters, Bounds, SMT
<1>6. \A i \in read_cnt .. w - 1 : ring'[i % Capacity] \in Byte
  <2> TAKE i \in read_cnt .. w - 1
  <2>1. CASE i < write_cnt
    <3>1. i \in read_cnt .. write_cnt - 1  BY <2>1, <1>5, Counters, SMT
    <3> QED  BY <3>1, <1>2 DEF IInv
  <2>2. CASE i >= write_cnt
    <3>1. i \in write_cnt .. write_cnt + n - 1
      BY <2>2, <1>5, <1>w, Counters, SMT
    <3> QED  BY <3>1, <1>3
  <2>3. i \in Int /\ write_cnt \in Int  BY <1>5, Counters, SMT
  <2> QED  BY <2>1, <2>2, <2>3, SMT
<1>7. IInv'
  <2>1. begin' = write_cnt' /\ end' = Capacity + read_cnt'
    BY <1>1, <1>4, <1>w, Counters
  <2> QED  BY <1>1, <1>4, <1>5, <1>6, <2>1 DEF IInv
<1>8. Contents' = Unread(ring', read_cnt, w)
  BY <1>1, <1>4 DEF Contents, Unread
<1> DEFINE new == Unread(ring', read_cnt, w)
           tail == SubSeq(data, 1, n)
<1>9. /\ new \in Seq(Byte) /\ Len(new) = w - read_cnt
      /\ \A j \in 1 .. w - read_cnt : new[j] = ring'[(read_cnt + j - 1) % Capacity]
  <2>1. w \in Nat /\ read_cnt \in Nat /\ read_cnt <= w /\ w + Capacity < IntHalf
    BY <1>5, Counters
  <2> QED  BY <1>6, <2>1, UnreadInRing, Zenon
<1>10. /\ tail \in Seq(Byte) /\ Len(tail) = n
       /\ \A i \in 1 .. n : tail[i] = data[i]
  BY <1>1, SMT
<1> HIDE DEF new, tail
<1>11. /\ Contents \o tail \in Seq(Byte)
       /\ Len(Contents \o tail) = w - read_cnt
       /\ \A i \in 1 .. w - read_cnt : (Contents \o tail)[i] =
            IF i <= write_cnt - read_cnt THEN Contents[i]
            ELSE tail[i - (write_cnt - read_cnt)]
  <2>1. Contents \in Seq(Byte) /\ Len(Contents) = write_cnt - read_cnt
    BY ContentsInRing
  <2>2. Len(Contents) + Len(tail) = w - read_cnt
    BY <1>n, <1>w, <1>10, <2>1, Counters, SMT
  <2>3. /\ Contents \o tail \in Seq(Byte)
        /\ Len(Contents \o tail) = Len(Contents) + Len(tail)
        /\ \A i \in 1 .. Len(Contents) + Len(tail) : (Contents \o tail)[i] =
             IF i <= Len(Contents) THEN Contents[i]
             ELSE tail[i - Len(Contents)]
    BY <2>1, <1>10, ConcatProperties, Zenon
  <2> QED  BY <2>1, <2>2, <2>3, Zenon
<1>12. ASSUME NEW j \in 1 .. w - read_cnt
       PROVE  new[j] = (Contents \o tail)[j]
  <2>0. j \in Int /\ write_cnt - read_cnt \in Int  BY <1>5, Counters, SMT
  <2>1. CASE j <= write_cnt - read_cnt
    <3>1. /\ j \in 1 .. write_cnt - read_cnt
          /\ read_cnt + j - 1 \in read_cnt .. write_cnt - 1
      BY <2>1, Counters, SMT
    <3> QED  BY <1>2, <1>9, <1>11, <2>1, <3>1, ContentsInRing
  <2>2. CASE ~(j <= write_cnt - read_cnt)
    <3>1. /\ read_cnt + j - 1 \in write_cnt .. write_cnt + n - 1
          /\ j - (write_cnt - read_cnt) \in 1 .. n
          /\ (read_cnt + j - 1) - write_cnt + 1 = j - (write_cnt - read_cnt)
      BY <1>n, <1>w, <1>5, <2>0, <2>2, Counters, SMT
    <3>2. new[j] = data[j - (write_cnt - read_cnt)]
      BY <1>3, <1>9, <3>1
    <3> QED  BY <1>10, <1>11, <2>2, <3>1, <3>2
  <2> QED  BY <2>1, <2>2
<1>13. new = Contents \o tail  BY <1>9, <1>11, <1>12, SeqEqual, Zenon
<1>14. n = Smaller(Len(data), Capacity - Len(Contents))
  BY <1>s, ContentsInRing
<1> QED  BY <1>7, <1>8, <1>13, <1>14 DEF new, tail

\* Advancing the reader's cursor drops the oldest unread bytes.
LEMMA PopDrops ==
  ASSUME CursorsFit, IInv, NEW n \in 0 .. write_cnt - read_cnt,
         ring' = ring, write_cnt' = write_cnt, read_cnt' = read_cnt + n,
         begin' = begin, end' = ToInt(end + n),
         is_end' = is_end, error' = error, returned' \in Seq(Byte)
  PROVE  /\ Contents' = SubSeq(Contents, n + 1, Len(Contents))
         /\ IInv'
<1>1. /\ write_cnt \in Nat /\ read_cnt \in Nat /\ Capacity \in Nat /\ IntHalf \in Nat
      /\ read_cnt <= write_cnt /\ write_cnt - read_cnt <= Capacity
      /\ begin = write_cnt /\ end = Capacity + read_cnt
      /\ write_cnt + Capacity < IntHalf
  BY Counters, SMT
<1> DEFINE r == read_cnt + n
<1>2. /\ r \in Nat /\ r <= write_cnt /\ write_cnt - r <= Capacity
      /\ end + n \in Nat /\ end + n < IntHalf /\ end + n = Capacity + r
      /\ r \in 0 .. write_cnt
  BY <1>1, SMT
<1>3. end' = Capacity + r  BY <1>2, ToIntFits
<1>4. \A i \in r .. write_cnt - 1 : ring[i % Capacity] \in Byte
  <2> TAKE i \in r .. write_cnt - 1
  <2>1. i \in read_cnt .. write_cnt - 1  BY <1>1, SMT
  <2> QED  BY <2>1 DEF IInv
<1>r. r = read_cnt + n  OBVIOUS
<1> HIDE DEF r
<1>5. IInv'
  BY <1>2, <1>3, <1>4, <1>r DEF IInv
<1> DEFINE new == Unread(ring, r, write_cnt)
           old == SubSeq(Contents, n + 1, Len(Contents))
<1>6. Contents' = new  BY <1>r DEF Contents, Unread
<1>7. /\ new \in Seq(Byte) /\ Len(new) = write_cnt - r
      /\ \A j \in 1 .. write_cnt - r : new[j] = ring[(r + j - 1) % Capacity]
  <2>1. write_cnt \in Nat /\ r \in Nat /\ r <= write_cnt /\ write_cnt + Capacity < IntHalf
    BY <1>1, <1>2
  <2> QED  BY <2>1, <1>4, UnreadInRing
<1>c. /\ Contents \in Seq(Byte) /\ Len(Contents) = write_cnt - read_cnt
      /\ \A j \in 1 .. write_cnt - read_cnt :
           Contents[j] = ring[(read_cnt + j - 1) % Capacity]
  BY ContentsInRing
<1>8. /\ old \in Seq(Byte) /\ Len(old) = write_cnt - r
      /\ \A j \in 1 .. write_cnt - r : old[j] = Contents[n + j]
  <2>1. n + 1 \in Int /\ Len(Contents) \in Int  BY <1>1, <1>c, SMT
  <2>2. \A i \in n + 1 .. Len(Contents) : Contents[i] \in Byte
    <3> TAKE i \in n + 1 .. Len(Contents)
    <3>1. i \in 1 .. Len(Contents)  BY <1>1, <1>c, SMT
    <3> QED  BY <1>c, <3>1, ElementOfSeq
  <2>3. /\ old \in Seq(Byte)
        /\ Len(old) = IF n + 1 <= Len(Contents) THEN Len(Contents) - (n + 1) + 1 ELSE 0
        /\ \A i \in 1 .. Len(Contents) - (n + 1) + 1 : old[i] = Contents[(n + 1) + i - 1]
    BY <2>1, <2>2, SubSeqProperties
  <2> HIDE DEF old
  <2>4. Len(old) = write_cnt - r  BY <1>1, <1>r, <1>c, <2>3, SMT
  <2>5. ASSUME NEW j \in 1 .. write_cnt - r  PROVE old[j] = Contents[n + j]
    <3>1. /\ j \in 1 .. Len(Contents) - (n + 1) + 1
          /\ (n + 1) + j - 1 = n + j
      BY <1>1, <1>r, <1>c, SMT
    <3> QED  BY <2>3, <3>1
  <2> QED  BY <2>3, <2>4, <2>5
<1> HIDE DEF new, old
<1>9. ASSUME NEW j \in 1 .. write_cnt - r
      PROVE  new[j] = old[j]
  <2>1. /\ n + j \in 1 .. write_cnt - read_cnt
        /\ read_cnt + (n + j) - 1 = r + j - 1
    BY <1>1, <1>2, <1>r, SMT
  <2> QED  BY <1>7, <1>8, <1>c, <2>1
<1>10. new = old  BY <1>7, <1>8, <1>9, SeqEqual, Zenon
<1> QED  BY <1>5, <1>6, <1>10 DEF old

\* peek_output() and read() return, and pop_output() and read() remove, what
\* the abstract stream does.
LEMMA ReadSize ==
  ASSUME CursorsFit, IInv, NEW len \in 0 .. Capacity
  PROVE  LET n == Smaller(BufferSize, len) IN
         /\ n \in 0 .. write_cnt - read_cnt
         /\ n = Smaller(Len(Contents), len)
         /\ Collect(n) = SubSeq(Contents, 1, n)
         /\ Collect(n) \in Seq(Byte)
<1> DEFINE n == Smaller(BufferSize, len)
<1>1. write_cnt - read_cnt \in Nat  BY Counters
<1>2. BufferSize = write_cnt - read_cnt  BY SizesAreTrue
<1>3. n \in 0 .. write_cnt - read_cnt  BY <1>1, <1>2, SMT DEF Smaller
<1>4. n = Smaller(Len(Contents), len)  BY <1>2, ContentsInRing
<1> HIDE DEF n
<1>5. Collect(n) = SubSeq(Contents, 1, n) /\ Collect(n) \in Seq(Byte)
  BY <1>3, CollectIsPeek
<1> QED  BY <1>3, <1>4, <1>5 DEF n

-----------------------------------------------------------------------------
LEMMA InitInv ==
  ASSUME CursorsFit, Init
  PROVE  IInv
<1>1. \A i \in read_cnt .. write_cnt - 1 : ring[i % Capacity] \in Byte
  BY SMT DEF Init
<1>2. <<>> \in Seq(Byte)  BY EmptySeq
<1>3. ring \in [Slots -> Byte \cup {NoByte}]  BY DEF Init
<1>4. /\ write_cnt \in 0 .. MaxBytes /\ read_cnt \in 0 .. write_cnt
      /\ write_cnt - read_cnt <= Capacity
      /\ begin = write_cnt /\ end = Capacity + read_cnt
  BY Bounds, SMT DEF Init
<1> QED  BY <1>1, <1>2, <1>3, <1>4 DEF Init, IInv

\* One case per operation: the invariant is kept and the step is a step of
\* the abstract stream.
LEMMA StepImplements ==
  ASSUME CursorsFit, IInv, [Next]_vars
  PROVE  /\ IInv'
         /\ [Abstract!Next]_(Abstract!vars)
<1> DEFINE s == [buffer |-> Contents, ended |-> is_end, error |-> error,
                 written |-> write_cnt, read |-> read_cnt]
<1>c. Contents \in Seq(Byte) /\ Len(Contents) = write_cnt - read_cnt
  BY ContentsInRing
<1>1. ASSUME NEW data \in Strings, Write(data)
      PROVE  IInv' /\ Abstract!Write(data)
  <2>1. PICK n \in Nat : n = Smaller(Len(data), Capacity - (write_cnt - read_cnt))
    BY WriteSize
  <2>2. n = Abstract!Least(Len(data), Abstract!RemainingCapacity(s, Capacity))
    BY <1>c, <2>1 DEF Smaller, Abstract!Least, Abstract!RemainingCapacity
  <2>3. write_cnt' = write_cnt + n  BY <2>1, <1>1, WriteRing
  <2>4. Contents' = Contents \o SubSeq(data, 1, n) /\ IInv'
    BY <1>1, <1>c, <2>1, WriteAppends
  <2>5. UNCHANGED <<read_cnt, is_end, error, returned>>  BY <1>1, Zenon DEF Write
  <2>6. Abstract!StreamWrite(s, data, Capacity) =
          [s EXCEPT !.buffer = Contents \o SubSeq(data, 1, n),
                    !.written = write_cnt + n]
    BY <2>2 DEF Abstract!StreamWrite
  <2> QED  BY <2>3, <2>4, <2>5, <2>6 DEF Abstract!Write
<1>2. ASSUME NEW len \in 0 .. Capacity, PeekOutput(len)
      PROVE  IInv' /\ Abstract!Peek(len)
  <2> DEFINE n == Smaller(BufferSize, len)
  <2>1. /\ returned' = SubSeq(Contents, 1, n) /\ returned' \in Seq(Byte)
        /\ n = Abstract!Least(Len(Contents), len)
    BY <1>2, ReadSize DEF PeekOutput, Smaller, Abstract!Least
  <2>2. UNCHANGED <<ring, begin, end, write_cnt, read_cnt, is_end, error>>
    BY <1>2 DEF PeekOutput
  <2>3. Contents' = Contents  BY <2>2 DEF Contents
  <2>4. IInv'  BY <2>1, <2>2 DEF IInv
  <2> QED  BY <2>1, <2>2, <2>3, <2>4 DEF Abstract!Peek, Abstract!StreamPeek
<1>3. ASSUME NEW len \in 0 .. Capacity, PopOutput(len)
      PROVE  IInv' /\ Abstract!Pop(len)
  <2>1. PICK n \in 0 .. write_cnt - read_cnt :
          n = Smaller(BufferSize, len) /\ n = Smaller(Len(Contents), len)
    BY ReadSize
  <2>2. /\ end' = ToInt(end + n) /\ read_cnt' = read_cnt + n
        /\ UNCHANGED <<ring, begin, write_cnt, is_end, error, returned>>
    BY <1>3, <2>1 DEF PopOutput
  <2>3. returned' \in Seq(Byte)  BY <2>2 DEF IInv
  <2>4. Contents' = SubSeq(Contents, n + 1, Len(Contents)) /\ IInv'
    BY <2>2, <2>3, PopDrops
  <2>5. n = Abstract!Least(Len(Contents), len)  BY <2>1 DEF Smaller, Abstract!Least
  <2>6. Abstract!StreamPop(s, len) =
          [s EXCEPT !.buffer = SubSeq(Contents, n + 1, Len(Contents)),
                    !.read = read_cnt + n]
    BY <2>5 DEF Abstract!StreamPop
  <2> QED  BY <2>2, <2>4, <2>6 DEF Abstract!Pop
<1>4. ASSUME NEW len \in 0 .. Capacity, Read(len)
      PROVE  IInv' /\ Abstract!Read(len)
  <2>1. PICK n \in 0 .. write_cnt - read_cnt :
          /\ n = Smaller(BufferSize, len) /\ n = Smaller(Len(Contents), len)
          /\ Collect(n) = SubSeq(Contents, 1, n) /\ Collect(n) \in Seq(Byte)
    BY ReadSize
  <2>2. /\ end' = ToInt(end + n) /\ read_cnt' = read_cnt + n
        /\ returned' = SubSeq(Contents, 1, n) /\ returned' \in Seq(Byte)
        /\ UNCHANGED <<ring, begin, write_cnt, is_end, error>>
    BY <1>4, <2>1 DEF Read
  <2>4. Contents' = SubSeq(Contents, n + 1, Len(Contents)) /\ IInv'
    BY <2>2, PopDrops
  <2>5. n = Abstract!Least(Len(Contents), len)  BY <2>1 DEF Smaller, Abstract!Least
  <2>6. Abstract!StreamPop(s, len) =
          [s EXCEPT !.buffer = SubSeq(Contents, n + 1, Len(Contents)),
                    !.read = read_cnt + n]
    BY <2>5 DEF Abstract!StreamPop
  <2>7. returned' = Abstract!StreamPeek(s, len)
    BY <2>2, <2>5 DEF Abstract!StreamPeek
  <2> QED  BY <2>2, <2>4, <2>6, <2>7 DEF Abstract!Read
<1>5. ASSUME EndInput
      PROVE  IInv' /\ Abstract!EndInput
  <2>1. Contents' = Contents  BY <1>5 DEF EndInput, Contents
  <2>2. IInv'  BY <1>5 DEF EndInput, IInv
  <2>3. Abstract!StreamEnd(s) = [s EXCEPT !.ended = TRUE]  BY DEF Abstract!StreamEnd
  <2>4. /\ is_end' = TRUE /\ error' = error /\ returned' = returned
        /\ write_cnt' = write_cnt /\ read_cnt' = read_cnt
    BY <1>5 DEF EndInput
  <2>5. Abstract!EndInput  BY <2>1, <2>3, <2>4 DEF Abstract!EndInput
  <2> QED  BY <2>2, <2>5
<1>6. ASSUME SetError
      PROVE  IInv' /\ Abstract!SetError
  <2>1. Contents' = Contents  BY <1>6 DEF SetError, Contents
  <2>2. IInv'  BY <1>6 DEF SetError, IInv
  <2>3. Abstract!StreamFail(s) = [s EXCEPT !.error = TRUE]  BY DEF Abstract!StreamFail
  <2>4. /\ error' = TRUE /\ is_end' = is_end /\ returned' = returned
        /\ write_cnt' = write_cnt /\ read_cnt' = read_cnt
    BY <1>6 DEF SetError
  <2>5. Abstract!SetError  BY <2>1, <2>3, <2>4 DEF Abstract!SetError
  <2> QED  BY <2>2, <2>5
<1>7. ASSUME UNCHANGED vars
      PROVE  IInv' /\ UNCHANGED Abstract!vars
  <2>1. Contents' = Contents  BY <1>7 DEF vars, Contents
  <2> QED  BY <1>7, <2>1 DEF vars, IInv, Abstract!vars
<1>8. CASE \E data \in Strings : Write(data)
  BY <1>1, <1>8 DEF Abstract!Next
<1>9. CASE \E len \in 0 .. Capacity : PeekOutput(len) \/ PopOutput(len) \/ Read(len)
  BY <1>2, <1>3, <1>4, <1>9 DEF Abstract!Next
<1>10. CASE EndInput  BY <1>5, <1>10 DEF Abstract!Next
<1>11. CASE SetError  BY <1>6, <1>11 DEF Abstract!Next
<1> QED  BY <1>7, <1>8, <1>9, <1>10, <1>11 DEF Next

LEMMA Invariance ==
  ASSUME CursorsFit
  PROVE  Spec => []IInv
<1>1. Init => IInv  BY InitInv
<1>2. IInv /\ [Next]_vars => IInv'  BY StepImplements
<1> QED  BY <1>1, <1>2, PTL DEF Spec

\* Type correctness of the ring, for every capacity and alphabet
\* (byte_stream.hh:15-27).
THEOREM TypeCorrect ==
  ASSUME CursorsFit
  PROVE  Spec => []TypeOK
<1>1. IInv => TypeOK  BY Bounds, SMT DEF IInv, TypeOK
<1> QED  BY <1>1, Invariance, PTL

\* The cursors always agree with the counters: buffer_size() is the number
\* of unread bytes and remaining_capacity() the space left
\* (byte_stream.cc:82, 98).
THEOREM SizesCorrect ==
  ASSUME CursorsFit
  PROVE  Spec => []BufferSizeIsUnread
<1>1. IInv => BufferSizeIsUnread  BY SizesAreTrue DEF BufferSizeIsUnread
<1> QED  BY <1>1, Invariance, PTL

\* The ring implements the abstract FIFO stream: what is read is what was
\* written, in order, whatever the capacity and however often the cursors
\* go around the ring (byte_stream.cc:26-98).
THEOREM RingImplementsFIFO ==
  ASSUME CursorsFit
  PROVE  Spec => ImplementsFIFO
<1>1. Init => Abstract!Init
  <2> SUFFICES ASSUME Init PROVE Abstract!Init
    OBVIOUS
  <2>1. Contents = <<>>
    <3>1. IInv  BY InitInv
    <3>2. Contents \in Seq(Byte) /\ Len(Contents) = 0
      BY <3>1, ContentsInRing, SMT DEF Init
    <3> QED  BY <3>2, EmptySeq
  <2> QED  BY <2>1 DEF Init, Abstract!Init, Abstract!EmptyStream
<1>2. IInv /\ [Next]_vars => [Abstract!Next]_(Abstract!vars)
  BY StepImplements
<1> QED  BY <1>1, <1>2, Invariance, PTL DEF Spec, ImplementsFIFO, Abstract!Spec

=============================================================================
