----------------------------- MODULE ByteStream -----------------------------
(***************************************************************************)
(* The ring buffer of libsponge/byte_stream.{hh,cc}.                       *)
(*                                                                         *)
(* The two cursors are C++ `int`s that only grow and are compared as       *)
(* size_t; both widths are constants here.  Signed overflow is undefined   *)
(* in C++: the model wraps it, as the two's complement build does.  A      *)
(* string is a sequence over Byte, and a slot of the ring that was never   *)
(* written holds NoByte.                                                   *)
(***************************************************************************)
EXTENDS Integers, Sequences

CONSTANTS Capacity,         \* _capacity
          Byte, NoByte,
          MaxString,        \* bound: the longest string written at once
          MaxBytes,         \* bound: bytes written over the stream's life
          IntHalf,          \* 2^31, the number of non-negative ints
          SizeModulus       \* 2^64, the number of values of a size_t

ASSUME StreamAssumption ==
  /\ Capacity \in Nat \ {0}
  /\ NoByte \notin Byte
  /\ {MaxString, MaxBytes} \subseteq Nat
  /\ IntHalf \in Nat \ {0}
  /\ SizeModulus \in Nat \ {0}
  /\ SizeModulus >= 2 * IntHalf

\* The cursors fit in an int: the condition under which the ring is a FIFO.
CursorsFit == MaxBytes + Capacity < IntHalf

VARIABLES ring,       \* _data
          begin,      \* _begin: the writer's cursor
          end,        \* _end: the reader's cursor, one capacity ahead
          write_cnt, read_cnt,
          is_end, error,
          returned    \* what the last peek_output or read returned

vars == <<ring, begin, end, write_cnt, read_cnt, is_end, error, returned>>

Slots == 0 .. Capacity - 1
Strings == UNION {[1 .. n -> Byte] : n \in 0 .. MaxString}

ToInt(x) == ((x + IntHalf) % (2 * IntHalf)) - IntHalf
ToSize(x) == x % SizeModulus

BufferSize == ToSize(begin - (end - Capacity))
Remaining == ToSize(Capacity - BufferSize)

\* The slot of cursor i: `i % _capacity`, where i is converted to size_t.
Slot(i) == ToSize(i) % Capacity

Smaller(a, b) == IF a <= b THEN a ELSE b

\* The iterations of `for (int i = from; i < from + n; i++)`.
Loop(from, n) == {j \in 0 .. n - 1 : from + j < ToInt(from + n)}

Init ==
  /\ ring = [p \in Slots |-> NoByte]
  /\ begin = 0 /\ end = Capacity
  /\ write_cnt = 0 /\ read_cnt = 0
  /\ is_end = FALSE /\ error = FALSE
  /\ returned = <<>>

\* The ring after the loop of write(): the last iteration that hits a slot
\* leaves its byte there.
RingAfter(data, n) ==
  LET hits(p) == {j \in Loop(begin, n) : Slot(begin + j) = p}
      last(p) == CHOOSE j \in hits(p) : \A i \in hits(p) : i <= j
  IN  [p \in Slots |-> IF hits(p) = {} THEN ring[p] ELSE data[last(p) + 1]]

\* A wrong variant that the runs tell apart: the cursor moves by all that was
\* offered.
WriteOvercounted(data) ==
  LET n == Smaller(Len(data), Remaining)
  IN  /\ write_cnt + n <= MaxBytes
      /\ ring' = RingAfter(data, n)
      /\ begin' = ToInt(begin + Len(data))
      /\ write_cnt' = write_cnt + n
      /\ UNCHANGED <<end, read_cnt, is_end, error, returned>>

\* write(): nothing in it tests is_end.
Write(data) ==
  LET n == Smaller(Len(data), Remaining)
  IN  /\ write_cnt + n <= MaxBytes
      /\ ring' = RingAfter(data, n)
      /\ begin' = ToInt(begin + n)
      /\ write_cnt' = write_cnt + n
      /\ UNCHANGED <<end, read_cnt, is_end, error, returned>>

\* A wrong variant that the runs tell apart: reading starts one slot late.
CollectLate(n) == [j \in 1 .. n |-> ring[Slot(end + j)]]

\* The bytes that the loops of peek_output() and read() collect.
Collect(n) ==
  [j \in 1 .. (IF ToInt(end + n) < end THEN 0 ELSE n) |-> ring[Slot(end + j - 1)]]

PeekOutput(len) ==
  /\ returned' = Collect(Smaller(BufferSize, len))
  /\ UNCHANGED <<ring, begin, end, write_cnt, read_cnt, is_end, error>>

PopOutput(len) ==
  LET n == Smaller(BufferSize, len)
  IN  /\ end' = ToInt(end + n)
      /\ read_cnt' = read_cnt + n
      /\ UNCHANGED <<ring, begin, write_cnt, is_end, error, returned>>

Read(len) ==
  LET n == Smaller(BufferSize, len)
  IN  /\ returned' = Collect(n)
      /\ read_cnt' = read_cnt + n
      /\ end' = ToInt(end + n)
      /\ UNCHANGED <<ring, begin, write_cnt, is_end, error>>

EndInput ==
  /\ is_end' = TRUE
  /\ UNCHANGED <<ring, begin, end, write_cnt, read_cnt, error, returned>>

SetError ==
  /\ error' = TRUE
  /\ UNCHANGED <<ring, begin, end, write_cnt, read_cnt, is_end, returned>>

Next ==
  \/ \E data \in Strings : Write(data)
  \/ \E len \in 0 .. Capacity : PeekOutput(len) \/ PopOutput(len) \/ Read(len)
  \/ EndInput
  \/ SetError

Spec == Init /\ [][Next]_vars

-----------------------------------------------------------------------------
TypeOK ==
  /\ ring \in [Slots -> Byte \cup {NoByte}]
  /\ begin \in Nat /\ end \in Nat
  /\ write_cnt \in 0 .. MaxBytes /\ read_cnt \in 0 .. write_cnt
  /\ is_end \in BOOLEAN /\ error \in BOOLEAN
  /\ returned \in Seq(Byte)

\* The unread bytes, oldest first: the FIFO that the ring represents.
Contents == [j \in 1 .. write_cnt - read_cnt |-> ring[Slot(read_cnt + j - 1)]]

\* The ring is a FIFO: every operation changes the unread bytes, the flags
\* and the counters, and returns bytes, as the abstract stream does, however
\* the cursors have gone around the ring (byte_stream.cc:26-98).
Abstract == INSTANCE AbstractByteStream
  WITH stream <- [buffer |-> Contents, ended |-> is_end, error |-> error,
                  written |-> write_cnt, read |-> read_cnt]
ImplementsFIFO == Abstract!Spec

\* buffer_size() is "the maximum amount that can currently be read from the
\* stream" and remaining_capacity() the space left (byte_stream.hh:41, 71):
\* together they are the capacity and the first is what was written and not read.
BufferSizeIsUnread ==
  /\ BufferSize = write_cnt - read_cnt
  /\ Remaining = Capacity - BufferSize

=============================================================================
