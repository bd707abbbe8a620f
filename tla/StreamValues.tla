---------------------------- MODULE StreamValues ----------------------------
(***************************************************************************)
(* A byte stream as a value: what ByteStream promises, without its ring.   *)
(* AbstractByteStream makes a specification of these operators, ByteStream *)
(* is shown to implement it, and the reassembler, the sender and the       *)
(* connection hold their streams as such values.                           *)
(***************************************************************************)
EXTENDS Integers, Sequences

\* A stream that was just constructed.
EmptyStream ==
  [buffer |-> <<>>, ended |-> FALSE, error |-> FALSE, written |-> 0, read |-> 0]

Least(a, b) == IF a <= b THEN a ELSE b

RemainingCapacity(s, capacity) == capacity - Len(s.buffer)

\* write() accepts what fits and counts it; it does not look at `ended`.
StreamWrite(s, data, capacity) ==
  LET n == Least(Len(data), RemainingCapacity(s, capacity))
  IN  [s EXCEPT !.buffer = @ \o SubSeq(data, 1, n), !.written = @ + n]

\* peek_output(): the next bytes, without removing them.
StreamPeek(s, len) == SubSeq(s.buffer, 1, Least(Len(s.buffer), len))

\* pop_output(), and the state that read() leaves.
StreamPop(s, len) ==
  LET n == Least(Len(s.buffer), len)
  IN  [s EXCEPT !.buffer = SubSeq(@, n + 1, Len(@)), !.read = @ + n]

StreamEnd(s) == [s EXCEPT !.ended = TRUE]

StreamFail(s) == [s EXCEPT !.error = TRUE]

\* eof(): the input has ended and every byte has been read.
AtEof(s) == s.ended /\ s.buffer = <<>>

=============================================================================
