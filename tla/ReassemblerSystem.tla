------------------------- MODULE ReassemblerSystem -------------------------
(***************************************************************************)
(* A StreamReassembler that is pushed excerpts of one finite stream in any *)
(* order, with any overlaps and repetitions, and whose output is read.     *)
(* The stream's byte at index i is the number i.                           *)
(***************************************************************************)
EXTENDS StreamReassembler

CONSTANT StreamLength     \* bound: the length of the stream

ASSUME LengthAssumption == StreamLength \in Nat

VARIABLES reassembler,
          pushed          \* the indices of the bytes pushed so far

vars == <<reassembler, pushed>>

Excerpt(first, next) == [i \in 1 .. next - first |-> first + i - 1]

Init == reassembler = NewReassembler /\ pushed = {}

\* An excerpt arrives; the one that reaches the end of the stream may say so.
Push(first, next, eof) ==
  /\ eof => next = StreamLength
  /\ reassembler' = PushSubstring(reassembler, Excerpt(first, next), first, eof)
  /\ pushed' = pushed \cup first .. next - 1

Read(len) ==
  /\ reassembler' = [reassembler EXCEPT !.output = StreamPop(@, len)]
  /\ UNCHANGED pushed

Next ==
  \/ \E first \in 0 .. StreamLength : \E next \in first .. StreamLength, eof \in BOOLEAN :
       Push(first, next, eof)
  \/ \E len \in 1 .. RecvCapacity : Read(len)

Spec == Init /\ [][Next]_vars

-----------------------------------------------------------------------------
Out == reassembler.output
Segments == reassembler.segments

\* The indices of the cached bytes.
Cached == UNION {k .. k + Len(Segments[k]) - 1 : k \in DOMAIN Segments}

TypeOK ==
  /\ reassembler.assemble_idx \in 0 .. StreamLength
  /\ reassembler.eof_idx \in {NoEof, StreamLength}
  /\ DOMAIN Segments \subseteq 1 .. StreamLength
  /\ Len(Out.buffer) <= RecvCapacity
  /\ pushed \subseteq 0 .. StreamLength - 1

\* What can be read is the stream, in order, each byte once, as far as it
\* has been assembled, and nothing that was not pushed.
OutputIsTheStream ==
  /\ Out.written = reassembler.assemble_idx
  /\ Out.buffer = Excerpt(Out.read, Out.written)
  /\ 0 .. Out.written - 1 \subseteq pushed

\* The cached excerpts hold the right bytes, lie after the assembled ones and
\* do not touch: merging leaves no byte cached twice, so unassembled_bytes()
\* counts each once (stream_reassembler.hh:47-51), and no due byte waits.
CacheIsSeparated ==
  /\ TypeOK
  /\ \A k \in DOMAIN Segments :
       /\ k > reassembler.assemble_idx
       /\ Segments[k] = Excerpt(k, k + Len(Segments[k]))
       /\ \A j \in DOMAIN Segments : j > k => j > k + Len(Segments[k])
  /\ Cached \subseteq pushed

\* The output ends exactly when the whole stream was written and the
\* reassembler has been told where it ends.
EndsAtTheEnd ==
  Out.ended <=> Out.written = StreamLength /\ reassembler.eof_idx = StreamLength

\* A cached byte is assembled sooner or later, or dropped only at a moment
\* when the output is full.
DroppedOnlyWhenFull ==
  [][(Cached \ Cached') \ 0 .. Out'.written - 1 # {}
       => RemainingCapacity(Out', RecvCapacity) = 0]_vars

=============================================================================
