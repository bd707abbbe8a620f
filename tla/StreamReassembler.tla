------------------------- MODULE StreamReassembler -------------------------
(***************************************************************************)
(* The methods of libsponge/stream_reassembler.{hh,cc} as operators on a   *)
(* record that holds its fields.                                           *)
(*                                                                         *)
(*   assemble_idx   the index of the next byte to assemble                 *)
(*   eof_idx        the index after the last byte, NoEof until it is known *)
(*   segments       _segments: the start index and the bytes of each       *)
(*                  cached excerpt                                         *)
(*   output         _output, a stream value                                *)
(***************************************************************************)
EXTENDS StreamValues, AscendingOrder, SequencesExt

CONSTANT RecvCapacity     \* _capacity

ASSUME ReassemblerAssumption == RecvCapacity \in Nat \ {0}

NoEof == -1               \* size_t(-1)

NewReassembler ==
  [assemble_idx |-> 0, eof_idx |-> NoEof, segments |-> <<>>, output |-> EmptyStream]

\* The keys of _segments in the order the code iterates them.
Keys(segments) == Ascending(DOMAIN segments)

Without(segments, keys) == Restrict(segments, DOMAIN segments \ keys)

\* A wrong variant that the runs tell apart: an excerpt that only touches the
\* cached one is kept apart.
MergeOverlapping(segments, m, k) ==
  LET old == segments[k]
      rgt == m.lft + Len(m.data)
      oldRgt == k + Len(old)
  IN  CASE m.lft <= k /\ k < rgt /\ oldRgt <= rgt ->
             [m EXCEPT !.absorbed = @ \cup {k}]
        [] m.lft <= k /\ k < rgt /\ rgt < oldRgt ->
             [m EXCEPT !.data = SubSeq(@, 1, k - m.lft) \o old,
                       !.absorbed = @ \cup {k}]
        [] k < m.lft /\ m.lft < oldRgt /\ rgt <= oldRgt ->
             [m EXCEPT !.cached = FALSE]
        [] k < m.lft /\ m.lft < oldRgt /\ oldRgt < rgt ->
             [m EXCEPT !.data = SubSeq(old, 1, m.lft - k) \o @, !.lft = k,
                       !.absorbed = @ \cup {k}]
        [] OTHER -> m

\* One iteration of the loop of merge_segments(): the new excerpt m.data at
\* m.lft meets the cached one at k.  A cached excerpt that it touches is
\* absorbed, or makes the new one superfluous.
MergeWith(segments, m, k) ==
  LET old == segments[k]
      rgt == m.lft + Len(m.data)
      oldRgt == k + Len(old)
  IN  CASE m.lft <= k /\ k <= rgt /\ oldRgt <= rgt ->
             [m EXCEPT !.absorbed = @ \cup {k}]
        [] m.lft <= k /\ k <= rgt /\ rgt < oldRgt ->
             [m EXCEPT !.data = SubSeq(@, 1, k - m.lft) \o old,
                       !.absorbed = @ \cup {k}]
        [] k < m.lft /\ m.lft <= oldRgt /\ rgt <= oldRgt ->
             [m EXCEPT !.cached = FALSE]
        [] k < m.lft /\ m.lft <= oldRgt /\ oldRgt < rgt ->
             [m EXCEPT !.data = SubSeq(old, 1, m.lft - k) \o @, !.lft = k,
                       !.absorbed = @ \cup {k}]
        [] OTHER -> m

\* merge_segments(): cache an excerpt that is not due yet.
MergeSegments(segments, index, data) ==
  LET new == [lft |-> index, data |-> data, absorbed |-> {}, cached |-> TRUE]
      m == FoldLeft(LAMBDA x, k : MergeWith(segments, x, k), new, Keys(segments))
      rest == Without(segments, m.absorbed)
  IN  IF m.cached
      THEN [k \in DOMAIN rest \cup {m.lft} |-> IF k = m.lft THEN m.data ELSE rest[k]]
      ELSE rest

\* A wrong variant that the runs tell apart: bytes that were assembled before are
\* written again.
AssembleAll(r, index, data) ==
  LET out == StreamWrite(r.output, data, RecvCapacity)
  IN  [r EXCEPT !.output = out,
                !.assemble_idx = @ + (out.written - r.output.written)]

\* Write the bytes of an excerpt at index that are not assembled yet, as
\* many as the output accepts.
Assemble(r, index, data) ==
  LET rest == SubSeq(data, r.assemble_idx - index + 1, Len(data))
      out == StreamWrite(r.output, rest, RecvCapacity)
  IN  [r EXCEPT !.output = out,
                !.assemble_idx = @ + (out.written - r.output.written)]

\* A wrong variant that the runs tell apart: every cached excerpt is dropped.
DrainEverything(d, k) ==
  LET data == d.r.segments[k] IN
  IF d.r.assemble_idx < k
  THEN [d EXCEPT !.done = @ \cup {k}]
  ELSE [r |-> Assemble(d.r, k, data), done |-> d.done \cup {k}]

\* One iteration of the loop of push_substring() over the cached excerpts:
\* a useless one is dropped, a due one is assembled and dropped even if the
\* output took only a part of it.
DrainAt(d, k) ==
  LET data == d.r.segments[k] IN
  CASE k + Len(data) <= d.r.assemble_idx \/ data = <<>> ->
         [d EXCEPT !.done = @ \cup {k}]
    [] d.r.assemble_idx < k /\ data # <<>> -> d
    [] OTHER -> [r |-> Assemble(d.r, k, data), done |-> d.done \cup {k}]

Drain(r) ==
  LET d == FoldLeft(DrainAt, [r |-> r, done |-> {}], Keys(r.segments))
  IN  [d.r EXCEPT !.segments = Without(@, d.done)]

\* unassembled_bytes()
UnassembledBytes(r) ==
  LET k == Keys(r.segments)
  IN  FoldLeft(LAMBDA n, i : n + Len(r.segments[i]), 0, k)

\* A wrong variant that the runs tell apart: the input ends when nothing is cached.
EndIfEmpty(r) ==
  IF UnassembledBytes(r) = 0 /\ r.eof_idx # NoEof
  THEN [r EXCEPT !.output = StreamEnd(@)]
  ELSE r

EndIfComplete(r) ==
  IF UnassembledBytes(r) = 0 /\ r.assemble_idx = r.eof_idx
  THEN [r EXCEPT !.output = StreamEnd(@)]
  ELSE r

\* A wrong variant that the runs tell apart: every excerpt is taken for the last.
PushAsLast(r, data, index, eof) ==
  LET known == [r EXCEPT !.eof_idx = index + Len(data)]
  IN  CASE index > r.assemble_idx ->
             [known EXCEPT !.segments = MergeSegments(@, index, data)]
        [] index + Len(data) < r.assemble_idx -> known
        [] OTHER -> EndIfComplete(Drain(Assemble(known, index, data)))

\* push_substring()
PushSubstring(r, data, index, eof) ==
  LET known == IF eof THEN [r EXCEPT !.eof_idx = index + Len(data)] ELSE r
  IN  CASE index > r.assemble_idx ->
             [known EXCEPT !.segments = MergeSegments(@, index, data)]
        [] index + Len(data) < r.assemble_idx -> known
        [] OTHER -> EndIfComplete(Drain(Assemble(known, index, data)))

=============================================================================
