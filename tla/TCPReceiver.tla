---------------------------- MODULE TCPReceiver ----------------------------
(***************************************************************************)
(* The methods of libsponge/tcp_receiver.{hh,cc} as operators on a record  *)
(* that holds its fields.                                                  *)
(*                                                                         *)
(*   syn_received, isn    whether a SYN has arrived, and its raw number    *)
(*   checkpoint           _checkpoint                                      *)
(*   reassembler          _reassembler                                     *)
(***************************************************************************)
EXTENDS WrappingIntegers, TCPSegment, StreamReassembler

NewReceiver ==
  [syn_received |-> FALSE, isn |-> 0, checkpoint |-> 0,
   reassembler |-> NewReassembler]

StreamOut(r) == r.reassembler.output

\* A wrong variant that the runs tell apart: the FIN is acknowledged when it arrives.
NextExpectedAfterFin(r) ==
  StreamOut(r).written + 1 + Flag(r.reassembler.eof_idx # NoEof)

\* The absolute number that ackno() wraps: the SYN, the bytes written and,
\* once the input has ended, the FIN.
NextExpected(r) == StreamOut(r).written + 1 + Flag(StreamOut(r).ended)

\* ackno(), which has a value once a SYN has arrived.
HasAckno(r) == r.syn_received
Ackno(r) == Wrap(NextExpected(r), r.isn)

\* A wrong variant that the runs tell apart: cached bytes take window space.
WindowSizeLessCached(r) ==
  RemainingCapacity(StreamOut(r), RecvCapacity) - UnassembledBytes(r.reassembler)

\* window_size()
WindowSize(r) == RemainingCapacity(StreamOut(r), RecvCapacity)

\* The first SYN fixes the initial sequence number.
Synchronise(r, seg) ==
  IF seg.syn /\ ~r.syn_received
  THEN [r EXCEPT !.syn_received = TRUE, !.isn = seg.seqno]
  ELSE r

\* Whether some of the segment lies in the window.  A segment that occupies
\* no sequence numbers passes only beyond the next expected number.
InWindow(r, seg) ==
  LET first == Unwrap(seg.seqno, r.isn, r.checkpoint)
      expected == Unwrap(Ackno(r), r.isn, r.checkpoint)
  IN  /\ first + LengthInSequenceSpace(seg) > expected
      /\ first < expected + WindowSize(r)

\* segment_received().  A segment without SYN lies after the SYN, so first is
\* not 0 there: no peer of these models sends one at the SYN's own number,
\* where the code's `stream_index - 1` would wrap.
ReceiverSegment(r, seg) ==
  LET s == Synchronise(r, seg)
      first == Unwrap(seg.seqno, s.isn, s.checkpoint)
      index == IF seg.syn THEN first ELSE first - 1
      reassembled == PushSubstring(s.reassembler, seg.payload, index, seg.fin)
  IN  IF HasAckno(s) /\ ~StreamOut(s).ended /\ InWindow(s, seg)
      THEN [s EXCEPT !.reassembler = reassembled,
                     !.checkpoint = reassembled.output.written]
      ELSE s

\* The reader's call on stream_out().
ReceiverRead(r, len) == [r EXCEPT !.reassembler.output = StreamPop(@, len)]

=============================================================================
