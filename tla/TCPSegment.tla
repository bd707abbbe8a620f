----------------------------- MODULE TCPSegment -----------------------------
(***************************************************************************)
(* A TCP segment: the header fields that the protocol reads and the bytes  *)
(* of the payload (tcp_helpers/tcp_header.hh, tcp_segment.cc).             *)
(***************************************************************************)
EXTENDS Integers, Sequences

\* A segment as TCPSegment{} constructs it, at sequence number seqno.
PlainSegment(seqno) ==
  [seqno |-> seqno, syn |-> FALSE, fin |-> FALSE, rst |-> FALSE,
   ack |-> FALSE, ackno |-> 0, win |-> 0, payload |-> <<>>]

SynSegment(seqno) == [PlainSegment(seqno) EXCEPT !.syn = TRUE]

\* A segment with payload data, and a FIN after it if fin holds.
DataSegment(seqno, data, fin) ==
  [PlainSegment(seqno) EXCEPT !.payload = data, !.fin = fin]

Flag(b) == IF b THEN 1 ELSE 0

LengthInSequenceSpace(seg) == Len(seg.payload) + Flag(seg.syn) + Flag(seg.fin)

=============================================================================
