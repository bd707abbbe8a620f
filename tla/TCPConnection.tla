--------------------------- MODULE TCPConnection ---------------------------
(***************************************************************************)
(* The methods of libsponge/tcp_connection.{hh,cc} as operators on a       *)
(* record that holds its fields.                                           *)
(*                                                                         *)
(*   snd, rcv   _sender, _receiver                                         *)
(*   linger     _linger_after_streams_finish                               *)
(*   idle       time_since_last_segment_received_, counted up to           *)
(*              LingerTime: the code only compares it with that            *)
(*   active     active_                                                    *)
(*   out        _segments_out, oldest first                                *)
(*                                                                         *)
(* The window field of a header has WindowSpan = 2^16 values, and a larger  *)
(* window is cut to its lowest bits (tcp_header.hh:48).                    *)
(***************************************************************************)
EXTENDS TCPSender, TCPReceiver

CONSTANTS LingerTime,    \* 10 * _cfg.rt_timeout
          WindowSpan     \* the values of a header's window field

ASSUME ConnectionAssumption == LingerTime \in Nat \ {0} /\ WindowSpan \in Nat \ {0}

NewConnection(isn) ==
  [snd |-> NewSender(isn), rcv |-> NewReceiver, linger |-> TRUE, idle |-> 0,
   active |-> TRUE, out |-> <<>>]

Inbound(c) == StreamOut(c.rcv)
Outbound(c) == c.snd.stream

\* A segment of the sender with the acknowledgment the receiver has by now.
Stamped(c, seg) ==
  IF HasAckno(c.rcv)
  THEN [seg EXCEPT !.ack = TRUE, !.ackno = Ackno(c.rcv),
                   !.win = WindowSize(c.rcv) % WindowSpan]
  ELSE seg

\* A wrong variant that the runs tell apart: what is in flight is forgotten.
OverUnacked(c) == Inbound(c).ended /\ AtEof(Outbound(c))

\* Both streams have ended and everything was acknowledged.
Over(c) == Inbound(c).ended /\ AtEof(Outbound(c)) /\ c.snd.flight = 0

\* A wrong variant that the runs tell apart: the wait has no end.
LingeredNever(c) == ~c.linger

\* The connection need not wait any longer for the peer's retransmissions.
Lingered(c) == ~c.linger \/ c.idle >= LingerTime

\* A wrong variant that the runs tell apart: it does not matter who ends first.
PeerEnded(c) == Inbound(c).ended

PeerEndedFirst(c) == Inbound(c).ended /\ ~AtEof(Outbound(c))

\* _send_data(): move the sender's queue to the connection's, and find out
\* whether the connection is over.
Flush(c) ==
  [c EXCEPT !.snd.out = <<>>,
            !.out = @ \o [i \in DOMAIN c.snd.out |-> Stamped(c, c.snd.out[i])],
            !.linger = @ /\ ~PeerEndedFirst(c),
            !.active = @ /\ ~(Over(c) /\ Lingered(c))]

Refill(c) == [c EXCEPT !.snd = FillWindow(@)]
Acknowledge(c) == [c EXCEPT !.snd = SendEmptySegment(@)]

\* connect(), end_input_stream() and write().
Open(c) == Flush(Refill(c))
ConnectionEndInput(c) == Flush(Refill([c EXCEPT !.snd = SenderEndInput(@)]))
ConnectionWrite(c, data) ==
  IF data = <<>> THEN c ELSE Flush(Refill([c EXCEPT !.snd = SenderWrite(@, data)]))

\* Both streams fail and the connection is over.
Fail(c) ==
  [c EXCEPT !.snd.stream = StreamFail(@),
            !.rcv.reassembler.output = StreamFail(@),
            !.active = FALSE]

\* _reset_connection()
Reset(c) == Fail([c EXCEPT !.out = Append(@, [PlainSegment(0) EXCEPT !.rst = TRUE])])

\* tick()
ConnectionTick(c, ms) ==
  LET later == [c EXCEPT !.idle = Least(@ + ms, LingerTime),
                         !.snd = SenderTick(@, ms)]
  IN  IF ~c.active THEN c
      ELSE IF later.snd.retx > MaxRetx THEN Reset(later)
      ELSE Flush(later)

\* The branch that segment_received() takes, named as its comments name it.
Phase(c) ==
  LET next == c.snd.next
      flight == c.snd.flight
      eof == AtEof(Outbound(c))
      finSent == eof /\ next = Outbound(c).written + 2
  IN  IF next = 0 THEN "LISTEN"
      ELSE IF next = flight /\ ~HasAckno(c.rcv) THEN "SYN-SENT"
      ELSE IF next = flight /\ ~Inbound(c).ended THEN "SYN-RCVD"
      ELSE IF next > flight /\ ~eof THEN "ESTABLISHED"
      ELSE IF finSent /\ ~Inbound(c).ended
           THEN IF flight > 0 THEN "FIN-WAIT-1" ELSE "FIN-WAIT-2"
      ELSE IF finSent /\ flight = 0 THEN "TIME-WAIT"
      ELSE "OTHER"

\* The receiver takes the segment, and the sender its acknowledgment too,
\* whether or not the ACK flag is set.
Receive(c, seg) == [c EXCEPT !.rcv = ReceiverSegment(@, seg)]
Exchange(c, seg) ==
  [Receive(c, seg) EXCEPT !.snd = AckReceived(@, seg.ackno, seg.win)]

\* An established connection acknowledges what occupies sequence numbers.
Converse(c, seg) ==
  LET d == Exchange(c, seg)
  IN  Flush(Refill(IF LengthInSequenceSpace(seg) > 0 THEN Acknowledge(d) ELSE d))

\* segment_received() of an active connection, for a segment without RST.
Handle(c, seg) ==
  LET phase == Phase(c)
      answer == Flush(Acknowledge(Exchange(c, seg)))
  IN  CASE phase = "LISTEN" -> IF seg.syn THEN Open(Receive(c, seg)) ELSE c
        [] phase = "SYN-SENT" ->
             IF ~seg.syn THEN c
             ELSE IF seg.ack THEN answer
             ELSE Flush(Acknowledge(Receive(c, seg)))
        [] phase = "SYN-RCVD" -> Exchange(c, seg)
        [] phase = "ESTABLISHED" -> Converse(c, seg)
        [] phase = "FIN-WAIT-1" ->
             IF seg.fin THEN answer
             ELSE IF seg.ack THEN Flush(Exchange(c, seg))
             ELSE c
        [] phase = "FIN-WAIT-2" -> answer
        [] phase = "TIME-WAIT" -> IF seg.fin THEN answer ELSE c
        [] phase = "OTHER" -> Flush(Refill(Exchange(c, seg)))

\* segment_received()
SegmentReceived(c, seg) ==
  LET heard == [c EXCEPT !.idle = 0]
  IN  IF ~c.active THEN c
      ELSE IF seg.rst THEN Fail(heard)
      ELSE Handle(heard, seg)

=============================================================================
