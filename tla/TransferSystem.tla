--------------------------- MODULE TransferSystem ---------------------------
(***************************************************************************)
(* One direction of a connection: a TCPSender and a TCPReceiver around a   *)
(* network that reorders, loses and repeats segments and acknowledgments.  *)
(*                                                                         *)
(* The owners do what TCPConnection does for this direction once it is     *)
(* established: the sender's owner calls fill_window() after every write   *)
(* and every acknowledgment, the receiver's owner acknowledges every       *)
(* segment that occupies sequence numbers (tcp_connection.cc:100-110,      *)
(* 172-212).  Reading the output sends nothing.                            *)
(*                                                                         *)
(* Raw numbers tell segments apart only within half of the sequence space, *)
(* so TCP relies on a segment lifetime: the network discards what is older *)
(* than that.  A message carries its absolute number for this and nothing  *)
(* else.                                                                   *)
(***************************************************************************)
EXTENDS TCPSender, TCPReceiver

CONSTANTS Isns,            \* raw initial sequence numbers
          MaxBytes,        \* bound: the length of the stream that is written
          MaxLost,         \* bound: messages the network loses
          MaxRepeated,     \* bound: deliveries that leave the message there
          MaxEarly         \* bound: ticks while something is in flight; but
                           \* for these the timeout exceeds the round trip

ASSUME TransferAssumption ==
  /\ Isns \subseteq Raw
  /\ RecvCapacity < Half
  /\ {MaxBytes, MaxLost, MaxRepeated, MaxEarly} \subseteq Nat

VARIABLES snd, rcv,
          segs,            \* the segments in flight
          acks,            \* the acknowledgments in flight
          lost, repeated,  \* how many messages were lost and repeated
          early            \* and how many ticks came early

network == <<lost, repeated, early>>
vars == <<snd, rcv, segs, acks, network>>

Init ==
  /\ \E isn \in Isns : snd = NewSender(isn)
  /\ rcv = NewReceiver
  /\ segs = {} /\ acks = {}
  /\ lost = 0 /\ repeated = 0 /\ early = 0

\* A segment of the sender on its way, and the acknowledgment of the receiver.
Message(s, seg) ==
  [at |-> Unwrap(seg.seqno, s.isn, s.next - s.flight), seg |-> seg]
Acknowledgment(r) ==
  [at |-> NextExpected(r), ackno |-> Ackno(r), win |-> WindowSize(r)]

\* What the network does not deliver any more.
SegmentIsOld(m) == m.at < StreamOut(rcv).written - Half
AckIsOld(a) == a.at <= snd.next - Half

\* The sender's owner stores its new state and transmits what it queued.
Transmit(s) ==
  /\ snd' = [s EXCEPT !.out = <<>>]
  /\ segs' = segs \cup {Message(s, seg) : seg \in ToSet(s.out)}

\* ... after fill_window().
FillAndTransmit(s) ==
  \E syn \in {SendSyn(s)} : \E data \in {SendData(syn)} : Transmit(SendFin(data))

\* The bytes written are numbered in the order they are written.
Bytes(n) == [i \in 1 .. n |-> snd.stream.written + i - 1]

Connect ==
  /\ snd.next = 0
  /\ FillAndTransmit(snd)
  /\ UNCHANGED <<rcv, acks, network>>

Write(n) ==
  /\ snd.next > 0 /\ ~snd.stream.ended
  /\ n <= RemainingCapacity(snd.stream, SendCapacity)
  /\ snd.stream.written + n <= MaxBytes
  /\ FillAndTransmit(SenderWrite(snd, Bytes(n)))
  /\ UNCHANGED <<rcv, acks, network>>

EndInput ==
  /\ snd.next > 0 /\ snd.stream.written = MaxBytes /\ ~snd.stream.ended
  /\ FillAndTransmit(SenderEndInput(snd))
  /\ UNCHANGED <<rcv, acks, network>>

\* The owner aborts the connection when retransmission has been given up.
Tick ==
  /\ snd.retx <= MaxRetx
  /\ IF segs = {} /\ acks = {} THEN UNCHANGED early
     ELSE early < MaxEarly /\ early' = early + 1
  /\ Transmit(SenderTick(snd, 1))
  /\ UNCHANGED <<rcv, acks, lost, repeated>>

\* The network keeps a delivered message, to deliver it again later.
Repeat == repeated < MaxRepeated /\ repeated' = repeated + 1

DeliverSegment(m) ==
  /\ ~SegmentIsOld(m)
  /\ \E r \in {ReceiverSegment(rcv, m.seg)} :
       /\ rcv' = r
       /\ acks' = IF HasAckno(r) THEN acks \cup {Acknowledgment(r)} ELSE acks
  /\ \/ segs' = segs \ {m} /\ UNCHANGED repeated
     \/ Repeat /\ UNCHANGED segs
  /\ UNCHANGED <<snd, lost, early>>

\* The acknowledgment may queue segments while the delivered one stays in
\* the other direction's network.
DeliverAck(a) ==
  /\ ~AckIsOld(a)
  /\ \E s \in {AckReceived(snd, a.ackno, a.win)} : FillAndTransmit(s)
  /\ \/ acks' = acks \ {a} /\ UNCHANGED repeated
     \/ Repeat /\ UNCHANGED acks
  /\ UNCHANGED <<rcv, lost, early>>

Lose ==
  /\ lost < MaxLost /\ lost' = lost + 1
  /\ \/ \E m \in segs : segs' = segs \ {m} /\ UNCHANGED acks
     \/ \E a \in acks : acks' = acks \ {a} /\ UNCHANGED segs
  /\ UNCHANGED <<snd, rcv, repeated, early>>

Expire ==
  /\ \/ \E m \in segs : SegmentIsOld(m) /\ segs' = segs \ {m} /\ UNCHANGED acks
     \/ \E a \in acks : AckIsOld(a) /\ acks' = acks \ {a} /\ UNCHANGED segs
  /\ UNCHANGED <<snd, rcv, network>>

Read(len) ==
  /\ StreamOut(rcv).buffer # <<>>
  /\ rcv' = ReceiverRead(rcv, len)
  /\ UNCHANGED <<snd, segs, acks, network>>

SenderStep == Connect \/ (\E n \in 1 .. SendCapacity : Write(n)) \/ EndInput
Delivery == (\E m \in segs : DeliverSegment(m)) \/ (\E a \in acks : DeliverAck(a))
ReaderStep == \E len \in 1 .. RecvCapacity : Read(len)

Next == SenderStep \/ Tick \/ Delivery \/ Lose \/ Expire \/ ReaderStep

Spec == Init /\ [][Next]_vars

\* What fairness is about, as cheap predicates: a message waits and leaves
\* the network, the writer can go on and does.
Waiting == segs # {} \/ acks # {}
Leaves == ~(segs \subseteq segs') \/ ~(acks \subseteq acks')
CanWrite ==
  /\ ~snd.stream.ended
  /\ snd.next = 0 \/ snd.stream.written = MaxBytes
       \/ RemainingCapacity(snd.stream, SendCapacity) > 0
Wrote ==
  \/ snd.next = 0 /\ snd'.next > 0
  \/ snd.stream.written < snd'.stream.written
  \/ snd.stream.ended # snd'.stream.ended

\* The applications write and read on, the clock ticks, and the network
\* delivers or discards what it does not lose: weak fairness of SenderStep,
\* Delivery with Expire, Tick and ReaderStep, the first two written out.
FairSpec ==
  /\ Spec
  /\ ([]<>~CanWrite) \/ []<><<Wrote>>_vars
  /\ ([]<>~Waiting) \/ []<><<Leaves>>_vars
  /\ WF_vars(Tick) /\ WF_vars(ReaderStep)

-----------------------------------------------------------------------------
Out == StreamOut(rcv)

TypeOK ==
  /\ NextExpected(rcv) \in 1 .. MaxBytes + 2
  /\ snd.next \in 0 .. MaxBytes + 2
  /\ lost \in 0 .. MaxLost /\ repeated \in 0 .. MaxRepeated /\ early \in 0 .. MaxEarly
  /\ Len(Out.buffer) <= RecvCapacity

\* End to end, the reader gets the bytes that were written, in order and
\* once, and the end of the input only after all of them, whatever the
\* network does (tcp_sender.cc, tcp_receiver.cc, stream_reassembler.cc).
ReaderGetsTheStream ==
  /\ TypeOK
  /\ Out.buffer = [i \in 1 .. Out.written - Out.read |-> Out.read + i - 1]
  /\ Out.written <= snd.stream.written
  /\ Out.ended => snd.stream.ended /\ Out.written = snd.stream.written

\* Number n is received: the SYN, a byte the output has, or the end.
Received(n) ==
  HasAckno(rcv) /\ (n <= Out.written \/ (n = Out.written + 1 /\ Out.ended))

\* The receiver never acknowledges what was not sent, and what the sender
\* drops from its cache was received (tcp_receiver.cc:53-59,
\* tcp_sender.cc:126-137).
AcksAreSound ==
  /\ HasAckno(rcv) => NextExpected(rcv) <= snd.next
  /\ \A n \in 0 .. snd.next - 1 :
       (\A c \in snd.cache : n < c.end - LengthInSequenceSpace(c.seg) \/ c.end <= n)
         => Received(n)

\* "the sequence number of the first byte that falls after the window"
\* (tcp_receiver.hh:52-55) never moves back: the receiver takes no promised
\* space away, so retransmissions are not sent into a closed window.
RightEdgeNeverShrinks ==
  [][HasAckno(rcv) =>
       NextExpected(rcv) + WindowSize(rcv) <= NextExpected(rcv') + WindowSize(rcv')]_vars

\* Once everything was written and ended, everything is read and the end is
\* acknowledged: losses, a closed window that reading opens without sending
\* an update, and partially accepted segments only delay the transfer.
Complete ==
  /\ Out.ended /\ Out.read = MaxBytes
  /\ snd.next = MaxBytes + 2 /\ snd.cache = {}
TransferCompletes == <>Complete

=============================================================================
