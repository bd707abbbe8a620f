----------------------------- MODULE TCPSender -----------------------------
(***************************************************************************)
(* The methods of libsponge/tcp_sender.{hh,cc} as operators on a record    *)
(* that holds the sender's fields.                                         *)
(*                                                                         *)
(*   isn          _isn (raw)                                               *)
(*   stream       _stream, a stream value                                  *)
(*   next         _next_seqno (absolute)                                   *)
(*   window       peer_windows_size_                                       *)
(*   flight       bytes_in_flight_                                         *)
(*   cache        segments_cache_: the sent segments not yet acknowledged, *)
(*                each with the absolute number that follows it            *)
(*   time, rto, retx   time_, _initial_retransmission_timeout, retx_times_ *)
(*   out          _segments_out, oldest first                              *)
(*                                                                         *)
(* windows_size_ is left out: the code writes it and never reads it.       *)
(***************************************************************************)
EXTENDS WrappingIntegers, TCPSegment, StreamValues

CONSTANTS MaxPayload,    \* TCPConfig::MAX_PAYLOAD_SIZE
          SendCapacity,  \* TCPConfig::send_capacity
          RtTimeout,     \* TCPConfig::rt_timeout, in ticks of the clock
          MaxRetx        \* TCPConfig::MAX_RETX_ATTEMPTS

ASSUME SenderAssumption ==
  {MaxPayload, SendCapacity, RtTimeout, MaxRetx} \subseteq Nat \ {0}

NewSender(isn) ==
  [isn |-> isn, stream |-> EmptyStream, next |-> 0, window |-> 1,
   flight |-> 0, cache |-> {}, time |-> 0, rto |-> RtTimeout, retx |-> 0,
   out |-> <<>>]

NextSeqno(s) == Wrap(s.next, s.isn)

\* A wrong variant that the runs tell apart: what is in flight is not
\* deducted.
RoomIgnoringFlight(s) == IF s.window = 0 THEN 1 ELSE s.window

\* A wrong variant that the runs tell apart: a closed window is not probed.
RoomUnprobed(s) == s.window - s.flight

\* The room that fill_window() sees: a zero window counts as one.
Room(s) == (IF s.window = 0 THEN 1 ELSE s.window) - s.flight

\* Whether every byte has been sent and the FIN has not.
FinIsDue(s) == AtEof(s.stream) /\ s.next < s.stream.written + 2

\* Queue, count and cache one segment.
Send(s, seg) ==
  LET n == LengthInSequenceSpace(seg)
  IN  [s EXCEPT !.next = @ + n, !.flight = @ + n,
                !.out = Append(@, seg),
                !.cache = @ \cup {[end |-> s.next + n, seg |-> seg]}]

\* The SYN, if nothing has been sent.
SendSyn(s) == IF s.next = 0 THEN Send(s, SynSegment(s.isn)) ELSE s

\* A wrong variant that the runs tell apart: the FIN follows data that is not the
\* last.
FinFollowsEarly(s, total) == s.stream.ended

\* Whether the FIN goes on the segment that ends after total more bytes: the
\* stream is then at its end and one more number fits.
FinFollows(s, total) ==
  s.stream.ended /\ total = Len(s.stream.buffer) /\ total < Room(s)

\* The loop that reads the stream while there is room: it sends total bytes
\* in segments of at most MaxPayload, the FIN on the last one if it follows.
SendData(s) ==
  LET total == Least(Len(s.stream.buffer), Room(s))
      count == (total + MaxPayload - 1) \div MaxPayload
      fin == FinFollows(s, total)
      first(i) == (i - 1) * MaxPayload
      last(i) == Least(i * MaxPayload, total)
      seg(i) == DataSegment(Wrap(s.next + first(i), s.isn),
                            SubSeq(s.stream.buffer, first(i) + 1, last(i)),
                            fin /\ i = count)
      sent == total + Flag(fin)
      follows(i) == IF i = count THEN s.next + sent ELSE s.next + last(i)
  IN  IF ~AtEof(s.stream) /\ s.next > s.flight /\ total > 0
      THEN [s EXCEPT !.stream = StreamPop(@, total),
                     !.next = @ + sent, !.flight = @ + sent,
                     !.out = @ \o [i \in 1 .. count |-> seg(i)],
                     !.cache = @ \cup {[end |-> follows(i), seg |-> seg(i)] :
                                         i \in 1 .. count}]
      ELSE s

\* The FIN on a segment of its own.
SendFin(s) ==
  IF FinIsDue(s) /\ Room(s) > 0
  THEN Send(s, DataSegment(NextSeqno(s), <<>>, TRUE))
  ELSE s

FillWindow(s) == SendFin(SendData(SendSyn(s)))

\* A wrong variant that the runs tell apart: off by one, the last number of a
\* segment may be missing.
AcknowledgedEarly(s, ackno) ==
  {c \in s.cache : Unwrap(ackno, s.isn, c.end) + 1 >= c.end}

\* The cached segments that ackno acknowledges: each is compared with the
\* acknowledgment unwrapped near its own end.
Acknowledged(s, ackno) == {c \in s.cache : Unwrap(ackno, s.isn, c.end) >= c.end}

\* A wrong variant that the runs tell apart: the backoff outlives the
\* acknowledgment.
AckKeepsBackoff(s, ackno, window) ==
  LET unacked == Offset(NextSeqno(s), ackno)
      popped == Acknowledged(s, ackno)
      kept == [s EXCEPT !.cache = @ \ popped, !.window = window]
  IN  IF unacked < 0 THEN s
      ELSE IF popped = {} THEN kept
      ELSE FillWindow([kept EXCEPT !.flight = unacked, !.time = 0, !.retx = 0])

\* A wrong variant that the runs tell apart: the count in flight stays.
AckKeepsFlight(s, ackno, window) ==
  LET popped == Acknowledged(s, ackno)
      kept == [s EXCEPT !.cache = @ \ popped, !.window = window]
  IN  IF Offset(NextSeqno(s), ackno) < 0 THEN s
      ELSE IF popped = {} THEN kept
      ELSE FillWindow([kept EXCEPT !.time = 0, !.retx = 0, !.rto = RtTimeout])

\* ack_received(): an acknowledgment of a number not sent yet is ignored;
\* the window is taken from every other one, and the timer and the count of
\* numbers in flight change when a cached segment is fully acknowledged.
AckReceived(s, ackno, window) ==
  LET unacked == Offset(NextSeqno(s), ackno)
      popped == Acknowledged(s, ackno)
      kept == [s EXCEPT !.cache = @ \ popped, !.window = window]
  IN  IF unacked < 0 THEN s
      ELSE IF popped = {} THEN kept
      ELSE FillWindow([kept EXCEPT !.flight = unacked, !.time = 0,
                                   !.retx = 0, !.rto = RtTimeout])

\* The cached segment that retransmission starts with.
Oldest(s) == CHOOSE c \in s.cache : \A d \in s.cache : c.end <= d.end

\* A wrong variant that the runs tell apart: the time since earlier ticks is
\* forgotten.
TickForgetting(s, ms) ==
  LET late == [s EXCEPT !.time = ms]
      resent == [s EXCEPT !.time = 0, !.out = Append(@, Oldest(s).seg)]
  IN  IF s.cache = {} THEN s
      ELSE IF late.time < s.rto \/ s.retx > MaxRetx THEN late
      ELSE IF s.window = 0 THEN resent
      ELSE [resent EXCEPT !.rto = 2 * @, !.retx = @ + 1]

\* tick(): one retransmission when the timer has run out, with backoff
\* unless the peer's window is closed.
SenderTick(s, ms) ==
  LET late == [s EXCEPT !.time = @ + ms]
      resent == [s EXCEPT !.time = 0, !.out = Append(@, Oldest(s).seg)]
  IN  IF s.cache = {} THEN s
      ELSE IF late.time < s.rto \/ s.retx > MaxRetx THEN late
      ELSE IF s.window = 0 THEN resent
      ELSE [resent EXCEPT !.rto = 2 * @, !.retx = @ + 1]

SendEmptySegment(s) == [s EXCEPT !.out = Append(@, PlainSegment(NextSeqno(s)))]

\* The owner's calls on stream_in().
SenderWrite(s, data) == [s EXCEPT !.stream = StreamWrite(@, data, SendCapacity)]
SenderEndInput(s) == [s EXCEPT !.stream = StreamEnd(@)]

=============================================================================
