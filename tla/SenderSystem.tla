---------------------------- MODULE SenderSystem ----------------------------
(***************************************************************************)
(* A TCPSender between its owner, who writes, ends the input and lets time *)
(* pass, and a peer that acknowledges.                                     *)
(*                                                                         *)
(* The peer is any receiver that acknowledges only numbers that were sent. *)
(* Its acknowledgments cross a network that loses, repeats and reorders    *)
(* them: whatever it has acknowledged once may arrive now, with any of the *)
(* windows it may advertise, as long as it is not older than half of the   *)
(* sequence space (the segment lifetime that TCP relies on).               *)
(***************************************************************************)
EXTENDS TCPSender, SequencesExt

CONSTANTS Isns,       \* raw initial sequence numbers
          Windows,    \* the windows the peer may advertise
          MaxWindow,  \* the largest of them
          MaxBytes    \* bound: bytes written over the stream's life

ASSUME PeerAssumption ==
  /\ Isns \subseteq Raw
  /\ MaxWindow \in Nat \ {0} /\ MaxWindow < Half
  /\ Windows \subseteq 0 .. MaxWindow
  /\ MaxBytes \in Nat

VARIABLES snd,       \* the sender
          peerNext,  \* the largest number the peer has acknowledged
          lastAck    \* the last acknowledgment that popped a segment

vars == <<snd, peerNext, lastAck>>

\* The owner takes what is queued before it calls the sender again.
Taken == [snd EXCEPT !.out = <<>>]

\* The bytes written are numbered in the order they are written.
Bytes(n) == [i \in 1 .. n |-> snd.stream.written + i - 1]

Init ==
  /\ \E isn \in Isns : snd = NewSender(isn)
  /\ peerNext = 0 /\ lastAck = 0

\* The owner connects, answers the peer's SYN or just tries to send more.
Fill ==
  /\ snd' = FillWindow(Taken)
  /\ UNCHANGED <<peerNext, lastAck>>

Write(n) ==
  /\ ~snd.stream.ended
  /\ snd.stream.written + n <= MaxBytes
  /\ snd' = FillWindow(SenderWrite(Taken, Bytes(n)))
  /\ UNCHANGED <<peerNext, lastAck>>

EndInput ==
  /\ snd' = FillWindow(SenderEndInput(Taken))
  /\ UNCHANGED <<peerNext, lastAck>>

\* The owner aborts the connection when retransmission has been given up.
Tick ==
  /\ snd.retx <= MaxRetx
  /\ snd' = SenderTick(Taken, 1)
  /\ UNCHANGED <<peerNext, lastAck>>

\* The peer receives up to number n.
PeerReceives(n) ==
  /\ peerNext' = n
  /\ UNCHANGED <<snd, lastAck>>

\* An acknowledgment arrives, new or old.
AckArrives(n, window) ==
  /\ n > snd.next - Half
  /\ snd' = AckReceived(Taken, Wrap(n, snd.isn), window)
  /\ lastAck' = IF snd.cache \subseteq snd'.cache THEN lastAck ELSE n
  /\ UNCHANGED peerNext

Next ==
  \/ Fill
  \/ \E n \in 1 .. SendCapacity : Write(n)
  \/ EndInput
  \/ Tick
  \/ \E n \in peerNext + 1 .. snd.next : PeerReceives(n)
  \/ \E n \in 1 .. peerNext, window \in Windows : AckArrives(n, window)

Spec == Init /\ [][Next]_vars

\* The owner's clock does not stop (the event loop of tcp_sponge_socket.cc
\* calls tick() at least every TCP_TICK_MS).
FairSpec == Spec /\ WF_vars(Tick)

-----------------------------------------------------------------------------
First(c) == c.end - LengthInSequenceSpace(c.seg)

TypeOK ==
  /\ snd.isn \in Raw /\ snd.next \in Nat /\ snd.window \in 0 .. MaxWindow
  /\ snd.flight \in Nat /\ snd.time \in Nat /\ snd.rto \in Nat /\ snd.retx \in Nat
  /\ \A c \in snd.cache : c.end \in 1 .. snd.next /\ First(c) \in Nat
  /\ peerNext \in 0 .. snd.next /\ lastAck \in 0 .. peerNext

\* The cached segments are the end of what was sent, without holes and
\* without overlaps, each at its place in the sequence space and with the
\* bytes of that place: what is retransmitted is what was sent.
CacheIsTheTail ==
  /\ \A c \in snd.cache :
       /\ c.seg.seqno = Wrap(First(c), snd.isn)
       /\ c.seg.syn = (First(c) = 0)
       /\ c.seg.fin => c.end = snd.stream.written + 2 /\ snd.stream.ended
       /\ \A i \in 1 .. Len(c.seg.payload) : c.seg.payload[i] = First(c) + i - 2
       /\ c.end = snd.next \/ \E d \in snd.cache : First(d) = c.end
  /\ \A c, d \in snd.cache : c = d \/ c.end <= First(d) \/ d.end <= First(c)

\* Every number that was sent and that the peer may still miss is in a
\* cached segment, and the cache is what was sent last: no lost segment is
\* forgotten, whatever old or partial acknowledgments arrive
\* (tcp_sender.cc:120-159).
NothingUnackedIsForgotten ==
  /\ TypeOK /\ CacheIsTheTail
  /\ \A n \in peerNext .. snd.next - 1 :
       \E c \in snd.cache : First(c) <= n /\ n < c.end

\* bytes_in_flight() counts from the last acknowledgment that popped a
\* segment, which lies in the oldest cached segment, and is zero exactly when
\* nothing is cached: the connection takes zero for "everything was
\* acknowledged" (tcp_sender.hh:84-87, tcp_connection.cc:113-158).
FlightIsUnacked ==
  /\ snd.flight = snd.next - lastAck
  /\ snd.flight = 0 <=> snd.cache = {}
  /\ snd.cache # {} => First(Oldest(snd)) <= lastAck /\ lastAck < Oldest(snd).end

\* No more is in flight than the largest window that the peer may advertise, over
\* late and repeated acknowledgments and windows that open and close: fill_window()
\* subtracts a count that may be stale (tcp_sender.cc:42-65).
FlightIsBounded == snd.flight <= MaxWindow

\* The retransmission timeout after n consecutive retransmissions.
Backoff[n \in Nat] == IF n = 0 THEN RtTimeout ELSE 2 * Backoff[n - 1]

\* The timer runs only while something is outstanding; the timeout has
\* doubled once for each consecutive retransmission.
TimerIsBackedOff ==
  /\ snd.rto = Backoff[snd.retx]
  /\ snd.retx <= MaxRetx + 1
  /\ snd.retx <= MaxRetx => snd.time < snd.rto
  /\ snd.cache = {} => snd.time = 0 /\ snd.retx = 0

\* The oldest segment that is cached is sent again, or acknowledged, unless
\* retransmission has been given up: a lost segment cannot stall the stream
\* as long as the clock ticks (tcp_sender.cc:162-179).
IsOldest(k) == snd.cache # {} /\ Oldest(snd).end = k
Resent(k) == \E c \in snd.cache : c.end = k /\ Contains(snd.out, c.seg)
LostIsResent ==
  \A k \in 1 .. MaxBytes + 2 :
    IsOldest(k) ~> (Resent(k) \/ ~IsOldest(k) \/ snd.retx > MaxRetx)

Distance(a, b) == IF a >= b THEN a - b ELSE b - a

\* "the 64-bit sequence number that wraps to `n` and is closest to
\* `checkpoint`" (wrapping_integers.cc:26): a peer that has followed the
\* stream so far, from any initial number, unwraps every raw number to the
\* one that a search over all absolute numbers finds.
UnwrapIsClosest ==
  \A isn, n \in Raw :
    LET found == Unwrap(n, isn, snd.next)
        all == {a \in 0 .. snd.next + Modulus : Wrap(a, isn) = n}
    IN  found \in all /\ \A a \in all : Distance(found, snd.next) <= Distance(a, snd.next)

\* The half-space comparison of two raw numbers of this stream is the
\* comparison of the absolute numbers while they are less than half the space
\* apart, across the wrap (operator-, wrapping_integers.hh:41-47).
OffsetIsDistance ==
  \A a, b \in 0 .. snd.next :
    Distance(a, b) < Half => Offset(Wrap(a, snd.isn), Wrap(b, snd.isn)) = a - b

\* Raw numbers find their place in the stream, and compare as their places do.
NumbersAreFound == UnwrapIsClosest /\ OffsetIsDistance

=============================================================================
