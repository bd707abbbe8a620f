--------------------------- MODULE TransferProofs ---------------------------
(***************************************************************************)
(* Proofs about TransferSystem: whatever the network loses, repeats and    *)
(* reorders, the reader gets the stream, no acknowledgment promises what   *)
(* was not received, and the right edge of the window never moves back,    *)
(* for every width of the sequence numbers, every capacity, payload size,  *)
(* timeout and length of the stream.                                       *)
(*                                                                         *)
(* The sender and the receiver are those of SenderProofs and               *)
(* ReassemblerProofs, whose lemmas are used for S and R below: S for a     *)
(* peer that advertises the windows of this receiver, R for the stream     *)
(* that is written.  The inductive invariant adds what lies between them:  *)
(* every segment in the network is at its place, with the bytes of that    *)
(* place, and every acknowledgment there is covered by what was received.  *)
(***************************************************************************)
EXTENDS TransferSystem, SequenceTheorems, TLAPS

S == INSTANCE SenderProofs WITH Windows <- 0 .. RecvCapacity,
       MaxWindow <- RecvCapacity, peerNext <- 0, lastAck <- 0
R == INSTANCE ReassemblerProofs WITH StreamLength <- MaxBytes,
       reassembler <- rcv.reassembler, pushed <- {}

\* What S and R assume of their constants.
LEMMA InstancesAreSound ==
  /\ S!PeerAssumption /\ S!SenderAssumption /\ S!HalfAssumption
  /\ R!LengthAssumption /\ R!ReassemblerAssumption
  BY TransferAssumption, SenderAssumption, HalfAssumption, ReassemblerAssumption
     DEF S!PeerAssumption, S!SenderAssumption, S!HalfAssumption,
         R!LengthAssumption, R!ReassemblerAssumption, S!Raw, Raw,
         S!Modulus, Modulus

-----------------------------------------------------------------------------

\* The operators of S and R are those of this module.
LEMMA SameNumbers ==
  /\ \A n, isn : S!Wrap(n, isn) = Wrap(n, isn)
  /\ \A a, b : S!Offset(a, b) = Offset(a, b)
  /\ \A n, isn, c : S!Unwrap(n, isn, c) = Unwrap(n, isn, c)
  /\ S!Raw = Raw
  BY DEF S!Wrap, Wrap, S!Offset, Offset, S!Unwrap, Unwrap, S!Raw, Raw,
         S!Modulus, Modulus

LEMMA SameLength ==
  /\ \A b : S!Flag(b) = Flag(b)
  /\ \A seg : S!LengthInSequenceSpace(seg) = LengthInSequenceSpace(seg)
  BY DEF S!Flag, Flag, S!LengthInSequenceSpace, LengthInSequenceSpace

LEMMA SameSegments ==
  /\ \A n : S!PlainSegment(n) = PlainSegment(n)
  /\ \A n : S!SynSegment(n) = SynSegment(n)
  /\ \A n, data, fin : S!DataSegment(n, data, fin) = DataSegment(n, data, fin)
  BY DEF S!PlainSegment, PlainSegment, S!SynSegment, SynSegment,
         S!DataSegment, DataSegment

LEMMA SameSend == \A s, seg : S!Send(s, seg) = Send(s, seg)
  BY SameLength DEF S!Send, Send

LEMMA SameSyn == \A s : S!SendSyn(s) = SendSyn(s)
  BY SameSend, SameSegments DEF S!SendSyn, SendSyn

LEMMA SameRoom ==
  /\ \A s : S!Room(s) = Room(s)
  /\ \A s, total : S!FinFollows(s, total) = FinFollows(s, total)
  /\ \A s : S!AtEof(s) = AtEof(s)
  /\ \A s : S!FinIsDue(s) = FinIsDue(s)
  BY DEF S!Room, Room, S!FinFollows, FinFollows, S!AtEof, AtEof,
         S!FinIsDue, FinIsDue

LEMMA SameStreams ==
  /\ \A a, b : S!Least(a, b) = Least(a, b)
  /\ \A s, n : S!StreamPop(s, n) = StreamPop(s, n)
  /\ \A s, data, n : S!StreamWrite(s, data, n) = StreamWrite(s, data, n)
  /\ \A s : S!StreamEnd(s) = StreamEnd(s)
  BY DEF S!Least, Least, S!StreamPop, StreamPop, S!StreamWrite, StreamWrite,
         S!RemainingCapacity, RemainingCapacity, S!StreamEnd, StreamEnd

LEMMA SameData == \A s : S!SendData(s) = SendData(s)
  BY DEF S!SendData, SendData, S!FinFollows, FinFollows, S!Room, Room, S!AtEof, AtEof,
         S!Least, Least, S!StreamPop, StreamPop, S!Wrap, Wrap, S!Modulus, Modulus,
         S!DataSegment, DataSegment, S!PlainSegment, PlainSegment, S!Flag, Flag

LEMMA SameFin == \A s : S!SendFin(s) = SendFin(s)
  BY SameRoom, SameSend, SameSegments, SameNumbers
     DEF S!SendFin, SendFin, S!NextSeqno, NextSeqno

LEMMA SameFill == \A s : S!FillWindow(s) = FillWindow(s)
  BY SameSyn, SameData, SameFin DEF S!FillWindow, FillWindow

LEMMA SameAck == \A s, n, w : S!AckReceived(s, n, w) = AckReceived(s, n, w)
<1>1. \A s, n : S!Acknowledged(s, n) = Acknowledged(s, n)
  BY SameNumbers DEF S!Acknowledged, Acknowledged
<1>2. \A s : S!NextSeqno(s) = NextSeqno(s)
  BY SameNumbers DEF S!NextSeqno, NextSeqno
<1>3. \A a, b : S!Offset(a, b) = Offset(a, b)  BY SameNumbers
<1> QED  BY <1>1, <1>2, <1>3, SameFill, ZenonT(40) DEF S!AckReceived, AckReceived

LEMMA SameTick == \A s, n : S!SenderTick(s, n) = SenderTick(s, n)
  BY DEF S!SenderTick, SenderTick, S!Oldest, Oldest

LEMMA SameOwner ==
  /\ \A s, data : S!SenderWrite(s, data) = SenderWrite(s, data)
  /\ \A s : S!SenderEndInput(s) = SenderEndInput(s)
  /\ \A isn : S!NewSender(isn) = NewSender(isn)
  BY SameStreams
     DEF S!SenderWrite, SenderWrite, S!SenderEndInput, SenderEndInput,
         S!NewSender, NewSender, S!EmptyStream, EmptyStream

LEMMA SameAssemble == \A r, i, data : R!Assemble(r, i, data) = Assemble(r, i, data)
  BY DEF R!Assemble, Assemble, R!StreamWrite, StreamWrite, R!Least, Least,
         R!RemainingCapacity, RemainingCapacity

LEMMA SameKeys == \A s : R!Keys(s) = Keys(s)
  BY DEF R!Keys, Keys, R!Ascending, Ascending, R!Cardinality, Cardinality

LEMMA SameWithout == \A s, k : R!Without(s, k) = Without(s, k)
  BY DEF R!Without, Without, R!Restrict, Restrict

LEMMA SameDrain == \A r : R!Drain(r) = Drain(r)
<1>1. \A d, s : R!FoldLeft(R!DrainAt, d, s) = FoldLeft(DrainAt, d, s)
  BY DEF R!FoldLeft, FoldLeft, R!MapThenFoldSet, MapThenFoldSet, R!Max, Max, R!DrainAt,
         DrainAt, R!Assemble, Assemble, R!StreamWrite, StreamWrite, R!Least, Least,
         R!RemainingCapacity, RemainingCapacity
<1> QED  BY <1>1, SameKeys, SameWithout DEF R!Drain, Drain

LEMMA SameMerge ==
  \A s, i, data : R!MergeSegments(s, i, data) = MergeSegments(s, i, data)
<1> TAKE s, i, data
<1> DEFINE new == [lft |-> i, data |-> data, absorbed |-> {}, cached |-> TRUE]
           mine == FoldLeft(LAMBDA x, k : MergeWith(s, x, k), new, Keys(s))
           yours == R!FoldLeft(LAMBDA x, k : R!MergeWith(s, x, k), new, R!Keys(s))
           result(m, rest) == IF m.cached
             THEN [k \in DOMAIN rest \cup {m.lft} |-> IF k = m.lft THEN m.data ELSE rest[k]]
             ELSE rest
<1>1. yours = mine
  <2> DEFINE d == new
             keys == Keys(s)
  <2>1. R!Keys(s) = keys  BY SameKeys
  <2> HIDE DEF d, keys
  <2>2. R!FoldLeft(LAMBDA x, k : R!MergeWith(s, x, k), d, keys)
          = FoldLeft(LAMBDA x, k : MergeWith(s, x, k), d, keys)
    BY DEF R!FoldLeft, FoldLeft, R!MapThenFoldSet, MapThenFoldSet, R!Max, Max,
           R!MergeWith, MergeWith
  <2> QED  BY <2>1, <2>2 DEF d, keys
<1>2. MergeSegments(s, i, data) = result(mine, Without(s, mine.absorbed))
  BY DEF MergeSegments
<1>3. R!MergeSegments(s, i, data) = result(yours, R!Without(s, yours.absorbed))
  BY DEF R!MergeSegments
<1> HIDE DEF mine, yours
<1> QED  BY <1>1, <1>2, <1>3, SameWithout

LEMMA SameEnd == \A r : R!EndIfComplete(r) = EndIfComplete(r)
<1>1. \A r : R!UnassembledBytes(r) = UnassembledBytes(r)
  BY DEF R!UnassembledBytes, UnassembledBytes, R!FoldLeft, FoldLeft,
         R!MapThenFoldSet, MapThenFoldSet, R!Max, Max,
         R!Keys, Keys, R!Ascending, Ascending, R!Cardinality, Cardinality
<1> QED  BY <1>1 DEF R!EndIfComplete, EndIfComplete, R!StreamEnd, StreamEnd

LEMMA SamePush ==
  \A r, data, i, eof : R!PushSubstring(r, data, i, eof) = PushSubstring(r, data, i, eof)
  BY SameAssemble, SameDrain, SameEnd, SameMerge
     DEF R!PushSubstring, PushSubstring

LEMMA SameRead == \A s, n : R!StreamPop(s, n) = StreamPop(s, n)
  BY DEF R!StreamPop, StreamPop, R!Least, Least

LEMMA SameNew == R!NewReassembler = NewReassembler /\ R!NoEof = NoEof
  BY DEF R!NewReassembler, NewReassembler, R!NoEof, NoEof, R!EmptyStream, EmptyStream

-----------------------------------------------------------------------------

\* The last acknowledgment that popped a segment.
Acked(s) == s.next - s.flight

\* The sender's own invariant, and the bounds of the stream.
SenderInv(s) ==
  /\ S!SenderOK(s, Acked(s)) /\ S!TimerOK(s)
  /\ s.stream.written <= MaxBytes
  /\ s.stream.ended => s.stream.written = MaxBytes

\* A message as SenderProofs speaks of cached segments.
Place(m) == [end |-> m.at + S!LengthInSequenceSpace(m.seg), seg |-> m.seg]

\* Every segment in the network lies where the sender once put it.
SegmentsInv(s, messages) ==
  \A m \in messages : m \in [at : Nat, seg : S!Segment] /\ S!IsPlaced(s, Place(m))

\* Every acknowledgment in the network is covered by what was received.
AcksInv(s, r, messages) ==
  \A a \in messages : /\ a.at \in 1 .. NextExpected(r)
                      /\ a.ackno = Wrap(a.at, s.isn) /\ a.win \in 0 .. RecvCapacity

\* The receiver has bytes that were sent, knows the end only after it was sent,
\* and has received everything that the sender has forgotten.
ReceiverInv(s, r) ==
  /\ r \in [syn_received : BOOLEAN, isn : Nat, checkpoint : Nat,
            reassembler : R!Reassembler]
  /\ R!ReassemblerOK(r.reassembler, 0 .. s.stream.read - 1)
  /\ r.reassembler.eof_idx # NoEof => s.stream.ended /\ s.next = MaxBytes + 2
  /\ IF r.syn_received
     THEN /\ r.isn = s.isn /\ s.next >= 1
          /\ r.checkpoint = StreamOut(r).written
          /\ Acked(s) <= NextExpected(r)
     ELSE r = NewReceiver /\ Acked(s) = 0

Counters ==
  lost \in 0 .. MaxLost /\ repeated \in 0 .. MaxRepeated /\ early \in 0 .. MaxEarly

\* The inductive invariant.
TInv ==
  /\ SenderInv(snd) /\ snd.out = <<>>
  /\ SegmentsInv(snd, segs)
  /\ ReceiverInv(snd, rcv)
  /\ AcksInv(snd, rcv, acks) /\ (~rcv.syn_received => acks = {})
  /\ Counters

-----------------------------------------------------------------------------

\* The numbers of a sender.
LEMMA SenderNumbers ==
  ASSUME NEW s, NEW a, S!SenderOK(s, a)
  PROVE  /\ s \in S!Sender /\ s.isn \in Raw /\ s.isn \in Int
         /\ s.next \in Nat /\ s.flight \in Nat /\ s.flight <= RecvCapacity
         /\ a \in 0 .. s.next /\ a = Acked(s)
         /\ s.stream.read \in Nat /\ s.stream.written \in Nat
         /\ s.stream.read <= s.stream.written /\ s.next <= s.stream.written + 2
         /\ s.next >= 1 => s.next >= s.stream.read + 1
         /\ s.next > s.stream.read + 1 => s.stream.ended
         /\ s.stream.ended \in BOOLEAN
<1>1. s \in S!Sender  BY DEF S!SenderOK
<1>2. /\ s.isn \in Raw /\ s.isn \in Int /\ s.next \in Nat /\ s.flight \in Nat
      /\ s.stream \in S!Stream /\ Len(s.stream.buffer) \in Nat
      /\ s.stream.read \in Nat /\ s.stream.written \in Nat
  BY <1>1, InstancesAreSound, S!SenderFields, SameNumbers
<1>3. /\ a \in 0 .. s.next /\ s.flight = s.next - a /\ s.flight <= RecvCapacity
  BY DEF S!SenderOK
<1>4. a = Acked(s)  BY <1>2, <1>3 DEF Acked
<1>5. s.stream.written = s.stream.read + Len(s.stream.buffer)
  BY DEF S!SenderOK, S!StreamIsNumbered
<1>6. /\ \/ s.next = 0 /\ s.stream.read = 0
         \/ s.next = s.stream.read + 1
         \/ s.next = s.stream.read + 2 /\ s.stream.ended
  BY DEF S!SenderOK, S!ReadWasSent, S!AtEof
<1>7. s.stream.ended \in BOOLEAN  BY <1>2 DEF S!Stream
<1>8. /\ s.stream.read <= s.stream.written /\ s.next <= s.stream.written + 2
      /\ s.next >= 1 => s.next >= s.stream.read + 1
      /\ s.next > s.stream.read + 1 => s.stream.ended
  BY <1>2, <1>5, <1>6, SMTT(30)
<1> QED  BY <1>1, <1>2, <1>3, <1>4, <1>7, <1>8

\* fill_window() under its name in SenderProofs.
LEMMA FillKeeps ==
  ASSUME NEW s, NEW a, S!SenderOK(s, a), S!TimerOK(s), S!OutIsCached(s)
  PROVE  LET t == SendFin(SendData(SendSyn(s)))
         IN  /\ S!SenderOK(t, a) /\ S!TimerOK(t) /\ S!OutIsCached(t)
             /\ S!Follows(s, t)
             /\ t.stream.written = s.stream.written /\ t.stream.ended = s.stream.ended
<1> DEFINE t == SendFin(SendData(SendSyn(s)))
<1>1. t = S!FillWindow(s)  BY SameFill DEF FillWindow
<1> HIDE DEF t
<1>2. S!SenderOK(t, a) /\ S!Grows(s, t)
  BY <1>1, InstancesAreSound, S!FillWindowIsOK
<1>3. S!TimerOK(t)  BY <1>2, InstancesAreSound, S!GrowthKeepsTimer
<1>4. s \in S!Sender  BY DEF S!SenderOK
<1>5. S!Follows(s, t)  BY <1>2, <1>4, InstancesAreSound, S!GrowsFollows
<1>6. /\ S!OutIsCached(t)
      /\ t.stream.written = s.stream.written /\ t.stream.ended = s.stream.ended
  BY <1>2 DEF S!Grows
<1> QED  BY <1>2, <1>3, <1>5, <1>6 DEF t

\* What is transmitted is at its place.
LEMMA MessagesArePlaced ==
  ASSUME NEW s, NEW a, S!SenderOK(s, a), S!OutIsCached(s)
  PROVE  SegmentsInv(s, {Message(s, seg) : seg \in ToSet(s.out)})
<1>1. /\ s \in S!Sender /\ s.isn \in Int /\ s.next \in Nat /\ s.flight \in Nat
      /\ s.flight <= RecvCapacity /\ a \in 0 .. s.next /\ s.next - s.flight = a
  BY SenderNumbers DEF Acked
<1>2. RecvCapacity \in Nat /\ RecvCapacity < Half /\ Half \in Nat
  BY TransferAssumption, ReassemblerAssumption, HalfAssumption
<1>3. ASSUME NEW seg \in ToSet(s.out)
      PROVE  LET m == Message(s, seg)
             IN  m \in [at : Nat, seg : S!Segment] /\ S!IsPlaced(s, Place(m))
  <2>1. PICK c \in s.cache : c.seg = seg
    <3>1. PICK i \in DOMAIN s.out : seg = s.out[i]  BY DEF ToSet
    <3> QED  BY <3>1 DEF S!OutIsCached
  <2>2. /\ c \in [end : Nat, seg : S!Segment] /\ seg \in S!Segment
    BY <1>1, <2>1, InstancesAreSound, S!SenderFields
  <2>3. /\ S!IsPlaced(s, c) /\ c.end > a
        /\ S!LengthInSequenceSpace(seg) <= RecvCapacity
    BY <2>1 DEF S!SenderOK
  <2> DEFINE f == S!First(c)
             len == S!LengthInSequenceSpace(seg)
  <2>4. f \in Nat /\ f < c.end /\ c.end <= s.next /\ seg.seqno = S!Wrap(f, s.isn)
    BY <2>1, <2>3 DEF S!IsPlaced
  <2>5. f = c.end - len /\ len \in Nat
    BY <2>1, <2>2, InstancesAreSound, S!LengthType DEF S!First
  <2> HIDE DEF f, len
  <2>6. c.end \in Nat /\ len <= RecvCapacity  BY <2>2, <2>3 DEF len
  <2>7. f - a >= -Half /\ f - a < Half
    BY <1>1, <1>2, <2>3, <2>4, <2>5, <2>6
  <2>8. S!Unwrap(S!Wrap(f, s.isn), s.isn, a) = f
    BY <1>1, <2>4, <2>7, InstancesAreSound, S!UnwrapRoundTrip
  <2>9. Message(s, seg) = [at |-> f, seg |-> seg]
    BY <1>1, <2>4, <2>8, SameNumbers DEF Message
  <2>10. Place([at |-> f, seg |-> seg]) = c
    <3>1. f + len = c.end  BY <2>4, <2>5, <2>6
    <3>2. c = [end |-> c.end, seg |-> seg]  BY <2>1, <2>2
    <3> QED  BY <3>1, <3>2 DEF Place, len
  <2> QED  BY <2>2, <2>3, <2>4, <2>9, <2>10
<1> QED  BY <1>3 DEF SegmentsInv

\* Segments that are on their way stay at their places.
LEMMA SegmentsFollow ==
  ASSUME NEW s \in S!Sender, NEW t \in S!Sender, S!Follows(s, t), NEW messages,
         SegmentsInv(s, messages)
  PROVE  SegmentsInv(t, messages)
<1> SUFFICES ASSUME NEW m \in messages
             PROVE  m \in [at : Nat, seg : S!Segment] /\ S!IsPlaced(t, Place(m))
  BY DEF SegmentsInv
<1>1. m \in [at : Nat, seg : S!Segment] /\ S!IsPlaced(s, Place(m))
  BY DEF SegmentsInv
<1>2. Place(m) \in [end : Nat, seg : S!Segment]
  <2>1. S!LengthInSequenceSpace(m.seg) \in Nat /\ m.at \in Nat /\ m.seg \in S!Segment
    BY <1>1, InstancesAreSound, S!LengthType
  <2> QED  BY <2>1 DEF Place
<1> QED  BY <1>1, <1>2, InstancesAreSound, S!PlacedStays

\* What the receiver has stays sent, and the end of the stream too.
LEMMA ReceiverFollows ==
  ASSUME NEW s, NEW t, SenderInv(s), SenderInv(t), S!Follows(s, t),
         NEW r, ReceiverInv(s, r),
         Acked(t) = Acked(s) \/ (r.syn_received /\ Acked(t) <= NextExpected(r))
  PROVE  ReceiverInv(t, r)
<1>1. /\ s.stream.read \in Nat /\ s.next \in Nat
      /\ t.stream.read \in Nat /\ t.next \in Nat /\ t.stream.written \in Nat
      /\ t.stream.read <= t.stream.written /\ t.next <= t.stream.written + 2
      /\ t.stream.written <= MaxBytes /\ MaxBytes \in Nat
  <2>1. S!SenderOK(s, Acked(s)) /\ S!SenderOK(t, Acked(t)) /\ t.stream.written <= MaxBytes
    BY DEF SenderInv
  <2>2. MaxBytes \in Nat  BY TransferAssumption
  <2> QED  BY <2>1, <2>2, SenderNumbers
<1>2. /\ t.isn = s.isn /\ t.next >= s.next /\ t.stream.read >= s.stream.read
      /\ s.stream.ended => t.stream.ended
  BY DEF S!Follows
<1>3. R!ReassemblerOK(r.reassembler, 0 .. t.stream.read - 1)
  <2>1. /\ 0 .. s.stream.read - 1 \subseteq 0 .. t.stream.read - 1
        /\ 0 .. t.stream.read - 1 \subseteq 0 .. MaxBytes - 1
    BY <1>1, <1>2
  <2>2. R!ReassemblerOK(r.reassembler, 0 .. s.stream.read - 1)  BY DEF ReceiverInv
  <2> QED  BY <2>1, <2>2, InstancesAreSound, R!ReassemblerOKWithMore
<1>4. r.reassembler.eof_idx # NoEof => t.stream.ended /\ t.next = MaxBytes + 2
  <2>1. r.reassembler.eof_idx # NoEof => s.stream.ended /\ s.next = MaxBytes + 2
    BY DEF ReceiverInv
  <2> QED  BY <1>1, <1>2, <2>1
<1>5. CASE r.syn_received
  <2>1. /\ r.isn = s.isn /\ s.next >= 1 /\ r.checkpoint = StreamOut(r).written
        /\ Acked(s) <= NextExpected(r)
    BY <1>5 DEF ReceiverInv
  <2>2. t.next >= 1  BY <1>1, <1>2, <2>1
  <2>3. Acked(t) <= NextExpected(r)  BY <2>1
  <2> QED  BY <1>2, <1>3, <1>4, <1>5, <2>1, <2>2, <2>3 DEF ReceiverInv
<1>6. CASE ~r.syn_received
  <2>1. r = NewReceiver /\ Acked(t) = 0  BY <1>6 DEF ReceiverInv
  <2> QED  BY <1>3, <1>4, <1>6, <2>1 DEF ReceiverInv
<1> QED  BY <1>5, <1>6

-----------------------------------------------------------------------------

\* The sender's owner transmits what a sender that follows has queued.
LEMMA TransmitKeeps ==
  ASSUME TInv, NEW s, NEW a, S!SenderOK(s, a), S!TimerOK(s), S!OutIsCached(s),
         S!Follows(snd, s), s.stream.written <= MaxBytes,
         s.stream.ended => s.stream.written = MaxBytes,
         a = Acked(snd) \/ (rcv.syn_received /\ a <= NextExpected(rcv)),
         Transmit(s), rcv' = rcv, acks' \subseteq acks, Counters'
  PROVE  TInv'
<1>1. /\ SenderInv(snd) /\ snd.out = <<>> /\ SegmentsInv(snd, segs)
      /\ ReceiverInv(snd, rcv) /\ AcksInv(snd, rcv, acks)
      /\ (~rcv.syn_received => acks = {})
  BY DEF TInv
<1> DEFINE t == [s EXCEPT !.out = <<>>]
           new == {Message(s, seg) : seg \in ToSet(s.out)}
<1>2. snd' = t /\ segs' = segs \cup new  BY DEF Transmit
<1>3. /\ S!SenderOK(t, a) /\ S!TimerOK(t) /\ S!Grows(s, t)
      /\ t.stream = s.stream /\ t.out = <<>>
  BY InstancesAreSound, S!TakenIsOK
<1>4. SegmentsInv(s, new)  BY MessagesArePlaced
<1> HIDE DEF t, new
<1>5. snd \in S!Sender /\ s \in S!Sender /\ t \in S!Sender
  BY <1>1, <1>3 DEF SenderInv, S!SenderOK
<1>6. S!Follows(s, t) /\ S!Follows(snd, t)
  <2>1. S!Follows(s, t)  BY <1>3, <1>5, InstancesAreSound, S!GrowsFollows
  <2> QED  BY <1>5, <2>1, InstancesAreSound, S!FollowsTransitive
<1>7. a = Acked(t)  BY <1>3, SenderNumbers
<1>8. SenderInv(t)  BY <1>3, <1>7 DEF SenderInv
<1>9. SegmentsInv(t, segs) /\ SegmentsInv(t, new)
  BY <1>1, <1>4, <1>5, <1>6, SegmentsFollow
<1>10. SegmentsInv(t, segs \cup new)  BY <1>9 DEF SegmentsInv
<1>11. ReceiverInv(t, rcv)  BY <1>1, <1>6, <1>7, <1>8, ReceiverFollows
<1>12. AcksInv(t, rcv, acks')
  <2>1. t.isn = snd.isn  BY <1>6 DEF S!Follows
  <2> QED  BY <1>1, <2>1 DEF AcksInv
<1>13. ~rcv.syn_received => acks' = {}  BY <1>1
<1> QED  BY <1>2, <1>3, <1>8, <1>10, <1>11, <1>12, <1>13 DEF TInv

\* ... after fill_window().
LEMMA FillAndTransmitKeeps ==
  ASSUME TInv, NEW s, NEW a, S!SenderOK(s, a), S!TimerOK(s), S!OutIsCached(s),
         S!Follows(snd, s), s.stream.written <= MaxBytes,
         s.stream.ended => s.stream.written = MaxBytes,
         a = Acked(snd) \/ (rcv.syn_received /\ a <= NextExpected(rcv)),
         FillAndTransmit(s), rcv' = rcv, acks' \subseteq acks, Counters'
  PROVE  TInv'
<1> DEFINE t == SendFin(SendData(SendSyn(s)))
<1>1. Transmit(t)  BY DEF FillAndTransmit
<1>2. /\ S!SenderOK(t, a) /\ S!TimerOK(t) /\ S!OutIsCached(t) /\ S!Follows(s, t)
      /\ t.stream.written = s.stream.written /\ t.stream.ended = s.stream.ended
  BY FillKeeps
<1> HIDE DEF t
<1>3. snd \in S!Sender /\ s \in S!Sender /\ t \in S!Sender
  BY <1>2 DEF TInv, SenderInv, S!SenderOK
<1>4. S!Follows(snd, t)  BY <1>2, <1>3, InstancesAreSound, S!FollowsTransitive
<1>5. /\ t.stream.written <= MaxBytes
      /\ t.stream.ended => t.stream.written = MaxBytes
  BY <1>2
<1> QED  BY <1>1, <1>2, <1>4, <1>5, TransmitKeeps

\* The numbers of a receiver: it expects nothing beyond what was sent.
LEMMA ReceiverNumbers ==
  ASSUME NEW s, SenderInv(s), NEW r, ReceiverInv(s, r)
  PROVE  LET out == StreamOut(r)
         IN  /\ out.read \in Nat /\ out.written \in Nat /\ out.ended \in BOOLEAN
             /\ r.reassembler.assemble_idx = out.written
             /\ out.read <= out.written /\ out.written <= s.stream.read
             /\ out.buffer = R!Excerpt(out.read, out.written)
             /\ out.ended =>
                  s.stream.ended /\ out.written = MaxBytes /\ s.next = MaxBytes + 2
             /\ NextExpected(r) = out.written + 1 + Flag(out.ended)
             /\ Flag(out.ended) \in {0, 1} /\ NextExpected(r) \in Nat
             /\ WindowSize(r) = RecvCapacity - (out.written - out.read)
             /\ WindowSize(r) \in 0 .. RecvCapacity
             /\ r.syn_received => NextExpected(r) \in 1 .. s.next
<1> DEFINE out == StreamOut(r)
           x == r.reassembler
<1>1. /\ s.stream.read \in Nat /\ s.next \in Nat
      /\ s.next >= 1 => s.next >= s.stream.read + 1
  BY SenderNumbers DEF SenderInv
<1>2. /\ R!ReassemblerOK(x, 0 .. s.stream.read - 1)
      /\ x.eof_idx # NoEof => s.stream.ended /\ s.next = MaxBytes + 2
      /\ r.syn_received => s.next >= 1
  BY DEF ReceiverInv
<1>3. R!Consistent(x, 0 .. s.stream.read - 1)  BY <1>2 DEF R!ReassemblerOK
<1>4. R!StreamOK(out, x.assemble_idx, 0 .. s.stream.read - 1)
  BY <1>3 DEF R!Consistent, StreamOut
<1>5. /\ out.ended => x.assemble_idx = MaxBytes /\ x.eof_idx = MaxBytes
  BY <1>3 DEF R!Consistent, StreamOut
<1>6. /\ MaxBytes \in Nat /\ RecvCapacity \in Nat
  BY TransferAssumption, ReassemblerAssumption
<1> HIDE DEF out, x
<1>7. /\ x.assemble_idx \in Nat
      /\ out.read \in Nat /\ out.written \in Nat /\ out.ended \in BOOLEAN
      /\ Len(out.buffer) = x.assemble_idx - out.read
  BY <1>4, InstancesAreSound, R!StreamFacts
<1>8. /\ out.written = x.assemble_idx /\ out.read <= x.assemble_idx
      /\ x.assemble_idx - out.read <= RecvCapacity
      /\ out.buffer = R!Excerpt(out.read, x.assemble_idx)
      /\ 0 .. x.assemble_idx - 1 \subseteq 0 .. s.stream.read - 1
  BY <1>4 DEF R!StreamOK
<1>9. out.written <= s.stream.read
  <2>1. CASE x.assemble_idx = 0  BY <1>1, <1>8, <2>1
  <2>2. CASE x.assemble_idx # 0
    <3>1. x.assemble_idx - 1 \in 0 .. x.assemble_idx - 1  BY <1>7, <2>2
    <3>2. x.assemble_idx - 1 \in 0 .. s.stream.read - 1  BY <1>8, <3>1
    <3> QED  BY <1>1, <1>7, <1>8, <3>2
  <2> QED  BY <2>1, <2>2
<1>10. out.ended => /\ s.stream.ended /\ out.written = MaxBytes
                    /\ s.next = MaxBytes + 2
  <2>1. NoEof # MaxBytes  BY <1>6 DEF NoEof
  <2> QED  BY <1>2, <1>5, <1>8, <2>1
<1>11. /\ NextExpected(r) = out.written + 1 + Flag(out.ended)
       /\ WindowSize(r) = RecvCapacity - Len(out.buffer)
  BY DEF NextExpected, WindowSize, RemainingCapacity, out
<1>12. Flag(out.ended) = IF out.ended THEN 1 ELSE 0  BY DEF Flag
<1>13. /\ WindowSize(r) = RecvCapacity - (out.written - out.read)
       /\ WindowSize(r) \in 0 .. RecvCapacity
  <2>1. Len(out.buffer) = out.written - out.read  BY <1>7, <1>8
  <2>2. WindowSize(r) = RecvCapacity - (out.written - out.read)  BY <1>11, <2>1
  <2>3. out.written - out.read \in 0 .. RecvCapacity  BY <1>6, <1>7, <1>8
  <2>4. RecvCapacity - (out.written - out.read) \in 0 .. RecvCapacity
    BY <1>6, <2>3
  <2> QED  BY <2>2, <2>4
<1>14. r.syn_received => NextExpected(r) \in 1 .. s.next
  <2> SUFFICES ASSUME r.syn_received PROVE NextExpected(r) \in 1 .. s.next
    OBVIOUS
  <2>1. CASE out.ended
    <3>1. NextExpected(r) = MaxBytes + 2  BY <1>6, <1>10, <1>11, <1>12, <2>1
    <3>2. s.next = MaxBytes + 2  BY <1>10, <2>1
    <3> QED  BY <1>6, <3>1, <3>2
  <2>2. CASE ~out.ended
    BY <1>1, <1>2, <1>7, <1>9, <1>11, <1>12, <2>2
  <2> QED  BY <2>1, <2>2
<1>15. Flag(out.ended) \in {0, 1} /\ NextExpected(r) \in Nat
  BY <1>7, <1>11, <1>12
<1> QED
  BY <1>7, <1>8, <1>9, <1>10, <1>11, <1>13, <1>14, <1>15 DEF out, x

\* The invariant holds at first.
LEMMA InitHolds == Init => TInv
<1> SUFFICES ASSUME Init PROVE TInv  OBVIOUS
<1>1. PICK isn \in Isns : snd = NewSender(isn)  BY DEF Init
<1>2. isn \in S!Raw /\ snd = S!NewSender(isn)
  BY <1>1, TransferAssumption, SameNumbers, SameOwner
<1>3. S!SenderOK(snd, 0) /\ S!TimerOK(snd)
  BY <1>2, InstancesAreSound, S!NewIsOK
<1>4. Acked(snd) = 0  BY <1>3, SenderNumbers
<1>5. /\ snd.out = <<>> /\ snd.stream.written = 0 /\ snd.stream.read = 0
      /\ ~snd.stream.ended
  BY <1>1 DEF NewSender, EmptyStream
<1>6. {MaxBytes, MaxLost, MaxRepeated, MaxEarly} \subseteq Nat  BY TransferAssumption
<1>7. SenderInv(snd)  BY <1>3, <1>4, <1>5, <1>6 DEF SenderInv
<1>8. rcv = NewReceiver /\ rcv.reassembler = NewReassembler /\ ~rcv.syn_received
  BY DEF Init, NewReceiver
<1>9. ReceiverInv(snd, rcv)
  <2>1. R!ReassemblerOK(NewReassembler, {})
    BY InstancesAreSound, R!InitHolds, SameNew
  <2>2. 0 .. snd.stream.read - 1 = {}  BY <1>5
  <2>3. R!ReassemblerOK(rcv.reassembler, 0 .. snd.stream.read - 1)
    BY <1>8, <2>1, <2>2
  <2>4. NewReassembler \in R!Reassembler
    BY <2>1 DEF R!ReassemblerOK, R!Consistent
  <2>5. rcv \in [syn_received : BOOLEAN, isn : Nat, checkpoint : Nat,
                 reassembler : R!Reassembler]
    BY <1>8, <2>4 DEF NewReceiver
  <2>6. rcv.reassembler.eof_idx = NoEof  BY <1>8 DEF NewReassembler
  <2> QED  BY <1>4, <1>8, <2>3, <2>5, <2>6 DEF ReceiverInv
<1>10. SegmentsInv(snd, segs) /\ AcksInv(snd, rcv, acks) /\ acks = {}
  BY DEF Init, SegmentsInv, AcksInv
<1>11. Counters  BY <1>6 DEF Init, Counters
<1> QED  BY <1>5, <1>7, <1>9, <1>10, <1>11 DEF TInv

\* The steps of the sender's owner: it connects,
LEMMA ConnectKeeps == TInv /\ Connect => TInv'
<1> SUFFICES ASSUME TInv, Connect PROVE TInv'  OBVIOUS
<1>1. /\ FillAndTransmit(snd) /\ rcv' = rcv /\ acks' \subseteq acks /\ Counters'
  BY DEF Connect, network, TInv, Counters
<1>2. /\ S!SenderOK(snd, Acked(snd)) /\ S!TimerOK(snd) /\ snd.out = <<>>
      /\ snd.stream.written <= MaxBytes
      /\ snd.stream.ended => snd.stream.written = MaxBytes
  BY DEF TInv, SenderInv
<1>3. S!OutIsCached(snd)  BY <1>2 DEF S!OutIsCached
<1>4. S!Follows(snd, snd)  BY <1>2, SenderNumbers DEF S!Follows
<1> QED  BY <1>1, <1>2, <1>3, <1>4, FillAndTransmitKeeps

\* writes,
LEMMA WriteKeeps ==
  ASSUME TInv, NEW n \in 1 .. SendCapacity, Write(n)
  PROVE  TInv'
<1> DEFINE s == SenderWrite(snd, Bytes(n))
<1>1. /\ FillAndTransmit(s) /\ rcv' = rcv /\ acks' \subseteq acks /\ Counters'
      /\ snd.stream.written + n <= MaxBytes /\ ~snd.stream.ended
  BY DEF Write, network, TInv, Counters
<1>2. /\ S!SenderOK(snd, Acked(snd)) /\ S!TimerOK(snd) /\ snd.out = <<>>
  BY DEF TInv, SenderInv
<1>3. n \in Nat /\ MaxBytes \in Nat  BY TransferAssumption, SenderAssumption
<1>4. s = S!SenderWrite(snd, Bytes(n))  BY SameOwner
<1> DEFINE data == Bytes(n)
<1>5. data = [i \in 1 .. n |-> snd.stream.written + i - 1]  BY DEF Bytes
<1> HIDE DEF s, data
<1>6. s = S!SenderWrite(snd, data)  BY <1>4 DEF data
<1>7. /\ S!SenderOK(s, Acked(snd)) /\ S!TimerOK(s) /\ S!Follows(snd, s)
      /\ s.out = snd.out /\ s.stream.written <= snd.stream.written + n
      /\ ~s.stream.ended
  BY <1>1, <1>2, <1>3, <1>5, <1>6, InstancesAreSound, S!WriteIsOK
<1>8. s.stream.written <= MaxBytes
  <2>1. s.stream.written \in Nat /\ snd.stream.written \in Nat
    BY <1>2, <1>7, SenderNumbers
  <2> QED  BY <1>1, <1>3, <1>7, <2>1
<1>9. S!OutIsCached(s)  BY <1>2, <1>7 DEF S!OutIsCached
<1> QED  BY <1>1, <1>7, <1>8, <1>9, FillAndTransmitKeeps

\* and ends the input;
LEMMA EndInputKeeps == TInv /\ EndInput => TInv'
<1> SUFFICES ASSUME TInv, EndInput PROVE TInv'  OBVIOUS
<1> DEFINE s == SenderEndInput(snd)
<1>1. /\ FillAndTransmit(s) /\ rcv' = rcv /\ acks' \subseteq acks /\ Counters'
      /\ snd.stream.written = MaxBytes
  BY DEF EndInput, network, TInv, Counters
<1>2. /\ S!SenderOK(snd, Acked(snd)) /\ S!TimerOK(snd) /\ snd.out = <<>>
  BY DEF TInv, SenderInv
<1>3. s = S!SenderEndInput(snd)  BY SameOwner
<1> HIDE DEF s
<1>4. /\ S!SenderOK(s, Acked(snd)) /\ S!TimerOK(s) /\ S!Follows(snd, s)
      /\ s.out = snd.out /\ s.stream.written = snd.stream.written
  BY <1>2, <1>3, InstancesAreSound, S!EndInputIsOK
<1>5. MaxBytes <= MaxBytes  BY TransferAssumption
<1>6. S!OutIsCached(s)  BY <1>2, <1>4 DEF S!OutIsCached
<1> QED  BY <1>1, <1>4, <1>5, <1>6, FillAndTransmitKeeps

\* the clock ticks.
LEMMA TickKeeps == TInv /\ Tick => TInv'
<1> SUFFICES ASSUME TInv, Tick PROVE TInv'  OBVIOUS
<1> DEFINE s == SenderTick(snd, 1)
<1>1. /\ Transmit(s) /\ rcv' = rcv /\ acks' \subseteq acks /\ snd.retx <= MaxRetx
  BY DEF Tick
<1>2. Counters'
  <2>1. /\ lost' = lost /\ repeated' = repeated
        /\ early' = early \/ (early < MaxEarly /\ early' = early + 1)
    BY DEF Tick
  <2>2. Counters /\ MaxEarly \in Nat  BY TransferAssumption DEF TInv
  <2> QED  BY <2>1, <2>2 DEF Counters
<1>3. /\ S!SenderOK(snd, Acked(snd)) /\ S!TimerOK(snd) /\ snd.out = <<>>
      /\ snd.stream.written <= MaxBytes
      /\ snd.stream.ended => snd.stream.written = MaxBytes
  BY DEF TInv, SenderInv
<1>4. s = S!SenderTick(snd, 1)  BY SameTick
<1> HIDE DEF s
<1>5. S!OutIsCached(snd)  BY <1>3 DEF S!OutIsCached
<1>6. /\ S!SenderOK(s, Acked(snd)) /\ S!TimerOK(s) /\ s.next = snd.next
      /\ s.isn = snd.isn /\ s.stream = snd.stream /\ S!OutIsCached(s)
  BY <1>1, <1>3, <1>4, <1>5, InstancesAreSound, S!TickIsOK
<1>7. S!Follows(snd, s)  BY <1>3, <1>6, SenderNumbers DEF S!Follows
<1> QED  BY <1>1, <1>2, <1>3, <1>6, <1>7, TransmitKeeps

\* A repetition or a loss counts.
LEMMA RepeatCounts ==
  ASSUME Counters, UNCHANGED <<lost, early>>, repeated' = repeated \/ Repeat
  PROVE  Counters'
<1>1. MaxRepeated \in Nat  BY TransferAssumption
<1> QED  BY <1>1 DEF Counters, Repeat

\* An acknowledgment is delivered: it means the number it was made of, which
\* was sent and received.
LEMMA DeliverAckKeeps ==
  ASSUME TInv, NEW m \in acks, DeliverAck(m)
  PROVE  TInv'
<1> DEFINE s == AckReceived(snd, m.ackno, m.win)
           b == IF snd.cache \subseteq s.cache THEN Acked(snd) ELSE m.at
<1>1. /\ FillAndTransmit(s) /\ rcv' = rcv /\ ~AckIsOld(m) /\ acks' \subseteq acks
      /\ UNCHANGED <<lost, early>> /\ (repeated' = repeated \/ Repeat)
  BY DEF DeliverAck
<1>2. Counters'  BY <1>1, RepeatCounts DEF TInv
<1>3. /\ S!SenderOK(snd, Acked(snd)) /\ S!TimerOK(snd) /\ snd.out = <<>>
      /\ snd.stream.written <= MaxBytes
      /\ snd.stream.ended => snd.stream.written = MaxBytes
      /\ SenderInv(snd) /\ ReceiverInv(snd, rcv) /\ rcv.syn_received
      /\ m.at \in 1 .. NextExpected(rcv) /\ m.ackno = Wrap(m.at, snd.isn)
      /\ m.win \in 0 .. RecvCapacity
  BY DEF TInv, SenderInv, AcksInv
<1>4. /\ snd.next \in Nat /\ NextExpected(rcv) \in Nat
      /\ NextExpected(rcv) <= snd.next
  <2>1. snd.next \in Nat  BY <1>3, SenderNumbers
  <2>2. NextExpected(rcv) \in 1 .. snd.next /\ NextExpected(rcv) \in Nat
    BY <1>3, ReceiverNumbers
  <2> QED  BY <2>1, <2>2
<1>5. /\ m.at \in Nat /\ m.at <= snd.next /\ m.at <= NextExpected(rcv)
      /\ m.at > snd.next - Half
  <2>1. ~(m.at <= snd.next - Half)  BY <1>1 DEF AckIsOld
  <2>2. Half \in Nat  BY HalfAssumption
  <2> QED  BY <1>3, <1>4, <2>1, <2>2
<1>6. s = S!AckReceived(snd, S!Wrap(m.at, snd.isn), m.win)
  BY <1>3, SameAck, SameNumbers
<1> HIDE DEF s
<1>7. /\ S!SenderOK(s, b) /\ S!TimerOK(s) /\ S!Follows(snd, s)
      /\ s.stream.written = snd.stream.written
      /\ s.stream.ended = snd.stream.ended /\ S!OutIsCached(s)
  BY <1>3, <1>5, <1>6, InstancesAreSound, S!AckIsOK
<1>8. b = Acked(snd) \/ (rcv.syn_received /\ b <= NextExpected(rcv))
  BY <1>3, <1>5
<1> HIDE DEF b
<1>9. /\ s.stream.written <= MaxBytes
      /\ s.stream.ended => s.stream.written = MaxBytes
  BY <1>3, <1>7
<1> QED  BY <1>1, <1>2, <1>7, <1>8, <1>9, FillAndTransmitKeeps

-----------------------------------------------------------------------------

\* The index that the receiver computes for a segment at its place.
IndexOf(m) == IF m.seg.syn THEN m.at ELSE m.at - 1

\* A segment at its place: its payload is the excerpt of the stream at its
\* index, and its FIN the end of the stream.
LEMMA PlaceFacts ==
  ASSUME NEW s, SenderInv(s), NEW m \in [at : Nat, seg : S!Segment],
         S!IsPlaced(s, Place(m))
  PROVE  LET i == IndexOf(m)
             next == i + Len(m.seg.payload)
         IN  /\ m.at < s.next /\ m.seg.seqno = Wrap(m.at, s.isn)
             /\ m.seg.syn = (m.at = 0)
             /\ i \in Nat /\ next \in Nat /\ i <= next /\ next <= s.stream.read
             /\ m.seg.payload = R!Excerpt(i, next)
             /\ m.seg.fin => /\ next = MaxBytes /\ s.stream.ended
                             /\ s.next = MaxBytes + 2
             /\ m.seg.fin \in BOOLEAN
<1> DEFINE seg == m.seg
           len == S!LengthInSequenceSpace(seg)
           size == Len(seg.payload)
           i == IndexOf(m)
<1>1. /\ S!SenderOK(s, Acked(s)) /\ s.stream.written <= MaxBytes
      /\ s.stream.ended => s.stream.written = MaxBytes
  BY DEF SenderInv
<1>2. /\ s.next \in Nat /\ s.stream.read \in Nat /\ s.stream.written \in Nat
      /\ s.next <= s.stream.written + 2
  BY <1>1, SenderNumbers
<1>3. m.at \in Nat /\ seg \in S!Segment  OBVIOUS
<1>4. /\ len \in Nat /\ len = size + S!Flag(seg.syn) + S!Flag(seg.fin)
      /\ size \in Nat /\ seg.payload \in Seq(Nat) /\ seg.fin \in BOOLEAN
      /\ seg.syn \in BOOLEAN
  BY <1>3, InstancesAreSound, S!LengthType DEF S!Segment
<1>5. S!First(Place(m)) = m.at /\ Place(m).end = m.at + len /\ Place(m).seg = seg
  <2>1. Place(m).end = m.at + len /\ Place(m).seg = seg  BY DEF Place
  <2>2. S!First(Place(m)) = (m.at + len) - len
    <3>1. S!First(Place(m))
            = Place(m).end - S!LengthInSequenceSpace(Place(m).seg)
      BY DEF S!First
    <3> HIDE DEF seg
    <3> QED  BY <2>1, <3>1
  <2> HIDE DEF len
  <2> QED  BY <1>3, <1>4, <2>1, <2>2
<1>6. /\ m.at < m.at + len /\ m.at + len <= s.next
      /\ seg.seqno = S!Wrap(m.at, s.isn) /\ seg.syn = (m.at = 0)
      /\ seg.fin => m.at + len = s.stream.written + 2 /\ s.stream.ended
      /\ m.at + len <= s.stream.read + 1 + S!Flag(seg.fin)
      /\ \A k \in 1 .. size : seg.payload[k] = m.at + k - 2
  BY <1>5, Zenon DEF S!IsPlaced
<1>7. /\ S!Flag(seg.syn) = IF seg.syn THEN 1 ELSE 0
      /\ S!Flag(seg.fin) = IF seg.fin THEN 1 ELSE 0
  BY DEF S!Flag
<1>8. i = IF seg.syn THEN m.at ELSE m.at - 1  BY DEF IndexOf
<1> HIDE DEF len, size, i, seg
<1>9. (seg.syn => m.at = 0) /\ (~seg.syn => m.at # 0)  BY <1>4, <1>6, Zenon
<1>10. /\ seg.syn => S!Flag(seg.syn) = 1 /\ i = 0
       /\ ~seg.syn => S!Flag(seg.syn) = 0 /\ i = m.at - 1
       /\ seg.fin => S!Flag(seg.fin) = 1
       /\ ~seg.fin => S!Flag(seg.fin) = 0
  BY <1>7, <1>8, <1>9, Zenon
<1>11. m.at < s.next  BY <1>2, <1>3, <1>4, <1>6
<1>12. seg.syn => size = 0
  <2> SUFFICES ASSUME seg.syn, size # 0 PROVE FALSE  OBVIOUS
  <2>1. 1 \in 1 .. size  BY <1>4
  <2>2. seg.payload[1] = m.at + 1 - 2 /\ m.at = 0  BY <1>6, <2>1
  <2>3. seg.payload[1] \in Nat  BY <1>4, <2>1, ElementOfSeq DEF size
  <2> QED  BY <2>2, <2>3
<1>13. i \in Nat /\ i + size \in Nat /\ i <= i + size
  <2>1. i \in Nat
    <3>1. CASE seg.syn  BY <1>10, <3>1
    <3>2. CASE ~seg.syn  BY <1>3, <1>9, <1>10, <3>2
    <3> QED  BY <3>1, <3>2
  <2> QED  BY <1>4, <2>1
<1>14. i + size <= s.stream.read
  <2>1. CASE seg.syn  BY <1>2, <1>12, <1>10, <2>1
  <2>2. CASE ~seg.syn
    <3>1. len = size + S!Flag(seg.fin)  BY <1>4, <1>7, <1>10, <2>2
    <3>2. m.at + size <= s.stream.read + 1
      <4>1. CASE seg.fin
        <5>1. len = size + 1 /\ m.at + len <= s.stream.read + 1 + 1
          BY <1>6, <1>10, <3>1, <4>1
        <5> QED  BY <1>2, <1>3, <1>4, <5>1, SMTT(30)
      <4>2. CASE ~seg.fin
        <5>1. len = size + 0 /\ m.at + len <= s.stream.read + 1 + 0
          BY <1>6, <1>10, <3>1, <4>2
        <5> QED  BY <1>2, <1>3, <1>4, <5>1, SMTT(30)
      <4> QED  BY <4>1, <4>2
    <3>3. i = m.at - 1  BY <1>10, <2>2
    <3>4. /\ m.at \in Nat /\ size \in Nat /\ s.stream.read \in Nat
          /\ m.at + size <= s.stream.read + 1
      BY <1>2, <1>3, <1>4, <3>2
    <3> QED  BY <3>3, <3>4
  <2> QED  BY <2>1, <2>2
<1>15. seg.fin => i + size = MaxBytes /\ s.stream.ended /\ s.next = MaxBytes + 2
  <2> SUFFICES ASSUME seg.fin
               PROVE  i + size = MaxBytes /\ s.stream.ended /\ s.next = MaxBytes + 2
    OBVIOUS
  <2>1. m.at + len = s.stream.written + 2 /\ s.stream.ended  BY <1>6
  <2>2. s.stream.written = MaxBytes  BY <1>1, <2>1
  <2>3. s.next = MaxBytes + 2
    <3>1. m.at + len <= s.next /\ m.at + len = MaxBytes + 2  BY <1>6, <2>1, <2>2
    <3>2. s.next <= MaxBytes + 2 /\ MaxBytes \in Nat /\ s.next \in Nat
      BY <1>2, <2>2
    <3> QED  BY <3>1, <3>2
  <2>4. m.at + len = MaxBytes + 2 /\ len = size + S!Flag(seg.syn) + 1
    BY <1>4, <1>10, <2>1, <2>2
  <2>5. CASE seg.syn
    <3>1. 0 + (size + 1 + 1) = MaxBytes + 2 /\ i = 0  BY <1>9, <1>10, <2>4, <2>5
    <3>2. i + size = MaxBytes  BY <1>2, <1>4, <2>2, <3>1
    <3> QED  BY <2>1, <2>3, <3>2
  <2>6. CASE ~seg.syn
    <3>1. m.at + (size + 0 + 1) = MaxBytes + 2 /\ i = m.at - 1
      BY <1>10, <2>4, <2>6
    <3>2. i + size = MaxBytes  BY <1>2, <1>3, <1>4, <2>2, <3>1
    <3> QED  BY <2>1, <2>3, <3>2
  <2> QED  BY <2>5, <2>6
<1>16. seg.payload = R!Excerpt(i, i + size)
  <2> DEFINE e == R!Excerpt(i, i + size)
  <2>1. /\ e \in Seq(Nat) /\ Len(e) = (i + size) - i
        /\ \A k \in 1 .. (i + size) - i : e[k] = i + k - 1
    BY <1>13, InstancesAreSound, R!ExcerptFacts
  <2> HIDE DEF e
  <2>2. (i + size) - i = size  BY <1>4, <1>13
  <2>3. ASSUME NEW k \in 1 .. size PROVE seg.payload[k] = e[k]
    <3>1. ~seg.syn  BY <1>12
    <3>2. seg.payload[k] = m.at + k - 2 /\ e[k] = i + k - 1  BY <1>6, <2>1, <2>2
    <3>3. i = m.at - 1  BY <1>10, <3>1
    <3> QED  BY <1>3, <1>4, <3>2, <3>3
  <2>4. Len(seg.payload) = Len(e)  BY <2>1, <2>2 DEF size
  <2>5. seg.payload = e  BY <1>4, <2>1, <2>3, <2>4, SeqEqual DEF size
  <2> QED  BY <2>5 DEF e
<1>17. seg.seqno = Wrap(m.at, s.isn)  BY <1>6, SameNumbers
<1> QED
  BY <1>4, <1>6, <1>11, <1>13, <1>14, <1>15, <1>16, <1>17 DEF i, size, seg

\* A push and a read under their names in TCPReceiver, and what they keep.
IsPush(q, r, first, next, eof) ==
  q = PushSubstring(r, R!Excerpt(first, next), first, eof)
IsRead(q, r, len) == q = [r EXCEPT !.output = StreamPop(@, len)]
PushKept(q, r, P, eof) ==
  /\ R!ReassemblerOK(q, P) /\ R!Advances(r, q)
  /\ q.eof_idx = IF eof THEN MaxBytes ELSE r.eof_idx
ReadKept(q, r, P) ==
  /\ R!ReassemblerOK(q, P)
  /\ q.eof_idx = r.eof_idx /\ q.output.read >= r.output.read
  /\ q.output.written = r.output.written /\ q.output.ended = r.output.ended

LEMMA PushKeepsOK ==
  ASSUME NEW P, NEW r, R!ReassemblerOK(r, P), NEW first \in Nat, NEW next \in Nat,
         first <= next, next <= MaxBytes, NEW eof \in BOOLEAN, eof => next = MaxBytes,
         NEW q, IsPush(q, r, first, next, eof)
  PROVE  PushKept(q, r, P \cup first .. next - 1, eof)
<1>1. R!IsPush(q, r, first, next, eof)  BY SamePush DEF R!IsPush, IsPush
<1>2. /\ R!ReassemblerOK(q, P \cup first .. next - 1) /\ R!Advances(r, q)
      /\ q.eof_idx = IF eof THEN MaxBytes ELSE r.eof_idx
  BY <1>1, InstancesAreSound, R!PushKeeps
<1> QED  BY <1>2 DEF PushKept

LEMMA ReadKeepsOK ==
  ASSUME NEW P, NEW r, R!ReassemblerOK(r, P), NEW len \in Nat,
         NEW q, IsRead(q, r, len)
  PROVE  ReadKept(q, r, P)
<1>1. R!IsRead(q, r, len)  BY SameRead DEF R!IsRead, IsRead
<1>2. /\ R!ReassemblerOK(q, P)
      /\ q.eof_idx = r.eof_idx /\ q.output.read >= r.output.read
      /\ q.output.written = r.output.written /\ q.output.ended = r.output.ended
  BY <1>1, InstancesAreSound, R!ReadKeeps
<1> QED  BY <1>2 DEF ReadKept

\* A receiver that has heard a SYN of s.
LEMMA SynchroniseKeeps ==
  ASSUME NEW s, SenderInv(s), NEW r, ReceiverInv(s, r),
         NEW m \in [at : Nat, seg : S!Segment], S!IsPlaced(s, Place(m)),
         r.syn_received \/ m.seg.syn,
         NEW q, q = Synchronise(r, m.seg)
  PROVE  /\ ReceiverInv(s, q) /\ q.syn_received
         /\ q.reassembler = r.reassembler
<1>1. CASE r.syn_received  BY <1>1 DEF Synchronise
<1>2. CASE ~r.syn_received
  <2>1. /\ m.at < s.next /\ m.seg.seqno = Wrap(m.at, s.isn) /\ m.at = 0
    <3>1. /\ m.at < s.next /\ m.seg.seqno = Wrap(m.at, s.isn)
          /\ m.seg.syn = (m.at = 0)
      BY PlaceFacts
    <3> QED  BY <1>2, <3>1
  <2>2. /\ s.isn \in Raw /\ s.isn \in Int /\ s.next \in Nat  BY SenderNumbers DEF SenderInv
  <2>3. s.isn \in Nat /\ Wrap(0, s.isn) = s.isn
    <3>1. Modulus \in Nat \ {0}  BY HalfAssumption DEF Modulus
    <3>2. s.isn \in 0 .. Modulus - 1  BY <2>2 DEF Raw
    <3>3. (0 + s.isn) % Modulus = s.isn  BY <3>1, <3>2
    <3> QED  BY <3>2, <3>3 DEF Wrap
  <2>4. r = NewReceiver /\ Acked(s) = 0  BY <1>2 DEF ReceiverInv
  <2>5. q = [r EXCEPT !.syn_received = TRUE, !.isn = m.seg.seqno]
    BY <1>2 DEF Synchronise
  <2>6. /\ q.syn_received /\ q.isn = s.isn /\ q.checkpoint = 0
        /\ q.reassembler = r.reassembler
        /\ q \in [syn_received : BOOLEAN, isn : Nat, checkpoint : Nat,
                  reassembler : R!Reassembler]
    <3>1. r \in [syn_received : BOOLEAN, isn : Nat, checkpoint : Nat,
                 reassembler : R!Reassembler]
      BY DEF ReceiverInv
    <3>2. r.checkpoint = 0  BY <2>4 DEF NewReceiver
    <3> QED  BY <2>1, <2>3, <2>5, <3>1, <3>2
  <2>7. StreamOut(q).written = 0 /\ ~StreamOut(q).ended
    <3>1. q.reassembler = NewReassembler  BY <2>4, <2>6 DEF NewReceiver
    <3> QED  BY <3>1 DEF StreamOut, NewReassembler, EmptyStream
  <2>8. s.next >= 1  BY <2>1, <2>2
  <2>9. Acked(s) <= NextExpected(q)  BY <2>4, <2>7 DEF NextExpected, Flag
  <2>10. /\ R!ReassemblerOK(q.reassembler, 0 .. s.stream.read - 1)
         /\ q.reassembler.eof_idx # NoEof => s.stream.ended /\ s.next = MaxBytes + 2
    BY <2>6 DEF ReceiverInv
  <2> QED  BY <2>6, <2>7, <2>8, <2>9, <2>10 DEF ReceiverInv
<1> QED  BY <1>1, <1>2

\* The output moves on from r to q.
Moves(r, q) ==
  /\ r.syn_received => q.syn_received
  /\ StreamOut(q).read >= StreamOut(r).read
  /\ StreamOut(q).written >= StreamOut(r).written
  /\ StreamOut(r).ended => StreamOut(q).ended

\* x is the reassembler of r after a segment is pushed, and q is r with x.
IsPushed(x, r, seg) ==
  LET first == Unwrap(seg.seqno, r.isn, r.checkpoint)
  IN  x = PushSubstring(r.reassembler, seg.payload,
                        IF seg.syn THEN first ELSE first - 1, seg.fin)
Holds(q, r, x) == q = [r EXCEPT !.reassembler = x, !.checkpoint = x.output.written]

\* A segment at its place arrives at a receiver that has heard the SYN: the
\* receiver finds that place again, and pushes the bytes that belong there.
LEMMA PlacedIsPushed ==
  ASSUME NEW s, SenderInv(s), NEW r, ReceiverInv(s, r), r.syn_received,
         ~StreamOut(r).ended,
         NEW m \in [at : Nat, seg : S!Segment], S!IsPlaced(s, Place(m)),
         m.at >= StreamOut(r).written - Half,
         NEW x, IsPushed(x, r, m.seg), NEW q, Holds(q, r, x)
  PROVE  ReceiverInv(s, q) /\ Moves(r, q)
<1> DEFINE i == IndexOf(m)
           next == i + Len(m.seg.payload)
           P == 0 .. s.stream.read - 1
           written == StreamOut(r).written
<1>1. /\ m.at < s.next /\ m.seg.seqno = Wrap(m.at, s.isn)
      /\ i \in Nat /\ next \in Nat /\ i <= next /\ next <= s.stream.read
      /\ m.seg.payload = R!Excerpt(i, next) /\ m.seg.fin \in BOOLEAN
      /\ m.seg.fin => /\ next = MaxBytes /\ s.stream.ended
                      /\ s.next = MaxBytes + 2
  BY PlaceFacts
<1>2. /\ s.isn \in Int /\ s.isn \in Nat /\ s.next \in Nat /\ s.flight \in Nat
      /\ s.flight <= RecvCapacity
      /\ s.stream.read \in Nat /\ s.stream.read <= MaxBytes
  <2>1. /\ s.isn \in Raw /\ s.isn \in Int /\ s.next \in Nat /\ s.flight \in Nat
        /\ s.flight <= RecvCapacity /\ s.stream.read \in Nat
        /\ s.stream.written \in Nat /\ s.stream.read <= s.stream.written
        /\ s.stream.written <= MaxBytes
    BY SenderNumbers DEF SenderInv
  <2>2. MaxBytes \in Nat /\ Modulus \in Nat
    BY TransferAssumption, HalfAssumption DEF Modulus
  <2>3. s.isn \in Nat  BY <2>1, <2>2 DEF Raw
  <2>4. s.stream.read <= MaxBytes  BY <2>1, <2>2
  <2> QED  BY <2>1, <2>3, <2>4
<1>3. /\ r.isn = s.isn /\ r.checkpoint = written /\ Acked(s) <= NextExpected(r)
      /\ s.next >= 1 /\ R!ReassemblerOK(r.reassembler, P)
      /\ r.reassembler.eof_idx # NoEof => s.stream.ended /\ s.next = MaxBytes + 2
      /\ r \in [syn_received : BOOLEAN, isn : Nat, checkpoint : Nat,
                reassembler : R!Reassembler]
  BY DEF ReceiverInv
<1>4. written \in Nat /\ NextExpected(r) = written + 1
  <2>1. written \in Nat /\ NextExpected(r) = written + 1 + Flag(StreamOut(r).ended)
    BY ReceiverNumbers
  <2>2. Flag(StreamOut(r).ended) = 0  BY DEF Flag
  <2> QED  BY <2>1, <2>2
<1>5. RecvCapacity \in Nat /\ Half \in Nat /\ RecvCapacity < Half /\ MaxBytes \in Nat
  BY TransferAssumption, ReassemblerAssumption, HalfAssumption
<1> HIDE DEF i, next, written
<1>6. Unwrap(m.seg.seqno, r.isn, r.checkpoint) = m.at
  <2>1. Acked(s) = s.next - s.flight  BY DEF Acked
  <2>2. s.next <= written + 1 + RecvCapacity  BY <1>2, <1>3, <1>4, <1>5, <2>1
  <2>3. m.at \in Nat  OBVIOUS
  <2>4. m.at - written < Half  BY <1>1, <1>2, <1>4, <1>5, <2>2, <2>3
  <2>5. m.at - written >= -Half
    <3>1. m.at >= written - Half  BY DEF written
    <3> QED  BY <1>4, <1>5, <2>3, <3>1
  <2>6. S!Unwrap(S!Wrap(m.at, s.isn), s.isn, written) = m.at
    BY <1>2, <1>4, <2>3, <2>4, <2>5, InstancesAreSound, S!UnwrapRoundTrip
  <2> QED  BY <1>1, <1>3, <2>6, SameNumbers
<1>7. IsPush(x, r.reassembler, i, next, m.seg.fin)
  BY <1>1, <1>6 DEF IsPush, IsPushed, i, IndexOf
<1>8. /\ R!ReassemblerOK(x, P \cup i .. next - 1) /\ R!Advances(r.reassembler, x)
      /\ x.eof_idx = IF m.seg.fin THEN MaxBytes ELSE r.reassembler.eof_idx
  <2>1. next <= MaxBytes  BY <1>1, <1>2, <1>5
  <2>2. m.seg.fin => next = MaxBytes  BY <1>1
  <2> HIDE DEF P
  <2>3. R!ReassemblerOK(r.reassembler, P)  BY <1>3
  <2>4. PushKept(x, r.reassembler, P \cup i .. next - 1, m.seg.fin)
    BY <1>1, <1>7, <2>1, <2>2, <2>3, PushKeepsOK
  <2> QED  BY <2>4 DEF PushKept
<1>9. P \cup i .. next - 1 = P  BY <1>1, <1>2
<1>10. R!ReassemblerOK(x, P)  BY <1>8, <1>9
<1>11. x \in R!Reassembler /\ x.output.written \in Nat
  <2>1. R!Consistent(x, P)  BY <1>10 DEF R!ReassemblerOK
  <2>2. x \in R!Reassembler  BY <2>1 DEF R!Consistent
  <2>3. x.output \in R!Stream  BY <2>2 DEF R!Reassembler
  <2> QED  BY <2>2, <2>3 DEF R!Stream
<1>12. /\ q.syn_received /\ q.isn = s.isn /\ q.reassembler = x
       /\ q.checkpoint = x.output.written
       /\ q \in [syn_received : BOOLEAN, isn : Nat, checkpoint : Nat,
                 reassembler : R!Reassembler]
  BY <1>3, <1>11 DEF Holds
<1>13. StreamOut(q) = x.output  BY <1>12 DEF StreamOut
<1>14. Moves(r, q)
  <2>1. /\ x.output.read = r.reassembler.output.read
        /\ x.output.written >= r.reassembler.output.written
        /\ r.reassembler.output.ended => x.output.ended
    BY <1>8 DEF R!Advances
  <2>2. r.reassembler.output = StreamOut(r)  BY DEF StreamOut
  <2>3. StreamOut(r).read \in Nat  BY ReceiverNumbers
  <2> QED  BY <1>12, <1>13, <2>1, <2>2, <2>3 DEF Moves
<1>15. Acked(s) <= NextExpected(q)
  <2>1. NextExpected(q) = x.output.written + 1 + Flag(x.output.ended)
    BY <1>13 DEF NextExpected
  <2>2. Flag(x.output.ended) \in {0, 1}  BY DEF Flag
  <2>3. x.output.written >= written  BY <1>13, <1>14 DEF Moves, written
  <2>4. Acked(s) = s.next - s.flight  BY DEF Acked
  <2> QED  BY <1>2, <1>3, <1>4, <1>11, <2>1, <2>2, <2>3, <2>4, SMTT(30)
<1>16. x.eof_idx # NoEof => s.stream.ended /\ s.next = MaxBytes + 2
  BY <1>1, <1>3, <1>8
<1>17. q.checkpoint = StreamOut(q).written  BY <1>12, <1>13
<1> QED
  BY <1>3, <1>10, <1>12, <1>14, <1>15, <1>16, <1>17 DEF ReceiverInv

\* segment_received() of a segment at its place.
LEMMA SegmentIsTaken ==
  ASSUME NEW s, SenderInv(s), NEW r, ReceiverInv(s, r),
         NEW m \in [at : Nat, seg : S!Segment], S!IsPlaced(s, Place(m)),
         m.at >= StreamOut(r).written - Half,
         NEW q, q = ReceiverSegment(r, m.seg)
  PROVE  ReceiverInv(s, q) /\ (q = r \/ Moves(r, q))
<1> DEFINE t == Synchronise(r, m.seg)
           first == Unwrap(m.seg.seqno, t.isn, t.checkpoint)
           x == PushSubstring(t.reassembler, m.seg.payload,
                  IF m.seg.syn THEN first ELSE first - 1, m.seg.fin)
           u == [t EXCEPT !.reassembler = x, !.checkpoint = x.output.written]
<1>1. q = t \/ (t.syn_received /\ ~StreamOut(t).ended /\ q = u)
  BY DEF ReceiverSegment, HasAckno
<1>2. CASE ~r.syn_received /\ ~m.seg.syn
  <2>1. t = r  BY <1>2 DEF Synchronise
  <2>2. q = r  BY <1>1, <1>2, <2>1
  <2> QED  BY <2>2
<1>3. CASE r.syn_received \/ m.seg.syn
  <2> HIDE DEF t, u
  <2>1. ReceiverInv(s, t) /\ t.syn_received /\ t.reassembler = r.reassembler
    BY <1>3, SynchroniseKeeps DEF t
  <2>2. StreamOut(t) = StreamOut(r)  BY <2>1 DEF StreamOut
  <2>3. StreamOut(r).read \in Nat /\ StreamOut(r).written \in Nat  BY ReceiverNumbers
  <2>4. Moves(r, t)  BY <2>1, <2>2, <2>3 DEF Moves
  <2>5. CASE q = t  BY <2>1, <2>4, <2>5
  <2>6. CASE ~StreamOut(t).ended /\ q = u
    <3>1. m.at >= StreamOut(t).written - Half  BY <2>2
    <3>2. IsPushed(x, t, m.seg) /\ Holds(u, t, x)  BY DEF IsPushed, Holds, u
    <3> HIDE DEF x
    <3>3. ReceiverInv(s, u) /\ Moves(t, u)
      BY <2>1, <2>6, <3>1, <3>2, PlacedIsPushed
    <3>4. Moves(r, u)  BY <2>1, <2>2, <3>3 DEF Moves
    <3> QED  BY <2>6, <3>3, <3>4
  <2> QED  BY <1>1, <2>5, <2>6
<1> QED  BY <1>2, <1>3

\* A read by the application.
LEMMA ReadIsTaken ==
  ASSUME NEW s, SenderInv(s), NEW r, ReceiverInv(s, r), StreamOut(r).buffer # <<>>,
         NEW len \in Nat, NEW q, q = ReceiverRead(r, len)
  PROVE  /\ ReceiverInv(s, q) /\ Moves(r, q) /\ NextExpected(q) = NextExpected(r)
         /\ q.syn_received = r.syn_received
<1> DEFINE P == 0 .. s.stream.read - 1
           x == [r.reassembler EXCEPT !.output = StreamPop(@, len)]
<1>1. /\ r \in [syn_received : BOOLEAN, isn : Nat, checkpoint : Nat,
                reassembler : R!Reassembler]
      /\ R!ReassemblerOK(r.reassembler, P)
      /\ r.reassembler.eof_idx # NoEof => s.stream.ended /\ s.next = MaxBytes + 2
  BY DEF ReceiverInv
<1>2. r.syn_received
  <2> SUFFICES ASSUME ~r.syn_received PROVE FALSE  OBVIOUS
  <2>1. r = NewReceiver  BY DEF ReceiverInv
  <2>2. StreamOut(r).buffer = <<>>
    BY <2>1 DEF NewReceiver, StreamOut, NewReassembler, EmptyStream
  <2> QED  BY <2>2
<1>3. /\ r.isn = s.isn /\ s.next >= 1 /\ r.checkpoint = StreamOut(r).written
      /\ Acked(s) <= NextExpected(r)
  BY <1>2 DEF ReceiverInv
<1>4. IsRead(x, r.reassembler, len)  BY DEF IsRead
<1>5. q = [r EXCEPT !.reassembler = x]  BY <1>1 DEF ReceiverRead
<1> HIDE DEF x, P
<1>6. /\ R!ReassemblerOK(x, P) /\ x.eof_idx = r.reassembler.eof_idx
      /\ x.output.read >= r.reassembler.output.read
      /\ x.output.written = r.reassembler.output.written
      /\ x.output.ended = r.reassembler.output.ended
  <2>1. R!ReassemblerOK(r.reassembler, P)  BY <1>1
  <2>2. ReadKept(x, r.reassembler, P)  BY <1>4, <2>1, ReadKeepsOK
  <2> QED  BY <2>2 DEF ReadKept
<1>7. x \in R!Reassembler  BY <1>6 DEF R!ReassemblerOK, R!Consistent
<1>8. /\ q.syn_received = r.syn_received /\ q.isn = r.isn
      /\ q.checkpoint = r.checkpoint /\ q.reassembler = x
      /\ q \in [syn_received : BOOLEAN, isn : Nat, checkpoint : Nat,
                reassembler : R!Reassembler]
  BY <1>1, <1>5, <1>7
<1>9. /\ StreamOut(q).written = StreamOut(r).written
      /\ StreamOut(q).ended = StreamOut(r).ended
      /\ StreamOut(q).read >= StreamOut(r).read
  BY <1>6, <1>8 DEF StreamOut
<1>10. NextExpected(q) = NextExpected(r)  BY <1>9 DEF NextExpected
<1>11. ReceiverInv(s, q)
  BY <1>1, <1>2, <1>3, <1>6, <1>8, <1>9, <1>10 DEF ReceiverInv, P
<1>12. Moves(r, q)
  <2>1. StreamOut(r).written \in Nat  BY ReceiverNumbers
  <2> QED  BY <1>8, <1>9, <2>1 DEF Moves
<1> QED  BY <1>8, <1>10, <1>11, <1>12

-----------------------------------------------------------------------------

\* A segment is delivered, and acknowledged once a SYN has arrived.
LEMMA DeliverSegmentKeeps ==
  ASSUME TInv, NEW m \in segs, DeliverSegment(m)
  PROVE  TInv' /\ (rcv' = rcv \/ Moves(rcv, rcv'))
<1> DEFINE r == ReceiverSegment(rcv, m.seg)
<1>1. /\ snd' = snd /\ rcv' = r /\ segs' \subseteq segs /\ ~SegmentIsOld(m)
      /\ acks' = IF HasAckno(r) THEN acks \cup {Acknowledgment(r)} ELSE acks
      /\ UNCHANGED <<lost, early>> /\ (repeated' = repeated \/ Repeat)
  BY DEF DeliverSegment
<1>2. Counters'  BY <1>1, RepeatCounts DEF TInv
<1>3. /\ SenderInv(snd) /\ snd.out = <<>> /\ SegmentsInv(snd, segs)
      /\ ReceiverInv(snd, rcv) /\ AcksInv(snd, rcv, acks)
      /\ (~rcv.syn_received => acks = {})
  BY DEF TInv
<1>4. m \in [at : Nat, seg : S!Segment] /\ S!IsPlaced(snd, Place(m))
  BY <1>3 DEF SegmentsInv
<1>5. m.at >= StreamOut(rcv).written - Half
  <2>1. ~(m.at < StreamOut(rcv).written - Half)  BY <1>1 DEF SegmentIsOld
  <2>2. StreamOut(rcv).written \in Nat  BY <1>3, ReceiverNumbers
  <2>3. m.at \in Nat /\ Half \in Nat  BY <1>4, HalfAssumption
  <2> QED  BY <2>1, <2>2, <2>3
<1> HIDE DEF r
<1>6. ReceiverInv(snd, r) /\ (r = rcv \/ Moves(rcv, r))
  BY <1>3, <1>4, <1>5, SegmentIsTaken DEF r
<1>7. /\ NextExpected(rcv) \in Nat /\ NextExpected(r) \in Nat
      /\ NextExpected(rcv) <= NextExpected(r)
      /\ rcv.syn_received => r.syn_received
  <2>1. /\ NextExpected(rcv) \in Nat /\ NextExpected(r) \in Nat
        /\ NextExpected(rcv) = StreamOut(rcv).written + 1 + Flag(StreamOut(rcv).ended)
        /\ NextExpected(r) = StreamOut(r).written + 1 + Flag(StreamOut(r).ended)
        /\ StreamOut(rcv).written \in Nat /\ StreamOut(r).written \in Nat
    BY <1>3, <1>6, ReceiverNumbers
  <2>2. CASE r = rcv  BY <2>1, <2>2
  <2>3. CASE Moves(rcv, r)
    <3>1. /\ StreamOut(r).written >= StreamOut(rcv).written
          /\ rcv.syn_received => r.syn_received
          /\ StreamOut(rcv).ended => StreamOut(r).ended
      BY <2>3 DEF Moves
    <3>2. /\ Flag(StreamOut(rcv).ended) \in {0, 1} /\ Flag(StreamOut(r).ended) \in {0, 1}
          /\ Flag(StreamOut(rcv).ended) <= Flag(StreamOut(r).ended)
      BY <3>1 DEF Flag
    <3> QED  BY <2>1, <3>1, <3>2
  <2> QED  BY <1>6, <2>2, <2>3
<1>8. AcksInv(snd, r, acks)
  <2> SUFFICES ASSUME NEW a \in acks
               PROVE  /\ a.at \in 1 .. NextExpected(r)
                      /\ a.ackno = Wrap(a.at, snd.isn) /\ a.win \in 0 .. RecvCapacity
    BY DEF AcksInv
  <2>1. /\ a.at \in 1 .. NextExpected(rcv)
        /\ a.ackno = Wrap(a.at, snd.isn) /\ a.win \in 0 .. RecvCapacity
    BY <1>3 DEF AcksInv
  <2> QED  BY <1>7, <2>1
<1>9. AcksInv(snd, r, acks') /\ (~r.syn_received => acks' = {})
  <2>1. CASE r.syn_received
    <3> DEFINE a == Acknowledgment(r)
    <3>1. a.at = NextExpected(r) /\ a.ackno = Ackno(r) /\ a.win = WindowSize(r)
      BY DEF Acknowledgment
    <3> HIDE DEF a
    <3>2. NextExpected(r) \in 1 .. snd.next /\ WindowSize(r) \in 0 .. RecvCapacity
      BY <1>3, <1>6, <2>1, ReceiverNumbers
    <3>3. snd.next \in Nat  BY <1>3, SenderNumbers DEF SenderInv
    <3>4. NextExpected(r) \in 1 .. NextExpected(r)  BY <3>2, <3>3
    <3>5. Ackno(r) = Wrap(NextExpected(r), snd.isn)
      BY <1>6, <2>1 DEF Ackno, ReceiverInv
    <3>6. acks' = acks \cup {a}  BY <1>1, <2>1 DEF HasAckno, a
    <3> QED  BY <1>8, <2>1, <3>1, <3>2, <3>4, <3>5, <3>6 DEF AcksInv
  <2>2. CASE ~r.syn_received
    <3>1. acks' = acks /\ ~rcv.syn_received  BY <1>1, <1>7, <2>2 DEF HasAckno
    <3> QED  BY <1>3, <1>8, <3>1
  <2> QED  BY <2>1, <2>2
<1>10. SegmentsInv(snd, segs')  BY <1>1, <1>3 DEF SegmentsInv
<1> QED  BY <1>1, <1>2, <1>3, <1>6, <1>9, <1>10 DEF TInv

\* Messages that are lost or expire are not missed.
LEMMA FewerMessages ==
  ASSUME TInv, snd' = snd, rcv' = rcv, segs' \subseteq segs, acks' \subseteq acks,
         Counters'
  PROVE  TInv'
  BY DEF TInv, SegmentsInv, AcksInv

LEMMA LoseKeeps == TInv /\ Lose => TInv' /\ rcv' = rcv
<1> SUFFICES ASSUME TInv, Lose PROVE TInv' /\ rcv' = rcv  OBVIOUS
<1>1. /\ snd' = snd /\ rcv' = rcv /\ segs' \subseteq segs /\ acks' \subseteq acks
      /\ lost < MaxLost /\ lost' = lost + 1 /\ UNCHANGED <<repeated, early>>
  BY DEF Lose
<1>2. MaxLost \in Nat /\ Counters  BY TransferAssumption DEF TInv
<1>3. Counters'  BY <1>1, <1>2 DEF Counters
<1> QED  BY <1>1, <1>3, FewerMessages

LEMMA ExpireKeeps == TInv /\ Expire => TInv' /\ rcv' = rcv
<1> SUFFICES ASSUME TInv, Expire PROVE TInv' /\ rcv' = rcv  OBVIOUS
<1>1. /\ snd' = snd /\ rcv' = rcv /\ segs' \subseteq segs /\ acks' \subseteq acks
      /\ UNCHANGED <<lost, repeated, early>>
  BY DEF Expire, network
<1>2. Counters'  BY <1>1 DEF TInv, Counters
<1> QED  BY <1>1, <1>2, FewerMessages

\* The application reads.
LEMMA ReadKeeps ==
  ASSUME TInv, NEW len \in 1 .. RecvCapacity, Read(len)
  PROVE  TInv' /\ Moves(rcv, rcv')
<1> DEFINE r == ReceiverRead(rcv, len)
<1>1. /\ StreamOut(rcv).buffer # <<>> /\ rcv' = r
      /\ UNCHANGED <<snd, segs, acks, lost, repeated, early>>
  BY DEF Read, network
<1>2. /\ SenderInv(snd) /\ snd.out = <<>> /\ SegmentsInv(snd, segs)
      /\ ReceiverInv(snd, rcv) /\ AcksInv(snd, rcv, acks)
      /\ (~rcv.syn_received => acks = {})
  BY DEF TInv
<1>3. len \in Nat  BY ReassemblerAssumption
<1> HIDE DEF r
<1>4. /\ ReceiverInv(snd, r) /\ Moves(rcv, r) /\ NextExpected(r) = NextExpected(rcv)
      /\ r.syn_received = rcv.syn_received
  BY <1>1, <1>2, <1>3, ReadIsTaken DEF r
<1>5. AcksInv(snd, r, acks)  BY <1>2, <1>4 DEF AcksInv
<1>6. Counters'  BY <1>1 DEF TInv, Counters
<1> QED  BY <1>1, <1>2, <1>4, <1>5, <1>6 DEF TInv

\* Every step keeps the invariant, and moves the output on if it changes it.
LEMMA NextKeeps ==
  TInv /\ [Next]_vars => TInv' /\ (rcv' = rcv \/ Moves(rcv, rcv'))
<1> SUFFICES ASSUME TInv, [Next]_vars
             PROVE  TInv' /\ (rcv' = rcv \/ Moves(rcv, rcv'))
  OBVIOUS
<1>1. CASE Connect  BY <1>1, ConnectKeeps DEF Connect
<1>2. ASSUME NEW n \in 1 .. SendCapacity, Write(n)
      PROVE  TInv' /\ rcv' = rcv
  BY <1>2, WriteKeeps DEF Write
<1>3. CASE EndInput  BY <1>3, EndInputKeeps DEF EndInput
<1>4. CASE Tick  BY <1>4, TickKeeps DEF Tick
<1>5. ASSUME NEW m \in segs, DeliverSegment(m)
      PROVE  TInv' /\ (rcv' = rcv \/ Moves(rcv, rcv'))
  BY <1>5, DeliverSegmentKeeps
<1>6. ASSUME NEW a \in acks, DeliverAck(a)
      PROVE  TInv' /\ rcv' = rcv
  BY <1>6, DeliverAckKeeps DEF DeliverAck
<1>7. CASE Lose  BY <1>7, LoseKeeps
<1>8. CASE Expire  BY <1>8, ExpireKeeps
<1>9. ASSUME NEW len \in 1 .. RecvCapacity, Read(len)
      PROVE  TInv' /\ Moves(rcv, rcv')
  BY <1>9, ReadKeeps
<1>10. CASE UNCHANGED vars
  <2>1. UNCHANGED <<snd, rcv, segs, acks, lost, repeated, early>>
    BY <1>10 DEF vars, network
  <2>2. Counters'  BY <2>1 DEF TInv, Counters
  <2> QED  BY <2>1, <2>2, FewerMessages
<1> QED
  BY <1>1, <1>2, <1>3, <1>4, <1>5, <1>6, <1>7, <1>8, <1>9, <1>10
     DEF Next, SenderStep, Delivery, ReaderStep

-----------------------------------------------------------------------------

\* The sender, the network and the receiver agree, in every reachable state and
\* for every value of the constants.
THEOREM TInvHolds == Spec => []TInv
<1>1. TInv /\ [Next]_vars => TInv'  BY NextKeeps
<1> QED  BY InitHolds, <1>1, PTL DEF Spec

\* The invariant gives the properties of a state: what the reader has,
LEMMA OutIsTheStream == TInv => ReaderGetsTheStream
<1> SUFFICES ASSUME TInv PROVE ReaderGetsTheStream  OBVIOUS
<1>1. /\ SenderInv(snd) /\ ReceiverInv(snd, rcv) /\ Counters
      /\ snd.stream.written <= MaxBytes
      /\ snd.stream.ended => snd.stream.written = MaxBytes
  BY DEF TInv, SenderInv
<1>2. /\ snd.next \in Nat /\ snd.stream.read \in Nat /\ snd.stream.written \in Nat
      /\ snd.stream.read <= snd.stream.written /\ snd.next <= snd.stream.written + 2
  BY SenderNumbers DEF TInv, SenderInv
<1>3. MaxBytes \in Nat /\ RecvCapacity \in Nat
  BY TransferAssumption, ReassemblerAssumption
<1>4. /\ Out.read \in Nat /\ Out.written \in Nat /\ Out.read <= Out.written
      /\ Out.written <= snd.stream.read
      /\ Out.buffer = R!Excerpt(Out.read, Out.written)
      /\ Out.ended => snd.stream.ended /\ Out.written = MaxBytes
      /\ NextExpected(rcv) = Out.written + 1 + Flag(Out.ended)
      /\ Flag(Out.ended) \in {0, 1}
      /\ WindowSize(rcv) = RecvCapacity - (Out.written - Out.read)
      /\ WindowSize(rcv) \in 0 .. RecvCapacity
  BY <1>1, ReceiverNumbers DEF Out
<1> HIDE DEF Out
<1>5. Out.buffer = [i \in 1 .. Out.written - Out.read |-> Out.read + i - 1]
  BY <1>4 DEF R!Excerpt
<1>6. Len(Out.buffer) = Out.written - Out.read
  <2> DEFINE read == Out.read
             written == Out.written
  <2>1. read \in Nat /\ written \in Nat /\ read <= written  BY <1>4
  <2> HIDE DEF read, written
  <2>2. Len(R!Excerpt(read, written)) = written - read
    BY <2>1, InstancesAreSound, R!ExcerptFacts
  <2> QED  BY <1>4, <2>2 DEF read, written
<1>7. TypeOK
  <2>1. NextExpected(rcv) \in 1 .. MaxBytes + 2  BY <1>1, <1>2, <1>3, <1>4
  <2>2. snd.next \in 0 .. MaxBytes + 2  BY <1>1, <1>2, <1>3
  <2>3. Len(Out.buffer) <= RecvCapacity  BY <1>3, <1>4, <1>6
  <2> QED  BY <1>1, <2>1, <2>2, <2>3 DEF TypeOK, Counters
<1>8. Out.written <= snd.stream.written  BY <1>2, <1>4
<1>9. Out.ended => snd.stream.ended /\ Out.written = snd.stream.written
  BY <1>1, <1>4
<1> QED  BY <1>5, <1>7, <1>8, <1>9 DEF ReaderGetsTheStream

\* and what was acknowledged and forgotten.
LEMMA ForgottenIsReceived == TInv => AcksAreSound
<1> SUFFICES ASSUME TInv PROVE AcksAreSound  OBVIOUS
<1>1. SenderInv(snd) /\ ReceiverInv(snd, rcv) /\ S!SenderOK(snd, Acked(snd))
  BY DEF TInv, SenderInv
<1>2. /\ snd \in S!Sender /\ snd.next \in Nat /\ Acked(snd) \in 0 .. snd.next
  BY <1>1, SenderNumbers
<1>3. HasAckno(rcv) => NextExpected(rcv) <= snd.next
  BY <1>1, <1>2, ReceiverNumbers DEF HasAckno
<1>4. ASSUME NEW n \in 0 .. snd.next - 1,
             \A c \in snd.cache : n < c.end - LengthInSequenceSpace(c.seg) \/ c.end <= n
      PROVE  Received(n)
  <2>1. n < Acked(snd)
    <3> SUFFICES ASSUME ~(n < Acked(snd)) PROVE FALSE  OBVIOUS
    <3>1. n \in Acked(snd) .. snd.next - 1  BY <1>2
    <3>2. PICK c \in snd.cache : S!Holds(c, n)  BY <1>1, <3>1 DEF S!SenderOK
    <3>3. S!First(c) <= n /\ n < c.end  BY <3>2 DEF S!Holds
    <3>4. S!First(c) = c.end - LengthInSequenceSpace(c.seg)
      BY SameLength DEF S!First
    <3>5. c.end \in Nat /\ S!First(c) \in Int
      BY <1>2, InstancesAreSound, S!FirstType
    <3>6. n < S!First(c) \/ c.end <= n  BY <1>4, <3>4
    <3> QED  BY <3>3, <3>5, <3>6
  <2>2. rcv.syn_received /\ Acked(snd) <= NextExpected(rcv)
    <3>1. Acked(snd) # 0  BY <1>2, <2>1
    <3> QED  BY <1>1, <3>1 DEF ReceiverInv
  <2>3. /\ Out.written \in Nat /\ Out.ended \in BOOLEAN
        /\ NextExpected(rcv) = Out.written + 1 + Flag(Out.ended)
    BY <1>1, ReceiverNumbers DEF Out
  <2>4. Flag(Out.ended) = IF Out.ended THEN 1 ELSE 0  BY DEF Flag
  <2> HIDE DEF Out
  <2>5. n <= Out.written \/ (n = Out.written + 1 /\ Out.ended)
    <3>1. CASE Out.ended  BY <1>2, <2>1, <2>2, <2>3, <2>4, <3>1
    <3>2. CASE ~Out.ended  BY <1>2, <2>1, <2>2, <2>3, <2>4, <3>2
    <3> QED  BY <3>1, <3>2
  <2> QED  BY <2>2, <2>5 DEF Received, HasAckno
<1> QED  BY <1>3, <1>4 DEF AcksAreSound

\* Whatever is lost, repeated or reordered, the reader gets the bytes that were
\* written, in order and once, and the end of the input only after all of them
\* (tcp_sender.cc, tcp_receiver.cc, stream_reassembler.cc).
THEOREM ReaderGetsTheStreamHolds == Spec => []ReaderGetsTheStream
BY TInvHolds, OutIsTheStream, PTL

\* The receiver acknowledges only what was sent, and the sender drops from its
\* cache only what was received (tcp_receiver.cc:53-59, tcp_sender.cc:126-137).
THEOREM AcksAreSoundHolds == Spec => []AcksAreSound
BY TInvHolds, ForgottenIsReceived, PTL

\* The right edge of the window never moves back: what the output gains is
\* acknowledged, and what the window loses with it, no more
\* (tcp_receiver.hh:52-55).
THEOREM RightEdgeNeverShrinksHolds == Spec => RightEdgeNeverShrinks
<1> DEFINE Edge(r) == NextExpected(r) + WindowSize(r)
<1>1. TInv /\ [Next]_vars => (HasAckno(rcv) => Edge(rcv) <= Edge(rcv'))
  <2> SUFFICES ASSUME TInv, [Next]_vars PROVE Edge(rcv) <= Edge(rcv')  OBVIOUS
  <2>1. TInv' /\ (rcv' = rcv \/ Moves(rcv, rcv'))  BY NextKeeps
  <2> DEFINE s == snd
             t == snd'
             r == rcv
             q == rcv'
  <2>2. /\ SenderInv(s) /\ ReceiverInv(s, r) /\ SenderInv(t) /\ ReceiverInv(t, q)
        /\ (q = r \/ Moves(r, q))
    BY <2>1 DEF TInv
  <2> HIDE DEF s, t, r, q
  <2>3. RecvCapacity \in Nat  BY ReassemblerAssumption
  <2>4. ASSUME NEW u, NEW v, SenderInv(u), ReceiverInv(u, v)
        PROVE  /\ Edge(v) = StreamOut(v).read + RecvCapacity + 1 + Flag(StreamOut(v).ended)
               /\ StreamOut(v).read \in Nat
    <3>1. /\ NextExpected(v) = StreamOut(v).written + 1 + Flag(StreamOut(v).ended)
          /\ Flag(StreamOut(v).ended) \in {0, 1}
          /\ WindowSize(v) = RecvCapacity - (StreamOut(v).written - StreamOut(v).read)
          /\ StreamOut(v).read \in Nat /\ StreamOut(v).written \in Nat
      BY <2>4, ReceiverNumbers
    <3> QED  BY <2>3, <3>1
  <2>5. Edge(r) <= Edge(q)
    <3>1. /\ Edge(r) = StreamOut(r).read + RecvCapacity + 1 + Flag(StreamOut(r).ended)
          /\ Edge(q) = StreamOut(q).read + RecvCapacity + 1 + Flag(StreamOut(q).ended)
          /\ StreamOut(r).read \in Nat /\ StreamOut(q).read \in Nat
      BY <2>2, <2>4
    <3>2. Flag(StreamOut(r).ended) \in {0, 1} /\ Flag(StreamOut(q).ended) \in {0, 1}
      BY DEF Flag
    <3> HIDE DEF Edge
    <3>3. CASE q = r  BY <2>3, <3>1, <3>2, <3>3
    <3>4. CASE Moves(r, q)
      <4>1. StreamOut(q).read >= StreamOut(r).read  BY <3>4 DEF Moves
      <4>2. Flag(StreamOut(r).ended) <= Flag(StreamOut(q).ended)
        BY <3>4 DEF Moves, Flag
      <4> QED  BY <2>3, <3>1, <3>2, <4>1, <4>2
    <3> QED  BY <2>2, <3>3, <3>4
  <2> QED  BY <2>5 DEF r, q
<1> QED  BY TInvHolds, <1>1, PTL DEF RightEdgeNeverShrinks, Spec

=============================================================================
