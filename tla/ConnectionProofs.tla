-------------------------- MODULE ConnectionProofs --------------------------
(***************************************************************************)
(* Proofs about ConnectionSystem: every variable keeps its type, and at    *)
(* least one of the two connections waits after the streams have ended,    *)
(* whatever the network loses and reorders, whoever opens, writes, resets  *)
(* or is destroyed, for every width of the sequence numbers and every      *)
(* capacity, payload size and timeout.                                     *)
(*                                                                         *)
(* No number is compared with what it stands for: the argument follows the *)
(* FIN.  A segment has one only if its sender's stream is at its end, so   *)
(* a receiver that knows where its input ends has a peer in that state,    *)
(* which that peer never leaves; and it is the other's end that a          *)
(* connection must hear before its own to stop waiting.                    *)
(***************************************************************************)
EXTENDS ConnectionSystem, NumberFacts

R == INSTANCE ReassemblerProofs WITH StreamLength <- 0,
       reassembler <- NewReassembler, pushed <- {}

LEMMA InstanceIsSound == R!LengthAssumption /\ R!ReassemblerAssumption
  BY ReassemblerAssumption DEF R!LengthAssumption, R!ReassemblerAssumption

\* The stream values of a stream of that capacity.
Stream(capacity) ==
  {s \in [buffer : Seq(Nat), ended : BOOLEAN, error : BOOLEAN, written : Nat, read : Nat] :
     Len(s.buffer) <= capacity}

\* The segments of a sender whose stream is at its end (eof) or not.
Segs(eof) == {seg \in Segment : seg.fin => eof}

\* The excerpts that may be cached, by where they start.
Caches == UNION {[D -> Seq(Nat)] : D \in UNION {SUBSET (1 .. n) : n \in Nat}}

\* The states of a sender,
Sender ==
  [isn : Raw, stream : Stream(SendCapacity), next : Nat, window : Nat, flight : Int,
   cache : SUBSET [end : Nat, seg : Segment], time : Nat, rto : Nat, retx : Nat,
   out : Seq(Segment)]

\* of a reassembler,
Reassembler ==
  [assemble_idx : Nat, eof_idx : Int, segments : Caches, output : Stream(RecvCapacity)]

\* of a receiver,
Receiver ==
  [syn_received : BOOLEAN, isn : Raw, checkpoint : Nat, reassembler : Reassembler]

\* and of a connection.
Connection ==
  [snd : Sender, rcv : Receiver, linger : BOOLEAN, idle : 0 .. LingerTime,
   active : BOOLEAN, out : Seq(Segment)]

\* A sequence of such segments.
AllSegs(q, eof) == q \in Seq(Segment) /\ \A i \in DOMAIN q : q[i] \in Segs(eof)

\* What was sent: the SYN, the bytes taken from the stream and at most one more
\* number, once the stream is at its end.
NumbersOK(s) ==
  \/ s.next = 0 /\ s.stream.buffer = <<>>
  \/ s.next > 0 /\ s.next <= s.stream.written - Len(s.stream.buffer) + 1 + Flag(AtEof(s.stream))

\* A sender makes a FIN at the end of its stream only.
SenderOK(s) ==
  /\ s \in Sender /\ NumbersOK(s)
  /\ \A c \in s.cache : c.seg \in Segs(AtEof(s.stream))
  /\ AllSegs(s.out, AtEof(s.stream))

\* A receiver whose peer's stream is at its end (eof) or not: its input ends
\* only where the peer said.
ReassemblerOK(r, eof) ==
  /\ r \in Reassembler
  /\ r.eof_idx # NoEof => eof
  /\ r.output.ended => eof
ReceiverOK(r, eof) == r \in Receiver /\ ReassemblerOK(r.reassembler, eof)

\* A connection to such a peer whose owner writes at most so many bytes.
ConnectionOK(c, eof, most) ==
  /\ c \in Connection
  /\ SenderOK(c.snd) /\ ReceiverOK(c.rcv, eof)
  /\ AllSegs(c.out, AtEof(Outbound(c)))
  /\ Outbound(c).written <= most

PeerAtEof(e) == AtEof(Outbound(conn[Peer(e)]))

\* The inductive invariant: a receiver knows the end of its input, a segment has
\* a FIN and a connection stops waiting only when the peer's stream is at its
\* end, which it never leaves; so the second to stop would already have been at
\* its own end when the first stopped.
CInv ==
  /\ openers \subseteq Endpoint
  /\ conn \in [Endpoint -> Connection] /\ DOMAIN net = Endpoint
  /\ \A e \in Endpoint :
       /\ ConnectionOK(conn[e], PeerAtEof(e), WrittenAtMost(e))
       /\ net[e] \subseteq Segs(PeerAtEof(e))
       /\ ~conn[e].linger => PeerAtEof(e)
  /\ SomeoneLingers

-----------------------------------------------------------------------------
\* There are two endpoints.
LEMMA TwoEndpoints ==
  ASSUME NEW e \in Endpoint
  PROVE  Peer(e) \in Endpoint /\ Peer(e) # e /\ Peer(Peer(e)) = e
         /\ \A x \in Endpoint : x = e \/ x = Peer(e)
<1>1. IsFiniteSet(Endpoint) /\ Cardinality(Endpoint) = 2  BY EndpointAssumption
<1> DEFINE rest == Endpoint \ {e}
<1>2. IsFiniteSet(rest) /\ Cardinality(rest) = 1
  <2>1. IsFiniteSet(rest) /\ Cardinality(rest) = Cardinality(Endpoint) - 1
    BY <1>1, FS_RemoveElement
  <2> QED  BY <1>1, <2>1
<1>3. PICK p : rest = {p}  BY <1>2, FS_Singleton
<1>4. Endpoint = {e, p} /\ p # e  BY <1>3
<1>5. Peer(e) = p /\ Peer(p) = e  BY <1>4 DEF Peer
<1> QED  BY <1>4, <1>5

LEMMA Constants ==
  /\ Modulus \in Nat \ {0} /\ RecvCapacity \in Nat \ {0} /\ SendCapacity \in Nat \ {0}
  /\ MaxPayload \in Nat \ {0} /\ RtTimeout \in Nat \ {0} /\ MaxRetx \in Nat \ {0}
  /\ LingerTime \in Nat \ {0} /\ WindowSpan \in Nat \ {0} /\ Half \in Nat \ {0}
  BY HalfAssumption, ReassemblerAssumption, SenderAssumption, ConnectionAssumption
     DEF Modulus

\* Raw numbers, and the absolute ones they stand for.
LEMMA NumberTypes ==
  /\ Raw \subseteq Int
  /\ \A n \in Int, isn \in Raw : Wrap(n, isn) \in Raw
  /\ \A a \in Raw, b \in Raw : Offset(a, b) \in Int
  /\ \A n \in Raw, isn \in Raw, c \in Int : Unwrap(n, isn, c) \in Int
<1>1. Raw \subseteq Int  BY Constants DEF Raw
<1>2. \A a \in Int : a % Modulus \in Raw  BY Constants, ModSplit DEF Raw
<1>3. ASSUME NEW n \in Int, NEW isn \in Raw PROVE Wrap(n, isn) \in Raw
  <2>1. n + isn \in Int  BY <1>1
  <2> QED  BY <1>2, <2>1 DEF Wrap
<1>4. ASSUME NEW a \in Raw, NEW b \in Raw PROVE Offset(a, b) \in Int
  <2>1. a - b \in Int  BY <1>1
  <2>2. (a - b) % Modulus \in Int  BY <1>1, <1>2, <2>1
  <2> QED  BY <2>2, Constants DEF Offset
<1>5. ASSUME NEW n \in Raw, NEW isn \in Raw, NEW c \in Int PROVE Unwrap(n, isn, c) \in Int
  <2>1. Offset(n, Wrap(c, isn)) \in Int  BY <1>3, <1>4
  <2> QED  BY <2>1, Constants DEF Unwrap
<1> QED  BY <1>1, <1>3, <1>4, <1>5

LEMMA LeastType ==
  ASSUME NEW a \in Int, NEW b \in Int
  PROVE  /\ Least(a, b) = a \/ Least(a, b) = b
         /\ Least(a, b) <= a /\ Least(a, b) <= b
         /\ (a <= b => Least(a, b) = a) /\ (b <= a => Least(a, b) = b)
  BY DEF Least

LEMMA LengthType ==
  ASSUME NEW seg \in Segment
  PROVE  LengthInSequenceSpace(seg) \in Nat
<1>1. seg.payload \in Seq(Nat)  BY DEF Segment
<1>2. Len(seg.payload) \in Nat  BY <1>1, LenProperties
<1>3. Flag(seg.syn) \in Nat /\ Flag(seg.fin) \in Nat  BY DEF Flag
<1> QED  BY <1>2, <1>3 DEF LengthInSequenceSpace

LEMMA PlainType ==
  ASSUME NEW seqno \in Raw
  PROVE  /\ PlainSegment(seqno) \in Segs(FALSE)
         /\ SynSegment(seqno) \in Segs(FALSE)
         /\ [PlainSegment(seqno) EXCEPT !.rst = TRUE] \in Segs(FALSE)
         /\ LengthInSequenceSpace(SynSegment(seqno)) = 1
<1> DEFINE plain == PlainSegment(seqno)
<1>1. 0 \in Raw /\ 0 \in 0 .. RecvCapacity  BY Constants DEF Raw
<1>2. plain \in Segment /\ ~plain.fin /\ ~plain.syn /\ plain.payload = <<>>
  BY <1>1 DEF PlainSegment, Segment
<1> HIDE DEF plain
<1>3. [plain EXCEPT !.rst = TRUE] \in Segs(FALSE)  BY <1>2 DEF Segment, Segs
<1> DEFINE syn == [plain EXCEPT !.syn = TRUE]
<1>4. syn \in Segs(FALSE) /\ syn.syn /\ ~syn.fin /\ syn.payload = <<>>
  BY <1>2 DEF Segment, Segs
<1> HIDE DEF syn
<1>5. LengthInSequenceSpace(syn) = 1  BY <1>4 DEF LengthInSequenceSpace, Flag
<1> QED  BY <1>2, <1>3, <1>4, <1>5 DEF plain, syn, Segs, SynSegment

LEMMA DataType ==
  ASSUME NEW seqno \in Raw, NEW data \in Seq(Nat), NEW fin \in BOOLEAN
  PROVE  /\ DataSegment(seqno, data, fin) \in Segs(fin)
         /\ LengthInSequenceSpace(DataSegment(seqno, data, fin)) = Len(data) + Flag(fin)
<1> DEFINE plain == PlainSegment(seqno)
           seg == [plain EXCEPT !.payload = data, !.fin = fin]
<1>1. plain \in Segment /\ ~plain.syn
  <2>1. 0 \in Raw /\ 0 \in 0 .. RecvCapacity  BY Constants DEF Raw
  <2> QED  BY <2>1 DEF PlainSegment, Segment
<1> HIDE DEF plain
<1>2. seg \in Segs(fin) /\ ~seg.syn /\ seg.fin = fin /\ seg.payload = data
  BY <1>1 DEF Segment, Segs
<1> HIDE DEF seg
<1>3. LengthInSequenceSpace(seg) = Len(data) + 0 + Flag(fin)
  BY <1>2, Zenon DEF LengthInSequenceSpace, Flag
<1>4. Len(data) \in Nat /\ Flag(fin) \in Nat  BY LenProperties DEF Flag
<1>5. LengthInSequenceSpace(seg) = Len(data) + Flag(fin)  BY <1>3, <1>4
<1> QED  BY <1>2, <1>5 DEF seg, plain, DataSegment

\* The end of a stream only adds segments.
LEMMA SegsGrow ==
  ASSUME NEW a, NEW b, a => b
  PROVE  Segs(a) \subseteq Segs(b) /\ \A q : AllSegs(q, a) => AllSegs(q, b)
  BY DEF Segs, AllSegs

LEMMA AllAppended ==
  ASSUME NEW q, NEW eof, AllSegs(q, eof), NEW seg \in Segs(eof)
  PROVE  AllSegs(Append(q, seg), eof)
<1>1. seg \in Segment /\ q \in Seq(Segment)  BY DEF Segs, AllSegs
<1> DEFINE t == Append(q, seg)
<1>2. /\ t \in Seq(Segment) /\ Len(t) = Len(q) + 1 /\ Len(q) \in Nat
      /\ \A i \in 1 .. Len(q) : t[i] = q[i]
      /\ t[Len(q) + 1] = seg
  BY <1>1, AppendProperties, LenProperties
<1>3. DOMAIN t = 1 .. Len(q) + 1 /\ DOMAIN q = 1 .. Len(q)
  BY <1>1, <1>2, LenProperties
<1> HIDE DEF t
<1>4. ASSUME NEW i \in DOMAIN t PROVE t[i] \in Segs(eof)
  <2>1. i = Len(q) + 1 \/ i \in DOMAIN q  BY <1>2, <1>3
  <2> QED  BY <1>2, <1>3, <2>1 DEF AllSegs
<1> QED  BY <1>2, <1>4 DEF AllSegs, t

LEMMA AllJoined ==
  ASSUME NEW q, NEW p, NEW eof, AllSegs(q, eof), AllSegs(p, eof)
  PROVE  AllSegs(q \o p, eof)
<1>1. q \in Seq(Segment) /\ p \in Seq(Segment)  BY DEF AllSegs
<1> DEFINE t == q \o p
<1>2. /\ t \in Seq(Segment) /\ Len(t) = Len(q) + Len(p)
      /\ \A i \in 1 .. Len(q) : t[i] = q[i]
      /\ \A i \in Len(q) + 1 .. Len(q) + Len(p) : t[i] = p[i - Len(q)]
  BY <1>1, ConcatIs
<1>3. /\ DOMAIN t = 1 .. Len(q) + Len(p)
      /\ DOMAIN q = 1 .. Len(q) /\ DOMAIN p = 1 .. Len(p)
      /\ Len(q) \in Nat /\ Len(p) \in Nat
  BY <1>1, <1>2, LenProperties
<1> HIDE DEF t
<1>4. ASSUME NEW i \in DOMAIN t PROVE t[i] \in Segs(eof)
  <2>1. i \in 1 .. Len(q) \/ (i \in Len(q) + 1 .. Len(q) + Len(p) /\ i - Len(q) \in 1 .. Len(p))
    BY <1>3
  <2>2. CASE i \in 1 .. Len(q)  BY <1>2, <1>3, <2>2 DEF AllSegs
  <2>3. CASE i \in Len(q) + 1 .. Len(q) + Len(p) /\ i - Len(q) \in 1 .. Len(p)
    <3>1. t[i] = p[i - Len(q)] /\ i - Len(q) \in DOMAIN p  BY <1>2, <1>3, <2>3
    <3> QED  BY <3>1 DEF AllSegs
  <2> QED  BY <2>1, <2>2, <2>3
<1> QED  BY <1>2, <1>4 DEF AllSegs, t

LEMMA AllEmpty == ASSUME NEW eof PROVE AllSegs(<<>>, eof)
<1>1. <<>> \in Seq(Segment) /\ DOMAIN <<>> = {}  BY EmptySeq
<1> QED  BY <1>1 DEF AllSegs

-----------------------------------------------------------------------------
\* The fields of a stream.
LEMMA StreamFields ==
  ASSUME NEW capacity \in Nat, NEW s \in Stream(capacity)
  PROVE  /\ s.buffer \in Seq(Nat) /\ Len(s.buffer) \in Nat /\ Len(s.buffer) <= capacity
         /\ s.ended \in BOOLEAN /\ s.error \in BOOLEAN /\ s.written \in Nat /\ s.read \in Nat
         /\ AtEof(s) \in BOOLEAN /\ (AtEof(s) <=> s.ended /\ Len(s.buffer) = 0)
<1>1. s \in [buffer : Seq(Nat), ended : BOOLEAN, error : BOOLEAN, written : Nat, read : Nat]
      /\ Len(s.buffer) <= capacity
  BY DEF Stream
<1>2. s.buffer \in Seq(Nat)  BY <1>1
<1>3. Len(s.buffer) \in Nat /\ (Len(s.buffer) = 0 <=> s.buffer = <<>>)
  BY <1>2, LenProperties, EmptySeq
<1> QED  BY <1>1, <1>2, <1>3 DEF AtEof

\* The bytes that have left the buffer of a stream s.
Removed(s) == s.written - Len(s.buffer)

\* Writing adds as many bytes to the buffer as it counts, and no more than fit.
LEMMA WriteType ==
  ASSUME NEW capacity \in Nat, NEW s \in Stream(capacity), NEW data \in Seq(Nat),
         NEW w, w = StreamWrite(s, data, capacity)
  PROVE  /\ w \in Stream(capacity) /\ (w.ended => s.ended)
         /\ w.written - s.written \in 0 .. Len(data)
         /\ Removed(w) = Removed(s)
         /\ Len(data) <= RemainingCapacity(s, capacity) => w.written = s.written + Len(data)
<1> DEFINE n == Least(Len(data), capacity - Len(s.buffer))
           head == SubSeq(data, 1, n)
           b == s.buffer \o head
<1>1. /\ s.buffer \in Seq(Nat) /\ Len(s.buffer) \in Nat /\ Len(s.buffer) <= capacity
      /\ s.written \in Nat /\ Len(data) \in Nat
  BY StreamFields, LenProperties
<1>2. /\ n \in Nat /\ n <= Len(data) /\ n <= capacity - Len(s.buffer)
      /\ Len(data) <= capacity - Len(s.buffer) => n = Len(data)
  <2> DEFINE l == Len(data)
             room == capacity - Len(s.buffer)
  <2>1. l \in Nat /\ room \in Nat  BY <1>1
  <2> HIDE DEF l, room
  <2>2. /\ Least(l, room) \in Nat /\ Least(l, room) <= l /\ Least(l, room) <= room
        /\ l <= room => Least(l, room) = l
    BY <2>1, LeastType
  <2> QED  BY <2>2 DEF l, room
<1>3. w = [s EXCEPT !.buffer = @ \o SubSeq(data, 1, n), !.written = @ + n]
  BY DEF StreamWrite, RemainingCapacity
<1> HIDE DEF n
<1>4. head \in Seq(Nat) /\ Len(head) = n
  <2>1. \A i \in 1 .. n : data[i] \in Nat
    <3>1. \A i \in 1 .. n : i \in 1 .. Len(data)  BY <1>1, <1>2
    <3> QED  BY <3>1, ElementOfSeq
  <2>2. /\ head \in Seq(Nat) /\ Len(head) = IF 1 <= n THEN n - 1 + 1 ELSE 0
    BY <1>2, <2>1, SubSeqProperties
  <2> HIDE DEF head
  <2> QED  BY <1>2, <2>2
<1>5. w = [s EXCEPT !.buffer = b, !.written = @ + n]  BY <1>3
<1> HIDE DEF head
<1>6. b \in Seq(Nat) /\ Len(b) = Len(s.buffer) + n  BY <1>1, <1>4, ConcatProperties
<1> HIDE DEF b
<1>7. s \in [buffer : Seq(Nat), ended : BOOLEAN, error : BOOLEAN, written : Nat, read : Nat]
  BY DEF Stream
<1>8. w \in [buffer : Seq(Nat), ended : BOOLEAN, error : BOOLEAN, written : Nat, read : Nat]
      /\ w.buffer = b /\ w.written = s.written + n /\ w.ended = s.ended
  <2> DEFINE m == s.written + n
  <2>1. m \in Nat  BY <1>1, <1>2
  <2>2. w = [s EXCEPT !.buffer = b, !.written = m]  BY <1>5
  <2> HIDE DEF m
  <2>3. w \in [buffer : Seq(Nat), ended : BOOLEAN, error : BOOLEAN, written : Nat, read : Nat]
        /\ w.buffer = b /\ w.written = m /\ w.ended = s.ended
    BY <1>6, <1>7, <2>1, <2>2
  <2> QED  BY <2>3 DEF m
<1>9. Len(b) <= capacity  BY <1>1, <1>2, <1>6
<1>10. w \in Stream(capacity)  BY <1>8, <1>9 DEF Stream
<1>11. w.written - s.written = n  BY <1>1, <1>2, <1>8
<1>13. Removed(w) = Removed(s)
  <2> DEFINE l == Len(s.buffer)
             k == Len(b)
             old == s.written
  <2>1. k = l + n /\ l \in Nat /\ old \in Nat /\ n \in Nat  BY <1>1, <1>2, <1>6
  <2> HIDE DEF l, k, old
  <2>2. (old + n) - k = old - l  BY <2>1
  <2> QED  BY <1>8, <2>2 DEF Removed, l, k, old
<1>12. n \in 0 .. Len(data)  BY <1>1, <1>2
<1> HIDE DEF b
<1> QED  BY <1>2, <1>8, <1>10, <1>11, <1>12, <1>13 DEF RemainingCapacity

\* Reading takes bytes from the buffer.
LEMMA PopType ==
  ASSUME NEW capacity \in Nat, NEW s \in Stream(capacity), NEW len \in Nat,
         NEW t, t = StreamPop(s, len)
  PROVE  /\ t \in Stream(capacity) /\ t.ended = s.ended /\ t.written = s.written
         /\ Len(t.buffer) = Len(s.buffer) - Least(Len(s.buffer), len)
<1> DEFINE n == Least(Len(s.buffer), len)
           b == SubSeq(s.buffer, n + 1, Len(s.buffer))
<1>1. /\ s.buffer \in Seq(Nat) /\ Len(s.buffer) \in Nat /\ Len(s.buffer) <= capacity
      /\ s.read \in Nat
  BY StreamFields
<1>2. n \in Nat /\ n <= Len(s.buffer)  BY <1>1 DEF Least
<1>3. t = [s EXCEPT !.buffer = SubSeq(@, n + 1, Len(@)), !.read = @ + n]
  BY DEF StreamPop
<1> HIDE DEF n
<1>4. b \in Seq(Nat) /\ Len(b) = Len(s.buffer) - n
  <2>1. \A i \in n + 1 .. Len(s.buffer) : s.buffer[i] \in Nat
    <3>1. \A i \in n + 1 .. Len(s.buffer) : i \in 1 .. Len(s.buffer)  BY <1>1, <1>2
    <3> QED  BY <1>1, <3>1, ElementOfSeq
  <2> DEFINE m == n + 1
             l == Len(s.buffer)
  <2>2. m \in Int /\ l \in Int  BY <1>1, <1>2
  <2>3. \A i \in m .. l : s.buffer[i] \in Nat  BY <2>1
  <2> HIDE DEF m, l
  <2>4. /\ SubSeq(s.buffer, m, l) \in Seq(Nat)
        /\ Len(SubSeq(s.buffer, m, l)) = IF m <= l THEN l - m + 1 ELSE 0
    BY <2>2, <2>3, SubSeqProperties
  <2>5. b = SubSeq(s.buffer, m, l)  BY DEF m, l
  <2> HIDE DEF b
  <2>6. Len(b) = IF m <= l THEN l - m + 1 ELSE 0  BY <2>4, <2>5
  <2> QED  BY <1>1, <1>2, <2>4, <2>5, <2>6 DEF m, l
<1>5. t = [s EXCEPT !.buffer = b, !.read = @ + n]  BY <1>3
<1> HIDE DEF b
<1>6. s \in [buffer : Seq(Nat), ended : BOOLEAN, error : BOOLEAN, written : Nat, read : Nat]
  BY DEF Stream
<1>7. t \in [buffer : Seq(Nat), ended : BOOLEAN, error : BOOLEAN, written : Nat, read : Nat]
      /\ t.buffer = b /\ t.written = s.written /\ t.ended = s.ended
  <2> DEFINE m == s.read + n
  <2>1. m \in Nat  BY <1>1, <1>2
  <2>2. t = [s EXCEPT !.buffer = b, !.read = m]  BY <1>5
  <2> HIDE DEF m
  <2> QED  BY <1>4, <1>6, <2>1, <2>2
<1>8. Len(b) <= capacity  BY <1>1, <1>2, <1>4
<1> QED  BY <1>4, <1>7, <1>8 DEF Stream, n

\* Ending and failing change a flag.
LEMMA EndType ==
  ASSUME NEW capacity \in Nat, NEW s \in Stream(capacity)
  PROVE  /\ StreamEnd(s) \in Stream(capacity) /\ StreamFail(s) \in Stream(capacity)
         /\ StreamEnd(s).ended /\ StreamFail(s).ended = s.ended
         /\ StreamEnd(s).buffer = s.buffer /\ StreamFail(s).buffer = s.buffer
         /\ StreamEnd(s).written = s.written /\ StreamFail(s).written = s.written
  BY DEF Stream, StreamEnd, StreamFail

LEMMA EmptyType ==
  ASSUME NEW capacity \in Nat
  PROVE  EmptyStream \in Stream(capacity)
<1>1. <<>> \in Seq(Nat) /\ Len(<<>>) = 0  BY EmptySeq
<1> QED  BY <1>1 DEF EmptyStream, Stream

-----------------------------------------------------------------------------
\* The fields of a sender.
LEMMA SenderFields ==
  ASSUME NEW s \in Sender
  PROVE  /\ s.isn \in Raw /\ s.next \in Nat /\ s.window \in Nat /\ s.flight \in Int
         /\ s.cache \in SUBSET [end : Nat, seg : Segment]
         /\ s.time \in Nat /\ s.rto \in Nat /\ s.retx \in Nat /\ s.out \in Seq(Segment)
         /\ s.stream \in Stream(SendCapacity)
         /\ s.stream.buffer \in Seq(Nat) /\ Len(s.stream.buffer) \in Nat
         /\ s.stream.ended \in BOOLEAN /\ s.stream.written \in Nat
         /\ AtEof(s.stream) \in BOOLEAN
         /\ (AtEof(s.stream) <=> s.stream.ended /\ Len(s.stream.buffer) = 0)
         /\ Room(s) \in Int /\ NextSeqno(s) \in Raw
<1>1. /\ s.isn \in Raw /\ s.next \in Nat /\ s.window \in Nat /\ s.flight \in Int
      /\ s.cache \in SUBSET [end : Nat, seg : Segment]
      /\ s.time \in Nat /\ s.rto \in Nat /\ s.retx \in Nat /\ s.out \in Seq(Segment)
      /\ s.stream \in Stream(SendCapacity)
  BY DEF Sender
<1>2. SendCapacity \in Nat  BY Constants
<1>3. Room(s) \in Int  BY <1>1 DEF Room
<1>4. NextSeqno(s) \in Raw
  <2>1. s.next \in Int  BY <1>1
  <2> QED  BY <1>1, <2>1, NumberTypes DEF NextSeqno
<1>5. /\ s.stream.buffer \in Seq(Nat) /\ Len(s.stream.buffer) \in Nat
      /\ s.stream.ended \in BOOLEAN /\ s.stream.written \in Nat
      /\ AtEof(s.stream) \in BOOLEAN
      /\ (AtEof(s.stream) <=> s.stream.ended /\ Len(s.stream.buffer) = 0)
  BY <1>1, <1>2, StreamFields
<1> QED  BY <1>1, <1>3, <1>4, <1>5

\* A call that takes no byte from the owner.
Sends(s, t) ==
  /\ SenderOK(t) /\ t.stream.written = s.stream.written
  /\ AtEof(s.stream) => AtEof(t.stream)

LEMMA SendsTwice ==
  ASSUME NEW s, NEW t, NEW u, Sends(s, t), Sends(t, u)
  PROVE  Sends(s, u)
  BY DEF Sends

\* A call that leaves the stream alone.
LEMMA SameStreamSends ==
  ASSUME NEW s, NEW t, SenderOK(s), t.stream = s.stream, t \in Sender, NumbersOK(t),
         t.cache \subseteq s.cache, AllSegs(t.out, AtEof(s.stream))
  PROVE  Sends(s, t)
  BY DEF Sends, SenderOK

LEMMA SendSends ==
  ASSUME NEW s, SenderOK(s), NEW seg \in Segs(AtEof(s.stream)),
         NEW t, t = Send(s, seg), NumbersOK(t)
  PROVE  Sends(s, t)
<1> DEFINE n == LengthInSequenceSpace(seg)
           c == [end |-> s.next + n, seg |-> seg]
           out == Append(s.out, seg)
           cache == s.cache \cup {c}
<1>1. s \in Sender /\ seg \in Segment  BY DEF SenderOK, Segs
<1>2. n \in Nat /\ s.next \in Nat /\ s.flight \in Int
      /\ s.cache \in SUBSET [end : Nat, seg : Segment]
  BY <1>1, LengthType, SenderFields
<1>3. t = [s EXCEPT !.next = s.next + n, !.flight = s.flight + n, !.out = out,
                    !.cache = cache]
  BY DEF Send
<1>4. AllSegs(out, AtEof(s.stream))  BY AllAppended DEF SenderOK
<1>5. out \in Seq(Segment)  BY <1>4 DEF AllSegs
<1>6. cache \in SUBSET [end : Nat, seg : Segment]
  <2>1. c \in [end : Nat, seg : Segment]  BY <1>1, <1>2
  <2> QED  BY <1>2, <2>1
<1>7. \A d \in cache : d.seg \in Segs(AtEof(s.stream))
  <2>1. c.seg = seg  OBVIOUS
  <2> HIDE DEF c
  <2> QED  BY <2>1 DEF SenderOK
<1> DEFINE m == s.next + n
           k == s.flight + n
<1>8. m \in Nat /\ k \in Int  BY <1>2
<1>9. t = [s EXCEPT !.next = m, !.flight = k, !.out = out, !.cache = cache]  BY <1>3
<1> HIDE DEF m, k, out, cache, n
<1>10. t \in Sender /\ t.stream = s.stream /\ t.out = out /\ t.cache = cache
  BY <1>1, <1>5, <1>6, <1>8, <1>9 DEF Sender
<1> QED  BY <1>4, <1>7, <1>10 DEF Sends, SenderOK

LEMMA SendSynSends ==
  ASSUME NEW s, SenderOK(s)
  PROVE  Sends(s, SendSyn(s)) /\ SendSyn(s).next > 0
<1>1. s \in Sender  BY DEF SenderOK
<1>2. s.next \in Nat /\ s.isn \in Raw /\ s.stream.written \in Nat
      /\ Len(s.stream.buffer) \in Nat
  BY <1>1, SenderFields
<1>3. CASE s.next # 0
  <2>1. SendSyn(s) = s  BY <1>3 DEF SendSyn
  <2> QED  BY <1>2, <1>3, <2>1 DEF Sends
<1>4. CASE s.next = 0
  <2> DEFINE seg == SynSegment(s.isn)
             t == Send(s, seg)
  <2>1. SendSyn(s) = t  BY <1>4 DEF SendSyn
  <2>2. seg \in Segs(AtEof(s.stream)) /\ LengthInSequenceSpace(seg) = 1
    BY <1>2, PlainType DEF Segs
  <2> HIDE DEF seg
  <2>3. t.next = 1 /\ t.stream = s.stream
    BY <1>1, <1>4, <2>2 DEF Send, Sender
  <2> HIDE DEF t
  <2>4. NumbersOK(t)
    <3>1. s.stream.buffer = <<>>  BY <1>4 DEF SenderOK, NumbersOK
    <3>2. Len(s.stream.buffer) = 0  BY <3>1, EmptySeq
    <3> QED  BY <1>2, <2>3, <3>2 DEF NumbersOK, Flag
  <2>5. Sends(s, t)
    <3>1. t = Send(s, seg)  BY DEF t
    <3> QED  BY <2>2, <2>4, <3>1, SendSends
  <2> QED  BY <2>1, <2>3, <2>5
<1> QED  BY <1>3, <1>4

LEMMA SendFinSends ==
  ASSUME NEW s, SenderOK(s), s.next > 0
  PROVE  Sends(s, SendFin(s)) /\ SendFin(s).next > 0
<1>1. s \in Sender  BY DEF SenderOK
<1>2. /\ s.next \in Nat /\ NextSeqno(s) \in Raw /\ s.stream.written \in Nat
      /\ Len(s.stream.buffer) \in Nat
      /\ (AtEof(s.stream) <=> s.stream.ended /\ Len(s.stream.buffer) = 0)
  BY <1>1, SenderFields
<1>3. CASE ~(FinIsDue(s) /\ Room(s) > 0)
  <2>1. SendFin(s) = s  BY <1>3 DEF SendFin
  <2> QED  BY <2>1 DEF Sends
<1>4. CASE FinIsDue(s) /\ Room(s) > 0
  <2> DEFINE seg == DataSegment(NextSeqno(s), <<>>, TRUE)
             t == Send(s, seg)
  <2>1. SendFin(s) = t  BY <1>4 DEF SendFin
  <2>2. AtEof(s.stream) /\ s.next < s.stream.written + 2  BY <1>4 DEF FinIsDue
  <2>3. seg \in Segs(AtEof(s.stream)) /\ LengthInSequenceSpace(seg) = 1
    <3>1. <<>> \in Seq(Nat) /\ Len(<<>>) = 0 /\ Flag(TRUE) = 1  BY EmptySeq DEF Flag
    <3>2. seg \in Segs(TRUE) /\ LengthInSequenceSpace(seg) = 0 + 1
      BY <1>2, <3>1, DataType
    <3> HIDE DEF seg
    <3> QED  BY <2>2, <3>2 DEF Segs
  <2> HIDE DEF seg
  <2>4. t.next = s.next + 1 /\ t.stream = s.stream
    BY <1>1, <2>3 DEF Send, Sender
  <2> HIDE DEF t
  <2>5. NumbersOK(t)
    <3>1. Len(t.stream.buffer) = 0 /\ Flag(AtEof(t.stream)) = 1
      BY <1>2, <2>2, <2>4 DEF Flag
    <3>2. t.next <= t.stream.written - Len(t.stream.buffer) + 1 + Flag(AtEof(t.stream))
      BY <1>2, <2>2, <2>4, <3>1
    <3> QED  BY <1>2, <2>4, <3>2 DEF NumbersOK
  <2>6. Sends(s, t)
    <3>1. t = Send(s, seg)  BY DEF t
    <3> QED  BY <2>3, <2>5, <3>1, SendSends
  <2> QED  BY <1>2, <2>1, <2>4, <2>6
<1> QED  BY <1>3, <1>4

\* The segments that SendData makes.
LEMMA PieceType ==
  ASSUME NEW s \in Sender, NEW total \in Nat, total <= Len(s.stream.buffer),
         NEW i \in Nat \ {0}, NEW fin \in BOOLEAN,
         NEW f, f = (i - 1) * MaxPayload, NEW l, l = Least(i * MaxPayload, total)
  PROVE  /\ DataSegment(Wrap(s.next + f, s.isn), SubSeq(s.stream.buffer, f + 1, l), fin)
              \in Segs(fin)
         /\ s.next + l \in Nat
<1>1. /\ s.isn \in Raw /\ s.next \in Nat /\ s.stream.buffer \in Seq(Nat)
      /\ Len(s.stream.buffer) \in Nat
  BY SenderFields
<1>2. MaxPayload \in Nat  BY Constants
<1>3. 0 * MaxPayload = 0  BY <1>2
<1> DEFINE h == i - 1
<1>4. h \in Int /\ 0 <= h /\ i \in Int /\ 0 <= i  OBVIOUS
<1>5. f = h * MaxPayload  OBVIOUS
<1> HIDE DEF h
<1>6. f \in Nat
  <2>1. 0 * MaxPayload <= h * MaxPayload /\ h * MaxPayload \in Int
    BY <1>2, <1>4, TimesMonotonic
  <2> QED  BY <1>3, <1>5, <2>1
<1>7. l \in Nat /\ l <= total
  <2> DEFINE m == i * MaxPayload
  <2>1. m \in Nat
    <3>1. 0 * MaxPayload <= i * MaxPayload /\ i * MaxPayload \in Int
      BY <1>2, <1>4, TimesMonotonic
    <3> QED  BY <1>3, <3>1
  <2>2. l = Least(m, total)  OBVIOUS
  <2> HIDE DEF m
  <2> QED  BY <2>1, <2>2, LeastType
<1>8. Wrap(s.next + f, s.isn) \in Raw
  <2>1. s.next + f \in Int  BY <1>1, <1>6
  <2> QED  BY <1>1, <2>1, NumberTypes
<1> DEFINE a == f + 1
           b == s.stream.buffer
<1>9. a \in Int /\ l \in Int /\ \A j \in a .. l : j \in 1 .. Len(b)  BY <1>1, <1>6, <1>7
<1> HIDE DEF a
<1>10. \A j \in a .. l : b[j] \in Nat  BY <1>1, <1>9, ElementOfSeq
<1>11. SubSeq(b, a, l) \in Seq(Nat)  BY <1>9, <1>10, SubSeqProperties
<1>12. s.next + l \in Nat  BY <1>1, <1>7
<1>13. DataSegment(Wrap(s.next + f, s.isn), SubSeq(b, a, l), fin) \in Segs(fin)
  BY <1>8, <1>11, DataType
<1> QED  BY <1>12, <1>13 DEF a

LEMMA SendDataSends ==
  ASSUME NEW s, SenderOK(s), s.next > 0
  PROVE  Sends(s, SendData(s)) /\ SendData(s).next > 0
<1> DEFINE total == Least(Len(s.stream.buffer), Room(s))
           count == (total + MaxPayload - 1) \div MaxPayload
           fin == FinFollows(s, total)
           first(i) == (i - 1) * MaxPayload
           last(i) == Least(i * MaxPayload, total)
           seg(i) == DataSegment(Wrap(s.next + first(i), s.isn),
                                 SubSeq(s.stream.buffer, first(i) + 1, last(i)),
                                 fin /\ i = count)
           sent == total + Flag(fin)
           follows(i) == IF i = count THEN s.next + sent ELSE s.next + last(i)
           u == [s EXCEPT !.stream = StreamPop(@, total),
                          !.next = @ + sent, !.flight = @ + sent,
                          !.out = @ \o [i \in 1 .. count |-> seg(i)],
                          !.cache = @ \cup {[end |-> follows(i), seg |-> seg(i)] :
                                              i \in 1 .. count}]
<1>1. s \in Sender  BY DEF SenderOK
<1>2. /\ s.isn \in Raw /\ s.next \in Nat /\ s.flight \in Int
      /\ s.stream \in Stream(SendCapacity) /\ s.stream.written \in Nat
      /\ s.stream.buffer \in Seq(Nat) /\ Len(s.stream.buffer) \in Nat
      /\ s.stream.ended \in BOOLEAN /\ Room(s) \in Int
      /\ s.cache \in SUBSET [end : Nat, seg : Segment]
      /\ (AtEof(s.stream) <=> s.stream.ended /\ Len(s.stream.buffer) = 0)
  BY <1>1, SenderFields
<1>3. SendData(s) = IF ~AtEof(s.stream) /\ s.next > s.flight /\ total > 0 THEN u ELSE s
  BY DEF SendData
<1>4. CASE ~(~AtEof(s.stream) /\ s.next > s.flight /\ total > 0)
  <2>1. SendData(s) = s  BY <1>3, <1>4
  <2> QED  BY <2>1 DEF Sends
<1>5. CASE ~AtEof(s.stream) /\ s.next > s.flight /\ total > 0
  <2> DEFINE pieces == [i \in 1 .. count |-> seg(i)]
             added == {[end |-> follows(i), seg |-> seg(i)] : i \in 1 .. count}
             popped == StreamPop(s.stream, total)
             eof == AtEof(popped)
  <2>1. total \in Nat \ {0} /\ total <= Len(s.stream.buffer)
    <3> DEFINE l == Len(s.stream.buffer)
               room == Room(s)
    <3>1. l \in Int /\ room \in Int /\ Least(l, room) > 0  BY <1>2, <1>5
    <3> HIDE DEF l, room
    <3>2. Least(l, room) \in Nat \ {0} /\ Least(l, room) <= l  BY <3>1, LeastType
    <3> QED  BY <3>2 DEF l, room
  <2>2. SendData(s) = u  BY <1>3, <1>5
  <2>3. fin \in BOOLEAN /\ (fin => s.stream.ended /\ total = Len(s.stream.buffer))
    BY DEF FinFollows
  <2> HIDE DEF total
  <2>4. count \in Nat \ {0}  BY <2>1, Constants, RoundedUp
  <2> HIDE DEF count, fin
  <2>5. sent \in Nat  BY <2>1 DEF Flag
  <2>6. /\ popped \in Stream(SendCapacity) /\ popped.ended = s.stream.ended
        /\ popped.written = s.stream.written
        /\ Len(popped.buffer) = Len(s.stream.buffer) - total
    <3>1. Least(Len(s.stream.buffer), total) = total  BY <1>2, <2>1, LeastType
    <3>2. SendCapacity \in Nat /\ total \in Nat  BY <2>1, Constants
    <3>3. popped = StreamPop(s.stream, total)  OBVIOUS
    <3> HIDE DEF popped
    <3>4. s.stream \in Stream(SendCapacity)  BY <1>2
    <3>5. /\ popped \in Stream(SendCapacity) /\ popped.ended = s.stream.ended
          /\ popped.written = s.stream.written
          /\ Len(popped.buffer) = Len(s.stream.buffer) - Least(Len(s.stream.buffer), total)
      BY <3>2, <3>3, <3>4, PopType
    <3> QED  BY <3>1, <3>5
  <2> HIDE DEF popped
  <2>7. /\ Len(popped.buffer) \in Nat /\ eof \in BOOLEAN
        /\ (eof <=> popped.ended /\ Len(popped.buffer) = 0)
    <3>1. SendCapacity \in Nat  BY Constants
    <3> QED  BY <2>6, <3>1, StreamFields
  <2>8. fin => eof  BY <1>2, <2>3, <2>6, <2>7
  <2> HIDE DEF eof, sent
  <2>9. ASSUME NEW i \in 1 .. count
        PROVE  seg(i) \in Segs(eof) /\ follows(i) \in Nat
    <3> DEFINE f == first(i)
               l == last(i)
               b == (fin /\ i = count)
    <3>1. i \in Nat \ {0} /\ b \in BOOLEAN /\ total \in Nat  BY <2>1, <2>3, <2>4
    <3>2. f = (i - 1) * MaxPayload /\ l = Least(i * MaxPayload, total)  OBVIOUS
    <3>3. seg(i) = DataSegment(Wrap(s.next + f, s.isn), SubSeq(s.stream.buffer, f + 1, l), b)
          /\ follows(i) = IF i = count THEN s.next + sent ELSE s.next + l
      OBVIOUS
    <3>4. b => eof  BY <2>8
    <3> HIDE DEF f, l, b, seg, follows
    <3>5. /\ DataSegment(Wrap(s.next + f, s.isn), SubSeq(s.stream.buffer, f + 1, l), b)
               \in Segs(b)
          /\ s.next + l \in Nat
      BY <1>1, <2>1, <3>1, <3>2, PieceType
    <3>6. seg(i) \in Segs(eof)  BY <3>3, <3>4, <3>5, SegsGrow
    <3>7. s.next + sent \in Nat  BY <1>2, <2>5
    <3> QED  BY <3>3, <3>5, <3>6, <3>7
  <2> HIDE DEF seg, follows
  <2>10. AllSegs(pieces, eof)
    <3>1. \A i \in 1 .. count : seg(i) \in Segment  BY <2>9 DEF Segs
    <3>2. pieces \in [1 .. count -> Segment]  BY <3>1
    <3>3. pieces \in Seq(Segment)  BY <2>4, <3>2, FunctionIsSeq
    <3> QED  BY <2>9, <3>3 DEF AllSegs
  <2>11. added \in SUBSET [end : Nat, seg : Segment] /\ \A c \in added : c.seg \in Segs(eof)
    BY <2>9 DEF Segs
  <2> HIDE DEF pieces, added
  <2> DEFINE out == s.out \o pieces
             cache == s.cache \cup added
             next == s.next + sent
             flight == s.flight + sent
  <2>12. u = [s EXCEPT !.stream = popped, !.next = next, !.flight = flight, !.out = out,
                       !.cache = cache]
    BY DEF popped, pieces, added
  <2>13. AtEof(s.stream) => eof  BY <1>5
  <2>14. AllSegs(out, eof)
    <3>1. AllSegs(s.out, AtEof(s.stream))  BY DEF SenderOK
    <3>2. AllSegs(s.out, eof)  BY <2>13, <3>1, SegsGrow
    <3> QED  BY <2>10, <3>2, AllJoined
  <2>15. cache \in SUBSET [end : Nat, seg : Segment] /\ \A c \in cache : c.seg \in Segs(eof)
    <3>1. \A c \in s.cache : c.seg \in Segs(AtEof(s.stream))  BY DEF SenderOK
    <3>2. \A c \in s.cache : c.seg \in Segs(eof)  BY <2>13, <3>1, SegsGrow
    <3> QED  BY <1>2, <2>11, <3>2
  <2>16. next \in Nat /\ flight \in Int /\ next > 0
    <3> DEFINE n == s.next
               f == s.flight
    <3>1. n \in Nat /\ n > 0 /\ f \in Int /\ sent \in Nat  BY <1>2, <2>5
    <3> HIDE DEF n, f, sent
    <3>2. n + sent \in Nat /\ f + sent \in Int /\ n + sent > 0  BY <3>1
    <3> QED  BY <3>2 DEF n, f
  <2>17. out \in Seq(Segment)  BY <2>14 DEF AllSegs
  <2>18. next <= popped.written - Len(popped.buffer) + 1 + Flag(eof)
    <3>1. s.next <= s.stream.written - Len(s.stream.buffer) + 1
      <4>1. Flag(AtEof(s.stream)) = 0  BY <1>5 DEF Flag
      <4>2. s.next <= s.stream.written - Len(s.stream.buffer) + 1 + Flag(AtEof(s.stream))
        BY <1>2 DEF SenderOK, NumbersOK
      <4> QED  BY <1>2, <4>1, <4>2
    <3>2. Flag(fin) <= Flag(eof) /\ Flag(fin) \in Nat /\ Flag(eof) \in Nat
      BY <2>8 DEF Flag
    <3>3. next = s.next + (total + Flag(fin))  BY DEF sent
    <3> HIDE DEF next
    <3> DEFINE f == Flag(fin)
               g == Flag(eof)
               l == Len(s.stream.buffer)
               k == Len(popped.buffer)
    <3>4. k = l - total /\ l \in Nat /\ f \in Nat /\ g \in Nat /\ f <= g
      BY <1>2, <2>6, <3>2
    <3>5. s.next <= s.stream.written - l + 1 /\ next = s.next + (total + f)
      BY <3>1, <3>3
    <3> HIDE DEF f, g, l, k
    <3>6. popped.written = s.stream.written /\ s.stream.written \in Nat
          /\ s.next \in Nat /\ total \in Nat
      BY <1>2, <2>1, <2>6
    <3>7. next <= popped.written - k + 1 + g  BY <3>4, <3>5, <3>6
    <3> QED  BY <3>7 DEF k, g
  <2> HIDE DEF out, cache, next, flight
  <2>19. /\ u \in Sender /\ u.stream = popped /\ u.next = next /\ u.out = out
         /\ u.cache = cache
    <3>1. s \in [isn : Raw, stream : Stream(SendCapacity), next : Nat, window : Nat,
                 flight : Int, cache : SUBSET [end : Nat, seg : Segment], time : Nat,
                 rto : Nat, retx : Nat, out : Seq(Segment)]
      BY <1>1 DEF Sender
    <3> HIDE DEF u
    <3> QED  BY <2>6, <2>12, <2>15, <2>16, <2>17, <3>1 DEF Sender
  <2> HIDE DEF u
  <2>20. NumbersOK(u)  BY <2>16, <2>18, <2>19 DEF NumbersOK, eof
  <2>21. Sends(s, u)
    <3>1. AtEof(u.stream) = eof  BY <2>19 DEF eof
    <3> QED  BY <2>6, <2>13, <2>14, <2>15, <2>19, <2>20, <3>1 DEF Sends, SenderOK
  <2> QED  BY <2>2, <2>16, <2>19, <2>21
<1> QED  BY <1>4, <1>5

LEMMA FillSends ==
  ASSUME NEW s, SenderOK(s)
  PROVE  Sends(s, FillWindow(s))
<1> DEFINE t == SendSyn(s)
           u == SendData(t)
           v == SendFin(u)
<1>1. Sends(s, t) /\ t.next > 0  BY SendSynSends
<1>2. FillWindow(s) = v  BY DEF FillWindow
<1> HIDE DEF t
<1>3. Sends(t, u) /\ u.next > 0  BY <1>1, SendDataSends DEF Sends
<1> HIDE DEF u
<1>4. Sends(u, v)  BY <1>3, SendFinSends DEF Sends
<1> HIDE DEF v
<1> QED  BY <1>1, <1>2, <1>3, <1>4, SendsTwice

LEMMA AckSends ==
  ASSUME NEW s, SenderOK(s), NEW ackno \in Raw, NEW window \in Nat
  PROVE  Sends(s, AckReceived(s, ackno, window))
<1> DEFINE unacked == Offset(NextSeqno(s), ackno)
           popped == Acknowledged(s, ackno)
           kept == [s EXCEPT !.cache = @ \ popped, !.window = window]
           timed == [kept EXCEPT !.flight = unacked, !.time = 0, !.retx = 0,
                                 !.rto = RtTimeout]
<1>1. s \in Sender /\ AllSegs(s.out, AtEof(s.stream)) /\ NumbersOK(s)  BY DEF SenderOK
<1>2. AckReceived(s, ackno, window) =
        IF unacked < 0 THEN s ELSE IF popped = {} THEN kept ELSE FillWindow(timed)
  BY DEF AckReceived
<1>3. unacked \in Int
  <2>1. NextSeqno(s) \in Raw  BY <1>1, SenderFields
  <2> QED  BY <2>1, NumberTypes
<1> HIDE DEF unacked, popped
<1>4. Sends(s, s)  BY DEF Sends
<1>5. /\ kept \in Sender /\ kept.stream = s.stream /\ kept.next = s.next
      /\ kept.cache \subseteq s.cache /\ kept.out = s.out
  BY <1>1 DEF Sender
<1> HIDE DEF kept
<1>6. Sends(s, kept)
  <2>1. NumbersOK(kept)  BY <1>1, <1>5 DEF NumbersOK
  <2> QED  BY <1>1, <1>5, <2>1, SameStreamSends
<1>7. /\ timed \in Sender /\ timed.stream = kept.stream /\ timed.next = kept.next
      /\ timed.cache = kept.cache /\ timed.out = kept.out
  <2>1. RtTimeout \in Nat /\ 0 \in Nat  BY Constants
  <2> QED  BY <1>3, <1>5, <2>1 DEF Sender
<1> HIDE DEF timed
<1>8. Sends(s, timed)
  <2>1. NumbersOK(timed)  BY <1>1, <1>5, <1>7 DEF NumbersOK
  <2> QED  BY <1>1, <1>5, <1>7, <2>1, SameStreamSends
<1>9. Sends(s, FillWindow(timed))
  <2> DEFINE u == FillWindow(timed)
  <2>1. Sends(timed, u)  BY <1>8, FillSends DEF Sends
  <2> HIDE DEF u
  <2>2. Sends(s, u)  BY <1>8, <2>1, SendsTwice
  <2> QED  BY <2>2 DEF u
<1> QED  BY <1>2, <1>4, <1>6, <1>9

\* What retransmission sends is cached.
LEMMA OldestIsCached ==
  ASSUME NEW s \in Sender, s.cache # {}
  PROVE  Oldest(s) \in s.cache
<1>1. s.cache \in SUBSET [end : Nat, seg : Segment]  BY SenderFields
<1> DEFINE ends == {c.end : c \in s.cache}
<1>2. ends \subseteq Nat /\ ends # {}  BY <1>1
<1>3. \E n \in ends : \A m \in ends : n <= m
  <2> HIDE DEF ends
  <2> QED  BY <1>2, LeastExists
<1>4. \E c \in s.cache : \A d \in s.cache : c.end <= d.end  BY <1>3
<1> QED  BY <1>4 DEF Oldest

LEMMA TickSends ==
  ASSUME NEW s, SenderOK(s), NEW ms \in Nat
  PROVE  Sends(s, SenderTick(s, ms))
<1> DEFINE now == s.time + ms
           late == [s EXCEPT !.time = @ + ms]
           out == Append(s.out, Oldest(s).seg)
           resent == [s EXCEPT !.time = 0, !.out = Append(@, Oldest(s).seg)]
           backed == [resent EXCEPT !.rto = 2 * @, !.retx = @ + 1]
<1>1. s \in Sender /\ AllSegs(s.out, AtEof(s.stream)) /\ NumbersOK(s)  BY DEF SenderOK
<1>2. SenderTick(s, ms) =
        IF s.cache = {} THEN s
        ELSE IF late.time < s.rto \/ s.retx > MaxRetx THEN late
        ELSE IF s.window = 0 THEN resent ELSE backed
  BY DEF SenderTick
<1>3. Sends(s, s)  BY DEF Sends
<1>4. s.time \in Nat /\ s.rto \in Nat /\ s.retx \in Nat  BY <1>1, SenderFields
<1>5. Sends(s, late)
  <2>1. late = [s EXCEPT !.time = now]  OBVIOUS
  <2>2. now \in Nat  BY <1>4
  <2> HIDE DEF now, late
  <2>3. /\ late \in Sender /\ late.stream = s.stream /\ late.next = s.next
        /\ late.cache = s.cache /\ late.out = s.out
    BY <1>1, <2>1, <2>2 DEF Sender
  <2>4. NumbersOK(late)  BY <1>1, <2>3 DEF NumbersOK
  <2> QED  BY <1>1, <2>3, <2>4, SameStreamSends
<1>6. ASSUME s.cache # {} PROVE Sends(s, resent) /\ Sends(s, backed)
  <2>1. Oldest(s) \in s.cache  BY <1>1, <1>6, OldestIsCached
  <2>2. Oldest(s).seg \in Segs(AtEof(s.stream))  BY <2>1 DEF SenderOK
  <2>3. AllSegs(out, AtEof(s.stream))  BY <1>1, <2>2, AllAppended
  <2>4. out \in Seq(Segment)  BY <2>3 DEF AllSegs
  <2>5. resent = [s EXCEPT !.time = 0, !.out = out]  OBVIOUS
  <2> HIDE DEF out, resent
  <2>6. /\ resent \in Sender /\ resent.stream = s.stream /\ resent.next = s.next
        /\ resent.cache = s.cache /\ resent.out = out
        /\ resent.rto = s.rto /\ resent.retx = s.retx
    BY <1>1, <2>4, <2>5 DEF Sender
  <2>7. Sends(s, resent)
    <3>1. NumbersOK(resent)  BY <1>1, <2>6 DEF NumbersOK
    <3> QED  BY <2>3, <2>6, <3>1, SameStreamSends
  <2> DEFINE r == 2 * s.rto
             x == s.retx + 1
  <2>8. r \in Nat /\ x \in Nat  BY <1>4
  <2>9. backed = [resent EXCEPT !.rto = r, !.retx = x]  BY <2>6
  <2> HIDE DEF r, x, backed
  <2>10. /\ backed \in Sender /\ backed.stream = s.stream /\ backed.next = s.next
         /\ backed.cache = s.cache /\ backed.out = out
    BY <2>6, <2>8, <2>9 DEF Sender
  <2>11. Sends(s, backed)
    <3>1. NumbersOK(backed)  BY <1>1, <2>10 DEF NumbersOK
    <3> QED  BY <2>3, <2>10, <3>1, SameStreamSends
  <2> QED  BY <2>7, <2>11
<1> HIDE DEF late, resent, backed
<1> QED  BY <1>2, <1>3, <1>5, <1>6

LEMMA EmptySegmentSends ==
  ASSUME NEW s, SenderOK(s)
  PROVE  Sends(s, SendEmptySegment(s))
<1> DEFINE seg == PlainSegment(NextSeqno(s))
           out == Append(s.out, seg)
           t == [s EXCEPT !.out = Append(@, seg)]
<1>1. s \in Sender /\ AllSegs(s.out, AtEof(s.stream)) /\ NumbersOK(s)  BY DEF SenderOK
<1>2. SendEmptySegment(s) = t  BY DEF SendEmptySegment
<1>3. seg \in Segs(AtEof(s.stream))
  <2>1. NextSeqno(s) \in Raw  BY <1>1, SenderFields
  <2>2. seg \in Segs(FALSE)  BY <2>1, PlainType
  <2> QED  BY <2>2 DEF Segs
<1> HIDE DEF seg
<1>4. AllSegs(out, AtEof(s.stream))  BY <1>1, <1>3, AllAppended
<1>5. out \in Seq(Segment) /\ t = [s EXCEPT !.out = out]  BY <1>4 DEF AllSegs
<1> HIDE DEF out, t
<1>6. /\ t \in Sender /\ t.stream = s.stream /\ t.next = s.next /\ t.cache = s.cache
      /\ t.out = out
  BY <1>1, <1>5 DEF Sender
<1>7. NumbersOK(t)  BY <1>1, <1>6 DEF NumbersOK
<1> QED  BY <1>2, <1>4, <1>6, <1>7, SameStreamSends

\* The owner writes to a stream that has not ended, of a sender that has sent
\* its SYN.
LEMMA WriteKeepsSender ==
  ASSUME NEW s, SenderOK(s), ~s.stream.ended, s.next > 0, NEW data \in Seq(Nat),
         NEW t, t = SenderWrite(s, data)
  PROVE  /\ SenderOK(t) /\ ~AtEof(s.stream)
         /\ t.stream.written <= s.stream.written + Len(data)
<1> DEFINE w == StreamWrite(s.stream, data, SendCapacity)
<1>1. s \in Sender /\ NumbersOK(s)  BY DEF SenderOK
<1>2. /\ s.stream \in Stream(SendCapacity) /\ SendCapacity \in Nat
      /\ Len(s.stream.buffer) \in Nat /\ s.stream.written \in Nat /\ s.next \in Nat
  BY <1>1, SenderFields, Constants
<1>3. t = [s EXCEPT !.stream = w]  BY DEF SenderWrite
<1>4. /\ w \in Stream(SendCapacity) /\ (w.ended => s.stream.ended)
      /\ w.written - s.stream.written \in 0 .. Len(data)
      /\ Removed(w) = Removed(s.stream)
  <2> DEFINE st == s.stream
  <2>1. w = StreamWrite(st, data, SendCapacity)  OBVIOUS
  <2>2. st \in Stream(SendCapacity) /\ SendCapacity \in Nat  BY <1>2
  <2> HIDE DEF w, st
  <2>3. w \in Stream(SendCapacity)  BY <2>1, <2>2, WriteType, Zenon
  <2>4. w.ended => st.ended  BY <2>1, <2>2 DEF StreamWrite, Stream
  <2>5. w.written - st.written \in 0 .. Len(data)  BY <2>1, <2>2, WriteType, Zenon
  <2>6. Removed(w) = Removed(st)  BY <2>1, <2>2, WriteType, SMTT(30)
  <2> QED  BY <2>3, <2>5, <2>6, <2>4 DEF st
<1> HIDE DEF w
<1>5. w.written \in Nat /\ Len(w.buffer) \in Nat  BY <1>2, <1>4, StreamFields
<1>6. /\ t \in Sender /\ t.stream = w /\ t.next = s.next /\ t.cache = s.cache
      /\ t.out = s.out
  BY <1>1, <1>3, <1>4 DEF Sender
<1>7. ~AtEof(s.stream) /\ ~AtEof(w)  BY <1>4 DEF AtEof
<1>8. NumbersOK(t)
  <2> DEFINE l == Len(s.stream.buffer)
             k == Len(w.buffer)
             n == s.next
             old == s.stream.written
             new == w.written
  <2>1. Flag(AtEof(s.stream)) = 0 /\ Flag(AtEof(w)) = 0  BY <1>7 DEF Flag
  <2>2. n <= old - l + 1 + 0  BY <1>1, <1>2, <2>1 DEF NumbersOK
  <2>3. new - k = old - l /\ l \in Nat /\ k \in Nat
    BY <1>2, <1>4, <1>5 DEF Removed
  <2>4. n \in Nat /\ old \in Nat /\ new \in Nat  BY <1>2, <1>5
  <2> HIDE DEF l, k, n, old, new
  <2>5. n <= new - k + 1 + 0  BY <2>2, <2>3, <2>4
  <2> QED  BY <1>6, <2>1, <2>5 DEF NumbersOK, k, n, new
<1>9. t.stream.written <= s.stream.written + Len(data)
  <2> DEFINE n == Len(data)
  <2>1. n \in Nat /\ w.written - s.stream.written \in 0 .. n  BY <1>4, LenProperties
  <2> HIDE DEF n
  <2>2. w.written <= s.stream.written + n  BY <1>2, <1>5, <2>1
  <2> QED  BY <1>6, <2>2 DEF n
<1>10. /\ \A c \in t.cache : c.seg \in Segs(AtEof(w))
       /\ AllSegs(t.out, AtEof(w))
  <2>1. /\ \A c \in s.cache : c.seg \in Segs(AtEof(s.stream))
        /\ AllSegs(s.out, AtEof(s.stream))
    BY DEF SenderOK
  <2> QED  BY <1>6, <1>7, <2>1, SegsGrow
<1>11. SenderOK(t)  BY <1>6, <1>8, <1>10 DEF SenderOK
<1> QED  BY <1>7, <1>9, <1>11

LEMMA EndInputSends ==
  ASSUME NEW s, SenderOK(s)
  PROVE  Sends(s, SenderEndInput(s))
<1> DEFINE w == StreamEnd(s.stream)
           t == SenderEndInput(s)
<1>1. s \in Sender /\ NumbersOK(s)  BY DEF SenderOK
<1>2. /\ s.stream \in Stream(SendCapacity) /\ SendCapacity \in Nat
      /\ Len(s.stream.buffer) \in Nat /\ s.stream.written \in Nat /\ s.next \in Nat
  BY <1>1, SenderFields, Constants
<1>3. t = [s EXCEPT !.stream = w]  BY DEF SenderEndInput
<1>4. /\ w \in Stream(SendCapacity) /\ w.ended
      /\ w.written = s.stream.written /\ w.buffer = s.stream.buffer
  BY <1>2, EndType
<1> HIDE DEF w, t
<1>5. /\ t \in Sender /\ t.stream = w /\ t.next = s.next /\ t.cache = s.cache
      /\ t.out = s.out
  BY <1>1, <1>3, <1>4 DEF Sender
<1>6. AtEof(s.stream) => AtEof(w)  BY <1>4 DEF AtEof
<1>7. NumbersOK(t)
  <2> DEFINE f == Flag(AtEof(s.stream))
             g == Flag(AtEof(w))
  <2>1. f \in Nat /\ g \in Nat /\ f <= g  BY <1>6 DEF Flag
  <2>2. \/ s.next = 0 /\ s.stream.buffer = <<>>
        \/ s.next > 0 /\ s.next <= s.stream.written - Len(s.stream.buffer) + 1 + f
    BY <1>1 DEF NumbersOK
  <2> HIDE DEF f, g
  <2>3. \/ s.next = 0 /\ w.buffer = <<>>
        \/ s.next > 0 /\ s.next <= w.written - Len(w.buffer) + 1 + g
    BY <1>2, <1>4, <2>1, <2>2
  <2> QED  BY <1>5, <2>3 DEF NumbersOK, g
<1>8. /\ \A c \in t.cache : c.seg \in Segs(AtEof(w))
      /\ AllSegs(t.out, AtEof(w))
  <2>1. /\ \A c \in s.cache : c.seg \in Segs(AtEof(s.stream))
        /\ AllSegs(s.out, AtEof(s.stream))
    BY DEF SenderOK
  <2> QED  BY <1>5, <1>6, <2>1, SegsGrow
<1> QED  BY <1>4, <1>5, <1>6, <1>7, <1>8 DEF Sends, SenderOK, t

LEMMA NewSenderIsOK ==
  ASSUME NEW isn \in Raw
  PROVE  SenderOK(NewSender(isn)) /\ NewSender(isn).stream = EmptyStream
<1> DEFINE s == NewSender(isn)
<1>1. EmptyStream \in Stream(SendCapacity)  BY Constants, EmptyType
<1>2. EmptyStream.buffer = <<>>  BY DEF EmptyStream
<1> HIDE DEF EmptyStream
<1>3. <<>> \in Seq(Segment)  BY EmptySeq
<1>4. /\ s \in Sender /\ s.next = 0 /\ s.stream = EmptyStream /\ s.cache = {}
      /\ s.out = <<>>
  BY <1>1, <1>3, Constants DEF NewSender, Sender
<1> HIDE DEF s
<1>5. AllSegs(s.out, AtEof(s.stream))  BY <1>4, AllEmpty
<1>6. SenderOK(s)  BY <1>2, <1>4, <1>5 DEF SenderOK, NumbersOK
<1> QED  BY <1>4, <1>6 DEF s

-----------------------------------------------------------------------------
\* The operators of R are those of this module.
LEMMA SameAssemble == \A r, i, data : R!Assemble(r, i, data) = Assemble(r, i, data)
  BY DEF R!Assemble, Assemble, R!StreamWrite, StreamWrite, R!Least, Least,
         R!RemainingCapacity, RemainingCapacity

LEMMA SameKeys == \A s : R!Keys(s) = Keys(s)
  BY DEF R!Keys, Keys, R!Ascending, Ascending, R!Cardinality, Cardinality

LEMMA SameWithout == \A s, k : R!Without(s, k) = Without(s, k)
  BY DEF R!Without, Without, R!Restrict, Restrict

LEMMA SameDrainAt == \A d, k : R!DrainAt(d, k) = DrainAt(d, k)
  BY SameAssemble DEF R!DrainAt, DrainAt

LEMMA SameDrain == \A r : R!Drain(r) = Drain(r)
<1>1. \A d, s : R!FoldLeft(R!DrainAt, d, s) = FoldLeft(DrainAt, d, s)
  BY DEF R!FoldLeft, FoldLeft, R!MapThenFoldSet, MapThenFoldSet, R!Max, Max, R!DrainAt,
         DrainAt, R!Assemble, Assemble, R!StreamWrite, StreamWrite, R!Least, Least,
         R!RemainingCapacity, RemainingCapacity
<1> QED  BY <1>1, SameKeys, SameWithout DEF R!Drain, Drain

LEMMA SameMergeWith == \A s, m, k : R!MergeWith(s, m, k) = MergeWith(s, m, k)
  BY DEF R!MergeWith, MergeWith

LEMMA SameMerge ==
  \A s, i, data : R!MergeSegments(s, i, data) = MergeSegments(s, i, data)
<1> TAKE s, i, data
<1> DEFINE new == [lft |-> i, data |-> data, absorbed |-> {}, cached |-> TRUE]
           mine == FoldLeft(LAMBDA x, k : MergeWith(s, x, k), new, Keys(s))
           yours == R!FoldLeft(LAMBDA x, k : R!MergeWith(s, x, k), new, R!Keys(s))
           result(m, rest) == IF m.cached
             THEN [k \in DOMAIN rest \cup {m.lft} |-> IF k = m.lft THEN m.data ELSE rest[k]]
             ELSE rest
<1>1. yours = mine
  <2> DEFINE d == new
             keys == Keys(s)
  <2>1. R!Keys(s) = keys  BY SameKeys
  <2> HIDE DEF d, keys
  <2>2. R!FoldLeft(LAMBDA x, k : R!MergeWith(s, x, k), d, keys)
          = FoldLeft(LAMBDA x, k : MergeWith(s, x, k), d, keys)
    BY DEF R!FoldLeft, FoldLeft, R!MapThenFoldSet, MapThenFoldSet, R!Max, Max,
           R!MergeWith, MergeWith
  <2> QED  BY <2>1, <2>2 DEF d, keys
<1>2. MergeSegments(s, i, data) = result(mine, Without(s, mine.absorbed))
  BY DEF MergeSegments
<1>3. R!MergeSegments(s, i, data) = result(yours, R!Without(s, yours.absorbed))
  BY DEF R!MergeSegments
<1> HIDE DEF mine, yours
<1> QED  BY <1>1, <1>2, <1>3, SameWithout

-----------------------------------------------------------------------------
\* A cache and its excerpts.
LEMMA CacheFields ==
  ASSUME NEW segs \in Caches
  PROVE  /\ segs \in [DOMAIN segs -> Seq(Nat)]
         /\ \E n \in Nat : DOMAIN segs \subseteq 1 .. n
         /\ \A k \in DOMAIN segs : /\ k \in Nat \ {0} /\ segs[k] \in Seq(Nat)
                                   /\ Len(segs[k]) \in Nat
<1>1. PICK n \in Nat : \E D \in SUBSET (1 .. n) : segs \in [D -> Seq(Nat)]  BY DEF Caches
<1>2. PICK D \in SUBSET (1 .. n) : segs \in [D -> Seq(Nat)]  BY <1>1
<1>3. DOMAIN segs = D  BY <1>2
<1>4. ASSUME NEW k \in D PROVE k \in Nat \ {0} /\ segs[k] \in Seq(Nat) /\ Len(segs[k]) \in Nat
  <2>1. segs[k] \in Seq(Nat)  BY <1>2
  <2>2. k \in 1 .. n  BY <1>2
  <2> QED  BY <2>1, <2>2, LenProperties
<1> QED  BY <1>2, <1>3, <1>4

LEMMA CacheIs ==
  ASSUME NEW n \in Nat, NEW D \in SUBSET (1 .. n), NEW segs \in [D -> Seq(Nat)]
  PROVE  segs \in Caches
  BY DEF Caches

LEMMA WithoutType ==
  ASSUME NEW segs \in Caches, NEW gone
  PROVE  /\ Without(segs, gone) \in Caches
         /\ DOMAIN Without(segs, gone) \subseteq DOMAIN segs
<1> DEFINE D == DOMAIN segs \ gone
           rest == Without(segs, gone)
<1>1. PICK n \in Nat : DOMAIN segs \subseteq 1 .. n  BY CacheFields
<1>2. segs \in [DOMAIN segs -> Seq(Nat)]  BY CacheFields
<1>3. rest = [k \in D |-> segs[k]]  BY DEF Without, Restrict
<1>4. D \in SUBSET (1 .. n)  BY <1>1
<1>5. rest \in [D -> Seq(Nat)]  BY <1>2, <1>3
<1>6. DOMAIN rest \subseteq DOMAIN segs  BY <1>3
<1> HIDE DEF rest, D
<1>7. rest \in Caches  BY <1>4, <1>5, CacheIs
<1> QED  BY <1>6, <1>7 DEF rest

\* The keys of a cache are listed.
LEMMA KeysType ==
  ASSUME NEW segs \in Caches
  PROVE  /\ Cardinality(DOMAIN segs) \in Nat
         /\ Keys(segs) \in [1 .. Cardinality(DOMAIN segs) -> DOMAIN segs]
<1>1. PICK n \in Nat : DOMAIN segs \subseteq 1 .. n  BY CacheFields
<1> QED  BY <1>1, AscendingLists DEF Keys, IsAscending

\* The bytes of an excerpt from one place to another.
LEMMA CutType ==
  ASSUME NEW data \in Seq(Nat), NEW m \in Nat \ {0}, NEW n \in Int, n <= Len(data)
  PROVE  SubSeq(data, m, n) \in Seq(Nat)
<1>1. Len(data) \in Nat  BY LenProperties
<1>2. \A i \in m .. n : i \in 1 .. Len(data)  BY <1>1
<1>3. \A i \in m .. n : data[i] \in Nat  BY <1>2, ElementOfSeq
<1>4. m \in Int  OBVIOUS
<1> QED  BY <1>3, <1>4, SubSeqProperties

\* The fields of a reassembler.
LEMMA ReassemblerFields ==
  ASSUME NEW r \in Reassembler
  PROVE  /\ r.assemble_idx \in Nat /\ r.eof_idx \in Int /\ r.segments \in Caches
         /\ r.output \in Stream(RecvCapacity) /\ r.output.written \in Nat
<1>1. /\ r.assemble_idx \in Nat /\ r.eof_idx \in Int /\ r.segments \in Caches
      /\ r.output \in Stream(RecvCapacity)
  BY DEF Reassembler
<1>2. RecvCapacity \in Nat  BY Constants
<1>3. r.output.written \in Nat  BY <1>1, <1>2, StreamFields
<1> QED  BY <1>1, <1>3

\* Assembling moves the index on and ends nothing.
LEMMA AssembleType ==
  ASSUME NEW r \in Reassembler, NEW data \in Seq(Nat), NEW index \in Int,
         index <= r.assemble_idx, NEW t, t = Assemble(r, index, data)
  PROVE  /\ t \in Reassembler /\ t.eof_idx = r.eof_idx /\ t.segments = r.segments
         /\ t.output.ended => r.output.ended
<1> DEFINE a == r.assemble_idx
           m == a - index + 1
           rest == SubSeq(data, m, Len(data))
           out == StreamWrite(r.output, rest, RecvCapacity)
           next == a + (out.written - r.output.written)
<1>1. /\ a \in Nat /\ r.output \in Stream(RecvCapacity) /\ r.output.written \in Nat
      /\ RecvCapacity \in Nat
  BY ReassemblerFields, Constants
<1>2. t = [r EXCEPT !.output = out, !.assemble_idx = next]  BY DEF Assemble
<1>3. rest \in Seq(Nat)
  <2>1. Len(data) \in Nat  BY LenProperties
  <2>2. m \in Nat \ {0}  BY <1>1
  <2> HIDE DEF m
  <2> QED  BY <2>1, <2>2, CutType
<1> HIDE DEF rest
<1>4. /\ out \in Stream(RecvCapacity) /\ (out.ended => r.output.ended)
      /\ out.written - r.output.written \in 0 .. Len(rest)
  <2> DEFINE st == r.output
  <2>1. st \in Stream(RecvCapacity)  BY <1>1
  <2>2. out = StreamWrite(st, rest, RecvCapacity)  OBVIOUS
  <2> HIDE DEF st, out
  <2>3. out \in Stream(RecvCapacity)  BY <1>1, <1>3, <2>1, <2>2, WriteType, Zenon
  <2>4. out.ended => st.ended  BY <1>1, <1>3, <2>1, <2>2, WriteType, Zenon
  <2>5. out.written - st.written \in 0 .. Len(rest)
    BY <1>1, <1>3, <2>1, <2>2, WriteType, Zenon
  <2> QED  BY <2>3, <2>4, <2>5 DEF st
<1> HIDE DEF out
<1>5. next \in Nat
  <2> DEFINE d == out.written - r.output.written
  <2>1. d \in 0 .. Len(rest) /\ Len(rest) \in Nat  BY <1>3, <1>4, LenProperties
  <2> HIDE DEF d
  <2>2. a + d \in Nat  BY <1>1, <2>1
  <2> QED  BY <2>2 DEF d
<1> HIDE DEF next
<1>6. /\ t \in Reassembler /\ t.eof_idx = r.eof_idx /\ t.segments = r.segments
      /\ t.output = out
  BY <1>2, <1>4, <1>5 DEF Reassembler
<1> QED  BY <1>4, <1>6

\* What the loop over the cached excerpts of r may have made of it.
DrainStates(r) ==
  {d \in [r : Reassembler, done : SUBSET DOMAIN r.segments] :
     /\ d.r.segments = r.segments /\ d.r.eof_idx = r.eof_idx
     /\ d.r.output.ended => r.output.ended}

LEMMA DrainAtType ==
  ASSUME NEW r \in Reassembler, NEW d \in DrainStates(r), NEW k \in DOMAIN r.segments
  PROVE  DrainAt(d, k) \in DrainStates(r)
<1> DEFINE a == d.r.assemble_idx
           data == d.r.segments[k]
           done == d.done \cup {k}
           skip == [d EXCEPT !.done = @ \cup {k}]
           q == Assemble(d.r, k, data)
           Useless == k + Len(data) <= a \/ data = <<>>
           Early == a < k /\ data # <<>>
<1>1. /\ d \in [r : Reassembler, done : SUBSET DOMAIN r.segments]
      /\ d.r.segments = r.segments /\ d.r.eof_idx = r.eof_idx
      /\ d.r.output.ended => r.output.ended
  BY DEF DrainStates
<1>2. /\ a \in Nat /\ data \in Seq(Nat) /\ Len(data) \in Nat /\ k \in Nat
  <2>1. d.r \in Reassembler /\ d.r.segments = r.segments  BY <1>1
  <2>2. a \in Nat /\ r.segments \in Caches  BY <2>1, ReassemblerFields
  <2>3. k \in Nat /\ r.segments[k] \in Seq(Nat) /\ Len(r.segments[k]) \in Nat
    BY <2>2, CacheFields
  <2> QED  BY <2>1, <2>2, <2>3
<1>3. DrainAt(d, k) = CASE Useless -> skip [] Early -> d
                        [] OTHER -> [r |-> q, done |-> done]
  BY DEF DrainAt
<1>4. done \in SUBSET DOMAIN r.segments  BY <1>1
<1>5. skip \in DrainStates(r)
  <2>1. skip = [d EXCEPT !.done = done]  OBVIOUS
  <2> HIDE DEF done, skip
  <2>2. skip \in [r : Reassembler, done : SUBSET DOMAIN r.segments] /\ skip.r = d.r
    BY <1>1, <1>4, <2>1
  <2> QED  BY <1>1, <2>2 DEF DrainStates
<1>6. CASE Useless
  <2>1. ~Early  BY <1>2, <1>6
  <2> HIDE DEF skip, q, done, Early
  <2>2. DrainAt(d, k) = skip  BY <1>3, <1>6, <2>1
  <2> QED  BY <1>5, <2>2
<1>7. CASE Early
  <2>1. ~Useless  BY <1>2, <1>7
  <2> HIDE DEF skip, q, done, Useless
  <2>2. DrainAt(d, k) = d  BY <1>3, <1>7, <2>1
  <2> QED  BY <2>2
<1>8. CASE ~Useless /\ ~Early
  <2>1. k <= a  BY <1>2, <1>8
  <2>2. /\ q \in Reassembler /\ q.eof_idx = r.eof_idx /\ q.segments = r.segments
        /\ q.output.ended => r.output.ended
    <3> DEFINE s == d.r
    <3>1. s \in Reassembler /\ k \in Int /\ k <= s.assemble_idx  BY <1>1, <1>2, <2>1
    <3>2. q = Assemble(s, k, data)  OBVIOUS
    <3> HIDE DEF s, q, data
    <3>3. q \in Reassembler  BY <1>2, <3>1, <3>2, AssembleType, Zenon
    <3>4. q.eof_idx = s.eof_idx /\ q.segments = s.segments
      BY <3>1, <3>2 DEF Assemble, Reassembler
    <3>5. q.output.ended => s.output.ended  BY <1>2, <3>1, <3>2, AssembleType, Zenon
    <3> QED  BY <1>1, <3>3, <3>4, <3>5 DEF s
  <2> HIDE DEF skip, q, done, Useless, Early
  <2>3. DrainAt(d, k) = [r |-> q, done |-> done]  BY <1>3, <1>8
  <2> QED  BY <1>4, <2>2, <2>3 DEF DrainStates
<1> QED  BY <1>6, <1>7, <1>8

\* The loop ends nothing.
LEMMA DrainType ==
  ASSUME NEW r \in Reassembler, NEW t, t = Drain(r)
  PROVE  t \in Reassembler /\ t.eof_idx = r.eof_idx /\ (t.output.ended => r.output.ended)
<1> DEFINE V == DrainStates(r)
           keys == Keys(r.segments)
           n == Cardinality(DOMAIN r.segments)
<1>1. r.segments \in Caches  BY ReassemblerFields
<1>2. n \in Nat /\ keys \in [1 .. n -> DOMAIN r.segments]  BY <1>1, KeysType
<1>3. [r |-> r, done |-> {}] \in V  BY DEF DrainStates
<1>4. \A d \in V : \A k \in DOMAIN r.segments : R!DrainAt(d, k) \in V
  BY SameDrainAt, DrainAtType
<1>5. keys = R!Keys(r.segments)  BY SameKeys
<1> HIDE DEF V, keys, n
<1>6. PICK f : R!IsDrainLoop(f, r, keys, n, V)
  BY <1>2, <1>3, <1>4, <1>5, InstanceIsSound, R!DrainIsLoop
<1>7. f \in [0 .. n -> V] /\ R!Drain(r) = [f[n].r EXCEPT !.segments = R!Without(@, f[n].done)]
  BY <1>6 DEF R!IsDrainLoop
<1> DEFINE d == f[n]
           rest == Without(d.r.segments, d.done)
<1>8. d \in V  BY <1>2, <1>7
<1>9. t = [d.r EXCEPT !.segments = rest]  BY <1>7, SameDrain, SameWithout
<1> HIDE DEF d
<1>10. /\ d.r \in Reassembler /\ d.r.eof_idx = r.eof_idx
       /\ d.r.output.ended => r.output.ended
  BY <1>8 DEF V, DrainStates
<1>11. rest \in Caches
  <2>1. d.r.segments \in Caches  BY <1>10, ReassemblerFields
  <2> QED  BY <2>1, WithoutType
<1> HIDE DEF rest
<1>12. t \in Reassembler /\ t.eof_idx = d.r.eof_idx /\ t.output = d.r.output
  BY <1>9, <1>10, <1>11 DEF Reassembler
<1> QED  BY <1>10, <1>12

\* What the loop over the cached excerpts may make of a new one.
MergeStates(segs) ==
  [lft : Nat \ {0}, data : Seq(Nat), absorbed : SUBSET DOMAIN segs, cached : BOOLEAN]

LEMMA MergeWithType ==
  ASSUME NEW segs \in Caches, NEW m \in MergeStates(segs), NEW k \in DOMAIN segs
  PROVE  MergeWith(segs, m, k) \in MergeStates(segs)
<1> DEFINE old == segs[k]
           lft == m.lft
           data == m.data
           rgt == lft + Len(data)
           oldRgt == k + Len(old)
           more == m.absorbed \cup {k}
           after == SubSeq(data, 1, k - lft) \o old
           before == SubSeq(old, 1, lft - k) \o data
           C1 == lft <= k /\ k <= rgt /\ oldRgt <= rgt
           C2 == lft <= k /\ k <= rgt /\ rgt < oldRgt
           C3 == k < lft /\ lft <= oldRgt /\ rgt <= oldRgt
           C4 == k < lft /\ lft <= oldRgt /\ oldRgt < rgt
           e1 == [m EXCEPT !.absorbed = more]
           e2 == [m EXCEPT !.data = after, !.absorbed = more]
           e3 == [m EXCEPT !.cached = FALSE]
           e4 == [m EXCEPT !.data = before, !.lft = k, !.absorbed = more]
<1>1. /\ lft \in Nat \ {0} /\ data \in Seq(Nat) /\ Len(data) \in Nat
      /\ k \in Nat \ {0} /\ old \in Seq(Nat) /\ Len(old) \in Nat
      /\ more \in SUBSET DOMAIN segs
  <2>1. data \in Seq(Nat)  BY DEF MergeStates
  <2> QED  BY <2>1, CacheFields, LenProperties DEF MergeStates
<1>2. MergeWith(segs, m, k) =
        CASE C1 -> e1 [] C2 -> e2 [] C3 -> e3 [] C4 -> e4 [] OTHER -> m
  BY DEF MergeWith
<1>3. m \in [lft : Nat \ {0}, data : Seq(Nat), absorbed : SUBSET DOMAIN segs,
             cached : BOOLEAN]
  BY DEF MergeStates
<1> HIDE DEF more
<1>4. CASE C1
  <2>1. ~C2 /\ ~C3 /\ ~C4  BY <1>1, <1>4
  <2>2. e1 \in MergeStates(segs)  BY <1>1, <1>3 DEF MergeStates
  <2> HIDE DEF C2, C3, C4, e1, e2, e3, e4
  <2>3. MergeWith(segs, m, k) = e1  BY <1>2, <1>4, <2>1
  <2> QED  BY <2>2, <2>3
<1>5. CASE C2
  <2>1. ~C1 /\ ~C3 /\ ~C4  BY <1>1, <1>5
  <2>2. after \in Seq(Nat)
    <3> DEFINE l == k - lft
    <3>1. l \in Int /\ l <= Len(data) /\ 1 \in Nat \ {0}  BY <1>1, <1>5
    <3> HIDE DEF l
    <3>2. SubSeq(data, 1, l) \in Seq(Nat)  BY <1>1, <3>1, CutType
    <3> QED  BY <1>1, <3>2, ConcatProperties DEF l
  <2> HIDE DEF after
  <2>3. e2 \in MergeStates(segs)  BY <1>1, <1>3, <2>2 DEF MergeStates
  <2> HIDE DEF C1, C3, C4, e1, e2, e3, e4
  <2>4. MergeWith(segs, m, k) = e2  BY <1>2, <1>5, <2>1
  <2> QED  BY <2>3, <2>4
<1>6. CASE C3
  <2>1. ~C1 /\ ~C2 /\ ~C4  BY <1>1, <1>6
  <2>2. e3 \in MergeStates(segs)  BY <1>3 DEF MergeStates
  <2> HIDE DEF C1, C2, C4, e1, e2, e3, e4
  <2>3. MergeWith(segs, m, k) = e3  BY <1>2, <1>6, <2>1
  <2> QED  BY <2>2, <2>3
<1>7. CASE C4
  <2>1. ~C1 /\ ~C2 /\ ~C3  BY <1>1, <1>7
  <2>2. before \in Seq(Nat)
    <3> DEFINE l == lft - k
    <3>1. l \in Int /\ l <= Len(old) /\ 1 \in Nat \ {0}  BY <1>1, <1>7
    <3> HIDE DEF l
    <3>2. SubSeq(old, 1, l) \in Seq(Nat)  BY <1>1, <3>1, CutType
    <3> QED  BY <1>1, <3>2, ConcatProperties DEF l
  <2> HIDE DEF before
  <2>3. e4 \in MergeStates(segs)  BY <1>1, <1>3, <2>2 DEF MergeStates
  <2> HIDE DEF C1, C2, C3, e1, e2, e3, e4
  <2>4. MergeWith(segs, m, k) = e4  BY <1>2, <1>7, <2>1
  <2> QED  BY <2>3, <2>4
<1>8. CASE ~C1 /\ ~C2 /\ ~C3 /\ ~C4
  <2> HIDE DEF C1, C2, C3, C4, e1, e2, e3, e4
  <2>1. MergeWith(segs, m, k) = m  BY <1>2, <1>8
  <2> QED  BY <2>1
<1> QED  BY <1>4, <1>5, <1>6, <1>7, <1>8

LEMMA MergeType ==
  ASSUME NEW segs \in Caches, NEW index \in Nat \ {0}, NEW data \in Seq(Nat)
  PROVE  MergeSegments(segs, index, data) \in Caches
<1> DEFINE V == MergeStates(segs)
           keys == Keys(segs)
           n == Cardinality(DOMAIN segs)
<1>1. n \in Nat /\ keys \in [1 .. n -> DOMAIN segs]  BY KeysType
<1>2. [lft |-> index, data |-> data, absorbed |-> {}, cached |-> TRUE] \in V
  BY DEF MergeStates
<1>3. \A m \in V : \A k \in DOMAIN segs : R!MergeWith(segs, m, k) \in V
  BY SameMergeWith, MergeWithType
<1>4. keys = R!Keys(segs)  BY SameKeys
<1> HIDE DEF V, keys, n
<1>5. PICK f : R!IsMergeLoop(f, segs, index, data, keys, n, V)
  BY <1>1, <1>2, <1>3, <1>4, InstanceIsSound, R!MergeIsLoop
<1>6. f \in [0 .. n -> V] /\ R!MergeSegments(segs, index, data) = R!MergeResult(segs, f[n])
  BY <1>5 DEF R!IsMergeLoop
<1> DEFINE m == f[n]
           rest == Without(segs, m.absorbed)
           D == DOMAIN rest \cup {m.lft}
           new == [k \in D |-> IF k = m.lft THEN m.data ELSE rest[k]]
<1>7. m \in V  BY <1>1, <1>6
<1>8. MergeSegments(segs, index, data) = IF m.cached THEN new ELSE rest
  BY <1>6, SameMerge, SameWithout DEF R!MergeResult
<1> HIDE DEF m
<1>9. m.lft \in Nat \ {0} /\ m.data \in Seq(Nat)  BY <1>7 DEF V, MergeStates
<1>10. rest \in Caches  BY WithoutType
<1> HIDE DEF rest
<1>11. PICK b \in Nat : DOMAIN rest \subseteq 1 .. b  BY <1>10, CacheFields
<1>12. new \in Caches
  <2> DEFINE l == m.lft
             c == IF l <= b THEN b ELSE l
  <2>1. c \in Nat /\ b <= c /\ l \in 1 .. c  BY <1>9
  <2> HIDE DEF c
  <2>2. D \in SUBSET (1 .. c)
    <3>1. 1 .. b \subseteq 1 .. c  BY <2>1
    <3> QED  BY <1>11, <2>1, <3>1
  <2>3. \A k \in DOMAIN rest : rest[k] \in Seq(Nat)  BY <1>10, CacheFields
  <2>4. new \in [D -> Seq(Nat)]  BY <1>9, <2>3
  <2> HIDE DEF new, D
  <2> QED  BY <2>1, <2>2, <2>4, CacheIs
<1> QED  BY <1>8, <1>10, <1>12

LEMMA EndIsOK ==
  ASSUME NEW eof, NEW r, ReassemblerOK(r, eof)
  PROVE  ReassemblerOK(EndIfComplete(r), eof)
<1> DEFINE out == StreamEnd(r.output)
           t == [r EXCEPT !.output = out]
<1>1. r \in Reassembler  BY DEF ReassemblerOK
<1>2. /\ r.assemble_idx \in Nat /\ r.eof_idx \in Int /\ r.output \in Stream(RecvCapacity)
      /\ RecvCapacity \in Nat
  BY <1>1, ReassemblerFields, Constants
<1>3. CASE UnassembledBytes(r) = 0 /\ r.assemble_idx = r.eof_idx
  <2>1. EndIfComplete(r) = t  BY <1>3 DEF EndIfComplete
  <2>2. r.eof_idx # NoEof  BY <1>2, <1>3 DEF NoEof
  <2>3. eof  BY <2>2 DEF ReassemblerOK
  <2>4. out \in Stream(RecvCapacity)  BY <1>2, EndType
  <2> HIDE DEF out
  <2>5. t \in Reassembler  BY <1>1, <2>4 DEF Reassembler
  <2> QED  BY <2>1, <2>3, <2>5 DEF ReassemblerOK
<1>4. CASE ~(UnassembledBytes(r) = 0 /\ r.assemble_idx = r.eof_idx)
  BY <1>4 DEF EndIfComplete
<1> QED  BY <1>3, <1>4

\* Only a FIN tells a reassembler where its input ends.
LEMMA PushIsOK ==
  ASSUME NEW eof, NEW r, ReassemblerOK(r, eof), NEW data \in Seq(Nat), NEW index \in Int,
         NEW fin, fin => eof, NEW t, t = PushSubstring(r, data, index, fin)
  PROVE  ReassemblerOK(t, eof)
<1> DEFINE next == index + Len(data)
           told == [r EXCEPT !.eof_idx = next]
           known == IF fin THEN told ELSE r
           a == r.assemble_idx
           segs == MergeSegments(known.segments, index, data)
           early == [known EXCEPT !.segments = segs]
           q == Assemble(known, index, data)
           u == Drain(q)
<1>1. r \in Reassembler /\ Len(data) \in Nat  BY LenProperties DEF ReassemblerOK
<1>2. a \in Nat  BY <1>1, ReassemblerFields
<1>3. ReassemblerOK(known, eof) /\ known.assemble_idx = a
  <2>1. CASE fin
    <3>1. next \in Int  BY <1>1
    <3> HIDE DEF next
    <3>2. told \in Reassembler /\ told.assemble_idx = a /\ eof
      BY <1>1, <2>1, <3>1 DEF Reassembler
    <3> QED  BY <2>1, <3>2 DEF ReassemblerOK
  <2>2. CASE ~fin  BY <2>2
  <2> QED  BY <2>1, <2>2
<1>4. t = CASE index > a -> early [] next < a -> known [] OTHER -> EndIfComplete(u)
  BY DEF PushSubstring
<1> HIDE DEF known
<1>5. known \in Reassembler  BY <1>3 DEF ReassemblerOK
<1>6. CASE index > a
  <2>1. ~(next < a)  BY <1>1, <1>2, <1>6
  <2>2. known.segments \in Caches  BY <1>5, ReassemblerFields
  <2>3. segs \in Caches
    <3>1. index \in Nat \ {0}  BY <1>2, <1>6
    <3> QED  BY <2>2, <3>1, MergeType
  <2> HIDE DEF segs, next
  <2>4. early \in Reassembler /\ early.eof_idx = known.eof_idx
        /\ early.output = known.output
    BY <1>5, <2>3 DEF Reassembler
  <2>5. ReassemblerOK(early, eof)  BY <1>3, <2>4 DEF ReassemblerOK
  <2> HIDE DEF early
  <2>6. t = early  BY <1>4, <1>6, <2>1
  <2> QED  BY <2>5, <2>6
<1>7. CASE next < a /\ ~(index > a)
  <2> HIDE DEF next, early
  <2>1. t = known  BY <1>4, <1>7
  <2> QED  BY <1>3, <2>1
<1>8. CASE ~(next < a) /\ ~(index > a)
  <2>1. index <= known.assemble_idx  BY <1>2, <1>3, <1>8
  <2>2. q \in Reassembler  BY <1>5, <2>1, AssembleType, Zenon
  <2>3. q.eof_idx = known.eof_idx
    BY <1>5, <2>1 DEF Assemble, Reassembler
  <2>4. q.output.ended => known.output.ended  BY <1>5, <2>1, AssembleType, Zenon
  <2> HIDE DEF q
  <2>5. u \in Reassembler /\ u.eof_idx = q.eof_idx /\ (u.output.ended => q.output.ended)
    BY <2>2, DrainType
  <2> HIDE DEF u
  <2>6. ReassemblerOK(u, eof)  BY <1>3, <2>3, <2>4, <2>5 DEF ReassemblerOK
  <2>7. ReassemblerOK(EndIfComplete(u), eof)  BY <2>6, EndIsOK
  <2> HIDE DEF next, early
  <2>8. t = EndIfComplete(u)  BY <1>4, <1>8
  <2> QED  BY <2>7, <2>8
<1> QED  BY <1>6, <1>7, <1>8

\* The fields of a receiver.
LEMMA ReceiverFields ==
  ASSUME NEW r \in Receiver
  PROVE  /\ r.syn_received \in BOOLEAN /\ r.isn \in Raw /\ r.checkpoint \in Nat
         /\ r.reassembler \in Reassembler /\ StreamOut(r) \in Stream(RecvCapacity)
         /\ StreamOut(r).written \in Nat /\ StreamOut(r).ended \in BOOLEAN
<1>1. /\ r.syn_received \in BOOLEAN /\ r.isn \in Raw /\ r.checkpoint \in Nat
      /\ r.reassembler \in Reassembler
  BY DEF Receiver
<1>2. StreamOut(r) \in Stream(RecvCapacity)  BY <1>1, ReassemblerFields DEF StreamOut
<1>3. RecvCapacity \in Nat  BY Constants
<1> QED  BY <1>1, <1>2, <1>3, StreamFields

LEMMA ReceiveIsOK ==
  ASSUME NEW eof, NEW r, ReceiverOK(r, eof), NEW seg \in Segs(eof)
  PROVE  ReceiverOK(ReceiverSegment(r, seg), eof)
<1> DEFINE s == Synchronise(r, seg)
           first == Unwrap(seg.seqno, s.isn, s.checkpoint)
           index == IF seg.syn THEN first ELSE first - 1
           q == PushSubstring(s.reassembler, seg.payload, index, seg.fin)
           t == [s EXCEPT !.reassembler = q, !.checkpoint = q.output.written]
           Taken == HasAckno(s) /\ ~StreamOut(s).ended /\ InWindow(s, seg)
<1>1. /\ seg \in Segment /\ seg.seqno \in Raw /\ seg.payload \in Seq(Nat)
      /\ seg.syn \in BOOLEAN /\ (seg.fin => eof)
  BY DEF Segs, Segment
<1>2. r \in Receiver /\ ReassemblerOK(r.reassembler, eof)  BY DEF ReceiverOK
<1>3. s \in Receiver /\ s.reassembler = r.reassembler
  <2>1. CASE seg.syn /\ ~r.syn_received
    <3>1. s = [r EXCEPT !.syn_received = TRUE, !.isn = seg.seqno]
      BY <2>1 DEF Synchronise
    <3> HIDE DEF s
    <3> QED  BY <1>1, <1>2, <3>1 DEF Receiver
  <2>2. CASE ~(seg.syn /\ ~r.syn_received)  BY <1>2, <2>2 DEF Synchronise
  <2> QED  BY <2>1, <2>2
<1>4. ReceiverSegment(r, seg) = IF Taken THEN t ELSE s  BY DEF ReceiverSegment
<1> HIDE DEF s
<1>5. index \in Int
  <2>1. s.isn \in Raw /\ s.checkpoint \in Int  BY <1>3, ReceiverFields
  <2>2. first \in Int  BY <1>1, <2>1, NumberTypes
  <2> HIDE DEF first
  <2> QED  BY <2>2
<1> HIDE DEF index
<1>6. ReassemblerOK(q, eof)
  <2>1. ReassemblerOK(s.reassembler, eof)  BY <1>2, <1>3
  <2> QED  BY <1>1, <1>5, <2>1, PushIsOK
<1> HIDE DEF q
<1>7. t \in Receiver /\ t.reassembler = q
  <2>1. q \in Reassembler /\ q.output.written \in Nat
    BY <1>6, ReassemblerFields DEF ReassemblerOK
  <2> QED  BY <1>3, <2>1 DEF Receiver
<1> HIDE DEF t, Taken
<1>8. ReceiverOK(t, eof) /\ ReceiverOK(s, eof)
  BY <1>2, <1>3, <1>6, <1>7 DEF ReceiverOK
<1> QED  BY <1>4, <1>8

LEMMA ReadIsOK ==
  ASSUME NEW eof, NEW r, ReceiverOK(r, eof)
  PROVE  ReceiverOK(ReceiverRead(r, RecvCapacity), eof)
<1> DEFINE b == r.reassembler
           out == StreamPop(b.output, RecvCapacity)
           q == [b EXCEPT !.output = out]
           t == [r EXCEPT !.reassembler = q]
<1>1. r \in Receiver /\ b \in Reassembler /\ ReassemblerOK(b, eof)
  BY DEF ReceiverOK, ReassemblerOK
<1>2. ReceiverRead(r, RecvCapacity) = t  BY DEF ReceiverRead
<1>3. out \in Stream(RecvCapacity) /\ out.ended = b.output.ended
  <2> DEFINE st == b.output
  <2>1. st \in Stream(RecvCapacity) /\ RecvCapacity \in Nat
    BY <1>1, ReassemblerFields, Constants
  <2>2. out = StreamPop(st, RecvCapacity)  OBVIOUS
  <2> HIDE DEF st, out
  <2>3. out \in Stream(RecvCapacity) /\ out.ended = st.ended  BY <2>1, <2>2, PopType
  <2> QED  BY <2>3 DEF st
<1> HIDE DEF out
<1>4. q \in Reassembler /\ q.eof_idx = b.eof_idx /\ q.output = out
  BY <1>1, <1>3 DEF Reassembler
<1> HIDE DEF q
<1>5. ReassemblerOK(q, eof)  BY <1>1, <1>3, <1>4 DEF ReassemblerOK
<1>6. t \in Receiver /\ t.reassembler = q  BY <1>1, <1>4 DEF Receiver
<1> QED  BY <1>2, <1>5, <1>6 DEF ReceiverOK

LEMMA NewReceiverIsOK == ReceiverOK(NewReceiver, FALSE)
<1>1. EmptyStream \in Stream(RecvCapacity)  BY Constants, EmptyType
<1>2. ~EmptyStream.ended  BY DEF EmptyStream
<1> HIDE DEF EmptyStream
<1>3. <<>> \in Caches
  <2>1. <<>> \in [{} -> Seq(Nat)]  OBVIOUS
  <2>2. {} \in SUBSET (1 .. 0)  OBVIOUS
  <2> QED  BY <2>1, <2>2, CacheIs
<1>4. NewReassembler \in Reassembler /\ ReassemblerOK(NewReassembler, FALSE)
  BY <1>1, <1>2, <1>3 DEF NewReassembler, Reassembler, ReassemblerOK, NoEof
<1>5. 0 \in Raw  BY Constants DEF Raw
<1> HIDE DEF NewReassembler
<1> QED  BY <1>4, <1>5 DEF NewReceiver, Receiver, ReceiverOK

-----------------------------------------------------------------------------
LEMMA ModAtMost ==
  ASSUME NEW m \in Nat \ {0}, NEW x \in Nat
  PROVE  x % m \in 0 .. x
<1>1. x % m \in 0 .. m - 1 /\ x = (x \div m) * m + (x % m)  BY SMT
<1>2. x \div m \in Nat  BY SMT
<1>3. 0 * m <= (x \div m) * m /\ (x \div m) * m \in Int
  <2> DEFINE d == x \div m
  <2>1. 0 \in Int /\ d \in Int /\ 0 <= d /\ m \in Nat  BY <1>2
  <2> HIDE DEF d
  <2>2. 0 * m <= d * m /\ d * m \in Int  BY <2>1, TimesMonotonic
  <2> QED  BY <2>2 DEF d
<1>4. 0 * m = 0  OBVIOUS
<1> DEFINE q == (x \div m) * m
           r == x % m
<1>5. q \in Int /\ 0 <= q /\ r \in 0 .. m - 1 /\ x = q + r  BY <1>1, <1>3, <1>4
<1> HIDE DEF q, r
<1>6. r \in 0 .. x  BY <1>5
<1> QED  BY <1>6 DEF r

\* The fields of a connection.
LEMMA ConnectionFields ==
  ASSUME NEW eof, NEW most, NEW c, ConnectionOK(c, eof, most)
  PROVE  /\ c \in Connection /\ c.snd \in Sender /\ SenderOK(c.snd)
         /\ c.rcv \in Receiver /\ ReceiverOK(c.rcv, eof)
         /\ c.linger \in BOOLEAN /\ c.idle \in 0 .. LingerTime /\ c.active \in BOOLEAN
         /\ AllSegs(c.out, AtEof(c.snd.stream)) /\ c.snd.stream.written <= most
         /\ AtEof(c.snd.stream) \in BOOLEAN
<1>1. /\ c \in Connection /\ SenderOK(c.snd) /\ ReceiverOK(c.rcv, eof)
      /\ AllSegs(c.out, AtEof(c.snd.stream)) /\ c.snd.stream.written <= most
  BY DEF ConnectionOK, Outbound
<1>2. c.snd \in Sender  BY <1>1 DEF SenderOK
<1>3. AtEof(c.snd.stream) \in BOOLEAN  BY <1>2, SenderFields
<1> QED  BY <1>1, <1>2, <1>3 DEF Connection

\* A part of a call after which the end of the connection is not looked for.
Quiet(c, d, eof, most) ==
  /\ ConnectionOK(d, eof, most)
  /\ AtEof(Outbound(c)) => AtEof(Outbound(d))
  /\ d.linger <=> c.linger

\* A call: a connection stops waiting only when it has heard the end of its
\* input (eof) before its own stream was read to its end.
Evolves(c, d, eof, most) ==
  /\ ConnectionOK(d, eof, most)
  /\ AtEof(Outbound(c)) => AtEof(Outbound(d))
  /\ c.linger /\ ~d.linger => eof /\ ~AtEof(Outbound(d))

LEMMA QuietTwice ==
  ASSUME NEW eof, NEW most, NEW c, NEW d, NEW e,
         Quiet(c, d, eof, most), Quiet(d, e, eof, most)
  PROVE  Quiet(c, e, eof, most)
  BY DEF Quiet

LEMMA QuietEvolves ==
  ASSUME NEW eof, NEW most, NEW c, NEW d, Quiet(c, d, eof, most)
  PROVE  Evolves(c, d, eof, most)
  BY DEF Quiet, Evolves

LEMMA QuietThenEvolves ==
  ASSUME NEW eof, NEW most, NEW c, NEW d, NEW e,
         Quiet(c, d, eof, most), Evolves(d, e, eof, most)
  PROVE  Evolves(c, e, eof, most)
  BY DEF Quiet, Evolves

LEMMA SameIsQuiet ==
  ASSUME NEW eof, NEW most, NEW c, ConnectionOK(c, eof, most)
  PROVE  Quiet(c, c, eof, most)
  BY DEF Quiet

\* The sender has changed.
LEMMA SenderIsQuiet ==
  ASSUME NEW eof, NEW most, NEW c, ConnectionOK(c, eof, most), NEW t, Sends(c.snd, t),
         NEW d, d = [c EXCEPT !.snd = t]
  PROVE  Quiet(c, d, eof, most)
<1>1. /\ c \in Connection /\ ReceiverOK(c.rcv, eof)
      /\ AllSegs(c.out, AtEof(c.snd.stream)) /\ c.snd.stream.written <= most
  BY ConnectionFields
<1>2. /\ SenderOK(t) /\ t.stream.written = c.snd.stream.written
      /\ AtEof(c.snd.stream) => AtEof(t.stream)
  BY DEF Sends
<1>3. t \in Sender  BY <1>2 DEF SenderOK
<1>4. /\ d \in Connection /\ d.snd = t /\ d.rcv = c.rcv /\ d.out = c.out
      /\ d.linger <=> c.linger
  BY <1>1, <1>3 DEF Connection
<1>5. AllSegs(d.out, AtEof(t.stream))  BY <1>1, <1>2, <1>4, SegsGrow
<1> QED  BY <1>1, <1>2, <1>4, <1>5 DEF Quiet, ConnectionOK, Outbound

\* The receiver has changed.
LEMMA ReceiverIsQuiet ==
  ASSUME NEW eof, NEW most, NEW c, ConnectionOK(c, eof, most), NEW t, ReceiverOK(t, eof),
         NEW d, d = [c EXCEPT !.rcv = t]
  PROVE  Quiet(c, d, eof, most)
<1>1. t \in Receiver /\ c \in Connection  BY ConnectionFields DEF ReceiverOK
<1>2. /\ d \in Connection /\ d.snd = c.snd /\ d.rcv = t /\ d.out = c.out
      /\ d.linger <=> c.linger
  BY <1>1 DEF Connection
<1> QED  BY <1>2 DEF Quiet, ConnectionOK, Outbound

\* The time since a segment was received has changed.
LEMMA IdleIsQuiet ==
  ASSUME NEW eof, NEW most, NEW c, ConnectionOK(c, eof, most),
         NEW n \in 0 .. LingerTime, NEW d, d = [c EXCEPT !.idle = n]
  PROVE  Quiet(c, d, eof, most)
<1>1. c \in Connection  BY ConnectionFields
<1>2. /\ d \in Connection /\ d.snd = c.snd /\ d.rcv = c.rcv /\ d.out = c.out
      /\ d.linger <=> c.linger
  BY <1>1 DEF Connection
<1> QED  BY <1>2 DEF Quiet, ConnectionOK, Outbound

LEMMA RefillIsQuiet ==
  ASSUME NEW eof, NEW most, NEW c, ConnectionOK(c, eof, most)
  PROVE  Quiet(c, Refill(c), eof, most)
<1>1. Sends(c.snd, FillWindow(c.snd))  BY ConnectionFields, FillSends
<1>2. Refill(c) = [c EXCEPT !.snd = FillWindow(c.snd)]  BY DEF Refill
<1> QED  BY <1>1, <1>2, SenderIsQuiet

LEMMA AcknowledgeIsQuiet ==
  ASSUME NEW eof, NEW most, NEW c, ConnectionOK(c, eof, most)
  PROVE  Quiet(c, Acknowledge(c), eof, most)
<1>1. Sends(c.snd, SendEmptySegment(c.snd))  BY ConnectionFields, EmptySegmentSends
<1>2. Acknowledge(c) = [c EXCEPT !.snd = SendEmptySegment(c.snd)]  BY DEF Acknowledge
<1> QED  BY <1>1, <1>2, SenderIsQuiet

LEMMA ReceiveIsQuiet ==
  ASSUME NEW eof, NEW most, NEW c, ConnectionOK(c, eof, most), NEW seg \in Segs(eof)
  PROVE  Quiet(c, Receive(c, seg), eof, most)
<1>1. ReceiverOK(ReceiverSegment(c.rcv, seg), eof)  BY ConnectionFields, ReceiveIsOK
<1>2. Receive(c, seg) = [c EXCEPT !.rcv = ReceiverSegment(c.rcv, seg)]  BY DEF Receive
<1> QED  BY <1>1, <1>2, ReceiverIsQuiet

LEMMA ExchangeIsQuiet ==
  ASSUME NEW eof, NEW most, NEW c, ConnectionOK(c, eof, most), NEW seg \in Segs(eof)
  PROVE  Quiet(c, Exchange(c, seg), eof, most)
<1> DEFINE d == Receive(c, seg)
           t == AckReceived(d.snd, seg.ackno, seg.win)
           e == [d EXCEPT !.snd = t]
<1>1. Quiet(c, d, eof, most)  BY ReceiveIsQuiet
<1>2. Exchange(c, seg) = e  BY DEF Exchange
<1> HIDE DEF d
<1>3. ConnectionOK(d, eof, most)  BY <1>1 DEF Quiet
<1>4. seg.ackno \in Raw /\ seg.win \in Nat
  <2>1. seg.ackno \in Raw /\ seg.win \in 0 .. RecvCapacity  BY DEF Segs, Segment
  <2> QED  BY <2>1, Constants
<1>5. Sends(d.snd, t)  BY <1>3, <1>4, ConnectionFields, AckSends
<1> HIDE DEF t
<1>6. Quiet(d, e, eof, most)  BY <1>3, <1>5, SenderIsQuiet
<1> QED  BY <1>1, <1>2, <1>6, QuietTwice

LEMMA StampedType ==
  ASSUME NEW eof, NEW most, NEW c, ConnectionOK(c, eof, most), NEW b, NEW seg \in Segs(b)
  PROVE  Stamped(c, seg) \in Segs(b)
<1> DEFINE ackno == Ackno(c.rcv)
           win == WindowSize(c.rcv) % WindowSpan
           t == [seg EXCEPT !.ack = TRUE, !.ackno = ackno, !.win = win]
<1>1. c.rcv \in Receiver  BY ConnectionFields
<1>2. ackno \in Raw
  <2>1. StreamOut(c.rcv).written \in Nat /\ c.rcv.isn \in Raw  BY <1>1, ReceiverFields
  <2>2. Flag(StreamOut(c.rcv).ended) \in Nat  BY DEF Flag
  <2>3. NextExpected(c.rcv) \in Int  BY <2>1, <2>2 DEF NextExpected
  <2> QED  BY <2>1, <2>3, NumberTypes DEF Ackno
<1>3. win \in 0 .. RecvCapacity
  <2> DEFINE w == WindowSize(c.rcv)
             l == Len(StreamOut(c.rcv).buffer)
  <2>1. StreamOut(c.rcv) \in Stream(RecvCapacity) /\ RecvCapacity \in Nat
    BY <1>1, ReceiverFields, Constants
  <2>2. l \in Nat /\ l <= RecvCapacity  BY <2>1, StreamFields
  <2>3. w = RecvCapacity - l  BY DEF WindowSize, RemainingCapacity
  <2> HIDE DEF w, l
  <2>4. w \in Nat /\ w <= RecvCapacity  BY <2>1, <2>2, <2>3
  <2>5. w % WindowSpan \in 0 .. w  BY <2>4, Constants, ModAtMost
  <2>6. w % WindowSpan \in 0 .. RecvCapacity  BY <2>1, <2>4, <2>5
  <2> QED  BY <2>6 DEF w
<1> HIDE DEF ackno, win
<1>4. t \in Segs(b)
  <2>1. seg \in Segment /\ (seg.fin => b)  BY DEF Segs
  <2>2. t \in Segment /\ (t.fin => seg.fin)  BY <1>2, <1>3, <2>1 DEF Segment
  <2> HIDE DEF t
  <2> QED  BY <2>1, <2>2 DEF Segs
<1>5. Stamped(c, seg) = IF HasAckno(c.rcv) THEN t ELSE seg
  BY DEF Stamped, ackno, win
<1> HIDE DEF t
<1> QED  BY <1>4, <1>5

\* What the connection has queued, and what it moves from its sender.
LEMMA FlushEvolves ==
  ASSUME NEW eof, NEW most, NEW c, ConnectionOK(c, eof, most)
  PROVE  Evolves(c, Flush(c), eof, most)
<1> DEFINE snd == [c.snd EXCEPT !.out = <<>>]
           queued == [i \in DOMAIN c.snd.out |-> Stamped(c, c.snd.out[i])]
           out == c.out \o queued
           linger == c.linger /\ ~PeerEndedFirst(c)
           active == c.active /\ ~(Over(c) /\ Lingered(c))
           b == AtEof(c.snd.stream)
           d == [c EXCEPT !.snd = snd, !.out = out, !.linger = linger, !.active = active]
<1>1. Flush(c) = d  BY DEF Flush
<1>2. /\ c \in Connection /\ c.snd \in Sender /\ SenderOK(c.snd)
      /\ ReceiverOK(c.rcv, eof) /\ c.rcv \in Receiver
      /\ c.linger \in BOOLEAN /\ c.active \in BOOLEAN
      /\ AllSegs(c.out, b) /\ c.snd.stream.written <= most
  BY ConnectionFields
<1>3. linger \in BOOLEAN /\ active \in BOOLEAN  BY <1>2
<1>4. c.linger /\ ~linger => eof /\ ~b
  <2> SUFFICES ASSUME c.linger, ~linger PROVE eof /\ ~b  OBVIOUS
  <2>1. StreamOut(c.rcv).ended /\ ~b  BY DEF PeerEndedFirst, Inbound, Outbound
  <2>2. ReassemblerOK(c.rcv.reassembler, eof)  BY <1>2 DEF ReceiverOK
  <2> QED  BY <2>1, <2>2 DEF ReassemblerOK, StreamOut
<1>5. AllSegs(queued, b)
  <2> DEFINE n == Len(c.snd.out)
  <2>1. AllSegs(c.snd.out, b)  BY <1>2 DEF SenderOK
  <2>2. c.snd.out \in Seq(Segment) /\ \A i \in DOMAIN c.snd.out : c.snd.out[i] \in Segs(b)
    BY <2>1 DEF AllSegs
  <2>3. n \in Nat /\ DOMAIN c.snd.out = 1 .. n  BY <2>2, LenProperties
  <2>4. \A i \in 1 .. n : queued[i] \in Segs(b)
    <3> TAKE i \in 1 .. n
    <3>1. c.snd.out[i] \in Segs(b) /\ queued[i] = Stamped(c, c.snd.out[i])
      BY <2>2, <2>3
    <3> QED  BY <3>1, StampedType
  <2>5. queued = [i \in 1 .. n |-> Stamped(c, c.snd.out[i])]  BY <2>3
  <2>6. DOMAIN queued = 1 .. n  BY <2>5
  <2>7. \A i \in 1 .. n : queued[i] \in Segment  BY <2>4 DEF Segs
  <2>8. queued = [i \in 1 .. n |-> queued[i]]  BY <2>5, <2>6
  <2> HIDE DEF queued, n
  <2>9. queued \in [1 .. n -> Segment]  BY <2>7, <2>8
  <2>10. queued \in Seq(Segment)  BY <2>3, <2>9, FunctionIsSeq
  <2> QED  BY <2>4, <2>6, <2>10 DEF AllSegs
<1> HIDE DEF queued
<1>6. AllSegs(out, b)  BY <1>2, <1>5, AllJoined
<1>7. SenderOK(snd) /\ snd \in Sender /\ snd.stream = c.snd.stream
  <2>1. <<>> \in Seq(Segment)  BY EmptySeq
  <2>2. /\ snd \in Sender /\ snd.stream = c.snd.stream /\ snd.next = c.snd.next
        /\ snd.cache = c.snd.cache /\ snd.out = <<>>
    BY <1>2, <2>1 DEF Sender
  <2> HIDE DEF snd
  <2>3. AllSegs(snd.out, b)  BY <2>2, AllEmpty
  <2>4. NumbersOK(snd)  BY <1>2, <2>2 DEF SenderOK, NumbersOK
  <2> QED  BY <1>2, <2>2, <2>3, <2>4 DEF SenderOK
<1> HIDE DEF snd, linger, active
<1>8. out \in Seq(Segment)  BY <1>6 DEF AllSegs
<1> HIDE DEF out
<1>9. /\ d \in Connection /\ d.snd = snd /\ d.rcv = c.rcv /\ d.out = out
      /\ d.linger <=> linger
  BY <1>2, <1>3, <1>7, <1>8 DEF Connection
<1> HIDE DEF d
<1>10. ConnectionOK(d, eof, most)
  BY <1>2, <1>6, <1>7, <1>9 DEF ConnectionOK, Outbound
<1> QED  BY <1>1, <1>4, <1>7, <1>9, <1>10 DEF Evolves, Outbound

\* A failure ends no stream.
LEMMA FailIsQuiet ==
  ASSUME NEW eof, NEW most, NEW c, ConnectionOK(c, eof, most)
  PROVE  Quiet(c, Fail(c), eof, most)
<1> DEFINE sent == StreamFail(c.snd.stream)
           snd == [c.snd EXCEPT !.stream = sent]
           b == c.rcv.reassembler
           got == StreamFail(b.output)
           q == [b EXCEPT !.output = got]
           rcv == [c.rcv EXCEPT !.reassembler = q]
           d == [c EXCEPT !.snd = snd, !.rcv = rcv, !.active = FALSE]
<1>1. Fail(c) = d  BY DEF Fail
<1>2. /\ c \in Connection /\ c.snd \in Sender /\ SenderOK(c.snd)
      /\ ReceiverOK(c.rcv, eof) /\ c.rcv \in Receiver
      /\ AllSegs(c.out, AtEof(c.snd.stream)) /\ c.snd.stream.written <= most
      /\ SendCapacity \in Nat /\ RecvCapacity \in Nat
  BY ConnectionFields, Constants
<1>3. /\ sent \in Stream(SendCapacity) /\ (sent.ended <=> c.snd.stream.ended)
      /\ sent.buffer = c.snd.stream.buffer /\ sent.written = c.snd.stream.written
  <2>1. c.snd.stream \in Stream(SendCapacity)  BY <1>2, SenderFields
  <2> QED  BY <1>2, <2>1 DEF Stream, StreamFail
<1> HIDE DEF sent
<1>4. /\ snd \in Sender /\ snd.stream = sent /\ snd.next = c.snd.next
      /\ snd.cache = c.snd.cache /\ snd.out = c.snd.out
  BY <1>2, <1>3 DEF Sender
<1> HIDE DEF snd
<1>5. AtEof(sent) <=> AtEof(c.snd.stream)  BY <1>3 DEF AtEof
<1>6. SenderOK(snd)
  <2>1. Flag(AtEof(sent)) = Flag(AtEof(c.snd.stream))  BY <1>5 DEF Flag
  <2>2. NumbersOK(snd)  BY <1>2, <1>3, <1>4, <2>1 DEF SenderOK, NumbersOK
  <2>3. AllSegs(snd.out, AtEof(sent))  BY <1>2, <1>4, <1>5, SegsGrow DEF SenderOK
  <2>4. \A x \in snd.cache : x.seg \in Segs(AtEof(sent))
    BY <1>2, <1>4, <1>5, SegsGrow DEF SenderOK
  <2> QED  BY <1>4, <2>2, <2>3, <2>4 DEF SenderOK
<1>7. got \in Stream(RecvCapacity) /\ (got.ended => b.output.ended)
  <2>1. b.output \in Stream(RecvCapacity)
    BY <1>2, ReceiverFields, ReassemblerFields
  <2> QED  BY <1>2, <2>1 DEF Stream, StreamFail
<1> HIDE DEF got
<1>8. b \in Reassembler /\ ReassemblerOK(b, eof)  BY <1>2, ReceiverFields DEF ReceiverOK
<1>9. q \in Reassembler /\ q.eof_idx = b.eof_idx /\ q.output = got
  BY <1>7, <1>8 DEF Reassembler
<1> HIDE DEF q
<1>10. ReassemblerOK(q, eof)  BY <1>7, <1>8, <1>9 DEF ReassemblerOK
<1>11. rcv \in Receiver /\ rcv.reassembler = q  BY <1>2, <1>9 DEF Receiver
<1> HIDE DEF rcv
<1>12. ReceiverOK(rcv, eof)  BY <1>10, <1>11 DEF ReceiverOK
<1>13. /\ d \in Connection /\ d.snd = snd /\ d.rcv = rcv /\ d.out = c.out
       /\ d.linger <=> c.linger
  BY <1>2, <1>4, <1>11 DEF Connection
<1> HIDE DEF d
<1>14. AllSegs(d.out, AtEof(sent))  BY <1>2, <1>5, <1>13, SegsGrow
<1>15. ConnectionOK(d, eof, most)
  BY <1>2, <1>3, <1>4, <1>6, <1>12, <1>13, <1>14 DEF ConnectionOK, Outbound
<1> QED  BY <1>1, <1>4, <1>5, <1>13, <1>15 DEF Quiet, Outbound

LEMMA ResetIsQuiet ==
  ASSUME NEW eof, NEW most, NEW c, ConnectionOK(c, eof, most)
  PROVE  Quiet(c, Reset(c), eof, most)
<1> DEFINE seg == [PlainSegment(0) EXCEPT !.rst = TRUE]
           out == Append(c.out, seg)
           d == [c EXCEPT !.out = out]
<1>1. Reset(c) = Fail(d)  BY DEF Reset
<1>2. /\ c \in Connection /\ AllSegs(c.out, AtEof(c.snd.stream))
  BY ConnectionFields
<1>3. seg \in Segs(AtEof(c.snd.stream))
  <2>1. 0 \in Raw  BY Constants DEF Raw
  <2>2. seg \in Segs(FALSE)  BY <2>1, PlainType
  <2> HIDE DEF seg
  <2> QED  BY <2>2 DEF Segs
<1> HIDE DEF seg
<1>4. AllSegs(out, AtEof(c.snd.stream))  BY <1>2, <1>3, AllAppended
<1>5. out \in Seq(Segment)  BY <1>4 DEF AllSegs
<1> HIDE DEF out
<1>6. /\ d \in Connection /\ d.snd = c.snd /\ d.rcv = c.rcv /\ d.out = out
      /\ d.linger <=> c.linger
  BY <1>2, <1>5 DEF Connection
<1> HIDE DEF d
<1>7. Quiet(c, d, eof, most)  BY <1>4, <1>6 DEF Quiet, ConnectionOK, Outbound
<1>8. Quiet(d, Fail(d), eof, most)  BY <1>7, FailIsQuiet DEF Quiet
<1> QED  BY <1>1, <1>7, <1>8, QuietTwice

LEMMA QuietThenFlush ==
  ASSUME NEW eof, NEW most, NEW c, NEW d, Quiet(c, d, eof, most)
  PROVE  Evolves(c, Flush(d), eof, most)
<1>1. Evolves(d, Flush(d), eof, most)  BY FlushEvolves DEF Quiet
<1> QED  BY <1>1, QuietThenEvolves

LEMMA RefillThenFlush ==
  ASSUME NEW eof, NEW most, NEW c, NEW d, Quiet(c, d, eof, most)
  PROVE  Evolves(c, Flush(Refill(d)), eof, most)
<1>1. Quiet(d, Refill(d), eof, most)  BY RefillIsQuiet DEF Quiet
<1>2. Quiet(c, Refill(d), eof, most)  BY <1>1, QuietTwice
<1> QED  BY <1>2, QuietThenFlush

LEMMA AcknowledgeThen ==
  ASSUME NEW eof, NEW most, NEW c, NEW d, Quiet(c, d, eof, most)
  PROVE  Quiet(c, Acknowledge(d), eof, most)
<1>1. Quiet(d, Acknowledge(d), eof, most)  BY AcknowledgeIsQuiet DEF Quiet
<1> QED  BY <1>1, QuietTwice

\* The owner's calls.
LEMMA OpenEvolves ==
  ASSUME NEW eof, NEW most, NEW c, NEW d, Quiet(c, d, eof, most)
  PROVE  Evolves(c, Open(d), eof, most)
  BY RefillThenFlush DEF Open

LEMMA EndInputEvolves ==
  ASSUME NEW eof, NEW most, NEW c, ConnectionOK(c, eof, most)
  PROVE  Evolves(c, ConnectionEndInput(c), eof, most)
<1> DEFINE t == SenderEndInput(c.snd)
           d == [c EXCEPT !.snd = t]
<1>1. Sends(c.snd, t)  BY ConnectionFields, EndInputSends
<1>2. ConnectionEndInput(c) = Flush(Refill(d))  BY DEF ConnectionEndInput
<1> HIDE DEF t
<1>3. Quiet(c, d, eof, most)  BY <1>1, SenderIsQuiet
<1> HIDE DEF d
<1> QED  BY <1>2, <1>3, RefillThenFlush

LEMMA WriteEvolves ==
  ASSUME NEW eof, NEW most \in Int, NEW c, ConnectionOK(c, eof, most),
         c.snd.next > 0, ~c.snd.stream.ended, NEW data \in Seq(Nat),
         c.snd.stream.written + Len(data) <= most
  PROVE  Evolves(c, ConnectionWrite(c, data), eof, most)
<1> DEFINE t == SenderWrite(c.snd, data)
           d == [c EXCEPT !.snd = t]
           e == Flush(Refill(d))
<1>1. /\ c \in Connection /\ SenderOK(c.snd) /\ c.snd \in Sender /\ ReceiverOK(c.rcv, eof)
      /\ AllSegs(c.out, AtEof(c.snd.stream))
  BY ConnectionFields
<1>2. /\ SenderOK(t) /\ ~AtEof(c.snd.stream)
      /\ t.stream.written <= c.snd.stream.written + Len(data)
  BY <1>1, WriteKeepsSender
<1>3. ConnectionWrite(c, data) = IF data = <<>> THEN c ELSE e  BY DEF ConnectionWrite
<1> HIDE DEF t
<1>4. t \in Sender /\ t.stream.written \in Nat /\ c.snd.stream.written \in Nat
      /\ Len(data) \in Nat
  BY <1>1, <1>2, SenderFields, LenProperties DEF SenderOK
<1>5. t.stream.written <= most
  <2> DEFINE n == Len(data)
             new == t.stream.written
             old == c.snd.stream.written
  <2>1. n \in Nat /\ new \in Nat /\ old \in Nat /\ new <= old + n /\ old + n <= most
    BY <1>2, <1>4
  <2> HIDE DEF n, new, old
  <2>2. new <= most  BY <2>1
  <2> QED  BY <2>2 DEF new
<1>6. /\ d \in Connection /\ d.snd = t /\ d.rcv = c.rcv /\ d.out = c.out
      /\ d.linger <=> c.linger
  BY <1>1, <1>4 DEF Connection
<1> HIDE DEF d
<1>7. AllSegs(d.out, AtEof(t.stream))  BY <1>1, <1>2, <1>6, SegsGrow
<1>8. Quiet(c, d, eof, most)
  BY <1>1, <1>2, <1>5, <1>6, <1>7 DEF Quiet, ConnectionOK, Outbound
<1>9. Evolves(c, e, eof, most)  BY <1>8, RefillThenFlush
<1>10. Evolves(c, c, eof, most)  BY SameIsQuiet, QuietEvolves
<1> HIDE DEF e
<1> QED  BY <1>3, <1>9, <1>10

LEMMA TickEvolves ==
  ASSUME NEW eof, NEW most, NEW c, ConnectionOK(c, eof, most)
  PROVE  Evolves(c, ConnectionTick(c, 1), eof, most)
<1> DEFINE n == Least(c.idle + 1, LingerTime)
           t == SenderTick(c.snd, 1)
           d == [c EXCEPT !.idle = n]
           later == [d EXCEPT !.snd = t]
<1>1. c \in Connection /\ c.idle \in 0 .. LingerTime /\ SenderOK(c.snd)
  BY ConnectionFields
<1>2. n \in 0 .. LingerTime
  <2> DEFINE i == c.idle + 1
  <2>1. i \in Nat /\ LingerTime \in Nat  BY <1>1, Constants
  <2> HIDE DEF i
  <2>2. Least(i, LingerTime) \in 0 .. LingerTime  BY <2>1, LeastType
  <2> QED  BY <2>2 DEF i
<1>3. ConnectionTick(c, 1) =
        IF ~c.active THEN c ELSE IF later.snd.retx > MaxRetx THEN Reset(later)
        ELSE Flush(later)
  BY DEF ConnectionTick
<1> HIDE DEF n
<1>4. Quiet(c, d, eof, most)  BY <1>2, IdleIsQuiet
<1>5. d.snd = c.snd  BY <1>1 DEF Connection
<1>6. Sends(d.snd, t)
  <2>1. 1 \in Nat  OBVIOUS
  <2> QED  BY <1>1, <1>5, <2>1, TickSends
<1> HIDE DEF d, t
<1>7. ConnectionOK(d, eof, most)  BY <1>4 DEF Quiet
<1>8. Quiet(d, later, eof, most)  BY <1>6, <1>7, SenderIsQuiet
<1> HIDE DEF later
<1>9. Quiet(c, later, eof, most)  BY <1>4, <1>8, QuietTwice
<1>10. Evolves(c, Flush(later), eof, most)  BY <1>9, QuietThenFlush
<1>11. Evolves(c, Reset(later), eof, most)
  <2>1. Quiet(later, Reset(later), eof, most)  BY <1>9, ResetIsQuiet DEF Quiet
  <2> QED  BY <1>9, <2>1, QuietTwice, QuietEvolves
<1>12. Evolves(c, c, eof, most)  BY SameIsQuiet, QuietEvolves
<1> QED  BY <1>3, <1>10, <1>11, <1>12

\* The branches of segment_received().
LEMMA HandleEvolves ==
  ASSUME NEW eof, NEW most, NEW c, ConnectionOK(c, eof, most), NEW seg \in Segs(eof)
  PROVE  Evolves(c, Handle(c, seg), eof, most)
<1> DEFINE got == Receive(c, seg)
           had == Exchange(c, seg)
           answer == Flush(Acknowledge(had))
           phase == Phase(c)
<1>1. Quiet(c, got, eof, most)  BY ReceiveIsQuiet
<1>2. Quiet(c, had, eof, most)  BY ExchangeIsQuiet
<1>3. Evolves(c, c, eof, most)  BY SameIsQuiet, QuietEvolves
<1>4. Evolves(c, had, eof, most)  BY <1>2, QuietEvolves
<1>5. Evolves(c, answer, eof, most)  BY <1>2, AcknowledgeThen, QuietThenFlush
<1>6. Evolves(c, Flush(Acknowledge(got)), eof, most)
  BY <1>1, AcknowledgeThen, QuietThenFlush
<1>7. Evolves(c, Open(got), eof, most)  BY <1>1, OpenEvolves
<1>8. Evolves(c, Flush(had), eof, most)  BY <1>2, QuietThenFlush
<1>9. Evolves(c, Flush(Refill(had)), eof, most)  BY <1>2, RefillThenFlush
<1>10. Evolves(c, Converse(c, seg), eof, most)
  <2> DEFINE x == IF LengthInSequenceSpace(seg) > 0 THEN Acknowledge(had) ELSE had
  <2>1. Converse(c, seg) = Flush(Refill(x))  BY DEF Converse
  <2>2. Quiet(c, Acknowledge(had), eof, most)  BY <1>2, AcknowledgeThen
  <2>3. Quiet(c, x, eof, most)  BY <1>2, <2>2
  <2> HIDE DEF x
  <2> QED  BY <2>1, <2>3, RefillThenFlush
<1>11. Handle(c, seg) =
         CASE phase = "LISTEN" -> IF seg.syn THEN Open(got) ELSE c
           [] phase = "SYN-SENT" ->
                IF ~seg.syn THEN c ELSE IF seg.ack THEN answer
                ELSE Flush(Acknowledge(got))
           [] phase = "SYN-RCVD" -> had
           [] phase = "ESTABLISHED" -> Converse(c, seg)
           [] phase = "FIN-WAIT-1" ->
                IF seg.fin THEN answer ELSE IF seg.ack THEN Flush(had) ELSE c
           [] phase = "FIN-WAIT-2" -> answer
           [] phase = "TIME-WAIT" -> IF seg.fin THEN answer ELSE c
           [] phase = "OTHER" -> Flush(Refill(had))
  BY DEF Handle
<1>12. phase \in {"LISTEN", "SYN-SENT", "SYN-RCVD", "ESTABLISHED", "FIN-WAIT-1",
                  "FIN-WAIT-2", "TIME-WAIT", "OTHER"}
  BY DEF Phase
<1> HIDE DEF got, had, answer, phase
<1> QED
  <2>1. CASE phase = "LISTEN"  BY <1>3, <1>7, <1>11, <2>1
  <2>2. CASE phase = "SYN-SENT"  BY <1>3, <1>5, <1>6, <1>11, <2>2
  <2>3. CASE phase = "SYN-RCVD"  BY <1>4, <1>11, <2>3
  <2>4. CASE phase = "ESTABLISHED"  BY <1>10, <1>11, <2>4
  <2>5. CASE phase = "FIN-WAIT-1"  BY <1>3, <1>5, <1>8, <1>11, <2>5
  <2>6. CASE phase = "FIN-WAIT-2"  BY <1>5, <1>11, <2>6
  <2>7. CASE phase = "TIME-WAIT"  BY <1>3, <1>5, <1>11, <2>7
  <2>8. CASE phase = "OTHER"  BY <1>9, <1>11, <2>8
  <2> QED  BY <1>12, <2>1, <2>2, <2>3, <2>4, <2>5, <2>6, <2>7, <2>8

LEMMA SegmentEvolves ==
  ASSUME NEW eof, NEW most, NEW c, ConnectionOK(c, eof, most), NEW seg \in Segs(eof)
  PROVE  Evolves(c, SegmentReceived(c, seg), eof, most)
<1> DEFINE heard == [c EXCEPT !.idle = 0]
<1>1. SegmentReceived(c, seg) =
        IF ~c.active THEN c ELSE IF seg.rst THEN Fail(heard) ELSE Handle(heard, seg)
  BY DEF SegmentReceived
<1>2. Quiet(c, heard, eof, most)
  <2>1. 0 \in 0 .. LingerTime  BY Constants
  <2> QED  BY <2>1, IdleIsQuiet
<1> HIDE DEF heard
<1>3. ConnectionOK(heard, eof, most)  BY <1>2 DEF Quiet
<1>4. Evolves(c, c, eof, most)  BY SameIsQuiet, QuietEvolves
<1>5. Evolves(c, Fail(heard), eof, most)
  BY <1>2, <1>3, FailIsQuiet, QuietTwice, QuietEvolves
<1>6. Evolves(c, Handle(heard, seg), eof, most)
  BY <1>2, <1>3, HandleEvolves, QuietThenEvolves
<1> QED  BY <1>1, <1>4, <1>5, <1>6

-----------------------------------------------------------------------------
\* The peer's end of its stream only permits more.
LEMMA ConnectionOKGrows ==
  ASSUME NEW a, NEW b, a => b, NEW most, NEW c, ConnectionOK(c, a, most)
  PROVE  ConnectionOK(c, b, most)
  BY DEF ConnectionOK, ReceiverOK, ReassemblerOK

\* What was queued is handed to the network.
LEMMA IdleEvolves ==
  ASSUME NEW eof, NEW most, NEW c, NEW d, Evolves(c, d, eof, most)
  PROVE  /\ Evolves(c, Idle(d), eof, most) /\ Outbound(Idle(d)) = Outbound(d)
         /\ Sent(d) \subseteq Segs(AtEof(Outbound(d)))
<1> DEFINE e == Idle(d)
<1>1. /\ d \in Connection /\ ConnectionOK(d, eof, most)
      /\ AllSegs(d.out, AtEof(d.snd.stream))
  BY ConnectionFields DEF Evolves
<1>2. <<>> \in Seq(Segment)  BY EmptySeq
<1>3. /\ e \in Connection /\ e.snd = d.snd /\ e.rcv = d.rcv /\ e.out = <<>>
      /\ e.linger <=> d.linger
  BY <1>1, <1>2 DEF Connection, Idle
<1> HIDE DEF e
<1>4. AllSegs(e.out, AtEof(e.snd.stream))  BY <1>3, AllEmpty
<1>5. ConnectionOK(e, eof, most)  BY <1>1, <1>3, <1>4 DEF ConnectionOK, Outbound
<1>6. Evolves(c, e, eof, most)  BY <1>3, <1>5 DEF Evolves, Outbound
<1>7. Sent(d) \subseteq Segs(AtEof(Outbound(d)))
  BY <1>1 DEF Sent, ToSet, AllSegs, Outbound
<1> QED  BY <1>3, <1>6, <1>7 DEF e, Outbound

LEMMA BoundType == \A e \in Endpoint : WrittenAtMost(e) \in Nat
  BY EndpointAssumption DEF WrittenAtMost

LEMMA SomeoneIs == \E e \in Endpoint : TRUE
<1>1. Endpoint # {}
  <2> SUFFICES ASSUME Endpoint = {} PROVE FALSE  OBVIOUS
  <2>1. Cardinality({}) = 0  BY FS_EmptySet
  <2> QED  BY <2>1, EndpointAssumption
<1> QED  BY <1>1

\* A step in which every connection evolves keeps the invariant, if what the
\* network holds then is what the senders may have made.
LEMMA StepKeeps ==
  ASSUME CInv, openers' = openers,
         conn' = [x \in Endpoint |-> conn'[x]], DOMAIN net' = Endpoint,
         \A x \in Endpoint : Evolves(conn[x], conn'[x], PeerAtEof(x), WrittenAtMost(x)),
         \A x \in Endpoint : net'[x] \subseteq Segs(PeerAtEof(x)')
  PROVE  CInv'
<1>1. \A x \in Endpoint : PeerAtEof(x) => PeerAtEof(x)'
  <2> SUFFICES ASSUME NEW x \in Endpoint, PeerAtEof(x) PROVE PeerAtEof(x)'  OBVIOUS
  <2>1. Peer(x) \in Endpoint  BY TwoEndpoints
  <2>2. AtEof(Outbound(conn[Peer(x)])) => AtEof(Outbound(conn'[Peer(x)]))
    BY <2>1 DEF Evolves
  <2>3. Peer(x)' = Peer(x)  BY DEF Peer
  <2> QED  BY <2>2, <2>3 DEF PeerAtEof
<1>2. \A x \in Endpoint : WrittenAtMost(x)' = WrittenAtMost(x)  BY DEF WrittenAtMost
<1>3. ASSUME NEW x \in Endpoint
      PROVE  ConnectionOK(conn'[x], PeerAtEof(x)', WrittenAtMost(x)')
  <2>1. ConnectionOK(conn'[x], PeerAtEof(x), WrittenAtMost(x))  BY DEF Evolves
  <2>2. ConnectionOK(conn'[x], PeerAtEof(x)', WrittenAtMost(x))
    BY <1>1, <2>1, ConnectionOKGrows
  <2> QED  BY <1>2, <2>2
<1>4. \A x \in Endpoint : conn'[x] \in Connection  BY <1>3 DEF ConnectionOK
<1>5. conn' \in [Endpoint -> Connection]  BY <1>4
<1>6. ASSUME NEW x \in Endpoint, ~conn'[x].linger PROVE PeerAtEof(x)'
  <2>1. CASE conn[x].linger
    <3>1. PeerAtEof(x)  BY <1>6, <2>1 DEF Evolves
    <3> QED  BY <1>1, <3>1
  <2>2. CASE ~conn[x].linger  BY <1>1, <2>2 DEF CInv
  <2> QED  BY <2>1, <2>2
<1>7. SomeoneLingers'
  <2> SUFFICES ASSUME \A x \in Endpoint : ~conn'[x].linger PROVE FALSE
    BY DEF SomeoneLingers
  <2>1. PICK e \in Endpoint : conn[e].linger  BY DEF CInv, SomeoneLingers
  <2>2. /\ Peer(e) \in Endpoint /\ Peer(Peer(e)) = e  BY TwoEndpoints
  <2>3. ~AtEof(Outbound(conn'[e]))  BY <2>1 DEF Evolves
  <2>4. AtEof(Outbound(conn[e])) => AtEof(Outbound(conn'[e]))  BY DEF Evolves
  <2>5. PeerAtEof(Peer(e))
    <3>1. CASE conn[Peer(e)].linger  BY <2>2, <3>1 DEF Evolves
    <3>2. CASE ~conn[Peer(e)].linger  BY <2>2, <3>2 DEF CInv
    <3> QED  BY <3>1, <3>2
  <2> QED  BY <2>2, <2>3, <2>4, <2>5 DEF PeerAtEof
<1>8. openers' \subseteq Endpoint  BY DEF CInv
<1> QED  BY <1>3, <1>5, <1>6, <1>7, <1>8 DEF CInv

\* One endpoint evolves and sends what it queued.
LEMMA OneEvolves ==
  ASSUME CInv, openers' = openers, NEW e \in Endpoint, NEW c,
         Evolves(conn[e], c, PeerAtEof(e), WrittenAtMost(e)),
         conn' = [conn EXCEPT ![e] = Idle(c)], DOMAIN net' = Endpoint,
         net'[e] \subseteq net[e], net'[Peer(e)] \subseteq net[Peer(e)] \cup Sent(c)
  PROVE  CInv'
<1> DEFINE p == Peer(e)
<1>1. p \in Endpoint /\ p # e /\ Peer(p) = e /\ \A x \in Endpoint : x = e \/ x = p
  BY TwoEndpoints
<1>2. conn \in [Endpoint -> Connection]  BY DEF CInv
<1>3. conn' = [x \in Endpoint |-> conn'[x]] /\ conn'[e] = Idle(c) /\ conn'[p] = conn[p]
  BY <1>1, <1>2
<1> HIDE DEF p
<1>4. /\ Evolves(conn[e], Idle(c), PeerAtEof(e), WrittenAtMost(e))
      /\ Outbound(Idle(c)) = Outbound(c) /\ Sent(c) \subseteq Segs(AtEof(Outbound(c)))
  BY IdleEvolves
<1>5. Evolves(conn[p], conn[p], PeerAtEof(p), WrittenAtMost(p))
  BY <1>1, SameIsQuiet, QuietEvolves DEF CInv
<1>6. \A x \in Endpoint : Evolves(conn[x], conn'[x], PeerAtEof(x), WrittenAtMost(x))
  BY <1>1, <1>3, <1>4, <1>5
<1>7. net'[e] \subseteq Segs(PeerAtEof(e)')
  <2>1. net[e] \subseteq Segs(PeerAtEof(e))  BY DEF CInv
  <2>2. PeerAtEof(e)' = AtEof(Outbound(conn'[p]))  BY DEF PeerAtEof, Peer, p
  <2>3. PeerAtEof(e) = AtEof(Outbound(conn[p]))  BY DEF PeerAtEof, p
  <2> QED  BY <1>3, <2>1, <2>2, <2>3
<1>8. net'[p] \subseteq Segs(PeerAtEof(p)')
  <2>1. net[p] \subseteq Segs(PeerAtEof(p))  BY <1>1 DEF CInv
  <2>2. PeerAtEof(p)' = AtEof(Outbound(Idle(c)))
    <3>1. Peer(p)' = e  BY <1>1 DEF Peer
    <3> QED  BY <1>3, <3>1 DEF PeerAtEof
  <2>3. PeerAtEof(p) = AtEof(Outbound(conn[e]))  BY <1>1 DEF PeerAtEof
  <2>4. PeerAtEof(p) => PeerAtEof(p)'  BY <1>4, <2>2, <2>3 DEF Evolves
  <2>5. net[p] \subseteq Segs(PeerAtEof(p)')  BY <2>1, <2>4, SegsGrow
  <2>6. Sent(c) \subseteq Segs(PeerAtEof(p)')  BY <1>4, <2>2
  <2> QED  BY <2>5, <2>6 DEF p
<1>9. \A x \in Endpoint : net'[x] \subseteq Segs(PeerAtEof(x)')  BY <1>1, <1>7, <1>8
<1> QED  BY <1>3, <1>6, <1>9, StepKeeps

LEMMA BecomeKeeps ==
  ASSUME CInv, openers' = openers, NEW e \in Endpoint, NEW c, Become(e, c),
         Evolves(conn[e], c, PeerAtEof(e), WrittenAtMost(e))
  PROVE  CInv'
<1>1. Peer(e) \in Endpoint /\ Peer(e) # e  BY TwoEndpoints
<1>2. /\ conn' = [conn EXCEPT ![e] = Idle(c)]
      /\ net' = [net EXCEPT ![Peer(e)] = @ \cup Sent(c)]
  BY DEF Become
<1>3. DOMAIN net = Endpoint  BY DEF CInv
<1>4. /\ DOMAIN net' = Endpoint /\ net'[e] = net[e]
      /\ net'[Peer(e)] = net[Peer(e)] \cup Sent(c)
  BY <1>1, <1>2, <1>3
<1> QED  BY <1>2, <1>4, OneEvolves

LEMMA InitHolds ==
  ASSUME Init
  PROVE  CInv
<1>1. net = [e \in Endpoint |-> {}] /\ conn \in [Endpoint -> {NewConnection(isn) : isn \in Isns}]
  BY DEF Init
<1>2. ASSUME NEW e \in Endpoint
      PROVE  ConnectionOK(conn[e], FALSE, WrittenAtMost(e)) /\ conn[e].linger
  <2>1. PICK isn \in Isns : conn[e] = NewConnection(isn)  BY <1>1
  <2>2. isn \in Raw  BY EndpointAssumption
  <2> DEFINE snd == NewSender(isn)
  <2>3. SenderOK(snd) /\ snd.stream = EmptyStream  BY <2>2, NewSenderIsOK
  <2>4. ReceiverOK(NewReceiver, FALSE)  BY NewReceiverIsOK
  <2>5. EmptyStream.written = 0  BY DEF EmptyStream
  <2> HIDE DEF snd
  <2> DEFINE c == [snd |-> snd, rcv |-> NewReceiver, linger |-> TRUE, idle |-> 0,
                   active |-> TRUE, out |-> <<>>]
  <2>6. conn[e] = c  BY <2>1 DEF NewConnection, snd
  <2>7. <<>> \in Seq(Segment) /\ 0 \in 0 .. LingerTime  BY Constants, EmptySeq
  <2>8. /\ c \in Connection /\ c.snd = snd /\ c.rcv = NewReceiver /\ c.out = <<>>
        /\ c.linger
    BY <2>3, <2>4, <2>7 DEF Connection, SenderOK, ReceiverOK
  <2> HIDE DEF c
  <2>9. AllSegs(c.out, AtEof(Outbound(c)))  BY <2>8, AllEmpty
  <2>10. Outbound(c).written <= WrittenAtMost(e)
    <3>1. Outbound(c).written = 0  BY <2>3, <2>5, <2>8 DEF Outbound
    <3>2. WrittenAtMost(e) \in Nat  BY BoundType
    <3> QED  BY <3>1, <3>2
  <2> QED  BY <2>3, <2>4, <2>6, <2>8, <2>9, <2>10 DEF ConnectionOK
<1>3. \A e \in Endpoint : ConnectionOK(conn[e], PeerAtEof(e), WrittenAtMost(e))
  BY <1>2, ConnectionOKGrows
<1>4. \A e \in Endpoint : conn[e] \in Connection  BY <1>2 DEF ConnectionOK
<1>5. conn \in [Endpoint -> Connection]  BY <1>1, <1>4
<1>6. SomeoneLingers  BY <1>2, SomeoneIs DEF SomeoneLingers
<1>7. openers \subseteq Endpoint  BY EndpointAssumption DEF Init
<1> QED  BY <1>1, <1>2, <1>3, <1>5, <1>6, <1>7 DEF CInv

LEMMA ConnectKeeps ==
  ASSUME CInv, NEW e \in Endpoint, Connect(e)
  PROVE  CInv'
<1> DEFINE c == Open(conn[e])
<1>1. Become(e, c) /\ openers' = openers  BY DEF Connect
<1>2. Evolves(conn[e], c, PeerAtEof(e), WrittenAtMost(e))
  BY SameIsQuiet, OpenEvolves DEF CInv
<1> HIDE DEF c
<1> QED  BY <1>1, <1>2, BecomeKeeps

LEMMA WriteKeeps ==
  ASSUME CInv, NEW e \in Endpoint, NEW n \in 1 .. SendCapacity, Write(e, n)
  PROVE  CInv'
<1> DEFINE s == Outbound(conn[e])
           data == [i \in 1 .. n |-> s.written + i - 1]
           c == ConnectionWrite(conn[e], data)
<1>1. /\ Become(e, c) /\ openers' = openers /\ ~s.ended /\ conn[e].snd.next > 0
      /\ s.written + n <= WrittenAtMost(e)
  BY DEF Write, Opened
<1>2. ConnectionOK(conn[e], PeerAtEof(e), WrittenAtMost(e))  BY DEF CInv
<1>3. s.written \in Nat
  <2>1. conn[e].snd \in Sender  BY <1>2, ConnectionFields
  <2> QED  BY <2>1, SenderFields DEF Outbound
<1>4. data \in Seq(Nat) /\ Len(data) = n
  <2>1. n \in Nat  BY Constants
  <2>2. \A i \in 1 .. n : s.written + i - 1 \in Nat  BY <1>3, <2>1
  <2>3. data \in [1 .. n -> Nat]  BY <2>2
  <2> HIDE DEF data
  <2> QED  BY <2>1, <2>3, FunctionIsSeq
<1> HIDE DEF data
<1>5. Evolves(conn[e], c, PeerAtEof(e), WrittenAtMost(e))
  <2>1. WrittenAtMost(e) \in Int  BY BoundType
  <2> QED  BY <1>1, <1>2, <1>4, <2>1, WriteEvolves DEF Outbound
<1> HIDE DEF c
<1> QED  BY <1>1, <1>5, BecomeKeeps

LEMMA EndInputKeeps ==
  ASSUME CInv, NEW e \in Endpoint, EndInput(e)
  PROVE  CInv'
<1> DEFINE c == ConnectionEndInput(conn[e])
<1>1. Become(e, c) /\ openers' = openers  BY DEF EndInput
<1>2. Evolves(conn[e], c, PeerAtEof(e), WrittenAtMost(e))  BY EndInputEvolves DEF CInv
<1> HIDE DEF c
<1> QED  BY <1>1, <1>2, BecomeKeeps

\* A step of one endpoint that sends nothing.
LEMMA SilentKeeps ==
  ASSUME CInv, openers' = openers, net' = net, NEW e \in Endpoint, NEW c,
         Quiet(conn[e], c, PeerAtEof(e), WrittenAtMost(e)),
         conn' = [conn EXCEPT ![e] = c]
  PROVE  CInv'
<1>1. Peer(e) \in Endpoint /\ Peer(e) # e /\ \A x \in Endpoint : x = e \/ x = Peer(e)
  BY TwoEndpoints
<1>2. conn \in [Endpoint -> Connection] /\ DOMAIN net = Endpoint  BY DEF CInv
<1>3. conn' = [x \in Endpoint |-> conn'[x]] /\ conn'[e] = c
      /\ \A x \in Endpoint : x # e => conn'[x] = conn[x]
  BY <1>2
<1>4. \A x \in Endpoint : Quiet(conn[x], conn'[x], PeerAtEof(x), WrittenAtMost(x))
  <2> TAKE x \in Endpoint
  <2>1. CASE x = e  BY <1>3, <2>1
  <2>2. CASE x # e
    <3>1. ConnectionOK(conn[x], PeerAtEof(x), WrittenAtMost(x))  BY DEF CInv
    <3>2. conn'[x] = conn[x]  BY <1>3, <2>2
    <3> QED  BY <3>1, <3>2, SameIsQuiet
  <2> QED  BY <2>1, <2>2
<1>5. \A x \in Endpoint : Evolves(conn[x], conn'[x], PeerAtEof(x), WrittenAtMost(x))
  BY <1>4, QuietEvolves
<1>6. \A x \in Endpoint : PeerAtEof(x) => PeerAtEof(x)'
  <2> SUFFICES ASSUME NEW x \in Endpoint, PeerAtEof(x) PROVE PeerAtEof(x)'  OBVIOUS
  <2>1. Peer(x) \in Endpoint /\ Peer(x)' = Peer(x)  BY TwoEndpoints DEF Peer
  <2> QED  BY <1>4, <2>1 DEF PeerAtEof, Quiet
<1>7. \A x \in Endpoint : net'[x] \subseteq Segs(PeerAtEof(x)')
  <2> TAKE x \in Endpoint
  <2>1. net[x] \subseteq Segs(PeerAtEof(x))  BY DEF CInv
  <2> QED  BY <1>6, <2>1, SegsGrow
<1>8. DOMAIN net' = Endpoint  BY <1>2
<1> QED  BY <1>3, <1>5, <1>7, <1>8, StepKeeps

LEMMA ReadKeeps ==
  ASSUME CInv, NEW e \in Endpoint, Read(e)
  PROVE  CInv'
<1> DEFINE r == ReceiverRead(conn[e].rcv, RecvCapacity)
           c == [conn[e] EXCEPT !.rcv = r]
<1>1. ConnectionOK(conn[e], PeerAtEof(e), WrittenAtMost(e)) /\ conn \in [Endpoint -> Connection]
  BY DEF CInv
<1>2. conn' = [conn EXCEPT ![e] = c] /\ net' = net /\ openers' = openers
  BY <1>1 DEF Read
<1>3. ReceiverOK(r, PeerAtEof(e))  BY <1>1, ConnectionFields, ReadIsOK
<1> HIDE DEF r
<1>4. Quiet(conn[e], c, PeerAtEof(e), WrittenAtMost(e))  BY <1>1, <1>3, ReceiverIsQuiet
<1> HIDE DEF c
<1> QED  BY <1>2, <1>4, SilentKeeps

LEMMA DestroyKeeps ==
  ASSUME CInv, NEW e \in Endpoint, Destroy(e)
  PROVE  CInv'
<1> DEFINE c == [conn[e] EXCEPT !.active = FALSE]
<1>1. ConnectionOK(conn[e], PeerAtEof(e), WrittenAtMost(e)) /\ conn \in [Endpoint -> Connection]
  BY DEF CInv
<1>2. conn' = [conn EXCEPT ![e] = c] /\ net' = net /\ openers' = openers
  BY <1>1 DEF Destroy
<1>3. /\ c \in Connection /\ c.snd = conn[e].snd /\ c.rcv = conn[e].rcv
      /\ c.out = conn[e].out
      /\ c.linger <=> conn[e].linger
  BY <1>1 DEF CInv, Connection
<1> HIDE DEF c
<1>4. Quiet(conn[e], c, PeerAtEof(e), WrittenAtMost(e))
  BY <1>1, <1>3 DEF Quiet, ConnectionOK, Outbound
<1> QED  BY <1>2, <1>4, SilentKeeps

LEMMA LoseKeeps ==
  ASSUME CInv, NEW e \in Endpoint, NEW seg \in net[e], Lose(e, seg)
  PROVE  CInv'
<1>1. net' = [net EXCEPT ![e] = @ \ {seg}] /\ conn' = conn /\ openers' = openers
  BY DEF Lose
<1>2. DOMAIN net = Endpoint /\ conn \in [Endpoint -> Connection]  BY DEF CInv
<1>3. DOMAIN net' = Endpoint /\ \A x \in Endpoint : net'[x] \subseteq net[x]
  BY <1>1, <1>2
<1>4. conn' = [x \in Endpoint |-> conn'[x]]  BY <1>1, <1>2
<1>5. \A x \in Endpoint : Evolves(conn[x], conn'[x], PeerAtEof(x), WrittenAtMost(x))
  BY <1>1, SameIsQuiet, QuietEvolves DEF CInv
<1>6. \A x \in Endpoint : PeerAtEof(x)' = PeerAtEof(x)  BY <1>1 DEF PeerAtEof, Peer
<1>7. \A x \in Endpoint : net'[x] \subseteq Segs(PeerAtEof(x)')
  BY <1>3, <1>6 DEF CInv
<1> QED  BY <1>1, <1>3, <1>4, <1>5, <1>7, StepKeeps

LEMMA DeliverKeeps ==
  ASSUME CInv, NEW e \in Endpoint, NEW seg \in net[e], Deliver(e, seg)
  PROVE  CInv'
<1> DEFINE c == SegmentReceived(conn[e], seg)
           p == Peer(e)
<1>1. /\ conn' = [conn EXCEPT ![e] = Idle(c)]
      /\ net' = [net EXCEPT ![e] = @ \ {seg}, ![p] = @ \cup Sent(c)]
      /\ openers' = openers
  BY DEF Deliver
<1>2. seg \in Segs(PeerAtEof(e))  BY DEF CInv
<1>3. Evolves(conn[e], c, PeerAtEof(e), WrittenAtMost(e))
  BY <1>2, SegmentEvolves DEF CInv
<1> HIDE DEF c
<1>4. p \in Endpoint /\ p # e  BY TwoEndpoints
<1>5. DOMAIN net = Endpoint  BY DEF CInv
<1> HIDE DEF p
<1>6. /\ DOMAIN net' = Endpoint /\ net'[e] \subseteq net[e]
      /\ net'[p] \subseteq net[p] \cup Sent(c)
  BY <1>1, <1>4, <1>5
<1> QED  BY <1>1, <1>3, <1>6, OneEvolves DEF p

LEMMA TickKeeps ==
  ASSUME CInv, NEW es \in SUBSET Endpoint, Tick(es)
  PROVE  CInv'
<1> DEFINE cs == [e \in es |-> ConnectionTick(conn[e], 1)]
<1>1. /\ conn' = [e \in Endpoint |-> IF e \in es THEN Idle(cs[e]) ELSE conn[e]]
      /\ net' = [e \in Endpoint |->
                   IF Peer(e) \in es THEN net[e] \cup Sent(cs[Peer(e)]) ELSE net[e]]
      /\ openers' = openers
  BY DEF Tick
<1>2. ASSUME NEW x \in es
      PROVE  Evolves(conn[x], cs[x], PeerAtEof(x), WrittenAtMost(x))
  BY TickEvolves DEF CInv
<1> HIDE DEF cs
<1>3. ASSUME NEW x \in es
      PROVE  /\ Evolves(conn[x], Idle(cs[x]), PeerAtEof(x), WrittenAtMost(x))
             /\ Outbound(Idle(cs[x])) = Outbound(cs[x])
             /\ Sent(cs[x]) \subseteq Segs(AtEof(Outbound(cs[x])))
  BY <1>2, IdleEvolves
<1>4. \A x \in Endpoint : Evolves(conn[x], conn'[x], PeerAtEof(x), WrittenAtMost(x))
  <2> TAKE x \in Endpoint
  <2>1. CASE x \in es  BY <1>1, <1>3, <2>1
  <2>2. CASE x \notin es
    <3>1. Evolves(conn[x], conn[x], PeerAtEof(x), WrittenAtMost(x))
      BY SameIsQuiet, QuietEvolves DEF CInv
    <3> QED  BY <1>1, <2>2, <3>1
  <2> QED  BY <2>1, <2>2
<1>5. \A x \in Endpoint : net'[x] \subseteq Segs(PeerAtEof(x)')
  <2> TAKE x \in Endpoint
  <2> DEFINE p == Peer(x)
  <2>1. p \in Endpoint  BY TwoEndpoints
  <2>2. PeerAtEof(x)' = AtEof(Outbound(conn'[p]))  BY DEF PeerAtEof, Peer
  <2>3. PeerAtEof(x) = AtEof(Outbound(conn[p]))  BY DEF PeerAtEof
  <2> HIDE DEF p
  <2>4. PeerAtEof(x) => PeerAtEof(x)'  BY <1>4, <2>1, <2>2, <2>3 DEF Evolves
  <2>5. net[x] \subseteq Segs(PeerAtEof(x)')
    <3>1. net[x] \subseteq Segs(PeerAtEof(x))  BY DEF CInv
    <3> QED  BY <2>4, <3>1, SegsGrow
  <2>6. CASE p \in es
    <3>1. net'[x] = net[x] \cup Sent(cs[p])  BY <1>1, <2>6 DEF p
    <3>2. conn'[p] = Idle(cs[p])  BY <1>1, <2>1, <2>6
    <3>3. Sent(cs[p]) \subseteq Segs(PeerAtEof(x)')  BY <1>3, <2>2, <2>6, <3>2
    <3> QED  BY <2>5, <3>1, <3>3
  <2>7. CASE p \notin es
    <3>1. net'[x] = net[x]  BY <1>1, <2>7 DEF p
    <3> QED  BY <2>5, <3>1
  <2> QED  BY <2>6, <2>7
<1>6. conn' = [x \in Endpoint |-> conn'[x]] /\ DOMAIN net' = Endpoint  BY <1>1
<1> QED  BY <1>1, <1>4, <1>5, <1>6, StepKeeps

LEMMA StepHolds ==
  ASSUME CInv, [Next]_vars
  PROVE  CInv'
<1>1. CASE Opening
  <2>1. PICK e \in openers : Connect(e)  BY <1>1 DEF Opening
  <2>2. e \in Endpoint  BY <2>1 DEF CInv
  <2> QED  BY <2>1, <2>2, ConnectKeeps
<1>2. CASE Writing
  <2>1. PICK e \in Endpoint : (\E n \in 1 .. SendCapacity : Write(e, n)) \/ EndInput(e)
    BY <1>2 DEF Writing
  <2> QED  BY <2>1, WriteKeeps, EndInputKeeps
<1>3. CASE Reading  BY <1>3, ReadKeeps DEF Reading
<1>4. CASE Destruction  BY <1>4, DestroyKeeps DEF Destruction
<1>5. CASE Delivery  BY <1>5, DeliverKeeps DEF Delivery
<1>6. CASE Loss  BY <1>6, LoseKeeps DEF Loss
<1>7. CASE TickApart
  <2>1. PICK e \in Endpoint : Tick({e})  BY <1>7 DEF TickApart
  <2>2. {e} \in SUBSET Endpoint  OBVIOUS
  <2> QED  BY <2>1, <2>2, TickKeeps
<1>8. CASE TickAlike
  <2>1. Tick(Endpoint) /\ Endpoint \in SUBSET Endpoint  BY <1>8 DEF TickAlike
  <2> QED  BY <2>1, TickKeeps
<1>9. CASE UNCHANGED vars
  <2>1. openers' = openers /\ conn' = conn /\ net' = net  BY <1>9 DEF vars
  <2> QED  BY <2>1 DEF CInv, PeerAtEof, Peer, WrittenAtMost, SomeoneLingers
<1> QED  BY <1>1, <1>2, <1>3, <1>4, <1>5, <1>6, <1>7, <1>8, <1>9 DEF Next

-----------------------------------------------------------------------------
\* What is sent or received, and when, leaves both connections in the states
\* the code can have: their streams are bounded by their capacities, what is
\* cached or in flight is a segment, a FIN is made at the end of a stream only
\* (tcp_sender.cc:67-107), and an input ends only where a FIN said
\* (stream_reassembler.cc:29-30, 73-75).
THEOREM CInvHolds == Spec => []CInv
<1>1. Init => CInv  BY InitHolds
<1>2. CInv /\ [Next]_vars => CInv'  BY StepHolds
<1> QED  BY <1>1, <1>2, PTL DEF Spec

LEMMA InvariantTypes ==
  ASSUME CInv
  PROVE  TypeOK
<1>1. ASSUME NEW e \in Endpoint
      PROVE  /\ net[e] \subseteq Segment
             /\ conn[e].snd.next \in 0 .. WrittenAtMost(e) + 2
             /\ conn[e].idle \in 0 .. LingerTime
             /\ conn[e].active \in BOOLEAN /\ conn[e].linger \in BOOLEAN
  <2> DEFINE s == conn[e].snd
  <2>1. ConnectionOK(conn[e], PeerAtEof(e), WrittenAtMost(e))  BY DEF CInv
  <2>2. /\ s \in Sender /\ SenderOK(s) /\ s.stream.written <= WrittenAtMost(e)
        /\ conn[e].idle \in 0 .. LingerTime
        /\ conn[e].active \in BOOLEAN /\ conn[e].linger \in BOOLEAN
    BY <2>1, ConnectionFields
  <2>3. net[e] \subseteq Segment  BY DEF CInv, Segs
  <2> HIDE DEF s
  <2>4. s.next \in 0 .. WrittenAtMost(e) + 2
    <3> DEFINE n == s.next
               w == s.stream.written
               l == Len(s.stream.buffer)
               f == Flag(AtEof(s.stream))
               most == WrittenAtMost(e)
    <3>1. n \in Nat /\ w \in Nat /\ l \in Nat /\ most \in Nat /\ w <= most
      BY <2>2, SenderFields, BoundType
    <3>2. f \in 0 .. 1  BY DEF Flag
    <3>3. n = 0 \/ n <= w - l + 1 + f  BY <2>2 DEF SenderOK, NumbersOK
    <3> HIDE DEF n, w, l, f, most
    <3>4. n \in 0 .. most + 2  BY <3>1, <3>2, <3>3
    <3> QED  BY <3>4 DEF n, most
  <2> QED  BY <2>2, <2>3, <2>4 DEF s
<1>2. DOMAIN conn = Endpoint /\ DOMAIN net = Endpoint  BY DEF CInv
<1> QED  BY <1>1, <1>2 DEF TypeOK

\* What an endpoint has sent is never more than the SYN, the bytes that its
\* owner wrote and the FIN; every segment in the network has a window that the
\* receiver can have, and every variable its type.
THEOREM TypeHolds == Spec => []TypeOK
<1>1. CInv => TypeOK  BY InvariantTypes
<1> QED  BY <1>1, CInvHolds, PTL

\* The two connections never both skip the wait after the streams have ended
\* (tcp_connection.cc:250-253, where _linger_after_streams_finish is cleared),
\* whichever of the two FINs overtakes the other's (tcp_connection.hh:19-22).
THEOREM SomeoneLingersHolds == Spec => []SomeoneLingers
<1>1. CInv => SomeoneLingers  BY DEF CInv
<1> QED  BY <1>1, CInvHolds, PTL

=============================================================================
