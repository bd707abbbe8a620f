---------------------------- MODULE SenderProofs ----------------------------
(***************************************************************************)
(* Proofs about SenderSystem: what a TCPSender keeps for retransmission is *)
(* exactly what the peer may miss, for every width of sequence numbers,    *)
(* every payload size, window, timeout and length of the stream.           *)
(*                                                                         *)
(* The inductive invariant says that the cached segments cut the numbers   *)
(* from the last acknowledgment that popped one up to the next to be sent  *)
(* into pieces, each with its bytes.  For every part of fill_window() and  *)
(* for every call of the owner there is a lemma that it keeps that.        *)
(***************************************************************************)
EXTENDS SenderSystem, NumberFacts, SequenceTheorems

\* The segments that the sender makes.
Segment == [seqno : Raw, syn : BOOLEAN, fin : BOOLEAN, rst : BOOLEAN,
            ack : BOOLEAN, ackno : Nat, win : Nat, payload : Seq(Nat)]

\* The stream values.
Stream == [buffer : Seq(Nat), ended : BOOLEAN, error : BOOLEAN,
           written : Nat, read : Nat]

\* The states of a sender; a peer has advertised its window.
Sender == [isn : Raw, stream : Stream, next : Nat, window : 0 .. MaxWindow,
           flight : Nat, cache : SUBSET [end : Nat, seg : Segment],
           time : Nat, rto : Nat, retx : Nat, out : Seq(Segment)]

\* The stream holds the bytes written and not read, each the number of its
\* place.
StreamIsNumbered(t) ==
  /\ t.written = t.read + Len(t.buffer) /\ Len(t.buffer) <= SendCapacity
  /\ \A i \in 1 .. Len(t.buffer) : t.buffer[i] = t.read + i - 1

\* The number to be sent next follows the SYN, the bytes read from the stream
\* and the FIN, as far as they were sent.
ReadWasSent(s) ==
  \/ s.next = 0 /\ s.stream.read = 0
  \/ s.next = s.stream.read + 1
  \/ s.next = s.stream.read + 2 /\ AtEof(s.stream)

\* A cached segment is at its place in the sequence space, with the bytes of
\* that place.
IsPlaced(s, c) ==
  /\ First(c) \in Nat /\ First(c) < c.end /\ c.end <= s.next
  /\ c.seg.seqno = Wrap(First(c), s.isn)
  /\ c.seg.syn = (First(c) = 0)
  /\ c.seg.fin => c.end = s.stream.written + 2 /\ s.stream.ended
  /\ c.end <= s.stream.read + 1 + Flag(c.seg.fin)
  /\ \A i \in 1 .. Len(c.seg.payload) : c.seg.payload[i] = First(c) + i - 2

\* Two segments have no number in common.
AreApart(c, d) == c.end <= First(d) \/ d.end <= First(c)

\* Number n is one of segment c.
Holds(c, n) == First(c) <= n /\ n < c.end

\* What the numbers and the cached segments of a sender are, when a is the last
\* acknowledgment that popped one: the cache holds every number from a on,
\* once.
SenderOK(s, a) ==
  /\ s \in Sender
  /\ StreamIsNumbered(s.stream)
  /\ ReadWasSent(s)
  /\ a \in 0 .. s.next /\ s.flight = s.next - a /\ s.flight <= MaxWindow
  /\ \A c \in s.cache : IsPlaced(s, c) /\ c.end > a
  /\ \A c \in s.cache : LengthInSequenceSpace(c.seg) <= MaxWindow
  /\ \A c, d \in s.cache : c = d \/ AreApart(c, d)
  /\ \A n \in a .. s.next - 1 : \E c \in s.cache : Holds(c, n)

\* The first n doublings of the timeout.
IsBackoff(n, f) ==
  /\ f \in [0 .. n -> Nat] /\ f[0] = RtTimeout
  /\ \A k \in 1 .. n : f[k] = 2 * f[k - 1]

\* The timeout has been doubled by each retransmission, and the timer has not
\* run out.
TimerOK(s) ==
  /\ s.rto = Backoff[s.retx] /\ s.retx <= MaxRetx + 1
  /\ s.retx <= MaxRetx => s.time < s.rto
  /\ s.cache = {} => s.time = 0 /\ s.retx = 0

\* The inductive invariant.
SInv == SenderOK(snd, lastAck) /\ TimerOK(snd) /\ peerNext \in lastAck .. snd.next

-----------------------------------------------------------------------------

\* Facts about sequence numbers that hold for every modulus: two peers exchange
\* raw values and recover the absolute numbers.
LEMMA ModulusType == Modulus \in Nat \ {0} /\ Modulus = 2 * Half
  BY HalfAssumption, SMT DEF Modulus

LEMMA WrapType ==
  ASSUME NEW n \in Int, NEW isn \in Int
  PROVE  Wrap(n, isn) \in Raw
<1>1. n + isn \in Int  BY SMT
<1>2. (n + isn) % Modulus \in 0 .. Modulus - 1
  BY <1>1, ModSplit, ModulusType, Zenon
<1> QED  BY <1>2 DEF Wrap, Raw

\* The signed difference of two wrapped numbers is the difference of the
\* numbers themselves as long as that fits in an int32_t (operator-).
LEMMA OffsetOfWraps ==
  ASSUME NEW m \in Int, NEW n \in Int, NEW isn \in Int,
         m - n >= -Half, m - n < Half
  PROVE  Offset(Wrap(m, isn), Wrap(n, isn)) = m - n
<1> DEFINE M == Modulus
           d == (Wrap(m, isn) - Wrap(n, isn)) % M
<1>1. M \in Nat \ {0} /\ M = 2 * Half /\ Half \in Nat
  BY ModulusType, HalfAssumption
<1>2. m + isn \in Int /\ n + isn \in Int /\ (m + isn) - (n + isn) = m - n
  BY SMT
<1>3. d = (m - n) % M
  <2>1. \A a, b \in Int : ((a % M) - (b % M)) % M = (a - b) % M
    BY <1>1, ModDifference
  <2>2. d = (((m + isn) % M) - ((n + isn) % M)) % M  BY DEF Wrap
  <2>3. d = ((m + isn) - (n + isn)) % M  BY <1>2, <2>1, <2>2, Zenon
  <2> QED  BY <1>2, <2>3
<1> HIDE DEF M, d
<1>4. CASE m - n >= 0
  <2>1. m - n \in 0 .. M - 1  BY <1>1, <1>4, SMT
  <2>2. (0 * M + (m - n)) % M = m - n  BY <1>1, <2>1, ModUnique
  <2>3. d = m - n  BY <1>1, <1>3, <2>2, SMT
  <2> QED  BY <1>1, <1>4, <2>3 DEF Offset, M, d
<1>5. CASE m - n < 0
  <2>1. (m - n) + M \in 0 .. M - 1  BY <1>1, <1>5, SMT
  <2>2. ((-1) * M + ((m - n) + M)) % M = (m - n) + M
    BY <1>1, <2>1, ModUnique
  <2>3. d = (m - n) + M  BY <1>1, <1>3, <2>2, SMT
  <2>4. ~(d < Half)  BY <1>1, <2>3, SMT
  <2> QED  BY <1>1, <2>3, <2>4, SMT DEF Offset, M, d
<1> QED  BY <1>4, <1>5, SMT

\* unwrap() gives back the absolute number that wrap() was given, for every
\* modulus, whenever the checkpoint is within half a modulus of it
\* (wrapping_integers.cc:32-39 on the result of :16-20).
THEOREM UnwrapRoundTrip ==
  ASSUME NEW n \in Nat, NEW isn \in Int, NEW checkpoint \in Nat,
         n - checkpoint >= -Half, n - checkpoint < Half
  PROVE  Unwrap(Wrap(n, isn), isn, checkpoint) = n
<1>1. Offset(Wrap(n, isn), Wrap(checkpoint, isn)) = n - checkpoint
  BY OffsetOfWraps
<1> QED  BY <1>1, SMT DEF Unwrap

-----------------------------------------------------------------------------

\* The doublings, as far as one likes: a counterexample would have a least one.
LEMMA BackoffsExist == \A n \in Nat : \E f : IsBackoff(n, f)
<1> DEFINE T == {n \in Nat : ~\E f : IsBackoff(n, f)}
<1> SUFFICES ASSUME T # {} PROVE FALSE  OBVIOUS
<1>1. PICK n \in T : \A m \in T : n <= m  BY LeastExists
<1>2. RtTimeout \in Nat  BY SenderAssumption
<1>3. n # 0
  <2>1. IsBackoff(0, [k \in 0 .. 0 |-> RtTimeout])  BY <1>2 DEF IsBackoff
  <2> QED  BY <2>1
<1>4. n - 1 \in Nat /\ n - 1 \notin T  BY <1>1, <1>3
<1>5. PICK g : IsBackoff(n - 1, g)  BY <1>4
<1> DEFINE f == [k \in 0 .. n |-> IF k < n THEN g[k] ELSE 2 * g[n - 1]]
<1>6. f \in [0 .. n -> Nat]
  <2>1. ASSUME NEW k \in 0 .. n PROVE (IF k < n THEN g[k] ELSE 2 * g[n - 1]) \in Nat
    <3>1. g[n - 1] \in Nat /\ (k < n => g[k] \in Nat)  BY <1>4, <1>5 DEF IsBackoff
    <3> QED  BY <3>1
  <2> QED  BY <2>1
<1>7. f[0] = RtTimeout  BY <1>3, <1>5 DEF IsBackoff
<1>8. ASSUME NEW k \in 1 .. n PROVE f[k] = 2 * f[k - 1]
  <2>1. k \in 0 .. n /\ k - 1 \in 0 .. n /\ k - 1 < n /\ f[k - 1] = g[k - 1]  OBVIOUS
  <2>2. CASE k < n
    <3>1. f[k] = g[k] /\ k \in 1 .. n - 1  BY <2>1, <2>2
    <3>2. g[k] = 2 * g[k - 1]  BY <1>5, <3>1 DEF IsBackoff
    <3> QED  BY <2>1, <3>1, <3>2
  <2>3. CASE ~(k < n)
    <3>1. k = n /\ f[k] = 2 * g[n - 1]  BY <2>1, <2>3
    <3> QED  BY <2>1, <3>1
  <2> QED  BY <2>2, <2>3
<1>9. IsBackoff(n, f)
  <2> HIDE DEF f
  <2> QED  BY <1>6, <1>7, <1>8 DEF IsBackoff
<1> QED  BY <1>9

\* Two sequences of doublings agree as far as they both go.
LEMMA BackoffsAgree ==
  ASSUME NEW m \in Nat, NEW n \in Nat, m <= n, NEW f, NEW g,
         IsBackoff(m, f), IsBackoff(n, g)
  PROVE  \A k \in 0 .. m : f[k] = g[k]
<1> DEFINE T == {k \in Nat : k <= m /\ f[k] # g[k]}
<1> SUFFICES ASSUME T # {} PROVE FALSE  OBVIOUS
<1>1. PICK k \in T : \A j \in T : k <= j  BY LeastExists
<1>2. k # 0  BY DEF IsBackoff
<1>3. k - 1 \in Nat /\ k - 1 \notin T /\ k - 1 <= m /\ k \in 1 .. m /\ k \in 1 .. n
  BY <1>1, <1>2
<1>4. f[k - 1] = g[k - 1]  BY <1>3
<1>5. f[k] = 2 * f[k - 1] /\ g[k] = 2 * g[k - 1]  BY <1>3 DEF IsBackoff
<1> QED  BY <1>4, <1>5

\* The recursive definition of Backoff has a solution, so it means what it
\* says.
LEMMA BackoffDoubles ==
  /\ Backoff[0] = RtTimeout
  /\ \A n \in Nat : Backoff[n] \in Nat /\ Backoff[n + 1] = 2 * Backoff[n]
<1> DEFINE h(n) == CHOOSE f : IsBackoff(n, f)
           B == [n \in Nat |-> h(n)[n]]
<1>1. \A n \in Nat : IsBackoff(n, h(n))  BY BackoffsExist
<1> HIDE DEF h
<1>2. B[0] = RtTimeout  BY <1>1 DEF IsBackoff
<1>3. \A n \in Nat : B[n] \in Nat
  <2> TAKE n \in Nat
  <2>1. IsBackoff(n, h(n)) /\ n \in 0 .. n  BY <1>1
  <2> QED  BY <2>1 DEF IsBackoff
<1>4. ASSUME NEW n \in Nat \ {0} PROVE B[n] = 2 * B[n - 1]
  <2>1. n - 1 \in Nat /\ n - 1 <= n /\ n - 1 \in 0 .. n - 1  OBVIOUS
  <2>2. IsBackoff(n, h(n)) /\ IsBackoff(n - 1, h(n - 1))  BY <1>1, <2>1
  <2>3. h(n)[n] = 2 * h(n)[n - 1]
    <3>1. n \in 1 .. n  OBVIOUS
    <3> QED  BY <2>2, <3>1 DEF IsBackoff
  <2>4. h(n - 1)[n - 1] = h(n)[n - 1]  BY <2>1, <2>2, BackoffsAgree
  <2> QED  BY <2>1, <2>3, <2>4
<1>5. B = [n \in Nat |-> IF n = 0 THEN RtTimeout ELSE 2 * B[n - 1]]
  <2>1. \A n \in Nat : B[n] = IF n = 0 THEN RtTimeout ELSE 2 * B[n - 1]
    BY <1>2, <1>4
  <2> QED  BY <2>1
<1> HIDE DEF B
<1>6. Backoff = [n \in Nat |-> IF n = 0 THEN RtTimeout ELSE 2 * Backoff[n - 1]]
  BY <1>5 DEF Backoff
<1>7. Backoff[0] = RtTimeout  BY <1>6
<1>8. ASSUME NEW n \in Nat PROVE Backoff[n + 1] = 2 * Backoff[n]
  <2>1. n + 1 \in Nat /\ n + 1 # 0 /\ n + 1 - 1 = n  OBVIOUS
  <2> QED  BY <1>6, <2>1
<1>9. \A n \in Nat : Backoff[n] \in Nat
  <2> DEFINE T == {n \in Nat : Backoff[n] \notin Nat}
  <2> SUFFICES ASSUME T # {} PROVE FALSE  OBVIOUS
  <2>1. PICK n \in T : \A m \in T : n <= m  BY LeastExists
  <2>2. n # 0
    <3>1. RtTimeout \in Nat  BY SenderAssumption
    <3> QED  BY <1>7, <3>1
  <2>3. n - 1 \in Nat /\ n - 1 \notin T /\ n - 1 + 1 = n  BY <2>1, <2>2
  <2>4. Backoff[n] = 2 * Backoff[n - 1]  BY <1>8, <2>3
  <2>5. Backoff[n - 1] \in Nat  BY <2>3
  <2> QED  BY <2>4, <2>5
<1> QED  BY <1>7, <1>8, <1>9

-----------------------------------------------------------------------------

\* A segment occupies a number for each byte and each flag.
LEMMA LengthType ==
  ASSUME NEW seg \in Segment
  PROVE  /\ LengthInSequenceSpace(seg) \in Nat
         /\ LengthInSequenceSpace(seg) = Len(seg.payload) + Flag(seg.syn) + Flag(seg.fin)
         /\ Flag(seg.syn) \in {0, 1} /\ Flag(seg.fin) \in {0, 1}
<1>1. /\ seg.payload \in Seq(Nat) /\ seg.syn \in BOOLEAN /\ seg.fin \in BOOLEAN
  BY DEF Segment
<1>2. Len(seg.payload) \in Nat  BY <1>1, LenProperties
<1>3. Flag(seg.syn) \in {0, 1} /\ Flag(seg.fin) \in {0, 1}  BY DEF Flag
<1> QED  BY <1>2, <1>3 DEF LengthInSequenceSpace

\* The fields of a cached segment.
LEMMA FirstType ==
  ASSUME NEW s \in Sender, NEW c \in s.cache
  PROVE  c.end \in Nat /\ c.seg \in Segment /\ First(c) \in Int
<1>1. c \in [end : Nat, seg : Segment]  BY DEF Sender
<1> QED  BY <1>1, LengthType DEF First

\* The fields of a sender, for the arithmetic below.
LEMMA SenderFields ==
  ASSUME NEW s \in Sender
  PROVE  /\ s.isn \in Raw /\ s.isn \in Int /\ s.next \in Nat /\ s.flight \in Nat
         /\ s.window \in 0 .. MaxWindow /\ MaxWindow \in Nat \ {0}
         /\ s.stream \in Stream /\ s.stream.buffer \in Seq(Nat)
         /\ Len(s.stream.buffer) \in Nat
         /\ s.stream.read \in Nat /\ s.stream.written \in Nat
         /\ s.out \in Seq(Segment) /\ s.cache \in SUBSET [end : Nat, seg : Segment]
         /\ s.time \in Nat /\ s.rto \in Nat /\ s.retx \in Nat
<1>1. /\ s.isn \in Raw /\ s.next \in Nat /\ s.flight \in Nat
      /\ s.window \in 0 .. MaxWindow /\ s.stream \in Stream
      /\ s.out \in Seq(Segment) /\ s.cache \in SUBSET [end : Nat, seg : Segment]
      /\ s.time \in Nat /\ s.rto \in Nat /\ s.retx \in Nat
  BY DEF Sender
<1>2. s.isn \in Int  BY <1>1, ModulusType DEF Raw
<1>3. MaxWindow \in Nat \ {0}  BY PeerAssumption
<1>4. /\ s.stream.buffer \in Seq(Nat) /\ s.stream.read \in Nat
      /\ s.stream.written \in Nat
  BY <1>1 DEF Stream
<1>5. Len(s.stream.buffer) \in Nat  BY <1>4, LenProperties
<1> QED  BY <1>1, <1>2, <1>3, <1>4, <1>5

\* The first m of n numbers from w on.
LEMMA NumbersPrefix ==
  ASSUME NEW w \in Nat, NEW n \in Nat, NEW m \in 0 .. n
  PROVE  LET r == SubSeq([i \in 1 .. n |-> w + i - 1], 1, m)
         IN  r \in Seq(Nat) /\ Len(r) = m /\ \A i \in 1 .. m : r[i] = w + i - 1
<1> DEFINE d == [i \in 1 .. n |-> w + i - 1]
           r == SubSeq(d, 1, m)
<1>1. \A i \in 1 .. m : d[i] \in Nat /\ d[i] = w + i - 1
  <2> TAKE i \in 1 .. m
  <2>1. i \in 1 .. n  OBVIOUS
  <2> QED  BY <2>1
<1>2. 1 \in Int /\ m \in Int  OBVIOUS
<1> HIDE DEF d
<1>3. /\ r \in Seq(Nat) /\ Len(r) = IF 1 <= m THEN m - 1 + 1 ELSE 0
      /\ \A i \in 1 .. m - 1 + 1 : r[i] = d[1 + i - 1]
  BY <1>1, <1>2, SubSeqProperties
<1> HIDE DEF r
<1>4. ASSUME NEW i \in 1 .. m PROVE r[i] = w + i - 1
  <2>1. i \in 1 .. m - 1 + 1 /\ 1 + i - 1 = i  OBVIOUS
  <2> QED  BY <1>1, <1>3, <2>1
<1> QED  BY <1>3, <1>4 DEF r, d

\* Cutting t bytes into blocks of m: the blocks are not empty, follow each
\* other and hold all the bytes.
LEMMA Blocks ==
  ASSUME NEW m \in Nat \ {0}, NEW t \in Nat \ {0},
         NEW c, c = (t + m - 1) \div m
  PROVE  /\ c \in Nat \ {0} /\ Least(c * m, t) = t
         /\ \A i \in 1 .. c :
              /\ (i - 1) * m \in Nat /\ Least(i * m, t) \in Nat
              /\ (i - 1) * m < Least(i * m, t) /\ Least(i * m, t) <= t
         /\ \A i, j \in 1 .. c :
              i < j => Least(i * m, t) <= (j - 1) * m /\ Least(i * m, t) < t
         /\ \A k \in 0 .. t - 1 :
              \E i \in 1 .. c : (i - 1) * m <= k /\ k < Least(i * m, t)
<1>1. c \in Nat \ {0} /\ (c - 1) * m < t /\ t <= c * m  BY RoundedUp
<1>2. ASSUME NEW i \in 1 .. c
      PROVE  /\ i * m \in Nat /\ (i - 1) * m \in Nat /\ i * m = (i - 1) * m + m
             /\ (i - 1) * m < t
  <2>1. i * m = (i - 1) * m + m /\ i * m \in Int  BY <1>1, SMT
  <2>2. (i - 1) * m <= (c - 1) * m /\ 0 * m <= (i - 1) * m
    BY <1>1, TimesMonotonic
  <2> QED  BY <1>1, <2>1, <2>2
<1>3. Least(c * m, t) = t  BY <1>1 DEF Least
<1>4. ASSUME NEW i \in 1 .. c
      PROVE  (i - 1) * m \in Nat /\ Least(i * m, t) \in Nat /\ (i - 1) * m < Least(i * m, t) /\ Least(i * m, t) <= t
  BY <1>1, <1>2 DEF Least
<1>5. ASSUME NEW i \in 1 .. c, NEW j \in 1 .. c, i < j
      PROVE  Least(i * m, t) <= (j - 1) * m /\ Least(i * m, t) < t
  <2>1. i * m <= (j - 1) * m  BY <1>1, <1>5, TimesMonotonic
  <2>2. i * m \in Nat /\ (j - 1) * m \in Nat /\ (j - 1) * m < t  BY <1>2
  <2> QED  BY <2>1, <2>2 DEF Least
<1>6. ASSUME NEW k \in 0 .. t - 1
      PROVE  \E i \in 1 .. c : (i - 1) * m <= k /\ k < Least(i * m, t)
  <2> DEFINE q == k \div m
  <2>1. q \in Int /\ k = q * m + (k % m) /\ k % m \in 0 .. m - 1  BY SMT
  <2> HIDE DEF q
  <2>2. (q + 1) * m = q * m + m /\ q * m \in Int  BY <2>1, SMT
  <2>3. q * m <= k /\ k < (q + 1) * m  BY <2>1, <2>2
  <2>4. q >= 0
    <3>1. SUFFICES ASSUME q + 1 <= 0 PROVE FALSE  BY <2>1
    <3>2. (q + 1) * m <= 0 * m  BY <2>1, <3>1, TimesMonotonic
    <3> QED  BY <2>2, <2>3, <3>2
  <2>5. q < c
    <3>1. SUFFICES ASSUME c <= q PROVE FALSE  BY <1>1, <2>1
    <3>2. c * m <= q * m  BY <1>1, <2>1, <3>1, TimesMonotonic
    <3> QED  BY <1>1, <2>2, <2>3, <3>2
  <2>6. q + 1 \in 1 .. c /\ (q + 1) - 1 = q  BY <1>1, <2>1, <2>4, <2>5
  <2>7. ((q + 1) - 1) * m = q * m  BY <2>6
  <2>8. k < Least((q + 1) * m, t)  BY <2>2, <2>3, <2>7 DEF Least
  <2> QED  BY <2>3, <2>6, <2>7, <2>8
<1> QED  BY <1>1, <1>3, <1>4, <1>5, <1>6

\* A segment made of data.
LEMMA DataSegmentType ==
  ASSUME NEW seqno \in Raw, NEW data \in Seq(Nat), NEW fin \in BOOLEAN
  PROVE  LET seg == DataSegment(seqno, data, fin)
         IN  /\ seg \in Segment
             /\ seg.seqno = seqno /\ ~seg.syn /\ seg.fin = fin
             /\ seg.payload = data
             /\ LengthInSequenceSpace(seg) = Len(data) + Flag(fin)
<1> DEFINE plain == PlainSegment(seqno)
           seg == DataSegment(seqno, data, fin)
<1>1. plain \in Segment /\ plain.seqno = seqno /\ ~plain.syn
  BY DEF PlainSegment, Segment
<1>2. seg = [plain EXCEPT !.payload = data, !.fin = fin]  BY DEF DataSegment
<1> HIDE DEF plain, seg
<1>3. seg \in Segment  BY <1>1, <1>2 DEF Segment
<1>4. seg.seqno = seqno /\ ~seg.syn /\ seg.fin = fin /\ seg.payload = data
  BY <1>1, <1>2 DEF Segment
<1>5. Flag(seg.syn) = 0  BY <1>4 DEF Flag
<1>6. LengthInSequenceSpace(seg) = Len(data) + Flag(fin)
  <2>1. Len(data) \in Nat /\ Flag(fin) \in {0, 1}  BY LenProperties DEF Flag
  <2>2. LengthInSequenceSpace(seg) = Len(data) + 0 + Flag(fin)
    BY <1>4, <1>5, Zenon DEF LengthInSequenceSpace
  <2> QED  BY <2>1, <2>2
<1> QED  BY <1>3, <1>4, <1>6 DEF seg

\* Reading from the stream leaves the bytes after those that were read.
LEMMA PopIsNumbered ==
  ASSUME NEW str \in Stream, StreamIsNumbered(str),
         NEW n \in 0 .. Len(str.buffer)
  PROVE  LET u == StreamPop(str, n)
         IN  /\ u \in Stream /\ StreamIsNumbered(u)
             /\ u.read = str.read + n /\ u.written = str.written
             /\ u.ended = str.ended /\ Len(u.buffer) = Len(str.buffer) - n
<1> DEFINE b == str.buffer
           v == SubSeq(b, n + 1, Len(b))
           u == StreamPop(str, n)
<1>1. /\ b \in Seq(Nat) /\ Len(b) \in Nat /\ str.read \in Nat /\ str.written \in Nat
      /\ n \in 0 .. Len(b)
  BY LenProperties DEF Stream
<1>2. Least(Len(b), n) = n  BY <1>1 DEF Least
<1>3. u = [str EXCEPT !.buffer = v, !.read = str.read + n]
  BY <1>2 DEF StreamPop, Stream
<1>4. /\ v \in Seq(Nat) /\ Len(v) = Len(b) - n
      /\ \A i \in 1 .. Len(b) - n : v[i] = b[n + i]
  <2>1. \A i \in n + 1 .. Len(b) : b[i] \in Nat  BY <1>1, ElementOfSeq
  <2>2. n + 1 \in Int /\ Len(b) \in Int  BY <1>1
  <2>3. /\ v \in Seq(Nat)
        /\ Len(v) = IF n + 1 <= Len(b) THEN Len(b) - (n + 1) + 1 ELSE 0
        /\ \A i \in 1 .. Len(b) - (n + 1) + 1 : v[i] = b[(n + 1) + i - 1]
    BY <2>1, <2>2, SubSeqProperties
  <2> HIDE DEF v
  <2>4. \A i \in 1 .. Len(b) - n : v[i] = b[n + i]
    <3> TAKE i \in 1 .. Len(b) - n
    <3>1. i \in 1 .. Len(b) - (n + 1) + 1 /\ (n + 1) + i - 1 = n + i  BY <1>1
    <3> QED  BY <2>3, <3>1
  <2>5. Len(v) = Len(b) - n  BY <1>1, <2>3
  <2> QED  BY <2>3, <2>4, <2>5
<1> HIDE DEF b, v, u
<1>5. u \in Stream /\ u.buffer = v /\ u.read = str.read + n
      /\ u.written = str.written /\ u.ended = str.ended
  <2>1. str.read + n \in Nat /\ v \in Seq(Nat)  BY <1>1, <1>4
  <2> QED  BY <1>3, <2>1 DEF Stream
<1>6. StreamIsNumbered(u)
  <2>1. str.written = str.read + Len(b) /\ \A i \in 1 .. Len(b) : b[i] = str.read + i - 1
    BY DEF StreamIsNumbered, b
  <2>2. u.written = u.read + Len(u.buffer)
    <3>1. Len(u.buffer) = Len(b) - n  BY <1>4, <1>5
    <3> QED  BY <1>1, <1>5, <2>1, <3>1
  <2>3. ASSUME NEW i \in 1 .. Len(u.buffer) PROVE u.buffer[i] = u.read + i - 1
    <3>1. i \in 1 .. Len(b) - n /\ n + i \in 1 .. Len(b)  BY <1>1, <1>4, <1>5
    <3> QED  BY <1>1, <1>4, <1>5, <2>1, <3>1, SMTT(30)
  <2>4. Len(u.buffer) <= SendCapacity
    <3>1. Len(b) <= SendCapacity  BY DEF StreamIsNumbered, b
    <3>2. Len(u.buffer) = Len(b) - n  BY <1>4, <1>5
    <3>3. SendCapacity \in Nat  BY SenderAssumption
    <3> QED  BY <1>1, <3>1, <3>2, <3>3
  <2> QED  BY <2>2, <2>3, <2>4 DEF StreamIsNumbered
<1>7. Len(u.buffer) = Len(b) - n  BY <1>4, <1>5
<1> QED  BY <1>5, <1>6, <1>7 DEF b, u

-----------------------------------------------------------------------------

\* What is queued is cached.
OutIsCached(s) == \A i \in DOMAIN s.out : \E c \in s.cache : c.seg = s.out[i]

\* What never goes back while a sender goes from s to t: what is placed stays
\* placed.
Follows(s, t) ==
  /\ t.isn = s.isn /\ t.next >= s.next
  /\ t.stream.read >= s.stream.read /\ t.stream.written >= s.stream.written
  /\ s.stream.ended => t.stream.ended /\ t.stream.written = s.stream.written

LEMMA FollowsTransitive ==
  ASSUME NEW s \in Sender, NEW t \in Sender, NEW u \in Sender,
         Follows(s, t), Follows(t, u)
  PROVE  Follows(s, u)
<1>1. /\ s.next \in Nat /\ t.next \in Nat /\ u.next \in Nat
      /\ s.stream.read \in Nat /\ t.stream.read \in Nat /\ u.stream.read \in Nat
      /\ s.stream.written \in Nat /\ t.stream.written \in Nat
      /\ u.stream.written \in Nat
  BY SenderFields
<1> QED  BY <1>1 DEF Follows

LEMMA PlacedStays ==
  ASSUME NEW s \in Sender, NEW t \in Sender, Follows(s, t),
         NEW c \in [end : Nat, seg : Segment], IsPlaced(s, c)
  PROVE  IsPlaced(t, c)
<1>1. /\ s.next \in Nat /\ t.next \in Nat
      /\ s.stream.read \in Nat /\ t.stream.read \in Nat
  BY SenderFields
<1>2. Flag(c.seg.fin) \in {0, 1} /\ c.end \in Nat  BY DEF Flag
<1> DEFINE k == Flag(c.seg.fin)
<1>3. /\ t.next >= s.next /\ t.stream.read >= s.stream.read
      /\ c.end <= s.next /\ c.end <= s.stream.read + 1 + k
  BY DEF Follows, IsPlaced
<1>4. c.end <= t.next /\ c.end <= t.stream.read + 1 + k
  <2>1. k \in {0, 1} /\ c.end \in Nat  BY <1>2
  <2> HIDE DEF k
  <2> QED  BY <1>1, <1>3, <2>1
<1> QED  BY <1>4 DEF Follows, IsPlaced

\* What the parts of fill_window() do not change, and what they add.
Grows(s, t) ==
  /\ t.isn = s.isn /\ t.window = s.window
  /\ t.stream.written = s.stream.written /\ t.stream.ended = s.stream.ended
  /\ t.time = s.time /\ t.rto = s.rto /\ t.retx = s.retx
  /\ t.next >= s.next /\ t.stream.read >= s.stream.read
  /\ s.cache \subseteq t.cache
  /\ OutIsCached(s) => OutIsCached(t)
  /\ \A c \in t.cache \ s.cache : c.end > s.next

\* One part after the other.
LEMMA GrowsTransitive ==
  ASSUME NEW s \in Sender, NEW t \in Sender, NEW u \in Sender,
         Grows(s, t), Grows(t, u)
  PROVE  Grows(s, u)
<1>1. s.next \in Nat /\ t.next \in Nat /\ u.next \in Nat  BY DEF Sender
<1>2. ASSUME NEW c \in u.cache \ s.cache PROVE c.end > s.next
  <2>1. CASE c \in t.cache  BY <2>1 DEF Grows
  <2>2. CASE c \notin t.cache
    <3>1. c.end > t.next /\ t.next >= s.next  BY <2>2 DEF Grows
    <3>2. c.end \in Nat  BY FirstType
    <3> QED  BY <1>1, <3>1, <3>2
  <2> QED  BY <2>1, <2>2
<1>3. u.next >= s.next  BY <1>1 DEF Grows
<1>4. u.stream.read >= s.stream.read
  <2>1. s.stream.read \in Nat /\ t.stream.read \in Nat /\ u.stream.read \in Nat
    BY SenderFields
  <2> QED  BY <2>1 DEF Grows
<1> QED  BY <1>2, <1>3, <1>4 DEF Grows

LEMMA GrowsSelf ==
  ASSUME NEW s \in Sender
  PROVE  Grows(s, s)
<1>1. s.next \in Nat /\ s.stream.read \in Nat  BY SenderFields
<1> QED  BY <1>1 DEF Grows

LEMMA GrowsFollows ==
  ASSUME NEW s \in Sender, NEW t, Grows(s, t)
  PROVE  Follows(s, t)
<1>1. s.stream.written \in Nat  BY SenderFields
<1> QED  BY <1>1 DEF Grows, Follows

\* Sending segments that together hold exactly the numbers up to the new next
\* one keeps the cache in order.
LEMMA ExtensionIsOK ==
  ASSUME NEW s, NEW a, SenderOK(s, a), NEW t \in Sender, NEW S,
         t.isn = s.isn, t.stream.written = s.stream.written,
         t.stream.ended = s.stream.ended, t.next >= s.next,
         t.stream.read >= s.stream.read,
         StreamIsNumbered(t.stream), ReadWasSent(t),
         t.flight = s.flight + (t.next - s.next), t.flight <= MaxWindow,
         t.cache = s.cache \cup S,
         \A c \in S : IsPlaced(t, c) /\ First(c) >= s.next,
         \A c, d \in S : c = d \/ AreApart(c, d),
         \A n \in s.next .. t.next - 1 : \E c \in S : Holds(c, n)
  PROVE  SenderOK(t, a)
<1>1. s \in Sender /\ s.next \in Nat /\ t.next \in Nat /\ s.flight \in Nat
  BY DEF SenderOK, Sender
<1>2. a \in 0 .. s.next /\ s.flight = s.next - a  BY DEF SenderOK
<1>3. a \in 0 .. t.next /\ t.flight = t.next - a  BY <1>1, <1>2
<1>4. ASSUME NEW c \in s.cache
      PROVE  IsPlaced(t, c) /\ c.end > a /\ c.end <= s.next /\ c \in t.cache
  <2>1. IsPlaced(s, c) /\ c.end > a  BY DEF SenderOK
  <2>2. c \in [end : Nat, seg : Segment] /\ c.end \in Nat  BY <1>1, FirstType DEF Sender
  <2>3. Follows(s, t)
    <3>1. s.stream.written \in Nat  BY <1>1, SenderFields
    <3> QED  BY <3>1 DEF Follows
  <2>4. IsPlaced(t, c)  BY <1>1, <2>1, <2>2, <2>3, PlacedStays
  <2> QED  BY <1>1, <2>1, <2>2, <2>4 DEF IsPlaced
<1>5. ASSUME NEW c \in S
      PROVE  IsPlaced(t, c) /\ c.end > a /\ c.end \in Nat /\ First(c) \in Nat
  <2>1. IsPlaced(t, c) /\ First(c) >= s.next /\ c \in t.cache  OBVIOUS
  <2>2. c.end \in Nat  BY <2>1, FirstType
  <2> QED  BY <1>1, <1>2, <2>1, <2>2 DEF IsPlaced
<1>6. \A c, d \in t.cache : c = d \/ AreApart(c, d)
  <2>1. ASSUME NEW c \in s.cache, NEW d \in S PROVE c.end <= First(d)
    <3>1. c.end \in Nat /\ First(d) \in Nat /\ c.end <= s.next /\ First(d) >= s.next
      BY <1>1, <1>4, <1>5, FirstType
    <3> QED  BY <1>1, <3>1
  <2>2. \A c, d \in s.cache : c = d \/ AreApart(c, d)  BY DEF SenderOK
  <2> QED  BY <2>1, <2>2 DEF AreApart
<1>7. \A n \in a .. t.next - 1 : \E c \in t.cache : Holds(c, n)
  <2>1. \A n \in a .. s.next - 1 : \E c \in s.cache : Holds(c, n)  BY DEF SenderOK
  <2>2. ASSUME NEW n \in a .. t.next - 1
        PROVE  n \in a .. s.next - 1 \/ n \in s.next .. t.next - 1
    BY <1>1, <1>2
  <2> QED  BY <2>1, <2>2
<1>8. \A c \in t.cache : IsPlaced(t, c) /\ c.end > a  BY <1>4, <1>5
<1>9. ASSUME NEW c \in t.cache PROVE LengthInSequenceSpace(c.seg) <= MaxWindow
  <2>1. CASE c \in s.cache  BY <2>1 DEF SenderOK
  <2>2. CASE c \in S
    <3>1. c.end <= t.next /\ First(c) >= s.next  BY <2>2 DEF IsPlaced
    <3>2. c.end \in Nat /\ LengthInSequenceSpace(c.seg) \in Nat
      BY <1>5, <2>2, FirstType, LengthType
    <3>3. MaxWindow \in Nat  BY PeerAssumption
    <3> QED  BY <1>1, <3>1, <3>2, <3>3 DEF First
  <2> QED  BY <2>1, <2>2
<1> QED  BY <1>3, <1>6, <1>7, <1>8, <1>9 DEF SenderOK

\* Sending one segment without payload.
LEMMA SendIsOK ==
  ASSUME NEW s, NEW a, SenderOK(s, a), NEW seg \in Segment, NEW n \in Nat \ {0},
         n = LengthInSequenceSpace(seg),
         seg.seqno = Wrap(s.next, s.isn), seg.syn = (s.next = 0),
         seg.payload = <<>>,
         seg.fin => s.next + n = s.stream.written + 2 /\ s.stream.ended,
         s.flight + n <= MaxWindow,
         \/ s.next + n = s.stream.read + 1
         \/ s.next + n = s.stream.read + 2 /\ AtEof(s.stream)
  PROVE  SenderOK(Send(s, seg), a) /\ Grows(s, Send(s, seg))
<1> DEFINE t == Send(s, seg)
           c == [end |-> s.next + n, seg |-> seg]
<1>1. s \in Sender /\ s.next \in Nat /\ s.flight \in Nat  BY DEF SenderOK, Sender
<1>2. t = [s EXCEPT !.next = s.next + n, !.flight = s.flight + n,
                    !.out = Append(s.out, seg), !.cache = s.cache \cup {c}]
  BY <1>1 DEF Send, Sender
<1>3. c \in [end : Nat, seg : Segment]  BY <1>1
<1>4. Append(s.out, seg) \in Seq(Segment)
  <2>1. s.out \in Seq(Segment)  BY <1>1 DEF Sender
  <2> QED  BY <2>1, AppendProperties
<1>5. t \in Sender
  <2> DEFINE cache == s.cache \cup {c}
             out == Append(s.out, seg)
  <2>1. cache \in SUBSET [end : Nat, seg : Segment]  BY <1>1, <1>3 DEF Sender
  <2>2. s.next + n \in Nat /\ s.flight + n \in Nat  BY <1>1
  <2>3. t = [s EXCEPT !.next = s.next + n, !.flight = s.flight + n,
                      !.out = out, !.cache = cache]
    BY <1>2
  <2>4. out \in Seq(Segment)  BY <1>4
  <2> HIDE DEF cache, out, t
  <2> QED  BY <1>1, <2>1, <2>2, <2>3, <2>4 DEF Sender
<1>6. /\ t.isn = s.isn /\ t.stream = s.stream /\ t.next = s.next + n
      /\ t.flight = s.flight + n /\ t.cache = s.cache \cup {c}
      /\ t.out = Append(s.out, seg)
      /\ t.window = s.window /\ t.time = s.time /\ t.rto = s.rto /\ t.retx = s.retx
  BY <1>1, <1>2 DEF Sender
<1>7. First(c) = s.next /\ c.end = s.next + n  BY <1>1 DEF First
<1> HIDE DEF t, c
<1>8. IsPlaced(t, c)
  <2>1. c.seg = seg  BY DEF c
  <2>2. Len(c.seg.payload) = 0  BY <2>1
  <2>3. c.end <= t.stream.read + 1 + Flag(c.seg.fin)
    <3>1. s.stream.read \in Nat /\ n = Flag(seg.syn) + Flag(seg.fin)
      <4>1. Flag(seg.syn) \in Nat /\ Flag(seg.fin) \in Nat  BY DEF Flag
      <4>2. Len(seg.payload) = 0  BY <2>1, <2>2
      <4> QED  BY <1>1, <4>1, <4>2, SenderFields, LengthType
    <3>2. CASE seg.fin
      <4>1. Flag(c.seg.fin) = 1  BY <2>1, <3>2 DEF Flag
      <4> QED  BY <1>1, <1>6, <1>7, <3>1, <4>1
    <3>3. CASE ~seg.fin
      <4>1. Flag(seg.fin) = 0  BY <3>3 DEF Flag
      <4>2. seg.syn /\ n = 1
        <5>1. ~seg.syn => Flag(seg.syn) = 0  BY DEF Flag
        <5>2. seg.syn => Flag(seg.syn) = 1  BY DEF Flag
        <5> QED  BY <3>1, <4>1, <5>1, <5>2
      <4>3. s.next = 0  BY <4>2
      <4> QED  BY <1>6, <1>7, <2>1, <3>1, <4>1, <4>2, <4>3
    <3> QED  BY <3>2, <3>3
  <2> QED  BY <1>1, <1>6, <1>7, <2>1, <2>2, <2>3 DEF IsPlaced
<1>9. \A m \in s.next .. t.next - 1 : Holds(c, m)  BY <1>1, <1>6, <1>7 DEF Holds
<1>10. StreamIsNumbered(t.stream) /\ ReadWasSent(t)
  BY <1>6 DEF SenderOK, ReadWasSent
<1>11. SenderOK(t, a)
  <2> DEFINE S == {c}
  <2>1. \A d \in S : IsPlaced(t, d) /\ First(d) >= s.next  BY <1>1, <1>7, <1>8
  <2>2. \A d, e \in S : d = e \/ AreApart(d, e)  OBVIOUS
  <2>3. \A m \in s.next .. t.next - 1 : \E d \in S : Holds(d, m)  BY <1>9
  <2>4. t.next >= s.next /\ t.flight = s.flight + (t.next - s.next)
    BY <1>1, <1>6
  <2>5. t.flight <= MaxWindow /\ t.cache = s.cache \cup S
        /\ t.stream.read >= s.stream.read
    BY <1>1, <1>6, SenderFields
  <2> HIDE DEF S
  <2> QED  BY <1>5, <1>6, <1>10, <2>1, <2>2, <2>3, <2>4, <2>5, ExtensionIsOK
<1>12. Grows(s, t)
  <2>1. OutIsCached(s) => OutIsCached(t)
    <3>1. c.seg = seg  BY DEF c
    <3>2. s.out \in Seq(Segment)  BY <1>1, SenderFields
    <3> QED  BY <1>6, <3>1, <3>2, AppendProperties DEF OutIsCached
  <2>2. t.stream.read >= s.stream.read  BY <1>1, <1>6, SenderFields
  <2> QED  BY <1>1, <1>6, <1>7, <2>1, <2>2 DEF Grows
<1> QED  BY <1>11, <1>12 DEF t

\* The SYN takes number 0, and the next part finds it sent.
LEMMA SendSynIsOK ==
  ASSUME NEW s, NEW a, SenderOK(s, a)
  PROVE  SenderOK(SendSyn(s), a) /\ Grows(s, SendSyn(s)) /\ SendSyn(s).next > 0
<1>1. s \in Sender /\ s.next \in Nat /\ s.flight \in Nat /\ s.isn \in Raw
  BY DEF SenderOK, Sender
<1>2. CASE s.next = 0
  <2> DEFINE seg == SynSegment(s.isn)
  <2>1. seg.seqno = s.isn /\ seg.syn = TRUE /\ seg.fin = FALSE /\ seg.payload = <<>>
    BY DEF SynSegment, PlainSegment
  <2>2. seg \in Segment
    <3>1. PlainSegment(s.isn) \in Segment  BY <1>1 DEF PlainSegment, Segment
    <3> QED  BY <3>1 DEF SynSegment, Segment
  <2>3. LengthInSequenceSpace(seg) = 1  BY <2>1 DEF LengthInSequenceSpace, Flag
  <2>4. seg.seqno = Wrap(s.next, s.isn)
    <3>1. s.isn \in 0 .. Modulus - 1 /\ Modulus \in Nat \ {0}
      BY <1>1, ModulusType DEF Raw
    <3>2. (0 * Modulus + s.isn) % Modulus = s.isn  BY <3>1, ModUnique
    <3>3. (s.next + s.isn) % Modulus = s.isn  BY <1>2, <3>1, <3>2
    <3> QED  BY <2>1, <3>3 DEF Wrap
  <2>5. s.flight = 0 /\ MaxWindow >= 1 /\ MaxWindow \in Nat
    <3>1. a \in 0 .. s.next /\ s.flight = s.next - a  BY DEF SenderOK
    <3>2. MaxWindow \in Nat \ {0}  BY PeerAssumption
    <3>3. a = 0  BY <1>2, <3>1
    <3> QED  BY <1>2, <3>1, <3>2, <3>3
  <2>6. s.next + 1 = s.stream.read + 1
    <3>1. s.stream.read \in Nat  BY <1>1 DEF Sender, Stream
    <3> QED  BY <1>2, <3>1 DEF SenderOK, ReadWasSent
  <2>7. SendSyn(s) = Send(s, seg) /\ seg.syn = TRUE /\ seg.fin = FALSE /\ seg.payload = <<>>
    BY <1>2, <2>1 DEF SendSyn
  <2>8. SenderOK(Send(s, seg), a) /\ Grows(s, Send(s, seg))
    <3> HIDE DEF seg
    <3>1. s.flight + 1 <= MaxWindow  BY <2>5
    <3>2. seg.syn = (s.next = 0)  BY <1>2, <2>7, Zenon
    <3> QED  BY <2>2, <2>3, <2>4, <2>6, <2>7, <3>1, <3>2, SendIsOK
  <2>9. Send(s, seg).next = s.next + 1  BY <1>1, <2>3 DEF Send, Sender
  <2> QED  BY <1>2, <2>7, <2>8, <2>9
<1>3. CASE s.next # 0
  <2>1. SendSyn(s) = s  BY <1>3 DEF SendSyn
  <2> QED  BY <1>1, <1>3, <2>1, GrowsSelf
<1> QED  BY <1>2, <1>3

\* The data segments: each carries the bytes of its numbers, the last one the
\* FIN when it is due, and no more than the window takes.
LEMMA SendDataIsOK ==
  ASSUME NEW s, NEW a, SenderOK(s, a)
  PROVE  SenderOK(SendData(s), a) /\ Grows(s, SendData(s))
<1> DEFINE b == s.stream.buffer
           total == Least(Len(b), Room(s))
           count == (total + MaxPayload - 1) \div MaxPayload
           fin == FinFollows(s, total)
           first(i) == (i - 1) * MaxPayload
           last(i) == Least(i * MaxPayload, total)
           data(i) == SubSeq(b, first(i) + 1, last(i))
           seg(i) == DataSegment(Wrap(s.next + first(i), s.isn), data(i),
                                 fin /\ i = count)
           sent == total + Flag(fin)
           follows(i) == IF i = count THEN s.next + sent ELSE s.next + last(i)
           c(i) == [end |-> follows(i), seg |-> seg(i)]
           S == {c(i) : i \in 1 .. count}
           out == [i \in 1 .. count |-> seg(i)]
           t == [s EXCEPT !.stream = StreamPop(@, total),
                          !.next = @ + sent, !.flight = @ + sent,
                          !.out = @ \o out, !.cache = @ \cup S]
<1>1. s \in Sender  BY DEF SenderOK
<1>2. CASE ~(~AtEof(s.stream) /\ s.next > s.flight /\ total > 0)
  <2>1. SendData(s) = s  BY <1>2, Zenon DEF SendData
  <2> QED  BY <1>1, <2>1, GrowsSelf
<1>3. CASE ~AtEof(s.stream) /\ s.next > s.flight /\ total > 0
  <2>1. SendData(s) = t  BY <1>3, Zenon DEF SendData
  <2>2. /\ s.next \in Nat /\ s.flight \in Nat /\ s.isn \in Int
        /\ s.window \in 0 .. MaxWindow /\ MaxWindow \in Nat \ {0}
        /\ s.stream \in Stream /\ b \in Seq(Nat) /\ Len(b) \in Nat
        /\ s.stream.read \in Nat /\ s.stream.written \in Nat
        /\ s.out \in Seq(Segment) /\ s.cache \in SUBSET [end : Nat, seg : Segment]
    BY <1>1, SenderFields
  <2>3. Room(s) \in Int /\ Room(s) <= MaxWindow - s.flight  BY <2>2 DEF Room
  <2>4. total \in Nat \ {0} /\ total \in 0 .. Len(b) /\ total <= Room(s)
    <3> HIDE DEF b
    <3> QED  BY <1>3, <2>2, <2>3 DEF Least
  <2>5. fin \in BOOLEAN /\ Flag(fin) \in {0, 1}  BY DEF FinFollows, Flag
  <2>6. sent \in Nat \ {0} /\ sent = total + Flag(fin)
    <3> HIDE DEF total, fin
    <3> QED  BY <2>4, <2>5
  <2>7. s.flight + sent <= MaxWindow
    <3>1. fin => total < Room(s) /\ Flag(fin) = 1  BY DEF FinFollows, Flag
    <3>2. ~fin => Flag(fin) = 0  BY DEF Flag
    <3> HIDE DEF total, fin
    <3> QED  BY <2>2, <2>3, <2>4, <2>6, <3>1, <3>2
  <2>8. MaxPayload \in Nat \ {0}  BY SenderAssumption
  <2>9. /\ count \in Nat \ {0} /\ last(count) = total
        /\ \A i \in 1 .. count :
             /\ first(i) \in Nat /\ last(i) \in Nat
             /\ first(i) < last(i) /\ last(i) <= total
        /\ \A i, j \in 1 .. count : i < j => last(i) <= first(j) /\ last(i) < total
        /\ \A k \in 0 .. total - 1 :
             \E i \in 1 .. count : first(i) <= k /\ k < last(i)
    <3> HIDE DEF total
    <3> QED  BY <2>4, <2>8, Blocks
  <2> DEFINE next == s.next
             isn == s.isn
             read == s.stream.read
             len == Len(b)
             g(i) == fin /\ i = count
  <2>10. s.next = s.stream.read + 1
    <3>1. ReadWasSent(s)  BY DEF SenderOK
    <3> QED  BY <1>3, <2>2, <3>1 DEF ReadWasSent
  <2>11. /\ next \in Nat /\ isn \in Int /\ read \in Nat /\ next = read + 1
         /\ b \in Seq(Nat) /\ len \in Nat /\ len = Len(b)
         /\ \A j \in 1 .. len : b[j] = read + j - 1
    BY <2>2, <2>10 DEF SenderOK, StreamIsNumbered
  <2>12. ASSUME NEW i \in 1 .. count
         PROVE  follows(i) = next + last(i) + Flag(g(i)) /\ g(i) \in BOOLEAN
    <3>1. CASE i = count
      <4>1. last(i) = total  BY <2>9, <3>1, Zenon
      <4>2. Flag(g(i)) = Flag(fin)  BY <2>5, <3>1, Zenon
      <4>3. follows(i) = next + sent  BY <3>1
      <4> DEFINE flag == Flag(fin)
      <4>4. flag \in Nat /\ sent = total + flag  BY <2>5, <2>6
      <4> HIDE DEF total, flag, last, g, sent, follows, next, count
      <4>5. next + sent = next + total + flag  BY <2>4, <2>11, <4>4
      <4>6. follows(i) = next + last(i) + Flag(g(i))
        BY <4>1, <4>2, <4>3, <4>5, Zenon DEF flag
      <4> QED  BY <4>6 DEF g
    <3>2. CASE i # count
      <4>1. Flag(g(i)) = 0  BY <3>2 DEF Flag
      <4>2. follows(i) = next + last(i)  BY <3>2
      <4>3. last(i) \in Nat  BY <2>9
      <4> HIDE DEF total, fin, last, g, sent, follows, next, count
      <4>4. follows(i) = next + last(i) + Flag(g(i))  BY <2>11, <4>1, <4>2, <4>3
      <4> QED  BY <4>4 DEF g
    <3> QED  BY <3>1, <3>2
  <2>13. ASSUME NEW i \in 1 .. count
         PROVE  /\ seg(i) \in Segment /\ c(i) \in [end : Nat, seg : Segment]
                /\ First(c(i)) = next + first(i)
                /\ c(i).seg.seqno = Wrap(First(c(i)), isn)
                /\ ~c(i).seg.syn /\ (c(i).seg.fin = g(i))
                /\ \A j \in 1 .. Len(c(i).seg.payload) :
                     c(i).seg.payload[j] = First(c(i)) + j - 2
    <3> DEFINE f == first(i)
               l == last(i)
               gi == g(i)
               sg == DataSegment(Wrap(next + f, isn), SubSeq(b, f + 1, l), gi)
               ci == [end |-> next + l + Flag(gi), seg |-> sg]
    <3>1. f \in Nat /\ l \in Nat /\ f < l /\ l <= len
      <4> HIDE DEF first, last, count, total, b
      <4>1. l <= total /\ total <= Len(b)  BY <2>2, <2>4, <2>9
      <4>2. f \in Nat /\ l \in Nat /\ f < l  BY <2>9
      <4> QED  BY <2>4, <2>11, <4>1, <4>2
    <3>2. gi \in BOOLEAN  BY <2>12
    <3>3. seg(i) = sg /\ c(i) = ci  BY <2>12
    <3> HIDE DEF f, l, gi, next, isn, b, read, len
    <3> DEFINE data_i == SubSeq(b, f + 1, l)
    <3>4. /\ data_i \in Seq(Nat) /\ Len(data_i) = l - f
          /\ \A j \in 1 .. l - f : data_i[j] = b[f + j]
      <4>1. \A j \in f + 1 .. l : b[j] \in Nat
        <5> TAKE j \in f + 1 .. l
        <5>1. j \in 1 .. len  BY <2>11, <3>1
        <5> QED  BY <2>11, <5>1
      <4>2. f + 1 \in Int /\ l \in Int  BY <3>1
      <4>3. /\ data_i \in Seq(Nat)
            /\ Len(data_i) = IF f + 1 <= l THEN l - (f + 1) + 1 ELSE 0
            /\ \A j \in 1 .. l - (f + 1) + 1 : data_i[j] = b[(f + 1) + j - 1]
        BY <4>1, <4>2, SubSeqProperties
      <4> HIDE DEF data_i
      <4>4. Len(data_i) = l - f  BY <3>1, <4>3
      <4>5. ASSUME NEW j \in 1 .. l - f PROVE data_i[j] = b[f + j]
        <5>1. j \in 1 .. l - (f + 1) + 1 /\ (f + 1) + j - 1 = f + j  BY <3>1
        <5> QED  BY <4>3, <5>1
      <4> QED  BY <4>3, <4>4, <4>5
    <3> DEFINE seqno == Wrap(next + f, isn)
    <3>5. seqno \in Raw /\ data_i \in Seq(Nat)
      <4>1. next + f \in Int  BY <2>11, <3>1
      <4> QED  BY <2>11, <3>4, <4>1, WrapType
    <3> HIDE DEF data_i, seqno
    <3> DEFINE d == DataSegment(seqno, data_i, gi)
               flag == Flag(gi)
    <3>6. d \in Segment  BY <3>2, <3>5, DataSegmentType, Zenon
    <3>7. d.seqno = seqno  BY <3>2, <3>5, DataSegmentType, Zenon
    <3>8. ~d.syn  BY <3>2, <3>5, DataSegmentType, Zenon
    <3>9. d.fin = gi  BY DEF DataSegment, PlainSegment
    <3>10. d.payload = data_i  BY <3>2, <3>5, DataSegmentType, Zenon
    <3>11. LengthInSequenceSpace(d) = Len(data_i) + flag
      BY <3>2, <3>5, DataSegmentType, Zenon
    <3>12. flag \in {0, 1}  BY DEF Flag
    <3>13. sg = d  BY DEF data_i, seqno
    <3> HIDE DEF d, flag, sg
    <3>14. ci.seg = d /\ ci.end = next + l + flag  BY <3>13 DEF flag
    <3> HIDE DEF ci
    <3>15. LengthInSequenceSpace(ci.seg) = l - f + flag
      <4>1. LengthInSequenceSpace(ci.seg) = Len(data_i) + flag
        BY <3>11, <3>14, Zenon
      <4> QED  BY <3>4, <4>1
    <3>16. ci.end \in Nat /\ First(ci) = next + f
      BY <2>11, <3>1, <3>12, <3>14, <3>15 DEF First
    <3>17. ci \in [end : Nat, seg : Segment]  BY <3>6, <3>13, <3>16 DEF ci
    <3>18. \A j \in 1 .. Len(ci.seg.payload) : ci.seg.payload[j] = First(ci) + j - 2
      <4>1. ci.seg.payload = data_i  BY <3>10, <3>14
      <4>2. ASSUME NEW j \in 1 .. l - f PROVE data_i[j] = next + f + j - 2
        <5>1. data_i[j] = b[f + j]  BY <3>4
        <5>2. f + j \in 1 .. len  BY <2>11, <3>1
        <5>3. b[f + j] = read + (f + j) - 1  BY <2>11, <5>2
        <5>4. read + (f + j) - 1 = next + f + j - 2  BY <2>11, <3>1
        <5> QED  BY <5>1, <5>3, <5>4, Zenon
      <4> QED  BY <3>4, <3>16, <4>1, <4>2
    <3>19. /\ ci.seg.seqno = Wrap(First(ci), isn) /\ ~ci.seg.syn
           /\ ci.seg.fin = gi
      BY <3>7, <3>8, <3>9, <3>14, <3>16 DEF seqno
    <3>20. sg \in Segment  BY <3>6, <3>13
    <3> HIDE DEF sg, ci, seg, c
    <3> QED  BY <3>3, <3>16, <3>17, <3>18, <3>19, <3>20 DEF f, gi
  <2> DEFINE popped == StreamPop(s.stream, total)
  <2>14. /\ popped \in Stream /\ StreamIsNumbered(popped)
         /\ popped.read = s.stream.read + total
         /\ popped.written = s.stream.written /\ popped.ended = s.stream.ended
         /\ Len(popped.buffer) = Len(b) - total
    <3>1. StreamIsNumbered(s.stream)  BY DEF SenderOK
    <3> HIDE DEF total
    <3> QED  BY <2>2, <2>4, <3>1, PopIsNumbered
  <2>15. out \in Seq(Segment)
    <3>1. out \in [1 .. count -> Segment]
      <4>1. \A i \in 1 .. count : seg(i) \in Segment  BY <2>13
      <4> HIDE DEF seg, count
      <4> QED  BY <4>1
    <3>2. count \in Nat  BY <2>9
    <3> HIDE DEF out, count
    <3> QED  BY <3>1, <3>2, FunctionIsSeq
  <2>16. S \in SUBSET [end : Nat, seg : Segment]
    <3>1. \A i \in 1 .. count : c(i) \in [end : Nat, seg : Segment]  BY <2>13
    <3> HIDE DEF c, count
    <3> QED  BY <3>1
  <2>17. /\ t \in Sender /\ t.isn = s.isn /\ t.stream = popped
         /\ t.next = s.next + sent /\ t.flight = s.flight + sent
         /\ t.cache = s.cache \cup S /\ t.window = s.window /\ t.time = s.time
         /\ t.rto = s.rto /\ t.retx = s.retx /\ t.out = s.out \o out
    <3> DEFINE out2 == s.out \o out
               cache2 == s.cache \cup S
               next2 == s.next + sent
               flight2 == s.flight + sent
    <3>1. t = [s EXCEPT !.stream = popped, !.next = next2, !.flight = flight2,
                        !.out = out2, !.cache = cache2]
      BY <1>1 DEF Sender
    <3>2. out2 \in Seq(Segment)  
      <4> HIDE DEF out
      <4> QED BY <2>2, <2>15, ConcatProperties
    <3>3. cache2 \in SUBSET [end : Nat, seg : Segment]
      <4> HIDE DEF S
      <4> QED  BY <2>2, <2>16
    <3>4. next2 \in Nat /\ flight2 \in Nat
      <4> HIDE DEF sent
      <4> QED  BY <2>2, <2>6
    <3>5. popped \in Stream  BY <2>14
    <3> HIDE DEF popped, next2, flight2, out2, cache2, t
    <3>6. t \in Sender  BY <1>1, <3>1, <3>2, <3>3, <3>4, <3>5 DEF Sender
    <3>7. /\ t.isn = s.isn /\ t.stream = popped
         /\ t.next = next2 /\ t.flight = flight2
         /\ t.cache = cache2 /\ t.window = s.window /\ t.time = s.time
         /\ t.rto = s.rto /\ t.retx = s.retx /\ t.out = out2
      BY <1>1, <3>1 DEF Sender
    <3> QED  BY <3>6, <3>7 DEF next2, flight2, cache2, out2
  <2> DEFINE flag == Flag(fin)
             ended == s.stream.ended
             written == s.stream.written
  <2>18. /\ flag \in {0, 1} /\ sent = total + flag /\ written = read + len
         /\ (fin => flag = 1 /\ total = len /\ ended) /\ (~fin => flag = 0)
    <3>1. StreamIsNumbered(s.stream)  BY DEF SenderOK
    <3>2. fin => ended /\ total = len  BY DEF FinFollows
    <3>3. (fin => flag = 1) /\ (~fin => flag = 0)  BY DEF Flag
    <3>4. flag \in {0, 1} /\ sent = total + flag  BY <2>5
    <3>5. written = read + len  BY <3>1 DEF StreamIsNumbered
    <3> HIDE DEF fin, flag, total, len, ended, sent, read, written
    <3> QED  BY <3>2, <3>3, <3>4, <3>5
  <2>19. ReadWasSent(t)
    <3>1. t.next = s.next + sent /\ t.stream.read = s.stream.read + total
      BY <2>14, <2>17, Zenon
    <3>2. CASE fin
      <4>1. Len(popped.buffer) = 0
        <5>1. total = Len(b) /\ Len(popped.buffer) = Len(b) - total
          BY <2>14, <2>18, <3>2
        <5> HIDE DEF total, popped, b
        <5> QED  BY <2>2, <5>1
      <4>2. popped.buffer = <<>>
        <5>1. popped.buffer \in Seq(Nat)  BY <2>14 DEF Stream
        <5> HIDE DEF popped
        <5> QED  BY <4>1, <5>1, EmptySeq
      <4>3. AtEof(t.stream)
        <5>1. ended  BY <2>18, <3>2
        <5> QED  BY <2>14, <2>17, <4>2, <5>1, Zenon DEF AtEof
      <4>4. t.next = t.stream.read + 2
        <5>1. sent = total + 1  BY <2>18, <3>2
        <5> HIDE DEF sent, total, t
        <5> QED  BY <2>2, <2>4, <2>10, <3>1, <5>1
      <4> QED  BY <4>3, <4>4 DEF ReadWasSent
    <3>3. CASE ~fin
      <4>1. sent = total + 0  BY <2>18, <3>3
      <4> HIDE DEF sent, total, t
      <4> QED  BY <2>2, <2>4, <2>10, <3>1, <4>1 DEF ReadWasSent
    <3> QED  BY <3>2, <3>3
  <2>20. ASSUME NEW i \in 1 .. count
         PROVE  /\ First(c(i)) \in Nat /\ First(c(i)) >= s.next /\ First(c(i)) > 0
                /\ First(c(i)) < c(i).end /\ c(i).end <= t.next
                /\ (c(i).seg.fin => c(i).end = written + 2 /\ ended)
                /\ c(i).end <= read + total + 1 + Flag(c(i).seg.fin)
    <3> DEFINE f == first(i)
               l == last(i)
               gi == g(i)
               e == c(i).end
               fs == First(c(i))
               tot == total
               n == t.next
               k == Flag(gi)
    <3>1. f \in Nat /\ l \in Nat /\ f < l /\ l <= tot  BY <2>9
    <3>2. fs = next + f  BY <2>13
    <3>3. e = next + l + k /\ k \in {0, 1}
      <4>1. follows(i) = next + l + k  BY <2>12
      <4>2. k \in {0, 1}  BY DEF Flag
      <4> QED  BY <4>1, <4>2
    <3>4. n = next + sent /\ sent = tot + flag  BY <2>17, <2>18
    <3>5. gi => k = flag /\ l = tot /\ flag = 1 /\ tot = len /\ ended
      <4>1. gi => fin /\ i = count  OBVIOUS
      <4>2. gi => k = flag
        <5>1. fin => Flag(TRUE) = Flag(fin)  BY <2>5
        <5>2. gi => k = Flag(TRUE)  BY <2>12
        <5> QED  BY <4>1, <5>1, <5>2, Zenon
      <4>3. gi => l = tot  BY <2>9, <4>1, Zenon
      <4> HIDE DEF gi, fin, l, k, flag, tot, len, ended
      <4> QED  BY <2>18, <4>1, <4>2, <4>3 DEF tot
    <3>6. ~gi => k = 0  BY DEF Flag
    <3>7. c(i).seg.fin = gi  BY <2>13
    <3>8. tot \in Nat  BY <2>4
    <3> HIDE DEF f, l, gi, e, fs, tot, n, k, flag, len, read, written, ended, next, sent
    <3>9. fs \in Nat /\ fs >= next /\ fs > 0 /\ fs < e
      BY <2>11, <3>1, <3>2, <3>3
    <3>10. e <= n
      BY <2>11, <2>18, <3>1, <3>3, <3>4, <3>5, <3>6, <3>8
    <3>11. gi => e = written + 2 /\ ended
      <4>1. ASSUME gi PROVE e = written + 2
        <5>1. k = 1 /\ l = len  BY <3>5, <4>1
        <5>2. next = read + 1 /\ written = read + len  BY <2>11, <2>18
        <5>3. next \in Nat /\ len \in Nat /\ read \in Nat  BY <2>11
        <5>4. e = next + l + k  BY <3>3
        <5> QED  BY <5>1, <5>2, <5>3, <5>4
      <4> QED  BY <3>5, <4>1
    <3>12. e <= read + tot + 1 + k
      <4>1. next = read + 1 /\ next \in Nat /\ read \in Nat  BY <2>11
      <4> QED  BY <3>1, <3>3, <3>8, <4>1
    <3>13. k = Flag(c(i).seg.fin)  BY <3>7, Zenon DEF k
    <3> QED  BY <3>7, <3>9, <3>10, <3>11, <3>12, <3>13 DEF fs, e, n, next, tot
  <2>21. ASSUME NEW i \in 1 .. count, NEW j \in 1 .. count, i < j
         PROVE  c(i).end <= First(c(j))
    <3> DEFINE l == last(i)
               f == first(j)
    <3>1. l \in Nat /\ f \in Nat /\ l <= f  BY <2>9, <2>21
    <3>2. Flag(g(i)) = 0
      <4>1. i # count
        <5> HIDE DEF count
        <5> QED  BY <2>9, <2>21
      <4> QED  BY <4>1 DEF Flag
    <3>3. c(i).end = next + l + 0  BY <2>12, <3>2, Zenon
    <3>4. First(c(j)) = next + f  BY <2>13
    <3> DEFINE e == c(i).end
               fs == First(c(j))
    <3>5. e = next + l + 0 /\ fs = next + f  BY <3>3, <3>4
    <3> HIDE DEF l, f, next, e, fs
    <3>6. next \in Nat  BY <2>11
    <3>7. e <= fs  BY <3>1, <3>5, <3>6
    <3> QED  BY <3>7 DEF e, fs
  <2>22. ASSUME NEW n \in s.next .. t.next - 1
         PROVE  \E i \in 1 .. count : Holds(c(i), n)
    <3> DEFINE tot == total
    <3>1. t.next = next + sent /\ sent = tot + flag /\ tot \in Nat \ {0}
      BY <2>4, <2>17, <2>18
    <3>2. count \in 1 .. count
      <4> HIDE DEF count
      <4> QED  BY <2>9
    <3>3. ASSUME NEW i \in 1 .. count, first(i) <= n - next, n - next < last(i) + Flag(g(i))
          PROVE  Holds(c(i), n)
      <4> DEFINE l == last(i)
                 f == first(i)
                 k == Flag(g(i))
                 e == c(i).end
                 fs == First(c(i))
      <4>1. fs = next + f /\ f \in Nat /\ l \in Nat  BY <2>9, <2>13
      <4>2. e = next + l + k /\ k \in {0, 1}  BY <2>12 DEF Flag
      <4>3. f <= n - next /\ n - next < l + k  BY <3>3
      <4>4. n \in Int
        <5> HIDE DEF t
        <5> QED  BY <2>2
      <4> HIDE DEF l, f, k, e, fs, next, t
      <4>5. next \in Nat  BY <2>11
      <4>6. fs <= n /\ n < e  BY <4>1, <4>2, <4>3, <4>4, <4>5
      <4> QED  BY <4>6 DEF Holds, fs, e
    <3>4. n \in Int /\ n - next \in 0 .. tot + flag - 1
      <4> DEFINE m == t.next
      <4>1. n \in next .. m - 1 /\ m = next + sent /\ sent = tot + flag
        BY <3>1
      <4>2. flag \in {0, 1} /\ next \in Nat /\ tot \in Nat
        BY <2>11, <2>18, <3>1
      <4> HIDE DEF m, next, sent, tot, flag, t
      <4> QED  BY <4>1, <4>2
    <3>5. CASE n - next \in 0 .. tot - 1
      <4>1. PICK i \in 1 .. count : first(i) <= n - next /\ n - next < last(i)
        <5> HIDE DEF count, first, last, next
        <5> QED  BY <2>9, <3>5 DEF tot
      <4>2. Flag(g(i)) \in {0, 1} /\ last(i) \in Nat  BY <2>9 DEF Flag
      <4>3. n - next < last(i) + Flag(g(i))
        <5> DEFINE l == last(i)
                   k == Flag(g(i))
        <5>1. n - next < l  BY <4>1
        <5>2. l \in Nat /\ k \in {0, 1}  BY <4>2
        <5> HIDE DEF l, k, next
        <5>3. n - next < l + k  BY <2>11, <3>4, <5>1, <5>2
        <5> QED  BY <5>3 DEF l, k
      <4> QED  BY <3>3, <4>1, <4>3
    <3>6. CASE n - next \notin 0 .. tot - 1
      <4>1. n - next = tot /\ flag = 1
        <5>1. flag \in {0, 1} /\ next \in Nat /\ tot \in Nat
          BY <2>11, <2>18, <3>1
        <5> HIDE DEF next, tot, flag, t
        <5> QED  BY <3>4, <3>6, <5>1
      <4>2. fin
        <5> HIDE DEF fin, flag
        <5> QED  BY <2>18, <4>1
      <4>3. Flag(g(count)) = 1  BY <4>2 DEF Flag
      <4>4. first(count) < last(count) /\ last(count) = tot /\ first(count) \in Nat
        BY <2>9, <3>2
      <4> DEFINE f == first(count)
                 l == last(count)
                 k == Flag(g(count))
      <4>5. f <= n - next /\ n - next < l + k
        <5>1. f < l /\ l = tot /\ f \in Nat /\ k = 1  BY <4>3, <4>4
        <5>2. next \in Nat /\ tot \in Nat  BY <2>11, <3>1
        <5> HIDE DEF f, l, k, next, tot, flag, t
        <5> QED  BY <3>4, <4>1, <5>1, <5>2
      <4> QED  BY <3>2, <3>3, <4>5
    <3> QED  BY <3>5, <3>6
  <2>23. SenderOK(t, a)
    <3>1. /\ t.stream.written = s.stream.written /\ t.stream.ended = s.stream.ended
          /\ StreamIsNumbered(t.stream)
      BY <2>14, <2>17, Zenon
    <3>2. t.next >= s.next /\ t.flight = s.flight + (t.next - s.next)
          /\ t.flight <= MaxWindow /\ t.stream.read >= s.stream.read
      <4>1. t.next = s.next + sent /\ t.flight = s.flight + sent  BY <2>17
      <4>2. t.stream.read = s.stream.read + total  BY <2>14, <2>17, Zenon
      <4> HIDE DEF t, sent, total
      <4> QED  BY <2>2, <2>4, <2>6, <2>7, <4>1, <4>2
    <3>3. \A d \in S : IsPlaced(t, d) /\ First(d) >= s.next
      <4> TAKE d \in S
      <4>1. PICK i \in 1 .. count : d = c(i)  OBVIOUS
      <4>2. /\ d.seg.seqno = Wrap(First(d), s.isn) /\ ~d.seg.syn
            /\ d.seg \in Segment
            /\ \A j \in 1 .. Len(d.seg.payload) :
                 d.seg.payload[j] = First(d) + j - 2
        <5>1. c(i).seg = seg(i)  OBVIOUS
        <5> HIDE DEF c, seg
        <5> QED  BY <2>13, <4>1, <5>1
      <4>3. /\ First(d) \in Nat /\ First(d) >= s.next /\ First(d) > 0
            /\ First(d) < d.end /\ d.end <= t.next
            /\ (d.seg.fin => d.end = s.stream.written + 2 /\ s.stream.ended)
            /\ d.end <= s.stream.read + total + 1 + Flag(d.seg.fin)
        <5> HIDE DEF c, t, total
        <5> QED  BY <2>20, <4>1
      <4>4. d.end <= t.stream.read + 1 + Flag(d.seg.fin)
        <5>1. t.stream.read = s.stream.read + total  BY <2>14, <2>17, Zenon
        <5> HIDE DEF t, total
        <5> QED  BY <4>3, <5>1
      <4>5. t.isn = s.isn  BY <2>17
      <4> HIDE DEF t
      <4>6. d.seg.syn = (First(d) = 0)
        <5>1. d.seg.syn \in BOOLEAN  BY <4>2 DEF Segment
        <5>2. ~(First(d) = 0)  BY <4>3
        <5> QED  BY <4>2, <5>1, <5>2
      <4> QED  BY <3>1, <4>2, <4>3, <4>5, <4>6, <4>4 DEF IsPlaced
    <3>4. \A d, e \in S : d = e \/ AreApart(d, e)
      <4> TAKE d, e \in S
      <4>1. PICK i \in 1 .. count : d = c(i)  OBVIOUS
      <4>2. PICK j \in 1 .. count : e = c(j)  OBVIOUS
      <4>3. i < j \/ j < i \/ i = j
        <5> HIDE DEF count
        <5> QED  BY <2>9
      <4> HIDE DEF c, count
      <4> QED  BY <2>21, <4>1, <4>2, <4>3 DEF AreApart
    <3>5. \A n \in s.next .. t.next - 1 : \E d \in S : Holds(d, n)
      <4>1. \A i \in 1 .. count : c(i) \in S  OBVIOUS
      <4> HIDE DEF S, c, count, t
      <4> QED  BY <2>22, <4>1
    <3> HIDE DEF t, S
    <3> QED  BY <2>17, <2>19, <3>1, <3>2, <3>3, <3>4, <3>5, ExtensionIsOK
  <2>24. Grows(s, t)
    <3>1. t.stream.written = s.stream.written /\ t.stream.ended = s.stream.ended
      BY <2>14, <2>17, Zenon
    <3>2. t.next >= s.next
      <4>1. t.next = s.next + sent  BY <2>17
      <4> HIDE DEF t, sent
      <4> QED  BY <2>2, <2>6, <4>1
    <3>3. \A d \in t.cache \ s.cache : d.end > s.next
      <4> TAKE d \in t.cache \ s.cache
      <4>1. d \in S  BY <2>17
      <4>2. PICK i \in 1 .. count : d = c(i)  BY <4>1
      <4>3. First(d) >= s.next /\ First(d) \in Nat /\ First(d) < d.end
        <5> HIDE DEF c, t
        <5> QED  BY <2>20, <4>2
      <4>4. d.end \in Nat  BY <2>16, <4>1
      <4> HIDE DEF t
      <4> QED  BY <2>2, <4>3, <4>4
    <3>4. t.stream.read >= s.stream.read
      <4>1. t.stream.read = s.stream.read + total  BY <2>14, <2>17, Zenon
      <4> HIDE DEF t, total
      <4> QED  BY <2>2, <2>4, <4>1
    <3>5. ASSUME OutIsCached(s) PROVE OutIsCached(t)
      <4>1. \A i \in 1 .. count : c(i) \in t.cache /\ c(i).seg = out[i]
        <5>1. \A i \in 1 .. count : c(i) \in S /\ c(i).seg = out[i]  OBVIOUS
        <5> HIDE DEF t, S, c, out, count
        <5> QED  BY <2>17, <5>1
      <4>2. Len(out) = count
        <5>1. out \in [1 .. count -> Segment]
          <6>1. \A i \in 1 .. count : seg(i) \in Segment  BY <2>13
          <6> HIDE DEF seg, count
          <6> QED  BY <6>1
        <5>2. count \in Nat  BY <2>9
        <5> HIDE DEF out, count
        <5> QED  BY <5>1, <5>2, FunctionIsSeq
      <4> HIDE DEF t, S, c, out, count
      <4>3. /\ t.out \in Seq(Segment) /\ Len(t.out) = Len(s.out) + count
            /\ \A i \in 1 .. Len(s.out) : t.out[i] = s.out[i]
            /\ \A i \in Len(s.out) + 1 .. Len(s.out) + count :
                 t.out[i] = out[i - Len(s.out)]
        <5>1. t.out = s.out \o out /\ out \in Seq(Segment) /\ s.out \in Seq(Segment)
          BY <2>2, <2>15, <2>17
        <5>2. ASSUME NEW r, r = s.out \o out
              PROVE  /\ r \in Seq(Segment) /\ Len(r) = Len(s.out) + Len(out)
                     /\ \A i \in 1 .. Len(s.out) : r[i] = s.out[i]
                     /\ \A i \in Len(s.out) + 1 .. Len(s.out) + Len(out) :
                          r[i] = out[i - Len(s.out)]
          BY <5>1, <5>2, ConcatIs
        <5> QED  BY <4>2, <5>1, <5>2, Zenon
      <4>4. Len(s.out) \in Nat /\ DOMAIN s.out = 1 .. Len(s.out)
            /\ DOMAIN t.out = 1 .. Len(t.out) /\ count \in Nat
        BY <2>2, <2>9, <4>3, LenProperties
      <4>5. \A i \in 1 .. Len(s.out) : \E d \in t.cache : d.seg = t.out[i]
        <5>1. s.cache \subseteq t.cache  BY <2>17
        <5> QED  BY <3>5, <4>3, <4>4, <5>1, Zenon DEF OutIsCached
      <4>6. ASSUME NEW i \in Len(s.out) + 1 .. Len(s.out) + count
            PROVE  \E d \in t.cache : d.seg = t.out[i]
        <5>1. i - Len(s.out) \in 1 .. count  BY <4>4
        <5>2. t.out[i] = out[i - Len(s.out)]  BY <4>3
        <5> QED  BY <4>1, <5>1, <5>2
      <4>7. ASSUME NEW i \in 1 .. Len(s.out) + count
            PROVE  i \in 1 .. Len(s.out) \/ i \in Len(s.out) + 1 .. Len(s.out) + count
        BY <4>4
      <4> QED  BY <4>3, <4>4, <4>5, <4>6, <4>7, Zenon DEF OutIsCached
    <3> HIDE DEF t
    <3> QED  BY <2>17, <3>1, <3>2, <3>3, <3>4, <3>5 DEF Grows
  <2> HIDE DEF t
  <2> QED  BY <2>1, <2>23, <2>24
<1> QED  BY <1>2, <1>3

\* The FIN on a segment of its own follows the last byte.
LEMMA SendFinIsOK ==
  ASSUME NEW s, NEW a, SenderOK(s, a), s.next > 0
  PROVE  SenderOK(SendFin(s), a) /\ Grows(s, SendFin(s))
<1>1. /\ s \in Sender /\ s.next \in Nat /\ s.flight \in Nat /\ s.isn \in Raw
      /\ s.window \in 0 .. MaxWindow /\ MaxWindow \in Nat \ {0}
      /\ s.stream \in Stream
  BY PeerAssumption DEF SenderOK, Sender
<1>2. CASE FinIsDue(s) /\ Room(s) > 0
  <2> DEFINE seg == DataSegment(NextSeqno(s), <<>>, TRUE)
  <2>1. NextSeqno(s) \in Raw /\ NextSeqno(s) = Wrap(s.next, s.isn)
    <3>1. s.isn \in Int /\ s.next \in Int  BY <1>1, ModulusType DEF Raw
    <3> QED  BY <3>1, WrapType DEF NextSeqno
  <2>2. /\ seg \in Segment /\ seg.seqno = NextSeqno(s) /\ ~seg.syn
        /\ seg.fin = TRUE /\ seg.payload = <<>>
        /\ LengthInSequenceSpace(seg) = Len(<<>>) + Flag(TRUE)
    <3>1. <<>> \in Seq(Nat)  BY EmptySeq
    <3> QED  BY <2>1, <3>1, DataSegmentType
  <2>3. LengthInSequenceSpace(seg) = 1
    <3>1. Flag(TRUE) = 1  BY DEF Flag
    <3>2. Len(<<>>) = 0  OBVIOUS
    <3> HIDE DEF seg
    <3>3. LengthInSequenceSpace(seg) = 0 + 1  BY <2>2, <3>1, <3>2, Zenon
    <3> QED  BY <3>3
  <2>4. s.flight + 1 <= MaxWindow
    <3>1. s.flight < IF s.window = 0 THEN 1 ELSE s.window  BY <1>1, <1>2 DEF Room
    <3> QED  BY <1>1, <3>1
  <2>5. /\ s.next + 1 = s.stream.written + 2 /\ s.stream.ended
        /\ s.next + 1 = s.stream.read + 2 /\ AtEof(s.stream)
    <3>1. /\ s.stream.read \in Nat /\ s.stream.written \in Nat
          /\ s.stream.ended /\ s.stream.buffer = <<>>
          /\ s.next < s.stream.written + 2
      BY <1>1, <1>2 DEF Stream, FinIsDue, AtEof
    <3>2. s.stream.written = s.stream.read + Len(s.stream.buffer) /\ ReadWasSent(s)
      BY DEF SenderOK, StreamIsNumbered
    <3>3. Len(s.stream.buffer) = 0  BY <3>1
    <3> QED  BY <1>1, <3>1, <3>2, <3>3 DEF ReadWasSent, AtEof
  <2>6. seg.syn = (s.next = 0)
    <3>1. ~(s.next = 0)  BY <1>1
    <3>2. seg.syn \in BOOLEAN /\ ~seg.syn  BY <2>2 DEF Segment
    <3> HIDE DEF seg
    <3> QED  BY <3>1, <3>2
  <2>7. SendFin(s) = Send(s, seg)  BY <1>2 DEF SendFin
  <2> HIDE DEF seg
  <2> QED  BY <2>1, <2>2, <2>3, <2>4, <2>5, <2>6, <2>7, SendIsOK
<1>3. CASE ~(FinIsDue(s) /\ Room(s) > 0)
  <2>1. SendFin(s) = s  BY <1>3 DEF SendFin
  <2> QED  BY <1>1, <2>1, GrowsSelf
<1> QED  BY <1>2, <1>3

\* fill_window() keeps the cache in order.
LEMMA FillWindowIsOK ==
  ASSUME NEW s, NEW a, SenderOK(s, a)
  PROVE  SenderOK(FillWindow(s), a) /\ Grows(s, FillWindow(s))
<1> DEFINE t == SendSyn(s)
           u == SendData(t)
           v == SendFin(u)
<1>1. SenderOK(t, a) /\ Grows(s, t) /\ t.next > 0  BY SendSynIsOK
<1> HIDE DEF t
<1>2. SenderOK(u, a) /\ Grows(t, u)  BY <1>1, SendDataIsOK
<1> HIDE DEF u
<1>3. s \in Sender /\ t \in Sender /\ u \in Sender  BY <1>1, <1>2 DEF SenderOK
<1>4. u.next > 0
  <2>1. u.next >= t.next /\ u.next \in Nat /\ t.next \in Nat
    BY <1>2, <1>3, SenderFields DEF Grows
  <2> QED  BY <1>1, <2>1
<1>5. SenderOK(v, a) /\ Grows(u, v)  BY <1>2, <1>4, SendFinIsOK
<1> HIDE DEF v
<1>6. v \in Sender  BY <1>5 DEF SenderOK
<1>7. Grows(s, u)  BY <1>1, <1>2, <1>3, GrowsTransitive
<1>8. Grows(s, v)  BY <1>3, <1>5, <1>6, <1>7, GrowsTransitive
<1>9. v = FillWindow(s)  BY DEF v, u, t, FillWindow
<1> QED  BY <1>5, <1>8, <1>9

-----------------------------------------------------------------------------

\* Fields that SenderOK does not speak of.
LEMMA SameIsOK ==
  ASSUME NEW s, NEW a, SenderOK(s, a), NEW t \in Sender,
         t.isn = s.isn, t.stream = s.stream, t.next = s.next,
         t.flight = s.flight, t.cache = s.cache
  PROVE  SenderOK(t, a)
  BY DEF SenderOK, ReadWasSent, IsPlaced

\* Sending does not touch the timer.
LEMMA GrowthKeepsTimer ==
  ASSUME NEW s, NEW t, TimerOK(s), Grows(s, t)
  PROVE  TimerOK(t)
  BY DEF TimerOK, Grows

\* The owner takes the segments that are queued.
LEMMA TakenIsOK ==
  ASSUME NEW s, NEW a, SenderOK(s, a), TimerOK(s)
  PROVE  LET t == [s EXCEPT !.out = <<>>]
         IN  SenderOK(t, a) /\ TimerOK(t) /\ Grows(s, t) /\ t.stream = s.stream
             /\ t.cache = s.cache /\ t.next = s.next /\ t.out = <<>>
<1> DEFINE t == [s EXCEPT !.out = <<>>]
<1>1. s \in Sender /\ s.next \in Nat  BY SenderFields DEF SenderOK
<1>2. t \in Sender
  <2>1. <<>> \in Seq(Segment)  BY EmptySeq
  <2> QED  BY <1>1, <2>1 DEF Sender
<1>3. /\ t.isn = s.isn /\ t.stream = s.stream /\ t.next = s.next
      /\ t.flight = s.flight /\ t.cache = s.cache /\ t.window = s.window
      /\ t.time = s.time /\ t.rto = s.rto /\ t.retx = s.retx
  BY <1>1 DEF Sender
<1> HIDE DEF t
<1>4. SenderOK(t, a)  BY <1>2, <1>3, SameIsOK
<1>5. t.out = <<>>  BY <1>1 DEF t, Sender
<1>6. OutIsCached(t)
  <2>1. DOMAIN t.out = {}  BY <1>5
  <2> QED  BY <2>1, Zenon DEF OutIsCached
<1>7. s.stream.read \in Nat  BY <1>1, SenderFields
<1>8. Grows(s, t)  BY <1>1, <1>3, <1>6, <1>7 DEF Grows
<1>9. TimerOK(t)  BY <1>8, GrowthKeepsTimer
<1> QED  BY <1>3, <1>4, <1>8, <1>9, <1>5 DEF t

\* The owner writes: the stream takes the bytes that fit.
LEMMA WriteIsOK ==
  ASSUME NEW s, NEW a, SenderOK(s, a), TimerOK(s), ~s.stream.ended,
         NEW n \in Nat, NEW data,
         data = [i \in 1 .. n |-> s.stream.written + i - 1]
  PROVE  LET t == SenderWrite(s, data)
         IN  /\ SenderOK(t, a) /\ TimerOK(t) /\ t.next = s.next
             /\ Follows(s, t) /\ t.cache = s.cache /\ t.out = s.out
             /\ t.stream.written <= s.stream.written + n
             /\ ~t.stream.ended
<1> DEFINE b == s.stream.buffer
           w == s.stream.written
           m == Least(Len(data), RemainingCapacity(s.stream, SendCapacity))
           sub == SubSeq(data, 1, m)
           b2 == b \o sub
           u == StreamWrite(s.stream, data, SendCapacity)
           t == SenderWrite(s, data)
<1>1. /\ s \in Sender /\ s.stream \in Stream /\ b \in Seq(Nat) /\ Len(b) \in Nat
      /\ w \in Nat /\ s.stream.read \in Nat
  BY SenderFields DEF SenderOK
<1>2. data \in Seq(Nat) /\ Len(data) = n
  <2>1. data \in [1 .. n -> Nat]  BY <1>1
  <2> QED  BY <2>1, FunctionIsSeq
<1>3. m \in 0 .. n /\ Len(b) + m <= SendCapacity
  <2> DEFINE r == RemainingCapacity(s.stream, SendCapacity)
             len == Len(b)
  <2>1. len <= SendCapacity /\ len \in Nat /\ SendCapacity \in Nat
    BY <1>1, SenderAssumption DEF SenderOK, StreamIsNumbered
  <2>2. r = SendCapacity - len  BY DEF RemainingCapacity
  <2>3. m = Least(n, r)  BY <1>2
  <2> HIDE DEF r, len, m
  <2>4. m \in 0 .. n /\ len + m <= SendCapacity  BY <2>1, <2>2, <2>3 DEF Least
  <2> QED  BY <2>4 DEF len
<1>4. /\ sub \in Seq(Nat) /\ Len(sub) = m
      /\ \A i \in 1 .. m : sub[i] = w + i - 1
  <2> HIDE DEF m, w
  <2> QED  BY <1>1, <1>3, NumbersPrefix DEF w
<1>5. u = [s.stream EXCEPT !.buffer = b2, !.written = w + m]
  BY <1>1 DEF StreamWrite, Stream
<1>6. t = [s EXCEPT !.stream = u]  BY DEF SenderWrite
<1>7. /\ b2 \in Seq(Nat) /\ Len(b2) = Len(b) + m
      /\ \A i \in 1 .. Len(b) : b2[i] = b[i]
      /\ \A i \in Len(b) + 1 .. Len(b) + m : b2[i] = sub[i - Len(b)]
  <2> DEFINE p == b
             q == sub
             r == b2
  <2>1. /\ p \in Seq(Nat) /\ q \in Seq(Nat) /\ Len(q) = m /\ r = p \o q
    BY <1>1, <1>4
  <2> HIDE DEF p, q, r, m
  <2>2. /\ r \in Seq(Nat) /\ Len(r) = Len(p) + m
        /\ \A i \in 1 .. Len(p) : r[i] = p[i]
        /\ \A i \in Len(p) + 1 .. Len(p) + m : r[i] = q[i - Len(p)]
    BY <2>1, ConcatIs
  <2> QED  BY <2>2 DEF p, q, r
<1> HIDE DEF m, sub, b2, u, t
<1>8. /\ u \in Stream /\ u.buffer = b2 /\ u.written = w + m
      /\ u.read = s.stream.read /\ u.ended = s.stream.ended
  <2>1. w + m \in Nat  BY <1>1, <1>3
  <2> QED  BY <1>1, <1>5, <1>7, <2>1 DEF Stream
<1>9. StreamIsNumbered(u)
  <2> DEFINE read == s.stream.read
             len == Len(b)
  <2>1. w = read + len /\ \A i \in 1 .. len : b[i] = read + i - 1
    BY DEF SenderOK, StreamIsNumbered
  <2>2. read \in Nat /\ len \in Nat /\ w \in Nat /\ m \in Nat  BY <1>1, <1>3
  <2>3. u.read = read /\ u.written = w + m  BY <1>8
  <2>4. Len(u.buffer) = len + m /\ len + m <= SendCapacity  BY <1>3, <1>7, <1>8
  <2>5. \A i \in 1 .. len : b2[i] = b[i]  BY <1>7
  <2>6. \A i \in len + 1 .. len + m : b2[i] = sub[i - len]  BY <1>7
  <2> HIDE DEF read, len, w, b
  <2>7. ASSUME NEW i \in 1 .. len + m PROVE b2[i] = read + i - 1
    <3>1. CASE i <= len
      <4>1. i \in 1 .. len  BY <2>2, <3>1
      <4> QED  BY <2>1, <2>5, <4>1
    <3>2. CASE i > len
      <4>1. i \in len + 1 .. len + m /\ i - len \in 1 .. m  BY <2>2, <3>2
      <4>2. b2[i] = w + (i - len) - 1  BY <1>4, <2>6, <4>1
      <4> QED  BY <2>1, <2>2, <4>1, <4>2
    <3> QED  BY <2>2, <3>1, <3>2
  <2>8. u.buffer = b2  BY <1>8
  <2>9. u.written = u.read + Len(u.buffer)  BY <2>1, <2>2, <2>3, <2>4
  <2> QED  BY <2>3, <2>4, <2>7, <2>8, <2>9 DEF StreamIsNumbered
<1>10. /\ t \in Sender /\ t.isn = s.isn /\ t.stream = u /\ t.next = s.next
       /\ t.flight = s.flight /\ t.cache = s.cache /\ t.time = s.time
       /\ t.rto = s.rto /\ t.retx = s.retx /\ t.out = s.out
  BY <1>1, <1>6, <1>8 DEF Sender
<1>11. SenderOK(t, a)
  <2>1. ReadWasSent(t)
    <3>1. ~AtEof(s.stream) /\ ReadWasSent(s)  BY DEF AtEof, SenderOK
    <3>2. t.next = s.next /\ t.stream.read = s.stream.read  BY <1>8, <1>10, Zenon
    <3> QED  BY <3>1, <3>2 DEF ReadWasSent
  <2>2. ASSUME NEW c \in t.cache PROVE IsPlaced(t, c) /\ c.end > a
    <3>1. IsPlaced(s, c) /\ c.end > a  BY <1>10 DEF SenderOK
    <3>2. ~c.seg.fin  BY <3>1 DEF IsPlaced
    <3>3. t.stream.read = s.stream.read  BY <1>8, <1>10, Zenon
    <3> QED  BY <1>10, <3>1, <3>2, <3>3 DEF IsPlaced
  <2>3. StreamIsNumbered(t.stream)  BY <1>9, <1>10
  <2> QED  BY <1>10, <2>1, <2>2, <2>3 DEF SenderOK
<1>12. TimerOK(t)  BY <1>10 DEF TimerOK
<1>13. /\ t.stream.read = s.stream.read /\ t.stream.written = w + m
       /\ t.stream.ended = s.stream.ended
  BY <1>8, <1>10, Zenon
<1>14. Follows(s, t)
  <2>1. s.next \in Nat  BY <1>1, SenderFields
  <2> QED  BY <1>1, <1>3, <1>10, <1>13, <2>1 DEF Follows
<1>15. t.stream.written <= w + n  BY <1>1, <1>3, <1>13
<1> QED  BY <1>10, <1>11, <1>12, <1>13, <1>14, <1>15 DEF t

\* The owner ends the input.
LEMMA EndInputIsOK ==
  ASSUME NEW s, NEW a, SenderOK(s, a), TimerOK(s)
  PROVE  LET t == SenderEndInput(s)
         IN  /\ SenderOK(t, a) /\ TimerOK(t) /\ t.next = s.next
             /\ Follows(s, t) /\ t.cache = s.cache /\ t.out = s.out
             /\ t.stream.written = s.stream.written
<1> DEFINE u == StreamEnd(s.stream)
           t == SenderEndInput(s)
<1>1. s \in Sender /\ s.stream \in Stream  BY SenderFields DEF SenderOK
<1>2. /\ u \in Stream /\ u.buffer = s.stream.buffer /\ u.ended = TRUE
      /\ u.written = s.stream.written /\ u.read = s.stream.read
  BY <1>1 DEF StreamEnd, Stream
<1>3. t = [s EXCEPT !.stream = u]  BY DEF SenderEndInput
<1> HIDE DEF u, t
<1>4. /\ t \in Sender /\ t.isn = s.isn /\ t.stream = u /\ t.next = s.next
      /\ t.flight = s.flight /\ t.cache = s.cache /\ t.time = s.time
      /\ t.rto = s.rto /\ t.retx = s.retx /\ t.out = s.out
  BY <1>1, <1>2, <1>3 DEF Sender
<1>5. SenderOK(t, a)
  <2>1. ReadWasSent(t)
    <3>1. ReadWasSent(s)  BY DEF SenderOK
    <3>2. AtEof(s.stream) => AtEof(t.stream)  BY <1>2, <1>4 DEF AtEof
    <3>3. t.next = s.next /\ t.stream.read = s.stream.read  BY <1>2, <1>4, Zenon
    <3> QED  BY <3>1, <3>2, <3>3 DEF ReadWasSent
  <2>2. ASSUME NEW c \in t.cache PROVE IsPlaced(t, c) /\ c.end > a
    <3>1. IsPlaced(s, c) /\ c.end > a  BY <1>4 DEF SenderOK
    <3>2. t.stream.read = s.stream.read /\ t.stream.written = s.stream.written
          /\ t.stream.ended
      BY <1>2, <1>4, Zenon
    <3> QED  BY <1>4, <3>1, <3>2 DEF IsPlaced
  <2>3. StreamIsNumbered(t.stream)
    <3>1. StreamIsNumbered(s.stream)  BY DEF SenderOK
    <3> QED  BY <1>2, <1>4, <3>1 DEF StreamIsNumbered
  <2> QED  BY <1>4, <2>1, <2>2, <2>3 DEF SenderOK
<1>6. TimerOK(t)  BY <1>4 DEF TimerOK
<1>7. Follows(s, t) /\ t.stream.written = s.stream.written
  <2>1. s.next \in Nat /\ s.stream.read \in Nat /\ s.stream.written \in Nat
    BY <1>1, SenderFields
  <2>2. t.stream.read = s.stream.read /\ t.stream.written = s.stream.written
        /\ t.stream.ended
    BY <1>2, <1>4, Zenon
  <2> QED  BY <1>4, <2>1, <2>2 DEF Follows
<1> QED  BY <1>4, <1>5, <1>6, <1>7 DEF t

\* The CHOOSE of Oldest finds a segment.
LEMMA OldestIsFirst ==
  ASSUME NEW s \in Sender, s.cache # {}
  PROVE  Oldest(s) \in s.cache /\ \A d \in s.cache : Oldest(s).end <= d.end
<1> DEFINE ends == {d.end : d \in s.cache}
<1>1. ends \in SUBSET Nat  BY FirstType
<1>2. PICK e \in ends : \A f \in ends : e <= f  BY <1>1, LeastExists, ZenonT(40)
<1>3. PICK c \in s.cache : e = c.end  OBVIOUS
<1>4. \A d \in s.cache : c.end <= d.end  BY <1>2, <1>3
<1> QED  BY <1>4 DEF Oldest

\* The clock ticks: a retransmission restarts the timer.
LEMMA TickIsOK ==
  ASSUME NEW s, NEW a, SenderOK(s, a), TimerOK(s), s.retx <= MaxRetx
  PROVE  LET t == SenderTick(s, 1)
         IN  /\ SenderOK(t, a) /\ TimerOK(t) /\ t.next = s.next
             /\ t.isn = s.isn /\ t.stream = s.stream
             /\ OutIsCached(s) => OutIsCached(t)
<1> DEFINE t == SenderTick(s, 1)
           late == [s EXCEPT !.time = s.time + 1]
           sg == Oldest(s).seg
           resent == [s EXCEPT !.time = 0, !.out = Append(s.out, sg)]
           twice == [resent EXCEPT !.rto = 2 * resent.rto, !.retx = resent.retx + 1]
<1>1. /\ s \in Sender /\ s.time \in Nat /\ s.rto \in Nat /\ s.retx \in Nat
      /\ s.out \in Seq(Segment) /\ s.next \in Nat
  BY SenderFields DEF SenderOK
<1>2. CASE s.cache = {}
  <2>1. t = s  BY <1>2 DEF SenderTick
  <2> QED  BY <2>1
<1>3. CASE s.cache # {}
  <2>1. sg \in Segment /\ \E c \in s.cache : c.seg = sg
    <3>1. Oldest(s) \in s.cache  BY <1>1, <1>3, OldestIsFirst
    <3> QED  BY <1>1, <3>1, FirstType
  <2>2. Append(s.out, sg) \in Seq(Segment)
    <3> HIDE DEF sg
    <3> QED  BY <1>1, <2>1, AppendProperties
  <2> DEFINE out == Append(s.out, sg)
  <2> HIDE DEF sg, out
  <2>3. /\ late \in Sender /\ late.isn = s.isn /\ late.stream = s.stream
        /\ late.next = s.next /\ late.flight = s.flight /\ late.cache = s.cache
        /\ late.time = s.time + 1 /\ late.rto = s.rto /\ late.retx = s.retx
        /\ late.out = s.out
    BY <1>1, SMTT(30) DEF Sender
  <2>4. /\ resent \in Sender /\ resent.isn = s.isn /\ resent.stream = s.stream
        /\ resent.next = s.next /\ resent.flight = s.flight /\ resent.cache = s.cache
        /\ resent.time = 0 /\ resent.rto = s.rto /\ resent.retx = s.retx
        /\ resent.out = out
    <3>1. resent = [s EXCEPT !.time = 0, !.out = out]  BY DEF out
    <3> HIDE DEF resent
    <3>2. out \in Seq(Segment)  BY <2>2 DEF out
    <3> QED  BY <1>1, <3>1, <3>2 DEF Sender
  <2>5. /\ twice \in Sender /\ twice.isn = s.isn /\ twice.stream = s.stream
        /\ twice.next = s.next /\ twice.flight = s.flight /\ twice.cache = s.cache
        /\ twice.time = 0 /\ twice.rto = 2 * s.rto /\ twice.retx = s.retx + 1
        /\ twice.out = out
    <3> HIDE DEF resent
    <3>1. 2 * s.rto \in Nat /\ s.retx + 1 \in Nat  BY <1>1
    <3> QED  BY <2>4, <3>1 DEF Sender
  <2>6. ASSUME OutIsCached(s), NEW u, u.out = out, u.cache = s.cache
        PROVE  OutIsCached(u)
    <3>1. /\ DOMAIN s.out = 1 .. Len(s.out) /\ Len(s.out) \in Nat
          /\ DOMAIN out = 1 .. Len(s.out) + 1
          /\ \A i \in 1 .. Len(s.out) : out[i] = s.out[i]
          /\ out[Len(s.out) + 1] = sg
      <4>1. /\ Len(out) = Len(s.out) + 1 /\ out \in Seq(Segment)
            /\ \A i \in 1 .. Len(s.out) : out[i] = s.out[i]
            /\ out[Len(s.out) + 1] = sg
        BY <1>1, <2>1, AppendProperties DEF out
      <4> QED  BY <1>1, <4>1, LenProperties
    <3>2. ASSUME NEW i \in 1 .. Len(s.out) + 1 PROVE \E c \in s.cache : c.seg = out[i]
      <4>1. CASE i \in 1 .. Len(s.out)  BY <2>6, <3>1, <4>1, Zenon DEF OutIsCached
      <4>2. CASE i = Len(s.out) + 1  BY <2>1, <3>1, <4>2, Zenon
      <4> QED  BY <3>1, <4>1, <4>2
    <3> QED  BY <2>6, <3>1, <3>2, Zenon DEF OutIsCached
  <2>7. s.time < s.rto /\ MaxRetx \in Nat  BY SenderAssumption DEF TimerOK
  <2>8. ~(s.retx > MaxRetx)  BY <1>1, <2>7
  <2>9. s.rto = Backoff[s.retx] /\ 2 * s.rto = Backoff[s.retx + 1]
    <3>1. s.rto = Backoff[s.retx]  BY DEF TimerOK
    <3> QED  BY <1>1, <3>1, BackoffDoubles
  <2>10. t = IF late.time < s.rto \/ s.retx > MaxRetx THEN late
             ELSE IF s.window = 0 THEN resent ELSE twice
     BY <1>3, Zenon DEF SenderTick, sg
  <2> HIDE DEF late, resent, twice, t
  <2>11. CASE late.time < s.rto
    <3>1. t = late  BY <2>10, <2>11
    <3>2. TimerOK(late)  BY <1>1, <1>3, <2>3, <2>7, <2>11, <2>9 DEF TimerOK
    <3>3. SenderOK(t, a) /\ TimerOK(t) /\ t.next = s.next
          /\ t.isn = s.isn /\ t.stream = s.stream
      BY <2>3, <3>1, <3>2, SameIsOK
    <3>4. OutIsCached(s) => OutIsCached(t)  BY <2>3, <2>6, <3>1, Zenon DEF OutIsCached
    <3> QED  BY <3>3, <3>4 DEF t
  <2>12. CASE ~(late.time < s.rto) /\ s.window = 0
    <3>1. t = resent  BY <2>8, <2>10, <2>12
    <3>2. TimerOK(resent)  BY <1>1, <1>3, <2>4, <2>7, <2>9 DEF TimerOK
    <3>3. SenderOK(t, a) /\ TimerOK(t) /\ t.next = s.next
          /\ t.isn = s.isn /\ t.stream = s.stream
      BY <2>4, <3>1, <3>2, SameIsOK
    <3>4. OutIsCached(s) => OutIsCached(t)  BY <2>4, <2>6, <3>1
    <3> QED  BY <3>3, <3>4 DEF t
  <2>13. CASE ~(late.time < s.rto) /\ s.window # 0
    <3>1. t = twice  BY <2>8, <2>10, <2>13
    <3>2. TimerOK(twice)  BY <1>1, <1>3, <2>5, <2>7, <2>9 DEF TimerOK
    <3>3. SenderOK(t, a) /\ TimerOK(t) /\ t.next = s.next
          /\ t.isn = s.isn /\ t.stream = s.stream
      BY <2>5, <3>1, <3>2, SameIsOK
    <3>4. OutIsCached(s) => OutIsCached(t)  BY <2>5, <2>6, <3>1
    <3> QED  BY <3>3, <3>4 DEF t
  <2> QED  BY <2>11, <2>12, <2>13
<1> QED  BY <1>2, <1>3 DEF t

\* An acknowledgment less than half the sequence space old means the number it
\* was made of: what it pops are the segments that end there or before.
LEMMA AckedCache ==
  ASSUME NEW s, NEW a, SenderOK(s, a), NEW n \in Nat, n <= s.next,
         n > s.next - Half
  PROVE  /\ Acknowledged(s, Wrap(n, s.isn)) = {c \in s.cache : c.end <= n}
         /\ Offset(NextSeqno(s), Wrap(n, s.isn)) = s.next - n
<1>1. /\ s \in Sender /\ s.next \in Nat /\ s.isn \in Int /\ s.flight \in Nat
  BY SenderFields DEF SenderOK
<1>2. Half \in Nat /\ MaxWindow < Half /\ MaxWindow \in Nat
  BY HalfAssumption, PeerAssumption
<1>3. a \in Int /\ s.next - a <= MaxWindow  BY <1>1, <1>2 DEF SenderOK
<1>4. ASSUME NEW c \in s.cache
      PROVE  Unwrap(Wrap(n, s.isn), s.isn, c.end) = n /\ c.end \in Nat
  <2>1. c.end \in Nat /\ c.end <= s.next /\ c.end > a
    BY <1>1, FirstType DEF SenderOK, IsPlaced
  <2>2. n - c.end >= -Half /\ n - c.end < Half  BY <1>1, <1>2, <1>3, <2>1
  <2> QED  BY <1>1, <2>1, <2>2, UnwrapRoundTrip
<1>5. Acknowledged(s, Wrap(n, s.isn)) = {c \in s.cache : c.end <= n}
  BY <1>4 DEF Acknowledged
<1>6. Offset(Wrap(s.next, s.isn), Wrap(n, s.isn)) = s.next - n
  <2>1. s.next - n >= -Half /\ s.next - n < Half  BY <1>1, <1>2
  <2> QED  BY <1>1, <2>1, OffsetOfWraps
<1> QED  BY <1>5, <1>6 DEF NextSeqno

\* An acknowledgment keeps the cache in order, from the number it acknowledges
\* on if it popped a segment.
LEMMA AckIsOK ==
  ASSUME NEW s, NEW a, SenderOK(s, a), TimerOK(s),
         NEW n \in Nat, n <= s.next, n > s.next - Half,
         NEW window \in 0 .. MaxWindow
  PROVE  LET t == AckReceived(s, Wrap(n, s.isn), window)
             b == IF s.cache \subseteq t.cache THEN a ELSE n
         IN  /\ SenderOK(t, b) /\ TimerOK(t) /\ t.next >= s.next
             /\ Follows(s, t) /\ t.stream.written = s.stream.written
             /\ t.stream.ended = s.stream.ended
             /\ s.out = <<>> => OutIsCached(t)
<1> DEFINE ackno == Wrap(n, s.isn)
           t == AckReceived(s, ackno, window)
           b == IF s.cache \subseteq t.cache THEN a ELSE n
           popped == Acknowledged(s, ackno)
           unacked == Offset(NextSeqno(s), ackno)
           left == s.cache \ popped
           kept == [s EXCEPT !.cache = left, !.window = window]
           acked == [kept EXCEPT !.flight = unacked, !.time = 0, !.retx = 0,
                                 !.rto = RtTimeout]
<1>1. /\ s \in Sender /\ s.next \in Nat /\ s.flight \in Nat /\ a \in 0 .. s.next
      /\ s.flight = s.next - a /\ s.flight <= MaxWindow /\ MaxWindow \in Nat
  BY SenderFields DEF SenderOK
<1>2. popped = {c \in s.cache : c.end <= n} /\ unacked = s.next - n
  BY AckedCache
<1>3. unacked \in Nat  BY <1>1, <1>2
<1>4. t = IF popped = {} THEN kept ELSE FillWindow(acked)
  <2>1. ~(unacked < 0)  BY <1>3
  <2>2. t = IF unacked < 0 THEN s ELSE IF popped = {} THEN kept ELSE FillWindow(acked)
    BY Zenon DEF AckReceived
  <2> HIDE DEF unacked, t, popped, kept, acked
  <2> QED  BY <2>1, <2>2
<1> HIDE DEF ackno, t, popped, unacked
<1>5. left \in SUBSET [end : Nat, seg : Segment]
  BY <1>1 DEF Sender
<1>6. RtTimeout \in Nat \ {0} /\ MaxRetx \in Nat  BY SenderAssumption
<1>7. /\ kept \in Sender /\ kept.isn = s.isn /\ kept.stream = s.stream
      /\ kept.next = s.next /\ kept.flight = s.flight /\ kept.cache = left
      /\ kept.time = s.time /\ kept.rto = s.rto /\ kept.retx = s.retx
      /\ kept.out = s.out
  <2> HIDE DEF left
  <2> QED  BY <1>1, <1>5 DEF Sender
<1> HIDE DEF kept
<1>8. /\ acked \in Sender /\ acked.isn = s.isn /\ acked.stream = s.stream
      /\ acked.next = s.next /\ acked.flight = unacked /\ acked.cache = left
      /\ acked.time = 0 /\ acked.rto = RtTimeout /\ acked.retx = 0
      /\ acked.out = s.out
  BY <1>3, <1>6, <1>7 DEF Sender
<1> HIDE DEF acked
<1>9. CASE popped = {}
  <2>1. t = kept  BY <1>4, <1>9
  <2>2. left = s.cache  BY <1>9
  <2>3. b = a  BY <1>7, <2>1, <2>2
  <2>4. SenderOK(kept, a)
    <3> HIDE DEF left
    <3> QED  BY <1>7, <2>2, SameIsOK
  <2>5. TimerOK(kept)  BY <1>7, <2>2 DEF TimerOK
  <2>6. SenderOK(t, b) /\ TimerOK(t) /\ t.next >= s.next
    BY <1>1, <1>7, <2>1, <2>3, <2>4, <2>5
  <2>7. /\ Follows(s, t) /\ t.stream.written = s.stream.written
        /\ t.stream.ended = s.stream.ended
    <3>1. s.stream.read \in Nat /\ s.stream.written \in Nat  BY <1>1, SenderFields
    <3>2. t.isn = s.isn /\ t.stream = s.stream /\ t.next = s.next  BY <1>7, <2>1
    <3> QED  BY <1>1, <3>1, <3>2 DEF Follows
  <2>8. s.out = <<>> => OutIsCached(t)
    <3>1. DOMAIN <<>> = {}  OBVIOUS
    <3> QED  BY <1>7, <2>1, <3>1, Zenon DEF OutIsCached
  <2> QED  BY <2>6, <2>7, <2>8 DEF t, b, ackno
<1>10. CASE popped # {}
  <2>1. PICK p \in s.cache : p.end <= n  BY <1>2, <1>10
  <2>2. n > a /\ p.end <= s.next /\ p.end \in Nat
    <3>1. p.end > a /\ p.end \in Nat /\ p.end <= s.next
      BY <1>1, FirstType DEF SenderOK, IsPlaced
    <3> QED  BY <1>1, <2>1, <3>1
  <2>3. SenderOK(acked, n)
    <3>1. n \in 0 .. acked.next /\ acked.flight = acked.next - n
          /\ acked.flight <= MaxWindow
      BY <1>1, <1>2, <1>8, <2>2
    <3>2. ASSUME NEW c \in acked.cache PROVE IsPlaced(acked, c) /\ c.end > n
      <4>1. c \in s.cache /\ ~(c.end <= n)  BY <1>2, <1>8
      <4>2. IsPlaced(s, c) /\ c.end \in Nat
        BY <1>1, <4>1, FirstType DEF SenderOK
      <4> QED  BY <1>8, <4>1, <4>2 DEF IsPlaced
    <3>3. ASSUME NEW m \in n .. acked.next - 1
          PROVE  \E c \in acked.cache : Holds(c, m)
      <4>1. m \in a .. s.next - 1  BY <1>1, <1>8, <2>2
      <4>2. PICK c \in s.cache : Holds(c, m)  BY <4>1 DEF SenderOK
      <4>3. c.end \in Nat  BY <1>1, FirstType
      <4>4. ~(c.end <= n)  BY <4>2, <4>3 DEF Holds
      <4> QED  BY <1>2, <1>8, <4>2, <4>4
    <3>4. /\ \A c, d \in acked.cache : c = d \/ AreApart(c, d)
          /\ \A c \in acked.cache : LengthInSequenceSpace(c.seg) <= MaxWindow
      BY <1>8 DEF SenderOK
    <3>5. StreamIsNumbered(acked.stream) /\ ReadWasSent(acked)
      BY <1>8 DEF SenderOK, ReadWasSent
    <3> QED  BY <1>8, <3>1, <3>2, <3>3, <3>4, <3>5 DEF SenderOK
  <2>4. TimerOK(acked)  BY <1>6, <1>8, BackoffDoubles DEF TimerOK
  <2>5. t = FillWindow(acked)  BY <1>4, <1>10
  <2>6. SenderOK(t, n) /\ Grows(acked, t)  BY <2>3, <2>5, FillWindowIsOK
  <2>7. TimerOK(t)  BY <2>4, <2>6, GrowthKeepsTimer
  <2>8. b = n
    <3>1. p \notin t.cache
      <4>1. p \notin acked.cache  BY <1>2, <1>8, <2>1
      <4>2. ~(p.end > acked.next)  BY <1>1, <1>8, <2>2
      <4> QED  BY <2>6, <4>1, <4>2 DEF Grows
    <3> QED  BY <3>1
  <2>9. t.next >= s.next  BY <1>8, <2>6 DEF Grows
  <2>10. SenderOK(t, b) /\ TimerOK(t) /\ t.next >= s.next
    BY <2>6, <2>7, <2>8, <2>9
  <2>11. /\ Follows(s, t) /\ t.stream.written = s.stream.written
         /\ t.stream.ended = s.stream.ended
    <3>1. Follows(acked, t)  BY <1>8, <2>6, GrowsFollows
    <3> QED  BY <1>8, <2>6, <3>1 DEF Grows, Follows
  <2>12. s.out = <<>> => OutIsCached(t)
    <3>1. DOMAIN <<>> = {}  OBVIOUS
    <3>2. s.out = <<>> => OutIsCached(acked)  BY <1>8, <3>1, Zenon DEF OutIsCached
    <3> QED  BY <2>6, <3>2 DEF Grows
  <2> QED  BY <2>10, <2>11, <2>12 DEF t, b, ackno
<1> QED  BY <1>9, <1>10

-----------------------------------------------------------------------------

\* A sender that was just made, from any initial sequence number.
LEMMA NewIsOK ==
  ASSUME NEW isn \in Raw
  PROVE  SenderOK(NewSender(isn), 0) /\ TimerOK(NewSender(isn))
<1> DEFINE s == NewSender(isn)
<1>1. MaxWindow \in Nat \ {0}  BY PeerAssumption
<1>2. RtTimeout \in Nat \ {0} /\ SendCapacity \in Nat /\ MaxRetx \in Nat
  BY SenderAssumption
<1>3. /\ s.isn = isn /\ s.stream = EmptyStream /\ s.next = 0
      /\ s.flight = 0 /\ s.cache = {} /\ s.time = 0
      /\ s.rto = RtTimeout /\ s.retx = 0
  BY DEF NewSender
<1>4. EmptyStream \in Stream  BY EmptySeq DEF EmptyStream, Stream
<1>5. s \in Sender
  <2>1. <<>> \in Seq(Segment)  BY EmptySeq
  <2>2. 1 \in 0 .. MaxWindow  BY <1>1
  <2> QED  BY <1>2, <1>4, <2>1, <2>2 DEF NewSender, Sender
<1> HIDE DEF s
<1>6. StreamIsNumbered(s.stream) /\ s.stream.read = 0
  BY <1>2, <1>3 DEF StreamIsNumbered, EmptyStream
<1>7. SenderOK(s, 0)  BY <1>1, <1>3, <1>5, <1>6 DEF SenderOK, ReadWasSent
<1>8. TimerOK(s)  BY <1>2, <1>3, BackoffDoubles DEF TimerOK
<1> QED  BY <1>7, <1>8 DEF s

\* The invariant holds at first ...
LEMMA InitIsOK == Init => SInv
<1> SUFFICES ASSUME Init PROVE SInv  OBVIOUS
<1>1. PICK isn \in Isns : snd = NewSender(isn)  BY DEF Init
<1>2. isn \in Raw  BY PeerAssumption
<1>3. SenderOK(snd, 0) /\ TimerOK(snd)  BY <1>1, <1>2, NewIsOK
<1>4. lastAck = 0 /\ peerNext = 0 /\ snd.next = 0  BY <1>1 DEF Init, NewSender
<1> QED  BY <1>3, <1>4 DEF SInv

\* ... and every step keeps it.
LEMMA NextKeepsOK == SInv /\ [Next]_vars => SInv'
<1> SUFFICES ASSUME SInv, [Next]_vars PROVE SInv'  OBVIOUS
<1>1. /\ SenderOK(snd, lastAck) /\ TimerOK(snd) /\ peerNext \in lastAck .. snd.next
      /\ snd.next \in Nat /\ lastAck \in 0 .. snd.next /\ snd \in Sender
  BY SenderFields DEF SInv, SenderOK
<1>2. /\ SenderOK(Taken, lastAck) /\ TimerOK(Taken) /\ Taken \in Sender
      /\ Taken.next = snd.next /\ Taken.stream = snd.stream
      /\ Taken.cache = snd.cache /\ Taken.isn = snd.isn /\ Taken.retx = snd.retx
  BY <1>1, TakenIsOK DEF Taken, Grows, SenderOK
<1>3. ASSUME NEW t, SenderOK(t, lastAck), TimerOK(t), t.next >= snd.next,
             snd' = t, UNCHANGED <<peerNext, lastAck>>
      PROVE  SInv'
  <2>1. t.next \in Nat  BY <1>3, SenderFields DEF SenderOK
  <2>2. peerNext \in lastAck .. t.next  BY <1>1, <1>3, <2>1
  <2> QED  BY <1>3, <2>2 DEF SInv
<1>4. ASSUME NEW t, SenderOK(t, lastAck), TimerOK(t), t.next = snd.next,
             snd' = FillWindow(t), UNCHANGED <<peerNext, lastAck>>
      PROVE  SInv'
  <2>1. SenderOK(FillWindow(t), lastAck) /\ Grows(t, FillWindow(t))
    BY <1>4, FillWindowIsOK
  <2>2. TimerOK(FillWindow(t))  BY <1>4, <2>1, GrowthKeepsTimer
  <2>3. FillWindow(t).next >= snd.next  BY <1>4, <2>1 DEF Grows
  <2> QED  BY <1>3, <1>4, <2>1, <2>2, <2>3
<1>5. CASE Fill  BY <1>2, <1>4, <1>5 DEF Fill
<1>6. ASSUME NEW n \in 1 .. SendCapacity, Write(n) PROVE SInv'
  <2>1. n \in Nat
    <3>1. SendCapacity \in Nat  BY SenderAssumption
    <3> QED  BY <3>1
  <2> DEFINE t == SenderWrite(Taken, Bytes(n))
  <2>2. ~Taken.stream.ended /\ Bytes(n) = [i \in 1 .. n |-> Taken.stream.written + i - 1]
    BY <1>2, <1>6 DEF Write, Bytes
  <2>3. SenderOK(t, lastAck) /\ TimerOK(t) /\ t.next = snd.next
    BY <1>2, <2>1, <2>2, WriteIsOK
  <2>4. snd' = FillWindow(t) /\ UNCHANGED <<peerNext, lastAck>>  BY <1>6 DEF Write
  <2> HIDE DEF t
  <2> QED  BY <1>4, <2>3, <2>4
<1>7. CASE EndInput
  <2> DEFINE t == SenderEndInput(Taken)
  <2>1. SenderOK(t, lastAck) /\ TimerOK(t) /\ t.next = snd.next
    BY <1>2, EndInputIsOK
  <2>2. snd' = FillWindow(t) /\ UNCHANGED <<peerNext, lastAck>>  BY <1>7 DEF EndInput
  <2> HIDE DEF t
  <2> QED  BY <1>4, <2>1, <2>2
<1>8. CASE Tick
  <2> DEFINE t == SenderTick(Taken, 1)
  <2>1. SenderOK(t, lastAck) /\ TimerOK(t) /\ t.next = snd.next
    BY <1>2, <1>8, TickIsOK DEF Tick
  <2>2. snd' = t /\ UNCHANGED <<peerNext, lastAck>>  BY <1>8 DEF Tick
  <2> HIDE DEF t
  <2>3. t.next >= snd.next  BY <1>1, <2>1
  <2> QED  BY <1>3, <2>1, <2>2, <2>3
<1>9. ASSUME NEW n \in peerNext + 1 .. snd.next, PeerReceives(n) PROVE SInv'
  <2>1. n \in lastAck .. snd.next  BY <1>1
  <2> QED  BY <1>1, <1>9, <2>1 DEF PeerReceives, SInv
<1>10. ASSUME NEW n \in 1 .. peerNext, NEW window \in Windows, AckArrives(n, window)
       PROVE  SInv'
  <2> DEFINE t == AckReceived(Taken, Wrap(n, snd.isn), window)
             b == IF Taken.cache \subseteq t.cache THEN lastAck ELSE n
  <2>1. n \in Nat /\ n <= snd.next /\ n > snd.next - Half /\ n <= peerNext
    BY <1>1, <1>10 DEF AckArrives
  <2>2. window \in 0 .. MaxWindow  BY PeerAssumption
  <2>3. SenderOK(t, b) /\ TimerOK(t) /\ t.next >= snd.next
    BY <1>2, <2>1, <2>2, AckIsOK
  <2>4. snd' = t /\ lastAck' = b /\ peerNext' = peerNext
    BY <1>2, <1>10 DEF AckArrives
  <2>5. b = lastAck \/ b = n  OBVIOUS
  <2> HIDE DEF t, b
  <2>6. t.next \in Nat  BY <2>3, SenderFields DEF SenderOK
  <2>7. peerNext \in b .. t.next  BY <1>1, <2>1, <2>3, <2>5, <2>6
  <2> QED  BY <2>3, <2>4, <2>7 DEF SInv
<1>11. CASE UNCHANGED vars  BY <1>11 DEF vars, SInv
<1> QED  BY <1>5, <1>6, <1>7, <1>8, <1>9, <1>10, <1>11 DEF Next

\* The invariant holds always, for every width of the sequence numbers, every
\* payload, window and stream size, however long the stream.
THEOREM SInvHolds == Spec => []SInv
<1> QED  BY InitIsOK, NextKeepsOK, PTL DEF Spec

\* The segments follow each other without holes because they hold every number
\* once.
LEMMA TailFollows == SInv => TypeOK /\ CacheIsTheTail
<1> SUFFICES ASSUME SInv PROVE TypeOK /\ CacheIsTheTail  OBVIOUS
<1>1. /\ snd \in Sender /\ snd.next \in Nat /\ lastAck \in 0 .. snd.next
      /\ peerNext \in lastAck .. snd.next
  BY SenderFields DEF SInv, SenderOK
<1>2. ASSUME NEW c \in snd.cache
      PROVE  /\ IsPlaced(snd, c) /\ c.end \in Nat /\ c.end > lastAck
             /\ First(c) \in Nat /\ First(c) < c.end /\ c.end <= snd.next
  BY <1>1, FirstType DEF SInv, SenderOK, IsPlaced
<1>3. TypeOK  BY <1>1, <1>2, SenderFields DEF TypeOK
<1>4. \A c, d \in snd.cache : c = d \/ c.end <= First(d) \/ d.end <= First(c)
  BY DEF SInv, SenderOK, AreApart
<1>5. ASSUME NEW c \in snd.cache
      PROVE  c.end = snd.next \/ \E d \in snd.cache : First(d) = c.end
  <2>1. CASE c.end # snd.next
    <3>1. c.end \in lastAck .. snd.next - 1  BY <1>1, <1>2, <2>1
    <3>2. PICK d \in snd.cache : Holds(d, c.end)  BY <3>1 DEF SInv, SenderOK
    <3>3. First(d) \in Nat /\ d.end \in Nat /\ First(d) <= c.end /\ c.end < d.end
      BY <1>2, <3>2 DEF Holds
    <3>4. c.end \in Nat /\ First(c) \in Nat /\ First(c) < c.end  BY <1>2
    <3>5. c = d \/ c.end <= First(d) \/ d.end <= First(c)  BY <1>4
    <3>6. c # d  BY <3>3, <3>4
    <3> QED  BY <3>3, <3>4, <3>5, <3>6
  <2> QED  BY <2>1
<1>6. CacheIsTheTail  BY <1>2, <1>4, <1>5 DEF CacheIsTheTail, IsPlaced
<1> QED  BY <1>3, <1>6

\* Every number that the peer may still miss is in a cached segment, at its
\* place and with its bytes, whatever old, partial or reordered acknowledgments
\* arrive (tcp_sender.cc:14-159).
THEOREM NothingForgottenHolds == Spec => []NothingUnackedIsForgotten
<1>1. SInv => NothingUnackedIsForgotten
  <2> SUFFICES ASSUME SInv PROVE NothingUnackedIsForgotten  OBVIOUS
  <2>1. ASSUME NEW n \in peerNext .. snd.next - 1
        PROVE  \E c \in snd.cache : First(c) <= n /\ n < c.end
    <3>1. n \in lastAck .. snd.next - 1
      <4>1. snd.next \in Nat /\ lastAck \in 0 .. snd.next
            /\ peerNext \in lastAck .. snd.next
        BY SenderFields DEF SInv, SenderOK
      <4> QED  BY <4>1
    <3> QED  BY <3>1 DEF SInv, SenderOK, Holds
  <2> QED  BY <2>1, TailFollows DEF NothingUnackedIsForgotten
<1> QED  BY <1>1, SInvHolds, PTL

\* No more is in flight than the largest window that the peer may advertise
\* (tcp_sender.cc:42-118). MaxWindow is any number: take the largest window that
\* the peer of a behaviour advertises, and no less than the one byte that the SYN
\* and a probe take.
THEOREM FlightIsBoundedHolds == Spec => []FlightIsBounded
<1>1. SInv => FlightIsBounded  BY DEF SInv, SenderOK, FlightIsBounded
<1> QED  BY <1>1, SInvHolds, PTL

\* bytes_in_flight() counts from the last acknowledgment that popped a segment,
\* which lies in the oldest cached one, and is zero exactly when nothing is
\* cached (tcp_sender.cc:120-159).
THEOREM FlightIsUnackedHolds == Spec => []FlightIsUnacked
<1>1. SInv => FlightIsUnacked
  <2> SUFFICES ASSUME SInv PROVE FlightIsUnacked  OBVIOUS
  <2>1. /\ snd \in Sender /\ snd.next \in Nat /\ lastAck \in 0 .. snd.next
        /\ snd.flight = snd.next - lastAck
    BY SenderFields DEF SInv, SenderOK
  <2>2. ASSUME NEW c \in snd.cache
        PROVE  /\ c.end \in Nat /\ c.end > lastAck /\ c.end <= snd.next
               /\ First(c) \in Nat /\ First(c) < c.end
    BY <2>1, FirstType DEF SInv, SenderOK, IsPlaced
  <2>3. ASSUME snd.cache # {} PROVE lastAck < snd.next
    <3>1. PICK c \in snd.cache : TRUE  BY <2>3
    <3> QED  BY <2>1, <2>2, <3>1
  <2>4. ASSUME lastAck < snd.next PROVE \E c \in snd.cache : Holds(c, lastAck)
    <3>1. lastAck \in lastAck .. snd.next - 1  BY <2>1, <2>4
    <3> QED  BY <3>1 DEF SInv, SenderOK
  <2>5. snd.flight = 0 <=> snd.cache = {}
    <3>1. snd.flight = 0 <=> ~(lastAck < snd.next)  BY <2>1
    <3> QED  BY <2>3, <2>4, <3>1
  <2>6. ASSUME snd.cache # {}
        PROVE  First(Oldest(snd)) <= lastAck /\ lastAck < Oldest(snd).end
    <3> DEFINE o == Oldest(snd)
    <3>1. o \in snd.cache /\ \A d \in snd.cache : o.end <= d.end
      BY <2>1, <2>6, OldestIsFirst
    <3>2. PICK c \in snd.cache : Holds(c, lastAck)  BY <2>3, <2>4, <2>6
    <3> HIDE DEF o
    <3>3. c = o \/ c.end <= First(o) \/ o.end <= First(c)
      BY <3>1 DEF SInv, SenderOK, AreApart
    <3>4. o.end <= c.end  BY <3>1
    <3>5. First(c) <= lastAck /\ lastAck < c.end  BY <3>2 DEF Holds
    <3>6. First(o) <= lastAck /\ lastAck < o.end
      <4>1. o.end \in Nat /\ o.end > lastAck /\ First(o) \in Nat /\ First(o) < o.end
        BY <2>2, <3>1
      <4>2. c.end \in Nat /\ First(c) \in Nat  BY <2>2
      <4>3. lastAck \in Nat  BY <2>1
      <4> QED  BY <3>3, <3>4, <3>5, <4>1, <4>2, <4>3
    <3> QED  BY <3>6 DEF o
  <2> QED  BY <2>1, <2>5, <2>6 DEF FlightIsUnacked
<1> QED  BY <1>1, SInvHolds, PTL

\* The timeout has doubled once for each consecutive retransmission, and the
\* timer runs only while something is cached (tcp_sender.cc:120-179).
THEOREM TimerIsBackedOffHolds == Spec => []TimerIsBackedOff
<1>1. SInv => TimerIsBackedOff  BY DEF SInv, TimerOK, TimerIsBackedOff
<1> QED  BY <1>1, SInvHolds, PTL

-----------------------------------------------------------------------------

\* unwrap() finds a number that wraps to n, half a modulus from the checkpoint
\* or less unless that would be negative.
LEMMA UnwrapFinds ==
  ASSUME NEW n \in Raw, NEW isn \in Raw, NEW checkpoint \in Nat
  PROVE  LET d == Offset(n, Wrap(checkpoint, isn))
             found == Unwrap(n, isn, checkpoint)
         IN  /\ d \in -Half .. Half - 1
             /\ found = IF checkpoint + d < 0 THEN checkpoint + d + Modulus
                        ELSE checkpoint + d
             /\ found \in Nat /\ Wrap(found, isn) = n
<1> DEFINE M == Modulus
           w == Wrap(checkpoint, isn)
           r == (n - w) % M
           d == Offset(n, w)
           found == Unwrap(n, isn, checkpoint)
<1>1. /\ M \in Nat \ {0} /\ M = 2 * Half /\ Half \in Nat \ {0}
      /\ n \in 0 .. M - 1 /\ isn \in 0 .. M - 1
  BY ModulusType, HalfAssumption DEF Raw
<1>2. w \in 0 .. M - 1  BY <1>1, WrapType DEF Raw
<1>3. PICK p \in Int : checkpoint + isn = p * M + w
  <2>1. checkpoint + isn \in Int  BY <1>1
  <2> HIDE DEF M
  <2> QED  BY <1>1, <2>1, ModSplit DEF Wrap, M
<1>4. r \in 0 .. M - 1 /\ \E q \in Int : n - w = q * M + r
  <2>1. n - w \in Int  BY <1>1, <1>2
  <2> HIDE DEF M, w
  <2> QED  BY <1>1, <2>1, ModSplit
<1>5. PICK q \in Int : n - w = q * M + r  BY <1>4
<1>6. d = IF r < Half THEN r ELSE r - M  BY DEF Offset
<1>7. found = IF checkpoint + d < 0 THEN checkpoint + d + M ELSE checkpoint + d
  BY DEF Unwrap
<1> HIDE DEF M, w, r, d, found
<1>8. d \in -Half .. Half - 1  BY <1>1, <1>4, <1>6
<1>9. found \in Nat  BY <1>1, <1>7, <1>8
<1>10. \E k \in Int : found + isn = k * M + n
  <2>1. checkpoint + r + isn = (p - q) * M + n
    BY <1>1, <1>2, <1>3, <1>4, <1>5
  <2>2. found = checkpoint + r \/ found = checkpoint + r - M \/ found = checkpoint + r + M
    BY <1>1, <1>4, <1>6, <1>7
  <2>3. (p - q - 1) * M = (p - q) * M - M /\ (p - q + 1) * M = (p - q) * M + M
        /\ (p - q) * M \in Int
    BY <1>1
  <2>4. p - q \in Int /\ p - q - 1 \in Int /\ p - q + 1 \in Int  OBVIOUS
  <2>5. CASE found = checkpoint + r  BY <1>1, <1>4, <2>1, <2>4, <2>5
  <2>6. CASE found = checkpoint + r - M
    <3>1. found + isn = (p - q) * M - M + n  BY <1>1, <1>4, <2>1, <2>3, <2>6
    <3> QED  BY <2>3, <2>4, <3>1
  <2>7. CASE found = checkpoint + r + M
    <3>1. found + isn = (p - q) * M + M + n  BY <1>1, <1>4, <2>1, <2>3, <2>7
    <3> QED  BY <2>3, <2>4, <3>1
  <2> QED  BY <2>2, <2>5, <2>6, <2>7
<1>11. (found + isn) % M = n
  <2>1. PICK k \in Int : found + isn = k * M + n  BY <1>10
  <2>2. (k * M + n) % M = n  BY <1>1, ModUnique
  <2> QED  BY <2>1, <2>2
<1> QED  BY <1>7, <1>8, <1>9, <1>11 DEF M, w, d, found, Wrap

\* Numbers that wrap to the same one are equal or a modulus apart.
LEMMA SameRaw ==
  ASSUME NEW isn \in Int, NEW a \in Int, NEW b \in Int,
         Wrap(a, isn) = Wrap(b, isn)
  PROVE  a = b \/ a >= b + Modulus \/ a <= b - Modulus
<1> DEFINE M == Modulus
           w == Wrap(a, isn)
<1>1. M \in Nat \ {0}  BY ModulusType
<1>2. a + isn \in Int /\ b + isn \in Int  OBVIOUS
<1>3. w = (a + isn) % M /\ w = (b + isn) % M /\ w \in Int
  <2>1. w = (a + isn) % M /\ w = (b + isn) % M  BY DEF Wrap
  <2> HIDE DEF M
  <2> QED  BY <1>1, <1>2, <2>1, ModSplit
<1> HIDE DEF M, w
<1>4. PICK p \in Int : a + isn = p * M + w  BY <1>1, <1>2, <1>3, ModSplit
<1>5. PICK q \in Int : b + isn = q * M + w  BY <1>1, <1>2, <1>3, ModSplit
<1>6. a - b = p * M - q * M /\ p * M \in Int /\ q * M \in Int
  BY <1>1, <1>3, <1>4, <1>5
<1>7. CASE p = q  BY <1>6, <1>7
<1>8. CASE p >= q + 1
  <2>1. (q + 1) * M <= p * M  BY <1>1, <1>8, TimesMonotonic
  <2>2. (q + 1) * M = q * M + M  BY <1>1
  <2> QED  BY <1>1, <1>6, <2>1, <2>2 DEF M
<1>9. CASE p <= q - 1
  <2>1. p * M <= (q - 1) * M  BY <1>1, <1>9, TimesMonotonic
  <2>2. (q - 1) * M = q * M - M  BY <1>1
  <2> QED  BY <1>1, <1>6, <2>1, <2>2 DEF M
<1> QED  BY <1>7, <1>8, <1>9

\* unwrap() finds the closest of all the numbers that wrap to n.
LEMMA UnwrapIsNearest ==
  ASSUME NEW n \in Raw, NEW isn \in Raw, NEW checkpoint \in Nat
  PROVE  LET found == Unwrap(n, isn, checkpoint)
         IN  /\ found \in 0 .. checkpoint + Modulus /\ Wrap(found, isn) = n
             /\ \A a \in Nat : Wrap(a, isn) = n =>
                  Distance(found, checkpoint) <= Distance(a, checkpoint)
<1> DEFINE d == Offset(n, Wrap(checkpoint, isn))
           found == Unwrap(n, isn, checkpoint)
<1>1. Modulus \in Nat \ {0} /\ Modulus = 2 * Half /\ Half \in Nat \ {0} /\ isn \in Int
  BY ModulusType, HalfAssumption DEF Raw
<1>2. /\ d \in -Half .. Half - 1
      /\ found = IF checkpoint + d < 0 THEN checkpoint + d + Modulus ELSE checkpoint + d
      /\ found \in Nat /\ Wrap(found, isn) = n
  BY UnwrapFinds
<1> HIDE DEF d, found
<1>3. found \in 0 .. checkpoint + Modulus  BY <1>1, <1>2
<1>4. ASSUME NEW a \in Nat, Wrap(a, isn) = n
      PROVE  Distance(found, checkpoint) <= Distance(a, checkpoint)
  <2>1. a = found \/ a >= found + Modulus \/ a <= found - Modulus
    BY <1>1, <1>2, <1>4, SameRaw
  <2> QED  BY <1>1, <1>2, <2>1 DEF Distance
<1> QED  BY <1>2, <1>3, <1>4 DEF found

\* unwrap() and the difference of raw numbers find the places in the stream,
\* for every width and wherever the stream has got to
\* (wrapping_integers.cc:26-39, wrapping_integers.hh:41-47).
THEOREM NumbersAreFoundHolds == Spec => []NumbersAreFound
<1>1. SInv => NumbersAreFound
  <2> SUFFICES ASSUME SInv PROVE NumbersAreFound  OBVIOUS
  <2>1. snd.next \in Nat /\ snd.isn \in Int /\ Half \in Nat
    BY SenderFields, HalfAssumption DEF SInv, SenderOK
  <2>2. ASSUME NEW isn \in Raw, NEW n \in Raw
        PROVE  LET found == Unwrap(n, isn, snd.next)
                   all == {a \in 0 .. snd.next + Modulus : Wrap(a, isn) = n}
               IN  found \in all
                   /\ \A a \in all : Distance(found, snd.next) <= Distance(a, snd.next)
    <3> DEFINE found == Unwrap(n, isn, snd.next)
               next == snd.next
    <3>1. /\ found \in 0 .. next + Modulus /\ Wrap(found, isn) = n
          /\ \A a \in Nat : Wrap(a, isn) = n => Distance(found, next) <= Distance(a, next)
      BY <2>1, UnwrapIsNearest
    <3>2. \A a \in 0 .. next + Modulus : a \in Nat  BY <2>1, ModulusType
    <3> HIDE DEF found, next
    <3> QED  BY <3>1, <3>2 DEF found, next
  <2>3. UnwrapIsClosest  BY <2>2 DEF UnwrapIsClosest
  <2>4. ASSUME NEW a \in 0 .. snd.next, NEW b \in 0 .. snd.next, Distance(a, b) < Half
        PROVE  Offset(Wrap(a, snd.isn), Wrap(b, snd.isn)) = a - b
    <3>1. a \in Int /\ b \in Int /\ a - b >= -Half /\ a - b < Half
      BY <2>1, <2>4 DEF Distance
    <3> QED  BY <2>1, <3>1, OffsetOfWraps
  <2>5. OffsetIsDistance  BY <2>4 DEF OffsetIsDistance
  <2> QED  BY <2>3, <2>5 DEF NumbersAreFound
<1> QED  BY <1>1, SInvHolds, PTL

=============================================================================
