------------------------- MODULE ReassemblerProofs -------------------------
(***************************************************************************)
(* Proofs about ReassemblerSystem, for every length of the stream and      *)
(* every capacity.                                                         *)
(*                                                                         *)
(* 1. An excerpt of the stream is the sequence of its indices: excerpts    *)
(*    join and are cut.                                                    *)
(* 2. What write() does to an output that holds the stream so far.         *)
(* 3. The loop of push_substring() over the cached excerpts, as a          *)
(*    function of the number of rounds (DrainIsLoop), and what it has done *)
(*    after the last one (DrainFacts).                                     *)
(* 4. The loop of merge_segments(), likewise (MergeIsLoop, MergeFacts).    *)
(* 5. The invariant ReassemblerOK is kept by a push and by a read, and a   *)
(*    push keeps every byte that it does not assemble or that the full     *)
(*    output does not make it drop (KeepsBytes); the properties follow.    *)
(***************************************************************************)
EXTENDS ReassemblerSystem, NumberFacts, SequenceTheorems

\* The stream values.
Stream == [buffer : Seq(Nat), ended : BOOLEAN, error : BOOLEAN,
           written : Nat, read : Nat]

\* The excerpts that may be cached, by where they start.
Caches == UNION {[D -> Seq(Nat)] : D \in SUBSET (1 .. StreamLength)}

\* The states of a reassembler.
Reassembler == [assemble_idx : Nat, eof_idx : Nat \cup {NoEof}, segments : Caches,
                output : Stream]

\* The bytes of the stream are in order, those that were read gone, and all of
\* them were pushed.
StreamOK(out, a, P) ==
  /\ out \in Stream /\ a \in 0 .. StreamLength
  /\ out.written = a /\ out.read <= a /\ a - out.read <= RecvCapacity
  /\ out.buffer = Excerpt(out.read, a)
  /\ 0 .. a - 1 \subseteq P

\* The output takes no more.
Full(out) == out.written - out.read = RecvCapacity

\* What an excerpt holds.
LEMMA ExcerptFacts ==
  ASSUME NEW a \in Nat, NEW b \in Nat, a <= b
  PROVE  /\ Excerpt(a, b) \in Seq(Nat) /\ Len(Excerpt(a, b)) = b - a
         /\ \A i \in 1 .. b - a : Excerpt(a, b)[i] = a + i - 1
<1> DEFINE n == b - a
           e == [i \in 1 .. n |-> a + i - 1]
<1>1. n \in Nat  OBVIOUS
<1>2. \A i \in 1 .. n : a + i - 1 \in Nat  OBVIOUS
<1>3. Excerpt(a, b) = e  BY DEF Excerpt
<1> HIDE DEF n
<1>4. e \in [1 .. n -> Nat]  BY <1>2
<1> HIDE DEF e
<1>5. e \in Seq(Nat)  BY <1>1, <1>4
<1>6. Len(e) = n
  <2>1. DOMAIN e = 1 .. n  BY <1>4
  <2> QED  BY <1>1, <1>5, <2>1, LenProperties
<1>7. \A i \in 1 .. n : e[i] = a + i - 1  BY DEF e
<1> QED  BY <1>3, <1>5, <1>6, <1>7 DEF n

\* Two excerpts that touch join into one.
LEMMA ExcerptJoins ==
  ASSUME NEW a \in Nat, NEW b \in Nat, NEW c \in Nat, a <= b, b <= c
  PROVE  Excerpt(a, b) \o Excerpt(b, c) = Excerpt(a, c)
<1> DEFINE s == Excerpt(a, b)
           t == Excerpt(b, c)
           u == Excerpt(a, c)
<1>1. a <= c  OBVIOUS
<1>2. s \in Seq(Nat) /\ t \in Seq(Nat) /\ u \in Seq(Nat)
  BY <1>1, ExcerptFacts, Zenon
<1>3. Len(s) = b - a /\ Len(t) = c - b /\ Len(u) = c - a
  BY <1>1, ExcerptFacts, Zenon
<1>4. /\ \A i \in 1 .. b - a : s[i] = a + i - 1
      /\ \A i \in 1 .. c - b : t[i] = b + i - 1
      /\ \A i \in 1 .. c - a : u[i] = a + i - 1
  BY <1>1, ExcerptFacts, Zenon
<1> HIDE DEF s, t, u
<1>5. /\ s \o t \in Seq(Nat) /\ Len(s \o t) = Len(s) + Len(t)
      /\ \A i \in 1 .. Len(s) + Len(t) :
           (s \o t)[i] = IF i <= Len(s) THEN s[i] ELSE t[i - Len(s)]
  BY <1>2, ConcatProperties
<1>6. ASSUME NEW i \in 1 .. c - a PROVE (s \o t)[i] = u[i]
  <2>1. i \in 1 .. Len(s) + Len(t) /\ u[i] = a + i - 1  BY <1>3, <1>4
  <2>2. CASE i <= Len(s)
    <3>1. i \in 1 .. b - a  BY <1>3, <2>2
    <3> QED  BY <1>4, <1>5, <2>1, <2>2, <3>1
  <2>3. CASE ~(i <= Len(s))
    <3> DEFINE j == i - Len(s)
    <3>1. j \in 1 .. c - b /\ b + j - 1 = a + i - 1  BY <1>3, <2>3
    <3>2. (s \o t)[i] = t[j]  BY <1>5, <2>1, <2>3
    <3> HIDE DEF j
    <3> QED  BY <1>4, <2>1, <3>1, <3>2
  <2> QED  BY <2>2, <2>3
<1>7. Len(s \o t) = Len(u) /\ Len(u) = c - a  BY <1>3, <1>5
<1>8. s \o t = u
  <2> DEFINE v == s \o t
  <2>1. v \in Seq(Nat) /\ Len(v) = Len(u) /\ \A i \in 1 .. Len(u) : v[i] = u[i]
    BY <1>5, <1>6, <1>7
  <2> HIDE DEF v
  <2>2. v = u  BY <1>2, <2>1, SeqEqual
  <2> QED  BY <2>2 DEF v
<1> QED  BY <1>8 DEF s, t, u

\* A part of an excerpt is an excerpt.
LEMMA ExcerptCut ==
  ASSUME NEW a \in Nat, NEW b \in Nat, NEW c \in Nat, NEW d \in Nat,
         a <= c, c <= d, d <= b
  PROVE  SubSeq(Excerpt(a, b), c - a + 1, d - a) = Excerpt(c, d)
<1> DEFINE s == Excerpt(a, b)
           u == Excerpt(c, d)
           m == c - a + 1
           n == d - a
           v == SubSeq(s, m, n)
<1>1. a <= b  OBVIOUS
<1>2. s \in Seq(Nat) /\ u \in Seq(Nat)  BY <1>1, ExcerptFacts, Zenon
<1>3. Len(s) = b - a /\ Len(u) = d - c  BY <1>1, ExcerptFacts, Zenon
<1>4. /\ \A i \in 1 .. b - a : s[i] = a + i - 1
      /\ \A i \in 1 .. d - c : u[i] = c + i - 1
 BY <1>1, ExcerptFacts, Zenon
<1>5. /\ \A i \in 1 .. b - a : s[i] = a + i - 1 /\ s[i] \in Nat
      /\ \A i \in 1 .. d - c : u[i] = c + i - 1
  <2> HIDE DEF s, u
  <2>1. \A i \in 1 .. b - a : a + i - 1 \in Nat  OBVIOUS
  <2> QED  BY <1>4, <2>1
<1> HIDE DEF s, u
<1>6. m \in Int /\ n \in Int /\ n - m + 1 = d - c /\ (~(m <= n) => d - c = 0)
  OBVIOUS
<1>7. \A i \in m .. n : s[i] \in Nat
  <2> TAKE i \in m .. n
  <2>1. i \in 1 .. b - a  OBVIOUS
  <2> QED  BY <1>5, <2>1
<1>8. \A i \in 1 .. d - c : m + i - 1 \in 1 .. b - a /\ a + (m + i - 1) - 1 = c + i - 1
  OBVIOUS
<1> HIDE DEF m, n
<1>9. /\ v \in Seq(Nat) /\ Len(v) = IF m <= n THEN n - m + 1 ELSE 0
      /\ \A i \in 1 .. n - m + 1 : v[i] = s[m + i - 1]
  BY <1>6, <1>7, SubSeqProperties
<1> HIDE DEF v
<1>10. Len(v) = Len(u)  BY <1>3, <1>6, <1>9
<1>11. \A i \in 1 .. Len(u) : v[i] = u[i]
  <2> TAKE i \in 1 .. Len(u)
  <2>1. i \in 1 .. d - c /\ v[i] = s[m + i - 1]  BY <1>3, <1>6, <1>9
  <2>2. s[m + i - 1] = a + (m + i - 1) - 1  BY <1>5, <1>8, <2>1
  <2> QED  BY <1>5, <1>8, <2>1, <2>2
<1>12. v = u  BY <1>2, <1>9, <1>10, <1>11, SeqEqual
<1> QED  BY <1>12 DEF u, v, m, n, s

\* The fields of an output that holds the first bytes of the stream.
LEMMA StreamFacts ==
  ASSUME NEW out, NEW a, NEW P, StreamOK(out, a, P)
  PROVE  /\ a \in Nat /\ a <= StreamLength /\ StreamLength \in Nat
         /\ out.read \in Nat /\ out.written \in Nat /\ out.ended \in BOOLEAN
         /\ RecvCapacity \in Nat
         /\ out.buffer \in Seq(Nat) /\ Len(out.buffer) = a - out.read
<1>1. StreamLength \in Nat /\ RecvCapacity \in Nat
  BY LengthAssumption, ReassemblerAssumption
<1>2. out \in Stream /\ a \in 0 .. StreamLength /\ out.read <= a
      /\ out.buffer = Excerpt(out.read, a)
  BY DEF StreamOK
<1>3. a \in Nat /\ a <= StreamLength  BY <1>1, <1>2
<1>4. /\ out.read \in Nat /\ out.written \in Nat /\ out.ended \in BOOLEAN
      /\ out.buffer \in Seq(Nat)
  BY <1>2 DEF Stream
<1>5. Len(out.buffer) = a - out.read  BY <1>2, <1>3, <1>4, ExcerptFacts
<1> QED  BY <1>1, <1>3, <1>4, <1>5

\* Writing the bytes that follow: as many as fit are appended, and if that is
\* not all of them the output is full.
LEMMA WriteFacts ==
  ASSUME NEW P, NEW out, NEW a, StreamOK(out, a, P),
         NEW next \in Nat, a <= next, next <= StreamLength, a .. next - 1 \subseteq P,
         NEW w, w = StreamWrite(out, Excerpt(a, next), RecvCapacity)
  PROVE  /\ w.written \in a .. next /\ StreamOK(w, w.written, P)
         /\ w.read = out.read /\ w.ended = out.ended
         /\ w.written = next \/ Full(w)
         /\ Full(out) => Full(w)
<1> DEFINE data == Excerpt(a, next)
           n == Least(next - a, RecvCapacity - (a - out.read))
<1>1. /\ a \in Nat /\ out.read \in Nat /\ RecvCapacity \in Nat
      /\ Len(out.buffer) = a - out.read /\ StreamLength \in Nat
  BY StreamFacts
<1>2. /\ out \in Stream /\ out.written = a /\ out.read <= a
      /\ a - out.read <= RecvCapacity /\ out.buffer = Excerpt(out.read, a)
      /\ 0 .. a - 1 \subseteq P
  BY DEF StreamOK
<1>3. Len(data) = next - a  BY <1>1, ExcerptFacts
<1>4. w = [out EXCEPT !.buffer = @ \o SubSeq(data, 1, n), !.written = @ + n]
  BY <1>1, <1>3 DEF StreamWrite, RemainingCapacity
<1>5. n \in Nat /\ n <= next - a /\ n <= RecvCapacity - (a - out.read)
      /\ (n = next - a \/ n = RecvCapacity - (a - out.read))
  BY <1>1, <1>2 DEF Least
<1> HIDE DEF n
<1> DEFINE b == a + n
<1>6. b \in Nat /\ a <= b /\ b <= next /\ a - a + 1 = 1 /\ b - a = n  BY <1>1, <1>5
<1>7. SubSeq(data, 1, n) = Excerpt(a, b)
  <2>1. SubSeq(data, a - a + 1, b - a) = Excerpt(a, b)
    <3> HIDE DEF b
    <3> QED  BY <1>1, <1>6, ExcerptCut
  <2> QED  BY <1>6, <2>1
<1>8. out.buffer \o Excerpt(a, b) = Excerpt(out.read, b)
  <2> HIDE DEF b
  <2>1. Excerpt(out.read, a) \o Excerpt(a, b) = Excerpt(out.read, b)
    BY <1>1, <1>2, <1>6, ExcerptJoins, ZenonT(40)
  <2> QED  BY <1>2, <2>1, Zenon
<1>9. w = [out EXCEPT !.buffer = Excerpt(out.read, b), !.written = b]
  BY <1>2, <1>4, <1>7, <1>8
<1> HIDE DEF data, b
<1>10. /\ w.buffer = Excerpt(out.read, b) /\ w.written = b
       /\ w.read = out.read /\ w.ended = out.ended /\ w \in Stream
  <2>1. Excerpt(out.read, b) \in Seq(Nat)
    <3>1. out.read <= b  BY <1>1, <1>2, <1>6
    <3> QED  BY <1>1, <1>6, <3>1, ExcerptFacts
  <2> QED  BY <1>2, <1>6, <1>9, <2>1 DEF Stream
<1>11. b \in 0 .. StreamLength /\ out.read <= b /\ b - out.read <= RecvCapacity
  BY <1>1, <1>2, <1>5, <1>6
<1>12. 0 .. b - 1 \subseteq P
  <2>1. \A i \in 0 .. b - 1 : i \in 0 .. a - 1 \/ i \in a .. next - 1  BY <1>1, <1>6
  <2> QED  BY <1>2, <2>1
<1>13. StreamOK(w, b, P)  BY <1>10, <1>11, <1>12 DEF StreamOK
<1>14. w.written = next \/ Full(w)  BY <1>1, <1>5, <1>6, <1>10 DEF Full
<1>15. Full(out) => Full(w)  BY <1>1, <1>2, <1>5, <1>6, <1>10, <1>11 DEF Full
<1> QED  BY <1>6, <1>10, <1>13, <1>14, <1>15

\* What is written of an excerpt that is due and ends before next: as much as
\* the output takes.
IsAssembled(q, r, next, P) ==
  /\ q \in Reassembler /\ StreamOK(q.output, q.assemble_idx, P)
  /\ q.assemble_idx \in r.assemble_idx .. next
  /\ q.eof_idx = r.eof_idx /\ q.segments = r.segments
  /\ q.output.read = r.output.read /\ q.output.ended = r.output.ended
  /\ q.assemble_idx = next \/ Full(q.output)
  /\ Full(r.output) => Full(q.output)

\* Assembling an excerpt that is due writes what follows the assembled bytes,
\* whatever part of it was assembled before.
LEMMA AssembleFacts ==
  ASSUME NEW P, NEW r \in Reassembler, StreamOK(r.output, r.assemble_idx, P),
         NEW k \in Nat, NEW next \in Nat, k <= r.assemble_idx, r.assemble_idx <= next,
         next <= StreamLength, k .. next - 1 \subseteq P,
         NEW q, q = Assemble(r, k, Excerpt(k, next))
  PROVE  IsAssembled(q, r, next, P)
<1> DEFINE a == r.assemble_idx
           data == Excerpt(k, next)
           rest == SubSeq(data, a - k + 1, Len(data))
           w == StreamWrite(r.output, rest, RecvCapacity)
<1>1. a \in Nat /\ r.output.written = a  BY StreamFacts DEF StreamOK
<1>2. Len(data) = next - k
  <2>1. k <= next  BY <1>1
  <2> QED  BY <2>1, ExcerptFacts
<1>3. rest = Excerpt(a, next)
  <2>1. next <= next /\ k <= a /\ a <= next  OBVIOUS
  <2> HIDE DEF a
  <2>2. SubSeq(Excerpt(k, next), a - k + 1, next - k) = Excerpt(a, next)
    BY <1>1, <2>1, ExcerptCut
  <2> QED  BY <1>2, <2>2, Zenon
<1>4. q = [r EXCEPT !.output = w, !.assemble_idx = @ + (w.written - r.output.written)]
  BY DEF Assemble
<1>5. a .. next - 1 \subseteq P
  <2>1. \A i \in a .. next - 1 : i \in k .. next - 1  BY <1>1
  <2> QED  BY <2>1
<1>6. w = StreamWrite(r.output, Excerpt(a, next), RecvCapacity)  BY <1>3
<1> HIDE DEF w, rest, data
<1>7. /\ w.written \in a .. next /\ StreamOK(w, w.written, P)
      /\ w.read = r.output.read /\ w.ended = r.output.ended
      /\ w.written = next \/ Full(w)
      /\ Full(r.output) => Full(w)
  <2> HIDE DEF a
  <2> QED  BY <1>1, <1>5, <1>6, WriteFacts DEF a
<1>8. w.written \in Nat /\ a + (w.written - a) = w.written  BY <1>1, <1>7
<1>9. q = [r EXCEPT !.output = w, !.assemble_idx = w.written]  BY <1>1, <1>4, <1>8
<1>10. w \in Stream  BY <1>7 DEF StreamOK
<1>11. /\ q \in Reassembler /\ q.output = w /\ q.assemble_idx = w.written
       /\ q.eof_idx = r.eof_idx /\ q.segments = r.segments
  BY <1>8, <1>9, <1>10 DEF Reassembler
<1> QED  BY <1>7, <1>11 DEF IsAssembled

\* The index after the excerpt that is cached at k.
After(segs, k) == k + Len(segs[k])

\* The cached excerpts hold bytes that were pushed, and do not touch.
CacheOK(segs, P) ==
  /\ segs \in Caches
  /\ \A k \in DOMAIN segs :
       /\ segs[k] = Excerpt(k, After(segs, k)) /\ After(segs, k) <= StreamLength
       /\ k .. After(segs, k) - 1 \subseteq P
       /\ \A j \in DOMAIN segs : j > k => j > After(segs, k)

\* The fields of a cache.
LEMMA CacheFacts ==
  ASSUME NEW segs \in Caches
  PROVE  /\ segs \in [DOMAIN segs -> Seq(Nat)]
         /\ DOMAIN segs \in SUBSET (1 .. StreamLength)
         /\ \A k \in DOMAIN segs : /\ segs[k] \in Seq(Nat) /\ Len(segs[k]) \in Nat
                                   /\ k \in Nat /\ k \in 1 .. StreamLength
                                   /\ After(segs, k) \in Nat /\ k <= After(segs, k)
<1>1. PICK D \in SUBSET (1 .. StreamLength) : segs \in [D -> Seq(Nat)]  BY DEF Caches
<1>2. DOMAIN segs = D  BY <1>1
<1>3. ASSUME NEW k \in D
      PROVE  /\ segs[k] \in Seq(Nat) /\ Len(segs[k]) \in Nat /\ k \in Nat
             /\ After(segs, k) \in Nat /\ k <= After(segs, k)
  <2>1. segs[k] \in Seq(Nat)  BY <1>1
  <2>2. Len(segs[k]) \in Nat  BY <2>1, LenProperties
  <2>3. k \in Nat  BY LengthAssumption
  <2> QED  BY <2>1, <2>2, <2>3 DEF After
<1> QED  BY <1>1, <1>2, <1>3

\* Some of the excerpts of a cache.
LEMMA FewerAreCached ==
  ASSUME NEW segs, NEW P, CacheOK(segs, P), NEW D \in SUBSET DOMAIN segs
  PROVE  CacheOK([k \in D |-> segs[k]], P)
<1> DEFINE t == [k \in D |-> segs[k]]
<1>1. segs \in [DOMAIN segs -> Seq(Nat)] /\ D \in SUBSET (1 .. StreamLength)
  BY CacheFacts DEF CacheOK
<1>2. t \in [D -> Seq(Nat)]  BY <1>1
<1>3. DOMAIN t = D /\ \A k \in D : t[k] = segs[k]  OBVIOUS
<1> HIDE DEF t
<1>4. t \in Caches  BY <1>1, <1>2 DEF Caches
<1>5. \A k \in D : After(t, k) = After(segs, k)  BY <1>3 DEF After
<1>6. CacheOK(t, P)
  <2> SUFFICES ASSUME NEW k \in D
               PROVE  /\ t[k] = Excerpt(k, After(t, k)) /\ After(t, k) <= StreamLength
                      /\ k .. After(t, k) - 1 \subseteq P
                      /\ \A j \in D : j > k => j > After(t, k)
    BY <1>3, <1>4 DEF CacheOK
  <2> QED  BY <1>3, <1>5 DEF CacheOK
<1> QED  BY <1>6 DEF t

\* What a round of the loop over the cached excerpts leaves as it was, and what
\* it keeps true.
DrainStates(r, P) ==
  {d \in [r : Reassembler, done : SUBSET DOMAIN r.segments] :
     /\ d.r.segments = r.segments /\ d.r.eof_idx = r.eof_idx
     /\ d.r.output.read = r.output.read /\ d.r.output.ended = r.output.ended
     /\ r.assemble_idx <= d.r.assemble_idx
     /\ StreamOK(d.r.output, d.r.assemble_idx, P)
     /\ Full(r.output) => Full(d.r.output)}

\* An excerpt is dropped when it has no byte that is missing, or is due.
Dropped(d, k) ==
  \/ d.r.segments[k] = <<>>
  \/ After(d.r.segments, k) <= d.r.assemble_idx
  \/ Full(d.r.output)

\* A round of the loop over the cached excerpts leaves the one at k, because it
\* is not due, or drops it.
LEMMA DrainStep ==
  ASSUME NEW P, NEW r \in Reassembler, CacheOK(r.segments, P),
         NEW d \in DrainStates(r, P), NEW k \in DOMAIN r.segments,
         NEW e, e = DrainAt(d, k)
  PROVE  /\ e \in DrainStates(r, P)
         /\ d.r.assemble_idx <= e.r.assemble_idx
         /\ Full(d.r.output) => Full(e.r.output)
         /\ \/ e = d /\ k > d.r.assemble_idx
            \/ /\ e.done = d.done \cup {k} /\ Dropped(e, k)
               /\ e.r = d.r \/ k <= d.r.assemble_idx
<1> DEFINE segs == r.segments
           a == d.r.assemble_idx
           next == After(segs, k)
<1>1. segs \in Caches /\ r.assemble_idx \in Nat  BY DEF Reassembler
<1>2. /\ k \in Nat /\ next \in Nat /\ k <= next /\ segs[k] \in Seq(Nat)
      /\ Len(segs[k]) \in Nat
  <2> HIDE DEF segs
  <2> QED  BY <1>1, CacheFacts DEF segs
<1>3. /\ segs[k] = Excerpt(k, next) /\ next <= StreamLength /\ k .. next - 1 \subseteq P
  BY DEF CacheOK
<1>4. /\ d.r \in Reassembler /\ d.done \in SUBSET DOMAIN segs
      /\ d = [r |-> d.r, done |-> d.done]
      /\ d.r.segments = segs /\ d.r.eof_idx = r.eof_idx
      /\ d.r.output.read = r.output.read /\ d.r.output.ended = r.output.ended
      /\ r.assemble_idx <= a /\ StreamOK(d.r.output, a, P)
      /\ Full(r.output) => Full(d.r.output)
  BY DEF DrainStates
<1>5. a \in Nat  BY <1>4 DEF Reassembler
<1>6. e = CASE next <= a \/ segs[k] = <<>> -> [d EXCEPT !.done = @ \cup {k}]
            [] a < k /\ segs[k] # <<>> -> d
            [] OTHER -> [r |-> Assemble(d.r, k, segs[k]), done |-> d.done \cup {k}]
  <2>1. d.r.segments = segs  BY <1>4
  <2> HIDE DEF segs
  <2> QED  BY <2>1 DEF DrainAt, After
<1>7. CASE next <= a \/ segs[k] = <<>>
  <2>1. e = [d EXCEPT !.done = @ \cup {k}]
    BY <1>2, <1>5, <1>7, <1>6
  <2>2. e.r = d.r /\ e.done = d.done \cup {k} /\ e = [r |-> d.r, done |-> d.done \cup {k}]
    BY <1>4, <2>1
  <2>3. e \in [r : Reassembler, done : SUBSET DOMAIN r.segments]  BY <1>4, <2>2
  <2>4. e \in DrainStates(r, P)  BY <1>4, <2>2, <2>3 DEF DrainStates
  <2>5. Dropped(e, k)  BY <1>4, <1>7, <2>2 DEF Dropped
  <2> QED  BY <1>5, <2>2, <2>4, <2>5
<1>8. CASE ~(next <= a \/ segs[k] = <<>>) /\ a < k
  <2>1. e = d  BY <1>2, <1>5, <1>8, <1>6
  <2> QED  BY <1>2, <1>5, <1>8, <2>1
<1>9. CASE ~(next <= a \/ segs[k] = <<>>) /\ ~(a < k)
  <2> DEFINE q == Assemble(d.r, k, segs[k])
  <2>1. e = [r |-> q, done |-> d.done \cup {k}]
    BY <1>2, <1>5, <1>9, <1>6
  <2>2. k <= a /\ a <= next  BY <1>2, <1>5, <1>9
  <2>3. /\ q \in Reassembler /\ StreamOK(q.output, q.assemble_idx, P)
        /\ q.assemble_idx \in a .. next
        /\ q.eof_idx = d.r.eof_idx /\ q.segments = d.r.segments
        /\ q.output.read = d.r.output.read /\ q.output.ended = d.r.output.ended
        /\ q.assemble_idx = next \/ Full(q.output)
        /\ Full(d.r.output) => Full(q.output)
    <3>1. q = Assemble(d.r, k, Excerpt(k, next))  BY <1>3
    <3>2. d.r \in Reassembler /\ StreamOK(d.r.output, d.r.assemble_idx, P)  BY <1>4
    <3>3. k <= d.r.assemble_idx /\ d.r.assemble_idx <= next  BY <2>2
    <3>4. k \in Nat /\ next \in Nat /\ next <= StreamLength /\ k .. next - 1 \subseteq P
      BY <1>2, <1>3
    <3> HIDE DEF q, next, segs
    <3>5. IsAssembled(q, d.r, next, P)  BY <3>1, <3>2, <3>3, <3>4, AssembleFacts, Zenon
    <3> QED  BY <3>5 DEF IsAssembled
  <2> HIDE DEF q
  <2>4. e.r = q /\ e.done = d.done \cup {k}  BY <2>1
  <2>5. e \in [r : Reassembler, done : SUBSET DOMAIN r.segments]  BY <1>4, <2>1, <2>3
  <2>6. a <= q.assemble_idx /\ r.assemble_idx <= q.assemble_idx
    BY <1>1, <1>2, <1>4, <1>5, <2>3
  <2>7. e \in DrainStates(r, P)
    BY <1>4, <2>3, <2>4, <2>5, <2>6 DEF DrainStates
  <2>8. Dropped(e, k)
    <3>1. e.r.segments = segs  BY <1>4, <2>3, <2>4
    <3>2. q.assemble_idx = next => next <= q.assemble_idx  BY <1>2
    <3> QED  BY <2>3, <2>4, <3>1, <3>2 DEF Dropped
  <2> QED  BY <2>2, <2>3, <2>4, <2>6, <2>7, <2>8
<1> QED  BY <1>7, <1>8, <1>9

\* The rounds of the loop over the cached excerpts, with values in V.
IsDrainLoop(f, r, keys, n, V) ==
  /\ f \in [0 .. n -> V] /\ f[0] = [r |-> r, done |-> {}]
  /\ Drain(r) = [f[n].r EXCEPT !.segments = Without(@, f[n].done)]
  /\ \A k \in 1 .. n : f[k] = DrainAt(f[k - 1], keys[k])

\* The fold over the cached excerpts is that loop, if no round leaves V.
LEMMA DrainIsLoop ==
  ASSUME NEW r, NEW V, [r |-> r, done |-> {}] \in V,
         \A d \in V : \A k \in DOMAIN r.segments : DrainAt(d, k) \in V,
         NEW keys, keys = Keys(r.segments),
         NEW n \in Nat, keys \in [1 .. n -> DOMAIN r.segments]
  PROVE  \E f : IsDrainLoop(f, r, keys, n, V)
<1> DEFINE base == [r |-> r, done |-> {}]
           step == [p \in (1 .. n) \X V |-> DrainAt(p[2], keys[p[1]])]
           IsIter(g) == g = [s \in SUBSET (1 .. n) |->
                          IF s = {} THEN base
                          ELSE DrainAt(g[s \ {Max(s)}], keys[Max(s)])]
           d == (CHOOSE g : IsIter(g))[1 .. n]
<1>1. base \in V  OBVIOUS
<1>2. step \in [(1 .. n) \X V -> V]
  <2>1. ASSUME NEW e \in V, NEW k \in 1 .. n PROVE DrainAt(e, keys[k]) \in V
    <3>1. keys[k] \in DOMAIN r.segments  OBVIOUS
    <3> QED  BY <3>1
  <2> QED  BY <2>1
<1>3. Drain(r) = [d.r EXCEPT !.segments = Without(@, d.done)]
  <2>1. DOMAIN keys = 1 .. n  OBVIOUS
  <2> QED  BY <2>1 DEF Drain, FoldLeft, MapThenFoldSet
<1> HIDE DEF base
<1>4. PICK h \in [SUBSET (1 .. n) -> V] : IsIteration(n, V, base, step, h)
  <2> HIDE DEF step
  <2> QED  BY <1>1, <1>2, IterationExists
<1>5. IsIter(h)
  <2>1. \A s \in SUBSET (1 .. n) :
          h[s] = IF s = {} THEN base ELSE DrainAt(h[s \ {Max(s)}], keys[Max(s)])
    <3> TAKE s \in SUBSET (1 .. n)
    <3>1. CASE s = {}  BY <1>4, <3>1 DEF IsIteration
    <3>2. CASE s # {}
      <4> DEFINE m == Max(s)
      <4>1. m \in s /\ \A x \in s : x <= m  BY <3>2, MaxIsGreatest
      <4> HIDE DEF m
      <4>2. m \in 1 .. n /\ h[s \ {m}] \in V  BY <1>4, <4>1
      <4>3. h[s] = step[m, h[s \ {m}]]  BY <1>4, <4>1, <4>2 DEF IsIteration
      <4> QED  BY <3>2, <4>2, <4>3 DEF m
    <3> QED  BY <3>1, <3>2
  <2> QED  BY <1>4, <2>1
<1> DEFINE g == CHOOSE g : IsIter(g)
<1>6. IsIter(g) /\ d = g[1 .. n]  BY <1>5
<1> HIDE DEF g, d
<1>7. g[{}] = base
  <2>1. {} \in SUBSET (1 .. n)  OBVIOUS
  <2> QED  BY <1>6, <2>1
<1>8. ASSUME NEW s \in SUBSET (1 .. n), NEW m \in s, \A x \in s : x <= m,
             g[s \ {m}] \in V
      PROVE  g[s] = step[m, g[s \ {m}]]
  <2>1. Max(s) = m
    <3> DEFINE x == Max(s)
    <3>1. x \in s /\ m <= x /\ x <= m  BY <1>8, MaxIsGreatest
    <3>2. x \in 1 .. n /\ m \in 1 .. n  BY <3>1
    <3> HIDE DEF x
    <3> QED  BY <3>1, <3>2 DEF x
  <2>2. g[s] = DrainAt(g[s \ {m}], keys[m])  BY <1>6, <2>1
  <2> QED  BY <1>8, <2>2
<1> HIDE DEF step, IsIter
<1>9. IsIteration(n, V, base, step, g)  BY <1>7, <1>8 DEF IsIteration
<1>10. PICK f : IsLoop(n, V, base, step, f, g[1 .. n])
  BY <1>1, <1>2, <1>9, IterationIsLoop
<1>11. f \in [0 .. n -> V] /\ f[0] = base /\ f[n] = d
       /\ \A k \in 1 .. n : f[k] = step[k, f[k - 1]]
  BY <1>6, <1>10 DEF IsLoop
<1>12. \A k \in 1 .. n : f[k] = DrainAt(f[k - 1], keys[k])
  <2> TAKE k \in 1 .. n
  <2>1. k - 1 \in 0 .. n  OBVIOUS
  <2>2. f[k - 1] \in V  BY <1>11, <2>1
  <2> QED  BY <1>11, <2>2 DEF step
<1>13. Drain(r) = [f[n].r EXCEPT !.segments = Without(@, f[n].done)]  BY <1>3, <1>11, Zenon
<1>14. IsDrainLoop(f, r, keys, n, V)
  BY <1>11, <1>12, <1>13, Zenon DEF base, IsDrainLoop
<1> QED  BY <1>14, Zenon

\* Draining: what stays cached is not due, and nothing was dropped that the
\* output does not have, unless it is full.
LEMMA DrainFacts ==
  ASSUME NEW P, NEW r \in Reassembler, CacheOK(r.segments, P),
         StreamOK(r.output, r.assemble_idx, P),
         NEW q, q = Drain(r)
  PROVE  /\ q \in Reassembler /\ CacheOK(q.segments, P)
         /\ StreamOK(q.output, q.assemble_idx, P)
         /\ q.eof_idx = r.eof_idx /\ q.output.ended = r.output.ended
         /\ q.output.read = r.output.read /\ r.assemble_idx <= q.assemble_idx
         /\ \A k \in DOMAIN q.segments : k > q.assemble_idx
         /\ \A k \in DOMAIN r.segments :
              \/ k \in DOMAIN q.segments /\ q.segments[k] = r.segments[k]
              \/ r.segments[k] = <<>>
              \/ After(r.segments, k) <= q.assemble_idx
              \/ Full(q.output)
<1> DEFINE segs == r.segments
           D == DOMAIN segs
           keys == Keys(segs)
           n == Cardinality(D)
           V == DrainStates(r, P)
<1>1. segs \in Caches /\ D \in SUBSET (1 .. StreamLength) /\ StreamLength \in Nat
  <2>1. segs \in Caches  BY DEF CacheOK
  <2> HIDE DEF segs
  <2> QED  BY <2>1, CacheFacts, LengthAssumption
<1>2. IsAscending(keys, D) /\ n \in Nat  BY <1>1, AscendingLists DEF Keys
<1>3. \A x \in D : \E j \in 1 .. n : keys[j] = x
  <2>1. D \in SUBSET Int  BY <1>1
  <2>2. IsFiniteSet(1 .. StreamLength)  BY <1>1, FS_Interval
  <2>3. IsFiniteSet(D)  BY <1>1, <2>2, FS_Subset
  <2> HIDE DEF D, keys
  <2> QED  BY <1>2, <2>1, <2>3, AscendingIsOnto
<1>4. keys \in [1 .. n -> D] /\ \A j, k \in 1 .. n : j < k => keys[j] < keys[k]
  BY <1>2 DEF IsAscending
<1>5. PICK f \in [0 .. n -> V] :
         /\ f[0] = [r |-> r, done |-> {}]
         /\ Drain(r) = [f[n].r EXCEPT !.segments = Without(@, f[n].done)]
         /\ \A k \in 1 .. n : f[k] = DrainAt(f[k - 1], keys[k])
  <2>1. keys = Keys(r.segments) /\ keys \in [1 .. n -> DOMAIN r.segments]  BY <1>4
  <2>2. n \in Nat  BY <1>2
  <2> HIDE DEF keys, n
  <2>3. [r |-> r, done |-> {}] \in V
    <3>1. r.assemble_idx \in Nat /\ r.assemble_idx <= r.assemble_idx  BY DEF Reassembler
    <3> QED  BY <3>1 DEF DrainStates
  <2>4. \A d \in V : \A k \in DOMAIN r.segments : DrainAt(d, k) \in V
    BY DrainStep, Zenon
  <2> HIDE DEF V
  <2>5. \E f : IsDrainLoop(f, r, keys, n, V)
    BY <2>1, <2>2, <2>3, <2>4, DrainIsLoop, Zenon
  <2> QED  BY <2>5 DEF IsDrainLoop
<1> HIDE DEF keys, n, V
\* Before round k + 1 ...
<1> DEFINE OK(k) ==
             /\ \A j \in 1 .. k : keys[j] \in f[k].done \/ keys[j] > f[k].r.assemble_idx
             /\ \A x \in f[k].done : Dropped(f[k], x)
           Fails == {k \in Nat : k <= n /\ ~OK(k)}
<1>6. Fails = {}
  <2> SUFFICES ASSUME Fails # {} PROVE FALSE  OBVIOUS
  <2>1. PICK k \in Fails : \A j \in Fails : k <= j  BY LeastExists
  <2>2. k # 0
    <3> SUFFICES ASSUME k = 0 PROVE FALSE  OBVIOUS
    <3>1. f[k].done = {}  BY <1>5
    <3>2. 1 .. k = {}  OBVIOUS
    <3> QED  BY <2>1, <3>1, <3>2
  <2>3. k \in 1 .. n /\ k - 1 \in 0 .. n /\ k \in 0 .. n /\ ~(k <= k - 1) /\ k - 1 \in Nat
        /\ k - 1 <= n
    BY <1>2, <2>1, <2>2
  <2>4. OK(k - 1)
    <3>1. k - 1 \notin Fails  BY <2>1, <2>3
    <3> QED  BY <2>3, <3>1
  <2> DEFINE d == f[k - 1]
             e == f[k]
             y == keys[k]
  <2>5. d \in V /\ e = DrainAt(d, y) /\ y \in D /\ e \in V  BY <1>4, <1>5, <2>3
  <2>6. d.r.segments = segs /\ e.r.segments = segs /\ d.r.assemble_idx \in Nat
        /\ e.r.assemble_idx \in Nat /\ d.done \in SUBSET D
    BY <2>5 DEF V, DrainStates, Reassembler
  <2>7. /\ \A j \in 1 .. k - 1 : keys[j] \in d.done \/ keys[j] > d.r.assemble_idx
        /\ \A x \in d.done : Dropped(d, x)
    BY <2>4
  <2>8. \A j \in 1 .. k - 1 : j \in 1 .. n /\ keys[j] < y /\ keys[j] \in D
    <3> TAKE j \in 1 .. k - 1
    <3>1. j \in 1 .. n /\ j < k  BY <1>2, <2>3
    <3> QED  BY <1>4, <2>3, <3>1
  <2>9. \A j \in 1 .. k : j = k \/ j \in 1 .. k - 1  BY <2>3
  <2>10. \A x \in D : x \in Nat /\ After(segs, x) \in Nat
    <3> HIDE DEF segs
    <3> QED  BY <1>1, CacheFacts
  <2> HIDE DEF OK, d, e, y
  <2>11. /\ d.r.assemble_idx <= e.r.assemble_idx
         /\ Full(d.r.output) => Full(e.r.output)
         /\ \/ e = d /\ y > d.r.assemble_idx
            \/ /\ e.done = d.done \cup {y} /\ Dropped(e, y)
               /\ e.r = d.r \/ y <= d.r.assemble_idx
    BY <2>5, DrainStep DEF V
  <2>12. CASE e = d /\ y > d.r.assemble_idx
    BY <2>1, <2>7, <2>9, <2>12 DEF OK, d, e, y
  <2>13. CASE /\ e.done = d.done \cup {y} /\ Dropped(e, y)
              /\ e.r = d.r \/ y <= d.r.assemble_idx
    <3>1. ASSUME NEW x \in d.done PROVE Dropped(e, x)
      <4>1. Dropped(d, x) /\ x \in D  BY <2>6, <2>7
      <4>2. After(segs, x) \in Nat  BY <2>10, <4>1
      <4>3. After(segs, x) <= d.r.assemble_idx => After(segs, x) <= e.r.assemble_idx
        BY <2>6, <2>11, <4>2
      <4> HIDE DEF segs
      <4> QED  BY <2>6, <2>11, <4>1, <4>3 DEF Dropped
    <3>2. ASSUME NEW j \in 1 .. k PROVE keys[j] \in e.done \/ keys[j] > e.r.assemble_idx
      <4>1. CASE j = k  BY <2>13, <4>1 DEF y
      <4>2. CASE j \in 1 .. k - 1
        <5>1. keys[j] \in d.done \/ keys[j] > d.r.assemble_idx  BY <2>7, <4>2
        <5>2. CASE e.r = d.r  BY <2>13, <5>1, <5>2
        <5>3. CASE y <= d.r.assemble_idx
          <6>1. keys[j] \in Nat /\ y \in Nat /\ keys[j] < y  BY <2>5, <2>8, <2>10, <4>2
          <6>2. ~(keys[j] > d.r.assemble_idx)  BY <2>6, <5>3, <6>1
          <6> QED  BY <2>13, <5>1, <6>2
        <5> QED  BY <2>13, <5>2, <5>3
      <4> QED  BY <2>9, <4>1, <4>2
    <3>3. OK(k)  BY <2>13, <3>1, <3>2 DEF OK, e
    <3> QED  BY <2>1, <3>3
  <2> QED  BY <2>11, <2>12, <2>13
<1>7. OK(n)
  <2>1. n \in Nat /\ n <= n /\ n \notin Fails  BY <1>2, <1>6
  <2> QED  BY <2>1
<1> DEFINE d == f[n]
<1>8. d \in V /\ q = [d.r EXCEPT !.segments = Without(@, d.done)]
  <2>1. n \in 0 .. n  BY <1>2
  <2> QED  BY <1>5, <2>1
<1>9. /\ d.r \in Reassembler /\ d.done \in SUBSET D /\ d.r.segments = segs
      /\ d.r.eof_idx = r.eof_idx /\ d.r.output.ended = r.output.ended
      /\ d.r.output.read = r.output.read /\ r.assemble_idx <= d.r.assemble_idx
      /\ StreamOK(d.r.output, d.r.assemble_idx, P)
  BY <1>8 DEF V, DrainStates
<1>10. /\ \A j \in 1 .. n : keys[j] \in d.done \/ keys[j] > d.r.assemble_idx
       /\ \A x \in d.done : Dropped(d, x)
  BY <1>7
<1> HIDE DEF d, OK
<1> DEFINE t == [k \in D \ d.done |-> segs[k]]
<1>11. CacheOK(t, P)
  <2>1. D \ d.done \in SUBSET DOMAIN segs /\ CacheOK(segs, P)  OBVIOUS
  <2> HIDE DEF segs, D
  <2> QED  BY <2>1, FewerAreCached
<1>12. q = [d.r EXCEPT !.segments = t]
  <2>1. Without(d.r.segments, d.done) = t  BY <1>9 DEF Without, Restrict
  <2> HIDE DEF t
  <2> QED  BY <1>8, <2>1
<1>13. t \in Caches  BY <1>11 DEF CacheOK
<1>14. DOMAIN t = D \ d.done /\ \A k \in DOMAIN t : t[k] = segs[k]  OBVIOUS
<1> HIDE DEF t
<1>15. /\ q \in Reassembler /\ q.segments = t /\ q.assemble_idx = d.r.assemble_idx
       /\ q.eof_idx = d.r.eof_idx /\ q.output = d.r.output
  BY <1>9, <1>12, <1>13 DEF Reassembler
<1>16. \A k \in DOMAIN t : k > q.assemble_idx
  BY <1>3, <1>10, <1>14, <1>15
<1>17. ASSUME NEW k \in D
       PROVE  \/ k \in DOMAIN q.segments /\ q.segments[k] = segs[k]
              \/ segs[k] = <<>>
              \/ After(segs, k) <= q.assemble_idx
              \/ Full(q.output)
  <2>1. CASE k \in d.done  BY <1>9, <1>10, <1>15, <2>1 DEF Dropped
  <2>2. CASE k \notin d.done  BY <1>14, <1>15, <2>2
  <2> QED  BY <2>1, <2>2
<1> QED  BY <1>9, <1>11, <1>15, <1>16, <1>17

\* So is what it begins with.
LEMMA ExcerptHead ==
  ASSUME NEW a \in Nat, NEW b \in Nat, NEW c \in Nat, a <= c, c <= b
  PROVE  SubSeq(Excerpt(a, b), 1, c - a) = Excerpt(a, c)
<1>1. a <= a /\ a - a + 1 = 1  OBVIOUS
<1>2. SubSeq(Excerpt(a, b), a - a + 1, c - a) = Excerpt(a, c)
  BY <1>1, ExcerptCut, ZenonT(60)
<1> QED  BY <1>1, <1>2, Zenon

\* And so is what it ends with.
LEMMA ExcerptTail ==
  ASSUME NEW a \in Nat, NEW b \in Nat, NEW c \in Nat, a <= c, c <= b
  PROVE  SubSeq(Excerpt(a, b), c - a + 1, b - a) = Excerpt(c, b)
<1>1. b <= b  OBVIOUS
<1> QED  BY <1>1, ExcerptCut

\* The index after the new excerpt.
Rgt(m) == m.lft + Len(m.data)

\* What a round of the merging loop keeps true of the new excerpt, which began
\* as the bytes from first to next.
MergeStates(segs, first, next, a, P) ==
  {m \in [lft : Nat, data : Seq(Nat), absorbed : SUBSET DOMAIN segs, cached : BOOLEAN] :
     /\ a < m.lft /\ m.lft <= first /\ next <= Rgt(m) /\ Rgt(m) <= StreamLength
     /\ m.data = Excerpt(m.lft, Rgt(m)) /\ m.lft .. Rgt(m) - 1 \subseteq P
     /\ \A x \in m.absorbed : m.lft <= x /\ After(segs, x) <= Rgt(m)}

\* What a round does with the excerpt that is cached at k: nothing if they do
\* not touch, else it is absorbed, or holds all of the new one.
IsMerged(e, m, segs, k) ==
  \/ e = m /\ (After(segs, k) < m.lft \/ Rgt(m) < k)
  \/ /\ e.absorbed = m.absorbed \cup {k} /\ e.cached = m.cached
     /\ k <= Rgt(m) /\ m.lft <= After(segs, k)
     /\ e.lft = m.lft \/ e.lft = k
     /\ Rgt(m) <= Rgt(e) /\ Rgt(e) \in {Rgt(m), After(segs, k)}
  \/ /\ e.absorbed = m.absorbed /\ ~e.cached /\ e.lft = m.lft /\ Rgt(e) = Rgt(m)
     /\ k < m.lft /\ Rgt(m) <= After(segs, k)

\* The four ways in which two excerpts can touch: each of the branches of
\* merge_segments() leaves one excerpt that holds the bytes of both.
LEMMA MergeStep ==
  ASSUME NEW P, NEW segs, CacheOK(segs, P), NEW a \in Nat, \A k \in DOMAIN segs : k > a,
         NEW first \in Nat, NEW next \in Nat, first <= next, next <= StreamLength,
         NEW m \in MergeStates(segs, first, next, a, P), NEW k \in DOMAIN segs,
         NEW e, e = MergeWith(segs, m, k)
  PROVE  e \in MergeStates(segs, first, next, a, P) /\ IsMerged(e, m, segs, k)
<1> DEFINE l == m.lft
           r == Rgt(m)
           o == After(segs, k)
           old == segs[k]
<1>1. /\ m \in [lft : Nat, data : Seq(Nat), absorbed : SUBSET DOMAIN segs, cached : BOOLEAN]
      /\ a < l /\ l <= first /\ next <= r /\ r <= StreamLength
      /\ m.data = Excerpt(l, r) /\ l .. r - 1 \subseteq P
      /\ \A x \in m.absorbed : l <= x /\ After(segs, x) <= r
  BY DEF MergeStates
<1>2. /\ l \in Nat /\ m.data \in Seq(Nat) /\ m.absorbed \in SUBSET DOMAIN segs
      /\ m.cached \in BOOLEAN
      /\ m = [lft |-> l, data |-> m.data, absorbed |-> m.absorbed, cached |-> m.cached]
  BY <1>1
<1>3. Len(m.data) \in Nat  BY <1>2, LenProperties
<1>4. r \in Nat /\ l <= r  BY <1>2, <1>3 DEF Rgt
<1>5. /\ k \in Nat /\ o \in Nat /\ k <= o /\ old \in Seq(Nat) /\ k > a
      /\ \A x \in DOMAIN segs : x \in Nat /\ After(segs, x) \in Nat
  BY CacheFacts DEF CacheOK
<1>6. old = Excerpt(k, o) /\ o <= StreamLength /\ k .. o - 1 \subseteq P
  BY DEF CacheOK
<1>7. StreamLength \in Nat  BY LengthAssumption
<1> DEFINE C1 == l <= k /\ k <= r /\ o <= r
           C2 == l <= k /\ k <= r /\ r < o
           C3 == k < l /\ l <= o /\ r <= o
           C4 == k < l /\ l <= o /\ o < r
<1>8. e = CASE C1 -> [m EXCEPT !.absorbed = @ \cup {k}]
            [] C2 -> [m EXCEPT !.data = SubSeq(@, 1, k - l) \o old,
                               !.absorbed = @ \cup {k}]
            [] C3 -> [m EXCEPT !.cached = FALSE]
            [] C4 -> [m EXCEPT !.data = SubSeq(old, 1, l - k) \o @, !.lft = k,
                               !.absorbed = @ \cup {k}]
            [] OTHER -> m
  BY DEF MergeWith, After, Rgt
\* An excerpt that reaches further.
<1>9. ASSUME NEW lft \in Nat, NEW rgt \in Nat, lft \in {l, k}, rgt \in {r, o},
             lft <= l, r <= rgt, lft <= k, o <= rgt, k <= r, l <= o,
             NEW data, data = Excerpt(lft, rgt),
             e \in [lft : Nat, data : Seq(Nat), absorbed : SUBSET DOMAIN segs, cached : BOOLEAN],
             e.lft = lft, e.data = data, e.absorbed = m.absorbed \cup {k},
             e.cached = m.cached
      PROVE  e \in MergeStates(segs, first, next, a, P) /\ IsMerged(e, m, segs, k)
  <2>1. lft <= rgt  BY <1>4, <1>9
  <2>2. data \in Seq(Nat) /\ Len(data) = rgt - lft  BY <1>9, <2>1, ExcerptFacts
  <2>3. /\ e.lft = lft /\ e.data = data /\ e.absorbed = m.absorbed \cup {k}
        /\ e.cached = m.cached
    BY <1>9
  <2>4. Rgt(e) = rgt  BY <2>2, <2>3 DEF Rgt
  <2>5. a < lft /\ lft <= first /\ next <= rgt /\ rgt <= StreamLength
    <3> HIDE DEF l, r, o
    <3> QED  BY <1>1, <1>2, <1>4, <1>5, <1>6, <1>7, <1>9
  <2>6. lft .. rgt - 1 \subseteq P
    <3> HIDE DEF l, r, o
    <3>1. ASSUME NEW i \in lft .. rgt - 1 PROVE i \in l .. r - 1 \/ i \in k .. o - 1
      <4>1. i \in Int /\ lft <= i /\ i < rgt  BY <1>9
      <4>2. l <= i \/ k <= i  BY <1>9, <4>1
      <4>3. i < r \/ i < o  BY <1>9, <4>1
      <4>4. (l <= i /\ i < r) \/ (k <= i /\ i < o)
        BY <1>2, <1>4, <1>5, <1>9, <4>1, <4>2, <4>3
      <4> QED  BY <1>2, <1>4, <1>5, <4>1, <4>4
    <3> QED  BY <1>1, <1>6, <3>1
  <2>7. ASSUME NEW x \in e.absorbed PROVE lft <= x /\ After(segs, x) <= rgt
    <3>1. CASE x = k  BY <1>5, <1>9, <3>1
    <3>2. CASE x \in m.absorbed
      <4>1. l <= x /\ After(segs, x) <= r /\ x \in Nat /\ After(segs, x) \in Nat
        BY <1>1, <1>2, <1>5, <3>2
      <4> HIDE DEF l, r
      <4> QED  BY <1>2, <1>4, <1>9, <4>1
    <3> QED  BY <2>3, <3>1, <3>2
  <2>8. e \in MergeStates(segs, first, next, a, P)
    <3> HIDE DEF l, r, o
    <3> QED  BY <1>9, <2>3, <2>4, <2>5, <2>6, <2>7 DEF MergeStates
  <2>9. IsMerged(e, m, segs, k)  BY <1>9, <2>3, <2>4 DEF IsMerged
  <2> QED  BY <2>8, <2>9
<1> HIDE DEF l, r, o, old
<1>10. CASE C1
  <2>1. e = [m EXCEPT !.absorbed = @ \cup {k}]  BY <1>2, <1>4, <1>5, <1>8, <1>10
  <2>2. /\ e \in [lft : Nat, data : Seq(Nat), absorbed : SUBSET DOMAIN segs, cached : BOOLEAN]
        /\ e.lft = l /\ e.data = m.data /\ e.absorbed = m.absorbed \cup {k}
        /\ e.cached = m.cached
    BY <1>1, <2>1 DEF l
  <2>3. l <= l /\ r <= r /\ l <= o  BY <1>2, <1>4, <1>5, <1>10
  <2>4. m.data = Excerpt(l, r)  BY <1>1
  <2> QED  BY <1>2, <1>4, <1>9, <1>10, <2>2, <2>3, <2>4
<1>11. CASE C2
  <2>1. e = [m EXCEPT !.data = SubSeq(@, 1, k - l) \o old, !.absorbed = @ \cup {k}]
    BY <1>2, <1>4, <1>5, <1>8, <1>11
  <2>2. SubSeq(m.data, 1, k - l) = Excerpt(l, k)
    <3>1. SubSeq(Excerpt(l, r), 1, k - l) = Excerpt(l, k)
      BY <1>2, <1>4, <1>5, <1>11, ExcerptHead
    <3> QED  BY <1>1, <3>1
  <2>3. Excerpt(l, k) \o Excerpt(k, o) = Excerpt(l, o)
    BY <1>2, <1>5, <1>11, ExcerptJoins
  <2>4. e = [m EXCEPT !.data = Excerpt(l, o), !.absorbed = m.absorbed \cup {k}]
    BY <1>6, <2>1, <2>2, <2>3
  <2>5. l <= l /\ r <= o /\ l <= o /\ o <= o  BY <1>2, <1>4, <1>5, <1>11
  <2>6. Excerpt(l, o) \in Seq(Nat)  BY <1>2, <1>5, <2>5, ExcerptFacts
  <2>7. /\ e \in [lft : Nat, data : Seq(Nat), absorbed : SUBSET DOMAIN segs, cached : BOOLEAN]
        /\ e.lft = l /\ e.data = Excerpt(l, o) /\ e.absorbed = m.absorbed \cup {k}
        /\ e.cached = m.cached
    BY <1>1, <2>4, <2>6 DEF l
  <2> QED  BY <1>2, <1>5, <1>9, <1>11, <2>5, <2>7
<1>12. CASE C3
  <2>1. e = [m EXCEPT !.cached = FALSE]  BY <1>2, <1>4, <1>5, <1>8, <1>12
  <2>2. /\ e.lft = l /\ e.data = m.data /\ e.absorbed = m.absorbed /\ e.cached = FALSE
        /\ e \in [lft : Nat, data : Seq(Nat), absorbed : SUBSET DOMAIN segs,
                  cached : BOOLEAN]
    BY <1>1, <2>1 DEF l
  <2>3. Rgt(e) = r  BY <2>2 DEF Rgt, r, l
  <2>4. e \in MergeStates(segs, first, next, a, P)
    BY <1>1, <2>2, <2>3 DEF MergeStates
  <2>5. IsMerged(e, m, segs, k)  BY <1>12, <2>2, <2>3 DEF IsMerged, l, r, o
  <2> QED  BY <2>4, <2>5
<1>13. CASE C4
  <2>1. e = [m EXCEPT !.data = SubSeq(old, 1, l - k) \o @, !.lft = k,
                      !.absorbed = @ \cup {k}]
    BY <1>2, <1>4, <1>5, <1>8, <1>13
  <2>2. SubSeq(old, 1, l - k) = Excerpt(k, l)
    <3>1. SubSeq(Excerpt(k, o), 1, l - k) = Excerpt(k, l)
      BY <1>2, <1>4, <1>5, <1>13, ExcerptHead
    <3> QED  BY <1>6, <3>1
  <2>3. Excerpt(k, l) \o Excerpt(l, r) = Excerpt(k, r)
    <3>1. k <= l  BY <1>2, <1>5, <1>13
    <3> QED  BY <1>2, <1>4, <1>5, <3>1, ExcerptJoins
  <2>4. e = [m EXCEPT !.data = Excerpt(k, r), !.lft = k, !.absorbed = m.absorbed \cup {k}]
    BY <1>1, <2>1, <2>2, <2>3
  <2>5. k <= l /\ r <= r /\ k <= k /\ o <= r /\ k <= r  BY <1>2, <1>4, <1>5, <1>13
  <2>6. Excerpt(k, r) \in Seq(Nat)  BY <1>4, <1>5, <2>5, ExcerptFacts
  <2>7. /\ e \in [lft : Nat, data : Seq(Nat), absorbed : SUBSET DOMAIN segs, cached : BOOLEAN]
        /\ e.lft = k /\ e.data = Excerpt(k, r) /\ e.absorbed = m.absorbed \cup {k}
        /\ e.cached = m.cached
    <3> DEFINE x == Excerpt(k, r)
    <3>1. e = [m EXCEPT !.data = x, !.lft = k, !.absorbed = m.absorbed \cup {k}]  BY <2>4
    <3>2. x \in Seq(Nat)  BY <2>6
    <3>3. k \in Nat /\ k \in DOMAIN segs  BY <1>5
    <3> HIDE DEF x
    <3>4. /\ e \in [lft : Nat, data : Seq(Nat), absorbed : SUBSET DOMAIN segs, cached : BOOLEAN]
          /\ e.lft = k /\ e.data = x /\ e.absorbed = m.absorbed \cup {k}
          /\ e.cached = m.cached
      <4>1. m \in [lft : Nat, data : Seq(Nat), absorbed : SUBSET DOMAIN segs, cached : BOOLEAN]
        BY <1>1
      <4> QED  BY <3>1, <3>2, <3>3, <4>1
    <3> QED  BY <3>4 DEF x
  <2> QED  BY <1>4, <1>5, <1>9, <1>13, <2>5, <2>7
<1>14. CASE ~C1 /\ ~C2 /\ ~C3 /\ ~C4
  <2>1. e = m  BY <1>8, <1>14
  <2>2. o < l \/ r < k  BY <1>2, <1>4, <1>5, <1>14
  <2> QED  BY <2>1, <2>2 DEF IsMerged, l, r, o
<1> QED  BY <1>10, <1>11, <1>12, <1>13, <1>14

\* Where that loop starts.
LEMMA MergeBase ==
  ASSUME NEW P, NEW segs, NEW a \in Nat, NEW first \in Nat, NEW next \in Nat,
         a < first, first <= next, next <= StreamLength, first .. next - 1 \subseteq P
  PROVE  [lft |-> first, data |-> Excerpt(first, next), absorbed |-> {}, cached |-> TRUE]
           \in MergeStates(segs, first, next, a, P)
<1> DEFINE x == Excerpt(first, next)
           base == [lft |-> first, data |-> x, absorbed |-> {}, cached |-> TRUE]
<1>1. x \in Seq(Nat) /\ Len(x) = next - first  BY ExcerptFacts
<1>2. x = Excerpt(first, next)  OBVIOUS
<1> HIDE DEF x
<1>3. /\ base.lft = first /\ base.data = x /\ base.absorbed = {}
      /\ base \in [lft : Nat, data : Seq(Nat), absorbed : SUBSET DOMAIN segs,
                   cached : BOOLEAN]
  BY <1>1
<1> HIDE DEF base
<1>4. Rgt(base) = next  BY <1>1, <1>3 DEF Rgt
<1>5. /\ a < base.lft /\ base.lft <= first /\ next <= Rgt(base) /\ Rgt(base) <= StreamLength
      /\ base.data = Excerpt(base.lft, Rgt(base)) /\ base.lft .. Rgt(base) - 1 \subseteq P
      /\ \A y \in base.absorbed : base.lft <= y /\ After(segs, y) <= Rgt(base)
  BY <1>2, <1>3, <1>4
<1>6. base \in MergeStates(segs, first, next, a, P)  BY <1>3, <1>5 DEF MergeStates
<1> QED  BY <1>6 DEF base, x

\* The cache after the loop of merge_segments().
MergeResult(segs, m) ==
  LET rest == Without(segs, m.absorbed)
  IN  IF m.cached
      THEN [k \in DOMAIN rest \cup {m.lft} |-> IF k = m.lft THEN m.data ELSE rest[k]]
      ELSE rest

\* The rounds of that loop, with values in V.
IsMergeLoop(f, segs, index, data, keys, n, V) ==
  /\ f \in [0 .. n -> V]
  /\ f[0] = [lft |-> index, data |-> data, absorbed |-> {}, cached |-> TRUE]
  /\ MergeSegments(segs, index, data) = MergeResult(segs, f[n])
  /\ \A k \in 1 .. n : f[k] = MergeWith(segs, f[k - 1], keys[k])

\* The fold over the cached excerpts is that loop, if no round leaves V.
LEMMA MergeIsLoop ==
  ASSUME NEW segs, NEW index, NEW data, NEW V,
         [lft |-> index, data |-> data, absorbed |-> {}, cached |-> TRUE] \in V,
         \A m \in V : \A k \in DOMAIN segs : MergeWith(segs, m, k) \in V,
         NEW keys, keys = Keys(segs), NEW n \in Nat, keys \in [1 .. n -> DOMAIN segs]
  PROVE  \E f : IsMergeLoop(f, segs, index, data, keys, n, V)
<1> DEFINE base == [lft |-> index, data |-> data, absorbed |-> {}, cached |-> TRUE]
           step == [p \in (1 .. n) \X V |-> MergeWith(segs, p[2], keys[p[1]])]
           IsIter(g) == g = [s \in SUBSET (1 .. n) |->
                          IF s = {} THEN base
                          ELSE MergeWith(segs, g[s \ {Max(s)}], keys[Max(s)])]
           d == (CHOOSE g : IsIter(g))[1 .. n]
<1>1. base \in V  OBVIOUS
<1>2. step \in [(1 .. n) \X V -> V]
  <2>1. ASSUME NEW e \in V, NEW k \in 1 .. n PROVE MergeWith(segs, e, keys[k]) \in V
    <3>1. keys[k] \in DOMAIN segs  OBVIOUS
    <3> QED  BY <3>1
  <2> QED  BY <2>1
<1>3. MergeSegments(segs, index, data) = MergeResult(segs, d)
  <2>1. DOMAIN keys = 1 .. n  OBVIOUS
  <2> QED  BY <2>1 DEF MergeSegments, MergeResult, FoldLeft, MapThenFoldSet
<1> HIDE DEF base
<1>4. PICK h \in [SUBSET (1 .. n) -> V] : IsIteration(n, V, base, step, h)
  <2> HIDE DEF step
  <2> QED  BY <1>1, <1>2, IterationExists
<1>5. IsIter(h)
  <2>1. \A s \in SUBSET (1 .. n) :
          h[s] = IF s = {} THEN base ELSE MergeWith(segs, h[s \ {Max(s)}], keys[Max(s)])
    <3> TAKE s \in SUBSET (1 .. n)
    <3>1. CASE s = {}  BY <1>4, <3>1 DEF IsIteration
    <3>2. CASE s # {}
      <4> DEFINE m == Max(s)
      <4>1. m \in s /\ \A x \in s : x <= m  BY <3>2, MaxIsGreatest
      <4> HIDE DEF m
      <4>2. m \in 1 .. n /\ h[s \ {m}] \in V  BY <1>4, <4>1
      <4>3. h[s] = step[m, h[s \ {m}]]  BY <1>4, <4>1, <4>2 DEF IsIteration
      <4> QED  BY <3>2, <4>2, <4>3 DEF m
    <3> QED  BY <3>1, <3>2
  <2> QED  BY <1>4, <2>1
<1> DEFINE g == CHOOSE g : IsIter(g)
<1>6. IsIter(g) /\ d = g[1 .. n]  BY <1>5
<1> HIDE DEF g, d
<1>7. g[{}] = base
  <2>1. {} \in SUBSET (1 .. n)  OBVIOUS
  <2> QED  BY <1>6, <2>1
<1>8. ASSUME NEW s \in SUBSET (1 .. n), NEW m \in s, \A x \in s : x <= m,
             g[s \ {m}] \in V
      PROVE  g[s] = step[m, g[s \ {m}]]
  <2>1. Max(s) = m
    <3> DEFINE x == Max(s)
    <3>1. x \in s /\ m <= x /\ x <= m  BY <1>8, MaxIsGreatest
    <3>2. x \in 1 .. n /\ m \in 1 .. n  BY <3>1
    <3> HIDE DEF x
    <3> QED  BY <3>1, <3>2 DEF x
  <2>2. g[s] = MergeWith(segs, g[s \ {m}], keys[m])  BY <1>6, <2>1
  <2> QED  BY <1>8, <2>2
<1> HIDE DEF step, IsIter
<1>9. IsIteration(n, V, base, step, g)  BY <1>7, <1>8 DEF IsIteration
<1>10. PICK f : IsLoop(n, V, base, step, f, g[1 .. n])
  BY <1>1, <1>2, <1>9, IterationIsLoop
<1>11. f \in [0 .. n -> V] /\ f[0] = base /\ f[n] = d
       /\ \A k \in 1 .. n : f[k] = step[k, f[k - 1]]
  BY <1>6, <1>10 DEF IsLoop
<1>12. \A k \in 1 .. n : f[k] = MergeWith(segs, f[k - 1], keys[k])
  <2> TAKE k \in 1 .. n
  <2>1. k - 1 \in 0 .. n  OBVIOUS
  <2>2. f[k - 1] \in V  BY <1>11, <2>1
  <2> QED  BY <1>11, <2>2 DEF step
<1>13. MergeSegments(segs, index, data) = MergeResult(segs, f[n])  BY <1>3, <1>11, Zenon
<1>14. IsMergeLoop(f, segs, index, data, keys, n, V)
  BY <1>11, <1>12, <1>13, Zenon DEF base, IsMergeLoop
<1> QED  BY <1>14, Zenon

\* Merging loses no byte, keeps no two excerpts that touch, and caches nothing
\* that is due.
LEMMA MergeFacts ==
  ASSUME NEW P, NEW segs, CacheOK(segs, P), NEW a \in Nat, \A k \in DOMAIN segs : k > a,
         NEW first \in Nat, NEW next \in Nat, a < first, first <= next,
         next <= StreamLength, first .. next - 1 \subseteq P,
         NEW t, t = MergeSegments(segs, first, Excerpt(first, next))
  PROVE  /\ CacheOK(t, P) /\ \A k \in DOMAIN t : k > a
         /\ \A x \in DOMAIN segs : \E y \in DOMAIN t : y <= x /\ After(segs, x) <= After(t, y)
<1> DEFINE D == DOMAIN segs
           keys == Keys(segs)
           n == Cardinality(D)
           V == MergeStates(segs, first, next, a, P)
<1>1. /\ segs \in Caches /\ D \in SUBSET (1 .. StreamLength) /\ StreamLength \in Nat
      /\ \A x \in D : x \in Nat /\ After(segs, x) \in Nat /\ x <= After(segs, x)
  BY CacheFacts, LengthAssumption DEF CacheOK
<1>2. IsAscending(keys, D) /\ n \in Nat  BY <1>1, AscendingLists DEF Keys
<1>3. \A x \in D : \E j \in 1 .. n : keys[j] = x
  <2>1. D \in SUBSET Int  BY <1>1
  <2>2. IsFiniteSet(1 .. StreamLength)  BY <1>1, FS_Interval
  <2>3. IsFiniteSet(D)  BY <1>1, <2>2, FS_Subset
  <2> HIDE DEF D, keys
  <2> QED  BY <1>2, <2>1, <2>3, AscendingIsOnto
<1>4. keys \in [1 .. n -> D] /\ \A j, k \in 1 .. n : j < k => keys[j] < keys[k]
  BY <1>2 DEF IsAscending
<1>5. PICK f : IsMergeLoop(f, segs, first, Excerpt(first, next), keys, n, V)
  <2>1. keys = Keys(segs) /\ keys \in [1 .. n -> DOMAIN segs] /\ n \in Nat
    BY <1>2, <1>4
  <2>2. [lft |-> first, data |-> Excerpt(first, next), absorbed |-> {}, cached |-> TRUE] \in V
    BY MergeBase
  <2>3. \A m \in V : \A k \in DOMAIN segs : MergeWith(segs, m, k) \in V
    BY MergeStep, Zenon
  <2> HIDE DEF keys, n, V
  <2> QED  BY <2>1, <2>2, <2>3, MergeIsLoop, Zenon
<1>6. /\ f \in [0 .. n -> V] /\ t = MergeResult(segs, f[n])
      /\ f[0] = [lft |-> first, data |-> Excerpt(first, next), absorbed |-> {},
                 cached |-> TRUE]
      /\ \A k \in 1 .. n : f[k] = MergeWith(segs, f[k - 1], keys[k])
  BY <1>5 DEF IsMergeLoop
<1> HIDE DEF keys, n, V
\* After round k ...
<1> DEFINE Met(m, k) == {keys[j] : j \in 1 .. k}
           OK(m, k) ==
             /\ m.absorbed \subseteq Met(m, k)
             /\ m.cached => \A x \in Met(m, k) :
                  x \in m.absorbed \/ After(segs, x) < m.lft \/ Rgt(m) < x
             /\ ~m.cached => /\ m.absorbed = {}
                             /\ \E x \in Met(m, k) : Rgt(m) <= After(segs, x)
           Fails == {k \in Nat : k <= n /\ ~OK(f[k], k)}
<1>7. \A x, y \in D : x < y => After(segs, x) < y
  <2> TAKE x, y \in D
  <2>1. y > x => y > After(segs, x)  BY DEF CacheOK
  <2> QED  BY <1>1, <2>1
<1>8. ASSUME NEW m \in V
      PROVE  /\ m \in [lft : Nat, data : Seq(Nat), absorbed : SUBSET D, cached : BOOLEAN]
             /\ m.lft \in Nat /\ Rgt(m) \in Nat /\ m.lft <= Rgt(m) /\ m.cached \in BOOLEAN
             /\ a < m.lft /\ Rgt(m) <= StreamLength /\ m.absorbed \in SUBSET D
             /\ m.data \in Seq(Nat) /\ m.data = Excerpt(m.lft, Rgt(m))
             /\ m.lft .. Rgt(m) - 1 \subseteq P
             /\ \A x \in m.absorbed : m.lft <= x /\ After(segs, x) <= Rgt(m)
  <2>1. /\ m \in [lft : Nat, data : Seq(Nat), absorbed : SUBSET D, cached : BOOLEAN]
        /\ a < m.lft /\ Rgt(m) <= StreamLength
        /\ m.data = Excerpt(m.lft, Rgt(m)) /\ m.lft .. Rgt(m) - 1 \subseteq P
        /\ \A x \in m.absorbed : m.lft <= x /\ After(segs, x) <= Rgt(m)
    BY DEF V, MergeStates
  <2>2. m.lft \in Nat /\ m.data \in Seq(Nat) /\ m.absorbed \in SUBSET D /\ m.cached \in BOOLEAN
    BY <2>1
  <2>3. Len(m.data) \in Nat  BY <2>2, LenProperties
  <2>4. Rgt(m) \in Nat /\ m.lft <= Rgt(m)  BY <2>2, <2>3 DEF Rgt
  <2> HIDE DEF V, D
  <2> QED  BY <2>1, <2>2, <2>4
<1>9. Fails = {}
  <2> SUFFICES ASSUME Fails # {} PROVE FALSE  OBVIOUS
  <2>1. PICK k \in Fails : \A j \in Fails : k <= j  BY LeastExists
  <2>2. k # 0
    <3> SUFFICES ASSUME k = 0 PROVE FALSE  OBVIOUS
    <3>1. f[k].absorbed = {} /\ f[k].cached = TRUE  BY <1>6
    <3>2. Met(f[k], k) = {}  OBVIOUS
    <3> QED  BY <2>1, <3>1, <3>2
  <2>3. k \in 1 .. n /\ k - 1 \in 0 .. n /\ k \in 0 .. n /\ ~(k <= k - 1) /\ k - 1 \in Nat
        /\ k - 1 <= n
    BY <1>2, <2>1, <2>2
  <2> DEFINE m == f[k - 1]
             e == f[k]
             y == keys[k]
             M == {keys[j] : j \in 1 .. k - 1}
             N == {keys[j] : j \in 1 .. k}
  <2>4. OK(m, k - 1)
    <3>1. k - 1 \notin Fails  BY <2>1, <2>3
    <3> QED  BY <2>3, <3>1
  <2>5. m \in V /\ e \in V /\ e = MergeWith(segs, m, y) /\ y \in D  BY <1>4, <1>6, <2>3
  <2>6. N = M \cup {y} /\ M \in SUBSET D /\ \A x \in M : x < y
    <3>1. \A j \in 1 .. k : j = k \/ j \in 1 .. k - 1  BY <2>3
    <3>2. \A j \in 1 .. k - 1 : j \in 1 .. k /\ j \in 1 .. n /\ j < k  BY <1>2, <2>3
    <3>3. \A j \in 1 .. k - 1 : keys[j] < y /\ keys[j] \in D  BY <1>4, <2>3, <3>2
    <3>4. k \in 1 .. k  BY <2>3
    <3> QED  BY <3>1, <3>2, <3>3, <3>4
  <2>7. /\ m.absorbed \subseteq M
        /\ m.cached => \A x \in M :
             x \in m.absorbed \/ After(segs, x) < m.lft \/ Rgt(m) < x
        /\ ~m.cached => m.absorbed = {} /\ \E x \in M : Rgt(m) <= After(segs, x)
    BY <2>4
  <2>8. ~( /\ e.absorbed \subseteq N
           /\ e.cached => \A x \in N :
                x \in e.absorbed \/ After(segs, x) < e.lft \/ Rgt(e) < x
           /\ ~e.cached => e.absorbed = {} /\ \E x \in N : Rgt(e) <= After(segs, x))
    BY <2>1
  <2>9. IsMerged(e, m, segs, y)
    <3> HIDE DEF m, e, y
    <3> QED  BY <2>5, MergeStep DEF V
  <2>10. /\ m.lft \in Nat /\ Rgt(m) \in Nat /\ m.lft <= Rgt(m) /\ m.cached \in BOOLEAN
         /\ m.absorbed \in SUBSET D /\ \A x \in m.absorbed : m.lft <= x
    BY <1>8, <2>5
  <2>11. e.lft \in Nat /\ Rgt(e) \in Nat /\ e.lft <= Rgt(e)  BY <1>8, <2>5
  <2>12. y \in Nat /\ After(segs, y) \in Nat /\ y <= After(segs, y)  BY <1>1, <2>5
  <2>13. \A x \in M : x \in Nat /\ After(segs, x) \in Nat /\ After(segs, x) < y /\ x < y
    BY <1>1, <1>7, <2>5, <2>6
  <2>14. ~m.cached => Rgt(m) < y
    <3> SUFFICES ASSUME ~m.cached PROVE Rgt(m) < y  OBVIOUS
    <3>1. PICK x \in M : Rgt(m) <= After(segs, x)  BY <2>7
    <3>2. After(segs, x) \in Nat /\ After(segs, x) < y  BY <2>13
    <3> HIDE DEF m, y, M, D
    <3> QED  BY <2>10, <2>12, <3>1, <3>2
  <2> HIDE DEF OK, m, e, y, M, N, D, Met
  <2>15. CASE e = m /\ (After(segs, y) < m.lft \/ Rgt(m) < y)
    BY <2>6, <2>7, <2>8, <2>15
  <2>16. CASE /\ e.absorbed = m.absorbed \cup {y} /\ e.cached = m.cached
              /\ y <= Rgt(m) /\ m.lft <= After(segs, y)
              /\ e.lft = m.lft \/ e.lft = y
              /\ Rgt(m) <= Rgt(e) /\ Rgt(e) \in {Rgt(m), After(segs, y)}
    <3>1. m.cached  BY <2>10, <2>12, <2>14, <2>16
    <3>2. ASSUME NEW x \in M
          PROVE  x \in e.absorbed \/ After(segs, x) < e.lft
      <4>1. CASE x \in m.absorbed  BY <2>16, <4>1
      <4>2. CASE After(segs, x) < m.lft
        <5>1. After(segs, x) < y  BY <2>13
        <5> QED  BY <2>16, <4>2, <5>1
      <4>3. CASE Rgt(m) < x
        <5>1. x \in Nat /\ x < y  BY <2>13
        <5> QED  BY <2>10, <2>12, <2>16, <4>3, <5>1
      <4> QED  BY <2>7, <3>1, <4>1, <4>2, <4>3
    <3>3. e.absorbed \subseteq N  BY <2>6, <2>7, <2>16
    <3>4. \A x \in N : x \in e.absorbed \/ After(segs, x) < e.lft
      BY <2>6, <2>16, <3>2
    <3> QED  BY <2>8, <2>16, <3>1, <3>3, <3>4
  <2>17. CASE /\ e.absorbed = m.absorbed /\ ~e.cached /\ e.lft = m.lft /\ Rgt(e) = Rgt(m)
              /\ y < m.lft /\ Rgt(m) <= After(segs, y)
    <3>1. m.absorbed = {}
      <4> SUFFICES ASSUME NEW x \in m.absorbed PROVE FALSE  OBVIOUS
      <4>1. x \in M /\ m.lft <= x  BY <2>7, <2>10
      <4>2. x \in Nat /\ x < y  BY <2>13, <4>1
      <4> QED  BY <2>10, <2>12, <2>17, <4>1, <4>2
    <3> QED  BY <2>6, <2>8, <2>17, <3>1
  <2> QED  BY <2>9, <2>15, <2>16, <2>17 DEF IsMerged
<1>10. OK(f[n], n)
  <2>1. n \in Nat /\ n <= n /\ n \notin Fails  BY <1>2, <1>9
  <2> QED  BY <2>1
<1> DEFINE m == f[n]
<1>11. m \in V
  <2>1. n \in 0 .. n  BY <1>2
  <2> QED  BY <1>6, <2>1
<1>12. {keys[j] : j \in 1 .. n} = D  BY <1>3, <1>4
<1>13. /\ m.cached => \A x \in D :
            x \in m.absorbed \/ After(segs, x) < m.lft \/ Rgt(m) < x
       /\ ~m.cached => m.absorbed = {}
  BY <1>10, <1>12
<1>14. t = MergeResult(segs, m)  BY <1>6
<1> HIDE DEF m, OK, Met
<1>15. CASE ~m.cached
  <2>1. t = [x \in D |-> segs[x]]
    <3>1. D \ {} = D  OBVIOUS
    <3> HIDE DEF D
    <3> QED  BY <1>13, <1>14, <1>15, <3>1 DEF MergeResult, Without, Restrict, D
  <2>2. t = segs
    <3>1. segs \in [D -> Seq(Nat)]  BY <1>1, CacheFacts
    <3> QED  BY <2>1, <3>1
  <2>3. \A x \in D : x <= x /\ After(segs, x) <= After(segs, x)  BY <1>1
  <2> QED  BY <2>2, <2>3
<1>16. CASE m.cached
  <2> DEFINE E == D \ m.absorbed
             l == m.lft
             r == Rgt(m)
  <2>1. /\ l \in Nat /\ r \in Nat /\ l <= r /\ a < l /\ r <= StreamLength
        /\ m.data \in Seq(Nat) /\ m.data = Excerpt(l, r) /\ l .. r - 1 \subseteq P
        /\ \A x \in m.absorbed : x \in D /\ l <= x /\ After(segs, x) <= r
    BY <1>8, <1>11
  <2>2. t = [k \in E \cup {l} |-> IF k = l THEN m.data ELSE [x \in E |-> segs[x]][k]]
    BY <1>14, <1>16 DEF MergeResult, Without, Restrict
  <2>3. \A x \in E : x \in D /\ (After(segs, x) < l \/ r < x) /\ x # l
    <3> SUFFICES ASSUME NEW x \in E PROVE x \in D /\ (After(segs, x) < l \/ r < x) /\ x # l
      OBVIOUS
    <3>1. x \in D /\ (After(segs, x) < l \/ r < x)  BY <1>13, <1>16
    <3>2. x \in Nat /\ After(segs, x) \in Nat /\ x <= After(segs, x)  BY <1>1, <3>1
    <3> HIDE DEF l, r
    <3> QED  BY <2>1, <3>1, <3>2
  <2> HIDE DEF l, r
  <2>4. DOMAIN t = E \cup {l} /\ t[l] = m.data /\ \A x \in E : t[x] = segs[x]
    BY <2>2, <2>3
  <2>5. \A x \in DOMAIN t : x = l \/ x \in E  BY <2>4
  <2> HIDE DEF E
  <2>6. \A x \in E : segs[x] \in Seq(Nat) /\ x \in 1 .. StreamLength
    <3>1. \A x \in D : segs[x] \in Seq(Nat) /\ x \in 1 .. StreamLength
      BY <1>1, CacheFacts
    <3> HIDE DEF D
    <3> QED  BY <2>3, <3>1
  <2>7. t \in Caches
    <3>1. E \cup {l} \in SUBSET (1 .. StreamLength)  BY <1>1, <2>1, <2>6
    <3>2. \A x \in E \cup {l} : t[x] \in Seq(Nat)  BY <2>1, <2>4, <2>6
    <3>3. t \in [E \cup {l} -> Seq(Nat)]  BY <2>2, <2>4, <3>2
    <3> QED  BY <3>1, <3>3 DEF Caches
  <2>8. After(t, l) = r  BY <2>4 DEF After, l, r, Rgt
  <2>9. \A x \in E : After(t, x) = After(segs, x)  BY <2>4 DEF After
  <2>10. ASSUME NEW x \in E
         PROVE  /\ t[x] = Excerpt(x, After(t, x)) /\ After(t, x) <= StreamLength
                /\ x .. After(t, x) - 1 \subseteq P
                /\ \A j \in E : j > x => j > After(t, x)
    BY <2>3, <2>4, <2>9 DEF CacheOK
  <2>11. CacheOK(t, P)
    <3> SUFFICES ASSUME NEW k \in DOMAIN t
                 PROVE  /\ t[k] = Excerpt(k, After(t, k)) /\ After(t, k) <= StreamLength
                        /\ k .. After(t, k) - 1 \subseteq P
                        /\ \A j \in DOMAIN t : j > k => j > After(t, k)
      BY <2>7 DEF CacheOK
    <3>1. CASE k = l
      <4>1. ASSUME NEW j \in E, j > l PROVE j > r
        <5>1. (After(segs, j) < l \/ r < j) /\ j \in Nat /\ After(segs, j) \in Nat
              /\ j <= After(segs, j)
          BY <1>1, <2>3
        <5> QED  BY <2>1, <4>1, <5>1
      <4>2. ~(l > l)  BY <2>1
      <4>3. \A j \in DOMAIN t : j > l => j > r  BY <2>5, <4>1, <4>2
      <4> QED  BY <2>1, <2>4, <2>8, <3>1, <4>3
    <3>2. CASE k \in E
      <4>1. l > k => l > After(t, k)
        <5>1. (After(segs, k) < l \/ r < k) /\ k \in Nat /\ After(segs, k) \in Nat
          BY <1>1, <2>3, <3>2
        <5> QED  BY <2>1, <2>9, <3>2, <5>1
      <4> QED  BY <2>5, <2>10, <3>2, <4>1
    <3> QED  BY <2>5, <3>1, <3>2
  <2>12. \A k \in DOMAIN t : k > a
    <3>1. l > a  BY <2>1
    <3> QED  BY <2>3, <2>5, <3>1
  <2>13. ASSUME NEW x \in D
         PROVE  \E y \in DOMAIN t : y <= x /\ After(segs, x) <= After(t, y)
    <3>1. CASE x \in m.absorbed
      <4>1. l \in DOMAIN t /\ l <= x /\ After(segs, x) <= After(t, l)
        BY <2>1, <2>4, <2>8, <3>1
      <4> QED  BY <4>1
    <3>2. CASE x \notin m.absorbed
      <4>1. x \in E  BY <3>2 DEF E
      <4>2. x <= x /\ After(segs, x) <= After(segs, x)  BY <1>1
      <4> QED  BY <2>4, <2>9, <4>1, <4>2
    <3> QED  BY <3>1, <3>2
  <2> QED  BY <2>11, <2>12, <2>13
<1> QED  BY <1>15, <1>16

\* More pushed bytes do no harm to the output,
LEMMA StreamOKWithMore ==
  ASSUME NEW P, NEW Q, P \subseteq Q, NEW out, NEW a, StreamOK(out, a, P)
  PROVE  StreamOK(out, a, Q)
  BY DEF StreamOK

\* nor to the cache.
LEMMA CacheOKWithMore ==
  ASSUME NEW P, NEW Q, P \subseteq Q, NEW segs, CacheOK(segs, P)
  PROVE  CacheOK(segs, Q)
<1> SUFFICES ASSUME NEW k \in DOMAIN segs PROVE k .. After(segs, k) - 1 \subseteq Q
  BY DEF CacheOK
<1> QED  BY DEF CacheOK

\* Nothing is cached, so no byte waits.
LEMMA NothingWaits ==
  ASSUME NEW r, DOMAIN r.segments = {}
  PROVE  UnassembledBytes(r) = 0
<1> DEFINE keys == Keys(r.segments)
<1>1. keys \in [1 .. 0 -> {}]
  <2>1. {} \in SUBSET (1 .. 0)  OBVIOUS
  <2>2. IsAscending(Ascending({}), {})  BY <2>1, AscendingLists
  <2>3. Cardinality({}) = 0  BY FS_EmptySet
  <2> QED  BY <2>2, <2>3 DEF Keys, IsAscending
<1>2. DOMAIN keys = {} /\ 1 .. 0 = {}  BY <1>1
<1> HIDE DEF keys
<1> DEFINE IsIter(g) == g = [s \in SUBSET {} |->
             IF s = {} THEN 0 ELSE g[s \ {Max(s)}] + Len(r.segments[keys[Max(s)]])]
<1>3. UnassembledBytes(r) = (CHOOSE g : IsIter(g))[{}]
  BY <1>2 DEF UnassembledBytes, FoldLeft, MapThenFoldSet, keys
<1>4. \E g : IsIter(g)
  <2> DEFINE g == [s \in SUBSET {} |-> 0]
  <2>1. \A s \in SUBSET {} : s = {}  OBVIOUS
  <2>2. IsIter(g)  BY <2>1
  <2> QED  BY <2>2
<1> DEFINE h == CHOOSE g : IsIter(g)
<1>5. IsIter(h)  BY <1>4
<1> HIDE DEF h
<1>6. h[{}] = 0  BY <1>5
<1> QED  BY <1>3, <1>6 DEF h

\* A reassembler whose output may have to be ended.
Consistent(r, P) ==
  /\ r \in Reassembler /\ P \subseteq 0 .. StreamLength - 1
  /\ StreamOK(r.output, r.assemble_idx, P)
  /\ CacheOK(r.segments, P)
  /\ \A k \in DOMAIN r.segments : k > r.assemble_idx
  /\ r.eof_idx \in {NoEof, StreamLength}
  /\ r.output.ended => r.assemble_idx = StreamLength /\ r.eof_idx = StreamLength

\* The inductive invariant, of a reassembler and the bytes pushed into it.
ReassemblerOK(r, P) ==
  /\ Consistent(r, P)
  /\ r.assemble_idx = StreamLength /\ r.eof_idx = StreamLength => r.output.ended

\* Every byte cached in r is cached in q, or assembled there, or q is full.
KeepsBytes(r, q) ==
  \A k \in DOMAIN r.segments : \A i \in k .. After(r.segments, k) - 1 :
    \/ \E j \in DOMAIN q.segments : i \in j .. After(q.segments, j) - 1
    \/ i \in 0 .. q.assemble_idx - 1
    \/ Full(q.output)

\* The invariant holds with more pushed bytes.
LEMMA ReassemblerOKWithMore ==
  ASSUME NEW P, NEW Q, P \subseteq Q, Q \subseteq 0 .. StreamLength - 1,
         NEW r, ReassemblerOK(r, P)
  PROVE  ReassemblerOK(r, Q)
  BY StreamOKWithMore, CacheOKWithMore DEF ReassemblerOK, Consistent

\* The output moves on from r to q, and nobody reads it.
Advances(r, q) ==
  /\ q.output.read = r.output.read /\ q.output.written >= r.output.written
  /\ r.output.ended => q.output.ended

\* The end of the input changes nothing of the output but that it has ended.
LEMMA EndFacts ==
  ASSUME NEW P, NEW r \in Reassembler, StreamOK(r.output, r.assemble_idx, P),
         NEW q, q = EndIfComplete(r)
  PROVE  /\ q \in Reassembler /\ StreamOK(q.output, q.assemble_idx, P)
         /\ q.assemble_idx = r.assemble_idx /\ q.eof_idx = r.eof_idx
         /\ q.segments = r.segments /\ q.output.read = r.output.read
         /\ Full(q.output) <=> Full(r.output)
         /\ q.output.ended <=>
              \/ r.output.ended
              \/ UnassembledBytes(r) = 0 /\ r.assemble_idx = r.eof_idx
<1> DEFINE o == StreamEnd(r.output)
           Done == UnassembledBytes(r) = 0 /\ r.assemble_idx = r.eof_idx
<1>1. q = IF Done THEN [r EXCEPT !.output = o] ELSE r  BY DEF EndIfComplete
<1>2. /\ r.output \in Stream /\ r.output.written = r.assemble_idx
      /\ r.output.read <= r.assemble_idx
      /\ r.assemble_idx - r.output.read <= RecvCapacity
      /\ r.output.buffer = Excerpt(r.output.read, r.assemble_idx)
      /\ r.assemble_idx \in 0 .. StreamLength /\ 0 .. r.assemble_idx - 1 \subseteq P
  BY DEF StreamOK
<1>3. /\ o \in Stream /\ o.ended = TRUE /\ o.written = r.output.written
      /\ o.read = r.output.read /\ o.buffer = r.output.buffer
  BY <1>2 DEF StreamEnd, Stream
<1>4. r.output.ended \in BOOLEAN  BY <1>2 DEF Stream
<1> HIDE DEF o, Done
<1>5. StreamOK(o, r.assemble_idx, P)  BY <1>2, <1>3 DEF StreamOK
<1>6. Full(o) <=> Full(r.output)  BY <1>3 DEF Full
<1>7. CASE Done
  <2>1. q = [r EXCEPT !.output = o]  BY <1>1, <1>7
  <2>2. /\ q \in Reassembler /\ q.output = o /\ q.assemble_idx = r.assemble_idx
        /\ q.eof_idx = r.eof_idx /\ q.segments = r.segments
    BY <1>3, <2>1 DEF Reassembler
  <2> QED  BY <1>3, <1>5, <1>6, <1>7, <2>2 DEF Done
<1>8. CASE ~Done
  <2>1. q = r  BY <1>1, <1>8
  <2> QED  BY <1>8, <1>4, <2>1 DEF Done
<1> QED  BY <1>7, <1>8

\* An excerpt that is due: it is written, what follows it in the cache too, and
\* the output ends with the last byte.
LEMMA DueKeeps ==
  ASSUME NEW P, NEW r, Consistent(r, P), NEW first \in Nat, NEW next \in Nat,
         first <= r.assemble_idx, r.assemble_idx <= next, next <= StreamLength,
         first .. next - 1 \subseteq P,
         NEW q, q = EndIfComplete(Drain(Assemble(r, first, Excerpt(first, next))))
  PROVE  /\ ReassemblerOK(q, P) /\ KeepsBytes(r, q)
         /\ Advances(r, q) /\ q.eof_idx = r.eof_idx
<1> DEFINE b == Assemble(r, first, Excerpt(first, next))
           c == Drain(b)
<1>1. /\ r \in Reassembler /\ P \subseteq 0 .. StreamLength - 1
      /\ StreamOK(r.output, r.assemble_idx, P) /\ CacheOK(r.segments, P)
      /\ \A k \in DOMAIN r.segments : k > r.assemble_idx
      /\ r.eof_idx \in {NoEof, StreamLength}
      /\ r.output.ended => r.assemble_idx = StreamLength /\ r.eof_idx = StreamLength
  BY DEF Consistent
<1>2. q = EndIfComplete(c)  OBVIOUS
<1> HIDE DEF b
<1>3. /\ b \in Reassembler /\ StreamOK(b.output, b.assemble_idx, P)
      /\ b.assemble_idx \in r.assemble_idx .. next
      /\ b.eof_idx = r.eof_idx /\ b.segments = r.segments
      /\ b.output.ended = r.output.ended /\ b.output.read = r.output.read
  <2>1. IsAssembled(b, r, next, P)
    <3>1. b = Assemble(r, first, Excerpt(first, next))  BY DEF b
    <3> QED  BY <1>1, <3>1, AssembleFacts, Zenon
  <2> QED  BY <2>1 DEF IsAssembled
<1> HIDE DEF c
<1>4. CacheOK(b.segments, P)  BY <1>1, <1>3
<1>5. /\ c \in Reassembler /\ CacheOK(c.segments, P)
      /\ StreamOK(c.output, c.assemble_idx, P)
      /\ c.eof_idx = b.eof_idx /\ c.output.ended = b.output.ended
      /\ b.assemble_idx <= c.assemble_idx /\ c.output.read = b.output.read
      /\ \A k \in DOMAIN c.segments : k > c.assemble_idx
      /\ \A k \in DOMAIN b.segments :
           \/ k \in DOMAIN c.segments /\ c.segments[k] = b.segments[k]
           \/ b.segments[k] = <<>>
           \/ After(b.segments, k) <= c.assemble_idx
           \/ Full(c.output)
  BY <1>3, <1>4, DrainFacts DEF c
<1>6. /\ q \in Reassembler /\ StreamOK(q.output, q.assemble_idx, P)
      /\ q.assemble_idx = c.assemble_idx /\ q.eof_idx = c.eof_idx
      /\ q.segments = c.segments /\ q.output.read = c.output.read
      /\ Full(q.output) <=> Full(c.output)
      /\ q.output.ended <=>
           \/ c.output.ended
           \/ UnassembledBytes(c) = 0 /\ c.assemble_idx = c.eof_idx
  BY <1>2, <1>5, EndFacts
<1>7. /\ r.assemble_idx \in Nat /\ b.assemble_idx \in Nat /\ c.assemble_idx \in Nat
      /\ r.assemble_idx <= c.assemble_idx /\ c.assemble_idx <= StreamLength
      /\ StreamLength \in Nat
  <2>1. StreamLength \in Nat  BY LengthAssumption
  <2>2. r.assemble_idx \in Nat /\ b.assemble_idx \in Nat /\ c.assemble_idx \in Nat
    BY <1>1, <1>3, <1>5 DEF Reassembler
  <2>3. c.assemble_idx \in 0 .. StreamLength  BY <1>5 DEF StreamOK
  <2> QED  BY <1>3, <1>5, <2>1, <2>2, <2>3
<1>8. c.assemble_idx = StreamLength => UnassembledBytes(c) = 0
  <2> SUFFICES ASSUME c.assemble_idx = StreamLength PROVE UnassembledBytes(c) = 0
    OBVIOUS
  <2>1. DOMAIN c.segments \in SUBSET (1 .. StreamLength)
    <3>1. c.segments \in Caches  BY <1>5 DEF Reassembler
    <3> QED  BY <3>1, CacheFacts
  <2>2. DOMAIN c.segments = {}
    <3> SUFFICES ASSUME NEW k \in DOMAIN c.segments PROVE FALSE  OBVIOUS
    <3>1. k \in 1 .. StreamLength /\ k > StreamLength  BY <1>5, <2>1
    <3> QED  BY <1>7, <3>1
  <2> QED  BY <2>2, NothingWaits
<1>9. q.output.ended <=> q.assemble_idx = StreamLength /\ q.eof_idx = StreamLength
  <2>1. c.eof_idx = r.eof_idx /\ c.output.ended = r.output.ended  BY <1>3, <1>5
  <2>2. c.assemble_idx = c.eof_idx =>
          c.assemble_idx = StreamLength /\ c.eof_idx = StreamLength
    BY <1>1, <1>7, <2>1 DEF NoEof
  <2>3. r.assemble_idx = StreamLength => c.assemble_idx = StreamLength  BY <1>7
  <2>4. c.output.ended => c.assemble_idx = StreamLength /\ c.eof_idx = StreamLength
    BY <1>1, <2>1, <2>3
  <2> QED  BY <1>6, <1>8, <2>2, <2>4
<1>10. ReassemblerOK(q, P)
  BY <1>1, <1>3, <1>5, <1>6, <1>9 DEF Consistent, ReassemblerOK
<1>11. KeepsBytes(r, q)
  <2> SUFFICES ASSUME NEW k \in DOMAIN r.segments,
                      NEW i \in k .. After(r.segments, k) - 1
               PROVE  \/ \E j \in DOMAIN q.segments : i \in j .. After(q.segments, j) - 1
                      \/ i \in 0 .. q.assemble_idx - 1
                      \/ Full(q.output)
    BY DEF KeepsBytes
  <2>1. k \in Nat /\ After(r.segments, k) \in Nat /\ i \in Nat /\ i < After(r.segments, k)
        /\ k <= i
    <3>1. r.segments \in Caches  BY <1>1 DEF Reassembler
    <3>2. k \in Nat /\ After(r.segments, k) \in Nat  BY <3>1, CacheFacts
    <3> QED  BY <3>2
  <2>2. \/ k \in DOMAIN q.segments /\ q.segments[k] = r.segments[k]
        \/ r.segments[k] = <<>>
        \/ After(r.segments, k) <= q.assemble_idx
        \/ Full(q.output)
    BY <1>3, <1>5, <1>6
  <2>3. CASE k \in DOMAIN q.segments /\ q.segments[k] = r.segments[k]
    <3>1. After(q.segments, k) = After(r.segments, k)  BY <2>3 DEF After
    <3> QED  BY <2>3, <3>1
  <2>4. CASE r.segments[k] = <<>>
    <3>1. After(r.segments, k) = k + 0  BY <2>4 DEF After
    <3> QED  BY <2>1, <3>1
  <2>5. CASE After(r.segments, k) <= q.assemble_idx
    BY <1>6, <1>7, <2>1, <2>5
  <2> QED  BY <2>2, <2>3, <2>4, <2>5
<1>12. Advances(r, q)
  <2>1. r.output.written = r.assemble_idx /\ q.output.written = q.assemble_idx
    BY <1>1, <1>6 DEF StreamOK
  <2>2. q.assemble_idx = c.assemble_idx /\ q.output.read = r.output.read
        /\ (r.output.ended => q.output.ended)
    BY <1>3, <1>5, <1>6
  <2> QED  BY <1>7, <2>1, <2>2 DEF Advances
<1>13. q.eof_idx = r.eof_idx  BY <1>3, <1>5, <1>6
<1> QED  BY <1>10, <1>11, <1>12, <1>13

\* The invariant holds of a new reassembler.
LEMMA InitHolds ==
  ReassemblerOK(NewReassembler, {})
<1> DEFINE r == NewReassembler
<1>1. /\ r.assemble_idx = 0 /\ r.eof_idx = NoEof /\ r.segments = <<>>
      /\ r.output = EmptyStream
      /\ r = [assemble_idx |-> 0, eof_idx |-> NoEof, segments |-> <<>>,
              output |-> EmptyStream]
  BY DEF NewReassembler
<1> HIDE DEF r
<1>2. StreamLength \in Nat /\ RecvCapacity \in Nat
  BY LengthAssumption, ReassemblerAssumption
<1>3. /\ EmptyStream \in Stream /\ EmptyStream.written = 0 /\ EmptyStream.read = 0
      /\ EmptyStream.buffer = <<>> /\ EmptyStream.ended = FALSE
  BY DEF EmptyStream, Stream
<1>4. Excerpt(0, 0) = <<>>
  <2>1. Excerpt(0, 0) \in Seq(Nat) /\ Len(Excerpt(0, 0)) = 0  BY ExcerptFacts
  <2> HIDE DEF Excerpt
  <2> QED  BY <2>1, EmptySeq
<1>5. StreamOK(r.output, r.assemble_idx, {})
  BY <1>1, <1>2, <1>3, <1>4 DEF StreamOK
<1>6. DOMAIN r.segments = {}  BY <1>1
<1>7. r.segments \in Caches
  <2>1. r.segments \in [{} -> Seq(Nat)]  BY <1>1
  <2>2. {} \in SUBSET (1 .. StreamLength)  OBVIOUS
  <2> QED  BY <2>1, <2>2 DEF Caches
<1>8. CacheOK(r.segments, {})  BY <1>6, <1>7 DEF CacheOK
<1>9. r \in Reassembler  BY <1>1, <1>3, <1>7 DEF Reassembler
<1>10. ReassemblerOK(r, {})
  BY <1>1, <1>2, <1>3, <1>5, <1>6, <1>8, <1>9 DEF ReassemblerOK, Consistent, NoEof
<1> QED  BY <1>10 DEF r

\* An excerpt that is not due yet.
LEMMA EarlyKeeps ==
  ASSUME NEW P, NEW r, ReassemblerOK(r, P), NEW first \in Nat, NEW next \in Nat,
         r.assemble_idx < first, first <= next, next <= StreamLength,
         first .. next - 1 \subseteq P,
         NEW q, q = [r EXCEPT !.segments =
                       MergeSegments(r.segments, first, Excerpt(first, next))]
  PROVE  /\ ReassemblerOK(q, P) /\ KeepsBytes(r, q)
         /\ q.output = r.output /\ q.eof_idx = r.eof_idx
<1> DEFINE t == MergeSegments(r.segments, first, Excerpt(first, next))
<1>1. /\ r \in Reassembler /\ P \subseteq 0 .. StreamLength - 1
      /\ StreamOK(r.output, r.assemble_idx, P) /\ CacheOK(r.segments, P)
      /\ \A k \in DOMAIN r.segments : k > r.assemble_idx
      /\ r.eof_idx \in {NoEof, StreamLength}
      /\ r.output.ended <=> r.assemble_idx = StreamLength /\ r.eof_idx = StreamLength
  BY DEF ReassemblerOK, Consistent
<1>2. r.assemble_idx \in Nat  BY <1>1 DEF Reassembler
<1>3. q = [r EXCEPT !.segments = t]  OBVIOUS
<1> HIDE DEF t
<1>4. /\ CacheOK(t, P) /\ \A k \in DOMAIN t : k > r.assemble_idx
      /\ \A x \in DOMAIN r.segments : \E y \in DOMAIN t :
           y <= x /\ After(r.segments, x) <= After(t, y)
  BY <1>1, <1>2, MergeFacts DEF t
<1>5. t \in Caches  BY <1>4 DEF CacheOK
<1>6. /\ q \in Reassembler /\ q.segments = t /\ q.assemble_idx = r.assemble_idx
      /\ q.eof_idx = r.eof_idx /\ q.output = r.output
  BY <1>1, <1>3, <1>5 DEF Reassembler
<1>7. ReassemblerOK(q, P)  BY <1>1, <1>4, <1>6 DEF ReassemblerOK, Consistent
<1>8. KeepsBytes(r, q)
  <2> SUFFICES ASSUME NEW k \in DOMAIN r.segments,
                      NEW i \in k .. After(r.segments, k) - 1
               PROVE  \E j \in DOMAIN t : i \in j .. After(t, j) - 1
    BY <1>6 DEF KeepsBytes
  <2>1. PICK j \in DOMAIN t : j <= k /\ After(r.segments, k) <= After(t, j)
    BY <1>4
  <2>2. /\ k \in Nat /\ After(r.segments, k) \in Nat
        /\ j \in Nat /\ After(t, j) \in Nat
    <3>1. r.segments \in Caches  BY <1>1 DEF Reassembler
    <3> QED  BY <1>5, <3>1, CacheFacts
  <2>3. i \in j .. After(t, j) - 1  BY <2>1, <2>2
  <2> QED  BY <2>3
<1> QED  BY <1>6, <1>7, <1>8

\* q is r that may have been told where the stream ends.
IsTold(q, r, P, eof) ==
  /\ Consistent(q, P)
  /\ r.assemble_idx < StreamLength \/ ~eof => ReassemblerOK(q, P)
  /\ q.assemble_idx = r.assemble_idx /\ q.segments = r.segments
  /\ q.output = r.output
  /\ q.eof_idx = IF eof THEN StreamLength ELSE r.eof_idx

\* Being told where the stream ends changes nothing else, but the output may
\* have to be ended.
LEMMA KnownFacts ==
  ASSUME NEW P, NEW r, ReassemblerOK(r, P), NEW first \in Nat, NEW next \in Nat,
         first <= next, NEW eof \in BOOLEAN, eof => next = StreamLength,
         NEW q, q = IF eof THEN [r EXCEPT !.eof_idx = first + Len(Excerpt(first, next))]
                           ELSE r
  PROVE  IsTold(q, r, P, eof)
<1>1. /\ r \in Reassembler /\ P \subseteq 0 .. StreamLength - 1
      /\ StreamOK(r.output, r.assemble_idx, P) /\ CacheOK(r.segments, P)
      /\ \A k \in DOMAIN r.segments : k > r.assemble_idx
      /\ r.eof_idx \in {NoEof, StreamLength}
      /\ r.output.ended <=> r.assemble_idx = StreamLength /\ r.eof_idx = StreamLength
  BY DEF ReassemblerOK, Consistent
<1>2. CASE eof
  <2>1. first + Len(Excerpt(first, next)) = StreamLength
    <3>1. Len(Excerpt(first, next)) = next - first  BY ExcerptFacts
    <3> QED  BY <1>2, <3>1
  <2>2. q = [r EXCEPT !.eof_idx = StreamLength]  BY <1>2, <2>1
  <2>3. /\ q \in Reassembler /\ q.eof_idx = StreamLength /\ q.segments = r.segments
        /\ q.output = r.output /\ q.assemble_idx = r.assemble_idx
    BY <1>1, <2>2, LengthAssumption DEF Reassembler
  <2>4. r.output.ended => r.assemble_idx = StreamLength  BY <1>1
  <2>5. Consistent(q, P)  BY <1>1, <2>3, <2>4 DEF Consistent
  <2>6. r.assemble_idx < StreamLength => r.assemble_idx # StreamLength
    BY LengthAssumption
  <2>7. q.eof_idx = IF eof THEN StreamLength ELSE r.eof_idx  BY <1>2, <2>3
  <2> QED  BY <1>2, <2>3, <2>5, <2>6, <2>7 DEF ReassemblerOK, IsTold
<1>3. CASE ~eof
  <2>1. q = r  BY <1>3
  <2>2. q.eof_idx = IF eof THEN StreamLength ELSE r.eof_idx  BY <1>3, <2>1
  <2> QED  BY <2>1, <2>2 DEF ReassemblerOK, IsTold
<1> QED  BY <1>2, <1>3

\* q is r after a push.
IsPush(q, r, first, next, eof) ==
  q = PushSubstring(r, Excerpt(first, next), first, eof)

\* A push, whatever it brings.
LEMMA PushKeeps ==
  ASSUME NEW P, NEW r, ReassemblerOK(r, P), NEW first \in Nat, NEW next \in Nat,
         first <= next, next <= StreamLength, NEW eof \in BOOLEAN,
         eof => next = StreamLength,
         NEW q, IsPush(q, r, first, next, eof)
  PROVE  /\ ReassemblerOK(q, P \cup first .. next - 1) /\ KeepsBytes(r, q)
         /\ Advances(r, q)
         /\ q.eof_idx = IF eof THEN StreamLength ELSE r.eof_idx
<1> DEFINE data == Excerpt(first, next)
           known == IF eof THEN [r EXCEPT !.eof_idx = first + Len(data)] ELSE r
           Q == P \cup first .. next - 1
           a == r.assemble_idx
<1>1. /\ Consistent(known, P)
      /\ a < StreamLength \/ ~eof => ReassemblerOK(known, P)
      /\ known.assemble_idx = a /\ known.segments = r.segments
      /\ known.output = r.output
      /\ known.eof_idx = IF eof THEN StreamLength ELSE r.eof_idx
  <2> HIDE DEF known, a
  <2>1. known = IF eof THEN [r EXCEPT !.eof_idx = first + Len(Excerpt(first, next))]
                       ELSE r
    BY DEF known
  <2>2. IsTold(known, r, P, eof)  BY <2>1, KnownFacts, Zenon
  <2> QED  BY <2>2 DEF IsTold, a
<1>2. Len(data) = next - first  BY ExcerptFacts
<1>3. /\ a \in Nat /\ a <= StreamLength /\ StreamLength \in Nat
  BY StreamFacts DEF ReassemblerOK, Consistent
<1>4. P \subseteq Q /\ first .. next - 1 \subseteq Q /\ Q \subseteq 0 .. StreamLength - 1
  <2>1. P \subseteq 0 .. StreamLength - 1  BY DEF ReassemblerOK, Consistent
  <2>2. first .. next - 1 \subseteq 0 .. StreamLength - 1  BY <1>3
  <2> QED  BY <2>1, <2>2
<1>5. q = CASE first > a -> [known EXCEPT !.segments = MergeSegments(@, first, data)]
            [] first + Len(data) < a -> known
            [] OTHER -> EndIfComplete(Drain(Assemble(known, first, data)))
  BY DEF IsPush, PushSubstring
<1> HIDE DEF known, data, Q, a
<1>6. Consistent(known, Q)
  BY <1>1, <1>4, StreamOKWithMore, CacheOKWithMore DEF Consistent
<1>7. ReassemblerOK(known, P) => ReassemblerOK(known, Q)
  BY <1>6 DEF ReassemblerOK
<1>8. ASSUME NEW u, u.output = r.output PROVE Advances(r, u)
  <2>1. r.output.written \in Nat
    <3>1. r \in Reassembler  BY DEF ReassemblerOK, Consistent
    <3> QED  BY <3>1 DEF Reassembler, Stream
  <2> QED  BY <1>8, <2>1 DEF Advances
<1>9. CASE first > a
  <2>1. q = [known EXCEPT !.segments = MergeSegments(known.segments, first, data)]
    <3>1. q = [known EXCEPT !.segments = MergeSegments(@, first, data)]
      BY <1>2, <1>3, <1>5, <1>9
    <3> QED  BY <3>1
  <2>2. ReassemblerOK(known, Q)
    <3>1. a < StreamLength  BY <1>3, <1>9
    <3> QED  BY <1>1, <1>7, <3>1
  <2>3. known.assemble_idx < first  BY <1>1, <1>3, <1>9
  <2>4. /\ ReassemblerOK(q, Q) /\ KeepsBytes(known, q)
        /\ q.output = known.output /\ q.eof_idx = known.eof_idx
    BY <1>4, <2>1, <2>2, <2>3, EarlyKeeps DEF data
  <2>5. KeepsBytes(r, q)  BY <1>1, <2>4 DEF KeepsBytes
  <2>6. Advances(r, q)  BY <1>1, <1>8, <2>4
  <2> QED  BY <1>1, <2>4, <2>5, <2>6 DEF Q
<1>10. CASE first <= a /\ next < a
  <2>1. q = known  BY <1>2, <1>3, <1>5, <1>10
  <2>2. ~eof  BY <1>3, <1>10
  <2>3. ReassemblerOK(known, Q)  BY <1>1, <1>7, <2>2
  <2>4. KeepsBytes(r, q)  BY <1>1, <2>1 DEF KeepsBytes
  <2>5. Advances(r, q)  BY <1>1, <1>8, <2>1
  <2> QED  BY <1>1, <2>1, <2>3, <2>4, <2>5 DEF Q
<1>11. CASE first <= a /\ a <= next
  <2>1. q = EndIfComplete(Drain(Assemble(known, first, data)))
    BY <1>2, <1>3, <1>5, <1>11
  <2>2. first <= known.assemble_idx /\ known.assemble_idx <= next  BY <1>1, <1>11
  <2>3. /\ ReassemblerOK(q, Q) /\ KeepsBytes(known, q)
        /\ Advances(known, q) /\ q.eof_idx = known.eof_idx
    BY <1>4, <1>6, <2>1, <2>2, DueKeeps DEF data
  <2>4. KeepsBytes(r, q)  BY <1>1, <2>3 DEF KeepsBytes
  <2>5. Advances(r, q)  BY <1>1, <2>3 DEF Advances
  <2> QED  BY <1>1, <2>3, <2>4, <2>5 DEF Q
<1> QED  BY <1>3, <1>9, <1>10, <1>11

\* q is r after a read.
IsRead(q, r, len) == q = [r EXCEPT !.output = StreamPop(@, len)]

\* A read takes the first bytes of the output, and leaves the cache alone.
LEMMA ReadKeeps ==
  ASSUME NEW P, NEW r, ReassemblerOK(r, P), NEW len \in Nat,
         NEW q, IsRead(q, r, len)
  PROVE  /\ ReassemblerOK(q, P) /\ q.segments = r.segments
         /\ q.eof_idx = r.eof_idx /\ q.output.read >= r.output.read
         /\ q.output.written = r.output.written /\ q.output.ended = r.output.ended
<1> DEFINE out == r.output
           a == r.assemble_idx
           n == Least(Len(out.buffer), len)
           o == StreamPop(out, len)
<1>1. /\ r \in Reassembler /\ StreamOK(out, a, P)  BY DEF ReassemblerOK, Consistent
<1>2. /\ out \in Stream /\ out.written = a /\ out.read <= a
      /\ a - out.read <= RecvCapacity /\ out.buffer = Excerpt(out.read, a)
      /\ 0 .. a - 1 \subseteq P /\ a \in 0 .. StreamLength
  BY <1>1 DEF StreamOK
<1>3. /\ a \in Nat /\ out.read \in Nat /\ RecvCapacity \in Nat
      /\ Len(out.buffer) = a - out.read
  <2> HIDE DEF out, a
  <2> QED  BY <1>1, StreamFacts
<1>4. n \in Nat /\ n <= a - out.read  BY <1>3, <1>2 DEF Least
<1>5. o = [out EXCEPT !.buffer = SubSeq(out.buffer, n + 1, Len(out.buffer)),
                      !.read = @ + n]
  BY DEF StreamPop
<1>6. q = [r EXCEPT !.output = o]  BY DEF IsRead
<1> HIDE DEF n, o
<1> DEFINE b == out.read + n
<1>7. b \in Nat /\ b <= a /\ out.read <= b /\ b - out.read + 1 = n + 1
      /\ a - b <= RecvCapacity
  <2> DEFINE read == out.read
  <2>1. /\ a \in Nat /\ read \in Nat /\ RecvCapacity \in Nat /\ n \in Nat
        /\ read <= a /\ a - read <= RecvCapacity /\ n <= a - read
    BY <1>2, <1>3, <1>4
  <2>2. b = read + n  OBVIOUS
  <2> HIDE DEF read, a, b
  <2>3. b \in Nat /\ b <= a /\ read <= b /\ b - read + 1 = n + 1
    BY <2>1, <2>2
  <2>4. a - b <= RecvCapacity  BY <2>1, <2>2
  <2> QED  BY <2>3, <2>4 DEF read
<1>8. SubSeq(out.buffer, n + 1, Len(out.buffer)) = Excerpt(b, a)
  <2>1. SubSeq(Excerpt(out.read, a), b - out.read + 1, a - out.read) = Excerpt(b, a)
    <3>1. a \in Nat /\ out.read \in Nat /\ b \in Nat /\ out.read <= b /\ b <= a
      BY <1>3, <1>7
    <3> HIDE DEF b, a, out
    <3> QED  BY <3>1, ExcerptTail, Zenon
  <2> QED  BY <1>2, <1>3, <1>7, <2>1
<1> HIDE DEF b
<1>9. Excerpt(b, a) \in Seq(Nat)  BY <1>3, <1>7, ExcerptFacts
<1>10. /\ o \in Stream /\ o.buffer = Excerpt(b, a) /\ o.read = b
       /\ o.written = out.written /\ o.ended = out.ended
  BY <1>2, <1>5, <1>7, <1>8, <1>9 DEF Stream, b
<1>11. StreamOK(o, a, P)  BY <1>2, <1>7, <1>10 DEF StreamOK
<1>12. /\ q \in Reassembler /\ q.output = o /\ q.assemble_idx = a
       /\ q.eof_idx = r.eof_idx /\ q.segments = r.segments
  BY <1>1, <1>6, <1>10 DEF Reassembler
<1>13. ReassemblerOK(q, P)  BY <1>10, <1>11, <1>12 DEF ReassemblerOK, Consistent
<1> QED  BY <1>7, <1>10, <1>12, <1>13

\* The invariant of the reassembler and the bytes pushed into it.
RInv == ReassemblerOK(reassembler, pushed)

\* What a push and a read do to the variables.
LEMMA StepFacts ==
  ASSUME RInv, Next
  PROVE  RInv' /\ (KeepsBytes(reassembler, reassembler') \/ Segments' = Segments)
<1>1. ASSUME NEW first \in 0 .. StreamLength, NEW next \in first .. StreamLength,
             NEW eof \in BOOLEAN, Push(first, next, eof)
      PROVE  RInv' /\ KeepsBytes(reassembler, reassembler')
  <2>1. /\ first \in Nat /\ next \in Nat /\ first <= next /\ next <= StreamLength
    BY LengthAssumption
  <2>2. /\ eof => next = StreamLength
        /\ reassembler' = PushSubstring(reassembler, Excerpt(first, next), first, eof)
        /\ pushed' = pushed \cup first .. next - 1
    BY <1>1 DEF Push
  <2>3. IsPush(reassembler', reassembler, first, next, eof)  BY <2>2 DEF IsPush
  <2>4. ReassemblerOK(reassembler', pushed \cup first .. next - 1)
        /\ KeepsBytes(reassembler, reassembler')
    BY <2>1, <2>2, <2>3, PushKeeps DEF RInv
  <2> QED  BY <2>2, <2>4 DEF RInv
<1>2. ASSUME NEW len \in 1 .. RecvCapacity, Read(len)
      PROVE  RInv' /\ Segments' = Segments
  <2>1. len \in Nat  BY ReassemblerAssumption
  <2>2. /\ reassembler' = [reassembler EXCEPT !.output = StreamPop(@, len)]
        /\ pushed' = pushed
    BY <1>2 DEF Read
  <2>3. IsRead(reassembler', reassembler, len)  BY <2>2 DEF IsRead
  <2>4. ReassemblerOK(reassembler', pushed)
        /\ reassembler'.segments = reassembler.segments
    BY <2>1, <2>3, ReadKeeps DEF RInv
  <2> QED  BY <2>2, <2>4 DEF RInv, Segments
<1> QED  BY <1>1, <1>2 DEF Next

\* The bytes of a cache.
BytesOf(segs) == {i \in Int : \E k \in DOMAIN segs : i \in k .. After(segs, k) - 1}

\* They are the indices that the property speaks of.
LEMMA CachedFacts ==
  ASSUME NEW segs \in Caches
  PROVE  UNION {k .. k + Len(segs[k]) - 1 : k \in DOMAIN segs} = BytesOf(segs)
<1> DEFINE C == UNION {k .. k + Len(segs[k]) - 1 : k \in DOMAIN segs}
<1>1. ASSUME NEW k \in DOMAIN segs
      PROVE  k .. After(segs, k) - 1 = k .. k + Len(segs[k]) - 1
  BY DEF After
<1>2. ASSUME NEW i \in C PROVE i \in BytesOf(segs)
  <2>1. PICK k \in DOMAIN segs : i \in k .. k + Len(segs[k]) - 1  OBVIOUS
  <2>2. i \in k .. After(segs, k) - 1  BY <1>1, <2>1
  <2> QED  BY <2>1, <2>2 DEF BytesOf
<1>3. ASSUME NEW i \in BytesOf(segs) PROVE i \in C
  <2>1. PICK k \in DOMAIN segs : i \in k .. After(segs, k) - 1  BY DEF BytesOf
  <2>2. i \in k .. k + Len(segs[k]) - 1  BY <1>1, <2>1
  <2> QED  BY <2>2
<1> QED  BY <1>2, <1>3

\* The invariant holds in every state, for every stream and every capacity.
THEOREM RInvHolds == Spec => []RInv
<1>1. Init => RInv  BY InitHolds DEF Init, RInv
<1>2. RInv /\ [Next]_vars => RInv'
  <2>1. RInv /\ Next => RInv'  BY StepFacts
  <2>2. RInv /\ UNCHANGED vars => RInv'  BY DEF RInv, vars
  <2> QED  BY <2>1, <2>2
<1> QED  BY <1>1, <1>2, PTL DEF Spec

\* What can be read is the stream, in order, each byte once, and nothing that
\* was not pushed (stream_reassembler.hh:10-17), in every reachable state.
THEOREM OutputIsTheStreamHolds == Spec => []OutputIsTheStream
<1>1. RInv => OutputIsTheStream
  <2> SUFFICES ASSUME RInv PROVE OutputIsTheStream  OBVIOUS
  <2> QED  BY DEF RInv, ReassemblerOK, Consistent, StreamOK, OutputIsTheStream, Out
<1> QED  BY <1>1, RInvHolds, PTL

\* The cached excerpts hold the right bytes, lie behind those assembled and do
\* not touch each other, in every reachable state: no byte is kept twice.
THEOREM CacheIsSeparatedHolds == Spec => []CacheIsSeparated
<1>1. RInv => CacheIsSeparated
  <2> SUFFICES ASSUME RInv PROVE CacheIsSeparated  OBVIOUS
  <2>1. /\ reassembler \in Reassembler /\ pushed \subseteq 0 .. StreamLength - 1
        /\ StreamOK(Out, reassembler.assemble_idx, pushed)
        /\ CacheOK(Segments, pushed)
        /\ \A k \in DOMAIN Segments : k > reassembler.assemble_idx
        /\ reassembler.eof_idx \in {NoEof, StreamLength}
    BY DEF RInv, ReassemblerOK, Consistent, Out, Segments
  <2>2. Segments \in Caches  BY <2>1 DEF CacheOK
  <2>3. DOMAIN Segments \in SUBSET (1 .. StreamLength)  BY <2>2, CacheFacts
  <2>4. Len(Out.buffer) <= RecvCapacity
    <3>1. Len(Out.buffer) = reassembler.assemble_idx - Out.read
      BY <2>1, StreamFacts
    <3> QED  BY <2>1, <3>1 DEF StreamOK
  <2>5. TypeOK  BY <2>1, <2>3, <2>4 DEF TypeOK, StreamOK
  <2>6. ASSUME NEW k \in DOMAIN Segments
        PROVE  /\ k > reassembler.assemble_idx
               /\ Segments[k] = Excerpt(k, k + Len(Segments[k]))
               /\ \A j \in DOMAIN Segments : j > k => j > k + Len(Segments[k])
    <3>1. /\ Segments[k] = Excerpt(k, After(Segments, k))
          /\ \A j \in DOMAIN Segments : j > k => j > After(Segments, k)
      BY <2>1 DEF CacheOK
    <3> QED  BY <2>1, <3>1 DEF After
  <2>7. Cached \subseteq pushed
    <3>1. Cached = BytesOf(Segments)  BY <2>2, CachedFacts DEF Cached
    <3> QED  BY <2>1, <3>1 DEF CacheOK, BytesOf
  <2> QED  BY <2>5, <2>6, <2>7 DEF CacheIsSeparated
<1> QED  BY <1>1, RInvHolds, PTL

\* The output ends exactly when the whole stream was written and the
\* reassembler knows where it ends, in every reachable state, whatever order
\* the last byte and the announcement of the end arrive in.
THEOREM EndsAtTheEndHolds == Spec => []EndsAtTheEnd
<1>1. RInv => EndsAtTheEnd
  <2> SUFFICES ASSUME RInv PROVE EndsAtTheEnd  OBVIOUS
  <2> QED
    BY DEF RInv, ReassemblerOK, Consistent, StreamOK, EndsAtTheEnd, Out
<1> QED  BY <1>1, RInvHolds, PTL

\* A byte that was cached and is not any more is assembled, or was dropped when
\* the output was full: the loss that push_substring() accepts and no other.
THEOREM DroppedOnlyWhenFullHolds == Spec => DroppedOnlyWhenFull
<1> DEFINE Lost == (Cached \ Cached') \ 0 .. Out'.written - 1
           Step == Lost # {} => RemainingCapacity(Out', RecvCapacity) = 0
<1>1. RInv /\ RInv' /\ [Next]_vars => [Step]_vars
  <2> SUFFICES ASSUME RInv, RInv', Next, Lost # {}
               PROVE  RemainingCapacity(Out', RecvCapacity) = 0
    OBVIOUS
  <2>1. PICK i \in Cached : i \notin Cached' /\ i \notin 0 .. Out'.written - 1
    OBVIOUS
  <2>2. Segments' # Segments
    <3> SUFFICES ASSUME Segments' = Segments PROVE FALSE  OBVIOUS
    <3>1. Cached' = Cached  BY DEF Cached
    <3> QED  BY <2>1, <3>1
  <2>3. KeepsBytes(reassembler, reassembler')  BY <2>2, StepFacts
  <2>4. Cached = BytesOf(Segments) /\ Cached' = BytesOf(Segments')
    <3>1. Segments \in Caches /\ Segments' \in Caches
      BY DEF RInv, ReassemblerOK, Consistent, CacheOK, Segments
    <3> QED  BY <3>1, CachedFacts DEF Cached
  <2>5. PICK k \in DOMAIN Segments : i \in k .. After(Segments, k) - 1
    BY <2>1, <2>4 DEF BytesOf
  <2>6. StreamOK(Out', reassembler'.assemble_idx, pushed')
    BY DEF RInv, ReassemblerOK, Consistent, Out
  <2>7. \/ \E j \in DOMAIN Segments' : i \in j .. After(Segments', j) - 1
        \/ i \in 0 .. reassembler'.assemble_idx - 1
        \/ Full(Out')
    BY <2>3, <2>5 DEF KeepsBytes, Segments, Out
  <2>8. ~\E j \in DOMAIN Segments' : i \in j .. After(Segments', j) - 1
    BY <2>1, <2>4 DEF BytesOf
  <2>9. Out'.written = reassembler'.assemble_idx  BY <2>6 DEF StreamOK
  <2>10. Full(Out')  BY <2>1, <2>7, <2>8, <2>9
  <2> DEFINE o == Out'
             a == reassembler'.assemble_idx
  <2>11. /\ Len(o.buffer) = a - o.read /\ o.read \in Nat /\ RecvCapacity \in Nat
         /\ a \in Nat /\ o.written = a
    <3> HIDE DEF o, a
    <3> QED  BY <2>6, <2>9, StreamFacts DEF o, a
  <2>12. o.written - o.read = RecvCapacity  BY <2>10 DEF Full
  <2> HIDE DEF o, a
  <2>13. RecvCapacity - Len(o.buffer) = 0  BY <2>11, <2>12
  <2> QED  BY <2>13 DEF RemainingCapacity, o
<1> QED  BY <1>1, RInvHolds, PTL DEF Spec, DroppedOnlyWhenFull

=============================================================================
