---------------------------- MODULE RouterProofs ----------------------------
(***************************************************************************)
(* Proofs about Router and its ARP cache, for every routing table, set of  *)
(* packets, number of entries and bound.                                   *)
(*                                                                         *)
(* 1. The route that the loop over the table finds is the longest match.   *)
(* 2. Where a packet is: a spot is a request and a place in its queue.     *)
(*    What an operation of the cache does to the queues is said by a map   *)
(*    from the spots after it to the spots before it (ThinnedBy), which    *)
(*    for all but one of them comes from a map of the requests             *)
(*    (EmbeddedBy); the other adds a spot (JoinedBy).                      *)
(* 3. The invariant RouterOK: the types, the route, the place of every     *)
(*    packet, and the tidiness of the cache, which the second needs.       *)
(*    RInv says that it holds while the waiting messages are intact.       *)
(* 4. Each action keeps it; the properties follow.                         *)
(***************************************************************************)
EXTENDS Router, NumberFacts, SequenceTheorems

\* One round of the loop over the routes: best is the best route so far.
Step(a, best, i) ==
  IF Better(Routes[i], IF best = 0 THEN 0 ELSE Routes[best].len, a) THEN i ELSE best

\* The fold that finds the route is the loop of the code: the best route after
\* k rounds is the one before, or the k-th route when that is better. (What a
\* fold computes cannot be found by induction here; a function that counts the
\* rounds exists, and the fold is its last value.)
LEMMA MatchIsLoop ==
  ASSUME NEW a \in Address
  PROVE  \E f \in [0 .. Len(Routes) -> 0 .. Len(Routes)] :
           /\ f[0] = 0 /\ LongestPrefixMatch[a] = f[Len(Routes)]
           /\ \A k \in 1 .. Len(Routes) : f[k] = Step(a, f[k - 1], k)
<1> DEFINE n == Len(Routes)
           V == 0 .. n
           step == [p \in (1 .. n) \X V |-> Step(a, p[2], p[1])]
           seq == [i \in DOMAIN Routes |-> i]
           IsIter(g) == g = [s \in SUBSET (1 .. n) |->
                          IF s = {} THEN 0
                          ELSE Step(a, g[s \ {Max(s)}], seq[Max(s)])]
<1>1. n \in Nat /\ DOMAIN Routes = 1 .. n /\ 0 \in V
  BY RoutesAssumption, LenProperties
<1>2. step \in [(1 .. n) \X V -> V]
  <2>1. \A p \in (1 .. n) \X V : Step(a, p[2], p[1]) \in V  BY DEF Step
  <2> QED  BY <2>1
<1> HIDE DEF V, n
<1>3. PICK h \in [SUBSET (1 .. n) -> V] : IsIteration(n, V, 0, step, h)
  <2> HIDE DEF step
  <2> QED  BY <1>1, <1>2, IterationExists
<1>4. IsIter(h)
  <2>1. \A s \in SUBSET (1 .. n) : h[s] = IF s = {} THEN 0 ELSE Step(a, h[s \ {Max(s)}], seq[Max(s)])
    <3> TAKE s \in SUBSET (1 .. n)
    <3>1. CASE s = {}  BY <1>3, <3>1 DEF IsIteration
    <3>2. CASE s # {}
      <4>1. Max(s) \in s /\ \A x \in s : x <= Max(s)  BY <1>1, <3>2, MaxIsGreatest
      <4> DEFINE m == Max(s)
      <4> HIDE DEF m
      <4>2. h[s] = step[m, h[s \ {m}]]  BY <1>3, <4>1 DEF IsIteration, m
      <4>3. m \in 1 .. n /\ h[s \ {m}] \in V  BY <1>3, <4>1 DEF m
      <4>4. seq[m] = m  BY <1>1, <4>3
      <4> QED  BY <3>2, <4>2, <4>3, <4>4 DEF m
    <3> QED  BY <3>1, <3>2
  <2> QED  BY <2>1
<1>5. LongestPrefixMatch[a] = (CHOOSE g : IsIter(g))[1 .. n]
  BY <1>1 DEF LongestPrefixMatch, FoldLeftDomain, FoldLeft, MapThenFoldSet, Step
<1> DEFINE g == CHOOSE g : IsIter(g)
<1>6. IsIter(g)  BY <1>4
<1> HIDE DEF g
<1>7. g[{}] = 0
  <2>1. {} \in SUBSET (1 .. n)  OBVIOUS
  <2> QED  BY <1>6, <2>1
<1>8. ASSUME NEW s \in SUBSET (1 .. n), NEW m \in s, \A x \in s : x <= m,
             g[s \ {m}] \in V
      PROVE  g[s] = step[m, g[s \ {m}]]
  <2>1. Max(s) = m
    <3>1. Max(s) \in s /\ m <= Max(s) /\ Max(s) <= m  BY <1>1, <1>8, MaxIsGreatest
    <3> DEFINE x == Max(s)
    <3>2. x \in 1 .. n /\ m \in 1 .. n  BY <3>1
    <3> HIDE DEF x
    <3> QED  BY <1>1, <3>1, <3>2 DEF x
  <2>2. seq[m] = m  BY <1>1
  <2>3. g[s] = Step(a, g[s \ {m}], m)  BY <1>6, <2>1, <2>2
  <2> QED  BY <1>8, <2>3
<1> HIDE DEF step, IsIter
<1>9. IsIteration(n, V, 0, step, g)  BY <1>7, <1>8 DEF IsIteration
<1>10. PICK f : IsLoop(n, V, 0, step, f, g[1 .. n])
   BY <1>1, <1>2, <1>9, IterationIsLoop
<1>11. ASSUME NEW k \in 1 .. n PROVE f[k] = Step(a, f[k - 1], k)
  <2>1. k \in 1 .. n /\ k - 1 \in 0 .. n  BY <1>1 DEF n
  <2>2. f \in [0 .. n -> V] /\ f[k] = step[k, f[k - 1]]  BY <1>10, <2>1 DEF IsLoop
  <2>3. f[k - 1] \in V  BY <2>1, <2>2
  <2> QED  BY <2>1, <2>2, <2>3 DEF step
<1>12. LongestPrefixMatch[a] = f[n]  BY <1>5, <1>10 DEF g, IsLoop
<1> QED  BY <1>10, <1>11, <1>12 DEF V, n, IsLoop

\* best is the longest of the first k routes that cover address a; none has
\* been kept if none of them does, where a route of length 0 is never better
\* than none.
LongestSoFar(a, best, k) ==
  /\ best \in 0 .. k
  /\ best = 0 => \A i \in 1 .. k : Covers(Routes[i], a) => Routes[i].len = 0
  /\ best # 0 => /\ Covers(Routes[best], a)
                 /\ \A i \in 1 .. k : Covers(Routes[i], a) => Routes[i].len <= Routes[best].len

\* After the last round the route is the longest of all that cover the address,
\* whatever the table holds and in whatever order.
THEOREM MatchIsLongest ==
  ASSUME NEW a \in Address
  PROVE  LongestSoFar(a, LongestPrefixMatch[a], Len(Routes))
<1> DEFINE n == Len(Routes)
           V == 0 .. n
<1>1. n \in Nat /\ \A i \in 1 .. n : Routes[i].len \in Nat
  <2>1. n \in Nat /\ DOMAIN Routes = 1 .. n  BY RoutesAssumption, LenProperties
  <2>2. ASSUME NEW i \in 1 .. n PROVE Routes[i].len \in Nat
    <3>1. Routes[i] \in Route  BY <2>1, RoutesAssumption, ElementOfSeq
    <3>2. 0 .. Width \subseteq Nat  BY RoutesAssumption
    <3> QED  BY <3>1, <3>2 DEF Route
  <2> QED  BY <2>1, <2>2
<1>2. PICK f \in [0 .. n -> V] : /\ f[0] = 0 /\ LongestPrefixMatch[a] = f[n]
                                 /\ \A k \in 1 .. n : f[k] = Step(a, f[k - 1], k)
  BY MatchIsLoop
<1> DEFINE Fails == {k \in Nat : k <= n /\ ~LongestSoFar(a, f[k], k)}
<1>3. Fails = {}
  <2> SUFFICES ASSUME Fails # {} PROVE FALSE  OBVIOUS
  <2>1. PICK k \in Fails : \A j \in Fails : k <= j  BY LeastExists
  <2> HIDE DEF n
  <2>2. LongestSoFar(a, f[0], 0)  BY <1>2 DEF LongestSoFar
  <2>3. k # 0  BY <2>2
  <2>4. k - 1 \in Nat /\ k \in 1 .. n /\ k - 1 \in 0 .. n /\ ~(k <= k - 1)  BY <1>1, <2>3
  <2>5. LongestSoFar(a, f[k - 1], k - 1)
    <3>1. k - 1 \notin Fails  BY <2>1, <2>4
    <3> QED  BY <3>1, <2>4
  <2> DEFINE b == f[k - 1]
  <2>6. f[k] = Step(a, b, k)  BY <1>2, <2>4
  <2>7. LongestSoFar(a, b, k - 1) /\ b \in 0 .. k - 1  BY <2>5 DEF LongestSoFar
  <2> HIDE DEF b
  <2>8. \A i \in 1 .. k : i = k \/ i \in 1 .. k - 1  BY <2>4
  <2>9. \A i \in 1 .. k : Routes[i].len \in Nat  BY <1>1, <2>4
  <2>10. LongestSoFar(a, f[k], k)
    <3>1. CASE b = 0
      <4>1. CASE Better(Routes[k], 0, a)
        <5>1. f[k] = k /\ Covers(Routes[k], a)  BY <2>6, <3>1, <4>1 DEF Step, Better
        <5>2. \A i \in 1 .. k : Covers(Routes[i], a) => Routes[i].len <= Routes[k].len
          BY <2>4, <2>7, <2>8, <2>9, <3>1 DEF LongestSoFar
        <5> QED  BY <2>3, <2>4, <5>1, <5>2 DEF LongestSoFar
      <4>2. CASE ~Better(Routes[k], 0, a)
        <5>1. f[k] = 0  BY <2>6, <3>1, <4>2 DEF Step
        <5>2. Covers(Routes[k], a) => Routes[k].len = 0
          BY <2>4, <2>9, <4>2 DEF Better
        <5> QED  BY <2>4, <2>7, <2>8, <3>1, <5>1, <5>2 DEF LongestSoFar
      <4> QED  BY <4>1, <4>2
    <3>2. CASE b # 0
      <4>1. b \in 1 .. k  BY <2>4, <2>7, <3>2
      <4>2. CASE Better(Routes[k], Routes[b].len, a)
        <5>1. f[k] = k /\ Covers(Routes[k], a) /\ Routes[b].len < Routes[k].len
          <6>1. Routes[k].len > Routes[b].len  BY <4>2 DEF Better
          <6> QED  BY <2>4, <2>6, <2>9, <3>2, <4>2, <4>1, <6>1 DEF Step, Better
        <5>2. ASSUME NEW i \in 1 .. k, Covers(Routes[i], a)
              PROVE  Routes[i].len <= Routes[k].len
          <6>1. CASE i = k
            BY <2>9, <6>1
          <6>2. CASE i \in 1 .. k - 1
            <7>1. Routes[i].len <= Routes[b].len  BY <2>7, <3>2, <5>2, <6>2 DEF LongestSoFar
            <7> QED  BY <2>4, <2>9, <4>1, <5>1, <7>1
          <6> QED  BY <2>8, <6>1, <6>2
        <5> QED  BY <2>3, <2>4, <5>1, <5>2 DEF LongestSoFar
      <4>3. CASE ~Better(Routes[k], Routes[b].len, a)
        <5>1. f[k] = b  BY <2>6, <3>2, <4>3 DEF Step
        <5>2. Covers(Routes[k], a) => Routes[k].len <= Routes[b].len
          BY <2>4, <2>9, <4>3, <4>1 DEF Better
        <5> QED  BY <2>4, <2>7, <2>8, <3>2, <4>1, <5>1, <5>2 DEF LongestSoFar
      <4> QED  BY <4>2, <4>3
    <3> QED  BY <3>1, <3>2
  <2> QED  BY <2>1, <2>10
<1>4. n \in Nat /\ n <= n  BY <1>1
<1>5. LongestSoFar(a, f[n], n)
  <2> HIDE DEF n
  <2>1. n \notin Fails  BY <1>3
  <2> QED  BY <1>4, <2>1
<1> QED  BY <1>2, <1>5

\* What the rest of the proof needs to know of a route.
LEMMA RouteFacts ==
  ASSUME NEW a \in Address, HasRoute(a)
  PROVE  /\ RouteOf(a) \in ToSet(Routes) /\ RouteOf(a) \in Route
         /\ Covers(RouteOf(a), a)
         /\ \A q \in ToSet(Routes) : Covers(q, a) => q.len <= RouteOf(a).len
<1> DEFINE b == LongestPrefixMatch[a]
<1>1. DOMAIN Routes = 1 .. Len(Routes) /\ Len(Routes) \in Nat  BY RoutesAssumption, LenProperties
<1>2. LongestSoFar(a, b, Len(Routes)) /\ b # 0  BY MatchIsLongest DEF HasRoute
<1> HIDE DEF b
<1>3. b \in DOMAIN Routes  BY <1>1, <1>2 DEF LongestSoFar
<1>4. RouteOf(a) = Routes[b]  BY DEF RouteOf, b
<1>5. Routes[b] \in ToSet(Routes)  BY <1>3 DEF ToSet
<1>6. Routes[b] \in Route  BY <1>1, <1>3, RoutesAssumption, ElementOfSeq
<1>7. ASSUME NEW q \in ToSet(Routes), Covers(q, a) PROVE q.len <= Routes[b].len
  <2>1. PICK i \in DOMAIN Routes : q = Routes[i]  BY DEF ToSet
  <2> QED  BY <1>1, <1>2, <1>7, <2>1 DEF LongestSoFar
<1> QED  BY <1>2, <1>4, <1>5, <1>6, <1>7 DEF LongestSoFar

\* The states of a request that waits for a reply.
Request == [ip : NextHops, age : 0 .. 2, retries : 0 .. MaxRetries + 1, packets : Seq(Message)]
\* The states of an entry of the cache.
Entry == [ip : NextHops \cup {0}, mac : Mac \cup {NoMac}, age : 0 .. EntryTimeout + 1,
          valid : {0, 1}]
\* What is recorded of a packet that leaves.
Departure == [packet : 1 .. MaxPackets, kind : Kinds, dst : Address,
              hop : NextHops \cup {0}, mac : Mac \cup {NoMac}]
\* What the router may have to do next for the packet it handles.
Steps == {"lookup", "append", "ask", "free"}

\* The route of a message is through this hop.
IsFor(m, hop) == HasRoute(m.dst) /\ RouteOf(m.dst).gw = hop

\* A place in a queue: which request, and which of its packets.
Spots(q) == {p \in (DOMAIN q) \X Nat : p[2] \in DOMAIN q[p[1]].packets}
\* The message at a place.
At(q, p) == q[p[1]].packets[p[2]]

\* There is one request for an address, and each has packets that wait.
Tidy(q) ==
  /\ \A j, k \in DOMAIN q : j # k => q[j].ip # q[k].ip
  /\ \A k \in DOMAIN q : q[k].packets # <<>>

\* A message waits with the request for its own hop.
AllFor(q) == \A p \in Spots(q) : IsFor(At(q, p), q[p[1]].ip)

\* Every packet is in one place at most, in a queue or among what left, and is
\* one of the first n that arrived.
Apart(q, out, n) ==
  /\ \A p, r \in Spots(q) : At(q, p).packet = At(q, r).packet => p = r
  /\ \A s, t \in out : s.packet = t.packet => s = t
  /\ \A s \in out : \A p \in Spots(q) : At(q, p).packet # s.packet
  /\ \A p \in Spots(q) : At(q, p).packet <= n
  /\ \A s \in out : s.packet <= n

\* The packet of this number is in no queue and has not left.
Fresh(number, q, out) ==
  /\ \A p \in Spots(q) : At(q, p).packet # number
  /\ \A s \in out : s.packet # number

\* q2 holds some of the messages of q, and none of those at the places G; e
\* says where each of them was.
ThinnedBy(q2, q, G, e) ==
  /\ e \in [Spots(q2) -> Spots(q) \ G]
  /\ \A p, r \in Spots(q2) : e[p] = e[r] => p = r
  /\ \A p \in Spots(q2) : /\ At(q2, p).packet = At(q, e[p]).packet
                          /\ At(q2, p).dst = At(q, e[p]).dst
                          /\ q2[p[1]].ip = q[e[p][1]].ip

\* g gives what leaves for each spot of G.
LeftFrom(q, G, f, out, out2) ==
  /\ G \subseteq Spots(q)
  /\ \A s \in out2 : s \in out \/ \E g \in G : s = f[g]
  /\ \A g \in G : f[g].packet = At(q, g).packet

\* What leaves the queues and what stays there are different packets.
LEMMA ThinnedStaysApart ==
  ASSUME NEW q, NEW q2, NEW G, NEW e, NEW f, NEW out, NEW out2, NEW n,
         Apart(q, out, n), ThinnedBy(q2, q, G, e), LeftFrom(q, G, f, out, out2)
  PROVE  /\ Apart(q2, out2, n)
         /\ \A number : Fresh(number, q, out) => Fresh(number, q2, out2)
<1>1. \A p \in Spots(q2) : /\ e[p] \in Spots(q) /\ e[p] \notin G
                           /\ At(q2, p).packet = At(q, e[p]).packet
  BY DEF ThinnedBy
<1>2. \A p, r \in Spots(q2) : At(q2, p).packet = At(q2, r).packet => p = r
  BY <1>1 DEF Apart, ThinnedBy
<1>3. \A s, t \in out2 : s.packet = t.packet => s = t
  <2> SUFFICES ASSUME NEW s \in out2, NEW t \in out2, s.packet = t.packet PROVE s = t
    OBVIOUS
  <2>1. CASE s \in out /\ t \in out  BY <2>1 DEF Apart
  <2>2. CASE s \in out /\ \E g \in G : t = f[g]
    BY <2>2 DEF Apart, LeftFrom
  <2>3. CASE t \in out /\ \E g \in G : s = f[g]
    BY <2>3 DEF Apart, LeftFrom
  <2>4. CASE (\E g \in G : s = f[g]) /\ \E g \in G : t = f[g]
    BY <2>4 DEF Apart, LeftFrom
  <2> QED  BY <2>1, <2>2, <2>3, <2>4 DEF LeftFrom
<1>4. ASSUME NEW s \in out2, NEW p \in Spots(q2) PROVE At(q2, p).packet # s.packet
  <2>1. CASE s \in out  BY <1>1, <2>1 DEF Apart
  <2>2. CASE \E g \in G : s = f[g]  BY <1>1, <2>2 DEF Apart, LeftFrom
  <2> QED  BY <2>1, <2>2 DEF LeftFrom
<1>5. \A p \in Spots(q2) : At(q2, p).packet <= n  BY <1>1 DEF Apart
<1>6. \A s \in out2 : s.packet <= n
  <2> TAKE s \in out2
  <2>1. CASE s \in out  BY <2>1 DEF Apart
  <2>2. CASE \E g \in G : s = f[g]  BY <2>2 DEF Apart, LeftFrom
  <2> QED  BY <2>1, <2>2 DEF LeftFrom
<1>7. ASSUME NEW number, Fresh(number, q, out) PROVE Fresh(number, q2, out2)
  <2>1. \A p \in Spots(q2) : At(q2, p).packet # number  BY <1>1, <1>7 DEF Fresh
  <2>2. ASSUME NEW s \in out2 PROVE s.packet # number
    <3>1. CASE s \in out  BY <1>7, <3>1 DEF Fresh
    <3>2. CASE \E g \in G : s = f[g]  BY <1>7, <3>2 DEF Fresh, LeftFrom
    <3> QED  BY <3>1, <3>2 DEF LeftFrom
  <2> QED  BY <2>1, <2>2 DEF Fresh
<1> QED  BY <1>2, <1>3, <1>4, <1>5, <1>6, <1>7 DEF Apart

\* What stays in the queues waits with the same hop.
LEMMA ThinnedStaysRouted ==
  ASSUME NEW q, NEW q2, NEW G, NEW e, AllFor(q), ThinnedBy(q2, q, G, e)
  PROVE  AllFor(q2)
BY DEF AllFor, ThinnedBy, IsFor

\* Some requests of q, some of them without their first packets.
EmbeddedBy(q2, q, G, e, d) ==
  /\ e \in [DOMAIN q2 -> DOMAIN q] /\ d \in [DOMAIN q2 -> Nat]
  /\ \A j, k \in DOMAIN q2 : e[j] = e[k] => j = k
  /\ \A k \in DOMAIN q2 : q2[k].ip = q[e[k]].ip /\ q2[k].packets # <<>>
  /\ \A k \in DOMAIN q2 : \A i \in DOMAIN q2[k].packets :
       /\ i \in Nat /\ i + d[k] \in DOMAIN q[e[k]].packets
       /\ q2[k].packets[i].packet = q[e[k]].packets[i + d[k]].packet
       /\ q2[k].packets[i].dst = q[e[k]].packets[i + d[k]].dst
       /\ <<e[k], i + d[k]>> \notin G

\* Such queues are tidy, and thinned.
LEMMA EmbeddedIsThinned ==
  ASSUME NEW q, NEW q2, NEW G, NEW e, NEW d, EmbeddedBy(q2, q, G, e, d), Tidy(q)
  PROVE  Tidy(q2) /\ \E h : ThinnedBy(q2, q, G, h)
<1>1. Tidy(q2)
  <2>1. ASSUME NEW j \in DOMAIN q2, NEW k \in DOMAIN q2, j # k PROVE q2[j].ip # q2[k].ip
    <3>1. e[j] # e[k] /\ e[j] \in DOMAIN q /\ e[k] \in DOMAIN q  BY <2>1 DEF EmbeddedBy
    <3>2. q[e[j]].ip # q[e[k]].ip  BY <3>1 DEF Tidy
    <3> QED  BY <3>2 DEF EmbeddedBy
  <2> QED  BY <2>1 DEF Tidy, EmbeddedBy
<1> DEFINE h == [p \in Spots(q2) |-> <<e[p[1]], p[2] + d[p[1]]>>]
<1>2. ASSUME NEW p \in Spots(q2)
      PROVE  /\ p[1] \in DOMAIN q2 /\ p[2] \in DOMAIN q2[p[1]].packets
             /\ p[2] \in Nat /\ p = <<p[1], p[2]>>
  <2>1. p \in (DOMAIN q2) \X Nat /\ p[2] \in DOMAIN q2[p[1]].packets  BY DEF Spots
  <2>2. p[1] \in DOMAIN q2 /\ p[2] \in Nat /\ p = <<p[1], p[2]>>  BY <2>1
  <2> QED  BY <2>1, <2>2
<1>3. ASSUME NEW p \in Spots(q2)
      PROVE  /\ h[p] \in Spots(q) /\ h[p] \notin G
             /\ At(q2, p).packet = At(q, h[p]).packet
             /\ At(q2, p).dst = At(q, h[p]).dst
             /\ q2[p[1]].ip = q[h[p][1]].ip
  <2> DEFINE k == p[1]
             i == p[2]
  <2>1. k \in DOMAIN q2 /\ i \in DOMAIN q2[k].packets /\ i \in Nat /\ h[p] = <<e[k], i + d[k]>>
    BY <1>2
  <2> HIDE DEF k, i, h
  <2>2. e[k] \in DOMAIN q /\ d[k] \in Nat /\ q2[k].ip = q[e[k]].ip  BY <2>1 DEF EmbeddedBy
  <2>3. /\ i + d[k] \in DOMAIN q[e[k]].packets
        /\ q2[k].packets[i].packet = q[e[k]].packets[i + d[k]].packet
        /\ q2[k].packets[i].dst = q[e[k]].packets[i + d[k]].dst
        /\ <<e[k], i + d[k]>> \notin G
    BY <2>1 DEF EmbeddedBy
  <2>4. i + d[k] \in Nat  BY <2>1, <2>2
  <2>5. h[p][1] = e[k] /\ h[p][2] = i + d[k]  BY <2>1
  <2>6. <<e[k], i + d[k]>> \in (DOMAIN q) \X Nat  BY <2>2, <2>4
  <2>7. h[p] \in (DOMAIN q) \X Nat  BY <2>1, <2>6
  <2>8. h[p] \in Spots(q)  BY <2>3, <2>5, <2>7 DEF Spots
  <2> QED  BY <2>1, <2>2, <2>3, <2>5, <2>8 DEF At, k, i
<1>4. ASSUME NEW p \in Spots(q2), NEW r \in Spots(q2), h[p] = h[r] PROVE p = r
  <2>1. h[p] = <<e[p[1]], p[2] + d[p[1]]>> /\ h[r] = <<e[r[1]], r[2] + d[r[1]]>>  OBVIOUS
  <2>2. e[p[1]] = e[r[1]] /\ p[2] + d[p[1]] = r[2] + d[r[1]]  BY <1>4, <2>1
  <2>3. p[1] = r[1]  BY <1>2, <2>2 DEF EmbeddedBy
  <2>4. d[p[1]] \in Nat /\ p[2] \in Nat /\ r[2] \in Nat  BY <1>2 DEF EmbeddedBy
  <2>5. p[2] = r[2]  BY <2>2, <2>3, <2>4
  <2> QED  BY <1>2, <2>3, <2>5
<1>5. ThinnedBy(q2, q, G, h)
  <2>1. h \in [Spots(q2) -> Spots(q) \ G]  BY <1>3
  <2> HIDE DEF h
  <2> QED  BY <1>3, <1>4, <2>1 DEF ThinnedBy
<1> QED  BY <1>1, <1>5

\* The states of the cache.
CacheShape == [entries : [Index -> Entry], requests : Seq(Request)]

\* No two valid entries are for the same address.
MapsOnce(entries) ==
  \A i, j \in Index :
    i # j /\ entries[i].valid # 0 /\ entries[j].valid # 0 => entries[i].ip # entries[j].ip

\* The fields of the requests.
LEMMA RequestFacts ==
  ASSUME NEW q \in Seq(Request)
  PROVE  /\ Len(q) \in Nat /\ DOMAIN q = 1 .. Len(q)
         /\ \A k \in DOMAIN q : /\ q[k] \in Request /\ q[k].ip \in NextHops
                                /\ q[k].packets \in Seq(Message)
                                /\ Len(q[k].packets) \in Nat
                                /\ DOMAIN q[k].packets = 1 .. Len(q[k].packets)
                                /\ \A i \in DOMAIN q[k].packets : q[k].packets[i] \in Message
<1>1. Len(q) \in Nat /\ DOMAIN q = 1 .. Len(q)  BY LenProperties
<1>2. \A k \in DOMAIN q : q[k] \in Request  BY <1>1, ElementOfSeq
<1>3. \A r \in Request : r.ip \in NextHops /\ r.packets \in Seq(Message)  BY DEF Request
<1>4. \A p \in Seq(Message) : /\ Len(p) \in Nat /\ DOMAIN p = 1 .. Len(p)
                              /\ \A i \in DOMAIN p : p[i] \in Message
  BY LenProperties, ElementOfSeq
<1> QED  BY <1>1, <1>2, <1>3, <1>4

\* What is at a place of the queues.
LEMMA SpotFacts ==
  ASSUME NEW q \in Seq(Request), NEW p \in Spots(q)
  PROVE  /\ p[1] \in DOMAIN q /\ p[2] \in DOMAIN q[p[1]].packets /\ p = <<p[1], p[2]>>
         /\ p[1] \in Nat /\ p[2] \in Nat
         /\ At(q, p) \in Message /\ q[p[1]].ip \in NextHops
<1>1. p \in (DOMAIN q) \X Nat /\ p[2] \in DOMAIN q[p[1]].packets  BY DEF Spots
<1>2. p[1] \in DOMAIN q /\ p[2] \in Nat /\ p = <<p[1], p[2]>>  BY <1>1
<1>3. p[1] \in Nat  BY <1>2, RequestFacts
<1>4. At(q, p) \in Message /\ q[p[1]].ip \in NextHops  BY <1>1, <1>2, RequestFacts DEF At
<1> QED  BY <1>1, <1>2, <1>3, <1>4

\* Every packet of every request is at a place.
LEMMA SpotIntro ==
  ASSUME NEW q \in Seq(Request), NEW k \in DOMAIN q, NEW i \in DOMAIN q[k].packets
  PROVE  <<k, i>> \in Spots(q) /\ At(q, <<k, i>>) = q[k].packets[i]
<1>1. i \in Nat  BY RequestFacts
<1>2. <<k, i>> \in (DOMAIN q) \X Nat  BY <1>1
<1> QED  BY <1>2 DEF Spots, At

\* First is the least of a set of numbers.
LEMMA FirstFacts ==
  ASSUME NEW S \in SUBSET Nat, S # {}
  PROVE  First(S) \in S /\ \A j \in S : First(S) <= j
<1>1. \E i \in S : \A j \in S : i <= j  BY LeastExists
<1> QED  BY <1>1 DEF First

\* What is chosen are the elements at those places, each once.
LEMMA ChosenFacts ==
  ASSUME NEW S, NEW s \in Seq(S), NEW places \in SUBSET DOMAIN s
  PROVE  /\ Chosen(s, places) \in Seq(S)
         /\ \E e \in [DOMAIN Chosen(s, places) -> places] :
              /\ \A j, k \in DOMAIN Chosen(s, places) : e[j] = e[k] => j = k
              /\ \A k \in DOMAIN Chosen(s, places) : Chosen(s, places)[k] = s[e[k]]
<1> DEFINE c == Cardinality(places)
           at == Ascending(places)
<1>1. DOMAIN s = 1 .. Len(s) /\ Len(s) \in Nat  BY LenProperties
<1>2. places \in SUBSET (1 .. Len(s))  BY <1>1
<1>3. Chosen(s, places) = [k \in DOMAIN at |-> s[at[k]]]  BY DEF Chosen
<1> HIDE DEF at
<1>4. IsAscending(at, places) /\ c \in Nat  BY <1>1, <1>2, AscendingLists DEF at
<1>5. at \in [1 .. c -> places]  BY <1>4 DEF IsAscending
<1>6. \A j, k \in 1 .. c : at[j] = at[k] => j = k
  <2>1. places \in SUBSET Int  BY <1>1, <1>2
  <2> QED  BY <1>4, <2>1, AscendingIsInjective
<1> HIDE DEF c
<1> DEFINE t == Chosen(s, places)
<1>7. t = [k \in 1 .. c |-> s[at[k]]]  BY <1>5, <1>3
<1> HIDE DEF t
<1>8. DOMAIN t = 1 .. c /\ \A k \in 1 .. c : t[k] = s[at[k]]  BY <1>7
<1>9. \A k \in 1 .. c : s[at[k]] \in S
  <2> TAKE k \in 1 .. c
  <2>1. at[k] \in 1 .. Len(s)  BY <1>2, <1>5
  <2> QED  BY <2>1, ElementOfSeq
<1>10. t \in Seq(S)
  <2>1. t \in [1 .. c -> S]  BY <1>7, <1>9
  <2> QED  BY <1>4, <2>1, IsASeq DEF c
<1>11. /\ at \in [DOMAIN t -> places]
       /\ \A j, k \in DOMAIN t : at[j] = at[k] => j = k
       /\ \A k \in DOMAIN t : t[k] = s[at[k]]
  BY <1>5, <1>6, <1>8
<1>12. \E e \in [DOMAIN t -> places] :
          /\ \A j, k \in DOMAIN t : e[j] = e[k] => j = k
          /\ \A k \in DOMAIN t : t[k] = s[e[k]]
  BY <1>11
<1> QED  BY <1>10, <1>12, Zenon DEF t

\* Some requests of q as they are, in their order.
LEMMA ChosenIsEmbedded ==
  ASSUME NEW q \in Seq(Request), Tidy(q), NEW places \in SUBSET DOMAIN q,
         NEW G, \A p \in Spots(q) : p[1] \in places => p \notin G
  PROVE  Chosen(q, places) \in Seq(Request) /\ \E e, d : EmbeddedBy(Chosen(q, places), q, G, e, d)
<1> DEFINE t == Chosen(q, places)
<1>1. t \in Seq(Request)  BY ChosenFacts
<1>2. PICK e \in [DOMAIN t -> places] :
        /\ \A j, k \in DOMAIN t : e[j] = e[k] => j = k
        /\ \A k \in DOMAIN t : t[k] = q[e[k]]
  BY ChosenFacts, SMTT(30)
<1> HIDE DEF t
<1> DEFINE d == [k \in DOMAIN t |-> 0]
<1>3. EmbeddedBy(t, q, G, e, d)
  <2>1. e \in [DOMAIN t -> DOMAIN q] /\ d \in [DOMAIN t -> Nat]  BY <1>2
  <2>2. ASSUME NEW k \in DOMAIN t PROVE t[k].ip = q[e[k]].ip /\ t[k].packets # <<>>
    BY <1>2, <2>1 DEF Tidy
  <2>3. ASSUME NEW k \in DOMAIN t, NEW i \in DOMAIN t[k].packets
        PROVE  /\ i \in Nat /\ i + d[k] \in DOMAIN q[e[k]].packets
               /\ t[k].packets[i] = q[e[k]].packets[i + d[k]]
               /\ <<e[k], i + d[k]>> \notin G
    <3>1. t[k] = q[e[k]] /\ e[k] \in DOMAIN q /\ e[k] \in places  BY <1>2
    <3>2. i \in Nat  BY <3>1, RequestFacts
    <3>3. i + d[k] = i  BY <3>2
    <3>4. <<e[k], i>> \in Spots(q)  BY <3>1, SpotIntro
    <3>5. <<e[k], i>>[1] \in places  BY <3>1
    <3>6. <<e[k], i>> \notin G  BY <3>4, <3>5
    <3> HIDE DEF d
    <3> QED  BY <3>1, <3>2, <3>3, <3>6
  <2> HIDE DEF d
  <2> QED  BY <1>2, <2>1, <2>2, <2>3 DEF EmbeddedBy
<1> QED  BY <1>1, <1>3 DEF t

\* A reply is put into an entry of its own and takes the request for its
\* address away.
LEMMA InsertedFacts ==
  ASSUME NEW c \in CacheShape, NEW ip \in NextHops, NEW mac \in Mac, NEW i \in Places(c, ip),
         MapsOnce(c.entries), Tidy(c.requests)
  PROVE  /\ i \in Index /\ Inserted(c, ip, mac, i) \in CacheShape
         /\ MapsOnce(Inserted(c, ip, mac, i).entries)
         /\ \E e, d : EmbeddedBy(Inserted(c, ip, mac, i).requests, c.requests,
                                 {p \in Spots(c.requests) : c.requests[p[1]].ip = ip}, e, d)
<1> DEFINE q == c.requests
           E == c.entries
           F == [E EXCEPT ![i] = [ip |-> ip, mac |-> mac, age |-> 0, valid |-> 1]]
           known == {j \in Index : E[j].valid # 0 /\ E[j].ip = ip}
           free == {j \in Index : E[j].valid = 0}
           eldest == {j \in Index : \A h \in Index : E[h].age <= E[j].age}
           G == {p \in Spots(q) : q[p[1]].ip = ip}
<1>1. q \in Seq(Request) /\ E \in [Index -> Entry]  BY DEF CacheShape
<1>2. /\ Inserted(c, ip, mac, i).entries = F
      /\ Inserted(c, ip, mac, i).requests = Remaining(c, ip)
      /\ Inserted(c, ip, mac, i) = [entries |-> F, requests |-> Remaining(c, ip)]
  BY DEF Inserted
<1>3. Index \subseteq Nat  BY DEF Index
<1>4. /\ known # {} => i = First(known)
      /\ known = {} /\ free = {} => i \in eldest \/ i = First(eldest)
      /\ known = {} /\ free # {} => i = First(free)
  BY DEF Places
<1>5. known # {} => i \in known
  <2> SUFFICES ASSUME known # {} PROVE First(known) \in known  BY <1>4
  <2>1. known \in SUBSET Nat  BY <1>3
  <2> HIDE DEF known
  <2> QED  BY <2>1, FirstFacts
<1>6. free # {} => First(free) \in free
  <2>1. free \in SUBSET Nat  BY <1>3
  <2> HIDE DEF free
  <2> QED  BY <2>1, FirstFacts
<1>7. eldest # {} => First(eldest) \in eldest
  <2>1. eldest \in SUBSET Nat  BY <1>3
  <2> HIDE DEF eldest
  <2> QED  BY <2>1, FirstFacts
<1>8. eldest # {}
  <2>1. \A j \in Index : E[j].age \in 0 .. EntryTimeout + 1  BY <1>1 DEF Entry
  <2> DEFINE Ages == {E[j].age : j \in Index}
             n == EntryTimeout + 1
  <2>2. n \in Nat /\ 1 \in Index  BY ArpAssumption DEF Index
  <2>3. Ages \in SUBSET (0 .. n) /\ Ages # {}  BY <2>1, <2>2
  <2> HIDE DEF n, Ages
  <2>4. PICK a \in Ages : \A b \in Ages : b <= a  BY <2>2, <2>3, GreatestExists
  <2>5. PICK j \in Index : a = E[j].age  BY DEF Ages
  <2>6. \A h \in Index : E[h].age <= E[j].age  BY <2>4, <2>5 DEF Ages
  <2> QED  BY <2>6
<1>9. i \in Index
  <2>1. CASE known # {}  BY <1>5, <2>1
  <2>2. CASE known = {} /\ free = {}
    <3> HIDE DEF eldest, known, free
    <3>1. i \in eldest  BY <1>4, <1>7, <1>8, <2>2
    <3> QED  BY <3>1 DEF eldest
  <2>3. CASE known = {} /\ free # {}
    <3> HIDE DEF eldest, known, free
    <3>1. i \in free  BY <1>4, <1>6, <2>3
    <3> QED  BY <3>1 DEF free
  <2> QED  BY <2>1, <2>2, <2>3
<1>10. F \in [Index -> Entry]
  <2>1. [ip |-> ip, mac |-> mac, age |-> 0, valid |-> 1] \in Entry
    BY ArpAssumption DEF Entry
  <2> QED  BY <1>1, <2>1
<1>11. MapsOnce(F)
  <2>1. /\ F[i].ip = ip
        /\ \A j \in Index \ {i} : F[j] = E[j]
    BY <1>1, <1>9
  <2>2. ASSUME NEW j \in Index \ {i}, E[j].valid # 0 PROVE E[j].ip # ip
    <3>1. CASE known # {}
      <4>1. i \in known  BY <1>5, <3>1
      <4> QED  BY <2>2, <4>1 DEF MapsOnce
    <3>2. CASE known = {}  BY <2>2, <3>2
    <3> QED  BY <3>1, <3>2
  <2> HIDE DEF F
  <2> QED  BY <2>1, <2>2 DEF MapsOnce
<1> DEFINE places == DOMAIN q \ Waiting(c, ip)
<1>12. Remaining(c, ip) = Chosen(q, places)  BY DEF Remaining
<1>13. ASSUME NEW p \in Spots(q), p[1] \in places PROVE p \notin G
  BY <1>13 DEF Waiting
<1>14. Chosen(q, places) \in Seq(Request) /\ \E e, d : EmbeddedBy(Chosen(q, places), q, G, e, d)
  <2> HIDE DEF G
  <2>1. places \in SUBSET DOMAIN q  OBVIOUS
  <2> HIDE DEF places
  <2> QED  BY <1>1, <1>13, <2>1, ChosenIsEmbedded
<1>15. Inserted(c, ip, mac, i) \in CacheShape
  <2> HIDE DEF F
  <2> QED  BY <1>2, <1>10, <1>12, <1>14 DEF CacheShape
<1> QED  BY <1>2, <1>9, <1>11, <1>12, <1>14, <1>15

\* Asking again changes nothing of a request but its counters.
LEMMA RetriedFacts ==
  ASSUME NEW r \in Request
  PROVE  Retried(r) \in Request /\ Retried(r).ip = r.ip /\ Retried(r).packets = r.packets
<1>1. CASE IsRepeated(r)
  <2>1. Retried(r) = [r EXCEPT !.retries = @ + 1, !.age = 0]  BY <1>1 DEF Retried
  <2>2. r.retries + 1 \in 0 .. MaxRetries + 1
    <3>1. r.retries \in 0 .. MaxRetries + 1 /\ ~(r.retries > MaxRetries)
      BY <1>1 DEF IsRepeated, GivenUp, Request
    <3>2. MaxRetries \in Nat  BY ArpAssumption
    <3> QED  BY <3>1, <3>2
  <2> DEFINE s == [r EXCEPT !.retries = @ + 1, !.age = 0]
             n == r.retries + 1
  <2>3. s = [r EXCEPT !.retries = n, !.age = 0]  OBVIOUS
  <2> HIDE DEF s, n
  <2>4. n \in 0 .. MaxRetries + 1  BY <2>2 DEF n
  <2>5. s = [ip |-> r.ip, age |-> 0, retries |-> n, packets |-> r.packets]
    BY <2>3 DEF Request
  <2>6. s \in Request  BY <2>4, <2>5 DEF Request
  <2>7. s.ip = r.ip /\ s.packets = r.packets  BY <2>3 DEF Request
  <2> QED  BY <2>1, <2>6, <2>7 DEF s
<1>2. CASE ~IsRepeated(r)  BY <1>2 DEF Retried
<1> QED  BY <1>1, <1>2

\* The requests that are not given up stay, with their packets.
LEMMA PursuedIsEmbedded ==
  ASSUME NEW q \in Seq(Request), Tidy(q),
         NEW G, \A p \in Spots(q) : ~GivenUp(q[p[1]]) => p \notin G
  PROVE  /\ [k \in DOMAIN Pursued(q) |-> Retried(Pursued(q)[k])] \in Seq(Request)
         /\ \E e, d : EmbeddedBy([k \in DOMAIN Pursued(q) |-> Retried(Pursued(q)[k])], q, G, e, d)
<1> DEFINE kept == Pursued(q)
           t == [k \in DOMAIN kept |-> Retried(kept[k])]
           places == {k \in DOMAIN q : ~GivenUp(q[k])}
<1>1. kept = Chosen(q, places)  BY DEF Pursued
<1>2. \A p \in Spots(q) : p[1] \in places => p \notin G  OBVIOUS
<1>3. kept \in Seq(Request) /\ \E e, d : EmbeddedBy(kept, q, G, e, d)
  <2>1. places \in SUBSET DOMAIN q  OBVIOUS
  <2> HIDE DEF places
  <2> QED  BY <1>1, <1>2, <2>1, ChosenIsEmbedded
<1> HIDE DEF kept
<1>4. PICK e, d : EmbeddedBy(kept, q, G, e, d)  BY <1>3
<1>5. /\ DOMAIN t = DOMAIN kept
      /\ \A k \in DOMAIN kept : /\ t[k] \in Request /\ t[k].ip = kept[k].ip
                                /\ t[k].packets = kept[k].packets
  BY <1>3, RequestFacts, RetriedFacts
<1>6. DOMAIN kept = 1 .. Len(kept) /\ Len(kept) \in Nat  BY <1>3, LenProperties
<1>7. t \in Seq(Request)
  <2>1. t \in [1 .. Len(kept) -> Request]  BY <1>5, <1>6
  <2> HIDE DEF t
  <2> QED  BY <1>6, <2>1
<1> HIDE DEF t
<1>8. EmbeddedBy(t, q, G, e, d)
  <2>1. /\ e \in [DOMAIN t -> DOMAIN q] /\ d \in [DOMAIN t -> Nat]
        /\ \A j, k \in DOMAIN t : e[j] = e[k] => j = k
    BY <1>4, <1>5 DEF EmbeddedBy
  <2>2. \A k \in DOMAIN t : t[k].ip = q[e[k]].ip /\ t[k].packets # <<>>
    BY <1>4, <1>5 DEF EmbeddedBy
  <2>3. ASSUME NEW k \in DOMAIN t, NEW i \in DOMAIN t[k].packets
        PROVE  /\ i \in Nat /\ i + d[k] \in DOMAIN q[e[k]].packets
               /\ t[k].packets[i].packet = q[e[k]].packets[i + d[k]].packet
               /\ t[k].packets[i].dst = q[e[k]].packets[i + d[k]].dst
               /\ <<e[k], i + d[k]>> \notin G
    <3>1. k \in DOMAIN kept /\ i \in DOMAIN kept[k].packets /\ t[k].packets = kept[k].packets
      BY <1>5, <2>3
    <3> QED  BY <1>4, <3>1 DEF EmbeddedBy
  <2> QED  BY <2>1, <2>2, <2>3 DEF EmbeddedBy
<1> QED  BY <1>7, <1>8 DEF t, kept

\* An entry that expires is only made invalid.
LEMMA KeptFacts ==
  ASSUME NEW entries \in [Index -> Entry], MapsOnce(entries)
  PROVE  /\ [i \in Index |-> Kept(entries[i])] \in [Index -> Entry]
         /\ MapsOnce([i \in Index |-> Kept(entries[i])])
<1> DEFINE F == [i \in Index |-> Kept(entries[i])]
<1>1. ASSUME NEW i \in Index
      PROVE  F[i] \in Entry /\ F[i].ip = entries[i].ip /\ (F[i].valid # 0 => entries[i].valid # 0)
  <2> DEFINE x == entries[i]
  <2>1. x \in Entry /\ F[i] = Kept(x)  OBVIOUS
  <2> HIDE DEF x, F
  <2>2. CASE x.valid # 0 /\ x.age > EntryTimeout
    <3>1. F[i] = [x EXCEPT !.valid = 0]  BY <2>1, <2>2 DEF Kept
    <3> QED  BY <2>1, <2>2, <3>1 DEF Entry, x
  <2>3. CASE ~(x.valid # 0 /\ x.age > EntryTimeout)
    <3>1. F[i] = x  BY <2>1, <2>3 DEF Kept
    <3> QED  BY <2>1, <3>1 DEF x
  <2> QED  BY <2>2, <2>3
<1>2. F \in [Index -> Entry]  BY <1>1
<1> HIDE DEF F
<1>3. MapsOnce(F)  BY <1>1 DEF MapsOnce
<1> QED  BY <1>2, <1>3 DEF F

\* A sweep takes away the requests that it gives up, with their packets.
LEMMA SweptFacts ==
  ASSUME NEW c \in CacheShape, MapsOnce(c.entries), Tidy(c.requests)
  PROVE  /\ Swept(c) \in CacheShape /\ MapsOnce(Swept(c).entries)
         /\ \E e, d : EmbeddedBy(Swept(c).requests, c.requests,
                                 {p \in Spots(c.requests) : GivenUp(c.requests[p[1]])}, e, d)
<1> DEFINE q == c.requests
           t == [k \in DOMAIN Pursued(q) |-> Retried(Pursued(q)[k])]
           F == [i \in Index |-> Kept(c.entries[i])]
           G == {p \in Spots(q) : GivenUp(q[p[1]])}
<1>1. q \in Seq(Request) /\ c.entries \in [Index -> Entry]  BY DEF CacheShape
<1>2. Swept(c) = [entries |-> F, requests |-> t]  BY DEF Swept
<1>3. F \in [Index -> Entry] /\ MapsOnce(F)  BY <1>1, KeptFacts
<1>4. t \in Seq(Request) /\ \E e, d : EmbeddedBy(t, q, G, e, d)
  <2>1. \A p \in Spots(q) : ~GivenUp(q[p[1]]) => p \notin G  OBVIOUS
  <2> HIDE DEF G
  <2> QED  BY <1>1, <2>1, PursuedIsEmbedded
<1> HIDE DEF t, F
<1>5. Swept(c) \in CacheShape  BY <1>2, <1>3, <1>4 DEF CacheShape
<1>6. Swept(c).entries = F /\ Swept(c).requests = t  BY <1>2
<1> QED  BY <1>3, <1>4, <1>5, <1>6

\* Ages are bounded.
LEMMA OlderFacts ==
  ASSUME NEW limit \in Nat, NEW age \in 0 .. limit
  PROVE  Older(age, limit) \in 0 .. limit
BY DEF Older

\* A second that passes changes only ages.
LEMMA AgedFacts ==
  ASSUME NEW c \in CacheShape, MapsOnce(c.entries), Tidy(c.requests)
  PROVE  /\ Aged(c) \in CacheShape /\ MapsOnce(Aged(c).entries)
         /\ \E e, d : EmbeddedBy(Aged(c).requests, c.requests, {}, e, d)
<1> DEFINE q == c.requests
           t == [k \in DOMAIN q |-> [q[k] EXCEPT !.age = Older(@, 2)]]
           E == c.entries
           F == [i \in Index |-> IF E[i].valid = 0 THEN E[i]
                                 ELSE [E[i] EXCEPT !.age = Older(@, EntryTimeout + 1)]]
<1>1. q \in Seq(Request) /\ E \in [Index -> Entry]  BY DEF CacheShape
<1>2. Aged(c) = [entries |-> F, requests |-> t]  BY DEF Aged
<1> HIDE DEF q, E
<1>3. ASSUME NEW i \in Index
      PROVE  F[i] \in Entry /\ F[i].ip = E[i].ip /\ F[i].valid = E[i].valid
  <2> DEFINE x == E[i]
             n == EntryTimeout + 1
  <2>1. x \in Entry /\ F[i] = IF x.valid = 0 THEN x ELSE [x EXCEPT !.age = Older(@, n)]
    BY <1>1
  <2>2. n \in Nat /\ x.age \in 0 .. n  BY <2>1, ArpAssumption DEF Entry
  <2>3. Older(x.age, n) \in 0 .. n
    <3> HIDE DEF x, n
    <3> QED  BY <2>2, OlderFacts
  <2> HIDE DEF x, F
  <2> QED  BY <2>1, <2>3 DEF Entry, x
<1>4. F \in [Index -> Entry]  BY <1>3
<1>5. MapsOnce(F)
  <2>1. MapsOnce(E)  BY DEF E
  <2> HIDE DEF F
  <2> QED  BY <1>3, <2>1 DEF MapsOnce
<1>6. ASSUME NEW k \in DOMAIN q
      PROVE  t[k] \in Request /\ t[k].ip = q[k].ip /\ t[k].packets = q[k].packets
  <2> DEFINE x == q[k]
  <2>1. x \in Request /\ t[k] = [x EXCEPT !.age = Older(@, 2)]  BY <1>1, RequestFacts
  <2>2. Older(x.age, 2) \in 0 .. 2
    <3>1. x.age \in 0 .. 2  BY <2>1 DEF Request
    <3> HIDE DEF x
    <3> QED  BY <3>1, OlderFacts
  <2> HIDE DEF x, t
  <2> QED  BY <2>1, <2>2 DEF Request, x
<1>7. DOMAIN q = 1 .. Len(q) /\ Len(q) \in Nat  BY <1>1, RequestFacts
<1>8. t \in Seq(Request) /\ DOMAIN t = DOMAIN q
  <2>1. t \in [1 .. Len(q) -> Request]  BY <1>6, <1>7
  <2>2. DOMAIN t = DOMAIN q  OBVIOUS
  <2> HIDE DEF t
  <2> QED  BY <1>7, <2>1, <2>2
<1> HIDE DEF t, F
<1> DEFINE e == [k \in DOMAIN q |-> k]
           d == [k \in DOMAIN q |-> 0]
<1>9. EmbeddedBy(t, q, {}, e, d)
  <2>1. /\ e \in [DOMAIN q -> DOMAIN q] /\ d \in [DOMAIN q -> Nat]
        /\ \A k \in DOMAIN q : e[k] = k /\ d[k] = 0
    OBVIOUS
  <2>2. \A k \in DOMAIN q : q[k].packets # <<>>  BY DEF Tidy, q
  <2>3. ASSUME NEW k \in DOMAIN q, NEW i \in DOMAIN q[k].packets PROVE i \in Nat /\ i + 0 = i
    <3>1. i \in Nat  BY <1>1, RequestFacts
    <3> QED  BY <3>1
  <2> HIDE DEF e, d
  <2> QED  BY <1>6, <1>8, <2>1, <2>2, <2>3 DEF EmbeddedBy
<1>10. Aged(c) \in CacheShape  BY <1>2, <1>4, <1>8 DEF CacheShape
<1>11. Aged(c).entries = F /\ Aged(c).requests = t  BY <1>2
<1> QED  BY <1>5, <1>9, <1>10, <1>11 DEF q

\* The places before the n-th packet of the k-th request that a sweep gives up.
GivenUpBefore(q, k, n) ==
  {p \in Spots(q) : \/ p[1] < k /\ GivenUp(q[p[1]])
                    \/ p[1] = k /\ p[2] < n}

\* A sweep that does not come back took away the packets before the one it
\* stopped at, and left the requests behind it as they were.
LEMMA SweptUpToIsEmbedded ==
  ASSUME NEW q \in Seq(Request), Tidy(q), NEW k \in DOMAIN q, NEW n \in DOMAIN q[k].packets,
         NEW A \in Seq(Request), NEW f, NEW g,
         EmbeddedBy(A, SubSeq(q, 1, k - 1), GivenUpBefore(q, k, n), f, g)
  PROVE  LET cut == [q[k] EXCEPT !.packets = SubSeq(@, n, Len(@))]
             t == A \o <<cut>> \o SubSeq(q, k + 1, Len(q))
         IN  t \in Seq(Request) /\ \E e, d : EmbeddedBy(t, q, GivenUpBefore(q, k, n), e, d)
<1> DEFINE before == SubSeq(q, 1, k - 1)
           old == q[k]
           rest == SubSeq(q, k + 1, Len(q))
           G == GivenUpBefore(q, k, n)
           packets == SubSeq(old.packets, n, Len(old.packets))
           cut == [old EXCEPT !.packets = SubSeq(@, n, Len(@))]
           t == A \o <<cut>> \o rest
           a == Len(A)
           m == Len(q)
<1>1. /\ m \in Nat /\ DOMAIN q = 1 .. m /\ k \in 1 .. m
      /\ old \in Request /\ old.packets \in Seq(Message) /\ Len(old.packets) \in Nat
      /\ DOMAIN old.packets = 1 .. Len(old.packets) /\ n \in 1 .. Len(old.packets)
  BY RequestFacts
<1>2. /\ before \in Seq(Request) /\ DOMAIN before = 1 .. k - 1
      /\ \A j \in 1 .. k - 1 : before[j] = q[j]
  <2>1. \A j \in 1 .. k - 1 : q[j] \in Request  BY <1>1, RequestFacts
  <2>2. k - 1 \in Nat  BY <1>1
  <2>3. /\ before \in Seq(Request)
        /\ Len(before) = IF 1 <= k - 1 THEN k - 1 - 1 + 1 ELSE 0
        /\ \A j \in 1 .. k - 1 - 1 + 1 : before[j] = q[1 + j - 1]
    BY <2>1, <2>2, SubSeqProperties
  <2> HIDE DEF before
  <2>4. Len(before) = k - 1  BY <2>2, <2>3
  <2>5. k - 1 - 1 + 1 = k - 1 /\ \A j \in 1 .. k - 1 : 1 + j - 1 = j  BY <2>2
  <2> QED  BY <2>3, <2>4, <2>5, LenProperties
<1>3. /\ rest \in Seq(Request) /\ Len(rest) = m - k
      /\ \A j \in 1 .. m - k : rest[j] = q[k + j]
  <2>1. \A j \in k + 1 .. m : q[j] \in Request  BY <1>1, RequestFacts
  <2>2. k + 1 \in Int /\ m \in Int  BY <1>1
  <2>3. /\ rest \in Seq(Request)
        /\ Len(rest) = IF k + 1 <= m THEN m - (k + 1) + 1 ELSE 0
        /\ \A j \in 1 .. m - (k + 1) + 1 : rest[j] = q[k + 1 + j - 1]
    BY <2>1, <2>2, SubSeqProperties
  <2> HIDE DEF rest, m
  <2>4. Len(rest) = m - k  BY <1>1, <2>3
  <2>5. m - (k + 1) + 1 = m - k /\ \A j \in 1 .. m - k : k + 1 + j - 1 = k + j  BY <1>1
  <2> QED  BY <2>3, <2>4, <2>5
<1>4. /\ packets \in Seq(Message) /\ packets # <<>>
      /\ DOMAIN packets = 1 .. Len(old.packets) - n + 1
      /\ \A i \in DOMAIN packets : packets[i] = old.packets[i + (n - 1)]
  <2> DEFINE p == old.packets
             l == Len(p)
  <2>1. \A i \in n .. l : p[i] \in Message
    <3>1. \A i \in 1 .. l : p[i] \in Message  BY <1>1, ElementOfSeq
    <3> QED  BY <1>1, <3>1
  <2>2. n \in Int /\ l \in Int /\ n <= l /\ n \in Nat  BY <1>1
  <2>3. /\ packets \in Seq(Message)
        /\ Len(packets) = IF n <= l THEN l - n + 1 ELSE 0
        /\ \A i \in 1 .. l - n + 1 : packets[i] = p[n + i - 1]
    <3>1. packets = SubSeq(p, n, l)  OBVIOUS
    <3> HIDE DEF packets, p, l
    <3> QED  BY <2>1, <2>2, <3>1, SubSeqProperties
  <2> HIDE DEF packets, p, l
  <2>4. Len(packets) = l - n + 1 /\ Len(packets) # 0  BY <2>2, <2>3
  <2>5. DOMAIN packets = 1 .. l - n + 1  BY <2>3, <2>4, LenProperties
  <2>6. packets # <<>>  BY <2>4, EmptySeq
  <2>7. \A i \in 1 .. l - n + 1 : n + i - 1 = i + (n - 1)  BY <2>2
  <2>8. \A i \in DOMAIN packets : packets[i] = p[i + (n - 1)]  BY <2>3, <2>5, <2>7
  <2> QED  BY <2>3, <2>5, <2>6, <2>8 DEF p, l
<1> HIDE DEF packets
<1>5. cut \in Request /\ cut.packets = packets /\ cut.ip = old.ip
  <2>1. cut = [old EXCEPT !.packets = packets]  BY DEF packets
  <2> HIDE DEF cut, old
  <2> QED  BY <1>1, <1>4, <2>1 DEF Request
<1>6. a \in Nat /\ DOMAIN A = 1 .. a /\ \A j \in 1 .. a : A[j] \in Request
  BY RequestFacts
<1>7. /\ f \in [1 .. a -> 1 .. k - 1] /\ g \in [1 .. a -> Nat]
      /\ \A i, j \in 1 .. a : f[i] = f[j] => i = j
  BY <1>2, <1>6 DEF EmbeddedBy
<1> HIDE DEF cut, rest, before
<1>8. /\ t \in Seq(Request) /\ Len(t) = a + 1 + (m - k)
      /\ \A j \in 1 .. a : t[j] = A[j]
      /\ t[a + 1] = cut
      /\ \A j \in a + 2 .. a + 1 + (m - k) : t[j] = q[k + (j - a - 1)]
  <2> HIDE DEF m
  <2> DEFINE u == A \o <<cut>>
  <2>1. <<cut>> \in Seq(Request) /\ Len(<<cut>>) = 1 /\ <<cut>>[1] = cut  BY <1>5
  <2> DEFINE one == <<cut>>
  <2>2. u = A \o one OBVIOUS
  <2> HIDE DEF one, u
  <2>3. /\ u \in Seq(Request) /\ Len(u) = a + Len(one)
        /\ \A i \in 1 .. a + Len(one) : u[i] = IF i <= a THEN A[i] ELSE one[i - a]
    <3>1. one \in Seq(Request)  BY <2>1 DEF one
    <3> QED  BY <2>2, <3>1, ConcatProperties
  <2>4. Len(one) = 1 /\ one[1] = cut  BY <2>1 DEF one
  <2>5. Len(u) = a + 1  BY <2>3, <2>4
  <2>6. t = u \o rest  BY DEF u
  <2> HIDE DEF t
  <2>7. /\ t \in Seq(Request) /\ Len(t) = Len(u) + Len(rest)
        /\ \A i \in 1 .. Len(u) + Len(rest) : t[i] = IF i <= Len(u) THEN u[i] ELSE rest[i - Len(u)]
    <3>1. u \in Seq(Request) /\ rest \in Seq(Request)  BY <1>3, <2>3
    <3> QED  BY <2>6, <3>1, ConcatProperties
  <2> HIDE DEF a
  <2>8. m - k \in Nat  BY <1>1
  <2>9. Len(u) + Len(rest) = a + 1 + (m - k)  BY <1>3, <1>6, <2>5, <2>8
  <2>10. \A j \in 1 .. a : t[j] = A[j]
    <3> TAKE j \in 1 .. a
    <3>1. j \in 1 .. a + 1 + (m - k) /\ j <= a /\ j <= a + 1 /\ j \in 1 .. a + 1  BY <1>6, <2>8
    <3>2. t[j] = u[j]  BY <2>5, <2>7, <2>9, <3>1
    <3>3. u[j] = A[j]  BY <2>3, <2>4, <3>1
    <3> QED  BY <3>2, <3>3
  <2>11. t[a + 1] = cut
    <3>1. a + 1 \in 1 .. a + 1 + (m - k) /\ ~(a + 1 <= a) /\ a + 1 \in 1 .. a + 1 /\ a + 1 - a = 1
          /\ a + 1 <= a + 1
      BY <1>6, <2>8
    <3>2. t[a + 1] = u[a + 1]  BY <2>5, <2>7, <2>9, <3>1
    <3> DEFINE x == a + 1
    <3>3. x \in 1 .. a + Len(one) /\ ~(x <= a) /\ x - a = 1  BY <1>6, <2>4, <3>1
    <3> HIDE DEF x
    <3>4. u[x] = one[x - a]  BY <2>3, <3>3
    <3>5. u[a + 1] = one[1]  BY <3>3, <3>4 DEF x
    <3> QED  BY <2>4, <3>2, <3>5
  <2>12. \A j \in a + 2 .. a + 1 + (m - k) : t[j] = q[k + (j - a - 1)]
    <3> TAKE j \in a + 2 .. a + 1 + (m - k)
    <3>1. j \in 1 .. a + 1 + (m - k) /\ ~(j <= a + 1) /\ j - (a + 1) \in 1 .. m - k
          /\ j - (a + 1) = j - a - 1
      BY <1>6, <2>8
    <3>2. t[j] = rest[j - (a + 1)]  BY <2>5, <2>7, <2>9, <3>1
    <3> QED  BY <1>3, <3>1, <3>2
  <2> QED  BY <2>7, <2>10, <2>11, <2>12, <2>9
<1> DEFINE last == a + 1 + (m - k)
           e == [j \in 1 .. last |-> IF j <= a THEN f[j] ELSE k + (j - a - 1)]
           d == [j \in 1 .. last |-> IF j <= a THEN g[j] ELSE IF j = a + 1 THEN n - 1 ELSE 0]
<1>9. last \in Nat /\ m - k \in Nat  BY <1>1, <1>6
<1>10. DOMAIN t = 1 .. last  BY <1>8, LenProperties
<1>11. \A j \in 1 .. last : \/ j \in 1 .. a
                            \/ j = a + 1
                            \/ j \in a + 2 .. last
  <2> HIDE DEF a, last
  <2> QED  BY <1>6, <1>9
<1> HIDE DEF a, m, t, G, old
<1>12. \A j \in 1 .. a : e[j] = f[j] /\ d[j] = g[j] /\ e[j] \in 1 .. k - 1
  <2> TAKE j \in 1 .. a
  <2>1. j \in 1 .. last /\ j <= a  BY <1>1, <1>6, <1>9
  <2>2. e[j] = f[j] /\ d[j] = g[j]
    <3> HIDE DEF last
    <3> QED  BY <2>1
  <2>3. f[j] \in 1 .. k - 1
    <3> HIDE DEF e, d, last
    <3> QED  BY <1>7
  <2> HIDE DEF e, d, last
  <2> QED  BY <2>2, <2>3
<1>13. e[a + 1] = k /\ d[a + 1] = n - 1 /\ n - 1 \in Nat
  <2>1. a + 1 \in 1 .. last /\ ~(a + 1 <= a) /\ k + (a + 1 - a - 1) = k /\ n - 1 \in Nat
    BY <1>1, <1>6, <1>9
  <2>2. ASSUME NEW x \in 1 .. last, x = a + 1 PROVE e[x] = k /\ d[x] = n - 1
    <3>1. ~(x <= a) /\ k + (x - a - 1) = k  BY <1>1, <1>6, <2>2
    <3> HIDE DEF last
    <3>2. e[x] = k + (x - a - 1)  BY <3>1
    <3>3. d[x] = n - 1  BY <2>2, <3>1
    <3> QED  BY <3>1, <3>2, <3>3
  <2> HIDE DEF e, d, last
  <2> QED  BY <2>1, <2>2
<1>14. \A j \in a + 2 .. last : /\ e[j] = k + (j - a - 1) /\ d[j] = 0
                                /\ e[j] \in k + 1 .. m /\ j - a - 1 \in Nat
  <2> TAKE j \in a + 2 .. last
  <2>1. /\ j \in 1 .. last /\ ~(j <= a) /\ j # a + 1
        /\ k + (j - a - 1) \in k + 1 .. m /\ j - a - 1 \in Nat
    <3>1. /\ a \in Int /\ k \in Int /\ m \in Int /\ m - k \in Nat /\ a \in Nat
          /\ j \in Int /\ a + 2 <= j /\ j <= a + 1 + (m - k)
      <4>1. a \in Nat /\ k \in Int /\ m \in Int /\ m - k \in Nat  BY <1>1, <1>6, <1>9
      <4>2. last = a + 1 + (m - k) OBVIOUS
      <4> HIDE DEF e, d, last
      <4> QED  BY <4>1, <4>2
    <3>2. last = a + 1 + (m - k) OBVIOUS
    <3> HIDE DEF e, d, last
    <3>3. j \in 1 .. last /\ ~(j <= a) /\ j # a + 1  BY <3>1, <3>2
    <3>4. k + (j - a - 1) \in k + 1 .. m /\ j - a - 1 \in Nat  BY <3>1, SMTT(30)
    <3> QED  BY <3>3, <3>4
  <2>2. e[j] = k + (j - a - 1) /\ d[j] = 0
    <3> HIDE DEF last
    <3> QED  BY <2>1
  <2> HIDE DEF e, d, last
  <2> QED  BY <2>1, <2>2
<1>15. e \in [1 .. last -> 1 .. m] /\ d \in [1 .. last -> Nat]
  <2>1. ASSUME NEW j \in 1 .. last PROVE e[j] \in 1 .. m /\ d[j] \in Nat
    <3>1. CASE j \in 1 .. a
      <4>1. e[j] \in 1 .. k - 1 /\ d[j] \in Nat  BY <1>7, <1>12, <3>1
      <4> HIDE DEF e, d
      <4> QED  BY <1>1, <4>1
    <3>2. CASE j = a + 1
      <4> HIDE DEF e, d
      <4> QED  BY <1>1, <1>13, <3>2
    <3>3. CASE j \in a + 2 .. last
      <4> HIDE DEF e, d
      <4> QED  BY <1>1, <1>14, <3>3
    <3> QED  BY <1>11, <3>1, <3>2, <3>3
  <2> QED  BY <2>1
<1> HIDE DEF e, d
<1>16. \A i, j \in 1 .. last : e[i] = e[j] => i = j
  <2> SUFFICES ASSUME NEW i \in 1 .. last, NEW j \in 1 .. last, e[i] = e[j] PROVE i = j
    OBVIOUS
  <2>1. /\ i \in 1 .. a => e[i] < k
        /\ i = a + 1 => e[i] = k
        /\ i \in a + 2 .. last => e[i] > k /\ i = e[i] - k + a + 1
    <3>1. ASSUME i \in 1 .. a PROVE e[i] < k
      <4>1. e[i] \in 1 .. k - 1  BY <1>12, <3>1
      <4> QED  BY <1>1, <4>1
    <3>2. ASSUME i \in a + 2 .. last PROVE e[i] > k /\ i = e[i] - k + a + 1
      <4>1. e[i] = k + (i - a - 1) /\ e[i] \in k + 1 .. m  BY <1>14, <3>2
      <4>2. i \in Int /\ a \in Int /\ k \in Int /\ m \in Int  BY <1>1, <1>6, <1>9
      <4> HIDE DEF last
      <4> QED  BY <4>1, <4>2, SMTT(30)
    <3> QED  BY <1>13, <3>1, <3>2
  <2>2. /\ j \in 1 .. a => e[j] < k
        /\ j = a + 1 => e[j] = k
        /\ j \in a + 2 .. last => e[j] > k /\ j = e[j] - k + a + 1
    <3>1. ASSUME j \in 1 .. a PROVE e[j] < k
      <4>1. e[j] \in 1 .. k - 1  BY <1>12, <3>1
      <4> QED  BY <1>1, <4>1
    <3>2. ASSUME j \in a + 2 .. last PROVE e[j] > k /\ j = e[j] - k + a + 1
      <4>1. e[j] = k + (j - a - 1) /\ e[j] \in k + 1 .. m  BY <1>14, <3>2
      <4>2. j \in Int /\ a \in Int /\ k \in Int /\ m \in Int  BY <1>1, <1>6, <1>9
      <4> HIDE DEF last
      <4> QED  BY <4>1, <4>2, SMTT(30)
    <3> QED  BY <1>13, <3>1, <3>2
  <2>3. k \in Nat /\ e[i] \in Nat
    <3>1. e[i] \in 1 .. m  BY <1>15
    <3> QED  BY <1>1, <3>1
  <2>4. CASE i \in 1 .. a
    <3>1. j \in 1 .. a  BY <1>11, <2>1, <2>2, <2>3, <2>4
    <3> QED  BY <1>7, <1>12, <2>4, <3>1
  <2>5. CASE i = a + 1  BY <1>11, <2>1, <2>2, <2>3, <2>5
  <2>6. CASE i \in a + 2 .. last
    <3>1. j \in a + 2 .. last  BY <1>11, <2>1, <2>2, <2>3, <2>6
    <3> QED  BY <2>1, <2>2, <2>6, <3>1
  <2> QED  BY <1>11, <2>4, <2>5, <2>6
<1>17. ASSUME NEW j \in 1 .. last, NEW x, NEW y, x = t[j], y = q[e[j]],
              NEW i \in DOMAIN x.packets
       PROVE  /\ i \in Nat /\ i + d[j] \in DOMAIN y.packets
              /\ x.packets[i].packet = y.packets[i + d[j]].packet
              /\ x.packets[i].dst = y.packets[i + d[j]].dst
              /\ <<e[j], i + d[j]>> \notin G
  <2>1. CASE j \in 1 .. a
    <3>1. x = A[j] /\ e[j] = f[j] /\ d[j] = g[j] /\ f[j] \in 1 .. k - 1  BY <1>8, <1>12, <1>17, <2>1
    <3>2. y = before[f[j]]  BY <1>2, <1>17, <3>1
    <3>3. j \in DOMAIN A /\ i \in DOMAIN A[j].packets  BY <1>6, <1>17, <2>1, <3>1
    <3>4. EmbeddedBy(A, before, G, f, g)  BY DEF before, G
    <3>5. /\ i \in Nat /\ i + g[j] \in DOMAIN before[f[j]].packets
          /\ A[j].packets[i].packet = before[f[j]].packets[i + g[j]].packet
          /\ A[j].packets[i].dst = before[f[j]].packets[i + g[j]].dst
          /\ <<f[j], i + g[j]>> \notin G
      BY <3>3, <3>4 DEF EmbeddedBy
    <3> QED  BY <3>1, <3>2, <3>5
  <2>2. CASE j = a + 1
    <3>1. x = cut /\ e[j] = k /\ d[j] = n - 1 /\ y = old
      BY <1>8, <1>13, <1>17, <2>2 DEF old
    <3>2. x.packets = packets /\ i \in DOMAIN packets  BY <1>5, <1>17, <3>1
    <3>3. packets[i] = old.packets[i + (n - 1)]  BY <1>4, <3>2
    <3> DEFINE l == Len(old.packets)
    <3>4. l \in Nat /\ n \in 1 .. l /\ i \in 1 .. l - n + 1 /\ DOMAIN old.packets = 1 .. l
      BY <1>1, <1>4, <3>2
    <3> HIDE DEF l
    <3>5. i \in Nat /\ i + (n - 1) \in DOMAIN old.packets /\ ~(i + (n - 1) < n)
      BY <3>4
    <3>6. <<k, i + (n - 1)>> \notin G
      <4> SUFFICES ASSUME <<k, i + (n - 1)>> \in G PROVE FALSE  OBVIOUS
      <4>1. k < k \/ i + (n - 1) < n  BY DEF G, GivenUpBefore
      <4> QED  BY <1>1, <3>5, <4>1
    <3> QED  BY <3>1, <3>2, <3>3, <3>5, <3>6
  <2>3. CASE j \in a + 2 .. last
    <3>1. x = q[e[j]] /\ d[j] = 0 /\ e[j] \in k + 1 .. m /\ e[j] \in DOMAIN q
      BY <1>1, <1>8, <1>14, <1>15, <1>17, <2>3
    <3>2. i \in Nat  BY <1>17, <3>1, RequestFacts
    <3>3. i + d[j] = i /\ x = y  BY <1>17, <3>1, <3>2
    <3>4. <<e[j], i>> \notin G
      <4> SUFFICES ASSUME <<e[j], i>> \in G PROVE FALSE  OBVIOUS
      <4>1. e[j] < k \/ e[j] = k  BY DEF G, GivenUpBefore
      <4> QED  BY <1>1, <3>1, <4>1
    <3> QED  BY <1>17, <3>2, <3>3, <3>4
  <2> QED  BY <1>11, <2>1, <2>2, <2>3
<1>18. ASSUME NEW j \in 1 .. last, NEW x, NEW y, x = t[j], y = q[e[j]]
       PROVE  x.ip = y.ip /\ x.packets # <<>>
  <2>1. CASE j \in 1 .. a
    <3>1. x = A[j] /\ e[j] = f[j] /\ f[j] \in 1 .. k - 1  BY <1>8, <1>12, <1>18, <2>1
    <3>2. y = before[f[j]]  BY <1>2, <1>18, <3>1
    <3> QED  BY <1>6, <2>1, <3>1, <3>2 DEF EmbeddedBy, before
  <2>2. CASE j = a + 1
    <3>1. x = cut /\ e[j] = k /\ y = old  BY <1>8, <1>13, <1>18, <2>2 DEF old
    <3> QED  BY <1>4, <1>5, <3>1
  <2>3. CASE j \in a + 2 .. last
    <3>1. x = q[e[j]] /\ e[j] \in DOMAIN q  BY <1>1, <1>8, <1>14, <1>15, <1>18, <2>3
    <3> QED  BY <1>18, <3>1 DEF Tidy
  <2> QED  BY <1>11, <2>1, <2>2, <2>3
<1>19. EmbeddedBy(t, q, G, e, d)
  <2> HIDE DEF last
  <2>1. /\ e \in [DOMAIN t -> DOMAIN q] /\ d \in [DOMAIN t -> Nat]
        /\ \A i, j \in DOMAIN t : e[i] = e[j] => i = j
    BY <1>1, <1>10, <1>15, <1>16
  <2>2. \A j \in DOMAIN t : t[j].ip = q[e[j]].ip /\ t[j].packets # <<>>
    BY <1>10, <1>18
  <2>3. ASSUME NEW j \in DOMAIN t, NEW i \in DOMAIN t[j].packets
        PROVE  /\ i \in Nat /\ i + d[j] \in DOMAIN q[e[j]].packets
               /\ t[j].packets[i].packet = q[e[j]].packets[i + d[j]].packet
               /\ t[j].packets[i].dst = q[e[j]].packets[i + d[j]].dst
               /\ <<e[j], i + d[j]>> \notin G
    BY <1>10, <1>17
  <2> QED  BY <2>1, <2>2, <2>3 DEF EmbeddedBy
<1>20. t \in Seq(Request) /\ \E e1, d1 : EmbeddedBy(t, q, G, e1, d1)  BY <1>8, <1>19
<1> QED  BY <1>20 DEF t, cut, rest, old, G

\* The same of the cache.
LEMMA SweptUpToFacts ==
  ASSUME NEW c \in CacheShape, MapsOnce(c.entries), Tidy(c.requests),
         NEW k \in DOMAIN c.requests, NEW n \in DOMAIN c.requests[k].packets
  PROVE  /\ SweptUpTo(c, k, n) \in CacheShape /\ MapsOnce(SweptUpTo(c, k, n).entries)
         /\ \E e, d : EmbeddedBy(SweptUpTo(c, k, n).requests, c.requests,
                                 GivenUpBefore(c.requests, k, n), e, d)
<1> DEFINE q == c.requests
           before == SubSeq(q, 1, k - 1)
           A == [j \in DOMAIN Pursued(before) |-> Retried(Pursued(before)[j])]
           cut == [q[k] EXCEPT !.packets = SubSeq(@, n, Len(@))]
           t == A \o <<cut>> \o SubSeq(q, k + 1, Len(q))
           F == [i \in Index |-> Kept(c.entries[i])]
           G == GivenUpBefore(q, k, n)
<1>1. q \in Seq(Request) /\ c.entries \in [Index -> Entry]  BY DEF CacheShape
<1>2. SweptUpTo(c, k, n) = [entries |-> F, requests |-> t]  BY DEF SweptUpTo
<1>3. F \in [Index -> Entry] /\ MapsOnce(F)  BY <1>1, KeptFacts
<1> HIDE DEF F
<1>4. k \in 1 .. Len(q) /\ Len(q) \in Nat /\ DOMAIN q = 1 .. Len(q)  BY <1>1, RequestFacts
<1>5. /\ before \in Seq(Request) /\ DOMAIN before = 1 .. k - 1
      /\ \A j \in 1 .. k - 1 : before[j] = q[j] /\ j \in DOMAIN q
  <2> HIDE DEF q
  <2>1. \A j \in 1 .. k - 1 : j \in DOMAIN q /\ q[j] \in Request  BY <1>1, <1>4, RequestFacts
  <2>2. k - 1 \in Nat  BY <1>4
  <2>3. /\ before \in Seq(Request)
        /\ Len(before) = IF 1 <= k - 1 THEN k - 1 - 1 + 1 ELSE 0
        /\ \A j \in 1 .. k - 1 - 1 + 1 : before[j] = q[1 + j - 1]
    BY <2>1, <2>2, SubSeqProperties
  <2> HIDE DEF before
  <2>4. Len(before) = k - 1  BY <2>2, <2>3
  <2>5. k - 1 - 1 + 1 = k - 1 /\ \A j \in 1 .. k - 1 : 1 + j - 1 = j  BY <2>2
  <2> QED  BY <2>1, <2>3, <2>4, <2>5, LenProperties
<1> HIDE DEF before
<1>6. Tidy(before)
  <2> HIDE DEF q
  <2> QED  BY <1>5 DEF Tidy, q
<1>7. ASSUME NEW p \in Spots(before), ~GivenUp(before[p[1]]) PROVE p \notin G
  <2>1. p[1] \in 1 .. k - 1  BY <1>5, SpotFacts
  <2>2. before[p[1]] = q[p[1]] /\ p[1] # k  BY <1>4, <1>5, <2>1
  <2> HIDE DEF q
  <2> QED  BY <1>7, <2>2 DEF GivenUpBefore
<1>8. A \in Seq(Request) /\ \E f, g : EmbeddedBy(A, before, G, f, g)
  <2> HIDE DEF G
  <2> QED  BY <1>5, <1>6, <1>7, PursuedIsEmbedded
<1> HIDE DEF A
<1>9. PICK f, g : EmbeddedBy(A, before, G, f, g)  BY <1>8
<1>10. t \in Seq(Request) /\ \E e, d : EmbeddedBy(t, q, G, e, d)
  <2>1. EmbeddedBy(A, SubSeq(q, 1, k - 1), GivenUpBefore(q, k, n), f, g)  BY <1>9 DEF before
  <2>2. n \in DOMAIN q[k].packets /\ k \in DOMAIN q /\ Tidy(q)  OBVIOUS
  <2> HIDE DEF q
  <2> QED  BY <1>1, <1>8, <2>1, <2>2, SweptUpToIsEmbedded
<1> HIDE DEF t
<1>11. SweptUpTo(c, k, n) \in CacheShape  BY <1>2, <1>3, <1>10 DEF CacheShape
<1>12. SweptUpTo(c, k, n).entries = F /\ SweptUpTo(c, k, n).requests = t  BY <1>2
<1> QED  BY <1>3, <1>10, <1>11, <1>12

\* q2 is q and a message more, at the spot new.
JoinedBy(q2, q, new, m, ip) ==
  /\ new \in Spots(q2) /\ At(q2, new) = m /\ q2[new[1]].ip = ip
  /\ \A p \in Spots(q2) : p # new => /\ p \in Spots(q) /\ At(q2, p) = At(q, p)
                                     /\ q2[p[1]].ip = q[p[1]].ip

\* A packet joins the request for its hop, or a new one.
LEMMA AppendedFacts ==
  ASSUME NEW c \in CacheShape, Tidy(c.requests), NEW ip \in NextHops, NEW m \in Message
  PROVE  /\ Appended(c, ip, m) \in CacheShape
         /\ Appended(c, ip, m).entries = c.entries
         /\ Tidy(Appended(c, ip, m).requests)
         /\ \E new : JoinedBy(Appended(c, ip, m).requests, c.requests, new, m, ip)
<1> DEFINE q == c.requests
           q2 == Appended(c, ip, m).requests
<1>1. /\ q \in Seq(Request) /\ c.entries \in [Index -> Entry]
      /\ c = [entries |-> c.entries, requests |-> q]
  BY DEF CacheShape
<1>2. DOMAIN q = 1 .. Len(q) /\ Len(q) \in Nat /\ Tidy(q)  BY <1>1, RequestFacts
<1> SUFFICES /\ q2 \in Seq(Request) /\ Tidy(q2) /\ \E new : JoinedBy(q2, q, new, m, ip)
             /\ Appended(c, ip, m) = [entries |-> c.entries, requests |-> q2]
  BY <1>1 DEF CacheShape
<1>3. CASE Waiting(c, ip) # {}
  <2> DEFINE w == First(Waiting(c, ip))
             old == q[w].packets
             packets == Append(old, m)
             r == [q[w] EXCEPT !.packets = packets]
             new == <<w, Len(old) + 1>>
  <2>1. Waiting(c, ip) \in SUBSET Nat  BY <1>2 DEF Waiting
  <2>2. w \in Waiting(c, ip)  BY <1>3, <2>1, FirstFacts
  <2>3. w \in DOMAIN q /\ q[w].ip = ip  BY <2>2 DEF Waiting
  <2>4. Appended(c, ip, m) = [c EXCEPT !.requests[w].packets = Append(@, m)]
    BY <1>3 DEF Appended
  <2> HIDE DEF w
  <2>5. Appended(c, ip, m) = [entries |-> c.entries, requests |-> [q EXCEPT ![w] = r]]
    BY <1>1, <2>3, <2>4 DEF Request, CacheShape
  <2>6. q2 = [q EXCEPT ![w] = r]  BY <2>5
  <2> HIDE DEF q, q2
  <2>7. q[w] \in Request /\ old \in Seq(Message) /\ Len(old) \in Nat /\ DOMAIN old = 1 .. Len(old)
    BY <1>1, <2>3, RequestFacts
  <2>8. /\ packets \in Seq(Message) /\ Len(packets) = Len(old) + 1
        /\ DOMAIN packets = 1 .. Len(old) + 1
        /\ packets[Len(old) + 1] = m /\ \A i \in 1 .. Len(old) : packets[i] = old[i]
    <3> HIDE DEF old
    <3>1. /\ packets \in Seq(Message) /\ Len(packets) = Len(old) + 1
          /\ packets[Len(old) + 1] = m /\ \A i \in 1 .. Len(old) : packets[i] = old[i]
      BY <2>7, AppendProperties
    <3> HIDE DEF packets
    <3>2. DOMAIN packets = 1 .. Len(packets)  BY <3>1, LenProperties
    <3> QED  BY <3>1, <3>2
  <2>9. packets # <<>>
    <3> HIDE DEF packets
    <3> QED  BY <2>7, <2>8
  <2> HIDE DEF packets
  <2>10. r \in Request /\ r.ip = ip /\ r.packets = packets  BY <2>3, <2>7, <2>8 DEF Request
  <2> HIDE DEF r
  <2>11. /\ q2 \in Seq(Request) /\ DOMAIN q2 = DOMAIN q /\ q2[w] = r
         /\ \A k \in DOMAIN q : k # w => q2[k] = q[k]
    BY <1>1, <1>2, <2>3, <2>6, <2>10
  <2>12. Tidy(q2)  BY <1>2, <2>3, <2>9, <2>10, <2>11 DEF Tidy
  <2>13. new \in Spots(q2) /\ At(q2, new) = m /\ q2[new[1]].ip = ip
    <3>1. Len(old) + 1 \in DOMAIN q2[w].packets  BY <2>7, <2>8, <2>10, <2>11
    <3>2. new \in Spots(q2) /\ At(q2, new) = q2[w].packets[Len(old) + 1]
      BY <2>3, <2>11, <3>1, SpotIntro
    <3>3. new[1] = w  OBVIOUS
    <3> HIDE DEF new, old
    <3> QED  BY <2>8, <2>10, <2>11, <3>2, <3>3
  <2>14. ASSUME NEW p \in Spots(q2), p # new
         PROVE  p \in Spots(q) /\ At(q2, p) = At(q, p) /\ q2[p[1]].ip = q[p[1]].ip
    <3> DEFINE k == p[1]
               i == p[2]
    <3>1. k \in DOMAIN q /\ i \in DOMAIN q2[k].packets /\ p = <<k, i>>
      BY <2>11, SpotFacts
    <3>2. At(q2, p) = q2[k].packets[i]  BY DEF At
    <3> HIDE DEF k, i
    <3>3. i \in DOMAIN q[k].packets /\ q2[k].packets[i] = q[k].packets[i] /\ q2[k].ip = q[k].ip
      <4>1. CASE k # w  BY <2>11, <3>1, <4>1
      <4>2. CASE k = w
        <5> DEFINE l == Len(old)
        <5>1. i \in 1 .. l + 1  BY <2>8, <2>10, <2>11, <3>1, <4>2
        <5>2. i # l + 1  BY <2>14, <3>1, <4>2
        <5>3. l \in Nat  BY <2>7
        <5> HIDE DEF l
        <5>4. i \in 1 .. l  BY <5>1, <5>2, <5>3
        <5> QED  BY <2>3, <2>7, <2>8, <2>10, <2>11, <4>2, <5>4 DEF l
      <4> QED  BY <4>1, <4>2
    <3>4. <<k, i>> \in Spots(q) /\ At(q, <<k, i>>) = q[k].packets[i]
      BY <1>1, <3>1, <3>3, SpotIntro
    <3> QED  BY <3>1, <3>3, <3>4, <3>2 DEF k
  <2>15. JoinedBy(q2, q, new, m, ip)
    <3> HIDE DEF new
    <3> QED  BY <2>13, <2>14 DEF JoinedBy
  <2> QED  BY <2>5, <2>6, <2>11, <2>12, <2>15 DEF q
<1>4. CASE Waiting(c, ip) = {}
  <2> DEFINE r == [ip |-> ip, age |-> 0, retries |-> 0, packets |-> <<m>>]
             l == Len(q)
             new == <<l + 1, 1>>
  <2>1. Appended(c, ip, m) = [c EXCEPT !.requests = Append(@, r)]  BY <1>4 DEF Appended
  <2>2. Appended(c, ip, m) = [entries |-> c.entries, requests |-> Append(q, r)]
    BY <1>1, <2>1 DEF CacheShape
  <2>3. q2 = Append(q, r)  BY <2>2
  <2>4. \A k \in DOMAIN q : q[k].ip # ip  BY <1>4 DEF Waiting
  <2> HIDE DEF q, q2
  <2>5. <<m>> \in Seq(Message) /\ <<m>> # <<>> /\ <<m>>[1] = m /\ DOMAIN <<m>> = 1 .. 1
    OBVIOUS
  <2>6. r \in Request /\ r.ip = ip /\ r.packets = <<m>>
    BY <2>5, ArpAssumption DEF Request
  <2> HIDE DEF r
  <2>7. l \in Nat /\ DOMAIN q = 1 .. l  BY <1>2
  <2>8. /\ q2 \in Seq(Request) /\ Len(q2) = l + 1 /\ q2[l + 1] = r
        /\ \A k \in 1 .. l : q2[k] = q[k]
    BY <1>1, <2>3, <2>6, AppendProperties
  <2>9. DOMAIN q2 = 1 .. l + 1  BY <2>8, LenProperties
  <2> HIDE DEF l
  <2>10. \A k \in DOMAIN q2 : k = l + 1 \/ (k \in DOMAIN q /\ k # l + 1 /\ q2[k] = q[k])
    BY <2>7, <2>8, <2>9
  <2>11. Tidy(q2)
    <3>1. ASSUME NEW j \in DOMAIN q2, NEW k \in DOMAIN q2, j # k PROVE q2[j].ip # q2[k].ip
      BY <1>2, <2>4, <2>6, <2>8, <2>10, <3>1 DEF Tidy
    <3>2. \A k \in DOMAIN q2 : q2[k].packets # <<>>
      BY <1>2, <2>5, <2>6, <2>8, <2>10 DEF Tidy
    <3> QED  BY <3>1, <3>2 DEF Tidy
  <2>12. new \in Spots(q2) /\ At(q2, new) = m /\ q2[new[1]].ip = ip
    <3>1. l + 1 \in DOMAIN q2 /\ 1 \in DOMAIN q2[l + 1].packets
      BY <2>5, <2>6, <2>7, <2>8, <2>9
    <3>2. new \in Spots(q2) /\ At(q2, new) = q2[l + 1].packets[1]
      BY <2>8, <3>1, SpotIntro
    <3>3. new[1] = l + 1  OBVIOUS
    <3> HIDE DEF new
    <3> QED  BY <2>5, <2>6, <2>8, <3>2, <3>3
  <2>13. ASSUME NEW p \in Spots(q2), p # new
         PROVE  p \in Spots(q) /\ At(q2, p) = At(q, p) /\ q2[p[1]].ip = q[p[1]].ip
    <3> DEFINE k == p[1]
               i == p[2]
    <3>1. k \in DOMAIN q2 /\ i \in DOMAIN q2[k].packets /\ p = <<k, i>>
      BY <2>8, SpotFacts
    <3>2. At(q2, p) = q2[k].packets[i]  BY DEF At
    <3> HIDE DEF k, i
    <3>3. k # l + 1
      <4> SUFFICES ASSUME k = l + 1 PROVE FALSE  OBVIOUS
      <4>1. i \in 1 .. 1  BY <2>5, <2>6, <2>8, <3>1
      <4> QED  BY <2>13, <3>1, <4>1
    <3>4. k \in DOMAIN q /\ q2[k] = q[k]  BY <2>10, <3>1, <3>3
    <3>5. <<k, i>> \in Spots(q) /\ At(q, <<k, i>>) = q[k].packets[i]
      BY <1>1, <3>1, <3>4, SpotIntro
    <3> QED  BY <3>1, <3>4, <3>5, <3>2 DEF k
  <2>14. JoinedBy(q2, q, new, m, ip)
    <3> HIDE DEF new
    <3> QED  BY <2>12, <2>13 DEF JoinedBy
  <2> QED  BY <2>2, <2>3, <2>8, <2>11, <2>14 DEF q
<1> QED  BY <1>3, <1>4

\* Packets are numbered.
LEMMA PacketIsNumber ==
  /\ \A m \in Message : m.packet \in Int /\ m.src \in Address /\ m.dst \in Address
  /\ \A s \in Departure : s.packet \in Int
BY RouterAssumption DEF Message, Departure

\* A packet that was nowhere may join a queue.
LEMMA JoinedStaysApart ==
  ASSUME NEW q, NEW q2, NEW new, NEW m, NEW ip, NEW out, NEW n,
         Apart(q, out, n), JoinedBy(q2, q, new, m, ip), Fresh(m.packet, q, out), m.packet <= n
  PROVE  Apart(q2, out, n)
BY DEF Apart, JoinedBy, Fresh

\* A packet may join the queue of its own hop.
LEMMA JoinedStaysRouted ==
  ASSUME NEW q, NEW q2, NEW new, NEW m, NEW ip,
         AllFor(q), JoinedBy(q2, q, new, m, ip), IsFor(m, ip)
  PROVE  AllFor(q2)
BY DEF AllFor, JoinedBy, IsFor

\* s leaves, which was nowhere.
LEMMA LeavesApart ==
  ASSUME NEW q, NEW out, NEW n, NEW s,
         Apart(q, out, n), Fresh(s.packet, q, out), s.packet <= n
  PROVE  Apart(q, out \cup {s}, n)
BY DEF Apart, Fresh

\* A packet arrives.
LEMMA ArrivesFresh ==
  ASSUME NEW q \in Seq(Request), NEW out \in SUBSET Departure, NEW n \in Nat, Apart(q, out, n)
  PROVE  Apart(q, out, n + 1) /\ Fresh(n + 1, q, out)
<1>1. ASSUME NEW p \in Spots(q) PROVE At(q, p).packet <= n + 1 /\ At(q, p).packet # n + 1
  <2> DEFINE x == At(q, p).packet
  <2>1. x \in Int  BY SpotFacts, PacketIsNumber
  <2>2. x <= n  BY DEF Apart
  <2> HIDE DEF x
  <2>3. x <= n + 1 /\ x # n + 1  BY <2>1, <2>2
  <2> QED  BY <2>3 DEF x
<1>2. ASSUME NEW s \in out PROVE s.packet <= n + 1 /\ s.packet # n + 1
  <2> DEFINE x == s.packet
  <2>1. x \in Int  BY PacketIsNumber
  <2>2. x <= n  BY DEF Apart
  <2> HIDE DEF x
  <2>3. x <= n + 1 /\ x # n + 1  BY <2>1, <2>2
  <2> QED  BY <2>3 DEF x
<1>3. Apart(q, out, n + 1)  BY <1>1, <1>2 DEF Apart
<1>4. Fresh(n + 1, q, out)  BY <1>1, <1>2 DEF Fresh
<1> QED  BY <1>3, <1>4

-----------------------------------------------------------------------------
\* The types.
ShapeInv ==
  /\ cache \in CacheShape
  /\ held \in BOOLEAN /\ rested \in BOOLEAN /\ alive \in BOOLEAN
  /\ arrived \in 0 .. MaxPackets /\ asked \subseteq NextHops /\ sent \subseteq Departure
  /\ handling = Nothing \/ handling \in [step : Steps, message : Message, hop : NextHops]

\* The packet in hand, the packets that wait and the packets that left have the
\* hop that the table gives for their destination.
RouteInv ==
  /\ handling.step # "none" => IsFor(handling.message, handling.hop)
  /\ AllFor(cache.requests)
  /\ \A s \in sent : s.dst \in Address /\ IsFor(s, s.hop)

\* No packet is twice among the queues and what left; the one in hand, until it
\* is put into a queue, is in neither.
PlaceInv ==
  /\ Apart(cache.requests, sent, arrived)
  /\ handling.step \in {"lookup", "append"} =>
       /\ handling.message.packet <= arrived
       /\ Fresh(handling.message.packet, cache.requests, sent)

\* The cache is as the code keeps it.
TidyInv == Tidy(cache.requests) /\ MapsOnce(cache.entries)

\* All of it.
RouterOK == ShapeInv /\ RouteInv /\ PlaceInv /\ TidyInv

\* The inductive invariant: it is so as long as no buffer of a message that
\* waits holds something else.
RInv == intact \in BOOLEAN /\ (intact => RouterOK)

\* What the addresses of the hops are: neither 0 nor 1.
LEMMA HopFacts ==
  /\ \A hop \in NextHops : hop # 0 /\ hop # 1
  /\ \A a \in Address : /\ IsDirect(a) => IsFor([dst |-> a], 0)
                        /\ HasRoute(a) /\ ~IsDirect(a) => RouteOf(a).gw \in NextHops
                        /\ HasRoute(a) => RouteOf(a).own \in Address
<1>1. \A hop \in NextHops : hop # 0 /\ hop # 1  BY RouterAssumption DEF NextHops
<1>2. ASSUME NEW a \in Address, HasRoute(a), ~IsDirect(a) PROVE RouteOf(a).gw \in NextHops
  BY <1>2, RouteFacts DEF IsDirect, NextHops
<1>3. ASSUME NEW a \in Address, HasRoute(a) PROVE RouteOf(a).own \in Address
  BY <1>3, RouteFacts DEF Route
<1>4. \A a : IsDirect(a) => IsFor([dst |-> a], 0)  BY DEF IsDirect, IsFor
<1> QED  BY <1>1, <1>2, <1>3, <1>4

\* The lookup compares the valid flag of an entry with the address, and so
\* finds no entry for a hop.
LEMMA NoHits ==
  ASSUME cache \in CacheShape, NEW hop \in NextHops
  PROVE  Hits(cache, hop) = {}
<1>1. cache.entries \in [Index -> Entry]  BY DEF CacheShape
<1>2. \A i \in Index : cache.entries[i].valid \in {0, 1}  BY <1>1 DEF Entry
<1> QED  BY <1>2, HopFacts DEF Hits

\* The record of a packet that leaves.
LEMMA LeftFacts ==
  ASSUME NEW m \in Message, NEW hop \in NextHops \cup {0}, NEW mac \in Mac \cup {NoMac}
  PROVE  /\ Left(m, hop, mac) \in Departure
         /\ Left(m, hop, mac).packet = m.packet /\ Left(m, hop, mac).dst = m.dst
         /\ Left(m, hop, mac).hop = hop /\ Left(m, hop, mac).mac = mac
         /\ m.dst \in Address
BY DEF Message, Departure, Left

\* The answer to a packet has its number and goes to where it came from.
LEMMA IcmpFacts ==
  ASSUME NEW m \in Message, HasRoute(m.src), NEW kind \in Kinds
  PROVE  /\ Icmp(m, kind) \in Message
         /\ Icmp(m, kind).packet = m.packet /\ Icmp(m, kind).dst = m.src
<1>1. RouteOf(m.src).own \in Address  BY HopFacts DEF Message
<1> QED  BY <1>1 DEF Message, Icmp

-----------------------------------------------------------------------------
\* The invariant holds at the start.
LEMMA InitHolds == Init => RouterOK
<1> SUFFICES ASSUME Init PROVE RouterOK  OBVIOUS
<1> USE DEF Init
<1>1. ShapeInv
  <2>1. [i \in Index |-> NoEntry] \in [Index -> Entry]  BY ArpAssumption DEF NoEntry, Entry
  <2>2. <<>> \in Seq(Request)  OBVIOUS
  <2>3. cache \in CacheShape  BY <2>1, <2>2 DEF EmptyCache, CacheShape
  <2>4. arrived \in 0 .. MaxPackets
    <3>1. MaxPackets \in Nat /\ arrived = 0  BY RouterAssumption
    <3> QED  BY <3>1
  <2>5. held \in BOOLEAN /\ rested \in BOOLEAN /\ alive \in BOOLEAN  OBVIOUS
  <2>6. asked \subseteq NextHops /\ sent \subseteq Departure /\ handling = Nothing  OBVIOUS
  <2> QED  BY <2>3, <2>4, <2>5, <2>6, Zenon DEF ShapeInv
<1>2. cache.requests = <<>> /\ handling.step = "none" /\ cache.entries = [i \in Index |-> NoEntry]
  BY DEF EmptyCache, Nothing
<1>3. Spots(<<>>) = {}  BY DEF Spots
<1>4. RouteInv  BY <1>2, <1>3 DEF RouteInv, AllFor
<1>5. PlaceInv  BY <1>2, <1>3 DEF PlaceInv, Apart
<1>6. TidyInv
  <2>1. Tidy(<<>>)  BY DEF Tidy
  <2>2. MapsOnce([i \in Index |-> NoEntry])  BY DEF MapsOnce, NoEntry
  <2> QED  BY <1>2, <2>1, <2>2 DEF TidyInv
<1> QED  BY <1>1, <1>4, <1>5, <1>6 DEF RouterOK

\* What is new goes to the lookup, or leaves for a network of its own.
LEMMA EmitKeeps ==
  ASSUME RouterOK, arrived' = arrived + 1, arrived < MaxPackets, handling = Nothing,
         UNCHANGED <<cache, held, rested, asked>>, alive' \in BOOLEAN,
         NEW m \in Message, m.packet = arrived + 1, HasRoute(m.dst),
         Emit(m)
  PROVE  RouterOK'
<1> DEFINE q == cache.requests
<1>1. q \in Seq(Request) /\ sent \in SUBSET Departure /\ arrived \in Nat /\ arrived + 1 \in 0 .. MaxPackets
  BY RouterAssumption DEF RouterOK, ShapeInv, CacheShape
<1>2. Apart(q, sent, arrived + 1) /\ Fresh(arrived + 1, q, sent)
  BY <1>1, ArrivesFresh DEF RouterOK, PlaceInv
<1>3. handling.step = "none"  BY DEF Nothing
<1>4. m.dst \in Address /\ arrived + 1 <= arrived + 1  BY <1>1 DEF Message
<1>5. CASE IsDirect(m.dst)
  <2> DEFINE s == Left(m, 0, NoMac)
  <2>1. sent' = sent \cup {s} /\ handling' = handling  BY <1>5 DEF Emit
  <2>2. s \in Departure /\ s.packet = arrived + 1 /\ s.dst = m.dst /\ s.hop = 0  BY LeftFacts
  <2> HIDE DEF s
  <2>3. ShapeInv'  BY <1>1, <2>1, <2>2 DEF RouterOK, ShapeInv
  <2>4. RouteInv'
    <3>1. IsFor(s, s.hop)  BY <1>5, <2>2 DEF IsFor, IsDirect
    <3> QED  BY <1>3, <1>4, <2>1, <2>2, <3>1 DEF RouterOK, RouteInv, AllFor
  <2>5. PlaceInv'
    <3>1. Apart(q, sent', arrived')  BY <1>2, <1>4, <2>1, <2>2, LeavesApart
    <3> QED  BY <1>3, <2>1, <3>1 DEF PlaceInv
  <2> QED  BY <2>3, <2>4, <2>5 DEF RouterOK, TidyInv
<1>6. CASE ~IsDirect(m.dst)
  <2> DEFINE hop == RouteOf(m.dst).gw
  <2>1. handling' = Task("lookup", m, hop) /\ sent' = sent  BY <1>6 DEF Emit
  <2>2. hop \in NextHops  BY <1>4, <1>6, HopFacts
  <2>3. IsFor(m, hop)  BY DEF IsFor
  <2> HIDE DEF hop
  <2>4. /\ handling' \in [step : Steps, message : Message, hop : NextHops]
        /\ handling'.step = "lookup" /\ handling'.message = m /\ handling'.hop = hop
    BY <2>1, <2>2 DEF Task, Steps
  <2>5. ShapeInv'  BY <1>1, <2>1, <2>4 DEF RouterOK, ShapeInv
  <2>6. RouteInv'  BY <2>1, <2>3, <2>4 DEF RouterOK, RouteInv, AllFor
  <2>7. PlaceInv'  BY <1>2, <1>4, <2>1, <2>4 DEF PlaceInv
  <2> QED  BY <2>5, <2>6, <2>7 DEF RouterOK, TidyInv
<1> QED  BY <1>5, <1>6

\* An answer of the router itself is routed as a packet that arrives.
LEMMA SendIcmpKeeps ==
  ASSUME RouterOK, arrived' = arrived + 1, arrived < MaxPackets, handling = Nothing,
         UNCHANGED <<cache, held, rested, asked>>,
         NEW m \in Message, m.packet = arrived + 1, NEW kind \in Kinds,
         SendIcmp(m, kind)
  PROVE  RouterOK'
<1>1. m.src \in Address  BY DEF Message
<1>2. alive' \in BOOLEAN  BY RouterAssumption DEF SendIcmp, RouterOK, ShapeInv
<1>3. CASE HasRoute(m.src)
  <2>1. /\ Icmp(m, kind) \in Message /\ Icmp(m, kind).packet = arrived + 1
        /\ HasRoute(Icmp(m, kind).dst) /\ Emit(Icmp(m, kind))
    BY <1>3, IcmpFacts DEF SendIcmp
  <2> QED  BY <1>2, <2>1, EmitKeeps
<1>4. CASE ~HasRoute(m.src)
  <2>1. UNCHANGED <<sent, handling>>  BY <1>4 DEF SendIcmp
  <2>2. /\ cache.requests \in Seq(Request) /\ sent \in SUBSET Departure /\ arrived \in Nat
        /\ arrived + 1 \in 0 .. MaxPackets
    BY RouterAssumption DEF RouterOK, ShapeInv, CacheShape
  <2>3. Apart(cache.requests, sent, arrived + 1)
    BY <2>2, ArrivesFresh DEF RouterOK, PlaceInv
  <2>4. handling.step = "none"  BY DEF Nothing
  <2>5. ShapeInv'  BY <1>2, <2>1, <2>2 DEF RouterOK, ShapeInv
  <2>6. RouteInv'  BY <2>1, <2>4 DEF RouterOK, RouteInv, AllFor
  <2>7. PlaceInv'  BY <2>1, <2>3, <2>4 DEF PlaceInv
  <2> QED  BY <2>5, <2>6, <2>7 DEF RouterOK, TidyInv
<1> QED  BY <1>3, <1>4

\* A packet that arrives.
LEMMA HandleIpKeeps ==
  ASSUME RouterOK, NEW h \in Header, HandleIp(h), intact'
  PROVE  RouterOK'
<1> DEFINE m == [packet |-> arrived', kind |-> "data", src |-> h.src, dst |-> h.dst,
                 freed |-> FALSE]
<1>1. /\ arrived' = arrived + 1 /\ arrived < MaxPackets /\ handling = Nothing
      /\ UNCHANGED <<cache, held, rested, asked>>
  <2>1. /\ arrived' = arrived + 1 /\ arrived < MaxPackets /\ handling = Nothing
        /\ UNCHANGED <<held, rested, asked>> /\ Allotted(m, Reason(h))
    BY DEF HandleIp
  <2>2. UNCHANGED cache  BY <2>1 DEF Allotted
  <2> QED  BY <2>1, <2>2
<1>2. m \in Message /\ m.packet = arrived + 1 /\ m.dst = h.dst
  <2>1. h.src \in Address /\ h.dst \in Address  BY RouterAssumption
  <2>2. arrived' \in 1 .. MaxPackets
    <3>1. arrived \in 0 .. MaxPackets /\ MaxPackets \in Nat
      BY RouterAssumption DEF RouterOK, ShapeInv
    <3> QED  BY <1>1, <3>1
  <2> QED  BY <1>1, <2>1, <2>2 DEF Message, Kinds
<1>3. CASE Reason(h) = "none"
  <2>1. Emit(m) /\ alive' = alive  BY <1>3 DEF HandleIp
  <2>2. HasRoute(h.dst)  BY <1>3 DEF Reason
  <2>3. alive' \in BOOLEAN  BY <2>1 DEF RouterOK, ShapeInv
  <2> HIDE DEF m
  <2> QED  BY <1>1, <1>2, <2>1, <2>2, <2>3, EmitKeeps
<1>4. CASE Reason(h) # "none"
  <2>1. SendIcmp(m, Reason(h))  BY <1>4 DEF HandleIp
  <2>2. Reason(h) \in Kinds  BY <1>4 DEF Reason, Kinds
  <2> HIDE DEF m
  <2> QED  BY <1>1, <1>2, <2>1, <2>2, SendIcmpKeeps
<1> QED  BY <1>3, <1>4

\* After a lookup or an append nothing is left to do but to free the message.
LEMMA AfterFacts ==
  ASSUME NEW m \in Message, NEW hop \in NextHops, IsFor(m, hop), After(m, hop) = handling'
  PROVE  /\ handling' = Nothing \/ handling' \in [step : Steps, message : Message, hop : NextHops]
         /\ handling'.step \notin {"lookup", "append"}
         /\ handling'.step # "none" => IsFor(handling'.message, handling'.hop)
<1>1. CASE m.kind = "data"
  BY <1>1 DEF After, Nothing
<1>2. CASE m.kind # "data"
  <2>1. handling' = [step |-> "free", message |-> m, hop |-> hop]  BY <1>2 DEF After, Task
  <2> QED  BY <2>1 DEF Steps
<1> QED  BY <1>1, <1>2

\* The packet in hand.
LEMMA HandlingFacts ==
  ASSUME RouterOK, handling.step # "none"
  PROVE  /\ handling.step \in Steps /\ handling.message \in Message /\ handling.hop \in NextHops
         /\ handling = [step |-> handling.step, message |-> handling.message, hop |-> handling.hop]
         /\ IsFor(handling.message, handling.hop)
<1>1. handling \in [step : Steps, message : Message, hop : NextHops]
  BY DEF RouterOK, ShapeInv, Nothing
<1> QED  BY <1>1 DEF RouterOK, RouteInv

\* The lookup in the cache.
LEMMA LookupKeeps ==
  ASSUME RouterOK, Lookup
  PROVE  RouterOK'
<1>1. handling.step = "lookup"  BY DEF Lookup
<1>2. /\ handling.message \in Message /\ handling.hop \in NextHops
      /\ handling = [step |-> "lookup", message |-> handling.message, hop |-> handling.hop]
      /\ IsFor(handling.message, handling.hop)
  BY <1>1, HandlingFacts
<1>3. Hits(cache, handling.hop) = {}  BY <1>2, NoHits DEF RouterOK, ShapeInv
<1>4. /\ handling' = [handling EXCEPT !.step = "append"]
      /\ UNCHANGED <<sent, cache, held, rested, arrived, asked, alive>>
  BY <1>3 DEF Lookup
<1>5. handling' = [step |-> "append", message |-> handling.message, hop |-> handling.hop]
  BY <1>2, <1>4
<1>6. /\ handling' \in [step : Steps, message : Message, hop : NextHops]
      /\ handling'.step = "append" /\ handling'.message = handling.message
      /\ handling'.hop = handling.hop
  BY <1>2, <1>5 DEF Steps
<1>7. ShapeInv'  BY <1>4, <1>6 DEF RouterOK, ShapeInv
<1>8. RouteInv'  BY <1>2, <1>4, <1>6 DEF RouterOK, RouteInv, AllFor
<1>9. PlaceInv'  BY <1>1, <1>4, <1>6 DEF RouterOK, PlaceInv
<1> QED  BY <1>4, <1>7, <1>8, <1>9 DEF RouterOK, TidyInv

\* The packet is put into the queue of its hop.
LEMMA AppendPacketKeeps ==
  ASSUME RouterOK, AppendPacket
  PROVE  RouterOK'
<1> DEFINE m == handling.message
           hop == handling.hop
           q == cache.requests
<1>1. handling.step = "append"  BY DEF AppendPacket
<1>2. /\ m \in Message /\ hop \in NextHops /\ IsFor(m, hop)
      /\ handling = [step |-> "append", message |-> m, hop |-> hop]
  BY <1>1, HandlingFacts
<1>3. /\ cache' = Appended(cache, hop, m)
      /\ UNCHANGED <<held, rested, arrived, asked, sent, alive>>
  BY DEF AppendPacket
<1>4. handling' = After(m, hop) \/ handling' = [handling EXCEPT !.step = "ask"]
  BY DEF AppendPacket
<1>5. m.packet <= arrived /\ Fresh(m.packet, q, sent)  BY <1>1 DEF RouterOK, PlaceInv
<1> HIDE DEF m, hop
<1>6. /\ handling' = Nothing \/ handling' \in [step : Steps, message : Message, hop : NextHops]
      /\ handling'.step \notin {"lookup", "append"}
      /\ handling'.step # "none" => IsFor(handling'.message, handling'.hop)
  <2>1. CASE handling' = After(m, hop)  BY <1>2, <2>1, AfterFacts
  <2>2. CASE handling' = [handling EXCEPT !.step = "ask"]
    <3>1. handling' = [step |-> "ask", message |-> m, hop |-> hop]  BY <1>2, <2>2
    <3> QED  BY <1>2, <3>1 DEF Steps
  <2> QED  BY <1>4, <2>1, <2>2
<1>7. /\ cache' \in CacheShape /\ cache'.entries = cache.entries /\ Tidy(cache'.requests)
      /\ \E new : JoinedBy(cache'.requests, q, new, m, hop)
  BY <1>2, <1>3, AppendedFacts DEF RouterOK, ShapeInv, TidyInv
<1>8. PICK new : JoinedBy(cache'.requests, q, new, m, hop)  BY <1>7
<1>9. ShapeInv'  BY <1>3, <1>6, <1>7 DEF RouterOK, ShapeInv
<1>10. RouteInv'
  <2>1. AllFor(cache'.requests)  BY <1>2, <1>8, JoinedStaysRouted DEF RouterOK, RouteInv
  <2>2. AllFor(cache.requests)'  BY <2>1 DEF AllFor
  <2>3. \A s \in sent' : s.dst \in Address /\ IsFor(s, s.hop)  BY <1>3 DEF RouterOK, RouteInv
  <2> QED  BY <1>6, <2>2, <2>3 DEF RouteInv
<1>11. PlaceInv'
  <2>1. Apart(cache'.requests, sent', arrived')
    BY <1>3, <1>5, <1>8, JoinedStaysApart DEF RouterOK, PlaceInv
  <2> QED  BY <1>6, <2>1 DEF PlaceInv
<1>12. TidyInv'  BY <1>7 DEF RouterOK, TidyInv, MapsOnce
<1> QED  BY <1>9, <1>10, <1>11, <1>12 DEF RouterOK

\* The request for the hop is sent.
LEMMA SendRequestKeeps ==
  ASSUME RouterOK, SendRequest
  PROVE  RouterOK'
<1>1. handling.step = "ask"  BY DEF SendRequest
<1>2. handling.message \in Message /\ handling.hop \in NextHops
      /\ IsFor(handling.message, handling.hop)
  BY <1>1, HandlingFacts
<1>3. /\ asked' = asked \cup {handling.hop} /\ alive' \in BOOLEAN
      /\ handling' = After(handling.message, handling.hop)
      /\ UNCHANGED <<cache, held, rested, arrived, sent>>
  BY RouterAssumption DEF SendRequest
<1>4. /\ handling' = Nothing \/ handling' \in [step : Steps, message : Message, hop : NextHops]
      /\ handling'.step \notin {"lookup", "append"}
      /\ handling'.step # "none" => IsFor(handling'.message, handling'.hop)
  BY <1>2, <1>3, AfterFacts
<1>5. ShapeInv'  BY <1>2, <1>3, <1>4 DEF RouterOK, ShapeInv
<1>6. RouteInv'  BY <1>3, <1>4 DEF RouterOK, RouteInv, AllFor
<1>7. PlaceInv'  BY <1>3, <1>4 DEF RouterOK, PlaceInv
<1> QED  BY <1>3, <1>5, <1>6, <1>7 DEF RouterOK, TidyInv

\* A step that takes some packets from the queues, and sends them or what is
\* said about them.
LEMMA ThinnedKeeps ==
  ASSUME RouterOK, NEW G, NEW e, NEW d, NEW f,
         cache' \in CacheShape, MapsOnce(cache'.entries),
         EmbeddedBy(cache'.requests, cache.requests, G, e, d),
         LeftFrom(cache.requests, G, f, sent, sent'),
         \A s \in sent' \ sent : s \in Departure /\ s.dst \in Address /\ IsFor(s, s.hop),
         handling' \in {handling, Nothing}, arrived' = arrived, asked' \subseteq NextHops,
         held' \in BOOLEAN, rested' \in BOOLEAN, alive' \in BOOLEAN
  PROVE  RouterOK'
<1> DEFINE q == cache.requests
           q2 == cache'.requests
<1>1. Tidy(q2) /\ \E h : ThinnedBy(q2, q, G, h)  BY EmbeddedIsThinned DEF RouterOK, TidyInv
<1>2. PICK h : ThinnedBy(q2, q, G, h)  BY <1>1
<1>3. Nothing.step = "none"  BY DEF Nothing
<1>4. ShapeInv'
  <2>1. sent' \subseteq Departure
    <3>1. sent \subseteq Departure  BY DEF RouterOK, ShapeInv
    <3> QED  BY <3>1
  <2> QED  BY <2>1 DEF RouterOK, ShapeInv
<1>5. RouteInv'
  <2>1. AllFor(q2)  BY <1>2, ThinnedStaysRouted DEF RouterOK, RouteInv
  <2>2. \A s \in sent' : s.dst \in Address /\ IsFor(s, s.hop)  BY DEF RouterOK, RouteInv
  <2>3. handling'.step # "none" => IsFor(handling'.message, handling'.hop)
    BY <1>3 DEF RouterOK, RouteInv
  <2> QED  BY <2>1, <2>2, <2>3 DEF RouteInv
<1>6. PlaceInv'
  <2>1. /\ Apart(q2, sent', arrived')
        /\ \A number : Fresh(number, q, sent) => Fresh(number, q2, sent')
    BY <1>2, ThinnedStaysApart DEF RouterOK, PlaceInv
  <2>2. CASE handling' = handling
    BY <2>1, <2>2 DEF RouterOK, PlaceInv
  <2>3. CASE handling' = Nothing
    BY <1>3, <2>1, <2>3 DEF PlaceInv
  <2> QED  BY <2>2, <2>3
<1>7. TidyInv'  BY <1>1 DEF TidyInv
<1> QED  BY <1>4, <1>5, <1>6, <1>7 DEF RouterOK

\* Nothing leaves.
LEMMA NothingLeaves ==
  ASSUME NEW q, NEW out
  PROVE  LeftFrom(q, {}, <<>>, out, out)
BY DEF LeftFrom

\* A second that passes.
LEMMA TickKeeps ==
  ASSUME RouterOK, Tick
  PROVE  RouterOK'
<1>1. cache' = Aged(cache)  BY DEF Tick
<1>2. /\ cache' \in CacheShape /\ MapsOnce(cache'.entries)
      /\ \E e, d : EmbeddedBy(cache'.requests, cache.requests, {}, e, d)
  BY <1>1, AgedFacts DEF RouterOK, ShapeInv, TidyInv
<1>3. LeftFrom(cache.requests, {}, <<>>, sent, sent')
  BY NothingLeaves DEF Tick
<1>4. /\ sent' = sent /\ handling' = handling /\ arrived' = arrived /\ asked' \subseteq NextHops
      /\ held' \in BOOLEAN /\ rested' \in BOOLEAN /\ alive' \in BOOLEAN
  BY DEF Tick, RouterOK, ShapeInv
<1> QED  BY <1>2, <1>3, <1>4, ThinnedKeeps

\* The message that is freed keeps its place.
LEMMA FreeMessageKeeps ==
  ASSUME RouterOK, FreeMessage
  PROVE  RouterOK'
<1> DEFINE m == handling.message
           q == cache.requests
           freed(p) == IF p = m THEN [m EXCEPT !.freed = TRUE] ELSE p
           t == [k \in DOMAIN q |-> Replaced(q[k], m, [m EXCEPT !.freed = TRUE])]
           waits == \E r \in ToSet(q) : Contains(r.packets, m)
<1>1. q \in Seq(Request) /\ cache = [entries |-> cache.entries, requests |-> q]
      /\ cache.entries \in [Index -> Entry]
  BY DEF RouterOK, ShapeInv, CacheShape
<1>2. DOMAIN q = 1 .. Len(q) /\ Len(q) \in Nat  BY <1>1, RequestFacts
<1>3. \A p \in Message : freed(p) \in Message /\ freed(p).packet = p.packet /\ freed(p).dst = p.dst
  BY DEF Message
<1>4. ASSUME NEW k \in DOMAIN q
      PROVE  /\ t[k] \in Request /\ t[k].ip = q[k].ip
             /\ t[k].packets = [i \in DOMAIN q[k].packets |-> freed(q[k].packets[i])]
             /\ t[k].packets # <<>>
  <2> DEFINE x == q[k]
             old == x.packets
             new == [i \in DOMAIN old |-> freed(old[i])]
  <2>1. /\ x \in Request /\ old \in Seq(Message) /\ Len(old) \in Nat /\ DOMAIN old = 1 .. Len(old)
        /\ \A i \in DOMAIN old : old[i] \in Message
    BY <1>1, RequestFacts
  <2>2. Len(old) # 0
    <3>1. old # <<>>  BY DEF RouterOK, TidyInv, Tidy
    <3> HIDE DEF old
    <3> QED  BY <2>1, <3>1
  <2>3. new \in [1 .. Len(old) -> Message]
    <3> HIDE DEF freed, old
    <3> QED  BY <1>3, <2>1
  <2>4. new \in Seq(Message) /\ new # <<>>
    <3> HIDE DEF new, old
    <3> QED  BY <2>1, <2>3, <2>2
  <2>5. t[k] = [x EXCEPT !.packets = new]  BY DEF Replaced
  <2> HIDE DEF new, x, t
  <2>6. t[k] \in Request /\ t[k].ip = x.ip /\ t[k].packets = new  BY <2>1, <2>4, <2>5 DEF Request
  <2> QED  BY <2>4, <2>6 DEF new, x
<1>5. DOMAIN t = DOMAIN q  OBVIOUS
<1> HIDE DEF t, freed
<1>6. t \in Seq(Request)
  <2>1. t \in [1 .. Len(q) -> Request]  BY <1>2, <1>4, <1>5 DEF t
  <2> QED  BY <1>2, <2>1
<1> DEFINE e == [k \in DOMAIN q |-> k]
           d == [k \in DOMAIN q |-> 0]
<1>7. /\ cache' \in CacheShape /\ MapsOnce(cache'.entries)
      /\ EmbeddedBy(cache'.requests, q, {}, e, d)
  <2>1. /\ e \in [DOMAIN q -> DOMAIN q] /\ d \in [DOMAIN q -> Nat]
        /\ \A k \in DOMAIN q : e[k] = k /\ d[k] = 0
    OBVIOUS
  <2> HIDE DEF e, d
  <2>2. ASSUME NEW k \in DOMAIN q, NEW i \in DOMAIN q[k].packets
        PROVE  i \in Nat /\ i + 0 = i /\ q[k].packets[i] \in Message
    <3>1. i \in Nat /\ q[k].packets[i] \in Message  BY <1>1, RequestFacts
    <3> QED  BY <3>1
  <2>3. CASE cache' = cache
    <3>1. EmbeddedBy(q, q, {}, e, d)
      <4>1. \A k \in DOMAIN q : q[k].packets # <<>>  BY DEF RouterOK, TidyInv, Tidy
      <4> QED  BY <2>1, <2>2, <4>1 DEF EmbeddedBy
    <3> QED  BY <2>3, <3>1 DEF RouterOK, ShapeInv, TidyInv
  <2>4. CASE cache' = [entries |-> cache.entries, requests |-> t]
    <3>1. EmbeddedBy(t, q, {}, e, d)
      <4>1. ASSUME NEW k \in DOMAIN t, NEW i \in DOMAIN t[k].packets
            PROVE  /\ i \in DOMAIN q[k].packets /\ i \in Nat /\ i + 0 = i
                   /\ t[k].packets[i].packet = q[k].packets[i].packet
                   /\ t[k].packets[i].dst = q[k].packets[i].dst
        <5>1. k \in DOMAIN q /\ i \in DOMAIN q[k].packets
              /\ t[k].packets[i] = freed(q[k].packets[i])
          BY <1>4, <1>5
        <5>2. i \in Nat /\ i + 0 = i /\ q[k].packets[i] \in Message  BY <2>2, <5>1
        <5> QED  BY <1>3, <5>1, <5>2
      <4>2. \A k \in DOMAIN t : t[k].ip = q[e[k]].ip /\ t[k].packets # <<>>
        BY <1>4, <1>5, <2>1
      <4>3. \A k \in DOMAIN t : \A i \in DOMAIN t[k].packets :
              /\ i \in Nat /\ i + d[k] \in DOMAIN q[e[k]].packets
              /\ t[k].packets[i].packet = q[e[k]].packets[i + d[k]].packet
              /\ t[k].packets[i].dst = q[e[k]].packets[i + d[k]].dst
              /\ <<e[k], i + d[k]>> \notin {}
        <5> TAKE k \in DOMAIN t
        <5>1. e[k] = k /\ d[k] = 0  BY <1>5, <2>1
        <5> QED  BY <4>1, <5>1
      <4> QED  BY <1>5, <2>1, <4>2, <4>3 DEF EmbeddedBy
    <3>2. cache'.entries = cache.entries /\ cache'.requests = t  BY <2>4
    <3>3. cache' \in CacheShape  BY <1>1, <1>6, <2>4 DEF CacheShape
    <3> QED  BY <3>1, <3>2, <3>3 DEF RouterOK, TidyInv
  <2>5. cache' = cache \/ cache' = [cache EXCEPT !.requests = t]
    <3>1. CASE waits
      <4>1. cache' = CacheWith(m, [m EXCEPT !.freed = TRUE])
        BY <3>1, Zenon DEF FreeMessage
      <4> QED  BY <4>1 DEF t, CacheWith
    <3>2. CASE ~waits  BY <3>2, Zenon DEF FreeMessage
    <3> HIDE DEF waits, t
    <3> QED  BY <3>1, <3>2
  <2>6. [cache EXCEPT !.requests = t] = [entries |-> cache.entries, requests |-> t]  BY <1>1
  <2> QED  BY <2>3, <2>4, <2>5, <2>6
<1>8. LeftFrom(q, {}, <<>>, sent, sent')  BY NothingLeaves DEF FreeMessage
<1>9. /\ sent' = sent /\ handling' = Nothing /\ arrived' = arrived /\ asked' \subseteq NextHops
      /\ held' \in BOOLEAN /\ rested' \in BOOLEAN
  BY DEF FreeMessage, RouterOK, ShapeInv
<1>10. alive' \in BOOLEAN  BY RouterAssumption DEF FreeMessage, RouterOK, ShapeInv
<1> HIDE DEF e, d
<1> QED  BY <1>7, <1>8, <1>9, <1>10, ThinnedKeeps

\* What ThinnedKeeps asks of the messages that leave a set of spots.
LEMMA LeavingFacts ==
  ASSUME RouterOK, NEW G \in SUBSET Spots(cache.requests), NEW f,
         \A g \in G : /\ f[g] \in Departure /\ f[g].dst \in Address /\ IsFor(f[g], f[g].hop)
                      /\ f[g].packet = At(cache.requests, g).packet,
         \A s \in sent' : s \in sent \/ \E g \in G : s = f[g]
  PROVE  /\ LeftFrom(cache.requests, G, f, sent, sent')
         /\ \A s \in sent' \ sent : s \in Departure /\ s.dst \in Address /\ IsFor(s, s.hop)
<1>1. \A s \in sent' \ sent : s \in Departure /\ s.dst \in Address /\ IsFor(s, s.hop)
  <2> TAKE s \in sent' \ sent
  <2>1. PICK g \in G : s = f[g]  OBVIOUS
  <2> QED  BY <2>1
<1>2. LeftFrom(cache.requests, G, f, sent, sent')  BY DEF LeftFrom
<1> QED  BY <1>1, <1>2

\* A reply: what waits for its address leaves.
LEMMA ReplyKeeps ==
  ASSUME RouterOK, NEW ip \in asked, NEW mac \in MacsOf(ip), Reply(ip, mac)
  PROVE  RouterOK'
<1> DEFINE q == cache.requests
           G == {p \in Spots(q) : q[p[1]].ip = ip}
           f == [g \in Spots(q) |-> Left(At(q, g), ip, mac)]
<1>1. ip \in NextHops /\ mac \in Mac
  BY RouterAssumption DEF RouterOK, ShapeInv, MacsOf
<1>2. q \in Seq(Request)  BY DEF RouterOK, ShapeInv, CacheShape
<1>3. PICK i \in Places(cache, ip) : cache' = Inserted(cache, ip, mac, i)  BY DEF Reply
<1>4. /\ cache' \in CacheShape /\ MapsOnce(cache'.entries)
      /\ \E e, d : EmbeddedBy(cache'.requests, q, G, e, d)
  BY <1>1, <1>3, InsertedFacts DEF RouterOK, ShapeInv, TidyInv
<1>5. ASSUME NEW s \in sent' PROVE s \in sent \/ \E g \in G : s = f[g]
  <2> SUFFICES ASSUME s \notin sent PROVE \E g \in G : s = f[g]  OBVIOUS
  <2>1. PICK p \in Released(cache, ip) : s = Left(p.message, p.hop, mac)  BY DEF Reply
  <2>2. PICK r \in ToSet(q) : r.ip = ip /\ p \in {[message |-> m, hop |-> r.ip] : m \in ToSet(r.packets)}
    BY DEF Released, PacketsOf
  <2>3. PICK m \in ToSet(r.packets) : p = [message |-> m, hop |-> r.ip]  BY <2>2
  <2>4. PICK k \in DOMAIN q : r = q[k]  BY DEF ToSet
  <2>5. PICK j \in DOMAIN r.packets : m = r.packets[j]  BY DEF ToSet
  <2> DEFINE g == <<k, j>>
  <2>6. g \in Spots(q) /\ At(q, g) = m  BY <1>2, <2>4, <2>5, SpotIntro
  <2>7. g \in G  BY <2>2, <2>4, <2>6
  <2>8. s = Left(m, ip, mac)  BY <2>1, <2>2, <2>3
  <2> HIDE DEF g
  <2> QED  BY <2>6, <2>7, <2>8
<1>6. ASSUME NEW g \in G
      PROVE  /\ f[g] \in Departure /\ f[g].dst \in Address /\ IsFor(f[g], f[g].hop)
             /\ f[g].packet = At(q, g).packet
  <2> DEFINE m == At(q, g)
  <2>1. m \in Message /\ f[g] = Left(m, ip, mac)  BY <1>2, SpotFacts
  <2>2. IsFor(m, ip)  BY DEF RouterOK, RouteInv, AllFor
  <2> HIDE DEF m, f
  <2>3. f[g] \in Departure /\ f[g].dst = m.dst /\ f[g].hop = ip /\ f[g].packet = m.packet /\ m.dst \in Address
    BY <1>1, <2>1, LeftFacts
  <2> QED  BY <2>2, <2>3 DEF IsFor, m
<1>7. PICK e, d : EmbeddedBy(cache'.requests, q, G, e, d)  BY <1>4
<1>8. /\ LeftFrom(q, G, f, sent, sent')
      /\ \A s \in sent' \ sent : s \in Departure /\ s.dst \in Address /\ IsFor(s, s.hop)
  <2>1. G \in SUBSET Spots(q)  OBVIOUS
  <2> HIDE DEF f, G
  <2> QED  BY <1>5, <1>6, <2>1, LeavingFacts
<1>9. /\ handling' = handling /\ arrived' = arrived /\ asked' \subseteq NextHops
      /\ held' \in BOOLEAN /\ rested' \in BOOLEAN
  BY DEF Reply, RouterOK, ShapeInv
<1>10. alive' \in BOOLEAN  BY RouterAssumption DEF Reply, RouterOK, ShapeInv
<1> HIDE DEF f, G
<1> QED  BY <1>4, <1>7, <1>8, <1>9, <1>10, ThinnedKeeps

\* What a sweep says about a packet that it gives up.
LEMMA UnreachableFacts ==
  ASSUME RouterOK, NEW g \in Spots(cache.requests), IsDirect(At(cache.requests, g).src),
         NEW s, s = Left(Icmp(At(cache.requests, g), "host unreachable"), 0, NoMac)
  PROVE  /\ s \in Departure /\ s.dst \in Address /\ IsFor(s, s.hop)
         /\ s.packet = At(cache.requests, g).packet
<1> DEFINE m == At(cache.requests, g)
           n == Icmp(m, "host unreachable")
<1>1. m \in Message  BY SpotFacts DEF RouterOK, ShapeInv, CacheShape
<1>2. IsDirect(m.src) /\ "host unreachable" \in Kinds /\ s = Left(n, 0, NoMac)  BY DEF Kinds
<1> HIDE DEF m
<1>3. n \in Message /\ n.packet = m.packet /\ n.dst = m.src  BY <1>1, <1>2, IcmpFacts DEF IsDirect
<1> HIDE DEF n
<1>4. s \in Departure /\ s.dst = m.src /\ s.hop = 0 /\ s.packet = m.packet /\ n.dst \in Address
  <2> DEFINE t == Left(n, 0, NoMac)
  <2>1. 0 \in NextHops \cup {0} /\ NoMac \in Mac \cup {NoMac} /\ n \in Message  BY <1>3
  <2>2. t \in Departure /\ t.packet = n.packet /\ t.dst = n.dst /\ t.hop = 0 /\ n.dst \in Address
    BY <2>1 DEF Left, Message, Departure
  <2>3. s = t  BY <1>2
  <2> HIDE DEF t
  <2> QED  BY <1>3, <2>2, <2>3
<1>5. IsFor(s, s.hop)  BY <1>2, <1>4 DEF IsFor, IsDirect
<1> QED  BY <1>3, <1>4, <1>5 DEF m

\* A sweep: what is given up is answered where the answer can be delivered.
LEMMA SweepKeeps ==
  ASSUME RouterOK, Sweep
  PROVE  RouterOK'
<1> DEFINE q == cache.requests
           G == {p \in Spots(q) : GivenUp(q[p[1]])}
           f == [g \in Spots(q) |-> Left(Icmp(At(q, g), "host unreachable"), 0, NoMac)]
           gone == {r \in ToSet(q) : GivenUp(r)}
           repeated == {r \in ToSet(q) : IsRepeated(r)}
<1>1. q \in Seq(Request)  BY DEF RouterOK, ShapeInv, CacheShape
<1>2. /\ cache' \in CacheShape /\ MapsOnce(cache'.entries)
      /\ \E e, d : EmbeddedBy(cache'.requests, q, G, e, d)
  BY SweptFacts DEF Sweep, RouterOK, ShapeInv, TidyInv
<1>3. /\ sent' = sent \cup Unreachable(UNION {ToSet(r.packets) : r \in gone})
      /\ asked' = asked \cup {r.ip : r \in repeated}
      /\ held' = held /\ arrived' = arrived /\ handling' = handling /\ rested' = FALSE
  BY DEF Sweep
<1>4. alive' \in BOOLEAN  BY RouterAssumption DEF Sweep, RouterOK, ShapeInv
<1>5. ASSUME NEW s \in sent' PROVE s \in sent \/ \E g \in G : s = f[g]
  <2> SUFFICES ASSUME s \notin sent PROVE \E g \in G : s = f[g]  OBVIOUS
  <2>1. PICK m \in UNION {ToSet(r.packets) : r \in gone} :
          s = Left(Icmp(m, "host unreachable"), 0, NoMac)
    BY <1>3 DEF Unreachable
  <2>2. PICK r \in gone : m \in ToSet(r.packets)  BY <2>1
  <2>3. PICK k \in DOMAIN q : r = q[k]  BY <2>2 DEF ToSet
  <2>4. PICK j \in DOMAIN r.packets : m = r.packets[j]  BY <2>2 DEF ToSet
  <2> DEFINE g == <<k, j>>
  <2>5. g \in Spots(q) /\ At(q, g) = m  BY <1>1, <2>3, <2>4, SpotIntro
  <2>6. g \in G  BY <2>2, <2>3, <2>5
  <2> HIDE DEF g
  <2> QED  BY <2>1, <2>5, <2>6
<1>6. ASSUME NEW g \in G
      PROVE  /\ f[g] \in Departure /\ f[g].dst \in Address /\ IsFor(f[g], f[g].hop)
             /\ f[g].packet = At(q, g).packet
  <2>1. /\ g[1] \in DOMAIN q /\ g[2] \in DOMAIN q[g[1]].packets /\ GivenUp(q[g[1]])
        /\ At(q, g) = q[g[1]].packets[g[2]]
    BY <1>1, SpotFacts DEF At
  <2>2. g[1] \notin Snags  BY DEF Sweep
  <2>3. At(q, g) \in ToSet(q[g[1]].packets)  BY <2>1 DEF ToSet
  <2>4. ~IsSnag(At(q, g))  BY <2>1, <2>2, <2>3 DEF Snags
  <2>5. IsDirect(At(q, g).src)  BY <2>4 DEF IsSnag
  <2>6. f[g] = Left(Icmp(At(q, g), "host unreachable"), 0, NoMac)  OBVIOUS
  <2> HIDE DEF f
  <2> QED  BY <2>5, <2>6, UnreachableFacts
<1>7. PICK e, d : EmbeddedBy(cache'.requests, q, G, e, d)  BY <1>2
<1>8. /\ LeftFrom(q, G, f, sent, sent')
      /\ \A s \in sent' \ sent : s \in Departure /\ s.dst \in Address /\ IsFor(s, s.hop)
  <2>1. G \in SUBSET Spots(q)  OBVIOUS
  <2> HIDE DEF f, G
  <2> QED  BY <1>5, <1>6, <2>1, LeavingFacts
<1>9. asked' \subseteq NextHops
  <2>1. \A r \in repeated : r.ip \in NextHops  BY <1>1, RequestFacts DEF ToSet
  <2> QED  BY <1>3, <2>1 DEF RouterOK, ShapeInv
<1>10. held' \in BOOLEAN /\ rested' \in BOOLEAN  BY <1>3 DEF RouterOK, ShapeInv
<1> HIDE DEF f, G
<1> QED  BY <1>2, <1>3, <1>4, <1>7, <1>8, <1>9, <1>10, ThinnedKeeps

\* The packet that a snagged sweep does not come back from.
LEMMA SnagFacts ==
  ASSUME RouterOK, Snags # {},
         NEW k, k = First(Snags),
         NEW n, n = SelectInSeq(cache.requests[k].packets, IsSnag)
  PROVE  /\ k \in DOMAIN cache.requests /\ n \in DOMAIN cache.requests[k].packets
         /\ GivenUp(cache.requests[k])
         /\ \A j \in DOMAIN cache.requests : j < k /\ GivenUp(cache.requests[j]) =>
              \A m \in ToSet(cache.requests[j].packets) : IsDirect(m.src)
         /\ \A i \in DOMAIN cache.requests[k].packets :
              i < n => IsDirect(cache.requests[k].packets[i].src)
<1> DEFINE q == cache.requests
<1>1. q \in Seq(Request)  BY DEF RouterOK, ShapeInv, CacheShape
<1>2. DOMAIN q \subseteq Nat  BY <1>1, RequestFacts
<1>3. k \in Snags /\ \A j \in Snags : k <= j
  <2>1. Snags \in SUBSET Nat  BY <1>2 DEF Snags
  <2> QED  BY <2>1, FirstFacts
<1>4. k \in DOMAIN q /\ GivenUp(q[k]) /\ \E m \in ToSet(q[k].packets) : IsSnag(m)
  BY <1>3 DEF Snags
<1>5. ASSUME NEW j \in DOMAIN q, j < k, GivenUp(q[j]), NEW m \in ToSet(q[j].packets)
      PROVE  IsDirect(m.src)
  <2>1. j \in Nat /\ k \in Nat /\ ~(k <= j)  BY <1>2, <1>4, <1>5
  <2>2. j \notin Snags  BY <1>3, <2>1
  <2>3. ~IsSnag(m)  BY <1>5, <2>2 DEF Snags
  <2> QED  BY <2>3 DEF IsSnag
<1> DEFINE p == q[k].packets
           I == {i \in 1 .. Len(p) : IsSnag(p[i])}
<1>6. DOMAIN p = 1 .. Len(p) /\ Len(p) \in Nat  BY <1>1, <1>4, RequestFacts
<1>7. I # {}
  <2>1. PICK m \in ToSet(p) : IsSnag(m)  BY <1>4
  <2>2. PICK i \in DOMAIN p : m = p[i]  BY DEF ToSet
  <2> QED  BY <1>6, <2>1, <2>2
<1>8. n = Min(I)  BY <1>7 DEF SelectInSeq
<1>9. n \in I /\ \A i \in I : n <= i
  <2>1. I \in SUBSET Nat  OBVIOUS
  <2> HIDE DEF I
  <2>2. \E x \in I : \A y \in I : x <= y  BY <1>7, <2>1, LeastExists
  <2> QED  BY <1>8, <2>2 DEF Min
<1>10. ASSUME NEW i \in DOMAIN p, i < n PROVE IsDirect(p[i].src)
  <2>1. i \in Nat /\ n \in Nat /\ ~(n <= i)  BY <1>6, <1>9, <1>10
  <2>2. i \notin I  BY <1>9, <2>1
  <2>3. ~IsSnag(p[i])  BY <1>6, <2>2
  <2> QED  BY <2>3 DEF IsSnag
<1> QED  BY <1>4, <1>5, <1>6, <1>9, <1>10

\* A sweep that does not come back.
LEMMA SweepSnaggedKeeps ==
  ASSUME RouterOK, SweepSnagged
  PROVE  RouterOK'
<1> DEFINE q == cache.requests
           k == First(Snags)
           n == SelectInSeq(q[k].packets, IsSnag)
           before == SubSeq(q, 1, k - 1)
           gone == {r \in ToSet(before) : GivenUp(r)}
           repeated == {r \in ToSet(before) : IsRepeated(r)}
           answered == ToSet(SubSeq(q[k].packets, 1, n - 1)) \cup UNION {ToSet(r.packets) : r \in gone}
           G == GivenUpBefore(q, k, n)
           f == [g \in Spots(q) |-> Left(Icmp(At(q, g), "host unreachable"), 0, NoMac)]
<1>1. q \in Seq(Request)  BY DEF RouterOK, ShapeInv, CacheShape
<1>2. /\ cache' = SweptUpTo(cache, k, n) /\ Snags # {}
      /\ sent' = sent \cup Unreachable(answered)
      /\ asked' = asked \cup {r.ip : r \in repeated}
      /\ arrived' = arrived /\ handling' = handling /\ rested' = FALSE
  BY DEF SweepSnagged
<1>3. held' \in BOOLEAN /\ alive' \in BOOLEAN
  BY RouterAssumption DEF SweepSnagged, RouterOK, ShapeInv
<1>4. /\ k \in DOMAIN q /\ n \in DOMAIN q[k].packets /\ GivenUp(q[k])
      /\ \A j \in DOMAIN q : j < k /\ GivenUp(q[j]) =>
           \A m \in ToSet(q[j].packets) : IsDirect(m.src)
      /\ \A i \in DOMAIN q[k].packets : i < n => IsDirect(q[k].packets[i].src)
  BY <1>2, SnagFacts
<1> HIDE DEF k, n
<1>5. /\ cache' \in CacheShape /\ MapsOnce(cache'.entries)
      /\ \E e, d : EmbeddedBy(cache'.requests, q, G, e, d)
  BY <1>2, <1>4, SweptUpToFacts DEF RouterOK, ShapeInv, TidyInv
<1>6. /\ DOMAIN q = 1 .. Len(q) /\ Len(q) \in Nat /\ k \in 1 .. Len(q)
      /\ q[k].packets \in Seq(Message) /\ Len(q[k].packets) \in Nat
      /\ DOMAIN q[k].packets = 1 .. Len(q[k].packets) /\ n \in 1 .. Len(q[k].packets)
      /\ \A i \in 1 .. Len(q[k].packets) : q[k].packets[i] \in Message
      /\ \A j \in 1 .. Len(q) : q[j] \in Request
  BY <1>1, <1>4, RequestFacts
<1>7. ASSUME NEW r \in ToSet(before) PROVE \E j \in DOMAIN q : j < k /\ r = q[j]
  <2> DEFINE l == k - 1
  <2>1. l \in Nat /\ (\A j \in 1 .. l : q[j] \in Request) /\ before = SubSeq(q, 1, l)
    BY <1>6
  <2>2. \A j \in 1 .. l : j < k /\ j \in DOMAIN q  BY <1>6
  <2> HIDE DEF l, before, q
  <2>3. /\ before \in Seq(Request) /\ Len(before) = IF 1 <= l THEN l - 1 + 1 ELSE 0
        /\ \A j \in 1 .. l - 1 + 1 : before[j] = q[1 + j - 1]
    BY <2>1, SubSeqProperties
  <2>4. Len(before) = l  BY <2>1, <2>3
  <2>5. DOMAIN before = 1 .. l  BY <2>3, <2>4, LenProperties
  <2>6. PICK j \in 1 .. l : r = before[j]  BY <2>5 DEF ToSet
  <2>7. j \in 1 .. l - 1 + 1 /\ 1 + j - 1 = j  BY <2>1
  <2>8. r = q[j]  BY <2>3, <2>6, <2>7
  <2> QED  BY <2>2, <2>8
<1>8. ASSUME NEW m \in answered PROVE \E g \in G : m = At(q, g)
  <2>1. CASE m \in ToSet(SubSeq(q[k].packets, 1, n - 1))
    <3> DEFINE l == n - 1
               p == q[k].packets
               start == SubSeq(p, 1, l)
    <3>1. l \in Nat /\ \A j \in 1 .. l : p[j] \in Message /\ j \in DOMAIN p /\ j < n
      BY <1>6
    <3>2. m \in ToSet(start)  BY <2>1
    <3> HIDE DEF l, p, start
    <3>3. /\ start \in Seq(Message) /\ Len(start) = IF 1 <= l THEN l - 1 + 1 ELSE 0
          /\ \A j \in 1 .. l - 1 + 1 : start[j] = p[1 + j - 1]
      BY <3>1, SubSeqProperties DEF start
    <3>4. Len(start) = l  BY <3>1, <3>3
    <3>5. DOMAIN start = 1 .. l  BY <3>3, <3>4, LenProperties
    <3>6. PICK j \in 1 .. l : m = start[j]  BY <3>5, <3>2 DEF ToSet
    <3>7. j \in 1 .. l - 1 + 1 /\ 1 + j - 1 = j  BY <3>1
    <3>8. m = p[j] /\ j < n /\ j \in DOMAIN p  BY <3>1, <3>3, <3>6, <3>7
    <3> DEFINE g == <<k, j>>
    <3>9. g \in Spots(q) /\ At(q, g) = m  BY <1>1, <1>4, <3>8, SpotIntro DEF p
    <3>10. g[1] = k /\ g[2] = j  OBVIOUS
    <3> HIDE DEF g, q
    <3>11. g \in G  BY <3>8, <3>9, <3>10 DEF GivenUpBefore
    <3> QED  BY <3>9, <3>11
  <2>2. CASE m \in UNION {ToSet(r.packets) : r \in gone}
    <3>1. PICK r \in gone : m \in ToSet(r.packets)  BY <2>2
    <3>2. PICK j \in DOMAIN q : j < k /\ r = q[j]  BY <1>7, <3>1
    <3>3. PICK i \in DOMAIN r.packets : m = r.packets[i]  BY <3>1 DEF ToSet
    <3> DEFINE g == <<j, i>>
    <3>4. g \in Spots(q) /\ At(q, g) = m  BY <1>1, <3>2, <3>3, SpotIntro
    <3>5. g[1] = j /\ GivenUp(q[j])  BY <3>1, <3>2
    <3> HIDE DEF g, q
    <3>6. g \in G  BY <3>2, <3>4, <3>5 DEF GivenUpBefore
    <3> QED  BY <3>4, <3>6
  <2> QED  BY <2>1, <2>2
<1>9. ASSUME NEW s \in sent' PROVE s \in sent \/ \E g \in G : s = f[g]
  <2> SUFFICES ASSUME s \notin sent PROVE \E g \in G : s = f[g]  OBVIOUS
  <2>1. PICK m \in answered : s = Left(Icmp(m, "host unreachable"), 0, NoMac)
    <3> HIDE DEF answered
    <3> QED  BY <1>2 DEF Unreachable
  <2>2. PICK g \in G : m = At(q, g)  BY <1>8
  <2>3. g \in Spots(q)  BY DEF GivenUpBefore
  <2> QED  BY <2>1, <2>2, <2>3
<1> HIDE DEF answered
<1>10. ASSUME NEW g \in G
      PROVE  /\ f[g] \in Departure /\ f[g].dst \in Address /\ IsFor(f[g], f[g].hop)
             /\ f[g].packet = At(q, g).packet
  <2>1. g \in Spots(q)  BY DEF GivenUpBefore
  <2>2. /\ g[1] \in DOMAIN q /\ g[2] \in DOMAIN q[g[1]].packets
        /\ At(q, g) = q[g[1]].packets[g[2]]
    BY <1>1, <2>1, SpotFacts DEF At
  <2>3. \/ g[1] < k /\ GivenUp(q[g[1]])
        \/ g[1] = k /\ g[2] < n
    BY DEF GivenUpBefore
  <2>4. At(q, g) \in ToSet(q[g[1]].packets)  BY <2>2 DEF ToSet
  <2>5. IsDirect(At(q, g).src)  BY <1>4, <2>2, <2>3, <2>4
  <2>6. f[g] = Left(Icmp(At(q, g), "host unreachable"), 0, NoMac)  BY <2>1
  <2> HIDE DEF f
  <2> QED  BY <2>1, <2>5, <2>6, UnreachableFacts
<1>11. PICK e, d : EmbeddedBy(cache'.requests, q, G, e, d)  BY <1>5
<1>12. /\ LeftFrom(q, G, f, sent, sent')
       /\ \A s \in sent' \ sent : s \in Departure /\ s.dst \in Address /\ IsFor(s, s.hop)
  <2>1. G \in SUBSET Spots(q)  BY DEF GivenUpBefore
  <2> HIDE DEF f, G
  <2> QED  BY <1>9, <1>10, <2>1, LeavingFacts
<1>13. asked' \subseteq NextHops
  <2>1. \A r \in repeated : r.ip \in NextHops  BY <1>1, <1>7, RequestFacts
  <2> HIDE DEF repeated
  <2> QED  BY <1>2, <2>1 DEF RouterOK, ShapeInv
<1>14. rested' \in BOOLEAN  BY <1>2
<1> HIDE DEF f, G
<1> QED  BY <1>2, <1>3, <1>5, <1>11, <1>12, <1>13, <1>14, ThinnedKeeps

\* A step after which the messages that wait are what was queued keeps all of it.
LEMMA NextKeeps ==
  ASSUME RouterOK, [Next]_vars, intact'
  PROVE  RouterOK'
<1>1. ASSUME NEW h \in Header, HandleIp(h) PROVE RouterOK'  BY <1>1, HandleIpKeeps
<1>2. CASE Lookup  BY <1>2, LookupKeeps
<1>3. CASE AppendPacket  BY <1>3, AppendPacketKeeps
<1>4. CASE SendRequest  BY <1>4, SendRequestKeeps
<1>5. CASE FreeMessage  BY <1>5, FreeMessageKeeps
<1>6. ASSUME NEW ip \in asked, NEW mac \in MacsOf(ip), Reply(ip, mac) PROVE RouterOK'
  BY <1>6, ReplyKeeps
<1>7. CASE Sweep  BY <1>7, SweepKeeps
<1>8. CASE SweepSnagged  BY <1>8, SweepSnaggedKeeps
<1>9. CASE Tick  BY <1>9, TickKeeps
<1>10. CASE UNCHANGED <<cache, held, rested, arrived, handling, asked, sent, alive>>
  <2>1. ShapeInv'  BY <1>10 DEF RouterOK, ShapeInv
  <2>2. RouteInv'  BY <1>10 DEF RouterOK, RouteInv, AllFor
  <2>3. PlaceInv'  BY <1>10 DEF RouterOK, PlaceInv
  <2>4. TidyInv'  BY <1>10 DEF RouterOK, TidyInv
  <2> QED  BY <2>1, <2>2, <2>3, <2>4 DEF RouterOK
<1>11. CASE OtherFrame  BY <1>10, <1>11 DEF OtherFrame
<1>12. CASE Ended \/ UNCHANGED vars  BY <1>10, <1>12 DEF Ended, vars
<1> QED
  BY <1>1, <1>2, <1>3, <1>4, <1>5, <1>6, <1>7, <1>8, <1>9, <1>11, <1>12 DEF Next

\* Every step but one that changes nothing starts from a state where they are.
LEMMA StartsSound ==
  ASSUME intact \in BOOLEAN, [Next]_vars
  PROVE  intact' \in BOOLEAN /\ (Sound \/ UNCHANGED vars)
<1>1. ASSUME NEW h \in Header, HandleIp(h) PROVE intact' \in BOOLEAN /\ Sound
  <2>1. \E m, reason : Allotted(m, reason)  BY <1>1, Zenon DEF HandleIp
  <2>2. intact' \in BOOLEAN  BY <2>1 DEF Allotted
  <2> QED  BY <1>1, <2>2 DEF HandleIp
<1>2. CASE Lookup  BY <1>2 DEF Lookup
<1>3. CASE AppendPacket \/ SendRequest \/ OtherFrame
  BY <1>3 DEF AppendPacket, SendRequest, OtherFrame, Allocates
<1>4. CASE FreeMessage  BY <1>4 DEF FreeMessage
<1>5. ASSUME NEW ip \in asked, NEW mac \in MacsOf(ip), Reply(ip, mac)
      PROVE  intact' \in BOOLEAN /\ Sound
  BY <1>5 DEF Reply, Allocates
<1>6. CASE Sweep
  <2>1. Sound /\ (Allocates \/ intact' = intact)  BY <1>6 DEF Sweep
  <2> QED  BY <2>1 DEF Allocates
<1>7. CASE SweepSnagged
  <2>1. Sound /\ Allocates  BY <1>7, Zenon DEF SweepSnagged
  <2> QED  BY <2>1 DEF Allocates
<1>8. CASE Tick  BY <1>8 DEF Tick
<1>9. CASE Ended \/ UNCHANGED vars  BY <1>9 DEF Ended, vars
<1> QED
  BY <1>1, <1>2, <1>3, <1>4, <1>5, <1>6, <1>7, <1>8, <1>9 DEF Next

\* The invariant holds in every state, for every routing table, every set of
\* packets and every bound.
THEOREM RInvHolds == Spec => []RInv
<1>1. Init => RInv  BY InitHolds DEF Init, RInv
<1>2. RInv /\ [Next]_vars => RInv'
  <2> SUFFICES ASSUME RInv, [Next]_vars PROVE RInv'  OBVIOUS
  <2>1. intact' \in BOOLEAN /\ (Sound \/ UNCHANGED vars)  BY StartsSound DEF RInv
  <2>2. ASSUME intact' PROVE RouterOK'
    <3>1. intact  BY <2>1, <2>2 DEF Sound, vars
    <3> QED  BY <2>2, <3>1, NextKeeps DEF RInv
  <2> QED  BY <2>1, <2>2 DEF RInv
<1> QED  BY <1>1, <1>2, PTL DEF Spec

\* The invariant implies each of the three state properties: the cache is tidy,
LEMMA TidyFollows == RInv => CacheIsTidy
<1> SUFFICES ASSUME RInv, intact PROVE CacheIsTidy  BY DEF CacheIsTidy
<1> USE DEF RInv
<1> DEFINE q == cache.requests
<1>1. /\ q \in Seq(Request) /\ cache.entries \in [Index -> Entry]
      /\ held \in BOOLEAN /\ rested \in BOOLEAN /\ alive \in BOOLEAN
      /\ arrived \in 0 .. MaxPackets /\ asked \subseteq NextHops /\ sent \subseteq Departure
  BY DEF RouterOK, ShapeInv, CacheShape
<1>2. \A r \in ToSet(q) : \E k \in DOMAIN q : r = q[k]  BY DEF ToSet
<1>3. TypeOK
  <2>1. \A r \in ToSet(q) :
          /\ r.ip \in NextHops /\ r.age \in 0 .. 2 /\ r.retries \in 0 .. MaxRetries + 1
          /\ ToSet(r.packets) \subseteq Message
    <3> TAKE r \in ToSet(q)
    <3>1. r \in Request /\ r.packets \in Seq(Message)
          /\ \A i \in DOMAIN r.packets : r.packets[i] \in Message
      BY <1>1, <1>2, RequestFacts
    <3>2. ToSet(r.packets) \subseteq Message  BY <3>1 DEF ToSet
    <3>3. r.ip \in NextHops /\ r.age \in 0 .. 2 /\ r.retries \in 0 .. MaxRetries + 1
      BY <3>1 DEF Request
    <3> QED  BY <3>2, <3>3
  <2>2. {held, rested, alive, intact} \subseteq BOOLEAN  BY <1>1
  <2>3. cache.entries \in [Index -> [ip : NextHops \cup {0}, mac : Mac \cup {NoMac},
                                     age : 0 .. EntryTimeout + 1, valid : {0, 1}]]
    BY <1>1 DEF Entry
  <2>4. sent \subseteq [packet : 1 .. MaxPackets, kind : Kinds, dst : Address,
                        hop : NextHops \cup {0}, mac : Mac \cup {NoMac}]
    BY <1>1 DEF Departure
  <2> QED  BY <1>1, <2>1, <2>2, <2>3, <2>4, Zenon DEF TypeOK
<1>4. Tidy(q) /\ MapsOnce(cache.entries)  BY DEF RouterOK, TidyInv
<1>5. \A j, k \in DOMAIN q : j # k => q[j].ip # q[k].ip  BY <1>4 DEF Tidy
<1>6. \A r \in ToSet(q) : r.packets # <<>>  BY <1>2, <1>4 DEF Tidy
<1> QED  BY <1>3, <1>4, <1>5, <1>6 DEF CacheIsTidy, MapsOnce

\* what left was sent by the longest match,
LEMMA RouteFollows == RInv => SentByTheRoute
<1> SUFFICES ASSUME RInv, intact, NEW s \in sent
             PROVE  \E r \in ToSet(Routes) :
                      /\ Covers(r, s.dst) /\ r.gw = s.hop
                      /\ \A q \in ToSet(Routes) : Covers(q, s.dst) => q.len <= r.len
  BY DEF SentByTheRoute
<1>0. RouterOK  BY DEF RInv
<1>1. s.dst \in Address /\ HasRoute(s.dst) /\ RouteOf(s.dst).gw = s.hop
  BY <1>0 DEF RouterOK, RouteInv, IsFor
<1> QED  BY <1>1, RouteFacts

\* At most one.
LEMMA OneAtMost ==
  ASSUME NEW S, \A x, y \in S : x = y
  PROVE  (S = {} /\ Cardinality(S) = 0) \/ Cardinality(S) = 1
<1>1. CASE S = {}  BY <1>1, FS_EmptySet
<1>2. CASE S # {}
  <2>1. PICK x \in S : TRUE  BY <1>2
  <2>2. S = {x}  BY <2>1
  <2> QED  BY <2>2, FS_Singleton
<1> QED  BY <1>1, <1>2

\* and no packet is in two places.
LEMMA PlaceFollows == RInv => NowhereTwice
<1> SUFFICES ASSUME RInv, intact, NEW p \in 1 .. MaxPackets
             PROVE  /\ Cardinality(Queues(p)) + Cardinality(Departures(p)) <= 1
                    /\ IsHandled(p) => Queues(p) = {} /\ Departures(p) = {}
  BY DEF NowhereTwice
<1> DEFINE q == cache.requests
<1>0. RouterOK  BY DEF RInv
<1>1. q \in Seq(Request) /\ Apart(q, sent, arrived)
  BY <1>0 DEF RouterOK, ShapeInv, PlaceInv, CacheShape
<1>2. ASSUME NEW x \in Queues(p)
      PROVE  x \in Spots(q) /\ At(q, x).packet = p
  <2>1. PICK k \in DOMAIN q : x \in {<<k, i>> : i \in {j \in DOMAIN q[k].packets :
                                                          q[k].packets[j].packet = p}}
    BY DEF Queues
  <2>2. PICK i \in {j \in DOMAIN q[k].packets : q[k].packets[j].packet = p} : x = <<k, i>>
    BY <2>1
  <2> QED  BY <1>1, <2>2, SpotIntro
<1>3. \A s \in Departures(p) : s \in sent /\ s.packet = p  BY DEF Departures
<1>4. \A x, y \in Queues(p) : x = y  BY <1>1, <1>2 DEF Apart
<1>5. \A s, t \in Departures(p) : s = t  BY <1>1, <1>3 DEF Apart
<1>6. Queues(p) = {} \/ Departures(p) = {}  BY <1>1, <1>2, <1>3 DEF Apart
<1>7. Cardinality(Queues(p)) + Cardinality(Departures(p)) <= 1
  <2>1. (Queues(p) = {} /\ Cardinality(Queues(p)) = 0) \/ Cardinality(Queues(p)) = 1
    BY <1>4, OneAtMost
  <2>2. (Departures(p) = {} /\ Cardinality(Departures(p)) = 0) \/ Cardinality(Departures(p)) = 1
    BY <1>5, OneAtMost
  <2>3. Cardinality({}) = 0  BY FS_EmptySet
  <2> QED  BY <1>6, <2>1, <2>2, <2>3
<1>8. ASSUME IsHandled(p) PROVE Queues(p) = {} /\ Departures(p) = {}
  <2>1. handling.step \in {"lookup", "append"} /\ handling.message.packet = p
    BY <1>8 DEF IsHandled
  <2>2. Fresh(p, q, sent)  BY <1>0, <2>1 DEF RouterOK, PlaceInv
  <2> QED  BY <1>2, <1>3, <2>2 DEF Fresh
<1> QED  BY <1>7, <1>8

\* No address is in two valid entries or waited for by two requests, and no
\* request is without packets (arpcache.c:75-79), in every reachable state in
\* which the messages that wait are what was queued.
THEOREM CacheIsTidyHolds == Spec => []CacheIsTidy
BY RInvHolds, TidyFollows, PTL

\* What leaves for a hop leaves by the longest of the routes that cover its
\* destination (rtable.c, ip_base.c), in every such state.
THEOREM SentByTheRouteHolds == Spec => []SentByTheRoute
BY RInvHolds, RouteFollows, PTL

\* A packet is never both in a queue and gone, twice in the queues or gone twice
\* (arpcache.c:80-121, 139-157, 239-252), in every such state: the router itself
\* duplicates nothing, and only the buffer of a waiting message that
\* icmp_send_packet() freed can make it do so (icmp.c:62).
THEOREM NowhereTwiceHolds == Spec => []NowhereTwice
BY RInvHolds, PlaceFollows, PTL

\* What the step property says of one step.
OwnedNow ==
  \A s \in sent' \ sent : s.hop # 0 =>
    \E i \in Index : /\ cache'.entries[i].valid # 0
                     /\ cache'.entries[i].ip = s.hop /\ cache'.entries[i].mac = s.mac

\* What leaves at once leaves for a network of its own.
LEMMA HandleIpOwned ==
  ASSUME NEW h \in Header, HandleIp(h)
  PROVE  OwnedNow
<1> SUFFICES ASSUME NEW s \in sent' \ sent PROVE s.hop = 0  BY DEF OwnedNow
<1>1. \A m : Emit(m) => s.hop = 0
  <2> SUFFICES ASSUME NEW m, Emit(m) PROVE s.hop = 0  OBVIOUS
  <2>1. s = Left(m, 0, NoMac)  BY DEF Emit
  <2> QED  BY <2>1 DEF Left
<1>2. \A m, kind : SendIcmp(m, kind) => s.hop = 0  BY <1>1 DEF SendIcmp
<1>3. \E m, kind : Emit(m) \/ SendIcmp(m, kind)  BY Zenon DEF HandleIp
<1> QED  BY <1>1, <1>2, <1>3

\* What a reply lets leave, leaves for the address just learnt.
LEMMA ReplyOwned ==
  ASSUME RouterOK, NEW ip \in asked, NEW mac \in MacsOf(ip), Reply(ip, mac)
  PROVE  OwnedNow
<1>1. ip \in NextHops /\ mac \in Mac
  BY RouterAssumption DEF RouterOK, ShapeInv, MacsOf
<1>2. PICK i \in Places(cache, ip) : cache' = Inserted(cache, ip, mac, i)  BY DEF Reply
<1>3. i \in Index  BY <1>1, InsertedFacts DEF RouterOK, ShapeInv, TidyInv
<1>4. cache.entries \in [Index -> Entry]  BY DEF RouterOK, ShapeInv, CacheShape
<1>5. /\ cache'.entries[i].valid = 1 /\ cache'.entries[i].ip = ip
      /\ cache'.entries[i].mac = mac
  BY <1>2, <1>3, <1>4 DEF Inserted
<1>6. ASSUME NEW s \in sent' \ sent PROVE s.hop = ip /\ s.mac = mac
  <2>1. PICK p \in Released(cache, ip) : s = Left(p.message, p.hop, mac)  BY DEF Reply
  <2>2. p.hop = ip  BY DEF Released, PacketsOf
  <2> QED  BY <2>1, <2>2 DEF Left
<1> QED  BY <1>3, <1>5, <1>6 DEF OwnedNow

\* What a sweep answers leaves for a network of its own.
LEMMA UnreachableOwned ==
  ASSUME NEW packets, sent' = sent \cup Unreachable(packets)
  PROVE  OwnedNow
<1>1. ASSUME NEW s \in sent' \ sent PROVE s.hop = 0
  <2>1. PICK m \in packets : s = Left(Icmp(m, "host unreachable"), 0, NoMac)
    BY DEF Unreachable
  <2> QED  BY <2>1 DEF Left
<1> QED  BY <1>1 DEF OwnedNow

\* Every step.
LEMMA StepOwned == RInv /\ [Next]_vars => OwnedNow
<1> SUFFICES ASSUME RInv, [Next]_vars PROVE OwnedNow  OBVIOUS
<1>1. ASSUME NEW h \in Header, HandleIp(h) PROVE OwnedNow  BY <1>1, HandleIpOwned
<1>2. CASE sent' = sent  BY <1>2 DEF OwnedNow
<1>3. CASE Lookup
  <2>1. RouterOK  BY <1>3 DEF Lookup, Sound, RInv
  <2>2. handling.hop \in NextHops  BY <1>3, <2>1, HandlingFacts DEF Lookup
  <2>3. Hits(cache, handling.hop) = {}  BY <2>1, <2>2, NoHits DEF RouterOK, ShapeInv
  <2>4. sent' = sent  BY <1>3, <2>3 DEF Lookup
  <2> QED  BY <1>2, <2>4
<1>4. ASSUME NEW ip \in asked, NEW mac \in MacsOf(ip), Reply(ip, mac) PROVE OwnedNow
  <2>1. RouterOK  BY <1>4 DEF Reply, Sound, RInv
  <2> QED  BY <1>4, <2>1, ReplyOwned
<1>5. CASE Sweep
  <2>1. \E packets : sent' = sent \cup Unreachable(packets)  BY <1>5, Zenon DEF Sweep
  <2> QED  BY <2>1, UnreachableOwned
<1>6. CASE SweepSnagged
  <2>1. \E packets : sent' = sent \cup Unreachable(packets)  BY <1>6, Zenon DEF SweepSnagged
  <2> QED  BY <2>1, UnreachableOwned
<1>7. CASE \/ OtherFrame \/ AppendPacket \/ SendRequest \/ FreeMessage \/ Tick \/ Ended
           \/ UNCHANGED vars
  <2>1. sent' = sent
    BY <1>7 DEF OtherFrame, AppendPacket, SendRequest, FreeMessage, Tick, Ended, vars
  <2> QED  BY <1>2, <2>1
<1> QED  BY <1>1, <1>3, <1>4, <1>5, <1>6, <1>7 DEF Next

\* What leaves for a hop has the hardware address that a valid entry of the
\* cache gives for that hop in the state it leaves in: the step property of
\* Router, for every instance.
THEOREM SentToTheOwnerHolds == Spec => SentToTheOwner
<1>1. RInv /\ [Next]_vars =>
        [\A s \in sent' \ sent : s.hop # 0 =>
           \E i \in Index : /\ cache'.entries[i].valid # 0
                            /\ cache'.entries[i].ip = s.hop /\ cache'.entries[i].mac = s.mac]_vars
  BY StepOwned DEF OwnedNow
<1> QED  BY <1>1, RInvHolds, PTL DEF Spec, SentToTheOwner
=============================================================================
