------------------------------- MODULE Router -------------------------------
(***************************************************************************)
(* The router of Lab 6, 02-router/: the packet loop (main.c, ip.c, arp.c,  *)
(* icmp.c), which handles one packet after another, and the thread that    *)
(* sweeps the ARP cache (arpcache.c).                                      *)
(*                                                                         *)
(* The cache's lock protects whole functions, so a critical section is one *)
(* step, unless its thread waits for a lock inside it.                     *)
(*                                                                         *)
(* iface_send_packet() frees the buffer it is given (device_internal.c:39),*)
(* and arp_send_request() and icmp_send_packet() free theirs again.  What  *)
(* a second free does is up to the allocator: AfterDoubleFree has TRUE if  *)
(* the process may go on, FALSE if it may be aborted.  A step that aborts  *)
(* is modelled as if it were done; a second free that does harm later (to  *)
(* a block that the other thread was given in between, or that the         *)
(* allocator then hands out twice) is left out.                            *)
(*                                                                         *)
(* icmp_send_packet() also frees a message that waits in the cache.  From  *)
(* then on the allocator may write its own data into the buffer, or hand   *)
(* it out for the next thing it is asked for, and the queue then points to *)
(* something else than the message.  Intact says that this has not yet     *)
(* happened; the model follows the process no further, because what comes  *)
(* after depends on how the allocator lays out its memory.                 *)
(***************************************************************************)
EXTENDS ArpCache, RouteTable

CONSTANTS Mac,             \* hardware addresses of next hops
          Moving,          \* bound: the next hops whose hardware address changes
          Header,          \* bound: what the packets that arrive may look like
          MaxPackets,      \* bound: how many arrive
          AfterDoubleFree

\* echo is TRUE for an ICMP echo request to the interface it arrives at.
ASSUME RouterAssumption ==
  /\ Header \subseteq [src : Address, dst : Address, ttl : 0 .. 255, echo : BOOLEAN]
  /\ Mac # {} /\ NoMac \notin Mac /\ Moving \subseteq Address
  /\ MaxPackets \in Nat /\ AfterDoubleFree \subseteq BOOLEAN
  /\ \A r \in ToSet(Routes) : r.gw # 1      \* 0.0.0.1 is no gateway
  /\ \A r, q \in ToSet(Routes) : r.gw = q.gw /\ r.gw # 0 => r.own = q.own

VARIABLES cache,      \* arpcache
          held,       \* whether the sweeping thread holds the lock for good
          rested,     \* whether its sleep is over
          arrived,    \* the number of packets that arrived
          handling,   \* what the packet loop has to do next
          asked,      \* the addresses that were ever asked for
          sent,       \* the messages that left, with their next hop
          alive,      \* whether the process runs
          intact      \* whether the waiting messages are what was queued

vars == <<cache, held, rested, arrived, handling, asked, sent, alive, intact>>

NextHops == {r.gw : r \in ToSet(Routes)} \ {0}
Kinds == {"data", "echo reply", "net unreachable", "host unreachable", "time exceeded"}

\* A packet of the router: the one that arrived, or an ICMP message about it.
\* Freed says that its buffer is free although the packet waits in the cache.
Message == [packet : 1 .. MaxPackets, kind : Kinds, src : Address, dst : Address,
            freed : BOOLEAN]

Nothing == [step |-> "none"]
Task(step, m, hop) == [step |-> step, message |-> m, hop |-> hop]

\* The hardware addresses that replies for a next hop may carry.
MacsOf(ip) == IF ip \in Moving THEN Mac ELSE {CHOOSE mac \in Mac : TRUE}

Left(m, hop, mac) == [packet |-> m.packet, kind |-> m.kind, dst |-> m.dst,
                      hop |-> hop, mac |-> mac]

RouteOf(a) == Routes[LongestPrefixMatch[a]]
HasRoute(a) == LongestPrefixMatch[a] # 0
IsDirect(a) == HasRoute(a) /\ RouteOf(a).gw = 0

Init ==
  /\ cache = EmptyCache
  /\ held = FALSE /\ rested = FALSE
  /\ arrived = 0 /\ handling = Nothing
  /\ asked = {} /\ sent = {}
  /\ alive = TRUE /\ intact = TRUE

\* The model goes on.
Sound == alive /\ intact

\* The messages that wait although their buffers are free.
Dangling == {m \in UNION {ToSet(r.packets) : r \in ToSet(cache.requests)} : m.freed}

\* A step that asks for memory may be given one of these buffers.
Allocates == intact' \in {TRUE, Dangling = {}}

\* The cache with one queued message become another.
Replaced(r, old, new) ==
  [r EXCEPT !.packets = [i \in DOMAIN r.packets |->
     IF r.packets[i] = old THEN new ELSE r.packets[i]]]
CacheWith(old, new) ==
  [cache EXCEPT !.requests = [k \in DOMAIN @ |-> Replaced(@[k], old, new)]]

-----------------------------------------------------------------------------
\* What the packet loop does.

\* The ICMP message about m: to m's sender, from the interface towards it.
Icmp(m, kind) ==
  [packet |-> m.packet, kind |-> kind, src |-> RouteOf(m.src).own, dst |-> m.src,
   freed |-> FALSE]

\* A packet for a network that an interface is on leaves with the hardware
\* address it has; one for a gateway is looked up in the cache.
Emit(m) ==
  IF IsDirect(m.dst)
  THEN sent' = sent \cup {Left(m, 0, NoMac)} /\ UNCHANGED handling
  ELSE handling' = Task("lookup", m, RouteOf(m.dst).gw) /\ UNCHANGED sent

\* icmp_send_packet() up to the lookup.  Without a route to m's sender it
\* follows a null pointer.
SendIcmp(m, kind) ==
  \/ /\ HasRoute(m.src)
     /\ Emit(Icmp(m, kind))
     /\ IF IsDirect(m.src) THEN alive' \in AfterDoubleFree ELSE UNCHANGED alive
  \/ /\ ~HasRoute(m.src)
     /\ alive' = FALSE /\ UNCHANGED <<sent, handling>>

\* Why handle_ip_packet() answers a packet instead of forwarding it.
Reason(h) ==
  IF h.echo THEN "echo reply"
  ELSE IF ~HasRoute(h.dst) THEN "net unreachable"
  ELSE IF h.ttl <= 1 THEN "time exceeded"
  ELSE "none"

\* What is built for m in memory of its own: m, and the ICMP message about it.
Built(m, reason) ==
  IF reason = "none" \/ ~HasRoute(m.src) THEN {m} ELSE {m, Icmp(m, reason)}

\* malloc() for a new packet, and for an answer to it: when the buffer was that
\* of a message that still waits, the queue now holds the new one instead.
Allotted(m, reason) ==
  \/ intact' = TRUE /\ UNCHANGED cache
  \/ /\ intact' = FALSE
     /\ \E old \in Dangling, new \in Built(m, reason) : cache' = CacheWith(old, new)

\* handle_ip_packet() of a packet that is new, up to the lookup of its next
\* hop in the cache.
HandleIp(h) ==
  /\ Sound /\ handling = Nothing /\ arrived < MaxPackets
  /\ arrived' = arrived + 1
  /\ LET m == [packet |-> arrived', kind |-> "data", src |-> h.src, dst |-> h.dst,
               freed |-> FALSE]
     IN  /\ IF Reason(h) = "none" THEN Emit(m) /\ UNCHANGED alive
            ELSE SendIcmp(m, Reason(h))
         /\ Allotted(m, Reason(h))
  /\ UNCHANGED <<held, rested, asked>>

\* A frame that is neither an IP packet nor an ARP reply: no more than memory
\* for it, and for the reply to an ARP request, is asked for.
OtherFrame ==
  /\ Sound /\ handling = Nothing /\ Dangling # {}
  /\ Allocates
  /\ UNCHANGED <<cache, held, rested, arrived, handling, asked, sent, alive>>

\* What is left to do for m once it left or waits: icmp_send_packet() frees it.
After(m, hop) == IF m.kind = "data" THEN Nothing ELSE Task("free", m, hop)

\* iface_send_packet_by_arp(): arpcache_lookup() and, with luck, sending.
Lookup ==
  /\ Sound /\ handling.step = "lookup" /\ ~held
  /\ LET hits == Hits(cache, handling.hop) IN
     \/ /\ hits # {}
        /\ sent' = sent \cup {Left(handling.message, handling.hop,
                                   cache.entries[First(hits)].mac)}
        /\ handling' = After(handling.message, handling.hop)
     \/ /\ hits = {}
        /\ handling' = [handling EXCEPT !.step = "append"]
        /\ UNCHANGED sent
  /\ UNCHANGED <<cache, held, rested, arrived, asked, alive, intact>>

\* arpcache_append_packet() ...
AppendPacket ==
  /\ Sound /\ handling.step = "append" /\ ~held
  /\ cache' = Appended(cache, handling.hop, handling.message)
  /\ handling' = IF Waiting(cache, handling.hop) # {}
                 THEN After(handling.message, handling.hop)
                 ELSE [handling EXCEPT !.step = "ask"]
  /\ Allocates
  /\ UNCHANGED <<held, rested, arrived, asked, sent, alive>>

\* ... and, after it unlocked, arp_send_request().
SendRequest ==
  /\ Sound /\ handling.step = "ask"
  /\ asked' = asked \cup {handling.hop}
  /\ handling' = After(handling.message, handling.hop)
  /\ alive' \in AfterDoubleFree
  /\ Allocates
  /\ UNCHANGED <<cache, held, rested, arrived, sent>>

\* The end of icmp_send_packet(): the packet is freed, whether it waits in the
\* cache, where free() may write into it, or was freed by whoever sent it or gave
\* it up meanwhile.
FreeMessage ==
  /\ Sound /\ handling.step = "free"
  /\ LET m == handling.message
         waits == \E r \in ToSet(cache.requests) : Contains(r.packets, m)
     IN  IF waits
         THEN /\ cache' = CacheWith(m, [m EXCEPT !.freed = TRUE])
              /\ intact' \in BOOLEAN
              /\ UNCHANGED alive
         ELSE alive' \in AfterDoubleFree /\ UNCHANGED <<cache, intact>>
  /\ handling' = Nothing
  /\ UNCHANGED <<held, rested, arrived, asked, sent>>

\* handle_arp_packet() of a reply: arpcache_insert(), which sends the packets
\* that waited for it.
Reply(ip, mac) ==
  /\ Sound /\ handling = Nothing /\ ~held
  /\ \E i \in Places(cache, ip) : cache' = Inserted(cache, ip, mac, i)
  /\ sent' = sent \cup {Left(p.message, p.hop, mac) : p \in Released(cache, ip)}
  /\ IF \E p \in Released(cache, ip) : p.message.freed
     THEN alive' \in AfterDoubleFree ELSE UNCHANGED alive
  /\ Allocates
  /\ UNCHANGED <<held, rested, arrived, handling, asked>>

-----------------------------------------------------------------------------
\* What the sweeping thread does.

\* An error message about m that the sweep cannot send: it waits for the lock
\* in the lookup of a gateway, or there is no route.
IsSnag(m) == ~IsDirect(m.src)

Snags == {k \in DOMAIN cache.requests :
            /\ GivenUp(cache.requests[k])
            /\ \E m \in ToSet(cache.requests[k].packets) : IsSnag(m)}

\* The errors for some packets that were given up.
Unreachable(packets) == {Left(Icmp(m, "host unreachable"), 0, NoMac) : m \in packets}

\* arpcache_sweep(), once, when every error message is sent directly.
Sweep ==
  /\ Sound /\ rested /\ ~held /\ Snags = {}
  /\ LET gone == {r \in ToSet(cache.requests) : GivenUp(r)}
         repeated == {r \in ToSet(cache.requests) : IsRepeated(r)}
     IN  /\ sent' = sent \cup Unreachable(UNION {ToSet(r.packets) : r \in gone})
         /\ asked' = asked \cup {r.ip : r \in repeated}
         /\ IF gone \cup repeated # {} THEN alive' \in AfterDoubleFree /\ Allocates
            ELSE UNCHANGED <<alive, intact>>
  /\ cache' = Swept(cache)
  /\ rested' = FALSE
  /\ UNCHANGED <<held, arrived, handling>>

\* ... and when one is not: the thread holds the lock and waits for it, or the
\* process ends.
SweepSnagged ==
  /\ Sound /\ rested /\ ~held /\ Snags # {}
  /\ LET k == First(Snags)
         n == SelectInSeq(cache.requests[k].packets, IsSnag)
         before == SubSeq(cache.requests, 1, k - 1)
         gone == {r \in ToSet(before) : GivenUp(r)}
         repeated == {r \in ToSet(before) : IsRepeated(r)}
         answered == ToSet(SubSeq(cache.requests[k].packets, 1, n - 1))
                     \cup UNION {ToSet(r.packets) : r \in gone}
     IN  /\ cache' = SweptUpTo(cache, k, n)
         /\ sent' = sent \cup Unreachable(answered)
         /\ asked' = asked \cup {r.ip : r \in repeated}
         /\ IF HasRoute(cache.requests[k].packets[n].src)
            THEN /\ held' = TRUE
                 /\ IF answered # {} \/ repeated # {} THEN alive' \in AfterDoubleFree
                    ELSE UNCHANGED alive
            ELSE alive' = FALSE /\ UNCHANGED held
  /\ Allocates
  /\ rested' = FALSE
  /\ UNCHANGED <<arrived, handling>>

\* A second passes: time() grows and sleep(1) is over.
Tick ==
  /\ Sound
  /\ cache' = Aged(cache)
  /\ rested' = TRUE
  /\ UNCHANGED <<held, arrived, handling, asked, sent, alive, intact>>

Ended == ~Sound /\ UNCHANGED vars

-----------------------------------------------------------------------------
Next ==
  \/ (\E h \in Header : HandleIp(h)) \/ OtherFrame
  \/ Lookup \/ AppendPacket \/ SendRequest \/ FreeMessage
  \/ \E ip \in asked : \E mac \in MacsOf(ip) : Reply(ip, mac)
  \/ Sweep \/ SweepSnagged
  \/ Tick
  \/ Ended

Spec == Init /\ [][Next]_vars

\* Both threads go on when they can, and time passes.
FairSpec ==
  /\ Spec
  /\ WF_vars(Lookup \/ AppendPacket \/ SendRequest \/ FreeMessage)
  /\ WF_vars(Sweep \/ SweepSnagged) /\ WF_vars(Tick)

-----------------------------------------------------------------------------
TypeOK ==
  /\ cache.entries \in [Index -> [ip : NextHops \cup {0}, mac : Mac \cup {NoMac},
                                  age : 0 .. EntryTimeout + 1, valid : {0, 1}]]
  /\ \A r \in ToSet(cache.requests) :
       /\ r.ip \in NextHops /\ r.age \in 0 .. 2 /\ r.retries \in 0 .. MaxRetries + 1
       /\ ToSet(r.packets) \subseteq Message
  /\ {held, rested, alive, intact} \subseteq BOOLEAN
  /\ arrived \in 0 .. MaxPackets /\ asked \subseteq NextHops
  /\ sent \subseteq [packet : 1 .. MaxPackets, kind : Kinds, dst : Address,
                     hop : NextHops \cup {0}, mac : Mac \cup {NoMac}]

\* Where packet p is, itself or an ICMP message about it.
IsHandled(p) == handling.step \in {"lookup", "append"} /\ handling.message.packet = p
Queues(p) == UNION {{<<k, i>> : i \in {j \in DOMAIN cache.requests[k].packets :
                                          cache.requests[k].packets[j].packet = p}} :
                     k \in DOMAIN cache.requests}
Departures(p) == {s \in sent : s.packet = p}

\* Packets for one next hop wait together, so one request asks for them all
\* ("if there is already an entry with the same IP address and iface ...
\* just append this packet", arpcache.c:75-79), no request is empty, and the
\* valid entries are a map, through updates, expiry and replacement.
CacheIsTidy == intact =>
  /\ TypeOK
  /\ \A j, k \in DOMAIN cache.requests :
       j # k => cache.requests[j].ip # cache.requests[k].ip
  /\ \A r \in ToSet(cache.requests) : r.packets # <<>>
  /\ \A i, j \in Index :
       i # j /\ cache.entries[i].valid # 0 /\ cache.entries[j].valid # 0
         => cache.entries[i].ip # cache.entries[j].ip

\* A packet is in one place: with the packet loop, once in one queue, or it
\* left once, forwarded or as one ICMP message about it (arpcache.c:80-121,
\* 139-157, 239-252), while no waiting message's buffer holds something else.
NowhereTwice == intact =>
  \A p \in 1 .. MaxPackets :
    /\ Cardinality(Queues(p)) + Cardinality(Departures(p)) <= 1
    /\ IsHandled(p) => Queues(p) = {} /\ Departures(p) = {}

\* What leaves goes to the next hop of a route with "the same and longest
\* prefix" (ip_base.c:28), whichever the order of the table.
SentByTheRoute == intact =>
  \A s \in sent :
    \E r \in ToSet(Routes) :
      /\ Covers(r, s.dst) /\ r.gw = s.hop
      /\ \A q \in ToSet(Routes) : Covers(q, s.dst) => q.len <= r.len

\* What is sent to a gateway leaves with the hardware address that the cache
\* then has for it, not with an earlier one or that of another gateway.
SentToTheOwner ==
  [][\A s \in sent' \ sent : s.hop # 0 =>
       \E i \in Index : /\ cache'.entries[i].valid # 0
                        /\ cache'.entries[i].ip = s.hop /\ cache'.entries[i].mac = s.mac]_vars

\* "If the arp request has been sent 5 times without receiving arp reply, for
\* each pending packet, send icmp packet (DEST_HOST_UNREACHABLE), and drop
\* these packets" (arpcache.c:215-218): while the router runs and its waiting
\* packets are intact, all the packets that arrived have left or were answered
\* in the end, whether or not their next hops reply.
Runs == Sound /\ ~held
IsSettled == ~Runs \/ \A p \in 1 .. arrived : Departures(p) # {}
AllSettled == ~IsSettled ~> IsSettled

\* "If there are pending packets waiting for this mapping, fill the ethernet
\* header for each of them, and send them out" (arpcache.c:123-125): a packet that
\* waits has not left and waits once, and the process and the lock that its way
\* out needs are there, whatever the allocator does with the buffers.
PendingCanLeave ==
  \A p \in 1 .. MaxPackets :
    Queues(p) # {} => /\ alive /\ ~held
                      /\ Cardinality(Queues(p)) = 1 /\ Departures(p) = {}

=============================================================================
