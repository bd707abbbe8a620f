------------------------------ MODULE ArpCache ------------------------------
(***************************************************************************)
(* The ARP cache of the router, Lab 6, 02-router/arpcache.c, as operators  *)
(* on a record c: its entries, and the requests that wait for a reply,     *)
(* oldest first, each with its packets.  An entry's age is the time since  *)
(* it was added, a request's the time since it was sent.                   *)
(***************************************************************************)
EXTENDS AscendingOrder, SequencesExt

CONSTANTS MaxEntries,     \* MAX_ARP_SIZE
          EntryTimeout,   \* ARP_ENTRY_TIMEOUT
          MaxRetries,     \* ARP_REQUEST_MAX_RETRIES
          NoMac           \* a hardware address that was not filled in

ASSUME ArpAssumption == {MaxEntries, EntryTimeout, MaxRetries} \subseteq Nat \ {0}

Index == 1 .. MaxEntries
NoEntry == [ip |-> 0, mac |-> NoMac, age |-> 0, valid |-> 0]

EmptyCache == [entries |-> [i \in Index |-> NoEntry], requests |-> <<>>]

First(S) == CHOOSE i \in S : \A j \in S : i <= j

\* The entries that arpcache_lookup() takes for a match.
Hits(c, ip) == {i \in Index : c.entries[i].ip # 0 /\ c.entries[i].valid = ip}

\* The requests that wait for a mapping of ip.
Waiting(c, ip) == {k \in DOMAIN c.requests : c.requests[k].ip = ip}

\* arpcache_append_packet(), up to the unlocking: the packet joins the request
\* that waits for its next hop, or a new one.
Appended(c, ip, packet) ==
  IF Waiting(c, ip) # {}
  THEN [c EXCEPT !.requests[First(Waiting(c, ip))].packets = Append(@, packet)]
  ELSE [c EXCEPT !.requests = Append(@, [ip |-> ip, age |-> 0, retries |-> 0,
                                         packets |-> <<packet>>])]

\* A wrong variant that the runs tell apart: a known address gets a second entry.
PlacesFresh(c, ip) ==
  LET free == {i \in Index : c.entries[i].valid = 0}
  IN  IF free # {} THEN {First(free)}
      ELSE {i \in Index : \A j \in Index : c.entries[j].age <= c.entries[i].age}

\* Where arpcache_insert() puts a mapping: the entry of its address, else the
\* first free one, else the first of the oldest.  The ages of entries that
\* have expired are no longer told apart.
Places(c, ip) ==
  LET known == {i \in Index : c.entries[i].valid # 0 /\ c.entries[i].ip = ip}
      free == {i \in Index : c.entries[i].valid = 0}
      eldest == {i \in Index : \A j \in Index : c.entries[j].age <= c.entries[i].age}
  IN  IF known # {} THEN {First(known)}
      ELSE IF free # {} THEN {First(free)}
      ELSE IF \E i \in eldest : c.entries[i].age > EntryTimeout THEN eldest
      ELSE {First(eldest)}

\* The elements of a sequence at some places, in their order.
Chosen(s, places) ==
  LET at == Ascending(places)
  IN  [k \in DOMAIN at |-> s[at[k]]]

\* The packets of some requests, each with the next hop it waits for.
PacketsOf(requests) ==
  UNION {{[message |-> m, hop |-> r.ip] : m \in ToSet(r.packets)} : r \in requests}

\* A wrong variant that the runs tell apart: every waiting packet leaves.
ReleasedAll(c, ip) == PacketsOf(ToSet(c.requests))

\* The packets that a mapping for ip sends on their way ...
Released(c, ip) == PacketsOf({r \in ToSet(c.requests) : r.ip = ip})

\* A wrong variant that the runs tell apart: a completed request stays.
RemainingAll(c, ip) == c.requests

\* ... and the requests that are left then.
Remaining(c, ip) == Chosen(c.requests, DOMAIN c.requests \ Waiting(c, ip))

\* arpcache_insert() with the mapping in place i.
Inserted(c, ip, mac, i) ==
  [entries |-> [c.entries EXCEPT ![i] = [ip |-> ip, mac |-> mac, age |-> 0, valid |-> 1]],
   requests |-> Remaining(c, ip)]

\* A request that was repeated more than MaxRetries times.
GivenUp(r) == r.retries > MaxRetries

\* The requests that are not given up.
Pursued(requests) == Chosen(requests, {k \in DOMAIN requests : ~GivenUp(requests[k])})

\* A request that the sweep repeats: it was sent more than a second ago.
IsRepeated(r) == ~GivenUp(r) /\ r.age > 1

\* A wrong variant that the runs tell apart: repetitions are not counted.
RetriedUncounted(r) == IF IsRepeated(r) THEN [r EXCEPT !.age = 0] ELSE r

Retried(r) == IF IsRepeated(r) THEN [r EXCEPT !.retries = @ + 1, !.age = 0] ELSE r

\* An entry after its age was checked.
Kept(e) == IF e.valid # 0 /\ e.age > EntryTimeout THEN [e EXCEPT !.valid = 0] ELSE e

\* arpcache_sweep(), one round: entries expire, requests are given up or
\* repeated.
Swept(c) ==
  LET kept == Pursued(c.requests)
  IN  [entries |-> [i \in Index |-> Kept(c.entries[i])],
       requests |-> [k \in DOMAIN kept |-> Retried(kept[k])]]

\* A round that does not come back from the n-th packet of its k-th request.
SweptUpTo(c, k, n) ==
  LET kept == Pursued(SubSeq(c.requests, 1, k - 1))
  IN  [entries |-> [i \in Index |-> Kept(c.entries[i])],
       requests |-> [j \in DOMAIN kept |-> Retried(kept[j])]
                    \o <<[c.requests[k] EXCEPT !.packets = SubSeq(@, n, Len(@))]>>
                    \o SubSeq(c.requests, k + 1, Len(c.requests))]

\* A second passes.  Ages stop where nothing depends on them any more.
Older(age, limit) == IF age < limit THEN age + 1 ELSE age
Aged(c) ==
  [entries |-> [i \in Index |->
     IF c.entries[i].valid = 0 THEN c.entries[i]
     ELSE [c.entries[i] EXCEPT !.age = Older(@, EntryTimeout + 1)]],
   requests |-> [k \in DOMAIN c.requests |-> [c.requests[k] EXCEPT !.age = Older(@, 2)]]]

=============================================================================
