---- MODULE Nat ----
(***************************************************************************)
(* The NAT of 03-nat/nat.c: a main thread that translates packets between  *)
(* inner endpoints and remote addresses, and a thread that sweeps the      *)
(* table once a second.  Each translation and each sweep holds nat.lock    *)
(* from its first look at the table to its last, so it is one step.        *)
(*                                                                         *)
(* Abstractions.  An inner endpoint is an (address, port) pair and a       *)
(* remote is the bucket its address hashes to, which is all the code uses  *)
(* of it: every remote of a bucket may send to every port.  At most one    *)
(* mapping of a bucket has a given inner endpoint, because only an         *)
(* outgoing packet whose endpoint was not found adds one, so the table is  *)
(* a function of (bucket, endpoint); where several mappings of a bucket    *)
(* share a port the code takes the oldest and the model any.  The          *)
(* comparisons of sequence numbers in is_flow_finished are made on words   *)
(* in network byte order, so their outcome is a free choice; of the flags  *)
(* only "exactly FIN" matters.  Packets that are not TCP are dropped and   *)
(* have no action.  update_time is kept as its age, up to Timeout + 1.     *)
(*                                                                         *)
(* The history variables follow the packets and the clock and restrict no  *)
(* step: user the endpoint behind a port, heard how long a flow has been   *)
(* silent and whose latest packets were FINs.  The properties compare what *)
(* the table does with them, not with the table's own fields.              *)
(***************************************************************************)
EXTENDS Integers

CONSTANTS Inner,     \* inner endpoints
          Bucket,    \* the lists of nat_mapping_list, by the hash of the remote address
          PortMin,   \* NAT_PORT_MIN
          PortMax,   \* NAT_PORT_MAX
          Timeout,   \* TCP_ESTABLISHED_TIMEOUT, in ticks
          Rules,     \* the dnat-rules of the configuration file
          None       \* no mapping, no endpoint, no packet

ASSUME PortAssumption ==
    /\ PortMin \in Nat
    /\ PortMax \in Nat
    /\ PortMin < PortMax

ASSUME TimeoutAssumption == Timeout \in Nat

\* A rule maps an external port to an inner endpoint; "octet" is the number its
\* external address begins with, as in 159.226.39.43; NAT_PORT_MIN is above them.
ASSUME RulesAssumption ==
    /\ Rules \subseteq [octet : 0 .. 255, port : Nat, inner : Inner]
    /\ \A rule \in Rules : rule.octet < PortMin

VARIABLES mapping,    \* mapping[<<bucket, endpoint>>]: the flow's entry, or None
          assigned,   \* the ports that assigned_ports marks
          alive,      \* the process runs
          user,       \* history: the last endpoint that sent through port p
          heard       \* history: what was heard of flow f since it has its entry

vars == <<mapping, assigned, alive, user, heard>>

Pool == PortMin .. PortMax - 1
Flow == Bucket \X Inner
Side == {"internal", "external"}
Mapping == [port : PortMin .. PortMax, idle : 0 .. Timeout + 1, fins : SUBSET Side]

ASSUME NoneAssumption == None \notin Inner /\ None \notin Flow /\ None \notin Mapping

Mapped == {f \in Flow : mapping[f] # None}

\* What is heard of a flow: the time since its last packet, up to the first that
\* is too long, and the sides that have ended.
Silence == [since : 0 .. Timeout + 1, ended : SUBSET Side]
Unheard == [since |-> 0, ended |-> {}]

\* The ports that parse_config marks.  It searches for the external port of a
\* rule from the start of the address again, so it finds the first octet.
Reserved == {rule.octet : rule \in Rules}

Init ==
    /\ mapping = [f \in Flow |-> None]
    /\ assigned = Reserved
    /\ alive = TRUE
    /\ user = [p \in Pool |-> None]
    /\ heard = [f \in Flow |-> Unheard]

\* A wrong variant that the runs tell apart: only a new entry gets the time.
TouchedOnce(m, side, fin) ==
    [m EXCEPT !.fins = IF fin THEN @ \cup {side} ELSE @ \ {side}]

\* The entry after a packet from one side: the side's FIN flag is that of its
\* latest packet, whatever it was before.
Touched(m, side, fin) ==
    [m EXCEPT !.idle = 0, !.fins = IF fin THEN @ \cup {side} ELSE @ \ {side}]

NewMapping(p) == [port |-> p, idle |-> 0, fins |-> {}]

\* A wrong variant that the runs tell apart: every port is taken for a free one.
SearchStopsAnywhere(p) == \A q \in Pool : q < p => q \in assigned

\* Where the search of assigned_ports stops: at the first port that is not
\* marked, or at NAT_PORT_MAX, which is then used without being marked.
SearchStopsAt(p) ==
    /\ \A q \in Pool : q < p => q \in assigned
    /\ p \in Pool => p \notin assigned

\* The packet leaves with port p as its source.
Leaves(i, p) == user' = [q \in Pool |-> IF q = p THEN i ELSE user[q]]

\* A packet of the flow passes; its side has ended if the packet is a FIN and
\* has not if it is anything else.
Hears(f, side, fin) ==
    LET others == heard[f].ended \ {side} IN
    heard' = [heard EXCEPT ![f] =
                 [since |-> 0, ended |-> IF fin THEN others \cup {side} ELSE others]]

\* A wrong variant that the runs tell apart: every packet gets its flow a new port.
OutKnownAnew(f, fin) ==
    /\ alive
    /\ f \in Mapped
    /\ \E p \in PortMin .. PortMax :
          /\ SearchStopsAt(p)
          /\ assigned' = (assigned \ {mapping[f].port}) \cup ({p} \cap Pool)
          /\ mapping' = [mapping EXCEPT ![f] = Touched(NewMapping(p), "internal", fin)]
          /\ Leaves(f[2], p)
    /\ Hears(f, "internal", fin)
    /\ UNCHANGED alive

\* An outgoing packet of a flow that the table has.
OutKnown(f, fin) ==
    /\ alive
    /\ f \in Mapped
    /\ mapping' = [mapping EXCEPT ![f] = Touched(mapping[f], "internal", fin)]
    /\ Leaves(f[2], mapping[f].port)
    /\ Hears(f, "internal", fin)
    /\ UNCHANGED <<assigned, alive>>

\* An outgoing packet of a new flow.
OutNew(f, fin) ==
    /\ alive
    /\ f \notin Mapped
    /\ \E p \in PortMin .. PortMax :
          /\ SearchStopsAt(p)
          /\ assigned' = assigned \cup ({p} \cap Pool)
          /\ mapping' = [mapping EXCEPT ![f] = Touched(NewMapping(p), "internal", fin)]
          /\ Leaves(f[2], p)
    /\ Hears(f, "internal", fin)
    /\ UNCHANGED alive

\* Ports that remotes send to: any the NAT hands out, for they may have seen it at
\* any time before, and those that the rules publish.
Addressable == (PortMin .. PortMax) \cup {rule.port : rule \in Rules}

\* A wrong variant that the runs tell apart: the port is not compared.
MatchesAnyPort(b, p) == {f \in Mapped : f[1] = b}

\* The flows of the bucket that have the port.
Matches(b, p) == {f \in Mapped : f[1] = b /\ mapping[f].port = p}

\* An incoming packet for a flow that the table has.
InKnown(b, p, fin) ==
    /\ alive
    /\ \E f \in Matches(b, p) :
          /\ mapping' = [mapping EXCEPT ![f] = Touched(mapping[f], "external", fin)]
          /\ Hears(f, "external", fin)
    /\ UNCHANGED <<assigned, alive, user>>

\* An incoming packet that no mapping of its bucket has the port of: do_translation
\* adds a mapping to 0.0.0.0 and sends the packet there, ip_send_packet finds no
\* route and dereferences it.  The process dies and its tables with it.
InStray(b, p) ==
    /\ alive
    /\ Matches(b, p) = {}
    /\ mapping' = [f \in Flow |-> None]
    /\ assigned' = {}
    /\ alive' = FALSE
    /\ heard' = [f \in Flow |-> Unheard]
    /\ UNCHANGED user

\* The process is started again, with empty tables, while the remotes may
\* still use its old ports.
Restart ==
    /\ ~alive
    /\ alive' = TRUE
    /\ assigned' = Reserved
    /\ UNCHANGED <<mapping, user, heard>>

\* is_flow_finished can hold: the latest packet of each side was a FIN.
BothFinished(f) == mapping[f].fins = Side

\* A wrong variant that the runs tell apart: silent flows never expire.
ExpiredNever(f) == FALSE

Expired(f) == mapping[f].idle > Timeout

\* A round of nat_timeout: every expired mapping goes, and of the finished ones
\* those whose comparisons hold.  Each one's port is unmarked.
Sweep ==
    /\ alive
    /\ \E finished \in SUBSET {f \in Mapped : BothFinished(f)} :
          LET gone == finished \cup {f \in Mapped : Expired(f)} IN
          /\ mapping' = [f \in Flow |-> IF f \in gone THEN None ELSE mapping[f]]
          /\ assigned' = assigned \ {mapping[f].port : f \in gone}
          /\ heard' = [f \in Flow |-> IF f \in gone THEN Unheard ELSE heard[f]]
    /\ UNCHANGED <<alive, user>>

Older(m) == [m EXCEPT !.idle = IF @ > Timeout THEN @ ELSE @ + 1]

Longer(h) == [h EXCEPT !.since = IF @ = Timeout + 1 THEN @ ELSE @ + 1]

\* A second passes.
Tick ==
    /\ mapping' = [f \in Flow |-> IF f \in Mapped THEN Older(mapping[f]) ELSE None]
    /\ heard' = [f \in Flow |-> IF f \in Mapped THEN Longer(heard[f]) ELSE Unheard]
    /\ UNCHANGED <<assigned, alive, user>>

Translate ==
    \/ \E f \in Flow, fin \in BOOLEAN : OutKnown(f, fin) \/ OutNew(f, fin)
    \/ \E b \in Bucket, p \in Addressable, fin \in BOOLEAN : InKnown(b, p, fin)
    \/ \E b \in Bucket, p \in Addressable : InStray(b, p)

Next == Translate \/ Restart \/ Sweep \/ Tick

\* The sweeper's loop and the clock never stop; packets and restarts need not come.
Fairness == WF_vars(Sweep) /\ WF_vars(Tick)

Spec == Init /\ [][Next]_vars
FairSpec == Spec /\ Fairness

(***************************************************************************)
(* Properties                                                              *)
(***************************************************************************)

\* The types; a mapping never has a port above NAT_PORT_MAX (nat.c:115-123).
TypeOK ==
    /\ mapping \in [Flow -> Mapping \cup {None}]
    /\ assigned \in SUBSET Nat
    /\ alive \in BOOLEAN
    /\ user \in [Pool -> Inner \cup {None}]
    /\ heard \in [Flow -> Silence]

\* No two flows have the same port of the pool, in one bucket or in two, however
\* sweeps, new flows and restarts follow one another (nat.c:115-123, 196).
PortsAreExclusive ==
    \A f, g \in Mapped : mapping[f].port = mapping[g].port /\ mapping[f].port \in Pool => f = g

\* A port of the pool is marked exactly while a mapping has it: none leaks when
\* flows go, and none is free while it is in use.
MarkedIsUsed ==
    alive => \A p \in Pool : p \in assigned <=> \E f \in Mapped : mapping[f].port = p

\* A packet that comes in for a port of the pool is translated by the flow of the
\* endpoint that last sent through that port, also when the port has changed hands
\* since the remote saw it.
RepliesReachTheUser ==
    [][\A b \in Bucket, p \in Pool, fin \in BOOLEAN :
          InKnown(b, p, fin) =>
              \A f \in Flow : mapping'[f] # mapping[f] => f[2] = user[p]]_vars

\* A flow in use keeps its entry: while the process lives a flow is forgotten only
\* when no packet of it has passed for more than Timeout, in either direction, or when
\* the latest packets of both sides were FINs (nat.c:87, 130, 139, 170-175, 192).
KeptWhileUsed ==
    [][\A f \in Flow :
          mapping[f] # None /\ mapping'[f] = None /\ alive'
              => heard[f].since > Timeout \/ heard[f].ended = Side]_vars

\* A flow that nobody uses any more does not keep its port: again and again it is
\* gone or has just had a packet.
AbandonedGoes ==
    \A f \in Flow : []<>(mapping[f] = None \/ mapping[f].idle = 0)

Holders(p) == {f \in Flow : mapping[f] # None /\ mapping[f].port = p}

HolderOf(p) == IF Holders(p) = {} THEN None ELSE CHOOSE f \in Holders(p) : TRUE

Ports == INSTANCE PortPool WITH
    holder <- [p \in Pool |-> HolderOf(p)]

\* The table is a pool of ports: a flow keeps its port until it is forgotten, and
\* nobody else gets the port before.
ImplementsPortPool == Ports!Spec

====
