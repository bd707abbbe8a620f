---- MODULE Switch ----
(***************************************************************************)
(* The learning switch of Lab 5, 01-switching/: the packet loop (main.c),  *)
(* which handles one frame after another, and the thread that sweeps the   *)
(* table of hardware addresses (mac.c) once a second.  The table's lock is *)
(* taken for each lookup, each insertion and each sweep, so those are the  *)
(* steps; a frame is three of them.                                        *)
(*                                                                         *)
(* Hosts move between ports while all of this goes on.  Lists and hash     *)
(* buckets are left out: a lookup goes through all of them.  lookup_port() *)
(* reads the interface of the entry it found after it released the lock;   *)
(* if the sweep frees the entry in between, the freed block still holds    *)
(* the field, because free() of the C library overwrites only the links of *)
(* the list, and the loop's thread allocates nothing before it reads.      *)
(***************************************************************************)
EXTENDS Integers

CONSTANTS Host,            \* the hosts, which stand for their hardware addresses
          Port,            \* the interfaces of the switch
          MacPortTimeout,  \* MAC_PORT_TIMEOUT, in seconds
          MaxMoves         \* bound: how often hosts change their port

ASSUME SwitchAssumption == MacPortTimeout \in Nat /\ MaxMoves \in Nat

VARIABLES table,      \* the entries of mac_port_map; "age" is the time since visited
          where,      \* the port that each host is attached to
          settled,    \* the time since each host was last moved, up to Old
          moves,      \* how many moves there were
          frame,      \* the frame that the packet loop handles
          lag,        \* the age of the sweep's "now", or -1 while it sleeps
          since       \* the time since the last sweep

switchVars == <<table, where, settled, moves, frame, lag, since>>
environment == <<where, settled, moves>>

\* The longest that an entry can stay: the last sweep that finds it too young starts
\* when it is Timeout old, the next at most two seconds later, and waits for the lock
\* for less than one.
Oldest == MacPortTimeout + 3
Old == Oldest + 1

Entry == [mac : Host, port : Port, age : 0 .. Oldest]
Idle == [step |-> "idle"]
Frame ==
    {Idle}
    \cup [step : {"forward"}, src : Host, dst : Host, in : Port]
    \cup [step : {"known"}, src : Host, dst : Host, in : Port, out : SUBSET Port]
    \cup [step : {"insert"}, src : Host, in : Port]

\* The hosts start at different ports; which ones makes no difference.
Home == CHOOSE w \in [Host -> Port] : \A g, h \in Host : w[g] = w[h] => g = h

ASSUME HomeAssumption == Home \in [Host -> Port]

SwitchInit ==
    /\ table = {}
    /\ where = Home
    /\ settled = [h \in Host |-> Old]
    /\ moves = 0
    /\ frame = Idle
    /\ lag = -1
    /\ since = 0

\* The entries that lookup_port() stops at.
Hits(mac) == {e \in table : e.mac = mac}

\* A wrong variant that the runs tell apart: the loop ends with the first interface.
BroadcastOnce(port) == {CHOOSE p \in Port : p # port}

\* broadcast_packet(): every interface but the one the frame came in by.
Broadcast(port) == Port \ {port}

\* A host sends a frame, and the packet loop takes it.
Arrive(src, dst) ==
    /\ frame = Idle
    /\ frame' = [step |-> "forward", src |-> src, dst |-> dst, in |-> where[src]]
    /\ UNCHANGED <<table, environment, lag, since>>

\* The destination is looked up; the frame leaves by its port, or by all others.
Forward ==
    /\ frame.step = "forward"
    /\ \E out \in IF Hits(frame.dst) # {}
                  THEN {{e.port} : e \in Hits(frame.dst)}
                  ELSE {Broadcast(frame.in)} :
          frame' = [step |-> "known", src |-> frame.src, dst |-> frame.dst,
                    in |-> frame.in, out |-> out]
    /\ UNCHANGED <<table, environment, lag, since>>

\* A wrong variant that the runs tell apart: the destination is looked up again.
LookupDestination ==
    /\ frame.step = "known"
    /\ frame' = IF Hits(frame.dst) # {}
                THEN Idle
                ELSE [step |-> "insert", src |-> frame.src, in |-> frame.in]
    /\ UNCHANGED <<table, environment, lag, since>>

\* A wrong variant that the runs tell apart: a lookup keeps an entry young, and does
\* not look at its port.
LookupRefreshing ==
    /\ frame.step = "known"
    /\ table' = {IF e.mac = frame.src THEN [e EXCEPT !.age = 0] ELSE e : e \in table}
    /\ frame' = IF Hits(frame.src) # {}
                THEN Idle
                ELSE [step |-> "insert", src |-> frame.src, in |-> frame.in]
    /\ UNCHANGED <<environment, lag, since>>

\* A wrong variant that the runs tell apart: the test of the result is inverted.
LookupInverted ==
    /\ frame.step = "known"
    /\ frame' = IF Hits(frame.src) = {}
                THEN Idle
                ELSE [step |-> "insert", src |-> frame.src, in |-> frame.in]
    /\ UNCHANGED <<table, environment, lag, since>>

\* The source is looked up; nothing is learned of one that is found.
LookupSource ==
    /\ frame.step = "known"
    /\ frame' = IF Hits(frame.src) # {}
                THEN Idle
                ELSE [step |-> "insert", src |-> frame.src, in |-> frame.in]
    /\ UNCHANGED <<table, environment, lag, since>>

\* insert_mac_port().
Insert ==
    /\ frame.step = "insert"
    /\ table' = table \cup {[mac |-> frame.src, port |-> frame.in, age |-> 0]}
    /\ frame' = Idle
    /\ UNCHANGED <<environment, lag, since>>

\* The sweep takes the time, and then asks for the lock.
SweepStart ==
    /\ lag = -1
    /\ lag' = 0
    /\ UNCHANGED <<table, environment, frame, since>>

\* Entries that were too old when it took the time go.
Aged(e) == e.age - lag > MacPortTimeout

SweepRun ==
    /\ lag >= 0
    /\ table' = {e \in table : ~Aged(e)}
    /\ lag' = -1
    /\ since' = 0
    /\ UNCHANGED <<environment, frame>>

\* A second passes.  A frame is handled within a second, a sweep gets the lock within
\* a second, and the next one starts less than two seconds after it.
SwitchTick ==
    /\ frame = Idle
    /\ since < 2
    /\ lag < 1
    /\ table' = {[e EXCEPT !.age = @ + 1] : e \in table}
    /\ settled' = [h \in Host |-> IF settled[h] < Old THEN settled[h] + 1 ELSE Old]
    /\ lag' = IF lag >= 0 THEN lag + 1 ELSE lag
    /\ since' = since + 1
    /\ UNCHANGED <<where, moves, frame>>

\* A host is plugged in elsewhere.
Move(h, port) ==
    /\ moves < MaxMoves
    /\ where[h] # port
    /\ where' = [where EXCEPT ![h] = port]
    /\ settled' = [settled EXCEPT ![h] = 0]
    /\ moves' = moves + 1
    /\ UNCHANGED <<table, frame, lag, since>>

Sends(h) == \E dst \in Host \ {h} : Arrive(h, dst)
Handle == Forward \/ LookupSource \/ Insert

SwitchNext ==
    \/ \E h \in Host : Sends(h)
    \/ Forward \/ LookupSource \/ Insert
    \/ SweepStart \/ SweepRun
    \/ SwitchTick
    \/ \E h \in Host, port \in Port : Move(h, port)

SwitchSpec == SwitchInit /\ [][SwitchNext]_switchVars

\* Both threads go on, seconds pass, and every host sends a frame now and then.
SwitchFairSpec ==
    /\ SwitchSpec
    /\ WF_switchVars(Handle) /\ WF_switchVars(SweepStart) /\ WF_switchVars(SweepRun)
    /\ SF_switchVars(SwitchTick)
    /\ \A h \in Host : SF_switchVars(Sends(h))

(***************************************************************************)
(* Properties                                                              *)
(***************************************************************************)

\* The types; above all no entry gets older than Oldest, although the sweep reads the
\* clock before it has the lock (mac.c:126-134).
SwitchTypeOK ==
    /\ table \subseteq Entry
    /\ where \in [Host -> Port]
    /\ settled \in [Host -> 0 .. Old]
    /\ moves \in 0 .. MaxMoves
    /\ frame \in Frame
    /\ lag \in -1 .. 1
    /\ since \in 0 .. 2

\* The lookup of a source and its insertion are two critical sections (main.c:32-34),
\* yet no host has two entries, so that a lookup has one answer.
OneEntryEach == \A e, f \in table : e.mac = f.mac => e = f

\* What the table says of a host was true when the host was last moved or later: a
\* wrong entry is at least as old as the move.
WrongIsOld == \A e \in table : e.port # where[e.mac] => e.age >= settled[e.mac]

\* A frame for a host that has stayed at its port for longer than an entry lives leaves
\* by that port, unless it came in there, whether or not the host is known (main.c:23-31).
FrameReaches ==
    frame.step = "known" /\ settled[frame.dst] > Oldest
        => where[frame.dst] \in frame.out \cup {frame.in}

\* The table follows the hosts: each one is known at its port again and again, although
\* entries are never corrected (main.c:32), only swept and learned anew.
Relearned == \A h \in Host : []<>(\E e \in table : e.mac = h /\ e.port = where[h])
====
