-------------------------- MODULE ConnectionSystem --------------------------
(***************************************************************************)
(* Two TCPConnections and their owners around a network that reorders and  *)
(* loses segments.  The owners do what TCPSpongeSocket does                *)
(* (tcp_helpers/tcp_sponge_socket.cc:74-161, 205-251): one connects and    *)
(* the other listens, or both connect, and each writes and ends its        *)
(* outbound stream once its connection has left the opening states.        *)
(***************************************************************************)
EXTENDS TCPState, FiniteSets

CONSTANTS Endpoint,        \* the two endpoints
          OpenerSets,      \* the sets of those whose owner calls connect()
          Isns,            \* raw initial sequence numbers
          OpenerBytes,     \* bounds: the bytes that an only opener and
          ListenerBytes,   \* that its listener write
          MaxInFlight,     \* bound: segments in flight to one endpoint
          MaxLost,         \* bound: segments the network loses
          MayDestroy,      \* whose owners may destroy an open connection
          Timely           \* whether the clocks run alike and tick only
                           \* when nothing is in flight

ASSUME EndpointAssumption ==
  /\ IsFiniteSet(Endpoint) /\ Cardinality(Endpoint) = 2
  /\ OpenerSets \subseteq SUBSET Endpoint /\ Isns \subseteq Raw
  /\ {OpenerBytes, ListenerBytes} \subseteq Nat

VARIABLES openers,         \* whose owner connects; the others listen
          conn,            \* the connection of each endpoint
          net,             \* the segments in flight to each endpoint
          destroyed,       \* whose owner has destroyed it before its end
          lost

vars == <<openers, conn, net, destroyed, lost>>

Peer(e) == CHOOSE p \in Endpoint : p # e
WrittenAtMost(e) ==
  IF openers = Endpoint THEN 0
  ELSE IF e \in openers THEN OpenerBytes
  ELSE ListenerBytes

Init ==
  /\ openers \in OpenerSets
  /\ conn \in [Endpoint -> {NewConnection(isn) : isn \in Isns}]
  /\ net = [e \in Endpoint |-> {}]
  /\ destroyed = {} /\ lost = 0

\* The segments an endpoint hands to the network.
Sent(c) == ToSet(c.out)
Idle(c) == [c EXCEPT !.out = <<>>]

NotCrowded == \A e \in Endpoint : Cardinality(net'[e]) <= MaxInFlight

\* Endpoint e becomes c and transmits what it queued.
Become(e, c) ==
  /\ conn' = [conn EXCEPT ![e] = Idle(c)]
  /\ net' = [net EXCEPT ![Peer(e)] = @ \cup Sent(c)]
  /\ NotCrowded

\* connect() waits while the state is SYN_SENT, listen_and_accept() while it
\* is LISTEN, SYN_SENT or SYN_RCVD.
Opened(e) ==
  LET opening == IF e \in openers THEN {"SYN_SENT"} ELSE {"LISTEN", "SYN_SENT", "SYN_RCVD"}
  IN  conn[e].snd.next > 0 /\ StateName(conn[e]) \notin opening

Connect(e) ==
  /\ conn[e].snd.next = 0 /\ ~HasAckno(conn[e].rcv)
  /\ \E c \in {Open(conn[e])} : Become(e, c)
  /\ UNCHANGED <<openers, destroyed, lost>>

\* The bytes written are numbered in the order they are written.
Write(e, n) ==
  LET s == Outbound(conn[e])
      data == [i \in 1 .. n |-> s.written + i - 1]
  IN  /\ Opened(e) /\ conn[e].active /\ ~s.ended
      /\ n <= RemainingCapacity(s, SendCapacity)
      /\ s.written + n <= WrittenAtMost(e)
      /\ \E c \in {ConnectionWrite(conn[e], data)} : Become(e, c)
      /\ UNCHANGED <<openers, destroyed, lost>>

EndInput(e) ==
  /\ Opened(e) /\ conn[e].active /\ ~Outbound(conn[e]).ended
  /\ \E c \in {ConnectionEndInput(conn[e])} : Become(e, c)
  /\ UNCHANGED <<openers, destroyed, lost>>

Read(e) ==
  /\ Inbound(conn[e]).buffer # <<>> /\ e \notin destroyed
  /\ conn' = [conn EXCEPT ![e].rcv = ReceiverRead(@, RecvCapacity)]
  /\ UNCHANGED <<openers, net, destroyed, lost>>

Deliver(e, seg) ==
  /\ \E c \in {SegmentReceived(conn[e], seg)} :
       /\ conn' = [conn EXCEPT ![e] = Idle(c)]
       /\ net' = [net EXCEPT ![e] = @ \ {seg}, ![Peer(e)] = @ \cup Sent(c)]
       /\ NotCrowded
  /\ UNCHANGED <<openers, destroyed, lost>>

Lose(e, seg) ==
  /\ lost < MaxLost /\ lost' = lost + 1
  /\ net' = [net EXCEPT ![e] = @ \ {seg}]
  /\ UNCHANGED <<openers, conn, destroyed>>

\* ~TCPConnection() of an open connection: nothing is sent.
Destroy(e) ==
  /\ e \in MayDestroy /\ conn[e].active
  /\ conn' = [conn EXCEPT ![e].active = FALSE]
  /\ destroyed' = destroyed \cup {e}
  /\ UNCHANGED <<openers, net, lost>>

\* The clocks of the endpoints in es advance by one tick.
Tick(es) ==
  /\ \E cs \in {[e \in es |-> ConnectionTick(conn[e], 1)]} :
       /\ conn' = [e \in Endpoint |-> IF e \in es THEN Idle(cs[e]) ELSE conn[e]]
       /\ net' = [e \in Endpoint |->
                    IF Peer(e) \in es THEN net[e] \cup Sent(cs[Peer(e)]) ELSE net[e]]
       /\ NotCrowded
  /\ UNCHANGED <<openers, destroyed, lost>>

TickApart == ~Timely /\ \E e \in Endpoint : Tick({e})
TickAlike == Timely /\ (\A e \in Endpoint : net[e] = {}) /\ Tick(Endpoint)

Opening == \E e \in openers : Connect(e)
Writing == \E e \in Endpoint : (\E n \in 1 .. SendCapacity : Write(e, n)) \/ EndInput(e)
Reading == \E e \in Endpoint : Read(e)
Delivery == \E e \in Endpoint : \E seg \in net[e] : Deliver(e, seg)
Destruction == \E e \in Endpoint : Destroy(e)
Loss == \E e \in Endpoint : \E seg \in net[e] : Lose(e, seg)

Next ==
  \/ Opening \/ Writing \/ Reading \/ Destruction
  \/ Delivery \/ Loss
  \/ TickApart \/ TickAlike

Spec == Init /\ [][Next]_vars

\* What fairness is about, as cheap predicates: a segment waits and leaves
\* the network, an owner can still write and does, the clocks matter and tick.
Waiting == \E e \in Endpoint : net[e] # {}
Leaves == \E e \in Endpoint : ~(net[e] \subseteq net'[e])
CanWrite ==
  \E e \in Endpoint : Opened(e) /\ conn[e].active /\ ~Outbound(conn[e]).ended
Wrote ==
  \E e \in Endpoint :
    \/ Outbound(conn[e]).written < Outbound(conn'[e]).written
    \/ Outbound(conn[e]).ended # Outbound(conn'[e]).ended
Awaits(e) == conn[e].active /\ (conn[e].idle < LingerTime \/ conn[e].snd.cache # {})
CanTick == ~Waiting /\ \E e \in Endpoint : Awaits(e)

\* Weak fairness of Opening, Reading, Delivery, Writing and TickAlike, the
\* last three written out.
FairSpec ==
  /\ Spec
  /\ WF_vars(Opening) /\ WF_vars(Reading)
  /\ ([]<>~Waiting) \/ []<><<Leaves>>_vars
  /\ ([]<>~CanWrite) \/ []<><<Wrote>>_vars
  /\ ([]<>~CanTick) \/ []<><<TickAlike>>_vars

-----------------------------------------------------------------------------
Failed(e) == Outbound(conn[e]).error
Segment == [seqno : Raw, syn : BOOLEAN, fin : BOOLEAN, rst : BOOLEAN, ack : BOOLEAN,
            ackno : Raw, win : 0 .. RecvCapacity, payload : Seq(Nat)]

TypeOK ==
  /\ DOMAIN conn = Endpoint /\ DOMAIN net = Endpoint
  /\ \A e \in Endpoint :
       /\ net[e] \subseteq Segment
       /\ conn[e].snd.next \in 0 .. WrittenAtMost(e) + 2
       /\ conn[e].idle \in 0 .. LingerTime
       /\ conn[e].active \in BOOLEAN /\ conn[e].linger \in BOOLEAN

\* Each reader gets the bytes that the other endpoint's owner wrote, in order
\* and once, and the end of the input only after all of them.
ReadersGetTheStreams ==
  /\ TypeOK
  /\ \A e \in Endpoint :
       LET in == Inbound(conn[e])
           out == Outbound(conn[Peer(e)])
       IN  /\ in.buffer = [i \in 1 .. in.written - in.read |-> in.read + i - 1]
           /\ in.written <= out.written
           /\ in.ended => out.ended /\ in.written = out.written

\* The sender "keeps track of which segments are still in-flight"
\* (tcp_sender.hh:15-18): what it has dropped from its cache, and so will not
\* send again, the peer has received.
DroppedWasReceived ==
  \A e \in Endpoint : \A n \in 0 .. conn[e].snd.next - 1 :
    LET in == Inbound(conn[Peer(e)]) IN
    \/ \E c \in conn[e].snd.cache : c.end - LengthInSequenceSpace(c.seg) <= n /\ n < c.end
    \/ n = 0 /\ HasAckno(conn[Peer(e)].rcv)
    \/ n \in 1 .. in.written
    \/ n = in.written + 1 /\ in.ended

\* An endpoint that has closed without an error leaves nothing behind: its
\* peer has everything it wrote and the end, and so has it
\* (tcp_connection.cc:249-260).
CloseIsClean ==
  \A e \in Endpoint :
    ~conn[e].active /\ ~Failed(e) /\ e \notin destroyed =>
      /\ Inbound(conn[Peer(e)]).ended /\ Inbound(conn[e]).ended
      /\ conn[e].snd.cache = {}

\* At most one endpoint skips the wait after the streams have ended: the one
\* that closes last stays to acknowledge the other's FIN
\* (tcp_connection.hh:19-22).
SomeoneLingers == \E e \in Endpoint : conn[e].linger

\* Each endpoint goes through the states of RFC 793 in the order of its
\* diagram, and TCPState has a name for every one of them
\* (tcp_state.cc:17-74): a listener never skips the handshake, the one that
\* hears the end first is the only one to close without waiting, and what is
\* closed or reset stays so.
Machine == INSTANCE TCPStateMachine
  WITH state <- [e \in Endpoint |-> IF e \in destroyed THEN "RESET" ELSE StateName(conn[e])]
FollowsTheDiagram == Machine!Spec

\* With clocks that run alike and few enough losses, both endpoints close
\* and neither fails.
BothClose == <>(\A e \in Endpoint : ~conn[e].active /\ ~Failed(e))

=============================================================================
