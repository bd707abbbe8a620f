---------------------------- MODULE SocketSystem ----------------------------
(***************************************************************************)
(* One TCPSpongeSocket (tcp_helpers/tcp_sponge_socket.cc): its thread,     *)
(* which runs a TCPConnection in the event loop of util/eventloop.cc, the  *)
(* application at the other end of the socket pair, which copies both      *)
(* streams and then waits for the close, and a peer, another TCPConnection *)
(* driven by its owner.                                                    *)
(*                                                                         *)
(* A call of wait_next_event() takes several steps: poll() records what is *)
(* ready, then the rules' callbacks run one by one on that record, while   *)
(* the application and the peer go on.  A callback reads or writes its     *)
(* descriptor each time it is called, so the loop's own test for a busy    *)
(* wait (eventloop.cc:134-138) never fires and is left out.                *)
(***************************************************************************)
EXTENDS TCPState, FiniteSets

CONSTANTS Listens,         \* {TRUE} for listen_and_accept(), {FALSE} for connect()
          SocketIsn,       \* the raw initial sequence numbers
          PeerIsn,
          AppBytes,        \* bounds: what the application writes,
          CallerBytes,     \* and what the peer's owner does, if it connects
          CalleeBytes,     \* and if it listens
          PipeSize,        \* bound: bytes the socket pair holds for the application
          MaxCopy,         \* bytes that rule 3 copies at once (65536)
          MayReset,        \* whether the peer may send RST
          MayDrop          \* whether the application may destroy the socket

ASSUME SocketAssumption ==
  /\ Listens \subseteq BOOLEAN /\ SocketIsn \in Raw /\ PeerIsn \in Raw
  /\ PipeSize \in Nat \ {0} /\ MaxCopy \in Nat \ {0}

\* The rules of _initialize_TCP, in their order.
Rules == 1 .. 4

VARIABLES listens,         \* whether the socket's owner called listen_and_accept()
          tcp,             \* _tcp, with the segments that rule 4 has not sent yet
          thread,          \* the event loop's state, see ThreadStart
          pipe,            \* the socket pair, see PipeStart
          app,             \* the application, see AppStart
          peer,            \* the peer's connection
          toTcp, toPeer,   \* the datagrams under way, oldest first
          reset,           \* whether the peer has sent RST
          failure          \* what ended the process early: a SIGPIPE, or nothing

vars == <<listens, tcp, thread, pipe, app, peer, toTcp, toPeer, reset, failure>>

\* phase: "opening" in connect() or listen_and_accept(), then "main", then
\* "done"; loop: before poll() or in the callbacks of what it found ready.
ThreadStart(l) ==
  [phase |-> "opening", loop |-> "poll", rules |-> Rules, ready |-> {}, hung |-> {},
   outShut |-> FALSE, inShut |-> FALSE, listening |-> l, abort |-> FALSE]

\* The bytes in either direction, the directions that are shut down, and
\* whether the thread's descriptor has read the end.
PipeStart ==
  [up |-> <<>>, down |-> <<>>, upShut |-> FALSE, downShut |-> FALSE, eof |-> FALSE]

AppStart == [at |-> "copying", put |-> 0, got |-> 0, eof |-> FALSE, ended |-> FALSE]

Init ==
  /\ listens \in Listens
  /\ tcp = IF listens THEN NewConnection(SocketIsn) ELSE Open(NewConnection(SocketIsn))
  /\ thread = ThreadStart(listens)
  /\ pipe = PipeStart /\ app = AppStart
  /\ peer = NewConnection(PeerIsn)
  /\ toTcp = <<>> /\ toPeer = <<>>
  /\ reset = FALSE /\ failure = "none"

-----------------------------------------------------------------------------
\* The event loop and the rules.

\* connect() waits while the state is SYN_SENT, listen_and_accept() while it
\* is LISTEN, SYN_SENT or SYN_RCVD.
Opening ==
  StateName(tcp) \in IF listens THEN {"LISTEN", "SYN_SENT", "SYN_RCVD"} ELSE {"SYN_SENT"}

Received == Inbound(tcp)
OutboundRoom == RemainingCapacity(Outbound(tcp), SendCapacity)

\* Nothing is left for rule 3 to deliver; the variant forgets the bytes that
\* still wait.
ExhaustedEarly(in) == in.ended \/ in.error
Exhausted(in) == AtEof(in) \/ in.error

\* The rules' interest callbacks.  Two wrong variants that the runs tell apart:
\* nothing is received once the peer has ended its stream; the end of the
\* stream alone is not delivered.
ReceiveInterestWhileOpen(c) == c.active /\ ~Inbound(c).ended
ReceiveInterest(c) == c.active

SendInterest(c, outShut) ==
  c.active /\ ~outShut /\ RemainingCapacity(Outbound(c), SendCapacity) > 0

DeliverInterestInBytes(in, inShut) == in.buffer # <<>>
DeliverInterest(in, inShut) == in.buffer # <<>> \/ (Exhausted(in) /\ ~inShut)

Interested(c, outShut) ==
  {r \in thread.rules :
     CASE r = 1 -> ReceiveInterest(c)
       [] r = 2 -> SendInterest(c, outShut)
       [] r = 3 -> DeliverInterest(Inbound(c), thread.inShut)
       [] r = 4 -> c.out # <<>>}

\* What poll() reports for the descriptors.
PipeReadable == pipe.up # <<>> \/ pipe.upShut
PipeWritable == Len(pipe.down) < PipeSize
PipeHung == pipe.upShut /\ pipe.downShut
DescriptorReady(r) ==
  CASE r = 1 -> toTcp # <<>>
    [] r = 2 -> PipeReadable
    [] r = 3 -> PipeWritable
    [] r = 4 -> TRUE

\* Time passes for both ends alike, and only when no datagram is under way.
Quiet == toTcp = <<>> /\ toPeer = <<>> /\ tcp.out = <<>>

\* The tick after a round, of ms milliseconds.
TickAll(c, ms) ==
  /\ tcp' = IF c.active THEN ConnectionTick(c, ms) ELSE c
  /\ \E p \in {ConnectionTick(peer, ms)} :
       peer' = [p EXCEPT !.out = <<>>] /\ toTcp' = toTcp \o p.out

\* The loop is left.  connect() and listen_and_accept() start the thread, and
\* the thread at its end shuts down the application's descriptor.
LeaveLoop ==
  IF thread.phase = "opening"
  THEN thread' = [thread EXCEPT !.phase = "main", !.loop = "poll"] /\ pipe' = pipe
  ELSE /\ thread' = [thread EXCEPT !.phase = "done", !.loop = "poll"]
       /\ pipe' = [pipe EXCEPT !.upShut = TRUE, !.downShut = TRUE]

\* The loop's condition no longer holds.
LeaveOpening ==
  /\ failure = "none" /\ thread.phase = "opening" /\ thread.loop = "poll" /\ ~Opening
  /\ LeaveLoop
  /\ UNCHANGED <<listens, tcp, app, peer, toTcp, toPeer, reset, failure>>

InRound ==
  /\ failure = "none" /\ thread.loop = "poll" /\ thread.phase # "done"
  /\ thread.phase = "opening" => Opening

EndIsKnown == pipe.eof /\ 2 \in thread.rules
Cancelled == IF EndIsKnown THEN ConnectionEndInput(tcp) ELSE tcp
Kept == IF EndIsKnown THEN thread.rules \ {2} ELSE thread.rules
OutShut == thread.outShut \/ EndIsKnown
Asked == Kept \cap Interested(Cancelled, OutShut)

\* What poll() records: descriptors that are ready, and those that only hung
\* up, of which it tells even the rules that did not ask.
Ready == {r \in Asked : DescriptorReady(r)}
Hung == {r \in Kept \cap {2, 3} : PipeHung}

Defunct == (Hung \cap Asked) \ Ready

Poll ==
  /\ InRound /\ Asked # {} /\ Ready \cup Hung # {}
  /\ tcp' = Cancelled
  /\ thread' = [thread EXCEPT !.loop = "handle", !.rules = Kept, !.outShut = OutShut,
                              !.ready = Ready, !.hung = Defunct]
  /\ UNCHANGED <<listens, pipe, app, peer, toTcp, toPeer, reset, failure>>

\* poll() reports nothing for the whole timeout.
TimeOut ==
  /\ InRound /\ Asked # {} /\ Ready \cup Hung = {}
  /\ ~thread.abort /\ Quiet /\ Cancelled.out = <<>>
  /\ thread' = [thread EXCEPT !.rules = Kept, !.outShut = OutShut]
  /\ TickAll(Cancelled, 1)
  /\ UNCHANGED <<listens, pipe, app, toPeer, reset, failure>>

\* Nothing is left to poll, or the owner gave up meanwhile.
Exit ==
  /\ InRound
  /\ Asked = {} \/ (thread.abort /\ Ready \cup Hung = {})
  /\ LeaveLoop
  /\ tcp' = Cancelled
  /\ UNCHANGED <<listens, app, peer, toTcp, toPeer, reset, failure>>

\* Rule r comes next among those that poll() reported.
Reached(r) ==
  /\ failure = "none" /\ thread.loop = "handle"
  /\ r \in thread.ready \cup thread.hung
  /\ \A q \in thread.ready \cup thread.hung : r <= q
ReadyIs(r) == Reached(r) /\ r \in thread.ready

Handled(r) == [thread EXCEPT !.ready = @ \ {r}]

\* A listening adapter takes only a SYN.
Passes(seg) == thread.listening => seg.syn /\ ~seg.rst

\* Rule 1: a datagram is read.
ReceiveDatagram ==
  LET seg == Head(toTcp)
  IN  /\ ReadyIs(1)
      /\ toTcp' = Tail(toTcp)
      /\ IF Passes(seg)
         THEN /\ tcp' = SegmentReceived(tcp, seg)
              /\ thread' = [Handled(1) EXCEPT !.listening = FALSE]
         ELSE tcp' = tcp /\ thread' = Handled(1)
      /\ UNCHANGED <<listens, pipe, app, peer, toPeer, reset, failure>>

\* Reading nothing, though something was asked for, is the end.
ReadsEnd(data) == data = <<>> /\ OutboundRoom > 0

\* Rule 2: bytes of the application go to the connection.
TakeFromApp ==
  LET data == SubSeq(pipe.up, 1, Least(OutboundRoom, Len(pipe.up)))
      ended == ReadsEnd(data)
      written == ConnectionWrite(tcp, data)
  IN  /\ ReadyIs(2)
      /\ pipe' = [pipe EXCEPT !.up = SubSeq(@, Len(data) + 1, Len(@)), !.eof = @ \/ ended]
      /\ tcp' = IF ended THEN ConnectionEndInput(written) ELSE written
      /\ thread' = [Handled(2) EXCEPT !.outShut = @ \/ ended]
      /\ UNCHANGED <<listens, app, peer, toTcp, toPeer, reset, failure>>

\* A wrong variant that the runs tell apart: what was not written is popped.
DeliveredAll(n) == [tcp EXCEPT !.rcv = ReceiverRead(@, MaxCopy)]
Delivered(n) == [tcp EXCEPT !.rcv = ReceiverRead(@, n)]

\* Rule 3: bytes of the connection go to the application, and the end after
\* them.  Writing to a direction that is shut down raises SIGPIPE.
GiveToApp ==
  LET wanted == StreamPeek(Received, MaxCopy)
      n == Least(Len(wanted), PipeSize - Len(pipe.down))
      read == Delivered(n)
      over == Exhausted(Inbound(read))
  IN  /\ ReadyIs(3)
      /\ IF wanted # <<>> /\ pipe.downShut
         THEN /\ failure' = "thread"
              /\ UNCHANGED <<tcp, pipe, thread>>
         ELSE /\ pipe' = [pipe EXCEPT !.down = @ \o SubSeq(wanted, 1, n),
                                      !.downShut = @ \/ over]
              /\ tcp' = read
              /\ thread' = [Handled(3) EXCEPT !.inShut = @ \/ over]
              /\ failure' = failure
      /\ UNCHANGED <<listens, app, peer, toTcp, toPeer, reset>>

\* Rule 4: every queued segment is sent.
SendDatagrams ==
  /\ ReadyIs(4)
  /\ toPeer' = toPeer \o tcp.out /\ tcp' = [tcp EXCEPT !.out = <<>>]
  /\ thread' = Handled(4)
  /\ UNCHANGED <<listens, pipe, app, peer, toTcp, reset, failure>>

\* A rule whose descriptor only hung up is erased; rule 2's cancel callback
\* ends the outbound stream.
HangUp(r) ==
  /\ Reached(r) /\ r \in thread.hung
  /\ thread' = [thread EXCEPT !.hung = @ \ {r}, !.rules = @ \ {r},
                              !.outShut = @ \/ r = 2]
  /\ tcp' = IF r = 2 THEN ConnectionEndInput(tcp) ELSE tcp
  /\ UNCHANGED <<listens, pipe, app, peer, toTcp, toPeer, reset, failure>>

\* All callbacks have run, and the clock has advanced by ms.
EndRound(ms) ==
  /\ failure = "none" /\ thread.loop = "handle" /\ thread.ready \cup thread.hung = {}
  /\ ms > 0 => Quiet
  /\ IF thread.abort
     THEN LeaveLoop /\ UNCHANGED <<tcp, peer, toTcp>>
     ELSE /\ thread' = [thread EXCEPT !.loop = "poll"]
          /\ TickAll(tcp, ms)
          /\ pipe' = pipe
  /\ UNCHANGED <<listens, app, toPeer, reset, failure>>

-----------------------------------------------------------------------------
\* The application, which copies both streams (apps/bidirectional_stream_copy.cc)
\* and then waits for the close, or gives up before.

Copying == failure = "none" /\ thread.phase # "opening" /\ app.at = "copying"

AppWrite ==
  /\ Copying /\ ~app.ended /\ app.put < AppBytes
  /\ IF pipe.upShut
     THEN failure' = "application" /\ UNCHANGED <<pipe, app>>
     ELSE /\ pipe' = [pipe EXCEPT !.up = Append(@, app.put)]
          /\ app' = [app EXCEPT !.put = @ + 1]
          /\ failure' = failure
  /\ UNCHANGED <<listens, tcp, thread, peer, toTcp, toPeer, reset>>

AppEnd ==
  /\ Copying /\ ~app.ended
  /\ pipe' = [pipe EXCEPT !.upShut = TRUE]
  /\ app' = [app EXCEPT !.ended = TRUE]
  /\ UNCHANGED <<listens, tcp, thread, peer, toTcp, toPeer, reset, failure>>

AppRead ==
  /\ Copying /\ ~app.eof
  /\ \/ /\ pipe.down # <<>>
        /\ pipe' = [pipe EXCEPT !.down = Tail(@)]
        /\ app' = [app EXCEPT !.got = @ + 1]
     \/ /\ pipe.down = <<>> /\ pipe.downShut
        /\ app' = [app EXCEPT !.eof = TRUE]
        /\ pipe' = pipe
  /\ UNCHANGED <<listens, tcp, thread, peer, toTcp, toPeer, reset, failure>>

\* wait_until_closed()
AppWait ==
  /\ Copying /\ app.eof /\ app.ended
  /\ pipe' = [pipe EXCEPT !.upShut = TRUE, !.downShut = TRUE]
  /\ app' = [app EXCEPT !.at = "waiting"]
  /\ UNCHANGED <<listens, tcp, thread, peer, toTcp, toPeer, reset, failure>>

\* ~TCPSpongeSocket()
AppDrop ==
  /\ MayDrop /\ Copying
  /\ thread' = [thread EXCEPT !.abort = TRUE]
  /\ app' = [app EXCEPT !.at = "waiting"]
  /\ UNCHANGED <<listens, tcp, pipe, peer, toTcp, toPeer, reset, failure>>

Join ==
  /\ failure = "none" /\ app.at = "waiting" /\ thread.phase = "done"
  /\ app' = [app EXCEPT !.at = "gone"]
  /\ UNCHANGED <<listens, tcp, thread, pipe, peer, toTcp, toPeer, reset, failure>>

-----------------------------------------------------------------------------
\* The peer and its owner, which send what they queue at once.
PeerBecomes(c) == peer' = [c EXCEPT !.out = <<>>] /\ toTcp' = toTcp \o c.out
PeerBytes == IF listens THEN CallerBytes ELSE CalleeBytes
PeerOpened == peer.snd.next > 0 /\ StateName(peer) \notin {"LISTEN", "SYN_SENT", "SYN_RCVD"}

PeerConnect ==
  /\ listens /\ peer.snd.next = 0
  /\ \E c \in {Open(peer)} : PeerBecomes(c)
  /\ UNCHANGED <<listens, tcp, thread, pipe, app, toPeer, reset, failure>>

\* The owner reads at once what has arrived.
PeerReceive ==
  /\ toPeer # <<>> /\ toPeer' = Tail(toPeer)
  /\ \E c \in {SegmentReceived(peer, Head(toPeer))} :
       PeerBecomes([c EXCEPT !.rcv = ReceiverRead(@, RecvCapacity)])
  /\ UNCHANGED <<listens, tcp, thread, pipe, app, reset, failure>>

\* The owner writes all its bytes at once.
PeerWrite ==
  LET s == Outbound(peer)
      data == [i \in 1 .. PeerBytes |-> i - 1]
  IN  /\ PeerOpened /\ peer.active /\ ~s.ended /\ s.written = 0
      /\ PeerBytes \in 1 .. RemainingCapacity(s, SendCapacity)
      /\ \E c \in {ConnectionWrite(peer, data)} : PeerBecomes(c)
      /\ UNCHANGED <<listens, tcp, thread, pipe, app, toPeer, reset, failure>>

PeerEnd ==
  /\ PeerOpened /\ peer.active /\ ~Outbound(peer).ended
  /\ \E c \in {ConnectionEndInput(peer)} : PeerBecomes(c)
  /\ UNCHANGED <<listens, tcp, thread, pipe, app, toPeer, reset, failure>>

PeerReset ==
  /\ MayReset /\ peer.active /\ HasAckno(peer.rcv) /\ reset' = TRUE
  /\ \E c \in {Reset(peer)} : PeerBecomes(c)
  /\ UNCHANGED <<listens, tcp, thread, pipe, app, toPeer, failure>>

-----------------------------------------------------------------------------
Callbacks ==
  \/ ReceiveDatagram \/ TakeFromApp \/ GiveToApp \/ SendDatagrams
  \/ \E r \in Rules : HangUp(r)
Round == LeaveOpening \/ Poll \/ Exit \/ Callbacks \/ EndRound(0)
Clock == TimeOut \/ EndRound(1)
Application == AppEnd \/ AppRead \/ AppWait \/ Join
PeerOwner == PeerConnect \/ PeerEnd

Next ==
  \/ Round \/ Clock
  \/ Application \/ AppWrite \/ AppDrop
  \/ PeerReceive \/ PeerOwner \/ PeerWrite \/ PeerReset

Spec == Init /\ [][Next]_vars

\* What fairness is about, as cheap predicates: the thread can go on, a clock
\* matters and can advance, the application and the peer's owner have
\* something to do.
Awaits(c) == c.active /\ (c.idle < LingerTime \/ c.snd.cache # {})
ThreadCanGo ==
  /\ failure = "none" /\ thread.phase # "done"
  /\ \/ thread.loop = "handle" \/ ~InRound \/ thread.abort
     \/ Asked = {} \/ Ready \cup Hung # {}
ClockCanGo ==
  /\ failure = "none" /\ thread.phase # "done" /\ Quiet /\ ~thread.abort
  /\ IF thread.loop = "handle" THEN thread.ready \cup thread.hung = {}
     ELSE ~ThreadCanGo /\ (Awaits(tcp) \/ Awaits(peer))
AppCanGo ==
  /\ failure = "none"
  /\ \/ app.at = "waiting" /\ thread.phase = "done"
     \/ Copying /\ (app.eof \/ pipe.down # <<>> \/ pipe.downShut)
PeerOwnerCanGo ==
  \/ listens /\ peer.snd.next = 0
  \/ PeerOpened /\ peer.active /\ ~Outbound(peer).ended
PeerOwnerGoes ==
  \/ peer.snd.next = 0 /\ peer'.snd.next > 0
  \/ ~Outbound(peer).ended /\ Outbound(peer').ended

\* Weak fairness of the thread, of datagrams, of the application, which reads,
\* and ends its stream once it has read the end if not before, and of the
\* peer's owner, who ends his; strong fairness of Clock: rounds that end may take no time, but not
\* all of them.
FairSpec ==
  /\ Spec
  /\ ([]<>~ThreadCanGo) \/ []<><<thread # thread'>>_vars
  /\ (<>[]~ClockCanGo) \/ []<><<Clock>>_vars
  /\ ([]<>(toPeer = <<>>)) \/ []<><<Len(toPeer') < Len(toPeer)>>_vars
  /\ ([]<>~AppCanGo) \/ []<><<app # app'>>_vars
  /\ ([]<>~PeerOwnerCanGo) \/ []<><<PeerOwnerGoes>>_vars

-----------------------------------------------------------------------------
TypeOK ==
  /\ thread.phase \in {"opening", "main", "done"} /\ thread.loop \in {"poll", "handle"}
  /\ thread.ready \cup thread.hung \subseteq thread.rules /\ thread.rules \subseteq Rules
  /\ thread.ready \cap thread.hung = {}
  /\ Len(pipe.down) <= PipeSize /\ app.put <= AppBytes /\ app.got <= PeerBytes
  /\ app.at \in {"copying", "waiting", "gone"}
  /\ failure \in {"none", "thread", "application"}

Numbered(bytes, first) == bytes = [i \in 1 .. Len(bytes) |-> first + i - 1]

\* What the application has read, what waits in the socket pair and what
\* waits in the connection are together, in order and once, what the
\* connection has received (rule 3 pops what it wrote, tcp_sponge_socket.cc:
\* 130-133), and the application sees the end only after all the peer wrote.
AppGetsTheStream ==
  /\ Numbered(pipe.down \o Received.buffer, app.got)
  /\ app.got + Len(pipe.down) = Received.read
  /\ app.eof /\ ~reset /\ thread.phase # "done" =>
       Outbound(peer).ended /\ app.got = Outbound(peer).written

\* The peer gets what the application wrote, and the end only if the
\* application ended its stream and all of it went before
\* (rule 2, tcp_sponge_socket.cc:98-107).
PeerGetsTheStream ==
  LET out == Outbound(tcp)
      in == Inbound(peer)
  IN  /\ Numbered(pipe.up, out.written) /\ out.written + Len(pipe.up) = app.put
      /\ in.written <= out.written
      /\ in.ended => in.written = app.put /\ (app.ended \/ app.at # "copying")

\* The bytes and the ends of both streams pass through the socket.
StreamsPass == TypeOK /\ AppGetsTheStream /\ PeerGetsTheStream

\* wait_until_closed() is to "wait for TCPConnection to finish"
\* (tcp_sponge_socket.hh:62): when it returns, and the peer sent no RST and the
\* application did not give up, the peer has the whole stream and its end,
\* and the application has read the peer's or still can.
CloseIsComplete ==
  thread.phase = "done" /\ ~reset /\ ~thread.abort =>
    /\ app.ended /\ Inbound(peer).ended /\ Inbound(peer).written = app.put
    /\ Outbound(peer).ended /\ app.got + Len(pipe.down) = Outbound(peer).written

\* Without an RST nobody writes to a direction that is shut down: the process
\* is never killed by a SIGPIPE.
NobodyIsKilled == failure # "none" => reset

\* The connection is set up, both streams end, and wait_until_closed() or the
\* destructor returns: the loop never waits for an event that cannot come and
\* is not left for want of rules before its time.
SocketCloses == <>(app.at = "gone" \/ failure # "none")

=============================================================================
