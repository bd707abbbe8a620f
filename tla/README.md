# A verification development for the sponge TCP library and the packet labs

The repository is a course's series of networking labs in C++ and C.

* Labs 0 to 4 build **sponge**, a user-space TCP library. Each lab's directory
  holds a snapshot of the library; Lab 4 completes it. The models follow
  `src/Lab4-2023Spring-karenntayy-master/sponge/libsponge/`, and file names
  without a directory below are relative to it.
* Lab 5 (`src/Lab5-2023Spring-karenntayy-main/`) has an Ethernet hub and a
  learning switch.
* Lab 6 (`src/Lab6-2023Spring-karenntayy-master/`) has an IP router with an ARP
  cache, and a NAT.

## 1. Inventory

### 1.1 The TCP library

| Component | State | Operations | Used by |
|---|---|---|---|
| Byte stream, `byte_stream.cc` | a ring of `capacity` chars, two `int` cursors, two counters, end and error flags | write, peek, pop, read, end, set error | sender (outbound), reassembler (inbound), the owner |
| Reassembler, `stream_reassembler.cc` | a map from index to cached excerpt, the next index to assemble, the end index, the output stream | `push_substring` | receiver |
| Wrapping integers, `wrapping_integers.cc` | none | `wrap`, `unwrap`, signed difference | receiver, sender |
| Receiver, `tcp_receiver.cc` | SYN seen, its number, a checkpoint, the reassembler | `segment_received`, `ackno`, `window_size` | connection |
| Sender, `tcp_sender.cc` | next number, peer's window, count in flight, cache of unacknowledged segments, timer with backoff, outbound queue | `fill_window`, `ack_received`, `tick`, `send_empty_segment` | connection |
| Connection, `tcp_connection.cc` | a sender, a receiver, active and linger flags, time since the last segment, outbound queue | `connect`, `write`, `end_input_stream`, `segment_received`, `tick`, the destructor | socket |
| Socket and event loop, `tcp_helpers/tcp_sponge_socket.cc`, `util/eventloop.cc` | a connection, a pipe to the application, a thread, shutdown flags | four rules of a poll loop, `connect`, `listen_and_accept`, `wait_until_closed` | applications |
| State summary, `tcp_helpers/tcp_state.cc` | none | names for sender and receiver states | socket, tests |
| Headers, parsers, buffers, file descriptors, `tcp_helpers/`, `util/` | none that matters here | conversions and system calls | everything |

How they interact. A connection runs in one thread. Every call the owner makes
is followed by moving the sender's queue into the connection's, stamping each
segment with the receiver's current acknowledgment and window
(`_send_data`), so an event at one component is visible to the others only at
the end of the call. The concurrency is between the two endpoints: segments
cross an unreliable network that loses, delays, repeats and reorders them, and
each side has a clock of its own. The owner writes, reads, ends and destroys at
any time.

What is hard, and what would make each component correct:

* *Byte stream.* The cursors only grow and are turned into slots modulo the
  capacity; signed and unsigned widths are mixed. Correct: a FIFO that never
  holds more than the capacity.
* *Reassembler.* Excerpts overlap, repeat and come in any order; one that is
  due when the output is nearly full is written in part; the end may be known
  long before it is reached. Correct: the output is the stream.
* *Wrapping integers.* Comparison is only meaningful within half the space, and
  near zero the closest candidate can be negative. Correct: `unwrap` returns
  the closest absolute number.
* *Sender.* Acknowledgments are late, repeated and partial; the count in flight
  is only recomputed when a segment leaves the cache; the window may close, or
  shrink below what is in flight. Correct: nothing that may be missing is
  forgotten, no more than the window is in flight, what is lost is sent again.
* *Receiver.* Correct: acknowledges only what was assembled; the right edge of
  the window never moves back.
* *Connection.* The state of the protocol is not stored but recomputed from the
  sender and receiver in a chain of conditions. Correct: each reader gets what
  the other side wrote; a clean close leaves nothing unacknowledged; both sides
  close; the states follow one another as TCP's diagram says.
* *Socket and event loop.* `poll()` records what is ready and the callbacks then
  run one by one, each after the others have changed the connection, while the
  application writes, reads, shuts down or destroys the socket from another
  thread. Correct: bytes and ends pass in order and whole; nobody writes to a
  closed end; the loop ends, and not before its time.

### 1.2 Hub and switch (Lab 5)

* Hub, `00-broadcast/`: stateless, sends each frame to every other interface.
* Switch, `01-switching/`: a hash table of MAC address, interface and time,
  with a lock; `lookup_port`, `insert_mac_port` and a sweep thread that removes
  old entries. Hard: the lookups and the insertion of one frame are three
  critical sections, the sweep runs between them and takes the time before it
  has the lock, and an entry is neither refreshed nor corrected: a host that
  moved is found again only after its old entry was swept. Correct: one entry a
  host; wrong entries go in time; frames reach hosts that stay where they are.

### 1.3 Router and NAT (Lab 6)

* Router, `02-router/`: the routing table, the ARP cache (mappings, requests
  with queued packets, one lock), `handle_ip_packet`, `longest_prefix_match`,
  `icmp_send_packet`, `iface_send_packet_by_arp`, `arpcache_append_packet`,
  `arpcache_insert` and the sweep thread. The packet loop handles one packet
  after another, so only the sweep interleaves with it: between a lookup and
  the queueing of its packet, and between the queueing and the request. Hard:
  requests are given up while the reply arrives, the table fills up, code
  called with the lock held takes the lock again, and several functions believe
  they own the same buffer. Correct: every packet goes by the longest prefix to
  the owner of its next hop or is answered with an error, once.
* NAT, `03-nat/`: mappings from internal to external endpoints and a pool of
  ports under one lock, the FIN flags of each side per mapping, a timeout
  thread. Hard: ports run out, a mapping expires while packets are under way, a
  port changes hands while remotes still use it. Correct: two flows never share
  a port of the pool; a reply reaches the endpoint that used the port last; a
  flow is forgotten when it is silent for long or over, and only then.

### 1.4 Left aside

Byte-level parsing, checksums, sockets, raw devices, `ioctl` calls, the
command-line applications, the Mininet scripts and the snapshots in Labs 0 to
3: pure input and output, or earlier versions of what Lab 4 has.

## 2. The modules

| Module | Models | Proved about in |
|---|---|---|
| `StreamValues` | the FIFO stream as a record, and its operations | |
| `AbstractByteStream` | what `ByteStream` promises: a state machine over such a record | |
| `ByteStream` | `byte_stream.cc`: the ring, with the widths of `int` and `size_t` | `ByteStreamProofs` |
| `WrappingIntegers` | `wrapping_integers.cc` | `SenderProofs` |
| `AscendingOrder` | a finite set of integers in ascending order: the keys of a `std::map`, the places of a list | `NumberFacts` |
| `StreamReassembler` | `stream_reassembler.cc` as operators on a record | `ReassemblerProofs` |
| `ReassemblerSystem` | a reassembler that is pushed excerpts and read | `ReassemblerProofs` |
| `TCPSegment` | the fields of a segment the protocol looks at, and its length in sequence space | |
| `TCPSender` | `tcp_sender.cc` as operators on a record | `SenderProofs` |
| `SenderSystem` | a sender, its owner, and any peer | `SenderProofs` |
| `TCPReceiver` | `tcp_receiver.cc` as operators on a record | `TransferProofs` |
| `TransferSystem` | one direction of a connection: a sender and a receiver around a network | `TransferProofs` |
| `TCPConnection` | `tcp_connection.cc` as operators on a record | `ConnectionProofs` |
| `ConnectionSystem` | two connections, their owners and the network | `ConnectionProofs` |
| `NumberFacts` | facts for the proofs: `%`, least numbers, ascending lists, folds as loops, sequences | |
| `TCPState` | `tcp_helpers/tcp_state.cc`: the summaries of sender and receiver, the official states | |
| `TCPStateMachine` | what the states promise: the diagram of TCP | |
| `SocketSystem` | `tcp_helpers/tcp_sponge_socket.cc` on `util/eventloop.cc`, with `apps/bidirectional_stream_copy.cc` as the application and a peer | |
| `Switch` | Lab 5 `01-switching/`: `main.c`, `mac.c`, `broadcast.c` | `TableProofs` |
| `RouteTable` | Lab 6 `02-router/`: the routing table and `longest_prefix_match` | `RouterProofs` |
| `ArpCache` | `02-router/arpcache.c` as operators on a record | `RouterProofs` |
| `Router` | `02-router/`: the packet loop (`ip.c`, `icmp.c`, `arp.c`) and the sweep around the cache | `RouterProofs` |
| `MCRouter` | a routing table and packets for `Router` | |
| `Nat` | `03-nat/nat.c` | `TableProofs` |
| `PortPool` | what the NAT promises: a pool of ports, each with at most one holder | |

Components whose methods are called by other components (reassembler, sender,
receiver, connection) are modules of *operators on a record* whose fields are
the class's members: `AckReceived(s, ackno, window)` is the sender after
`ack_received`. The `...System` modules hold the variables and have one action
per call or event. `TCPConnection` extends `TCPSender` and `TCPReceiver`, which
extend `WrappingIntegers`, `TCPSegment`, `StreamValues` and
`StreamReassembler`, as the classes include each other. A byte stream inside
those records is a stream *value*, the abstract state that `ByteStream` is
proved to implement; the composition uses the specification and the ring is
verified once.

Operators introduced by "A wrong variant that the runs tell apart" are never
used by a specification. Each is a plausible mistake in the operator that
follows it; replacing that operator by the variant makes a run fail, which
shows that the run's property depends on that code.

Abstractions, each the same throughout:

* Sequence numbers have a constant modulus `2 * Half` for the code's 2^32, so
  that a run wraps in a few steps. Absolute numbers are unbounded.
* The bytes written are their own indices, so that misplaced, repeated or
  missing bytes show.
* The clock's unit is one tick. `RtTimeout`, `LingerTime` count ticks.
* A network is a set of messages per direction: any message in flight may be
  the next to arrive. Two equal messages in flight count as one; a repeated
  delivery is an action of its own in `TransferSystem`, and a retransmission
  that is still in flight when the original has arrived is the same thing in
  `ConnectionSystem`.
* Signed overflow of the stream's `int` cursors, undefined in C++, wraps as it
  does on the machines the library is built for.

### How actions correspond to code

* `ByteStream`: one action per method. `Write` copies the accepted bytes into
  their slots, as the loop does; `Collect` is the copy loop of
  `peek_output`.
* `ReassemblerSystem`: `Push` is one call of `push_substring`, with all of its
  merging (`MergeWith` for each cached excerpt that overlaps, in the loop's
  order), the writing of what has become due (`Assemble`, `Drain`) and the end
  (`EndIfComplete`).
* `SenderSystem`: `Fill`, `Write`, `EndInput`, `Tick` are the owner's calls, and
  `AckArrives` is `ack_received` with the refill that ends it. `PeerReceives` is
  the peer: it may acknowledge any number that was sent, at any time.
* `TransferSystem`: `DeliverSegment` is `segment_received` of a receiving
  endpoint with its immediate acknowledgment, `DeliverAck` that of the sending
  one with its refill. `Transmit` is `_send_data`, which gives each segment its
  place in the network. `Lose` and the choice of `Repeat` in a delivery are the
  network's, and so is `Expire`: it discards what is older than half of the
  sequence space (`SegmentIsOld`, `AckIsOld`), which is what TCP's maximum
  segment lifetime promises and the code relies on, since it has only raw
  numbers to tell an old segment from a new one. For this a message carries the
  absolute number it is about (`at`), which no endpoint looks at.
* `ConnectionSystem`: `Connect`, `Write`, `EndInput`, `Read`, `Destroy` are the
  owner's, guarded as `TCPSpongeSocket` guards them (`Opened` is the condition
  `connect()` and `listen_and_accept()` wait for); `Deliver` is
  `segment_received` with its whole chain of states (`Phase` names the branch);
  `Tick` is the event loop's call of `tick`. `FollowsTheDiagram` maps it to
  `TCPStateMachine` by `StateName`.
* `SocketSystem`: a round of the thread is `Poll` (one call of `poll(2)`, which
  records the rules that are ready), then the callbacks one by one
  (`ReceiveDatagram`, `TakeFromApp`, `GiveToApp`, `SendDatagrams`: the four
  rules of `_initialize_TCP`; `HangUp` for a descriptor that only hung up), then
  `EndRound` with the tick of `_tcp_loop`. `TimeOut` is a `poll(2)` that reports
  nothing, `Exit` the loop without rules, `LeaveOpening` the end of `connect()`
  or `listen_and_accept()`. `App...` are the application's calls at any moment
  between those; `AppDrop` is the destructor, `AppWait` and `Join`
  `wait_until_closed()`. What `poll(2)`, the local socket pair and `write(2)` to
  a closed end do is modelled from their use and marked external. The peer is a
  `TCPConnection` whose owner reads at once and writes all it has at once.
* `Switch`: a frame is `Arrive`, `Forward` (look the destination up and send),
  `LookupSource` and `Insert`, the steps between which the lock is free. The
  sweep is `SweepStart` (it takes the time) and `SweepRun` (it has the lock).
* `Router`: the packet loop's actions are `HandleIp` (`handle_ip_packet` up to
  the lookup of the next hop, with the ICMP message it sends instead of
  forwarding), then `Lookup`, `AppendPacket`, `SendRequest` (the two halves of
  `arpcache_append_packet`, inside and after its critical section) and
  `FreeMessage` (the `free` that ends `icmp_send_packet`); or `Reply`
  (`arpcache_insert`). `Sweep` is one round of the sweeping thread and
  `SweepSnagged` a round that does not come back: an ICMP error waits for the
  lock the thread holds, or has no route. `Tick` is a second. An address has
  `Width` bits; a request is found by next hop, which determines the interface.
  Two ghosts record the past: `asked` and `sent`.
  Two things in this code are undefined. A buffer is freed twice:
  `AfterDoubleFree` lists what may come of it at once, the process goes on or is
  aborted. And `icmp_send_packet` frees a message that waits in the cache:
  `FreeMessage` marks it `freed` where it waits. From there on `free` may write
  into it, and every step that asks for memory may be given its buffer
  (`Allocates`; `OtherFrame` is a frame that does nothing else). `intact` says
  that neither has happened yet. When it becomes `FALSE` the model stops
  (`Sound` guards every action), because all that comes after depends on the
  allocator's layout; only for the buffer of a packet that has just arrived, or
  of the answer to it, does it still say what the queue then holds (`Allotted`).
* `Nat`: `OutKnown`, `OutNew`, `InKnown`, `InStray` are the four paths of
  `do_translation`, each under one lock; `Sweep` is a round of `nat_timeout`.
  `InStray` ends the process (it follows a route that does not exist), `Restart`
  starts it with empty tables. Two history variables watch the packets, not the
  table: `user` records who used a port last, and `heard` for how long a flow
  has been silent and which sides' latest packets were FINs.

## 3. The runs

| Run | Question | Result |
|---|---|---|
| `byte_stream` | is the ring a FIFO? | holds |
| `reassembler` | is the output the stream, and the cache tidy? | holds |
| `sender` | is nothing forgotten, the window kept, the timer right, and what is lost sent again? Does `unwrap` find the closest number, and does the signed difference measure distance? | holds |
| `transfer` | does the reader get the stream, are acknowledgments sound, does the transfer complete? | holds |
| `connection` | two endpoints from the handshake to the close, one or both opening: are the streams whole, is a close clean, do the states follow TCP's diagram? | holds |
| `connection_liveness` | do both endpoints close? | holds |
| `connection_duplicate_syn` | ... is nothing forgotten when initial numbers lie in the lower half? | violated |
| `socket` | do bytes and ends pass through the socket's thread in order and whole, is nobody killed, does the socket close? | holds |
| `switch` | does a frame reach a host that has settled, is each host learned again? | holds |
| `router` | does every packet go by the longest prefix to the owner of its next hop, is it in one place, is it settled? | holds |
| `router_pending` | can a packet that waits for a mapping still leave, once, whatever the allocator does with the buffers? | violated |
| `nat` | are ports exclusive, do replies reach the user, does a flow in use keep its entry and an abandoned one lose it, is the table a pool of ports? | holds |

Type invariants are checked inside another property of their module
(`CacheIsSeparated`, `NothingUnackedIsForgotten`, `ReaderGetsTheStream`,
`ReadersGetTheStreams`, `StreamsPass`, `CacheIsTidy` have them as a conjunct) or
are proved (`ByteStream`, `Switch`, `Nat`, and with the invariants of the
reassembler, the sender, the transfer, the connection and the router).

### Bounds, and why they are enough

* `byte_stream`: capacity 3, strings up to 4 (longer than the capacity, so
  writes are cut), 7 bytes: the cursors go around the ring more than twice.
  Widths are large enough for `CursorsFit`.
* `reassembler`: a stream of 7 bytes, every excerpt of it in every order,
  capacity 3: up to three separate cached excerpts, excerpts that join several,
  and outputs that fill in the middle of one.
* `sender`: 7 bytes with `Half = 4`, so the numbers wrap while acknowledgments
  as old as half the space are still under way; payloads of 2 of a window of 3,
  so a window is a full segment and a part; windows 0, 1 and 3, so the window
  closes and shrinks; a backoff of two doublings and the giving up after.
  `unwrap` is compared with its definition for every initial number, every raw
  number and every checkpoint the stream reaches, more than once around the
  space of 8; nothing in the code depends on the width.
* `transfer`: 5 bytes plus SYN and FIN, seven numbers in a space of 6 that begin
  at 4: the numbers wrap, raw numbers are used twice, and messages get old enough
  to be discarded. Half of the space, 3, is just more than the capacity of 2, the
  least that `TransferAssumption` allows, and the window closes; one loss, one
  repetition, one early timeout, which can be combined. `MaxRetx = 4` is more
  than the retransmissions they can cause in a row, so that giving up is not
  what ends a transfer.
* `connection`: one byte from the opener, none from the listener or when both
  open; two segments in flight each way, premature timeouts at any time up to
  the reset (`MaxRetx = 1`), a linger of two ticks, the server may be
  destroyed. The close (four orders of two FINs), reset and simultaneous open
  all occur.
* `connection_liveness`: two bytes one way and one the other, one loss, six
  segments in flight, linger of ten ticks as in the code (`10 * rt_timeout`).
  The receive capacity equals `WindowSpan`, so that an empty receiver announces
  a window of 0, as one of 65536 bytes does.
* `socket`: the socket connects or listens; a byte from the application, one or
  two from the peer; a socket pair that holds one byte, so that deliveries are
  partial; the peer may reset and the application may destroy the socket at any
  moment. Datagrams are neither lost nor reordered here (the connection runs do
  that); what interleaves is the thread, the application and the peer.
* `switch`: two hosts, three ports, two moves, entries that live a second; the
  second host can take the first one's port, and a move can fall between a
  frame's lookup and its insertion, and between the sweep's clock and its lock.
* `router`: five routes of which three overlap and one is the default, listed
  out of order of length; three gateways, one of which changes its hardware
  address, and a table of two, so that an entry is replaced; three packets of
  seven kinds: to gateways from inside and from beyond, to a network of the
  router, an echo request, one that expires and is answered through a gateway,
  one whose sender has no route. Entries expire after one second and requests
  are given up after two repetitions, so that expiry, replacement, repetition
  and giving up can meet. Replies come at any time after the first request, or
  never. The process goes on after a double free (`AfterDoubleFree = {TRUE}`):
  an aborted one takes no further step, so that the other choice would only
  double the states that a double free leads to. `router_pending` has two
  packets of three kinds: one that is answered with an error towards a gateway,
  one for a network of the router's own, one from behind a gateway to another.
* `nat`: two inner endpoints and two buckets, hence four flows, and two ports in
  the pool, so that it runs out; packets and stray packets at any moment,
  sweeps and restarts between them.

`MaxInFlight` disables a step that would put more segments in flight. That
only hides behaviours, and the liveness run has a bound it never reaches.

### Fairness

* The clock ticks: the event loop calls `tick` at least every `TCP_TICK_MS`
  (`tcp_sponge_socket.cc:22-39`); seconds pass.
* The network delivers or discards what it does not lose, and loses only
  finitely much (`MaxLost`).
* The applications at both ends keep reading, write something and end their
  stream eventually.
* The timeout exceeds the round trip, but for `MaxEarly` times (`transfer`) or
  always (`Timely`, in `connection_liveness`, where the clocks also run alike).
  With timeouts that are always early the code gives up and resets, which is
  its intended behaviour. The other connection runs let the two clocks tick at
  any time.
* `socket`: the thread goes on whenever it can, datagrams arrive, the
  application reads and ends its stream once it has read the peer's end, the
  peer's owner connects and ends his. Time passes when no datagram is under way
  (a round trip is shorter than a tick); rounds may take no time, but not all
  of them (strong fairness of `Clock`). The peer's application need not write,
  nor ours write anything before it ends.
* `router`: the packet loop and the sweep take their steps when they can and
  seconds pass. Nothing is assumed about replies or about packets that arrive.
* `switch`: the packet loop and the sweep go on; seconds pass even though a
  second needs the loop to be idle, and every host sends again and again, even
  though the loop may be busy with others (strong fairness of `Tick` and of
  each host's sending).
* `nat`: the sweep and the clock go on. No packet and no restart is assumed.

Where a fairness condition is about an action of many parameters it is written
out through state predicates (`Waiting`, `CanWrite`, ...) in the form
`[]<>~Enabled \/ []<><<Done>>_vars`; this is weak fairness with the enabling
condition stated by hand, which TLC evaluates far faster.

### Initial sequence numbers in the connection runs

`segment_received` hands the acknowledgment number of *every* segment to the
sender, whether or not its ACK flag is set. A SYN without ACK carries 0 there.
Whether the sender ignores it depends on the raw number it has reached: when it
lies in the upper half of the space 0 is ahead of it and ignored; in the lower
half 0 is taken for an acknowledgment. The passing runs start in the upper half
(`Isns = {9}` of 16); `connection_duplicate_syn` starts in the lower half and
is a finding below.

## 4. Findings

* `connection_duplicate_syn`: in SYN-RCVD a repeated SYN empties the cache of
  the SYN+ACK, which is then never sent again, and sets the count in flight to
  a number that has nothing to do with what was sent.
* `router_pending`: an ICMP message that waits for a mapping is freed while it
  waits (`icmp.c:62`; `arpcache.c:91-92` keeps the pointer). The next `malloc`
  may return its buffer, to the next packet for example (`main.c:77`). The queue
  then points to that packet: it is forwarded and waits as well, to be sent
  again when the mapping is known, and the ICMP message never leaves, against
  `arpcache.c:123-125`.

`PendingCanLeave` is false of the router for two more reasons, which TLC reports
when it does not meet the first:

* Without the `free` of a waiting message in `FreeMessage`: when a request is
  given up and the sender of one of its packets is behind a gateway, the ICMP
  error looks that gateway up under the lock that the sweep holds
  (`arpcache.c:247`), and both threads wait for ever; the packet gets no answer,
  against `arpcache.c:215-218`.
* With `AfterDoubleFree = {FALSE}`: `iface_send_packet` frees the buffer it sends
  (`device_internal.c:39`) and `arp_send_request` frees it again (`arp.c:37`),
  as does `icmp_send_packet` (`icmp.c:62`). An allocator that notices (glibc does
  from 2.29 on) aborts, so the router ends with its first ARP request or ICMP
  message, and with packets that wait.

What the run `router` and the proofs about it say, they say of the router until
one of these three happens. `CacheIsTidy`, `NowhereTwice` and
`SentByTheRoute` hold while no waiting message's buffer holds something else
(`intact`), and `AllSettled` as long as the process also runs and the sweep comes
back. `SentToTheOwner` is about steps the model takes, and so about the same
time. A second free that goes unnoticed and does harm later, by giving away a
block that is in use, is left out altogether.

Seen in the code, and not a run of its own:

* *Library.* The `int` cursors of the byte stream only grow. The reader's
  overflows when 2^31 less a capacity were read and the writer's when 2^31 were
  written, and `buffer_size()` is then not "the maximum amount that can currently
  be read" (`byte_stream.hh:71`); TLC finds `BufferSizeIsUnread` violated as soon
  as `MaxBytes` exceeds what `CursorsFit` allows. The capacity does not limit the
  cached excerpts, which `stream_reassembler.hh:27-28` says it does. `write()` does
  not look at the end flag, although "then no more bytes can be written" (`byte_stream.hh:10-11`).
  Destroying an open connection prints a warning and sends nothing, although
  `tcp_connection.hh:93` says it sends a RST. In SYN-RCVD a segment that ends
  the handshake and the stream at once is not acknowledged at once and leaves
  the linger flag set, so the passive side goes through CLOSING.
* *Socket.* A RST that arrives while bytes wait for the application, or while
  the application still writes, ends in a SIGPIPE (hence the `reset` in
  `NobodyIsKilled`). A callback whose readiness was recorded before a reset
  still sends its bytes or its FIN. `connect()` returns without an error when
  the peer answers with a RST.
* *Datagrams.* `IPv4Datagram::parse` and `TCPSegment::parse` do not use what the
  header's `parse` returns (`ipv4_datagram.cc:13`, `tcp_segment.cc:20`), only the
  parser's own error, which it sets for missing bytes alone. A wrong version
  or header checksum is therefore accepted, against `ipv4_header.cc:14-22`; a
  wrong length shows in the size of the payload, and damage to the addresses or
  the segment in the TCP checksum. `LossyFdAdapter::read` drops a segment after
  the adapter has handled it (`lossy_fd_adapter.hh:43-46`), so a listening
  adapter may be bound to a caller whose SYN the connection never sees; it then
  ignores other callers. While it listens, an adapter does not look at the
  address a SYN was sent to (`tcp_over_ip.cc:29`), and answers from it.
* *Router.* `arpcache_lookup` compares the flag `valid` with the address
  (`arpcache.c:60`) and never finds a mapping, so every packet to a gateway is
  queued and asked for anew; it still leaves with the reply. A request is sent seven
  times before it is given up, where `arpcache.c:215-216` says five. The default
  route is never used, for the longest mask starts at 0 (`ip_base.c:34,40`). A
  packet for a network of the router's own keeps the hardware address it came
  with (`ip.c:51-53`). The packet an ICMP message answers is not freed; a packet
  whose sender has no route is a null pointer (`icmp.c:38-39`).
* *NAT.* The dnat-rules are read but never used for a translation, and their
  port is parsed from the start of the address, so a packet for a published
  port is a stray one; a stray one gets a mapping to 0.0.0.0, for which there
  is no route, and the process dies. `NAT_PORT_MAX` is shared by all flows once
  the pool is used up. FIN|ACK does not count as a FIN, a later packet of the
  same side takes its FIN back, and sequence numbers are compared in network
  byte order.
* *Switch.* Entries are not refreshed by traffic (`mac.c:117-119`), so active
  hosts are swept too and their frames broadcast until learned again; a host
  that moved is sent to its old port until its entry is swept, about half a
  minute. A frame for a host on the port it came in by goes back there.

## 5. What is proved

With TLAPS, for all values of the constants.

**The ring is a FIFO** (`ByteStreamProofs`). From `StreamAssumption` and
`CursorsFit` (`MaxBytes + Capacity < IntHalf`: the bytes written over the
stream's life fit in an `int`):

* `TypeCorrect`: `Spec => []TypeOK`.
* `SizesCorrect`: `Spec => []BufferSizeIsUnread`.
* `RingImplementsFIFO`: `Spec => ImplementsFIFO`, every behaviour of the ring is
  one of the abstract stream under the refinement mapping that reads the
  unread bytes out of the ring.

`TypeOK` is not inductive: `BufferSize` and the slots that are read depend on
both cursors. `IInv` adds that the writer's cursor *is* the count of written
bytes, that the reader's is a capacity ahead of the count of read ones (the
constructor starts it there), that at most a capacity is unread, and that the
slots of the unread bytes hold bytes. `CursorsFit` makes every conversion
between `int` and `size_t` the identity (`ToIntFits`, `ToSizeFits`), and
distinct unread positions have distinct slots because fewer than a capacity
apart (`NumberFacts`). `WriteRing` says what the copy loop leaves in each slot,
and the refinement of each action follows from it. Without `CursorsFit` the
statement is false, see the observations above.

**`unwrap` inverts `wrap`** (`SenderProofs`, `UnwrapRoundTrip`). For
every `Half`, initial number and absolute number, if the checkpoint is within
half the space (`-Half <= n - checkpoint < Half`). `OffsetOfWraps`, the lemma
under it, says that the signed difference of two wrapped numbers is the
difference of the absolute ones in that range, which is what the sender's
comparison of acknowledgments relies on.

**The NAT's table is a pool of ports** (`TableProofs`), from the assumptions that
the range of ports is not empty, the timeout is a number and the octets that
rules begin with lie below the range:

* `TypeCorrect`, `ExclusivePorts` (`[]PortsAreExclusive`), `AccountedPorts`
  (`[]MarkedIsUsed`): every mapping has a port of the range, two flows share
  none but `NAT_PORT_MAX`, and a port of the pool is marked exactly while a
  mapping has it.
* `NatImplementsPortPool`: `Spec => ImplementsPortPool`.

The invariant is their conjunction with `DeadIsEmpty` (a dead process has no
mappings): exclusiveness alone is not inductive, because a free mark must mean
that no mapping has the port. Every step is one of four kinds (`StepKinds`): it
changes no port, adds a flow with a free port, forgets flows with their marks,
or ends everything; each kind preserves the invariant and maps to a step of the
pool or to none.

* `RepliesReachTheUserHolds` and `KeptWhileUsedHolds`: the two action
  properties of the run. Each compares the table with what a history variable
  has seen, and so needs one more invariant that ties the two together. The
  first, `UserHolds`: the endpoint that used a port of the pool last is the one
  whose flow has it. It is preserved because a flow that gets a port uses it in
  the same step, and exclusiveness says that nobody else's port changes hands by
  it. The second, `EntriesAreHeard`: an entry's age and FINs are what was heard
  of its flow; every packet of either direction must refresh the entry for it to
  be preserved.

**The switch finds hosts that have settled** (`TableProofs`), for any hosts,
ports, timeout and number of moves: `SwitchTypeCorrect`, `EntriesAreUnique`
(`[]OneEntryEach`), `WrongEntriesAreOld` (`[]WrongIsOld`) and
`FramesReachTheSettled` (`[]FrameReaches`). The invariant adds that ages grow
only with the time since the last sweep (`AgesAreBounded`, hence no entry
outlives `Oldest`), that the frame in hand came from where its sender is, or
the sender moved within this second (`FrameIsFresh`), and that an insertion is
of a host the table does not have, since only the packet loop inserts
(`InsertsTheUnknown`). `TableProofs` extends `Nat` and `Switch`, so the names both
would have (`SwitchInit`, `SwitchNext`, ...) begin with the switch's in `Switch`.

**The reassembler's output is the stream** (`ReassemblerProofs`), for every
length of the stream (`LengthAssumption`: a natural number), every capacity but
0 (`ReassemblerAssumption`) and pushes of every excerpt, in any order, any number
of times:

* `OutputIsTheStreamHolds`, `CacheIsSeparatedHolds`, `EndsAtTheEndHolds`: the three
  invariants of the run.
* `DroppedOnlyWhenFullHolds`: the action property.

The invariant is `RInv`, that is `ReassemblerOK(reassembler, pushed)`. The output
holds the indices from `read` up to `assemble_idx`, all of them pushed
(`StreamOK`). Each cached excerpt holds the indices from its key up to its end,
all pushed, and another one that lies behind it does not touch it (`CacheOK`);
every key is beyond `assemble_idx`. The end index is the sentinel or the length
of the stream, and the output has ended exactly when both are reached. That the
cache is separated is what makes the rest inductive: `Drain` stops at the first
gap, and leaves nothing that is due, only because no two excerpts overlap or
touch.

`merge_segments` and the drain are loops, here folds over the keys in ascending
order. An induction principle with a predicate as a parameter is out of the
provers' reach, so a fold is turned into a function from the number of rounds to
the state after them (`IterationIsLoop`, with `DrainIsLoop` and `MergeIsLoop`),
and a statement about all rounds is proved from a least counterexample
(`LeastExists`). `MergeStates` is the loop invariant of the merge: what has been
absorbed lies within the growing excerpt, what has not does not touch it.
`DroppedOnlyWhenFull` follows from `KeepsBytes`: whatever was cached is cached or
assembled after the push, or the output is full.

**The sender forgets nothing** (`SenderProofs`), from `HalfAssumption`,
`SenderAssumption` (payload, timeout and capacity are positive) and
`PeerAssumption`, of which the proof needs that windows are less than `Half`; in
the code they have 16 bits and `Half` is 2^31:

* `NothingForgottenHolds`, `FlightIsBoundedHolds`, `FlightIsUnackedHolds`,
  `TimerIsBackedOffHolds`, `NumbersAreFoundHolds`: all invariants of the run.

The invariant is `SInv`. `SenderOK(snd, lastAck)`: the cached segments are
*placed* (the bytes and flags of each are those of the stream at its number),
*apart*, and between them hold every number from `lastAck`, the last
acknowledgment that removed one, up to `next`; the count in flight is
`next - lastAck`, within the largest window. `TimerOK`: the timeout is the
initial one doubled `retx` times, and the timer has not run out. Last, `peerNext`
is between `lastAck` and `next`. `FlightIsUnacked` alone is not inductive: an
acknowledgment in the middle of a segment removes nothing and leaves the count
as it is, hence `lastAck`, and the code compares wrapped numbers, which
`OffsetOfWraps` allows because the window keeps them within half the space.
`SendData` cuts what may be sent into payloads by division, so its segments are
placed by the arithmetic of multiples (`NumberFacts`). The doublings of the
timeout are a recursive function, treated as the reassembler's loops.

**The transfer delivers the stream** (`TransferProofs`), whatever the network
loses, repeats and reorders, for every width of the sequence numbers, capacity at
both ends, payload size, timeout, number of retransmissions and length of the
stream. Assumed are `HalfAssumption`, `SenderAssumption`, `ReassemblerAssumption`
and `TransferAssumption`; the last says that the initial numbers are raw ones
and that the receiver's capacity is less than `Half` (a window has 16 bits,
`Half` is 2^31). The stream may be longer than the whole space, as the code
means it to be; what the network may deliver is bounded by the segment lifetime
instead (`SegmentIsOld`, `AckIsOld`).

* `ReaderGetsTheStreamHolds` and `AcksAreSoundHolds`: the invariants of the run;
  `RightEdgeNeverShrinksHolds`: its action property.

The invariant `TInv` puts the sender's and the reassembler's own invariants
(`SenderOK` and `TimerOK` of `SenderProofs`, `ReassemblerOK` of
`ReassemblerProofs`, whose lemmas about the operators are used through the
instances `S` and `R`) beside what lies between the two:

* `SegmentsInv`: every segment in the network has a place in the stream (`at`), and
  its bytes and flags are those of that place.
* `ReceiverInv`: the receiver holds only bytes that were sent, knows the end only
  when the sender has sent it, and has received all that the sender has
  forgotten (`Acked(snd) <= NextExpected(rcv)`).
* `AcksInv`: every acknowledgment in the network is of a number up to the next one
  the receiver expects, and announces a window within its capacity.

None of the three properties is inductive. That a segment's bytes land where they
belong needs that the receiver unwraps its raw number to `at`: the segment is not
older than half the space, and `at` is no more than a capacity ahead of the
checkpoint, because the sender had no more than a window in flight beyond what
it knew to be received. That in turn needs `AcksInv`, as the sender drops what an
acknowledgment covers, and `AcksInv` needs that the receiver's next number never
decreases. So segments, receiver and acknowledgments hold each other up, and each
step disturbs one of them: `TransmitKeeps` (what the sender queues is placed;
`MessagesArePlaced`), `DeliverSegmentKeeps` (`SegmentIsTaken`: a placed segment
pushes bytes that were sent), `DeliverAckKeeps`, `ReadKeeps`, and `LoseKeeps` and
`ExpireKeeps`, which only take messages away. `AcksAreSound` follows because
what is not in the sender's cache lies below its last acknowledgment
(`ForgottenIsReceived`), and the right edge is `read + capacity + 1`, and one more
after the end, none of which decreases.

**One of the two connections waits** (`ConnectionProofs`), for every pair of
endpoints, width, capacity, payload, timeout and initial numbers, whoever opens,
writes, resets or is destroyed, and whatever the network loses and reorders and
the senders repeat; assumed are `HalfAssumption`, `SenderAssumption`,
`ReassemblerAssumption`, `ConnectionAssumption` and `EndpointAssumption` (there
are two endpoints, initial numbers are raw ones).

* `SomeoneLingersHolds`: at most one connection skips the wait after the streams
  have ended, an invariant of the run; `TypeHolds`: `[]TypeOK`, with the bound
  on what each sender has sent.

`SomeoneLingers` is not inductive: it says nothing of why a connection stopped
waiting. The invariant `CInv` follows the FIN. A segment in a queue, a cache or
the network has one only if its sender's stream is at its end, a state that is
never left (`Sends`, one lemma per operation of the sender); so a receiver that
knows where its input ends, or whose output has ended, has a peer in that state
(`ReceiverOK`; the drain and the merge are loops, treated as in
`ReassemblerProofs` and with its lemmas through the instance `R`). A connection
clears the flag only when its input has ended while its own stream has not
(`Evolves`), hence a connection that does not wait has a peer at its end. If both
had stopped, the second did so while its stream was not at its end, against what
the first had learned. No number is compared with what it stands for, so the
argument holds for all initial numbers, `connection_duplicate_syn` included.

**The router sends by the longest prefix, and once** (`RouterProofs`), for every
routing table, set of packets, size of the ARP cache, timeout and number of
repetitions (`RoutesAssumption`, `ArpAssumption`, `RouterAssumption`):

* `MatchIsLongest`: the loop over the routing table finds a route that covers the
  address and is the longest of those, if one of them has a mask at all.
* `CacheIsTidyHolds`, `SentByTheRouteHolds`, `NowhereTwiceHolds`: the invariants of
  the run; `SentToTheOwnerHolds`, an action property: what leaves has the
  hardware address that the cache has for its hop in that very state.

The invariant `RInv` says that `RouterOK` holds while the messages that wait are
what was queued (`intact`). A step that ends this changes the queue and is the
model's last, so each lemma about an action assumes `intact'`, and `StartsSound`
says that every step but a stutter starts where `intact` holds.
`RouterOK` has four parts: the types (`ShapeInv`), the hop of each
packet, in hand, queued or sent, is the one the table gives (`RouteInv`), the
numbers of queued and sent packets are apart, and a packet in hand that is not
queued yet is in neither (`PlaceInv`), and the cache is tidy (`TidyInv`).
`NowhereTwice` says nothing of the packet in hand, so it is not inductive without
`PlaceInv`; `PlaceInv` needs the tidiness, since a packet is put in *the* request
for its hop. A queued packet has a *spot*, the place of its request and its place
in the queue. What an operation does to the queues is said by a map of the spots
after it to the spots before it: `ThinnedBy` (some left, the others are where
they were or moved up; a reply, a sweep, also one that gives up in the middle of
a queue) or `JoinedBy` (one more). One lemma for each of the two then shows that
the queues keep `RouteInv` and `PlaceInv`.

**Only model-checked.** Liveness, as no prover here handles fairness:
`TransferCompletes`, `LostIsResent`, `BothClose`, `SocketCloses`, `AllSettled`,
`AbandonedGoes`, `Relearned`. Of `ConnectionSystem`, `ReadersGetTheStreams`,
`DroppedWasReceived`, `CloseIsClean` and `FollowsTheDiagram`, the refinement of
the diagram of TCP; and the composition `SocketSystem`.
The proof of the transfer does not carry over to the connection: there the code
takes the number 0 of a segment without ACK for an acknowledgment (section 4),
so `AcksInv` is false of `ConnectionSystem` for the initial numbers of
`connection_duplicate_syn`, and its properties hold only for initial numbers in
the upper half, as long as the stream does not reach the lower one. The runs
that expect a violation.

## 6. Not modelled

* `windows_size_` of the sender (written, never read); checksums, options and
  malformed headers; wire formats and their parsers.
* The event loop's test for busy waiting, which cannot fire with the socket's
  rules; errors of system calls; the adapters of the socket but for the filter
  of a listening one; the buffers inside `bidirectional_stream_copy`.
* The switch's `dump_mac_port_table` and `destory_mac_port_table`, the router's
  `arpcache_destroy` and `clear_rtable`, `nat_exit`: not called while the
  programs run. The answers to ARP requests change no state. In the NAT, the
  IP and ARP code it shares with the router and packets that are not TCP, which
  it drops.
* The command lines, raw devices, netlink and `ioctl` calls, Mininet scripts,
  tests, and the labs' earlier snapshots of the library, which make up most of
  the repository's lines: four of its five copies of sponge are earlier ones,
  and the last is what the models follow.

## 7. Plan

1. *More proofs of the connection*: `ReadersGetTheStreams` and `DroppedWasReceived`
   from two transfers, one each way, under an assumption on the initial numbers
   that keeps 0 ahead of the sender, or once `segment_received` tests the ACK
   flag.
2. *The socket under loss*: the event loop with a network that loses datagrams.
3. *Datagrams*: the parsers, serializers and checksums of `tcp_helpers/`, and
   the IPv4 adapter's filter with several callers, a restart and a damaged byte
   per datagram: what is read is what the one peer wrote.
