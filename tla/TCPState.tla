------------------------------ MODULE TCPState ------------------------------
(***************************************************************************)
(* libsponge/tcp_helpers/tcp_state.{hh,cc}: what the state of a            *)
(* TCPConnection is called, in the terms of RFC 793.                       *)
(***************************************************************************)
EXTENDS TCPConnection

ReceiverSummary(rcv) ==
  IF StreamOut(rcv).error THEN "error"
  ELSE IF ~HasAckno(rcv) THEN "listen"
  ELSE IF StreamOut(rcv).ended THEN "fin recv"
  ELSE "syn recv"

SenderSummary(snd) ==
  IF snd.stream.error THEN "error"
  ELSE IF snd.next = 0 THEN "closed"
  ELSE IF snd.next = snd.flight THEN "syn sent"
  ELSE IF ~AtEof(snd.stream) \/ snd.next < snd.stream.written + 2 THEN "syn acked"
  ELSE IF snd.flight > 0 THEN "fin sent"
  ELSE "fin acked"

\* TCPConnection::state()
State(c) ==
  [receiver |-> ReceiverSummary(c.rcv), sender |-> SenderSummary(c.snd),
   active |-> c.active, linger |-> c.active /\ c.linger]

Summary(receiver, sender, linger, active) ==
  [receiver |-> receiver, sender |-> sender, active |-> active, linger |-> linger]

\* The summary that TCPState(State) builds for each official name.
Official ==
  [LISTEN      |-> Summary("listen", "closed", TRUE, TRUE),
   SYN_RCVD    |-> Summary("syn recv", "syn sent", TRUE, TRUE),
   SYN_SENT    |-> Summary("listen", "syn sent", TRUE, TRUE),
   ESTABLISHED |-> Summary("syn recv", "syn acked", TRUE, TRUE),
   CLOSE_WAIT  |-> Summary("fin recv", "syn acked", FALSE, TRUE),
   LAST_ACK    |-> Summary("fin recv", "fin sent", FALSE, TRUE),
   CLOSING     |-> Summary("fin recv", "fin sent", TRUE, TRUE),
   FIN_WAIT_1  |-> Summary("syn recv", "fin sent", TRUE, TRUE),
   FIN_WAIT_2  |-> Summary("syn recv", "fin acked", TRUE, TRUE),
   TIME_WAIT   |-> Summary("fin recv", "fin acked", TRUE, TRUE),
   RESET       |-> Summary("error", "error", FALSE, FALSE),
   CLOSED      |-> Summary("fin recv", "fin acked", FALSE, FALSE)]

OfficialName ==
  [state \in {Official[name] : name \in DOMAIN Official} |->
     CHOOSE name \in DOMAIN Official : Official[name] = state]

\* The official name of a state.  Two states have none: the peer's FIN came
\* while the end of the owner's own stream waits for the window, or together
\* with the end of the handshake, where it is not acted on yet
\* (tcp_connection.cc:101-105).
StateName(c) ==
  LET state == State(c)
  IN  IF state \in DOMAIN OfficialName THEN OfficialName[state]
      ELSE IF state = [Official.CLOSE_WAIT EXCEPT !.linger = TRUE]
           THEN IF AtEof(Outbound(c)) THEN "CLOSING" ELSE "ESTABLISHED"
      ELSE "UNNAMED"

=============================================================================
