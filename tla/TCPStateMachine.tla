-------------------------- MODULE TCPStateMachine --------------------------
(***************************************************************************)
(* The states of the endpoints of a connection, by the names that          *)
(* tcp_helpers/tcp_state.hh:38-51 gives them, and which of them may follow *)
(* which: the diagram of RFC 793, where a step may take several of its     *)
(* arrows, because one segment can acknowledge what was sent, let the      *)
(* waiting FIN out and end the peer's stream.                              *)
(***************************************************************************)

CONSTANT Endpoint
VARIABLE state

Followers ==
  [LISTEN      |-> {"SYN_SENT", "SYN_RCVD", "RESET"},
   SYN_SENT    |-> {"SYN_RCVD", "ESTABLISHED", "RESET"},
   SYN_RCVD    |-> {"ESTABLISHED", "FIN_WAIT_1", "CLOSING", "RESET"},
   ESTABLISHED |-> {"FIN_WAIT_1", "CLOSE_WAIT", "CLOSING", "RESET"},
   FIN_WAIT_1  |-> {"FIN_WAIT_2", "CLOSING", "TIME_WAIT", "RESET"},
   FIN_WAIT_2  |-> {"TIME_WAIT", "RESET"},
   CLOSE_WAIT  |-> {"LAST_ACK", "RESET"},
   CLOSING     |-> {"TIME_WAIT", "RESET"},
   LAST_ACK    |-> {"CLOSED", "RESET"},
   TIME_WAIT   |-> {"CLOSED", "RESET"},
   CLOSED      |-> {},
   RESET       |-> {}]


Init == state = [e \in Endpoint |-> "LISTEN"]
Next ==
  \E from \in {state}, to \in {state'} :
    \A e \in Endpoint : to[e] = from[e] \/ to[e] \in Followers[from[e]]

Spec == Init /\ [][Next]_state

=============================================================================
