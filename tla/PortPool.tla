---- MODULE PortPool ----
(***************************************************************************)
(* What the NAT promises about the external ports it hands out: a port     *)
(* stands for one flow at a time, a flow keeps the port it was given until *)
(* the NAT forgets the flow, and only then may another flow have the port. *)
(* A flow is named by what the table is searched with: the bucket of the   *)
(* remote address and the inner endpoint.                                  *)
(***************************************************************************)
CONSTANTS Pool,   \* the external ports that are handed out
          Flow,   \* the flows
          None    \* no flow

VARIABLE holder   \* holder[p]: the flow that port p stands for

Init == holder = [p \in Pool |-> None]

\* A flow that has no port gets one that nobody holds.
Assign(p, f) ==
    /\ holder[p] = None
    /\ \A q \in Pool : holder[q] # f
    /\ holder' = [holder EXCEPT ![p] = f]

\* The NAT forgets some flows (a sweep), or all of them (a restart).
Forget(gone) ==
    holder' = [p \in Pool |-> IF p \in gone THEN None ELSE holder[p]]

Next ==
    \/ \E p \in Pool, f \in Flow : Assign(p, f)
    \/ \E gone \in SUBSET Pool : Forget(gone)

Spec == Init /\ [][Next]_holder
====
