------------------------------ MODULE MCRouter ------------------------------
(* A router with two networks of its own, 4-7 and 8-9, and two gateways on *)
(* them for more: 5 for 12-15 and 8 for 12-13 and 14, and a default route. *)
EXTENDS Router

TheRoutes == <<[dest |-> 0, len |-> 0, gw |-> 5, own |-> 4],
               [dest |-> 12, len |-> 3, gw |-> 8, own |-> 9],
               [dest |-> 4, len |-> 2, gw |-> 0, own |-> 4],
               [dest |-> 12, len |-> 2, gw |-> 5, own |-> 4],
               [dest |-> 8, len |-> 3, gw |-> 0, own |-> 9],
               [dest |-> 14, len |-> 4, gw |-> 6, own |-> 4]>>

Plain(src, dst, ttl) == [src |-> src, dst |-> dst, ttl |-> ttl, echo |-> FALSE]

\* To each gateway, from a network of its own and from behind a gateway, and to
\* a network of its own, an echo request, an error to a gateway, and one that
\* can neither be forwarded nor answered.
TheHeaders == {Plain(7, 12, 2), Plain(12, 15, 2), Plain(7, 14, 2), Plain(7, 8, 2),
               [Plain(7, 4, 2) EXCEPT !.echo = TRUE], Plain(12, 7, 1), Plain(2, 2, 2)}

\* An error to a gateway, a packet that is forwarded without one, and a packet from
\* behind a gateway for another.
ErrorsAndForwarded == {Plain(12, 7, 1), Plain(7, 8, 2), Plain(12, 14, 2)}

=============================================================================
