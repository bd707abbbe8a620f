----------------------------- MODULE RouteTable -----------------------------
(***************************************************************************)
(* The routing table of the router and the NAT, Lab 6, 02-router/rtable.h, *)
(* as it is loaded from the kernel, and longest_prefix_match(),            *)
(* ip_base.c:30-47.                                                        *)
(***************************************************************************)
EXTENDS Integers, SequencesExt

CONSTANTS Width,    \* the bits of an address: 32
          Routes    \* rtable: networks, next hops and the interface's address

Address == 0 .. 2^Width - 1

\* The length of a route's mask is 0 when the kernel gives no destination:
\* the default route.  A next hop of 0 is a network the interface is on.
Route == [dest : Address, len : 0 .. Width, gw : Address, own : Address]

ASSUME RoutesAssumption == Width \in Nat /\ Routes \in Seq(Route)

\* An address under a mask of that length.
Masked(a, len) == a \div 2^(Width - len)

Covers(r, a) == Masked(r.dest, r.len) = Masked(a, r.len)

\* A wrong variant that the runs tell apart: the last route that fits.
BetterLast(r, longest, a) == r.len > 0 /\ Covers(r, a)

\* The loop's condition.  The mask it compares with starts at 0.
Better(r, longest, a) == r.len > longest /\ Covers(r, a)

\* longest_prefix_match(): the place of a route in the table, 0 for NULL.
LongestPrefixMatch ==
  [a \in Address |->
     FoldLeftDomain(LAMBDA best, i :
         IF Better(Routes[i], IF best = 0 THEN 0 ELSE Routes[best].len, a) THEN i ELSE best,
       0, Routes)]

=============================================================================
