--------------------------- MODULE MCObjectGraph ---------------------------
(***************************************************************************)
(* Instances of ObjectGraph for TLC: one VLAN link on the NIC, two         *)
(* gateways, one or two destinations, two hardware addresses.              *)
(***************************************************************************)
EXTENDS ObjectGraph, TLC

MCLinkVlan == [l \in Ifindexes |-> 10]

\* Destination 1 is 198.51.100.0/24; destination 2 is the default route
\* 0.0.0.0/0, whose zero mask the kernel does not report back, so that the
\* decoder sees a default goto (tc_rule_detect's ROUTE_DFT_GOTO case).
MCDstPrefix ==
    [d \in Dsts |-> IF d = 2 THEN BuildAfAddr("INET", <<0, 0, 0, 0>>, 0)
                             ELSE BuildAfAddr("INET", <<198, 51, 100, 0>>, 24)]

CapOf(n, t, r, i, c) == [neigh |-> n, target |-> t, route |-> r, rule |-> i, chain |-> c]

\* Enough slots for every object the runs create: chain numbers are never
\* given back, a MAC change re-requests FORWARD rules while the old ones
\* are still queued, and a lost neighbour notification gives each route an
\* orphan neighbour.  Leaving a pool ends the process ("bound").
MCCap == CapOf(4, 4, 2, 9, 8)

LimitOf(l, n, r, lose) == [link |-> l, neigh |-> n, route |-> r, lose |-> lose]

\* The link comes and may change its address once; two neighbour events
\* (two gateways appear, or one appears and changes its address); two
\* routes come.  No notification is lost: a lost one can leave a rule
\* PENDING for ever (the early return of obj_rule_update_state on QUEUED).
LimitConverge == LimitOf(2, 2, 2, 0)

\* Two events of each kind, so that each change (a link or neighbour
\* deleted, a route moved or deleted) can follow an addition.
LimitSafety == LimitOf(2, 2, 2, 0)

\* A link, two neighbour events and two route events: enough for each of
\* a single kernel change after two routes exist.
LimitChange == LimitOf(1, 2, 2, 0)

\* Kernel changes beyond additions.  A route through an unresolved gateway
\* makes a new orphan neighbour on every scan (run orphan_neigh), so a run
\* that allows one reaches the end of a pool, where the process stops.
AllowNone == {}

AllowAll == Changes

AllowNeighDel == {"neighdel"}

AllowRouteDel == {"routedel"}

AllowUnresolved == {"unresolved"}
=============================================================================
