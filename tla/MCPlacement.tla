---------------------------- MODULE MCPlacement ----------------------------
(* One ROUTE_GOTO chain: the TTL check at priority 1, the onload traps from *)
(* base 2 (10 scaled), min_prio scaled from 100 to 4, and 4-bit priorities *)
(* so that the highest can be taken.  The -P file is any file of up to 5   *)
(* characters whose lines fit a 5-octet buffer.  The chain dump may report *)
(* the static rules' chains 0 and 1 and chains from 5 up, with gaps,       *)
(* before and between reservations.                                        *)
EXTENDS Placement

MCFixed == {1}
=============================================================================
