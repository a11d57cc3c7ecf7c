---------------------------- MODULE FindAvailable ----------------------------
(***************************************************************************)
(* obj_rule_find_available_prio (src/src/obj_rule.c) as a pure operator    *)
(* over the set of priorities the chain's rules occupy, with the width of  *)
(* its uint16_t candidate as a constant, and filter_find_available_chain_no *)
(* (src/src/nl_filter.c), the same walk over chain numbers.                *)
(***************************************************************************)
EXTENDS Integers, FiniteSets, SequencesExt

CONSTANT PrioBits   \* width of the uint16_t priority, scaled down

PrioMod == 2^PrioBits

\* The in-order walk of a tree of distinct numbers (rb_first, rb_next):
\* the i-th element has i - 1 smaller ones.
InOrder(S) == [i \in 1..Cardinality(S) |->
                  CHOOSE x \in S : Cardinality({y \in S : y < x}) = i - 1]

\* Mutant: a candidate kept in a wider integer, so it never wraps.
U16Wide(n) == n

\* Assignment to a uint16_t (scaled to PrioBits).
U16(n) == n % PrioMod

(***************************************************************************)
(* The loop of obj_rule_find_available_prio over the sorted priorities of  *)
(* the chain (rules of other chains are skipped by its continue/break).    *)
(***************************************************************************)
\* Mutant: the loop without the `r->prio == ret` test, which skips a run
\* of consecutive occupied priorities.
RECURSIVE FindPrioLoopNoRun(_, _, _)
FindPrioLoopNoRun(s, ret, min) ==
    IF s = <<>> THEN ret
    ELSE IF ret = 0 /\ Head(s) > min THEN ret
    ELSE IF ret < min THEN FindPrioLoopNoRun(Tail(s), U16(Head(s) + 1), min)
    ELSE ret

RECURSIVE FindPrioLoop(_, _, _)
FindPrioLoop(s, ret, min) ==
    IF s = <<>> THEN ret
    ELSE IF ret = 0 /\ Head(s) > min THEN ret
    ELSE IF Head(s) = ret \/ ret < min
         THEN FindPrioLoop(Tail(s), U16(Head(s) + 1), min)
    ELSE ret

FindAvailablePrio(occ, min) ==
    LET ret == FindPrioLoop(InOrder(occ), 0, min)
    IN  IF ret < min THEN min ELSE ret

(***************************************************************************)
(* filter_find_available_chain_no (src/src/nl_filter.c) over the sorted    *)
(* chain numbers of chain_tree.  The kernel refuses chain indexes above    *)
(* 2^28 - 1, so `ch->chain_no + 1` never wraps and is not reduced.         *)
(***************************************************************************)
\* Mutant: the loop without the `ch->chain_no == ret` test, so it stops
\* at the first chain >= min whatever the candidate.
RECURSIVE FindChainLoopNoRun(_, _, _)
FindChainLoopNoRun(s, ret, min) ==
    IF s = <<>> THEN ret
    ELSE IF ret < min THEN FindChainLoopNoRun(Tail(s), Head(s) + 1, min)
    ELSE ret

RECURSIVE FindChainLoop(_, _, _)
FindChainLoop(s, ret, min) ==
    IF s = <<>> THEN ret
    ELSE IF Head(s) = ret \/ ret < min
         THEN FindChainLoop(Tail(s), Head(s) + 1, min)
    ELSE ret

\* The walk over chain_tree in its rb_first/rb_next order.
FindChainWalk(s, min) ==
    LET ret == FindChainLoop(s, 0, min)
    IN  IF ret < min THEN min ELSE ret

\* The same over a tree whose order is the numeric one.
FindAvailableChainNo(chains, min) == FindChainWalk(InOrder(chains), min)
=============================================================================
