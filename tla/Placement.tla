------------------------------ MODULE Placement ------------------------------
(***************************************************************************)
(* Priority placement inside one tc chain.                                 *)
(*                                                                         *)
(* FindAvailablePrio (module FindAvailable) translates                     *)
(* obj_rule_find_available_prio: an in-order walk of the rules of the      *)
(* chain that keeps a candidate `ret` in a uint16_t.  The scheduler uses   *)
(* it for every ROUTE_GOTO rule (minimum 100) and for the onload prefixes  *)
(* (a configured base), so over the life of the process a chain sees a   *)
(* stream of placements (obj_rule_prime_request) and of frees              *)
(* (obj_rule_reap).  This module models that stream for one chain, and    *)
(* starts where main does: options_parse loads the -P prefix file         *)
(* (OnloadFile), sched_init places the static rules and the traps of the  *)
(* loaded prefixes.  It also                                               *)
(* checks the chain-number walk of filter_find_available_chain_no over    *)
(* every chain tree of small chain numbers.  chain_tree is an rbtree      *)
(* ordered by u32cmp; the model keeps its in-order sequence, which is what *)
(* the rb_first/rb_next walk reads.                                        *)
(*                                                                         *)
(* The width of the priority is a constant: 16 in the program, a few bits  *)
(* here so that the wrap-around of `ret = r->prio + 1` is within reach.    *)
(***************************************************************************)
EXTENDS Integers, FiniteSets, Sequences, SequencesExt, FindAvailable, OnloadFile

CONSTANTS
    MinPrio,    \* min_prio passed by the scheduler (100 in sched_basic_place)
    Fixed,      \* static priorities requested before the traps: the TTL check
    OnloadBase, \* base_prio of the onload traps (10 in sched_basic)
    MaxRules,   \* bound: rules present in the chain at once
    DumpChains, \* chain numbers the kernel's chain dump may report
    MaxChains,  \* bound: chains in chain_tree
    ChainBits   \* width of the uint32_t chain number, scaled down

ASSUME /\ PrioBits \in Nat \ {0}
       /\ MinPrio \in 1..(2^PrioBits - 1)
       /\ Fixed \subseteq 1..(MinPrio - 1)
       /\ OnloadBase \in 1..(MinPrio - 1)
       /\ MaxRules \in Nat \ {0}
       /\ MaxChains \in Nat /\ ChainBits \in Nat \ {0}
       \* the kernel refuses chain indexes above 2^28 - 1, far below 2^31
       /\ DumpChains \subseteq Nat
       /\ \A c \in DumpChains \cup {5} : c + MaxChains < 2^(ChainBits - 1)

VARIABLES
    occ,     \* priorities of the rules in the chain's positional tree
    placed,  \* the priority the last placement returned (0: none yet)
    tree,    \* chain_tree (nl_filter.c) as its in-order sequence
    chosen,  \* the chain the last filter_find_available_chain_no returned
    static,  \* priorities of the static rules (never uninstalled)
    started  \* sched_init has run

vars == <<occ, placed, tree, chosen, static, started, given, chunks, lists, reading, lret>>

\* sched_basic_place asks for chains from 5 up.
ForwardMin == 5

U32Mod == 2^ChainBits

\* Mutant: the difference returned unsigned, never negative.
U32CmpUnsigned(a, b) == (a - b) % U32Mod

\* u32cmp: ((int) a) - b is computed modulo 2^32 and read back as an int.
U32Cmp(a, b) ==
    LET d == (a - b) % U32Mod
    IN  IF d >= U32Mod \div 2 THEN d - U32Mod ELSE d

\* chain_lookup: the descent ends at a node u32cmp calls equal.
ChainLookup(s, c) == \E i \in DOMAIN s : U32Cmp(c, s[i]) = 0

\* chain_insert: the descent goes right past every node u32cmp ranks
\* below the new one, so that is where the node lands in the in-order
\* sequence (the rebalancing keeps the in-order sequence).
ChainInsert(s, c) ==
    InsertAt(s, Cardinality({i \in DOMAIN s : U32Cmp(c, s[i]) > 0}) + 1, c)

\* filter_got_chain: a chain chain_lookup does not find is allocated and
\* inserted (the AN(ret == 1) holds: lookup and insert agree).
GotChainTree(s, c) == IF ChainLookup(s, c) THEN s ELSE ChainInsert(s, c)

TypeOK ==
    /\ occ \subseteq 0..(PrioMod - 1)
    /\ placed \in 0..(PrioMod - 1)
    /\ tree \in Seq(0..(U32Mod - 1))
    /\ chosen \in Nat
    /\ static \subseteq occ /\ started \in BOOLEAN
    /\ reading \in BOOLEAN /\ lret \in {0, -EINVAL}

\* main: options_parse loads the -P file before sched_init runs.
Init ==
    /\ LoadInit
    /\ occ = {}
    /\ placed = 0
    /\ tree = <<>>
    /\ chosen = 0
    /\ static = {}
    /\ started = FALSE

\* sched_basic_place_prefix_list: each prefix of the list, in order, gets
\* obj_rule_find_available_prio(chain, base_prio) past the rules placed
\* before it (all prefixes are of the modelled chain's family).
PlacePrefixList(o, pfxs, base) ==
    FoldLeft(LAMBDA acc, p : acc \cup {FindAvailablePrio(acc, base)}, o, pfxs)

\* sched_init -> sched_basic_initial_requests: the TTL check, then the
\* traps of the "onload" list from OnloadBase.
Start ==
    /\ ~reading /\ lret = 0 /\ ~started
    /\ occ' = PlacePrefixList(Fixed, Onload(lists), OnloadBase)
    /\ static' = occ'
    /\ started' = TRUE
    /\ UNCHANGED <<placed, tree, chosen>>
    /\ UNCHANGED loadVars

\* options_parse: onload_load_prefixes returned -EINVAL, so bail() prints
\* the help and exits with EXIT_FAILURE.  Nothing happens after.
Bail ==
    /\ ~reading /\ lret = -EINVAL
    /\ UNCHANGED vars

\* sched_basic_place / obj_rule_prime_request: a new rule takes the
\* priority the walk returns and is inserted in the positional tree
\* (obj_rule_pos_insert does nothing if that priority is already taken).
Place ==
    /\ Cardinality(occ \ static) < MaxRules
    /\ placed' = FindAvailablePrio(occ, MinPrio)
    /\ occ' = occ \cup {placed'}
    /\ UNCHANGED <<tree, chosen, static, started>>
    /\ UNCHANGED loadVars

\* obj_rule_reap: a rule that is not static leaves the positional tree.
Free ==
    /\ \E q \in occ \ static : occ' = occ \ {q}
    /\ UNCHANGED <<placed, tree, chosen, static, started>>
    /\ UNCHANGED loadVars

\* filter_got_chain: a chain decode_chain hands over is inserted into
\* chain_tree unless it is there already.
GotChain(c) ==
    /\ Len(tree) < MaxChains
    /\ tree' = GotChainTree(tree, c)
    /\ UNCHANGED <<occ, placed, chosen, static, started>>
    /\ UNCHANGED loadVars

\* The tcm_ifindex and tcm_parent of a chain report: this NIC or another
\* interface; the clsact (or ingress) qdisc's handle TC_H_MAJ(TC_H_INGRESS)
\* or another parent.  A report without TCA_CHAIN is NoChain.
Ifaces == {"ifidx", "other"}
Parents == {"ffff:", "other"}
NoChain == -1

\* decode_chain, for RTM_NEWCHAIN and RTM_DELCHAIN alike: a report for
\* another interface or another parent is dropped; otherwise the chain,
\* 0 when TCA_CHAIN is absent, goes to filter_got_chain.
DecodeChain(ifx, parent, c) ==
    IF ifx = "ifidx" /\ parent = "ffff:"
    THEN GotChain(IF c = NoChain THEN 0 ELSE c)
    ELSE UNCHANGED vars

\* filter_find_available_chain_no(5), for a FORWARD rule: the walk, then
\* filter_reserve_chain, which inserts the chain (filter_got_chain) and
\* marks it RESERVED.
ReserveChain ==
    /\ Len(tree) < MaxChains
    /\ chosen' = FindChainWalk(tree, ForwardMin)
    /\ tree' = GotChainTree(tree, chosen')
    /\ UNCHANGED <<occ, placed, static, started>>
    /\ UNCHANGED loadVars

Next ==
    \/ LoadStep /\ UNCHANGED <<occ, placed, tree, chosen, static, started>>
    \/ Start
    \/ Bail
    \/ started /\ (Place \/ Free \/ (\E i \in Ifaces, p \in Parents, c \in DumpChains \cup {NoChain} :
                                        DecodeChain(i, p, c)) \/ ReserveChain)

Spec == Init /\ [][Next]_vars

-----------------------------------------------------------------------------
(* Properties *)

\* Every placement returns a priority that no rule of the chain holds, so
\* obj_rule_pos_insert never silently fails and the NEWTFILTER (NLM_F_EXCL)
\* is not refused with EEXIST.  The uint16_t `ret = r->prio + 1` wraps to 0
\* when the highest priority is taken, after which `ret = min_prio` is
\* returned whether or not min_prio is free.
PlacementFree ==
    [][Place => placed' \notin occ /\ placed' >= MinPrio]_vars

\* filter_find_available_chain_no(5) returns a chain >= 5 that is not in
\* chain_tree, whichever chains the chain dump reported before, so a new
\* FORWARD rule never lands in a chain in use.
ChainNoFree ==
    [][ReserveChain => chosen' >= ForwardMin /\ chosen' \notin ToSet(tree)]_vars

\* The rb_first/rb_next walk of filter_find_available_chain_no meets the
\* chains in increasing numeric order, with none twice, whatever order the
\* chain dump and the reservations inserted them in: u32cmp, a signed
\* difference of unsigned numbers, orders every pair of chain numbers the
\* kernel allows the way the walk's `ch->chain_no == ret` test assumes.
ChainTreeOrdered ==
    \A i \in 1..(Len(tree) - 1) : tree[i] < tree[i + 1]
=============================================================================
