----------------------------- MODULE ObjectGraph -----------------------------
(***************************************************************************)
(* The object graph of flower-route: links (obj_link.c), neighbours         *)
(* (obj_neigh.c), targets (obj_target.c) and routes (obj_route.c), fed by  *)
(* the decoders of RTM_*LINK, RTM_*NEIGH and RTM_*ROUTE messages           *)
(* (nl_decode.c), together with the rules they request (obj_rule.c), the   *)
(* chain tree FORWARD rules are placed in (nl_filter.c), and the kernel's  *)
(* routing state and tc filters.                                           *)
(*                                                                         *)
(* Every object is a slot of a pool: a record with the obj_core fields     *)
(* (refcnt, weak_refcnt, state) or Free once obj_free has run; a pointer   *)
(* is a slot number.  As in RuleEngine, a handler is an operator from a    *)
(* record `w` of the state to the record after the call.                   *)
(*                                                                         *)
(* The rule engine is reduced to what the graph sees of it, with the pin   *)
(* removed (pin = 3): obj_rule_update_state queues an install or an        *)
(* uninstall, the FIFO request queue sends them one at a time, and each    *)
(* send is followed by post_install's unref and then by the monitor's      *)
(* notification (RuleEngine models the races between those two).          *)
(*                                                                         *)
(* Each rule sent is encoded and each filter reported is decoded by the    *)
(* codec of TcCodec (tc_encode.c, tc_decode.c), so that what the graph     *)
(* reads back is what the kernel holds, not the rule that was sent.        *)
(***************************************************************************)
EXTENDS Integers, Sequences, FiniteSets, SequencesExt, Bitwise, FindAvailable, TcCodec

CONSTANTS
    Ifindexes,   \* interface indexes of the VLAN links on the NIC
    LinkVlan,    \* [Ifindexes -> Nat]: the VLAN id of each link (0: none)
    Gateways,    \* next-hop addresses
    Dsts,        \* route destinations
    DstPrefix,   \* [Dsts -> AfAddrs]: the IPv4 prefix of each destination
    Macs,        \* non-zero hardware addresses; 0 is the all-zero one
    Cap,         \* [Pools -> Nat]: slots of each pool, and chains (bound)
    Limit,       \* [EnvKinds -> Nat]: bound on each environment event
    Allow,       \* the kinds of kernel change the environment makes
    Free

Pools == {"neigh", "target", "route", "rule", "chain"}
EnvKinds == {"link", "neigh", "route", "lose"}

\* Kernel changes beyond adding links, neighbours and routes and changing
\* hardware addresses: a neighbour without a hardware address (FAILED),
\* a neighbour or link deleted, a route moved to another gateway or
\* deleted, a route through a gateway with no neighbour entry.
Changes == {"mac0", "neighdel", "linkdel", "regateway", "routedel", "unresolved"}

\* sched_basic_place: a FORWARD rule gets priority 1 in a chain >= 5; a
\* ROUTE_GOTO rule goes in the address family's chain (1 for IPv4) at a
\* priority >= 100, here scaled to 2 (the TTL check holds priority 1).
ForwardMinChain == 5
GotoChain == 1
GotoMinPrio == 2

NeighIds == 1..Cap["neigh"]
TargetIds == 1..Cap["target"]
RouteIds == 1..Cap["route"]
RuleIds == 1..Cap["rule"]
ChainNos == {GotoChain} \cup ForwardMinChain..(ForwardMinChain + Cap["chain"] - 1)
PrioNos == 1..(GotoMinPrio + Cap["rule"])
Positions == ChainNos \X PrioNos

ASSUME /\ Cap \in [Pools -> Nat \ {0}]
       /\ Limit \in [EnvKinds -> Nat]
       /\ LinkVlan \in [Ifindexes -> Nat]
       /\ Allow \subseteq Changes
       /\ Gateways \cup Dsts \subseteq Nat
       /\ 0 \notin Macs
       /\ DstPrefix \in [Dsts -> AfAddrs]
       /\ GotoMinPrio + Cap["rule"] < PrioMod

\* struct tc_rule (TcCodec): the graph builds FORWARD rules
\* (obj_target_prepare_rule) and ROUTE_GOTO rules (obj_route_prepare_rule);
\* the decoder may report any rule.
Descs == TcRules

States == {"PRESENT", "INSTALLED", "ZOMBIE"}
RuleStates == {"NEW", "ALIEN", "WANT", "QUEUED", "PENDING", "OK", "ZOMBIE"}

Link == [ref: Nat, weak: Nat, st: States, vlan: Nat, mac: Macs \cup {0}]
\* `infdb`: in the link's fdb tree.  A neighbour made by
\* obj_neigh_netlink_get holds a strong link reference and never is.
Neigh == [ref: Nat, weak: Nat, st: States, link: Ifindexes \cup {None},
          infdb: BOOLEAN, addr: Gateways, mac: Macs \cup {0},
          targets: Seq(TargetIds)]
Target == [ref: Nat, weak: Nat, st: States, nh: NeighIds,
           routes: Seq(RouteIds), rule: RuleIds \cup {None}]
Route == [ref: Nat, weak: Nat, st: States, dst: Dsts,
          target: TargetIds \cup {None}, rule: RuleIds \cup {None},
          trule: RuleIds \cup {None}]
\* A rule's obj state is INSTALLED exactly when `have` is set; `laf`:
\* in the lost-and-found tree.  Every rule is in the positional tree.
Rule == [ref: Nat, rst: RuleStates, want: Descs \cup {None},
         have: Descs \cup {None}, target: TargetIds \cup {None},
         chain: ChainNos, prio: PrioNos, laf: BOOLEAN]
\* The queue's items: a tc_action (desc None: an uninstall) and a dump of
\* the scan (a scan helper).
TcItems == [kind: {"tc"}, rid: RuleIds, pos: Positions, desc: Descs \cup {None}]
DumpItems == [kind: {"dump"}, what: {"filters", "links", "neighs", "routes"}]

Faults == {"abort", "uaf", "bound"}

VARIABLES
    link, neigh, target, route, rule,  \* the object pools
    chains,   \* chain numbers in chain_tree
    queue,    \* the request queue (nl_queue.c), head first
    kernel,   \* the kernel's filters, each as the rule whose NEWTFILTER made it
    klink,    \* the kernel's links: [Ifindexes -> mac or None]
    kneigh,   \* the kernel's neighbours: [Ifindexes \X Gateways -> mac or None]
    kroute,   \* the kernel's routes: [Dsts -> [ifx, gw] or None]
    faults,   \* failed assertions, uses of freed objects, bounds reached
    used      \* environment events so far

vars == <<link, neigh, target, route, rule, chains, queue, kernel,
          klink, kneigh, kroute, faults, used>>

world == [link |-> link, neigh |-> neigh, target |-> target, route |-> route,
          rule |-> rule, chains |-> chains, queue |-> queue, kernel |-> kernel,
          faults |-> faults]

\* Apply the result of a callback.  A result that left the model's pools
\* ("bound") or failed an assertion ("abort") ends the run of the process.
Commit(w) ==
    \E v \in {w} :
        /\ link' = v.link /\ neigh' = v.neigh /\ target' = v.target
        /\ route' = v.route /\ rule' = v.rule /\ chains' = v.chains
        /\ queue' = v.queue /\ kernel' = v.kernel /\ faults' = v.faults

-----------------------------------------------------------------------------
(* obj.h / obj.c: the reference counts common to every object *)

Fault(w, f) == [w EXCEPT !.faults = @ \cup {f}]

\* The process runs on: no assertion has failed, no pool bound was left.
Running(w) == w.faults \cap {"abort", "bound"} = {}

Live(w, k, i) == i # None /\ w[k][i] # Free

\* obj_ref: no effect on a zombie nobody holds weakly.
IncRef(w, k, i) ==
    IF ~Live(w, k, i) THEN Fault(w, "uaf")
    ELSE IF w[k][i].st = "ZOMBIE" /\ w[k][i].weak = 0 THEN w
    ELSE [w EXCEPT ![k][i].ref = @ + 1]

\* obj_unref: AN(c->refcnt > 0) unless a zombie already at 0.
DecRef(w, k, i) ==
    IF ~Live(w, k, i) THEN Fault(w, "uaf")
    ELSE IF w[k][i].st = "ZOMBIE" /\ w[k][i].ref = 0 THEN w
    ELSE IF w[k][i].ref = 0 THEN Fault(w, "abort")
    ELSE [w EXCEPT ![k][i].ref = @ - 1]

IncWeak(w, k, i) ==
    IF ~Live(w, k, i) THEN Fault(w, "uaf")
    ELSE IF w[k][i].st = "ZOMBIE" /\ w[k][i].weak = 0 THEN w
    ELSE [w EXCEPT ![k][i].weak = @ + 1]

DecWeak(w, k, i) ==
    IF ~Live(w, k, i) THEN Fault(w, "uaf")
    ELSE IF w[k][i].st = "ZOMBIE" /\ w[k][i].weak = 0 THEN w
    ELSE IF w[k][i].weak = 0 THEN Fault(w, "abort")
    ELSE [w EXCEPT ![k][i].weak = @ - 1]

\* obj_is_reapable in OBJ_MODE_NORMAL.
Reapable(o) == o.ref = 0 /\ o.st \notin {"ZOMBIE", "INSTALLED"}

SetSt(w, k, i, s) == [w EXCEPT ![k][i].st = s]

\* AN(o->obj.weak_refcnt == 0) before obj_free, then obj_free.
FreeObj(w, k, i) ==
    IF w[k][i].weak # 0 THEN Fault(w, "abort")
    ELSE [w EXCEPT ![k][i] = Free]

\* fr_malloc: the lowest free slot; a full pool leaves the model's bound.
NewId(w, k) ==
    IF \E i \in DOMAIN w[k] : w[k][i] = Free
    THEN CHOOSE i \in DOMAIN w[k] :
            w[k][i] = Free /\ \A j \in DOMAIN w[k] : w[k][j] = Free => i <= j
    ELSE None

Alloc(w, k, o) ==
    LET i == NewId(w, k) IN
    IF i = None THEN [w |-> Fault(w, "bound"), id |-> None]
    ELSE [w |-> [w EXCEPT ![k][i] = o], id |-> i]


-----------------------------------------------------------------------------
(***************************************************************************)
(* The handlers call one another recursively.  A handler that several     *)
(* others call is called through Call, one operator naming them all, so    *)
(* that every cycle of calls passes through it; Call is defined after the  *)
(* handlers.  Call(h, w, args) is h applied to the world w and the tuple   *)
(* of its other arguments.                                                 *)
(***************************************************************************)
RECURSIVE Call(_, _, _)

-----------------------------------------------------------------------------
(* obj_rule.c, as the graph uses it (the pin is removed) *)

RuleRef(w, i) ==
    IF ~Live(w, "rule", i) THEN Fault(w, "uaf")
    ELSE [w EXCEPT !.rule[i].ref = @ + 1]

RuleDecRef(w, i) ==
    IF ~Live(w, "rule", i) THEN Fault(w, "uaf")
    ELSE IF w.rule[i].ref = 0 THEN Fault(w, "abort")
    ELSE [w EXCEPT !.rule[i].ref = @ - 1]

\* obj_is_reapable for a rule: its obj state is INSTALLED while it has `have`.
RuleReapable(o) == o.ref = 0 /\ o.have = None

PosLookup(w, p) ==
    LET F == {i \in RuleIds : w.rule[i] # Free /\ <<w.rule[i].chain, w.rule[i].prio>> = p}
    IN  IF F = {} THEN None ELSE CHOOSE i \in F : TRUE

LafLookup(w, d) ==
    LET F == {i \in RuleIds : w.rule[i] # Free /\ w.rule[i].laf /\ w.rule[i].have = d}
    IN  IF F = {} THEN None ELSE CHOOSE i \in F : TRUE

\* obj_rule_laf_insert: not inserted when the tree holds an equal `have`.
LafInsert(w, i) ==
    IF LafLookup(w, w.rule[i].have) # None THEN w
    ELSE [w EXCEPT !.rule[i].laf = TRUE]

RuleUnsetTarget(w, i) ==
    IF w.rule[i].target = None THEN w
    ELSE [DecWeak(w, "target", w.rule[i].target) EXCEPT !.rule[i].target = None]

\* obj_rule_reap: the chain it was placed in stays reserved.
RuleReap(w, i) ==
    IF w.rule[i].ref # 0 THEN Fault(w, "abort")
    ELSE [RuleUnsetTarget(w, i) EXCEPT !.rule[i] = Free]

\* Mutant: the queued action does not take its own reference.
QueueActionNoRef(w, i, d) ==
    [w EXCEPT !.rule[i].rst = "QUEUED",
              !.queue = Append(@, [kind |-> "tc", rid |-> i, desc |-> d,
                                   pos |-> <<w.rule[i].chain, w.rule[i].prio>>])]

\* obj_rule_queue_install / _uninstall: tc_action_install with a reference.
QueueAction(w, i, d) ==
    RuleRef([w EXCEPT !.rule[i].rst = "QUEUED",
                      !.queue = Append(@, [kind |-> "tc", rid |-> i, desc |-> d,
                                           pos |-> <<w.rule[i].chain, w.rule[i].prio>>])], i)

QueueInstall(w, i) == QueueAction(w, i, w.rule[i].want)
QueueUninstall(w, i) == QueueAction(w, i, None)

SetRst(w, i, s) == [w EXCEPT !.rule[i].rst = s]

\* obj_rule_update_state with the pin removed.
UpdateState(w, i) ==
    LET r == w.rule[i] IN
    IF r.rst = "QUEUED" THEN w
    ELSE IF r.want = None /\ r.have = None
         THEN IF r.rst # "NEW" THEN SetRst(w, i, "ZOMBIE") ELSE w
    ELSE IF r.want = None THEN QueueUninstall(SetRst(w, i, "ALIEN"), i)
    ELSE IF r.have = None THEN QueueInstall(SetRst(w, i, "WANT"), i)
    ELSE IF r.want = r.have
         THEN IF r.target # None
              THEN Call("NotifyRoutes", SetRst(w, i, "OK"), <<r.target>>)
              ELSE SetRst(w, i, "OK")
    ELSE QueueUninstall(SetRst(w, i, "ALIEN"), i)

RuleUninstall(w, i) == Call("UpdateState", [w EXCEPT !.rule[i].want = None], <<i>>)

\* obj_rule_unref: a dynamic rule nobody holds is uninstalled ...
UninstallUnheld(w, i) ==
    LET r == w.rule[i] IN
    IF r.ref = 0 /\ r.want # None /\ r.have # None
    THEN Call("RuleUninstall", w, <<i>>) ELSE w

\* ... then reaped if reapable.
RuleConsiderReaping(w, i) == IF RuleReapable(w.rule[i]) THEN RuleReap(w, i) ELSE w

RuleUnref(w, i) ==
    LET w1 == RuleDecRef(w, i) IN
    IF ~Live(w1, "rule", i) THEN w1
    ELSE RuleConsiderReaping(UninstallUnheld(w1, i), i)

\* obj_rule_delete: the kernel no longer has the rule.
RuleDelete(w, i) ==
    LET w1 == [RuleRef(w, i) EXCEPT !.rule[i].have = None]
        w2 == IF w1.rule[i].want # None THEN Call("UpdateState", w1, <<i>>) ELSE w1
    IN  Call("RuleUnref", w2, <<i>>)

\* Mutant: a FORWARD rule left at priority 0.
PlaceFwdPrio0(w, d) ==
    IF d.type = "FORWARD"
    THEN LET c == FindAvailableChainNo(w.chains, ForwardMinChain) IN
         IF c \notin ChainNos THEN [w |-> Fault(w, "bound"), pos |-> None]
         ELSE [w |-> [w EXCEPT !.chains = @ \cup {c}], pos |-> <<c, 0>>]
    ELSE LET occ == {1} \cup {w.rule[i].prio : i \in {j \in RuleIds :
                        w.rule[j] # Free /\ w.rule[j].chain = GotoChain}}
         IN  [w |-> w, pos |-> <<GotoChain, FindAvailablePrio(occ, GotoMinPrio)>>]

\* Mutant: the chain found is not reserved (filter_reserve_chain dropped).
PlaceFwdNoReserve(w, d) ==
    IF d.type = "FORWARD"
    THEN LET c == FindAvailableChainNo(w.chains, ForwardMinChain) IN
         IF c \notin ChainNos THEN [w |-> Fault(w, "bound"), pos |-> None]
         ELSE [w |-> w, pos |-> <<c, 1>>]
    ELSE LET occ == {1} \cup {w.rule[i].prio : i \in {j \in RuleIds :
                        w.rule[j] # Free /\ w.rule[j].chain = GotoChain}}
         IN  [w |-> w, pos |-> <<GotoChain, FindAvailablePrio(occ, GotoMinPrio)>>]

\* sched_basic_place: FORWARD rules in filter_find_available_chain_no(5),
\* which reserves the chain; ROUTE_GOTO rules at
\* obj_rule_find_available_prio(chain, 100) (the TTL check holds prio 1).
Place(w, d) ==
    IF d.type = "FORWARD"
    THEN LET c == FindAvailableChainNo(w.chains, ForwardMinChain) IN
         IF c \notin ChainNos THEN [w |-> Fault(w, "bound"), pos |-> None]
         ELSE [w |-> [w EXCEPT !.chains = @ \cup {c}], pos |-> <<c, 1>>]
    ELSE LET occ == {1} \cup {w.rule[i].prio : i \in {j \in RuleIds :
                        w.rule[j] # Free /\ w.rule[j].chain = GotoChain}}
         IN  [w |-> w, pos |-> <<GotoChain, FindAvailablePrio(occ, GotoMinPrio)>>]

\* obj_rule_prime_request: adopt the lost-and-found rule with this `have`
\* (two references), or place a new rule holding one.
PrimeRequest(w, d) ==
    LET a == LafLookup(w, d) IN
    IF a # None
    THEN IF w.rule[a].want # None THEN [w |-> Fault(w, "abort"), id |-> None]
         ELSE [w |-> RuleRef([RuleRef(w, a) EXCEPT !.rule[a].want = d,
                                                   !.rule[a].laf = FALSE], a),
               id |-> a]
    ELSE LET pl == Place(w, d)
             al == Alloc(pl.w, "rule", [ref |-> 1, rst |-> "NEW", want |-> d,
                                        have |-> None, target |-> None, laf |-> FALSE,
                                        chain |-> pl.pos[1], prio |-> pl.pos[2]])
         IN  IF pl.pos = None THEN [w |-> pl.w, id |-> None] ELSE al

\* obj_rule_request = prime_request + queue_request.
Request(w, d) ==
    LET a == PrimeRequest(w, d) IN
    IF a.id = None THEN a ELSE [w |-> Call("UpdateState", a.w, <<a.id>>), id |-> a.id]

\* obj_rule_netlink_found: a filter the kernel reports at position p.
NetlinkFound(w, type, p, d) ==
    LET r0 == PosLookup(w, p)
        x == LafLookup(w, d)
        r == IF r0 # None THEN r0
             ELSE IF x # None /\ <<w.rule[x].chain, w.rule[x].prio>> = p THEN x
             ELSE None
    IN
    IF type = "DEL" THEN IF r = None THEN w ELSE RuleDelete(w, r)
    ELSE IF r = None
    THEN LET a == Alloc(w, "rule", [ref |-> 0, rst |-> "NEW", want |-> None,
                                    have |-> d, target |-> None, laf |-> FALSE,
                                    chain |-> p[1], prio |-> p[2]])
         IN  IF a.id = None THEN a.w
             ELSE Call("UpdateState", LafInsert(a.w, a.id), <<a.id>>)
    ELSE IF w.rule[r].have # d
    THEN Call("UpdateState", [w EXCEPT !.rule[r].have = d], <<r>>)
    ELSE w


-----------------------------------------------------------------------------
(* obj_target.c and obj_route.c *)

\* obj_target_prepare_rule: the FORWARD rule of a target, or None when the
\* link has no VLAN or either hardware address is zero.
PrepareRule(w, t) ==
    LET n == w.target[t].nh
        l == w.neigh[n].link
    IN  IF l = None \/ w.link[l] = Free THEN None
        ELSE IF w.link[l].vlan = 0 \/ w.link[l].mac = 0 \/ w.neigh[n].mac = 0 THEN None
        ELSE ForwardRule(w.link[l].vlan, w.link[l].mac, w.neigh[n].mac, "INET")

\* r->rule = the rule obj_rule_request returned.
SetRouteRule(a, r) == [a.w EXCEPT !.route[r].rule = a.id]

\* obj_route_install, when the target's rule changed: the route holds the
\* new target rule and drops the old one.
SwapTargetRule(w, r, oldtr, tr) ==
    IF oldtr = tr THEN w
    ELSE [RuleRef(Call("RuleUnref", w, <<oldtr>>), tr) EXCEPT !.route[r].trule = tr]

\* obj_route_install: request the route's ROUTE_GOTO into the chain of its
\* target's rule, holding that rule as target_rule; a changed goto is
\* requested first and the old pair dropped after.
RouteInstall(w, r) ==
    LET t == w.route[r].target
        tr == w.target[t].rule
        d == GotoRule(DstPrefix[w.route[r].dst], w.rule[tr].chain)
        cur == w.route[r].rule
        oldtr == w.route[r].trule
    IN
    IF t = None \/ tr = None THEN Fault(w, "abort")
    ELSE IF w.rule[tr].rst # "OK" THEN Fault(w, "abort")
    ELSE IF cur = None
    THEN SetRouteRule(Call("Request", [RuleRef(w, tr) EXCEPT !.route[r].trule = tr],
                           <<d>>), r)
    ELSE IF w.rule[cur].want = None \/ w.rule[cur].want = d THEN w
    ELSE IF oldtr = None THEN Fault(w, "abort")
    ELSE LET w1 == SwapTargetRule(RuleRef(RuleRef(w, cur), oldtr), r, oldtr, tr)
             w2 == SetRouteRule(Call("Request", Call("RuleUnref", w1, <<cur>>), <<d>>), r)
         IN  Call("RuleUnref", Call("RuleUnref", w2, <<oldtr>>), <<cur>>)

\* Mutant: only the first route of the target is told.
NotifyRoutesFirst(w, t) ==
    LET i == w.target[t].rule
        rs == w.target[t].routes
    IN  IF i = None \/ w.rule[i].rst # "OK" \/ rs = <<>> THEN w
        ELSE IF w.route[Head(rs)].target # t THEN Fault(w, "abort")
        ELSE Call("RouteInstall", w, <<Head(rs)>>)

NotifyRoutes(w, t) ==
    LET i == w.target[t].rule IN
    IF i = None \/ w.rule[i].rst # "OK" THEN w
    ELSE FoldLeft(LAMBDA v, r : IF v.route[r].target # t THEN Fault(v, "abort")
                                ELSE Call("RouteInstall", v, <<r>>),
                  w, w.target[t].routes)

\* obj_target_set_rule: drop the target's rule, then request `d` for it,
\* or (d = None) notify the routes.
TargetDropRule(w, t) ==
    LET old == w.target[t].rule IN
    IF old = None THEN w
    ELSE [Call("RuleUnref", RuleUnsetTarget(w, old), <<old>>)
            EXCEPT !.target[t].rule = None]

\* t->rule = obj_rule_prime_request(tcr); obj_rule_set_target and
\* obj_rule_queue_request when a rule was returned.
TargetTakeRule(a, t) ==
    LET w2 == [a.w EXCEPT !.target[t].rule = a.id] IN
    IF a.id = None THEN w2
    ELSE IF w2.rule[a.id].target # None THEN Fault(w2, "abort")
    ELSE Call("UpdateState", [IncWeak(w2, "target", t) EXCEPT !.rule[a.id].target = t],
              <<a.id>>)

TargetSetRule(w, t, d) ==
    IF d = None THEN Call("NotifyRoutes", TargetDropRule(w, t), <<t>>)
    ELSE TargetTakeRule(PrimeRequest(TargetDropRule(w, t), d), t)

TargetInstall(w, t) ==
    LET d == PrepareRule(w, t) IN
    IF d = None THEN w ELSE Call("TargetSetRule", w, <<t, d>>)

\* obj_target_neigh_update: the neighbour or its link changed.
TargetNeighUpdate(w, t) ==
    LET d == PrepareRule(w, t)
        i == w.target[t].rule
    IN  IF d = None THEN Call("TargetSetRule", w, <<t, None>>)
        ELSE IF i # None /\ w.rule[i].want # None /\ w.rule[i].want # d
        THEN Call("TargetSetRule", w, <<t, d>>)
        ELSE w

\* Mutant: the target's list does not take a reference on the route.
LinkRouteNoRef(w, t, r) ==
    LET w1 == [IncWeak(w, "target", t) EXCEPT !.route[r].target = t]
        w2 == [w1 EXCEPT !.target[t].routes = Append(@, r)]
    IN  IF w.route[r].target # None THEN Fault(w, "abort")
        ELSE IF w2.target[t].rule = None THEN Call("TargetInstall", w2, <<t>>)
        ELSE w2

\* obj_target_link_route
LinkRoute(w, t, r) ==
    LET w1 == [IncWeak(w, "target", t) EXCEPT !.route[r].target = t]
        w2 == [IncRef(w1, "route", r) EXCEPT !.target[t].routes = Append(@, r)]
    IN  IF w.route[r].target # None THEN Fault(w, "abort")
        ELSE IF w2.target[t].rule = None THEN Call("TargetInstall", w2, <<t>>)
        ELSE w2

\* obj_target_unlink_route
UnlinkRoute(w, t, r) ==
    LET w1 == IncRef(IncRef(w, "target", t), "route", r)
        w2 == [DecWeak(w1, "target", t) EXCEPT !.route[r].target = None,
                                               !.target[t].routes = Remove(@, r)]
        w3 == IF r \in ToSet(w1.target[t].routes)
              THEN Call("RouteUnref", w2, <<r>>) ELSE w2
    IN  IF w1.route[r].target # t THEN Fault(w1, "abort")
        ELSE Call("TargetUnref", Call("RouteUnref", w3, <<r>>), <<t>>)

\* obj_route_reap: unlinked from its target, then its rule and its
\* target rule let go.
RouteReapUnlink(w, r) ==
    LET t == w.route[r].target IN
    IF t = None THEN w
    ELSE [Call("UnlinkRoute", w, <<t, r>>) EXCEPT !.route[r].target = None]

RouteReapRule(w, r) ==
    IF w.route[r].rule = None THEN w
    ELSE [Call("RuleUnref", w, <<w.route[r].rule>>) EXCEPT !.route[r].rule = None]

RouteReapTargetRule(w, r) ==
    IF w.route[r].trule = None THEN w
    ELSE [Call("RuleUnref", w, <<w.route[r].trule>>) EXCEPT !.route[r].trule = None]

RouteReap(w, r) ==
    IF w.route[r].ref # 0 THEN Fault(w, "abort")
    ELSE FreeObj(RouteReapTargetRule(RouteReapRule(
                     RouteReapUnlink(SetSt(w, "route", r, "ZOMBIE"), r), r), r), "route", r)

RouteUnref(w, r) ==
    LET w1 == DecRef(w, "route", r) IN
    IF Live(w1, "route", r) /\ Reapable(w1.route[r]) THEN RouteReap(w1, r) ELSE w1

\* obj_target_reap: the routes and the rule are let go; the routes still
\* point at the target, which holds AN(weak_refcnt == 0).
TargetReapRoutes(w, t) ==
    FoldLeft(LAMBDA v, r : Call("RouteUnref", v, <<r>>), w, w.target[t].routes)

TargetReapRule(w, t) ==
    IF w.target[t].rule = None THEN w
    ELSE [Call("RuleUnref", w, <<w.target[t].rule>>) EXCEPT !.target[t].rule = None]

TargetReap(w, t) ==
    LET w1 == SetSt(w, "target", t, "ZOMBIE")
        w2 == DecWeak(w1, "neigh", w1.target[t].nh)
    IN  IF w.target[t].ref # 0 THEN Fault(w1, "abort")
        ELSE FreeObj(TargetReapRule(TargetReapRoutes(w2, t), t), "target", t)

TargetUnref(w, t) ==
    LET w1 == DecRef(w, "target", t) IN
    IF Live(w1, "target", t) /\ Reapable(w1.target[t]) THEN TargetReap(w1, t) ELSE w1

\* obj_route_delete: the installed goto is uninstalled, the route leaves
\* its target, and the reference taken for the call is dropped.
RouteDeleteUninstall(w, r) ==
    LET i == w.route[r].rule IN
    IF i # None /\ w.rule[i].have # None THEN Call("RuleUninstall", w, <<i>>) ELSE w

RouteDeleteUnlink(w, r) ==
    IF w.route[r].target = None THEN w
    ELSE Call("UnlinkRoute", w, <<w.route[r].target, r>>)

RouteDelete(w, r) ==
    Call("RouteUnref", RouteDeleteUnlink(RouteDeleteUninstall(
                   SetSt(IncRef(w, "route", r), "route", r, "PRESENT"), r), r), <<r>>)

RouteLookup(w, d) ==
    LET F == {r \in RouteIds : w.route[r] # Free /\ w.route[r].dst = d}
    IN  IF F = {} THEN None ELSE CHOOSE r \in F : TRUE

\* obj_route_netlink_update, for route i: moved to target t, it leaves its
\* old target and joins t ...
RouteRelink(w, t, i) ==
    LET old == w.route[i].target IN
    IF old = t THEN w
    ELSE LinkRoute(IF old = None THEN w ELSE Call("UnlinkRoute", w, <<old, i>>), t, i)

\* ... it is installed when it has no goto and t's rule is OK ...
RouteInstallIfOk(w, t, i) ==
    LET tr == w.target[t].rule IN
    IF tr # None /\ w.rule[tr].rst = "OK" /\ w.route[i].rule = None
    THEN Call("RouteInstall", w, <<i>>) ELSE w

\* obj_route_new (which also puts the route in the route tree with
\* obj_route_insert) and obj_route_update: the route is INSTALLED.
RouteMarkInstalled(w, i) == SetSt(w, "route", i, "INSTALLED")

\* ... and a new or moved route is marked INSTALLED.
RouteUpdate(w, t, i, isnew) ==
    LET moved == w.route[i].target # t
        w2 == RouteInstallIfOk(RouteRelink(w, t, i), t, i)
    IN  IF isnew \/ moved THEN RouteMarkInstalled(w2, i) ELSE w2

\* obj_route_netlink_update: a route to d through target t.
RouteMsg(w, type, t, d) ==
    LET r == RouteLookup(w, d)
        a == Alloc(w, "route", [ref |-> 0, weak |-> 0, st |-> "PRESENT", dst |-> d,
                                target |-> None, rule |-> None, trule |-> None])
    IN
    IF type = "DEL" THEN IF r = None THEN w ELSE RouteDelete(w, r)
    ELSE IF r # None THEN RouteUpdate(w, t, r, FALSE)
    ELSE IF a.id = None THEN a.w
    ELSE RouteUpdate(a.w, t, a.id, TRUE)

\* obj_target_get_unipath: the neighbour's first target, or a new one.
GetUnipath(w, n) ==
    LET a == Alloc(w, "target", [ref |-> 0, weak |-> 0, st |-> "PRESENT", nh |-> n,
                                 routes |-> <<>>, rule |-> None])
    IN  IF w.neigh[n].targets # <<>> THEN [w |-> w, id |-> Head(w.neigh[n].targets)]
        ELSE IF a.id = None THEN a
        ELSE [w |-> IncRef([IncWeak(a.w, "neigh", n) EXCEPT
                               !.neigh[n].targets = <<a.id>> \o @], "target", a.id),
              id |-> a.id]


-----------------------------------------------------------------------------
(* obj_neigh.c and obj_link.c *)

\* obj_link_lookup: the link tree is keyed by ifindex.
LinkLookup(w, l) == w.link[l] # Free

\* obj_link_new: INSTALLED, and obj_link_insert puts it in the link tree.
LinkNew(w, l) == SetSt(w, "link", l, "INSTALLED")

\* lladdr_set counts a change when the address differs; a message without
\* the address (mac 0) zeroes it, a change unless it was zero already.
LladdrChanged(old, new) == old # new

FdbOf(w, l) ==
    SetToSortSeq({n \in NeighIds : w.neigh[n] # Free /\ w.neigh[n].infdb
                                   /\ w.neigh[n].link = l}, <)

FdbLookup(w, l, gw) ==
    LET F == {n \in ToSet(FdbOf(w, l)) : w.neigh[n].addr = gw}
    IN  IF F = {} THEN None ELSE CHOOSE n \in F : TRUE

\* obj_neigh_unlink: out of the fdb, and the link's weak reference dropped.
NeighUnlink(w, n) ==
    [DecWeak([w EXCEPT !.neigh[n].infdb = FALSE], "link", w.neigh[n].link)
        EXCEPT !.neigh[n].link = None]

\* obj_neigh_reap: the targets are let go, then the neighbour is unlinked.
NeighReapTargets(w, n) ==
    FoldLeft(LAMBDA v, t : Call("TargetUnref", v, <<t>>), w, w.neigh[n].targets)

NeighUnlinkIfLinked(w, n) == IF w.neigh[n].link # None THEN NeighUnlink(w, n) ELSE w

NeighReap(w, n) ==
    IF w.neigh[n].ref # 0 THEN Fault(w, "abort")
    ELSE FreeObj(NeighUnlinkIfLinked(NeighReapTargets(SetSt(w, "neigh", n, "ZOMBIE"), n), n),
                 "neigh", n)

NeighConsiderReaping(w, n) == IF Reapable(w.neigh[n]) THEN NeighReap(w, n) ELSE w

NeighDelete(w, n) ==
    Call("NeighConsiderReaping", SetSt(w, "neigh", n, "PRESENT"), <<n>>)

NeighUnref(w, n) ==
    LET w1 == DecRef(w, "neigh", n) IN
    IF Live(w1, "neigh", n) THEN Call("NeighConsiderReaping", w1, <<n>>) ELSE w1

NeighLinkGone(w, n) ==
    IF w.neigh[n].link = None THEN Fault(w, "abort")
    ELSE Call("NeighDelete", NeighUnlink(w, n), <<n>>)

NeighNotifyTargets(w, n) ==
    FoldLeft(LAMBDA v, t : TargetNeighUpdate(v, t), w, w.neigh[n].targets)

\* obj_neigh_new and obj_neigh_update hold the neighbour while they mark
\* it INSTALLED (and insert it in the fdb, or notify its targets); the
\* caller drops the hold with NeighUnref.
NeighHold(w, n) == SetSt(IncRef(w, "neigh", n), "neigh", n, "INSTALLED")

\* obj_neigh_netlink_update; mac 0 stands for a message without NDA_LLADDR.
NeighMsg(w, type, l, gw, mac) ==
    LET n == FdbLookup(w, l, gw)
        a == Alloc(w, "neigh", [ref |-> 0, weak |-> 0, st |-> "PRESENT", link |-> l,
                                infdb |-> FALSE, addr |-> gw, mac |-> mac,
                                targets |-> <<>>])
    IN
    IF ~LinkLookup(w, l) THEN w
    ELSE IF type = "DEL" THEN IF n = None THEN w ELSE Call("NeighDelete", w, <<n>>)
    ELSE IF n = None
    THEN IF a.id = None THEN a.w
         ELSE Call("NeighUnref", [NeighHold(IncWeak(a.w, "link", l), a.id)
                                  EXCEPT !.neigh[a.id].infdb = TRUE], <<a.id>>)
    ELSE IF ~LladdrChanged(w.neigh[n].mac, mac) THEN w
    ELSE LET w1 == Call("NeighNotifyTargets", NeighHold([w EXCEPT !.neigh[n].mac = mac], n), <<n>>)
         IN  Call("NeighUnref", w1, <<n>>)

\* obj_neigh_netlink_get: the fdb's neighbour, or a new one that is never
\* inserted in the fdb and holds a strong reference on the link.
NeighGet(w, l, gw) ==
    LET n == FdbLookup(w, l, gw)
        a == Alloc(w, "neigh", [ref |-> 0, weak |-> 0, st |-> "PRESENT", link |-> l,
                                infdb |-> FALSE, addr |-> gw, mac |-> 0,
                                targets |-> <<>>])
    IN  IF ~LinkLookup(w, l) THEN [w |-> w, id |-> None]
        ELSE IF n # None THEN [w |-> w, id |-> n]
        ELSE IF a.id = None THEN a
        ELSE [w |-> IncRef(a.w, "link", l), id |-> a.id]

\* obj_link_reap: the fdb's neighbours are told the link is gone.
LinkReap(w, l) ==
    LET w1 == SetSt(w, "link", l, "ZOMBIE")
        w2 == FoldLeft(LAMBDA v, n : NeighLinkGone(v, n), w1, FdbOf(w1, l))
    IN  IF w.link[l].ref # 0 THEN Fault(w, "abort") ELSE FreeObj(w2, "link", l)

LinkDelete(w, l) ==
    LET w1 == SetSt(w, "link", l, "PRESENT") IN
    IF Reapable(w1.link[l]) THEN LinkReap(w1, l) ELSE w1

\* obj_link_update: obj_neigh_link_update on every neighbour of the fdb.
LinkUpdate(w, l) ==
    FoldLeft(LAMBDA v, n : Call("NeighNotifyTargets", v, <<n>>), w, FdbOf(w, l))

\* obj_link_netlink_update (decode_link keeps only links on the NIC).
LinkMsg(w, type, l, mac) ==
    LET isnew == ~LinkLookup(w, l)
        o == IF isnew THEN [ref |-> 0, weak |-> 0, st |-> "PRESENT", vlan |-> 0, mac |-> 0]
             ELSE w.link[l]
        w1 == [w EXCEPT !.link[l] = [o EXCEPT !.mac = mac, !.vlan = LinkVlan[l]]]
    IN
    IF type = "DEL" THEN IF isnew THEN w ELSE LinkDelete(w, l)
    ELSE IF isnew THEN LinkNew(w1, l)
    ELSE IF LladdrChanged(o.mac, mac) \/ o.vlan # LinkVlan[l] THEN LinkUpdate(w1, l)
    ELSE w1

\* decode_route, unipath: the gateway's neighbour (on a known link) and
\* its target, then obj_route_netlink_update.
DecodeRoute(w, type, d, l, gw) ==
    LET g == NeighGet(w, l, gw)
        u == GetUnipath(g.w, g.id)
    IN  IF g.id = None THEN g.w
        ELSE IF u.id = None THEN u.w
        ELSE RouteMsg(u.w, type, u.id, d)



-----------------------------------------------------------------------------
(***************************************************************************)
(* The monitor socket (monitor_init) is bound with the group numbers      *)
(* RTNLGRP_* or-ed together; a netlink socket receives group g when bit    *)
(* g - 1 of the bound mask is set.                                         *)
(***************************************************************************)
RTNLGRP_LINK == 1
RTNLGRP_NEIGH == 3
RTNLGRP_TC == 4
RTNLGRP_IPV4_ROUTE == 7
RTNLGRP_IPV6_ROUTE == 11

MonitorGroups ==
    RTNLGRP_LINK | RTNLGRP_NEIGH | RTNLGRP_TC | RTNLGRP_IPV4_ROUTE | RTNLGRP_IPV6_ROUTE

Joined(g) == (MonitorGroups & 2^(g - 1)) # 0

\* monitor_response_read_cb hands a notification of group g to the decoders,
\* unless the process has died or the notification was lost.
Heard(w, g, lost) == Running(w) /\ Joined(g) /\ ~lost

-----------------------------------------------------------------------------
(* The request queue: tc actions and the scan's dumps, one at a time *)

\* A message of the given type about the filter made from rule d at p, as
\* the kernel sends it (a notification, or an entry of a filter dump).
Report(type, p, d) == [KernelFilter(Encode(p[1], p[2], d)) EXCEPT !.nlmsg_type = type]

\* decode_filter: try_decode_filter, then obj_rule_netlink_found.
DecodeFilter(w, m) ==
    LET x == Call("Decode", w, <<m>>) IN
    IF x.abort THEN Fault(w, "abort")
    ELSE IF ~x.done THEN w
    ELSE Call("NetlinkFound", w, <<IF m.nlmsg_type = "NEWTFILTER" THEN "NEW" ELSE "DEL",
                                   <<x.chain, x.prio>>, x.tcr>>)

\* tc_action_execute: pre_install, the request, post_install; then the
\* kernel's notification on the monitor socket.  Both requests carry
\* handle 0 (tce_set_tcm).  A DELTFILTER empties the (chain, prio), and its
\* notification has handle 0, which decode_filter skips.  A NEWTFILTER
\* (CREATE|EXCL) at an empty position makes the filter with handle 1; at a
\* position holding the same filter it fails with EEXIST; at one holding
\* another filter of the same protocol (every filter of the program is
\* 802.1Q) cls_flower adds it with handle 2, and AN(tcm_handle == 1) in
\* try_decode_filter aborts on its notification, or on the next dump's
\* record of it.  The answer's errno is ignored.
TcNotify(w, it, ok, lost) ==
    IF ok /\ Heard(w, RTNLGRP_TC, lost)
    THEN Call("DecodeFilter", w,
              <<Call("Report", w, <<IF it.desc # None THEN "NEWTFILTER" ELSE "DELTFILTER",
                                    it.pos, it.desc>>)>>)
    ELSE w

ExecuteTc(w, it, lost) ==
    LET p == it.pos
        cur == w.kernel[p]
        second == it.desc \notin {None, cur} /\ cur # None
        ok == IF it.desc # None THEN cur # it.desc ELSE cur # None
        w1 == IF w.rule[it.rid].rst # "QUEUED" THEN Fault(w, "abort")
              ELSE SetRst(w, it.rid, "PENDING")
        w2 == Call("RuleUnref", IF ok /\ ~second THEN [w1 EXCEPT !.kernel[p] = it.desc]
                                ELSE w1,
                   <<it.rid>>)
    IN  IF second THEN Fault(w2, "abort") ELSE TcNotify(w2, it, ok, lost)

PosLess(a, b) == a[1] < b[1] \/ (a[1] = b[1] /\ a[2] < b[2])

NextDump == [filters |-> "links", links |-> "neighs", neighs |-> "routes"]

\* A whole dump read by nl_receive_cb, then advance_scan_cb scheduling the
\* next scan helper; after the routes the scan waits for its timer.
Dump(w, what) ==
    LET w1 ==
          CASE what = "filters" ->
                 FoldLeft(LAMBDA v, p :
                            Call("DecodeFilter", v,
                                 <<Call("Report", w, <<"NEWTFILTER", p, w.kernel[p]>>)>>),
                          w,
                          SetToSortSeq({p \in Positions : w.kernel[p] # None}, PosLess))
            [] what = "links" ->
                 FoldLeft(LAMBDA v, l : Call("LinkMsg", v, <<"NEW", l, klink[l]>>), w,
                          SetToSortSeq({l \in Ifindexes : klink[l] # None}, <))
            [] what = "neighs" ->
                 FoldLeft(LAMBDA v, x : Call("NeighMsg", v, <<"NEW", x[1], x[2], kneigh[x]>>),
                          w,
                          SetToSortSeq({x \in DOMAIN kneigh : kneigh[x] # None}, PosLess))
            [] what = "routes" ->
                 FoldLeft(LAMBDA v, d : Call("DecodeRoute", v,
                                             <<"NEW", d, kroute[d].ifx, kroute[d].gw>>),
                          w, SetToSortSeq({d \in Dsts : kroute[d] # None}, <))
    IN  IF what = "routes" THEN w1
        ELSE [w1 EXCEPT !.queue = Append(@, [kind |-> "dump", what |-> NextDump[what]])]

\* The handlers called through Call.
Call(h, w, a) ==
    CASE h = "UpdateState"          -> UpdateState(w, a[1])
      [] h = "RuleUnref"            -> RuleUnref(w, a[1])
      [] h = "RuleUninstall"        -> RuleUninstall(w, a[1])
      [] h = "Request"              -> Request(w, a[1])
      [] h = "RouteInstall"         -> RouteInstall(w, a[1])
      [] h = "NotifyRoutes"         -> NotifyRoutes(w, a[1])
      [] h = "TargetSetRule"        -> TargetSetRule(w, a[1], a[2])
      [] h = "TargetInstall"        -> TargetInstall(w, a[1])
      [] h = "UnlinkRoute"          -> UnlinkRoute(w, a[1], a[2])
      [] h = "RouteUnref"           -> RouteUnref(w, a[1])
      [] h = "TargetUnref"          -> TargetUnref(w, a[1])
      [] h = "NeighConsiderReaping" -> NeighConsiderReaping(w, a[1])
      [] h = "NeighDelete"          -> NeighDelete(w, a[1])
      [] h = "NeighUnref"           -> NeighUnref(w, a[1])
      [] h = "NeighNotifyTargets"   -> NeighNotifyTargets(w, a[1])
      [] h = "NetlinkFound"         -> NetlinkFound(w, a[1], a[2], a[3])
      [] h = "DecodeFilter"         -> DecodeFilter(w, a[1])
      [] h = "Decode"               -> Decode(a[1])
      [] h = "Report"               -> Report(a[1], a[2], a[3])
      [] h = "LinkMsg"              -> LinkMsg(w, a[1], a[2], a[3])
      [] h = "NeighMsg"             -> NeighMsg(w, a[1], a[2], a[3], a[4])
      [] h = "DecodeRoute"          -> DecodeRoute(w, a[1], a[2], a[3], a[4])
      [] h = "ExecuteTc"            -> ExecuteTc(w, a[1], a[2])
      [] h = "Dump"                 -> Dump(w, a[1])

-----------------------------------------------------------------------------
Init ==
    /\ link = [l \in Ifindexes |-> Free]
    /\ neigh = [n \in NeighIds |-> Free]
    /\ target = [t \in TargetIds |-> Free]
    /\ route = [r \in RouteIds |-> Free]
    /\ rule = [i \in RuleIds |-> Free]
    /\ chains = {}
    /\ queue = <<>>
    /\ kernel = [p \in Positions |-> None]
    /\ klink = [l \in Ifindexes |-> None]
    /\ kneigh = [x \in Ifindexes \X Gateways |-> None]
    /\ kroute = [d \in Dsts |-> None]
    /\ faults = {}
    /\ used = [k \in EnvKinds |-> 0]

Alive == Running(world)

Within(k) == used[k] < Limit[k]

\* A notification may be lost (ENOBUFS on the monitor socket).
Lossy == IF Within("lose") THEN BOOLEAN ELSE {FALSE}

Count(ks, lost) ==
    used' = [k \in EnvKinds |-> used[k] + (IF k \in ks THEN 1 ELSE 0)
                                        + (IF k = "lose" /\ lost THEN 1 ELSE 0)]

\* queue_process on the head of the queue.
Execute ==
    /\ Alive /\ queue # <<>>
    /\ LET it == Head(queue)
           w == [world EXCEPT !.queue = Tail(@)]
       IN  IF it.kind = "dump"
           THEN Commit(Call("Dump", w, <<it.what>>)) /\ UNCHANGED used
           ELSE \E lost \in Lossy : /\ Commit(Call("ExecuteTc", w, <<it, lost>>))
                                  /\ Count({}, lost)
    /\ UNCHANGED <<klink, kneigh, kroute>>

\* scan_timeout_cb: the scan starts again with the filter dump.
ScanStart ==
    /\ Alive
    /\ \A i \in DOMAIN queue : queue[i].kind # "dump"
    /\ queue' = Append(queue, [kind |-> "dump", what |-> "filters"])
    /\ UNCHANGED <<link, neigh, target, route, rule, chains, kernel, klink,
                   kneigh, kroute, faults, used>>


-----------------------------------------------------------------------------
(***************************************************************************)
(* The kernel's routing state changes and its notifications go out.       *)
(***************************************************************************)
KLinkSet(l, mac) ==
    /\ Within("link") /\ klink[l] # mac
    /\ klink' = [klink EXCEPT ![l] = mac]
    /\ \E lost \in Lossy :
          /\ Count({"link"}, lost)
          /\ Commit(IF Heard(world, RTNLGRP_LINK, lost)
                    THEN Call("LinkMsg", world, <<"NEW", l, mac>>)
                    ELSE world)
    /\ UNCHANGED <<kneigh, kroute>>

LinkDelHeard(w, l, lost) ==
    IF Heard(w, RTNLGRP_LINK, lost) THEN Call("LinkMsg", w, <<"DEL", l, 0>>) ELSE w

\* A link goes: the kernel flushes its neighbours (RTM_DELNEIGH each) and,
\* silently, its routes, then sends RTM_DELLINK.
KLinkDel(l) ==
    /\ "linkdel" \in Allow /\ Within("link") /\ klink[l] # None
    /\ klink' = [klink EXCEPT ![l] = None]
    /\ kneigh' = [x \in DOMAIN kneigh |-> IF x[1] = l THEN None ELSE kneigh[x]]
    /\ kroute' = [d \in Dsts |-> IF kroute[d] # None /\ kroute[d].ifx = l THEN None
                                 ELSE kroute[d]]
    /\ \E lost \in Lossy :
          /\ Count({"link"}, lost)
          /\ LET gws == SetToSortSeq({g \in Gateways : kneigh[<<l, g>>] # None}, <)
                 w1 == IF Heard(world, RTNLGRP_NEIGH, lost)
                       THEN FoldLeft(LAMBDA v, g : Call("NeighMsg", v, <<"DEL", l, g, 0>>),
                                     world, gws)
                       ELSE world
             IN  Commit(LinkDelHeard(w1, l, lost))

\* A neighbour entry is created or changes its hardware address; mac 0 is
\* an entry without one (FAILED or INCOMPLETE), notified without NDA_LLADDR.
KNeighSet(l, g, mac) ==
    /\ Within("neigh") /\ klink[l] # None /\ kneigh[<<l, g>>] # mac
    /\ mac = 0 => "mac0" \in Allow
    /\ kneigh' = [kneigh EXCEPT ![<<l, g>>] = mac]
    /\ \E lost \in Lossy :
          /\ Count({"neigh"}, lost)
          /\ Commit(IF Heard(world, RTNLGRP_NEIGH, lost)
                    THEN Call("NeighMsg", world, <<"NEW", l, g, mac>>) ELSE world)
    /\ UNCHANGED <<klink, kroute>>

KNeighDel(l, g) ==
    /\ "neighdel" \in Allow /\ Within("neigh") /\ kneigh[<<l, g>>] # None
    /\ kneigh' = [kneigh EXCEPT ![<<l, g>>] = None]
    /\ \E lost \in Lossy :
          /\ Count({"neigh"}, lost)
          /\ Commit(IF Heard(world, RTNLGRP_NEIGH, lost)
                    THEN Call("NeighMsg", world, <<"DEL", l, g, 0>>) ELSE world)
    /\ UNCHANGED <<klink, kroute>>

\* A route to d through gateway g on link l is added or replaced.
KRouteSet(d, l, g) ==
    /\ Within("route") /\ klink[l] # None
    /\ kroute[d] # [ifx |-> l, gw |-> g]
    /\ kroute[d] # None => "regateway" \in Allow
    /\ kneigh[<<l, g>>] \notin Macs => "unresolved" \in Allow
    /\ kroute' = [kroute EXCEPT ![d] = [ifx |-> l, gw |-> g]]
    /\ \E lost \in Lossy :
          /\ Count({"route"}, lost)
          /\ Commit(IF Heard(world, RTNLGRP_IPV4_ROUTE, lost)
                    THEN Call("DecodeRoute", world, <<"NEW", d, l, g>>) ELSE world)
    /\ UNCHANGED <<klink, kneigh>>

KRouteDel(d) ==
    /\ "routedel" \in Allow /\ Within("route") /\ kroute[d] # None
    /\ kroute' = [kroute EXCEPT ![d] = None]
    /\ \E lost \in Lossy :
          /\ Count({"route"}, lost)
          /\ Commit(IF Heard(world, RTNLGRP_IPV4_ROUTE, lost)
                    THEN Call("DecodeRoute", world, <<"DEL", d, kroute[d].ifx, kroute[d].gw>>)
                    ELSE world)
    /\ UNCHANGED <<klink, kneigh>>

Next ==
    \/ Execute
    \/ ScanStart
    \/ \E l \in Ifindexes, mac \in Macs : KLinkSet(l, mac)
    \/ \E l \in Ifindexes : KLinkDel(l)
    \/ \E l \in Ifindexes, g \in Gateways, mac \in Macs \cup {0} : KNeighSet(l, g, mac)
    \/ \E l \in Ifindexes, g \in Gateways : KNeighDel(l, g)
    \/ \E d \in Dsts, l \in Ifindexes, g \in Gateways : KRouteSet(d, l, g)
    \/ \E d \in Dsts : KRouteDel(d)

\* The event loop serves the scan socket whenever the queue has sent a
\* request, and fires the scan timer; the kernel's changes are not forced.
\* Execute is enabled exactly when the process runs and the queue is not
\* empty (every callback's result is committed), and ScanStart exactly when
\* it runs and no dump is queued.  Weak fairness is written out with these
\* conditions so that TLC does not evaluate the handlers to decide ENABLED.
ExecuteReady == Alive /\ queue # <<>>

ScanReady == Alive /\ \A i \in DOMAIN queue : queue[i].kind # "dump"

Fairness ==
    /\ []<>~ExecuteReady \/ []<><<Execute>>_vars
    /\ []<>~ScanReady \/ []<><<ScanStart>>_vars

Spec == Init /\ [][Next]_vars /\ Fairness


-----------------------------------------------------------------------------
(* Properties *)

TypeOK ==
    /\ link \in [Ifindexes -> Link \cup {Free}]
    /\ neigh \in [NeighIds -> Neigh \cup {Free}]
    /\ target \in [TargetIds -> Target \cup {Free}]
    /\ route \in [RouteIds -> Route \cup {Free}]
    /\ rule \in [RuleIds -> Rule \cup {Free}]
    /\ chains \subseteq ChainNos
    /\ queue \in Seq(TcItems \cup DumpItems)
    /\ kernel \in [Positions -> Descs \cup {None}]
    /\ klink \in [Ifindexes -> Macs \cup {None}]
    /\ kneigh \in [Ifindexes \X Gateways -> Macs \cup {0, None}]
    /\ kroute \in [Dsts -> [ifx: Ifindexes, gw: Gateways] \cup {None}]
    /\ faults \subseteq Faults
    /\ used \in [EnvKinds -> Nat]

LiveIds(pool) == {i \in DOMAIN pool : pool[i] # Free}

Occurrences(s, x) == Cardinality({k \in DOMAIN s : s[k] = x})

\* Every reference count of the graph equals the number of its holders
\* (while the process runs): a link is held strongly by neighbours made by
\* obj_neigh_netlink_get and weakly by those of its fdb; a neighbour weakly
\* by its targets' next hop; a target by its neighbour's list and weakly by
\* its routes and its rule; a route by its target's list.  Too few counts
\* free an object still in use, too many keep it (and its rules) for ever.
RefCountsExact ==
    Alive =>
    /\ \A l \in LiveIds(link) :
          /\ link[l].ref = Cardinality({n \in LiveIds(neigh) :
                                          neigh[n].link = l /\ ~neigh[n].infdb})
          /\ link[l].weak = Cardinality({n \in LiveIds(neigh) :
                                           neigh[n].link = l /\ neigh[n].infdb})
    /\ \A n \in LiveIds(neigh) :
          /\ neigh[n].ref = 0
          /\ neigh[n].weak = Cardinality({t \in LiveIds(target) : target[t].nh = n})
    /\ \A t \in LiveIds(target) :
          /\ target[t].ref = FoldSet(LAMBDA n, acc : acc + Occurrences(neigh[n].targets, t),
                                     0, LiveIds(neigh))
          /\ target[t].weak = Cardinality({r \in LiveIds(route) : route[r].target = t})
                              + Cardinality({i \in LiveIds(rule) : rule[i].target = t})
    /\ \A r \in LiveIds(route) :
          /\ route[r].ref = FoldSet(LAMBDA t, acc : acc + Occurrences(target[t].routes, r),
                                    0, LiveIds(target))
          /\ route[r].weak = 0

\* Every pointer between live objects, and every queued action, names a
\* live object, and no handler touched a freed one.
NoDangling ==
    Alive =>
    /\ "uaf" \notin faults
    /\ \A n \in LiveIds(neigh) :
          /\ neigh[n].link # None => link[neigh[n].link] # Free
          /\ \A k \in DOMAIN neigh[n].targets : target[neigh[n].targets[k]] # Free
    /\ \A t \in LiveIds(target) :
          /\ neigh[target[t].nh] # Free
          /\ \A k \in DOMAIN target[t].routes : route[target[t].routes[k]] # Free
          /\ target[t].rule # None => rule[target[t].rule] # Free
    /\ \A r \in LiveIds(route) :
          \A x \in {route[r].rule, route[r].trule} \ {None} : rule[x] # Free
    /\ \A r \in LiveIds(route) : route[r].target # None => target[route[r].target] # Free
    /\ \A i \in LiveIds(rule) : rule[i].target # None => target[rule[i].target] # Free
    /\ \A k \in DOMAIN queue : queue[k].kind = "tc" => rule[queue[k].rid] # Free

\* No assertion of the object code fails (AN() aborts the process).
NoAbort == "abort" \notin faults

\* The rule the kernel should have for a route to d: a ROUTE_GOTO when its
\* gateway is resolved on a VLAN link, into a chain with the FORWARD rule
\* of that link's and that neighbour's hardware addresses.
Eligible(d) ==
    /\ kroute[d] # None
    /\ klink[kroute[d].ifx] # None
    /\ LinkVlan[kroute[d].ifx] # 0
    /\ kneigh[<<kroute[d].ifx, kroute[d].gw>>] \in Macs

ForwardOf(d) ==
    ForwardRule(LinkVlan[kroute[d].ifx], klink[kroute[d].ifx],
                kneigh[<<kroute[d].ifx, kroute[d].gw>>], "INET")

GotosOf(d) == {p \in Positions : kernel[p] # None /\ kernel[p].type = "ROUTE_GOTO"
                                 /\ kernel[p].af_addr = DstPrefix[d]}

Converged ==
    \A d \in Dsts :
        IF Eligible(d)
        THEN \E p \in GotosOf(d) :
                /\ GotosOf(d) = {p}
                /\ \E q \in Positions : q[1] = kernel[p].goto_target /\ kernel[q] = ForwardOf(d)
        ELSE GotosOf(d) = {}

\* The kernel's filters follow its routing state: once the environment
\* stops changing it, every route ends up with exactly one goto into a
\* chain forwarding to its gateway's current address, and a route that is
\* gone or cannot be forwarded with none (spec.md 4.3, 4.4).
RoutesConverge == <>[]Converged

\* Every filter the daemon created reads back as the rule it was created
\* from: the decoder, given the kernel's report of the NEWTFILTER that
\* tc_encode_rule built from a rule, rebuilds that rule byte for byte.
\* obj_rule_update_state compares the two with memcmp, so a rule that does
\* not read back is ALIEN after its own install and is uninstalled by a
\* handle-0 DELTFILTER whose notification is skipped: the filter is gone
\* and the rule stays PENDING (spec.md 4.2, the round-trip invariant).
KernelReadsBack ==
    \A p \in Positions :
        kernel[p] # None => Decode(Report("NEWTFILTER", p, kernel[p])).tcr = kernel[p]

\* One neighbour object per (link, address): obj_neigh_netlink_get finds or
\* creates the neighbour a route's gateway resolves to (spec.md 4.3).
NeighbourUnique ==
    \A n, m \in LiveIds(neigh) :
        n # m => ~(neigh[n].link = neigh[m].link /\ neigh[n].addr = neigh[m].addr)

\* Every FORWARD rule sits in a chain that filter_find_available_chain_no
\* reserved in chain_tree, and no other rule shares that chain, so a
\* route's goto jumps only to its own target's FORWARD rule.  The chain
\* tree is only ever added to while rules come and go.
ChainExclusive ==
    Alive =>
    \A i \in LiveIds(rule) :
        rule[i].chain # GotoChain =>
            /\ rule[i].chain \in chains
            /\ \A j \in LiveIds(rule) \ {i} : rule[j].chain # rule[i].chain

=============================================================================
