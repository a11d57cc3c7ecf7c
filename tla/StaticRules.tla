----------------------------- MODULE StaticRules -----------------------------
(***************************************************************************)
(* The static rules of the basic scheduler (sched_basic.c): the address    *)
(* family gotos of chain 0, the TTL checks of chains 1 and 2, and a trap   *)
(* for each prefix of the "onload" list that `-p onload <prefix>` fills    *)
(* (onload.c); installed through the codec (TcCodec) and read back by     *)
(* obj_rule_netlink_found.                                                 *)
(*                                                                         *)
(* The process starts on a kernel without filters; sched_init requests    *)
(* the static rules while the pin holds them (obj_rule_pin_changes = 0),   *)
(* the first filter dump finds nothing and obj_rule_remove_pin queues      *)
(* their installs in positional order.  Init is that state; from there the *)
(* request queue runs.  No other actor touches these positions, so every   *)
(* request succeeds and is notified (RuleEngine models losses, restarts   *)
(* and dumps racing the queue).                                            *)
(***************************************************************************)
EXTENDS Integers, Sequences, SequencesExt, TcCodec, FindAvailable

CONSTANTS
    OnloadArgs   \* the `-p onload <prefix>` arguments in order, each as
                 \* [af, addr, len]: the family strchr(':') picks, the
                 \* octets inet_pton reads, the length strtol reads

\* onload_add_prefix: pfx is zeroed, inet_pton writes the address octets
\* at &pfx.addr, which is the start of struct af_addr and not its `in`
\* member (onload.c:102); mask_len and af are then stored over the first
\* two octets.  struct af_addr in memory: af, mask_len, 2 padding octets,
\* the 16 octets of `in`.
OnloadAddPrefix(arg) ==
    LET mem == [i \in 1..20 |-> IF i <= Len(arg.addr) THEN arg.addr[i] ELSE 0]
    IN  [af |-> arg.af, mask_len |-> arg.len, pad |-> SubSeq(mem, 3, 4),
         in |-> SubSeq(mem, 5, 20)]

\* get_af_chain.
AfChain(af) == IF af = "INET" THEN 1 ELSE 2

\* request_af_goto_rule: chain 0 sends IPv4 to chain 1 and, matching the
\* unicast prefix 2000::/3 (tc_rule_set_dst), IPv6 to chain 2.
AfGotoRule(af, chain) ==
    LET a == IF af = "INET6"
             THEN BuildAfAddr("INET6", <<32>>, 3)
             ELSE [ZeroAfAddr EXCEPT !.af = af]
    IN  SetTypeAndTraits([RuleInit EXCEPT !.af_addr = a, !.goto_target = chain],
                         "ROUTE_GOTO")

\* request_ttl_check.
TtlCheckRule(af) == SetTypeAndTraits([RuleInit EXCEPT !.af_addr.af = af], "TTL_CHECK")

\* request_onload_rule.
OnloadRule(a) == SetTypeAndTraits([RuleInit EXCEPT !.af_addr = a], "ROUTE_TRAP")

\* sched_basic_initial_requests: the static rules by position.  Each onload
\* prefix goes into its family's chain at obj_rule_find_available_prio
\* from 10, past the rules requested before it.
OnloadBasePrio == 10

StaticWant ==
    LET fixed == (<<0, 1>> :> AfGotoRule("INET", 1)) @@ (<<0, 2>> :> AfGotoRule("INET6", 2))
                 @@ (<<1, 1>> :> TtlCheckRule("INET")) @@ (<<2, 1>> :> TtlCheckRule("INET6"))
        Place(m, a) ==
            LET c == AfChain(a.af)
                p == FindAvailablePrio({q[2] : q \in {x \in DOMAIN m : x[1] = c}}, OnloadBasePrio)
            IN  (<<c, p>> :> OnloadRule(a)) @@ m
    IN  FoldLeft(Place, fixed, [i \in DOMAIN OnloadArgs |-> OnloadAddPrefix(OnloadArgs[i])])

Positions == DOMAIN StaticWant

PosLess(a, b) == a[1] < b[1] \/ (a[1] = b[1] /\ a[2] < b[2])

VARIABLES
    rule,     \* [Positions -> [rst, have]]: the obj_rule at each position
    kernel,   \* [Positions -> rule or None]: the rule each filter was made from
    queue     \* the request queue: [pos, desc], desc None for an uninstall

vars == <<rule, kernel, queue>>

Init ==
    /\ rule = [p \in Positions |-> [rst |-> "QUEUED", have |-> None]]
    /\ kernel = [p \in Positions |-> None]
    /\ queue = LET order == SetToSortSeq(Positions, PosLess)
               IN  [i \in DOMAIN order |-> [pos |-> order[i], desc |-> StaticWant[order[i]]]]

\* obj_rule_update_state of a static rule after the pin is removed: want
\* is never NULL; a rule QUEUED is left alone.
UpdateState(r, p) ==
    CASE r.rst = "QUEUED" -> [r |-> r, q |-> <<>>]
      [] r.have = None -> [r |-> [r EXCEPT !.rst = "QUEUED"],
                           q |-> <<[pos |-> p, desc |-> StaticWant[p]]>>]
      [] r.have = StaticWant[p] -> [r |-> [r EXCEPT !.rst = "OK"], q |-> <<>>]
      [] OTHER -> [r |-> [r EXCEPT !.rst = "QUEUED"], q |-> <<[pos |-> p, desc |-> None]>>]

\* obj_rule_netlink_found for a filter reported at p (the rule exists
\* there; no other actor deletes these filters, and the program's own
\* deletes are not reported): a changed have is stored, then
\* obj_rule_update_state.
NetlinkFound(r, p, tcr) ==
    IF r.have # tcr THEN UpdateState([r EXCEPT !.have = tcr], p)
    ELSE [r |-> r, q |-> <<>>]

\* queue_process, tc_action_execute and the monitor's notification:
\* pre_install moves the rule to PENDING, the kernel adds (NLM_F_EXCL) or
\* deletes the filter and reports it, decode_filter reads the report; a
\* refused request (EEXIST, ENOENT) is not reported and leaves it PENDING,
\* and so does a delete, whose report has handle 0 and is skipped.
Execute ==
    /\ queue # <<>>
    /\ LET it == Head(queue)
           p == it.pos
           ok == IF it.desc # None THEN kernel[p] = None ELSE kernel[p] # None
           x == Decode(KernelFilter(Encode(p[1], p[2], it.desc)))
           pending == [rule[p] EXCEPT !.rst = "PENDING"]
           nf == IF ok /\ x.done THEN NetlinkFound(pending, p, x.tcr)
                 ELSE [r |-> pending, q |-> <<>>]
       IN  /\ rule[p].rst = "QUEUED"
           /\ kernel' = IF ok THEN [kernel EXCEPT ![p] = it.desc] ELSE kernel
           /\ rule' = [rule EXCEPT ![p] = nf.r]
           /\ queue' = Tail(queue) \o nf.q

Next == Execute

Spec == Init /\ [][Next]_vars

\* Every trap filter the kernel holds traps a prefix given with
\* `-p onload`: its destination key and mask, as tc_encode.c sends them,
\* are those of a configured prefix (spec.md: "the onload prefix traps for
\* each user-declared prefix list").
OnloadTrapsPrefix ==
    \A p \in Positions :
        kernel[p] # None /\ kernel[p].type = "ROUTE_TRAP" =>
            \E i \in DOMAIN OnloadArgs :
                MatchPrefix(kernel[p].af_addr)
                = MatchPrefix(BuildAfAddr(OnloadArgs[i].af, OnloadArgs[i].addr, OnloadArgs[i].len))
=============================================================================
