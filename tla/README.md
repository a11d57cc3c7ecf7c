# TLA+ models of flower-route

flower-route (sources in `src/src`) mirrors the kernel's routes into tc
flower rules on a NIC. It is one libev event loop with no threads. Its parts:

| Part | Files | Role |
|---|---|---|
| Wire codec | tc_encode.c, tc_decode.c, nl_decode*.c, tc_rule.c | netlink messages <-> `struct tc_rule` and objects |
| Netlink transport | nl_conn.c, nl_send.c, nl_receive.c, nl_common.c, nl_dump.c | sockets, send, the read loop `nl_receive_cb` |
| Request queue | nl_queue.c | one request in flight on the scan socket, FIFO |
| tc actions | tc_action.c | an install / uninstall as a queue item, with the rule engine's callbacks |
| Rule engine | obj_rule.c | rules as (want, have), positional and lost-and-found trees, pin, state machine |
| Placement | obj_rule_find_available_prio, sched_basic.c, sched.c | where a new rule goes; the static rules |
| Chains | nl_filter.c | chain tree, chain-number allocation for FORWARD rules |
| Object graph | obj.c, obj.h, obj_link.c, obj_neigh.c, obj_target.c, obj_route.c | links, neighbours, targets, routes; they request and drop rules |
| Scan driver | scan.c | periodic dump sequence; at its end the pin is removed |
| Monitor | monitor.c | multicast notifications into the same decoders |
| Start-up, options | main.c, config.c, options.c, onload.c, common.c, rt_names.c | order of initialisation, configuration |

How they interact: the scan socket carries the queue's requests
(dumps, then installs and uninstalls) and their answers. The monitor socket
carries the kernel's notifications, including those of the program's own
requests. Both feed `obj_rule_netlink_found`, which updates `have`. The
object graph sets `want` through `obj_rule_request` and `obj_rule_unref`.
`obj_rule_update_state` compares the two and queues a request. The rtnetlink
kernel applies a request inside `sendmsg` and queues the notification on the
monitor socket and the ACK on the scan socket. These are two sockets, so the
program may read the two in either order. A handler that schedules an item
while the queue is idle sends it at once, inside that handler
(`queue_schedule` -> `queue_process_loop`). The item's `post_install` callback
then drops a reference, which can uninstall or reap a rule in the middle of
the caller's loop.

Filter handles decide what the program hears of a request. `tce_set_tcm`
takes `tcm_handle` from `TCE_FLAG_LOOPBACK`, which only the tests pass, so
every NEWTFILTER and DELTFILTER the program sends carries handle 0:

* a NEWTFILTER at an empty (chain, prio) makes handle 1; the same filter
  again fails with EEXIST; beside another filter of the same protocol
  (every filter here is 802.1Q) it makes handle 2, and the notification
  of it fails `AN(tcm_handle == 1)` in `try_decode_filter`: the process
  aborts;
* a DELTFILTER with handle 0 deletes everything at its (chain, prio), and
  its notification carries handle 0 and no options, which
  `try_decode_filter` skips. The program never hears of its own
  uninstalls, so the rule keeps `have` for a filter that is gone.

The models take these semantics from the kernel (`KernelRequest` in
RuleEngine, `KernelFilter` in TcCodec, `ExecuteTc` in ObjectGraph).

## Modules

* `FindAvailable.tla`: `obj_rule_find_available_prio` as a recursive
  operator (`FindPrioLoop` is the loop over the sorted priorities; `U16` is
  the uint16_t assignment `ret = r->prio + 1`, scaled to `PrioBits` bits),
  and `filter_find_available_chain_no` (`FindChainLoop`), the same walk
  over chain numbers (`FindChainWalk` walks the tree's in-order sequence;
  `FindAvailableChainNo` sorts a set of chains first).
* `Placement.tla`: one chain with its fixed priorities and a stream of
  placements (`Place` = `sched_basic_place` + `obj_rule_prime_request`) and
  frees (`Free` = `obj_rule_reap`). Beside it is the chain tree: chains
  reported by the chain dump or a chain notification (`DecodeChain` =
  `decode_chain`: a report for another interface or another parent than
  the clsact qdisc's `ffff:` is dropped, a report without `TCA_CHAIN` is
  chain 0, and RTM_DELCHAIN is handled like RTM_NEWCHAIN; then `GotChain` =
  `filter_got_chain`) and chains
  found and reserved for FORWARD rules (`ReserveChain`). It starts where
  `main` starts: the `-P onload` file is read (OnloadFile's steps; a
  refused token ends in `Bail`, the exit of `options_parse`), then `Start`
  is `sched_basic_initial_requests` on this chain: the TTL check, and one
  trap per loaded prefix placed from `OnloadBase` by
  `sched_basic_place_prefix_list`. Static rules are never freed. chain_tree is the
  in-order sequence of the rbtree: `ChainLookup` and `ChainInsert` place a
  chain by `U32Cmp`, the `((int) a) - b` of `u32cmp` taken modulo
  2^`ChainBits` and read back signed. The rbtree's shape and rebalancing
  (`rb_insert_color`, a library outside the tree) keep the in-order sequence
  and are left out. `MCPlacement.tla` instantiates it, together with
  `OnloadFile`.
* `OnloadFile.tla`: `-P <list> <file>`. `Fgets` cuts a file into the
  buffers `fgets` returns (`LineMax` is LINE_MAX_LEN), `ScanLine` is the
  scanner of `onload_fread_prefix` on one buffer, and its loop is one step
  per buffer (`SkipLine`, `StoreLine`, `RefuseLine`: the first token
  `onload_add_prefix` refuses ends the load with -EINVAL; `LoadEof`).
  `StorePrefix` is `onload_store_prefix` with `get_or_create_prefix_list`.
  `given`, the file's content until it is closed, is kept for the property.
  Characters are classes (blank, two address characters, `#`, newline,
  other); `onload_add_prefix` is reduced to which tokens it accepts (its
  parse is modelled in StaticRules). `SplitLines`, `LineCidrs` and
  `RefCidrs` are the file syntax of spec.md section 5, written from the
  spec as the reference the loader is checked against.
* `RuleEngine.tla`: the rule engine, the request queue, tc actions, the
  scan driver's stages, the monitor, and the kernel's filter table of one
  chain. `MCRuleEngine.tla` holds the model values and bounds.
* `RequestQueue.tla`: what the request queue promises (spec.md 4.2 and
  4.7), over the queue, its busy flag and the filter table: requests leave
  in FIFO order, the queue is busy exactly while it holds requests, the
  table changes only by the request sent as the new head or by an
  operator, and a crash empties the queue. A step is one handler run to
  completion. RuleEngine instantiates it as `RQ` with a refinement
  mapping: the queue items' kind, position and descriptor are the abstract
  requests, and `busy` and `kernel` map to themselves. `QueueRefines`
  (`RQ!SafeSpec /\ RQ!AnswerFair`) is checked as a property of the engine
  run.
* `ObjectGraph.tla`: the object graph (links, neighbours, targets, routes)
  with its reference counts, fed by the decoders from the kernel's routing
  state. It includes the rules the graph requests, FORWARD rules placed in
  chains found by `FindAvailableChainNo`, the queue and the scan's dumps,
  and the monitor groups. `MCObjectGraph.tla` holds the bounds.
* `TcCodec.tla`: `struct tc_rule` and the flower messages that carry it.
  It holds the rule helpers of tc_rule.c (`SetType`, `SetTypeAndTraits`,
  `MarkAlien`, `Detect`), the rule builders (`ForwardRule`, `GotoRule`),
  the encoder of tc_encode.c (`Encode`, `FlowerOpts`, `MatchPrefix`, the
  prefix masks, the pedit keys) and the decoder of tc_decode.c (`Decode`,
  `DecodeFlower`, `CountOnes`, one operator per action callback). Octets
  are naturals below 256 and a u32 word is 4 octets in memory order, since
  TLC's integers have 32 bits. The padding octets of `struct af_addr` are a
  field, because `obj_rule_update_state` compares rules with memcmp.
  `KernelFilter` is what the kernel reports for a filter it was sent: for a
  NEWTFILTER, handle 1, the outer eth type replaced by the VLAN one, keys
  with an all-zero mask dropped, and IN_HW set; for a handle-0
  DELTFILTER, handle 0 and no options.
* `StaticRules.tla`: the static rules of `sched_basic_initial_requests`
  (the family gotos, the TTL checks and one trap per `-p onload` prefix,
  parsed by `onload_add_prefix`), installed from an empty kernel through
  the codec and read back by `obj_rule_netlink_found`.
  `MCStaticRules.tla` gives the prefixes of tests/options.c.

### RuleEngine: state

| Variable | Code |
|---|---|
| `rules[p]` | the `struct obj_rule` at priority p of the positional tree: `st` (`r->state`), `have`, `want`, `ref` (`obj.refcnt`), `laf` (`have_laf`), `static` (`type == STATIC`). The obj state INSTALLED is exactly `have # None`. |
| `pin` | `obj_rule_pin_changes` |
| `queue`, `busy` | `Q.head..Q.tail`, `Q.is_busy`. An install/uninstall item records the descriptor pointer it was queued with (`tca->tcr`) and whether it still holds its rule reference. |
| `kernel` | the kernel's filter table for the chain |
| `sock`, `mon` | unread messages on the scan socket and on the monitor socket |
| `scan` | `struct scan`.state: NEW, FILTERS (filter and chain dumps), OBJECTS (link, neighbour and route dumps), WAIT |
| `own` | the rule each owner (a route or a target of the object graph) holds |
| `faults` | faults the C code would commit: use of a reaped rule, refcount underflow, `rb_next` on a reaped node; and the fatal ones, a failed AN (`abort`) and a `memcmp` through a NULL `have` in the lost-and-found tree (`segv`). After a fatal one no action of the program is enabled (`Alive`). |
| `used` | how many of each environment event have happened (bounds) |

### RuleEngine: handlers

The handlers call one another recursively (update_state -> queue_install ->
queue_schedule -> process -> post_install -> unref -> uninstall ->
update_state ...). Each is therefore an operator from a record of the state,
`world`, to the record after the call, written in the order of the C code.
One action of `Next` applies one event-loop callback and `Commit`s the result.

| Operator | C function |
|---|---|
| `UpdateState` | `obj_rule_update_state`, with its early returns on pin 0 and QUEUED |
| `QueueInstall`, `QueueUninstall` | `obj_rule_queue_(un)install` + `tc_action_install` (pin gates, ref taken) |
| `Schedule`, `ProcessLoop`, `Execute` | `queue_schedule`, `queue_process_loop`, `queue_process` + `tc_action_execute` (pre_install, send, post_install) |
| `Unref`, `Reap`, `Uninstall` | `obj_rule_unref`, `obj_rule_reap`, `obj_rule_uninstall` |
| `Delete`, `NetlinkFound` | `obj_rule_delete`, `obj_rule_netlink_found` |
| `Request` | `obj_rule_request` (= `prime_request` + `queue_request`); adoption from lost-and-found takes two references, as the code does |
| `Release` | a target dropping its rule (`obj_target_set_rule`, `obj_target_reap`) |
| `DecodeFilter`, `DumpRecord` | `decode_filter`: a record with handle 0 is skipped, handle 1 goes to `netlink_found`, any other aborts; a dump's records are read until the process dies |
| `LafBroken` | a rule in the lost-and-found tree whose `have` was freed: the next `laf_lookup` reads through NULL (`segv`) |
| `PinPass`, `PinLevels`, `RemovePin` | `obj_rule_remove_pin` |
| `Complete`, `FiltersDone`, `ScanDone` | `queue_is_complete` -> `handle_queue_completed` -> `tc_action_done` / `advance_scan_cb` -> `advance_scan` |
| `KernelRequest`, `ScanReply` | what the kernel does with a handle-0 NEWTFILTER (CREATE, EXCL: handle 1, EEXIST or handle 2), a handle-0 DELTFILTER (the whole priority, a notification with handle 0) and a dump |

Actions: `ScanStart` (`scan_init`, `scan_timeout_cb`). `ReceiveFilters`,
`ReceiveObjects` and `ReceiveAck` are the scan socket's `nl_receive_cb`: it
reads until NLMSG_DONE or an answer, so a whole dump is one step.
`ReceiveMonitor` is `monitor_response_read_cb`, which reads until EAGAIN,
including notifications of requests it sends itself. The environment:
`OwnerRequest`, `OwnerRelease` (the object graph),
`ExternalAdd` and `ExternalDel` (an operator's `tc filter add/del`),
`LoseNotification` (ENOBUFS on the monitor socket), `Restart` (the
process dies; the kernel's filters stay), `SendFails` (the next
`mnl_socket_sendto` of an install or uninstall fails: `Execute` then
completes the item at once with errno 0, as `queue_process_loop` does) and
`ForeignFilter` (a filter deleted at the same chain and priority on another
device: `try_decode_filter` does not check `tcm_ifindex`, so the monitor
reads it as this chain's). Route deletes are not an action: they need a
route notification, and the monitor joins no route group (run
route_delete_unseen). Every action of the program is guarded by `Alive`.

`Init` is the state after `main` has run `sched_init` (the static rules,
NEW, refcount 0, since `fr_malloc` zeroes). The kernel may be empty (first
boot) or hold what a previous run left (`InitKernels`).

### ObjectGraph: state

Every object is a slot of a pool (`Cap` slots). A slot holds a record with
the `obj_core` fields (`ref`, `weak`, `st`) or `Free` once `obj_free` has
run. A pointer is a slot number.

| Variable | Code |
|---|---|
| `link[l]` | `struct obj_link` (by ifindex): lladdr, vlan_id |
| `neigh[n]` | `struct obj_neigh`: link, address, lladdr, `targets` list; `infdb`: in the link's fdb tree |
| `target[t]` | `struct obj_target` (unipath): next-hop neighbour, route list, rule |
| `route[r]` | `struct obj_route`: dst, target, `rule` (the goto), `trule` (`target_rule`) |
| `rule[i]` | `struct obj_rule`, as in RuleEngine, with its chain and priority and its target |
| `chains` | `chain_tree`: the chain numbers reserved |
| `queue` | the request queue: tc actions and the scan helpers (filter, link, neighbour, route dumps) |
| `kernel`, `klink`, `kneigh`, `kroute` | the kernel's filters and its routing state |
| `faults` | a failed AN (`abort`), a use of a freed object (`uaf`), a pool left (`bound`) |

### ObjectGraph: handlers and actions

| Operator | C function |
|---|---|
| `LinkMsg`, `LinkLookup`, `LinkNew`, `LladdrChanged`, `LinkUpdate`, `LinkDelete`, `LinkReap` | `obj_link_netlink_update` and its helpers (the link tree is the function `link` of ifindex) |
| `NeighMsg`, `NeighHold`, `NeighGet`, `NeighNotifyTargets`, `NeighDelete`, `NeighReap` | `obj_neigh_netlink_update`, `obj_neigh_netlink_get`, the fdb and its reaping |
| `GetUnipath`, `PrepareRule`, `TargetSetRule`, `TargetInstall`, `TargetNeighUpdate`, `NotifyRoutes`, `LinkRoute`, `UnlinkRoute`, `TargetReap` | obj_target.c |
| `DecodeRoute`, `RouteMsg`, `RouteMarkInstalled`, `RouteInstall`, `RouteDelete`, `RouteReap` | `nl_decode_route`, `obj_route_netlink_update`, `obj_route_install`, `obj_route_delete`, `obj_route_reap` |
| `Request`, `PrimeRequest`, `Place`, `UpdateState`, `NetlinkFound`, `RuleUnref`, `RuleReap` | obj_rule.c and `sched_basic_place` (pin removed) |
| `ExecuteTc`, `Dump` | `tc_action_execute` with the kernel's answer and notification; a dump read whole, then `advance_scan_cb` |
| `MonitorGroups`, `Joined`, `Heard` | `monitor_init`'s groups, and `mnl_socket_bind` taking them as a bitmask |
| `DecodeFilter` | `decode_filter`: `Decode` (TcCodec), then `NetlinkFound` for a filter with a handle |

A rule in ObjectGraph is a `struct tc_rule` of TcCodec. `kernel[p]` holds
the rule whose NEWTFILTER made the filter at p. Every notification and
every dump record is `Report`: `KernelFilter(Encode(...))`, decoded by
`DecodeFilter`. What `NetlinkFound` stores as `have` is therefore what the
decoder reads back, not the rule that was sent. `DstPrefix` gives each
destination its prefix; in MCObjectGraph one is the default route 0.0.0.0/0,
whose goto the decoder detects as ROUTE_DFT_GOTO and reports as
ROUTE_GOTO.

The handlers call each other through one RECURSIVE dispatcher, `Call(h, w,
a)`, and `Decode` and `Report` are reached only through it. TLC's coverage
pass expands every path by which an operator is applied, and with the
codec's operators applied directly from each handler that pass does not end.

Actions: `Execute` (the queue's head is processed: `queue_process`),
`ScanStart` (`scan_timeout_cb`), and the kernel's changes `KLinkSet`,
`KLinkDel`, `KNeighSet`, `KNeighDel`, `KRouteSet`, `KRouteDel`. Each of these
applies the kernel's change and hands its notification to the decoders,
unless the monitor does not hear it (`Heard`) or it is lost (`Lossy`).
`Init` is an empty kernel and a process that has just started. The first
dump starts with the first `ScanStart`.

## Runs

| Run | cfg | Expect | Shows |
|---|---|---|---|
| placement | Placement.cfg | pass | from start-up (prefix file, traps) on, the priority walk never returns an occupied priority or one below min, with gaps, frees and the uint16_t wrap reached (4 bits); the chain walk never returns a chain already in chain_tree; `u32cmp` keeps chain_tree in numeric order (`ChainTreeOrdered`); and on every prefix file of up to 6 characters whose lines fit the buffer, the loader stores prefixes only from well-formed lines, in order, and all of them when no line is malformed (`OnloadFileSound`) |
| engine | RuleEngine.cfg | pass | from a fresh kernel or a previous run's leftovers, with a failed send and a filter deleted on another device among the events: reference counting is sound (no underflow, no reap of a held rule), QUEUED agrees with the queue, the first scan completes with the pin at 3, and every QUEUED rule is sent unless the process has died; and the queue implements RequestQueue (`QueueRefines`: FIFO, busy exactly while non-empty, each request in flight answered while the process lives). The process can die: an operator's filter at the TTL check's priority makes the static install a second filter, whose handle 2 aborts. Deadlock is not checked, because a dead process does nothing (466,942 states) |
| iter_reaped | IterReaped.cfg | violation | F1: on an empty kernel the static rule is installed, then reaped by post_install in the middle of remove_pin. `obj_rule_remove_pin` then calls `rb_next` on the freed node (a use-after-free on every first start with an empty chain) |
| restart_settle | RestartSettle.cfg | violation | F2: with only the static rule in the kernel, a rule requested before the first scan ends is installed twice during remove_pin; the notification lands while it is QUEUED, the EEXIST of the second install is dropped, and it stays PENDING for ever |
| dump_race | DumpRace.cfg | violation | F3: with only the static rule in the kernel, an operator deletes it during the first dump; the monitor's DEL reaps the rule, the older dump record recreates it as an alien, whose uninstall fails with ENOENT (dropped): the rule stays PENDING with a `have` the kernel lacks and the TTL check is never reinstalled |
| own_delete_unseen | OwnDeleteUnseen.cfg | violation | F4: a filter left by an earlier run is uninstalled with handle 0 and its notification skipped; the rule keeps `have`, and when an owner requests it, the adoption from lost-and-found makes it OK with nothing in the kernel |
| graph_safety | GraphSafety.cfg | pass | with every kind of kernel change allowed, every reference count equals its holders, no pointer or queued action names a freed object, and every FORWARD rule has a reserved chain of its own (558,620 states) |
| graph_converge | GraphConverge.cfg | pass | (no type invariant: graph_safety checks it) with additions and address changes only, and no lost notification, every filter the kernel holds decodes back to the rule that made it, and the kernel's filters end up matching its routes (one goto per route into a chain with the right FORWARD rule) |
| neigh_delete_abort | NeighDeleteAbort.cfg | violation | deleting a neighbour that an installed route goes through reaps its target while the route still holds a weak reference: AN aborts |
| route_delete_unseen | RouteDeleteUnseen.cfg | violation | the monitor joins no route group, so a deleted route's goto is never removed |
| orphan_neigh | OrphanNeigh.cfg | violation | a route through an unresolved gateway makes a second neighbour object for the same address |
| onload_prefix | OnloadPrefix.cfg | violation | `onload_add_prefix` parses the address into the start of `struct af_addr`: the trap for 192.0.2.0/24 matches 0.0.0.0/24 (`in` starts at offset 4, so it keeps the memset's zeros). The filter read back differs in the padding octets, so the trap is uninstalled once, by a handle-0 delete whose notification is skipped, and is never reinstalled |

### Bounds

* The chain has priorities 1..3: the static rule at 1 and min_prio 2
  (scaled from 100). Two free priorities let a rule, an alien, and a
  rule placed above a gap exist together.
* The descriptors are d1 and d2 (owner rules), a1 (an operator's filter)
  and s1 (the static TTL check). One owner keeps the broad run under two
  minutes. Every finding needs only one.
* Environment events are bounded per kind (`Limit`): `LimitBroad` allows
  one request, one release, one operator change, one lost
  notification, one restart, one failed send, and one foreign filter
  deletion, which takes the place of the operator change. There is one
  owner and one descriptor. The engine run checks its safety and its
  liveness properties together under this bound (466,942 states). It starts from a fresh kernel or from one where a previous run left an owner's rule; the other leftovers (the static rule alone, an operator's filter) are reached from a fresh kernel by Restart within the bound. With
  two requests, the liveness check does not finish in five minutes. The
  violation runs allow no send failure and no foreign deletion, so each
  trace shows the path its finding describes. Each finding needs at most one event of each kind.
* StaticRules: two onload prefixes, one per family, as in tests/options.c.
  Each lands in its family's chain at priority 10. The run needs no other
  event: the first install already shows the wrong prefix.
* `Placement.cfg`: 4-bit priorities, min 4, the TTL check at 1, up to
  4 rules besides the static ones.
  Frees let gaps creep to the top so that the wrap is reached. The chain
  dump may report chains 0, 1, 5, 6 and 7, so the tree can have a gap at
  5 or 6. Up to 5 chains. `ChainBits` = 5 makes `u32cmp`'s modulus 32;
  the chains the run reaches stay below 16, as the kernel's 28-bit chain
  indexes stay below 2^31 (an ASSUME states it).
* `OnloadFile` in the placement run: `LineMax` = 5 (4 characters per
  buffer) and every file of up to 5 characters over the 6 classes whose
  lines fit the buffer (a line of 5 characters is split). That includes
  files of three prefixes, refused tokens after stored ones, comments
  right after a token, and lines with trailing garbage. `OnloadBase` = 2
  (10 in the program, below the goto minimum 100 scaled to 4), so a third
  trap spills over the minimum into the gotos' range, as a ninety-first
  does in the program. The run has 245,249 states.
* ObjectGraph: one VLAN link, two gateways, one or two destinations, two
  hardware addresses. `Limit` bounds the kernel's link, neighbour and route
  events and the lost notifications. Both passing runs allow two events
  of each kind and lose none. With one loss, graph_safety takes four
  minutes. Losses are checked in RuleEngine. `Allow` selects the kinds of change beyond additions. Each
  violation needs one such change after two routes or neighbours exist.
  `Cap` (4 neighbours, 4 targets, 2 routes, 9 rules, 8 chains) is more than
  the passing runs use. Chains are never given back and an unresolved
  gateway makes a new neighbour every scan, so a run that allows this
  reaches the end of a pool. The process then stops (`bound`).

### Fairness

The loop reads every readable socket and fires the scan timer, so
`ScanStart`, `ReceiveFilters`, `ReceiveObjects`, `ReceiveAck` and
`ReceiveMonitor` are weakly fair while the process lives (`Alive` is part
of each enabling condition). The environment (owners, operator, lost
messages, restarts) gets no fairness.

All five are written out rather than as `WF_vars`. The form used
is `[]<>~Enabled \/ []<><<step>>_vars`, with the exact enabling condition and
a characterisation of the action's steps by the `scan` and `mon` variables.
TLC evaluates `ENABLED` of an action with lazily bound arguments, and through
`remove_pin` that cost grows exponentially. The comments beside `Fairness`
say why each form equals weak fairness of the action.

In ObjectGraph, `Execute` (the scan socket) and `ScanStart` (the scan
timer) are weakly fair, written out the same way: `ExecuteReady` and
`ScanReady` are exactly when they are enabled, because every handler's
result is committed. A failed AN or a pool left ends the process, after
which nothing is enabled.

The findings and the hazards are listed with their source lines
in `PROJECT.json`. Each property of a passing run has a mutant there: a
plausible bug in the mapped code that makes TLC report the property violated.

### Refinement

`QueueRefines` checks that every behaviour of RuleEngine, mapped, is a
behaviour of RequestQueue, up to the death of the process. Its safety part
is `RQ!SafeSpec`. Its liveness part, `RQ!AnswerFair \/ <>~Alive`, holds
unless the process dies; `RQ!AnswerFair` is `WF_vars(Answer)` written out (`Answer` is
enabled exactly when the queue is busy), because TLC cannot evaluate
`ENABLED` through a refinement mapping. Mutant `ScheduleAtHead`, a
`queue_schedule` that links the item at the head, breaks it.

### Code behaviours without a run

Modelling met more disagreements than the run list holds. Each one is
described with its lines in the hazards of `PROJECT.json`:

* `obj_rule_find_available_prio` returns the first free priority after the
  first run above min, not the smallest ({1,5} with min 4 gives 6).
* Adopting a lost-and-found rule takes two references for one holder.
* `obj_rule_delete` leaves a rule in the lost-and-found tree with `have`
  freed. RuleEngine turns the next lookup into the fatal fault `segv`.
* An operator's delete by priority is a handle-0 DELTFILTER too, and is
  unseen like the program's own (run own_delete_unseen).
* A route deleted while its rule's install is queued would free the
  descriptor the queued action points to (tc_action.c:74). No route delete
  reaches the program (monitor.c:31), so this stays latent.
* `obj_route_install` uninstalls the old FORWARD before the old goto.
* A route moved to a gateway whose target is already OK keeps its goto.
* A neighbour that loses its address leaves its routes' gotos and FORWARD
  rule in place.
* One lost TC notification can leave a rule PENDING for ever.
* `onload_fread_prefix` skips a line with anything after its token other
  than blanks and a comment (`10.0.0.0/8 foo`), and a line that starts with
  another character, without an error; spec.md says malformed lines abort
  loading. `OnloadFileSound` states what the code does keep: no prefix is
  stored from such a line.
* A prefix-file line longer than 511 characters is read as two lines, so
  the tail of a long comment can be stored as a prefix.
* With `--one-off`, `scan_break` is queued right behind the first scan's
  FORWARD installs. Every goto waits for its FORWARD rule to reach OK, so
  it is queued after the break. The process therefore exits 0 with at most
  one ROUTE_GOTO installed.
* `decode_multipath` takes each nexthop's `RTA_GATEWAY` without checking
  that it is present. A device-only nexthop on a known link crashes the
  daemon.
* A link deleted while an orphan neighbour holds it, then added back,
  stays PRESENT. When its last reference goes it is reaped, and its
  neighbours and FORWARD rules are flushed until the next link dump.
* `--dry-run` sets `config->dry_run`, and `tc_action_install` then aborts
  on `AZ(config->dry_run)` at the first install.

## Not modelled, and why

* In RuleEngine the object graph appears only as owners that request and
  drop rules, on one chain. ObjectGraph has the graph and the chains but
  leaves out the pin and the races between a request's ACK and its
  notification, which RuleEngine has.
* ObjectGraph: IPv4 only (IPv6 runs the same code with another family),
  unipath targets only (`decode_multipath` is not modelled), and the chain
  decoder is left out. Placement models it; in the graph, a chain dump only
  reports chains this process reserved, or chains below 5, which the
  search skips. `u32cmp`'s
  `(int)a - b` is exact, because tc's chain indexes have 28 bits.
* Teardown (`obj_set_mode`, `obj_rule_clear_all`, `filter_clear_chains`)
  is called from nowhere, neither the program nor the tests. `scan_fini`
  and `queue_fini` run once `ev_run` has returned, just before the process
  exits; they are not modelled. `exit_after_first_sync` is left out: its
  defect (above) needs a violation run of its own. hack.c is dead code: `hack_static`
  is called from nowhere, and it includes a header the tree lacks.
* Option parsing (options.c: getopt, `if_nametoindex`, the rt_names.c
  table lookup) reads the host's configuration and argv; it is I/O and is
  not modelled. A prefix file that fails to open is not modelled either.
* rbtree.h declares the rbtree of a library outside the tree; the models
  keep each tree as the sorted set or in-order sequence it maintains.
* The wire codec is modelled for the filters this program sends (TcCodec)
  and the route, link and neighbour messages as ObjectGraph's decoders read
  them. Not modelled: the attribute parsing of libmnl (`mnl_attr_parse`
  and the `decode_nlattr_cb` tables), the qdisc decoder (its
  `filter_got_qdisc` does nothing), the
  loopback flag of the tests (`TCE_FLAG_LOOPBACK`), `--skip-hw`, and the
  printing helpers (tc_explain.c, rt_explain.c, hexdump.c). RuleEngine keeps
  descriptors as model values.
* In StaticRules no other actor touches the static positions. Losses,
  restarts and dumps racing the queue are RuleEngine's.
* A read error on the scan socket (nl_receive.c: anything but EAGAIN stops
  the watcher without completing the request) stops the queue for good.
  Nothing times the request in flight out. No pass run could include it,
  so it is left out.
* A failed `sendto` is in the engine run, where the safety and progress
  properties hold. The rule it leaves PENDING with nothing sent breaks
  HeldRuleSettles. That was checked with a send failure alone; no run
  keeps that trace, because run restart_settle already shows the
  property failing.
