----------------------------- MODULE RuleEngine -----------------------------
(***************************************************************************)
(* The rule engine of flower-route (src/src/obj_rule.c) together with the  *)
(* request queue it installs through (nl_queue.c, tc_action.c), the kernel *)
(* filter table it reconciles against, and the two netlink sockets that    *)
(* connect them: the scan socket (requests, their ACKs and the filter      *)
(* dumps) and the monitor socket (RTM_NEWTFILTER / RTM_DELTFILTER events). *)
(*                                                                         *)
(* The program is one libev loop: every handler runs to completion, and a  *)
(* nested call that schedules a queue item while the queue is idle runs    *)
(* that item at once (queue_schedule -> queue_process_loop).  The          *)
(* handlers are therefore written as operators from a record `w` of the   *)
(* program and kernel state to the record after the call, composed in the  *)
(* order of the C code; each action of Next applies one event handler.     *)
(*                                                                         *)
(* Positions are the priorities of one chain; a rule descriptor           *)
(* (struct tc_rule) is a model value.  Owners stand for the routes and     *)
(* targets that request rules and drop them (obj_route.c, obj_target.c).   *)
(***************************************************************************)
EXTENDS Integers, Sequences, FiniteSets, SequencesExt, FindAvailable

CONSTANTS
    Owners,       \* routes / targets holding a requested rule
    DynDescs,     \* descriptors owners request (ROUTE_GOTO, FORWARD)
    AlienDescs,   \* descriptors only an operator's `tc filter add` creates
    StaticWant,   \* [priority -> descriptor]: sched_basic_initial_requests
    MinPrio,      \* min_prio of sched_basic_place for ROUTE_GOTO (100)
    MaxPrio,      \* bound: highest priority of the chain in the model
    InitKernels,  \* the filter tables the kernel may hold at start
    Limit,        \* [EnvKinds -> Nat]: bound on each environment event
    None, NoRule

EnvKinds == {"request", "release", "external", "foreign", "lose", "restart", "sendfail"}
Pos == 1..MaxPrio
StaticPos == DOMAIN StaticWant
Descs == DynDescs \cup AlienDescs \cup Range(StaticWant)
Table == [Pos -> Descs \cup {None}]

ASSUME /\ StaticPos \subseteq 1..(MinPrio - 1)
       /\ MaxPrio < 2^PrioBits
       /\ InitKernels \subseteq Table
       /\ Limit \in [EnvKinds -> Nat]

RuleStates == {"NEW", "ALIEN", "WANT", "QUEUED", "PENDING", "OK", "ZOMBIE"}

\* struct obj_rule, reduced to what the engine reads.  The obj state
\* INSTALLED is set exactly when `have` goes from NULL to a descriptor
\* (obj_rule_netlink_found) and PRESENT exactly when `have` is freed
\* (obj_rule_delete), so it is `have # None` and not stored.
Rule == [st: RuleStates, have: Descs \cup {None}, want: Descs \cup {None},
         ref: Nat, laf: BOOLEAN, static: BOOLEAN]

\* struct queue_item with its struct tc_action: `held` is true while the
\* item owns the rule reference taken by obj_rule_queue_(un)install.  The
\* scan's items are the filter dump (scan_filters and the chain dumps) and
\* the dumps of links, neighbours and routes, which carry no filters.
Item == [kind: {"install", "uninstall", "filters", "objects"}, pos: Pos \cup {None},
         desc: Descs \cup {None}, held: BOOLEAN]

\* Netlink messages: filter records (dump or monitor) with their tcm_handle,
\* the end of a dump, and the ACK / error answer to a request.
Msg == [type: {"NEW", "DEL", "DONE", "ACK", "NACK"},
        pos: Pos \cup {None}, desc: Descs \cup {None}, handle: {0, 1, 2}]

\* Memory faults the C code would commit, and the two that end the process:
\* a failed AN() and a read through a NULL `have`.
Fatal == {"abort", "segv"}
Faults == {"dangling", "underflow", "iter_reaped"} \cup Fatal

VARIABLES
    rules,   \* [Pos -> Rule \cup {NoRule}]: the positional tree
    pin,     \* obj_rule_pin_changes
    queue,   \* the request queue Q, head first; head is in flight if busy
    busy,    \* Q.is_busy
    kernel,  \* the kernel's filter table of the chain
    mon,     \* monitor socket: notifications not yet read
    sock,    \* scan socket: answer to the request in flight not yet read
    scan,    \* struct scan state: "NEW", "FILTERS", "OBJECTS", "WAIT"
    own,     \* [Owners -> Pos \cup {None}]: the rule each owner holds
    faults,  \* memory-safety faults the C code would commit
    sendfail, \* the next mnl_socket_sendto of an install or uninstall fails
    used     \* [EnvKinds -> Nat]: environment events so far

vars == <<rules, pin, queue, busy, kernel, mon, sock, scan, own, faults, sendfail, used>>

\* The program and kernel state a handler works on.
world == [rules |-> rules, pin |-> pin, queue |-> queue, busy |-> busy,
          kernel |-> kernel, mon |-> mon, sock |-> sock, own |-> own,
          faults |-> faults, sendfail |-> sendfail]

\* The state after a handler; `v` is bound once to the computed record.
Commit(w) ==
    \E v \in {w} :
        /\ rules' = v.rules /\ pin' = v.pin /\ queue' = v.queue
        /\ busy' = v.busy /\ kernel' = v.kernel /\ mon' = v.mon
        /\ sock' = v.sock /\ own' = v.own /\ faults' = v.faults
        /\ sendfail' = v.sendfail

-----------------------------------------------------------------------------
(* Helpers of obj_rule.c *)

NewRule(have, want, ref, static) ==
    [st |-> "NEW", have |-> have, want |-> want, ref |-> ref,
     laf |-> FALSE, static |-> static]

Occupied(w) == {p \in Pos : w.rules[p] # NoRule}

\* obj_rule_laf_lookup: the lost-and-found rule whose `have` equals d.
LafHits(w, d) == {p \in Occupied(w) : w.rules[p].laf /\ w.rules[p].have = d}

\* obj_is_reapable in OBJ_MODE_NORMAL (obj.c); the mode is never changed
\* by the program.
Reapable(r) == r.ref = 0 /\ r.have = None

\* References the code holds on the rule at p: owners and queue items.
Holders(w, p) ==
    Cardinality({o \in Owners : w.own[o] = p})
      + Cardinality({i \in DOMAIN w.queue :
                        w.queue[i].pos = p /\ w.queue[i].held})

AddFault(w, f) == [w EXCEPT !.faults = @ \cup {f}]

\* The process has not died.
Running(w) == w.faults \cap Fatal = {}

\* obj_rule_laf_lookup and obj_rule_laf_insert memcmp against the `have`
\* of each node on their way down the lost-and-found tree, and
\* obj_rule_delete frees `have` without taking the rule out of that tree;
\* a rule held meanwhile (by its queued uninstall) is not reaped, so its
\* node is read through a NULL pointer.  The tree holds at most two nodes
\* here, and the walk is taken to pass every one.
LafBroken(w) == \E p \in Occupied(w) : w.rules[p].laf /\ w.rules[p].have = None

\* obj_rule_reap: the rule leaves both trees and is freed.  A reference
\* still held elsewhere now points to freed memory.
Reap(w, p) ==
    LET w1 == [w EXCEPT !.rules[p] = NoRule]
    IN  IF Holders(w, p) > 0 THEN AddFault(w1, "dangling") ELSE w1

SetState(w, p, s) == [w EXCEPT !.rules[p].st = s]

Notice(type, p, d, h) == [type |-> type, pos |-> p, desc |-> d, handle |-> h]

Answer(type, p) == <<Notice(type, p, None, 0)>>

\* The kernel's answer to a request at priority p, which tc_encode_rule
\* sends with handle 0 (tce_set_tcm): NEWTFILTER (CREATE|EXCL) of d, or
\* DELTFILTER (d = None).  A delete empties the priority and is notified
\* with handle 0.  An add to an empty priority makes the filter with handle
\* 1; where the same filter is, it fails with EEXIST; where another filter
\* of the same protocol is (the program's filters are all 802.1Q, and the
\* operator's are taken to be), cls_flower adds a second one with handle 2,
\* notified so; the table keeps the first.  A delete of an empty priority
\* fails with ENOENT.  The requester gets the ACK or the error.
KernelRequest(w, p, d) ==
    LET cur == w.kernel[p] IN
    CASE d = None /\ cur # None ->
           [w EXCEPT !.kernel[p] = None, !.mon = Append(@, Notice("DEL", p, None, 0)),
                     !.sock = Answer("ACK", p)]
      [] d # None /\ cur = None ->
           [w EXCEPT !.kernel[p] = d, !.mon = Append(@, Notice("NEW", p, d, 1)),
                     !.sock = Answer("ACK", p)]
      [] d # None /\ cur \notin {None, d} ->
           [w EXCEPT !.mon = Append(@, Notice("NEW", p, d, 2)), !.sock = Answer("ACK", p)]
      [] OTHER -> [w EXCEPT !.sock = Answer("NACK", p)]

DoneMsg == Notice("DONE", None, None, 0)

\* The answer to a scan item's dump request, produced by the kernel as
\* it is sent: for the filter dump every filter of the chain in priority
\* order, then NLMSG_DONE.
ScanReply(kind, k) ==
    LET ps == SetToSortSeq({p \in Pos : k[p] # None}, <)
    IN  IF kind = "objects" THEN <<DoneMsg>>
        ELSE [i \in DOMAIN ps |-> Notice("NEW", ps[i], k[ps[i]], 1)]
               \o <<DoneMsg>>

\* handle_queue_completed: pop the head, the queue is idle again.
Pop(w) == [w EXCEPT !.queue = Tail(@), !.busy = FALSE]

-----------------------------------------------------------------------------
(***************************************************************************)
(* The handlers that call one another: obj_rule_update_state queues an    *)
(* item, queue_schedule runs it at once if the queue is idle, its          *)
(* post_install callback unrefs the rule, and obj_rule_unref may uninstall *)
(* the rule, which updates its state again.                               *)
(***************************************************************************)
RECURSIVE UpdateState(_, _), QueueInstall(_, _), QueueUninstall(_, _),
          Schedule(_, _), ProcessLoop(_), Execute(_), Unref(_, _),
          Uninstall(_, _)

\* Mutant: obj_rule_update_state without the early return on QUEUED.
RECURSIVE UpdateStateEvenQueued(_, _)
UpdateStateEvenQueued(w, p) ==
    LET r == w.rules[p] IN
    IF w.pin = 0 THEN w
    ELSE CASE r.want = None /\ r.have = None ->
                IF r.st = "NEW" THEN w ELSE SetState(w, p, "ZOMBIE")
           [] r.want = None /\ r.have # None ->
                QueueUninstall(SetState(w, p, "ALIEN"), p)
           [] r.want # None /\ r.have = None ->
                QueueInstall(SetState(w, p, "WANT"), p)
           [] r.want # None /\ r.have = r.want ->
                SetState(w, p, "OK")
           [] r.want # None /\ r.have \notin {None, r.want} ->
                QueueUninstall(SetState(w, p, "ALIEN"), p)

\* obj_rule_update_state
UpdateState(w, p) ==
    LET r == w.rules[p] IN
    IF w.pin = 0 \/ r.st = "QUEUED" THEN w
    ELSE CASE r.want = None /\ r.have = None ->
                IF r.st = "NEW" THEN w ELSE SetState(w, p, "ZOMBIE")
           [] r.want = None /\ r.have # None ->
                QueueUninstall(SetState(w, p, "ALIEN"), p)
           [] r.want # None /\ r.have = None ->
                QueueInstall(SetState(w, p, "WANT"), p)
           [] r.want # None /\ r.have = r.want ->
                SetState(w, p, "OK")
           [] r.want # None /\ r.have \notin {None, r.want} ->
                QueueUninstall(SetState(w, p, "ALIEN"), p)

\* Mutant: the queued install takes no reference on the rule.
QueueInstallNoRef(w, p) ==
    IF w.pin < 2 THEN w
    ELSE Schedule([w EXCEPT !.rules[p].st = "QUEUED"],
                  [kind |-> "install", pos |-> p, desc |-> w.rules[p].want,
                   held |-> TRUE])

\* obj_rule_queue_install: tc_action_install keeps the pointer r->want.
QueueInstall(w, p) ==
    IF w.pin < 2 THEN w
    ELSE Schedule([w EXCEPT !.rules[p].st = "QUEUED", !.rules[p].ref = @ + 1],
                  [kind |-> "install", pos |-> p, desc |-> w.rules[p].want,
                   held |-> TRUE])

\* obj_rule_queue_uninstall
QueueUninstall(w, p) ==
    IF w.pin < 3 THEN w
    ELSE Schedule([w EXCEPT !.rules[p].st = "QUEUED", !.rules[p].ref = @ + 1],
                  [kind |-> "uninstall", pos |-> p, desc |-> None, held |-> TRUE])

\* Mutant: queue_schedule linking the new item in at the head.
ScheduleAtHead(w, it) ==
    LET w1 == [w EXCEPT !.queue = <<it>> \o @]
    IN  IF w.busy THEN w1 ELSE ProcessLoop(w1)

\* queue_schedule: append; run the queue if no request is in flight.
Schedule(w, it) ==
    LET w1 == [w EXCEPT !.queue = Append(@, it)]
    IN  IF w.busy THEN w1 ELSE ProcessLoop(w1)

\* queue_process_loop: every item of this model sends a request, so the
\* loop stops after the first one (Q.has_sent_request).
ProcessLoop(w) ==
    IF w.queue # <<>> /\ ~w.busy THEN Execute(w) ELSE w

\* Mutant: tc_action_execute without the pre_install callback.
ExecuteNoPre(w) ==
    LET it == Head(w.queue)
        w0 == [w EXCEPT !.busy = TRUE]
    IN  IF it.pos = None THEN [w0 EXCEPT !.sock = ScanReply(it.kind, w.kernel)]
        ELSE Unref([KernelRequest(w0, it.pos, it.desc)
                      EXCEPT !.queue[1].held = FALSE], it.pos)

\* queue_process with tc_action_execute (pre_install, install,
\* post_install) or with the scan helper that sends a dump request.  When
\* mnl_socket_sendto fails, nl_send_req returns before on_send_req, so
\* Q.has_sent_request stays false and queue_process_loop completes the
\* item at once with errno 0 (handle_queue_completed), then runs the next.
Execute(w) ==
    LET w0 == [w EXCEPT !.busy = TRUE]
        it == Head(w0.queue)
        p  == it.pos
    IN  IF it.pos = None
        THEN [w0 EXCEPT !.sock = ScanReply(it.kind, w0.kernel)]
        ELSE IF w0.rules[p] = NoRule THEN AddFault(w0, "dangling")
        ELSE LET w1 == SetState(w0, p, "PENDING")
                 w3 == IF w0.sendfail THEN [w1 EXCEPT !.sendfail = FALSE]
                       ELSE KernelRequest(w1, p, it.desc)
                 w4 == Unref([w3 EXCEPT !.queue[1].held = FALSE], p)
             IN  IF w0.sendfail THEN ProcessLoop(Pop(w4)) ELSE w4

\* obj_rule_unref
Unref(w, p) ==
    IF w.rules[p] = NoRule THEN AddFault(w, "dangling")
    ELSE IF w.rules[p].ref = 0 THEN AddFault(w, "underflow")
    ELSE LET w1 == [w EXCEPT !.rules[p].ref = @ - 1]
             r  == w1.rules[p]
             w2 == IF r.ref = 0 /\ r.want # None /\ r.have # None /\ ~r.static
                   THEN Uninstall(w1, p) ELSE w1
         IN  IF w2.rules[p] # NoRule /\ Reapable(w2.rules[p])
             THEN Reap(w2, p) ELSE w2

\* obj_rule_uninstall
Uninstall(w, p) == UpdateState([w EXCEPT !.rules[p].want = None], p)

-----------------------------------------------------------------------------
(* Entry points of obj_rule.c *)

\* obj_rule_delete: a DELTFILTER for a known rule.
Delete(w, p) ==
    LET w1 == [w EXCEPT !.rules[p].ref = @ + 1, !.rules[p].have = None]
        w2 == IF w1.rules[p].want # None THEN UpdateState(w1, p) ELSE w1
    IN  Unref(w2, p)

\* obj_rule_netlink_found, with obj_rule_new / obj_rule_update.  A rule
\* in the lost-and-found tree is always in the positional tree too, so
\* the lookup by descriptor at the same position finds nothing more, but
\* it walks the tree, and so does obj_rule_laf_insert.
NetlinkFound(w, m) ==
    LET p == m.pos
        r == w.rules[p]
    IN  IF r = NoRule /\ LafBroken(w) THEN AddFault(w, "segv")
        ELSE CASE m.type = "DEL" /\ r = NoRule -> w
               [] m.type = "DEL" /\ r # NoRule -> Delete(w, p)
               [] m.type = "NEW" /\ r = NoRule ->
                    UpdateState([w EXCEPT !.rules[p] =
                                   [NewRule(m.desc, None, 0, FALSE)
                                      EXCEPT !.laf = LafHits(w, m.desc) = {}]], p)
               [] m.type = "NEW" /\ r # NoRule /\ r.have # m.desc ->
                    UpdateState([w EXCEPT !.rules[p].have = m.desc], p)
               [] m.type = "NEW" /\ r # NoRule /\ r.have = m.desc -> w

\* try_decode_filter, then obj_rule_netlink_found when it is done: a
\* record with handle 0 is skipped, one with another handle than 1 fails
\* AN(tcm_handle == 1).
DecodeFilter(w, m) ==
    CASE m.handle = 0 -> w
      [] m.handle = 1 -> NetlinkFound(w, m)
      [] m.handle = 2 -> AddFault(w, "abort")

\* sched_place for a new rule: the priority obj_rule_find_available_prio
\* returns; bounded by MaxPrio.
Placeable(w, d) ==
    LafHits(w, d) # {} \/ FindAvailablePrio(Occupied(w), MinPrio) <= MaxPrio

\* obj_rule_request = obj_rule_prime_request + obj_rule_queue_request; the
\* owner keeps the returned rule.
Request(w, o, d) ==
    LET hits == LafHits(w, d) IN
    IF LafBroken(w) THEN AddFault(w, "segv")
    ELSE IF hits # {}
    THEN LET q == CHOOSE q \in hits : TRUE
         IN  UpdateState([w EXCEPT !.rules[q].ref = @ + 2, !.rules[q].want = d,
                                   !.rules[q].laf = FALSE, !.own[o] = q], q)
    ELSE LET p == FindAvailablePrio(Occupied(w), MinPrio)
         IN  UpdateState([w EXCEPT !.rules[p] = NewRule(None, d, 1, FALSE),
                                   !.own[o] = p], p)

\* A target dropping its rule (obj_target_set_rule, obj_target_reap) or a
\* route replacing it: obj_rule_unref.
Release(w, o) == Unref([w EXCEPT !.own[o] = None], w.own[o])

\* obj_rule_remove_pin: four passes over the positional tree in order,
\* with obj_rule_pin_changes = 0, 1, 2, 3.  rb_next() is called on the
\* node just visited, so a rule reaped during its own visit is a fault.
RECURSIVE PinPass(_, _)
PinPass(w, p) ==
    IF p > MaxPrio THEN w
    ELSE IF w.rules[p] = NoRule THEN PinPass(w, p + 1)
    ELSE LET w1 == UpdateState(w, p)
         IN  PinPass(IF w1.rules[p] = NoRule THEN AddFault(w1, "iter_reaped")
                     ELSE w1, p + 1)

\* Mutants: remove_pin running one pass too few, or one too many.
RECURSIVE PinLevelsShort(_, _), PinLevelsLong(_, _)
PinLevelsShort(w, i) ==
    IF i > 2 THEN w ELSE PinLevelsShort(PinPass([w EXCEPT !.pin = i], 1), i + 1)
PinLevelsLong(w, i) ==
    IF i > 4 THEN w ELSE PinLevelsLong(PinPass([w EXCEPT !.pin = i], 1), i + 1)

RECURSIVE PinLevels(_, _)
PinLevels(w, i) ==
    IF i > 3 THEN w ELSE PinLevels(PinPass([w EXCEPT !.pin = i], 1), i + 1)

RemovePin(w) == IF w.pin >= 3 THEN w ELSE PinLevels(w, 0)

ScanItem(kind) == [kind |-> kind, pos |-> None, desc |-> None, held |-> FALSE]

\* queue_is_complete for an ACK or an error: handle_queue_completed pops
\* the item and calls tc_action_done, whose tacb.done is never set, so
\* the error is dropped; then the next item runs.
Complete(w) == ProcessLoop(Pop(w))

\* queue_is_complete for the end of the filter dump: advance_scan_cb runs
\* advance_scan, which schedules the next helper on the idle queue.
FiltersDone(w) == Schedule(Pop(w), ScanItem("objects"))

\* queue_is_complete for the end of the last dump: advance_scan_cb runs
\* advance_scan to SCAN_DONE, which removes the pin, then the next item.
ScanDone(w) == ProcessLoop(RemovePin(Pop(w)))

\* The rules after sched_init: the static wants, placed while the pin is
\* 0 so they stay NEW (obj_rule_static_want).
StaticRules ==
    [p \in Pos |-> IF p \in StaticPos THEN NewRule(None, StaticWant[p], 0, TRUE)
                   ELSE NoRule]

-----------------------------------------------------------------------------
(* The event loop *)

Init ==
    /\ rules = StaticRules
    /\ pin = 0
    /\ queue = <<>>
    /\ busy = FALSE
    /\ kernel \in InitKernels
    /\ mon = <<>>
    /\ sock = <<>>
    /\ scan = "NEW"
    /\ own = [o \in Owners |-> None]
    /\ faults = {}
    /\ sendfail = FALSE
    /\ used = [k \in EnvKinds |-> 0]

\* The handlers below run while the process lives.
Alive == Running(world)

\* scan_init, and scan_timeout_cb after the scan interval: advance_scan
\* schedules the filter dump (scan_filters and the chain dumps).
ScanStart ==
    /\ Alive /\ scan \in {"NEW", "WAIT"}
    /\ scan' = "FILTERS"
    /\ Commit(Schedule(world, ScanItem("filters")))
    /\ UNCHANGED used

\* nl_receive_cb on the scan socket reads until NLMSG_DONE or an answer
\* (each recvmsg makes the kernel produce the next part of a dump, so a
\* dump never stops at EAGAIN): the whole dump, every filter through
\* decode_filter (the queue is busy, so nothing is sent meanwhile), then
\* the end of the dump ...
DoneReady == sock # <<>> /\ Last(sock).type = "DONE"

DumpRecord(w, m) == IF Running(w) THEN DecodeFilter(w, m) ELSE w

ReceiveFilters ==
    /\ Alive /\ scan = "FILTERS" /\ DoneReady
    /\ LET v == FoldLeft(DumpRecord, [world EXCEPT !.sock = <<>>], Front(sock))
       IN  Commit(IF Running(v) THEN FiltersDone(v) ELSE v)
    /\ scan' = "OBJECTS"
    /\ UNCHANGED used

\* ... the end of the last dump of the scan ...
ReceiveObjects ==
    /\ Alive /\ scan = "OBJECTS" /\ DoneReady
    /\ Commit(ScanDone([world EXCEPT !.sock = <<>>]))
    /\ scan' = "WAIT"
    /\ UNCHANGED used

\* ... or the answer to an install or uninstall.
AckReady == Alive /\ sock # <<>> /\ Head(sock).type \in {"ACK", "NACK"}

ReceiveAck ==
    /\ AckReady
    /\ Commit(Complete([world EXCEPT !.sock = Tail(@)]))
    /\ UNCHANGED <<scan, used>>

\* monitor_response_read_cb: nl_receive_cb reads notifications until
\* EAGAIN, those of the requests its own handlers send included, each
\* through decode_filter.
RECURSIVE Drain(_)
Drain(w) ==
    IF w.mon = <<>> \/ ~Running(w) THEN w
    ELSE Drain(DecodeFilter([w EXCEPT !.mon = Tail(@)], Head(w.mon)))

ReceiveMonitor ==
    /\ Alive /\ mon # <<>>
    /\ Commit(Drain(world))
    /\ UNCHANGED <<scan, used>>

Env(k) == used[k] < Limit[k] /\ used' = [used EXCEPT ![k] = @ + 1]

OwnerRequest(o, d) ==
    /\ Alive /\ own[o] = None
    /\ Placeable(world, d)
    /\ Env("request")
    /\ Commit(Request(world, o, d))
    /\ UNCHANGED scan

OwnerRelease(o) ==
    /\ Alive /\ own[o] # None /\ rules[own[o]] # NoRule
    /\ Env("release")
    /\ Commit(Release(world, o))
    /\ UNCHANGED scan

\* An operator's `tc filter add` / `tc filter del ... handle 1 flower` on
\* the chain; the kernel notifies the filter with its handle.  The
\* environment's events are taken only while the process lives: a dead
\* process has no socket to overrun or send on, and with no supervisor
\* to start it again the kernel's later changes concern nothing modelled.
ExternalAdd(p, d) ==
    /\ Alive /\ kernel[p] = None
    /\ Env("external")
    /\ kernel' = [kernel EXCEPT ![p] = d]
    /\ mon' = Append(mon, Notice("NEW", p, d, 1))
    /\ UNCHANGED <<rules, pin, queue, busy, sock, scan, own, faults, sendfail>>

ExternalDel(p) ==
    /\ Alive /\ kernel[p] # None
    /\ Env("external")
    /\ kernel' = [kernel EXCEPT ![p] = None]
    /\ mon' = Append(mon, Notice("DEL", p, kernel[p], 1))
    /\ UNCHANGED <<rules, pin, queue, busy, sock, scan, own, faults, sendfail>>

\* A filter added or deleted at priority p of the same chain number on
\* another device (`tc filter` there, or a second instance on another
\* NIC): RTNLGRP_TC reports every device's filters, and try_decode_filter
\* does not compare tcm_ifindex with config->ifidx (decode_qdisc and
\* decode_chain do), so the notification is read as this chain's.  The
\* model sends the DEL, which is read by position only (a NEW from another
\* device is not modelled).  It counts as an operator change too.
ForeignFilter(type, p, d) ==
    /\ Alive
    /\ used["foreign"] < Limit["foreign"] /\ used["external"] < Limit["external"]
    /\ used' = [used EXCEPT !["foreign"] = @ + 1, !["external"] = @ + 1]
    /\ mon' = Append(mon, Notice(type, p, d, 1))
    /\ UNCHANGED <<rules, pin, queue, busy, kernel, sock, scan, own, faults, sendfail>>

\* The monitor socket overruns (ENOBUFS): nl_receive_cb gives up on the
\* read, monitor_response_read_cb restarts the watcher, the notification
\* is gone.
LoseNotification ==
    /\ Alive
    /\ \E i \in DOMAIN mon : mon' = RemoveAt(mon, i)
    /\ Env("lose")
    /\ UNCHANGED <<rules, pin, queue, busy, kernel, sock, scan, own, faults, sendfail>>

\* The process exits and is started again: its memory and sockets are
\* gone, the kernel's filters stay; main runs sched_init then scan_init.
\* A process that died is not started again: the repository ships no
\* supervisor.
Restart ==
    /\ Alive /\ Env("restart")
    /\ rules' = StaticRules
    /\ pin' = 0
    /\ queue' = <<>>
    /\ busy' = FALSE
    /\ mon' = <<>>
    /\ sock' = <<>>
    /\ scan' = "NEW"
    /\ own' = [o \in Owners |-> None]
    /\ sendfail' = FALSE
    /\ UNCHANGED <<kernel, faults>>

\* mnl_socket_sendto fails for the next request the queue sends (ENOBUFS,
\* ENOMEM): the kernel never sees it.
SendFails ==
    /\ Alive /\ ~sendfail
    /\ Env("sendfail")
    /\ sendfail' = TRUE
    /\ UNCHANGED <<rules, pin, queue, busy, kernel, mon, sock, scan, own, faults>>

Next ==
    \/ ScanStart \/ ReceiveFilters \/ ReceiveObjects \/ ReceiveAck
    \/ ReceiveMonitor
    \/ \E o \in Owners, d \in DynDescs : OwnerRequest(o, d)
    \/ \E o \in Owners : OwnerRelease(o)
    \/ \E p \in Pos, d \in AlienDescs : ExternalAdd(p, d)
    \/ \E p \in Pos : ExternalDel(p)
    \/ \E p \in Pos : ForeignFilter("DEL", p, None)
    \/ LoseNotification
    \/ Restart
    \/ SendFails

\* ReceiveFilters and ReceiveObjects are enabled exactly when the process
\* lives and the scan socket holds a whole dump in their stage of the
\* scan, and they are the
\* only steps taking scan from FILTERS to OBJECTS and from OBJECTS to WAIT;
\* their weak fairness is written out in that form so that TLC need not
\* evaluate the handlers (remove_pin above all) to decide ENABLED.
WFReceiveScan(from, to) ==
    []<>~(Alive /\ scan = from /\ DoneReady) \/ []<><<scan = from /\ scan' = to>>_vars

\* Likewise for ReceiveMonitor, enabled exactly when the process lives and
\* the monitor socket is readable, whose steps are those that empty it or
\* end the process; the only other such steps, of LoseNotification and
\* Restart, happen finitely often, so the formula is equivalent to
\* WF_vars(ReceiveMonitor).
MonitorReady == Alive /\ mon # <<>>

WFReceiveMonitor ==
    []<>~MonitorReady
      \/ []<><<MonitorReady /\ (mon' = <<>> \/ faults' \cap Fatal # {})>>_vars

\* ScanStart is enabled exactly when the process lives and the scan waits
\* (or is new), and is the only step starting the filter dump; ReceiveAck is enabled exactly when
\* the scan socket's next message is an answer, and every ReceiveAck step
\* changes the variables.  Written out, their weak fairness needs no
\* ENABLED of a handler chain.
WFScanStart ==
    []<>~(Alive /\ scan \in {"NEW", "WAIT"})
      \/ []<><<scan \in {"NEW", "WAIT"} /\ scan' = "FILTERS">>_vars

WFReceiveAck == []<>~AckReady \/ []<><<ReceiveAck>>_vars

\* The loop reads a readable socket and fires an expired timer.
Fairness ==
    /\ WFScanStart
    /\ WFReceiveScan("FILTERS", "OBJECTS") /\ WFReceiveScan("OBJECTS", "WAIT")
    /\ WFReceiveAck /\ WFReceiveMonitor

Spec == Init /\ [][Next]_vars /\ Fairness

-----------------------------------------------------------------------------
(* Properties *)

TypeOK ==
    /\ rules \in [Pos -> Rule \cup {NoRule}]
    /\ pin \in 0..3
    /\ queue \in Seq(Item) /\ busy \in BOOLEAN
    /\ kernel \in Table
    /\ mon \in Seq(Msg) /\ sock \in Seq(Msg)
    /\ scan \in {"NEW", "FILTERS", "OBJECTS", "WAIT"}
    /\ own \in [Owners -> Pos \cup {None}]
    /\ faults \subseteq Faults
    /\ sendfail \in BOOLEAN
    /\ used \in [EnvKinds -> Nat]

\* Reference counting of rules is sound: obj_rule_unref never finds the
\* count at zero (AN in obj_unref), and obj_rule_reap never frees a rule
\* that an owner (route, target) or a queued tc_action still points to,
\* across the nested unrefs of post_install, obj_rule_delete and
\* obj_rule_uninstall.
RefsSound == faults \cap {"dangling", "underflow"} = {}

\* The rule state QUEUED and the request queue agree: a rule is QUEUED
\* exactly when a queued item that has not yet run its pre_install holds
\* it.  obj_rule_update_state returns early on QUEUED on the strength of
\* this, and pre_install asserts it.
QueueAgreement ==
    \A p \in Pos :
        (rules[p] # NoRule /\ rules[p].st = "QUEUED")
          <=> \E i \in DOMAIN queue : queue[i].pos = p /\ queue[i].held

\* obj_rule_remove_pin walks the positional tree with rb_next(n) after
\* obj_rule_update_state(r); the visit must not free the rule it visits,
\* or rb_next reads the freed node.
PinWalkSafe == "iter_reaped" \notin faults

\* A rule in state OK has the filter it wants in the kernel.
\* obj_rule_update_state sets OK when `have` equals `want`, trusting `have`
\* to be what the kernel holds (spec.md: `have` is the rule observed in the
\* kernel), and obj_target_notify_routes then installs the routes' gotos
\* into the chain that rule starts.
OkInKernel ==
    \A p \in Pos : rules[p] # NoRule /\ rules[p].st = "OK" => kernel[p] = rules[p].want

\* Once every notification has been read (none lost) and no dump record
\* is pending, the positional tree agrees with the kernel: a filter at a
\* priority iff a rule there, with the filter as its `have`.  This is what
\* lets obj_rule_update_state decide from `have` alone.
ViewTracksKernel ==
    (used["lose"] = 0 /\ pin = 3 /\ mon = <<>>
       /\ \A i \in DOMAIN sock : sock[i].type # "NEW")
      => \A p \in Pos : IF rules[p] = NoRule THEN kernel[p] = None
                                          ELSE rules[p].have = kernel[p]

\* A rule the kernel holds as wanted is OK, the state on which
\* obj_target_notify_routes installs the routes of a target.
Settled(p) ==
    rules[p] # NoRule /\ rules[p].st = "OK" /\ kernel[p] = rules[p].want

\* Every rule an owner requests is eventually installed and OK, unless
\* the owner lets it go first (spec.md: failed installs are retried).
HeldRuleSettles ==
    \A o \in Owners : own[o] # None ~> (own[o] = None \/ Settled(own[o]))

\* The first scan completes and the program stays synchronised: the
\* dump is sent through the queue, its NLMSG_DONE reaches advance_scan_cb
\* and obj_rule_remove_pin lowers the pin through all its levels, however
\* owner requests and kernel answers interleave with it.
ScanSyncs == <>[](pin = 3)

\* Whatever is queued is sent: a rule in state QUEUED eventually leaves
\* it, because queue_schedule starts an idle queue and every answer read
\* by queue_is_complete runs the next item, unless the process dies first.
Queued(p) == rules[p] # NoRule /\ rules[p].st = "QUEUED"
QueuedSent == \A p \in Pos : Queued(p) ~> (~Queued(p) \/ ~Alive)

\* The request queue as its users see it (module RequestQueue): the items
\* of Q without the reference they hold, the busy flag, the chain's filters.
RQ == INSTANCE RequestQueue WITH
        q <- [i \in DOMAIN queue |-> [kind |-> queue[i].kind, pos |-> queue[i].pos,
                                      desc |-> queue[i].desc]]

\* The request queue of nl_queue.c with its users (obj_rule.c, scan.c,
\* tc_action.c) implements RequestQueue: queue_schedule appends and starts
\* only an idle queue, handle_queue_completed pops the head, and the filter
\* table changes only by the request queue_process sends, however the
\* nested calls of post_install, obj_rule_delete and remove_pin queue new
\* items meanwhile; and every request sent is answered, unless the process
\* dies (its queue is then left as it was, and nothing of it runs).
QueueRefines == RQ!SafeSpec /\ (RQ!AnswerFair \/ <>~Alive)
=============================================================================
