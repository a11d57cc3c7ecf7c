---------------------------- MODULE RequestQueue ----------------------------
(***************************************************************************)
(* What the request queue promises its users (spec.md 4.2 and 4.7),        *)
(* stated over the queue, its busy flag and the filter table the requests  *)
(* change:                                                                 *)
(*   - requests join at the tail and leave at the head, in order ("the    *)
(*     request queue imposes total FIFO order on mutations");              *)
(*   - the queue is busy exactly while it holds requests: at most one is  *)
(*     in flight, and none waits behind an idle queue;                    *)
(*   - the table changes only by the request that is sent as the new head *)
(*     (or not at all, if the kernel refuses it or the send fails), and by *)
(*     an operator's changes;                                              *)
(*   - the process may die, and the queue with it; the table stays.       *)
(* A step is one event handler run to completion, which may complete the  *)
(* request in flight, complete requests whose send failed, queue new ones  *)
(* and send the next.                                                      *)
(***************************************************************************)
EXTENDS Sequences, SequencesExt

CONSTANTS Pos, Descs, None

Table == [Pos -> Descs \cup {None}]

\* A request: an install (desc) or an uninstall (desc None) at a priority,
\* or one of the scan's dumps, which changes nothing (pos None).
Request == [kind: {"install", "uninstall", "filters", "objects"},
            pos: Pos \cup {None}, desc: Descs \cup {None}]

VARIABLES q, busy, kernel

vars == <<q, busy, kernel>>

TypeOK == q \in Seq(Request) /\ busy \in BOOLEAN /\ kernel \in Table

Init == q = <<>> /\ busy = FALSE /\ kernel \in Table

\* The kernel's effect of request r: NEWTFILTER with NLM_F_EXCL fills an
\* empty priority, DELTFILTER empties a full one, anything else is refused.
Apply(r, k) ==
    IF r.pos = None THEN k
    ELSE IF r.desc # None /\ k[r.pos] = None THEN [k EXCEPT ![r.pos] = r.desc]
    ELSE IF r.desc = None /\ k[r.pos] # None THEN [k EXCEPT ![r.pos] = None]
    ELSE k

\* One handler's work on the queue: the first n requests complete, new
\* ones join behind the rest, and if the head changed it is sent.
Handle(n) ==
    /\ IsPrefix(SubSeq(q, n + 1, Len(q)), q')
    /\ busy' = (q' # <<>>)
    /\ kernel' \in IF busy' /\ (n > 0 \/ ~busy)
                   THEN {kernel, Apply(Head(q'), kernel)}
                   ELSE {kernel}

Step == \E n \in 0..Len(q) : Handle(n)

\* A step that completes the request in flight (its answer was read).
Answer == busy /\ \E n \in 1..Len(q) : Handle(n)

\* `tc filter add` / `tc filter del` by an operator.
Operator ==
    /\ \E p \in Pos, d \in Descs \cup {None} : kernel' = [kernel EXCEPT ![p] = d]
    /\ UNCHANGED <<q, busy>>

\* The process dies: the queue is gone, the kernel keeps its filters.
Crash == q' = <<>> /\ busy' = FALSE /\ UNCHANGED kernel

Next == Step \/ Operator \/ Crash

SafeSpec == Init /\ [][Next]_vars

\* Every request sent is answered: the event loop reads the scan socket
\* whenever it is readable.
Spec == SafeSpec /\ WF_vars(Answer)

\* Answer is enabled exactly when the queue is busy (n = 1 and q' = Tail(q)
\* satisfy Handle), so this is WF_vars(Answer) with its ENABLED computed;
\* TLC cannot compute that ENABLED through a refinement mapping.
AnswerFair == []<>~busy \/ []<><<Answer>>_vars
=============================================================================
