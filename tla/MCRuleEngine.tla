--------------------------- MODULE MCRuleEngine ---------------------------
(***************************************************************************)
(* Instances of RuleEngine for TLC.  The chain has the TTL-check rule at   *)
(* priority 1 (as chains 1 and 2 do), min_prio scaled from 100 to 2, and   *)
(* a few priorities above it.                                              *)
(***************************************************************************)
EXTENDS RuleEngine, TLC

CONSTANTS o1, o2, d1, d2, a1, s1

MCOwners == {o1, o2}
MCOwner == {o1}
MCDynDescs == {d1, d2}
MCDynDesc == {d1}
MCAlienDescs == {a1}
\* No operator adds filters.
MCNoAlienDescs == {}
MCStaticWant == 1 :> s1

\* The kernel after a fresh boot: no filter in the chain.
MCFreshKernel == {[p \in 1..MaxPrio |-> None]}
\* The kernel a previous run of the program left: its static rule and at
\* most one more filter, owned or not, at the top priority, so that a new
\* rule is placed in the gap below it.
MCLeftKernels ==
    {[p \in 1..MaxPrio |-> IF p = 1 THEN s1 ELSE None]}
      \cup {[p \in 1..MaxPrio |-> CASE p = 1 -> s1 [] p = MaxPrio -> d [] OTHER -> None]
              : d \in {d1, a1}}

\* A previous run left its static rule and nothing else.
MCStaticKernel == {[p \in 1..MaxPrio |-> IF p = 1 THEN s1 ELSE None]}

\* A fresh boot, or the leftovers of a previous run that had installed an
\* owner's rule.  The other leftovers are reached from a fresh boot within
\* the bounds: the static rule alone by Restart, an operator's filter by
\* ExternalAdd then Restart.  An owner's leftover is not, because the one
\* request would be spent before the restart that has to adopt it.
MCAnyKernel ==
    MCFreshKernel
      \cup {[p \in 1..MaxPrio |-> CASE p = 1 -> s1 [] p = MaxPrio -> d1 [] OTHER -> None]}

LimitOf(req, rel, ext, frn, lose, rst, sf) ==
    [request |-> req, release |-> rel, external |-> ext, foreign |-> frn,
     lose |-> lose, restart |-> rst, sendfail |-> sf]

\* One request and its release by an owner, one operator
\* change, one filter deleted on another device, one lost notification,
\* one restart and one failed send: every kind of event the safety and the
\* liveness properties must survive.
LimitBroad == LimitOf(1, 1, 1, 1, 1, 1, 1)
\* The program alone.
LimitQuiet == LimitOf(0, 0, 0, 0, 0, 0, 0)
\* One request, kept.
LimitRequest == LimitOf(1, 0, 0, 0, 0, 0, 0)
\* One operator change of the chain.
LimitExternal == LimitOf(0, 0, 1, 0, 0, 0, 0)
=============================================================================
