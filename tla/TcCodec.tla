------------------------------- MODULE TcCodec -------------------------------
(***************************************************************************)
(* struct tc_rule and the flower filter messages that carry it: the rule   *)
(* builders (tc_rule.c, the prepare functions of obj_target.c, obj_route.c *)
(* and sched_basic.c), the encoder (tc_encode.c), the decoder              *)
(* (tc_decode.c), and the form in which the kernel reports a filter.       *)
(*                                                                         *)
(* Data.  Octets are naturals below 256.  A u32 word of lladdr.raw or of a *)
(* pedit key is a sequence of 4 octets in memory order, so the decoder's   *)
(* (word & mask) ^ val is computed octet by octet.  A bit set (flower      *)
(* flags, rule traits) is a set of names: equal sets are equal masks.  An  *)
(* attribute table (tb[] in the code) is a function from the names of the  *)
(* attributes present to their values; a name outside its domain is NULL. *)
(* Rules are compared by memcmp in the program and by = here, so every     *)
(* byte memcmp sees is a field: the two padding octets of struct af_addr   *)
(* (between mask_len and the 4-aligned address) included.                  *)
(***************************************************************************)
EXTENDS Integers, Sequences, SequencesExt, Bitwise

CONSTANT None   \* NULL: no rule, an absent attribute

Zeros(n) == [i \in 1..n |-> 0]

\* struct af_addr: family, prefix length, two padding octets, the address
\* union (16 octets, an IPv4 address in the first 4).
ZeroAfAddr == [af |-> "UNSPEC", mask_len |-> 0, pad |-> <<0, 0>>, in |-> Zeros(16)]

\* build_af_addr: memset, then family, length and the address octets.
BuildAfAddr(af, addr, len) ==
    [ZeroAfAddr EXCEPT !.af = af, !.mask_len = len,
                       !.in = [i \in 1..16 |-> IF i <= Len(addr) THEN addr[i] ELSE 0]]

\* A zeroed struct tc_rule (memset, or `= {0}`); ttl is never written and
\* is left out.  lladdr is the 12-octet union: dst then src.
ZeroRule == [type |-> "UNSPEC", vlan_id |-> 0, flower_flags |-> {}, goto_target |-> 0,
             traits |-> {}, af_addr |-> ZeroAfAddr, lladdr |-> Zeros(12)]

Octets == 0..255
AddressFamilies == {"UNSPEC", "INET", "INET6"}
TraitNames == {"AF", "IP", "GOTO", "TRAP", "TTL_CHECK", "TTL_DEC", "LLADDR", "VLAN_MOD"}
FlowerFlagNames == {"SKIP_SW", "SKIP_HW", "IN_HW", "NOT_IN_HW"}
AfAddrs == [af: AddressFamilies, mask_len: 0..128, pad: Seq(Octets), in: Seq(Octets)]

\* config_init: the default flower flags (--skip-hw is not modelled).
ConfigFlowerFlags == {"SKIP_SW", "IN_HW"}

\* type_traits[]: the traits each rule type has; UNSPEC and ALIEN have none.
TypeTraits ==
    [t \in {"UNSPEC", "ALIEN", "FORWARD", "ROUTE_TRAP", "ROUTE_GOTO", "ROUTE_DFT_GOTO",
            "TTL_CHECK"} |->
        CASE t = "FORWARD" -> {"AF", "LLADDR", "TTL_DEC", "VLAN_MOD"}
          [] t = "TTL_CHECK" -> {"AF", "TTL_CHECK", "TRAP"}
          [] t = "ROUTE_GOTO" -> {"AF", "IP", "GOTO"}
          [] t = "ROUTE_DFT_GOTO" -> {"AF", "GOTO"}
          [] t = "ROUTE_TRAP" -> {"AF", "IP", "TRAP"}
          [] OTHER -> {}]

TcRules == [type: DOMAIN TypeTraits, vlan_id: 0..4095, flower_flags: SUBSET FlowerFlagNames,
            goto_target: Nat, traits: SUBSET TraitNames, af_addr: AfAddrs,
            lladdr: Seq(Octets)]

\* The types in enum order, as tc_rule_detect scans them.
DetectOrder == <<"FORWARD", "ROUTE_TRAP", "ROUTE_GOTO", "ROUTE_DFT_GOTO", "TTL_CHECK">>

\* tc_rule_init.
RuleInit == [ZeroRule EXCEPT !.flower_flags = ConfigFlowerFlags]

\* tc_rule_set_type: an ALIEN rule keeps its type.
SetType(r, t) == IF r.type = "ALIEN" THEN r ELSE [r EXCEPT !.type = t]

\* tc_rule_set_type_and_traits.
SetTypeAndTraits(r, t) ==
    LET r1 == SetType(r, t)
    IN  IF r1.traits = {} THEN [r1 EXCEPT !.traits = TypeTraits[t]] ELSE r1

\* tc_rule_mark_alien.
MarkAlien(r) == SetType(r, "ALIEN")

AddTrait(r, x) == [r EXCEPT !.traits = @ \cup {x}]

\* Mutant of Detect: a default goto is reported under its own type.
DetectNoDefault(r) ==
    LET hits == {i \in DOMAIN DetectOrder : TypeTraits[DetectOrder[i]] = r.traits}
    IN  [type |-> IF hits = {} THEN "ALIEN" ELSE DetectOrder[Min(hits)], traits |-> r.traits]

\* tc_rule_detect: the first type whose traits are exactly the rule's; a
\* default goto (no prefix) is reported as a ROUTE_GOTO with its traits.
Detect(r) ==
    LET hits == {i \in DOMAIN DetectOrder : TypeTraits[DetectOrder[i]] = r.traits}
        t == IF hits = {} THEN "ALIEN" ELSE DetectOrder[Min(hits)]
    IN  IF t = "ROUTE_DFT_GOTO"
        THEN [type |-> "ROUTE_GOTO", traits |-> TypeTraits["ROUTE_GOTO"]]
        ELSE [type |-> t, traits |-> r.traits]

\* A hardware address: six octets, the model value in the last one, so
\* that 0 is the all-zero address.
MacOctets(m) == <<0, 0, 0, 0, 0, m>>

\* obj_target_prepare_rule, once its checks pass: the link's VLAN, the
\* neighbour's address as dst and the link's as src, the family.
ForwardRule(vlan, src, dst, af) ==
    SetTypeAndTraits([RuleInit EXCEPT !.vlan_id = vlan,
                                      !.lladdr = MacOctets(dst) \o MacOctets(src),
                                      !.af_addr.af = af], "FORWARD")

\* obj_route_prepare_rule: the route's destination and the chain of the
\* target's rule.
GotoRule(dst, chain) ==
    SetTypeAndTraits([RuleInit EXCEPT !.af_addr = dst, !.goto_target = chain],
                     "ROUTE_GOTO")

-----------------------------------------------------------------------------
(* The encoder: RTM_NEWTFILTER and RTM_DELTFILTER as the daemon sends them *)
(* (flags without TCE_FLAG_LOOPBACK).  A message is the header fields the  *)
(* decoder reads (type, handle, chain, prio) and the filter's kind and     *)
(* options; an action is its kind and its parameters.                      *)
(***************************************************************************)

NoKind == "nokind"

\* The octet 0xff << n stored in a uint8_t.
ShlOctet(n) == (255 * 2^n) % 256

\* htonl(0xffffffff << (32 - len)) for 0 < len <= 32, in memory order.
V4Mask(len) ==
    [i \in 1..4 |-> LET ones == len - 8 * (i - 1)
                    IN  IF ones >= 8 THEN 255 ELSE IF ones <= 0 THEN 0 ELSE ShlOctet(8 - ones)]

\* tce_build_ipv6_mask: from the last octet down, rem = 128 - mask_len.
RECURSIVE V6MaskLoop(_, _, _)
V6MaskLoop(m, i, rem) ==
    IF i < 1 THEN m
    ELSE IF rem >= 8 THEN V6MaskLoop([m EXCEPT ![i] = 0], i - 1, rem - 8)
    ELSE V6MaskLoop([m EXCEPT ![i] = ShlOctet(rem)], i - 1, 0)

V6Mask(len) == V6MaskLoop(Zeros(16), 16, 128 - len)

\* tce_match_prefix without TCE_FLAG_LOOPBACK.
MatchPrefix(p) ==
    CASE p.af = "INET" ->
            ("IPV4_DST" :> SubSeq(p.in, 1, 4)) @@
            ("IPV4_DST_MASK" :> IF p.mask_len > 0 THEN V4Mask(p.mask_len) ELSE Zeros(4))
      [] p.af = "INET6" ->
            ("IPV6_DST" :> p.in) @@ ("IPV6_DST_MASK" :> V6Mask(p.mask_len))
      [] OTHER -> <<>>

\* The action of a tc_gact: TC_ACT_TRAP, or TC_ACT_GOTO_CHAIN | chain.
Gact(op, val) == [kind |-> "gact", opts |-> [op |-> op, val |-> val]]

\* tce_simple_gact.
SimpleGact(op, val) == "ACT" :> <<Gact(op, val)>>

\* tce_set_eth_type: ETH_P_IP or ETH_P_IPV6 by family.
EthType(af) == IF af = "INET" THEN "IP" ELSE "IPV6"

\* The u32 word i (0, 1, 2) of lladdr.raw.
Word(l, i) == SubSeq(l, 4 * i + 1, 4 * i + 4)

\* tce_pedit_action: three SET keys writing lladdr.raw over the Ethernet
\* header, one ADD key decrementing the IPv4 TTL or the IPv6 hop limit.
PeditKeys(r) ==
    [i \in 1..3 |-> [htype |-> "ETH", cmd |-> "SET", off |-> 4 * (i - 1),
                     val |-> Word(r.lladdr, i - 1), mask |-> Zeros(4)]]
    \o <<IF r.af_addr.af = "INET"
         THEN [htype |-> "IP4", cmd |-> "ADD", off |-> 8,
               val |-> <<255, 0, 0, 0>>, mask |-> <<0, 255, 255, 255>>]
         ELSE [htype |-> "IP6", cmd |-> "ADD", off |-> 4,
               val |-> <<0, 0, 0, 255>>, mask |-> <<255, 255, 255, 0>>]>>

\* tce_add_ip_forward_rule: vlan modify, pedit, csum (IPv4 only), mirred
\* redirect to config->ifidx.
ForwardActions(r) ==
    <<[kind |-> "vlan", opts |-> [v_action |-> "MODIFY", push_vlan_id |-> r.vlan_id]],
      [kind |-> "pedit", opts |-> [keys |-> PeditKeys(r)]]>>
    \o (IF r.af_addr.af = "INET" THEN <<[kind |-> "csum", opts |-> [flags |-> "IPV4HDR"]]>>
                                 ELSE <<>>)
    \o <<[kind |-> "mirred", opts |-> [eaction |-> "EGRESS_REDIR", ifindex |-> "ifidx"]]>>

\* tc_encode_add_rule's switch on the rule type (no other type is encoded).
TypeAttrs(r) ==
    CASE r.type = "FORWARD" -> "ACT" :> ForwardActions(r)
      [] r.type = "ROUTE_TRAP" -> MatchPrefix(r.af_addr) @@ SimpleGact("TRAP", 0)
      [] r.type = "ROUTE_GOTO" -> MatchPrefix(r.af_addr) @@ SimpleGact("GOTO_CHAIN", r.goto_target)
      [] r.type = "TTL_CHECK" -> ("IP_TTL" :> 1) @@ ("IP_TTL_MASK" :> 255) @@ SimpleGact("TRAP", 0)

\* tce_new_flower_rule: IN_HW is stripped; the VLAN eth type by family,
\* the outer one 802.1Q.
FlowerOpts(r) ==
    ("FLAGS" :> r.flower_flags \ {"IN_HW"}) @@ ("VLAN_ETH_TYPE" :> EthType(r.af_addr.af))
    @@ ("ETH_TYPE" :> "8021Q") @@ TypeAttrs(r)

\* tc_encode_rule: add the rule at (chain, prio), or delete what is there.
Encode(chain, prio, r) ==
    IF r = None
    THEN [nlmsg_type |-> "DELTFILTER", handle |-> 0, chain |-> chain, prio |-> prio,
          kind |-> NoKind, opts |-> <<>>]
    ELSE [nlmsg_type |-> "NEWTFILTER", handle |-> 0, chain |-> chain, prio |-> prio,
          kind |-> "flower", opts |-> FlowerOpts(r)]

-----------------------------------------------------------------------------
(* The kernel's report of a filter.  A dump and a notification of         *)
(* RTM_NEWTFILTER or RTM_DELTFILTER carry the filter as cls_flower stores *)
(* it, not as it was sent (the comment at tc_encode.c:42-45): the handle  *)
(* it allocated (1, the first of its (chain, prio), for a NEWTFILTER     *)
(* sent with handle 0); the outer eth type                                 *)
(* is the VLAN one; a key whose mask is zero is not dumped; IN_HW is set  *)
(* once a SKIP_SW filter is in hardware (else the request fails).         *)
(***************************************************************************)

\* The keys of a prefix whose mask is all zero.
ZeroMasked(o) ==
    UNION {{d, mk} : <<d, mk>> \in {x \in {<<"IPV4_DST", "IPV4_DST_MASK">>,
                                           <<"IPV6_DST", "IPV6_DST_MASK">>} :
                                      x[2] \in DOMAIN o /\ \A i \in DOMAIN o[x[2]] : o[x[2]][i] = 0}}

\* A DELTFILTER sent with handle 0 (tce_set_tcm takes the handle from
\* TCE_FLAG_LOOPBACK, which only the tests pass) deletes every filter of
\* its (chain, prio); its notification names no filter: tcm_handle 0 and
\* no options.
KernelFilter(m) ==
    IF m.nlmsg_type = "DELTFILTER" /\ m.handle = 0 THEN [m EXCEPT !.opts = <<>>]
    ELSE [m EXCEPT !.handle = 1,
                   !.opts = [k \in DOMAIN m.opts \ ZeroMasked(m.opts) |->
                               CASE k = "ETH_TYPE" -> m.opts["VLAN_ETH_TYPE"]
                                 [] k = "FLAGS" -> m.opts["FLAGS"] \cup {"IN_HW"}
                                 [] OTHER -> m.opts[k]]]

-----------------------------------------------------------------------------
(* The decoder, tc_decode.c.                                               *)
(***************************************************************************)

\* decode_nlattr_tc_act_gact_cb (the chain is below 2^28, so the mask
\* TC_ACT_EXT_VAL_MASK leaves it as it is).
DecodeGact(r, p) ==
    CASE p.op = "GOTO_CHAIN" -> [AddTrait(r, "GOTO") EXCEPT !.goto_target = p.val]
      [] p.op = "TRAP" -> AddTrait(r, "TRAP")
      [] OTHER -> r

\* decode_nlattr_tc_act_vlan_cb.
DecodeVlan(r, p) ==
    LET r1 == IF p.v_action # "MODIFY" THEN MarkAlien(r) ELSE r
    IN  IF p.push_vlan_id > 0
        THEN [AddTrait(r1, "VLAN_MOD") EXCEPT !.vlan_id = p.push_vlan_id]
        ELSE r1

\* (a & b) ^ c over octet sequences.
MaskXor(a, b, c) == [i \in DOMAIN a |-> (a[i] & b[i]) ^^ c[i]]

\* The loop of decode_nlattr_tc_act_pedit_cb from key i on; a key it does
\* not accept jumps to mark_alien, keeping what earlier keys wrote.
RECURSIVE PeditLoop(_, _, _)
PeditLoop(r, keys, i) ==
    IF i > Len(keys) THEN r
    ELSE LET k == keys[i]
             w == k.off \div 4
         IN  CASE k.htype = "ETH" /\ k.cmd = "SET" /\ k.off % 4 = 0 /\ k.off <= 8 ->
                    PeditLoop([AddTrait(r, "LLADDR") EXCEPT
                                 !.lladdr = [j \in 1..12 |->
                                    IF j \in 4 * w + 1..4 * w + 4
                                    THEN MaskXor(Word(r.lladdr, w), k.mask, k.val)[j - 4 * w]
                                    ELSE r.lladdr[j]]], keys, i + 1)
               [] k.htype \in {"IP4", "IP6"} /\ k.cmd = "ADD" ->
                    PeditLoop(AddTrait(r, "TTL_DEC"), keys, i + 1)
               [] OTHER -> MarkAlien(r)

\* decode_nlattr_tc_act_pedit_cb: no keys is alien.
DecodePedit(r, p) == IF p.keys = <<>> THEN MarkAlien(r) ELSE PeditLoop(r, p.keys, 1)

\* decode_nlattr_tc_act_mirred_cb: the target ifindex is not looked at.
DecodeMirred(r, p) == IF p.eaction # "EGRESS_REDIR" THEN MarkAlien(r) ELSE r

\* decode_nlattr_tc_act_cb: an action without a kind is alien, one of a
\* kind without a helper is skipped; csum's helper does nothing.
DecodeAction(r, a) ==
    CASE a.kind = NoKind -> MarkAlien(r)
      [] a.kind = "gact" -> DecodeGact(r, a.opts)
      [] a.kind = "vlan" -> DecodeVlan(r, a.opts)
      [] a.kind = "pedit" -> DecodePedit(r, a.opts)
      [] a.kind = "mirred" -> DecodeMirred(r, a.opts)
      [] OTHER -> r

\* The octets 0xfe, 0xfc, ..., 0x80, 0x00 of count_ones's switch and the
\* ones each has.
LeadingOnes == [x \in {ShlOctet(8 - b) : b \in 0..7} |-> CHOOSE b \in 0..7 : ShlOctet(8 - b) = x]

\* The prefix length count_ones reads from the octets of a mask, from the
\* first on: 0xff counts 8 and goes on; an octet of leading ones ends the
\* count; any other octet is alien and counts 0.
RECURSIVE CountOnesLoop(_, _, _)
CountOnesLoop(data, i, ret) ==
    IF i > Len(data) THEN [n |-> ret, alien |-> FALSE]
    ELSE IF data[i] = 255 THEN CountOnesLoop(data, i + 1, ret + 8)
    ELSE IF data[i] \in DOMAIN LeadingOnes THEN [n |-> ret + LeadingOnes[data[i]], alien |-> FALSE]
    ELSE [n |-> 0, alien |-> TRUE]

\* count_ones: an absent mask is alien and counts 0.
CountOnes(o, k) == IF k \in DOMAIN o THEN CountOnesLoop(o[k], 1, 0) ELSE [n |-> 0, alien |-> TRUE]

\* The two family cases of decode_flower's switch: the family, and with a
\* destination key, its prefix (count_ones before build_af_addr).
DecodeDst(r, o, af, dk, mk) ==
    LET r1 == AddTrait([r EXCEPT !.af_addr.af = af], "AF")
        c == CountOnes(o, mk)
        r2 == IF c.alien THEN MarkAlien(r1) ELSE r1
    IN  IF dk \in DOMAIN o
        THEN AddTrait([r2 EXCEPT !.af_addr = BuildAfAddr(af, o[dk], c.n)], "IP")
        ELSE r1

\* The value of an optional attribute, None for an absent one.
Attr(o, k) == IF k \in DOMAIN o THEN o[k] ELSE None

\* decode_flower.
DecodeFlower(o, r) ==
    LET r1 == IF "ACT" \in DOMAIN o THEN FoldLeft(DecodeAction, r, o["ACT"]) ELSE MarkAlien(r)
        r2 == IF "FLAGS" \in DOMAIN o THEN [r1 EXCEPT !.flower_flags = o["FLAGS"]] ELSE r1
        r3 == CASE Attr(o, "IP_TTL") = None -> r2
                [] Attr(o, "IP_TTL") = 1 -> AddTrait(r2, "TTL_CHECK")
                [] OTHER -> MarkAlien(r2)
        vet == Attr(o, "VLAN_ETH_TYPE")
    IN  CASE vet # None /\ vet = Attr(o, "ETH_TYPE") /\ vet = "IP" ->
               DecodeDst(r3, o, "INET", "IPV4_DST", "IPV4_DST_MASK")
          [] vet # None /\ vet = Attr(o, "ETH_TYPE") /\ vet = "IPV6" ->
               DecodeDst(r3, o, "INET6", "IPV6_DST", "IPV6_DST_MASK")
          [] OTHER -> MarkAlien(r3)

\* try_decode_filter: the message's (chain, prio) and the rule it carries;
\* done is FALSE for a handle 0 message (one per (chain, prio) in a dump),
\* abort is the failed AN(tcm_handle == 1).  tcm_ifindex is not read.
Decode(m) ==
    LET r0 == IF m.kind = "flower" /\ m.opts # <<>> THEN DecodeFlower(m.opts, ZeroRule)
              ELSE IF m.nlmsg_type = "NEWTFILTER" THEN MarkAlien(ZeroRule)
              ELSE ZeroRule
        d == Detect(r0)
        r1 == IF m.nlmsg_type = "NEWTFILTER"
              THEN SetType([r0 EXCEPT !.traits = d.traits], d.type) ELSE r0
    IN  [done |-> m.handle # 0, abort |-> m.handle \notin {0, 1},
         chain |-> m.chain, prio |-> m.prio, tcr |-> r1]
=============================================================================
