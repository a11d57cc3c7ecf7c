--------------------------- MODULE MCStaticRules ---------------------------
(***************************************************************************)
(* The prefixes of tests/options.c: `-p onload 192.0.2.0/24` and           *)
(* `-p onload 2001:db8::/48`.                                              *)
(***************************************************************************)
EXTENDS StaticRules

MCOnloadArgs ==
    <<[af |-> "INET", addr |-> <<192, 0, 2, 0>>, len |-> 24],
      [af |-> "INET6", addr |-> <<32, 1, 13, 184, 0, 0, 0, 0, 0, 0, 0, 0, 0, 0, 0, 0>>,
       len |-> 48]>>
=============================================================================
