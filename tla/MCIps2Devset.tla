---------------------------- MODULE MCIps2Devset ----------------------------
(***************************************************************************)
(* Ips2Devset for TLC: five names, two of them with the same hash; every   *)
(* list of up to three different names, four names with and without a      *)
(* clash in every order, and some lists with a name twice.                 *)
(***************************************************************************)
EXTENDS Ips2Devset, Functions

CONSTANTS n1, n2, n3, n4, n5

MCName == {n1, n2, n3, n4, n5}

MChash == [n \in MCName |-> CASE n = n1 -> 7 [] n = n2 -> 3 [] n = n3 -> 5 [] n = n4 -> 5 [] n = n5 -> 9]

Injective ==
  UNION ({Injection(0 .. n - 1, MCName) : n \in 0 .. 3}
    \cup {Injection(0 .. 3, S) : S \in {{n1, n2, n3, n5}, {n1, n2, n3, n4}}})

Doubled == {l \in [0 .. 3 -> {n1, n2}] : l[0] = l[2]}

MCConfigs ==
  UNION {[white_black : BOOLEAN, devnum : {n}, devlist : {l \in Injective \cup Doubled : DOMAIN l = 0 .. n - 1}] :
    n \in 0 .. 4}
=============================================================================
