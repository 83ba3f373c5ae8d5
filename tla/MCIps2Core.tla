----------------------------- MODULE MCIps2Core -----------------------------
(* The threads are alike, and so are the CPUs.                               *)
EXTENDS Ips2Core, TLC

MCSymmetry == Permutations(Caller) \cup Permutations(CPU)
=============================================================================
