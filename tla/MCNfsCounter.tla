---------------------------- MODULE MCNfsCounter ----------------------------
(* An address that is kept as it is, one that loses its last bytes, and two  *)
(* whose len is none.  The threads are alike, and so are the entries.        *)
EXTENDS NfsCounter, TLC

MCStored == [a \in Addr |-> IF a = "v6" THEN "cut" ELSE a]
MCSymmetry == Permutations(Caller) \cup Permutations(Entries)
=============================================================================
