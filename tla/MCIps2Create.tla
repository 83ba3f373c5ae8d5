---------------------------- MODULE MCIps2Create ----------------------------
(***************************************************************************)
(* Three CPUs and shorts of four bits: sums below, at and beyond the       *)
(* wrap-around all occur, as do sizes kfifo_alloc refuses and tables with  *)
(* no entry, one entry and two entries for a CPU.                          *)
(***************************************************************************)
EXTENDS Ips2Create

MCSizes  == {1, 2, 3, 7, 8, 9, 15}
Entry(c, n) == [cpuidx |-> c, size |-> n]
MCTables ==
  {<<Entry(c, n), Entry(d, k)>> : c \in {0, 1}, d \in {1, 2, 5}, n \in {1, 7, 8}, k \in {2, 3, 9}}
=============================================================================
