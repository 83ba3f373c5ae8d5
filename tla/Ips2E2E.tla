------------------------------ MODULE Ips2E2E ------------------------------
(***************************************************************************)
(* ip_queue_e2e_test2 of src/ipshark2/core/ut/ip_queue.c: one context puts *)
(* k packets, from whatever CPU it runs on at each of them, then calls     *)
(* ip_queue_move2dma and expects all k indexes in the array.               *)
(***************************************************************************)
EXTENDS Ips2Queue

CONSTANT Tester   \* the context that runs the test

\* The puts of one round; no fetch runs meanwhile.
TestPut == fpc = "user" /\ Put(Tester)

\* The test calls ip_queue_move2dma itself, without the wait of ips_fetch.
TestMove ==
  /\ ppc[Tester] = "out"
  /\ npkt \in 1 .. Batch
  /\ FetchGoto("user", "move")
  /\ UNCHANGED <<puttimes, held>>

TestNext == TestPut \/ TestMove \/ (fpc = "move" /\ FetchMove)

TestSpec == Init /\ [][TestNext]_vars

\* ut/ip_queue.c:119, `if (m->idx_num != k) return 3': a round of k puts that
\* all found a slot is fetched as a whole.
IdxNumIsK == fpc = "return" => Len(arr) = npkt
=============================================================================
