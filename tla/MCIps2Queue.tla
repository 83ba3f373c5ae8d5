---------------------------- MODULE MCIps2Queue ----------------------------
(***************************************************************************)
(* Small instances of Ips2Queue.  Two slots per CPU (the smallest size     *)
(* kfifo_alloc accepts) and a batch of two: a fetch can fill idx_array     *)
(* before it has seen every CPU.                                           *)
(***************************************************************************)
EXTENDS Ips2Queue, TLC

CONSTANTS P1, P2

MCProducer == {P1, P2}
MCOneProducer == {P1}
Symmetry   == Permutations(MCProducer)

\* CPU c owns the slots 2c and 2c+1.
MCStart == [c \in CPU |-> 2 * c]
MCEnd   == [c \in CPU |-> 2 * c + 2]
MCCap   == [c \in CPU |-> 2]

\* The careless user of ips2_careless does not even fetch: what he frees is
\* none of what he was given.  The ready lists then only fill up, which is the
\* sooner the case in which an index is put back.
NeverFetches == Init /\ [][Next /\ UNCHANGED fetchVars]_vars
=============================================================================
