----------------------------- MODULE MCIps2E2E -----------------------------
(***************************************************************************)
(* Three CPUs with as many slots each as a round has packets at most.      *)
(***************************************************************************)
EXTENDS Ips2E2E

MCProducer == {Tester}
MCStart == [c \in CPU |-> Batch * c]
MCEnd   == [c \in CPU |-> Batch * (c + 1)]
MCCap   == [c \in CPU |-> Batch]
=============================================================================
