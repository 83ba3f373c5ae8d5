----------------------------- MODULE MCNfsRule ------------------------------
(***************************************************************************)
(* NfsRule for TLC.  The rules of the first instance have their wildcards, *)
(* per protocol, where the demo program of nfstat has them (TCP: direction *)
(* and remote port count, ICMP: nothing does), and UDP rules give both     *)
(* addresses; two of them overlap.                                         *)
(***************************************************************************)
EXTENDS NfsRule

CONSTANTS t1, t2

MCThread == {t1, t2}
Threads  == Permutations(MCThread)

IPPROTO_ICMP == 1
IPPROTO_TCP  == 6
IPPROTO_UDP  == 17

NFS_ALL == 0
NFS_IN  == 1
NFS_OUT == 2

R(protocol, dir, lport, rport, lip, rip, typeidx) ==
  [protocol |-> protocol, dir |-> dir, lport |-> lport, rport |-> rport,
   lip |-> lip, rip |-> rip, typeidx |-> typeidx]

UniformRules ==
  {R(IPPROTO_ICMP, NFS_ALL, 0, 0, 0, 0, 0), R(IPPROTO_TCP, NFS_OUT, 0, 80, 0, 0, 3),
   R(IPPROTO_TCP, NFS_IN, 0, 80, 0, 0, 2), R(IPPROTO_TCP, NFS_IN, 0, 81, 0, 0, 1), R(IPPROTO_TCP, NFS_IN, 0, 81, 0, 0, 2),
   R(IPPROTO_UDP, NFS_ALL, 53, 0, 1, 2, 1)}

UniformPackets ==
  {R(IPPROTO_ICMP, NFS_IN, 0, 0, 1, 2, 0), R(IPPROTO_TCP, NFS_IN, 53, 81, 1, 2, 0), R(IPPROTO_TCP, NFS_OUT, 53, 80, 1, 2, 0),
   R(IPPROTO_TCP, NFS_OUT, 53, 81, 1, 2, 0), R(IPPROTO_UDP, NFS_IN, 53, 80, 1, 2, 0), R(IPPROTO_UDP, NFS_IN, 53, 80, 2, 1, 0)}

\* A rule that leaves the direction open next to one that does not.
Out80 == R(IPPROTO_TCP, NFS_OUT, 0, 80, 0, 0, 0)
All90 == R(IPPROTO_TCP, NFS_ALL, 0, 90, 0, 0, 1)

MixedRules   == {Out80, All90}
MixedPackets == {R(IPPROTO_TCP, NFS_IN, 53, 90, 1, 2, 0)}

\* They are added in this order.  The kernel's tree of two nodes is known: the
\* node that was linked first is the root, for nothing is rotated.
MixedNext ==
  \E t \in Thread :
    \/ AddLock(t, IF order = <<>> THEN Out80 ELSE All90)
    \/ \E p \in Packets : FindLock(t, p)
    \/ \E m \in 1 .. Len(order) :
         /\ lo[t] = 1 /\ hi[t] = 2 => order[m] = Out80
         /\ Turn(t, m)
    \/ AddLink(t) \/ NotFound(t) \/ Unlock(t)

MixedSpec == Init /\ [][MixedNext]_vars
=============================================================================
