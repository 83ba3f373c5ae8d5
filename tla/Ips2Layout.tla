----------------------------- MODULE Ips2Layout -----------------------------
(***************************************************************************)
(* What the parts of the ipshark2 queue share: the states of a slot and    *)
(* the way ip_queue_create cuts one array of slots into a range            *)
(* [start, end) for each CPU.  ip_queue_create establishes Partition       *)
(* (Ips2Create); every other function of ip_queue.c relies on it           *)
(* (Ips2Queue).                                                            *)
(***************************************************************************)
EXTENDS Integers

\* ips.h: the states of a slot of the shared area.
MEM_FREE  == "free"
MEM_INUSE == "inuse"
MEM_USED  == "used"
MemState  == {MEM_FREE, MEM_INUSE, MEM_USED}

\* The slots that belong to a queue_data {start, end}.
Range2Slots(start, end) == start .. end - 1

(***************************************************************************)
(* The ranges of the CPUs cut the slots 0 .. total-1 into disjoint parts   *)
(* that leave no slot out.                                                 *)
(***************************************************************************)
Partition(C, start, end, total) ==
  /\ \A c \in C : Range2Slots(start[c], end[c]) \subseteq 0 .. total - 1
  /\ \A s \in 0 .. total - 1 :
        \E c \in C : s \in Range2Slots(start[c], end[c])
  /\ \A c, d \in C : c # d =>
        Range2Slots(start[c], end[c]) \cap Range2Slots(start[d], end[d]) = {}
=============================================================================
