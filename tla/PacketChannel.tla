---------------------------- MODULE PacketChannel ----------------------------
(***************************************************************************)
(* What the queue of ipshark2 promises to the two sides that use it.       *)
(*                                                                         *)
(* Every CPU has a lossy FIFO of packets backed by Size[c] buffers.  A     *)
(* packet the hook hands over is either accepted, in order, or dropped,    *)
(* and it is dropped only when all the buffers of its CPU are taken.       *)
(* Fetching moves a prefix of the FIFO to the user, who owns the buffers   *)
(* of those packets until he gives them back.  A packet is handed over     *)
(* once: what was seen is never accepted again.                            *)
(***************************************************************************)
EXTENDS Naturals, Sequences, FiniteSets, SequencesExt

CONSTANTS
  CPU,      \* the possible CPUs
  Size,     \* the number of buffers of each CPU
  Packet,   \* the packets the hook may see
  Batch     \* how many packets one fetch returns at most

VARIABLES
  chan,     \* per CPU, the accepted packets the user has not fetched
  lent,     \* per CPU, the fetched packets whose buffers are not back yet
  seen      \* the packets accepted or dropped so far

chVars == <<chan, lent, seen>>

ChInit ==
  /\ chan = [c \in CPU |-> << >>]
  /\ lent = [c \in CPU |-> {}]
  /\ seen = {}

Taken(c) == Len(chan[c]) + Cardinality(lent[c])

Accept(c, p) ==
  /\ p \notin seen
  /\ Taken(c) < Size[c]
  /\ chan' = [chan EXCEPT ![c] = Append(@, p)]
  /\ seen' = seen \cup {p}
  /\ UNCHANGED lent

Drop(c, p) ==
  /\ p \notin seen
  /\ Taken(c) = Size[c]
  /\ seen' = seen \cup {p}
  /\ UNCHANGED <<chan, lent>>

Fetch(c, n) ==
  /\ lent' = [lent EXCEPT ![c] = @ \cup Range(SubSeq(chan[c], 1, n))]
  /\ chan' = [chan EXCEPT ![c] = SubSeq(@, n + 1, Len(@))]
  /\ UNCHANGED seen

Return(c, p) ==
  /\ lent' = [lent EXCEPT ![c] = @ \ {p}]
  /\ UNCHANGED <<chan, seen>>

ChNext ==
  \E c \in CPU :
    \/ \E p \in Packet : Accept(c, p) \/ Drop(c, p)
    \/ \E n \in 1 .. Batch : n <= Len(chan[c]) /\ Fetch(c, n)
    \/ \E p \in lent[c] : Return(c, p)

ChSpec == ChInit /\ [][ChNext]_chVars
=============================================================================
