---------------------------- MODULE IpsharkQueue ----------------------------
(***************************************************************************)
(* The way of a packet through ipshark: ip_queue_put by the hooks of every *)
(* CPU, and fetch_info, which waits, empties the kfifos one CPU after the  *)
(* other into its static array and copies it to the user.  Puts go on      *)
(* between any two of its steps.  IpsharkDev shows that one thread at a    *)
(* time is in fetch_info, and that the kfifos are there while it is.       *)
(***************************************************************************)
EXTENDS Integers, Sequences, FiniteSets

CONSTANTS
  NCpu,
  IP_FIFO_SIZE,
  Enough,     \* 255: the wait ends when more packets are there
  MaxFetch,   \* 1024: the entries of arr
  MaxPkts,    \* bound: packets that come by on a CPU
  MaxFaults   \* bound: signals, and copies and allocations that fail

ASSUME QueueAssumption ==
  /\ NCpu \in Nat \ {0} /\ IP_FIFO_SIZE \in Nat /\ Enough \in Nat
  /\ MaxFetch \in Nat \ {0} /\ MaxPkts \in Nat /\ MaxFaults \in Nat

CPU == 0 .. NCpu - 1

VARIABLES
  active,        \* the hooks are registered and the device list is set
  fifo,          \* by CPU: the packets in its kfifo, numbered as they came by
  next,          \* by CPU: how many came by
  kpc,           \* fetch_info: "out", "begin", "wait", "get", "copy", "ok", "error"
  kn,            \* s.n in the kernel
  cpu, infonum,  \* locals of ip_queue_get
  arr,           \* arr[0 .. copied-1], as <<CPU, number>>
  un, ubuf,      \* the user's s.n, and what was copied to its buffer
  lost, faults,  \* history: packets lost by CPU, faults
  there          \* history: packets in the queue when ip_queue_get began

queuevars == <<active, fifo, next, kpc, kn, cpu, infonum, arr, un, ubuf, lost, faults, there>>

QueueInit ==
  /\ active = FALSE
  /\ fifo = [c \in CPU |-> << >>] /\ next = [c \in CPU |-> 0]
  /\ kpc = "out" /\ kn = 0 /\ cpu = 0 /\ infonum = 0 /\ arr = << >>
  /\ un = 0 /\ ubuf = << >>
  /\ lost = [c \in CPU |-> 0] /\ faults = 0 /\ there = 0

Fault == faults < MaxFaults /\ faults' = faults + 1

\* Where the packets of a CPU are in a batch, and how many.
Places(c, batch) == {i \in DOMAIN batch : batch[i][1] = c}
From(c, batch) == Cardinality(Places(c, batch))

Lose(batch) == lost' = [c \in CPU |-> lost[c] + From(c, batch)]

\* kfifo_put finds room (mutation: one more).
HasRoomOff(c) == Len(fifo[c]) <= IP_FIFO_SIZE

HasRoom(c) == Len(fifo[c]) < IP_FIFO_SIZE

\* ip_queue_put, by the CPU's only producer.
ip_queue_put(c) ==
  LET fits == HasRoom(c) IN
  /\ active /\ next[c] < MaxPkts
  /\ next' = [next EXCEPT ![c] = @ + 1]
  /\ fifo' = IF fits THEN [fifo EXCEPT ![c] = Append(@, next[c])] ELSE fifo
  /\ lost' = IF fits THEN lost ELSE [lost EXCEPT ![c] = @ + 1]
  /\ UNCHANGED <<active, kpc, kn, cpu, infonum, arr, un, ubuf, faults, there>>

\* The packets in the kfifos from a CPU on, by CPU and place.
Queued(from) == UNION {{c} \X DOMAIN fifo[c] : c \in from .. NCpu - 1}

ip_queue_len == Cardinality(Queued(0))

-----------------------------------------------------------------------------
\* A step that changes neither a kfifo nor the array.
Steps(from, to) ==
  /\ kpc = from /\ kpc' = to
  /\ UNCHANGED <<active, fifo, next, cpu, infonum, arr, ubuf, lost, there>>

\* copy_from_user, and the test of s.n.
FetchBegins ==
  \/ Steps("begin", "error") /\ Fault /\ UNCHANGED <<kn, un>>
  \/ Steps("begin", IF un \in 1 .. MaxFetch THEN "wait" ELSE "error") /\ kn' = un /\ UNCHANGED <<un, faults>>

GoesOn == Steps("wait", "get") /\ UNCHANGED <<kn, un, faults>>

\* No packet: s.n is set to 0, and copied.
GivesUp == Steps("wait", "error") /\ kn' = 0 /\ un' \in {0, un}

\* The condition is looked at when the thread comes and when it is woken.
WaitReady == ip_queue_len > Enough /\ GoesOn

WaitTimeout ==
  \/ ip_queue_len > 0 /\ GoesOn
  \/ ip_queue_len = 0 /\ GivesUp /\ IF un' = 0 THEN faults' = faults ELSE Fault

WaitSignal == ip_queue_len <= Enough /\ GivesUp /\ un' = 0 /\ Fault

Room(copied) == kn - copied

\* Where the loop is left (mutation: an empty kfifo breaks it too).
EmptyBreaks(room) == cpu = NCpu - 1 \/ room <= 0 \/ fifo[cpu] = << >>

LoopEnds(room) == cpu = NCpu - 1 \/ room <= 0

\* access_ok refuses the buffer.
NoAccess == cpu = 0 /\ Steps("get", "error") /\ Fault /\ UNCHANGED <<kn, un>>

\* kfifo_out to info_array + copied (mutation: to info_array).
Overwriting(out) == out \o SubSeq(arr, Len(out) + 1, Len(arr))

Copied(out) == arr \o out

\* ip_queue_get, one CPU of its loop.
ip_queue_get ==
  LET want == IF cpu = 0 THEN kn ELSE infonum
      out  == IF Len(fifo[cpu]) < want THEN Len(fifo[cpu]) ELSE want
      all  == Copied([i \in 1 .. out |-> <<cpu, fifo[cpu][i]>>])
      room == Room(Len(all))
      ends == LoopEnds(room)
  IN
  /\ kpc = "get"
  /\ fifo' = [fifo EXCEPT ![cpu] = SubSeq(@, out + 1, Len(@))]
  /\ arr' = all
  /\ there' = IF cpu = 0 THEN ip_queue_len ELSE there
  /\ infonum' = IF ends THEN 0 ELSE room
  /\ cpu' = IF ends THEN 0 ELSE cpu + 1
  /\ kn' = IF ends THEN Len(all) ELSE kn
  /\ kpc' = IF ends THEN "copy" ELSE "get"
  /\ UNCHANGED <<active, next, un, ubuf, lost, faults>>

\* copy_to_user of the packets, then of s.  What was to be copied when one of
\* them fails is in no kfifo any more.
Copies ==
  /\ kpc = "copy"
  /\ arr' = << >>
  /\ \/ kpc' = "ok" /\ ubuf' = arr /\ un' = kn /\ UNCHANGED <<lost, faults>>
     \/ kpc' = "error" /\ Lose(arr) /\ Fault /\ UNCHANGED <<ubuf, un>>
  /\ there' = 0
  /\ UNCHANGED <<active, fifo, next, kn, cpu, infonum>>

fetch_info ==
  \/ FetchBegins \/ WaitReady \/ WaitTimeout \/ WaitSignal
  \/ NoAccess \/ ip_queue_get \/ Copies

QueueTypeOK ==
  /\ active \in BOOLEAN
  /\ fifo \in [CPU -> Seq(Nat)] /\ \A c \in CPU : Len(fifo[c]) <= IP_FIFO_SIZE
  /\ next \in [CPU -> 0 .. MaxPkts]
  /\ kpc \in {"out", "begin", "wait", "get", "copy", "ok", "error"}
  /\ kn \in Nat /\ cpu \in CPU /\ infonum \in 0 .. MaxFetch
  /\ arr \in Seq(CPU \X Nat) /\ ubuf \in Seq(CPU \X Nat) /\ un \in Nat
  /\ lost \in [CPU -> Nat] /\ faults \in 0 .. MaxFaults /\ there \in Nat
=============================================================================
