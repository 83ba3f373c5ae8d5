------------------------------ MODULE Ips2Queue ------------------------------
(***************************************************************************)
(* The packet queue of ipshark2 (src/ipshark2/core/ip_queue.c) between     *)
(* ip_queue_create and ip_queue_exit, with the parties that run it at the  *)
(* same time:                                                              *)
(*                                                                         *)
(*   - producers, the contexts that execute a netfilter hook: each calls   *)
(*     ip_queue_put for its packet and then ip_queue_wakeup;               *)
(*   - the fetcher, the user thread inside ioctl(IPS_FETCH_INFO): it waits *)
(*     for packets and moves the indexes of the ready ones to the shared   *)
(*     area;                                                               *)
(*   - the recycler, the user thread inside ioctl(IPS_FREE_MEM): it gives  *)
(*     slots back.                                                         *)
(*                                                                         *)
(* A step is at most one access to memory that another party can change:   *)
(* the counter puttimes is loaded and stored in two steps, as the compiled *)
(* increment does on several CPUs, and every kfifo call is a step of its   *)
(* own (a kfifo is safe for one reader and one writer without a lock).     *)
(*                                                                         *)
(* The area is shared memory: the user reads it and is taken not to write  *)
(* to it.  A user may be careless about what he frees; where the code then *)
(* leaves its own memory the model says `broken' and stops.                *)
(***************************************************************************)
EXTENDS Ips2Layout, Sequences, FiniteSets, SequencesExt

CONSTANTS
  NCpu,       \* how many CPUs for_each_possible_cpu visits
  Start, End, \* queue_data.start and queue_data.end of each CPU
  Cap,        \* kfifo_size of the two kfifos of each CPU
  Total,      \* ip_key_info_total_size
  Batch,      \* ips_idx_array_size
  Producer,   \* the contexts that may run a hook at the same time
  MaxPkt,     \* bound: how many packets the hooks see
  Careless,   \* the user frees what he was not given, twice, or too much
  Beyond      \* bound: how far behind the area and the array he then gets

CPU     == 0 .. NCpu - 1
Slot    == 0 .. Total - 1
Index   == 0 .. Total + Beyond - 1
OwnSlots(c) == Range2Slots(Start[c], End[c])
Half    == Batch \div 2

ASSUME CpuAssumption      == NCpu \in Nat \ {0}
ASSUME LayoutAssumption   ==
  /\ Start \in [CPU -> Nat]
  /\ End \in [CPU -> Nat]
  /\ Total \in Nat \ {0}
  /\ Partition(CPU, Start, End, Total)
\* kfifo_alloc rounds the size it is given up.
ASSUME CapAssumption      ==
  /\ Cap \in [CPU -> Nat]
  /\ \A c \in CPU : End[c] - Start[c] <= Cap[c]
ASSUME BatchAssumption    == Batch \in Nat \ {0}
ASSUME BoundAssumption    == MaxPkt \in Nat
ASSUME CarelessAssumption == Careless \in BOOLEAN /\ Beyond \in Nat

VARIABLES
  idle, ready,  \* per CPU, the two kfifos of slot indexes
  alarm,        \* per CPU, queue_data.alarm
  state, info,  \* per slot, ip_key_info_wrap.state and .info (a packet, 0: none)
  puttimes,     \* the counter the wait condition reads
  npkt,         \* packets the hooks have seen (they are numbered from 1)
  ppc,          \* per producer, where it is in ip_queue_put / ip_queue_wakeup
  reg,          \* per producer, puttimes as it loaded it
  pkt,          \* per producer, its packet
  pcpu,         \* per producer, the CPU it runs the critical section on
  cand,         \* per producer, the slot index s of ip_queue_put
  fpc,          \* where the fetcher is
  fcur, num,    \* the locals cpu and num of ip_queue_move2dma
  arr,          \* idx_array[0 .. copied-1] of the shared area
  held,         \* the slots the user was given and has not asked to free
  rpc,          \* where the recycler is
  rset, ritem,  \* the indexes ip_queue_recycle has left, and the current one
  broken        \* the code has touched memory that is not its own, or two
                \* writers were inside kfifo_put of one list: all bets are off

slotVars == <<idle, ready, state, info>>
prodVars == <<ppc, reg, pkt, pcpu, cand>>
fetchVars == <<fpc, fcur, num, arr>>
recVars  == <<rpc, rset, ritem, broken>>
vars == <<slotVars, alarm, puttimes, npkt, prodVars, fetchVars, held, recVars>>

-----------------------------------------------------------------------------
(***************************************************************************)
(* <linux/kfifo.h>: a list of at most `size' indexes, first in first out.  *)
(***************************************************************************)
kfifo_put(list, size, i) == IF Len(list) < size THEN Append(list, i) ELSE list

kfifo_out(list, n) == SubSeq(list, n + 1, Len(list))

-----------------------------------------------------------------------------
(***************************************************************************)
(* The state ip_queue_create leaves behind.                                *)
(***************************************************************************)
Init ==
  /\ idle  = [c \in CPU |-> [i \in 1 .. End[c] - Start[c] |-> Start[c] + i - 1]]
  /\ ready = [c \in CPU |-> << >>]
  /\ alarm = [c \in CPU |-> FALSE]
  /\ state = [s \in Slot |-> MEM_FREE]
  /\ info  = [s \in Slot |-> 0]
  /\ puttimes = 0
  /\ npkt = 0
  /\ ppc  = [p \in Producer |-> "out"]
  /\ reg  = [p \in Producer |-> 0]
  /\ pkt  = [p \in Producer |-> 0]
  /\ pcpu = [p \in Producer |-> 0]
  /\ cand = [p \in Producer |-> 0]
  /\ fpc = "user" /\ fcur = 0 /\ num = Batch /\ arr = << >>
  /\ held = {}
  /\ rpc = "user" /\ rset = {} /\ ritem = 0 /\ broken = FALSE

-----------------------------------------------------------------------------
(***************************************************************************)
(* ip_queue_put, called by hookfn and hookfn6 for every packet they see.   *)
(* Between get_cpu_ptr/local_bh_disable and their inverses at most one     *)
(* producer runs on a CPU; a producer may be preempted or interrupted      *)
(* before that, so several may be inside `puttimes++' for the same CPU.    *)
(***************************************************************************)
InSection(p) == ppc[p] \in {"check", "fill", "publish", "putback", "alarm"}
Occupied(c)  == \E p \in Producer : InSection(p) /\ pcpu[p] = c

\* The load of puttimes++.
PutLoad(p) ==
  /\ ppc[p] = "out"
  /\ npkt < MaxPkt
  /\ npkt' = npkt + 1
  /\ pkt' = [pkt EXCEPT ![p] = npkt + 1]
  /\ reg' = [reg EXCEPT ![p] = puttimes]
  /\ ppc' = [ppc EXCEPT ![p] = "count"]
  /\ UNCHANGED <<slotVars, alarm, puttimes, pcpu, cand, fetchVars, held, recVars>>

\* The store of puttimes++.
PutCount(p) ==
  /\ ppc[p] = "count"
  /\ puttimes' = reg[p] + 1
  /\ reg' = [reg EXCEPT ![p] = 0]
  /\ ppc' = [ppc EXCEPT ![p] = "enter"]
  /\ UNCHANGED <<slotVars, alarm, npkt, pkt, pcpu, cand, fetchVars, held, recVars>>

\* kfifo_get finds no index (mutation: the last one is kept back).
NoIdleSpare(c) == Len(idle[c]) <= 1

NoIdle(c) == idle[c] = << >>

\* kfifo_get from the idle list of CPU c: no idle index drops the packet.
TakeIdle(p, c) ==
  IF NoIdle(c)
  THEN /\ ppc'  = [ppc EXCEPT ![p] = "wake"]
       /\ pkt'  = [pkt EXCEPT ![p] = 0]
       /\ pcpu' = [pcpu EXCEPT ![p] = 0]
       /\ cand' = [cand EXCEPT ![p] = 0]
       /\ UNCHANGED idle
  ELSE /\ ppc'  = [ppc EXCEPT ![p] = "check"]
       /\ pcpu' = [pcpu EXCEPT ![p] = c]
       /\ cand' = [cand EXCEPT ![p] = Head(idle[c])]
       /\ idle' = [idle EXCEPT ![c] = Tail(@)]
       /\ UNCHANGED pkt

\* The section is entered and the first index taken.
PutGet(p, c) ==
  /\ ppc[p] = "enter"
  /\ ~ Occupied(c)
  /\ TakeIdle(p, c)
  /\ UNCHANGED <<ready, state, info, alarm, puttimes, npkt, reg, fetchVars, held, recVars>>

\* The slot is in use: forget it and take the next one.
PutRetry(p) ==
  /\ ppc[p] = "check"
  /\ state[cand[p]] = MEM_INUSE
  /\ TakeIdle(p, pcpu[p])
  /\ UNCHANGED <<ready, state, info, alarm, puttimes, npkt, reg, fetchVars, held, recVars>>

\* Mutation of PutCheck: the loop does not look at the state.
PutCheckBlind(p) ==
  /\ ppc[p] = "check"
  /\ ppc' = [ppc EXCEPT ![p] = "fill"]
  /\ UNCHANGED <<slotVars, alarm, puttimes, npkt, reg, pkt, pcpu, cand, fetchVars, held, recVars>>

\* The slot is not in use: the loop ends.
PutCheck(p) ==
  /\ ppc[p] = "check"
  /\ state[cand[p]] # MEM_INUSE
  /\ ppc' = [ppc EXCEPT ![p] = "fill"]
  /\ UNCHANGED <<slotVars, alarm, puttimes, npkt, reg, pkt, pcpu, cand, fetchVars, held, recVars>>

PutFill(p) ==
  /\ ppc[p] = "fill"
  /\ info'  = [info EXCEPT ![cand[p]] = pkt[p]]
  /\ state' = [state EXCEPT ![cand[p]] = MEM_INUSE]
  /\ ppc'   = [ppc EXCEPT ![p] = "publish"]
  /\ UNCHANGED <<idle, ready, alarm, puttimes, npkt, reg, pkt, pcpu, cand, fetchVars, held, recVars>>

\* kfifo_put to the ready list; a full list refuses it and the packet is lost.
PutPublish(p) ==
  LET c == pcpu[p] IN
  /\ ppc[p] = "publish"
  /\ IF Len(ready[c]) < Cap[c]
     THEN /\ ready' = [ready EXCEPT ![c] = kfifo_put(@, Cap[c], cand[p])]
          /\ cand'  = [cand EXCEPT ![p] = 0]
          /\ ppc'   = [ppc EXCEPT ![p] = "alarm"]
     ELSE /\ ppc'   = [ppc EXCEPT ![p] = "putback"]
          /\ UNCHANGED <<ready, cand>>
  /\ pkt' = [pkt EXCEPT ![p] = 0]
  /\ UNCHANGED <<idle, state, info, alarm, puttimes, npkt, reg, pcpu, fetchVars, held, recVars>>

\* The range test of ip_queue_recycle (mutation: one too far).
OwnsOneMore(c, i) == i >= Start[c] /\ i <= End[c]

Owns(c, i) == i >= Start[c] /\ i < End[c]

\* The recycler is inside its kfifo_put to the idle list of CPU c.
Returning(c) == rpc = "put" /\ Owns(c, ritem)

\* A producer is inside its kfifo_put to the idle list of CPU c.
PuttingBack(c) == \E p \in Producer : ppc[p] = "putback" /\ pcpu[p] = c

\* What follows from a risk is anything or nothing.
Risk(b) == broken' \in {FALSE, b}

\* The refused index goes back to idle, which then may have two writers.
PutBack(p) ==
  LET c == pcpu[p] IN
  /\ ppc[p] = "putback"
  /\ Risk(Returning(c))
  /\ idle' = [idle EXCEPT ![c] = kfifo_put(@, Cap[c], cand[p])]
  /\ cand' = [cand EXCEPT ![p] = 0]
  /\ ppc'  = [ppc EXCEPT ![p] = "alarm"]
  /\ UNCHANGED <<ready, state, info, alarm, puttimes, npkt, reg, pkt, pcpu, fetchVars, held, rpc, rset, ritem>>

AlarmNext(on, len, size) ==
  IF on THEN len >= size \div 2 ELSE len > (3 * size) \div 4

\* The alarm is raised above 3/4 of the ready list and cleared below 1/2.
PutAlarm(p) ==
  LET c == pcpu[p] IN
  /\ ppc[p] = "alarm"
  /\ alarm' = [alarm EXCEPT ![c] = AlarmNext(@, Len(ready[c]), Cap[c])]
  /\ pcpu' = [pcpu EXCEPT ![p] = 0]
  /\ ppc'  = [ppc EXCEPT ![p] = "wake"]
  /\ UNCHANGED <<slotVars, puttimes, npkt, reg, pkt, cand, fetchVars, held, recVars>>

shall_wakeup == puttimes > Half

\* ip_queue_wakeup: wake_up_interruptible makes a sleeper look again.
PutWake(p) ==
  /\ ppc[p] = "wake"
  /\ fpc' = IF shall_wakeup /\ fpc = "asleep" THEN "woken" ELSE fpc
  /\ ppc' = [ppc EXCEPT ![p] = "out"]
  /\ UNCHANGED <<slotVars, alarm, puttimes, npkt, reg, pkt, pcpu, cand, fcur, num, arr, held, recVars>>

-----------------------------------------------------------------------------
(***************************************************************************)
(* ips_fetch.                                                              *)
(***************************************************************************)
FetchGoto(from, to) ==
  /\ fpc = from
  /\ fpc' = to
  /\ UNCHANGED <<slotVars, alarm, npkt, prodVars, fcur, num, arr, recVars>>

\* Mutation of WaitLook: go to sleep without a look at the condition.
WaitLookBlind(from) ==
  /\ FetchGoto(from, "asleep")
  /\ UNCHANGED <<puttimes, held>>

\* wait_event_interruptible_timeout looks at its condition before it sleeps
\* and after every wakeup.
WaitLook(from) ==
  /\ FetchGoto(from, IF shall_wakeup THEN "reset" ELSE "asleep")
  /\ UNCHANGED <<puttimes, held>>

FetchCall == WaitLook("user")

FetchWoken == WaitLook("woken")

\* The timer fires: the condition has the last word.
FetchTimeout ==
  /\ FetchGoto("asleep", IF shall_wakeup THEN "reset" ELSE "hasdata")
  /\ UNCHANGED <<puttimes, held>>

\* A signal ends the wait with -ERESTARTSYS.
FetchSignal ==
  /\ ~ shall_wakeup
  /\ FetchGoto("asleep", "user")
  /\ UNCHANGED <<puttimes, held>>

\* Mutation of FetchHasData: a single packet is not worth a fetch.
FetchHasDataOff ==
  /\ FetchGoto("hasdata", IF puttimes > 1 THEN "reset" ELSE "user")
  /\ UNCHANGED <<puttimes, held>>

\* ip_queue_has_data: nothing was counted, ips_fetch returns -1.
FetchHasData ==
  /\ FetchGoto("hasdata", IF puttimes > 0 THEN "reset" ELSE "user")
  /\ UNCHANGED <<puttimes, held>>

\* puttimes = 0, in ip_queue_wait or in ip_queue_has_data.
FetchReset ==
  /\ FetchGoto("reset", "move")
  /\ puttimes' = 0
  /\ UNCHANGED held

\* What num becomes after n more indexes: num -= copied, where copied is the
\* sum over all the turns so far.  Mutation: the n new ones are forgotten.
MoveLeftStale(n) == num - Len(arr)

MoveLeft(n) == IF n = 0 THEN num ELSE num - (Len(arr) + n)

\* The loop ends at the break, or behind the last CPU (mutation: one later).
MoveEndsLate(n) == (n > 0 /\ MoveLeft(n) <= 0) \/ fcur = NCpu

MoveEnds(n) == (n > 0 /\ MoveLeft(n) <= 0) \/ fcur = NCpu - 1

\* How many indexes kfifo_out copies from the ready list.
Moved == IF Len(ready[fcur]) < num THEN Len(ready[fcur]) ELSE num

\* One turn of the loop of ip_queue_move2dma.
FetchMove ==
  /\ fpc = "move"
  /\ arr'   = arr \o SubSeq(ready[fcur], 1, Moved)
  /\ ready' = [ready EXCEPT ![fcur] = kfifo_out(@, Moved)]
  /\ num'   = MoveLeft(Moved)
  /\ fcur'  = IF MoveEnds(Moved) THEN 0 ELSE fcur + 1
  /\ fpc'   = IF MoveEnds(Moved) THEN "return" ELSE "move"
  /\ UNCHANGED <<idle, state, info, alarm, puttimes, npkt, prodVars, held, recVars>>

\* The ioctl returns and the user reads idx_array[0 .. idx_num-1].
FetchReturn ==
  /\ fpc = "return"
  /\ fpc'  = "user"
  /\ held' = held \cup Range(arr)
  /\ arr'  = << >>
  /\ num'  = Batch
  /\ UNCHANGED <<slotVars, alarm, puttimes, npkt, prodVars, fcur, recVars>>

-----------------------------------------------------------------------------
(***************************************************************************)
(* ips_freemem and ip_queue_recycle.                                       *)
(***************************************************************************)
\* ips_freemem copies the array of indexes and does not look at idx_num: when
\* it is too large the loop runs on over the stack behind the copy, reads
\* indexes there and may write a 0 over them.
FreeCall(S) ==
  /\ rpc = "user"
  /\ rpc'  = "next"
  /\ rset' = S
  /\ Risk(Cardinality(S) > Batch)
  /\ held' = held \ S
  /\ UNCHANGED <<slotVars, alarm, puttimes, npkt, prodVars, fetchVars, ritem>>

\* Mutation of RecycleDone: return after the first index.
RecycleDoneEarly(i) ==
  /\ rset' = rset \ {i}
  /\ rpc' = "user"
  /\ ritem' = 0

\* Mutation of RecycleDone: the index is not left behind.
RecycleDoneStuck(i) ==
  /\ rset' = rset
  /\ rpc' = "next"
  /\ ritem' = 0

RecycleDone(i) ==
  /\ rset' = rset \ {i}
  /\ rpc' = IF rset = {i} THEN "user" ELSE "next"
  /\ ritem' = 0

\* The slot is not in use: count the mistake and go on.
RecycleSkip(i) ==
  /\ rpc = "next"
  /\ i \in Slot
  /\ state[i] # MEM_INUSE
  /\ RecycleDone(i)
  /\ UNCHANGED <<slotVars, alarm, puttimes, npkt, prodVars, fetchVars, held, broken>>

\* The state of a slot behind the area is read, which may fault; whatever it
\* is, no CPU owns the index.
RecycleBeyond(i) ==
  /\ rpc = "next"
  /\ i \notin Slot
  /\ Risk(TRUE)
  /\ RecycleDone(i)
  /\ UNCHANGED <<slotVars, alarm, puttimes, npkt, prodVars, fetchVars, held>>

RecycleMark(i) ==
  /\ rpc = "next"
  /\ i \in Slot
  /\ state[i] = MEM_INUSE
  /\ state' = [state EXCEPT ![i] = MEM_USED]
  /\ ritem' = i
  /\ rpc' = "put"
  /\ UNCHANGED <<idle, ready, info, alarm, puttimes, npkt, prodVars, fetchVars, held, rset, broken>>

\* kfifo_put to the idle list of the CPU whose range holds the index.
RecyclePut(c) ==
  /\ rpc = "put"
  /\ Owns(c, ritem)
  /\ Risk(PuttingBack(c))
  /\ idle' = [idle EXCEPT ![c] = kfifo_put(@, Cap[c], ritem)]
  /\ RecycleDone(ritem)
  /\ UNCHANGED <<ready, state, info, alarm, puttimes, npkt, prodVars, fetchVars, held>>

-----------------------------------------------------------------------------
Put(p) ==
  \/ PutLoad(p) \/ PutCount(p) \/ \E c \in CPU : PutGet(p, c)
  \/ PutRetry(p) \/ PutCheck(p) \/ PutFill(p)
  \/ PutPublish(p) \/ PutBack(p) \/ PutAlarm(p) \/ PutWake(p)

FetchStep ==
  \/ FetchCall \/ FetchWoken \/ FetchHasData \/ FetchReset \/ FetchMove \/ FetchReturn

RecycleStep ==
  \/ \E i \in rset : RecycleSkip(i) \/ RecycleBeyond(i) \/ RecycleMark(i)
  \/ \E c \in CPU : RecyclePut(c)

\* What one IPS_FREE_MEM hands in: at most what the array has room for, all of
\* it the user's own, or anything.
Freeable ==
  IF Careless THEN {S \in SUBSET Index : Cardinality(S) <= Batch + Beyond}
  ELSE {S \in SUBSET held : Cardinality(S) <= Batch}

Free == \E S \in Freeable \ {{}} : FreeCall(S)

Next ==
  /\ ~ broken
  /\ \/ \E p \in Producer : Put(p)
     \/ FetchStep \/ FetchTimeout \/ FetchSignal
     \/ Free \/ RecycleStep

Spec == Init /\ [][Next]_vars

(***************************************************************************)
(* Fairness.  A hook runs to its end, the thread inside an ioctl is        *)
(* scheduled, the user calls IPS_FETCH_INFO again after it returns, and    *)
(* the timer of the wait fires.  No packet has to arrive, and the user     *)
(* need not free anything.                                                 *)
(***************************************************************************)
PutOn(p) == Put(p) /\ ppc[p] # "out"

Fairness ==
  /\ \A p \in Producer : WF_vars(PutOn(p))
  /\ WF_vars(FetchStep)
  /\ WF_vars(FetchTimeout)
  /\ WF_vars(RecycleStep)

FairSpec == Spec /\ Fairness
-----------------------------------------------------------------------------
(***************************************************************************)
(* Properties.                                                             *)
(***************************************************************************)

\* Every variable has the values its C type and its use allow.
TypeOK ==
  /\ idle \in [CPU -> Seq(Slot)]
  /\ ready \in [CPU -> Seq(Slot)]
  /\ alarm \in [CPU -> BOOLEAN]
  /\ state \in [Slot -> MemState]
  /\ info \in [Slot -> Nat]
  /\ puttimes \in Nat
  /\ npkt \in Nat
  /\ ppc \in [Producer -> {"out", "count", "enter", "check", "fill", "publish", "putback", "alarm", "wake"}]
  /\ reg \in [Producer -> Nat]
  /\ pkt \in [Producer -> Nat]
  /\ pcpu \in [Producer -> CPU]
  /\ cand \in [Producer -> Slot]
  /\ fpc \in {"user", "asleep", "woken", "hasdata", "reset", "move", "return"}
  /\ fcur \in CPU
  /\ num \in Int
  /\ arr \in Seq(Slot)
  /\ held \in SUBSET Slot
  /\ rpc \in {"user", "next", "put"}
  /\ rset \in SUBSET Index
  /\ ritem \in Slot
  /\ broken \in BOOLEAN

\* The slot a producer took from idle and has not put back on a list.
InHand(p) == ppc[p] \in {"check", "fill", "publish", "putback"}
Hand(c)   == {cand[p] : p \in {q \in Producer : InHand(q) /\ pcpu[q] = c}}

\* The slots outside the kernel's lists: on their way to the user, with the
\* user, or on their way back.
Lent == Range(arr) \cup held \cup rset

\* Two producers are never in the critical section of the same CPU.
SectionExclusive ==
  \A p, q \in Producer : InSection(p) /\ InSection(q) /\ pcpu[p] = pcpu[q] => p = q

\* Both lists of a CPU, and the producer on it, hold indexes of that CPU's
\* own range only: ip_queue_recycle returns an index to its owner and the
\* lists of two CPUs never share one.  It holds for a careless user too.
OwnRange ==
  /\ \A c \in CPU : /\ Range(idle[c]) \subseteq OwnSlots(c)
                    /\ Range(ready[c]) \subseteq OwnSlots(c)
  /\ \A p \in Producer : InHand(p) => cand[p] \in OwnSlots(pcpu[p])

\* No index is on a list twice.
NoDuplicates ==
  /\ \A c \in CPU : IsInjective(idle[c]) /\ IsInjective(ready[c])
  /\ IsInjective(arr)

\* No index is in two places.
OnePlace ==
  /\ \A c \in CPU : /\ Range(idle[c]) \cap Range(ready[c]) = {}
                    /\ Range(idle[c]) \cap Hand(c) = {}
                    /\ Range(ready[c]) \cap Hand(c) = {}
                    /\ Lent \cap (Range(idle[c]) \cup Range(ready[c]) \cup Hand(c)) = {}
  /\ Range(arr) \cap held = {}
  /\ Range(arr) \cap rset = {}
  /\ held \cap rset = {}

\* No index is nowhere: a slot cannot leak.
NoLeak ==
  \A c \in CPU : OwnSlots(c) \subseteq
     Range(idle[c]) \cup Range(ready[c]) \cup Hand(c) \cup Lent

\* The state byte of a slot agrees with the place of its index: in use from
\* the fill until ip_queue_recycle marks it, and never while it is idle, so
\* that ip_queue_put never finds a used slot on the idle list.
StateMatchesPlace ==
  /\ \A c \in CPU :
        /\ \A s \in Range(idle[c]) : state[s] # MEM_INUSE
        /\ \A s \in Range(ready[c]) : state[s] = MEM_INUSE
  /\ \A p \in Producer : InHand(p) => (state[cand[p]] = MEM_INUSE <=> ppc[p] = "publish")
  /\ \A s \in Lent : state[s] = MEM_INUSE <=> ~ (rpc = "put" /\ s = ritem)

\* Nobody's memory is touched: the ready list always has room, so that only
\* ip_queue_recycle writes to the idle list, and every index is one of the area.
Unbroken ==
  /\ ~ broken
  /\ \A p \in Producer : ppc[p] # "putback"
  /\ rset \subseteq Slot

\* A slot index is at all times in exactly one place: on the idle or the ready
\* list of its CPU, with the producer there, in idx_array, with the user, or
\* with ip_queue_recycle, and its state byte says which; a user who frees only
\* what he was given never makes the code leave its memory.  Nothing in the
\* code states it; every list operation of the three parties has to keep it.
SlotConservation ==
  OwnRange /\ NoDuplicates /\ OnePlace /\ NoLeak /\ StateMatchesPlace /\ Unbroken

\* ip_queue_move2dma writes no more indexes than idx_array has entries, for
\* all the ways the packets are spread over the CPUs.
BatchFits ==
  /\ Len(arr) <= Batch
  /\ fpc = "move" => num > 0 /\ Len(arr) + num <= Batch

\* The fetcher does not sleep through its wakeup: while the wait condition
\* holds and it sleeps, a producer is still to call wake_up_interruptible.
\* puttimes is incremented without a lock, so it may also fall back.
NoLostWakeup ==
  fpc = "asleep" /\ shall_wakeup =>
     \E p \in Producer : ppc[p] \notin {"out", "count"}

\* The packet in a slot that is ready, fetched or with the user does not
\* change until ip_queue_recycle takes the slot: memory is shared with the
\* user without a lock.
SlotOnLoan(s) ==
  \/ s \in Lent
  \/ \E c \in CPU : s \in Range(ready[c])

LoanStable ==
  [][\A s \in Slot : SlotOnLoan(s) => info'[s] = info[s]]_vars

\* Whatever the user frees, and however often, ip_queue_put never overwrites a
\* slot that is in use: this is what its do-while loop is for.  The state is
\* read in one step and the slot written in a later one, so it also needs the
\* critical section of the CPU and every index to return to its own CPU.  It
\* ends where the code itself is broken, which takes a user who names an index
\* behind the area, passes a larger idx_num than the array has, or frees a slot
\* early enough to fill a ready list, so that idle gets two writers at once.
InUseStable ==
  [][\A s \in Slot : state[s] = MEM_INUSE => info'[s] = info[s]]_vars

-----------------------------------------------------------------------------
(***************************************************************************)
(* The queue implements PacketChannel: the channel of a CPU is what its    *)
(* ready list points to, and a lent packet is the content of a slot on     *)
(* its way to the user, with him or on its way back.                       *)
(***************************************************************************)
Content(slots) == [i \in DOMAIN slots |-> info[slots[i]]]

\* A packet is in flight until it is on a ready list or dropped.
Carries(p) == ppc[p] \in {"count", "enter", "check", "fill", "publish"}
InFlight   == {pkt[p] : p \in {q \in Producer : Carries(q)}}

chanBar == [c \in CPU |-> Content(ready[c])]
lentBar == [c \in CPU |-> {info[s] : s \in Lent \cap OwnSlots(c)}]
seenBar == (1 .. npkt) \ InFlight

Channel == INSTANCE PacketChannel WITH
  CPU    <- CPU,
  Size   <- [c \in CPU |-> Cardinality(OwnSlots(c))],
  Packet <- 1 .. MaxPkt,
  Batch  <- Batch,
  chan   <- chanBar,
  lent   <- lentBar,
  seen   <- seenBar

\* Packets leave each CPU in the order they came, each at most once, and one
\* is dropped only when the user or the ready list has all the slots.
ImplementsChannel == Channel!ChSpec

-----------------------------------------------------------------------------
(***************************************************************************)
(* Liveness.                                                               *)
(***************************************************************************)

\* Slot s is on a ready list.
Waits(s) == \E c \in CPU : s \in Range(ready[c])

\* A fetch returns after the break of the loop, with s not fetched.
CutOff(s) == fpc = "return" /\ num <= 0 /\ Waits(s)

\* Provided signals do not come forever, a packet on a ready list that
\* puttimes still counts is fetched, unless the batch ends before its turn: the
\* loop of ip_queue_move2dma breaks as soon as num, from which the running sum
\* is subtracted, is used up, and puttimes has been reset by then.  The first
\* packet of the first CPU is always fetched.  (When the reset of puttimes
\* falls between the increment and the kfifo_put of a packet nothing counts it
\* any more, and it waits for the next packet.)
Fetched ==
  <>[][~ FetchSignal]_vars =>
     \A s \in Slot :
        /\ (puttimes > 0 /\ Waits(s)) ~> (~ Waits(s) \/ CutOff(s))
        /\ (puttimes > 0 /\ ready[0] # << >> /\ s = Head(ready[0]))
              ~> s \notin Range(ready[0])

\* A slot the user frees can be used again, even while fetches and puts go on.
Recycled ==
  \A s \in Slot : s \in rset ~> \E c \in CPU : s \in Range(idle[c]) \cup Hand(c)
-----------------------------------------------------------------------------
(***************************************************************************)
(* Inductive invariants (Ips2QueueProof).  The first one bounds the batch  *)
(* and is needed for the types; the second holds whatever the user frees;  *)
(* the third and the fourth, which the refinement rests on, need a user    *)
(* who frees only what he was given.                                       *)
(***************************************************************************)
\* Between two fetches the array is empty and the whole batch is left.
BatchInv ==
  /\ BatchFits
  /\ fpc \notin {"move", "return"} => arr = << >> /\ num = Batch

Inv1 == TypeOK /\ BatchInv

\* What ip_queue_put has found out about its slot is still true when it
\* writes to it.
CheckedFree == \A p \in Producer : ppc[p] = "fill" => state[cand[p]] # MEM_INUSE

Inv2 == Inv1 /\ SectionExclusive /\ OwnRange /\ CheckedFree

\* ip_queue_recycle returns with no index left, and marks one of those it has.
RecycleInv ==
  /\ rpc = "user" => rset = {}
  /\ rpc = "put" => ritem \in rset

Inv3 == Inv2 /\ SlotConservation /\ RecycleInv

\* A packet is with one producer or in one slot that is ready or lent.
PacketInv ==
  /\ npkt <= MaxPkt
  /\ \A p \in Producer : Carries(p) => pkt[p] \in 1 .. npkt
  /\ \A p, q \in Producer : Carries(p) /\ Carries(q) /\ pkt[p] = pkt[q] => p = q
  /\ \A p \in Producer : ppc[p] = "publish" => info[cand[p]] = pkt[p]
  /\ \A s \in Slot : SlotOnLoan(s) => info[s] \in seenBar
  /\ \A s, t \in Slot : SlotOnLoan(s) /\ SlotOnLoan(t) /\ info[s] = info[t] => s = t

Inv4 == Inv3 /\ PacketInv
=============================================================================
