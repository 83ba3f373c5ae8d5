----------------------------- MODULE Ips2Create -----------------------------
(***************************************************************************)
(* ip_queue_create and ip_queue_exit of src/ipshark2/core/ip_queue.c: how  *)
(* the queue is built CPU by CPU and torn down, with every allocation free *)
(* to fail.  The loop over the CPUs is a state machine, one step per turn. *)
(* The queue is created from the released state and released before it is  *)
(* created again.                                                          *)
(***************************************************************************)
EXTENDS Ips2Layout, Sequences, FiniteSets, FiniteSetsExt

CONSTANTS
  NCpu,      \* how many CPUs for_each_possible_cpu visits
  Word,      \* 2^16: pre, size, start and end are unsigned short
  Tables,    \* the values of ips_config.queue_size
  Sizes      \* the values of ips_config.default_queue_size and of the entries

CPU == 0 .. NCpu - 1

\* The powers of two up to 2^16.
Pow2 == {1, 2, 4, 8, 16, 32, 64, 128, 256, 512, 1024, 2048, 4096, 8192, 16384, 32768, 65536}

ASSUME CpuAssumption  == NCpu \in Nat \ {0}
ASSUME WordAssumption == Word \in Nat \ {0} /\ \E k \in Pow2 : Word <= k
ASSUME SizeAssumption == Sizes \subseteq 0 .. Word - 1
ASSUME TableAssumption == Tables \subseteq Seq([cpuidx : Int, size : Sizes])

VARIABLES
  pc,            \* "released", "loop", "undo" (exit after an error), "area", "created"
  ret,           \* the local ret: 0 or an error
  table, dflt,   \* the parameters s and default_size
  cpu, pre,      \* the locals cpu and pre
  qptr,          \* whether the per-CPU pointers are allocated
  data,          \* the CPUs whose dataptr is set
  rbuf, ibuf,    \* the CPUs whose ready / idle kfifo has a buffer
  start, end,    \* queue_data.start and .end, where data has them
  idle,          \* the contents of the idle lists (ready stays empty)
  mlive,         \* whether the shared area is allocated
  elem           \* its slots: ip_key_info_wrap.state by index

locals == <<table, dflt>>
bufs   == <<rbuf, ibuf, idle>>
area   == <<mlive, elem>>
vars   == <<pc, ret, locals, cpu, pre, qptr, data, bufs, start, end, area>>

ENOMEM == "ENOMEM"
EINVAL == "EINVAL"
NoError == "ok"

-----------------------------------------------------------------------------
\* The entries of the table for a CPU.
Entries(c, s) == {i \in DOMAIN s : s[i].cpuidx = c}

\* getsize: the first entry of the table for the CPU, else the default.
getsize(c, s, default_size) ==
  IF Entries(c, s) = {} THEN default_size
  ELSE s[CHOOSE i \in Entries(c, s) : \A j \in Entries(c, s) : i <= j].size

(***************************************************************************)
(* kfifo_alloc refuses a size below two and rounds the others up to a      *)
(* power of two.                                                           *)
(***************************************************************************)
Pow2From(n) == {k \in Pow2 : k >= n}

roundup_pow_of_two(n) == Min(Pow2From(n))

KfifoRefuses(n) == n < 2

-----------------------------------------------------------------------------
NoList == << >>

Released ==
  /\ qptr = FALSE
  /\ data = {} /\ rbuf = {} /\ ibuf = {}
  /\ mlive = FALSE

Init ==
  /\ pc = "released" /\ ret = NoError
  /\ table \in Tables /\ dflt \in Sizes
  /\ cpu = 0 /\ pre = 0
  /\ Released
  /\ start = [c \in CPU |-> 0]
  /\ end = [c \in CPU |-> 0]
  /\ idle = [c \in CPU |-> NoList]
  /\ elem = << >>

\* alloc_percpu succeeds, the loop begins.
Create(s, d) ==
  /\ pc = "released"
  /\ pc' = "loop" /\ ret' = NoError
  /\ table' = s /\ dflt' = d
  /\ cpu' = 0 /\ pre' = 0
  /\ qptr' = TRUE
  /\ UNCHANGED <<data, bufs, start, end, area>>

\* alloc_percpu fails.
CreateNoPercpu ==
  /\ pc = "released"
  /\ ret' = ENOMEM
  /\ UNCHANGED <<pc, locals, cpu, pre, qptr, data, bufs, start, end, area>>

-----------------------------------------------------------------------------
(***************************************************************************)
(* One turn of for_each_possible_cpu, by where it leaves the loop.         *)
(***************************************************************************)
size == getsize(cpu, table, dflt)

\* The sum of two unsigned shorts (mutation: of two ints).
PlusWide(a, b) == a + b

Plus(a, b) == IF a + b < Word THEN a + b ELSE a + b - Word

\* pre = pre + size.
NextPre == Plus(pre, size)

\* Mutation of Wrapped: too lenient.
WrappedOff == NextPre < size - 1

Wrapped == NextPre < size

Break(e) == pc' = "undo" /\ ret' = e

\* kzalloc fails.
TurnNoData ==
  /\ pc = "loop"
  /\ Break(ENOMEM)
  /\ UNCHANGED <<locals, cpu, pre, qptr, data, bufs, start, end, area>>

\* What every turn does once it has its queue_data.
TurnBegins ==
  /\ pc = "loop"
  /\ data' = data \cup {cpu}
  /\ start' = [start EXCEPT ![cpu] = pre]
  /\ pre' = NextPre
  /\ UNCHANGED <<locals, qptr, area>>

\* The ranges no longer fit into unsigned short.
TurnWraps ==
  /\ TurnBegins
  /\ Wrapped
  /\ Break(EINVAL)
  /\ UNCHANGED <<cpu, bufs, end>>

TurnFits ==
  /\ TurnBegins
  /\ ~ Wrapped
  /\ end' = [end EXCEPT ![cpu] = NextPre]

\* kfifo_alloc of the ready list fails, or refuses the size.
TurnNoReady ==
  /\ TurnFits
  /\ Break(ENOMEM)
  /\ UNCHANGED <<cpu, bufs>>

\* kfifo_alloc of the idle list fails.
TurnNoIdle ==
  /\ TurnFits
  /\ ~ KfifoRefuses(size)
  /\ rbuf' = rbuf \cup {cpu}
  /\ Break(ENOMEM)
  /\ UNCHANGED <<cpu, ibuf, idle>>

\* The inner loop over start .. pre-1 (mutation: it begins one later).
FilledLate(n) == [i \in 1 .. n |-> pre + i]

Filled(n) == [i \in 1 .. n |-> pre + i - 1]

\* The idle list gets start .. pre-1.  If it were too small the error would be
\* kept for after the loop, which goes on (the break leaves the inner loop).
TurnFills ==
  LET cap == roundup_pow_of_two(size)
      n   == IF size < cap THEN size ELSE cap
  IN
  /\ TurnFits
  /\ ~ KfifoRefuses(size)
  /\ rbuf' = rbuf \cup {cpu}
  /\ ibuf' = ibuf \cup {cpu}
  /\ idle' = [idle EXCEPT ![cpu] = Filled(n)]
  /\ ret' = IF n < size THEN ENOMEM ELSE ret
  /\ cpu' = cpu + 1
  /\ pc' = IF cpu + 1 < NCpu THEN "loop" ELSE IF ret' = NoError THEN "area" ELSE "undo"

-----------------------------------------------------------------------------
\* vmalloc fails.
AreaFails ==
  /\ pc = "area"
  /\ Break(ENOMEM)
  /\ UNCHANGED <<locals, cpu, pre, qptr, data, bufs, start, end, area>>

Area ==
  /\ pc = "area"
  /\ pc' = "created"
  /\ mlive' = TRUE
  /\ elem' = [i \in 0 .. pre - 1 |-> MEM_FREE]
  /\ UNCHANGED <<ret, locals, cpu, pre, qptr, data, bufs, start, end>>

(***************************************************************************)
(* ip_queue_exit: what the per-CPU pointers lead to, then the pointers,    *)
(* then the area.  The buffers of a CPU hang on its queue_data.            *)
(* Mutation: CPUs the loop did not finish are left alone.                  *)
(***************************************************************************)
FreedOfFinished == {c \in data : c < cpu}

Freed == data

ip_queue_exit ==
  /\ data' = data \ Freed
  /\ rbuf' = rbuf \ Freed
  /\ ibuf' = ibuf \ Freed
  /\ idle' = [c \in CPU |-> IF c \in Freed THEN NoList ELSE idle[c]]
  /\ start' = [c \in CPU |-> IF c \in Freed THEN 0 ELSE start[c]]
  /\ end' = [c \in CPU |-> IF c \in Freed THEN 0 ELSE end[c]]
  /\ qptr' = FALSE
  /\ mlive' = FALSE
  /\ elem' = << >>

\* After an error, ret is returned.
Undo ==
  /\ pc = "undo"
  /\ pc' = "released"
  /\ cpu' = 0 /\ pre' = 0
  /\ ip_queue_exit
  /\ UNCHANGED <<ret, locals>>

\* The owner of the queue gives it up.
Exit ==
  /\ pc = "created"
  /\ pc' = "released"
  /\ cpu' = 0 /\ pre' = 0
  /\ ip_queue_exit
  /\ UNCHANGED <<ret, locals>>

Next ==
  \/ \E s \in Tables, d \in Sizes : Create(s, d)
  \/ CreateNoPercpu
  \/ TurnNoData \/ TurnWraps \/ TurnNoReady \/ TurnNoIdle \/ TurnFills
  \/ AreaFails \/ Area
  \/ Undo \/ Exit

Spec == Init /\ [][Next]_vars
-----------------------------------------------------------------------------
(***************************************************************************)
(* Properties.                                                             *)
(***************************************************************************)

\* Every variable has the values its C type and its use allow.
TypeOK ==
  /\ pc \in {"released", "loop", "undo", "area", "created"}
  /\ ret \in {NoError, ENOMEM, EINVAL}
  /\ table \in Tables
  /\ dflt \in Sizes
  /\ cpu \in 0 .. NCpu
  /\ pre \in 0 .. Word - 1
  /\ qptr \in BOOLEAN
  /\ data \in SUBSET CPU
  /\ rbuf \in SUBSET CPU
  /\ ibuf \in SUBSET CPU
  /\ start \in [CPU -> 0 .. Word - 1]
  /\ end \in [CPU -> 0 .. Word - 1]
  /\ idle \in [CPU -> Seq(0 .. Word - 1)]
  /\ mlive \in BOOLEAN
  /\ mlive => elem \in [0 .. pre - 1 -> MemState]

\* When every CPU had its turn the ranges cut 0 .. pre-1 into disjoint parts,
\* although pre is computed in 16 bits and the sizes are the user's.  It is
\* what ip_queue_recycle needs to find the owner of an index, and what
\* Ips2Queue assumes of its constants.
RangesPartition ==
  pc \in {"area", "created"} => Partition(CPU, start, end, pre)

\* A created queue is in the initial state of Ips2Queue: every CPU has its
\* lists, the idle list names the slots of its range once each and in order,
\* and every slot of the area is free.
HandsOver ==
  pc = "created" =>
    /\ qptr /\ mlive /\ data = CPU /\ rbuf = CPU /\ ibuf = CPU
    /\ idle = [c \in CPU |-> [i \in 1 .. end[c] - start[c] |-> start[c] + i - 1]]
    /\ elem = [s \in 0 .. pre - 1 |-> MEM_FREE]

\* Whichever allocation failed, and after ip_queue_exit, nothing is left
\* allocated and no pointer dangles.
NothingLeft == pc = "released" => Released
-----------------------------------------------------------------------------
(***************************************************************************)
(* The inductive invariant: between two turns the CPUs that had theirs are *)
(* complete, and their ranges cut what pre has reached.                    *)
(***************************************************************************)
Listing(c) == [i \in 1 .. end[c] - start[c] |-> start[c] + i - 1]

Built(C) ==
  /\ data = C /\ rbuf = C /\ ibuf = C
  /\ Partition(C, start, end, pre)
  /\ \A c \in C : idle[c] = Listing(c)

\* What holds at each point of ip_queue_create, and after it.
Progress ==
  /\ pc = "loop" => qptr /\ ret = NoError /\ cpu < NCpu /\ Built(0 .. cpu - 1)
  /\ pc \in {"area", "created"} => qptr /\ ret = NoError /\ Built(CPU)
  /\ mlive <=> pc = "created"
  /\ pc = "created" => elem = [s \in 0 .. pre - 1 |-> MEM_FREE]

\* The buffers of a CPU hang on its queue_data, where ip_queue_exit finds them.
BuffersOwned == rbuf \subseteq data /\ ibuf \subseteq data

IInv == TypeOK /\ Progress /\ BuffersOwned /\ NothingLeft
=============================================================================
