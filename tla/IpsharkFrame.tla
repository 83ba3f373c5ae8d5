---------------------------- MODULE IpsharkFrame ----------------------------
(***************************************************************************)
(* The user's side of ipshark, usr/framework.c over usr/ips_api.c: one     *)
(* thread registers a handler, starts and stops; the thread that start     *)
(* makes fetches batches and hands them over.  In the mode for several     *)
(* threads (mt) it adapts the size of its requests and gives every batch   *)
(* away in a malloc'ed array, which whoever handles it destroys later; in  *)
(* the other (ut) it uses one array over and over.                         *)
(***************************************************************************)
EXTENDS IpsharkQueue

CONSTANTS
  First,      \* 16: the first request, and the smallest
  Part,       \* 4: a batch below this part of the request halves the next one
  Block,      \* 512: the entries of the array of ips_frame_ut_run
  Buffers     \* bound: the arrays malloc can give

Stack  == "stack"
NoBuf  == "NULL"
ASSUME FrameAssumption ==
  /\ First \in 1 .. MaxFetch /\ Block \in Nat \ {0}
  /\ Part \in Nat \ {0} /\ {Stack, NoBuf} \cap Buffers = {}

VARIABLES
  mode,          \* what register chose: "none", "mt", "ut"
  running,
  open,          \* fd >= 0
  cpc,           \* the thread that starts and stops: "idle", "config", "create", "fail",
                 \* "join", "exit"
  fpc,           \* the thread that fetches: "none", "top", "fetch"
  lastn, nextn,  \* its locals
  cur,           \* s.array
  size,          \* the malloc'ed arrays somebody knows of, and their entries
  held,          \* those that the handler holds
  got, last      \* history: by CPU, how many packets were handled, the latest

framevars == <<mode, running, open, cpc, fpc, lastn, nextn, cur, size, held, got, last>>
vars == <<queuevars, framevars>>

Init ==
  /\ QueueInit
  /\ mode = "none" /\ running = FALSE /\ open = FALSE
  /\ cpc = "idle" /\ fpc = "none"
  /\ lastn = 0 /\ nextn = 0 /\ cur = NoBuf /\ size = << >> /\ held = {}
  /\ got = [c \in CPU |-> 0] /\ last = [c \in CPU |-> -1]

ThreadSame == UNCHANGED <<fpc, lastn, nextn, cur, size, held, got, last>>

-----------------------------------------------------------------------------
\* ips_frame_register; while running it does nothing.
Register(m) ==
  /\ cpc = "idle" /\ ~ running
  /\ mode' = m
  /\ UNCHANGED <<queuevars, running, open, cpc>> /\ ThreadSame

\* ips_frame_start: ips_init opens the device, or start returns its error; it
\* does so too when the device is open already.
Start ==
  /\ cpc = "idle" /\ mode # "none"
  /\ ~ open /\ open' = TRUE
  /\ cpc' = "config"
  /\ UNCHANGED <<queuevars, mode, running>> /\ ThreadSame

\* ips_config: packets are queued from here on.
Config ==
  /\ cpc = "config"
  /\ \/ cpc' = "create" /\ active' = TRUE /\ running' = TRUE
     \/ cpc' = "fail" /\ UNCHANGED <<active, running>>
  /\ UNCHANGED <<fifo, next, kpc, kn, cpu, infonum, arr, un, ubuf, lost, faults, there>>
  /\ UNCHANGED <<mode, open>> /\ ThreadSame

\* pthread_create.
Create ==
  /\ cpc = "create"
  /\ \/ cpc' = "idle" /\ fpc' = "top" /\ nextn' = First /\ lastn' = 0
     \/ cpc' = "fail" /\ UNCHANGED <<fpc, nextn, lastn>>
  /\ UNCHANGED <<queuevars, mode, running, open, cur, size, held, got, last>>

\* The kernel closes the device: the packets in the queue go.
Close ==
  /\ open' = FALSE /\ active' = FALSE
  /\ fifo' = [c \in CPU |-> << >>]
  /\ lost' = [c \in CPU |-> lost[c] + Len(fifo[c])]
  /\ UNCHANGED <<next, kpc, kn, cpu, infonum, arr, un, ubuf, faults, there>>

\* The label fail.
StartFails ==
  /\ cpc = "fail" /\ cpc' = "idle"
  /\ running' = FALSE
  /\ Close
  /\ UNCHANGED <<mode>> /\ ThreadSame

\* ips_frame_stop, of what was started (mutation: the thread is not told).
StopUntold ==
  /\ cpc = "idle" /\ open
  /\ cpc' = "join"
  /\ UNCHANGED <<queuevars, mode, running, open>> /\ ThreadSame

Stop ==
  /\ cpc = "idle" /\ open
  /\ running' = FALSE /\ cpc' = "join"
  /\ UNCHANGED <<queuevars, mode, open>> /\ ThreadSame

\* pthread_join.
Join ==
  /\ cpc = "join" /\ fpc = "none"
  /\ cpc' = "exit"
  /\ UNCHANGED <<queuevars, mode, running, open>> /\ ThreadSame

Exit ==
  /\ cpc = "exit" /\ cpc' = "idle"
  /\ Close
  /\ UNCHANGED <<mode, running>> /\ ThreadSame

-----------------------------------------------------------------------------
(***************************************************************************)
(* The loop of ips_frame_mt_run and of ips_frame_ut_run.                   *)
(***************************************************************************)
ControlSame == UNCHANGED <<mode, running, open, cpc>>

Asks(n) ==
  /\ un' = n /\ kpc' = "begin" /\ fpc' = "fetch"
  /\ UNCHANGED <<active, fifo, next, kn, cpu, infonum, arr, ubuf, lost, faults, there>>

Without(b) == [x \in DOMAIN size \ {b} |-> size[x]]

\* An array that was not given away, after an error, is lost with the thread.
Leaves ==
  /\ fpc = "top" /\ ~ running
  /\ fpc' = "none" /\ cur' = NoBuf /\ lastn' = 0 /\ nextn' = 0 /\ un' = 0
  /\ size' = IF mode = "mt" /\ nextn = 0 THEN Without(cur) ELSE size
  /\ UNCHANGED <<active, fifo, next, kpc, kn, cpu, infonum, arr, ubuf, lost, faults, there>>
  /\ UNCHANGED <<held, got, last>> /\ ControlSame

AskWithStack ==
  /\ fpc = "top" /\ running /\ mode = "ut"
  /\ cur' = Stack /\ Asks(Block)
  /\ UNCHANGED <<lastn, nextn, size, held, got, last>> /\ ControlSame

FreeBuffer == CHOOSE b \in Buffers : b \notin DOMAIN size

\* A new array, when the last one was given away (mutation: the same again).
ArrayKept == IF cur = NoBuf THEN FreeBuffer ELSE cur

Array == FreeBuffer

AskWithNew ==
  /\ fpc = "top" /\ running /\ mode = "mt" /\ nextn > 0
  /\ DOMAIN size # Buffers
  /\ cur' = Array /\ size' = [b \in {Array} \cup DOMAIN size |-> IF b = Array THEN nextn ELSE size[b]]
  /\ lastn' = nextn /\ Asks(nextn)
  /\ UNCHANGED <<nextn, held, got, last>> /\ ControlSame

\* After an error the same array, for as many (mutation: for what the kernel
\* left in s.n).
AskAsLeft ==
  /\ fpc = "top" /\ running /\ mode = "mt" /\ nextn = 0
  /\ lastn' = un /\ Asks(un)
  /\ UNCHANGED <<nextn, cur, size, held, got, last>> /\ ControlSame

AskAgain ==
  /\ fpc = "top" /\ running /\ mode = "mt" /\ nextn = 0
  /\ Asks(lastn)
  /\ UNCHANGED <<lastn, nextn, cur, size, held, got, last>> /\ ControlSame

\* malloc fails: exit(99).  The kernel closes the device, and the program may
\* be run again.
NoMemory ==
  /\ fpc = "top" /\ running /\ mode = "mt" /\ nextn > 0
  /\ Close
  /\ mode' = "none" /\ running' = FALSE /\ cpc' = "idle" /\ fpc' = "none"
  /\ lastn' = 0 /\ nextn' = 0 /\ cur' = NoBuf /\ size' = << >> /\ held' = {}
  /\ UNCHANGED <<got, last>>

Kernel == fetch_info /\ UNCHANGED framevars

Returned ==
  /\ fpc = "fetch" /\ kpc' = "out" /\ kn' = 0
  /\ UNCHANGED <<active, fifo, next, cpu, infonum, arr, un, lost, faults, there>>

FetchFailed ==
  /\ kpc = "error" /\ Returned
  /\ nextn' = (IF mode = "mt" THEN 0 ELSE nextn) /\ fpc' = "top"
  /\ UNCHANGED <<ubuf, lastn, cur, size, held, got, last>> /\ ControlSame

\* The size of the next request.
Next_n(n, asked) ==
  LET wish == IF n < asked \div Part THEN asked \div 2 ELSE IF n = asked THEN asked * 2 ELSE n IN
  IF wish < First THEN First ELSE wish

\* The last packet of a CPU in a batch.
Latest(c, batch) ==
  LET mine == Places(c, batch) IN batch[CHOOSE i \in mine : \A j \in mine : j <= i][2]

\* handle(s): the batch is the handler's, and in the mode for one thread it is
\* done with it when it returns.
Handle ==
  LET batch == SubSeq(ubuf, 1, un) IN
  /\ kpc = "ok" /\ Returned
  /\ fpc' = "top" /\ ubuf' = << >>
  /\ got' = [c \in CPU |-> got[c] + From(c, batch)]
  /\ last' = [c \in CPU |-> IF Places(c, batch) = {} THEN last[c] ELSE Latest(c, batch)]
  /\ nextn' = IF mode = "mt" THEN Next_n(un, lastn) ELSE nextn
  /\ held' = IF mode = "mt" THEN held \cup {cur} ELSE held
  /\ UNCHANGED <<lastn, cur, size>> /\ ControlSame

\* ips_frame_destroy; after a register that changed the mode it clears the
\* array instead of freeing it, and the handler forgets it.
Destroy(b) ==
  /\ b \in held /\ held' = held \ {b}
  /\ size' = Without(b)
  /\ UNCHANGED <<queuevars, mode, running, open, cpc, fpc, lastn, nextn, cur, got, last>>

-----------------------------------------------------------------------------
Caller == Config \/ Create \/ StartFails \/ Join \/ Exit

Fetcher ==
  \/ Leaves \/ AskWithStack \/ AskWithNew \/ AskAgain \/ NoMemory
  \/ Kernel \/ FetchFailed \/ Handle

Next ==
  \/ \E m \in {"mt", "ut"} : Register(m)
  \/ Start \/ Stop \/ Caller \/ Fetcher
  \/ \E b \in Buffers : Destroy(b)
  \/ \E c \in CPU : ip_queue_put(c) /\ UNCHANGED framevars

\* Both threads are scheduled, the timer of the wait fires, and the handler is
\* done with a batch some day.
Spec ==
  /\ Init /\ [][Next]_vars
  /\ WF_vars(Caller) /\ WF_vars(Fetcher)
  /\ \A b \in Buffers : WF_vars(Destroy(b))
-----------------------------------------------------------------------------
(***************************************************************************)
(* Properties.                                                             *)
(***************************************************************************)

\* Every variable has the values its C type and its use allow.
TypeOK ==
  /\ QueueTypeOK
  /\ mode \in {"none", "mt", "ut"} /\ running \in BOOLEAN
  /\ open \in BOOLEAN
  /\ cpc \in {"idle", "config", "create", "fail", "join", "exit"}
  /\ fpc \in {"none", "top", "fetch"}
  /\ lastn \in 0 .. 2 * MaxFetch /\ nextn \in 0 .. 2 * MaxFetch
  /\ cur \in Buffers \cup {Stack, NoBuf}
  /\ DOMAIN size \subseteq Buffers /\ held \subseteq DOMAIN size
  /\ got \in [CPU -> Nat] /\ last \in [CPU -> Int]

\* The packets of a CPU are in order: first those of a batch, then those of its
\* kfifo, all of them behind a number and before another.
InOrder(c, batch, queue, from, to) ==
  LET mine == Places(c, batch) IN
  /\ \A i \in mine : from < batch[i][2] /\ batch[i][2] < to
  /\ \A i \in DOMAIN queue : from < queue[i] /\ queue[i] < to
  /\ \A i, j \in mine : i < j => batch[i][2] < batch[j][2]
  /\ \A i, j \in DOMAIN queue : i < j => queue[i] < queue[j]
  /\ \A i \in mine, j \in DOMAIN queue : batch[i][2] < queue[j]

\* The packets of a CPU reach the handler in the order they came by, none twice,
\* over the kfifos, the array of the kernel, the user's memory and any number of
\* restarts; each one that came by is handled, on its way, or lost for a reason:
\* the kfifo was full, a copy failed, or the device was closed.
InOrderOnce ==
  \A c \in CPU :
    LET way == ubuf \o arr IN
    /\ InOrder(c, way, fifo[c], last[c], next[c])
    /\ got[c] + lost[c] + From(c, way) + Len(fifo[c]) = next[c]

\* A comment in ip_queue.c says of packets in different kfifos: "we can get all
\* of it at one time".  A batch takes all that was in the kfifos of all the CPUs
\* when it began, or as many as it asked for.
TakesAll == kpc = "copy" => kn = un \/ kn >= there

\* The kernel writes into an array that the thread owns and that is large
\* enough: the handler does not hold it, and a request, repeated after whatever
\* error and whatever the kernel left in s.n, is not for more than it has room.
\* A batch that is handed over is not empty.
BatchFits ==
  /\ kpc \in {"wait", "get", "copy"} =>
       un <= (IF cur = Stack THEN Block ELSE size[cur]) /\ cur \notin held
  /\ Len(arr) <= un
  /\ kpc = "ok" => un = Len(ubuf) /\ un > 0

\* ips_frame_stop comes back, and then no thread is left behind.
StopReturns == cpc = "join" ~> cpc = "idle" /\ fpc = "none"

\* While the thread runs, packets that wait in the kfifos are fetched, after
\* whatever errors, with one exception: a request that was doubled past what
\* the kernel takes is refused for ever.
KeepsFetching ==
  ip_queue_len > 0 /\ fpc # "none" ~>
    ip_queue_len = 0 \/ ~ running \/ (mode = "mt" /\ lastn > MaxFetch)

-----------------------------------------------------------------------------
(***************************************************************************)
(* Inductive invariants (IpsharkFrameProof).                               *)
(***************************************************************************)
\* There is a thread from pthread_create to pthread_join, and the mode is the
\* one it began with.
ThreadInv ==
  /\ fpc = "fetch" <=> kpc # "out"
  /\ fpc # "none" => cpc = (IF running THEN "idle" ELSE "join")
  /\ cpc = "create" => running
  /\ (cpc # "idle" \/ fpc # "none") => open
  /\ open => mode # "none"

\* The array in use is the thread's, and as large as its last request; after
\* an error it keeps it.
ArrayInv ==
  /\ fpc = "fetch" /\ mode = "ut" => cur = Stack
  /\ mode = "mt" /\ (fpc = "fetch" \/ (fpc = "top" /\ nextn = 0)) =>
       cur \in DOMAIN size \ held /\ size[cur] = lastn
  /\ fpc = "fetch" => un <= (IF mode = "ut" THEN Block ELSE lastn)

\* What the kernel has of the request.
RequestInv ==
  /\ kpc \in {"wait", "get"} => kn = un /\ kn \in 1 .. MaxFetch
  /\ kpc \notin {"get", "copy"} => arr = << >>
  /\ kpc # "get" => cpu = 0
  /\ kpc # "ok" => ubuf = << >>
  /\ kpc = "get" => Len(arr) < kn /\ (IF cpu = 0 THEN arr = << >> ELSE infonum = kn - Len(arr))
  /\ kpc = "copy" => kn = Len(arr) /\ kn \in 1 .. un /\ un <= MaxFetch
  /\ kpc = "ok" => un = Len(ubuf) /\ un \in 1 .. MaxFetch

\* What was there when ip_queue_get began is in the array or still to come: a
\* kfifo that was left was emptied.
GetInv ==
  kpc = "get" =>
    IF cpu = 0 THEN ip_queue_len > 0
    ELSE there > 0 /\ Len(arr) + Cardinality(Queued(cpu)) >= there

BatchInv == TypeOK /\ ThreadInv /\ ArrayInv /\ RequestInv /\ GetInv /\ TakesAll

\* What was handled came by.
LastInv == \A c \in CPU : last[c] < next[c]

OrderInv == BatchInv /\ InOrderOnce /\ LastInv
=============================================================================
