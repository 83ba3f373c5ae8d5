------------------------------ MODULE Ips2Core ------------------------------
(***************************************************************************)
(* The driver of ipshark2 around its queue: core.c with the load and the   *)
(* unload of the module, IPS_CONFIG with its failures, and the hooks, the  *)
(* fetches and the frees that use what it set up.  What the queue does is  *)
(* the subject of Ips2Create and Ips2Queue, here it is memory that is      *)
(* allocated, used and freed.                                              *)
(***************************************************************************)
EXTENDS Naturals, FiniteSets

CONSTANTS
  Caller,      \* user threads
  CPU,
  MaxConfig    \* bound: calls of IPS_CONFIG that come as far as ip_queue_create

ASSUME CoreAssumption == MaxConfig \in Nat

\* A call of IPS_CONFIG that gets that far is a number, and so is what it allocates.
Gen == 1 .. MaxConfig
NULL == 0
Queue(g) == <<"queue", g>>   \* what qptr points to
Area(g)  == <<"area", g>>    \* what m points to
Names(g) == <<"names", g>>   \* the arrays of the device set
Memory == {"queue", "area", "names"} \X Gen

Idle == [pc |-> "user", g |-> NULL]
NoHook == [pc |-> "out", g |-> NULL]

VARIABLES
  module,     \* "out", "init", "in"
  configs,    \* the calls of IPS_CONFIG so far
  memory,     \* what is allocated
  complete,   \* the queues that have their lists on every CPU
  qptr, m,    \* qptr, m of ip_queue.c
  data,       \* data of devset.c
  registered, \* the hooks are registered
  counted,    \* puttimes > 0
  call,       \* by thread: the ioctl it is in
  hook,       \* by CPU: the hook on it, and the pointer it works with
  answer,     \* history: what IPS_CONFIG returned last, since the module is loaded;
              \*   "deaf" is success as "ok" is, but no hook was registered
  bad,        \* history: who misused memory
  hist        \* history: {"again", "early", "short", "unready", "unloaded", "wild"}

statics == <<qptr, m, data, counted>>
heap == <<configs, memory, complete>>
vars == <<module, heap, statics, registered, call, hook, answer, bad, hist>>

Init ==
  /\ module = "out" /\ configs = 0 /\ memory = {} /\ complete = {}
  /\ qptr = NULL /\ m = NULL /\ data = NULL /\ counted = FALSE
  /\ registered = FALSE
  /\ call = [t \in Caller |-> Idle] /\ hook = [c \in CPU |-> NoHook]
  /\ answer = "none" /\ bad = {} /\ hist = {}

Misuse(who, wrong) == bad' = IF wrong THEN bad \cup {who} ELSE bad
Note(what, when) == hist' = IF when THEN hist \cup {what} ELSE hist
Enter(t, pc) == call' = [call EXCEPT ![t].pc = pc]

-----------------------------------------------------------------------------
(***************************************************************************)
(* The module.                                                             *)
(***************************************************************************)
\* ips_init up to cdev_add; if that fails nothing is left of it.
ips_init ==
  /\ module = "out" /\ module' = "init"
  /\ UNCHANGED <<heap, statics, registered, call, hook, answer, bad, hist>>

InitEnds ==
  /\ module = "init" /\ module' = "in"
  /\ UNCHANGED <<heap, statics, registered, call, hook, answer, bad, hist>>

\* The static variables go, and with them the code: of hooks that are
\* registered, and of calls that nobody waits for.  What was allocated is lost
\* with its pointers; memory is what this life of the module allocates.
Unload ==
  /\ module' = "out" /\ memory' = {} /\ complete' = {}
  /\ qptr' = NULL /\ m' = NULL /\ data' = NULL /\ counted' = FALSE
  /\ answer' = "none"
  /\ hist' = hist \cup (IF registered THEN {"unloaded"} ELSE {})
       \cup (IF \E t \in Caller : call[t] # Idle THEN {"early"} ELSE {})
  /\ UNCHANGED <<configs, registered, call, hook>>

\* There is no proc entry: ips_clean, but the device was there for a while.
InitFails ==
  /\ module = "init" /\ Unload
  /\ Misuse("init", \E t \in Caller : call[t] # Idle)

\* An open device keeps the module.  ips_clean frees nothing and unregisters
\* no hook.
ips_exit ==
  /\ module = "in" /\ \A t \in Caller : call[t] = Idle
  /\ Unload /\ bad' = bad

-----------------------------------------------------------------------------
(***************************************************************************)
(* ips_config.                                                             *)
(***************************************************************************)
Returns(t, what) ==
  /\ answer' = what
  /\ call' = [call EXCEPT ![t] = Idle]

Begins(t) == module # "out" /\ call[t] = Idle

\* The driver is set up, as its user was told.
Succeeded == answer \in {"ok", "deaf"}

InConfig == {"create", "devset", "copy", "register", "devset_fail", "queue_fail"}

\* The user's structure is copied, then the part of it that sizeof of a function
\* and the size of the list make: p is shorter than the structure and its list.
ConfigBegins(t) ==
  /\ Begins(t) /\ configs < MaxConfig
  /\ configs' = configs + 1
  /\ Note("again", registered \/ Succeeded \/ \E u \in Caller : call[u].g # NULL)
  /\ call' = [call EXCEPT ![t] = [pc |-> "alloc", g |-> configs']]
  /\ UNCHANGED <<module, memory, complete, statics, registered, hook, answer, bad>>

\* If a copy fails that is the error; if kmalloc fails it is none.  (What a
\* driver that is set up answers is not recorded.)
ConfigRefused(t) ==
  /\ Begins(t)
  /\ answer' \in IF registered \/ Succeeded THEN {answer} ELSE {"error", "no memory"}
  /\ call' = call
  /\ UNCHANGED <<module, heap, statics, registered, hook, bad, hist>>

\* ip_queue_create: qptr points to CPUs without lists first.
CreateBegins(t) ==
  LET g == call[t].g IN
  /\ call[t].pc = "alloc"
  /\ \/ qptr' = g /\ memory' = memory \cup {Queue(g)} /\ Enter(t, "create")
     \/ qptr' = NULL /\ memory' = memory /\ Enter(t, "queue_fail")
  /\ UNCHANGED <<module, configs, complete, m, data, counted, registered, hook, answer, bad, hist>>

\* The lists, the area.
CreateEnds(t) ==
  LET g == call[t].g IN
  /\ call[t].pc = "create"
  /\ Misuse("config", qptr = NULL \/ Queue(qptr) \notin memory)
  /\ complete' = complete \cup {qptr}
  /\ m' = g /\ memory' = memory \cup {Area(g)}
  /\ Enter(t, "devset")
  /\ UNCHANGED <<module, configs, qptr, data, counted, registered, hook, answer, hist>>

\* An allocation fails.  The first of the two ip_queue_exit is this step's.
\* (Mutation: the pointers keep their values.)
Exit(q, a) ==
  /\ memory' = memory \ {Queue(qptr), Area(m)}
  /\ qptr' = q /\ m' = a
  /\ Misuse("config", \/ qptr # NULL /\ Queue(qptr) \notin memory
                      \/ m # NULL /\ Area(m) \notin memory)

ExitKept == Exit(qptr, m)

ip_queue_exit == Exit(NULL, NULL)

CreateFails(t) ==
  /\ call[t].pc = "create"
  /\ ip_queue_exit /\ Enter(t, "queue_fail")
  /\ UNCHANGED <<module, configs, complete, data, counted, registered, hook, answer, hist>>

\* devset_init reads the list, and of a list that is short its length, behind
\* what was copied.  The read faults, ...
ReadsBehind(t) ==
  /\ call[t].pc = "devset"
  /\ Misuse("config", TRUE) /\ Note("short", TRUE)
  /\ UNCHANGED <<module, heap, statics, registered, call, hook, answer>>

\* ... or makes a set of what it finds, or of a length that cannot be.  A set that
\* was there is forgotten either way; if the length is negative or an allocation
\* fails devset_exit is called here and once more at the end.
DevsetInit(t) ==
  LET g == call[t].g IN
  /\ call[t].pc = "devset"
  /\ \/ data' = g /\ memory' = memory \cup {Names(g)} /\ Enter(t, "copy")
     \/ data' = NULL /\ memory' = memory /\ Enter(t, "devset_fail")
  /\ UNCHANGED <<module, configs, complete, qptr, m, counted, registered, hook, answer, bad, hist>>

\* copy_to_user of the size (mutation: past the label that empties the set).
CopyOutSkips(t) ==
  /\ call[t].pc = "copy"
  /\ \E pc \in {"register", "queue_fail"} : Enter(t, pc)
  /\ UNCHANGED <<module, heap, statics, registered, hook, answer, bad, hist>>

CopyOut(t) ==
  /\ call[t].pc = "copy"
  /\ \E pc \in {"register", "devset_fail"} : Enter(t, pc)
  /\ UNCHANGED <<module, heap, statics, registered, hook, answer, bad, hist>>

\* hook_register.  A list of the kernel that has an element twice is broken.  If
\* the kernel refuses a hook it takes back those before, and nobody asks.
hook_register(t) ==
  /\ call[t].pc = "register"
  /\ Misuse("config", registered)
  /\ \/ registered' = TRUE /\ Returns(t, "ok")
     \/ registered' = registered /\ Returns(t, "deaf")
  /\ UNCHANGED <<module, heap, statics, hook, hist>>

devset_exit(t) ==
  /\ call[t].pc = "devset_fail"
  /\ memory' = memory \ {Names(data)} /\ data' = NULL
  /\ Misuse("config", data # NULL /\ Names(data) \notin memory)
  /\ Enter(t, "queue_fail")
  /\ UNCHANGED <<module, configs, complete, qptr, m, counted, registered, hook, answer, hist>>

QueueFail(t) ==
  /\ call[t].pc = "queue_fail"
  /\ ip_queue_exit /\ Returns(t, "error")
  /\ UNCHANGED <<module, configs, complete, data, counted, registered, hook, hist>>
-----------------------------------------------------------------------------
(***************************************************************************)
(* The other ioctls.                                                       *)
(***************************************************************************)
\* The queue can be worked with.
Usable(q) == {Queue(q), Area(m)} \subseteq memory /\ q \in complete

\* IPS_FETCH_INFO sleeps, ...
FetchBegins(t) ==
  /\ Begins(t) /\ Enter(t, "fetch")
  /\ UNCHANGED <<module, heap, statics, registered, hook, answer, bad, hist>>

\* ... finds that there are packets, or ends with nothing or by a signal, ...
FetchLooks(t) ==
  /\ call[t].pc = "fetch"
  /\ \/ counted /\ counted' = FALSE /\ Enter(t, "move")
     \/ counted' = counted /\ Enter(t, "user")
  /\ UNCHANGED <<module, heap, qptr, m, data, registered, hook, answer, bad, hist>>

\* ... and moves them.
FetchMoves(t) ==
  /\ call[t].pc = "move"
  /\ Misuse("fetch", ~ Usable(qptr)) /\ Enter(t, "user")
  /\ UNCHANGED <<module, heap, statics, registered, hook, answer, hist>>

\* IPS_FREE_MEM: the user has indexes to free, which he cannot have been given
\* before he was told that there is a queue.  Their number may be larger than
\* the array of the request, and they may be larger than the area: nobody looks.
FreeBegins(t) ==
  /\ Begins(t)
  /\ \E pc \in {"free", "wild"} :
       /\ Enter(t, pc)
       /\ hist' = hist \cup (IF Succeeded THEN {} ELSE {"unready"})
                      \cup (IF pc = "wild" THEN {"wild"} ELSE {})
  /\ UNCHANGED <<module, heap, statics, registered, hook, answer, bad>>

FreeEnds(t) ==
  /\ call[t].pc \in {"free", "wild"}
  /\ \E behind \in {FALSE, call[t].pc = "wild"} : Misuse("free", behind \/ ~ Usable(qptr))
  /\ Enter(t, "user")
  /\ UNCHANGED <<module, heap, statics, registered, hook, answer, hist>>

-----------------------------------------------------------------------------
(***************************************************************************)
(* A hook: devset_ignore takes the arrays, compares, then ip_queue_put     *)
(* takes qptr and works with the queue.                                    *)
(***************************************************************************)
HookBegins(c) ==
  /\ registered /\ hook[c] = NoHook
  /\ Misuse("hook", "unloaded" \in hist)
  /\ hook' = [hook EXCEPT ![c] = [pc |-> "ask", g |-> data]]
  /\ UNCHANGED <<module, heap, statics, registered, call, answer, hist>>

HookAsks(c) ==
  LET set == hook[c].g IN
  /\ hook[c].pc = "ask"
  /\ Misuse("hook", set # NULL /\ Names(set) \notin memory)
  /\ \/ hook' = [hook EXCEPT ![c] = NoHook] /\ counted' = counted
     \/ /\ qptr # NULL /\ counted' = TRUE
        /\ hook' = [hook EXCEPT ![c] = [pc |-> "put", g |-> qptr]]
  /\ UNCHANGED <<module, heap, qptr, m, data, registered, call, answer, hist>>

HookPuts(c) ==
  /\ hook[c].pc = "put"
  /\ Misuse("hook", ~ Usable(hook[c].g))
  /\ hook' = [hook EXCEPT ![c] = NoHook]
  /\ UNCHANGED <<module, heap, statics, registered, call, answer, hist>>

-----------------------------------------------------------------------------
ips_config(t) ==
  \/ ConfigBegins(t) \/ ConfigRefused(t) \/ CreateBegins(t) \/ CreateEnds(t)
  \/ CreateFails(t) \/ ReadsBehind(t) \/ DevsetInit(t) \/ CopyOut(t) \/ hook_register(t)
  \/ devset_exit(t) \/ QueueFail(t)

\* After memory was misused the kernel has no defined behaviour.
Next ==
  /\ bad = {}
  /\ \/ ips_init \/ InitEnds \/ InitFails \/ ips_exit
     \/ \E t \in Caller :
          \/ ips_config(t)
          \/ FetchBegins(t) \/ FetchLooks(t) \/ FetchMoves(t)
          \/ FreeBegins(t) \/ FreeEnds(t)
     \/ \E c \in CPU : HookBegins(c) \/ HookAsks(c) \/ HookPuts(c)

Spec == Init /\ [][Next]_vars
-----------------------------------------------------------------------------
(***************************************************************************)
(* Properties.                                                             *)
(***************************************************************************)

\* Every variable has the values its C type and its use allow.
TypeOK ==
  /\ module \in {"out", "init", "in"} /\ configs \in 0 .. MaxConfig
  /\ memory \subseteq Memory /\ complete \subseteq Gen \cup {NULL}
  /\ {qptr, m, data} \subseteq Gen \cup {NULL}
  /\ {counted, registered} \subseteq BOOLEAN
  /\ call \in [Caller -> [pc : InConfig \cup {"user", "alloc", "fetch", "move", "free", "wild"},
                          g : Gen \cup {NULL}]]
  /\ \A t \in Caller : call[t].g # NULL <=> call[t].pc \in InConfig \cup {"alloc"}
  /\ hook \in [CPU -> [pc : {"out", "ask", "put"}, g : Gen \cup {NULL}]]
  /\ answer \in {"none", "ok", "deaf", "error", "no memory"}
  /\ bad \subseteq {"init", "config", "fetch", "free", "hook"}
  /\ hist \subseteq {"again", "early", "short", "unready", "unloaded", "wild"}

\* However often IPS_CONFIG fails, and wherever, and whether the kernel takes the
\* hooks or not, hooks, fetches, frees and the next IPS_CONFIG work with memory
\* that is there.  This is so only while devset_init's reads behind the copy of
\* the configuration do not fault, and nobody configures what is configured or
\* being configured, frees indexes without a queue, more of them than the request
\* holds or others than the area has, opens the device of a module that is in its
\* init, or unloads the module of a driver that was configured.
MemorySafe == hist = {} => bad = {}

\* IPS_CONFIG tells the user how things are: after success the queue and a device
\* set are complete (which set is another question: what devset_init reads is not
\* all the user's) and the hooks run, but for a failure of nf_register_hooks,
\* which he is not told; after an error nothing is allocated and no hook is
\* registered.  When kmalloc fails it says success and there is nothing.
ConfigAnswers ==
  (module # "out" /\ "again" \notin hist /\ \A t \in Caller : call[t].g = NULL) =>
    IF Succeeded
    THEN (registered <=> answer = "ok") /\ Usable(qptr) /\ Names(data) \in memory
    ELSE "unloaded" \in hist \/ (~ registered /\ memory = {} /\ qptr = NULL /\ m = NULL)
-----------------------------------------------------------------------------
(***************************************************************************)
(* The inductive invariant of the two.                                     *)
(***************************************************************************)
\* Every allocation has its pointer, and every pointer its allocation.
Owned == memory = {Queue(qptr), Area(m), Names(data)} \cap Memory

\* What ips_config has built when it is at pc.
Built(pc, g) ==
  /\ pc = "alloc" => qptr = NULL /\ m = NULL /\ data = NULL
  /\ pc = "create" => qptr = g /\ m = NULL /\ data = NULL
  /\ pc \in {"devset", "copy", "register", "devset_fail"} => qptr = g /\ m = g /\ g \in complete
  /\ pc = "devset" => data = NULL
  /\ pc \in {"copy", "register"} => data = g
  /\ pc = "queue_fail" => data = NULL

\* What there is when no thread configures.
Settled ==
  IF Succeeded THEN qptr \in complete \ {NULL} /\ m = qptr /\ data = qptr
  ELSE qptr = NULL /\ m = NULL /\ data = NULL

HookInv ==
  \A c \in CPU :
    /\ hook[c].pc # "out" => registered
    /\ hook[c].pc = "ask" => hook[c].g = data
    /\ hook[c].pc = "put" => hook[c].g = qptr

\* The driver in the hands of users who do as MemorySafe names it.
Proper ==
  /\ Owned
  /\ \A t, u \in Caller : call[t].g # NULL /\ call[u].g # NULL => t = u
  /\ \A t \in Caller : call[t].g # NULL => ~ Succeeded /\ Built(call[t].pc, call[t].g)
  /\ (\A t \in Caller : call[t].g = NULL) => Settled
  /\ HookInv
  /\ answer = "ok" <=> registered
  /\ counted => registered
  /\ \A t \in Caller : call[t].pc = "move" => registered
  /\ module = "out" => ~ Succeeded /\ \A t \in Caller : call[t] = Idle

\* IPS_FREE_MEM is only called when there is a queue, and with what it has.
FreeInv ==
  /\ bad = {}
  /\ \A t \in Caller : call[t].pc # "wild" /\ (call[t].pc = "free" => Succeeded)

\* After the module was unloaded under its hooks.
UnloadedInv == registered /\ ~ Succeeded /\ \A t \in Caller : call[t].g = NULL

IInv ==
  /\ TypeOK
  /\ "early" \in hist => bad # {} /\ module = "out"
  /\ "short" \in hist => bad # {} /\ \E t \in Caller : call[t].g # NULL
  /\ "unloaded" \in hist /\ "again" \notin hist => UnloadedInv
  /\ hist \subseteq {"unready", "wild"} => Proper
  /\ hist = {} => FreeInv
=============================================================================
