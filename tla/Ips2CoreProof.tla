--------------------------- MODULE Ips2CoreProof ---------------------------
(***************************************************************************)
(* Proofs about Ips2Core, for any number of threads, CPUs and calls of     *)
(* IPS_CONFIG.                                                             *)
(***************************************************************************)
EXTENDS Ips2Core, TLAPS

-----------------------------------------------------------------------------
(***************************************************************************)
(* Types.                                                                  *)
(***************************************************************************)
LEMMA TypeInit == Init => TypeOK
<1> SUFFICES ASSUME Init PROVE TypeOK
  OBVIOUS
<1>1. configs \in 0 .. MaxConfig
  BY CoreAssumption DEF Init
<1>2. /\ call \in [Caller -> [pc : InConfig \cup {"user", "alloc", "fetch", "move", "free", "wild"},
                              g : Gen \cup {NULL}]]
      /\ hook \in [CPU -> [pc : {"out", "ask", "put"}, g : Gen \cup {NULL}]]
  BY DEF Init, Idle, NoHook
<1>3. \A t \in Caller : call[t].g # NULL <=> call[t].pc \in InConfig \cup {"alloc"}
  BY DEF Init, Idle, InConfig
<1> QED
  BY <1>1, <1>2, <1>3 DEF Init, TypeOK

LEMMA GenFacts == Gen \subseteq Nat /\ NULL \notin Gen /\ NULL \in Nat
BY CoreAssumption DEF Gen, NULL

\* The type of call.
CallOK ==
  /\ call \in [Caller -> [pc : InConfig \cup {"user", "alloc", "fetch", "move", "free", "wild"},
                          g : Gen \cup {NULL}]]
  /\ \A u \in Caller : call[u].g # NULL <=> call[u].pc \in InConfig \cup {"alloc"}

\* What Enter does to whom.
LEMMA EnterMoves ==
  ASSUME TypeOK, NEW t \in Caller, NEW p, Enter(t, p)
  PROVE  /\ call'[t].pc = p /\ call'[t].g = call[t].g
         /\ \A u \in Caller \ {t} : call'[u] = call[u]
<1>1. /\ call \in [Caller -> [pc : InConfig \cup {"user", "alloc", "fetch", "move", "free", "wild"},
                              g : Gen \cup {NULL}]]
      /\ call' = [call EXCEPT ![t].pc = p]
  BY DEF TypeOK, Enter
<1>2. call[t] \in [pc : InConfig \cup {"user", "alloc", "fetch", "move", "free", "wild"}, g : Gen \cup {NULL}]
  BY <1>1
<1>3. call'[t] = [call[t] EXCEPT !.pc = p] /\ \A u \in Caller \ {t} : call'[u] = call[u]
  BY <1>1
<1> QED
  BY <1>2, <1>3

\* A thread that changes its place keeps the type of call.
LEMMA EnterType ==
  ASSUME TypeOK, NEW t \in Caller,
         NEW p \in InConfig \cup {"user", "alloc", "fetch", "move", "free", "wild"}, Enter(t, p),
         call[t].pc \in InConfig \cup {"alloc"} <=> p \in InConfig \cup {"alloc"}
  PROVE  CallOK'
<1>1. /\ call[t] \in [pc : InConfig \cup {"user", "alloc", "fetch", "move", "free", "wild"}, g : Gen \cup {NULL}]
      /\ call[t].g # NULL <=> call[t].pc \in InConfig \cup {"alloc"}
  BY DEF TypeOK
<1> DEFINE Calls == [pc : InConfig \cup {"user", "alloc", "fetch", "move", "free", "wild"}, g : Gen \cup {NULL}]
<1>2. /\ call'[t] = [call[t] EXCEPT !.pc = p]
      /\ \A u \in Caller \ {t} : call'[u] = call[u]
      /\ call' \in [Caller -> Calls]
  <2>1. call \in [Caller -> Calls] /\ call' = [call EXCEPT ![t].pc = p]
    BY DEF TypeOK, Enter
  <2>2. [call[t] EXCEPT !.pc = p] \in Calls
    BY <1>1, <2>1
  <2> HIDE DEF Calls
  <2> QED
    BY <2>1, <2>2
<1>3. call'[t].g = call[t].g /\ call'[t].pc = p
  BY <1>1, <1>2
<1>4. \A u \in Caller : call'[u].g # NULL <=> call'[u].pc \in InConfig \cup {"alloc"}
  <2> SUFFICES ASSUME NEW u \in Caller
               PROVE  call'[u].g # NULL <=> call'[u].pc \in InConfig \cup {"alloc"}
    OBVIOUS
  <2>1. CASE u = t
    BY <1>1, <1>3, <2>1
  <2>2. CASE u # t
    BY <1>2, <2>2 DEF TypeOK
  <2> QED
    BY <2>1, <2>2
<1> QED
  BY <1>2, <1>4 DEF CallOK

\* The same of a thread that returns.
LEMMA IdleType ==
  ASSUME TypeOK, NEW t \in Caller, call' = [call EXCEPT ![t] = Idle]
  PROVE  CallOK'
BY DEF TypeOK, Idle, InConfig, CallOK

\* The types of ip_queue_exit and what follows.
LEMMA ExitType ==
  ASSUME TypeOK, CallOK', ip_queue_exit, answer' \in {answer, "error"},
         UNCHANGED <<module, configs, complete, data, counted, registered, hook, hist>>
  PROVE  TypeOK'
<1>1. bad' \subseteq bad \cup {"config"} /\ memory' \subseteq memory /\ qptr' = NULL /\ m' = NULL
  BY DEF ip_queue_exit, Exit, Misuse
<1>2. memory' \subseteq Memory /\ bad' \subseteq {"init", "config", "fetch", "free", "hook"}
  BY <1>1 DEF TypeOK
<1>3. {qptr', m', data'} \subseteq Gen \cup {NULL}
  BY <1>1 DEF TypeOK
<1>4. answer' \in {"none", "ok", "deaf", "error", "no memory"}
  BY DEF TypeOK
<1>5. /\ module' \in {"out", "init", "in"} /\ configs' \in 0 .. MaxConfig
      /\ complete' \subseteq Gen \cup {NULL} /\ {counted', registered'} \subseteq BOOLEAN
      /\ hook' \in [CPU -> [pc : {"out", "ask", "put"}, g : Gen \cup {NULL}]]
      /\ hist' \subseteq {"again", "early", "short", "unready", "unloaded", "wild"}
  BY DEF TypeOK
<1> QED
  BY <1>2, <1>3, <1>4, <1>5 DEF TypeOK, CallOK

LEMMA ConfigType ==
  ASSUME TypeOK, NEW t \in Caller, ips_config(t)
  PROVE  TypeOK'
<1> USE GenFacts
<1>1. CASE ConfigBegins(t)
  <2>1. configs' \in 0 .. MaxConfig /\ configs' \in Gen
    <3>1. configs \in 0 .. MaxConfig /\ configs < MaxConfig /\ configs' = configs + 1
      BY <1>1 DEF ConfigBegins, TypeOK
    <3> QED
      BY <3>1, CoreAssumption DEF Gen
  <2>2. call' = [call EXCEPT ![t] = [pc |-> "alloc", g |-> configs']]
    BY <1>1 DEF ConfigBegins
  <2>3. /\ call' \in [Caller -> [pc : InConfig \cup {"user", "alloc", "fetch", "move", "free", "wild"},
                                 g : Gen \cup {NULL}]]
        /\ \A u \in Caller : call'[u].g # NULL <=> call'[u].pc \in InConfig \cup {"alloc"}
    BY <2>1, <2>2 DEF TypeOK
  <2> QED
    BY <1>1, <2>1, <2>3 DEF ConfigBegins, TypeOK, Note, statics
<1>2. CASE ConfigRefused(t)
  BY <1>2 DEF ConfigRefused, TypeOK, statics, heap
<1>3. CASE CreateBegins(t)
  <2>1. call[t].g \in Gen
    BY <1>3 DEF CreateBegins, TypeOK
  <2>2. Queue(call[t].g) \in Memory
    BY <2>1 DEF Queue, Memory
  <2>3. CallOK'
    BY <1>3, EnterType DEF CreateBegins, InConfig
  <2>4. memory' \subseteq Memory /\ {qptr', m', data'} \subseteq Gen \cup {NULL}
    <3>1. memory \subseteq Memory /\ {qptr, m, data} \subseteq Gen \cup {NULL}
      BY DEF TypeOK
    <3> QED
      BY <1>3, <2>1, <2>2, <3>1 DEF CreateBegins
  <2> QED
    BY <1>3, <2>3, <2>4 DEF CreateBegins, TypeOK, CallOK
<1>4. CASE CreateEnds(t)
  <2>1. call[t].g \in Gen
    BY <1>4 DEF CreateEnds, TypeOK, InConfig
  <2>2. Area(call[t].g) \in Memory
    BY <2>1 DEF Area, Memory
  <2>3. CallOK'
    BY <1>4, EnterType DEF CreateEnds, InConfig
  <2>4. bad' \subseteq bad \cup {"config"}
    BY <1>4 DEF CreateEnds, Misuse
  <2>5. memory' \subseteq Memory /\ complete' \subseteq Gen \cup {NULL}
    BY <1>4, <2>2 DEF CreateEnds, TypeOK
  <2>6. {qptr', m', data'} \subseteq Gen \cup {NULL}
    BY <1>4, <2>1 DEF CreateEnds, TypeOK
  <2> QED
    BY <1>4, <2>3, <2>4, <2>5, <2>6 DEF CreateEnds, TypeOK, CallOK
<1>5. CASE CreateFails(t)
  <2>1. CallOK'
    BY <1>5, EnterType DEF CreateFails, InConfig
  <2> QED
    BY <1>5, <2>1, ExitType DEF CreateFails
<1>6. CASE DevsetInit(t)
  <2>1. call[t].g \in Gen
    BY <1>6 DEF DevsetInit, TypeOK, InConfig
  <2>2. Names(call[t].g) \in Memory
    BY <2>1 DEF Names, Memory
  <2>3. CallOK'
    BY <1>6, EnterType DEF DevsetInit, InConfig
  <2>4. memory' \subseteq Memory /\ {qptr', m', data'} \subseteq Gen \cup {NULL}
    BY <1>6, <2>1, <2>2 DEF DevsetInit, TypeOK
  <2> QED
    BY <1>6, <2>3, <2>4 DEF DevsetInit, TypeOK, CallOK
<1>7. CASE CopyOut(t)
  <2>1. PICK p \in {"register", "devset_fail"} : Enter(t, p)
    BY <1>7 DEF CopyOut
  <2>2. p \in InConfig /\ call[t].pc \in InConfig
    BY <1>7, <2>1 DEF CopyOut, InConfig
  <2>3. CallOK'
    BY <2>1, <2>2, EnterType
  <2> QED
    BY <1>7, <2>3 DEF CopyOut, TypeOK, CallOK, statics, heap
<1>8. CASE hook_register(t)
  <2>1. CallOK'
    BY <1>8, IdleType DEF hook_register, Returns
  <2>2. /\ bad' \subseteq bad \cup {"config"} /\ answer' \in {"ok", "deaf"}
        /\ registered' = TRUE \/ registered' = registered
    BY <1>8 DEF hook_register, Returns, Misuse
  <2> QED
    BY <1>8, <2>1, <2>2 DEF hook_register, TypeOK, CallOK, statics, heap
<1>9. CASE devset_exit(t)
  <2>1. CallOK'
    BY <1>9, EnterType DEF devset_exit, InConfig
  <2>2. bad' \subseteq bad \cup {"config"} /\ memory' \subseteq memory
    BY <1>9 DEF devset_exit, Misuse
  <2>3. {qptr', m', data'} \subseteq Gen \cup {NULL}
    BY <1>9 DEF devset_exit, TypeOK
  <2> QED
    BY <1>9, <2>1, <2>2, <2>3 DEF devset_exit, TypeOK, CallOK
<1>10. CASE QueueFail(t)
  <2>1. CallOK' /\ answer' = "error"
    BY <1>10, IdleType DEF QueueFail, Returns
  <2> QED
    BY <1>10, <2>1, ExitType DEF QueueFail
<1>11. CASE ReadsBehind(t)
  <2>1. bad' \subseteq bad \cup {"config"} /\ hist' = hist \cup {"short"}
    BY <1>11 DEF ReadsBehind, Misuse, Note
  <2> QED
    BY <1>11, <2>1 DEF ReadsBehind, TypeOK, statics, heap
<1> QED
  BY <1>1, <1>2, <1>3, <1>4, <1>5, <1>6, <1>7, <1>8, <1>9, <1>10, <1>11 DEF ips_config

LEMMA IoctlType ==
  ASSUME TypeOK, NEW t \in Caller,
         \/ FetchBegins(t) \/ FetchLooks(t) \/ FetchMoves(t)
         \/ FreeBegins(t) \/ FreeEnds(t)
  PROVE  TypeOK'
<1> USE GenFacts
<1>1. CASE FetchBegins(t)
  <2>1. call[t].pc = "user" /\ Enter(t, "fetch")
    BY <1>1 DEF FetchBegins, Begins, Idle
  <2>2. CallOK'
    BY <2>1, EnterType DEF InConfig
  <2> QED
    BY <1>1, <2>2 DEF FetchBegins, TypeOK, CallOK, statics, heap
<1>2. CASE FetchLooks(t)
  <2>1. CallOK' /\ (counted' = FALSE \/ counted' = counted)
    BY <1>2, EnterType DEF FetchLooks, InConfig
  <2> QED
    BY <1>2, <2>1 DEF FetchLooks, TypeOK, CallOK, heap
<1>3. CASE FetchMoves(t)
  <2>1. call[t].pc = "move" /\ Enter(t, "user")
    BY <1>3 DEF FetchMoves
  <2>3. CallOK'
    BY <2>1, EnterType DEF InConfig
  <2>2. bad' \subseteq bad \cup {"fetch"}
    BY <1>3 DEF FetchMoves, Misuse
  <2> QED
    BY <1>3, <2>2, <2>3 DEF FetchMoves, TypeOK, CallOK, statics, heap
<1>4. CASE FreeBegins(t)
  <2>1. PICK p \in {"free", "wild"} : Enter(t, p)
    BY <1>4 DEF FreeBegins
  <2>2. call[t].pc = "user"
    BY <1>4 DEF FreeBegins, Begins, Idle
  <2>3. CallOK'
    BY <2>1, <2>2, EnterType DEF InConfig
  <2>4. hist' \subseteq hist \cup {"unready", "wild"}
    BY <1>4 DEF FreeBegins
  <2> QED
    BY <1>4, <2>3, <2>4 DEF FreeBegins, TypeOK, CallOK, statics, heap
<1>5. CASE FreeEnds(t)
  <2>1. Enter(t, "user") /\ call[t].pc \in {"free", "wild"} /\ bad' \subseteq bad \cup {"free"}
    BY <1>5 DEF FreeEnds, Misuse
  <2>2. CallOK'
    BY <2>1, EnterType DEF InConfig
  <2> QED
    BY <1>5, <2>1, <2>2 DEF FreeEnds, TypeOK, CallOK, statics, heap
<1> QED
  BY <1>1, <1>2, <1>3, <1>4, <1>5

LEMMA HookType ==
  ASSUME TypeOK, NEW c \in CPU, HookBegins(c) \/ HookAsks(c) \/ HookPuts(c)
  PROVE  TypeOK'
<1> USE GenFacts
<1>1. CASE HookBegins(c)
  <2>1. hook' \in [CPU -> [pc : {"out", "ask", "put"}, g : Gen \cup {NULL}]]
    BY <1>1 DEF HookBegins, TypeOK
  <2>2. bad' \subseteq bad \cup {"hook"}
    BY <1>1 DEF HookBegins, Misuse
  <2> QED
    BY <1>1, <2>1, <2>2 DEF HookBegins, TypeOK, statics, heap
<1>2. CASE HookAsks(c)
  <2>1. /\ hook' \in [CPU -> [pc : {"out", "ask", "put"}, g : Gen \cup {NULL}]]
        /\ counted' \in BOOLEAN
    <3>1. /\ qptr \in Gen \cup {NULL} /\ counted \in BOOLEAN
          /\ hook \in [CPU -> [pc : {"out", "ask", "put"}, g : Gen \cup {NULL}]]
      BY DEF TypeOK
    <3>2. CASE hook' = [hook EXCEPT ![c] = NoHook] /\ counted' = counted
      BY <3>1, <3>2 DEF NoHook
    <3>3. CASE counted' = TRUE /\ hook' = [hook EXCEPT ![c] = [pc |-> "put", g |-> qptr]]
      BY <3>1, <3>3
    <3> QED
      BY <1>2, <3>2, <3>3 DEF HookAsks
  <2>2. bad' \subseteq bad \cup {"hook"}
    BY <1>2 DEF HookAsks, Misuse
  <2> QED
    BY <1>2, <2>1, <2>2 DEF HookAsks, TypeOK, heap
<1>3. CASE HookPuts(c)
  BY <1>3 DEF HookPuts, TypeOK, Misuse, NoHook, statics, heap
<1> QED
  BY <1>1, <1>2, <1>3

LEMMA ModuleType ==
  ASSUME TypeOK, ips_init \/ InitEnds \/ InitFails \/ ips_exit
  PROVE  TypeOK'
<1> USE GenFacts
<1>1. CASE ips_init
  BY <1>1 DEF ips_init, TypeOK, statics, heap
<1>2. CASE InitEnds
  BY <1>2 DEF InitEnds, TypeOK, statics, heap
<1>3. CASE InitFails
  BY <1>3 DEF InitFails, Unload, TypeOK, Misuse, heap
<1>4. CASE ips_exit
  BY <1>4 DEF ips_exit, Unload, TypeOK, heap
<1> QED
  BY <1>1, <1>2, <1>3, <1>4

LEMMA TypeStep == TypeOK /\ [Next]_vars => TypeOK'
<1> SUFFICES ASSUME TypeOK, [Next]_vars PROVE TypeOK'
  OBVIOUS
<1>1. CASE UNCHANGED vars
  BY <1>1 DEF vars, heap, statics, TypeOK
<1>2. CASE Next
  BY <1>2, ConfigType, IoctlType, HookType, ModuleType DEF Next
<1> QED
  BY <1>1, <1>2

\* Every variable of the driver and of its parties keeps its type.
THEOREM TypeCorrect == Spec => []TypeOK
<1> QED
  BY TypeInit, TypeStep, PTL DEF Spec
-----------------------------------------------------------------------------
(***************************************************************************)
(* The driver in the hands of proper users.                                *)
(***************************************************************************)
\* Queues, areas and names are different things.
LEMMA MemoryFacts ==
  /\ \A g \in Gen : Queue(g) \in Memory /\ Area(g) \in Memory /\ Names(g) \in Memory
  /\ Queue(NULL) \notin Memory /\ Area(NULL) \notin Memory /\ Names(NULL) \notin Memory
  /\ \A g, h : Queue(g) # Area(h) /\ Queue(g) # Names(h) /\ Area(g) # Names(h)
  /\ \A g, h : (Queue(g) = Queue(h) => g = h) /\ (Area(g) = Area(h) => g = h) /\ (Names(g) = Names(h) => g = h)
BY GenFacts DEF Queue, Area, Names, Memory

\* Nothing that a pointer points to was freed.
LEMMA Pointers ==
  ASSUME TypeOK, Owned
  PROVE  /\ qptr # NULL => Queue(qptr) \in memory
         /\ m # NULL => Area(m) \in memory
         /\ data # NULL => Names(data) \in memory
BY MemoryFacts DEF Owned, TypeOK

\* A hook, a fetch or a free after a success finds a queue.
LEMMA SuccessUsable ==
  ASSUME TypeOK, Proper, Succeeded
  PROVE  /\ qptr # NULL /\ data # NULL /\ Usable(qptr) /\ Names(data) \in memory
<1>1. \A t \in Caller : call[t].g = NULL
  BY DEF Proper
<1>2. qptr \in complete \ {NULL} /\ m = qptr /\ data = qptr
  BY <1>1 DEF Proper, Settled
<1> QED
  BY <1>2, Pointers DEF Proper, Usable

\* The configurer is alone.
LEMMA Alone ==
  ASSUME TypeOK, Proper, NEW t \in Caller, call[t].pc \in InConfig \cup {"alloc"}
  PROVE  /\ call[t].g \in Gen /\ call[t].g # NULL /\ ~ registered /\ ~ Succeeded /\ ~ counted
         /\ Built(call[t].pc, call[t].g)
         /\ \A u \in Caller \ {t} : call[u].g = NULL
         /\ \A u \in Caller : call[u].pc # "move"
         /\ \A c \in CPU : hook[c].pc = "out"
         /\ module # "out"
<1>1. call[t].g \in Gen /\ call[t].g # NULL
  BY DEF TypeOK
<1>2. ~ registered /\ ~ Succeeded /\ Built(call[t].pc, call[t].g)
  BY <1>1 DEF Proper, Succeeded
<1>3. \A u \in Caller \ {t} : call[u].g = NULL
  BY <1>1 DEF Proper
<1>4. ~ counted /\ \A u \in Caller : call[u].pc # "move"
  BY <1>2 DEF Proper
<1>5. \A c \in CPU : hook[c].pc = "out"
  BY <1>2 DEF Proper, HookInv
<1>6. module # "out"
  BY <1>1 DEF Proper, Idle
<1> QED
  BY <1>1, <1>2, <1>3, <1>4, <1>5, <1>6

\* A step of the configurer within ips_config.
LEMMA ConfigProper ==
  ASSUME TypeOK, Proper, NEW t \in Caller, call[t].pc \in InConfig \cup {"alloc"},
         NEW p \in InConfig, Enter(t, p), NEW g, g = call[t].g, Owned', Built(p, g)',
         UNCHANGED <<module, counted, registered, hook, answer>>
  PROVE  Proper'
<1>0. /\ ~ registered /\ ~ Succeeded /\ ~ counted /\ module # "out"
      /\ \A u \in Caller \ {t} : call[u].g = NULL
      /\ \A u \in Caller : call[u].pc # "move"
      /\ \A c \in CPU : hook[c].pc = "out"
      /\ g # NULL
  BY Alone
<1>1. /\ call'[t].g = g /\ call'[t].pc = p
      /\ \A u \in Caller \ {t} : call'[u] = call[u]
  BY EnterMoves
<1>2. \A u \in Caller : call'[u].g # NULL => u = t
  BY <1>0, <1>1
<1>3. \A u \in Caller : call'[u].g # NULL => ~ Succeeded' /\ Built(call[u].pc, call[u].g)'
  BY <1>0, <1>1, <1>2 DEF Succeeded
<1>4. HookInv'
  BY <1>0 DEF HookInv
<1>5. \A u \in Caller : call'[u].pc = "move" => registered'
  <2>1. \A u \in Caller : call'[u].pc # "move"
    BY <1>0, <1>1 DEF InConfig
  <2> QED
    BY <2>1
<1>6. ~ \A u \in Caller : call'[u].g = NULL
  BY <1>0, <1>1
<1> QED
  BY <1>0, <1>2, <1>3, <1>4, <1>5, <1>6 DEF Proper, Succeeded

\* What a thread that is in no configuration does to itself disturbs nothing.
LEMMA BystanderProper ==
  ASSUME TypeOK, Proper, NEW t \in Caller, call[t].g = NULL, call'[t].g = NULL,
         \A u \in Caller \ {t} : call'[u] = call[u],
         call'[t].pc = "move" => registered,
         counted' => registered, module # "out",
         answer' = "ok" <=> answer = "ok", answer' = "deaf" <=> answer = "deaf",
         UNCHANGED <<module, memory, complete, qptr, m, data, registered, hook>>
  PROVE  Proper'
<1>1. \A u \in Caller : call'[u].g # NULL => call'[u] = call[u]
  OBVIOUS
<1>2. Owned' /\ HookInv'
  BY DEF Proper, Owned, HookInv
<1>3. \A u \in Caller : call'[u].g # NULL => ~ Succeeded' /\ Built(call[u].pc, call[u].g)'
  <2> SUFFICES ASSUME NEW u \in Caller, call'[u].g # NULL
               PROVE  ~ Succeeded' /\ Built(call[u].pc, call[u].g)'
    OBVIOUS
  <2>1. ~ Succeeded /\ Built(call[u].pc, call[u].g) /\ call'[u] = call[u]
    BY <1>1 DEF Proper
  <2>2. Built(call[u].pc, call[u].g)'
    BY <2>1 DEF Built
  <2> QED
    BY <2>1, <2>2 DEF Succeeded
<1>4. (\A u \in Caller : call'[u].g = NULL) => Settled'
  <2> SUFFICES ASSUME \A u \in Caller : call'[u].g = NULL PROVE Settled'
    OBVIOUS
  <2>1. \A u \in Caller : call[u].g = NULL
    OBVIOUS
  <2> QED
    BY <2>1 DEF Proper, Settled, Succeeded
<1>5. \A u, v \in Caller : call'[u].g # NULL /\ call'[v].g # NULL => u = v
  BY <1>1 DEF Proper
<1>6. \A u \in Caller : call'[u].pc = "move" => registered'
  BY DEF Proper
<1> QED
  BY <1>2, <1>3, <1>4, <1>5, <1>6 DEF Proper, Succeeded

-----------------------------------------------------------------------------
(***************************************************************************)
(* The actions.                                                            *)
(***************************************************************************)
\* The label ip_queue_fail and the failures of ip_queue_create free what the
\* pointers say and nothing else.
LEMMA ExitOwned ==
  ASSUME TypeOK, Owned, ip_queue_exit, data' = data
  PROVE  Owned' /\ bad' = bad /\ qptr' = NULL /\ m' = NULL
<1>1. bad' = bad
  BY Pointers DEF ip_queue_exit, Exit, Misuse
<1>2. memory' = memory \ {Queue(qptr), Area(m)} /\ qptr' = NULL /\ m' = NULL
  BY DEF ip_queue_exit, Exit
<1>3. memory' = {Queue(NULL), Area(NULL), Names(data)} \cap Memory
  BY <1>2, MemoryFacts DEF Owned
<1> QED
  BY <1>1, <1>2, <1>3 DEF Owned

LEMMA ConfigStep ==
  ASSUME TypeOK, Proper, bad = {}, NEW t \in Caller, ips_config(t),
         hist' \subseteq {"unready", "wild"}
  PROVE  Proper' /\ bad' = {}
<1>g. PICK g : g = call[t].g
  OBVIOUS
<1> USE GenFacts, MemoryFacts
<1>0. call[t].pc \in InConfig \cup {"alloc"} =>
        /\ g \in Gen /\ g # NULL /\ ~ registered /\ ~ Succeeded /\ ~ counted
        /\ Built(call[t].pc, g)
        /\ \A u \in Caller \ {t} : call[u].g = NULL
        /\ \A u \in Caller : call[u].pc # "move"
        /\ \A c \in CPU : hook[c].pc = "out"
        /\ module # "out"
  BY <1>g, Alone
<1>1. CASE ConfigBegins(t)
  <2>1. ~ registered /\ ~ Succeeded /\ \A u \in Caller : call[u].g = NULL
    BY <1>1 DEF ConfigBegins, Note
  <2>2. qptr = NULL /\ m = NULL /\ data = NULL /\ Owned
    BY <2>1 DEF Proper, Settled
  <2>3. /\ call' = [call EXCEPT ![t] = [pc |-> "alloc", g |-> configs']]
        /\ UNCHANGED <<module, memory, complete, qptr, m, data, counted, registered, hook, answer, bad>>
        /\ module # "out"
    BY <1>1 DEF ConfigBegins, Begins, statics
  <2>4. /\ call'[t].pc = "alloc"
        /\ \A u \in Caller \ {t} : call'[u] = call[u]
    BY <2>3 DEF TypeOK
  <2>5. \A u, v \in Caller : call'[u].g # NULL /\ call'[v].g # NULL => u = v
    BY <2>1, <2>4
  <2>6. Built(call[t].pc, call[t].g)'
    BY <2>2, <2>3, <2>4 DEF Built
  <2>7. \A u \in Caller : call'[u].g # NULL => ~ Succeeded' /\ Built(call[u].pc, call[u].g)'
    BY <2>1, <2>3, <2>4, <2>6 DEF Succeeded
  <2>8. (\A u \in Caller : call'[u].g = NULL) => Settled'
    BY <2>1, <2>2, <2>3 DEF Settled, Succeeded
  <2>9. Owned' /\ HookInv'
    BY <2>3 DEF Proper, Owned, HookInv
  <2>10. \A u \in Caller : call'[u].pc = "move" => registered'
    BY <2>3, <2>4 DEF Proper
  <2> QED
    BY <2>3, <2>5, <2>7, <2>8, <2>9, <2>10 DEF Proper, Succeeded
<1>2. CASE ConfigRefused(t)
  <2>1. call[t].g = NULL /\ call[t].pc = "user" /\ module # "out"
    <3>1. module # "out" /\ call[t] = Idle
      BY <1>2 DEF ConfigRefused, Begins
    <3> QED
      BY <3>1 DEF Idle
  <2>2. (answer' = "ok" <=> answer = "ok") /\ (answer' = "deaf" <=> answer = "deaf")
    BY <1>2 DEF ConfigRefused, Proper, Succeeded
  <2>3. UNCHANGED <<module, memory, complete, qptr, m, data, counted, registered, hook, call, bad>>
    BY <1>2 DEF ConfigRefused, heap, statics
  <2>4. counted => registered
    BY DEF Proper
  <2> QED
    BY <2>1, <2>2, <2>3, <2>4, BystanderProper
<1>3. CASE CreateBegins(t)
  <2>1. g \in Gen /\ qptr = NULL /\ m = NULL /\ data = NULL /\ Owned
    BY <1>0, <1>3 DEF CreateBegins, Built, Proper
  <2>2. CASE qptr' = g /\ memory' = memory \cup {Queue(g)} /\ Enter(t, "create")
    <3>1. Owned' /\ Built("create", g)'
      BY <1>g, <1>3, <2>1, <2>2 DEF CreateBegins, Owned, Built
    <3> QED
      BY <1>g, <1>3, <2>2, <3>1, ConfigProper DEF CreateBegins, InConfig
  <2>3. CASE qptr' = NULL /\ memory' = memory /\ Enter(t, "queue_fail")
    <3>1. Owned' /\ Built("queue_fail", g)'
      BY <1>3, <2>1, <2>3 DEF CreateBegins, Owned, Built
    <3> QED
      BY <1>g, <1>3, <2>3, <3>1, ConfigProper DEF CreateBegins, InConfig
  <2> QED
    BY <1>g, <1>3, <2>2, <2>3 DEF CreateBegins
<1>4. CASE CreateEnds(t)
  <2>1. g \in Gen /\ qptr = g /\ m = NULL /\ data = NULL /\ Owned
    BY <1>0, <1>4 DEF CreateEnds, Built, Proper, InConfig
  <2>2. bad' = bad
    BY <1>0, <1>4, <2>1, Pointers DEF CreateEnds, Misuse, InConfig
  <2>3. Owned' /\ Built("devset", g)'
    BY <1>g, <1>4, <2>1 DEF CreateEnds, Owned, Built
  <2> QED
    BY <1>g, <1>4, <2>2, <2>3, ConfigProper DEF CreateEnds, InConfig
<1>5. CASE CreateFails(t)
  <2>1. data = NULL /\ Owned
    BY <1>0, <1>5 DEF CreateFails, Built, Proper, InConfig
  <2>2. Owned' /\ bad' = bad /\ data' = NULL
    BY <1>5, <2>1, ExitOwned DEF CreateFails
  <2>3. Built("queue_fail", g)'
    BY <2>2 DEF Built
  <2> QED
    BY <1>g, <1>5, <2>2, <2>3, ConfigProper DEF CreateFails, InConfig
<1>6. CASE DevsetInit(t)
  <2>1. g \in Gen /\ qptr = g /\ m = g /\ g \in complete /\ data = NULL /\ Owned
    BY <1>0, <1>6 DEF DevsetInit, Built, Proper, InConfig
  <2>2. CASE data' = g /\ memory' = memory \cup {Names(g)} /\ Enter(t, "copy")
    <3>1. Owned' /\ Built("copy", g)'
      <4>1. UNCHANGED <<complete, qptr, m>>
        BY <1>6 DEF DevsetInit
      <4>2. memory' = {Queue(g), Area(g), Names(g)} \cap Memory
        BY <2>1, <2>2 DEF Owned
      <4> QED
        BY <2>1, <2>2, <4>1, <4>2 DEF Owned, Built
    <3> QED
      BY <1>g, <1>6, <2>2, <3>1, ConfigProper DEF DevsetInit, InConfig
  <2>3. CASE data' = NULL /\ memory' = memory /\ Enter(t, "devset_fail")
    <3>1. Owned' /\ Built("devset_fail", g)'
      BY <1>6, <2>1, <2>3 DEF DevsetInit, Owned, Built
    <3> QED
      BY <1>g, <1>6, <2>3, <3>1, ConfigProper DEF DevsetInit, InConfig
  <2> QED
    BY <1>g, <1>6, <2>2, <2>3 DEF DevsetInit
<1>7. CASE CopyOut(t)
  <2>1. PICK p \in {"register", "devset_fail"} : Enter(t, p)
    BY <1>7 DEF CopyOut
  <2>2. UNCHANGED <<module, memory, complete, qptr, m, data, counted, registered, hook, answer, bad>>
    BY <1>7 DEF CopyOut, heap, statics
  <2>3. qptr = g /\ m = g /\ g \in complete /\ data = g /\ Owned
    BY <1>0, <1>7 DEF CopyOut, Built, Proper, InConfig
  <2>4. Owned' /\ Built(p, g)'
    BY <2>2, <2>3 DEF Owned, Built
  <2> QED
    BY <1>g, <1>7, <2>1, <2>2, <2>4, ConfigProper DEF CopyOut, InConfig
<1>8. CASE hook_register(t)
  <2>1. qptr = g /\ m = g /\ g \in complete /\ data = g /\ Owned /\ g # NULL
    BY <1>0, <1>8 DEF hook_register, Built, Proper, InConfig
  <2>2. bad' = bad
    BY <1>0, <1>8 DEF hook_register, Misuse, InConfig
  <2>3. /\ UNCHANGED <<module, memory, complete, qptr, m, data, counted, hook>>
        /\ \/ registered' = TRUE /\ answer' = "ok"
           \/ registered' = registered /\ answer' = "deaf"
        /\ call' = [call EXCEPT ![t] = Idle]
    BY <1>8 DEF hook_register, Returns, heap, statics
  <2>4. \A u \in Caller : call'[u].g = NULL
    BY <1>0, <1>8, <2>3 DEF hook_register, InConfig, Idle, TypeOK
  <2>5. Owned' /\ Settled'
    BY <2>1, <2>3 DEF Owned, Settled, Succeeded
  <2>6. /\ ~ registered /\ ~ counted /\ module' # "out"
        /\ \A u \in Caller : call[u].pc # "move"
        /\ \A c \in CPU : hook[c].pc = "out"
    BY <1>0, <1>8, <2>3 DEF hook_register, InConfig
  <2>7. HookInv'
    BY <2>3, <2>6 DEF HookInv
  <2>8. \A u \in Caller : call'[u].pc # "move"
    BY <2>3, <2>6 DEF Idle, TypeOK
  <2>9. (answer' = "ok" <=> registered') /\ (counted' => registered')
    BY <2>3, <2>6
  <2> QED
    BY <2>2, <2>3, <2>4, <2>5, <2>6, <2>7, <2>8, <2>9 DEF Proper
<1>9. CASE devset_exit(t)
  <2>1. Owned
    BY DEF Proper
  <2>2. bad' = bad
    BY <1>9, <2>1, Pointers DEF devset_exit, Misuse
  <2>3. memory' = {Queue(qptr), Area(m), Names(NULL)} \cap Memory
    BY <1>9, <2>1 DEF devset_exit, Owned
  <2>4. Owned' /\ Built("queue_fail", g)'
    BY <1>9, <2>3 DEF devset_exit, Owned, Built
  <2> QED
    BY <1>g, <1>9, <2>2, <2>4, ConfigProper DEF devset_exit, InConfig
<1>10. CASE QueueFail(t)
  <2>1. data = NULL /\ Owned
    BY <1>0, <1>10 DEF QueueFail, Built, Proper, InConfig
  <2>2. Owned' /\ bad' = bad /\ data' = NULL /\ qptr' = NULL /\ m' = NULL
    BY <1>10, <2>1, ExitOwned DEF QueueFail
  <2>3. /\ UNCHANGED <<module, counted, registered, hook>>
        /\ answer' = "error" /\ call' = [call EXCEPT ![t] = Idle]
    BY <1>10 DEF QueueFail, Returns
  <2>4. /\ \A u \in Caller : call'[u].g = NULL
        /\ \A u \in Caller : call'[u].pc # "move"
    <3>1. /\ \A u \in Caller \ {t} : call[u].g = NULL
          /\ \A u \in Caller : call[u].pc # "move"
      BY <1>0, <1>10 DEF QueueFail, InConfig
    <3>2. call'[t] = Idle /\ \A u \in Caller \ {t} : call'[u] = call[u]
      BY <2>3 DEF TypeOK
    <3> QED
      BY <3>1, <3>2 DEF Idle
  <2>5. module # "out" /\ ~ registered /\ ~ counted /\ ~ Succeeded'
    BY <1>0, <1>10, <2>3 DEF QueueFail, InConfig, Succeeded
  <2>6. HookInv' /\ Settled'
    <3>1. \A c \in CPU : hook[c].pc = "out"
      BY <1>0, <1>10 DEF QueueFail, InConfig
    <3> QED
      BY <2>2, <2>3, <2>5, <3>1 DEF HookInv, Settled
  <2> QED
    BY <2>2, <2>3, <2>4, <2>5, <2>6 DEF Proper
<1>11. CASE ReadsBehind(t)
  BY <1>11 DEF ReadsBehind, Note
<1> QED
  BY <1>1, <1>2, <1>3, <1>4, <1>5, <1>6, <1>7, <1>8, <1>9, <1>10, <1>11 DEF ips_config

\* A configuration brings no thread into IPS_FREE_MEM and takes no success back.
LEMMA ConfigFree ==
  ASSUME TypeOK, Proper, NEW t \in Caller, ips_config(t)
  PROVE  /\ \A u \in Caller, p \in {"free", "wild"} : call'[u].pc = p => call[u].pc = p
         /\ Succeeded => Succeeded'
<1>1. \/ \E p \in InConfig : Enter(t, p)
      \/ call' = call
      \/ call' = [call EXCEPT ![t] = [pc |-> "alloc", g |-> configs']]
      \/ call' = [call EXCEPT ![t] = Idle]
  BY DEF ips_config, ConfigBegins, ConfigRefused, CreateBegins, CreateEnds, CreateFails, DevsetInit,
         ReadsBehind, CopyOut, hook_register, devset_exit, QueueFail, Returns, InConfig
<1>2. Succeeded => Succeeded'
  <2>1. CASE call[t].pc \in InConfig \cup {"alloc"}
    BY <2>1, Alone
  <2>2. CASE call[t].pc \notin InConfig \cup {"alloc"}
    <3>1. ConfigBegins(t) \/ ConfigRefused(t)
      BY <2>2 DEF ips_config, CreateBegins, CreateEnds, CreateFails, DevsetInit,
         ReadsBehind, CopyOut, hook_register, devset_exit, QueueFail, InConfig
    <3> QED
      BY <3>1 DEF ConfigBegins, ConfigRefused, Succeeded
  <2> QED
    BY <2>1, <2>2
<1>3. CASE \E p \in InConfig : Enter(t, p)
  <2>1. PICK p \in InConfig : Enter(t, p)
    BY <1>3
  <2> QED
    BY <1>2, <2>1, EnterMoves DEF InConfig
<1>4. CASE call' = call
  BY <1>2, <1>4
<1>5. CASE call' = [call EXCEPT ![t] = [pc |-> "alloc", g |-> configs']]
  BY <1>2, <1>5 DEF TypeOK
<1>6. CASE call' = [call EXCEPT ![t] = Idle]
  BY <1>2, <1>6 DEF TypeOK, Idle
<1> QED
  BY <1>1, <1>3, <1>4, <1>5, <1>6

LEMMA IoctlStep ==
  ASSUME TypeOK, Proper, bad = {}, NEW t \in Caller,
         \/ FetchBegins(t) \/ FetchLooks(t) \/ FetchMoves(t)
         \/ FreeBegins(t) \/ FreeEnds(t)
  PROVE  Proper' /\ (hist' = {} /\ FreeInv => FreeInv')
<1>0. /\ call[t] \in [pc : InConfig \cup {"user", "alloc", "fetch", "move", "free", "wild"}, g : Gen \cup {NULL}]
      /\ call[t].g # NULL <=> call[t].pc \in InConfig \cup {"alloc"}
  BY DEF TypeOK
<1>1. \E p \in {"fetch", "move", "free", "wild", "user"} : Enter(t, p)
  BY DEF FetchBegins, FetchLooks, FetchMoves, FreeBegins, FreeEnds
<1>2. PICK p \in {"fetch", "move", "free", "wild", "user"} : Enter(t, p)
  BY <1>1
<1>3. call[t].pc \in {"user", "fetch", "move", "free", "wild"} /\ module # "out"
  <2>1. call[t] = Idle => call[t].pc = "user"
    BY DEF Idle
  <2>2. call[t].pc # "user" => module # "out"
    BY DEF Proper, Idle
  <2> QED
    BY <2>1, <2>2 DEF FetchBegins, FetchLooks, FetchMoves, FreeBegins, FreeEnds, Begins
<1>4. /\ call'[t].pc = p /\ call'[t].g = call[t].g
      /\ \A u \in Caller \ {t} : call'[u] = call[u]
  BY <1>2, EnterMoves
<1>5. call[t].g = NULL
  BY <1>0, <1>3 DEF InConfig
<1>6. UNCHANGED <<module, memory, complete, qptr, m, data, registered, hook, answer>>
  BY DEF FetchBegins, FetchLooks, FetchMoves, FreeBegins, FreeEnds, heap, statics
<1>7. counted' => registered
  <2>1. counted => registered
    BY DEF Proper
  <2> QED
    BY <2>1 DEF FetchBegins, FetchLooks, FetchMoves, FreeBegins, FreeEnds, statics
<1>8. p = "move" => registered
  <2>1. counted => registered
    BY DEF Proper
  <2>2. ASSUME p = "move" PROVE counted
    <3>1. call'[t].pc = "move"
      BY <1>4, <2>2
    <3>2. CASE FetchLooks(t) /\ counted
      BY <3>2
    <3>3. CASE Enter(t, "user") \/ Enter(t, "fetch") \/ Enter(t, "free") \/ Enter(t, "wild")
      <4>1. call'[t].pc # "move"
        BY <3>3, EnterMoves
      <4> QED
        BY <3>1, <4>1
    <3> QED
      BY <3>2, <3>3 DEF FetchBegins, FetchLooks, FetchMoves, FreeBegins, FreeEnds
  <2> QED
    BY <2>1, <2>2
<1>9. Proper'
  BY <1>3, <1>4, <1>5, <1>6, <1>7, <1>8, BystanderProper
<1>10. ASSUME hist' = {}, FreeInv PROVE FreeInv'
  <2>1. p # "wild" /\ (p = "free" => Succeeded)
    <3>1. CASE FreeBegins(t)
      <4>1. PICK q \in {"free", "wild"} :
              /\ Enter(t, q)
              /\ hist' = hist \cup (IF Succeeded THEN {} ELSE {"unready"})
                             \cup (IF q = "wild" THEN {"wild"} ELSE {})
        BY <3>1 DEF FreeBegins
      <4>2. q = p
        BY <1>4, <4>1, EnterMoves
      <4> QED
        BY <1>10, <4>1, <4>2
    <3>2. CASE FreeEnds(t)
      BY <1>4, <3>2, EnterMoves DEF FreeEnds
    <3>3. CASE Enter(t, "user") \/ Enter(t, "fetch") \/ Enter(t, "move")
      <4>1. call'[t].pc # "free" /\ call'[t].pc # "wild"
        BY <3>3, EnterMoves
      <4> QED
        BY <1>4, <4>1
    <3> QED
      BY <3>1, <3>2, <3>3 DEF FetchBegins, FetchLooks, FetchMoves
  <2>2. \A u \in Caller : call'[u].pc # "wild" /\ (call'[u].pc = "free" => Succeeded')
    BY <1>4, <1>6, <1>10, <2>1 DEF FreeInv, Succeeded
  <2>3. bad' = {}
    <3>1. FetchMoves(t) \/ FreeEnds(t) => Succeeded
      BY <1>10 DEF FetchMoves, FreeEnds, FreeInv, Proper, Succeeded
    <3>2. Succeeded => Usable(qptr)
      BY SuccessUsable
    <3>3. call[t].pc # "wild"
      BY <1>10 DEF FreeInv
    <3> QED
      BY <1>10, <3>1, <3>2, <3>3 DEF FreeInv, FetchBegins, FetchLooks, FetchMoves, FreeBegins, FreeEnds, Misuse
  <2> QED
    BY <2>2, <2>3 DEF FreeInv
<1> QED
  BY <1>9, <1>10

LEMMA HookStep ==
  ASSUME TypeOK, Proper, bad = {}, hist \subseteq {"unready", "wild"},
         NEW c \in CPU, HookBegins(c) \/ HookAsks(c) \/ HookPuts(c)
  PROVE  Proper' /\ bad' = {}
<1>1. /\ registered
      /\ hook[c].pc = "ask" => hook[c].g = data
      /\ hook[c].pc = "put" => hook[c].g = qptr
  BY DEF HookBegins, HookAsks, HookPuts, Proper, HookInv
<1>2. /\ qptr # NULL /\ data # NULL /\ Usable(qptr) /\ Names(data) \in memory
      /\ \A u \in Caller : call[u].g = NULL
  <2>1. Succeeded
    BY <1>1 DEF Proper, Succeeded
  <2>2. \A u \in Caller : call[u].g = NULL
    BY <2>1 DEF Proper
  <2> QED
    BY <2>1, <2>2, SuccessUsable
<1>3. bad' = {}
  BY <1>1, <1>2 DEF HookBegins, HookAsks, HookPuts, Misuse
<1>4. UNCHANGED <<module, memory, complete, qptr, m, data, registered, call, answer>>
  BY DEF HookBegins, HookAsks, HookPuts, heap, statics
<1>5. HookInv'
  <2>1. hook \in [CPU -> [pc : {"out", "ask", "put"}, g : Gen \cup {NULL}]]
    BY DEF TypeOK
  <2>2. \/ hook' = [hook EXCEPT ![c] = [pc |-> "ask", g |-> data]]
        \/ hook' = [hook EXCEPT ![c] = [pc |-> "put", g |-> qptr]]
        \/ hook' = [hook EXCEPT ![c] = NoHook]
    BY DEF HookBegins, HookAsks, HookPuts
  <2>3. /\ \A d \in CPU \ {c} : hook'[d] = hook[d]
        /\ \/ hook'[c].pc = "ask" /\ hook'[c].g = data
           \/ hook'[c].pc = "put" /\ hook'[c].g = qptr
           \/ hook'[c].pc = "out"
    BY <2>1, <2>2 DEF NoHook
  <2> QED
    BY <1>1, <1>4, <2>3 DEF Proper, HookInv
<1>6. Owned' /\ Settled'
  BY <1>2, <1>4 DEF Proper, Owned, Settled, Succeeded
<1> QED
  BY <1>1, <1>2, <1>3, <1>4, <1>5, <1>6 DEF Proper, Succeeded

LEMMA ModuleStep ==
  ASSUME TypeOK, Proper, bad = {}, ips_init \/ InitEnds \/ InitFails \/ ips_exit,
         hist' \subseteq {"unready", "wild"}
  PROVE  Proper' /\ bad' = {} /\ (FreeInv => FreeInv')
<1>1. CASE ips_init \/ InitEnds
  <2>1. /\ UNCHANGED <<memory, complete, qptr, m, data, counted, registered, call, hook, answer, bad>>
        /\ module' # "out"
    BY <1>1 DEF ips_init, InitEnds, heap, statics
  <2>2. Owned' /\ HookInv'
    BY <2>1 DEF Proper, Owned, HookInv
  <2>3. (\A t \in Caller : call'[t].g = NULL) => Settled'
    BY <2>1 DEF Proper, Settled, Succeeded
  <2>4. \A t \in Caller : call'[t].g # NULL => ~ Succeeded' /\ Built(call[t].pc, call[t].g)'
    BY <2>1 DEF Proper, Built, Succeeded
  <2>5. FreeInv => FreeInv'
    BY <2>1 DEF FreeInv, Succeeded
  <2> QED
    BY <2>1, <2>2, <2>3, <2>4, <2>5 DEF Proper
<1>2. CASE InitFails \/ ips_exit
  <2>1. Unload
    BY <1>2 DEF InitFails, ips_exit
  <2>2. ~ registered /\ \A t \in Caller : call[t] = Idle
    BY <2>1 DEF Unload
  <2>3. /\ UNCHANGED <<registered, call, hook>> /\ memory' = {}
        /\ qptr' = NULL /\ m' = NULL /\ data' = NULL /\ counted' = FALSE /\ answer' = "none"
    BY <2>1 DEF Unload
  <2>4. bad' = {}
    BY <1>2, <2>2 DEF InitFails, ips_exit, Misuse
  <2>5. \A t \in Caller : call[t].g = NULL /\ call[t].pc = "user"
    BY <2>2 DEF Idle
  <2>6. Owned' /\ HookInv' /\ Settled' /\ ~ Succeeded'
    BY <2>2, <2>3, MemoryFacts DEF Proper, Owned, HookInv, Settled, Succeeded
  <2>7. FreeInv'
    BY <2>3, <2>4, <2>5 DEF FreeInv
  <2> QED
    BY <2>2, <2>3, <2>4, <2>5, <2>6, <2>7 DEF Proper
<1> QED
  BY <1>1, <1>2

-----------------------------------------------------------------------------
(***************************************************************************)
(* The inductive invariant.                                                *)
(***************************************************************************)
LEMMA IInvInit == Init => IInv
<1> SUFFICES ASSUME Init PROVE IInv
  OBVIOUS
<1>1. Owned
  BY MemoryFacts DEF Init, Owned
<1>2. Settled /\ HookInv /\ \A t \in Caller : call[t].g = NULL /\ call[t].pc = "user"
  BY DEF Init, Settled, HookInv, NoHook, Idle, Succeeded
<1>3. Proper /\ FreeInv
  BY <1>1, <1>2 DEF Init, Proper, FreeInv, Succeeded
<1> QED
  BY <1>3, TypeInit DEF Init, IInv

\* What was done stays done.
LEMMA HistGrows == ASSUME Next PROVE hist \subseteq hist'
BY DEF Next, ips_init, InitEnds, InitFails, ips_exit, Unload, ips_config, ConfigBegins, ConfigRefused,
       CreateBegins, CreateEnds, CreateFails, ReadsBehind, DevsetInit, CopyOut, hook_register,
       devset_exit, QueueFail, FetchBegins, FetchLooks, FetchMoves, FreeBegins, FreeEnds, HookBegins, HookAsks, HookPuts, Note

\* Who adds what.
LEMMA WhoNotes ==
  ASSUME Next
  PROVE  \/ hist' = hist
         \/ InitFails \/ ips_exit
         \/ \E t \in Caller : ConfigBegins(t) /\ hist' \subseteq hist \cup {"again"}
         \/ \E t \in Caller : ReadsBehind(t) /\ hist' \subseteq hist \cup {"short"}
         \/ \E t \in Caller : FreeBegins(t) /\ hist' \subseteq hist \cup {"unready", "wild"}
<1>1. \/ hist' = hist
      \/ InitFails \/ ips_exit
      \/ \E t \in Caller : ConfigBegins(t) \/ FreeBegins(t) \/ ReadsBehind(t)
  BY DEF Next, ips_init, InitEnds, ips_config, ConfigRefused,
       CreateBegins, CreateEnds, CreateFails, DevsetInit, CopyOut, hook_register,
       devset_exit, QueueFail, FetchBegins, FetchLooks, FetchMoves, FreeEnds, HookBegins, HookAsks, HookPuts
<1>2. \A t \in Caller : FreeBegins(t) => hist' \subseteq hist \cup {"unready", "wild"}
  BY DEF FreeBegins
<1>3. \A t \in Caller : ConfigBegins(t) => hist' \subseteq hist \cup {"again"}
  BY DEF ConfigBegins, Note
<1>4. \A t \in Caller : ReadsBehind(t) => hist' \subseteq hist \cup {"short"}
  BY DEF ReadsBehind, Note
<1> QED
  BY <1>1, <1>2, <1>3, <1>4

\* Only an init that fails leaves threads behind, and it breaks them.
LEMMA EarlyStep ==
  ASSUME Next, "early" \in hist => bad # {}
  PROVE  "early" \in hist' => bad' # {} /\ module' = "out"
<1>1. "early" \notin hist /\ bad = {}
  BY DEF Next
<1>2. CASE InitFails
  BY <1>1, <1>2 DEF InitFails, Unload, Misuse
<1>3. CASE ips_exit
  BY <1>1, <1>3 DEF ips_exit, Unload
<1>4. CASE ~ (InitFails \/ ips_exit)
  <2>1. "early" \notin hist'
    BY <1>1, <1>4, WhoNotes
  <2> QED
    BY <2>1
<1> QED
  BY <1>2, <1>3, <1>4

\* Only a read behind the copied configuration ends there, and nothing follows it.
LEMMA ShortStep ==
  ASSUME TypeOK, Next, "short" \in hist => bad # {}, "short" \in hist'
  PROVE  bad' # {} /\ \E t \in Caller : call'[t].g # NULL
<1>1. "short" \notin hist
  BY DEF Next
<1>2. PICK t \in Caller : ReadsBehind(t)
  <2>1. ASSUME InitFails \/ ips_exit PROVE FALSE
    <3>1. Unload
      BY <2>1 DEF InitFails, ips_exit
    <3>2. hist' \subseteq hist \cup {"unloaded", "early"}
      BY <3>1 DEF Unload
    <3> QED
      BY <1>1, <3>2
  <2> QED
    BY <1>1, <2>1, WhoNotes
<1>3. call[t].g # NULL
  BY <1>2 DEF ReadsBehind, TypeOK, InConfig
<1> QED
  BY <1>2, <1>3 DEF ReadsBehind, Misuse

\* After the hooks outlived the module, only a second configuration changes
\* what is registered, and no IPS_CONFIG is answered but with an error.
LEMMA UnloadedStep ==
  ASSUME TypeOK, Next, "unloaded" \in hist', "again" \notin hist',
         "unloaded" \in hist => UnloadedInv,
         "unloaded" \notin hist => Proper
  PROVE  UnloadedInv'
<1>1. CASE InitFails \/ ips_exit
  <2>1. Unload
    BY <1>1 DEF InitFails, ips_exit
  <2>2. answer' = "none" /\ UNCHANGED <<registered, call>>
    BY <2>1 DEF Unload
  <2>3. registered /\ \A t \in Caller : call[t].g = NULL
    <3>1. "unloaded" \notin hist => Proper /\ registered
      BY <2>1 DEF Unload
    <3>2. "unloaded" \notin hist => Succeeded
      BY <3>1 DEF Proper, Succeeded
    <3> QED
      BY <3>1, <3>2 DEF UnloadedInv, Proper
  <2> QED
    BY <2>2, <2>3 DEF UnloadedInv, Succeeded
<1>2. CASE ips_init \/ InitEnds \/ \E c \in CPU : HookBegins(c) \/ HookAsks(c) \/ HookPuts(c)
  <2>1. "unloaded" \in hist /\ UNCHANGED <<registered, call, answer>>
    BY <1>2 DEF ips_init, InitEnds, HookBegins, HookAsks, HookPuts
  <2> QED
    BY <2>1 DEF UnloadedInv, Succeeded
<1>3. ASSUME NEW t \in Caller, ips_config(t) PROVE UnloadedInv'
  <2>1. "unloaded" \in hist
    <3>1. CASE ConfigBegins(t)
      BY <3>1 DEF ConfigBegins, Note
    <3>2. CASE ReadsBehind(t)
      BY <3>2 DEF ReadsBehind, Note
    <3>3. CASE ~ (ConfigBegins(t) \/ ReadsBehind(t))
      BY <1>3, <3>3 DEF ips_config, ConfigRefused, CreateBegins, CreateEnds, CreateFails,
         DevsetInit, CopyOut, hook_register, devset_exit, QueueFail
    <3> QED
      BY <3>1, <3>2, <3>3
  <2>2. UnloadedInv /\ call[t].pc \notin InConfig \cup {"alloc"}
    BY <2>1 DEF UnloadedInv, TypeOK
  <2>3. ~ ConfigBegins(t)
    BY <2>2 DEF ConfigBegins, Note, UnloadedInv
  <2>4. ConfigRefused(t)
    BY <1>3, <2>2, <2>3 DEF ips_config, CreateBegins, CreateEnds, CreateFails, ReadsBehind, DevsetInit, CopyOut,
         hook_register, devset_exit, QueueFail, InConfig
  <2> QED
    BY <2>2, <2>4 DEF ConfigRefused, UnloadedInv, Succeeded, statics
<1>4. ASSUME NEW t \in Caller,
             FetchBegins(t) \/ FetchLooks(t) \/ FetchMoves(t) \/ FreeBegins(t) \/ FreeEnds(t)
      PROVE  UnloadedInv'
  <2>1. "unloaded" \in hist /\ UNCHANGED <<registered, answer>>
    BY <1>4 DEF FetchBegins, FetchLooks, FetchMoves, FreeBegins, FreeEnds, statics
  <2>2. PICK p \in {"fetch", "move", "free", "wild", "user"} : Enter(t, p)
    BY <1>4 DEF FetchBegins, FetchLooks, FetchMoves, FreeBegins, FreeEnds
  <2>3. \A u \in Caller : call'[u].g = call[u].g
    BY <2>2, EnterMoves
  <2> QED
    BY <2>1, <2>3 DEF UnloadedInv, Succeeded
<1> QED
  BY <1>1, <1>2, <1>3, <1>4 DEF Next

LEMMA IInvStep == IInv /\ [Next]_vars => IInv'
<1> SUFFICES ASSUME IInv, [Next]_vars PROVE IInv'
  OBVIOUS
<1>1. CASE UNCHANGED vars
  <2>1. UNCHANGED <<module, configs, memory, complete, qptr, m, data, counted, registered, call, hook,
                    answer, bad, hist>>
    BY <1>1 DEF vars, heap, statics
  <2>2. TypeOK'
    BY <1>1, TypeStep DEF IInv
  <2>3. UnloadedInv => UnloadedInv'
    BY <2>1 DEF UnloadedInv, Succeeded
  <2>4. FreeInv => FreeInv'
    BY <2>1 DEF FreeInv, Succeeded
  <2>5. /\ Owned' = Owned /\ HookInv' = HookInv /\ Settled' = Settled /\ Succeeded' = Succeeded
        /\ \A p, g : Built(p, g)' = Built(p, g)
    BY <2>1 DEF Owned, HookInv, Settled, Built, Succeeded
  <2>6. Proper => Proper'
    BY <2>1, <2>5 DEF Proper
  <2> QED
    BY <2>1, <2>2, <2>3, <2>4, <2>6 DEF IInv
<1>2. CASE Next
  <2>1. TypeOK /\ TypeOK' /\ bad = {} /\ hist \subseteq hist'
    BY <1>2, TypeStep, HistGrows DEF IInv, Next
  <2>2. "early" \in hist' => bad' # {} /\ module' = "out"
    BY <1>2, EarlyStep DEF IInv
  <2>e. "short" \in hist' => bad' # {} /\ \E t \in Caller : call'[t].g # NULL
    BY <1>2, <2>1, ShortStep DEF IInv
  <2>3. ASSUME "unloaded" \in hist', "again" \notin hist' PROVE UnloadedInv'
    <3>1. "unloaded" \in hist => UnloadedInv
      <4>1. "again" \notin hist
        BY <2>1, <2>3
      <4> QED
        BY <4>1 DEF IInv
    <3>2. ASSUME "unloaded" \notin hist PROVE Proper
      <4>1. "early" \notin hist /\ "again" \notin hist /\ "short" \notin hist
        BY <2>1, <2>3 DEF IInv
      <4>2. hist \subseteq {"again", "early", "short", "unready", "unloaded", "wild"}
        BY <2>1 DEF TypeOK
      <4>3. hist \subseteq {"unready", "wild"}
        BY <3>2, <4>1, <4>2
      <4> QED
        BY <4>3 DEF IInv
    <3> QED
      BY <1>2, <2>1, <2>3, <3>1, <3>2, UnloadedStep
  <2>4. ASSUME hist' \subseteq {"unready", "wild"}
        PROVE  Proper' /\ (hist' = {} => FreeInv')
    <3>1. Proper /\ hist \subseteq {"unready", "wild"} /\ (hist' = {} => FreeInv)
      BY <2>1, <2>4 DEF IInv
    <3>2. ASSUME NEW t \in Caller, ips_config(t) PROVE Proper' /\ (hist' = {} => FreeInv')
      BY <2>1, <2>4, <3>1, <3>2, ConfigStep, ConfigFree DEF FreeInv
    <3>3. ASSUME NEW t \in Caller,
                 FetchBegins(t) \/ FetchLooks(t) \/ FetchMoves(t) \/ FreeBegins(t) \/ FreeEnds(t)
          PROVE  Proper' /\ (hist' = {} => FreeInv')
      BY <2>1, <3>1, <3>3, IoctlStep
    <3>4. ASSUME NEW c \in CPU, HookBegins(c) \/ HookAsks(c) \/ HookPuts(c)
          PROVE  Proper' /\ (hist' = {} => FreeInv')
      <4>1. Proper' /\ bad' = {}
        BY <2>1, <3>1, <3>4, HookStep
      <4>2. UNCHANGED <<call, registered>>
        BY <3>4 DEF HookBegins, HookAsks, HookPuts
      <4>3. Succeeded' = Succeeded
        BY <3>4 DEF HookBegins, HookAsks, HookPuts, Succeeded
      <4> QED
        BY <3>1, <4>1, <4>2, <4>3 DEF FreeInv
    <3>5. ASSUME ips_init \/ InitEnds \/ InitFails \/ ips_exit
          PROVE  Proper' /\ (hist' = {} => FreeInv')
      BY <2>1, <2>4, <3>1, <3>5, ModuleStep
    <3> QED
      BY <1>2, <3>2, <3>3, <3>4, <3>5 DEF Next
  <2>5. hist' = {} => hist' \subseteq {"unready", "wild"}
    OBVIOUS
  <2> QED
    BY <2>1, <2>2, <2>e, <2>3, <2>4, <2>5 DEF IInv
<1> QED
  BY <1>1, <1>2

\* Wherever IPS_CONFIG fails, and however often it is called, no hook, fetch,
\* free or IPS_CONFIG uses memory that is not there, while users and the module
\* do as MemorySafe names it.
THEOREM NothingIsMisused == Spec => []MemorySafe
<1>1. IInv => MemorySafe
  BY DEF IInv, FreeInv, MemorySafe
<1> QED
  BY <1>1, IInvInit, IInvStep, PTL DEF Spec

\* What IPS_CONFIG returned last says how things are.
THEOREM AnswersAreRight == Spec => []ConfigAnswers
<1>1. IInv => ConfigAnswers
  <2> SUFFICES ASSUME IInv, module # "out", "again" \notin hist, \A t \in Caller : call[t].g = NULL
               PROVE  IF Succeeded
                      THEN (registered <=> answer = "ok") /\ Usable(qptr) /\ Names(data) \in memory
                      ELSE \/ "unloaded" \in hist
                           \/ ~ registered /\ memory = {} /\ qptr = NULL /\ m = NULL
    BY DEF ConfigAnswers
  <2>1. CASE "unloaded" \in hist
    BY <2>1 DEF IInv, UnloadedInv
  <2>2. CASE "unloaded" \notin hist
    <3>1. hist \subseteq {"unready", "wild"} /\ TypeOK
      BY <2>2 DEF IInv, TypeOK
    <3>2. Proper
      BY <3>1 DEF IInv
    <3>3. CASE Succeeded
      BY <3>1, <3>2, <3>3, SuccessUsable DEF Proper
    <3>4. CASE ~ Succeeded
      <4>1. qptr = NULL /\ m = NULL /\ data = NULL /\ ~ registered
        BY <3>2, <3>4 DEF Proper, Settled, Succeeded
      <4>2. memory = {}
        BY <3>2, <4>1, MemoryFacts DEF Proper, Owned
      <4> QED
        BY <3>4, <4>1, <4>2
    <3> QED
      BY <3>3, <3>4
  <2> QED
    BY <2>1, <2>2
<1> QED
  BY <1>1, IInvInit, IInvStep, PTL DEF Spec

=============================================================================
