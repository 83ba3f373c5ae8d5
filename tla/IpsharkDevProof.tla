--------------------------- MODULE IpsharkDevProof ---------------------------
(***************************************************************************)
(* Proofs about IpsharkDev, for every number of threads and hooks, every   *)
(* list and every size of the queue.                                       *)
(***************************************************************************)
EXTENDS IpsharkDev, SequenceTheorems, TLAPS

USE DEF modvars, devvars, locals, setvars, queuevars, hookvars

State == {"user"} \cup Opening \cup Releasing \cup Configuring \cup Fetching

\* Release takes down what packets come in by before what they are put in.
LEMMA AfterValues ==
  /\ ReleaseOrder[1] = "unregister"
  /\ After("unregister") = "synchronize" /\ After("synchronize") = "queue_exit"
  /\ After("queue_exit") = "devset_exit" /\ After("devset_exit") = "user"
<1>1. /\ Len(ReleaseOrder) = 4 /\ DOMAIN ReleaseOrder = 1 .. 4
      /\ ReleaseOrder[1] = "unregister" /\ ReleaseOrder[2] = "synchronize"
      /\ ReleaseOrder[3] = "queue_exit" /\ ReleaseOrder[4] = "devset_exit"
  <2>1. /\ ReleaseOrder[1] = "unregister" /\ ReleaseOrder[2] = "synchronize"
        /\ ReleaseOrder[3] = "queue_exit" /\ ReleaseOrder[4] = "devset_exit"
    BY DEF ReleaseOrder
  <2>2. Len(ReleaseOrder) = 4
    BY DEF ReleaseOrder
  <2>3. ReleaseOrder \in Seq({"unregister", "synchronize", "queue_exit", "devset_exit"})
    BY DEF ReleaseOrder
  <2>4. DOMAIN ReleaseOrder = 1 .. 4
    BY <2>2, <2>3
  <2> QED
    BY <2>1, <2>2, <2>4
<1> HIDE DEF ReleaseOrder
<1>2. ASSUME NEW j \in 1 .. 4
      PROVE  After(ReleaseOrder[j]) = IF j < 4 THEN ReleaseOrder[j + 1] ELSE "user"
  <2> DEFINE P(i) == ReleaseOrder[i] = ReleaseOrder[j]
  <2>1. \A i \in DOMAIN ReleaseOrder : P(i) <=> i = j
    BY <1>1
  <2>2. (CHOOSE i \in DOMAIN ReleaseOrder : P(i)) = j
    <3> HIDE DEF P
    <3> QED
      BY <1>1, <2>1
  <2> QED
    BY <1>1, <2>2 DEF After
<1>3. 1 \in 1 .. 4 /\ 2 \in 1 .. 4 /\ 3 \in 1 .. 4 /\ 4 \in 1 .. 4
  OBVIOUS
<1>4. After("unregister") = "synchronize" /\ After("synchronize") = "queue_exit"
  BY <1>1, <1>2, <1>3
<1>5. After("queue_exit") = "devset_exit" /\ After("devset_exit") = "user"
  BY <1>1, <1>2, <1>3
<1> QED
  BY <1>1, <1>4, <1>5

-----------------------------------------------------------------------------
(***************************************************************************)
(* Type correctness.                                                       *)
(***************************************************************************)
LEMMA TypeInit == Init => TypeOK
<1> SUFFICES ASSUME Init  PROVE TypeOK
  OBVIOUS
<1>1. pc \in [Thread -> State] /\ fd \in [Thread -> Thread \cup {NoFile}]
  BY DEF Init, State
<1>2. list \in [Thread -> Lists \cup {NoList}] /\ k \in [Thread -> Nat] /\ n \in [Thread -> 0 .. MaxFetch]
  BY SizeAssumption DEF Init
<1>3. hk \in [Ctx -> [pc : {"out", "in", "other", "put", "insert"},
                     in : Dev \cup {NoDev}, out : Dev \cup {NoDev}, early : BOOLEAN]]
  BY DEF Init, NoHook
<1>4. len \in 0 .. Cap
  BY SizeAssumption DEF Init
<1> QED
  BY <1>1, <1>2, <1>3, <1>4 DEF Init, TypeOK, State

\* A thread's next step is a step.
LEMMA GoType ==
  ASSUME TypeOK, NEW t \in Thread, NEW p \in State, Go(t, p)
  PROVE  pc' \in [Thread -> State]
BY DEF TypeOK, Go, State

LEMMA StateMembers ==
  /\ "user" \in State
  /\ Opening \subseteq State /\ Releasing \subseteq State
  /\ Configuring \subseteq State /\ Fetching \subseteq State
BY DEF State

\* What an ioctl leaves behind when it returns.
LEMMA ReturnType ==
  ASSUME TypeOK, NEW t \in Thread, Return(t)
  PROVE  /\ pc' \in [Thread -> State] /\ fd' \in [Thread -> Thread \cup {NoFile}]
         /\ list' \in [Thread -> Lists \cup {NoList}] /\ k' \in [Thread -> Nat]
         /\ n' \in [Thread -> 0 .. MaxFetch]
<1>1. pc' \in [Thread -> State]
  BY GoType, StateMembers DEF Return
<1>2. fd' \in [Thread -> Thread \cup {NoFile}] /\ list' \in [Thread -> Lists \cup {NoList}]
  BY DEF Return, TypeOK
<1>3. k' \in [Thread -> Nat] /\ n' \in [Thread -> 0 .. MaxFetch]
  BY SizeAssumption DEF Return, TypeOK
<1> QED
  BY <1>1, <1>2, <1>3

\* What is misused is one of these.
LEMMA MisuseType ==
  ASSUME TypeOK, NEW who \in {"open", "release", "config", "hook", "proc", "exit"},
         NEW wrong \in BOOLEAN, Misuse(who, wrong)
  PROVE  bad' \subseteq {"open", "release", "config", "hook", "proc", "exit"}
BY DEF TypeOK, Misuse

\* A step that changes no more than pc.
LEMMA OnlyMoves ==
  ASSUME TypeOK, pc' \in [Thread -> State],
         UNCHANGED <<modvars, devvars, locals, setvars, queuevars, hookvars, reader, bad, hist>>
  PROVE  TypeOK'
BY DEF TypeOK, State

LEMMA FetchGoesType ==
  ASSUME TypeOK, NEW t \in Thread, NEW from, NEW to \in State, FetchGoes(t, from, to)
  PROVE  TypeOK'
BY GoType, OnlyMoves DEF FetchGoes

LEMMA OpenType ==
  ASSUME TypeOK, NEW t \in Thread, Open(t) \/ OpenStep(t)
  PROVE  TypeOK'
<1>1. CASE Open(t)
  <2>1. pc' \in [Thread -> State]
    BY <1>1, GoType, StateMembers DEF Open, Opening
  <2>2. hist' \subseteq {"overlap", "overtaken", "openfailed", "deaf", "noproc"} /\ dev_state' = "OPEN"
    BY <1>1 DEF Open, TypeOK, cas
  <2> QED
    BY <1>1, <2>1, <2>2 DEF Open, TypeOK, State
<1>2. CASE devset_init(t)
  <2>1. pc' \in [Thread -> State]
    BY <1>2, GoType, StateMembers DEF devset_init, Opening
  <2>2. hist' \subseteq {"overlap", "overtaken", "openfailed", "deaf", "noproc"}
    BY <1>2 DEF devset_init, OpenFails, TypeOK
  <2>3. bad' \subseteq {"open", "release", "config", "hook", "proc", "exit"}
    BY <1>2, MisuseType DEF devset_init
  <2>4. table' \in {"null", "live"} /\ names' = {}
    BY <1>2 DEF devset_init
  <2> QED
    BY <1>2, <2>1, <2>2, <2>3, <2>4 DEF devset_init, TypeOK, State
<1>3. CASE ip_queue_init(t)
  <2>1. pc' \in [Thread -> State]
    BY <1>3, GoType, StateMembers DEF ip_queue_init, Opening
  <2>2. bad' \subseteq {"open", "release", "config", "hook", "proc", "exit"}
    BY <1>3, MisuseType DEF ip_queue_init
  <2>3. fifo' \in {"null", "live"} /\ len' \in 0 .. Cap
    BY <1>3, SizeAssumption DEF ip_queue_init
  <2> QED
    BY <1>3, <2>1, <2>2, <2>3 DEF ip_queue_init, TypeOK, State
<1>4. CASE OpenUndo(t)
  <2>1. pc' \in [Thread -> State]
    BY <1>4, GoType, StateMembers DEF OpenUndo
  <2>2. bad' \subseteq {"open", "release", "config", "hook", "proc", "exit"}
    BY <1>4, MisuseType DEF OpenUndo, devset_exit
  <2>3. hist' \subseteq {"overlap", "overtaken", "openfailed", "deaf", "noproc"}
    BY <1>4 DEF OpenUndo, OpenFails, TypeOK
  <2> QED
    BY <1>4, <2>1, <2>2, <2>3 DEF OpenUndo, devset_exit, TypeOK, State
<1>5. CASE hook_register(t)
  <2>1. pc' \in [Thread -> State]
    BY <1>5, GoType, StateMembers DEF hook_register
  <2>2. bad' \subseteq {"open", "release", "config", "hook", "proc", "exit"}
    BY <1>5, MisuseType DEF hook_register, TypeOK
  <2>3. registered' \in BOOLEAN /\ hist' \subseteq hist \cup {"deaf"}
    BY <1>5 DEF hook_register, TypeOK
  <2> QED
    BY <1>5, <2>1, <2>2, <2>3 DEF hook_register, TypeOK, State
<1> QED
  BY <1>1, <1>2, <1>3, <1>4, <1>5 DEF OpenStep

LEMMA ReleaseType ==
  ASSUME TypeOK, NEW t \in Thread, ips_release(t) \/ ReleaseStep(t)
  PROVE  TypeOK'
<1>1. CASE ips_release(t)
  <2>1. pc' \in [Thread -> State]
    BY <1>1, GoType, StateMembers, AfterValues DEF ips_release, Releasing
  <2> QED
    BY <1>1, <2>1 DEF ips_release, TypeOK, State
<1>2. CASE hook_unregister(t)
  <2>1. pc' \in [Thread -> State]
    BY <1>2, GoType, StateMembers, AfterValues DEF hook_unregister, Releasing
  <2>2. bad' \subseteq {"open", "release", "config", "hook", "proc", "exit"}
    BY <1>2, MisuseType DEF hook_unregister, TypeOK
  <2>3. registered' \in BOOLEAN
    BY <1>2 DEF hook_unregister
  <2> QED
    BY <1>2, <2>1, <2>2, <2>3 DEF hook_unregister, TypeOK, State
<1>3. CASE HooksGone(t)
  <2>1. pc' \in [Thread -> State]
    BY <1>3, GoType, StateMembers, AfterValues DEF HooksGone, Releasing
  <2> QED
    BY <1>3, <2>1, OnlyMoves DEF HooksGone
<1>4. CASE ip_queue_exit(t)
  <2>1. pc' \in [Thread -> State]
    BY <1>4, GoType, StateMembers, AfterValues DEF ip_queue_exit, Releasing
  <2>2. len' \in 0 .. Cap
    BY <1>4, SizeAssumption DEF ip_queue_exit
  <2> QED
    BY <1>4, <2>1, <2>2 DEF ip_queue_exit, TypeOK, State
<1>5. CASE ReleaseEnds(t)
  <2>1. pc' \in [Thread -> State]
    BY <1>5, GoType, StateMembers, AfterValues DEF ReleaseEnds
  <2>2. bad' \subseteq {"open", "release", "config", "hook", "proc", "exit"}
    BY <1>5, MisuseType DEF ReleaseEnds, devset_exit
  <2> QED
    BY <1>5, <2>1, <2>2 DEF ReleaseEnds, devset_exit, TypeOK, State
<1> QED
  BY <1>1, <1>2, <1>3, <1>4, <1>5 DEF ReleaseStep


\* The name a turn of the loop is about, and where the list it is in comes from.
LEMMA NameType ==
  ASSUME TypeOK, LoopInv, NEW t \in Thread, pc[t] = "names", k[t] <= Len(list[t].names)
  PROVE  list[t].names[k[t]] \in Dev
<1>1. k[t] \in Nat /\ k[t] > 0
  BY DEF TypeOK, LoopInv
<1>2. list[t] # NoList
  BY <1>1 DEF NoList
<1>3. list[t].names \in Seq(Dev)
  BY <1>2, ListAssumption DEF TypeOK
<1>4. k[t] \in 1 .. Len(list[t].names)
  BY <1>1, <1>3
<1> QED
  BY <1>3, <1>4

LEMMA ListType ==
  ASSUME TypeOK, NEW t \in Thread
  PROVE  list[t].wb \in {"WHITE", "BLACK", "NONE"}
<1>1. list[t] \in Lists \cup {NoList}
  BY DEF TypeOK
<1> QED
  BY <1>1, ListAssumption DEF NoList

LEMMA ConfigType ==
  ASSUME TypeOK, LoopInv, NEW t \in Thread, ConfigStep(t)
  PROVE  TypeOK'
<1>1. CASE CopyFails(t) \/ CopyList(t) \/ AddRefused(t)
  <2>1. pc' \in [Thread -> State]
    BY <1>1, GoType, StateMembers DEF CopyFails, CopyList, AddRefused, Configuring
  <2> QED
    BY <1>1, <2>1, OnlyMoves DEF CopyFails, CopyList, AddRefused
<1>2. CASE AddBegins(t)
  <2>1. pc' \in [Thread -> State]
    BY <1>2, GoType, StateMembers DEF AddBegins, Configuring
  <2>2. white_black' \in {"NONE", "WHITE", "BLACK"} /\ k' \in [Thread -> Nat]
    BY <1>2, ListType DEF AddBegins, TypeOK
  <2> QED
    BY <1>2, <2>1, <2>2 DEF AddBegins, TypeOK, State
<1>3. CASE AddName(t)
  <2>1. names' \subseteq Dev /\ dropped' \subseteq Dev
    BY <1>3, NameType DEF AddName, TypeOK
  <2>2. k' \in [Thread -> Nat]
    BY <1>3 DEF AddName, TypeOK
  <2>3. bad' \subseteq {"open", "release", "config", "hook", "proc", "exit"}
    BY <1>3, MisuseType DEF AddName
  <2> QED
    BY <1>3, <2>1, <2>2, <2>3 DEF AddName, TypeOK
<1>4. CASE AddEnds(t)
  BY <1>4, ReturnType DEF AddEnds, TypeOK, State
<1>5. CASE SetOpen(t)
  BY <1>5, ReturnType DEF SetOpen, TypeOK, State
<1> QED
  BY <1>1, <1>2, <1>3, <1>4, <1>5 DEF ConfigStep

LEMMA IoctlType ==
  ASSUME TypeOK, NEW t \in Thread, Ioctl(t)
  PROVE  TypeOK'
<1>1. ASSUME NEW f \in files, Fetch(t, f)  PROVE TypeOK'
  <2>1. pc' \in [Thread -> State]
    BY <1>1, GoType, StateMembers DEF Fetch, Call, Fetching
  <2>2. hist' \subseteq {"overlap", "overtaken", "openfailed", "deaf", "noproc"} /\ dev_state' = "RUN"
    BY <1>1 DEF Fetch, TypeOK, cas
  <2>3. fd' \in [Thread -> Thread \cup {NoFile}]
    BY <1>1 DEF Fetch, Call, TypeOK
  <2> QED
    BY <1>1, <2>1, <2>2, <2>3 DEF Fetch, TypeOK, State
<1>2. ASSUME NEW f \in files, NEW l \in Lists, SetNamelist(t, f, l)  PROVE TypeOK'
  <2>1. pc' \in [Thread -> State]
    BY <1>2, GoType, StateMembers DEF SetNamelist, Call, Configuring
  <2>2. dev_state' = "NAME_SET" /\ list' \in [Thread -> Lists \cup {NoList}]
    BY <1>2 DEF SetNamelist, TypeOK, cas
  <2>3. fd' \in [Thread -> Thread \cup {NoFile}]
    BY <1>2 DEF SetNamelist, Call, TypeOK
  <2> QED
    BY <1>2, <2>1, <2>2, <2>3 DEF SetNamelist, TypeOK, State
<1> QED
  BY <1>1, <1>2 DEF Ioctl

LEMMA FetchType ==
  ASSUME TypeOK, NEW t \in Thread, FetchStep(t)
  PROVE  TypeOK'
<1>1. {"ask", "wait", "get", "give", "setname"} \subseteq State
  BY StateMembers DEF Fetching
<1>2. CASE \/ FetchRefused(t) \/ WaitReady(t) \/ WaitTimeout(t) \/ WaitSignal(t)
           \/ FetchNoAccess(t) \/ FetchGives(t)
  BY <1>1, <1>2, FetchGoesType
     DEF FetchRefused, WaitReady, WaitTimeout, WaitSignal, FetchNoAccess, FetchGives
<1>3. ASSUME NEW m \in 1 .. MaxFetch, FetchAsks(t, m)  PROVE TypeOK'
  <2>1. pc' \in [Thread -> State]
    BY <1>1, <1>3, GoType DEF FetchAsks
  <2>2. n' \in [Thread -> 0 .. MaxFetch]
    BY <1>3, SizeAssumption DEF FetchAsks, TypeOK
  <2> QED
    BY <1>3, <2>1, <2>2 DEF FetchAsks, TypeOK, State
<1>4. CASE ip_queue_get(t)
  <2>1. pc' \in [Thread -> State]
    BY <1>1, <1>4, GoType DEF ip_queue_get
  <2>2. n[t] \in 0 .. MaxFetch /\ len \in 0 .. Cap
    BY DEF TypeOK
  <2> DEFINE got == IF fifo = "null" THEN 0 ELSE IF len < n[t] THEN len ELSE n[t]
  <2>3. got \in 0 .. MaxFetch /\ len - got \in 0 .. Cap
    BY <2>2, SizeAssumption
  <2>4. n' = [n EXCEPT ![t] = got] /\ len' = len - got
    BY <1>4 DEF ip_queue_get
  <2>5. n' \in [Thread -> 0 .. MaxFetch] /\ len' \in 0 .. Cap
    <3> HIDE DEF got
    <3> QED
      BY <2>3, <2>4 DEF TypeOK
  <2> HIDE DEF got
  <2> QED
    BY <1>4, <2>1, <2>5 DEF ip_queue_get, TypeOK, State
<1>5. CASE SetName(t)
  BY <1>5, ReturnType DEF SetName, TypeOK, State
<1> QED
  BY <1>2, <1>3, <1>4, <1>5 DEF FetchStep

\* What a hook has in hand.
Hooks == [pc : {"out", "in", "other", "put", "insert"},
          in : Dev \cup {NoDev}, out : Dev \cup {NoDev}, early : BOOLEAN]

LEMMA HookRecords ==
  ASSUME NEW h \in Hooks, NEW p \in {"out", "in", "other", "put", "insert"}, NEW e \in BOOLEAN
  PROVE  /\ NoHook \in Hooks /\ [h EXCEPT !.pc = p] \in Hooks
         /\ [h EXCEPT !.pc = p, !.early = e] \in Hooks
BY DEF Hooks, NoHook

LEMMA HookType ==
  ASSUME TypeOK, NEW c \in Ctx, HookStep(c)
  PROVE  TypeOK'
<1>1. hk \in [Ctx -> Hooks] /\ hk[c] \in Hooks
  BY DEF TypeOK, Hooks
<1>2. CASE ignore(c)
  <2> DEFINE d == IF hk[c].pc = "in" THEN hk[c].in ELSE hk[c].out
             counts == d # NoDev /\ ~ devset_ignore(d)
             e == \E t \in Thread : pc[t] = "names"
             h == IF counts THEN [hk[c] EXCEPT !.pc = "put", !.early = e]
                  ELSE IF hk[c].pc = "in" THEN [hk[c] EXCEPT !.pc = "other"] ELSE NoHook
  <2>1. hk' = [hk EXCEPT ![c] = h]
    BY <1>2 DEF ignore
  <2>2. h \in Hooks
    <3>1. e \in BOOLEAN
      OBVIOUS
    <3> HIDE DEF e, counts
    <3> QED
      BY <1>1, <3>1, HookRecords
  <2>3. hk' \in [Ctx -> Hooks]
    <3> HIDE DEF h
    <3> QED
      BY <1>1, <2>1, <2>2
  <2>4. bad' \subseteq {"open", "release", "config", "hook", "proc", "exit"}
    BY <1>2, MisuseType DEF ignore
  <2> HIDE DEF h
  <2> QED
    BY <1>2, <2>3, <2>4 DEF ignore, TypeOK, Hooks
<1>3. CASE PutLooks(c)
  <2>1. hk' \in [Ctx -> Hooks]
    BY <1>1, <1>3, HookRecords DEF PutLooks
  <2> QED
    BY <1>3, <2>1 DEF PutLooks, TypeOK, Hooks
<1>4. CASE PutInserts(c)
  <2>1. hk' \in [Ctx -> Hooks]
    BY <1>1, <1>4, HookRecords DEF PutInserts
  <2>2. len' \in 0 .. Cap
    BY <1>4, SizeAssumption DEF PutInserts, TypeOK
  <2>3. bad' \subseteq {"open", "release", "config", "hook", "proc", "exit"}
    BY <1>4, MisuseType DEF PutInserts
  <2> QED
    BY <1>4, <2>1, <2>2, <2>3 DEF PutInserts, TypeOK, Hooks
<1> QED
  BY <1>2, <1>3, <1>4 DEF HookStep

LEMMA HookfnType ==
  ASSUME TypeOK, NEW c \in Ctx, NEW p \in Paths, hookfn(c, p)
  PROVE  TypeOK'
<1>1. p[1] \in Dev \cup {NoDev} /\ p[2] \in Dev \cup {NoDev}
  BY DevAssumption
<1>2. [pc |-> "in", in |-> p[1], out |-> p[2], early |-> FALSE] \in Hooks
  BY <1>1 DEF Hooks
<1>3. hk' \in [Ctx -> Hooks]
  BY <1>2 DEF hookfn, TypeOK, Hooks
<1> QED
  BY <1>3 DEF hookfn, TypeOK, Hooks

LEMMA ModuleType ==
  ASSUME TypeOK, ShowBegins \/ ShowWalks \/ ips_init \/ InitEnds \/ ips_exit
  PROVE  TypeOK'
<1>1. CASE ShowBegins
  BY <1>1 DEF ShowBegins, TypeOK
<1>2. CASE ShowWalks
  <2>1. bad' \subseteq {"open", "release", "config", "hook", "proc", "exit"}
    BY <1>2, MisuseType DEF ShowWalks
  <2> QED
    BY <1>2, <2>1 DEF ShowWalks, TypeOK
<1>3. CASE ips_init
  BY <1>3 DEF ips_init, TypeOK
<1>4. CASE InitEnds
  <2>1. hist' \subseteq {"overlap", "overtaken", "openfailed", "deaf", "noproc"}
    BY <1>4 DEF InitEnds, ips_clean, TypeOK
  <2>2. module' = "in" /\ cdev' \in BOOLEAN /\ proc' \in BOOLEAN
    BY <1>4 DEF InitEnds, ips_clean, TypeOK
  <2> QED
    BY <1>4, <2>1, <2>2 DEF InitEnds, TypeOK
<1>5. CASE ips_exit
  <2>1. bad' \subseteq {"open", "release", "config", "hook", "proc", "exit"}
    BY <1>5, MisuseType DEF ips_exit, TypeOK
  <2>2. cdev' \in BOOLEAN /\ proc' \in BOOLEAN /\ module' = "out" /\ dev_state' = "CLOSE"
    BY <1>5 DEF ips_exit, ips_clean
  <2> QED
    BY <1>5, <2>1, <2>2 DEF ips_exit, TypeOK
<1> QED
  BY <1>1, <1>2, <1>3, <1>4, <1>5

LEMMA TypeStep ==
  ASSUME TypeOK, LoopInv, Next
  PROVE  TypeOK'
BY OpenType, ReleaseType, ConfigType, IoctlType, FetchType, HookType, HookfnType, ModuleType
   DEF Next

-----------------------------------------------------------------------------
(***************************************************************************)
(* Files: who has one open.                                                *)
(***************************************************************************)
\* A thread takes its next step, and no other thread moves.
LEMMA GoMoves ==
  ASSUME TypeOK, NEW t \in Thread, NEW p, Go(t, p)
  PROVE  pc'[t] = p /\ \A u \in Thread \ {t} : pc'[u] = pc[u]
BY DEF TypeOK, Go

LEMMA ReturnMoves ==
  ASSUME TypeOK, NEW t \in Thread, Return(t)
  PROVE  /\ pc'[t] = "user" /\ \A u \in Thread \ {t} : pc'[u] = pc[u]
         /\ fd'[t] = NoFile /\ \A u \in Thread \ {t} : fd'[u] = fd[u]
BY DEF TypeOK, Return, Go

LEMMA CallMoves ==
  ASSUME TypeOK, NEW t \in Thread, NEW f, NEW p, Call(t, f, p)
  PROVE  /\ pc'[t] = p /\ \A u \in Thread \ {t} : pc'[u] = pc[u]
         /\ fd'[t] = f /\ \A u \in Thread \ {t} : fd'[u] = fd[u]
BY DEF TypeOK, Call, Go

LEMMA LoopStep ==
  ASSUME TypeOK, LoopInv, Next
  PROVE  LoopInv'
<1>1. ASSUME NEW t \in Thread, Open(t) \/ OpenStep(t) \/ ips_release(t) \/ ReleaseStep(t)
      PROVE  LoopInv'
  BY <1>1, GoMoves, AfterValues
     DEF LoopInv, Open, OpenStep, devset_init, ip_queue_init, OpenUndo, hook_register,
         ips_release, ReleaseStep, hook_unregister, HooksGone, ip_queue_exit, ReleaseEnds
<1>2. ASSUME NEW t \in Thread, AddBegins(t)  PROVE LoopInv'
  BY <1>2, GoMoves DEF LoopInv, AddBegins, TypeOK
<1>3. ASSUME NEW t \in Thread, AddName(t)  PROVE LoopInv'
  BY <1>3 DEF LoopInv, AddName, TypeOK
<1>4. ASSUME NEW t \in Thread, AddEnds(t) \/ SetOpen(t) \/ SetName(t)  PROVE LoopInv'
  BY <1>4, ReturnMoves DEF LoopInv, AddEnds, SetOpen, SetName, Return, TypeOK
<1>5. ASSUME NEW t \in Thread, CopyFails(t) \/ CopyList(t) \/ AddRefused(t)  PROVE LoopInv'
  BY <1>5, GoMoves DEF LoopInv, CopyFails, CopyList, AddRefused
<1>6. ASSUME NEW t \in Thread, NEW f \in files, Fetch(t, f) \/ \E l \in Lists : SetNamelist(t, f, l)
      PROVE  LoopInv'
  BY <1>6, CallMoves DEF LoopInv, Fetch, SetNamelist
<1>7. ASSUME NEW t \in Thread, FetchStep(t), ~ SetName(t)  PROVE LoopInv'
  BY <1>7, GoMoves
     DEF LoopInv, FetchStep, FetchRefused, FetchAsks, WaitReady, WaitTimeout, WaitSignal,
         FetchNoAccess, ip_queue_get, FetchGives, FetchGoes
<1>8. ASSUME NEW c \in Ctx, HookStep(c) \/ \E p \in Paths : hookfn(c, p)  PROVE LoopInv'
  BY <1>8 DEF LoopInv, HookStep, ignore, PutLooks, PutInserts, hookfn
<1>9. CASE ShowBegins \/ ShowWalks \/ ips_init \/ InitEnds \/ ips_exit
  BY <1>9 DEF LoopInv, ShowBegins, ShowWalks, ips_init, InitEnds, ips_exit
<1> QED
  BY <1>1, <1>2, <1>3, <1>4, <1>5, <1>6, <1>7, <1>8, <1>9 DEF Next, Ioctl, ConfigStep

\* The classes of steps keep apart.
LEMMA Apart ==
  ASSUME NEW p
  PROVE  /\ p \in Opening => p # "user" /\ p \notin Releasing \cup Configuring \cup Fetching
         /\ p \in Releasing => p # "user" /\ p \notin Opening \cup Configuring \cup Fetching
         /\ p \in Configuring => p # "user" /\ p \notin Opening \cup Releasing \cup Fetching
         /\ p \in Fetching => p # "user" /\ p \notin Opening \cup Releasing \cup Configuring
BY DEF Opening, Releasing, Configuring, Fetching

\* A step that leaves the files alone, and in which nobody begins or ends an
\* open, a release or an ioctl.
LEMMA FilesStay ==
  ASSUME FileInv, UNCHANGED <<devvars, fd>>, hist \subseteq hist',
         \A u \in Thread : \/ pc'[u] = pc[u]
                           \/ pc[u] \in Opening /\ pc'[u] \in Opening
                           \/ pc[u] \in Releasing /\ pc'[u] \in Releasing \cup {"user"}
                           \/ {pc[u], pc'[u]} \subseteq Configuring \cup Fetching
  PROVE  FileInv'
<1>1. \A u \in Thread : pc'[u] \in Opening <=> pc[u] \in Opening
  BY Apart
<1>2. \A u \in Thread : Owner(u)' <=> Owner(u)
  BY <1>1 DEF Owner
<1>3. \A u \in Thread : pc'[u] \in Opening \cup Releasing => pc[u] \in Opening \cup Releasing
  BY Apart
<1>4. \A u \in Thread : pc'[u] \in Configuring \cup Fetching <=> pc[u] \in Configuring \cup Fetching
  BY Apart
<1> HIDE DEF Owner
<1> QED
  BY <1>1, <1>2, <1>3, <1>4 DEF FileInv

\* While a thread is in an ioctl nobody opens.
LEMMA NobodyOpens ==
  ASSUME FileInv, files \subseteq Thread, NEW f \in files
  PROVE  \A u \in Thread : pc[u] \notin Opening
BY DEF FileInv, Owner

\* The end of an ioctl, which leaves dev_state at what is not CLOSE.
LEMMA FilesReturn ==
  ASSUME TypeOK, FileInv, NEW t \in Thread, Return(t), pc[t] \in Configuring \cup Fetching,
         UNCHANGED <<files, hist>>, dev_state' # "CLOSE"
  PROVE  FileInv'
<1>1. fd[t] \in files /\ files \subseteq Thread
  BY DEF FileInv, TypeOK
<1>2. \A u \in Thread : pc[u] \notin Opening
  BY <1>1, NobodyOpens
<1>3. \A u \in Thread : pc'[u] \notin Opening
  BY <1>2, ReturnMoves, Apart DEF Opening
<1>4. \A u \in Thread : Owner(u)' <=> Owner(u)
  BY <1>2, <1>3 DEF Owner
<1>5. \A u \in Thread : pc'[u] \in Releasing => pc[u] \in Releasing
  BY ReturnMoves DEF Releasing
<1>6. \A u \in Thread :
        /\ pc'[u] \in Configuring \cup Fetching => fd'[u] \in files'
        /\ fd'[u] # NoFile => pc'[u] \in Configuring \cup Fetching
  <2>1. "user" \notin Configuring \cup Fetching
    BY DEF Configuring, Fetching
  <2> QED
    BY <2>1, ReturnMoves DEF FileInv
<1>7. Owner(fd[t])
  BY <1>1 DEF Owner
<1> HIDE DEF Owner
<1> QED
  BY <1>1, <1>2, <1>3, <1>4, <1>5, <1>6, <1>7 DEF FileInv

\* A thread begins an ioctl.
LEMMA FilesCall ==
  ASSUME TypeOK, FileInv, NEW t \in Thread, NEW f \in files, NEW p \in Configuring \cup Fetching,
         pc[t] = "user", Call(t, f, p), files' = files, hist \subseteq hist', dev_state' # "CLOSE"
  PROVE  FileInv'
<1>1. files \subseteq Thread
  BY DEF TypeOK
<1>2. \A u \in Thread : pc[u] \notin Opening
  BY <1>1, NobodyOpens
<1>3. \A u \in Thread : pc'[u] \notin Opening
  BY <1>2, CallMoves, Apart
<1>4. \A u \in Thread : Owner(u)' <=> Owner(u)
  BY <1>2, <1>3 DEF Owner
<1>5. \A u \in Thread : pc'[u] \in Releasing => pc[u] \in Releasing
  BY CallMoves, Apart
<1>6. \A u \in Thread :
        /\ pc'[u] \in Configuring \cup Fetching => fd'[u] \in files'
        /\ fd'[u] # NoFile => pc'[u] \in Configuring \cup Fetching
  BY CallMoves DEF FileInv
<1>7. Owner(f)
  BY DEF Owner
<1> HIDE DEF Owner
<1> QED
  BY <1>1, <1>2, <1>3, <1>4, <1>5, <1>6, <1>7 DEF FileInv

LEMMA FilesOpen ==
  ASSUME TypeOK, FileInv, NEW t \in Thread, Open(t)
  PROVE  FileInv'
<1>1. files = {} /\ \A u \in Thread : pc[u] \notin Opening
  BY DEF Open, cas, FileInv, TypeOK
<1>2. pc'[t] = "devset_init" /\ \A u \in Thread \ {t} : pc'[u] = pc[u]
  BY GoMoves DEF Open
<1>3. \A u \in Thread : Owner(u)' <=> u = t
  BY <1>1, <1>2 DEF Owner, Open, Opening
<1>4. dev_state' = "OPEN" /\ files' = {} /\ fd' = fd
  BY <1>1 DEF Open, cas
<1>5. \A u \in Thread : pc'[u] \in Configuring \cup Fetching <=> pc[u] \in Configuring \cup Fetching
  BY <1>2, Apart DEF Open, Opening
<1> HIDE DEF Owner
<1> QED
  BY <1>1, <1>2, <1>3, <1>4, <1>5 DEF FileInv

\* An open that fails: the file is not opened, and dev_state stays OPEN.
LEMMA FilesOpenFails ==
  ASSUME TypeOK, FileInv, NEW t \in Thread, pc[t] \in Opening, Go(t, "user"), OpenFails,
         UNCHANGED <<devvars, fd>>
  PROVE  FileInv'
<1>1. pc'[t] = "user" /\ \A u \in Thread \ {t} : pc'[u] = pc[u]
  BY GoMoves
<1>2. Owner(t) /\ \A u \in Thread : Owner(u) => u = t
  BY DEF FileInv, Owner
<1>3. files = {} /\ \A u \in Thread : ~ Owner(u)'
  BY <1>1, <1>2, Apart DEF FileInv, Owner, TypeOK
<1>4. dev_state' = "OPEN" /\ "openfailed" \in hist'
  BY DEF FileInv, OpenFails
<1>5. \A u \in Thread : /\ pc'[u] \notin Opening
                        /\ pc'[u] \in Configuring \cup Fetching <=> pc[u] \in Configuring \cup Fetching
  BY <1>1, <1>3, Apart DEF Owner
<1> HIDE DEF Owner
<1> QED
  BY <1>3, <1>4, <1>5 DEF FileInv

LEMMA FilesOpened ==
  ASSUME TypeOK, FileInv, NEW t \in Thread, hook_register(t)
  PROVE  FileInv'
<1>1. pc'[t] = "user" /\ \A u \in Thread \ {t} : pc'[u] = pc[u]
  BY GoMoves DEF hook_register
<1>2. Owner(t) /\ pc[t] \in Opening
  BY DEF hook_register, Owner, Opening
<1>3. \A u \in Thread : Owner(u) => u = t
  BY <1>2 DEF FileInv
<1>4. files = {} /\ files' = {t}
  BY <1>2, <1>3 DEF hook_register, FileInv, Owner, TypeOK
<1>5. \A u \in Thread : pc'[u] \notin Opening
  BY <1>1, <1>3, Apart DEF Owner
<1>6. \A u \in Thread : Owner(u)' <=> u = t
  BY <1>4, <1>5 DEF Owner
<1>7. dev_state' = "OPEN" /\ fd' = fd
  BY <1>2 DEF hook_register, FileInv
<1>8. \A u \in Thread : /\ pc'[u] \in Configuring \cup Fetching <=> pc[u] \in Configuring \cup Fetching
                        /\ pc'[u] \in Releasing => pc[u] \in Releasing /\ u # t
  BY <1>1, <1>2, Apart
<1> HIDE DEF Owner
<1> QED
  BY <1>4, <1>5, <1>6, <1>7, <1>8 DEF FileInv

LEMMA FilesRelease ==
  ASSUME TypeOK, FileInv, NEW t \in Thread, ips_release(t)
  PROVE  FileInv'
<1>1. pc'[t] = "unregister" /\ \A u \in Thread \ {t} : pc'[u] = pc[u]
  BY GoMoves, AfterValues DEF ips_release
<1>2. Owner(t) /\ \A u \in Thread : Owner(u) => u = t
  BY DEF ips_release, FileInv, Owner
<1>3. files = {t} /\ files' = {} /\ dev_state' = "CLOSE" /\ fd' = fd /\ hist' = hist
  BY <1>2 DEF ips_release, Owner, TypeOK
<1>4. \A u \in Thread : pc[u] \notin Opening /\ pc[u] \notin Configuring \cup Fetching
  BY <1>2, <1>3, Apart DEF ips_release, FileInv, Owner
<1>5. \A u \in Thread : pc'[u] \notin Opening /\ pc'[u] \notin Configuring \cup Fetching
  BY <1>1, <1>4, Apart DEF Releasing
<1>6. \A u \in Thread : ~ Owner(u)'
  BY <1>3, <1>5 DEF Owner
<1>7. \A u \in Thread : fd[u] = NoFile
  BY <1>4 DEF FileInv
<1> HIDE DEF Owner
<1> QED
  BY <1>3, <1>5, <1>6, <1>7 DEF FileInv

LEMMA FileInit == Init => FileInv /\ LoopInv
<1> SUFFICES ASSUME Init  PROVE FileInv /\ LoopInv
  OBVIOUS
<1>1. /\ files = {} /\ dev_state = "CLOSE"
      /\ \A t \in Thread : pc[t] = "user" /\ fd[t] = NoFile
  BY DEF Init
<1>2. "user" \notin Opening \cup Releasing \cup Configuring \cup Fetching
  BY DEF Opening, Releasing, Configuring, Fetching
<1> QED
  BY <1>1, <1>2 DEF FileInv, LoopInv, Owner

\* A step of set_namelist or of fetch_info that does not end it.
LEMMA ConfigMoves ==
  ASSUME TypeOK, NEW t \in Thread,
         CopyFails(t) \/ CopyList(t) \/ AddRefused(t) \/ AddBegins(t) \/ AddName(t)
  PROVE  /\ {pc[t], pc'[t]} \subseteq Configuring /\ \A u \in Thread \ {t} : pc'[u] = pc[u]
         /\ UNCHANGED <<devvars, fd, hist>>
<1>1. {pc[t], pc'[t]} \subseteq Configuring /\ \A u \in Thread \ {t} : pc'[u] = pc[u]
  BY GoMoves DEF CopyFails, CopyList, AddRefused, AddBegins, AddName, Configuring
<1>2. UNCHANGED <<devvars, fd, hist>>
  BY DEF CopyFails, CopyList, AddRefused, AddBegins, AddName
<1> QED
  BY <1>1, <1>2

LEMMA FetchMoves ==
  ASSUME TypeOK, NEW t \in Thread, FetchStep(t), ~ SetName(t)
  PROVE  /\ {pc[t], pc'[t]} \subseteq Fetching /\ \A u \in Thread \ {t} : pc'[u] = pc[u]
         /\ UNCHANGED <<devvars, fd, setvars, hookvars, reader, bad, hist, modvars>>
<1>1. {pc[t], pc'[t]} \subseteq Fetching /\ \A u \in Thread \ {t} : pc'[u] = pc[u]
  BY GoMoves
     DEF FetchStep, FetchRefused, FetchAsks, WaitReady, WaitTimeout, WaitSignal,
         FetchNoAccess, ip_queue_get, FetchGives, FetchGoes, Fetching
<1>2. UNCHANGED <<devvars, fd, setvars, hookvars, reader, bad, hist, modvars>>
  BY DEF FetchStep, FetchRefused, FetchAsks, WaitReady, WaitTimeout, WaitSignal,
         FetchNoAccess, ip_queue_get, FetchGives, FetchGoes
<1> QED
  BY <1>1, <1>2

LEMMA FileStep ==
  ASSUME TypeOK, FileInv, Next
  PROVE  FileInv'
<1>1. ASSUME NEW t \in Thread, Open(t)  PROVE FileInv'
  BY <1>1, FilesOpen
<1>2. ASSUME NEW t \in Thread, devset_init(t)  PROVE FileInv'
  <2>1. CASE Go(t, "queue_init") /\ hist' = hist
    BY <1>2, <2>1, GoMoves, FilesStay DEF devset_init, Opening
  <2>2. CASE Go(t, "user") /\ OpenFails
    BY <1>2, <2>2, FilesOpenFails DEF devset_init, Opening
  <2> QED
    BY <1>2, <2>1, <2>2 DEF devset_init
<1>3. ASSUME NEW t \in Thread, ip_queue_init(t)  PROVE FileInv'
  <2>1. pc'[t] \in {"register", "undo"} /\ \A u \in Thread \ {t} : pc'[u] = pc[u]
    BY <1>3, GoMoves DEF ip_queue_init
  <2> QED
    BY <1>3, <2>1, FilesStay DEF ip_queue_init, Opening
<1>4. ASSUME NEW t \in Thread, OpenUndo(t)  PROVE FileInv'
  BY <1>4, FilesOpenFails DEF OpenUndo, Opening
<1>5. ASSUME NEW t \in Thread, hook_register(t)  PROVE FileInv'
  BY <1>5, FilesOpened
<1>6. ASSUME NEW t \in Thread, ips_release(t)  PROVE FileInv'
  BY <1>6, FilesRelease
<1>7. ASSUME NEW t \in Thread, ReleaseStep(t)  PROVE FileInv'
  <2>1. /\ pc[t] \in Releasing /\ pc'[t] \in Releasing \cup {"user"}
        /\ \A u \in Thread \ {t} : pc'[u] = pc[u]
    BY <1>7, GoMoves, AfterValues
       DEF ReleaseStep, hook_unregister, HooksGone, ip_queue_exit, ReleaseEnds, Releasing
  <2>2. UNCHANGED <<devvars, fd, hist>>
    BY <1>7 DEF ReleaseStep, hook_unregister, HooksGone, ip_queue_exit, ReleaseEnds
  <2> QED
    BY <2>1, <2>2, FilesStay
<1>8. ASSUME NEW t \in Thread, NEW f \in files, Fetch(t, f)  PROVE FileInv'
  BY <1>8, FilesCall DEF Fetch, cas, Fetching
<1>9. ASSUME NEW t \in Thread, NEW f \in files, NEW l \in Lists, SetNamelist(t, f, l)  PROVE FileInv'
  BY <1>9, FilesCall DEF SetNamelist, cas, Configuring
<1>10. ASSUME NEW t \in Thread, AddEnds(t) \/ SetOpen(t) \/ SetName(t)  PROVE FileInv'
  <2>1. pc[t] \in Configuring \cup Fetching /\ Return(t) /\ UNCHANGED <<files, hist>>
    BY <1>10 DEF AddEnds, SetOpen, SetName, Configuring, Fetching
  <2>2. dev_state # "CLOSE"
    BY <2>1 DEF FileInv
  <2>3. dev_state' # "CLOSE"
    BY <1>10, <2>2 DEF AddEnds, SetOpen, SetName
  <2> QED
    BY <2>1, <2>3, FilesReturn
<1>11. ASSUME NEW t \in Thread,
              CopyFails(t) \/ CopyList(t) \/ AddRefused(t) \/ AddBegins(t) \/ AddName(t)
       PROVE  FileInv'
  BY <1>11, ConfigMoves, FilesStay
<1>12. ASSUME NEW t \in Thread, FetchStep(t), ~ SetName(t)  PROVE FileInv'
  BY <1>12, FetchMoves, FilesStay
<1>13. ASSUME NEW c \in Ctx, HookStep(c) \/ \E p \in Paths : hookfn(c, p)  PROVE FileInv'
  <2>1. UNCHANGED <<devvars, fd, hist, pc>>
    BY <1>13 DEF HookStep, ignore, PutLooks, PutInserts, hookfn
  <2> QED
    BY <2>1, FilesStay
<1>14. CASE ShowBegins \/ ShowWalks \/ ips_init \/ InitEnds
  <2>1. UNCHANGED <<devvars, fd, pc>> /\ hist \subseteq hist'
    BY <1>14 DEF ShowBegins, ShowWalks, ips_init, InitEnds
  <2> QED
    BY <2>1, FilesStay
<1>15. CASE ips_exit
  BY <1>15, Apart DEF ips_exit, FileInv, Owner
<1> QED
  BY <1>1, <1>2, <1>3, <1>4, <1>5, <1>6, <1>7, <1>8, <1>9, <1>10, <1>11, <1>12, <1>13, <1>14, <1>15
     DEF Next, OpenStep, Ioctl, ConfigStep

LEMMA Inv1Step ==
  ASSUME Inv1, [Next]_vars
  PROVE  Inv1'
<1>1. CASE Next
  BY <1>1, TypeStep, LoopStep, FileStep DEF Inv1
<1>2. CASE UNCHANGED vars
  BY <1>2 DEF vars, Inv1, TypeOK, FileInv, LoopInv, Owner
<1> QED
  BY <1>1, <1>2

LEMMA Inv1Holds == Spec => []Inv1
<1>1. Init => Inv1
  BY TypeInit, FileInit DEF Inv1
<1>2. Inv1 /\ [Next]_vars => Inv1'
  BY Inv1Step
<1> QED
  BY <1>1, <1>2, PTL DEF Spec

\* Every variable keeps to the values of its type (TypeOK), whatever threads,
\* hooks, allocations and copies do.
THEOREM TypeCorrect == Spec => []TypeOK
<1>1. Inv1 => TypeOK
  BY DEF Inv1
<1> QED
  BY <1>1, Inv1Holds, PTL

-----------------------------------------------------------------------------
(***************************************************************************)
(* Turns: one thread is in set_namelist or fetch_info.                     *)
(***************************************************************************)
\* A step that leaves dev_state alone, and in which nobody begins or ends an
\* ioctl.
LEMMA TurnStays ==
  ASSUME TurnInv, dev_state' = dev_state, hist \subseteq hist',
         \A u \in Thread : /\ pc'[u] \in Fetching <=> pc[u] \in Fetching
                           /\ pc'[u] \in Configuring <=> pc[u] \in Configuring
  PROVE  TurnInv'
BY DEF TurnInv, Overtaken

\* Nobody is in an ioctl on a device without an open file.
LEMMA NobodyCalls ==
  ASSUME TypeOK, FileInv, dev_state = "CLOSE" \/ \E t \in Thread : ips_release(t) \/ pc[t] \in Opening
  PROVE  \A u \in Thread : pc[u] \notin Configuring \cup Fetching
<1>1. CASE dev_state = "CLOSE"
  BY <1>1 DEF FileInv
<1>2. ASSUME NEW t \in Thread, pc[t] \in Opening
      PROVE  \A u \in Thread : pc[u] \notin Configuring \cup Fetching
  BY <1>2, NobodyOpens DEF FileInv, TypeOK
<1>3. ASSUME NEW t \in Thread, ips_release(t)
      PROVE  \A u \in Thread : pc[u] \notin Configuring \cup Fetching
  <2>1. t \in files /\ Owner(t) /\ \A f \in files : f = t
    BY <1>3 DEF ips_release, FileInv, Owner, TypeOK
  <2> QED
    BY <1>3, <2>1 DEF FileInv, ips_release
<1> QED
  BY <1>1, <1>2, <1>3

LEMMA TurnStep ==
  ASSUME TypeOK, FileInv, TurnInv, Next
  PROVE  TurnInv'
<1>1. ASSUME NEW t \in Thread, Open(t)  PROVE TurnInv'
  <2>1. \A u \in Thread : pc[u] \notin Configuring \cup Fetching
    BY <1>1, NobodyCalls DEF Open, cas
  <2>2. pc'[t] = "devset_init" /\ \A u \in Thread \ {t} : pc'[u] = pc[u]
    BY <1>1, GoMoves DEF Open
  <2>3. \A u \in Thread : pc'[u] \notin Configuring \cup Fetching
    BY <2>1, <2>2 DEF Configuring, Fetching
  <2>4. dev_state' = "OPEN"
    BY <1>1 DEF Open, cas
  <2> QED
    BY <2>3, <2>4 DEF TurnInv
<1>2. ASSUME NEW t \in Thread, OpenStep(t) \/ ReleaseStep(t)  PROVE TurnInv'
  <2>1. /\ pc[t] \in Opening \cup Releasing /\ pc'[t] \in Opening \cup Releasing \cup {"user"}
        /\ \A u \in Thread \ {t} : pc'[u] = pc[u]
    BY <1>2, GoMoves, AfterValues
       DEF OpenStep, devset_init, ip_queue_init, OpenUndo, hook_register,
           ReleaseStep, hook_unregister, HooksGone, ip_queue_exit, ReleaseEnds, Opening, Releasing
  <2>2. dev_state' = dev_state /\ hist \subseteq hist'
    BY <1>2
       DEF OpenStep, devset_init, ip_queue_init, OpenUndo, OpenFails, hook_register,
           ReleaseStep, hook_unregister, HooksGone, ip_queue_exit, ReleaseEnds
  <2>3. \A u \in Thread : /\ pc'[u] \in Fetching <=> pc[u] \in Fetching
                          /\ pc'[u] \in Configuring <=> pc[u] \in Configuring
    BY <2>1, Apart
  <2> QED
    BY <2>2, <2>3, TurnStays
<1>3. ASSUME NEW t \in Thread, ips_release(t)  PROVE TurnInv'
  <2>1. \A u \in Thread : pc[u] \notin Configuring \cup Fetching
    BY <1>3, NobodyCalls
  <2>2. pc'[t] = "unregister" /\ \A u \in Thread \ {t} : pc'[u] = pc[u]
    BY <1>3, GoMoves, AfterValues DEF ips_release
  <2>3. \A u \in Thread : pc'[u] \notin Configuring \cup Fetching
    BY <2>1, <2>2 DEF Configuring, Fetching
  <2>4. dev_state' = "CLOSE"
    BY <1>3 DEF ips_release
  <2> QED
    BY <2>3, <2>4 DEF TurnInv
<1>4. ASSUME NEW t \in Thread, NEW f \in files, Fetch(t, f)  PROVE TurnInv'
  <2>1. CASE Overtaken \/ \E u \in Thread : pc[u] \in Configuring
    BY <1>4, <2>1 DEF Fetch, Overtaken, TurnInv
  <2>2. CASE ~ Overtaken /\ \A u \in Thread : pc[u] \notin Configuring
    <3>1. dev_state = "NAME_SET" /\ dev_state' = "RUN"
      BY <1>4 DEF Fetch, cas
    <3>2. \A u \in Thread : pc[u] \notin Fetching
      BY <2>2, <3>1 DEF TurnInv
    <3>3. pc'[t] = "ask" /\ \A u \in Thread \ {t} : pc'[u] = pc[u]
      BY <1>4, CallMoves DEF Fetch
    <3>4. pc'[t] \in Fetching /\ pc'[t] \notin Configuring
      BY <3>3 DEF Fetching, Configuring
    <3> QED
      BY <2>2, <3>1, <3>2, <3>3, <3>4 DEF TurnInv
  <2> QED
    BY <2>1, <2>2
<1>5. ASSUME NEW t \in Thread, NEW f \in files, NEW l \in Lists, SetNamelist(t, f, l)  PROVE TurnInv'
  <2>1. dev_state = "OPEN" /\ dev_state' = "NAME_SET" /\ hist' = hist
    BY <1>5 DEF SetNamelist, cas
  <2>2. pc'[t] = "copy" /\ \A u \in Thread \ {t} : pc'[u] = pc[u]
    BY <1>5, CallMoves DEF SetNamelist
  <2>3. pc'[t] \in Configuring /\ pc'[t] \notin Fetching
    BY <2>2 DEF Fetching, Configuring
  <2> QED
    BY <2>1, <2>2, <2>3 DEF TurnInv, Overtaken
<1>6. ASSUME NEW t \in Thread, AddEnds(t) \/ SetOpen(t) \/ SetName(t)  PROVE TurnInv'
  <2>1. hist' = hist /\ pc'[t] = "user" /\ \A u \in Thread \ {t} : pc'[u] = pc[u]
    BY <1>6, ReturnMoves DEF AddEnds, SetOpen, SetName
  <2>2. pc'[t] \notin Configuring /\ pc'[t] \notin Fetching
    BY <2>1 DEF Configuring, Fetching
  <2>3. CASE AddEnds(t)
    <3>1. pc[t] \in Configuring /\ dev_state' = dev_state
      BY <2>3 DEF AddEnds, Configuring
    <3>2. \A u \in Thread : /\ pc'[u] \in Fetching <=> pc[u] \in Fetching
                            /\ pc'[u] \in Configuring => pc[u] \in Configuring
      BY <2>1, <2>2, <3>1, Apart
    <3> QED
      BY <2>1, <3>1, <3>2 DEF TurnInv, Overtaken
  <2>4. CASE SetOpen(t)
    <3>1. pc[t] \in Configuring /\ dev_state' = "OPEN"
      BY <2>4 DEF SetOpen, Configuring
    <3> QED
      BY <2>1, <2>2, <3>1 DEF TurnInv, Overtaken
  <2>5. CASE SetName(t)
    <3>1. pc[t] \in Fetching /\ dev_state' = "NAME_SET"
      BY <2>5 DEF SetName, Fetching
    <3> QED
      BY <2>1, <2>2, <3>1 DEF TurnInv, Overtaken
  <2> QED
    BY <1>6, <2>3, <2>4, <2>5
<1>7. ASSUME NEW t \in Thread,
              \/ CopyFails(t) \/ CopyList(t) \/ AddRefused(t) \/ AddBegins(t) \/ AddName(t)
              \/ FetchStep(t) /\ ~ SetName(t)
       PROVE  TurnInv'
  <2>1. \/ {pc[t], pc'[t]} \subseteq Configuring /\ \A u \in Thread \ {t} : pc'[u] = pc[u]
        \/ {pc[t], pc'[t]} \subseteq Fetching /\ \A u \in Thread \ {t} : pc'[u] = pc[u]
    BY <1>7, ConfigMoves, FetchMoves
  <2>2. UNCHANGED <<dev_state, hist>>
    BY <1>7, ConfigMoves, FetchMoves
  <2>3. \A u \in Thread : /\ pc'[u] \in Fetching <=> pc[u] \in Fetching
                          /\ pc'[u] \in Configuring <=> pc[u] \in Configuring
    BY <2>1, Apart
  <2> QED
    BY <2>2, <2>3, TurnStays
<1>8. ASSUME NEW c \in Ctx, HookStep(c) \/ \E p \in Paths : hookfn(c, p)  PROVE TurnInv'
  <2>1. UNCHANGED <<dev_state, hist, pc>>
    BY <1>8 DEF HookStep, ignore, PutLooks, PutInserts, hookfn
  <2> QED
    BY <2>1, TurnStays
<1>9. CASE ShowBegins \/ ShowWalks \/ ips_init \/ InitEnds
  <2>1. UNCHANGED <<dev_state, pc>> /\ hist \subseteq hist'
    BY <1>9 DEF ShowBegins, ShowWalks, ips_init, InitEnds
  <2> QED
    BY <2>1, TurnStays
<1>10. CASE ips_exit
  <2>1. dev_state' = "CLOSE" /\ \A t \in Thread : pc'[t] \notin Configuring \cup Fetching
    BY <1>10, Apart DEF ips_exit
  <2> QED
    BY <2>1 DEF TurnInv
<1> QED
  BY <1>1, <1>2, <1>3, <1>4, <1>5, <1>6, <1>7, <1>8, <1>9, <1>10 DEF Next, Ioctl, ConfigStep

LEMMA TurnHolds == Spec => []TurnInv
<1>1. Init => TurnInv
  BY Apart DEF Init, TurnInv
<1>2. Inv1 /\ TurnInv /\ [Next]_vars => TurnInv'
  <2>1. CASE Next
    BY <2>1, TurnStep DEF Inv1
  <2>2. CASE UNCHANGED vars
    BY <2>2 DEF vars, TurnInv, Overtaken
  <2> QED
    BY <2>1, <2>2
<1> QED
  BY <1>1, <1>2, Inv1Holds, PTL DEF Spec

\* fetch_info's static array and the readers' end of the queue belong to one
\* thread at a time (SingleFetcher): the compare-and-swap from NAME_SET to RUN is
\* a lock, held until the label fail, unless set_namelist resets it.
THEOREM FetchIsSingle == Spec => []SingleFetcher
<1>1. TurnInv => SingleFetcher
  BY DEF TurnInv, SingleFetcher
<1> QED
  BY <1>1, TurnHolds, PTL

-----------------------------------------------------------------------------
(***************************************************************************)
(* What is built, and that nothing else is touched.                        *)
(***************************************************************************)
\* What happened stays in the history.
LEMMA HistGrows == Next => hist \subseteq hist'
<1> SUFFICES ASSUME Next  PROVE hist \subseteq hist'
  OBVIOUS
<1>1. ASSUME NEW t \in Thread, Open(t) \/ OpenStep(t) \/ ips_release(t) \/ ReleaseStep(t)
      PROVE  hist \subseteq hist'
  BY <1>1
     DEF Open, OpenStep, devset_init, ip_queue_init, OpenUndo, OpenFails, hook_register, ips_release,
         ReleaseStep, hook_unregister, HooksGone, ip_queue_exit, ReleaseEnds
<1>2. ASSUME NEW t \in Thread, Ioctl(t) \/ ConfigStep(t)  PROVE hist \subseteq hist'
  BY <1>2
     DEF Ioctl, Fetch, SetNamelist, ConfigStep, CopyFails, CopyList, AddRefused, AddBegins, AddName,
         AddEnds, SetOpen
<1>3. ASSUME NEW t \in Thread, FetchStep(t)  PROVE hist \subseteq hist'
  BY <1>3
     DEF FetchStep, FetchRefused, FetchAsks, WaitReady, WaitTimeout, WaitSignal,
         FetchNoAccess, ip_queue_get, FetchGives, FetchGoes, SetName
<1>4. ASSUME NEW c \in Ctx, HookStep(c) \/ \E p \in Paths : hookfn(c, p)  PROVE hist \subseteq hist'
  BY <1>4 DEF HookStep, ignore, PutLooks, PutInserts, hookfn
<1>5. CASE ShowBegins \/ ShowWalks \/ ips_init \/ InitEnds \/ ips_exit
  BY <1>5 DEF ShowBegins, ShowWalks, ips_init, InitEnds, ips_exit
<1> QED
  BY <1>1, <1>2, <1>3, <1>4, <1>5 DEF Next

\* The parts of BuiltInv, without its exception.
OneBusy   == \A t, u \in Thread : Busy(t) /\ Busy(u) => t = u
TableThere == table = "live" <=> Built({"queue_init", "undo", "register"} \cup Releasing)
FifoThere == fifo = "live" <=> Built({"register", "unregister", "synchronize", "queue_exit"})
HooksThere ==
  /\ registered <=> Built({"unregister"}) /\ ~ Deaf
  /\ Deaf /\ bad = {} => Built({"unregister"})
  /\ \A c \in Ctx : hk[c].pc # "out" => Built({"unregister", "synchronize"})
BuiltRight == OneBusy /\ TableThere /\ FifoThere /\ HooksThere

LEMMA BuiltParts == BuiltInv <=> Overlap \/ BuiltRight
<1>1. TableThere /\ FifoThere <=>
        /\ table = "live" <=> Built({"queue_init", "undo", "register"} \cup Releasing)
        /\ fifo = "live" <=> Built({"register", "unregister", "synchronize", "queue_exit"})
  BY DEF TableThere, FifoThere
<1> QED
  BY <1>1, Zenon DEF BuiltInv, BuiltRight, OneBusy, HooksThere

\* While one thread is busy it alone decides what is built.
LEMMA BuiltByOne ==
  ASSUME TypeOK, OneBusy, NEW t \in Thread, Busy(t)
  PROVE  \A s \in SUBSET (Opening \cup Releasing) : Built(s) <=> t \in files \/ pc[t] \in s
<1> TAKE s \in SUBSET (Opening \cup Releasing)
<1>1. \A u \in Thread : u \in files \/ pc[u] \in s => u = t
  BY DEF OneBusy, Busy, Owner
<1>2. files \subseteq Thread
  BY DEF TypeOK
<1> QED
  BY <1>1, <1>2 DEF Built

\* It stays the one that is busy when it moves.
LEMMA BuiltByMover ==
  ASSUME TypeOK, TypeOK', OneBusy, NEW t \in Thread, Busy(t), files' \subseteq files \cup {t},
         \A u \in Thread \ {t} : pc'[u] = pc[u]
  PROVE  /\ OneBusy'
         /\ \A s \in SUBSET (Opening \cup Releasing) : Built(s)' <=> t \in files' \/ pc'[t] \in s
<1>1. \A u \in Thread : Busy(u) => u = t
  BY DEF OneBusy
<1>2. \A u \in Thread : Busy(u)' => u = t
  BY <1>1 DEF Busy, Owner
<1>3. ASSUME NEW s \in SUBSET (Opening \cup Releasing)
      PROVE  Built(s)' <=> t \in files' \/ pc'[t] \in s
  <2>1. \A u \in Thread : u \in files' \/ pc'[u] \in s => u = t
    BY <1>2 DEF Busy, Owner
  <2>2. files' \subseteq Thread
    BY DEF TypeOK
  <2> QED
    BY <2>1, <2>2 DEF Built
<1> QED
  BY <1>2, <1>3 DEF OneBusy

LEMMA SetsOfSteps ==
  /\ {"queue_init", "undo", "register"} \cup Releasing \in SUBSET (Opening \cup Releasing)
  /\ {"register", "unregister", "synchronize", "queue_exit"} \in SUBSET (Opening \cup Releasing)
  /\ {"unregister"} \in SUBSET (Opening \cup Releasing)
  /\ {"unregister", "synchronize"} \in SUBSET (Opening \cup Releasing)
BY DEF Opening, Releasing

\* What must be there when the one busy thread is at a step.
LEMMA BuiltAt ==
  ASSUME TypeOK, BuiltRight, NEW t \in Thread, Busy(t)
  PROVE  /\ table = "live" <=> t \in files \/ pc[t] \in {"queue_init", "undo", "register"} \cup Releasing
         /\ fifo = "live" <=> t \in files \/ pc[t] \in {"register", "unregister", "synchronize", "queue_exit"}
         /\ registered <=> (t \in files \/ pc[t] = "unregister") /\ ~ Deaf
         /\ Deaf /\ bad = {} => t \in files \/ pc[t] = "unregister"
         /\ (\E c \in Ctx : hk[c].pc # "out") => t \in files \/ pc[t] \in {"unregister", "synchronize"}
<1>1. \A s \in SUBSET (Opening \cup Releasing) : Built(s) <=> t \in files \/ pc[t] \in s
  BY BuiltByOne DEF BuiltRight
<1>2. table = "live" <=> t \in files \/ pc[t] \in {"queue_init", "undo", "register"} \cup Releasing
  BY <1>1, SetsOfSteps DEF BuiltRight, TableThere
<1>3. fifo = "live" <=> t \in files \/ pc[t] \in {"register", "unregister", "synchronize", "queue_exit"}
  BY <1>1, SetsOfSteps DEF BuiltRight, FifoThere
<1>4. /\ registered <=> (t \in files \/ pc[t] = "unregister") /\ ~ Deaf
      /\ Deaf /\ bad = {} => t \in files \/ pc[t] = "unregister"
      /\ (\E c \in Ctx : hk[c].pc # "out") => t \in files \/ pc[t] \in {"unregister", "synchronize"}
  BY <1>1, SetsOfSteps DEF BuiltRight, HooksThere
<1> QED
  BY <1>2, <1>3, <1>4

\* What must be there after its step.
LEMMA BuiltAfter ==
  ASSUME TypeOK, TypeOK', BuiltRight, NEW t \in Thread, Busy(t), files' \subseteq files \cup {t},
         \A u \in Thread \ {t} : pc'[u] = pc[u],
         table' = "live" <=> t \in files' \/ pc'[t] \in {"queue_init", "undo", "register"} \cup Releasing,
         fifo' = "live" <=> t \in files' \/ pc'[t] \in {"register", "unregister", "synchronize", "queue_exit"},
         registered' <=> (t \in files' \/ pc'[t] = "unregister") /\ ~ Deaf',
         Deaf' /\ bad' = {} => t \in files' \/ pc'[t] = "unregister",
         (\E c \in Ctx : hk'[c].pc # "out") => t \in files' \/ pc'[t] \in {"unregister", "synchronize"}
  PROVE  BuiltRight'
<1>1. /\ OneBusy'
      /\ \A s \in SUBSET (Opening \cup Releasing) : Built(s)' <=> t \in files' \/ pc'[t] \in s
  BY BuiltByMover DEF BuiltRight
<1>2. TableThere'
  BY <1>1, SetsOfSteps DEF TableThere
<1>3. FifoThere'
  BY <1>1, SetsOfSteps DEF FifoThere
<1>4. HooksThere'
  BY <1>1, SetsOfSteps DEF HooksThere
<1> QED
  BY <1>1, <1>2, <1>3, <1>4 DEF BuiltRight

\* A step in which nobody begins, moves on with or ends an open or a release.
LEMMA BuiltStays ==
  ASSUME BuiltRight, UNCHANGED <<files, table, fifo, registered>>, bad = {}, Deaf' <=> Deaf,
         \A u \in Thread : \/ pc'[u] = pc[u]
                           \/ {pc[u], pc'[u]} \cap (Opening \cup Releasing) = {},
         \A c \in Ctx : hk'[c].pc # "out" => hk[c].pc # "out" \/ registered
  PROVE  BuiltRight'
<1>1. \A u \in Thread : \A p \in Opening \cup Releasing : pc'[u] = p <=> pc[u] = p
  OBVIOUS
<1>2. \A s \in SUBSET (Opening \cup Releasing) : Built(s)' <=> Built(s)
  BY <1>1 DEF Built
<1>3. \A u \in Thread : Busy(u)' <=> Busy(u)
  BY <1>1 DEF Busy, Owner
<1>4. OneBusy'
  BY <1>3 DEF BuiltRight, OneBusy
<1>5. TableThere' /\ FifoThere'
  BY <1>2, SetsOfSteps DEF BuiltRight, TableThere, FifoThere
<1>6. Built({"unregister"}) => Built({"unregister", "synchronize"})
  BY DEF Built
<1>7. HooksThere'
  BY <1>2, <1>6, SetsOfSteps DEF BuiltRight, HooksThere
<1> QED
  BY <1>4, <1>5, <1>7 DEF BuiltRight

\* While a file is open everything is there; and while a hook is in flight.
LEMMA BuiltForUse ==
  ASSUME TypeOK, BuiltRight, files # {} \/ \E c \in Ctx : hk[c].pc # "out"
  PROVE  table = "live" /\ fifo = "live"
<1>1. Built({"unregister", "synchronize"})
  BY DEF BuiltRight, HooksThere, Built
<1>2. Built({"queue_init", "undo", "register"} \cup Releasing)
  BY <1>1 DEF Built, Releasing
<1>3. Built({"register", "unregister", "synchronize", "queue_exit"})
  BY <1>1 DEF Built
<1> QED
  BY <1>2, <1>3 DEF BuiltRight, TableThere, FifoThere

LEMMA BuiltOpen ==
  ASSUME TypeOK, TypeOK', FileInv, NEW t \in Thread, Open(t), BuiltRight, ~ Overlap', bad = {}
  PROVE  BuiltRight' /\ bad' = bad
<1>1. \A u \in Thread : ~ Busy(u)
  <2>1. \A u \in Thread : pc[u] \notin Releasing
    BY DEF Open, Overlap
  <2>2. \A u \in Thread : ~ Owner(u)
    BY DEF Open, cas, FileInv, Owner
  <2> QED
    BY <2>1, <2>2 DEF Busy
<1>2. files = {} /\ \A u \in Thread : pc[u] \notin Opening \cup Releasing
  BY <1>1 DEF Busy, Owner, TypeOK
<1>3. table # "live" /\ fifo # "live" /\ ~ registered /\ ~ Deaf /\ \A c \in Ctx : hk[c].pc = "out"
  BY <1>2 DEF BuiltRight, TableThere, FifoThere, HooksThere, Built, Opening, Releasing
<1>4. pc'[t] = "devset_init" /\ \A u \in Thread \ {t} : pc'[u] = pc[u]
  BY GoMoves DEF Open
<1>5. /\ UNCHANGED <<table, fifo, registered, hk, bad>>
      /\ files' = {} /\ \A s \in SUBSET (Opening \cup Releasing) : Built(s)' <=> "devset_init" \in s
  BY <1>2, <1>4 DEF Open, Built
<1>6. \A u \in Thread : Busy(u)' => u = t
  BY <1>2, <1>4, <1>5 DEF Busy, Owner
<1>8. ~ Deaf'
  BY <1>3 DEF Open, Deaf
<1>7. TableThere' /\ FifoThere' /\ HooksThere'
  BY <1>3, <1>5, <1>8, SetsOfSteps DEF TableThere, FifoThere, HooksThere, Releasing
<1> QED
  BY <1>5, <1>6, <1>7 DEF BuiltRight, OneBusy

LEMMA BuiltOpenStep ==
  ASSUME TypeOK, TypeOK', FileInv, NEW t \in Thread, OpenStep(t), BuiltRight, bad = {}
  PROVE  BuiltRight' /\ bad' = bad
<1>1. pc[t] \in Opening /\ Busy(t) /\ t \notin files
  BY DEF OpenStep, devset_init, ip_queue_init, OpenUndo, hook_register, Opening, Busy, Owner, FileInv
<1>2. table \in {"null", "live"} /\ fifo \in {"null", "live"}
  BY DEF TypeOK
<1>d. ~ Deaf
  <2>1. pc[t] # "unregister"
    BY <1>1 DEF Opening
  <2> QED
    BY <1>1, <2>1, BuiltAt
<1>n. devset_init(t) \/ ip_queue_init(t) \/ OpenUndo(t) => ~ Deaf'
  BY <1>d DEF devset_init, ip_queue_init, OpenUndo, OpenFails, Deaf
<1>3. CASE devset_init(t)
  <2>1. table = "null" /\ fifo = "null" /\ ~ registered /\ \A c \in Ctx : hk[c].pc = "out"
    BY <1>1, <1>2, <1>3, BuiltAt DEF devset_init, Releasing
  <2>2. /\ UNCHANGED <<files, fifo, registered, hk>>
        /\ (table' = "live" /\ pc'[t] = "queue_init") \/ (table' = "null" /\ pc'[t] = "user")
        /\ \A u \in Thread \ {t} : pc'[u] = pc[u]
    <3>1. UNCHANGED <<files, fifo, registered, hk>>
      BY <1>3 DEF devset_init
    <3>2. (table' = "live" /\ Go(t, "queue_init")) \/ (table' = "null" /\ Go(t, "user"))
      BY <1>3 DEF devset_init
    <3> QED
      BY <3>1, <3>2, GoMoves
  <2>3. bad' = bad
    BY <1>3, <2>1 DEF devset_init, Misuse
  <2> QED
    BY <1>1, <1>n, <1>3, <2>1, <2>2, <2>3, BuiltAfter DEF Releasing
<1>4. CASE ip_queue_init(t)
  <2>1. table = "live" /\ fifo = "null" /\ ~ registered /\ \A c \in Ctx : hk[c].pc = "out"
    BY <1>1, <1>2, <1>4, BuiltAt DEF ip_queue_init, Releasing
  <2>2. /\ UNCHANGED <<files, table, registered, hk>>
        /\ (fifo' = "live" /\ pc'[t] = "register") \/ (fifo' = "null" /\ pc'[t] = "undo")
        /\ \A u \in Thread \ {t} : pc'[u] = pc[u]
    <3>1. UNCHANGED <<files, table, registered, hk>>
      BY <1>4 DEF ip_queue_init
    <3>2. (fifo' = "live" /\ Go(t, "register")) \/ (fifo' = "null" /\ Go(t, "undo"))
      BY <1>4 DEF ip_queue_init
    <3> QED
      BY <3>1, <3>2, GoMoves
  <2>3. bad' = bad
    BY <1>4, <2>1 DEF ip_queue_init, Misuse
  <2> QED
    BY <1>1, <1>n, <1>4, <2>1, <2>2, <2>3, BuiltAfter
<1>5. CASE OpenUndo(t)
  <2>1. table = "live" /\ fifo = "null" /\ ~ registered /\ \A c \in Ctx : hk[c].pc = "out"
    BY <1>1, <1>2, <1>5, BuiltAt DEF OpenUndo, Releasing
  <2>2. /\ UNCHANGED <<files, fifo, registered, hk>>
        /\ table' = "null" /\ pc'[t] = "user" /\ \A u \in Thread \ {t} : pc'[u] = pc[u]
    BY <1>5, GoMoves DEF OpenUndo, devset_exit
  <2>3. bad' = bad
    BY <1>5, <2>1 DEF OpenUndo, devset_exit, Misuse
  <2> QED
    BY <1>1, <1>n, <1>5, <2>1, <2>2, <2>3, BuiltAfter DEF Releasing
<1>6. CASE hook_register(t)
  <2>1. table = "live" /\ fifo = "live" /\ ~ registered /\ \A c \in Ctx : hk[c].pc = "out"
    BY <1>1, <1>2, <1>6, BuiltAt DEF hook_register
  <2>2. /\ UNCHANGED <<table, fifo, hk>> /\ files' = files \cup {t}
        /\ pc'[t] = "user" /\ \A u \in Thread \ {t} : pc'[u] = pc[u]
    BY <1>6, GoMoves DEF hook_register
  <2>4. registered' <=> ~ Deaf'
    BY <1>6, <1>d, <2>1 DEF hook_register, Deaf
  <2>3. bad' = bad
    BY <1>6, <2>1 DEF hook_register, Misuse
  <2> QED
    BY <1>1, <2>1, <2>2, <2>3, <2>4, BuiltAfter
<1> QED
  BY <1>3, <1>4, <1>5, <1>6 DEF OpenStep

LEMMA BuiltRelease ==
  ASSUME TypeOK, TypeOK', FileInv, NEW t \in Thread, ips_release(t) \/ ReleaseStep(t), BuiltRight, bad = {}
  PROVE  BuiltRight' /\ (bad' = bad \/ (Deaf' /\ bad' = bad \cup {"release"}))
<1>1. Busy(t)
  BY DEF ips_release, ReleaseStep, hook_unregister, HooksGone, ip_queue_exit, ReleaseEnds, Releasing, Busy, Owner
<1>h. Deaf' <=> Deaf
  BY DEF ips_release, ReleaseStep, hook_unregister, HooksGone, ip_queue_exit, ReleaseEnds, Deaf
<1>2. CASE ips_release(t)
  <2>1. t \in files /\ table = "live" /\ fifo = "live" /\ (registered <=> ~ Deaf)
    BY <1>1, <1>2, BuiltAt DEF ips_release
  <2>2. /\ UNCHANGED <<table, fifo, registered, hk, bad>> /\ files' = files \ {t}
        /\ pc'[t] = "unregister" /\ \A u \in Thread \ {t} : pc'[u] = pc[u]
    BY <1>2, GoMoves, AfterValues DEF ips_release
  <2> QED
    BY <1>1, <1>h, <2>1, <2>2, BuiltAfter DEF Releasing
<1>3. CASE hook_unregister(t)
  <2>1. t \notin files
    BY <1>3 DEF hook_unregister, FileInv, Releasing
  <2>2. table = "live" /\ fifo = "live" /\ (registered <=> ~ Deaf)
    BY <1>1, <1>3, BuiltAt DEF hook_unregister, Releasing
  <2>3. /\ UNCHANGED <<table, fifo, hk, files>> /\ registered' = FALSE
        /\ pc'[t] = "synchronize" /\ \A u \in Thread \ {t} : pc'[u] = pc[u]
    BY <1>3, GoMoves, AfterValues DEF hook_unregister
  <2>4. (~ Deaf /\ bad' = bad) \/ (Deaf /\ bad' = bad \cup {"release"})
    <3>1. CASE registered
      BY <1>3, <2>2, <3>1 DEF hook_unregister, Misuse
    <3>2. CASE ~ registered
      BY <1>3, <2>2, <3>2 DEF hook_unregister, Misuse
    <3> QED
      BY <3>1, <3>2
  <2> QED
    <3>1. Deaf' => bad' # {}
      BY <1>h, <2>4
    <3>2. registered' <=> (t \in files' \/ pc'[t] = "unregister") /\ ~ Deaf'
      BY <2>1, <2>3
    <3>3. BuiltRight'
      BY <1>1, <2>1, <2>2, <2>3, <3>1, <3>2, BuiltAfter DEF Releasing
    <3> QED
      BY <1>h, <2>4, <3>3
<1>4. CASE HooksGone(t)
  <2>1. t \notin files
    BY <1>4 DEF HooksGone, FileInv, Releasing
  <2>2. table = "live" /\ fifo = "live" /\ ~ registered /\ ~ Deaf /\ \A c \in Ctx : hk[c].pc = "out"
    BY <1>1, <1>4, <2>1, BuiltAt DEF HooksGone, Releasing
  <2>3. /\ UNCHANGED <<table, fifo, registered, hk, files, bad>>
        /\ pc'[t] = "queue_exit" /\ \A u \in Thread \ {t} : pc'[u] = pc[u]
    BY <1>4, GoMoves, AfterValues DEF HooksGone
  <2> QED
    BY <1>1, <1>h, <2>1, <2>2, <2>3, BuiltAfter DEF Releasing
<1>5. CASE ip_queue_exit(t)
  <2>1. t \notin files
    BY <1>5 DEF ip_queue_exit, FileInv, Releasing
  <2>2. table = "live" /\ ~ registered /\ ~ Deaf /\ \A c \in Ctx : hk[c].pc = "out"
    BY <1>1, <1>5, <2>1, BuiltAt DEF ip_queue_exit, Releasing
  <2>3. /\ UNCHANGED <<table, registered, hk, files, bad>> /\ fifo' = "null"
        /\ pc'[t] = "devset_exit" /\ \A u \in Thread \ {t} : pc'[u] = pc[u]
    BY <1>5, GoMoves, AfterValues DEF ip_queue_exit
  <2> QED
    BY <1>1, <1>h, <2>1, <2>2, <2>3, BuiltAfter DEF Releasing
<1>6. CASE ReleaseEnds(t)
  <2>1. t \notin files
    BY <1>6 DEF ReleaseEnds, FileInv, Releasing
  <2>2. table = "live" /\ fifo # "live" /\ ~ registered /\ ~ Deaf /\ \A c \in Ctx : hk[c].pc = "out"
    BY <1>1, <1>6, <2>1, BuiltAt DEF ReleaseEnds, Releasing
  <2>3. /\ UNCHANGED <<fifo, registered, hk, files>> /\ table' = "null"
        /\ pc'[t] = "user" /\ \A u \in Thread \ {t} : pc'[u] = pc[u]
    BY <1>6, GoMoves, AfterValues DEF ReleaseEnds, devset_exit
  <2>4. bad' = bad
    BY <1>6, <2>2 DEF ReleaseEnds, devset_exit, Misuse
  <2> QED
    BY <1>1, <1>h, <2>1, <2>2, <2>3, <2>4, BuiltAfter DEF Releasing
<1> QED
  BY <1>2, <1>3, <1>4, <1>5, <1>6 DEF ReleaseStep

\* The ioctls leave what they use alone.
LEMMA BuiltIoctl ==
  ASSUME TypeOK, FileInv, NEW t \in Thread, Ioctl(t) \/ ConfigStep(t) \/ FetchStep(t), BuiltRight,
         bad = {}
  PROVE  BuiltRight' /\ bad' = bad
<1>1. UNCHANGED <<files, table, fifo, registered, hk>> /\ (Deaf' <=> Deaf)
  BY DEF Ioctl, Fetch, SetNamelist, ConfigStep, CopyFails, CopyList, AddRefused, AddBegins, AddName,
         AddEnds, SetOpen, FetchStep, FetchRefused, FetchAsks, WaitReady, WaitTimeout, WaitSignal,
         FetchNoAccess, ip_queue_get, FetchGives, FetchGoes, SetName, Deaf
<1>2. {pc[t], pc'[t]} \cap (Opening \cup Releasing) = {} /\ \A u \in Thread \ {t} : pc'[u] = pc[u]
  <2>1. CASE Ioctl(t)
    <3>1. /\ pc[t] = "user" /\ pc'[t] \in Configuring \cup Fetching
          /\ \A u \in Thread \ {t} : pc'[u] = pc[u]
      BY <2>1, CallMoves DEF Ioctl, Fetch, SetNamelist, Configuring, Fetching
    <3> QED
      BY <3>1, Apart
  <2>2. CASE AddEnds(t) \/ SetOpen(t) \/ SetName(t)
    <3>1. /\ pc[t] \in Configuring \cup Fetching /\ pc'[t] = "user"
          /\ \A u \in Thread \ {t} : pc'[u] = pc[u]
      BY <2>2, ReturnMoves DEF AddEnds, SetOpen, SetName, Configuring, Fetching
    <3> QED
      BY <3>1, Apart
  <2>3. CASE ConfigStep(t) /\ ~ (AddEnds(t) \/ SetOpen(t))
    BY <2>3, ConfigMoves, Apart DEF ConfigStep
  <2>4. CASE FetchStep(t) /\ ~ SetName(t)
    BY <2>4, FetchMoves, Apart
  <2> QED
    BY <2>1, <2>2, <2>3, <2>4 DEF FetchStep
<1>3. BuiltRight'
  BY <1>1, <1>2, BuiltStays
<1>4. bad' = bad
  <2>1. CASE AddName(t)
    <3>1. files # {}
      BY <2>1 DEF AddName, FileInv, Configuring
    <3>2. table = "live"
      BY <3>1, BuiltForUse
    <3> QED
      BY <2>1, <3>2 DEF AddName, Misuse
  <2>2. CASE ~ AddName(t)
    BY <2>2
       DEF Ioctl, Fetch, SetNamelist, ConfigStep, CopyFails, CopyList, AddRefused, AddBegins,
           AddEnds, SetOpen, FetchStep, FetchRefused, FetchAsks, WaitReady, WaitTimeout, WaitSignal,
           FetchNoAccess, ip_queue_get, FetchGives, FetchGoes, SetName
  <2> QED
    BY <2>1, <2>2
<1> QED
  BY <1>3, <1>4

LEMMA BuiltHook ==
  ASSUME TypeOK, NEW c \in Ctx, HookStep(c) \/ \E p \in Paths : hookfn(c, p), BuiltRight, bad = {}
  PROVE  BuiltRight' /\ bad' = bad
<1>1. UNCHANGED <<files, table, fifo, registered, pc>> /\ (Deaf' <=> Deaf)
  BY DEF HookStep, ignore, PutLooks, PutInserts, hookfn, Deaf
<1>2. \A d \in Ctx : hk'[d].pc # "out" => hk[d].pc # "out" \/ registered
  <2>1. \A d \in Ctx \ {c} : hk'[d] = hk[d]
    BY DEF HookStep, ignore, PutLooks, PutInserts, hookfn, TypeOK
  <2>2. hk[c].pc # "out" \/ registered
    BY DEF HookStep, ignore, PutLooks, PutInserts, hookfn
  <2> QED
    BY <2>1, <2>2
<1>3. BuiltRight'
  BY <1>1, <1>2, BuiltStays
<1>4. bad' = bad
  <2>1. CASE HookStep(c)
    <3>1. hk[c].pc # "out"
      BY <2>1 DEF HookStep, ignore, PutLooks, PutInserts
    <3>2. table = "live" /\ fifo = "live"
      BY <3>1, BuiltForUse
    <3> QED
      BY <2>1, <3>2 DEF HookStep, ignore, PutLooks, PutInserts, Misuse
  <2>2. CASE \E p \in Paths : hookfn(c, p)
    BY <2>2 DEF hookfn
  <2> QED
    BY <2>1, <2>2
<1> QED
  BY <1>3, <1>4

LEMMA BuiltStep ==
  ASSUME TypeOK, TypeOK', FileInv, BuiltInv, Next
  PROVE  /\ BuiltInv'
         /\ ~ Overlap' /\ bad' # bad =>
              ShowWalks \/ ips_exit \/ (Deaf' /\ bad' = bad \cup {"release"})
<1>b. bad = {}
  BY DEF Next
<1>1. CASE Overlap'
  BY <1>1, BuiltParts DEF BuiltInv, Overlap
<1>2. CASE ~ Overlap'
  <2>1. ~ Overlap /\ BuiltRight
    BY <1>2, HistGrows, BuiltParts DEF Overlap
  <2>2. ASSUME NEW t \in Thread, Open(t) \/ OpenStep(t) \/ ips_release(t) \/ ReleaseStep(t)
        PROVE  BuiltRight' /\ (bad' = bad \/ (Deaf' /\ bad' = bad \cup {"release"}))
    BY <1>b, <1>2, <2>1, <2>2, BuiltOpen, BuiltOpenStep, BuiltRelease
  <2>3. ASSUME NEW t \in Thread, Ioctl(t) \/ ConfigStep(t) \/ FetchStep(t)
        PROVE  BuiltRight' /\ bad' = bad
    BY <1>b, <2>1, <2>3, BuiltIoctl
  <2>4. ASSUME NEW c \in Ctx, HookStep(c) \/ \E p \in Paths : hookfn(c, p)
        PROVE  BuiltRight' /\ bad' = bad
    BY <1>b, <2>1, <2>4, BuiltHook
  <2>5. ASSUME ShowBegins \/ ShowWalks \/ ips_init \/ InitEnds \/ ips_exit
        PROVE  BuiltRight' /\ (bad' # bad => ShowWalks \/ ips_exit)
    <3>1. UNCHANGED <<files, table, fifo, registered, hk, pc>> /\ (Deaf' <=> Deaf)
      BY <2>5 DEF ShowBegins, ShowWalks, ips_init, InitEnds, ips_exit, Deaf
    <3>2. BuiltRight'
      BY <1>b, <2>1, <3>1, BuiltStays
    <3>3. bad' # bad => ShowWalks \/ ips_exit
      BY <2>5 DEF ShowBegins, ips_init, InitEnds
    <3> QED
      BY <3>2, <3>3
  <2>6. /\ BuiltRight'
        /\ bad' # bad => ShowWalks \/ ips_exit \/ (Deaf' /\ bad' = bad \cup {"release"})
    BY <2>2, <2>3, <2>4, <2>5 DEF Next
  <2>7. BuiltInv'
    <3>1. OneBusy' /\ TableThere' /\ FifoThere' /\ HooksThere'
      BY <2>6 DEF BuiltRight
    <3> QED
      BY <3>1, Zenon DEF BuiltInv, OneBusy, TableThere, FifoThere, HooksThere
  <2> QED
    BY <2>6, <2>7
<1> QED
  BY <1>1, <1>2

LEMMA ModuleStep ==
  ASSUME ModuleInv, Next
  PROVE  ModuleInv'
<1>1. hist \subseteq hist'
  BY HistGrows
<1>2. CASE UNCHANGED modvars
  BY <1>1, <1>2 DEF ModuleInv
<1>3. CASE ips_init \/ ips_exit
  BY <1>3 DEF ips_init, ips_exit, ModuleInv
<1>4. CASE InitEnds
  BY <1>4 DEF InitEnds, ModuleInv
<1>5. ASSUME NEW t \in Thread, Open(t) \/ OpenStep(t) \/ ips_release(t) \/ ReleaseStep(t)
      PROVE  UNCHANGED modvars
  BY <1>5
     DEF Open, OpenStep, devset_init, ip_queue_init, OpenUndo, hook_register, ips_release,
         ReleaseStep, hook_unregister, HooksGone, ip_queue_exit, ReleaseEnds
<1>6. ASSUME NEW t \in Thread, Ioctl(t) \/ ConfigStep(t)  PROVE UNCHANGED modvars
  BY <1>6
     DEF Ioctl, Fetch, SetNamelist, ConfigStep, CopyFails, CopyList, AddRefused, AddBegins, AddName,
         AddEnds, SetOpen
<1>7. ASSUME NEW t \in Thread, FetchStep(t)  PROVE UNCHANGED modvars
  BY <1>7
     DEF FetchStep, FetchRefused, FetchAsks, WaitReady, WaitTimeout, WaitSignal,
         FetchNoAccess, ip_queue_get, FetchGives, FetchGoes, SetName
<1>8. ASSUME NEW c \in Ctx, HookStep(c) \/ \E p \in Paths : hookfn(c, p)  PROVE UNCHANGED modvars
  BY <1>8 DEF HookStep, ignore, PutLooks, PutInserts, hookfn
<1>9. CASE ShowBegins \/ ShowWalks
  BY <1>2, <1>9 DEF ShowBegins, ShowWalks
<1> QED
  BY <1>2, <1>3, <1>4, <1>5, <1>6, <1>7, <1>8, <1>9 DEF Next

LEMMA SafeStep ==
  ASSUME TypeOK, TypeOK', FileInv, BuiltInv, ModuleInv, MemorySafe, Next
  PROVE  MemorySafe'
<1>1. hist \subseteq hist' /\ (Deaf => Deaf') /\ (Overlap => Overlap')
  BY HistGrows DEF Deaf, Overlap
<1>2. CASE Overlap'
  BY <1>2 DEF MemorySafe
<1>3. CASE ~ Overlap' /\ bad' = bad
  BY <1>1, <1>3 DEF MemorySafe
<1>4. CASE ShowWalks
  BY <1>1, <1>4 DEF MemorySafe, ShowWalks, Misuse
<1>5. CASE ips_exit
  <2>1. ~ cdev => "noproc" \in hist
    BY <1>5 DEF ips_exit, ModuleInv
  <2>2. bad' = bad \/ (bad' = bad \cup {"exit"} /\ "noproc" \in hist')
    BY <1>1, <1>5, <2>1 DEF ips_exit, Misuse
  <2> QED
    BY <1>1, <2>2 DEF MemorySafe
<1>6. CASE Deaf' /\ bad' = bad \cup {"release"}
  BY <1>1, <1>6 DEF MemorySafe
<1> QED
  BY <1>2, <1>3, <1>4, <1>5, <1>6, BuiltStep

LEMMA Inv2Init == Init => Inv2
<1> SUFFICES ASSUME Init  PROVE Inv2
  OBVIOUS
<1>1. Inv1
  BY TypeInit, FileInit DEF Inv1
<1>2. /\ files = {} /\ table = "null" /\ fifo = "null" /\ registered = FALSE
      /\ \A t \in Thread : pc[t] \notin Opening \cup Releasing
      /\ \A c \in Ctx : hk[c].pc = "out"
  BY Apart DEF Init, NoHook
<1>3. \A s \in SUBSET (Opening \cup Releasing) : ~ Built(s)
  BY <1>2 DEF Built
<1>4. OneBusy
  BY <1>2 DEF OneBusy, Busy, Owner
<1>8. ~ Deaf
  BY DEF Init, Deaf
<1>5. TableThere /\ FifoThere /\ HooksThere
  BY <1>2, <1>3, <1>8, SetsOfSteps DEF TableThere, FifoThere, HooksThere
<1>6. BuiltInv
  BY <1>4, <1>5, BuiltParts DEF BuiltRight
<1>7. ModuleInv /\ MemorySafe
  BY DEF Init, ModuleInv, MemorySafe
<1> QED
  BY <1>1, <1>6, <1>7 DEF Inv2

LEMMA Inv2Step ==
  ASSUME Inv2, [Next]_vars
  PROVE  Inv2'
<1>1. Inv1'
  BY Inv1Step DEF Inv2
<1>2. CASE Next
  BY <1>1, <1>2, BuiltStep, ModuleStep, SafeStep DEF Inv1, Inv2
<1>3. CASE UNCHANGED vars
  <2>1. UNCHANGED <<module, cdev, dev_state, files, pc, table, fifo, registered, hk, bad, hist>>
    BY <1>3 DEF vars
  <2>2. ModuleInv' /\ MemorySafe'
    BY <2>1 DEF Inv2, ModuleInv, MemorySafe, Overlap, Deaf
  <2>3. BuiltInv'
    <3>1. Overlap' = Overlap /\ (Deaf' <=> Deaf)
      BY <2>1 DEF Overlap, Deaf
    <3>2. \A u \in Thread : Busy(u)' <=> Busy(u)
      BY <2>1 DEF Busy, Owner
    <3>3. \A s : Built(s)' <=> Built(s)
      BY <2>1 DEF Built
    <3>4. OneBusy' <=> OneBusy
      BY <3>2 DEF OneBusy
    <3>5. TableThere' <=> TableThere
      BY <2>1, <3>3 DEF TableThere
    <3>6. FifoThere' <=> FifoThere
      BY <2>1, <3>3 DEF FifoThere
    <3>7. HooksThere' <=> HooksThere
      BY <2>1, <3>1, <3>3 DEF HooksThere
    <3>8. Overlap \/ (OneBusy /\ TableThere /\ FifoThere /\ HooksThere)
      BY BuiltParts DEF Inv2, BuiltRight
    <3>9. Overlap' \/ (OneBusy' /\ TableThere' /\ FifoThere' /\ HooksThere')
      BY <3>1, <3>4, <3>5, <3>6, <3>7, <3>8
    <3> QED
      BY <3>9, Zenon DEF BuiltInv, OneBusy, TableThere, FifoThere, HooksThere
  <2> QED
    BY <1>1, <2>2, <2>3 DEF Inv2
<1> QED
  BY <1>2, <1>3

LEMMA Inv2Holds == Spec => []Inv2
<1>1. Init => Inv2
  BY Inv2Init
<1>2. Inv2 /\ [Next]_vars => Inv2'
  BY Inv2Step
<1> QED
  BY <1>1, <1>2, PTL DEF Spec

\* No step of open, ioctl, release and the hooks follows a pointer to freed
\* memory, leaks what it overwrites or breaks the kernel's lists (MemorySafe),
\* but in the four ways it names.
THEOREM MemoryIsSafe == Spec => []MemorySafe
<1>1. Inv2 => MemorySafe
  BY DEF Inv2
<1> QED
  BY <1>1, Inv2Holds, PTL

\* When nobody opens or releases, queue and table are there exactly if the one
\* file is open (OpenMeansReady), whichever allocation failed in ips_open, and the
\* hooks if the kernel took them besides.
THEOREM OpenIsReady == Spec => []OpenMeansReady
<1>1. ASSUME Inv2, ~ Overlap, Quiet
      PROVE  /\ \A t, u \in files : t = u
             /\ registered <=> files # {} /\ ~ Deaf
             /\ fifo = "live" <=> files # {}
             /\ table = "live" <=> files # {}
             /\ files = {} => dev_state = "CLOSE" \/ "openfailed" \in hist
  <2>1. TypeOK /\ FileInv /\ BuiltRight
    BY <1>1, BuiltParts DEF Inv2, Inv1
  <2>2. \A s \in SUBSET (Opening \cup Releasing) : Built(s) <=> files # {}
    BY <1>1 DEF Quiet, Built
  <2>3. /\ registered <=> files # {} /\ ~ Deaf
        /\ fifo = "live" <=> files # {}
        /\ table = "live" <=> files # {}
    BY <2>1, <2>2, SetsOfSteps DEF BuiltRight, TableThere, FifoThere, HooksThere
  <2>4. \A t, u \in files : t = u
    BY <2>1 DEF FileInv, Owner, TypeOK
  <2>5. files = {} => dev_state = "CLOSE" \/ "openfailed" \in hist
    BY <1>1, <2>1 DEF FileInv, Owner, Quiet
  <2> QED
    BY <2>3, <2>4, <2>5
<1>2. Inv2 => OpenMeansReady
  BY <1>1 DEF OpenMeansReady
<1> QED
  BY <1>2, Inv2Holds, PTL

-----------------------------------------------------------------------------
(***************************************************************************)
(* dev_state and the device set.                                           *)
(***************************************************************************)
\* The parts of ActiveInv and StateMatchesSet, without their exceptions.
ClosesFirst == \A t \in Thread : pc[t] \in Releasing => dev_state = "CLOSE"
ListNeedsFile == white_black # "NONE" => Built(Releasing)
ListWhileNaming == \A t \in Thread : pc[t] = "names" => white_black # "NONE"
NoListYet == \A t \in Thread : pc[t] \in {"copy", "add", "setopen"} => white_black = "NONE"
ActiveRight == ClosesFirst /\ ListNeedsFile /\ ListWhileNaming

MatchRight ==
  /\ dev_state \in {"NAME_SET", "RUN"} =>
       white_black # "NONE" \/ \E t \in Thread : pc[t] \in Configuring
  /\ dev_state = "OPEN" => white_black = "NONE"
  /\ dev_state = "RUN" <=> \E t \in Thread : pc[t] \in Fetching

TurnRight ==
  /\ \A t \in Thread : pc[t] \in Fetching => dev_state = "RUN"
  /\ \A t \in Thread : pc[t] \in Configuring => dev_state = "NAME_SET"
  /\ \A t, u \in Thread : pc[t] \in Fetching /\ pc[u] \in Fetching => t = u
  /\ \A t, u \in Thread : pc[t] \in Configuring /\ pc[u] \in Configuring => t = u

LEMMA ActiveParts ==
  /\ ActiveInv <=> Overlap \/ (ActiveRight /\ (Overtaken \/ NoListYet))
  /\ StateMatchesSet <=> Overlap \/ Overtaken \/ MatchRight
  /\ TurnInv => Overtaken \/ TurnRight
<1>1. ActiveInv <=> Overlap \/ (ActiveRight /\ (Overtaken \/ NoListYet))
  BY DEF ActiveInv, ActiveRight, ClosesFirst, ListNeedsFile, ListWhileNaming, NoListYet
<1>2. StateMatchesSet <=> Overlap \/ Overtaken \/ MatchRight
  BY DEF StateMatchesSet, MatchRight
<1>3. TurnInv => Overtaken \/ TurnRight
  BY DEF TurnInv, TurnRight
<1> QED
  BY <1>1, <1>2, <1>3

\* While a thread is in an ioctl nobody releases.
LEMMA NobodyReleases ==
  ASSUME TypeOK, FileInv, OneBusy, files # {}
  PROVE  \A u \in Thread : pc[u] \notin Releasing
<1>1. PICK f \in Thread : f \in files
  BY DEF TypeOK
<1> QED
  BY <1>1 DEF FileInv, OneBusy, Busy, Owner

LEMMA ActiveOpen ==
  ASSUME TypeOK, FileInv, BuiltRight, ActiveRight, NEW t \in Thread, Open(t) \/ OpenStep(t), ~ Overlap'
  PROVE  ActiveRight' /\ NoListYet' /\ MatchRight'
<1>1. \A u \in Thread : pc[u] \notin Configuring \cup Fetching
  <2>1. dev_state = "CLOSE" \/ pc[t] \in Opening
    BY DEF Open, cas, OpenStep, devset_init, ip_queue_init, OpenUndo, hook_register, Opening
  <2> QED
    BY <2>1, NobodyCalls
<1>2. ~ Built(Releasing)
  <2>1. CASE Open(t)
    BY <2>1 DEF Open, cas, Overlap, FileInv, Built
  <2>2. CASE OpenStep(t)
    <3>1. pc[t] \in Opening /\ t \notin files /\ Busy(t)
      BY <2>2 DEF OpenStep, devset_init, ip_queue_init, OpenUndo, hook_register, Opening, FileInv,
                  Busy, Owner
    <3>2. Releasing \in SUBSET (Opening \cup Releasing)
      OBVIOUS
    <3>3. Built(Releasing) <=> t \in files \/ pc[t] \in Releasing
      BY <3>1, <3>2, BuiltByOne DEF BuiltRight
    <3> QED
      BY <3>1, <3>3, Apart
  <2> QED
    BY <2>1, <2>2
<1>3. white_black = "NONE" /\ \A u \in Thread : pc[u] \notin Releasing
  BY <1>2 DEF ActiveRight, ListNeedsFile, Built
<1>4. dev_state' = "OPEN" /\ white_black' = "NONE"
  BY <1>3
     DEF Open, cas, OpenStep, devset_init, ip_queue_init, OpenUndo, devset_exit, hook_register, Opening,
         FileInv
<1>5. pc'[t] \in Opening \cup {"user"} /\ \A u \in Thread \ {t} : pc'[u] = pc[u]
  <2>1. \E p \in Opening \cup {"user"} : Go(t, p)
    BY DEF Open, OpenStep, devset_init, ip_queue_init, OpenUndo, hook_register, Opening
  <2> QED
    BY <2>1, GoMoves
<1>6. \A u \in Thread : pc'[u] \notin Configuring \cup Fetching /\ pc'[u] \notin Releasing
  BY <1>1, <1>3, <1>5, Apart DEF Releasing, Configuring, Fetching
<1>7. ClosesFirst'
  BY <1>6 DEF ClosesFirst
<1>8. ActiveRight'
  BY <1>4, <1>6, <1>7 DEF ActiveRight, ListNeedsFile, ListWhileNaming, Configuring
<1>9. NoListYet' /\ MatchRight'
  BY <1>4, <1>6 DEF NoListYet, MatchRight
<1> QED
  BY <1>8, <1>9

LEMMA ActiveRelease ==
  ASSUME TypeOK, FileInv, ActiveRight, NEW t \in Thread, ips_release(t) \/ ReleaseStep(t)
  PROVE  ActiveRight' /\ NoListYet' /\ MatchRight'
<1>1. dev_state' = "CLOSE" /\ \A u \in Thread : pc[u] \notin Configuring \cup Fetching
  <2>1. CASE ips_release(t)
    BY <2>1, NobodyCalls DEF ips_release
  <2>2. CASE ReleaseStep(t)
    <3>1. pc[t] \in Releasing /\ dev_state' = dev_state
      BY <2>2 DEF ReleaseStep, hook_unregister, HooksGone, ip_queue_exit, ReleaseEnds, Releasing
    <3>2. dev_state = "CLOSE"
      BY <3>1 DEF ActiveRight, ClosesFirst
    <3> QED
      BY <3>1, <3>2, NobodyCalls
  <2> QED
    BY <2>1, <2>2
<1>2. pc'[t] \in Releasing \cup {"user"} /\ \A u \in Thread \ {t} : pc'[u] = pc[u]
  BY GoMoves, AfterValues
     DEF ips_release, ReleaseStep, hook_unregister, HooksGone, ip_queue_exit, ReleaseEnds, Releasing
<1>3. \A u \in Thread : pc'[u] \notin Configuring \cup Fetching
  BY <1>1, <1>2, Apart DEF Configuring, Fetching
<1>4. white_black' = "NONE" \/ pc'[t] \in Releasing
  BY GoMoves, AfterValues
     DEF ips_release, ReleaseStep, hook_unregister, HooksGone, ip_queue_exit, ReleaseEnds, devset_exit, Releasing
<1>5. ClosesFirst'
  BY <1>1 DEF ClosesFirst
<1>6. ActiveRight'
  BY <1>3, <1>4, <1>5 DEF ActiveRight, ListNeedsFile, ListWhileNaming, Built, Configuring
<1>7. NoListYet' /\ MatchRight'
  BY <1>1, <1>3 DEF NoListYet, MatchRight, Configuring
<1> QED
  BY <1>6, <1>7

\* A step that leaves dev_state and the list alone, and in which every thread
\* stays where it is as far as they are concerned.
LEMMA ActiveStays ==
  ASSUME UNCHANGED <<dev_state, files, white_black>>,
         \A u \in Thread : /\ pc'[u] \in Releasing <=> pc[u] \in Releasing
                           /\ pc'[u] \in Configuring <=> pc[u] \in Configuring
                           /\ pc'[u] \in Fetching <=> pc[u] \in Fetching
                           /\ pc'[u] = "names" <=> pc[u] = "names"
  PROVE  /\ ActiveRight => ActiveRight'
         /\ NoListYet => NoListYet'
         /\ MatchRight => MatchRight'
<1>1. Built(Releasing)' <=> Built(Releasing)
  BY DEF Built
<1>2. \A u \in Thread : pc'[u] \in {"copy", "add", "setopen"} <=> pc[u] \in {"copy", "add", "setopen"}
  BY DEF Configuring
<1>3. ActiveRight => ActiveRight'
  BY <1>1 DEF ActiveRight, ClosesFirst, ListNeedsFile, ListWhileNaming
<1>4. NoListYet => NoListYet'
  BY <1>2 DEF NoListYet
<1>5. MatchRight => MatchRight'
  BY DEF MatchRight
<1> QED
  BY <1>3, <1>4, <1>5

\* A step of an ioctl keeps ActiveRight: nobody releases meanwhile, and a list
\* that is there has a file.
LEMMA ActiveIoctl ==
  ASSUME TypeOK, FileInv, BuiltRight, ActiveRight, NEW t \in Thread,
         Ioctl(t) \/ ConfigStep(t) \/ FetchStep(t)
  PROVE  ActiveRight'
<1>1. files # {} /\ files' = files
  <2>1. Ioctl(t) \/ pc[t] \in Configuring \cup Fetching
    BY DEF ConfigStep, CopyFails, CopyList, AddRefused, AddBegins, AddName, AddEnds, SetOpen,
           FetchStep, FetchRefused, FetchAsks, WaitReady, WaitTimeout, WaitSignal,
           FetchNoAccess, ip_queue_get, FetchGives, FetchGoes, SetName, Configuring, Fetching
  <2>2. files # {}
    BY <2>1 DEF Ioctl, FileInv
  <2>3. files' = files
    BY DEF Ioctl, Fetch, SetNamelist, ConfigStep, CopyFails, CopyList, AddRefused, AddBegins, AddName,
           AddEnds, SetOpen, FetchStep, FetchRefused, FetchAsks, WaitReady, WaitTimeout, WaitSignal,
           FetchNoAccess, ip_queue_get, FetchGives, FetchGoes, SetName
  <2> QED
    BY <2>2, <2>3
<1>2. \A u \in Thread : pc[u] \notin Releasing
  BY <1>1, NobodyReleases DEF BuiltRight
<1>3. pc'[t] \notin Releasing /\ \A u \in Thread \ {t} : pc'[u] = pc[u]
  <2>1. CASE Ioctl(t) \/ AddEnds(t) \/ SetOpen(t) \/ SetName(t)
    BY <2>1, CallMoves, ReturnMoves DEF Ioctl, Fetch, SetNamelist, AddEnds, SetOpen, SetName, Releasing
  <2>2. CASE (ConfigStep(t) /\ ~ (AddEnds(t) \/ SetOpen(t))) \/ (FetchStep(t) /\ ~ SetName(t))
    BY <2>2, ConfigMoves, FetchMoves, Apart DEF ConfigStep
  <2> QED
    BY <2>1, <2>2 DEF FetchStep
<1>4. ClosesFirst' /\ ListNeedsFile'
  BY <1>1, <1>2, <1>3 DEF ClosesFirst, ListNeedsFile, Built
<1>5. ListWhileNaming'
  <2>1. CASE AddBegins(t)
    BY <2>1 DEF AddBegins, Refuses, ListWhileNaming
  <2>2. CASE AddName(t)
    BY <2>2 DEF AddName, ActiveRight, ListWhileNaming
  <2>3. CASE CopyFails(t) \/ CopyList(t) \/ AddRefused(t)
    BY <1>3, <2>3, GoMoves DEF CopyFails, CopyList, AddRefused, ActiveRight, ListWhileNaming
  <2>4. CASE AddEnds(t) \/ SetOpen(t) \/ SetName(t)
    BY <1>3, <2>4, ReturnMoves DEF AddEnds, SetOpen, SetName, ActiveRight, ListWhileNaming
  <2>5. CASE FetchStep(t) /\ ~ SetName(t)
    BY <1>3, <2>5, FetchMoves, Apart DEF ActiveRight, ListWhileNaming, Configuring, Fetching
  <2>6. CASE Ioctl(t)
    BY <1>3, <2>6, CallMoves DEF Ioctl, Fetch, SetNamelist, ActiveRight, ListWhileNaming
  <2> QED
    BY <2>1, <2>2, <2>3, <2>4, <2>5, <2>6 DEF ConfigStep
<1> QED
  BY <1>4, <1>5 DEF ActiveRight

\* The ioctls, one at a time, keep dev_state and the list together.
LEMMA MatchIoctl ==
  ASSUME TypeOK, FileInv, ActiveRight, NoListYet, MatchRight, TurnRight, NEW t \in Thread,
         Ioctl(t) \/ ConfigStep(t) \/ FetchStep(t), ~ Overtaken'
  PROVE  NoListYet' /\ MatchRight'
<1>1. ASSUME NEW f \in files, Fetch(t, f)  PROVE NoListYet' /\ MatchRight'
  <2>1. \A u \in Thread : pc[u] \notin Configuring
    BY <1>1 DEF Fetch, Overtaken
  <2>2. dev_state = "NAME_SET" /\ dev_state' = "RUN" /\ white_black' = white_black
    BY <1>1 DEF Fetch, cas
  <2>3. white_black # "NONE"
    BY <2>1, <2>2 DEF MatchRight
  <2>4. pc'[t] = "ask" /\ \A u \in Thread \ {t} : pc'[u] = pc[u]
    BY <1>1, CallMoves DEF Fetch
  <2>5. \A u \in Thread : pc'[u] \notin Configuring
    BY <2>1, <2>4 DEF Configuring
  <2>6. NoListYet'
    BY <2>5 DEF NoListYet, Configuring
  <2>7. MatchRight'
    BY <2>2, <2>3, <2>4 DEF MatchRight, Fetching
  <2> QED
    BY <2>6, <2>7
<1>2. ASSUME NEW f \in files, NEW l \in Lists, SetNamelist(t, f, l)  PROVE NoListYet' /\ MatchRight'
  <2>1. dev_state = "OPEN" /\ dev_state' = "NAME_SET" /\ white_black' = white_black
    BY <1>2 DEF SetNamelist, cas
  <2>2. white_black = "NONE" /\ \A u \in Thread : pc[u] \notin Fetching
    BY <2>1 DEF MatchRight
  <2>3. pc'[t] = "copy" /\ \A u \in Thread \ {t} : pc'[u] = pc[u]
    BY <1>2, CallMoves DEF SetNamelist
  <2>4. pc'[t] \in Configuring /\ \A u \in Thread : pc'[u] \notin Fetching
    BY <2>2, <2>3 DEF Configuring, Fetching
  <2> QED
    BY <2>1, <2>2, <2>4 DEF NoListYet, MatchRight
<1>3. ASSUME CopyFails(t) \/ CopyList(t) \/ AddRefused(t)  PROVE NoListYet' /\ MatchRight'
  <2>1. /\ pc[t] \in {"copy", "add"} /\ pc'[t] \in {"add", "setopen"}
        /\ \A u \in Thread \ {t} : pc'[u] = pc[u]
    BY <1>3, GoMoves DEF CopyFails, CopyList, AddRefused
  <2>2. UNCHANGED <<dev_state, white_black>>
    BY <1>3 DEF CopyFails, CopyList, AddRefused
  <2>3. NoListYet'
    BY <2>1, <2>2 DEF NoListYet
  <2>4. \A u \in Thread : /\ pc'[u] \in Configuring <=> pc[u] \in Configuring
                          /\ pc'[u] \in Fetching <=> pc[u] \in Fetching
    BY <2>1 DEF Configuring, Fetching
  <2>5. MatchRight'
    BY <2>2, <2>4 DEF MatchRight
  <2> QED
    BY <2>3, <2>5
<1>4. ASSUME AddBegins(t)  PROVE NoListYet' /\ MatchRight'
  <2>1. pc[t] = "add" /\ pc'[t] = "names" /\ \A u \in Thread \ {t} : pc'[u] = pc[u]
    BY <1>4, GoMoves DEF AddBegins
  <2>2. pc[t] \in Configuring /\ pc'[t] \in Configuring
    BY <2>1 DEF Configuring
  <2>3. dev_state = "NAME_SET" /\ dev_state' = dev_state /\ white_black' # "NONE"
    BY <1>4, <2>2 DEF AddBegins, Refuses, TurnRight
  <2>4. \A u \in Thread \ {t} : pc'[u] \notin Configuring
    BY <2>1, <2>2 DEF TurnRight
  <2>5. \A u \in Thread : pc'[u] \in Fetching <=> pc[u] \in Fetching
    BY <2>1, <2>2, Apart
  <2>6. NoListYet'
    BY <2>1, <2>4 DEF NoListYet, Configuring
  <2>7. MatchRight'
    BY <2>3, <2>5 DEF MatchRight
  <2> QED
    BY <2>6, <2>7
<1>5. ASSUME AddName(t)  PROVE NoListYet' /\ MatchRight'
  <2>1. UNCHANGED <<dev_state, files, white_black, pc>>
    BY <1>5 DEF AddName
  <2> QED
    BY <2>1, ActiveStays
<1>6. ASSUME AddEnds(t)  PROVE NoListYet' /\ MatchRight'
  <2>1. pc[t] = "names" /\ pc'[t] = "user" /\ \A u \in Thread \ {t} : pc'[u] = pc[u]
    BY <1>6, ReturnMoves DEF AddEnds
  <2>2. pc[t] \in Configuring /\ UNCHANGED <<dev_state, white_black>>
    BY <1>6, <2>1 DEF AddEnds, Configuring
  <2>3. dev_state = "NAME_SET" /\ white_black # "NONE"
    BY <2>1, <2>2 DEF TurnRight, ActiveRight, ListWhileNaming
  <2>4. \A u \in Thread : pc'[u] \in Fetching <=> pc[u] \in Fetching
    BY <2>1 DEF Fetching
  <2>5. NoListYet'
    BY <2>1, <2>2 DEF NoListYet
  <2>6. MatchRight'
    BY <2>2, <2>3, <2>4 DEF MatchRight
  <2> QED
    BY <2>5, <2>6
<1>7. ASSUME SetOpen(t)  PROVE NoListYet' /\ MatchRight'
  <2>1. pc[t] = "setopen" /\ pc'[t] = "user" /\ \A u \in Thread \ {t} : pc'[u] = pc[u]
    BY <1>7, ReturnMoves DEF SetOpen
  <2>2. pc[t] \in Configuring /\ dev_state' = "OPEN" /\ white_black' = white_black
    BY <1>7, <2>1 DEF SetOpen, Configuring
  <2>3. white_black = "NONE" /\ \A u \in Thread : pc[u] \notin Fetching
    BY <2>1, <2>2 DEF TurnRight, NoListYet
  <2>4. \A u \in Thread : pc'[u] \notin Fetching
    BY <2>1, <2>3 DEF Fetching
  <2> QED
    BY <2>2, <2>3, <2>4 DEF NoListYet, MatchRight
<1>8. ASSUME SetName(t)  PROVE NoListYet' /\ MatchRight'
  <2>1. pc[t] = "setname" /\ pc'[t] = "user" /\ \A u \in Thread \ {t} : pc'[u] = pc[u]
    BY <1>8, ReturnMoves DEF SetName
  <2>2. pc[t] \in Fetching /\ dev_state' = "NAME_SET" /\ white_black' = white_black
    BY <1>8, <2>1 DEF SetName, Fetching
  <2>3. dev_state = "RUN" /\ \A u \in Thread : pc[u] \notin Configuring
    BY <2>2 DEF TurnRight
  <2>4. white_black # "NONE"
    BY <2>3 DEF MatchRight
  <2>5. \A u \in Thread : pc'[u] \notin Fetching
    BY <2>1, <2>2 DEF TurnRight, Fetching
  <2>6. NoListYet'
    BY <2>1, <2>3 DEF NoListYet, Configuring
  <2>7. MatchRight'
    BY <2>2, <2>4, <2>5 DEF MatchRight
  <2> QED
    BY <2>6, <2>7
<1>9. ASSUME FetchStep(t), ~ SetName(t)  PROVE NoListYet' /\ MatchRight'
  <2>1. /\ {pc[t], pc'[t]} \subseteq Fetching /\ \A u \in Thread \ {t} : pc'[u] = pc[u]
        /\ UNCHANGED <<dev_state, files, white_black>>
    BY <1>9, FetchMoves
  <2>2. {pc[t], pc'[t]} \cap (Releasing \cup Configuring) = {} /\ "names" \notin {pc[t], pc'[t]}
    BY <2>1, Apart DEF Configuring
  <2> QED
    BY <2>1, <2>2, ActiveStays
<1> QED
  BY <1>1, <1>2, <1>3, <1>4, <1>5, <1>6, <1>7, <1>8, <1>9 DEF Ioctl, ConfigStep, FetchStep

\* The other steps touch neither.
LEMMA ActiveOther ==
  ASSUME ActiveRight,
         \/ \E c \in Ctx : HookStep(c) \/ \E p \in Paths : hookfn(c, p)
         \/ ShowBegins \/ ShowWalks \/ ips_init \/ InitEnds \/ ips_exit
  PROVE  /\ ActiveRight'
         /\ NoListYet => NoListYet'
         /\ FileInv /\ MatchRight => MatchRight'
<1>1. CASE ~ ips_exit
  <2>1. UNCHANGED <<dev_state, files, white_black, pc>>
    BY <1>1
       DEF HookStep, ignore, PutLooks, PutInserts, hookfn, ShowBegins, ShowWalks, ips_init, InitEnds
  <2> QED
    BY <2>1, ActiveStays
<1>2. CASE ips_exit
  <2>1. /\ dev_state' = "CLOSE" /\ UNCHANGED <<files, white_black, pc>>
        /\ \A u \in Thread : pc'[u] = "user"
    BY <1>2 DEF ips_exit
  <2>2. ClosesFirst' /\ ListNeedsFile' /\ ListWhileNaming' /\ NoListYet'
    BY <2>1 DEF ActiveRight, ClosesFirst, ListNeedsFile, ListWhileNaming, NoListYet, Built
  <2>3. MatchRight'
    BY <2>1, Apart DEF MatchRight
  <2> QED
    BY <2>2, <2>3 DEF ActiveRight
<1> QED
  BY <1>1, <1>2

LEMMA Inv3Init == Init => Inv3
<1> SUFFICES ASSUME Init  PROVE Inv3
  OBVIOUS
<1>1. Inv2
  BY Inv2Init
<1>2. /\ dev_state = "CLOSE" /\ white_black = "NONE"
      /\ \A t \in Thread : pc[t] \notin Releasing \cup Configuring \cup Fetching
  BY Apart DEF Init
<1>3. TurnInv
  BY <1>2 DEF TurnInv
<1>4. ActiveRight /\ NoListYet
  BY <1>2 DEF ActiveRight, ClosesFirst, ListNeedsFile, ListWhileNaming, NoListYet, Configuring
<1>5. MatchRight
  BY <1>2 DEF MatchRight
<1> QED
  BY <1>1, <1>3, <1>4, <1>5, ActiveParts DEF Inv3

LEMMA ActiveStep ==
  ASSUME Inv3, Next, ~ Overlap'
  PROVE  ActiveRight' /\ (Overtaken' \/ (NoListYet' /\ MatchRight'))
<1>1. ~ Overlap /\ (Overtaken => Overtaken')
  BY HistGrows DEF Overlap, Overtaken
<1>2. /\ TypeOK /\ FileInv /\ BuiltRight /\ ActiveRight
      /\ ~ Overtaken' => NoListYet /\ MatchRight /\ TurnRight
  BY <1>1, BuiltParts, ActiveParts DEF Inv3, Inv2, Inv1
<1>3. ASSUME NEW t \in Thread, Open(t) \/ OpenStep(t)
      PROVE  ActiveRight' /\ (Overtaken' \/ (NoListYet' /\ MatchRight'))
  BY <1>2, <1>3, ActiveOpen
<1>4. ASSUME NEW t \in Thread, ips_release(t) \/ ReleaseStep(t)
      PROVE  ActiveRight' /\ (Overtaken' \/ (NoListYet' /\ MatchRight'))
  BY <1>2, <1>4, ActiveRelease
<1>5. ASSUME NEW t \in Thread, Ioctl(t) \/ ConfigStep(t) \/ FetchStep(t)
      PROVE  ActiveRight' /\ (Overtaken' \/ (NoListYet' /\ MatchRight'))
  BY <1>2, <1>5, ActiveIoctl, MatchIoctl
<1>6. ASSUME \/ \E c \in Ctx : HookStep(c) \/ \E p \in Paths : hookfn(c, p)
             \/ ShowBegins \/ ShowWalks \/ ips_init \/ InitEnds \/ ips_exit
      PROVE  ActiveRight' /\ (Overtaken' \/ (NoListYet' /\ MatchRight'))
  BY <1>2, <1>6, ActiveOther
<1> QED
  BY <1>3, <1>4, <1>5, <1>6 DEF Next

LEMMA Inv3Step ==
  ASSUME Inv3, [Next]_vars
  PROVE  Inv3'
<1>1. Inv2'
  BY Inv2Step DEF Inv3
<1>2. CASE Next
  <2>1. TurnInv'
    BY <1>2, TurnStep DEF Inv3, Inv2, Inv1
  <2>2. ~ Overlap' => ActiveRight' /\ (Overtaken' \/ (NoListYet' /\ MatchRight'))
    BY <1>2, ActiveStep
  <2>3. ActiveInv'
    BY <2>2 DEF ActiveInv, ActiveRight, ClosesFirst, ListNeedsFile, ListWhileNaming, NoListYet
  <2>4. StateMatchesSet'
    BY <2>2 DEF StateMatchesSet, MatchRight
  <2> QED
    BY <1>1, <2>1, <2>3, <2>4 DEF Inv3
<1>3. CASE UNCHANGED vars
  <2>1. UNCHANGED <<dev_state, files, pc, white_black, hist>>
    BY <1>3 DEF vars
  <2>2. TurnInv' /\ StateMatchesSet'
    BY <2>1 DEF Inv3, TurnInv, StateMatchesSet, Overlap, Overtaken
  <2>3. ActiveInv'
    BY <2>1 DEF Inv3, ActiveInv, Overlap, Overtaken, Built
  <2> QED
    BY <1>1, <2>2, <2>3 DEF Inv3
<1> QED
  BY <1>2, <1>3

LEMMA Inv3Holds == Spec => []Inv3
<1>1. Init => Inv3
  BY Inv3Init
<1>2. Inv3 /\ [Next]_vars => Inv3'
  BY Inv3Step
<1> QED
  BY <1>1, <1>2, PTL DEF Spec

\* dev_state says what the device set holds (StateMatchesSet): a list in NAME_SET
\* and RUN, none in OPEN, and a fetch that ends RUN.
THEOREM StateIsTheSets == Spec => []StateMatchesSet
<1>1. Inv3 => StateMatchesSet
  BY DEF Inv3
<1> QED
  BY <1>1, Inv3Holds, PTL

-----------------------------------------------------------------------------
(***************************************************************************)
(* The packets that count.                                                 *)
(***************************************************************************)
\* What ListHonoured and ListInv say of a hook h.
Counted(h) == h.pc \in {"put", "insert"}

Honoured(h) ==
  Counted(h) =>
    LET devs == {h.in, h.out} \ {NoDev} IN
    /\ white_black # "NONE"
    /\ white_black = "WHITE" => devs \cap (names \cup dropped) # {}
    /\ white_black = "BLACK" => h.early \/ devs \cap dropped # {} \/ devs \ names # {}

Timely(h) == Counted(h) /\ ~ h.early => \A t \in Thread : pc[t] # "names"

LEMMA ListParts ==
  /\ ListHonoured <=> Overlap \/ \A c \in Ctx : Honoured(hk[c])
  /\ ListInv <=> Overlap \/ \A c \in Ctx : Timely(hk[c])
BY DEF ListHonoured, ListInv, Honoured, Timely, Counted

\* A step that leaves hooks and list alone, and in which no thread begins to add
\* names.
LEMMA ListStays ==
  ASSUME \A c \in Ctx : Honoured(hk[c]) /\ Timely(hk[c]), UNCHANGED <<hk, setvars>>,
         \A t \in Thread : pc'[t] = "names" => pc[t] = "names"
  PROVE  \A c \in Ctx : Honoured(hk[c])' /\ Timely(hk[c])'
BY DEF Honoured, Timely, Counted

\* While no packet is on its way in there is nothing to say.
LEMMA NoneCounted ==
  ASSUME \A c \in Ctx : ~ Counted(hk'[c])
  PROVE  \A c \in Ctx : Honoured(hk[c])' /\ Timely(hk[c])'
BY DEF Honoured, Timely, Counted

LEMMA ListFilling ==
  ASSUME TypeOK, FileInv, BuiltRight, NEW t \in Thread,
         devset_init(t) \/ OpenUndo(t) \/ ReleaseEnds(t)
  PROVE  \A c \in Ctx : Honoured(hk[c])' /\ Timely(hk[c])'
<1>1. pc[t] \in {"devset_init", "undo", "devset_exit"} /\ hk' = hk
  BY DEF devset_init, OpenUndo, ReleaseEnds
<1>2. Busy(t) /\ t \notin files
  BY <1>1 DEF Busy, Owner, FileInv, Opening, Releasing
<1>3. \A c \in Ctx : hk[c].pc = "out"
  BY <1>1, <1>2, BuiltAt
<1> QED
  BY <1>1, <1>3, NoneCounted DEF Counted

LEMMA ListBegins ==
  ASSUME \A c \in Ctx : Honoured(hk[c]), NEW t \in Thread, AddBegins(t)
  PROVE  \A c \in Ctx : Honoured(hk[c])' /\ Timely(hk[c])'
<1>1. white_black = "NONE" /\ hk' = hk
  BY DEF AddBegins, Refuses
<1>2. \A c \in Ctx : ~ Counted(hk[c])
  BY <1>1 DEF Honoured
<1> QED
  BY <1>1, <1>2, NoneCounted

LEMMA ListName ==
  ASSUME \A c \in Ctx : Honoured(hk[c]) /\ Timely(hk[c]), NEW t \in Thread, AddName(t)
  PROVE  \A c \in Ctx : Honoured(hk[c])' /\ Timely(hk[c])'
<1> SUFFICES ASSUME NEW c \in Ctx  PROVE Honoured(hk[c])' /\ Timely(hk[c])'
  OBVIOUS
<1>1. /\ pc[t] = "names" /\ UNCHANGED <<hk, pc, white_black>>
      /\ names \subseteq names' /\ dropped \subseteq dropped'
  BY DEF AddName
<1>2. Timely(hk[c])'
  BY <1>1 DEF Timely, Counted
<1>3. CASE Counted(hk[c])
  <2>1. hk[c].early
    BY <1>1, <1>3 DEF Timely
  <2>2. white_black' # "NONE"
    BY <1>1, <1>3 DEF Honoured
  <2>3. white_black' = "WHITE" => ({hk[c].in, hk[c].out} \ {NoDev}) \cap (names' \cup dropped') # {}
    BY <1>1, <1>3 DEF Honoured
  <2> QED
    BY <1>1, <1>2, <2>1, <2>2, <2>3 DEF Honoured
<1>4. CASE ~ Counted(hk[c])
  BY <1>1, <1>2, <1>4 DEF Honoured, Counted
<1> QED
  BY <1>3, <1>4

LEMMA ListHook ==
  ASSUME TypeOK, \A d \in Ctx : Honoured(hk[d]) /\ Timely(hk[d]), NEW c \in Ctx,
         HookStep(c) \/ \E p \in Paths : hookfn(c, p)
  PROVE  \A d \in Ctx : Honoured(hk[d])' /\ Timely(hk[d])'
<1>1. UNCHANGED <<setvars, pc>> /\ \A d \in Ctx \ {c} : hk'[d] = hk[d]
  BY DEF HookStep, ignore, PutLooks, PutInserts, hookfn, TypeOK
<1>2. \A d \in Ctx \ {c} : Honoured(hk[d])' /\ Timely(hk[d])'
  BY <1>1 DEF Honoured, Timely, Counted
<1>3. Honoured(hk[c])' /\ Timely(hk[c])'
  <2>1. hk \in [Ctx -> Hooks] /\ hk[c] \in Hooks
    BY DEF TypeOK, Hooks
  <2>2. CASE ignore(c)
    <3> DEFINE d == IF hk[c].pc = "in" THEN hk[c].in ELSE hk[c].out
               e == \E t \in Thread : pc[t] = "names"
    <3>1. CASE d # NoDev /\ ~ devset_ignore(d)
      <4>1. hk'[c] = [hk[c] EXCEPT !.pc = "put", !.early = e]
        BY <2>1, <2>2, <3>1 DEF ignore
      <4>2. hk'[c].in = hk[c].in /\ hk'[c].out = hk[c].out /\ hk'[c].pc = "put" /\ (hk'[c].early <=> e)
        BY <2>1, <4>1 DEF Hooks
      <4>3. d \in {hk[c].in, hk[c].out} \ {NoDev}
        BY <3>1
      <4>4. /\ white_black # "NONE"
            /\ white_black = "WHITE" => d \in names
            /\ white_black = "BLACK" => d \notin names
        BY <3>1 DEF devset_ignore
      <4>5. Honoured(hk[c])'
        BY <1>1, <4>2, <4>3, <4>4 DEF Honoured
      <4>6. Timely(hk[c])'
        BY <1>1, <4>2 DEF Timely
      <4> QED
        BY <4>5, <4>6
    <3>2. CASE ~ (d # NoDev /\ ~ devset_ignore(d))
      <4>1. hk'[c] = IF hk[c].pc = "in" THEN [hk[c] EXCEPT !.pc = "other"] ELSE NoHook
        BY <2>1, <2>2, <3>2 DEF ignore
      <4>2. ~ Counted(hk'[c])
        BY <2>1, <4>1 DEF Counted, Hooks, NoHook
      <4> QED
        BY <4>2 DEF Honoured, Timely, Counted
    <3> QED
      BY <3>1, <3>2
  <2>3. CASE PutLooks(c)
    <3>1. hk'[c] = NoHook \/ hk'[c] = [hk[c] EXCEPT !.pc = "insert"]
      BY <2>1, <2>3 DEF PutLooks
    <3>2. CASE hk'[c] = NoHook
      BY <3>2 DEF Honoured, Timely, Counted, NoHook
    <3>3. CASE hk'[c] = [hk[c] EXCEPT !.pc = "insert"]
      <4>1. hk'[c].in = hk[c].in /\ hk'[c].out = hk[c].out /\ hk'[c].early = hk[c].early
        BY <2>1, <3>3 DEF Hooks
      <4>2. Counted(hk[c])
        BY <2>3 DEF PutLooks, Counted
      <4> QED
        BY <1>1, <4>1, <4>2 DEF Honoured, Timely
    <3> QED
      BY <3>1, <3>2, <3>3
  <2>4. CASE PutInserts(c)
    <3>1. hk'[c] = NoHook
      BY <2>1, <2>4 DEF PutInserts
    <3> QED
      BY <3>1 DEF Honoured, Timely, Counted, NoHook
  <2>5. CASE \E p \in Paths : hookfn(c, p)
    <3>1. hk'[c].pc = "in"
      BY <2>1, <2>5 DEF hookfn
    <3> QED
      BY <3>1 DEF Honoured, Timely, Counted
  <2> QED
    BY <2>2, <2>3, <2>4, <2>5 DEF HookStep
<1> QED
  BY <1>2, <1>3

LEMMA ListStep ==
  ASSUME Inv4, Next, ~ Overlap'
  PROVE  \A c \in Ctx : Honoured(hk[c])' /\ Timely(hk[c])'
<1>1. ~ Overlap
  BY HistGrows DEF Overlap
<1>2. TypeOK /\ FileInv /\ BuiltRight /\ \A c \in Ctx : Honoured(hk[c]) /\ Timely(hk[c])
  BY <1>1, BuiltParts, ListParts DEF Inv4, Inv3, Inv2, Inv1
<1>3. ASSUME NEW t \in Thread, devset_init(t) \/ OpenUndo(t) \/ ReleaseEnds(t)
      PROVE  \A c \in Ctx : Honoured(hk[c])' /\ Timely(hk[c])'
  BY <1>2, <1>3, ListFilling
<1>4. ASSUME NEW t \in Thread,
             \/ Open(t) \/ ip_queue_init(t) \/ hook_register(t)
             \/ ips_release(t) \/ hook_unregister(t) \/ HooksGone(t) \/ ip_queue_exit(t)
      PROVE  \A c \in Ctx : Honoured(hk[c])' /\ Timely(hk[c])'
  <2>1. UNCHANGED <<hk, setvars>>
    BY <1>4 DEF Open, ip_queue_init, hook_register, ips_release, hook_unregister, HooksGone, ip_queue_exit
  <2>2. \A u \in Thread : pc'[u] = "names" => pc[u] = "names"
    BY <1>2, <1>4, GoMoves, AfterValues
       DEF Open, ip_queue_init, hook_register, ips_release, hook_unregister, HooksGone, ip_queue_exit
  <2> QED
    BY <1>2, <2>1, <2>2, ListStays
<1>5. ASSUME NEW t \in Thread, AddBegins(t)
      PROVE  \A c \in Ctx : Honoured(hk[c])' /\ Timely(hk[c])'
  BY <1>2, <1>5, ListBegins
<1>6. ASSUME NEW t \in Thread, AddName(t)
      PROVE  \A c \in Ctx : Honoured(hk[c])' /\ Timely(hk[c])'
  BY <1>2, <1>6, ListName
<1>7. ASSUME NEW t \in Thread,
             \/ Ioctl(t) \/ CopyFails(t) \/ CopyList(t) \/ AddRefused(t)
             \/ AddEnds(t) \/ SetOpen(t) \/ FetchStep(t)
      PROVE  \A c \in Ctx : Honoured(hk[c])' /\ Timely(hk[c])'
  <2>1. UNCHANGED <<hk, setvars>>
    BY <1>7
       DEF Ioctl, Fetch, SetNamelist, CopyFails, CopyList, AddRefused, AddEnds, SetOpen, FetchStep,
           FetchRefused, FetchAsks, WaitReady, WaitTimeout, WaitSignal, FetchNoAccess, ip_queue_get,
           FetchGives, FetchGoes, SetName
  <2>2. \A u \in Thread : pc'[u] = "names" => pc[u] = "names"
    <3>1. CASE Ioctl(t)
      BY <1>2, <3>1, CallMoves DEF Ioctl, Fetch, SetNamelist
    <3>2. CASE AddEnds(t) \/ SetOpen(t) \/ SetName(t)
      BY <1>2, <3>2, ReturnMoves DEF AddEnds, SetOpen, SetName
    <3>3. CASE CopyFails(t) \/ CopyList(t) \/ AddRefused(t)
      BY <1>2, <3>3, GoMoves DEF CopyFails, CopyList, AddRefused
    <3>4. CASE FetchStep(t) /\ ~ SetName(t)
      BY <1>2, <3>4, FetchMoves DEF Fetching
    <3> QED
      BY <1>7, <3>1, <3>2, <3>3, <3>4
  <2> QED
    BY <1>2, <2>1, <2>2, ListStays
<1>8. ASSUME NEW c \in Ctx, HookStep(c) \/ \E p \in Paths : hookfn(c, p)
      PROVE  \A d \in Ctx : Honoured(hk[d])' /\ Timely(hk[d])'
  BY <1>2, <1>8, ListHook
<1>9. ASSUME ShowBegins \/ ShowWalks \/ ips_init \/ InitEnds \/ ips_exit
      PROVE  \A c \in Ctx : Honoured(hk[c])' /\ Timely(hk[c])'
  <2>1. UNCHANGED <<hk, setvars, pc>>
    BY <1>9 DEF ShowBegins, ShowWalks, ips_init, InitEnds, ips_exit
  <2> QED
    BY <1>2, <2>1, ListStays
<1> QED
  BY <1>3, <1>4, <1>5, <1>6, <1>7, <1>8, <1>9 DEF Next, OpenStep, ReleaseStep, ConfigStep

LEMMA Inv4Holds == Spec => []Inv4
<1>1. Init => Inv4
  BY Inv3Init DEF Init, Inv4, ListHonoured, ListInv, NoHook
<1>2. Inv4 /\ [Next]_vars => Inv4'
  <2> SUFFICES ASSUME Inv4, [Next]_vars  PROVE Inv4'
    OBVIOUS
  <2>1. Inv3'
    BY Inv3Step DEF Inv4
  <2>2. CASE Next
    <3>1. ~ Overlap' => \A c \in Ctx : Honoured(hk[c])' /\ Timely(hk[c])'
      BY <2>2, ListStep
    <3>2. ListHonoured'
      BY <3>1 DEF ListHonoured, Honoured, Counted
    <3>3. ListInv'
      BY <3>1 DEF ListInv, Timely, Counted
    <3> QED
      BY <2>1, <3>2, <3>3 DEF Inv4
  <2>3. CASE UNCHANGED vars
    <3>1. UNCHANGED <<hk, setvars, pc, hist>>
      BY <2>3 DEF vars
    <3> QED
      BY <2>1, <3>1 DEF Inv4, ListHonoured, ListInv, Overlap
  <2> QED
    BY <2>2, <2>3
<1> QED
  BY <1>1, <1>2, PTL DEF Spec

\* The packets that count are those the user asked for (ListHonoured): with a
\* white list a device of theirs was named, with a black list one was not.
THEOREM ListIsHonoured == Spec => []ListHonoured
<1>1. Inv4 => ListHonoured
  BY DEF Inv4
<1> QED
  BY <1>1, Inv4Holds, PTL

=============================================================================
