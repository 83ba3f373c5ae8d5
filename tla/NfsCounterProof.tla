--------------------------- MODULE NfsCounterProof ---------------------------
(***************************************************************************)
(* Proofs about NfsCounter, for every number of threads, CPUs, entries and *)
(* addresses.                                                              *)
(***************************************************************************)
EXTENDS NfsCounter, TLAPS, WellFoundedInduction

\* A non-empty set of natural numbers has a least element.
LEMMA LeastElement ==
  ASSUME NEW T, T \subseteq Nat, T # {}
  PROVE  \E x \in T : \A y \in T : x <= y
<1> DEFINE R == {ss \in Nat \X Nat : ss[1] < ss[2]}
<1>1. IsWellFoundedOn(R, Nat)
  BY NatLessThanWellFounded DEF OpToRel
<1>2. PICK x \in T : \A y \in T : <<y, x>> \notin R
  BY <1>1, WFMin
<1>3. ASSUME NEW y \in T  PROVE x <= y
  <2>1. x \in Nat /\ y \in Nat
    OBVIOUS
  <2>2. y < x => <<y, x>> \in R
    BY <2>1
  <2> QED
    BY <1>2, <2>1, <2>2
<1> QED
  BY <1>3

-----------------------------------------------------------------------------
(***************************************************************************)
(* Sums over the CPUs.                                                     *)
(***************************************************************************)
\* The least number that is wrong has a predecessor that is right.
LEMMA Predecessor ==
  ASSUME NEW S, NEW m \in S, m \in Nat, m > 0, m <= NCpu, \A y \in S : m <= y
  PROVE  \E k \in CPU : m = k + 1 /\ k \notin S
<1>1. NCpu \in Nat /\ CPU = 0 .. NCpu - 1
  BY CounterAssumption DEF CPU
<1>2. m - 1 \in CPU /\ m = (m - 1) + 1
  BY <1>1
<1>3. ~ m <= m - 1
  OBVIOUS
<1>4. m - 1 \notin S
  BY <1>3
<1> QED
  BY <1>2, <1>4

\* A function that adds up the first m of f.
AddsUp(s, m, f) == s[0] = 0 /\ \A j \in 1 .. m : s[j] = s[j - 1] + f[j - 1]

LEMMA SumExists ==
  ASSUME NEW f \in [CPU -> Nat]
  PROVE  \E s \in [0 .. NCpu -> Nat] : AddsUp(s, NCpu, f)
<1> DEFINE Missing == {m \in Nat : m <= NCpu /\ ~ \E s \in [0 .. m -> Nat] : AddsUp(s, m, f)}
<1>1. NCpu \in Nat /\ CPU = 0 .. NCpu - 1
  BY CounterAssumption DEF CPU
<1>2. ASSUME Missing # {}  PROVE FALSE
  <2>1. PICK m \in Missing : \A y \in Missing : m <= y
    BY <1>2, LeastElement
  <2>2. m \in Nat /\ m <= NCpu /\ ~ \E s \in [0 .. m -> Nat] : AddsUp(s, m, f)
    BY <2>1
  <2>3. CASE m = 0
    <3>1. [j \in 0 .. 0 |-> 0] \in [0 .. m -> Nat] /\ AddsUp([j \in 0 .. 0 |-> 0], m, f)
      BY <2>3 DEF AddsUp
    <3> QED
      BY <2>2, <3>1
  <2>4. CASE m > 0
    <3>0. PICK k \in CPU : m = k + 1 /\ k \notin Missing
      BY <2>1, <2>2, <2>4, Predecessor
    <3>1. k \in Nat /\ k <= NCpu
      BY <1>1
    <3>2. PICK s \in [0 .. k -> Nat] : AddsUp(s, k, f)
      BY <3>0, <3>1
    <3> DEFINE t == [j \in 0 .. m |-> IF j = m THEN s[k] + f[k] ELSE s[j]]
    <3>3. t \in [0 .. m -> Nat]
      <4>1. s[k] + f[k] \in Nat
        BY <3>1, <3>2
      <4>2. \A j \in 0 .. m : j # m => j \in 0 .. k
        BY <3>0, <3>1
      <4> QED
        BY <4>1, <4>2
    <3>4. ASSUME NEW j \in 1 .. m  PROVE t[j] = t[j - 1] + f[j - 1]
      <4>1. CASE j = m
        <5>1. j \in 0 .. m /\ j - 1 = k /\ k \in 0 .. m /\ k # m
          BY <3>0, <3>1, <4>1
        <5> QED
          BY <4>1, <5>1
      <4>2. CASE j # m
        <5>1. j \in 1 .. k /\ j \in 0 .. m /\ j - 1 \in 0 .. m /\ j - 1 # m
          BY <3>0, <3>1, <4>2
        <5>2. s[j] = s[j - 1] + f[j - 1]
          BY <3>2, <5>1 DEF AddsUp
        <5> QED
          BY <4>2, <5>1, <5>2
      <4> QED
        BY <4>1, <4>2
    <3>5. t[0] = 0
      BY <2>2, <2>4, <3>2 DEF AddsUp
    <3>6. AddsUp(t, m, f)
      BY <3>4, <3>5 DEF AddsUp
    <3> QED
      BY <2>2, <3>3, <3>6
  <2> QED
    BY <2>2, <2>3, <2>4
<1>3. NCpu \notin Missing
  BY <1>2
<1> QED
  BY <1>1, <1>3

\* Sums is what its definition says: there is a function that adds up, and
\* nothing but natural numbers comes out.
LEMMA SumsProperties ==
  ASSUME NEW f \in [CPU -> Nat]
  PROVE  /\ Sums(f) \in [0 .. NCpu -> Nat]
         /\ Sums(f)[0] = 0
         /\ \A m \in 1 .. NCpu : Sums(f)[m] = Sums(f)[m - 1] + f[m - 1]
<1>1. NCpu \in Nat /\ CPU = 0 .. NCpu - 1
  BY CounterAssumption DEF CPU
<1> DEFINE IsSum(s) == s = [m \in 0 .. NCpu |-> IF m = 0 THEN 0 ELSE s[m - 1] + f[m - 1]]
<1>2. \E s : IsSum(s)
  <2>1. PICK s \in [0 .. NCpu -> Nat] : AddsUp(s, NCpu, f)
    BY SumExists
  <2>2. ASSUME NEW m \in 0 .. NCpu  PROVE s[m] = IF m = 0 THEN 0 ELSE s[m - 1] + f[m - 1]
    BY <1>1, <2>1 DEF AddsUp
  <2>3. s = [m \in 0 .. NCpu |-> s[m]]
    OBVIOUS
  <2> QED
    BY <2>2, <2>3
<1>3. Sums(f) = CHOOSE s : IsSum(s)
  BY DEF Sums
<1>4. IsSum(Sums(f))
  <2> HIDE DEF IsSum
  <2> QED
    BY <1>2, <1>3
<1>5. PICK s : s = Sums(f)
  OBVIOUS
<1>6. /\ s = [m \in 0 .. NCpu |-> s[m]] /\ s[0] = 0
      /\ \A m \in 1 .. NCpu : s[m] = s[m - 1] + f[m - 1]
  <2>1. IsSum(s)
    BY <1>4, <1>5
  <2>2. /\ 0 \in 0 .. NCpu
        /\ \A m \in 1 .. NCpu : m \in 0 .. NCpu /\ m # 0
    BY <1>1
  <2>3. s[0] = 0
    BY <2>1, <2>2
  <2>4. ASSUME NEW m \in 1 .. NCpu  PROVE s[m] = s[m - 1] + f[m - 1]
    BY <2>1, <2>2
  <2>5. s = [m \in 0 .. NCpu |-> s[m]]
    BY <2>1
  <2> QED
    BY <2>3, <2>4, <2>5
<1> DEFINE Wrong == {m \in Nat : m <= NCpu /\ s[m] \notin Nat}
<1>7. ASSUME Wrong # {}  PROVE FALSE
  <2>1. PICK m \in Wrong : \A y \in Wrong : m <= y
    BY <1>7, LeastElement
  <2>2. m \in Nat /\ m <= NCpu /\ s[m] \notin Nat /\ m > 0
    BY <1>6, <2>1
  <2>3. PICK k \in CPU : m = k + 1 /\ k \notin Wrong
    BY <1>1, <2>1, <2>2, Predecessor
  <2>4. s[k] \in Nat /\ f[k] \in Nat
    BY <1>1, <2>3
  <2>5. s[m] = s[k] + f[k]
    <3>1. m \in 1 .. NCpu /\ m - 1 = k
      BY <1>1, <2>2, <2>3
    <3> QED
      BY <1>6, <3>1
  <2> QED
    BY <2>2, <2>4, <2>5
<1>8. \A m \in 0 .. NCpu : s[m] \in Nat
  BY <1>1, <1>7
<1>9. s \in [0 .. NCpu -> Nat]
  BY <1>6, <1>8
<1> QED
  BY <1>5, <1>6, <1>9

\* One more on a CPU is one more in every sum that the CPU is part of.
LEMMA SumsGrow ==
  ASSUME NEW f \in [CPU -> Nat], NEW g \in [CPU -> Nat], NEW c \in CPU, g = [f EXCEPT ![c] = @ + 1]
  PROVE  \A m \in 0 .. NCpu : Sums(g)[m] = Sums(f)[m] + (IF c < m THEN 1 ELSE 0)
<1>1. NCpu \in Nat /\ CPU = 0 .. NCpu - 1 /\ c \in Nat
  BY CounterAssumption DEF CPU
<1>2. PICK s \in [0 .. NCpu -> Nat] : s = Sums(f)
  BY SumsProperties
<1>3. PICK t \in [0 .. NCpu -> Nat] : t = Sums(g)
  BY SumsProperties
<1>4. s[0] = 0 /\ \A m \in 1 .. NCpu : s[m] = s[m - 1] + f[m - 1]
  BY <1>2, SumsProperties
<1>5. t[0] = 0 /\ \A m \in 1 .. NCpu : t[m] = t[m - 1] + g[m - 1]
  BY <1>3, SumsProperties
<1> DEFINE Wrong == {m \in Nat : m <= NCpu /\ t[m] # s[m] + (IF c < m THEN 1 ELSE 0)}
<1>6. ASSUME Wrong # {}  PROVE FALSE
  <2>1. PICK m \in Wrong : \A y \in Wrong : m <= y
    BY <1>6, LeastElement
  <2>2. m \in Nat /\ m <= NCpu /\ t[m] # s[m] + (IF c < m THEN 1 ELSE 0) /\ m > 0
    BY <1>1, <1>4, <1>5, <2>1
  <2>3. PICK k \in CPU : m = k + 1 /\ k \notin Wrong
    BY <1>1, <2>1, <2>2, Predecessor
  <2>4. k \in Nat /\ k \in 0 .. NCpu /\ m - 1 = k /\ m \in 1 .. NCpu
    BY <1>1, <2>2, <2>3
  <2>5. t[k] = s[k] + (IF c < k THEN 1 ELSE 0)
    <3>1. k <= NCpu /\ k \in Nat
      BY <1>1, <2>4
    <3> QED
      BY <2>3, <3>1
  <2>6. t[m] = t[k] + g[k] /\ s[m] = s[k] + f[k]
    BY <1>4, <1>5, <2>4
  <2>7. s[k] \in Nat /\ f[k] \in Nat
    BY <2>3, <2>4
  <2>8. g[k] = f[k] + (IF c = k THEN 1 ELSE 0)
    BY <2>3, <2>7
  <2>9. CASE c < k
    BY <1>1, <2>2, <2>3, <2>4, <2>5, <2>6, <2>7, <2>8, <2>9
  <2>10. CASE c = k
    BY <1>1, <2>2, <2>3, <2>4, <2>5, <2>6, <2>7, <2>8, <2>10
  <2>11. CASE k < c
    BY <1>1, <2>2, <2>3, <2>4, <2>5, <2>6, <2>7, <2>8, <2>11
  <2> QED
    BY <1>1, <2>4, <2>9, <2>10, <2>11
<1>7. ASSUME NEW m \in 0 .. NCpu  PROVE t[m] = s[m] + (IF c < m THEN 1 ELSE 0)
  <2>1. m \in Nat /\ m <= NCpu
    BY <1>1
  <2>2. m \notin Wrong
    <3> HIDE DEF Wrong
    <3> QED
      BY <1>6
  <2> QED
    BY <2>1, <2>2
<1> QED
  BY <1>2, <1>3, <1>7

-----------------------------------------------------------------------------
(***************************************************************************)
(* Type correctness, and who may touch an entry.                           *)
(***************************************************************************)
USE DEF modvars, entries

Calls == [pc : {"user", "init", "insert", "delete", "sum", "sent"},
          ip : Addr \cup {NoAddr}, e : Entries \cup {NoEntry}, i : Type, cpu : 0 .. NCpu,
          v : Nat, low : Nat]
Hooks == [pc : {"out", "read", "write"}, e : Entries \cup {NoEntry}, i : Type, v : Nat]

\* The parts of TypeOK.
FlagTypes ==
  /\ module \in {"out", "init", "hooks", "fails", "in", "exits"}
  /\ device \in BOOLEAN /\ hooked \in BOOLEAN /\ dirs \in BOOLEAN
  /\ maxtype \in Type
EntryTypes ==
  /\ live \subseteq Entries /\ tree \subseteq Entries
  /\ ip \in [Entries -> Range(Stored) \cup {NoAddr}] /\ live = {e \in Entries : ip[e] # NoAddr}
  /\ cap \in [Entries -> Type]
  /\ visible \in [Entries -> {"no", "dir", "root"}]
CountTypes ==
  /\ number \in [Entries -> [CPU -> [TypeIdx -> Nat]]]
  /\ counted \in [Entries -> [TypeIdx -> Nat]]
  /\ pkts \in [CPU -> 0 .. MaxPkts]
PastTypes ==
  /\ bad \subseteq {"add", "remove", "get", "vmalloc", "count", "show", "proc", "exit"}
  /\ hist \subseteq {"early", "long", "twice", "deaf", "failed", "type"}

LEMMA TypeParts ==
  TypeOK <=> /\ FlagTypes /\ call \in [Caller -> Calls] /\ hook \in [CPU -> Hooks]
             /\ EntryTypes /\ CountTypes /\ PastTypes
BY DEF TypeOK, FlagTypes, Calls, Hooks, EntryTypes, CountTypes, PastTypes

LEMMA Numbers ==
  /\ NCpu \in Nat /\ NCpu > 0 /\ CPU = 0 .. NCpu - 1 /\ 0 \in CPU /\ MaxPkts \in Nat
  /\ TypeIdx \subseteq Type /\ Nums \subseteq Type /\ Type = 0 .. 255
  /\ Range(Stored) = {Stored[a] : a \in Addr} /\ NoAddr \notin Range(Stored) /\ NoAddr \notin Addr
  /\ NoEntry \notin Entries
BY CounterAssumption DEF CPU, Type, Range

LEMMA Idles ==
  /\ Idle \in Calls /\ NoHook \in Hooks
  /\ Idle.pc = "user" /\ Idle.e = NoEntry /\ NoHook.pc = "out" /\ NoHook.e = NoEntry
BY Numbers DEF Idle, NoHook, Calls, Hooks

LEMMA Zeros ==
  /\ Zero \in [CPU -> [TypeIdx -> Nat]] /\ Zero[0] \in [TypeIdx -> Nat]
  /\ \A c \in CPU, j \in TypeIdx : Zero[c][j] = 0
  /\ \A j \in TypeIdx : Zero[0][j] = 0
BY Numbers DEF Zero

\* What is noted of misuse and of the past.
LEMMA PastType ==
  ASSUME PastTypes, NEW who \in {"add", "remove", "get", "vmalloc", "count", "show", "proc", "exit"},
         NEW wrong
  PROVE  /\ Misuse(who, wrong) => bad' \subseteq {"add", "remove", "get", "vmalloc", "count", "show", "proc", "exit"}
         /\ bad \cup {who} \subseteq {"add", "remove", "get", "vmalloc", "count", "show", "proc", "exit"}
BY DEF PastTypes, Misuse

LEMMA NoteType ==
  ASSUME PastTypes, NEW what \in {"early", "long", "twice", "deaf", "failed", "type"}, NEW when, Note(what, when)
  PROVE  hist' \subseteq {"early", "long", "twice", "deaf", "failed", "type"}
BY DEF PastTypes, Note

\* A thread goes on, and no other.
LEMMA CallMoves ==
  ASSUME call \in [Caller -> Calls], NEW t \in Caller, NEW g \in Calls, call' = [call EXCEPT ![t] = g]
  PROVE  call' \in [Caller -> Calls] /\ call'[t] = g /\ \A u \in Caller \ {t} : call'[u] = call[u]
OBVIOUS

LEMMA ReturnMoves ==
  ASSUME call \in [Caller -> Calls], NEW t \in Caller, Return(t)
  PROVE  call' \in [Caller -> Calls] /\ call'[t] = Idle /\ \A u \in Caller \ {t} : call'[u] = call[u]
BY CallMoves, Idles DEF Return

\* ... on to another step, with an entry.
LEMMA StepMoves ==
  ASSUME call \in [Caller -> Calls], NEW t \in Caller,
         NEW p \in {"user", "init", "insert", "delete", "sum", "sent"}, call' = [call EXCEPT ![t].pc = p]
  PROVE  /\ call' \in [Caller -> Calls] /\ \A u \in Caller \ {t} : call'[u] = call[u]
         /\ call'[t] = [call[t] EXCEPT !.pc = p]
         /\ call'[t].pc = p /\ call'[t].e = call[t].e /\ call'[t].ip = call[t].ip
BY DEF Calls

LEMMA EntryMoves ==
  ASSUME call \in [Caller -> Calls], NEW t \in Caller, NEW e \in Entries,
         NEW p \in {"user", "init", "insert", "delete", "sum", "sent"},
         call' = [call EXCEPT ![t].pc = p, ![t].e = e]
  PROVE  /\ call' \in [Caller -> Calls] /\ \A u \in Caller \ {t} : call'[u] = call[u]
         /\ call'[t].pc = p /\ call'[t].e = e
<1>1. PICK g : g = [call[t] EXCEPT !.pc = p, !.e = e]
  OBVIOUS
<1>2. call[t] \in Calls
  OBVIOUS
<1>3. g \in Calls /\ g.pc = p /\ g.e = e
  BY <1>1, <1>2 DEF Calls
<1>4. call' = [call EXCEPT ![t] = g]
  BY <1>1
<1> QED
  BY <1>3, <1>4, CallMoves

LEMMA CreateMoves ==
  ASSUME call \in [Caller -> Calls], NEW t \in Caller, NEW e \in Entries, NEW a \in Addr,
         call' = [call EXCEPT ![t].pc = "insert", ![t].ip = a, ![t].e = e]
  PROVE  /\ call' \in [Caller -> Calls] /\ \A u \in Caller \ {t} : call'[u] = call[u]
         /\ call'[t].pc = "insert" /\ call'[t].e = e /\ call'[t].ip = a
<1>1. PICK g : g = [call[t] EXCEPT !.pc = "insert", !.ip = a, !.e = e]
  OBVIOUS
<1>2. call[t] \in Calls
  OBVIOUS
<1>3. g \in Calls
  BY <1>1, <1>2 DEF Calls
<1>4. g.pc = "insert" /\ g.e = e /\ g.ip = a
  BY <1>1, <1>2 DEF Calls
<1>5. call' = [call EXCEPT ![t] = g]
  BY <1>1
<1> QED
  BY <1>3, <1>4, <1>5, CallMoves

\* Only a lock's writer finds no reader.
LEMMA NobodyReads ==
  ASSUME NoReader
  PROVE  (\A t \in Caller : ~ Reads(t)) /\ \A c \in CPU : ~ Counts(c)
BY DEF NoReader, Reads, Counts

\* What a hook or a thread reads has a counter.
LEMMA CounterType ==
  ASSUME CountTypes, NEW e \in Entries, NEW c \in CPU, NEW j \in TypeIdx
  PROVE  number[e][c][j] \in Nat /\ counted[e][j] \in Nat
BY DEF CountTypes

LEMMA RowType ==
  ASSUME CountTypes, NEW e \in Entries, NEW j \in TypeIdx
  PROVE  [c \in CPU |-> number[e][c][j]] \in [CPU -> Nat]
BY CounterType

LEMMA TotalType ==
  ASSUME CountTypes, NEW e \in Entries, NEW j \in TypeIdx
  PROVE  UpTo(e, j) \in [0 .. NCpu -> Nat] /\ Total(e, j) \in Nat
<1>1. UpTo(e, j) \in [0 .. NCpu -> Nat]
  BY RowType, SumsProperties DEF UpTo
<1>2. NCpu \in 0 .. NCpu
  BY Numbers
<1> QED
  BY <1>1, <1>2 DEF Total

\* Freed entries have no address, no counters.
LEMMA FreeType ==
  ASSUME EntryTypes, CountTypes, NEW s, Free(s)
  PROVE  /\ live' \subseteq Entries
         /\ ip' \in [Entries -> Range(Stored) \cup {NoAddr}] /\ live' = {e \in Entries : ip'[e] # NoAddr}
         /\ cap' \in [Entries -> Type]
         /\ number' \in [Entries -> [CPU -> [TypeIdx -> Nat]]]
         /\ counted' \in [Entries -> [TypeIdx -> Nat]]
<1>1. live' = live \ s /\ ip' = [e \in Entries |-> IF e \in s THEN NoAddr ELSE ip[e]]
  BY DEF Free
<1>2. /\ live' \subseteq Entries /\ ip' \in [Entries -> Range(Stored) \cup {NoAddr}]
      /\ live' = {e \in Entries : ip'[e] # NoAddr}
  BY <1>1 DEF EntryTypes
<1>3. cap' \in [Entries -> Type]
  BY Numbers DEF Free, EntryTypes
<1>4. number' \in [Entries -> [CPU -> [TypeIdx -> Nat]]]
  BY Zeros DEF Free, CountTypes
<1>5. counted' \in [Entries -> [TypeIdx -> Nat]]
  BY Zeros DEF Free, CountTypes
<1> QED
  BY <1>2, <1>3, <1>4, <1>5

LEMMA UnseenType ==
  ASSUME EntryTypes, NEW s
  PROVE  Unseen(s) \in [Entries -> {"no", "dir", "root"}]
BY DEF EntryTypes, Unseen

LEMMA TypeInit == Init => TypeOK
<1> SUFFICES ASSUME Init  PROVE TypeOK
  OBVIOUS
<1>1. call \in [Caller -> Calls] /\ hook \in [CPU -> Hooks]
  BY Idles DEF Init
<1>2. FlagTypes
  <2>1. maxtype \in Type
    BY DEF Init, Type
  <2> QED
    BY <2>1 DEF Init, FlagTypes
<1>3. EntryTypes
  BY Numbers DEF Init, EntryTypes
<1>4. CountTypes
  BY Zeros, Numbers DEF Init, CountTypes
<1>5. PastTypes
  BY DEF Init, PastTypes
<1> QED
  BY <1>1, <1>2, <1>3, <1>4, <1>5, TypeParts

LEMMA TypePartsNext ==
  ASSUME FlagTypes', call' \in [Caller -> Calls], hook' \in [CPU -> Hooks],
         EntryTypes', CountTypes', PastTypes'
  PROVE  TypeOK'
BY DEF TypeOK, FlagTypes, Calls, Hooks, EntryTypes, CountTypes, PastTypes

\* A part that a step leaves alone.
LEMMA KeptParts ==
  /\ FlagTypes /\ UNCHANGED <<modvars, maxtype>> => FlagTypes'
  /\ call \in [Caller -> Calls] /\ UNCHANGED call => call' \in [Caller -> Calls]
  /\ hook \in [CPU -> Hooks] /\ UNCHANGED hook => hook' \in [CPU -> Hooks]
  /\ EntryTypes /\ UNCHANGED <<live, tree, ip, cap, visible>> => EntryTypes'
  /\ CountTypes /\ UNCHANGED <<number, counted, pkts>> => CountTypes'
  /\ PastTypes /\ UNCHANGED <<bad, hist>> => PastTypes'
<1>1. FlagTypes /\ UNCHANGED <<modvars, maxtype>> => FlagTypes'
  BY DEF FlagTypes
<1>2. call \in [Caller -> Calls] /\ UNCHANGED call => call' \in [Caller -> Calls]
  OBVIOUS
<1>3. hook \in [CPU -> Hooks] /\ UNCHANGED hook => hook' \in [CPU -> Hooks]
  OBVIOUS
<1>4. EntryTypes /\ UNCHANGED <<live, tree, ip, cap, visible>> => EntryTypes'
  BY DEF EntryTypes
<1>5. CountTypes /\ UNCHANGED <<number, counted, pkts>> => CountTypes'
  BY DEF CountTypes
<1>6. PastTypes /\ UNCHANGED <<bad, hist>> => PastTypes'
  BY DEF PastTypes
<1> QED
  BY <1>1, <1>2, <1>3, <1>4, <1>5, <1>6

\* The same of the parts a step may change.
LEMMA PastNext ==
  ASSUME bad' \subseteq {"add", "remove", "get", "vmalloc", "count", "show", "proc", "exit"},
         hist' \subseteq {"early", "long", "twice", "deaf", "failed", "type"}
  PROVE  PastTypes'
BY DEF PastTypes

\* The types through the ioctls that change addresses, ...
LEMMA TypeIoctl ==
  ASSUME Inv1, NEW t \in Caller,
         \/ CmdInit(t) \/ \E m \in Nums : nfsinit(t, m)
         \/ addipentry(t) \/ delete(t)
         \/ \E a \in Addr : create(t, a) \/ rmvipentry(t, a)
  PROVE  TypeOK'
<1>1. /\ FlagTypes /\ call \in [Caller -> Calls] /\ hook \in [CPU -> Hooks]
      /\ EntryTypes /\ CountTypes /\ PastTypes
  BY TypeParts DEF Inv1
<1>2. ASSUME CmdInit(t)  PROVE TypeOK'
  <2>1. call' \in [Caller -> Calls]
    BY <1>1, <1>2, StepMoves DEF CmdInit
  <2> QED
    BY <1>1, <1>2, <2>1, KeptParts, TypePartsNext DEF CmdInit
<1>3. ASSUME NEW m \in Nums, nfsinit(t, m)  PROVE TypeOK'
  <2>1. call' \in [Caller -> Calls]
    BY <1>1, <1>3, ReturnMoves DEF nfsinit, Return
  <2>2. maxtype' \in Type
    <3>1. maxtype \in Type /\ m \in Type
      BY <1>1, Numbers DEF FlagTypes
    <3>2. maxtype' = maxtype \/ maxtype' = m
      BY <1>3 DEF nfsinit
    <3> QED
      BY <3>1, <3>2
  <2>3. FlagTypes'
    BY <1>1, <1>3, <2>2 DEF nfsinit, FlagTypes
  <2>4. hist' \subseteq {"early", "long", "twice", "deaf", "failed", "type"}
    BY <1>1, <1>3, NoteType DEF nfsinit
  <2>5. bad' = bad
    BY <1>3 DEF nfsinit
  <2>6. PastTypes'
    BY <1>1, <2>4, <2>5 DEF PastTypes
  <2> QED
    BY <1>1, <1>3, <2>1, <2>3, <2>6, KeptParts, TypePartsNext DEF nfsinit
<1>4. ASSUME addipentry(t)  PROVE TypeOK'
  <2>1. call' \in [Caller -> Calls]
    BY <1>1, <1>4, ReturnMoves, StepMoves DEF addipentry
  <2>2. call[t].e \in Entries
    BY <1>4 DEF addipentry, Inv1, CallInv, Holds
  <2>3. EntryTypes'
    BY <1>1, <1>4, <2>2 DEF addipentry, EntryTypes
  <2>4. PastTypes'
    BY <1>1, <1>4, PastType DEF addipentry, PastTypes
  <2> QED
    BY <1>1, <1>4, <2>1, <2>3, <2>4, KeptParts, TypePartsNext DEF addipentry
<1>5. ASSUME delete(t)  PROVE TypeOK'
  <2>1. call' \in [Caller -> Calls]
    BY <1>1, <1>5, ReturnMoves DEF delete
  <2>2. /\ live' \subseteq Entries
        /\ ip' \in [Entries -> Range(Stored) \cup {NoAddr}] /\ live' = {e \in Entries : ip'[e] # NoAddr}
        /\ cap' \in [Entries -> Type]
        /\ number' \in [Entries -> [CPU -> [TypeIdx -> Nat]]]
        /\ counted' \in [Entries -> [TypeIdx -> Nat]]
    BY <1>1, <1>5, FreeType DEF delete
  <2>3. visible' \in [Entries -> {"no", "dir", "root"}]
    BY <1>1, <1>5, UnseenType DEF delete
  <2>4. tree' = tree /\ pkts' = pkts
    BY <1>5 DEF delete
  <2>5. EntryTypes'
    BY <1>1, <2>2, <2>3, <2>4 DEF EntryTypes
  <2>6. CountTypes'
    BY <1>1, <2>2, <2>4 DEF CountTypes
  <2> QED
    BY <1>1, <1>5, <2>1, <2>5, <2>6, KeptParts, TypePartsNext DEF delete
<1>6. ASSUME NEW a \in Addr, create(t, a)  PROVE TypeOK'
  <2>1. PICK e \in Fresh :
          /\ live' = live \cup {e}
          /\ cap' = [cap EXCEPT ![e] = maxtype]
          /\ ip' = [ip EXCEPT ![e] = Kept(a)]
          /\ visible' = [visible EXCEPT ![e] = IF dirs THEN "dir" ELSE "root"]
          /\ call' = [call EXCEPT ![t].pc = "insert", ![t].ip = a, ![t].e = e]
    BY <1>6 DEF create
  <2>2. e \in Entries /\ e \notin live
    BY DEF Fresh
  <2>3. call' \in [Caller -> Calls]
    BY <1>1, <2>1, <2>2, CreateMoves
  <2>4. Kept(a) \in Range(Stored) /\ Kept(a) # NoAddr
    BY Numbers DEF Kept
  <2>5. ip' \in [Entries -> Range(Stored) \cup {NoAddr}] /\ live' = {f \in Entries : ip'[f] # NoAddr}
    BY <1>1, <2>1, <2>2, <2>4 DEF EntryTypes
  <2>6. cap' \in [Entries -> Type]
    BY <1>1, <2>1, <2>2 DEF EntryTypes, FlagTypes
  <2>7. visible' \in [Entries -> {"no", "dir", "root"}]
    BY <1>1, <2>1, <2>2 DEF EntryTypes
  <2>8. tree' = tree
    BY <1>6 DEF create
  <2>9. EntryTypes'
    BY <1>1, <2>1, <2>2, <2>5, <2>6, <2>7, <2>8 DEF EntryTypes
  <2>10. PastTypes'
    <3>1. hist' \subseteq {"early", "long", "twice", "deaf", "failed", "type"}
      BY <1>1, <1>6 DEF create, PastTypes
    <3>2. bad' \subseteq {"add", "remove", "get", "vmalloc", "count", "show", "proc", "exit"}
      BY <1>1, <1>6, PastType DEF create
    <3> QED
      BY <3>1, <3>2, PastNext
  <2> QED
    BY <1>1, <1>6, <2>3, <2>9, <2>10, KeptParts, TypePartsNext DEF create
<1>7. ASSUME NEW a \in Addr, rmvipentry(t, a)  PROVE TypeOK'
  <2>1. PastTypes'
    BY <1>1, <1>7, PastType DEF rmvipentry, PastTypes
  <2>2. CASE Matches(a) = {}
    BY <1>1, <1>7, <2>1, <2>2, KeptParts, TypePartsNext DEF rmvipentry
  <2>3. CASE Matches(a) # {}
    <3>1. PICK e \in Matches(a) : tree' = tree \ {e} /\ call' = [call EXCEPT ![t].pc = "delete", ![t].e = e]
      BY <1>7, <2>3 DEF rmvipentry
    <3>2. e \in Entries
      BY <1>1 DEF Matches, EntryTypes
    <3>3. call' \in [Caller -> Calls]
      BY <1>1, <3>1, <3>2, EntryMoves
    <3>4. EntryTypes'
      BY <1>1, <1>7, <3>1 DEF rmvipentry, EntryTypes
    <3> QED
      BY <1>1, <1>7, <2>1, <3>3, <3>4, KeptParts, TypePartsNext DEF rmvipentry
  <2> QED
    BY <2>2, <2>3
<1> QED
  BY <1>2, <1>3, <1>4, <1>5, <1>6, <1>7

\* ... the ones that read counters, ...
LEMMA FindMoves ==
  ASSUME call \in [Caller -> Calls], NEW t \in Caller, call[t] = Idle,
         NEW e \in Entries, NEW i \in Type, NEW n \in Nat,
         call' = [call EXCEPT ![t].pc = "sum", ![t].e = e, ![t].i = i, ![t].low = n]
  PROVE  /\ call' \in [Caller -> Calls] /\ \A u \in Caller \ {t} : call'[u] = call[u]
         /\ call'[t].pc = "sum" /\ call'[t].e = e /\ call'[t].i = i
         /\ call'[t].cpu = 0 /\ call'[t].v = 0 /\ call'[t].low = n
<1>1. PICK g : g = [call[t] EXCEPT !.pc = "sum", !.e = e, !.i = i, !.low = n]
  OBVIOUS
<1>2. call[t] \in Calls
  OBVIOUS
<1>3. g \in Calls
  BY <1>1, <1>2 DEF Calls
<1>4. g.pc = "sum" /\ g.e = e /\ g.i = i /\ g.low = n
  BY <1>1, <1>2 DEF Calls
<1>5. g.cpu = 0 /\ g.v = 0
  BY <1>1, <1>2 DEF Calls, Idle
<1>6. call' = [call EXCEPT ![t] = g]
  BY <1>1
<1> QED
  BY <1>3, <1>4, <1>5, <1>6, CallMoves

LEMMA SumMoves ==
  ASSUME call \in [Caller -> Calls], NEW t \in Caller, NEW n \in Nat,
         NEW p \in {"sum", "sent"}, call[t].cpu < NCpu,
         call' = [call EXCEPT ![t] = [call[t] EXCEPT !.v = @ + n, !.cpu = @ + 1, !.pc = p]]
  PROVE  /\ call' \in [Caller -> Calls] /\ \A u \in Caller \ {t} : call'[u] = call[u]
         /\ call'[t].pc = p /\ call'[t].e = call[t].e /\ call'[t].i = call[t].i
         /\ call'[t].cpu = call[t].cpu + 1 /\ call'[t].v = call[t].v + n /\ call'[t].low = call[t].low
<1>1. PICK g : g = [call[t] EXCEPT !.v = @ + n, !.cpu = @ + 1, !.pc = p]
  OBVIOUS
<1>2. call[t] \in Calls
  OBVIOUS
<1>3. /\ call[t].v \in Nat /\ call[t].cpu \in 0 .. NCpu
      /\ call[t].v + n \in Nat /\ call[t].cpu + 1 \in 0 .. NCpu
  BY <1>2, Numbers DEF Calls
<1>4. g \in Calls
  BY <1>1, <1>2, <1>3 DEF Calls
<1>5. /\ g.pc = p /\ g.e = call[t].e /\ g.i = call[t].i
      /\ g.cpu = call[t].cpu + 1 /\ g.v = call[t].v + n /\ g.low = call[t].low
  BY <1>1, <1>2 DEF Calls
<1>6. call' = [call EXCEPT ![t] = g]
  BY <1>1
<1> QED
  BY <1>4, <1>5, <1>6, CallMoves

\* A sum goes on by one CPU's number.
LEMMA GetSumsIs ==
  ASSUME Inv1, NEW t \in Caller, GetSums(t)
  PROVE  /\ call[t].e \in tree /\ call[t].e \in Entries /\ call[t].i \in TypeIdx /\ call[t].cpu \in CPU
         /\ number[call[t].e][call[t].cpu][call[t].i] \in Nat
         /\ \E p \in {"sum", "sent"} :
              /\ p = (IF call[t].cpu < NCpu - 1 THEN "sum" ELSE "sent")
              /\ call' = [call EXCEPT ![t] = [call[t] EXCEPT
                    !.v = @ + number[call[t].e][call[t].cpu][call[t].i], !.cpu = @ + 1, !.pc = p]]
         /\ call[t].cpu < NCpu
<1>1. call \in [Caller -> Calls] /\ EntryTypes /\ CountTypes
  BY TypeParts DEF Inv1
<1>2. call[t].pc = "sum"
  BY DEF GetSums
<1>3. call[t].e \in tree /\ call[t].i \in TypeIdx /\ call[t].cpu < NCpu
  BY <1>2 DEF Inv1, CallInv, Reads
<1>4. call[t].e \in Entries
  BY <1>1, <1>3 DEF EntryTypes
<1>5. call[t].cpu \in CPU
  BY <1>1, <1>3, Numbers DEF Calls
<1>6. number[call[t].e][call[t].cpu][call[t].i] \in Nat
  BY <1>1, <1>3, <1>4, <1>5, CounterType
<1>7. PICK p \in {"sum", "sent"} : p = IF call[t].cpu < NCpu - 1 THEN "sum" ELSE "sent"
  OBVIOUS
<1>8. call' = [call EXCEPT ![t] = [call[t] EXCEPT
                    !.v = @ + number[call[t].e][call[t].cpu][call[t].i], !.cpu = @ + 1, !.pc = p]]
  BY <1>7 DEF GetSums, LastCpu
<1> QED
  BY <1>3, <1>4, <1>5, <1>6, <1>7, <1>8

LEMMA TypeGets ==
  ASSUME Inv1, NEW t \in Caller,
         \/ GetFails(t) \/ GetSums(t) \/ GetEnds(t)
         \/ \E a \in Addr, i \in TypeIdx : GetFinds(t, a, i)
  PROVE  TypeOK'
<1>1. /\ FlagTypes /\ call \in [Caller -> Calls] /\ hook \in [CPU -> Hooks]
      /\ EntryTypes /\ CountTypes /\ PastTypes
  BY TypeParts DEF Inv1
<1>2. ASSUME GetFails(t)  PROVE TypeOK'
  <2>1. hist' = hist
    BY <1>2 DEF GetFails
  <2>2. PastTypes'
    BY <1>1, <1>2, <2>1 DEF GetFails, PastTypes
  <2> QED
    BY <1>1, <1>2, <2>2, KeptParts, TypePartsNext DEF GetFails
<1>3. ASSUME GetSums(t)  PROVE TypeOK'
  <2>1. PICK n \in Nat, p \in {"sum", "sent"} :
          call' = [call EXCEPT ![t] = [call[t] EXCEPT !.v = @ + n, !.cpu = @ + 1, !.pc = p]]
    BY <1>3, GetSumsIs
  <2>2. call[t].cpu < NCpu
    BY <1>3, GetSumsIs
  <2>3. call' \in [Caller -> Calls]
    BY <1>1, <2>1, <2>2, SumMoves
  <2>4. PastTypes'
    <3>1. hist' = hist
      BY <1>3 DEF GetSums
    <3>2. bad' \subseteq {"add", "remove", "get", "vmalloc", "count", "show", "proc", "exit"}
      BY <1>1, <1>3, PastType DEF GetSums
    <3> QED
      BY <1>1, <3>1, <3>2 DEF PastTypes
  <2> QED
    BY <1>1, <1>3, <2>3, <2>4, KeptParts, TypePartsNext DEF GetSums
<1>4. ASSUME GetEnds(t)  PROVE TypeOK'
  <2>1. call' \in [Caller -> Calls]
    BY <1>1, <1>4, ReturnMoves DEF GetEnds
  <2> QED
    BY <1>1, <1>4, <2>1, KeptParts, TypePartsNext DEF GetEnds
<1>5. ASSUME NEW a \in Addr, NEW i \in TypeIdx, GetFinds(t, a, i)  PROVE TypeOK'
  <2>1. PICK e \in Matches(a) :
          /\ Misuse("get", Dangling \/ i >= cap[e])
          /\ call' = [call EXCEPT ![t].pc = "sum", ![t].e = e, ![t].i = i, ![t].low = Total(e, i)]
    BY <1>5 DEF GetFinds
  <2>2. e \in Entries
    BY <1>1 DEF Matches, EntryTypes
  <2>3. Total(e, i) \in Nat
    BY <1>1, <2>2, TotalType
  <2>4. PICK n \in Nat : n = Total(e, i)
    BY <2>3
  <2>5. i \in Type /\ call[t] = Idle
    BY <1>5, Numbers DEF GetFinds, Commands
  <2>6. call' \in [Caller -> Calls]
    BY <1>1, <2>1, <2>2, <2>4, <2>5, FindMoves
  <2>7. PastTypes'
    <3>1. hist' = hist
      BY <1>5 DEF GetFinds
    <3>2. bad' \subseteq {"add", "remove", "get", "vmalloc", "count", "show", "proc", "exit"}
      BY <1>1, <2>1, PastType
    <3> QED
      BY <1>1, <3>1, <3>2 DEF PastTypes
  <2> QED
    BY <1>1, <1>5, <2>6, <2>7, KeptParts, TypePartsNext DEF GetFinds
<1> QED
  BY <1>2, <1>3, <1>4, <1>5

\* ... the hooks, ...
LEMMA HookMoves ==
  ASSUME hook \in [CPU -> Hooks], NEW c \in CPU, NEW h \in Hooks, hook' = [hook EXCEPT ![c] = h]
  PROVE  hook' \in [CPU -> Hooks] /\ hook'[c] = h /\ \A d \in CPU \ {c} : hook'[d] = hook[d]
OBVIOUS

LEMMA WriteMoves ==
  ASSUME hook \in [CPU -> Hooks], NEW c \in CPU, NEW n \in Nat,
         hook' = [hook EXCEPT ![c].pc = "write", ![c].v = n]
  PROVE  /\ hook' \in [CPU -> Hooks] /\ \A d \in CPU \ {c} : hook'[d] = hook[d]
         /\ hook'[c].pc = "write" /\ hook'[c].v = n /\ hook'[c].e = hook[c].e /\ hook'[c].i = hook[c].i
BY DEF Hooks

\* A hook that counts has an entry and a counter.
LEMMA HookEntry ==
  ASSUME Inv1, NEW c \in CPU, Counts(c)
  PROVE  /\ hook[c].e \in tree /\ hook[c].e \in Entries /\ hook[c].i \in TypeIdx /\ hook[c].v \in Nat
         /\ number[hook[c].e][c][hook[c].i] \in Nat
<1>1. hook \in [CPU -> Hooks] /\ EntryTypes /\ CountTypes
  BY TypeParts DEF Inv1
<1>2. hook[c].e \in tree /\ hook[c].i \in TypeIdx
  BY DEF Inv1, CallInv
<1>3. hook[c].e \in Entries /\ hook[c].v \in Nat
  BY <1>1, <1>2 DEF EntryTypes, Hooks
<1>4. number[hook[c].e][c][hook[c].i] \in Nat
  BY <1>1, <1>2, <1>3, CounterType
<1> QED
  BY <1>2, <1>3, <1>4

\* The numbers and what was counted, when a hook has written.
LEMMA WriteCounts ==
  ASSUME CountTypes, NEW e \in Entries, NEW c \in CPU, NEW i \in TypeIdx, NEW n \in Nat,
         number' = [number EXCEPT ![e][c][i] = n], counted' = [counted EXCEPT ![e][i] = @ + 1]
  PROVE  /\ number' \in [Entries -> [CPU -> [TypeIdx -> Nat]]] /\ counted' \in [Entries -> [TypeIdx -> Nat]]
         /\ number'[e][c][i] = n /\ counted'[e][i] = counted[e][i] + 1
         /\ \A f \in Entries, d \in CPU, j \in TypeIdx :
              f # e \/ d # c \/ j # i => number'[f][d][j] = number[f][d][j]
         /\ \A f \in Entries, j \in TypeIdx : f # e \/ j # i => counted'[f][j] = counted[f][j]
<1>1. number' \in [Entries -> [CPU -> [TypeIdx -> Nat]]]
  BY DEF CountTypes
<1>2. counted[e] \in [TypeIdx -> Nat] /\ counted[e][i] + 1 \in Nat
  BY DEF CountTypes
<1>3. counted' \in [Entries -> [TypeIdx -> Nat]]
  BY <1>2 DEF CountTypes
<1>4. number'[e][c][i] = n
  BY DEF CountTypes
<1>5. counted'[e][i] = counted[e][i] + 1
  BY DEF CountTypes
<1>6. ASSUME NEW f \in Entries, NEW d \in CPU, NEW j \in TypeIdx, f # e \/ d # c \/ j # i
      PROVE  number'[f][d][j] = number[f][d][j]
  BY <1>6 DEF CountTypes
<1>7. ASSUME NEW f \in Entries, NEW j \in TypeIdx, f # e \/ j # i
      PROVE  counted'[f][j] = counted[f][j]
  BY <1>7 DEF CountTypes
<1> QED
  BY <1>1, <1>3, <1>4, <1>5, <1>6, <1>7

LEMMA TypeHook ==
  ASSUME Inv1, NEW c \in CPU,
         CountReads(c) \/ CountWrites(c) \/ \E a \in Addr, i \in TypeIdx : CountBegins(c, a, i)
  PROVE  TypeOK'
<1>1. /\ FlagTypes /\ call \in [Caller -> Calls] /\ hook \in [CPU -> Hooks]
      /\ EntryTypes /\ CountTypes /\ PastTypes
  BY TypeParts DEF Inv1
<1>2. ASSUME CountReads(c)  PROVE TypeOK'
  <2>1. Counts(c)
    BY <1>2 DEF CountReads, Counts
  <2>2. hook' = [hook EXCEPT ![c].pc = "write", ![c].v = number[hook[c].e][c][hook[c].i]]
    BY <1>2 DEF CountReads, VectorOf
  <2>3. hook' \in [CPU -> Hooks]
    BY <1>1, <2>1, <2>2, HookEntry, WriteMoves
  <2>4. PastTypes'
    <3>1. hist' = hist
      BY <1>2 DEF CountReads
    <3>2. bad' \subseteq {"add", "remove", "get", "vmalloc", "count", "show", "proc", "exit"}
      BY <1>1, <1>2, PastType DEF CountReads
    <3> QED
      BY <1>1, <3>1, <3>2 DEF PastTypes
  <2> QED
    BY <1>1, <1>2, <2>3, <2>4, KeptParts, TypePartsNext DEF CountReads
<1>3. ASSUME CountWrites(c)  PROVE TypeOK'
  <2>1. Counts(c)
    BY <1>3 DEF CountWrites, Counts
  <2>2. hook[c].e \in Entries /\ hook[c].i \in TypeIdx /\ hook[c].v + 1 \in Nat
    BY <2>1, HookEntry
  <2>3. PICK e \in Entries, i \in TypeIdx, n \in Nat : e = hook[c].e /\ i = hook[c].i /\ n = hook[c].v + 1
    BY <2>2
  <2>4. number' = [number EXCEPT ![e][c][i] = n] /\ counted' = [counted EXCEPT ![e][i] = @ + 1]
    BY <1>3, <2>3 DEF CountWrites, VectorOf
  <2>5. number' \in [Entries -> [CPU -> [TypeIdx -> Nat]]] /\ counted' \in [Entries -> [TypeIdx -> Nat]]
    BY <1>1, <2>4, WriteCounts
  <2>6. CountTypes'
    BY <1>1, <1>3, <2>5 DEF CountWrites, CountTypes
  <2>7. hook' \in [CPU -> Hooks]
    BY <1>1, <1>3, HookMoves, Idles DEF CountWrites
  <2>8. PastTypes'
    <3>1. hist' = hist
      BY <1>3 DEF CountWrites
    <3>2. bad' \subseteq {"add", "remove", "get", "vmalloc", "count", "show", "proc", "exit"}
      BY <1>1, <1>3, PastType DEF CountWrites
    <3> QED
      BY <1>1, <3>1, <3>2 DEF PastTypes
  <2> QED
    BY <1>1, <1>3, <2>6, <2>7, <2>8, KeptParts, TypePartsNext DEF CountWrites
<1>4. ASSUME NEW a \in Addr, NEW i \in TypeIdx, CountBegins(c, a, i)  PROVE TypeOK'
  <2>1. pkts' \in [CPU -> 0 .. MaxPkts]
    BY <1>1, <1>4, Numbers DEF CountBegins, CountTypes
  <2>2. CountTypes'
    BY <1>1, <1>4, <2>1 DEF CountBegins, CountTypes
  <2>3. CASE Matches(a) = {}
    <3>1. PastTypes'
      BY <1>1, <1>4, <2>3, PastType DEF CountBegins, PastTypes
    <3> QED
      BY <1>1, <1>4, <2>2, <2>3, <3>1, KeptParts, TypePartsNext DEF CountBegins
  <2>4. CASE Matches(a) # {}
    <3>1. PICK e \in Matches(a) :
            /\ hook' = [hook EXCEPT ![c] = [pc |-> "read", e |-> e, i |-> i, v |-> 0]]
            /\ Misuse("count", Dangling \/ i >= cap[e])
            /\ Note("type", i >= cap[e])
      BY <1>4, <2>4 DEF CountBegins
    <3>2. e \in Entries
      BY <1>1 DEF Matches, EntryTypes
    <3>3. [pc |-> "read", e |-> e, i |-> i, v |-> 0] \in Hooks
      BY <3>2, Numbers DEF Hooks
    <3>4. hook' \in [CPU -> Hooks]
      BY <1>1, <3>1, <3>3, HookMoves
    <3>5. hist' \subseteq {"early", "long", "twice", "deaf", "failed", "type"}
      BY <1>1, <3>1, NoteType
    <3>6. bad' \subseteq {"add", "remove", "get", "vmalloc", "count", "show", "proc", "exit"}
      BY <1>1, <3>1, PastType
    <3>7. PastTypes'
      BY <3>5, <3>6, PastNext
    <3> QED
      BY <1>1, <1>4, <2>2, <3>4, <3>7, KeptParts, TypePartsNext DEF CountBegins
  <2> QED
    BY <2>3, <2>4
<1> QED
  BY <1>2, <1>3, <1>4

\* ... and the module.
LEMMA ClearsType ==
  ASSUME EntryTypes, CountTypes, NEW left, left \subseteq tree, Clears(left)
  PROVE  EntryTypes' /\ CountTypes'
<1>1. /\ live' \subseteq Entries
      /\ ip' \in [Entries -> Range(Stored) \cup {NoAddr}] /\ live' = {e \in Entries : ip'[e] # NoAddr}
      /\ cap' \in [Entries -> Type]
      /\ number' \in [Entries -> [CPU -> [TypeIdx -> Nat]]]
      /\ counted' \in [Entries -> [TypeIdx -> Nat]]
  BY FreeType DEF Clears
<1>2. visible' \in [Entries -> {"no", "dir", "root"}]
  BY UnseenType DEF Clears
<1>3. tree' \subseteq Entries /\ pkts' = pkts
  BY DEF Clears, EntryTypes
<1>4. EntryTypes'
  BY <1>1, <1>2, <1>3 DEF EntryTypes
<1>5. CountTypes'
  BY <1>1, <1>3 DEF CountTypes
<1> QED
  BY <1>4, <1>5

LEMMA TypeModule ==
  ASSUME Inv1, Module
  PROVE  TypeOK'
<1>1. /\ FlagTypes /\ call \in [Caller -> Calls] /\ hook \in [CPU -> Hooks]
      /\ EntryTypes /\ CountTypes /\ PastTypes
  BY TypeParts DEF Inv1
<1>2. ASSUME nfs_hook_init  PROVE TypeOK'
  <2>1. FlagTypes'
    BY <1>1, <1>2 DEF nfs_hook_init, FlagTypes
  <2>2. PastTypes'
    BY <1>1, <1>2 DEF nfs_hook_init, PastTypes
  <2> QED
    BY <1>1, <1>2, <2>1, <2>2, KeptParts, TypePartsNext DEF nfs_hook_init
<1>3. ASSUME InitHooks  PROVE TypeOK'
  <2>1. FlagTypes'
    BY <1>1, <1>3 DEF InitHooks, FlagTypes
  <2>2. PastTypes'
    BY <1>1, <1>3 DEF InitHooks, PastTypes
  <2> QED
    BY <1>1, <1>3, <2>1, <2>2, KeptParts, TypePartsNext DEF InitHooks
<1>4. ASSUME InitDirs  PROVE TypeOK'
  <2>1. FlagTypes'
    BY <1>1, <1>4 DEF InitDirs, FlagTypes
  <2> QED
    BY <1>1, <1>4, <2>1, KeptParts, TypePartsNext DEF InitDirs
<1>5. ASSUME InitFails  PROVE TypeOK'
  <2>1. FlagTypes'
    BY <1>1, <1>5 DEF InitFails, CleanBegins, FlagTypes
  <2>2. PastTypes'
    BY <1>1, <1>5 DEF InitFails, CleanBegins, Misuse, PastTypes
  <2> QED
    BY <1>1, <1>5, <2>1, <2>2, KeptParts, TypePartsNext DEF InitFails, CleanBegins
<1>6. ASSUME nfs_hook_exit  PROVE TypeOK'
  <2>1. FlagTypes'
    BY <1>1, <1>6 DEF nfs_hook_exit, CleanBegins, FlagTypes
  <2>2. PastTypes'
    BY <1>1, <1>6 DEF nfs_hook_exit, CleanBegins, Misuse, PastTypes
  <2> QED
    BY <1>1, <1>6, <2>1, <2>2, KeptParts, TypePartsNext DEF nfs_hook_exit, CleanBegins
<1>7. ASSUME InitEnds  PROVE TypeOK'
  <2>1. FlagTypes'
    BY <1>1, <1>7 DEF InitEnds, Clears, FlagTypes
  <2>2. EntryTypes' /\ CountTypes'
    BY <1>1, <1>7, ClearsType DEF InitEnds
  <2>3. UNCHANGED <<call, hook, bad, hist>>
    BY <1>7 DEF InitEnds, Clears
  <2> QED
    BY <1>1, <2>1, <2>2, <2>3, KeptParts, TypePartsNext
<1>8. ASSUME ExitEnds  PROVE TypeOK'
  <2>0. maxtype' \in Type
    BY <1>8 DEF ExitEnds, Type
  <2>1. FlagTypes'
    BY <1>1, <1>8, <2>0 DEF ExitEnds, Clears, FlagTypes
  <2>2. EntryTypes' /\ CountTypes'
    BY <1>1, <1>8, ClearsType DEF ExitEnds
  <2>3. UNCHANGED <<call, hook, bad, hist>>
    BY <1>8 DEF ExitEnds, Clears
  <2> QED
    BY <1>1, <2>1, <2>2, <2>3, KeptParts, TypePartsNext
<1> QED
  BY <1>2, <1>3, <1>4, <1>5, <1>6, <1>7, <1>8 DEF Module

LEMMA TypeShow ==
  ASSUME Inv1, NEW e \in Entries, ip_counter_show(e)
  PROVE  TypeOK'
<1>1. /\ FlagTypes /\ call \in [Caller -> Calls] /\ hook \in [CPU -> Hooks]
      /\ EntryTypes /\ CountTypes /\ PastTypes
  BY TypeParts DEF Inv1
<1>2. PastTypes'
  BY <1>1 DEF ip_counter_show, PastTypes
<1> QED
  BY <1>1, <1>2, KeptParts, TypePartsNext DEF ip_counter_show

LEMMA TypeStep ==
  ASSUME Inv1, Next
  PROVE  TypeOK'
<1>1. ASSUME NEW t \in Caller, Ioctl(t)  PROVE TypeOK'
  BY <1>1, TypeIoctl, TypeGets DEF Ioctl
<1>2. ASSUME NEW c \in CPU,
             CountReads(c) \/ CountWrites(c) \/ \E a \in Addr, i \in TypeIdx : CountBegins(c, a, i)
      PROVE  TypeOK'
  BY <1>2, TypeHook
<1>3. ASSUME NEW e \in Entries, ip_counter_show(e)  PROVE TypeOK'
  BY <1>3, TypeShow
<1>4. ASSUME Module  PROVE TypeOK'
  BY <1>4, TypeModule
<1> QED
  BY <1>1, <1>2, <1>3, <1>4 DEF Next

\* What CallInv says of one thread, and of one hook.
ThreadOK(t) ==
  /\ Holds(t) => call[t].e \in Entries \ tree
  /\ call[t].pc = "insert" => call[t].ip \in Addr /\ ip[call[t].e] = Kept(call[t].ip)
  /\ Reads(t) => call[t].e \in tree /\ call[t].i \in TypeIdx
  /\ call[t].pc = "sum" => call[t].cpu < NCpu
  /\ call[t].pc = "sent" => call[t].cpu = NCpu
HookOK(c) == Counts(c) => hook[c].e \in tree /\ hook[c].i \in TypeIdx

LEMMA CallParts ==
  CallInv <=> /\ \A t \in Caller : ThreadOK(t)
              /\ \A t, u \in Caller : Holds(t) /\ Holds(u) /\ call[t].e = call[u].e => t = u
              /\ \A c \in CPU : HookOK(c)
BY DEF CallInv, ThreadOK, HookOK

LEMMA CallPartsNext ==
  ASSUME \A t \in Caller : ThreadOK(t)',
         \A t, u \in Caller : Holds(t)' /\ Holds(u)' /\ call'[t].e = call'[u].e => t = u,
         \A c \in CPU : HookOK(c)'
  PROVE  CallInv'
BY DEF CallInv, ThreadOK, HookOK

\* Others than the thread that moves, if what they hold stays out of the tree
\* and what they read stays in it.
LEMMA OthersStay ==
  ASSUME CallInv, NEW t \in Caller, \A u \in Caller \ {t} : call'[u] = call[u], hook' = hook,
         ThreadOK(t)',
         \A u \in Caller \ {t} : Holds(t)' /\ Holds(u) => call'[t].e # call[u].e,
         \A u \in Caller \ {t} : Holds(u) => call[u].e \notin tree' /\ ip'[call[u].e] = ip[call[u].e],
         \A u \in Caller \ {t} : Reads(u) => call[u].e \in tree',
         \A c \in CPU : Counts(c) => hook[c].e \in tree'
  PROVE  CallInv'
<1>1. /\ \A u \in Caller : ThreadOK(u)
      /\ \A u, w \in Caller : Holds(w) /\ Holds(u) /\ call[w].e = call[u].e => w = u
      /\ \A c \in CPU : HookOK(c)
  BY CallParts
<1>2. ASSUME NEW u \in Caller \ {t}  PROVE ThreadOK(u)'
  <2>1. ThreadOK(u)
    BY <1>1
  <2>2. call'[u] = call[u]
    BY <1>2
  <2> QED
    BY <2>1, <2>2 DEF ThreadOK, Holds, Reads
<1>3. \A u \in Caller : ThreadOK(u)'
  BY <1>2
<1>4. \A u \in Caller \ {t} : Holds(u)' <=> Holds(u)
  BY DEF Holds
<1>5. \A u, w \in Caller : Holds(w)' /\ Holds(u)' /\ call'[w].e = call'[u].e => w = u
  BY <1>1, <1>4
<1>6. \A c \in CPU : HookOK(c)'
  BY <1>1 DEF HookOK, Counts
<1> QED
  BY <1>3, <1>5, <1>6, CallPartsNext

\* The same if the tree and the addresses stay too.
LEMMA TreeStays ==
  ASSUME CallInv, NEW t \in Caller, \A u \in Caller \ {t} : call'[u] = call[u],
         UNCHANGED <<hook, tree, ip>>, ThreadOK(t)',
         \A u \in Caller \ {t} : Holds(t)' /\ Holds(u) => call'[t].e # call[u].e
  PROVE  CallInv'
<1>1. \A u \in Caller \ {t} : Holds(u) => call[u].e \notin tree' /\ ip'[call[u].e] = ip[call[u].e]
  BY DEF CallInv
<1>2. \A u \in Caller \ {t} : Reads(u) => call[u].e \in tree'
  BY DEF CallInv
<1>3. \A c \in CPU : Counts(c) => hook[c].e \in tree'
  BY DEF CallInv
<1>4. hook' = hook
  OBVIOUS
<1> QED
  BY <1>1, <1>2, <1>3, <1>4, OthersStay

\* A thread that is back in user space, or only in NFS_CMD_INIT, has no entry.
LEMMA NoEntryHeld ==
  ASSUME NEW t \in Caller, call'[t].pc \in {"user", "init"}
  PROVE  ThreadOK(t)' /\ ~ Holds(t)' /\ ~ Reads(t)'
BY DEF ThreadOK, Holds, Reads

LEMMA CallStays == CallInv /\ UNCHANGED <<call, hook, tree, ip>> => CallInv'
BY DEF CallInv, Holds, Reads, Counts

LEMMA CallIoctl ==
  ASSUME Inv1, NEW t \in Caller,
         \/ CmdInit(t) \/ \E m \in Nums : nfsinit(t, m)
         \/ addipentry(t) \/ delete(t)
         \/ \E a \in Addr : create(t, a) \/ rmvipentry(t, a)
  PROVE  CallInv'
<1>1. call \in [Caller -> Calls] /\ hook \in [CPU -> Hooks] /\ EntryTypes /\ CallInv
  BY TypeParts DEF Inv1
<1>2. ASSUME CmdInit(t)  PROVE CallInv'
  <2>1. (\A u \in Caller \ {t} : call'[u] = call[u]) /\ call'[t].pc = "init"
    BY <1>1, <1>2, StepMoves DEF CmdInit
  <2>2. UNCHANGED <<hook, tree, ip>>
    BY <1>2 DEF CmdInit
  <2> QED
    BY <1>1, <2>1, <2>2, NoEntryHeld, TreeStays
<1>3. ASSUME NEW m \in Nums, nfsinit(t, m)  PROVE CallInv'
  <2>1. (\A u \in Caller \ {t} : call'[u] = call[u]) /\ call'[t].pc = "user"
    BY <1>1, <1>3, ReturnMoves, Idles DEF nfsinit, Return
  <2>2. UNCHANGED <<hook, tree, ip>>
    BY <1>3 DEF nfsinit
  <2> QED
    BY <1>1, <2>1, <2>2, NoEntryHeld, TreeStays
<1>4. ASSUME addipentry(t)  PROVE CallInv'
  <2>1. /\ call[t].pc = "insert" /\ NoReader /\ hook' = hook /\ ip' = ip
        /\ Holds(t) /\ call[t].e \in Entries \ tree
    BY <1>1, <1>4 DEF addipentry, CallInv, Holds
  <2>2. (\A u \in Caller : ~ Reads(u)) /\ \A c \in CPU : ~ Counts(c)
    BY <2>1, NobodyReads
  <2>3. \A u \in Caller \ {t} : Holds(u) => call[u].e # call[t].e /\ call[u].e \notin tree
    BY <1>1, <2>1 DEF CallInv
  <2>4. CASE There(call[t].ip) = {}
    <3>1. tree' = tree \cup {call[t].e} /\ Return(t)
      BY <1>4, <2>4 DEF addipentry
    <3>2. (\A u \in Caller \ {t} : call'[u] = call[u]) /\ call'[t].pc = "user"
      BY <1>1, <3>1, ReturnMoves, Idles
    <3>3. ThreadOK(t)' /\ ~ Holds(t)'
      BY <3>2, NoEntryHeld
    <3>4. \A u \in Caller \ {t} : Holds(u) => call[u].e \notin tree' /\ ip'[call[u].e] = ip[call[u].e]
      BY <2>1, <2>3, <3>1
    <3> QED
      BY <1>1, <2>1, <2>2, <3>2, <3>3, <3>4, OthersStay
  <2>5. CASE There(call[t].ip) # {}
    <3>1. tree' = tree /\ call' = [call EXCEPT ![t].pc = "delete"]
      BY <1>4, <2>5 DEF addipentry
    <3>2. /\ \A u \in Caller \ {t} : call'[u] = call[u]
          /\ call'[t].pc = "delete" /\ call'[t].e = call[t].e
      BY <1>1, <3>1, StepMoves
    <3>3. ThreadOK(t)'
      BY <2>1, <3>1, <3>2 DEF ThreadOK, Reads
    <3>4. \A u \in Caller \ {t} : Holds(t)' /\ Holds(u) => call'[t].e # call[u].e
      BY <2>3, <3>2
    <3> QED
      BY <1>1, <2>1, <3>1, <3>2, <3>3, <3>4, TreeStays
  <2> QED
    BY <2>4, <2>5
<1>5. ASSUME delete(t)  PROVE CallInv'
  <2>1. call[t].pc = "delete" /\ hook' = hook /\ tree' = tree /\ Holds(t)
    BY <1>5 DEF delete, Holds
  <2>2. (\A u \in Caller \ {t} : call'[u] = call[u]) /\ call'[t].pc = "user"
    BY <1>1, <1>5, ReturnMoves, Idles DEF delete
  <2>3. ThreadOK(t)' /\ ~ Holds(t)'
    BY <2>2, NoEntryHeld
  <2>4. \A e \in Entries : e # call[t].e => ip'[e] = ip[e]
    BY <1>5 DEF delete, Free
  <2>5. \A u \in Caller \ {t} : Holds(u) => call[u].e # call[t].e /\ call[u].e \in Entries \ tree
    BY <1>1, <2>1 DEF CallInv
  <2>6. \A u \in Caller \ {t} : Holds(u) => call[u].e \notin tree' /\ ip'[call[u].e] = ip[call[u].e]
    BY <2>1, <2>4, <2>5
  <2>7. (\A u \in Caller : Reads(u) => call[u].e \in tree') /\ \A c \in CPU : Counts(c) => hook[c].e \in tree'
    BY <1>1, <2>1 DEF CallInv
  <2> QED
    BY <1>1, <2>1, <2>2, <2>3, <2>6, <2>7, OthersStay
<1>6. ASSUME NEW a \in Addr, create(t, a)  PROVE CallInv'
  <2>1. PICK e \in Fresh :
          /\ ip' = [ip EXCEPT ![e] = Kept(a)]
          /\ call' = [call EXCEPT ![t].pc = "insert", ![t].ip = a, ![t].e = e]
    BY <1>6 DEF create
  <2>2. e \in Entries /\ e \notin tree /\ (\A u \in Caller : call[u].e # e)
    BY DEF Fresh
  <2>3. /\ \A u \in Caller \ {t} : call'[u] = call[u]
        /\ call'[t].pc = "insert" /\ call'[t].e = e /\ call'[t].ip = a
    <3>1. /\ call' = [call EXCEPT ![t].pc = "insert", ![t].ip = a, ![t].e = e]
          /\ e \in Entries /\ call \in [Caller -> Calls]
      BY <1>1, <2>1, <2>2
    <3>2. \A u \in Caller \ {t} : call'[u] = call[u]
      BY <3>1, CreateMoves
    <3>3. call'[t].pc = "insert" /\ call'[t].e = e /\ call'[t].ip = a
      BY <3>1 DEF Calls
    <3> QED
      BY <3>2, <3>3
  <2>4. hook' = hook /\ tree' = tree
    BY <1>6 DEF create
  <2>5. ip'[e] = Kept(a) /\ \A f \in Entries : f # e => ip'[f] = ip[f]
    BY <1>1, <2>1, <2>2 DEF EntryTypes
  <2>6. ThreadOK(t)'
    BY <2>2, <2>3, <2>4, <2>5 DEF ThreadOK, Reads
  <2>7. \A u \in Caller \ {t} : Holds(u) => call[u].e \notin tree' /\ ip'[call[u].e] = ip[call[u].e]
    BY <1>1, <2>2, <2>4, <2>5 DEF CallInv
  <2>8. (\A u \in Caller : Reads(u) => call[u].e \in tree') /\ \A c \in CPU : Counts(c) => hook[c].e \in tree'
    BY <1>1, <2>4 DEF CallInv
  <2>9. \A u \in Caller \ {t} : Holds(t)' /\ Holds(u) => call'[t].e # call[u].e
    BY <2>2, <2>3
  <2> QED
    BY <1>1, <2>3, <2>4, <2>6, <2>7, <2>8, <2>9, OthersStay
<1>7. ASSUME NEW a \in Addr, rmvipentry(t, a)  PROVE CallInv'
  <2>1. NoReader /\ hook' = hook /\ ip' = ip
    BY <1>7 DEF rmvipentry
  <2>2. CASE Matches(a) = {}
    BY <1>1, <1>7, <2>1, <2>2, CallStays DEF rmvipentry
  <2>3. CASE Matches(a) # {}
    <3>1. PICK e \in Matches(a) : tree' = tree \ {e} /\ call' = [call EXCEPT ![t].pc = "delete", ![t].e = e]
      BY <1>7, <2>3 DEF rmvipentry
    <3>2. e \in Entries /\ e \in tree
      BY <1>1 DEF Matches, EntryTypes
    <3>3. (\A u \in Caller \ {t} : call'[u] = call[u]) /\ call'[t].pc = "delete" /\ call'[t].e = e
      BY <1>1, <3>1, <3>2, EntryMoves
    <3>4. (\A u \in Caller : ~ Reads(u)) /\ \A c \in CPU : ~ Counts(c)
      BY <2>1, NobodyReads
    <3>5. \A u \in Caller \ {t} : Holds(u) => call[u].e # e /\ call[u].e \notin tree'
      BY <1>1, <3>1, <3>2 DEF CallInv
    <3>6. ThreadOK(t)'
      BY <3>1, <3>2, <3>3 DEF ThreadOK, Reads
    <3>7. \A u \in Caller \ {t} : Holds(t)' /\ Holds(u) => call'[t].e # call[u].e
      BY <3>3, <3>5
    <3> QED
      BY <1>1, <2>1, <3>3, <3>4, <3>5, <3>6, <3>7, OthersStay
  <2> QED
    BY <2>2, <2>3
<1> QED
  BY <1>2, <1>3, <1>4, <1>5, <1>6, <1>7

LEMMA CallGets ==
  ASSUME Inv1, NEW t \in Caller,
         \/ GetFails(t) \/ GetSums(t) \/ GetEnds(t)
         \/ \E a \in Addr, i \in TypeIdx : GetFinds(t, a, i)
  PROVE  CallInv'
<1>1. call \in [Caller -> Calls] /\ EntryTypes /\ CountTypes /\ CallInv
  BY TypeParts DEF Inv1
<1>2. ASSUME GetFails(t)  PROVE CallInv'
  BY <1>1, <1>2, CallStays DEF GetFails
<1>3. ASSUME GetSums(t)  PROVE CallInv'
  <2>1. PICK n \in Nat, p \in {"sum", "sent"} :
          /\ p = (IF call[t].cpu < NCpu - 1 THEN "sum" ELSE "sent")
          /\ call' = [call EXCEPT ![t] = [call[t] EXCEPT !.v = @ + n, !.cpu = @ + 1, !.pc = p]]
    BY <1>3, GetSumsIs
  <2>2. call[t].e \in tree /\ call[t].i \in TypeIdx /\ call[t].cpu \in CPU /\ call[t].cpu < NCpu
    BY <1>3, GetSumsIs
  <2>3. /\ \A u \in Caller \ {t} : call'[u] = call[u]
        /\ call'[t].pc = p /\ call'[t].e = call[t].e /\ call'[t].i = call[t].i
        /\ call'[t].cpu = call[t].cpu + 1
    <3>1. PICK h : h = [call[t] EXCEPT !.v = @ + n, !.cpu = @ + 1, !.pc = p]
      OBVIOUS
    <3>2. call' = [call EXCEPT ![t] = h]
      BY <2>1, <3>1
    <3>3. call[t] \in Calls
      BY <1>1
    <3>4. h.pc = p /\ h.e = call[t].e /\ h.i = call[t].i /\ h.cpu = call[t].cpu + 1
      BY <3>1, <3>3 DEF Calls
    <3>5. call'[t] = h /\ \A u \in Caller \ {t} : call'[u] = call[u]
      BY <1>1, <3>2
    <3> QED
      BY <3>4, <3>5
  <2>4. UNCHANGED <<hook, tree, ip>>
    BY <1>3 DEF GetSums
  <2>5. (p = "sum" => call[t].cpu + 1 < NCpu) /\ (p = "sent" => call[t].cpu + 1 = NCpu)
    BY <2>1, <2>2, Numbers
  <2>6. ThreadOK(t)' /\ ~ Holds(t)'
    BY <2>2, <2>3, <2>4, <2>5 DEF ThreadOK, Holds, Reads
  <2> QED
    BY <1>1, <2>3, <2>4, <2>6, TreeStays
<1>4. ASSUME GetEnds(t)  PROVE CallInv'
  <2>1. (\A u \in Caller \ {t} : call'[u] = call[u]) /\ call'[t].pc = "user"
    BY <1>1, <1>4, ReturnMoves, Idles DEF GetEnds
  <2>2. UNCHANGED <<hook, tree, ip>>
    BY <1>4 DEF GetEnds
  <2> QED
    BY <1>1, <2>1, <2>2, NoEntryHeld, TreeStays
<1>5. ASSUME NEW a \in Addr, NEW i \in TypeIdx, GetFinds(t, a, i)  PROVE CallInv'
  <2>1. PICK e \in Matches(a) :
          call' = [call EXCEPT ![t].pc = "sum", ![t].e = e, ![t].i = i, ![t].low = Total(e, i)]
    BY <1>5 DEF GetFinds
  <2>2. e \in Entries /\ e \in tree
    BY <1>1 DEF Matches, EntryTypes
  <2>3. PICK n \in Nat : n = Total(e, i)
    BY <1>1, <2>2, TotalType
  <2>4. i \in Type /\ call[t] = Idle
    BY <1>5, Numbers DEF GetFinds, Commands
  <2>5. /\ \A u \in Caller \ {t} : call'[u] = call[u]
        /\ call'[t].pc = "sum" /\ call'[t].e = e /\ call'[t].i = i /\ call'[t].cpu = 0
    <3>1. /\ call' = [call EXCEPT ![t].pc = "sum", ![t].e = e, ![t].i = i, ![t].low = n]
          /\ e \in Entries /\ i \in Type /\ call[t] = Idle /\ call \in [Caller -> Calls]
      BY <1>1, <2>1, <2>2, <2>3, <2>4
    <3>2. \A u \in Caller \ {t} : call'[u] = call[u]
      BY <3>1, FindMoves
    <3>3. call'[t].pc = "sum" /\ call'[t].e = e /\ call'[t].i = i
      BY <3>1 DEF Calls
    <3>4. call'[t].cpu = 0
      BY <3>1 DEF Calls, Idle
    <3> QED
      BY <3>2, <3>3, <3>4
  <2>6. UNCHANGED <<hook, tree, ip>>
    BY <1>5 DEF GetFinds
  <2>7. 0 < NCpu
    BY Numbers
  <2>8. ThreadOK(t)' /\ ~ Holds(t)'
    BY <2>2, <2>5, <2>6, <2>7 DEF ThreadOK, Holds, Reads
  <2> QED
    BY <1>1, <2>5, <2>6, <2>8, TreeStays
<1> QED
  BY <1>2, <1>3, <1>4, <1>5

\* A hook that moves, alone.
LEMMA HookAlone ==
  ASSUME CallInv, NEW c \in CPU, UNCHANGED <<call, tree, ip>>,
         \A d \in CPU \ {c} : hook'[d] = hook[d], HookOK(c)'
  PROVE  CallInv'
<1>1. \A d \in CPU : HookOK(d)'
  <2>1. ASSUME NEW d \in CPU \ {c}  PROVE HookOK(d)'
    BY CallParts DEF HookOK, Counts
  <2> QED
    BY <2>1
<1>2. \A t \in Caller : ThreadOK(t)'
  BY CallParts DEF ThreadOK, Holds, Reads
<1>3. \A t, u \in Caller : Holds(t)' /\ Holds(u)' /\ call'[t].e = call'[u].e => t = u
  BY DEF CallInv, Holds
<1> QED
  BY <1>1, <1>2, <1>3, CallPartsNext

LEMMA CallHook ==
  ASSUME Inv1, NEW c \in CPU,
         CountReads(c) \/ CountWrites(c) \/ \E a \in Addr, i \in TypeIdx : CountBegins(c, a, i)
  PROVE  CallInv'
<1>1. hook \in [CPU -> Hooks] /\ EntryTypes /\ CallInv
  BY TypeParts DEF Inv1
<1>2. ASSUME CountReads(c)  PROVE CallInv'
  <2>1. Counts(c)
    BY <1>2 DEF CountReads, Counts
  <2>2. hook' = [hook EXCEPT ![c].pc = "write", ![c].v = number[hook[c].e][c][hook[c].i]]
    BY <1>2 DEF CountReads, VectorOf
  <2>3. /\ \A d \in CPU \ {c} : hook'[d] = hook[d]
        /\ hook'[c].e = hook[c].e /\ hook'[c].i = hook[c].i
    BY <1>1, <2>1, <2>2, HookEntry, WriteMoves
  <2>4. UNCHANGED <<call, tree, ip>>
    BY <1>2 DEF CountReads
  <2>5. HookOK(c)'
    BY <2>1, <2>3, <2>4, HookEntry DEF HookOK
  <2> QED
    BY <1>1, <2>3, <2>4, <2>5, HookAlone
<1>3. ASSUME CountWrites(c)  PROVE CallInv'
  <2>1. (\A d \in CPU \ {c} : hook'[d] = hook[d]) /\ hook'[c].pc = "out"
    BY <1>1, <1>3, HookMoves, Idles DEF CountWrites
  <2>2. UNCHANGED <<call, tree, ip>>
    BY <1>3 DEF CountWrites
  <2>3. HookOK(c)'
    BY <2>1 DEF HookOK, Counts
  <2> QED
    BY <1>1, <2>1, <2>2, <2>3, HookAlone
<1>4. ASSUME NEW a \in Addr, NEW i \in TypeIdx, CountBegins(c, a, i)  PROVE CallInv'
  <2>1. UNCHANGED <<call, tree, ip>>
    BY <1>4 DEF CountBegins
  <2>2. CASE Matches(a) = {}
    BY <1>1, <1>4, <2>1, <2>2, CallStays DEF CountBegins
  <2>3. CASE Matches(a) # {}
    <3>1. PICK e \in Matches(a) : hook' = [hook EXCEPT ![c] = [pc |-> "read", e |-> e, i |-> i, v |-> 0]]
      BY <1>4, <2>3 DEF CountBegins
    <3>2. e \in Entries /\ e \in tree
      BY <1>1 DEF Matches, EntryTypes
    <3>3. [pc |-> "read", e |-> e, i |-> i, v |-> 0] \in Hooks
      BY <3>2, Numbers DEF Hooks
    <3>4. (\A d \in CPU \ {c} : hook'[d] = hook[d]) /\ hook'[c].e = e /\ hook'[c].i = i
      BY <1>1, <3>1, <3>3, HookMoves
    <3>5. HookOK(c)'
      BY <2>1, <3>2, <3>4 DEF HookOK
    <3> QED
      BY <1>1, <2>1, <3>4, <3>5, HookAlone
  <2> QED
    BY <2>2, <2>3
<1> QED
  BY <1>2, <1>3, <1>4

\* The tree is cleared when nobody reads it; what a thread holds is not in it.
LEMMA CallClears ==
  ASSUME Inv1, NEW left, left \subseteq tree, Clears(left)
  PROVE  CallInv'
<1>1. EntryTypes /\ CallInv
  BY TypeParts DEF Inv1
<1>2. (\A t \in Caller : ~ Reads(t)) /\ (\A c \in CPU : ~ Counts(c)) /\ call' = call /\ hook' = hook
  BY NobodyReads DEF Clears
<1>3. tree' \subseteq tree /\ \A e \in Entries \ tree : ip'[e] = ip[e]
  BY DEF Clears, Free
<1>4. ASSUME NEW t \in Caller  PROVE ThreadOK(t)'
  BY <1>1, <1>2, <1>3, CallParts DEF ThreadOK, Holds, Reads
<1>5. \A c \in CPU : HookOK(c)'
  BY <1>2 DEF HookOK, Counts
<1>6. \A t, u \in Caller : Holds(t)' /\ Holds(u)' /\ call'[t].e = call'[u].e => t = u
  BY <1>1, <1>2 DEF CallInv, Holds
<1> QED
  BY <1>4, <1>5, <1>6, CallPartsNext

LEMMA CallModule ==
  ASSUME Inv1, Module
  PROVE  CallInv'
<1>1. CallInv
  BY DEF Inv1
<1>2. ASSUME nfs_hook_init \/ InitHooks \/ InitDirs \/ InitFails \/ nfs_hook_exit  PROVE CallInv'
  <2>1. UNCHANGED <<call, hook, tree, ip>>
    BY <1>2 DEF nfs_hook_init, InitHooks, InitDirs, InitFails, nfs_hook_exit
  <2> QED
    BY <1>1, <2>1, CallStays
<1>3. ASSUME InitEnds  PROVE CallInv'
  BY <1>3, CallClears DEF InitEnds
<1>4. ASSUME ExitEnds  PROVE CallInv'
  BY <1>4, CallClears DEF ExitEnds
<1> QED
  BY <1>2, <1>3, <1>4 DEF Module

LEMMA Inv1Init == Init => Inv1
<1> SUFFICES ASSUME Init  PROVE CallInv
  BY TypeInit DEF Inv1
<1>1. (\A t \in Caller : call[t] = Idle) /\ \A c \in CPU : hook[c] = NoHook
  BY DEF Init
<1> QED
  BY <1>1, Idles DEF CallInv, Holds, Reads, Counts

LEMMA Inv1Step ==
  ASSUME Inv1, [Next]_vars
  PROVE  Inv1'
<1>1. CASE Next
  <2>1. ASSUME NEW t \in Caller, Ioctl(t)  PROVE CallInv'
    BY <2>1, CallIoctl, CallGets DEF Ioctl
  <2>2. ASSUME NEW c \in CPU,
               CountReads(c) \/ CountWrites(c) \/ \E a \in Addr, i \in TypeIdx : CountBegins(c, a, i)
        PROVE  CallInv'
    BY <2>2, CallHook
  <2>3. ASSUME NEW e \in Entries, ip_counter_show(e)  PROVE CallInv'
    BY <2>3, CallStays DEF ip_counter_show, Inv1
  <2>4. CallInv'
    BY <1>1, <2>1, <2>2, <2>3, CallModule DEF Next
  <2> QED
    BY <1>1, <2>4, TypeStep DEF Inv1
<1>2. CASE UNCHANGED vars
  <2>1. CallInv'
    BY <1>2, CallStays DEF vars, Inv1
  <2>2. TypeOK'
    BY <1>2 DEF vars, Inv1, TypeOK
  <2> QED
    BY <2>1, <2>2 DEF Inv1
<1> QED
  BY <1>1, <1>2

\* Every variable has the values its C type and its use allow.
THEOREM TypeCorrect == Spec => []TypeOK
<1>1. Inv1 => TypeOK
  BY DEF Inv1
<1> QED
  BY <1>1, Inv1Init, Inv1Step, PTL DEF Spec

-----------------------------------------------------------------------------
(***************************************************************************)
(* What is counted, and what is read of it.                                *)
(***************************************************************************)
LEMMA SumsOfNothing ==
  ASSUME NEW f \in [CPU -> Nat], \A c \in CPU : f[c] = 0
  PROVE  Sums(f)[NCpu] = 0
<1>1. NCpu \in Nat /\ CPU = 0 .. NCpu - 1
  BY Numbers
<1>2. PICK s \in [0 .. NCpu -> Nat] : s = Sums(f)
  BY SumsProperties
<1>3. s[0] = 0 /\ \A m \in 1 .. NCpu : s[m] = s[m - 1] + f[m - 1]
  BY <1>2, SumsProperties
<1> DEFINE Wrong == {m \in Nat : m <= NCpu /\ s[m] # 0}
<1>4. ASSUME Wrong # {}  PROVE FALSE
  <2>1. PICK m \in Wrong : \A y \in Wrong : m <= y
    BY <1>4, LeastElement
  <2>2. m \in Nat /\ m <= NCpu /\ s[m] # 0 /\ m > 0
    BY <1>3, <2>1
  <2>3. PICK k \in CPU : m = k + 1 /\ k \notin Wrong
    BY <1>1, <2>1, <2>2, Predecessor
  <2>4. m \in 1 .. NCpu /\ m - 1 = k /\ s[k] = 0 /\ f[k] = 0
    BY <1>1, <2>2, <2>3
  <2>5. s[m] = s[k] + f[k]
    BY <1>3, <2>4
  <2> QED
    BY <2>2, <2>4, <2>5
<1>5. NCpu \notin Wrong
  BY <1>4
<1> QED
  BY <1>1, <1>2, <1>5

\* What the first CPUs add up to, on the way through them.
LEMMA UpToIs ==
  ASSUME CountTypes, NEW e \in Entries, NEW i \in TypeIdx
  PROVE  /\ UpTo(e, i)[0] = 0 /\ Total(e, i) = UpTo(e, i)[NCpu]
         /\ \A k \in CPU : UpTo(e, i)[k + 1] = UpTo(e, i)[k] + number[e][k][i]
<1>1. PICK f \in [CPU -> Nat] : f = [c \in CPU |-> number[e][c][i]]
  BY RowType
<1>2. PICK s \in [0 .. NCpu -> Nat] : s = UpTo(e, i) /\ s = Sums(f)
  BY <1>1, SumsProperties DEF UpTo
<1>3. s[0] = 0 /\ \A m \in 1 .. NCpu : s[m] = s[m - 1] + f[m - 1]
  BY <1>2, SumsProperties
<1>4. ASSUME NEW k \in CPU  PROVE s[k + 1] = s[k] + number[e][k][i]
  <2>0. k \in Nat /\ k < NCpu /\ NCpu \in Nat
    BY Numbers
  <2>1. k + 1 \in 1 .. NCpu /\ (k + 1) - 1 = k
    BY <2>0
  <2>2. s[k + 1] = s[k] + f[k]
    BY <1>3, <2>1
  <2> QED
    BY <1>1, <2>2
<1> QED
  BY <1>2, <1>3, <1>4 DEF Total

\* Counters that nobody touches, that are freed, that go up by one.
LEMMA SumsStay ==
  ASSUME NEW e, NEW i, number'[e] = number[e]
  PROVE  UpTo(e, i)' = UpTo(e, i) /\ Total(e, i)' = Total(e, i)
BY DEF UpTo, Total

LEMMA SumsReset ==
  ASSUME CountTypes', NEW e \in Entries, NEW i \in TypeIdx, number'[e] = Zero
  PROVE  Total(e, i)' = 0
<1>1. PICK f : f = [c \in CPU |-> number'[e][c][i]]
  OBVIOUS
<1>2. \A c \in CPU : f[c] = 0
  BY <1>1, Zeros
<1>3. f \in [CPU -> Nat]
  BY <1>1, <1>2
<1>4. Total(e, i)' = Sums(f)[NCpu]
  BY <1>1 DEF Total, UpTo
<1> QED
  BY <1>2, <1>3, <1>4, SumsOfNothing

LEMMA SumsCount ==
  ASSUME CountTypes, CountTypes', NEW e \in Entries, NEW c \in CPU, NEW i \in TypeIdx,
         number'[e][c][i] = number[e][c][i] + 1,
         \A d \in CPU : d # c => number'[e][d][i] = number[e][d][i]
  PROVE  /\ \A m \in 0 .. NCpu : UpTo(e, i)'[m] = UpTo(e, i)[m] + (IF c < m THEN 1 ELSE 0)
         /\ Total(e, i)' = Total(e, i) + 1
<1>1. PICK f \in [CPU -> Nat] : f = [d \in CPU |-> number[e][d][i]]
  BY RowType
<1>2. PICK g : g = [d \in CPU |-> number'[e][d][i]]
  OBVIOUS
<1>3. \A d \in CPU : g[d] \in Nat
  BY <1>2 DEF CountTypes
<1>4. g \in [CPU -> Nat]
  BY <1>2, <1>3
<1>5. g = [f EXCEPT ![c] = @ + 1]
  BY <1>1, <1>2
<1>6. \A m \in 0 .. NCpu : Sums(g)[m] = Sums(f)[m] + (IF c < m THEN 1 ELSE 0)
  BY <1>4, <1>5, SumsGrow
<1>7. UpTo(e, i) = Sums(f) /\ UpTo(e, i)' = Sums(g)
  BY <1>1, <1>2 DEF UpTo
<1>8. NCpu \in 0 .. NCpu /\ c < NCpu
  BY Numbers
<1>9. Total(e, i) = Sums(f)[NCpu] /\ Total(e, i)' = Sums(g)[NCpu]
  BY <1>7 DEF Total
<1>10. Sums(g)[NCpu] = Sums(f)[NCpu] + 1
  BY <1>6, <1>8
<1> QED
  BY <1>6, <1>7, <1>9, <1>10

\* The threads that do not read: the ones that are not the one that moves go on
\* as they were, and that one does not read either.
LEMMA IoctlAlone ==
  ASSUME Inv1, NEW t \in Caller,
         \/ CmdInit(t) \/ \E m \in Nums : nfsinit(t, m)
         \/ addipentry(t) \/ delete(t) \/ GetFails(t) \/ GetEnds(t)
         \/ \E a \in Addr : create(t, a) \/ rmvipentry(t, a)
  PROVE  (\A u \in Caller \ {t} : call'[u] = call[u]) /\ ~ Reads(t)'
<1>1. call \in [Caller -> Calls] /\ EntryTypes
  BY TypeParts DEF Inv1
<1>2. ASSUME CmdInit(t)  PROVE (\A u \in Caller \ {t} : call'[u] = call[u]) /\ ~ Reads(t)'
  BY <1>1, <1>2, StepMoves DEF CmdInit, Reads
<1>3. ASSUME Return(t)  PROVE (\A u \in Caller \ {t} : call'[u] = call[u]) /\ ~ Reads(t)'
  BY <1>1, <1>3, ReturnMoves, Idles DEF Reads
<1>4. ASSUME call' = call, Commands(t)  PROVE (\A u \in Caller \ {t} : call'[u] = call[u]) /\ ~ Reads(t)'
  BY <1>4, Idles DEF Reads, Commands
<1>5. ASSUME addipentry(t)  PROVE (\A u \in Caller \ {t} : call'[u] = call[u]) /\ ~ Reads(t)'
  <2>1. Return(t) \/ call' = [call EXCEPT ![t].pc = "delete"]
    BY <1>5 DEF addipentry
  <2> QED
    BY <1>1, <1>3, <2>1, StepMoves DEF Reads
<1>6. ASSUME NEW a \in Addr, create(t, a)
      PROVE  (\A u \in Caller \ {t} : call'[u] = call[u]) /\ ~ Reads(t)'
  <2>1. PICK e \in Fresh : call' = [call EXCEPT ![t].pc = "insert", ![t].ip = a, ![t].e = e]
    BY <1>6 DEF create
  <2>2. call'[t].pc = "insert"
    BY <1>1, <2>1 DEF Calls
  <2> QED
    BY <1>1, <2>1, <2>2 DEF Reads
<1>7. ASSUME NEW a \in Addr, rmvipentry(t, a)
      PROVE  (\A u \in Caller \ {t} : call'[u] = call[u]) /\ ~ Reads(t)'
  <2>1. CASE Matches(a) = {}
    BY <1>4, <1>7, <2>1 DEF rmvipentry
  <2>2. CASE Matches(a) # {}
    <3>1. PICK e \in Matches(a) : call' = [call EXCEPT ![t].pc = "delete", ![t].e = e]
      BY <1>7, <2>2 DEF rmvipentry
    <3>2. e \in Entries
      BY <1>1 DEF Matches, EntryTypes
    <3> QED
      BY <1>1, <3>1, <3>2, EntryMoves DEF Reads
  <2> QED
    BY <2>1, <2>2
<1>8. ASSUME GetFails(t)  PROVE (\A u \in Caller \ {t} : call'[u] = call[u]) /\ ~ Reads(t)'
  BY <1>4, <1>8 DEF GetFails
<1>9. ASSUME (\E m \in Nums : nfsinit(t, m)) \/ delete(t) \/ GetEnds(t)
      PROVE  (\A u \in Caller \ {t} : call'[u] = call[u]) /\ ~ Reads(t)'
  BY <1>3, <1>9 DEF nfsinit, delete, GetEnds, Return
<1> QED
  BY <1>2, <1>5, <1>6, <1>7, <1>8, <1>9

\* What NumberInv says of an entry's counter, and of a hook that has read one.
Even(e, i) == Total(e, i) = counted[e][i]
ReadRight(c) == hook[c].pc = "write" => hook[c].v = number[hook[c].e][c][hook[c].i]

LEMMA NumberParts ==
  NumberInv <=> (\A e \in Entries, i \in TypeIdx : Even(e, i)) /\ \A c \in CPU : ReadRight(c)
BY DEF NumberInv, Even, ReadRight

LEMMA NumberPartsNext ==
  ASSUME \A e \in Entries, i \in TypeIdx : Even(e, i)', \A c \in CPU : ReadRight(c)'
  PROVE  NumberInv'
BY DEF NumberInv, Even, ReadRight

LEMMA EvenStays ==
  ASSUME NumberInv, UNCHANGED <<number, counted>>, NEW e \in Entries, NEW i \in TypeIdx
  PROVE  Even(e, i)'
BY NumberParts, SumsStay DEF Even

LEMMA NumberStays == NumberInv /\ UNCHANGED <<number, counted, hook>> => NumberInv'
<1> SUFFICES ASSUME NumberInv, UNCHANGED <<number, counted, hook>>  PROVE NumberInv'
  OBVIOUS
<1>1. \A e \in Entries, i \in TypeIdx : Even(e, i)'
  BY EvenStays
<1>2. \A c \in CPU : ReadRight(c)'
  BY NumberParts DEF ReadRight
<1> QED
  BY <1>1, <1>2, NumberPartsNext

\* Entries are freed with their counters, and with what is known of them.
LEMMA NumberFree ==
  ASSUME Inv1, NumberInv, TypeOK', NEW s, Free(s), hook' = hook,
         \A c \in CPU : Counts(c) => hook[c].e \notin s
  PROVE  NumberInv'
<1>1. CountTypes /\ EntryTypes
  BY TypeParts DEF Inv1
<1>2. CountTypes'
  BY DEF TypeOK, CountTypes
<1>3. ASSUME NEW e \in Entries, NEW i \in TypeIdx  PROVE Even(e, i)'
  <2>1. CASE e \in s
    <3>1. number'[e] = Zero /\ counted'[e] = Zero[0]
      BY <2>1 DEF Free
    <3>2. Total(e, i)' = 0
      BY <1>2, <3>1, SumsReset
    <3>3. counted'[e][i] = 0
      BY <3>1, Zeros
    <3> QED
      BY <3>2, <3>3 DEF Even
  <2>2. CASE e \notin s
    <3>1. number'[e] = number[e] /\ counted'[e] = counted[e]
      BY <1>1, <2>2 DEF Free
    <3> QED
      BY <3>1, NumberParts, SumsStay DEF Even
  <2> QED
    BY <2>1, <2>2
<1>4. ASSUME NEW c \in CPU  PROVE ReadRight(c)'
  <2> SUFFICES ASSUME hook[c].pc = "write"  PROVE hook[c].v = number'[hook[c].e][c][hook[c].i]
    BY DEF ReadRight
  <2>1. Counts(c)
    BY DEF Counts
  <2>2. hook[c].e \in Entries \ s
    BY <2>1, HookEntry
  <2>3. number'[hook[c].e] = number[hook[c].e]
    BY <1>1, <2>2 DEF Free
  <2> QED
    BY <2>3, NumberParts DEF ReadRight
<1> QED
  BY <1>3, <1>4, NumberPartsNext

\* One packet more: in the vector of its CPU, and in what was counted.
LEMMA NumberCounts ==
  ASSUME Inv1, NumberInv, TypeOK', NEW c \in CPU, CountWrites(c)
  PROVE  /\ NumberInv'
         /\ \A e \in Entries, i \in TypeIdx :
              \/ UpTo(e, i)' = UpTo(e, i) /\ Total(e, i)' = Total(e, i)
              \/ /\ \A m \in 0 .. NCpu : UpTo(e, i)'[m] = UpTo(e, i)[m] + (IF c < m THEN 1 ELSE 0)
                 /\ Total(e, i)' = Total(e, i) + 1
<1>1. CountTypes /\ hook \in [CPU -> Hooks]
  BY TypeParts DEF Inv1
<1>2. CountTypes'
  BY DEF TypeOK, CountTypes
<1>3. Counts(c) /\ hook[c].pc = "write"
  BY DEF CountWrites, Counts
<1>4. PICK e \in Entries, i \in TypeIdx, n \in Nat : e = hook[c].e /\ i = hook[c].i /\ n = hook[c].v + 1
  <2>1. hook[c].e \in Entries /\ hook[c].i \in TypeIdx /\ hook[c].v + 1 \in Nat
    BY <1>3, HookEntry
  <2> QED
    BY <2>1
<1>5. number' = [number EXCEPT ![e][c][i] = n] /\ counted' = [counted EXCEPT ![e][i] = @ + 1]
  BY <1>4 DEF CountWrites, VectorOf
<1>6. /\ number'[e][c][i] = n /\ counted'[e][i] = counted[e][i] + 1
      /\ \A f \in Entries, d \in CPU, j \in TypeIdx :
           f # e \/ d # c \/ j # i => number'[f][d][j] = number[f][d][j]
      /\ \A f \in Entries, j \in TypeIdx : f # e \/ j # i => counted'[f][j] = counted[f][j]
  <2>1. /\ CountTypes
        /\ number' = [number EXCEPT ![e][c][i] = n] /\ counted' = [counted EXCEPT ![e][i] = @ + 1]
    BY <1>1, <1>5
  <2>2. number'[e][c][i] = n
    BY <2>1 DEF CountTypes
  <2>5. counted'[e][i] = counted[e][i] + 1
    BY <2>1 DEF CountTypes
  <2>3. \A f \in Entries, d \in CPU, j \in TypeIdx :
           f # e \/ d # c \/ j # i => number'[f][d][j] = number[f][d][j]
    BY <2>1, WriteCounts
  <2>4. \A f \in Entries, j \in TypeIdx : f # e \/ j # i => counted'[f][j] = counted[f][j]
    BY <2>1, WriteCounts
  <2> QED
    BY <2>2, <2>3, <2>4, <2>5
<1>7. n = number[e][c][i] + 1
  BY <1>3, <1>4, NumberParts DEF ReadRight
<1>8. /\ \A m \in 0 .. NCpu : UpTo(e, i)'[m] = UpTo(e, i)[m] + (IF c < m THEN 1 ELSE 0)
      /\ Total(e, i)' = Total(e, i) + 1
  BY <1>1, <1>2, <1>6, <1>7, SumsCount
<1>9. ASSUME NEW f \in Entries, NEW j \in TypeIdx, f # e \/ j # i
      PROVE  UpTo(f, j)' = UpTo(f, j) /\ Total(f, j)' = Total(f, j)
  <2>1. \A d \in CPU : number'[f][d][j] = number[f][d][j]
    BY <1>6, <1>9
  <2>2. [d \in CPU |-> number'[f][d][j]] = [d \in CPU |-> number[f][d][j]]
    BY <2>1
  <2> QED
    BY <2>2 DEF UpTo, Total
<1>10. ASSUME NEW f \in Entries, NEW j \in TypeIdx  PROVE Even(f, j)'
  <2>1. Even(f, j)
    BY NumberParts
  <2>2. CASE f = e /\ j = i
    BY <1>6, <1>8, <2>1, <2>2 DEF Even
  <2>3. CASE f # e \/ j # i
    BY <1>6, <1>9, <2>1, <2>3 DEF Even
  <2> QED
    BY <2>2, <2>3
<1>11. ASSUME NEW d \in CPU  PROVE ReadRight(d)'
  <2>1. hook' = [hook EXCEPT ![c] = NoHook]
    BY DEF CountWrites
  <2>2. CASE d = c
    BY <1>1, <2>1, <2>2, HookMoves, Idles DEF ReadRight
  <2>3. CASE d # c
    <3>1. hook'[d] = hook[d]
      BY <1>1, <2>1, <2>3
    <3> SUFFICES ASSUME hook[d].pc = "write"  PROVE hook[d].v = number'[hook[d].e][d][hook[d].i]
      BY <3>1 DEF ReadRight
    <3>2. Counts(d)
      BY DEF Counts
    <3>3. hook[d].e \in Entries /\ hook[d].i \in TypeIdx
      BY <3>2, HookEntry
    <3>4. number'[hook[d].e][d][hook[d].i] = number[hook[d].e][d][hook[d].i]
      BY <1>6, <2>3, <3>3
    <3> QED
      BY <3>4, NumberParts DEF ReadRight
  <2> QED
    BY <2>2, <2>3
<1>12. NumberInv'
  BY <1>10, <1>11, NumberPartsNext
<1>13. ASSUME NEW f \in Entries, NEW j \in TypeIdx
       PROVE  \/ UpTo(f, j)' = UpTo(f, j) /\ Total(f, j)' = Total(f, j)
              \/ /\ \A m \in 0 .. NCpu : UpTo(f, j)'[m] = UpTo(f, j)[m] + (IF c < m THEN 1 ELSE 0)
                 /\ Total(f, j)' = Total(f, j) + 1
  <2>1. CASE f = e /\ j = i
    BY <1>8, <2>1
  <2>2. CASE f # e \/ j # i
    BY <1>9, <2>2
  <2> QED
    BY <2>1, <2>2
<1> QED
  BY <1>12, <1>13

LEMMA NumberStep ==
  ASSUME Inv1, NumberInv, TypeOK', Next
  PROVE  NumberInv'
<1>1. hook \in [CPU -> Hooks] /\ CallInv
  BY TypeParts DEF Inv1
<1>2. ASSUME UNCHANGED <<number, counted, hook>>  PROVE NumberInv'
  BY <1>2, NumberStays
<1>3. ASSUME NEW t \in Caller, Ioctl(t)  PROVE NumberInv'
  <2>1. CASE delete(t)
    <3>1. Free({call[t].e}) /\ hook' = hook /\ Holds(t)
      BY <2>1 DEF delete, Holds
    <3>2. \A c \in CPU : Counts(c) => hook[c].e \notin {call[t].e}
      BY <1>1, <3>1 DEF CallInv
    <3> QED
      BY <3>1, <3>2, NumberFree
  <2>2. CASE ~ delete(t)
    <3>1. UNCHANGED <<number, counted, hook>>
      BY <1>3, <2>2 DEF Ioctl, CmdInit, nfsinit, addipentry, create, rmvipentry, GetFinds, GetFails, GetSums, GetEnds
    <3> QED
      BY <1>2, <3>1
  <2> QED
    BY <2>1, <2>2
<1>4. ASSUME NEW c \in CPU, CountReads(c)  PROVE NumberInv'
  <2>1. Counts(c)
    BY <1>4 DEF CountReads, Counts
  <2>2. hook' = [hook EXCEPT ![c].pc = "write", ![c].v = number[hook[c].e][c][hook[c].i]]
    BY <1>4 DEF CountReads, VectorOf
  <2>3. PICK n \in Nat : n = number[hook[c].e][c][hook[c].i]
    BY <2>1, HookEntry
  <2>4. /\ \A d \in CPU \ {c} : hook'[d] = hook[d]
        /\ hook'[c].v = n /\ hook'[c].e = hook[c].e /\ hook'[c].i = hook[c].i
    BY <1>1, <2>2, <2>3, WriteMoves
  <2>5. UNCHANGED <<number, counted>>
    BY <1>4 DEF CountReads
  <2>6. \A d \in CPU : ReadRight(d)'
    BY <2>3, <2>4, <2>5, NumberParts DEF ReadRight
  <2> QED
    BY <2>5, <2>6, EvenStays, NumberPartsNext
<1>5. ASSUME NEW c \in CPU, CountWrites(c)  PROVE NumberInv'
  BY <1>5, NumberCounts
<1>6. ASSUME NEW c \in CPU, NEW a \in Addr, NEW i \in TypeIdx, CountBegins(c, a, i)  PROVE NumberInv'
  <2>1. UNCHANGED <<number, counted>>
    BY <1>6 DEF CountBegins
  <2>2. hook' = hook \/ \E e \in Matches(a) : hook' = [hook EXCEPT ![c] = [pc |-> "read", e |-> e, i |-> i, v |-> 0]]
    BY <1>6 DEF CountBegins
  <2>3. CASE hook' = hook
    BY <1>2, <2>1, <2>3
  <2>4. ASSUME NEW e \in Matches(a), hook' = [hook EXCEPT ![c] = [pc |-> "read", e |-> e, i |-> i, v |-> 0]]
        PROVE  NumberInv'
    <3>1. (\A d \in CPU \ {c} : hook'[d] = hook[d]) /\ hook'[c].pc = "read"
      BY <1>1, <2>4
    <3>2. \A d \in CPU : ReadRight(d)'
      BY <2>1, <3>1, NumberParts DEF ReadRight
    <3> QED
      BY <2>1, <3>2, EvenStays, NumberPartsNext
  <2> QED
    BY <2>2, <2>3, <2>4
<1>7. ASSUME NEW e \in Entries, ip_counter_show(e)  PROVE NumberInv'
  BY <1>2, <1>7 DEF ip_counter_show
<1>8. ASSUME Module  PROVE NumberInv'
  <2>1. CASE nfs_hook_init \/ InitHooks \/ InitDirs \/ InitFails \/ nfs_hook_exit
    BY <1>2, <2>1 DEF nfs_hook_init, InitHooks, InitDirs, InitFails, nfs_hook_exit
  <2>2. ASSUME NEW left, Clears(left)  PROVE NumberInv'
    <3>1. Free(tree) /\ hook' = hook /\ \A c \in CPU : ~ Counts(c)
      BY <2>2, NobodyReads DEF Clears
    <3> QED
      BY <3>1, NumberFree
  <2> QED
    BY <1>8, <2>1, <2>2 DEF Module, InitEnds, ExitEnds
<1> QED
  BY <1>3, <1>4, <1>5, <1>6, <1>7, <1>8 DEF Next

\* What SumInv says of a thread that is at record g.
SumOf(g) ==
  /\ g.v <= UpTo(g.e, g.i)[g.cpu]
  /\ g.low <= g.v + (Total(g.e, g.i) - UpTo(g.e, g.i)[g.cpu])

LEMMA SumParts == SumInv <=> \A t \in Caller : Reads(t) => SumOf(call[t])
BY DEF SumInv, SumOf

LEMMA SumPartsNext ==
  ASSUME \A t \in Caller : Reads(t)' => SumOf(call[t])'
  PROVE  SumInv'
BY DEF SumInv, SumOf

\* The counters a thread reads are those of an entry in the tree.
LEMMA ReaderEntry ==
  ASSUME Inv1, NEW t \in Caller, Reads(t)
  PROVE  /\ call[t] \in Calls /\ call[t].e \in tree /\ call[t].e \in Entries /\ call[t].i \in TypeIdx
         /\ UpTo(call[t].e, call[t].i) \in [0 .. NCpu -> Nat] /\ Total(call[t].e, call[t].i) \in Nat
<1>1. call \in [Caller -> Calls] /\ EntryTypes /\ CountTypes
  BY TypeParts DEF Inv1
<1>2. call[t].e \in tree /\ call[t].i \in TypeIdx
  BY DEF Inv1, CallInv
<1>3. call[t].e \in Entries
  BY <1>1, <1>2 DEF EntryTypes
<1> QED
  BY <1>1, <1>2, <1>3, TotalType

\* A reader keeps what it has, if its entry's counters stay.
LEMMA ReaderStays ==
  ASSUME SumInv, NEW t \in Caller, call'[t] = call[t], number'[call[t].e] = number[call[t].e], Reads(t)'
  PROVE  SumOf(call[t])'
<1>1. PICK g : g = call[t]
  OBVIOUS
<1>2. Reads(t)
  BY DEF Reads
<1>3. SumOf(g)
  BY <1>1, <1>2, SumParts
<1>4. UpTo(g.e, g.i)' = UpTo(g.e, g.i) /\ Total(g.e, g.i)' = Total(g.e, g.i)
  BY <1>1, SumsStay
<1> QED
  BY <1>1, <1>3, <1>4 DEF SumOf

LEMMA SumStays == SumInv /\ UNCHANGED <<call, number>> => SumInv'
<1> SUFFICES ASSUME SumInv, UNCHANGED <<call, number>>  PROVE SumInv'
  OBVIOUS
<1> QED
  BY ReaderStays, SumPartsNext

\* One thread moves, and does not read now.
LEMMA SumAlone ==
  ASSUME SumInv, NEW t \in Caller, \A u \in Caller \ {t} : call'[u] = call[u], ~ Reads(t)',
         \A u \in Caller \ {t} : Reads(u) => number'[call[u].e] = number[call[u].e]
  PROVE  SumInv'
<1>1. ASSUME NEW u \in Caller, Reads(u)'  PROVE SumOf(call[u])'
  <2>1. u # t /\ call'[u] = call[u]
    BY <1>1
  <2>2. Reads(u)
    BY <1>1, <2>1 DEF Reads
  <2> QED
    BY <1>1, <2>1, <2>2, ReaderStays
<1> QED
  BY <1>1, SumPartsNext

\* A reader adds the number of the next CPU.
LEMMA SumGoesOn ==
  ASSUME Inv1, SumInv, NEW t \in Caller, GetSums(t)
  PROVE  SumInv'
<1>1. call \in [Caller -> Calls] /\ CountTypes
  BY TypeParts DEF Inv1
<1>2. number' = number /\ Reads(t)
  BY DEF GetSums, Reads
<1>3. PICK g \in Calls : g = call[t]
  BY <1>1
<1>4. g.e \in Entries /\ g.i \in TypeIdx /\ g.cpu \in CPU /\ g.cpu < NCpu
  BY <1>3, GetSumsIs
<1>5. PICK n \in Nat : n = number[g.e][g.cpu][g.i]
  BY <1>3, GetSumsIs
<1>6. PICK p \in {"sum", "sent"} :
        call' = [call EXCEPT ![t] = [call[t] EXCEPT !.v = @ + n, !.cpu = @ + 1, !.pc = p]]
  BY <1>3, <1>5, GetSumsIs
<1>7. /\ \A u \in Caller \ {t} : call'[u] = call[u]
      /\ call'[t].e = g.e /\ call'[t].i = g.i /\ call'[t].cpu = g.cpu + 1
      /\ call'[t].v = g.v + n /\ call'[t].low = g.low
  <2>1. PICK h : h = [g EXCEPT !.v = @ + n, !.cpu = @ + 1, !.pc = p]
    OBVIOUS
  <2>2. call' = [call EXCEPT ![t] = h]
    BY <1>3, <1>6, <2>1
  <2>3. h.e = g.e /\ h.i = g.i /\ h.cpu = g.cpu + 1 /\ h.v = g.v + n /\ h.low = g.low
    BY <2>1 DEF Calls
  <2>4. call'[t] = h /\ \A u \in Caller \ {t} : call'[u] = call[u]
    BY <1>1, <2>2
  <2> QED
    BY <2>3, <2>4
<1>8. PICK s \in [0 .. NCpu -> Nat] : s = UpTo(g.e, g.i)
  BY <1>1, <1>4, TotalType
<1>9. PICK m \in Nat : m = Total(g.e, g.i)
  BY <1>1, <1>4, TotalType
<1>10. s[g.cpu + 1] = s[g.cpu] + n
  BY <1>1, <1>4, <1>5, <1>8, UpToIs
<1>11. g.v <= s[g.cpu] /\ g.low <= g.v + (m - s[g.cpu])
  BY <1>2, <1>3, <1>8, <1>9, SumParts DEF SumOf
<1>12. g.v \in Nat /\ g.low \in Nat /\ s[g.cpu] \in Nat /\ s[g.cpu + 1] \in Nat
  <2>1. g.cpu \in 0 .. NCpu /\ g.cpu + 1 \in 0 .. NCpu
    BY <1>4, Numbers
  <2> QED
    BY <1>8, <2>1 DEF Calls
<1>13. g.v + n <= s[g.cpu + 1] /\ g.low <= (g.v + n) + (m - s[g.cpu + 1])
  <2>1. PICK v \in Nat, low \in Nat, x \in Nat, y \in Nat :
          v = g.v /\ low = g.low /\ x = s[g.cpu] /\ y = s[g.cpu + 1]
    BY <1>12
  <2>2. y = x + n /\ v <= x /\ low <= v + (m - x)
    BY <1>10, <1>11, <2>1
  <2>3. v + n <= y /\ low <= (v + n) + (m - y)
    BY <2>2
  <2> QED
    BY <2>1, <2>3
<1>14. UpTo(g.e, g.i)' = s /\ Total(g.e, g.i)' = m
  BY <1>2, <1>8, <1>9, SumsStay
<1>15. SumOf(call[t])'
  BY <1>7, <1>13, <1>14 DEF SumOf
<1>16. ASSUME NEW u \in Caller \ {t}, Reads(u)'  PROVE SumOf(call[u])'
  BY <1>2, <1>7, <1>16, ReaderStays
<1> QED
  BY <1>15, <1>16, SumPartsNext

\* A reader begins with nothing, and with what there is now as its low.
LEMMA SumBegins ==
  ASSUME Inv1, SumInv, NEW t \in Caller, NEW a \in Addr, NEW i \in TypeIdx, GetFinds(t, a, i)
  PROVE  SumInv'
<1>1. call \in [Caller -> Calls] /\ EntryTypes /\ CountTypes
  BY TypeParts DEF Inv1
<1>2. PICK e \in Matches(a) :
        call' = [call EXCEPT ![t].pc = "sum", ![t].e = e, ![t].i = i, ![t].low = Total(e, i)]
  BY DEF GetFinds
<1>3. e \in Entries
  BY <1>1 DEF Matches, EntryTypes
<1>4. PICK m \in Nat : m = Total(e, i)
  BY <1>1, <1>3, TotalType
<1>5. number' = number /\ call[t] = Idle
  BY DEF GetFinds, Commands
<1>6. PICK g : g = [call[t] EXCEPT !.pc = "sum", !.e = e, !.i = i, !.low = m]
  OBVIOUS
<1>7. call' = [call EXCEPT ![t] = g]
  BY <1>2, <1>4, <1>6
<1>8. g.e = e /\ g.i = i /\ g.low = m /\ g.cpu = 0 /\ g.v = 0
  BY <1>5, <1>6 DEF Idle
<1>9. call'[t] = g /\ \A u \in Caller \ {t} : call'[u] = call[u]
  BY <1>1, <1>7
<1>10. UpTo(e, i)' = UpTo(e, i) /\ Total(e, i)' = m
  BY <1>4, <1>5, SumsStay
<1>11. UpTo(e, i)[0] = 0
  BY <1>1, <1>3, UpToIs
<1>12. SumOf(g)'
  BY <1>8, <1>10, <1>11 DEF SumOf
<1>13. SumOf(call[t])'
  BY <1>9, <1>12 DEF SumOf
<1>14. ASSUME NEW u \in Caller \ {t}, Reads(u)'  PROVE SumOf(call[u])'
  BY <1>5, <1>9, <1>14, ReaderStays
<1> QED
  BY <1>13, <1>14, SumPartsNext

\* A packet is counted while the sum is on its way.
LEMMA SumCounts ==
  ASSUME Inv2, TypeOK', NEW c \in CPU, CountWrites(c)
  PROVE  SumInv'
<1>1. Inv1 /\ NumberInv /\ SumInv
  BY DEF Inv2
<1>2. call' = call
  BY DEF CountWrites
<1>3. ASSUME NEW t \in Caller, Reads(t)'  PROVE SumOf(call[t])'
  <2>1. Reads(t)
    BY <1>2, <1>3 DEF Reads
  <2>2. PICK g \in Calls : g = call[t]
    BY <1>1, <2>1, ReaderEntry
  <2>3. g.e \in Entries /\ g.i \in TypeIdx
    BY <1>1, <2>1, <2>2, ReaderEntry
  <2>4. PICK s \in [0 .. NCpu -> Nat] : s = UpTo(g.e, g.i)
    BY <1>1, <2>1, <2>2, ReaderEntry
  <2>5. PICK m \in Nat : m = Total(g.e, g.i)
    BY <1>1, <2>1, <2>2, ReaderEntry
  <2>6. g.v <= s[g.cpu] /\ g.low <= g.v + (m - s[g.cpu])
    BY <1>1, <2>1, <2>2, <2>4, <2>5, SumParts DEF SumOf
  <2>7. g.cpu \in 0 .. NCpu /\ g.v \in Nat /\ g.low \in Nat /\ s[g.cpu] \in Nat
    BY <2>2, <2>4 DEF Calls
  <2>8. \/ UpTo(g.e, g.i)' = s /\ Total(g.e, g.i)' = m
        \/ /\ \A k \in 0 .. NCpu : UpTo(g.e, g.i)'[k] = s[k] + (IF c < k THEN 1 ELSE 0)
           /\ Total(g.e, g.i)' = m + 1
    <3>1. TypeOK'
      OBVIOUS
    <3> QED
      BY <1>1, <2>3, <2>4, <2>5, <3>1, NumberCounts
  <2>9. SumOf(g)'
    <3>1. CASE UpTo(g.e, g.i)' = s /\ Total(g.e, g.i)' = m
      BY <2>6, <3>1 DEF SumOf
    <3>2. ASSUME \A k \in 0 .. NCpu : UpTo(g.e, g.i)'[k] = s[k] + (IF c < k THEN 1 ELSE 0),
                 Total(g.e, g.i)' = m + 1
          PROVE  SumOf(g)'
      <4>1. PICK x \in {0, 1} : UpTo(g.e, g.i)'[g.cpu] = s[g.cpu] + x
        BY <2>7, <3>2
      <4>2. g.v <= s[g.cpu] + x /\ g.low <= g.v + ((m + 1) - (s[g.cpu] + x))
        BY <2>6, <2>7, <4>1
      <4> QED
        BY <3>2, <4>1, <4>2 DEF SumOf
    <3> QED
      BY <2>8, <3>1, <3>2
  <2> QED
    BY <1>2, <2>2, <2>9 DEF SumOf
<1> QED
  BY <1>3, SumPartsNext

LEMMA SumStep ==
  ASSUME Inv2, TypeOK', Next
  PROVE  SumInv'
<1>1. Inv1 /\ SumInv /\ CallInv
  BY DEF Inv1, Inv2
<1>2. ASSUME NEW t \in Caller, Ioctl(t)  PROVE SumInv'
  <2>1. CASE GetSums(t)
    BY <1>1, <2>1, SumGoesOn
  <2>2. CASE \E a \in Addr, i \in TypeIdx : GetFinds(t, a, i)
    BY <1>1, <2>2, SumBegins
  <2>3. CASE delete(t)
    <3>1. (\A u \in Caller \ {t} : call'[u] = call[u]) /\ ~ Reads(t)'
      BY <1>1, <2>3, IoctlAlone
    <3>2. call[t].e \notin tree
      BY <1>1, <2>3 DEF delete, CallInv, Holds
    <3>3. \A e \in Entries : e # call[t].e => number'[e] = number[e]
      BY <2>3 DEF delete, Free
    <3>4. \A u \in Caller \ {t} : Reads(u) => number'[call[u].e] = number[call[u].e]
      BY <1>1, <3>2, <3>3, ReaderEntry
    <3> QED
      BY <1>1, <3>1, <3>4, SumAlone
  <2>4. CASE \/ CmdInit(t) \/ \E m \in Nums : nfsinit(t, m)
             \/ addipentry(t) \/ GetFails(t) \/ GetEnds(t)
             \/ \E a \in Addr : create(t, a) \/ rmvipentry(t, a)
    <3>1. (\A u \in Caller \ {t} : call'[u] = call[u]) /\ ~ Reads(t)'
      BY <1>1, <2>4, IoctlAlone
    <3>2. number' = number
      BY <2>4 DEF CmdInit, nfsinit, addipentry, create, rmvipentry, GetFails, GetEnds
    <3> QED
      BY <1>1, <3>1, <3>2, SumAlone
  <2> QED
    BY <1>2, <2>1, <2>2, <2>3, <2>4 DEF Ioctl
<1>3. ASSUME NEW c \in CPU, CountReads(c)  PROVE SumInv'
  BY <1>1, <1>3, SumStays DEF CountReads
<1>4. ASSUME NEW c \in CPU, CountWrites(c)  PROVE SumInv'
  BY <1>4, SumCounts
<1>5. ASSUME NEW c \in CPU, NEW a \in Addr, NEW i \in TypeIdx, CountBegins(c, a, i)  PROVE SumInv'
  BY <1>1, <1>5, SumStays DEF CountBegins
<1>6. ASSUME NEW e \in Entries, ip_counter_show(e)  PROVE SumInv'
  BY <1>1, <1>6, SumStays DEF ip_counter_show
<1>7. ASSUME Module  PROVE SumInv'
  <2>1. CASE nfs_hook_init \/ InitHooks \/ InitDirs \/ InitFails \/ nfs_hook_exit
    BY <1>1, <2>1, SumStays DEF nfs_hook_init, InitHooks, InitDirs, InitFails, nfs_hook_exit
  <2>2. ASSUME NEW left, Clears(left)  PROVE SumInv'
    <3>1. call' = call /\ \A t \in Caller : ~ Reads(t)
      BY <2>2, NobodyReads DEF Clears
    <3>2. \A t \in Caller : ~ Reads(t)'
      BY <3>1 DEF Reads
    <3> QED
      BY <3>2, SumPartsNext
  <2> QED
    BY <1>7, <2>1, <2>2 DEF Module, InitEnds, ExitEnds
<1> QED
  BY <1>2, <1>3, <1>4, <1>5, <1>6, <1>7 DEF Next

LEMMA Inv2Init == Init => Inv2
<1> SUFFICES ASSUME Init  PROVE NumberInv /\ SumInv
  BY Inv1Init DEF Inv2
<1>1. CountTypes
  BY Inv1Init, TypeParts DEF Inv1
<1>2. ASSUME NEW e \in Entries, NEW i \in TypeIdx  PROVE Even(e, i)
  <2>1. PICK f \in [CPU -> Nat] : f = [c \in CPU |-> number[e][c][i]]
    BY <1>1, RowType
  <2>2. number[e] = Zero /\ counted[e] = Zero[0]
    BY DEF Init
  <2>3. (\A c \in CPU : f[c] = 0) /\ counted[e][i] = 0
    BY <2>1, <2>2, Zeros
  <2>4. Total(e, i) = 0
    BY <2>1, <2>3, SumsOfNothing DEF Total, UpTo
  <2> QED
    BY <2>3, <2>4 DEF Even
<1>3. (\A t \in Caller : call[t] = Idle) /\ \A c \in CPU : hook[c] = NoHook
  BY DEF Init
<1>4. \A c \in CPU : ReadRight(c)
  BY <1>3, Idles DEF ReadRight
<1>5. \A t \in Caller : ~ Reads(t)
  BY <1>3, Idles DEF Reads
<1> QED
  BY <1>2, <1>4, <1>5, NumberParts, SumParts

LEMMA Inv2Step ==
  ASSUME Inv2, [Next]_vars
  PROVE  Inv2'
<1>1. Inv1'
  BY Inv1Step DEF Inv2
<1>2. TypeOK'
  BY <1>1 DEF Inv1
<1>3. CASE Next
  <2>1. NumberInv'
    BY <1>2, <1>3, NumberStep DEF Inv2
  <2>2. SumInv'
    BY <1>2, <1>3, SumStep
  <2> QED
    BY <1>1, <2>1, <2>2 DEF Inv2
<1>4. CASE UNCHANGED vars
  <2>1. NumberInv' /\ SumInv'
    BY <1>4, NumberStays, SumStays DEF Inv2, vars
  <2> QED
    BY <1>1, <2>1 DEF Inv2
<1> QED
  BY <1>3, <1>4

\* No packet is counted twice or forgotten, on however many CPUs: the vectors
\* add up to the packets that the hooks are done with.
THEOREM CountsAreKept == Spec => []CountsKept
<1>1. Inv2 => CountsKept
  BY TypeParts DEF Inv2, Inv1, NumberInv, CountsKept, EntryTypes
<1> QED
  BY <1>1, Inv2Init, Inv2Step, PTL DEF Spec

\* What NFS_CMD_GETCOUNTER returns lies between what the counters added up to
\* when it began and what they add up to now, whatever is counted meanwhile.
THEOREM ReadIsRegular == Spec => []ReadRegular
<1>1. ASSUME Inv2  PROVE ReadRegular
  <2>1. ASSUME NEW t \in Caller, call[t].pc = "sent"
        PROVE  call[t].low <= call[t].v /\ call[t].v <= Total(call[t].e, call[t].i)
    <3>1. Reads(t) /\ call[t].cpu = NCpu
      BY <1>1, <2>1 DEF Inv2, Inv1, CallInv, Reads
    <3>2. /\ call[t] \in Calls /\ UpTo(call[t].e, call[t].i) \in [0 .. NCpu -> Nat]
          /\ Total(call[t].e, call[t].i) \in Nat
      BY <1>1, <3>1, ReaderEntry DEF Inv2
    <3>3. SumOf(call[t])
      BY <1>1, <3>1, SumParts DEF Inv2
    <3>4. UpTo(call[t].e, call[t].i)[NCpu] = Total(call[t].e, call[t].i)
      BY DEF Total
    <3> QED
      BY <3>1, <3>2, <3>3, <3>4 DEF SumOf, Calls
  <2> QED
    BY <2>1 DEF ReadRegular
<1> QED
  BY <1>1, Inv2Init, Inv2Step, PTL DEF Spec

-----------------------------------------------------------------------------
(***************************************************************************)
(* One entry for an address.                                               *)
(***************************************************************************)
\* Cut to it are an address itself and, perhaps, longer ones.
Cut(b) == \E a \in Addr : Stored[a] = b /\ a # b

\* The tree stays or loses entries, and those that stay keep their addresses.
LEMMA EntriesStay ==
  ASSUME OneEntry, \A e \in tree' \cap live' : e \in tree \cap live /\ ip'[e] = ip[e]
  PROVE  OneEntry'
BY DEF OneEntry

\* The walk looks for the whole address under the lock that the insert is under:
\* two entries of one address are there only if what is kept is not what is
\* looked for.
LEMMA EntryInserted ==
  ASSUME Inv3, NEW t \in Caller, addipentry(t)
  PROVE  OneEntry'
<1>1. EntryTypes /\ CallInv /\ OneEntry
  BY TypeParts DEF Inv3, Inv1
<1>2. live' = live /\ ip' = ip
  BY DEF addipentry
<1>3. CASE There(call[t].ip) # {}
  <2>1. tree' = tree
    BY <1>3 DEF addipentry
  <2> QED
    BY <1>1, <1>2, <2>1, EntriesStay
<1>4. CASE There(call[t].ip) = {}
  <2>1. tree' = tree \cup {call[t].e}
    BY <1>4 DEF addipentry
  <2>0. PICK a \in Addr : a = call[t].ip
    BY <1>1 DEF addipentry, CallInv
  <2>2. PICK b : a = call[t].ip /\ b = Stored[a] /\ ip[call[t].e] = b
    BY <1>1, <2>0 DEF addipentry, CallInv, Kept
  <2>3. \A f \in tree : ip[f] # a
    BY <1>4, <2>2 DEF There, Matches
  <2>4. \A f \in tree : ip[f] = b => Cut(b)
    BY <2>2, <2>3 DEF Cut
  <2>5. ASSUME NEW e \in tree' \cap live', NEW f \in tree' \cap live', ip'[e] = ip'[f], e # f
        PROVE  Cut(ip'[e])
    <3>1. e \in live /\ f \in live /\ ip[e] = ip[f]
      BY <1>2, <2>5
    <3>2. CASE e \in tree /\ f \in tree
      BY <1>1, <1>2, <2>5, <3>1, <3>2 DEF OneEntry, Cut
    <3>3. CASE e = call[t].e /\ f \in tree
      BY <1>2, <2>2, <2>4, <3>1, <3>3
    <3>4. CASE f = call[t].e /\ e \in tree
      BY <1>2, <2>2, <2>4, <3>1, <3>4
    <3> QED
      BY <2>1, <2>5, <3>2, <3>3, <3>4
  <2> QED
    BY <2>5 DEF OneEntry, Cut
<1> QED
  BY <1>3, <1>4

LEMMA EntryStep ==
  ASSUME Inv3, Next
  PROVE  OneEntry'
<1>1. EntryTypes /\ CallInv /\ OneEntry
  BY TypeParts DEF Inv3, Inv1
<1>2. ASSUME UNCHANGED <<live, tree, ip>>  PROVE OneEntry'
  BY <1>1, <1>2, EntriesStay
<1>3. ASSUME NEW s, Free(s), tree' \subseteq tree  PROVE OneEntry'
  <2>1. \A e \in tree' \cap live' : e \in tree \cap live /\ ip'[e] = ip[e]
    BY <1>1, <1>3 DEF Free, EntryTypes
  <2> QED
    BY <1>1, <2>1, EntriesStay
<1>4. ASSUME NEW t \in Caller, Ioctl(t)  PROVE OneEntry'
  <2>1. CASE addipentry(t)
    BY <2>1, EntryInserted
  <2>2. CASE delete(t)
    BY <1>3, <2>2 DEF delete
  <2>3. ASSUME NEW a \in Addr, create(t, a)  PROVE OneEntry'
    <3>1. PICK e \in Fresh : live' = live \cup {e} /\ ip' = [ip EXCEPT ![e] = Kept(a)]
      BY <2>3 DEF create
    <3>2. tree' = tree /\ e \notin tree
      BY <2>3 DEF create, Fresh
    <3>3. \A f \in tree' \cap live' : f \in tree \cap live /\ ip'[f] = ip[f]
      BY <1>1, <3>1, <3>2 DEF EntryTypes
    <3> QED
      BY <1>1, <3>3, EntriesStay
  <2>4. ASSUME NEW a \in Addr, rmvipentry(t, a)  PROVE OneEntry'
    <3>1. tree' \subseteq tree /\ live' = live /\ ip' = ip
      BY <2>4 DEF rmvipentry
    <3> QED
      BY <1>1, <3>1, EntriesStay
  <2>5. CASE \/ CmdInit(t) \/ \E m \in Nums : nfsinit(t, m)
             \/ GetFails(t) \/ GetSums(t) \/ GetEnds(t)
             \/ \E a \in Addr, i \in TypeIdx : GetFinds(t, a, i)
    BY <1>2, <2>5 DEF CmdInit, nfsinit, GetFails, GetSums, GetEnds, GetFinds
  <2> QED
    BY <1>4, <2>1, <2>2, <2>3, <2>4, <2>5 DEF Ioctl
<1>5. ASSUME NEW c \in CPU,
             CountReads(c) \/ CountWrites(c) \/ \E a \in Addr, i \in TypeIdx : CountBegins(c, a, i)
      PROVE  OneEntry'
  BY <1>2, <1>5 DEF CountReads, CountWrites, CountBegins
<1>6. ASSUME NEW e \in Entries, ip_counter_show(e)  PROVE OneEntry'
  BY <1>2, <1>6 DEF ip_counter_show
<1>7. ASSUME Module  PROVE OneEntry'
  <2>1. CASE nfs_hook_init \/ InitHooks \/ InitDirs \/ InitFails \/ nfs_hook_exit
    BY <1>2, <2>1 DEF nfs_hook_init, InitHooks, InitDirs, InitFails, nfs_hook_exit
  <2>2. ASSUME NEW left, left \subseteq tree, Clears(left)  PROVE OneEntry'
    BY <1>3, <2>2 DEF Clears
  <2> QED
    BY <1>7, <2>1, <2>2 DEF Module, InitEnds, ExitEnds
<1> QED
  BY <1>4, <1>5, <1>6, <1>7 DEF Next

LEMMA Inv3Init == Init => Inv3
BY Inv1Init DEF Inv3, Init, OneEntry

LEMMA Inv3Step ==
  ASSUME Inv3, [Next]_vars
  PROVE  Inv3'
<1>1. Inv1'
  BY Inv1Step DEF Inv3
<1>2. OneEntry'
  BY EntryStep DEF Inv3, OneEntry, vars
<1> QED
  BY <1>1, <1>2 DEF Inv3

\* An address has one entry, whoever adds it at the same time, but for one that
\* longer addresses are cut to.
THEOREM AddressHasOneEntry == Spec => []OneEntry
<1>1. Inv3 => OneEntry
  BY DEF Inv3
<1> QED
  BY <1>1, Inv3Init, Inv3Step, PTL DEF Spec

-----------------------------------------------------------------------------
(***************************************************************************)
(* What goes with the module, and memory.                                  *)
(***************************************************************************)
\* The parts of LifeInv.
ModuleLife ==
  /\ module # "fails"
  /\ device => module \in {"init", "hooks", "in"}
  /\ module = "in" => dirs
  /\ module \in {"hooks", "in"} => hooked \/ "deaf" \in hist
  /\ module \in {"out", "exits"} => \A t \in Caller : call[t] = Idle
HeldIs(e)  == \E t \in Caller : Holds(t) /\ call[t].e = e
TreeLife  == tree \subseteq live /\ \A e \in live \ tree : HeldIs(e)
CapLife   == (maxtype = 0 => live = {}) /\ ("twice" \in hist \/ \A e \in live : cap[e] = maxtype)
SeenLife  ==
  "early" \in hist \/ \A e \in Entries : visible[e] # "no" => visible[e] = "dir" /\ dirs /\ e \in live

LEMMA LifeParts == LifeInv <=> "failed" \in hist \/ (ModuleLife /\ TreeLife /\ CapLife /\ SeenLife)
BY DEF LifeInv, ModuleLife, TreeLife, HeldIs, CapLife, SeenLife

LEMMA LifePartsNext ==
  ASSUME "failed" \in hist' \/ (ModuleLife' /\ TreeLife' /\ CapLife' /\ SeenLife')
  PROVE  LifeInv'
BY DEF LifeInv, ModuleLife, TreeLife, HeldIs, CapLife, SeenLife

\* What happened has happened.
LEMMA HistGrows == ASSUME Next  PROVE hist \subseteq hist'
<1>1. ASSUME NEW t \in Caller, Ioctl(t)  PROVE hist \subseteq hist'
  BY <1>1 DEF Ioctl, CmdInit, nfsinit, addipentry, create, rmvipentry, delete, GetFinds, GetFails,
       GetSums, GetEnds, Note
<1>2. ASSUME NEW c \in CPU,
             CountReads(c) \/ CountWrites(c) \/ \E a \in Addr, i \in TypeIdx : CountBegins(c, a, i)
      PROVE  hist \subseteq hist'
  BY <1>2 DEF CountReads, CountWrites, CountBegins, Note
<1>3. ASSUME NEW e \in Entries, ip_counter_show(e)  PROVE hist \subseteq hist'
  BY <1>3 DEF ip_counter_show
<1>4. ASSUME Module  PROVE hist \subseteq hist'
  BY <1>4 DEF Module, nfs_hook_init, InitHooks, InitDirs, InitFails, InitEnds, nfs_hook_exit, ExitEnds
<1> QED
  BY <1>1, <1>2, <1>3, <1>4 DEF Next

\* A thread is in an ioctl only while the module is there.
LEMMA IoctlInModule ==
  ASSUME Inv1, ModuleLife, NEW t \in Caller, Ioctl(t)
  PROVE  module \in {"init", "hooks", "in"} /\ UNCHANGED modvars
<1>1. device \/ call[t] # Idle
  BY Idles DEF Ioctl, CmdInit, nfsinit, addipentry, create, rmvipentry, delete, GetFinds, GetFails,
       GetSums, GetEnds, Commands
<1>2. module \in {"out", "init", "hooks", "fails", "in", "exits"}
  BY DEF Inv1, TypeOK
<1>3. module \in {"init", "hooks", "in"}
  BY <1>1, <1>2 DEF ModuleLife
<1>4. UNCHANGED modvars
  BY DEF Ioctl, CmdInit, nfsinit, addipentry, create, rmvipentry, delete, GetFinds, GetFails,
       GetSums, GetEnds
<1> QED
  BY <1>3, <1>4

LEMMA ModuleStep ==
  ASSUME Inv1, ModuleLife, Next, "failed" \notin hist'
  PROVE  ModuleLife'
<1>1. ASSUME NEW t \in Caller, Ioctl(t)  PROVE ModuleLife'
  <2>1. module \in {"init", "hooks", "in"} /\ UNCHANGED modvars
    BY <1>1, IoctlInModule
  <2> QED
    BY <2>1, HistGrows DEF ModuleLife, modvars
<1>2. ASSUME UNCHANGED <<modvars, call>>  PROVE ModuleLife'
  BY <1>2, HistGrows DEF ModuleLife, modvars
<1>3. ASSUME NEW c \in CPU,
             CountReads(c) \/ CountWrites(c) \/ \E a \in Addr, i \in TypeIdx : CountBegins(c, a, i)
      PROVE  ModuleLife'
  BY <1>2, <1>3 DEF CountReads, CountWrites, CountBegins
<1>4. ASSUME NEW e \in Entries, ip_counter_show(e)  PROVE ModuleLife'
  BY <1>2, <1>4 DEF ip_counter_show
<1>5. ASSUME Module  PROVE ModuleLife'
  <2>1. CASE nfs_hook_init
    BY <2>1 DEF nfs_hook_init, ModuleLife
  <2>2. CASE InitHooks
    BY <2>2 DEF InitHooks, ModuleLife
  <2>3. CASE InitDirs
    BY <2>3 DEF InitDirs, ModuleLife
  <2>4. CASE InitFails
    BY <2>4 DEF InitFails
  <2>5. CASE InitEnds
    BY <2>5 DEF InitEnds, ModuleLife
  <2>6. CASE nfs_hook_exit
    BY <2>6 DEF nfs_hook_exit, CleanBegins, ModuleLife
  <2>7. CASE ExitEnds
    BY <2>7 DEF ExitEnds, Clears, ModuleLife
  <2> QED
    BY <1>5, <2>1, <2>2, <2>3, <2>4, <2>5, <2>6, <2>7 DEF Module
<1> QED
  BY <1>1, <1>3, <1>4, <1>5 DEF Next

\* An entry that is held, but not in the tree, stays held by another thread.
LEMMA HeldStays ==
  ASSUME NEW t \in Caller, \A u \in Caller \ {t} : call'[u] = call[u], NEW e, HeldIs(e),
         ~ (Holds(t) /\ call[t].e = e)
  PROVE  HeldIs(e)'
BY DEF HeldIs, Holds

LEMMA TreeIoctl ==
  ASSUME Inv1, TreeLife, NEW t \in Caller, Ioctl(t)
  PROVE  TreeLife'
<1>1. call \in [Caller -> Calls] /\ EntryTypes /\ CallInv
  BY TypeParts DEF Inv1
<1>2. tree \subseteq live /\ \A e \in live \ tree : HeldIs(e)
  BY DEF TreeLife
<1>3. CASE addipentry(t)
  <2>1. Holds(t) /\ call[t].e \in Entries \ tree /\ live' = live
    BY <1>1, <1>3 DEF addipentry, CallInv, Holds
  <2>2. call[t].e \in live
    <3>1. PICK a \in Addr : a = call[t].ip /\ ip[call[t].e] = Stored[a]
      BY <1>1, <1>3 DEF addipentry, CallInv, Kept
    <3>2. ip[call[t].e] # NoAddr
      BY <3>1, Numbers
    <3> QED
      BY <1>1, <2>1, <3>2 DEF EntryTypes
  <2>3. \A u \in Caller \ {t} : call'[u] = call[u]
    BY <1>3, IoctlAlone
  <2>4. CASE There(call[t].ip) = {}
    <3>1. tree' = tree \cup {call[t].e}
      BY <1>3, <2>4 DEF addipentry
    <3>2. ASSUME NEW e \in live' \ tree'  PROVE HeldIs(e)'
      <4>1. e \in live \ tree /\ e # call[t].e
        BY <2>1, <3>1, <3>2
      <4> QED
        BY <1>2, <2>3, <4>1, HeldStays
    <3> QED
      BY <1>2, <2>1, <2>2, <3>1, <3>2 DEF TreeLife
  <2>5. CASE There(call[t].ip) # {}
    <3>1. tree' = tree /\ call' = [call EXCEPT ![t].pc = "delete"]
      BY <1>3, <2>5 DEF addipentry
    <3>2. call'[t].pc = "delete" /\ call'[t].e = call[t].e
      BY <1>1, <3>1, StepMoves
    <3>3. ASSUME NEW e \in live' \ tree'  PROVE HeldIs(e)'
      <4>1. e \in live \ tree
        BY <2>1, <3>1, <3>3
      <4>2. CASE e = call[t].e
        BY <3>2, <4>2 DEF HeldIs, Holds
      <4>3. CASE e # call[t].e
        BY <1>2, <2>3, <4>1, <4>3, HeldStays
      <4> QED
        BY <4>2, <4>3
    <3> QED
      BY <1>2, <2>1, <3>1, <3>3 DEF TreeLife
  <2> QED
    BY <2>4, <2>5
<1>4. CASE delete(t)
  <2>1. \A u \in Caller \ {t} : call'[u] = call[u]
    BY <1>4, IoctlAlone
  <2>2. live' = live \ {call[t].e} /\ tree' = tree /\ call[t].e \notin tree
    BY <1>1, <1>4 DEF delete, Free, CallInv, Holds
  <2>3. ASSUME NEW e \in live' \ tree'  PROVE HeldIs(e)'
    <3>1. e \in live \ tree /\ e # call[t].e
      BY <2>2, <2>3
    <3> QED
      BY <1>2, <2>1, <3>1, HeldStays
  <2> QED
    BY <1>2, <2>2, <2>3 DEF TreeLife
<1>5. ASSUME NEW a \in Addr, create(t, a)  PROVE TreeLife'
  <2>1. PICK e \in Fresh : /\ live' = live \cup {e}
                           /\ call' = [call EXCEPT ![t].pc = "insert", ![t].ip = a, ![t].e = e]
    BY <1>5 DEF create
  <2>2. tree' = tree /\ ~ Holds(t)
    BY <1>5, Idles DEF create, Commands, Holds
  <2>3. \A u \in Caller \ {t} : call'[u] = call[u]
    BY <1>5, IoctlAlone
  <2>4. call'[t].pc = "insert" /\ call'[t].e = e
    BY <1>1, <2>1 DEF Calls
  <2>5. ASSUME NEW f \in live' \ tree'  PROVE HeldIs(f)'
    <3>1. CASE f = e
      BY <2>4, <3>1 DEF HeldIs, Holds
    <3>2. CASE f # e
      <4>1. f \in live \ tree
        BY <2>1, <2>2, <2>5, <3>2
      <4> QED
        BY <1>2, <2>2, <2>3, <4>1, HeldStays
    <3> QED
      BY <3>1, <3>2
  <2> QED
    BY <1>2, <2>1, <2>2, <2>5 DEF TreeLife
<1>6. ASSUME NEW a \in Addr, rmvipentry(t, a)  PROVE TreeLife'
  <2>1. live' = live /\ ~ Holds(t)
    BY <1>6, Idles DEF rmvipentry, Commands, Holds
  <2>2. \A u \in Caller \ {t} : call'[u] = call[u]
    BY <1>6, IoctlAlone
  <2>3. CASE Matches(a) = {}
    <3>1. tree' = tree /\ \A f \in live \ tree : HeldIs(f)'
      BY <1>2, <1>6, <2>1, <2>2, <2>3, HeldStays DEF rmvipentry
    <3> QED
      BY <1>2, <2>1, <3>1 DEF TreeLife
  <2>4. CASE Matches(a) # {}
    <3>1. PICK e \in Matches(a) : tree' = tree \ {e} /\ call' = [call EXCEPT ![t].pc = "delete", ![t].e = e]
      BY <1>6, <2>4 DEF rmvipentry
    <3>2. e \in Entries
      BY <1>1 DEF Matches, EntryTypes
    <3>3. call'[t].pc = "delete" /\ call'[t].e = e
      BY <1>1, <3>1, <3>2, EntryMoves
    <3>4. ASSUME NEW f \in live' \ tree'  PROVE HeldIs(f)'
      <4>1. CASE f = e
        BY <3>3, <4>1 DEF HeldIs, Holds
      <4>2. CASE f # e
        <5>1. f \in live \ tree
          BY <2>1, <3>1, <3>4, <4>2
        <5> QED
          BY <1>2, <2>1, <2>2, <5>1, HeldStays
      <4> QED
        BY <4>1, <4>2
    <3> QED
      BY <1>2, <2>1, <3>1, <3>4 DEF TreeLife
  <2> QED
    BY <2>3, <2>4
<1>7. ASSUME ~ Holds(t), UNCHANGED <<live, tree>>, \A u \in Caller \ {t} : call'[u] = call[u]
      PROVE  TreeLife'
  <2>1. \A f \in live \ tree : HeldIs(f)'
    BY <1>2, <1>7, HeldStays
  <2> QED
    BY <1>2, <1>7, <2>1 DEF TreeLife
<1>8. CASE CmdInit(t) \/ (\E m \in Nums : nfsinit(t, m)) \/ GetFails(t) \/ GetEnds(t)
  <2>1. \A u \in Caller \ {t} : call'[u] = call[u]
    BY <1>8, IoctlAlone
  <2>2. ~ Holds(t) /\ UNCHANGED <<live, tree>>
    BY <1>8, Idles DEF CmdInit, nfsinit, GetFails, GetEnds, Commands, Holds
  <2> QED
    BY <1>7, <2>1, <2>2
<1>9. CASE GetSums(t) \/ \E a \in Addr, i \in TypeIdx : GetFinds(t, a, i)
  <2>1. ~ Holds(t) /\ UNCHANGED <<live, tree>>
    BY <1>9, Idles DEF GetSums, GetFinds, Commands, Holds
  <2>2. \A u \in Caller \ {t} : call'[u] = call[u]
    BY <1>1, <1>9 DEF GetSums, GetFinds
  <2> QED
    BY <1>7, <2>1, <2>2
<1> QED
  BY <1>3, <1>4, <1>5, <1>6, <1>8, <1>9 DEF Ioctl

LEMMA TreeStep ==
  ASSUME Inv1, ModuleLife, TreeLife, Next
  PROVE  TreeLife'
<1>1. ASSUME UNCHANGED <<live, tree, call>>  PROVE TreeLife'
  BY <1>1 DEF TreeLife, HeldIs, Holds
<1>2. ASSUME NEW c \in CPU,
             CountReads(c) \/ CountWrites(c) \/ \E a \in Addr, i \in TypeIdx : CountBegins(c, a, i)
      PROVE  TreeLife'
  BY <1>1, <1>2 DEF CountReads, CountWrites, CountBegins
<1>3. ASSUME NEW e \in Entries, ip_counter_show(e)  PROVE TreeLife'
  BY <1>1, <1>3 DEF ip_counter_show
<1>4. ASSUME Module  PROVE TreeLife'
  <2>1. CASE nfs_hook_init \/ InitHooks \/ InitDirs \/ InitFails \/ nfs_hook_exit
    BY <1>1, <2>1 DEF nfs_hook_init, InitHooks, InitDirs, InitFails, nfs_hook_exit
  <2>2. CASE InitEnds
    BY <2>2 DEF InitEnds, ModuleLife
  <2>3. CASE ExitEnds
    <3>1. tree' = {} /\ live' = live \ tree
      BY <2>3 DEF ExitEnds, Clears, Free
    <3>2. \A t \in Caller : ~ Holds(t)
      BY <2>3, Idles DEF ExitEnds, ModuleLife, Holds
    <3>3. live' = {}
      BY <3>1, <3>2 DEF TreeLife, HeldIs
    <3> QED
      BY <3>1, <3>3 DEF TreeLife
  <2> QED
    BY <1>4, <2>1, <2>2, <2>3 DEF Module
<1> QED
  BY <1>2, <1>3, <1>4, TreeIoctl DEF Next

LEMMA CapStep ==
  ASSUME Inv1, ModuleLife, TreeLife, CapLife, Next
  PROVE  CapLife'
<1>1. /\ FlagTypes /\ EntryTypes
      /\ (maxtype = 0 => live = {}) /\ ("twice" \in hist \/ \A e \in live : cap[e] = maxtype)
  BY TypeParts DEF Inv1, CapLife
<1>2. hist \subseteq hist'
  BY HistGrows
<1>3. ASSUME UNCHANGED <<maxtype, cap, live>>  PROVE CapLife'
  BY <1>1, <1>2, <1>3 DEF CapLife
<1>4. ASSUME NEW t \in Caller, Ioctl(t)  PROVE CapLife'
  <2>1. ASSUME NEW m \in Nums, nfsinit(t, m)  PROVE CapLife'
    <3>1. live' = live /\ cap' = cap
      BY <2>1 DEF nfsinit
    <3>2. maxtype' = maxtype \/ (maxtype' = m /\ m > 0)
      BY <2>1 DEF nfsinit
    <3>3. maxtype' = 0 => maxtype = 0
      BY <3>2
    <3>4. maxtype' # maxtype => maxtype = 0 \/ "twice" \in hist'
      <4>1. maxtype = 0 \/ maxtype > 0
        BY <1>1 DEF FlagTypes, Type
      <4> QED
        BY <2>1, <4>1 DEF nfsinit, Note
    <3> QED
      BY <1>1, <1>2, <3>1, <3>3, <3>4 DEF CapLife
  <2>2. ASSUME NEW a \in Addr, create(t, a)  PROVE CapLife'
    <3>1. PICK e \in Fresh : live' = live \cup {e} /\ cap' = [cap EXCEPT ![e] = maxtype]
      BY <2>2 DEF create
    <3>2. e \in Entries /\ maxtype' = maxtype /\ maxtype # 0
      BY <2>2 DEF create, Fresh, Commands
    <3>3. cap'[e] = maxtype /\ \A f \in Entries : f # e => cap'[f] = cap[f]
      BY <1>1, <3>1, <3>2 DEF EntryTypes
    <3>4. live \subseteq Entries
      BY <1>1 DEF EntryTypes
    <3> QED
      BY <1>1, <1>2, <3>1, <3>2, <3>3, <3>4 DEF CapLife
  <2>3. CASE delete(t)
    <3>1. /\ live' \subseteq live /\ maxtype' = maxtype
          /\ \A f \in live' : cap'[f] = cap[f]
      BY <1>1, <2>3 DEF delete, Free, EntryTypes
    <3> QED
      BY <1>1, <1>2, <3>1 DEF CapLife
  <2>4. CASE \/ CmdInit(t) \/ addipentry(t) \/ GetFails(t) \/ GetSums(t) \/ GetEnds(t)
             \/ \E a \in Addr : rmvipentry(t, a) \/ \E i \in TypeIdx : GetFinds(t, a, i)
    BY <1>3, <2>4 DEF CmdInit, addipentry, GetFails, GetSums, GetEnds, rmvipentry, GetFinds
  <2> QED
    BY <1>4, <2>1, <2>2, <2>3, <2>4 DEF Ioctl
<1>5. ASSUME NEW c \in CPU,
             CountReads(c) \/ CountWrites(c) \/ \E a \in Addr, i \in TypeIdx : CountBegins(c, a, i)
      PROVE  CapLife'
  BY <1>3, <1>5 DEF CountReads, CountWrites, CountBegins
<1>6. ASSUME NEW e \in Entries, ip_counter_show(e)  PROVE CapLife'
  BY <1>3, <1>6 DEF ip_counter_show
<1>7. ASSUME Module  PROVE CapLife'
  <2>1. CASE nfs_hook_init \/ InitHooks \/ InitDirs \/ InitFails \/ nfs_hook_exit
    BY <1>3, <2>1 DEF nfs_hook_init, InitHooks, InitDirs, InitFails, nfs_hook_exit
  <2>2. CASE InitEnds
    BY <2>2 DEF InitEnds, ModuleLife
  <2>3. CASE ExitEnds
    <3>1. live' = live \ tree
      BY <2>3 DEF ExitEnds, Clears, Free
    <3>2. \A t \in Caller : ~ Holds(t)
      BY <2>3, Idles DEF ExitEnds, ModuleLife, Holds
    <3>3. live' = {}
      BY <3>1, <3>2 DEF TreeLife, HeldIs
    <3> QED
      BY <3>3 DEF CapLife
  <2> QED
    BY <1>7, <2>1, <2>2, <2>3 DEF Module
<1> QED
  BY <1>4, <1>5, <1>6, <1>7 DEF Next

LEMMA SeenStep ==
  ASSUME Inv1, ModuleLife, TreeLife, SeenLife, Next, "failed" \notin hist'
  PROVE  SeenLife'
<1>1. EntryTypes /\ CallInv
  BY TypeParts DEF Inv1
<1>2. hist \subseteq hist'
  BY HistGrows
<1> SUFFICES ASSUME "early" \notin hist'
             PROVE  \A e \in Entries : visible'[e] # "no" => visible'[e] = "dir" /\ dirs' /\ e \in live'
  BY DEF SeenLife
<1>3. \A e \in Entries : visible[e] # "no" => visible[e] = "dir" /\ dirs /\ e \in live
  BY <1>2 DEF SeenLife
<1> DEFINE Goal == \A e \in Entries : visible'[e] # "no" => visible'[e] = "dir" /\ dirs' /\ e \in live'
<1>4. ASSUME UNCHANGED <<visible, dirs, live>>  PROVE Goal
  BY <1>3, <1>4
<1>5. ASSUME NEW t \in Caller, Ioctl(t)  PROVE Goal
  <2>1. ASSUME NEW a \in Addr, create(t, a)  PROVE Goal
    <3>1. PICK e \in Fresh : /\ live' = live \cup {e}
                             /\ visible' = [visible EXCEPT ![e] = IF dirs THEN "dir" ELSE "root"]
      BY <2>1 DEF create
    <3>2. dirs' = dirs /\ dirs
      BY <2>1 DEF create, Note
    <3>3. e \in Entries
      BY DEF Fresh
    <3>4. visible'[e] = "dir" /\ \A f \in Entries : f # e => visible'[f] = visible[f]
      BY <1>1, <3>1, <3>2, <3>3 DEF EntryTypes
    <3> QED
      BY <1>3, <3>1, <3>2, <3>4
  <2>2. CASE delete(t)
    <3>1. visible' = Unseen({call[t].e}) /\ live' = live \ {call[t].e} /\ dirs' = dirs
      BY <2>2 DEF delete, Free
    <3>2. ASSUME NEW e \in Entries, visible'[e] # "no"
          PROVE  visible'[e] = "dir" /\ dirs' /\ e \in live'
      <4>1. CASE e = call[t].e
        BY <1>3, <3>1, <3>2, <4>1 DEF Unseen
      <4>2. CASE e # call[t].e
        <5>1. visible'[e] = visible[e]
          BY <3>1, <4>2 DEF Unseen
        <5> QED
          BY <1>3, <3>1, <3>2, <4>2, <5>1
      <4> QED
        BY <4>1, <4>2
    <3> QED
      BY <3>2
  <2>3. CASE \/ CmdInit(t) \/ (\E m \in Nums : nfsinit(t, m)) \/ addipentry(t)
             \/ GetFails(t) \/ GetSums(t) \/ GetEnds(t)
             \/ \E a \in Addr : rmvipentry(t, a) \/ \E i \in TypeIdx : GetFinds(t, a, i)
    BY <1>4, <2>3 DEF CmdInit, nfsinit, addipentry, GetFails, GetSums, GetEnds, rmvipentry, GetFinds
  <2> HIDE DEF Goal
  <2> QED
    BY <1>5, <2>1, <2>2, <2>3 DEF Ioctl
<1>6. ASSUME NEW c \in CPU,
             CountReads(c) \/ CountWrites(c) \/ \E a \in Addr, i \in TypeIdx : CountBegins(c, a, i)
      PROVE  Goal
  BY <1>4, <1>6 DEF CountReads, CountWrites, CountBegins
<1>7. ASSUME NEW e \in Entries, ip_counter_show(e)  PROVE Goal
  BY <1>4, <1>7 DEF ip_counter_show
<1>8. ASSUME Module  PROVE Goal
  <2>1. CASE nfs_hook_init \/ InitHooks \/ nfs_hook_exit
    BY <1>4, <2>1 DEF nfs_hook_init, InitHooks, nfs_hook_exit
  <2>2. CASE InitDirs
    BY <1>3, <2>2 DEF InitDirs
  <2>3. CASE InitFails
    BY <2>3 DEF InitFails
  <2>4. CASE InitEnds
    BY <2>4 DEF InitEnds, ModuleLife
  <2>5. CASE ExitEnds
    <3>1. visible' = [e \in Entries |-> IF visible[e] = "dir" THEN "no" ELSE Unseen(tree)[e]]
      BY <2>5 DEF ExitEnds, Clears
    <3>2. ASSUME NEW e \in Entries  PROVE visible'[e] = "no"
      <4>1. CASE visible[e] = "dir"
        BY <3>1, <4>1
      <4>2. CASE visible[e] # "dir"
        <5>1. visible[e] = "no"
          BY <1>3, <4>2
        <5>2. Unseen(tree)[e] = "no"
          BY <5>1 DEF Unseen
        <5> QED
          BY <3>1, <4>2, <5>2
      <4> QED
        BY <4>1, <4>2
    <3> QED
      BY <3>2
  <2> HIDE DEF Goal
  <2> QED
    BY <1>8, <2>1, <2>2, <2>3, <2>4, <2>5 DEF Module
<1> HIDE DEF Goal
<1>9. Goal
  BY <1>5, <1>6, <1>7, <1>8 DEF Next
<1> QED
  BY <1>9 DEF Goal

\* What a step may misuse: nothing but what is named.
LEMMA SafeIoctl ==
  ASSUME Inv1, ModuleLife, TreeLife, CapLife, bad = {}, NEW t \in Caller, Ioctl(t)
  PROVE  bad' \subseteq {"vmalloc"} \cup (IF "twice" \in hist THEN {"get"} ELSE {})
                     \cup (IF "long" \in hist' THEN {"add"} ELSE {})
<1>1. EntryTypes /\ CallInv /\ FlagTypes
  BY TypeParts DEF Inv1
<1>2. ~ Dangling
  BY DEF TreeLife, Dangling
<1>3. CASE addipentry(t) \/ \E a \in Addr : rmvipentry(t, a)
  BY <1>2, <1>3 DEF addipentry, rmvipentry, Misuse
<1>4. CASE CmdInit(t) \/ (\E m \in Nums : nfsinit(t, m)) \/ delete(t) \/ GetEnds(t)
  BY <1>4 DEF CmdInit, nfsinit, delete, GetEnds
<1>5. CASE \E a \in Addr : create(t, a)
  BY <1>5 DEF create, Misuse, ModuleLife
<1>6. CASE GetFails(t)
  BY <1>2, <1>6 DEF GetFails
<1>7. CASE GetSums(t)
  <2>1. call[t].e \in live
    BY <1>7, GetSumsIs DEF TreeLife
  <2> QED
    BY <1>7, <2>1 DEF GetSums, Misuse
<1>8. ASSUME NEW a \in Addr, NEW i \in TypeIdx, GetFinds(t, a, i)
      PROVE  bad' \subseteq {"vmalloc"} \cup (IF "twice" \in hist THEN {"get"} ELSE {})
  <2>1. PICK e \in Matches(a) : Misuse("get", Dangling \/ i >= cap[e])
    BY <1>8 DEF GetFinds
  <2>2. i < maxtype
    BY <1>8 DEF GetFinds
  <2>3. CASE "twice" \in hist
    BY <2>1, <2>3 DEF Misuse
  <2>4. CASE "twice" \notin hist
    <3>1. cap[e] = maxtype
      BY <2>4 DEF CapLife, TreeLife, Matches
    <3>2. ~ i >= cap[e]
      <4>1. i \in Int /\ maxtype \in Int
        BY <1>1, Numbers DEF FlagTypes
      <4> QED
        BY <2>2, <3>1, <4>1
    <3> QED
      BY <1>2, <2>1, <3>2 DEF Misuse
  <2> QED
    BY <2>3, <2>4
<1> QED
  BY <1>3, <1>4, <1>5, <1>6, <1>7, <1>8 DEF Ioctl

LEMMA SafeHook ==
  ASSUME Inv1, TreeLife, bad = {}, NEW c \in CPU,
         CountReads(c) \/ CountWrites(c) \/ \E a \in Addr, i \in TypeIdx : CountBegins(c, a, i)
  PROVE  bad' \subseteq IF "type" \in hist' THEN {"count"} ELSE {}
<1>1. ~ Dangling
  BY DEF TreeLife, Dangling
<1>2. CASE CountReads(c) \/ CountWrites(c)
  <2>1. Counts(c)
    BY <1>2 DEF CountReads, CountWrites, Counts
  <2>2. hook[c].e \in live
    BY <2>1, HookEntry DEF TreeLife
  <2> QED
    BY <1>2, <2>2 DEF CountReads, CountWrites, Misuse
<1>3. ASSUME NEW a \in Addr, NEW i \in TypeIdx, CountBegins(c, a, i)
      PROVE  bad' \subseteq IF "type" \in hist' THEN {"count"} ELSE {}
  <2>1. CASE Matches(a) = {}
    BY <1>1, <1>3, <2>1 DEF CountBegins, Misuse
  <2>2. CASE Matches(a) # {}
    <3>1. PICK e \in Matches(a) : Misuse("count", Dangling \/ i >= cap[e]) /\ Note("type", i >= cap[e])
      BY <1>3, <2>2 DEF CountBegins
    <3> QED
      BY <1>1, <3>1 DEF Misuse, Note
  <2> QED
    BY <2>1, <2>2
<1> QED
  BY <1>2, <1>3

LEMMA SafeStep ==
  ASSUME Inv1, ModuleLife, TreeLife, CapLife, SeenLife, Next, "failed" \notin hist'
  PROVE  MemorySafe'
<1>1. bad = {} /\ hist \subseteq hist'
  BY HistGrows DEF Next
<1>2. ASSUME NEW t \in Caller, Ioctl(t)  PROVE MemorySafe'
  BY <1>1, <1>2, SafeIoctl DEF MemorySafe
<1>3. ASSUME NEW c \in CPU,
             CountReads(c) \/ CountWrites(c) \/ \E a \in Addr, i \in TypeIdx : CountBegins(c, a, i)
      PROVE  MemorySafe'
  BY <1>1, <1>3, SafeHook DEF MemorySafe
<1>4. ASSUME NEW e \in Entries, ip_counter_show(e)  PROVE MemorySafe'
  <2>1. visible[e] # "no" /\ bad' = IF e \notin live THEN {"proc"} ELSE IF cap[e] < maxtype THEN {"show"} ELSE {}
    BY <1>1, <1>4 DEF ip_counter_show
  <2>2. e \notin live => "early" \in hist
    BY <2>1 DEF SeenLife
  <2>3. e \in live /\ cap[e] < maxtype => "twice" \in hist
    <3>1. cap[e] \in Nat
      BY TypeParts DEF Inv1, EntryTypes, Type
    <3> QED
      BY <3>1 DEF CapLife
  <2> QED
    BY <1>1, <2>1, <2>2, <2>3 DEF MemorySafe
<1>5. ASSUME Module  PROVE MemorySafe'
  <2>1. CASE nfs_hook_init \/ InitHooks \/ InitDirs \/ InitFails \/ InitEnds \/ ExitEnds
    BY <1>1, <2>1 DEF nfs_hook_init, InitHooks, InitDirs, InitFails, InitEnds, ExitEnds, MemorySafe
  <2>2. CASE nfs_hook_exit
    <3>1. bad' = (IF ~ hooked THEN {"exit"} ELSE {}) /\ hist' = hist
      BY <1>1, <2>2 DEF nfs_hook_exit, CleanBegins, Misuse
    <3>2. ~ hooked => "deaf" \in hist
      BY <2>2 DEF nfs_hook_exit, ModuleLife
    <3> QED
      BY <3>1, <3>2 DEF MemorySafe
  <2> QED
    BY <1>5, <2>1, <2>2 DEF Module
<1> QED
  BY <1>1, <1>2, <1>3, <1>4, <1>5 DEF Next

LEMMA Inv4Init == Init => Inv4
<1> SUFFICES ASSUME Init  PROVE LifeInv /\ MemorySafe
  BY Inv1Init DEF Inv4
<1>1. MemorySafe
  BY DEF Init, MemorySafe
<1>2. ModuleLife /\ TreeLife
  BY DEF Init, ModuleLife, TreeLife
<1>3. CapLife /\ SeenLife
  BY DEF Init, CapLife, SeenLife
<1> QED
  BY <1>1, <1>2, <1>3, LifeParts

LEMMA Inv4Step ==
  ASSUME Inv4, [Next]_vars
  PROVE  Inv4'
<1>1. Inv1'
  BY Inv1Step DEF Inv4
<1>2. CASE Next
  <2>1. CASE "failed" \in hist'
    BY <1>1, <2>1, LifePartsNext DEF Inv4, MemorySafe
  <2>2. CASE "failed" \notin hist'
    <3>1. Inv1 /\ ModuleLife /\ TreeLife /\ CapLife /\ SeenLife
      BY <1>2, <2>2, HistGrows, LifeParts DEF Inv4
    <3>2. ModuleLife' /\ TreeLife'
      BY <1>2, <2>2, <3>1, ModuleStep, TreeStep
    <3>3. CapLife' /\ SeenLife'
      BY <1>2, <2>2, <3>1, CapStep, SeenStep
    <3>4. MemorySafe'
      BY <1>2, <2>2, <3>1, SafeStep
    <3> QED
      BY <1>1, <3>2, <3>3, <3>4, LifePartsNext DEF Inv4
  <2> QED
    BY <2>1, <2>2
<1>3. CASE UNCHANGED vars
  <2>1. MemorySafe'
    BY <1>3 DEF vars, Inv4, MemorySafe
  <2>2. LifeInv'
    BY <1>3 DEF vars, Inv4, LifeInv, Holds
  <2> QED
    BY <1>1, <2>1, <2>2 DEF Inv4
<1> QED
  BY <1>2, <1>3

\* Nobody touches an entry that is freed or a counter that is not there, but in
\* the ways that MemorySafe names.
THEOREM MemoryIsSafe == Spec => []MemorySafe
<1>1. Inv4 => MemorySafe
  BY DEF Inv4
<1> QED
  BY <1>1, Inv4Init, Inv4Step, PTL DEF Spec

=============================================================================
