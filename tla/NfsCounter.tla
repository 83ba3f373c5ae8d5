----------------------------- MODULE NfsCounter -----------------------------
(***************************************************************************)
(* The counters of nfstat (ip_counter.c) with what drives them             *)
(* (nfs_hook.c): user threads that initialise, add, remove and read        *)
(* addresses by ioctl, hooks that count packets on every CPU, readers of   *)
(* the proc entries, and the module's own coming and going.  The red-black *)
(* tree is the set of its entries; which rule a packet meets is NfsRule's  *)
(* subject, here a packet comes with the index of its rule.                *)
(***************************************************************************)
EXTENDS Integers, Functions

CONSTANTS
  Caller,     \* user threads
  NCpu,
  Addr,       \* the addresses of ioctls and packets, as nfs_ipaddr structures
  Stored,     \* what addipentry keeps of one: its first len bytes
  Empty, Long,  \* those whose len is 0; is larger than the room in an entry
  Nums,       \* what is passed to NFS_CMD_INIT
  TypeIdx,    \* the typeidx of the rules
  Entries,    \* bound: the ip_counter_entry structures there can be at a time
  MaxPkts     \* bound: packets counted on a CPU

CPU == 0 .. NCpu - 1
NoAddr == "none"
NoEntry == "NULL"

ASSUME CounterAssumption ==
  /\ NCpu \in Nat \ {0} /\ Nums \subseteq 0 .. 255 /\ TypeIdx \subseteq 0 .. 255
  /\ Empty \cup Long \subseteq Addr
  /\ DOMAIN Stored = Addr /\ NoAddr \notin Addr \cup Range(Stored)
  /\ NoEntry \notin Entries /\ MaxPkts \in Nat

Type == 0 .. 255
Idle == [pc |-> "user", ip |-> NoAddr, e |-> NoEntry, i |-> 0, cpu |-> 0, v |-> 0, low |-> 0]
NoHook == [pc |-> "out", e |-> NoEntry, i |-> 0, v |-> 0]

VARIABLES
  module, device, hooked, dirs,  \* the module: "out", "init", "hooks", "fails", "in",
                                 \* "exits"; cdev, hooks, proc directories
  maxtype,       \* maxtype
  call,          \* by thread: the ioctl it is in: step, address, entry, loop variables,
                 \* sum, and (history) what the sum was when it began
  hook,          \* by CPU: the hook on it: step, entry, typeidx, the number it read
  live,          \* entries that are allocated
  tree,          \* entries in iptree
  ip, cap,       \* by entry: its address, the types its counters have room for
  visible,       \* by entry: where its proc entry is: "no", "dir", "root"
  number,        \* by entry, CPU and type: counter[..].number
  counted,       \* history: by entry and type, the packets its hooks are done with
  pkts,          \* by CPU: the packets there were (bounded)
  bad, hist      \* history: misused memory; {"early", "long", "twice",
                 \* "deaf", "failed", "type"}

modvars  == <<module, device, hooked, dirs>>
entries  == <<live, tree, ip, cap, visible, number, counted>>
vars == <<modvars, maxtype, call, hook, entries, pkts, bad, hist>>

Zero == [c \in CPU |-> [i \in TypeIdx |-> 0]]

Init ==
  /\ module = "out" /\ device = FALSE /\ hooked = FALSE /\ dirs = FALSE
  /\ maxtype = 0
  /\ call = [t \in Caller |-> Idle] /\ hook = [c \in CPU |-> NoHook]
  /\ live = {} /\ tree = {}
  /\ ip = [e \in Entries |-> NoAddr] /\ cap = [e \in Entries |-> 0]
  /\ visible = [e \in Entries |-> "no"]
  /\ number = [e \in Entries |-> Zero] /\ counted = [e \in Entries |-> Zero[0]]
  /\ pkts = [c \in CPU |-> 0] /\ bad = {} /\ hist = {}

Misuse(who, wrong) == bad' = IF wrong THEN bad \cup {who} ELSE bad
Note(what, when) == hist' = IF when THEN hist \cup {what} ELSE hist

\* iptreelock: nobody holds it for reading.  A writer's section is one step.
\* (Mutation: the writers take it for reading.)
ReadLock == TRUE

NoReader ==
  /\ \A t \in Caller : call[t].pc \notin {"sum", "sent"}
  /\ \A c \in CPU : hook[c].pc = "out"

\* findipentry, which compares the whole structure.  A walk over a freed entry
\* is a misuse.
Matches(a) == {e \in tree : ip[e] = a}
Dangling == ~ tree \subseteq live

-----------------------------------------------------------------------------
(***************************************************************************)
(* nfs_ioctl, by a thread that has the device open while it is in there.   *)
(***************************************************************************)
\* NFS_CMD_INIT: the test, ...
CmdInit(t) ==
  /\ device /\ call[t] = Idle
  /\ maxtype = 0
  /\ call' = [call EXCEPT ![t].pc = "init"]
  /\ UNCHANGED <<modvars, maxtype, hook, entries, pkts, bad, hist>>

\* ... and nfsinit, after a copy that may fail.
nfsinit(t, max) ==
  /\ call[t].pc = "init"
  /\ maxtype' \in {maxtype, IF max > 0 THEN max ELSE maxtype}
  /\ Note("twice", maxtype' # maxtype /\ maxtype > 0)
  /\ call' = [call EXCEPT ![t] = Idle]
  /\ UNCHANGED <<modvars, hook, entries, pkts, bad>>

\* The other commands need a maxtype.  Each is one step up to the first lock it
\* takes or to the first thing others see of it.
Commands(t) == device /\ call[t] = Idle /\ maxtype # 0

Return(t) == call' = [call EXCEPT ![t] = Idle]

\* An id that nobody remembers.
Fresh == {e \in Entries \ (live \cup tree) :
  visible[e] = "no" /\ (\A t \in Caller : call[t].e # e) /\ \A c \in CPU : hook[c].e # e}

\* What newentry->ip gets (mutation: nothing).
KeptNothing(a) == NoAddr

Kept(a) == Stored[a]

\* NFS_CMD_ADDIP, create: the counters get room for maxtype types.  While the
\* module is still in its init ipcounter_dir may be NULL, and the proc entry is
\* in the root then; after an init that failed it points to a directory that is
\* gone.  If an allocation or proc_create_data fails nothing is left.  Then len
\* bytes are copied into the entry: what is too long runs over its counter.
create(t, a) ==
  /\ Commands(t) /\ a \notin Empty
  /\ \E e \in Fresh :
       /\ live' = live \cup {e}
       /\ cap' = [cap EXCEPT ![e] = maxtype]
       /\ ip' = [ip EXCEPT ![e] = Kept(a)]
       /\ visible' = [visible EXCEPT ![e] = IF dirs THEN "dir" ELSE "root"]
       /\ call' = [call EXCEPT ![t].pc = "insert", ![t].ip = a, ![t].e = e]
  /\ hist' = hist \cup (IF dirs THEN {} ELSE {"early"}) \cup (IF a \in Long THEN {"long"} ELSE {})
  /\ Misuse("add", a \in Long \/ (~ dirs /\ module = "in"))
  /\ UNCHANGED <<modvars, maxtype, hook, tree, number, counted, pkts>>

\* The entry the walk ends at, if the address is there already (mutation: nobody
\* looks).
NobodyThere(a) == {}

There(a) == Matches(a)

addipentry(t) ==
  /\ call[t].pc = "insert" /\ NoReader
  /\ Misuse("add", Dangling)
  /\ IF There(call[t].ip) = {}
       THEN tree' = tree \cup {call[t].e} /\ Return(t)
       ELSE tree' = tree /\ call' = [call EXCEPT ![t].pc = "delete"]
  /\ UNCHANGED <<modvars, maxtype, hook, live, ip, cap, visible, number, counted, pkts, hist>>

\* NFS_CMD_RMVIP erases one of the entries with the address, if there is one.
rmvipentry(t, a) ==
  /\ Commands(t) /\ NoReader
  /\ Misuse("remove", Dangling)
  /\ IF Matches(a) = {} THEN UNCHANGED <<tree, call>>
     ELSE \E e \in Matches(a) :
       tree' = tree \ {e} /\ call' = [call EXCEPT ![t].pc = "delete", ![t].e = e]
  /\ UNCHANGED <<modvars, maxtype, hook, live, ip, cap, visible, number, counted, pkts, hist>>

\* delete, outside the lock.  remove_proc_entry waits for the readers of the
\* entry, but only finds it in the directory there is now.
Free(s) ==
  /\ live' = live \ s
  /\ ip' = [e \in Entries |-> IF e \in s THEN NoAddr ELSE ip[e]]
  /\ cap' = [e \in Entries |-> IF e \in s THEN 0 ELSE cap[e]]
  /\ number' = [e \in Entries |-> IF e \in s THEN Zero ELSE number[e]]
  /\ counted' = [e \in Entries |-> IF e \in s THEN Zero[0] ELSE counted[e]]

Unseen(s) == [e \in Entries |-> IF e \in s /\ visible[e] = (IF dirs THEN "dir" ELSE "root")
                                THEN "no" ELSE visible[e]]

delete(t) ==
  /\ call[t].pc = "delete"
  /\ visible' = Unseen({call[t].e})
  /\ Free({call[t].e})
  /\ Return(t)
  /\ UNCHANGED <<modvars, maxtype, hook, tree, pkts, bad, hist>>

-----------------------------------------------------------------------------
(***************************************************************************)
(* nfs_getcounter_perip.  The types are read one after the other and alike:*)
(* one of them is followed.                                                *)
(***************************************************************************)
\* What the first m CPUs add up to, for every m; of a counter; on all of them.
Sums(f) == LET sum[m \in 0 .. NCpu] == IF m = 0 THEN 0 ELSE sum[m - 1] + f[m - 1] IN sum

UpTo(e, i)  == Sums([c \in CPU |-> number[e][c][i]])
Total(e, i) == UpTo(e, i)[NCpu]

\* vmalloc fails, whose result is tested after it was used, or the walk meets a
\* freed entry.  If the buffer is too small or the address is not there nothing
\* happens.
GetFails(t) ==
  /\ Commands(t)
  /\ bad' \in {bad \cup {"vmalloc"}} \cup (IF Dangling THEN {bad \cup {"get"}} ELSE {})
  /\ UNCHANGED <<modvars, maxtype, call, hook, entries, pkts, hist>>

GetFinds(t, a, i) ==
  /\ Commands(t) /\ i < maxtype
  /\ \E e \in Matches(a) :
       /\ Misuse("get", Dangling \/ i >= cap[e])
       /\ call' = [call EXCEPT ![t].pc = "sum", ![t].e = e, ![t].i = i, ![t].low = Total(e, i)]
  /\ UNCHANGED <<modvars, maxtype, hook, entries, pkts, hist>>

\* (Mutation: the last CPU is left out.)
LastCpuOff == NCpu - 2

LastCpu == NCpu - 1

GetSums(t) ==
  LET g == call[t] IN
  /\ g.pc = "sum"
  /\ Misuse("get", g.e \notin live)
  /\ call' = [call EXCEPT ![t] = [g EXCEPT
       !.v = @ + number[g.e][g.cpu][g.i],
       !.cpu = @ + 1,
       !.pc = IF g.cpu < LastCpu THEN "sum" ELSE "sent"]]
  /\ UNCHANGED <<modvars, maxtype, hook, entries, pkts, hist>>

\* The lock is released, the sums are copied.
GetEnds(t) ==
  /\ call[t].pc = "sent" /\ Return(t)
  /\ UNCHANGED <<modvars, maxtype, hook, entries, pkts, bad, hist>>

-----------------------------------------------------------------------------
(***************************************************************************)
(* hookfn and hookfn6, for a packet whose rule has an index, and           *)
(* inccounter.                                                             *)
(***************************************************************************)
\* The index is not compared with maxtype.  The hook itself makes the address.
CountBegins(c, a, i) ==
  /\ a \notin Empty \cup Long
  /\ hooked /\ hook[c].pc = "out" /\ pkts[c] < MaxPkts
  /\ pkts' = [pkts EXCEPT ![c] = @ + 1]
  /\ IF Matches(a) = {} THEN hook' = hook /\ Misuse("count", Dangling) /\ hist' = hist
     ELSE \E e \in Matches(a) :
       /\ hook' = [hook EXCEPT ![c] = [pc |-> "read", e |-> e, i |-> i, v |-> 0]]
       /\ Misuse("count", Dangling \/ i >= cap[e])
       /\ Note("type", i >= cap[e])
  /\ UNCHANGED <<modvars, maxtype, call, entries>>

\* Whose vector it is (mutation: that of the first CPU).
VectorOfFirst(c) == 0

VectorOf(c) == c

\* number++ reads, ...
CountReads(c) ==
  LET h == hook[c] IN
  /\ h.pc = "read"
  /\ Misuse("count", h.e \notin live)
  /\ hook' = [hook EXCEPT ![c].pc = "write", ![c].v = number[h.e][VectorOf(c)][h.i]]
  /\ UNCHANGED <<modvars, maxtype, call, entries, pkts, hist>>

\* ... and writes; then the lock is released.
CountWrites(c) ==
  LET h == hook[c] IN
  /\ h.pc = "write"
  /\ Misuse("count", h.e \notin live)
  /\ number' = [number EXCEPT ![h.e][VectorOf(c)][h.i] = h.v + 1]
  /\ counted' = [counted EXCEPT ![h.e][h.i] = @ + 1]
  /\ hook' = [hook EXCEPT ![c] = NoHook]
  /\ UNCHANGED <<modvars, maxtype, call, live, tree, ip, cap, visible, pkts, hist>>

\* ip_counter_show, which remove_proc_entry waits for.
ip_counter_show(e) ==
  /\ visible[e] # "no"
  /\ bad' = bad \cup (IF e \notin live THEN {"proc"} ELSE IF cap[e] < maxtype THEN {"show"} ELSE {})
  /\ UNCHANGED <<modvars, maxtype, call, hook, entries, pkts, hist>>

-----------------------------------------------------------------------------
(***************************************************************************)
(* The module.  nfs_hook_init returns a positive number when it has no     *)
(* device, and 0 when it has no proc directory: the kernel keeps the       *)
(* module either way.                                                      *)
(***************************************************************************)
nfs_hook_init ==
  /\ module = "out"
  /\ \/ module' = "init" /\ device' = TRUE /\ hist' = hist
     \/ module' = "in" /\ device' = FALSE /\ hist' = hist \cup {"failed"}
  /\ UNCHANGED <<hooked, dirs, maxtype, call, hook, entries, pkts, bad>>

\* Nobody asks whether the kernel took the hooks.
InitHooks ==
  /\ module = "init" /\ module' = "hooks"
  /\ \/ hooked' = TRUE /\ hist' = hist
     \/ hooked' = FALSE /\ hist' = hist \cup {"deaf"}
  /\ UNCHANGED <<device, dirs, maxtype, call, hook, entries, pkts, bad>>

InitDirs ==
  /\ module = "hooks" /\ dirs' = TRUE /\ module' = "in"
  /\ UNCHANGED <<device, hooked, maxtype, call, hook, entries, pkts, bad, hist>>

\* nfs_hook_clean: cdev_del, nf_unregister_hooks, which breaks the list of the
\* kernel if the hooks are not there, ...
CleanBegins == Misuse("exit", ~ hooked) /\ device' = FALSE /\ hooked' = FALSE

InitFails ==
  /\ module = "hooks"
  /\ module' = "fails" /\ CleanBegins
  /\ hist' = hist \cup {"failed"}
  /\ UNCHANGED <<dirs, maxtype, call, hook, entries, pkts>>

nfs_hook_exit ==
  /\ module = "in" /\ \A t \in Caller : call[t] = Idle
  /\ module' = "exits" /\ CleanBegins
  /\ UNCHANGED <<dirs, maxtype, call, hook, entries, pkts, hist>>

\* ... which waits for the hooks, and clear_iptree, which frees the entries but
\* leaves the root of the tree; remove_proc_subtree.
Clears(left) ==
  /\ NoReader
  /\ Free(tree) /\ tree' = left
  /\ visible' = [e \in Entries |-> IF visible[e] = "dir" THEN "no" ELSE Unseen(tree)[e]]
  /\ dirs' = FALSE
  /\ UNCHANGED <<device, hooked, call, hook, pkts>>

InitEnds ==
  /\ module = "fails" /\ module' = "in"
  /\ Clears(tree)
  /\ UNCHANGED <<maxtype, bad, hist>>

\* The module's variables go with it.
ExitEnds ==
  /\ module = "exits" /\ module' = "out"
  /\ Clears({})
  /\ maxtype' = 0 /\ UNCHANGED <<bad, hist>>

-----------------------------------------------------------------------------
Ioctl(t) ==
  \/ CmdInit(t) \/ \E m \in Nums : nfsinit(t, m)
  \/ addipentry(t) \/ delete(t)
  \/ \E a \in Addr : create(t, a) \/ rmvipentry(t, a) \/ \E i \in TypeIdx : GetFinds(t, a, i)
  \/ GetFails(t)
  \/ GetSums(t) \/ GetEnds(t)

Module ==
  \/ nfs_hook_init \/ InitHooks \/ InitDirs \/ InitFails \/ InitEnds
  \/ nfs_hook_exit \/ ExitEnds

\* After memory was misused the program has no defined behaviour.
Next ==
  /\ bad = {}
  /\ \/ \E t \in Caller : Ioctl(t)
     \/ \E c \in CPU : CountReads(c) \/ CountWrites(c)
     \/ \E c \in CPU, a \in Addr, i \in TypeIdx : CountBegins(c, a, i)
     \/ \E e \in Entries : ip_counter_show(e)
     \/ Module

Spec == Init /\ [][Next]_vars
-----------------------------------------------------------------------------
(***************************************************************************)
(* Properties.                                                             *)
(***************************************************************************)

\* Every variable has the values its C type and its use allow.
TypeOK ==
  /\ module \in {"out", "init", "hooks", "fails", "in", "exits"}
  /\ {device, hooked, dirs} \subseteq BOOLEAN
  /\ maxtype \in Type
  /\ call \in [Caller ->
       [pc : {"user", "init", "insert", "delete", "sum", "sent"},
        ip : Addr \cup {NoAddr}, e : Entries \cup {NoEntry}, i : Type, cpu : 0 .. NCpu,
        v : Nat, low : Nat]]
  /\ hook \in [CPU -> [pc : {"out", "read", "write"}, e : Entries \cup {NoEntry},
                       i : Type, v : Nat]]
  /\ live \subseteq Entries /\ tree \subseteq Entries
  /\ ip \in [Entries -> Range(Stored) \cup {NoAddr}] /\ live = {e \in Entries : ip[e] # NoAddr}
  /\ cap \in [Entries -> Type]
  /\ visible \in [Entries -> {"no", "dir", "root"}]
  /\ number \in [Entries -> [CPU -> [TypeIdx -> Nat]]]
  /\ counted \in [Entries -> [TypeIdx -> Nat]]
  /\ pkts \in [CPU -> 0 .. MaxPkts]
  /\ bad \subseteq {"add", "remove", "get", "vmalloc", "count", "show", "proc", "exit"}
  /\ hist \subseteq {"early", "long", "twice", "deaf", "failed", "type"}

\* Hooks, ioctls, proc readers and the module's exit never touch an entry that
\* is freed, or a counter that an entry has no room for.  Named are the ways
\* this fails: a vmalloc that fails, a rule with an index that is not below
\* maxtype, two NFS_CMD_INIT at a time (entries made before the second are too
\* small), an ioctl before the module has its proc directories, an address with a
\* len that no address has, hooks that the kernel refused and the exit
\* unregisters, and an nfs_hook_init that failed but left the module in.
MemorySafe ==
  \/ "failed" \in hist
  \/ bad \subseteq {"vmalloc"} \cup (IF "type" \in hist THEN {"count"} ELSE {})
           \cup (IF "long" \in hist THEN {"add"} ELSE {})
           \cup (IF "deaf" \in hist THEN {"exit"} ELSE {})
           \cup (IF "twice" \in hist THEN {"get", "show"} ELSE {})
           \cup (IF "early" \in hist THEN {"proc"} ELSE {})

\* What NFS_CMD_GETCOUNTER returns for a type lies between what the counters of
\* all CPUs added up to when it began and what they add up to now, although it
\* reads one CPU after the other while the hooks count.
ReadRegular ==
  \A t \in Caller : LET g == call[t] IN
    g.pc = "sent" => g.low <= g.v /\ g.v <= Total(g.e, g.i)

\* No packet is counted twice or forgotten: number++ is no atomic step, and what
\* keeps two CPUs apart is that each has a vector of its own.
CountsKept == \A e \in live, i \in TypeIdx : Total(e, i) = counted[e][i]

\* An address has one entry, whoever adds it at the same time, so that its
\* packets are counted in one place and a removal removes it; but for an address
\* that a longer one is cut to: that one may be added again and again.
OneEntry ==
  \A e, f \in tree \cap live : ip[e] = ip[f] =>
    e = f \/ \E a \in Addr : Stored[a] = ip[e] /\ a # ip[e]

-----------------------------------------------------------------------------
(***************************************************************************)
(* Inductive invariants (NfsCounterProof).                                 *)
(***************************************************************************)
\* A thread that has an entry of its own, before it is in the tree or after; one
\* that reads an entry under the lock; and a hook that does.
Holds(t)  == call[t].pc \in {"insert", "delete"}
Reads(t)  == call[t].pc \in {"sum", "sent"}
Counts(c) == hook[c].pc # "out"

\* The lock keeps what is read in the tree; what a thread holds is its own.
CallInv ==
  /\ \A t \in Caller : Holds(t) => call[t].e \in Entries \ tree
  /\ \A t, u \in Caller : Holds(t) /\ Holds(u) /\ call[t].e = call[u].e => t = u
  /\ \A t \in Caller : call[t].pc = "insert" => call[t].ip \in Addr /\ ip[call[t].e] = Kept(call[t].ip)
  /\ \A t \in Caller : Reads(t) => call[t].e \in tree /\ call[t].i \in TypeIdx
  /\ \A t \in Caller : call[t].pc = "sum" => call[t].cpu < NCpu
  /\ \A t \in Caller : call[t].pc = "sent" => call[t].cpu = NCpu
  /\ \A c \in CPU : Counts(c) => hook[c].e \in tree /\ hook[c].i \in TypeIdx

\* Nobody writes to a CPU's vector between the two halves of its number++.
NumberInv ==
  /\ \A e \in Entries, i \in TypeIdx : Total(e, i) = counted[e][i]
  /\ \A c \in CPU : hook[c].pc = "write" => hook[c].v = number[hook[c].e][c][hook[c].i]

\* A sum is between what the CPUs it has read were at the begin and what they are.
SumInv ==
  \A t \in Caller : LET g == call[t] IN Reads(t) =>
    /\ g.v <= UpTo(g.e, g.i)[g.cpu]
    /\ g.low <= g.v + (Total(g.e, g.i) - UpTo(g.e, g.i)[g.cpu])

Inv1 == TypeOK /\ CallInv
Inv2 == Inv1 /\ NumberInv /\ SumInv
Inv3 == Inv1 /\ OneEntry

\* What goes with the module, and what an entry is made of.
LifeInv ==
  \/ "failed" \in hist
  \/ /\ module # "fails"
     /\ device => module \in {"init", "hooks", "in"}
     /\ module = "in" => dirs
     /\ module \in {"hooks", "in"} => hooked \/ "deaf" \in hist
     /\ module \in {"out", "exits"} => \A t \in Caller : call[t] = Idle
     /\ tree \subseteq live
     /\ \A e \in live \ tree : \E t \in Caller : Holds(t) /\ call[t].e = e
     /\ maxtype = 0 => live = {}
     /\ "twice" \in hist \/ \A e \in live : cap[e] = maxtype
     /\ "early" \in hist \/ \A e \in Entries : visible[e] # "no" => visible[e] = "dir" /\ dirs /\ e \in live

Inv4 == Inv1 /\ LifeInv /\ MemorySafe
=============================================================================
