------------------------------ MODULE NfsRule -------------------------------
(***************************************************************************)
(* The rules of nfstat (ip_rule.c): a red-black tree of rules, ordered by  *)
(* rulecmp, in which 0 is a wildcard, and guarded by the rwlock            *)
(* ruletreelock.  User threads add and remove rules, hooks search the rule *)
(* of a packet.  A turn of a walk down the tree is a step.                 *)
(* The kernel's rbtree is external.  What it promises is that linking,     *)
(* colouring and erasing keep the in-order sequence of the nodes; so the   *)
(* tree is that sequence, a subtree is an interval of it, and the root of  *)
(* a subtree is any element of its interval.                               *)
(***************************************************************************)
EXTENDS Integers, SequencesExt

CONSTANTS
  Thread,    \* user threads and contexts that execute a hook
  Rules,     \* what users add and remove: struct nfs_rule
  Packets,   \* what hooks look for: a struct nfs_rule made of a packet
  MaxRules   \* how many rules the tree is given

FieldName == {"protocol", "dir", "lport", "rport", "lip", "rip"}

\* Ports, directions and protocols are numbers.  An address is the number of
\* its place in the order of ipcmp (by length, then memcmp); length 0 is 0.
Rule == [FieldName \cup {"typeidx"} -> Nat]

ASSUME RuleAssumption == Rules \subseteq Rule /\ Packets \subseteq Rule

None == -2
No   == -1
Yes  == 0

VARIABLES
  order,    \* the rules of the tree, in order
  pc,       \* "idle", "add", "rmv", "find"; not idle: the lock is held
  arg,      \* the rule or packet of the call
  lo, hi,   \* the subtree the walk stands at; empty: node is NULL
  got       \* what the call is going to return, None while it walks

vars == <<order, pc, arg, lo, hi, got>>

NoRule == [f \in FieldName \cup {"typeidx"} |-> 0]

Init ==
  /\ order = <<>>
  /\ pc = [t \in Thread |-> "idle"]
  /\ arg = [t \in Thread |-> NoRule]
  /\ lo = [t \in Thread |-> 1] /\ hi = [t \in Thread |-> 0]
  /\ got = [t \in Thread |-> None]
-----------------------------------------------------------------------------
(***************************************************************************)
(* rulecmp: the fields in the order in which they are compared.  Only the  *)
(* protocol has no wildcard.                                               *)
(***************************************************************************)
Fields == <<"protocol", "dir", "lport", "rport", "lip", "rip">>

Differ(a, b, k) ==
  LET f == Fields[k] IN a[f] # b[f] /\ (k = 1 \/ (a[f] # 0 /\ b[f] # 0))

\* rulecmp(a, b) > 0: a is greater in the first field in which they differ
\* (mutation: in some field).
GreaterSome(a, b) ==
  \E k \in 1 .. 6 : Differ(a, b, k) /\ a[Fields[k]] > b[Fields[k]]

Greater(a, b) ==
  \E k \in 1 .. 6 :
    /\ Differ(a, b, k) /\ a[Fields[k]] > b[Fields[k]]
    /\ \A j \in 1 .. k - 1 : ~ Differ(a, b, j)

\* rulecmp(a, b) = 0.
Same(a, b) == ~ Greater(a, b) /\ ~ Greater(b, a)

-----------------------------------------------------------------------------
(***************************************************************************)
(* The lock.  (Mutations: readers do not wait; the writer waits for        *)
(* writers only.)                                                          *)
(***************************************************************************)
Writing(t) == pc[t] \in {"add", "rmv"}

CanReadAlways == TRUE

CanRead == \A u \in Thread : ~ Writing(u)

CanWriteShared == \A u \in Thread : ~ Writing(u)

CanWrite == \A u \in Thread : pc[u] = "idle"

\* The lock is taken and the walk begins at the root.
Enter(t, call, r) ==
  /\ pc[t] = "idle"
  /\ pc' = [pc EXCEPT ![t] = call]
  /\ arg' = [arg EXCEPT ![t] = r]
  /\ lo' = [lo EXCEPT ![t] = 1]
  /\ hi' = [hi EXCEPT ![t] = Len(order)]
  /\ UNCHANGED <<order, got>>

\* addnfsrule.  One that cannot create its entry returns before this.
AddLock(t, r) == CanWrite /\ Len(order) < MaxRules /\ Enter(t, "add", r)

RmvLock(t, r) == CanWrite /\ Enter(t, "rmv", r)

\* get_typeidx, called by hookfn and hookfn6.
FindLock(t, p) == CanRead /\ Enter(t, "find", p)

-----------------------------------------------------------------------------
(***************************************************************************)
(* The walk of addnfsrule and findnfsrule; m is the root of the subtree.   *)
(***************************************************************************)
Walks(t) == pc[t] # "idle" /\ got[t] = None

\* (Mutation: to the left child of the left child.)
GoLeftTwice(t, m) ==
  /\ Walks(t) /\ m \in lo[t] .. hi[t]
  /\ Greater(order[m], arg[t])
  /\ hi' = [hi EXCEPT ![t] = m - 2]
  /\ UNCHANGED <<order, pc, arg, lo, got>>

GoLeft(t, m) ==
  /\ Walks(t) /\ m \in lo[t] .. hi[t]
  /\ Greater(order[m], arg[t])
  /\ hi' = [hi EXCEPT ![t] = m - 1]
  /\ UNCHANGED <<order, pc, arg, lo, got>>

GoRight(t, m) ==
  /\ Walks(t) /\ m \in lo[t] .. hi[t]
  /\ Greater(arg[t], order[m])
  /\ lo' = [lo EXCEPT ![t] = m + 1]
  /\ UNCHANGED <<order, pc, arg, hi, got>>

\* The walk is over: node m was met, or there is no node.
Meets(t, m) == Walks(t) /\ m \in lo[t] .. hi[t] /\ Same(arg[t], order[m])

Misses(t) == Walks(t) /\ lo[t] > hi[t]

Tell(t, a) ==
  /\ got' = [got EXCEPT ![t] = a]
  /\ UNCHANGED <<pc, arg, lo, hi>>

AddRefused(t, m) ==
  /\ pc[t] = "add" /\ Meets(t, m)
  /\ Tell(t, No)
  /\ UNCHANGED order

\* rb_link_node and rb_insert_color (mutation: linked as the other child).
AddLinkOther(t) ==
  /\ pc[t] = "add" /\ Misses(t)
  /\ order' = InsertAt(order, IF lo[t] > 1 THEN lo[t] - 1 ELSE lo[t], arg[t])
  /\ Tell(t, Yes)

AddLink(t) ==
  /\ pc[t] = "add" /\ Misses(t)
  /\ order' = InsertAt(order, lo[t], arg[t])
  /\ Tell(t, Yes)

\* rb_erase
RmvErase(t, m) ==
  /\ pc[t] = "rmv" /\ Meets(t, m)
  /\ order' = RemoveAt(order, m)
  /\ Tell(t, Yes)

FindHit(t, m) ==
  /\ pc[t] = "find" /\ Meets(t, m)
  /\ Tell(t, order[m].typeidx)
  /\ UNCHANGED order

\* findnfsrule returns NULL.
NotFound(t) ==
  /\ pc[t] \in {"rmv", "find"} /\ Misses(t)
  /\ Tell(t, No)
  /\ UNCHANGED order

\* The lock is released and the call returns; what it freed or made in vain
\* nobody else has seen.
Unlock(t) ==
  /\ got[t] # None
  /\ pc' = [pc EXCEPT ![t] = "idle"]
  /\ arg' = [arg EXCEPT ![t] = NoRule]
  /\ lo' = [lo EXCEPT ![t] = 1] /\ hi' = [hi EXCEPT ![t] = 0]
  /\ got' = [got EXCEPT ![t] = None]
  /\ UNCHANGED order

\* The module is unloaded, its hooks gone; the next one begins with no rules.
\* The root it leaves behind dangles, but goes with the module; where the module
\* stays, because its init failed, NfsCounter shows what comes of such a root.
clear_nfsrule ==
  /\ CanWrite
  /\ order' = <<>>
  /\ UNCHANGED <<pc, arg, lo, hi, got>>

-----------------------------------------------------------------------------
Turn(t, m) ==
  \/ GoLeft(t, m) \/ GoRight(t, m)
  \/ AddRefused(t, m) \/ RmvErase(t, m) \/ FindHit(t, m)

Next ==
  \/ \E t \in Thread :
       \/ \E r \in Rules : AddLock(t, r) \/ RmvLock(t, r)
       \/ \E p \in Packets : FindLock(t, p)
       \/ \E m \in 1 .. Len(order) : Turn(t, m)
       \/ AddLink(t) \/ NotFound(t) \/ Unlock(t)
  \/ clear_nfsrule

Spec == Init /\ [][Next]_vars
-----------------------------------------------------------------------------
(***************************************************************************)
(* Properties.                                                             *)
(***************************************************************************)
\* Every variable has the values its C type and its use allow.
TypeOK ==
  /\ order \in Seq(Rules)
  /\ pc \in [Thread -> {"idle", "add", "rmv", "find"}]
  /\ arg \in [Thread -> Rule]
  /\ lo \in [Thread -> Nat] /\ hi \in [Thread -> Nat]
  /\ got \in [Thread -> Int]

\* The nodes a walk stands at are in the tree until it is over: no thread
\* links or erases nodes under the walk of another.
WalkInTree ==
  \A t \in Thread : Walks(t) => 1 <= lo[t] /\ lo[t] <= hi[t] + 1 /\ hi[t] <= Len(order)

\* A walk leaves no rule behind that compares equal to what it looks for:
\* rules to the left of the subtree are smaller, rules to the right greater.
\* So an add at a leaf doubles no rule, and a removal that finds nothing has
\* nothing to remove.  (rulecmp is an order only among rules that have their
\* wildcards in the same fields.)
NothingBehind ==
  \A t \in Thread :
    Walks(t) =>
      \A k \in 1 .. Len(order) :
        /\ k < lo[t] => Greater(arg[t], order[k])
        /\ k > hi[t] => Greater(order[k], arg[t])

\* nfs.h on rules: what is 0 in a rule it does not care about.
Matches(p, r) == \A f \in FieldName : r[f] = 0 \/ r[f] = p[f]

\* get_typeidx returns -1 only if no rule of the tree matches the packet.
FoundIfMatches ==
  \A t \in Thread :
    pc[t] = "find" /\ got[t] = No => \A k \in 1 .. Len(order) : ~ Matches(arg[t], order[k])

\* Rules, packets and threads behave like a table of rules that is changed and
\* read in one step, although walks are many steps and readers overlap.
Table ==
  INSTANCE RuleTable
  WITH rules <- {order[k] : k \in 1 .. Len(order)}, op <- pc, answer <- got

ImplementsTable == Table!Spec

-----------------------------------------------------------------------------
(***************************************************************************)
(* When the order is one: rules of the same protocol have their wildcards  *)
(* in the same fields, none has protocol 0, and packets have a value       *)
(* wherever a rule of their protocol has.                                  *)
(***************************************************************************)
Uniform ==
  /\ \A r \in Rules : r.protocol # 0
  /\ \A r, s \in Rules : r.protocol = s.protocol => \A f \in FieldName : r[f] = 0 <=> s[f] = 0
  /\ \A p \in Packets, r \in Rules :
       p.protocol = r.protocol => \A f \in FieldName : p[f] = 0 => r[f] = 0

Sorted == \A a, b \in 1 .. Len(order) : a < b => Greater(order[b], order[a])

\* What the lock excludes, and who looks for what.
LockInv ==
  /\ \A t, u \in Thread : Writing(t) /\ u # t => pc[u] = "idle"
  /\ \A t \in Thread :
       /\ pc[t] = "idle" => got[t] = None
       /\ Writing(t) => arg[t] \in Rules
       /\ pc[t] = "find" => arg[t] \in Packets

WalkInv == TypeOK /\ LockInv /\ WalkInTree

TreeInv == Sorted /\ NothingBehind /\ FoundIfMatches
=============================================================================
