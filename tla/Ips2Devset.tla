----------------------------- MODULE Ips2Devset -----------------------------
(***************************************************************************)
(* The device set of ipshark2: devset_init (devset.h), which copies a list *)
(* of device names, hashes it and sorts it by hash; devset_ignore          *)
(* (devset.c), a binary search in it; and ignore (hook.c), which asks for  *)
(* the two devices of a packet.  Turns of the two loops are steps.         *)
(* Calls come one after the other: the set is filled before the hooks that *)
(* ask are registered.                                                     *)
(***************************************************************************)
EXTENDS Integers

CONSTANTS
  Name,      \* device names (strncmp of IFNAMSIZ bytes is their equality)
  NoDev,     \* a NULL net_device
  jhash,     \* the hash of a name
  Configs    \* what devset_init is called with: struct ips_config

ASSUME NameAssumption == NoDev \notin Name
ASSUME HashAssumption == jhash \in [Name -> Nat]
ASSUME ConfigAssumption ==
  \A c \in Configs :
    /\ c.white_black \in BOOLEAN /\ c.devnum \in Nat
    /\ c.devlist \in [0 .. c.devnum - 1 -> Name]

\* An array of no elements (C arrays are functions on 0 .. n-1).
Empty == [k \in 0 .. -1 |-> NoDev]

Packets == [in : Name \cup {NoDev}, out : Name \cup {NoDev}]

NoPacket == [in |-> NoDev, out |-> NoDev]

VARIABLES
  pc,                  \* "rest", "order", "ask", "search", "decide", "oops"
  list,                \* l->devlist of the last devset_init, none after an exit
  black, elenum,       \* data.black, data.elenum
  name, hash, live,    \* data.name, data.hash; whether they are not NULL
  i, tmpname,          \* of __devset_order; whether tmpname was allocated
  pkt, who,            \* of ignore: the two devices, and which one is asked for
  low, high, t,        \* of devset_ignore
  verdict              \* what ignore returned: "ignore", "count", "none" yet

data   == <<black, elenum, name, hash, live>>
search == <<low, high, t>>
vars   == <<pc, list, data, i, tmpname, pkt, who, search, verdict>>

Init ==
  /\ pc = "rest" /\ list = Empty
  /\ black = FALSE /\ elenum = 0
  /\ name = Empty /\ hash = Empty /\ live = FALSE
  /\ i = 0 /\ tmpname = FALSE
  /\ pkt = NoPacket /\ who = "in"
  /\ low = 0 /\ high = -1 /\ t = 0
  /\ verdict = "none"

-----------------------------------------------------------------------------
(***************************************************************************)
(* Filling the set.                                                        *)
(***************************************************************************)

\* The last packet and its verdict are of no more interest.
Forget == pkt' = NoPacket /\ who' = "in" /\ verdict' = "none"

\* Also the end of a devset_init that fails, because devnum is negative or an
\* array cannot be allocated: what the set was before is forgotten.
devset_exit ==
  /\ pc = "rest"
  /\ list' = Empty
  /\ name' = Empty /\ hash' = Empty /\ live' = FALSE
  /\ black' = FALSE
  /\ elenum' = 0
  /\ Forget
  /\ UNCHANGED <<pc, i, tmpname, search>>

\* devset_init gets its arrays; the names are copied and hashed.
devset_init(c) ==
  /\ pc = "rest"
  /\ list' = c.devlist
  /\ black' = c.white_black /\ elenum' = c.devnum
  /\ name' = c.devlist /\ live' = TRUE
  /\ hash' = [k \in 0 .. c.devnum - 1 |-> jhash[c.devlist[k]]]
  /\ i' = 0 /\ tmpname' \in BOOLEAN
  /\ pc' = "order"
  /\ Forget
  /\ UNCHANGED search

\* The inner loop of __devset_order: the first of the smallest hashes.
Small ==
  CHOOSE s \in i .. elenum - 1 :
    /\ \A j \in i .. elenum - 1 : hash[s] <= hash[j]
    /\ \A j \in i .. s - 1 : hash[s] < hash[j]

\* The array with the entries at a and b exchanged (mutation: the last memcpy
\* forgotten).
SwappedHalf(f, a, b) == [f EXCEPT ![a] = f[b]]

Swapped(f, a, b) == [f EXCEPT ![a] = f[b], ![b] = f[a]]

\* A turn of the outer loop.
OrderTurn ==
  /\ pc = "order" /\ i < elenum
  /\ Small # i => tmpname
  /\ hash' = Swapped(hash, i, Small)
  /\ name' = Swapped(name, i, Small)
  /\ i' = i + 1
  /\ UNCHANGED <<pc, list, black, elenum, live, tmpname, pkt, who, search, verdict>>

\* memcpy to a tmpname that was not allocated: the kernel does not survive it.
OrderOops ==
  /\ pc = "order" /\ i < elenum
  /\ Small # i /\ ~ tmpname
  /\ pc' = "oops"
  /\ UNCHANGED <<list, data, i, tmpname, pkt, who, search, verdict>>

OrderDone ==
  /\ pc = "order" /\ i >= elenum
  /\ pc' = "rest" /\ i' = 0 /\ tmpname' = FALSE
  /\ UNCHANGED <<list, data, pkt, who, search, verdict>>

-----------------------------------------------------------------------------
(***************************************************************************)
(* Asking.  ignore asks for the input device, then for the output device,  *)
(* and stops at the first that is not to be ignored.                       *)
(***************************************************************************)
dev == pkt[who]
h   == jhash[dev]

\* A hook runs ignore.
Hook(p) ==
  /\ pc = "rest"
  /\ pkt' = p /\ who' = "in"
  /\ pc' = "ask"
  /\ verdict' = "none"
  /\ UNCHANGED <<list, data, i, tmpname, search>>

\* What ignore does when devset_ignore returns v; the locals of the search die.
Answer(v) ==
  /\ pc' = IF v /\ who = "in" THEN "ask" ELSE "rest"
  /\ who' = IF v THEN "out" ELSE who
  /\ verdict' = IF ~ v THEN "count" ELSE IF who = "out" THEN "ignore" ELSE verdict
  /\ low' = 0 /\ high' = -1 /\ t' = 0
  /\ UNCHANGED <<list, data, i, tmpname, pkt>>

AskNobody ==
  /\ pc = "ask" /\ dev = NoDev
  /\ Answer(TRUE)

\* The early returns of devset_ignore.
AskEmpty ==
  /\ pc = "ask" /\ dev # NoDev
  /\ elenum - 1 < 0 \/ ~ live
  /\ Answer(elenum - 1 < 0 /\ ~ black)

AskBegins ==
  /\ pc = "ask" /\ dev # NoDev
  /\ elenum - 1 >= 0 /\ live
  /\ low' = 0 /\ high' = elenum - 1 /\ t' = 0
  /\ pc' = "search"
  /\ UNCHANGED <<list, data, i, tmpname, pkt, who, verdict>>

Mid == low + ((high - low) \div 2)

\* Whether a turn looks at the middle (mutation: the lower edge is not
\* looked at).
BetweenBelow == low <= high /\ h < hash[high]

Between == low <= high /\ hash[low] < h /\ h < hash[high]

SearchLower ==
  /\ pc = "search" /\ Between
  /\ h < hash[Mid]
  /\ t' = Mid /\ high' = Mid - 1
  /\ UNCHANGED <<pc, list, data, i, tmpname, pkt, who, low, verdict>>

SearchUpper ==
  /\ pc = "search" /\ Between
  /\ h > hash[Mid]
  /\ t' = Mid /\ low' = Mid + 1
  /\ UNCHANGED <<pc, list, data, i, tmpname, pkt, who, high, verdict>>

\* The value of t when the loop is left: by a break, or by its condition.
Found ==
  IF low > high THEN t
  ELSE IF Between THEN Mid
  ELSE IF h = hash[high] THEN high
  ELSE IF h = hash[low] THEN low
  ELSE -1

SearchEnds ==
  /\ pc = "search"
  /\ ~ Between \/ h = hash[Mid]
  /\ t' = Found
  /\ pc' = "decide"
  /\ UNCHANGED <<list, data, i, tmpname, pkt, who, low, high, verdict>>

\* One entry is compared with the name (mutation: its hash is trusted).
MatchByHash == t # -1

Match == t # -1 /\ name[t] = dev

Decide ==
  /\ pc = "decide"
  /\ Answer(IF Match THEN black ELSE ~ black)

-----------------------------------------------------------------------------
Progress ==
  \/ OrderTurn \/ OrderOops \/ OrderDone
  \/ AskNobody \/ AskEmpty \/ AskBegins
  \/ SearchLower \/ SearchUpper \/ SearchEnds
  \/ Decide

Next ==
  \/ devset_exit
  \/ \E c \in Configs : devset_init(c)
  \/ \E p \in Packets : Hook(p)
  \/ Progress

Spec == Init /\ [][Next]_vars
-----------------------------------------------------------------------------
(***************************************************************************)
(* Properties.                                                             *)
(***************************************************************************)
Index == 0 .. elenum - 1

\* Every variable has the values its C type and its use allow.
TypeOK ==
  /\ pc \in {"rest", "order", "ask", "search", "decide", "oops"}
  /\ black \in BOOLEAN /\ live \in BOOLEAN /\ tmpname \in BOOLEAN
  /\ elenum \in Nat
  /\ list \in [Index -> Name]
  /\ name \in [Index -> Name]
  /\ hash \in [Index -> Nat]
  /\ i \in Nat
  /\ pkt \in Packets /\ who \in {"in", "out"}
  /\ low \in Int /\ high \in Int /\ t \in Int
  /\ verdict \in {"none", "ignore", "count"}

Listed == {list[k] : k \in DOMAIN list}

\* Once __devset_order is done the set holds the names of the list and no
\* others, next to their hashes, in the order of the hashes: the selection
\* sort moves two arrays in step and loses or doubles no name.
Ordered ==
  pc \in {"rest", "ask", "search", "decide"} =>
    /\ {name[k] : k \in Index} = Listed
    /\ \A k \in Index : hash[k] = jhash[name[k]]
    /\ \A a, b \in Index : a < b => hash[a] <= hash[b]

\* The search never reads outside the arrays, its window never becomes empty
\* (so that the loop is left by a break only, and never with the t of an
\* earlier turn), and every entry with the hash asked for stays in it.
WindowHolds ==
  /\ pc = "search" =>
       /\ 0 <= low /\ low <= high /\ high < elenum
       /\ \A k \in Index : hash[k] = h => low <= k /\ k <= high
  /\ pc = "decide" => IF t = -1 THEN \A k \in Index : hash[k] # h
                       ELSE t \in Index /\ hash[t] = h

\* A device of a packet that asks for the packet to be counted: it is on a
\* white list, or not on a black list.
Wanted(d) == d # NoDev /\ (d \in Listed <=> ~ black)

\* The search compares one entry with the name; another listed name with the
\* same hash can stand for it.
Clashes(d) == d \in Listed /\ \E m \in Listed : m # d /\ jhash[m] = jhash[d]

\* ignore returns what the list says: a packet is counted exactly if one of
\* its devices is wanted, unless the hash of a listed device of the packet is
\* the hash of another listed name.  A device that is not listed is never
\* taken for one that is.
VerdictRight ==
  verdict # "none" =>
    \/ verdict = "count" <=> Wanted(pkt.in) \/ Wanted(pkt.out)
    \/ Clashes(pkt.in) \/ Clashes(pkt.out)

\* A turn of the search that does not end it at least halves the window.
Halves ==
  [][pc = "search" /\ pc' = "search" => 2 * (high' - low' + 1) <= (high - low) + 1]_vars

-----------------------------------------------------------------------------
(***************************************************************************)
(* The inductive invariant.  At any time the arrays hold the listed names  *)
(* next to their hashes; the sort has brought the i smallest to the front; *)
(* and a packet whose output device is asked for was not counted for its   *)
(* input device.                                                           *)
(***************************************************************************)
SortedTo(n) == \A a, b \in Index : a < n /\ a < b => hash[a] <= hash[b]

SetInv ==
  /\ {name[k] : k \in Index} = Listed
  /\ \A k \in Index : hash[k] = jhash[name[k]]
  /\ ~ live => elenum = 0

OrderInv ==
  IF pc \in {"order", "oops"} THEN i <= elenum /\ SortedTo(i) ELSE SortedTo(elenum)

\* What devset_ignore has returned, or is to return, for d is right.
Told(d, v) == Clashes(d) \/ (v <=> ~ Wanted(d))

AskInv ==
  /\ pc # "rest" => verdict = "none"
  /\ pc \in {"ask", "search", "decide"} /\ who = "out" => Told(pkt.in, TRUE)
  /\ pc \in {"search", "decide"} => dev # NoDev

IInv == TypeOK /\ SetInv /\ OrderInv /\ WindowHolds /\ AskInv /\ VerdictRight
=============================================================================
