----------------------------- MODULE IpsharkDev -----------------------------
(***************************************************************************)
(* The character device of ipshark (core.c) with what it switches on and   *)
(* off: the device set (devset.c), the packet queue (ip_queue.c) and the   *)
(* netfilter hooks (hook.c).  User threads open, configure, fetch and      *)
(* close in every order, also while another thread is still closing; every *)
(* allocation and every copy may fail.  Packets are only counted here:     *)
(* what becomes of them is in IpsharkQueue.                                *)
(***************************************************************************)
EXTENDS Integers, Sequences

CONSTANTS
  Thread,     \* user threads
  Ctx,        \* contexts that execute a hook
  Dev, NoDev, \* net devices; a NULL net_device
  Paths,      \* the <<in, out>> of the packets that come by
  Lists,      \* what is passed to IPS_SET_NAMELIST: [wb, names]
  Cap,        \* the room in the queue (IP_FIFO_SIZE on each CPU)
  Enough,     \* 255: the wait ends when more packets are there
  MaxFetch    \* 1024: the entries of arr

ASSUME DevAssumption == NoDev \notin Dev /\ Paths \subseteq (Dev \cup {NoDev}) \X (Dev \cup {NoDev})
ASSUME ListAssumption ==
  \A l \in Lists : l.wb \in {"WHITE", "BLACK", "NONE"} /\ l.names \in Seq(Dev)
ASSUME SizeAssumption == Cap \in Nat /\ Enough \in Nat /\ MaxFetch \in Nat \ {0}

\* No list: a thread that is not in set_namelist.
NoList == [wb |-> "NONE", names |-> << >>]
NoHook == [pc |-> "out", in |-> NoDev, out |-> NoDev, early |-> FALSE]
NoFile == "none"
ASSUME FileAssumption == NoFile \notin Thread

VARIABLES
  module, cdev, proc,    \* the module: "out", "init", "in"; cdev_add, the proc entry
  dev_state, files,      \* dev_state; the threads that hold an open file
  pc, fd, list, k, n,    \* of a thread: the next step, the file, the list and its next name, s.n
  table, names, white_black,  \* dev_hashtable, the names in it, white_black
  fifo, len,             \* ip_fifo, the packets in it
  registered, hk,        \* the hooks; those in flight
  reader,                \* proc_show: "out", "in", "stale" (its table was freed)
  bad, hist, dropped     \* history: misused memory; what happened; names kmalloc failed for

modvars   == <<module, cdev, proc>>
devvars   == <<dev_state, files>>
locals    == <<fd, list, k, n>>
setvars   == <<table, names, white_black, dropped>>
queuevars == <<fifo, len>>
hookvars  == <<registered, hk>>
vars == <<modvars, devvars, pc, locals, setvars, queuevars, hookvars, reader, bad, hist>>

Opening     == {"devset_init", "queue_init", "undo", "register"}
Releasing   == {"unregister", "synchronize", "queue_exit", "devset_exit"}
Configuring == {"copy", "add", "names", "setopen"}
Fetching    == {"ask", "wait", "get", "give", "setname"}

Init ==
  /\ module = "out" /\ cdev = FALSE /\ proc = FALSE
  /\ dev_state = "CLOSE" /\ files = {}
  /\ pc = [t \in Thread |-> "user"] /\ fd = [t \in Thread |-> NoFile]
  /\ list = [t \in Thread |-> NoList]
  /\ k = [t \in Thread |-> 0] /\ n = [t \in Thread |-> 0]
  /\ table = "null" /\ names = {} /\ white_black = "NONE" /\ dropped = {}
  /\ fifo = "null" /\ len = 0
  /\ registered = FALSE /\ hk = [c \in Ctx |-> NoHook]
  /\ reader = "out" /\ bad = {} /\ hist = {}

Go(t, p) == pc' = [pc EXCEPT ![t] = p]

\* dev_state only changes under ips_sem.  A cas that fails makes the call
\* return -EINVAL and changes nothing.
cas(expected, new) == dev_state = expected /\ dev_state' = new

Misuse(who, wrong) == bad' = IF wrong THEN bad \cup {who} ELSE bad

-----------------------------------------------------------------------------
(***************************************************************************)
(* ips_open.  A failure leaves dev_state at OPEN.                          *)
(***************************************************************************)
Open(t) ==
  /\ pc[t] = "user" /\ cdev /\ t \notin files
  /\ cas("CLOSE", "OPEN")
  /\ Go(t, "devset_init")
  /\ hist' = IF \E u \in Thread : pc[u] \in Releasing THEN hist \cup {"overlap"} ELSE hist
  /\ UNCHANGED <<modvars, files, locals, setvars, queuevars, hookvars, reader, bad>>

OpenFails == hist' = hist \cup {"openfailed"}

devset_init(t) ==
  /\ pc[t] = "devset_init"
  /\ Misuse("open", table # "null")
  /\ \/ table' = "live" /\ names' = {} /\ Go(t, "queue_init") /\ hist' = hist
     \/ table' = "null" /\ names' = {} /\ Go(t, "user") /\ OpenFails
  /\ UNCHANGED <<modvars, devvars, locals, white_black, dropped, queuevars, hookvars, reader>>

ip_queue_init(t) ==
  /\ pc[t] = "queue_init"
  /\ Misuse("open", fifo # "null")
  /\ \/ fifo' = "live" /\ Go(t, "register")
     \/ fifo' = "null" /\ Go(t, "undo")
  /\ len' = 0
  /\ UNCHANGED <<modvars, devvars, locals, setvars, hookvars, reader, hist>>

\* Its loop looks at every list of the table, be there one or not.
devset_exit(who) ==
  /\ Misuse(who, table = "null")
  /\ table' = "null" /\ names' = {} /\ white_black' = "NONE" /\ dropped' = {}
  /\ reader' = IF reader = "in" THEN "stale" ELSE reader

\* The label ip_queue_fail (mutation: it is forgotten).
OpenUndoForgotten(t) ==
  /\ pc[t] = "undo"
  /\ Go(t, "user") /\ OpenFails
  /\ UNCHANGED <<modvars, devvars, locals, setvars, queuevars, hookvars, reader, bad>>

OpenUndo(t) ==
  /\ pc[t] = "undo"
  /\ devset_exit("open")
  /\ Go(t, "user") /\ OpenFails
  /\ UNCHANGED <<modvars, devvars, locals, queuevars, hookvars>>

\* Registering a list twice breaks the list of the kernel.  If the kernel refuses
\* a hook it takes back those before; nobody asks, and the file is open.
hook_register(t) ==
  /\ pc[t] = "register"
  /\ Misuse("open", registered)
  /\ \/ registered' = TRUE /\ hist' = hist
     \/ registered' = registered /\ hist' = hist \cup {"deaf"}
  /\ files' = files \cup {t}
  /\ Go(t, "user")
  /\ UNCHANGED <<modvars, dev_state, locals, setvars, queuevars, hk, reader>>

-----------------------------------------------------------------------------
\* What ips_release does after dev_state is CLOSE (mutation: hooks last).
HooksLast == <<"queue_exit", "devset_exit", "unregister", "synchronize">>

ReleaseOrder == <<"unregister", "synchronize", "queue_exit", "devset_exit">>

After(p) ==
  LET i == CHOOSE i \in DOMAIN ReleaseOrder : ReleaseOrder[i] = p IN
  IF i < Len(ReleaseOrder) THEN ReleaseOrder[i + 1] ELSE "user"

(***************************************************************************)
(* ips_release: the last reference to the file is dropped, so that no      *)
(* thread is in an ioctl on it.  dev_state is stored without ips_sem.      *)
(***************************************************************************)
ips_release(t) ==
  /\ pc[t] = "user" /\ t \in files
  /\ \A u \in Thread : fd[u] # t
  /\ dev_state' = "CLOSE"
  /\ files' = files \ {t}
  /\ Go(t, ReleaseOrder[1])
  /\ UNCHANGED <<modvars, locals, setvars, queuevars, hookvars, reader, bad, hist>>

\* Unregistering hooks that were not registered breaks the list, too.
hook_unregister(t) ==
  /\ pc[t] = "unregister"
  /\ Misuse("release", ~ registered)
  /\ registered' = FALSE
  /\ Go(t, After("unregister"))
  /\ UNCHANGED <<modvars, devvars, locals, setvars, queuevars, hk, reader, hist>>

\* nf_unregister_hooks returns when no hook is in flight.
HooksGone(t) ==
  /\ pc[t] = "synchronize"
  /\ \A c \in Ctx : hk[c].pc = "out"
  /\ Go(t, After("synchronize"))
  /\ UNCHANGED <<modvars, devvars, locals, setvars, queuevars, hookvars, reader, bad, hist>>

ip_queue_exit(t) ==
  /\ pc[t] = "queue_exit"
  /\ fifo' = "null" /\ len' = 0
  /\ Go(t, After("queue_exit"))
  /\ UNCHANGED <<modvars, devvars, locals, setvars, hookvars, reader, bad, hist>>

ReleaseEnds(t) ==
  /\ pc[t] = "devset_exit"
  /\ devset_exit("release")
  /\ Go(t, After("devset_exit"))
  /\ UNCHANGED <<modvars, devvars, locals, queuevars, hookvars, hist>>

-----------------------------------------------------------------------------
(***************************************************************************)
(* set_namelist.  The list becomes active before its names are in it.      *)
(***************************************************************************)
Call(t, f, p) == fd' = [fd EXCEPT ![t] = f] /\ Go(t, p)

Return(t) ==
  /\ fd' = [fd EXCEPT ![t] = NoFile] /\ list' = [list EXCEPT ![t] = NoList]
  /\ k' = [k EXCEPT ![t] = 0] /\ n' = [n EXCEPT ![t] = 0]
  /\ Go(t, "user")

SetNamelist(t, f, l) ==
  /\ pc[t] = "user" /\ f \in files
  /\ cas("OPEN", "NAME_SET")
  /\ list' = [list EXCEPT ![t] = l]
  /\ Call(t, f, "copy")
  /\ UNCHANGED <<modvars, files, k, n, setvars, queuevars, hookvars, reader, bad, hist>>

\* A copy or an allocation fails, or devnum is not positive.
CopyFails(t) ==
  /\ pc[t] = "copy"
  /\ Go(t, "setopen")
  /\ UNCHANGED <<modvars, devvars, locals, setvars, queuevars, hookvars, reader, bad, hist>>

CopyList(t) ==
  /\ pc[t] = "copy" /\ list[t].names # << >>
  /\ Go(t, "add")
  /\ UNCHANGED <<modvars, devvars, locals, setvars, queuevars, hookvars, reader, bad, hist>>

\* The early returns of devset_add.
Refuses(l) == table = "null" \/ white_black # "NONE" \/ l.wb = "NONE"

AddRefused(t) ==
  /\ pc[t] = "add" /\ Refuses(list[t])
  /\ Go(t, "setopen")
  /\ UNCHANGED <<modvars, devvars, locals, setvars, queuevars, hookvars, reader, bad, hist>>

AddBegins(t) ==
  /\ pc[t] = "add" /\ ~ Refuses(list[t])
  /\ white_black' = list[t].wb
  /\ Go(t, "names") /\ k' = [k EXCEPT ![t] = 1]
  /\ UNCHANGED <<modvars, devvars, fd, list, n, table, names, dropped, queuevars, hookvars, reader, bad, hist>>

\* A turn of the loop: a name that is there already is skipped, and so is one
\* that kmalloc fails for.
AddName(t) ==
  LET d == list[t].names[k[t]] IN
  /\ pc[t] = "names" /\ k[t] <= Len(list[t].names)
  /\ \/ names' = names \cup {d} /\ dropped' = dropped
     \/ d \notin names /\ names' = names /\ dropped' = dropped \cup {d}
  /\ Misuse("config", table = "null")
  /\ k' = [k EXCEPT ![t] = @ + 1]
  /\ UNCHANGED <<modvars, devvars, pc, fd, list, n, table, white_black, queuevars, hookvars, reader, hist>>

AddEnds(t) ==
  /\ pc[t] = "names" /\ k[t] > Len(list[t].names)
  /\ Return(t)
  /\ UNCHANGED <<modvars, devvars, setvars, queuevars, hookvars, reader, bad, hist>>

\* The label fail.
SetOpen(t) ==
  /\ pc[t] = "setopen"
  /\ dev_state' = "OPEN"
  /\ Return(t)
  /\ UNCHANGED <<modvars, files, setvars, queuevars, hookvars, reader, bad, hist>>

-----------------------------------------------------------------------------
(***************************************************************************)
(* fetch_info.                                                             *)
(***************************************************************************)
\* (Mutation: the state is tested, but not taken.)
FetchUntaken(t, f) ==
  /\ pc[t] = "user" /\ f \in files
  /\ dev_state \in {"NAME_SET", "RUN"} /\ dev_state' = "RUN"
  /\ Call(t, f, "ask")
  /\ hist' = IF \E u \in Thread : pc[u] \in Configuring THEN hist \cup {"overtaken"} ELSE hist
  /\ UNCHANGED <<modvars, files, list, k, n, setvars, queuevars, hookvars, reader, bad>>

Fetch(t, f) ==
  /\ pc[t] = "user" /\ f \in files
  /\ cas("NAME_SET", "RUN")
  /\ Call(t, f, "ask")
  /\ hist' = IF \E u \in Thread : pc[u] \in Configuring THEN hist \cup {"overtaken"} ELSE hist
  /\ UNCHANGED <<modvars, files, list, k, n, setvars, queuevars, hookvars, reader, bad>>

FetchGoes(t, from, to) ==
  /\ pc[t] = from /\ Go(t, to)
  /\ UNCHANGED <<modvars, devvars, locals, setvars, queuevars, hookvars, reader, bad, hist>>

\* copy_from_user fails, or s.n is not in 1 .. 1024.
FetchRefused(t) == FetchGoes(t, "ask", "setname")

FetchAsks(t, m) ==
  /\ pc[t] = "ask" /\ Go(t, "wait")
  /\ n' = [n EXCEPT ![t] = m]
  /\ UNCHANGED <<modvars, devvars, fd, list, k, setvars, queuevars, hookvars, reader, bad, hist>>

\* What ip_queue_len returns.
ip_queue_len == IF fifo = "null" THEN 1 ELSE len

\* The thread looks at the condition: when it comes, when a hook wakes it.
WaitReady(t) == ip_queue_len > Enough /\ FetchGoes(t, "wait", "get")

\* HZ/20 went by: what is there is fetched, be it little.
WaitTimeout(t) == FetchGoes(t, "wait", IF ip_queue_len > 0 THEN "get" ELSE "setname")

\* A signal makes the result of the wait negative.
WaitSignal(t) == ip_queue_len <= Enough /\ FetchGoes(t, "wait", "setname")

\* access_ok refuses the buffer.
FetchNoAccess(t) == FetchGoes(t, "get", "setname")

ip_queue_get(t) ==
  LET got == IF fifo = "null" THEN 0 ELSE IF len < n[t] THEN len ELSE n[t] IN
  /\ pc[t] = "get" /\ Go(t, "give")
  /\ n' = [n EXCEPT ![t] = got]
  /\ len' = len - got
  /\ UNCHANGED <<modvars, devvars, fd, list, k, setvars, fifo, hookvars, reader, bad, hist>>

\* The two copies to the user, done or not.
FetchGives(t) == FetchGoes(t, "give", "setname")

\* (Mutation: the state is only given back by a fetch that was not refused.)
SetNameKept(t) ==
  /\ pc[t] = "setname"
  /\ dev_state' = IF n[t] = 0 THEN dev_state ELSE "NAME_SET"
  /\ Return(t)
  /\ UNCHANGED <<modvars, files, setvars, queuevars, hookvars, reader, bad, hist>>

\* Its label fail, where every fetch ends.
SetName(t) ==
  /\ pc[t] = "setname"
  /\ dev_state' = "NAME_SET"
  /\ Return(t)
  /\ UNCHANGED <<modvars, files, setvars, queuevars, hookvars, reader, bad, hist>>

-----------------------------------------------------------------------------
(***************************************************************************)
(* hookfn and hookfn6.                                                     *)
(***************************************************************************)
hookfn(c, p) ==
  /\ registered /\ hk[c].pc = "out"
  /\ hk' = [hk EXCEPT ![c] = [pc |-> "in", in |-> p[1], out |-> p[2], early |-> FALSE]]
  /\ UNCHANGED <<modvars, devvars, pc, locals, setvars, queuevars, registered, reader, bad, hist>>

\* (Mutation: the two kinds of list are exchanged.)
IgnoreSwapped(d) ==
  \/ white_black = "NONE"
  \/ white_black = IF d \in names THEN "WHITE" ELSE "BLACK"

devset_ignore(d) ==
  \/ white_black = "NONE"
  \/ white_black = IF d \in names THEN "BLACK" ELSE "WHITE"

\* ignore asks for the input device, then for the output device, and stops at
\* the first that is there and not ignored.
ignore(c) ==
  LET d == IF hk[c].pc = "in" THEN hk[c].in ELSE hk[c].out
      counts == d # NoDev /\ ~ devset_ignore(d)
  IN
  /\ hk[c].pc \in {"in", "other"}
  /\ hk' = [hk EXCEPT
       ![c] = IF counts THEN [@ EXCEPT !.pc = "put", !.early = \E t \in Thread : pc[t] = "names"]
              ELSE IF @.pc = "in" THEN [@ EXCEPT !.pc = "other"] ELSE NoHook]
  /\ Misuse("hook", d # NoDev /\ white_black # "NONE" /\ table = "null")
  /\ UNCHANGED <<modvars, devvars, pc, locals, setvars, queuevars, registered, reader, hist>>

\* ip_queue_put looks at ip_fifo, ...
PutLooks(c) ==
  /\ hk[c].pc = "put"
  /\ hk' = [hk EXCEPT ![c] = IF fifo = "null" THEN NoHook ELSE [@ EXCEPT !.pc = "insert"]]
  /\ UNCHANGED <<modvars, devvars, pc, locals, setvars, queuevars, registered, reader, bad, hist>>

\* ... and follows it; a packet that finds no room is not queued (mutation: it
\* is).
PutOverruns(c) ==
  /\ hk[c].pc = "insert"
  /\ hk' = [hk EXCEPT ![c] = NoHook]
  /\ Misuse("hook", fifo = "null")
  /\ len' = len + 1
  /\ UNCHANGED <<modvars, devvars, pc, locals, setvars, fifo, registered, reader, hist>>

PutInserts(c) ==
  /\ hk[c].pc = "insert"
  /\ hk' = [hk EXCEPT ![c] = NoHook]
  /\ Misuse("hook", fifo = "null")
  /\ len' = IF fifo = "live" /\ len < Cap THEN len + 1 ELSE len
  /\ UNCHANGED <<modvars, devvars, pc, locals, setvars, fifo, registered, reader, hist>>

-----------------------------------------------------------------------------
(***************************************************************************)
(* devset_show, for a reader of the proc entry.  Nothing keeps the table   *)
(* while it is walked.                                                     *)
(***************************************************************************)
ShowBegins ==
  /\ proc /\ reader = "out" /\ white_black # "NONE"
  /\ reader' = IF table = "live" THEN "in" ELSE "stale"
  /\ UNCHANGED <<modvars, devvars, pc, locals, setvars, queuevars, hookvars, bad, hist>>

ShowWalks ==
  /\ reader # "out"
  /\ Misuse("proc", reader = "stale")
  /\ reader' = "out"
  /\ UNCHANGED <<modvars, devvars, pc, locals, setvars, queuevars, hookvars, hist>>

-----------------------------------------------------------------------------
(***************************************************************************)
(* The module.  An ips_init that fails before its device is there leaves   *)
(* things as they were.                                                    *)
(***************************************************************************)
ips_init ==
  /\ module = "out"
  /\ module' = "init" /\ cdev' = TRUE
  /\ UNCHANGED <<proc, devvars, pc, locals, setvars, queuevars, hookvars, reader, bad, hist>>

ips_clean == cdev' = FALSE /\ proc' = FALSE

\* proc_create_data succeeds, or ips_clean runs and ips_init returns the 0 that
\* is in err.
InitEnds ==
  /\ module = "init" /\ module' = "in"
  /\ \/ proc' = TRUE /\ UNCHANGED <<cdev, hist>>
     \/ ips_clean /\ hist' = hist \cup {"noproc"}
  /\ UNCHANGED <<devvars, pc, locals, setvars, queuevars, hookvars, reader, bad>>

\* The kernel unloads a module that has no open file and no reader; its
\* variables go with it.
ips_exit ==
  /\ module = "in" /\ files = {} /\ reader = "out"
  /\ \A t \in Thread : pc[t] = "user"
  /\ Misuse("exit", ~ cdev)
  /\ ips_clean
  /\ module' = "out" /\ dev_state' = "CLOSE"
  /\ UNCHANGED <<files, pc, locals, setvars, queuevars, hookvars, reader, hist>>

-----------------------------------------------------------------------------
OpenStep(t) == devset_init(t) \/ ip_queue_init(t) \/ OpenUndo(t) \/ hook_register(t)

ReleaseStep(t) ==
  hook_unregister(t) \/ HooksGone(t) \/ ip_queue_exit(t) \/ ReleaseEnds(t)

ConfigStep(t) ==
  \/ CopyFails(t) \/ CopyList(t) \/ AddRefused(t) \/ AddBegins(t)
  \/ AddName(t) \/ AddEnds(t) \/ SetOpen(t)

FetchStep(t) ==
  \/ FetchRefused(t) \/ \E m \in 1 .. MaxFetch : FetchAsks(t, m)
  \/ WaitReady(t) \/ WaitTimeout(t) \/ WaitSignal(t)
  \/ FetchNoAccess(t) \/ ip_queue_get(t) \/ FetchGives(t) \/ SetName(t)

\* The ioctl a thread calls.
Ioctl(t) ==
  \E f \in files : Fetch(t, f) \/ \E l \in Lists : SetNamelist(t, f, l)

HookStep(c) == ignore(c) \/ PutLooks(c) \/ PutInserts(c)

\* After memory was misused the program has no defined behaviour.
Next ==
  /\ bad = {}
  /\ \/ \E t \in Thread :
          Open(t) \/ OpenStep(t) \/ ips_release(t) \/ ReleaseStep(t)
          \/ Ioctl(t) \/ ConfigStep(t) \/ FetchStep(t)
     \/ \E c \in Ctx : HookStep(c)
     \/ \E c \in Ctx, p \in Paths : hookfn(c, p)
     \/ ShowBegins \/ ShowWalks
     \/ ips_init \/ InitEnds \/ ips_exit

Spec == Init /\ [][Next]_vars

-----------------------------------------------------------------------------
(***************************************************************************)
(* Properties.                                                             *)
(***************************************************************************)

\* Every variable has the values its C type and its use allow.
TypeOK ==
  /\ module \in {"out", "init", "in"} /\ cdev \in BOOLEAN /\ proc \in BOOLEAN
  /\ dev_state \in {"CLOSE", "OPEN", "NAME_SET", "RUN"}
  /\ files \subseteq Thread
  /\ pc \in [Thread -> {"user"} \cup Opening \cup Releasing \cup Configuring \cup Fetching]
  /\ fd \in [Thread -> Thread \cup {NoFile}]
  /\ list \in [Thread -> Lists \cup {NoList}]
  /\ k \in [Thread -> Nat] /\ n \in [Thread -> 0 .. MaxFetch]
  /\ table \in {"null", "live"} /\ names \subseteq Dev /\ dropped \subseteq Dev
  /\ white_black \in {"NONE", "WHITE", "BLACK"}
  /\ fifo \in {"null", "live"} /\ len \in 0 .. Cap
  /\ registered \in BOOLEAN
  /\ hk \in [Ctx -> [pc : {"out", "in", "other", "put", "insert"},
                     in : Dev \cup {NoDev}, out : Dev \cup {NoDev}, early : BOOLEAN]]
  /\ reader \in {"out", "in", "stale"}
  /\ bad \subseteq {"open", "release", "config", "hook", "proc", "exit"}
  /\ hist \subseteq {"overlap", "overtaken", "openfailed", "deaf", "noproc"}

Overlap   == "overlap" \in hist
Overtaken == "overtaken" \in hist
Deaf      == "deaf" \in hist
Quiet     == \A t \in Thread : pc[t] \notin Opening \cup Releasing

\* No step follows a pointer to freed memory, leaks what it overwrites or breaks
\* the kernel's lists: open, ioctl, release and the hooks keep apart what the
\* four of them share, although release stores CLOSE before it takes anything
\* down.  Named are the ways this fails: an open that gets in between (overlap),
\* a reader of the proc entry, an ips_exit after an ips_init that failed, and the
\* release of a file whose hooks the kernel refused.
MemorySafe ==
  \/ Overlap
  \/ bad \subseteq {"proc"} \cup (IF "noproc" \in hist THEN {"exit"} ELSE {})
                          \cup (IF Deaf THEN {"release"} ELSE {})

\* At most one file is open, and queue and table are there exactly then, and so
\* are the hooks unless the kernel refused one: whichever allocation fails in the
\* middle of ips_open, nothing is left for the next one.
\* Without a file the device is CLOSE, unless an open failed: dev_state is then
\* OPEN with nobody to close it.
OpenMeansReady ==
  Overlap \/ (Quiet =>
    /\ \A t, u \in files : t = u
    /\ registered <=> files # {} /\ ~ Deaf
    /\ fifo = "live" <=> files # {}
    /\ table = "live" <=> files # {}
    /\ files = {} => dev_state = "CLOSE" \/ "openfailed" \in hist)

\* The static array of fetch_info and the readers' end of the queue belong to
\* one thread at a time.  A fetch that begins while set_namelist still runs is
\* the exception: when set_namelist fails it resets the state the fetch took.
SingleFetcher ==
  Overtaken \/ \A t, u \in Thread : {pc[t], pc[u]} \subseteq Fetching => t = u

\* dev_state says what the device set holds: in NAME_SET and RUN a list is
\* active, so packets can come; in OPEN there is none, so that the user may try
\* again whatever made set_namelist fail.  RUN means that a fetch is there to
\* end it.
StateMatchesSet ==
  Overlap \/ Overtaken \/
    LET configuring == \E t \in Thread : pc[t] \in Configuring
        fetching == \E t \in Thread : pc[t] \in Fetching
    IN
    /\ dev_state \in {"NAME_SET", "RUN"} /\ ~ configuring => white_black # "NONE"
    /\ dev_state = "OPEN" => white_black = "NONE"
    /\ dev_state = "RUN" <=> fetching

\* The packets that count are those the user asked for.  With a white list one
\* of the two devices was named, always.  With a black list one of them was
\* not, unless the names were still being added or kmalloc failed for it.
ListHonoured ==
  Overlap \/ \A c \in Ctx : hk[c].pc \in {"put", "insert"} =>
    LET devs == {hk[c].in, hk[c].out} \ {NoDev} IN
    /\ white_black # "NONE"
    /\ white_black = "WHITE" => devs \cap (names \cup dropped) # {}
    /\ white_black = "BLACK" =>
         hk[c].early \/ devs \cap dropped # {} \/ devs \ names # {}

-----------------------------------------------------------------------------
(***************************************************************************)
(* Inductive invariants (IpsharkDevProof).                                 *)
(***************************************************************************)
\* A thread with an open file, or on its way to one; and one that takes its
\* file down.
Owner(t) == t \in files \/ pc[t] \in Opening
Busy(t)  == Owner(t) \/ pc[t] \in Releasing

\* The compare-and-swap from CLOSE lets one file be open at a time, and an
\* ioctl runs on an open file.
FileInv ==
  /\ \A t, u \in Thread : Owner(t) /\ Owner(u) => t = u
  /\ \A t \in files : dev_state # "CLOSE"
  /\ \A t \in Thread : pc[t] \in Opening => dev_state = "OPEN"
  /\ files = {} => dev_state \in {"CLOSE", "OPEN"}
  /\ \A t \in Thread : pc[t] \in Opening \cup Releasing => t \notin files
  /\ \A t \in Thread : pc[t] \in Configuring \cup Fetching => fd[t] \in files
  /\ \A t \in Thread : fd[t] # NoFile => pc[t] \in Configuring \cup Fetching
  /\ (\A t \in Thread : ~ Owner(t)) => dev_state = "CLOSE" \/ "openfailed" \in hist

\* The loop of devset_add counts from 1.
LoopInv == \A t \in Thread : pc[t] = "names" => k[t] > 0

Inv1 == TypeOK /\ FileInv /\ LoopInv

\* The compare-and-swaps between OPEN, NAME_SET and RUN let one thread be in
\* set_namelist or fetch_info, unless a fetch overtakes.
TurnInv ==
  Overtaken \/
    /\ \A t \in Thread : pc[t] \in Fetching => dev_state = "RUN"
    /\ \A t \in Thread : pc[t] \in Configuring => dev_state = "NAME_SET"
    /\ \A t, u \in Thread : pc[t] \in Fetching /\ pc[u] \in Fetching => t = u
    /\ \A t, u \in Thread : pc[t] \in Configuring /\ pc[u] \in Configuring => t = u
    /\ dev_state = "RUN" => \E t \in Thread : pc[t] \in Fetching

\* What a thread has built, or has not taken down yet, is there, and nothing
\* else.
Built(p) == files # {} \/ \E t \in Thread : pc[t] \in p

BuiltInv ==
  Overlap \/
    /\ \A t, u \in Thread : Busy(t) /\ Busy(u) => t = u
    /\ table = "live" <=> Built({"queue_init", "undo", "register"} \cup Releasing)
    /\ fifo = "live" <=> Built({"register", "unregister", "synchronize", "queue_exit"})
    /\ registered <=> Built({"unregister"}) /\ ~ Deaf
    /\ Deaf /\ bad = {} => Built({"unregister"})
    /\ \A c \in Ctx : hk[c].pc # "out" => Built({"unregister", "synchronize"})

ModuleInv ==
  /\ module = "init" => cdev
  /\ module = "in" /\ ~ cdev => "noproc" \in hist

Inv2 == Inv1 /\ BuiltInv /\ ModuleInv /\ MemorySafe

\* The list is active from AddBegins to devset_exit.
ActiveInv ==
  Overlap \/
    /\ (\E t \in Thread : pc[t] \in Releasing) => dev_state = "CLOSE"
    /\ white_black # "NONE" => Built(Releasing)
    /\ \A t \in Thread : pc[t] = "names" => white_black # "NONE"
    /\ ~ Overtaken => \A t \in Thread : pc[t] \in {"copy", "add", "setopen"} => white_black = "NONE"

Inv3 == Inv2 /\ TurnInv /\ ActiveInv /\ StateMatchesSet

\* A packet that counts and was not early came when the list was complete.
ListInv ==
  Overlap \/ \A c \in Ctx : hk[c].pc \in {"put", "insert"} /\ ~ hk[c].early =>
    \A t \in Thread : pc[t] # "names"

Inv4 == Inv3 /\ ListHonoured /\ ListInv
=============================================================================
