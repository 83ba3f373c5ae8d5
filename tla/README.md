# linguafranca in TLA+

This directory specifies the packet-statistics code of linguafranca: what its
parts do, in TLA+; what TLC checks of it on small instances; and what TLAPS
proves of it for every instance.

## 1. The system

The repository holds three Linux kernel modules, each with a user side.

| Part | Source | State | Operations |
|---|---|---|---|
| **ipshark2** queue | `src/ipshark2/core/ip_queue.c` | per CPU: a slot range `[start,end)`, two kfifos of slot indexes (`idle`, `ready`), `alarm`; the shared area `m` (a slot is `{info, state}`, `idx_array`); `puttimes`; a wait queue | `ip_queue_create/exit`, `_put`, `_wakeup`, `_wait`, `_has_data`, `_move2dma`, `_recycle` |
| ipshark2 device set | `devset.c`, `devset.h` | arrays of names and hashes, `black` | `devset_init` (copy, hash, sort), `devset_ignore` (binary search), `devset_exit` |
| ipshark2 core | `core.c` | the character device | open, release, ioctl: `IPS_CONFIG`, `IPS_FETCH_INFO`, `IPS_FREE_MEM`; init, exit |
| ipshark2 hooks | `hook.c` | none | `hookfn`, `hookfn6`: filter, fill an `ip_key_info`, put, wake up |
| ipshark2 mmap, proc | `dma.c`, `proc.c` | none | a page fault handler, an empty proc file |
| **ipshark** core | `src/ipshark/core.c` | `dev_state`: CLOSE, OPEN, NAME_SET, RUN; tested and set under `ips_sem`, but stored without it by release | open, release, ioctl (`IPS_SET_NAMELIST`, `IPS_FETCH_INFO`), init, exit, the proc entry |
| ipshark queue | `ip_queue.c` | one kfifo per CPU without a lock, a wait queue | init, put, wait, get, exit |
| ipshark device set | `devset.c` | a hash table of names, `white_black` | init, add, ignore, show, exit |
| ipshark hooks | `hook.c` | none | `hookfn`, `hookfn6` |
| ipshark user side | `usr/framework.c`, `usr/ips_api.c` | a running flag, a thread, the size of its requests, arrays given away | register, start, stop, destroy, the two fetch loops |
| **nfstat** rules | `src/nfstat/ip_rule.c` | a red-black tree under a rwlock | add, remove, find, clear |
| nfstat counters | `ip_counter.c` | a red-black tree of addresses under a rwlock; per entry a vector of counters on each CPU, and a proc file | add, remove, count, read, clear |
| nfstat hooks and ioctl | `nfs_hook.c` | `maxtype` | the hooks count; ioctl initialises, adds and removes rules and addresses, reads counters; init, exit |

How they interact: in all three the kernel runs *hooks* for packets, on any CPU,
in process or softirq context, several at a time. A hook asks the device set
whether the packet counts, and hands it to the queue (ipshark, ipshark2) or to
the counters (nfstat). A user thread sleeps in an ioctl until packets are there.
In ipshark2 the packets stay in memory that is mapped into the user process;
only slot indexes move, and a second ioctl gives them back.

Where it is hard:

* the queue of ipshark2 has no lock: per-CPU sections, one-reader/one-writer
  kfifos and a state byte per slot replace it, and `puttimes`, which the wait
  condition reads, is incremented and reset without any protection;
* the slot ranges are computed in 16 bits from sizes the user chooses, with an
  allocation that may fail at every point of the loop;
* a user may free an index twice, or one he was not given;
* wakeups, the timer and signals race with the counter;
* in ipshark, open, ioctl and release step through the device states with
  separate atomic operations, and release lets the next open in before it has
  taken down what the last one built;
* configuring twice, failing in the middle of a configuration, unloading;
* a fetch loop that adapts its requests to what it gets, over errors;
* counters that hooks increment while they are read, added and removed.

What makes each part correct:

* *ipshark2 create*: the ranges partition the slots; a created queue is complete;
  a failed one leaves nothing.
* *ipshark2 data path*: a slot index is in one place; its state byte agrees with
  it; a lent packet does not change; packets of a CPU leave in order, once, and are
  dropped only when all slots are taken; the array is not overrun; no wakeup is
  lost; counted packets are fetched; freed slots come back.
* *ipshark2 device set*: the search agrees with membership in the list.
* *ipshark2 driver*: hooks, fetches and frees find what they use; the answer of
  `IPS_CONFIG` says what there is.
* *ipshark core*: hooks, queue and table exist exactly while a file is open;
  one opener; one fetcher; the state says what the device set holds; the packets
  that are counted are those asked for.
* *ipshark queue and framework*: packets arrive in order, once; the arrays are
  large enough; the loop keeps fetching, and stops when told.
* *nfstat rules*: a rule is found if one matches.
* *nfstat counters*: a packet is counted once; what is read lies between the
  counts at the begin and at the end of the read; an address has one entry; no
  entry is used after it is freed.

## 2. The modules

| Module | Models |
|---|---|
| `Ips2Layout` | the slot states and ranges shared by `Ips2Create` and `Ips2Queue` |
| `Ips2Create` | `ip_queue_create` and `ip_queue_exit` |
| `Ips2CreateProof` | theorems about `Ips2Create` |
| `PacketChannel` | the abstract specification of the data path: a bounded lossy FIFO per CPU whose buffers are lent to the user |
| `Ips2Queue` | the data path of `ip_queue.c`, `ips_fetch`, `ips_freemem` and the end of a hook |
| `Ips2QueueProof` | theorems about `Ips2Queue` |
| `Ips2E2E` | `ip_queue_e2e_test2` of the unit tests, run on `Ips2Queue` |
| `Ips2Devset` | the device set of ipshark2 and the question the hooks ask it |
| `Ips2DevsetProof` | theorems about `Ips2Devset` |
| `Ips2Core` | `core.c` of ipshark2: load, unload, `IPS_CONFIG` and its failures, against hooks, fetches and frees |
| `Ips2CoreProof` | theorems about `Ips2Core` |
| `IpsharkDev` | the device of ipshark, with its device set, its hooks and the life of its queue |
| `IpsharkDevProof` | theorems about `IpsharkDev` |
| `IpsharkQueue` | the way of a packet through the kernel side of ipshark |
| `IpsharkFrame` | the user side of ipshark, over `IpsharkQueue` |
| `IpsharkFrameProof` | theorems about `IpsharkFrame` and, through it, `IpsharkQueue` |
| `RuleTable` | the abstract specification of the rules of nfstat: a set of rules with atomic calls |
| `NfsRule` | the rule tree of nfstat with its lock and its walks |
| `NfsRuleProof` | theorems about `NfsRule` |
| `NfsCounter` | the counters of nfstat, its ioctls, hooks, init and exit |
| `NfsCounterProof` | theorems about `NfsCounter` |
| `MCIps2Create`, `MCIps2Queue`, `MCIps2E2E`, `MCIps2Devset`, `MCIps2Core`, `MCIpsharkDev`, `MCIpsharkFrame`, `MCNfsRule`, `MCNfsCounter` | the instances TLC checks |

### Ips2Create

`pc` is where the call is: `released` (no queue), `loop` (at the head of a turn of
`for_each_possible_cpu`), `undo` (an error was found, `ip_queue_exit` is next),
`area` (before `vmalloc`), `created`. A turn of the loop is one action, split by
where it leaves the loop: `TurnNoData`, `TurnWraps`, `TurnNoReady`, `TurnNoIdle`,
`TurnFills`. The arithmetic of `pre` is modulo `Word` (`Plus`). `kfifo_alloc` is
external: it refuses sizes below two, fails at will, and rounds the capacity up
to a power of two. The clamp of `wait_ms` is left out, as time is (see below).

The queue is created from the released state only. The code itself does not
demand it; a second creation is the subject of `Ips2Core`.

### Ips2Queue

Its initial state is the one `Ips2Create!HandsOver` establishes. Three kinds of
parties act:

* a **producer** (`ppc`) is a context that executes a hook: `PutLoad`, `PutCount`
  are the load and the store of `puttimes++`; `PutGet`, `PutRetry`, `PutCheck` the
  do-while loop on the idle list; `PutFill`, `PutPublish`, `PutAlarm` the rest of
  `ip_queue_put`; `PutWake` is `ip_queue_wakeup`. Between `get_cpu_ptr` +
  `local_bh_disable` and their inverses no other producer runs on that CPU
  (`Occupied`); before that, several may be inside `puttimes++`.
* the **fetcher** (`fpc`) is the thread in `ips_fetch`: `WaitLook` is a look of
  `wait_event_interruptible_timeout` at its condition; `FetchTimeout` and
  `FetchSignal` are the two other ways out of the wait; `FetchReset` the store
  `puttimes = 0`; `FetchMove` one turn of the loop of `ip_queue_move2dma`, with
  the arithmetic of `num` and `copied` as it is written; `FetchReturn` the end of
  the ioctl.
* the **recycler** (`rpc`) is a thread in `ips_freemem`: `RecycleSkip`,
  `RecycleMark`, `RecyclePut` for each index. With `Careless = FALSE` the user
  frees only what he was given, once, and not more than the request holds; with
  `Careless = TRUE` anything: indexes he was not given or has freed already, up to
  `Beyond` of them behind the area (`RecycleBeyond`), and up to `Beyond` more than the
  array of the request has (`FreeCall`), since nobody looks at `idx_num`.

Where the code leaves its own memory there is nothing to model. Three steps can,
for a careless user only, and they set `broken` or not (`Risk`): the read of a slot
behind the area; a request that is larger than the array on the stack; and a
`kfifo_put` to an idle list that another one is inside of. The last needs a ready list
that is full although the producer holds one of its CPU's slots (`PutBack`:
`ip_queue_put` returns the index to the idle list itself), which only slots that were
freed too early bring about. After `broken` nothing is said.

A step is at most one access to memory another party can change. What is
abstracted: the key fields of a packet are one number; the statistics counters
and the log are left out; the order of the indexes in one free request is left
open. The environment is assumed to be this: at most one fetch and one free call
run at a time (one thread each; the driver has no lock against more, and a kfifo
needs one then), and the user reads the shared area but does not write to it,
where he could change the state bytes.

### Ips2Devset

`pc` is where the one call at a time is: `rest`, `order` (at the head of a turn of
the outer loop of `__devset_order`), `ask` (`ignore` of `hook.c` looks at the next
device), `search` (at the head of a turn of the binary search), `decide` (before the
name is compared), `oops`.

* `devset_init` copies the list and hashes it; a call that fails leaves what
  `devset_exit` leaves, and both are the action `devset_exit`. `OrderTurn` is one
  turn of the selection sort; its inner loop is the operator `Small`.
  `OrderOops` is the `memcpy` to a `tmpname` whose allocation nobody looked at.
* `Hook` begins `ignore`, which asks for the input device and, if that one is to
  be ignored, for the output device. `AskNobody`, `AskEmpty` are early returns;
  `SearchLower`, `SearchUpper` the turns that halve the window; `SearchEnds` all ways
  out of the loop; `Decide` the comparison with one name.

Calls do not overlap here: the set is filled before the hooks that read it are
registered, and the hooks only read. A second `IPS_CONFIG` that fills the set
under running hooks is in `Ips2Core`. Names are model values and `jhash` is any
function to the naturals, so that clashes occur.

### Ips2Core

The queue, the shared area and the arrays of the device set are memory here: a
call of `IPS_CONFIG` that comes as far as `ip_queue_create` has a number `g`,
`memory` holds what is allocated, and `qptr`, `m` and `data` point to it.

* `ips_init`, `InitEnds`, `InitFails`, `ips_exit` are the life of the module; the
  device is there from `cdev_add` on, before `ips_init` ends. `Unload` frees nothing
  and unregisters nothing, as `ips_clean` does.
* `ConfigBegins` to `QueueFail` are `ips_config`, with one action for each step
  others can see and each way out. `ip_queue_exit` is one step.
* The copy of the configuration is short (`core.c:29` takes the size of a function
  for that of the structure), so `devset_init` reads behind it: that faults
  (`ReadsBehind`), or finds something. What it finds makes a set, whose content is
  then not the user's, or a length that no set has, and both are in `DevsetInit`.
* `hook_register` may be refused by the kernel, and `ips_config` does not ask: the
  answer of the driver is success all the same, and `deaf` in the model.
* `FetchBegins`, `FetchLooks`, `FetchMoves` and `FreeBegins`, `FreeEnds` are the two
  other ioctls; `HookBegins`, `HookAsks`, `HookPuts` a hook, which keeps the pointer
  it has read while others change it.

`bad` notes who used memory that was not there, and nothing happens after that.
`hist` notes what the driver has no defence against: `again` (an
`IPS_CONFIG` over another one), `early` (a call on the device of a module whose init
then fails), `short` (a read behind the copy faults), `unready` (indexes freed before
there is a queue), `wild` (more indexes than the request holds, or others than the
area has), `unloaded` (hooks outlive the module). `MemorySafe` says that these are
the only ways to misuse memory, whatever fails; without one of them, it fails. A
refused registration is none of them: nothing unregisters hooks here.

### IpsharkDev

`pc` is where a thread is in open, release, `set_namelist` or `fetch_info`; `fd` the
file it works on; `hk` the hook that runs in a context; `reader` a reader of the
proc entry. Every action is a step another thread can see, as the code orders them.

* `Open`, `devset_init`, `ip_queue_init`, `OpenUndo`, `hook_register` are `ips_open`;
  `ips_release` stores CLOSE, and `hook_unregister`, `HooksGone`, `ip_queue_exit`,
  `ReleaseEnds` follow in the order of `ReleaseOrder`.
* `SetNamelist` to `SetOpen` are `set_namelist`, one name of `devset_add` at a time;
  `Fetch` to `SetName` are `fetch_info`.
* `hookfn`, `ignore`, `PutLooks`, `PutInserts` are a hook; `ShowBegins`, `ShowWalks` a
  reader; `ips_init`, `InitEnds`, `ips_exit` the module.

The packets are only counted (`len`), and the hash table is the set of its names.
Wakeups other than by the fill level, the alarm and the log are left out, and so
is the parsing of headers. `hist` holds what the promises depend on: `overlap`
(an open between the store of CLOSE and the end of that release), `overtaken` (a
fetch that begins before `set_namelist` ends), `deaf` (the kernel refused the hooks,
which `ips_open` does not ask about, and release will unregister), `openfailed`,
`noproc`. When the kernel refuses one hook it takes back those it has before it
returns; that packets may come through these for a moment is left out, as what
they use is complete by then.

### IpsharkQueue, IpsharkFrame

`IpsharkQueue` has the kfifos, with packets numbered as they come by, and
`fetch_info` from the copy of the request to the copies of the answer:
`WaitReady`, `WaitTimeout`, `WaitSignal` end the wait, `ip_queue_get` is one CPU of its
loop. It has no next-state relation of its own: what the user asks for is
decided in `IpsharkFrame`.

`IpsharkFrame` has the thread that calls `ips_frame_start` and `_stop` (`cpc`) and the
thread that fetches (`fpc`), in both modes. `size` are the malloc'ed arrays, `held`
those the handler has not destroyed yet, `cur` the one in use. `Next_n` is the size
of the next request. When malloc fails, the program exits (`NoMemory`), and may be
run again. `ips_frame_stop` is modelled for a framework that was started; a second
stop, which would join the thread of the first, is not.

### NfsRule

`ip_rule.c` keeps the rules in a red-black tree under the rwlock `ruletreelock`. The
tree is modelled by the in-order sequence `order` of its rules: that is what
`rb_link_node`, `rb_insert_color` and `rb_erase` keep, whatever they do to the shape.
The subtree a walk stands at is an interval `lo..hi` of it, and its root *any*
element of the interval; so a walk is checked, and proved, for every shape a
balancing scheme could give the tree, the kernel's among them.

* `AddLock`, `RmvLock`, `FindLock` take the lock and begin at the root; `GoLeft`,
  `GoRight` are turns of the loops of `addnfsrule` and `findnfsrule`;
  `AddRefused`, `AddLink`, `RmvErase`, `FindHit`, `NotFound` end them with the lock
  still held; `Unlock` returns. `clear_nfsrule` is the end of the module; it leaves
  a root that dangles, which goes with the module. When the module stays because its
  init failed, the tree of addresses is left in the same way, and `NfsCounter` has
  what comes of that.
* `Greater` and `Same` are `rulecmp`: fields are compared in a fixed order, and a
  field that is 0 in either rule is skipped, except the protocol. An address is
  the number of its place in the order of `ipcmp`.
* A thread is a user or a context that executes a hook; a hook calls `FindLock`
  only. An add that cannot create its entry returns before it takes the lock.

`RuleTable` is what a user is told: a set of rules no two of which overlap, where
each call takes effect at one moment. It keeps what was asked next to what was
answered, since an answer alone (-1, say) could be explained by another call.
The tree keeps that promise if rules of one protocol have their wildcards in the
same fields (`Uniform`, which the rules of the demo program that are accepted
satisfy); it does not otherwise (section 5).

### NfsCounter

`call` is the ioctl a thread is in, `hook` the packet a CPU counts: `number++` is
the two steps `CountReads` and `CountWrites`. The tree is the set of its entries,
since a walk happens under the lock; a writer's section is one step. `live` are
the entries that are allocated, so that an entry may be in `tree` and freed.
`Stored` is what `addipentry` keeps of an address: the structure says its length is
6 for IPv6, so that ten bytes of such an address are lost, while a search
compares all of them. `Total` adds up the vectors of all CPUs and `UpTo` those of
the CPUs before a given one, as a recursive function (`Sums`); both are only used
for what the properties remember.

* `CmdInit`, `nfsinit` are `NFS_CMD_INIT`; `create`, `addipentry`, `delete` add an
  address, `rmvipentry`, `delete` remove one; `GetFinds`, `GetSums`, `GetEnds` read,
  one CPU after the other. The types are read alike, one of them is followed.
* `nfs_hook_init` to `ExitEnds` are init, with its failures, and exit. `InitHooks`
  may find the kernel unwilling, and nobody asks; the exit then unregisters hooks
  that are not there (`CleanBegins`).
* `Empty` are addresses of length 0, which `create` refuses; `Long` are those whose
  `len`, a byte of the user's, is larger than the room in an entry: as much is copied,
  over the entry's counter and further, which is a misuse of memory.

A thread opens the device for one ioctl, so the module can be unloaded between
any two.

## 3. The runs

| Run | Instance | Shows |
|---|---|---|
| `ips2_create` | 3 CPUs, shorts of 4 bits | ranges partition (`RangesPartition`), completeness (`HandsOver`), clean failure (`NothingLeft`) |
| `ips2_queue` | 2 CPUs with 2 slots, batch 2, 2 producers, 3 packets | `SlotConservation` (no slot is lost or doubled, its state says where it is), `BatchFits`, `NoLostWakeup`, `LoanStable`; and the refinement of `PacketChannel` |
| `ips2_careless` | 2 CPUs with 2 slots, 2 producers, 4 packets, no fetches, any frees of up to two of five indexes | `InUseStable` although indexes are freed twice, early, behind the area, or in too large a number |
| `ips2_live` | 2 CPUs with 2 slots, batch 2, 1 producer, 3 packets, fair | `Fetched`, `Recycled` |
| `ips2_e2e` | 3 CPUs, one tester | the unit test's `idx_num == k` **fails** (see Findings) |
| `ips2_devset` | 5 names, two with one hash; lists of up to 4 | `Ordered` (the sort loses no name and keeps hash and name together), `WindowHolds` (the search stays in the arrays), `VerdictRight` |
| `ips2_core` | 2 threads, 2 CPUs, 2 configurations | `MemorySafe`, `ConfigAnswers`: whatever fails, and if the kernel refuses the hooks, hooks and ioctls find what they use and the user learns how things are, but for the six things `hist` notes |
| `ipshark_dev` | 2 threads, 1 hook, 3 lists | `MemorySafe`, `OpenMeansReady`, `SingleFetcher`, `StateMatchesSet`, `ListHonoured`: what the states promise, whatever fails, but for the named ways they are passed by |
| `ipshark_frame` | 2 CPUs, kfifos of 2, 3 packets each, 1 fault, fair | `InOrderOnce`, `TakesAll`, `BatchFits`; `StopReturns`, `KeepsFetching` |
| `nfs_rule` | 2 threads, 6 rules of 3 protocols, 6 packets, up to 4 rules in the tree | `WalkInTree`, `NothingBehind`, `FoundIfMatches`, and the refinement of `RuleTable`, with uniform wildcards |
| `nfs_mixed` | 2 rules, added in a given order | `FoundIfMatches` **fails** with mixed wildcards (see Findings) |
| `nfs_counter` | 2 threads, 2 entries, 4 addresses (one empty, one too long), 2 CPUs, 1 packet on each, 2 types | `MemorySafe`, `ReadRegular`, `CountsKept`, `OneEntry` |

Bounds. Three CPUs are needed for a range that has a neighbour on each side and
for a batch that ends before the last CPU; the shorts of `ips2_create` have four
bits so that sums below, at and beyond the wrap occur with three sizes. Two slots
are the smallest size `kfifo_alloc` accepts; with three packets the idle list runs
empty on one CPU while the other still works, and with a batch of two a fetch fills
the array before it has seen every CPU. Two producers are enough for the races on
`puttimes` and for the exclusion on a CPU. `MaxPkt` bounds only how many packets
are seen, so the runs of `Ips2Queue` end in states without successor
(`CHECK_DEADLOCK FALSE`): no packet has to come. Producers are symmetric in
`ips2_queue` and `ips2_careless`; `ips2_live` uses no symmetry.

In `ips2_careless` a slot of each of two CPUs can be freed by a user who was not given
it, while two hooks are in the sections of the two CPUs or compete for one; a batch of one
makes a request of two indexes one too large, and index 4 is behind the area.
Four packets fill the ready list of a CPU and meet it full, so that `PutBack` happens.
The fetcher never runs there (`NeverFetches`): a careless user can free what he was
not given, so fetches add no slot he could not name, and without them the lists fill
sooner. The theorem `InUseIsStable` is about `Spec`, with the fetcher.

In `ips2_live` there are more packets than a batch and two CPUs, so that a batch is full
before it has seen the second CPU and packets are left behind. One producer suffices:
`Fetched` and `Recycled` are about what happens to a slot after it was published or
freed, to which a second producer adds races on `puttimes` only, and those are
safety (`NoLostWakeup` in `ips2_queue`, and proved); two producers take the search for
fair cycles beyond five minutes.

`ips2_devset` has every list of up to
three names in every order, four names with and without a clash in every order,
and lists with doubles, each white and black, and asks for every pair of devices:
the search has windows of one to four entries, with a middle that is and is not
an edge. It says `CHECK_DEADLOCK FALSE` because nothing follows an oops. In `nfs_rule`
two of the rules overlap, packets exist that match no rule and that match one
after the first, second and last compared field; with four rules (`MaxRules`) a
walk has up to three turns on each side. Two threads, which are symmetric, give
every pair of readers and writers.

In `ips2_core` two threads and two configurations are enough for a configuration
over a finished one, for two at a time, and for one after a failed one; hooks
on two CPUs hold pointers of different age. `ipshark_dev` has the two threads that
race for the device and for the fetch, packets with an input device, an output
device and both, a white list, a black list and one that is refused; the wait
threshold `Enough` (255 in the code) is 1 and the queue takes 2, so that the wait ends in
every way. In `ipshark_frame` the constants of the code keep their order: the first
request (`First`, 16) and `Block` (512) become 2, `MaxFetch` (1024) becomes 4, so that
one doubling reaches it and the next passes it; `Part` (4) becomes 2;
`IP_FIFO_SIZE` is 2, so that three packets overflow it, and one fault hits any
of the calls. Two arrays (`Buffers`) are enough for one that is held while the other is
filled; with both given away the loop waits for a `Destroy`, a bound on memory
that the code does not have, and that fairness of the handler resolves. It has
no deadlock, which is checked. In `nfs_counter` a packet on each CPU meets adds, removals, reads and
the exit of two threads; an address that is kept whole, one that is cut, one that
is empty and one that is too long; a type within and one beyond a `maxtype` of 1;
two entries let a removed address be added again. `CHECK_DEADLOCK FALSE` in `ips2_core`, `ipshark_dev`
and `nfs_counter` is there because nothing follows a misuse of memory, and because
the bounds on configurations and packets run out.

Fairness (`FairSpec`): a hook that began ends, the threads inside the two ioctls
are scheduled, the timer fires, and the user calls `IPS_FETCH_INFO` again after it
returns. That is the scheduler and the timer of the kernel and the loop every user
of the driver runs. Nothing is assumed about packets, signals or frees. `Fetched`
speaks of executions in which signals stop at some point, since a signal may end
every wait. It says of a ready packet that is counted that it is fetched or that a
batch is cut off before its turn (`CutOff`: `num` is used up by then, and `puttimes` was
reset; the packet waits for the next one that is counted), and of the first packet of
the first CPU that it is fetched, as its turn is the first.

`Spec` of `IpsharkFrame` has weak fairness of the calling thread inside start and
stop (`Caller`), of the fetching thread with the kernel's part of its calls (`Fetcher`:
threads are scheduled and the timer of the wait, HZ/20, fires), and of each
`Destroy(b)`: a handler is done with a batch some day. That packets come and that
anybody registers, starts or stops is not assumed. `KeepsFetching` is about the
state in which the loop cannot keep its promise, too: see Findings.

## 4. What is proved

`Ips2CreateProof`, for every `NCpu`, every table and every word size that the
table `Pow2` covers:

* `TypeCorrect`, `RangesArePartition`, `QueueIsHandedOver`, `NothingIsLeft`.
  The inductive invariant is `IInv`: at the head of turn `cpu` the CPUs
  `0..cpu-1` are complete and their ranges partition `0..pre-1` (`Progress`), and
  buffers hang on a `queue_data` that exists (`BuffersOwned`). `RangesPartition`
  alone says nothing before the loop ends, so it is not inductive. The step that
  carries the proof is that the next range begins where the last one ended, which
  needs that the addition did not wrap (lemma `WrapTest`).

`Ips2QueueProof`, for every number of CPUs, producers and packets, every layout,
capacity and batch. With no assumption about the user:

* `TypeCorrect` and `MoveStaysInTheArray` (`BatchFits`) from `Inv1`. The types need
  the batch invariant (`num` is positive inside the loop), so both are proved in one
  induction.
* `WakeupIsNotLost` (`NoLostWakeup`), inductive above the types.
* `InUseIsStable` (`InUseStable`) from `Inv2`: at most one producer is in the
  section of a CPU, every index is on lists of its own CPU only, and so two
  producers never hold the same slot; what one of them read in the state byte is
  still true when it writes. This holds for indexes behind the area and for requests
  of any length, up to the step that makes `broken` true.

For a user who frees only what he was given, and each index once (`~ Careless`;
otherwise an index is soon on two lists, and TLC shows each of the three to fail):

* `SlotsAreConserved` (`SlotConservation`) from `Inv3`, with `~ broken` as a part: no
  list is ever written to by two parties. An index is in one of six
  places: the idle or ready list of its CPU, a producer's hand, `idx_array`, with the
  user, or in a free request. A step that moves it takes it from one and
  adds it to another, and the places stay disjoint. That a kfifo never overflows
  follows by counting: its indexes are distinct and all from the range of the CPU.
* `LoansAreStable` (`LoanStable`): only `PutFill` writes a packet, and its slot is in
  the producer's hand, hence not on loan.
* `QueueIsAChannel` (`ImplementsChannel`) from `Inv4`, which adds where a packet is: with
  one producer, or in one slot on loan. Each action is one step of `PacketChannel`
  or a stutter. The channel drops a packet only when all buffers of a CPU are
  taken; `ip_queue_put` drops one when it has seen the idle list empty, or when the ready list
  refuses the index. The second never happens. For the first, the slots
  on loan of the CPU are all it has (`TakenAreOnLoan`).

`Ips2DevsetProof`, for all names, hashes and lists:

* `TypeCorrect`, `OrderIsOrder` (`Ordered`), `SearchIsRight` (`WindowHolds`),
  `VerdictIsRight` (`VerdictRight`), `SearchHalves` (`Halves`). They share the invariant
  `IInv` of `Ips2Devset`: the arrays hold the listed names next to their hashes at
  all times (`SetInv`), the part before `i` is in order and not above the rest
  (`OrderInv`), and when the output device is asked for, the input device was
  ignored rightly (`AskInv`). None of the properties is inductive alone:
  `VerdictRight` needs the answer for the first device, which is no longer visible
  when the second one is given, and `WindowHolds` needs the order.

`Ips2CoreProof`, for any number of threads, CPUs and calls of `IPS_CONFIG`:

* `TypeCorrect`, `NothingIsMisused` (`MemorySafe`), `AnswersAreRight`
  (`ConfigAnswers`). `MemorySafe` says what does not happen in the next step, so
  it takes an invariant about who owns what, `Proper`: every allocation has its
  pointer and every pointer its allocation (`Owned`); at most one thread
  configures, and what it has built so far follows from where it is (`Built`); hooks in
  flight hold the pointers of today (`HookInv`); the hooks are registered
  exactly if the last answer was `ok`, and with `deaf` everything is there but them.
  `Proper` holds as long as `hist` names none of the ways around it. `ConfigAnswers` also speaks of executions in which the module was
  unloaded under its hooks, which `UnloadedInv` covers. TLC checks `IInv` too, on
  the instance of `ips2_core` (not a run: its two consequences are).

`NfsRuleProof`, for any number of threads, rules and packets:

* `TypeCorrect` and `WalkStaysInTree` (`WalkInTree`) for all rules, from `WalkInv`: a
  writer is alone (`LockInv`), so nobody else's interval goes stale when it links or
  erases.
* `NothingIsLeftBehind` (`NothingBehind`), `MatchIsFound` (`FoundIfMatches`) and
  `TreeIsTable` (the refinement) under `Uniform`, from `WalkInv` and `TreeInv`: the
  sequence is in order (`Sorted`), and rules outside a walk's interval are before or
  behind what it looks for. The step that needs `Uniform` is that `rulecmp` is
  transitive (lemma `GreaterTransitive`); a turn then rules out a whole side.
  That an erased rule is gone needs that no rule is in the tree twice, which
  follows from the order.

`IpsharkDevProof`, for any number of threads, hooks, names and lists:

* `TypeCorrect`; `FetchIsSingle` (`SingleFetcher`) from `TurnInv`; `MemoryIsSafe`
  (`MemorySafe`) and `OpenIsReady` (`OpenMeansReady`) from `BuiltInv`; `StateIsTheSets`
  (`StateMatchesSet`) from `ActiveInv`; `ListIsHonoured` (`ListHonoured`) from `ListInv`.
* The argument goes along the compare-and-swaps. The one from CLOSE makes at most
  one thread the owner of a file, open or being opened (`FileInv`); those between OPEN,
  NAME_SET and RUN give the device to one `set_namelist` or one `fetch_info`
  (`TurnInv`), unless a fetch has overtaken the `set_namelist` that let it in. As
  long as no open came between the store of CLOSE and the end of a release
  (`Overlap`), one thread at most opens, owns or releases, and what is there follows from
  where it is: table, queue, hooks in that order, and back (`BuiltInv`); of hooks that the
  kernel refused it says that they are not there, up to the release that misses them. A hook
  that is inside keeps its queue and table because
  `nf_unregister_hook` waits for it. With `ActiveInv` (the list is active from the
  first name on until release) the answers of `ignore` can be compared with the
  list, if the packet did not come while names were still added.

`IpsharkFrameProof`, for any number of CPUs, arrays, packets and faults, and every size
of kfifos and requests, provided the first request is not above what the kernel takes
(`FrameAssumption`: 16 and 1024):

* `TypeCorrect`, `ArrayIsLargeEnough` (`BatchFits`) and `AllIsTaken` (`TakesAll`) from
  `BatchInv`. `BatchFits` speaks of the array while the kernel fills it, but what
  makes it true was done in several places before: `ThreadInv` says that the mode
  cannot change under a thread, since one that fetches has the device open and the other
  thread idle or waiting for it; `ArrayInv` that after an error the thread has its
  array still, as large as `lastn`; `RequestInv` that `s.n` is what was asked for until the
  kernel answers. For `TakesAll`, `GetInv` says of a batch half-way that what it
  has and what is in the kfifos still to be visited is no less than what was there when it
  began: a kfifo that was left with room in the batch was emptied, and puts
  only add.
* `PacketsArriveInOrder` (`InOrderOnce`) from `OrderInv`, which adds that the last number
  handled came by (`LastInv`: else a packet that comes next might not be behind it). A
  packet's number does not change, so `InOrder` of a batch and a kfifo is
  kept by moving the front of the one behind the other (lemmas `TakeKeepsOrder`,
  `HandleKeepsOrder`), and the sum is kept because the places of a CPU in a batch are
  counted as a set, which splits in two (`TakeCounts`).
* `From` and `ip_queue_len` are cardinalities of sets of places, not sums or
  selections: what a fold computes cannot be shown without induction over data.

`NfsCounterProof`, for any number of threads, entries, CPUs, types and packets:

* `TypeCorrect` from `CallInv`: what is read under the lock is in the tree, and an
  entry that is not in the tree yet, or no longer, belongs to one thread.
* `CountsAreKept` (`CountsKept`) and `ReadIsRegular` (`ReadRegular`) from `NumberInv` and
  `SumInv`. Nobody but the CPU writes its vector between the halves of its
  `number++`; and a sum that has come as far as CPU *n* is between the counts of
  the CPUs before *n* now and those of all the CPUs at the begin, less what is still
  to be read. The facts about sums (adding one to one CPU adds one to each sum
  that contains it; sums grow with their parts) are shown from the recursive
  function by a least counterexample, since induction over data is out of reach
  (`SumsGrow`, `SumsOfNothing`).
* `AddressHasOneEntry` (`OneEntry`): the walk under the lock sees what was added
  meanwhile. The proof found that an address to which a longer one is cut must be
  an exception even for itself, which TLC confirms with three addresses.
* `MemoryIsSafe` (`MemorySafe`) from `LifeInv`: unless init failed, device, hooks and
  directories are there when the module is in, entries are allocated while they
  are in the tree or with a thread, their room is `maxtype` but for two `NFS_CMD_INIT`
  at a time, and proc files are in their directory but for an early ioctl. The hooks
  are there from `InitHooks` on unless the kernel refused them (`deaf`), and only what
  `Long` names writes out of an entry.

The assumptions are the named `ASSUME`s of the modules, and `Uniform` or
`~ Careless` where a theorem says so. `LayoutAssumption` of
`Ips2Queue` is what `RangesArePartition` proves of `Ips2Create`.

Every invariant and every action property that a passing run checks is stated by
one of these theorems, and so are the two refinements. Only model-checked is liveness
(`Fetched`, `Recycled`, `StopReturns`, `KeepsFetching`), which is out of the prover's
reach. `LeastElement` is stated in each of the four proof modules that need it.

## 5. Findings

* **`ip_queue_move2dma` stops early** (`src/ipshark2/core/ip_queue.c:191`).
  `num -= copied` subtracts the running sum of all turns in every turn. With
  packets on CPUs 0 and 1, those of CPU 0 are subtracted twice, `num` reaches zero
  with room left in `idx_array`, and the packets of the other CPUs stay behind.
  `ip_queue_e2e_test2` (`src/ipshark2/core/ut/ip_queue.c:119`) expects otherwise;
  it passes only while the test is not migrated between CPUs. `BatchFits` shows
  that the error never overruns the array.

* **The rule tree misses rules with mixed wildcards** (`src/nfstat/ip_rule.c:138`).
  `nfs.h:86` and `internal.h:32` promise that a field of 0 does not matter and that -1
  means not found. With the rules *TCP, out, port 80* and *TCP, any direction, port
  90*, an incoming packet of port 90 turns left at the first rule, because its
  direction is smaller, and the second rule is to its right. `nfs_mixed` adds them in
  this order and gives the tree the shape the kernel gives it (`MixedSpec`): of two nodes
  the one that was linked first is the root. Added the other way round the packet finds its
  rule. `MatchIsFound` says when this cannot happen at all.
* **Protocol 0 is no wildcard** (`src/nfstat/ip_rule.c:130`), although `ip_rule_show`
  displays it as `ANY` (`:51`) like the wildcards of the other fields.

What the other properties name as exceptions are weaknesses of the code, met while
the modules were written. No line of the repository says otherwise, so they are no
runs of their own; each exception is in a property because TLC found the property
violated without it. A property does not catch what it names as an exception: the list
of hazards in `PROJECT.json` says so in a note wherever it is the case.

* All three modules ignore the result of `nf_register_hooks`
  (`src/ipshark2/core/hook.c:206`, `src/ipshark/hook.c:205`, `src/nfstat/nfs_hook.c:406`). ipshark2
  then says success and no packet ever comes; in ipshark the release, and in nfstat the
  exit, unregister hooks that are not in the kernel's lists.

* ipshark2 (`Ips2Core`): a second `IPS_CONFIG` overwrites `qptr` and `m` under running
  hooks and registers them again (`core.c:35`); when `kmalloc` fails `ips_config`
  returns 0 (`core.c:32`); unloading leaves the hooks registered (`core.c:148`);
  `sizeof(ips_config)` is the size of a function, 1, so that the configuration is copied
  short and the list of devices is read behind the copy (`core.c:29`, `devset.h:18`);
  `idx_num` and the indexes of `IPS_FREE_MEM` are not checked (`core.c:83`,
  `ip_queue.c:151`). Beside the models: `p` is not freed after success; `kzalloc` is not tested (`devset.c:50`,
  the `oops` of `Ips2Devset`); `IPS_FREE_MEM` has no `break`.
* ipshark (`IpsharkDev`): a failed open leaves the device in OPEN, and nobody can
  open it again; release stores CLOSE before it has taken anything down, so the
  next open can overlap with it (`core.c:55`); a fetch can begin before
  `set_namelist` ends, and a `set_namelist` that then fails takes its state away; a reader of
  the proc entry walks a table that release frees; when there is no proc entry
  `ips_init` cleans up and returns 0.
* ipshark (`IpsharkFrame`): a request that was doubled past 1024 is refused by the
  kernel, and then repeated for ever (`usr/framework.c:16`); an array that was not given
  away when the thread stops is lost. `TakesAll` agrees with the comment at
  `src/ipshark/ip_queue.c:296`; the test at `:257` expects the 1025th put to fail, but
  `IP_FIFO_SIZE` is 16384 (`:11`).
* nfstat (`NfsCounter`): `vmalloc`'s result is tested after its use (`ip_counter.c:296`);
  two `NFS_CMD_INIT` at a time both pass the test, and entries made between them are
  too small for the second; the index of a rule is not compared with `maxtype`; a failed
  init returns a value that is not negative, so that the module stays; the device can be
  used before the proc directories are there; `len` of an address is not checked before as
  many bytes are copied (`ip_counter.c:187`); an IPv6 address is stored cut, so that
  it is never found, never removed, and added again and again.

## 6. Not modelled, and what could follow

Modelled are the kernel sides of all three modules and the framework of ipshark.
Proofs that could follow: that `NfsCounter` and `IpsharkFrame` implement abstract
specifications of their own (a map of counters, a lossy FIFO per CPU), which are
not written yet.

Not modelled, and why: `dma.c` of ipshark2 (page faults of the kernel, no state
of its own) and `proc.c` (an empty file); the parsing of packet headers and the
statistics (data no property is about); the unit tests but for
`ip_queue_e2e_test2`; the user test and demo programs and the user library of nfstat
(wrappers of single ioctls); the makefiles.
