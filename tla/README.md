# iot_base: a verification project

iot_base is a small C library for an IoT gateway: threads that exchange messages
through a dispatch thread, a key-value store in a file, a table of sub-devices, a
rotating log and a few helpers. This directory holds TLA+ models of its parts, the
configurations that model-check them, and machine-checked proofs about them. Paths
and line numbers are those of the repository; the exact lines each definition
stands for are in `PROJECT.json` ("map").

To run a check: `tlc -config MapfileMap.cfg MCMapfile`; the module of each
configuration is in the table of runs below. To check proofs:
`tlapm MapfileProofs.tla`, and likewise each module of section 4.

## 1. Inventory of the system

| Part | State it keeps | Operations | Called from |
|---|---|---|---|
| dispatcher, `dispatch.c` | `fd_array` (descriptor and mode of each module id), `dispatch_array_lock`; the kernel's socketpairs | `dispatch_register_channel`, `dispatch_del_channel`, `dispatch_send_msg`, `dispatch_send_multimsg`, `dispatch_recv_msg`, and the loop `dispatch_thread_func` | every module thread, and one dispatch thread |
| key-value file, `mapfile.c` | the file: 384 rows of 2 slots; a mutex per handle | `mapfile_kv_open`, `_set`, `_get`, `_del`, `_emp`, `mapfile_kv_item_get` | any thread holding a handle; other processes |
| sub-device table, `subdev_address_hash.c` | a uthash table of allocated entries, a read-write lock | `add`, `find`, `delete`, `delete_all`, `find_ex`, `iterator`, `get_keys` | one device thread, one cloud thread |
| uthash, `inc/uthash.h` | the application order, the buckets and their chains, all threaded through the elements | `HASH_ADD_STR`, `HASH_FIND_STR`, `HASH_DEL`, `HASH_ITER`, and the expansion of buckets | the sub-device table, under its lock |
| rotating log, `log_util.c` | `log_setting` (level, file, shared buffer, sizes), the static `log_offset`, `file_mutex`; the log file | `gw_log_setting`, `gw_disable_log`, `log_printf` | every thread |
| protocol lists, `protocol_convert.c` | five linked lists of property names in a caller's context | `protocol_init`, `protocol_destroy`, `protocol_insert_list`; the conversions declared in the header have no definition in the repository | one thread |
| JSON helpers, `json_api.c` | none; the caller's tree and buffer | `json_read_file`, `json_get_sub_value` | any thread |
| helpers, `gw_misc.c` | the flag `gateway_in_blocked` | `sem_timedwait_ms`, get and set of the flag, `gw_rm_all_files` | any thread |
| `inc/cJSON.h`, `example.c` | header of an external library; a two-line example | | |

### How they interact

The sub-device table is built on uthash and protects it with its lock; otherwise the
parts call one another hardly at all (all of them log). They meet in the threads of
the gateway, which the repository does not contain, and in shared state: descriptor
numbers, the files and the locks. The dispatcher is the one part with a thread of
its own. The sub-device table calls back into its user (`topo_leave_device_cb`)
with its lock held.

### What is hard about each part, and what makes it correct

- **Dispatcher.** The dispatch thread reads `fd_array` without the lock
  (lines 277, 311, 330, 394) while module threads register and delete, and
  descriptor numbers are reused by the kernel. Queues are bounded and sends do not
  wait. Correct means: a thread that holds a channel has it served; slots name live
  descriptors; nothing leaks; messages reach their addressees only, in order and at
  most once; and, as long as queues do not overflow, at last; nobody is starved.
- **Key-value file.** A set reads a whole row, changes one slot, and writes the row
  back; power can fail at any moment, and a file is made or emptied in two steps.
  Correct means: threads that share a handle see an atomic map; a power failure
  completes or undoes the calls it interrupts and loses nothing else; an I/O error
  changes nothing, except that a failing `mapfile_kv_emp` leaves it open whether the
  map is empty.
- **Sub-device table.** `add` and `delete` search before they take the lock and
  `delete` frees after it has released it; the cloud thread's comparison is many
  calls, with marks left in the table between them, and any of the calls may fail to
  get the lock. Correct means: no freed entry is reached; an address has one entry;
  marks do not outlive a comparison that runs to its end; exactly the devices the cloud
  does not know are reported; `get_keys` fills its rows with the first devices of a type.
- **uthash.** An element is on two doubly linked lists; adding one may redistribute
  all of them over twice the buckets, and `delete_all` removes what it is walking.
  Correct means: lists, chains and counts agree, a look-up finds what is listed, and
  `delete_all` leaves nothing.
- **Log.** One buffer and one offset for all threads, partial and failing writes,
  a file that starts over. Correct means: the records since the last rewind are
  whole, in order and without gaps, and the file does not grow.
- **Protocol lists.** An insertion is three allocations, each of which may fail.
  Correct means: a failed one leaves nothing and loses nothing; `protocol_destroy`
  frees everything.
- **JSON helpers.** The file is measured, opened and read while others rewrite it;
  values go through one buffer. Correct means: the text ends within its buffer, and
  nothing stays open or allocated.
- **sem_timedwait_ms.** Milliseconds become seconds and nanoseconds in a `long`.
  Correct means: the exact time-out, normalised, without overflow at 32 bits.

## 2. Modules

| Module | Role |
|---|---|
| `Dispatch`, `MCDispatch`, `DispatchProofs` | `dispatch.c` and the kernel's socketpairs; instances for TLC; theorems |
| `KVMap` | abstract specification: an atomic map with rows of bounded size that survives power failures |
| `Mapfile`, `MCMapfile` | `mapfile.c`, and the refinement mapping to `KVMap`; instances |
| `MapfileProofs`, `MapfileRefinement` | theorems about `Mapfile`; that it implements `KVMap` |
| `SubdevHash`, `MCSubdevHash`, `SubdevHashProofs` | `subdev_address_hash.c` with a device thread and a cloud thread; instances; theorems |
| `UTHash`, `UTHashProofs` | the macros of `uthash.h` that the table uses; theorems |
| `Log`, `LogProofs` | `log_util.c`; theorems |
| `ProtocolConvert`, `JsonApi`, `GwMisc`, `HelperProofs` | `protocol_convert.c`; `json_api.c`; `sem_timedwait_ms`; theorems about the three |
| `SequenceLemmas` | facts that the proofs about lists share: removal, concatenation, sequences without repetitions, and the least number with a property, which does the work of induction |
| `MCLibrary` | instances of the components that share nothing: `Log`, `UTHash`, `ProtocolConvert`, `JsonApi`, `GwMisc` |

In every module an action is one access to state that another thread can see, and
a critical section is split wherever somebody may look at what it protects
without the lock. Calls that change nothing (argument checks, timeouts, pure
look-ups) have no action: they are stuttering steps. Operators named as the mutant
of another one are slips that code could contain; they are part of no
specification and show that each property notices them.

### Dispatch

| Variables | Code |
|---|---|
| `fd_array`, `mode_array`, `lock` | the two columns of `fd_array`, and its mutex |
| `opened`, `peer`, `inq` | the kernel: open descriptors, the other end of each socketpair, packets waiting at a descriptor |
| `pc`, `handle`, `fd0`, `wanted`, `nsent`, `received` | of each module thread: where it is in register or delete, `fd[1]`, `fd[0]`, the mode it asked for; the last two are history |
| `dpc`, `i`, `j`, `read_fds`, `dispatch_fd`, `message`, `info`, `count` | locals of `dispatch_thread_func`, `dispatch_transfer_msg` and `dispatch_get_fd` |

Registration is three actions (examine the slot and make the pair; lock and store the
descriptor; store the mode and unlock), deletion three (lock and close; clear and
unlock; close the thread's own end). The dispatch thread's actions follow its loops one
slot at a time: `BuildFdSets`, `Select`, `ReadSlot`, `Recv`, `RouteOne` or
`RouteAllFd`/`RouteAllMode`, `Transmit`; `Advance` is the `continue` of its loop.
`Transmit` is one try of a send: it sends and goes on (`NextFd`), or fails and goes on,
or is interrupted by a signal (`Interrupted`) and tried again in a later step, until
`count` has reached three; between two tries the other threads run. `socketpair` may
return any two free numbers, which is how a number comes to be reused at once. A packet
carries its size: the dispatch thread compares it and throws away what is no whole
`message_t`. A module asks for the bytes of a bare message; of a longer packet `recv`
cuts off the rest, so that the comparison at 202 finds the size it expects and `RecvMsg`
takes any packet. The header at this commit names one module id only
(`MODULE_ID_THREAD1`), while the code uses `MODULE_ID_MAIN_CONSOLE` as the first one;
the model takes that name as a constant, and any number of ids.

### Mapfile and KVMap

The file is a size (`none`, `short`, `full`) and rows of slots. A key is a model
value; `hash_gen` gives its row and `PrefixOf` says which keys begin with it,
which is all that `memcmp(..., strlen(key))` can tell. `Stop`, `Put`, `Get` and `Rm`
are the loops over a row, which end at the first empty slot. Opening is `Open`, or
`Open`, `Create`, `CreateExtend` and `CreateSync` when there is no file. A call is
`Call`, `Lock`, the read of the row, `Write`, `Sync`, `Return`; `mapfile_kv_emp`
empties the file in one step (`EmpClear`) and extends it in another (`EmpExtend`).
Wherever the code looks at the result of `malloc` or of an access to the file, that may
fail: `OpenFails`, `ReadError`, `WriteError`, `EmpError`. The code returns -1 then, as it
does for a key that is not found, a full row or a short file; the model tells the two
apart (`Error` and `Failure`), so that a failure without an I/O error still has to be
justified.

`disk` is what is known to be on the disk. `PowerFailure` keeps any mixture, slot by
slot, of it and of what was written since. A file that has been emptied (`emptied`)
keeps all its old blocks or none; it stays so until the next successful fsync, which
after a failing `mapfile_kv_emp` is that of another call. A slot is written whole.
`acked` is history: what each key was last acknowledged as, or unknown while a call that
could change it is under way.

`KVMap` says what callers rely on: each call takes effect at one moment between its
invocation and its return; but for an I/O error (`DoError`), which changes nothing, a set
may fail only for a new key whose row is full of others; and a power failure completes
or undoes the calls under way, key by key, and touches nothing else. It makes two
concessions to the code. While there is no whole file (`usable`), sets and deletes
fail and gets find nothing; `Provide` is somebody making the file whole, of a map that
is empty. And to empty the map takes two steps, `BeginEmp` and `EndEmp`: in
between calls see the empty map (`Seen`) but do not take effect, an error leaves it so,
and until the emptied map has reached the disk (`Store`, or `Reach` by an open's fsync) a
power failure may bring the old one back. The mapping (`Map`) reads the map out of the
*disk*: a call takes effect when its change is synced (`Sync`, or the `CreateSync` of
another process that opens the file at that moment), or at the write when the disk
holds already what is written.

### SubdevHash and UTHash

In `SubdevHash` the table is the list of entries in the order they were added
(uthash's application order), entries are pieces of memory that are allocated and
freed, and `reading` is who holds the lock for reading over several steps. The
iterator's and `get_keys`' steps are actions: `cursor` and `tmp` are the two pointers
of `HASH_ITER`. `Compare` is the environment: a list from the cloud, whose devices
`FindEx` looks up in any order.

Every call returns when its `pthread_rwlock_` call fails, and three of these returns
leave something behind. `AddNoLock` forgets the entry that `add` has just allocated
(49-53); `FindExNoLock` leaves a device of the cloud's list unmarked (177-181), which the
iterator then reports; `IterNoLock` leaves all the marks of the comparison in the table
(208-212), where they hide a device that leaves the cloud's list before the next
comparison. The properties say how far this goes and no further, by two history
variables. `lost` is the entries forgotten: nothing else leaks (`OneEntryPerAddress`).
`left` is the addresses asked for in comparisons cut short since the last one that
ended: only those may be marked besides the ones of this comparison (`MarksCurrent`),
only those may be missing from its report (`StrangersReported`), and at its end no mark
is left of either. `LocksMayFail` turns these failures off for the run SubdevRejoin,
whose counterexample needs none.

`UTHash` is one level down: `head`, `tail`, `prev`, `next` are the application
order, `tbl` the buckets with their counts and thresholds and the chains
(`hh_prev`, `hh_next`) through the elements. A macro is one action, as its callers
hold the lock: `AddFirst` makes the table, `AddLast` appends, both insert into a
bucket and expand when it is crowded (`HASH_EXPAND_BUCKETS`, whose `turn` is the
table after so many items have been redistributed); `Delete` unlinks from both lists;
`DeleteAllBegin` and `DeleteAllNext` are the loop of `delete_all`. `order` is history:
what `SubdevHash` takes for the table. The number of buckets (32) and the threshold
(10) are constants, so that expansions happen in small instances. `Elements` is
assumed to be finite, as memory is: `Walk` follows a chain for as many steps at most.
`ChainsBounded` says what the code guarantees of a chain. The simpler bound that the
comment at `inc/uthash.h:1079` suggests, that no chain stays beyond its threshold while
expansion is not inhibited, holds for six elements and not in a large table: an
expansion raises the thresholds of those buckets only whose chains exceed the *ideal*
length (862), which is more than ten beyond ten items a bucket. With 32 buckets at first,
well-chosen hashes leave a chain of 11 with `expand_mult` 0 at 2753 elements. The
elements are found all the same. `DeleteAllEmpties` says that the step in which
`delete_all` ends leaves no element; a loop that read the next element after freeing
the one before it would end early, with both lists intact.

### Log

`log_setting`, the offset, the mutex and the file are variables; the file is the
sequence of its bytes, each known by the record it comes from. `Format` lets
`vsnprintf` produce any record in `PrintedAs`, for the `va_list` it is given has been
used up by `vprintf` (226) and is indeterminate as soon as the format has arguments
(a crash is left out). `Pwrite` writes any part of what remains, and `PwriteFails`
may end it after any part. `gw_log_setting` is one action, since it succeeds
once and before anything is logged, as in `example.c`; a failed `fopen` can be
tried again.

### ProtocolConvert, JsonApi, GwMisc

`ProtocolConvert` has the context's heads, the links and the heap as variables, and
an action per allocation: `InsertNode`, `InsertCloudName`, `InsertRexName`,
`InsertLink`, each but the last with its failure. The reader of the ini file is not
in the repository; it is known to call `protocol_insert_list`, so it is any sequence
of insertions into the sections. `DestroyNode` frees one entry, `DestroyList` goes
to the next of the three lists that `protocol_destroy` visits.

`JsonApi` has an action per access to the file (`Stat`, `Malloc`, `Fopen`, `Fread`,
`Parse`) and `Rewrite`, another process that puts a new file in place or writes into
the open one, at any moment; `Fopen` and `Fread` may fail on a file that is as it was.
`json_get_sub_value` works on the tree of the last read and the caller's one buffer,
which keeps an older value when there is no tree (99). No property is about the buffer:
nothing in the repository says what it holds after a failure.

`GwMisc` computes the time-out of `sem_timedwait_ms` (`Timeout`) and waits while
other threads post and the clock goes on. Delays are non-negative, and end before the
clock's seconds reach the largest 32-bit `long` (`TimeAssumption`).

## 3. Runs

| Run (module) | Expected | Properties | Distinct states | What it asks |
|---|---|---|---|---|
| DispatchChurn (MCDispatch) | pass | `ChannelServed`, `SlotsLive`, `NoLeak` | 627,492 | Two threads register and delete their channels at any moment while messages flow: channels stay served, slots live, descriptors accounted for. |
| DispatchRouting (MCDispatch) | pass | `TypeOK`, `OnlyAddressed`, `FifoPerSender` | 1,640,820 | Unicast and broadcast messages, some dropped, reach only their addressees, in the sender's order and at most once. |
| DispatchDelivery (MCDispatch) | pass | `Delivered` | 149,834 | As long as no queue overflows, every message queued for registered modules is at last received. |
| DispatchFairness (MCDispatch) | pass | `FullChannelDrains` | 246,242 | A module whose channel is full is served however much the other one sends. |
| DispatchTornMode (MCDispatch) | violation | `SendOnlyGetsNoBroadcast` | stops at the violation | A broadcast reaches a SEND_ONLY module that is just registering: descriptor and mode are two unlocked accesses. |
| DispatchStaleFd (MCDispatch) | violation | `OnlyAddressed` | stops at the violation | A message is sent on a descriptor number that was closed and given to another module after it was read. |
| MapfileMap (MCMapfile) | pass | `TypeOK`, `Durable`, `RowIsCurrent`, `ImplementsMap` | 413,548 | Threads that share a handle, with no prefixes and no deletes in shared rows, see one atomic map, full rows included, through I/O errors and a power failure and while another process opens the file; no acknowledged value is lost. |
| MapfileHole (MCMapfile) | violation | `DelKeepsOthers` | stops at the violation | Deleting the first key of a row hides the second one. |
| SubdevTopo (MCSubdevHash) | pass | `TypeOK`, `NoDanglingPointer`, `OneEntryPerAddress`, `MarksCurrent`, `StrangersReported`, `KeysOfType` | 887,796 | A device thread that adds and deletes while the cloud thread compares and iterates: no freed entry is reached, no address is entered twice, every device the cloud does not know is reported, marks do not outlive a comparison that could lock the table, and get_keys returns the first devices of a type. |
| SubdevRejoin (MCSubdevHash) | violation | `OnlyStrangersReported` | stops at the violation | A device that joins between its look-up and the iterator is reported as unknown to the cloud, although it is in the cloud's list. |
| Library (MCLibrary) | pass | `TypeOK`, `LapIntact`, `SizeBound`, `ListIntact`, `Fsck`, `FindsListed`, `ChainsBounded`, `ListsComplete`, `EntriesWhole`, `JsonReleased`, `TextEnds`, `DeadlineExact`, `DeleteAllEmpties` | 409,617 | The components that share nothing, one per behaviour. Log: records since the last rewind whole and in order, the file does not grow, whatever writes fail. Hash table: lists, chains and look-ups agree through adds, deletes and expansions, and delete_all leaves none. Conversion lists: failed insertions lose and leave nothing. JSON: nothing is left open however the file changes. Timed wait: the exact time-out. |
| ProtocolLeak (ProtocolConvert) | violation | `DestroyFreesAll` | stops at the violation | protocol_destroy leaves the security and misc lists allocated. |

### What the passing runs show

- **DispatchChurn** is the heart of the dispatcher: both threads register and delete
  at any point of each other's calls, of the dispatch thread's round and of the
  kernel's reuse of four numbers. `ChannelServed` relates a thread's own descriptor,
  its slot and the kernel's pairing. Messages are not numbered here (`Recycle`), so
  the run covers any number of them; queues hold one packet, which makes a full queue
  a frequent state.
- **DispatchRouting** has two messages per thread to every kind of destination (none,
  itself, the other, everyone, by either broadcast call), queues of one packet, and
  signals that interrupt any of the three tries of a send: messages are dropped in every
  way the code can drop them, a queue may fill or drain between two tries, and order,
  addressees and "at most once" still hold. Nobody deletes: with deletes
  `OnlyAddressed` fails, which is the run DispatchStaleFd.
- **DispatchDelivery** gives the queues room for all messages, which is what "as long
  as no queue overflows" means, and shows that a queued message for a registered
  receiver is received, unicast or broadcast.
- **DispatchFairness** has endless traffic and queues of one packet: a sender whose
  channel is full gets room again, since a round serves each readable module once.
- **MapfileMap** has two threads on one handle and a third that opens the file for
  itself, as another process would; four keys of which three share a row of two slots,
  so that rows are full, updated, deleted from and emptied while others read; a failure
  wherever the code looks for one; and a power failure at any moment, in the middle of
  creation and of `mapfile_kv_emp` too. Its two restrictions are the ones without which
  the code is not a map: keys are not prefixes of one another, and nothing is deleted
  from a row that two keys share (run MapfileHole).
- **SubdevTopo** has three addresses, two types, memory for three entries, arrays of one
  and two rows, one device thread and one cloud thread, and any call may fail to get the
  lock: comparisons are cut short any number of times before one ends, entries are lost
  until there is no memory, and memory that is freed is reused.
- **Library** puts the components that share nothing into one run: a behaviour chooses
  one of them at the start and the others keep still, so the states are the sum of
  theirs and not the product, and each invariant is about one component. *Log*: two
  threads, records of one and two bytes and one that the buffer cannot hold, a limit
  smaller than a record and one of a few records, and files found empty, shorter and
  longer than the limit; writes are partial or fail anywhere. *UTHash*: six elements
  whose keys collide for ever in two groups but for one, from two buckets with a
  threshold of three: expansions that help, expansions that do not, and the inhibition
  after two of these all occur; the ideal length of a chain stays below the threshold
  here, so the other half of `ChainsBounded` is shown by its theorem only.
  *ProtocolConvert*: four nodes over three sections, of which one is among the lists
  that `protocol_destroy` forgets, through repeated init and destroy. *JsonApi*: a text
  that fits, one that is not JSON, one that is too big, each also cut short, and every
  step of the read may fail. *GwMisc*: instants around a second's beginning and delays
  below, at and above a second.

Every property has at least one mutant (`PROJECT.json`, "mutants") that the same
run refutes.

### What the failing runs show

- **DispatchTornMode.** A module registers as SEND_ONLY while a broadcast is being
  routed. The dispatch thread reads its new descriptor (330) and its old mode (331),
  and the module gets a broadcast that the comment at 332 excludes.
- **DispatchStaleFd.** The dispatch thread has read the destination's descriptor; the
  destination deletes its channel, the kernel gives the number to the next
  registration, and the message is sent there (244): a point-to-point message
  reaches another module.
- **MapfileHole.** Two keys share a row; the first is deleted; the second is still in
  the file but is not found, as the loop of get ends at the hole (132).
- **SubdevRejoin.** The cloud's list names a device that is not in the table when it is
  looked up; the device joins; the iterator finds it unmarked and reports it as
  unknown to the cloud (226), against the meaning of the flag (6).
- **ProtocolLeak.** A line of the ini file's misc section is inserted and
  `protocol_destroy` returns after the environment list (103): the entry stays
  allocated, against `inc/protocol_convert.h:38`.

More hazards are listed in `PROJECT.json` without a property. Those that break the
code are assumptions, stated at the theorem or the run that needs them: two threads
that share a module id, a channel with descriptor 0, a key that is a prefix of
another one, two handles that both write, two device threads, a second
`gw_log_setting`.

### Bounds

Bounds are constants: `Capacity` (packets in a queue), `MaxSends`, `SendTo`, `Fds` and
`Deleters` in `Dispatch`; `CallsOf` and `MaxCrashes` in `Mapfile`; `Entries` and `Rows`
in `SubdevHash` (`LocksMayFail` is a choice and no bound); `MaxSizes`, `OldSizes` in
`Log`; `MaxBuckets` in `UTHash` (sixteen: three expansions, after which six elements can
cause no other); `Nodes` and `Sections` in `ProtocolConvert`; `KeyPairs` in `JsonApi`;
`Instants` and `Delays` in `GwMisc`. Two module threads suffice for what the dispatcher
is asked: its races are between the dispatch thread, a thread that changes a slot, and
one that takes the number. One power failure suffices for the file: after it no call is
under way, what the file holds is on the disk, and `Durable` and `ImplementsMap` go on
to speak of that state, from which a second one starts like the first. For the theorems
below there is no bound at all. Symmetry is used for descriptor numbers, addresses,
entries and colliding elements only, which are never compared but for equality, and
never in a run with a liveness property.

### Fairness

`Dispatch!Fairness` assumes that the dispatch thread keeps running, which is an
endless loop without a lock; that a thread inside `dispatch_register_channel`
leaves it, since the mutex is held for two assignments only; and that registered
threads keep calling `dispatch_recv_msg`, which is what its users' loops are for.
No fairness is assumed of sending or of deleting. The strength is weak throughout:
`FullChannelDrains` and `Delivered` need none stronger, since once a dispatcher's
action is enabled no other thread disables the thread as a whole.

## 4. Proofs

All theorems hold for every value of the constants that satisfies the named
assumptions of the modules; further hypotheses are in the last column.

| Module | Theorem | States | Under |
|---|---|---|---|
| `DispatchProofs` | `TypeCorrect` | `Spec => []TypeOK` | |
| | `ChannelsInvariant` | `Spec => [](TypeInv /\ ChannelInv)` | `OneThreadPerModule`, `ZeroIsTaken` |
| | `ChannelsServed`, `SlotsAreLive`, `NothingLeaks` | `[]ChannelServed`, `[]SlotsLive`, `[]NoLeak` | the same |
| | `RoutingInvariant`, `OnlyTheAddressed` | `[](Settled /\ RoutingInv)`, `[]OnlyAddressed` | the same and `NothingDeleted` |
| | `OrderPerSender` | `[]FifoPerSender` | these and `~Recycle` |
| `MapfileProofs` | `TypeCorrect` | `Spec => []TypeOK` | |
| | `NoLostUpdate` | `Spec => []RowIsCurrent` | `OneHandle` |
| | `FileInvariant` | `Spec => []Inv` | `OneHandle`, `NoPrefix`, `DeletesAlone` |
| | `AcknowledgedIsDurable` | `Spec => []Durable` | the same |
| `MapfileRefinement` | `FileImplementsMap` | `Spec => ImplementsMap` | the same |
| `SubdevHashProofs` | `TypeCorrect`, `TableInvariant` | `[]TypeOK`, `[]TableInv` | `OneDevice` |
| | `NothingDangles`, `AddressesEnteredOnce` | `[]NoDanglingPointer`, `[]OneEntryPerAddress` | the same |
| | `KeysInvariant`, `KeysAreOfType` | `[](TableInv /\ KeysInv)`, `KeysOfType` | the same |
| | `MarkInvariant` | `[](TableInv /\ MarkInv)` | `OneDevice`, `OneCloud` |
| | `MarksAreCurrent`, `StrangersAreReported` | `[]MarksCurrent`, `StrangersReported` | the same |
| `UTHashProofs` | `ListAlwaysIntact` | `HashSpec => []ListIntact` | |
| | `TableInvariant` | `HashSpec => [](ListInv /\ TableInv)` | |
| | `ListedAreFound`, `ChainsStayBounded`, `FsckHolds` | `[]FindsListed`, `[]ChainsBounded`, `[]Fsck` | |
| | `DeleteAllLeavesNone` | `HashSpec => DeleteAllEmpties` | |
| `LogProofs` | `LogInvariant`, `TypeCorrect`, `FileIsBounded` | `[]LogInv`, `[]TypeOK`, `[]SizeBound` | |
| | `LapInvariant`, `LapsAreIntact` | `[](LogInv /\ LapInv)`, `[]LapIntact` | |
| `HelperProofs` | `DeadlineIsExact` | `MiscSpec => []DeadlineExact` | |
| | `NothingLeftOpen`, `TextAlwaysEnds` | `[]JsonReleased`, `[]TextEnds` | |
| | `ConvInvariant`, `ListsAreComplete`, `EntriesAreWhole` | `[]ConvInv`, `[]ListsComplete`, `[]EntriesWhole` | |

The hypotheses are constant formulas about the instance, not about the state:

- `OneThreadPerModule`: no two threads register one module id ("every thread task can
  define one module id", `inc/dispatch.h:5`). `ZeroIsTaken`: `socketpair` never
  returns 0, as when standard input is open. Both are needed: the slot is examined
  without the lock (60), and 0 marks an empty slot (11).
- `NothingDeleted`: no thread calls `dispatch_del_channel`. Without it the conclusion is
  false: the dispatch thread uses a descriptor that it read before a deletion (run
  DispatchStaleFd). `~Recycle`: messages are numbered. Runs that do not ask about order
  forget the numbers to stay finite; the code's messages carry none.
- `OneHandle`: the threads that make calls use one `kv_file_t`; others may open the
  file. `NoPrefix`: no key begins with another. `DeletesAlone`: a key that some
  thread deletes shares its row with no other. Without the first an update is lost
  (the mutex is in the handle, `mapfile.c:423`), without the second a call acts on
  another key's slot (68), without the third a key disappears (132).
- `OneDevice`: one thread adds and deletes; `OneCloud`: one thread compares; both as
  `subdev_address_hash.c:14-18` says. Two threads that compare at once would share one
  flag in each entry.

**Dispatcher.** `TypeOK` is not inductive by itself: an action uses a descriptor or a
message that an earlier one must have read. `TypeInv` adds what each control
point knows of its locals (`ThreadTypes`, `DispatchTypes`); the proof has a lemma per
group of actions and one per queue operation. `ChannelServed` is not inductive
either: it is silent about a thread in the middle of
a call, when a number may be closed and given to another thread while a slot still
names it. `ChannelInv` says, for each point of the two functions, what a thread
owns (`OwnershipOf`): both ends of a pair, in its slot or still in its locals;
or one end whose peer is closed. `Exclusive` says that every open descriptor has
exactly one owner, so that `socketpair`, which gives free numbers only, cannot
disturb anyone. The step that needs care is between the `close` and the clearing of
the slot (96-97): the slot then names a number that another thread may already own.
It is harmless because that thread needs the lock to store it (`LockHeld`), by which
time the slot is clear; `SlotsOfThreads` makes that precise. `ChannelsUnchanged`
disposes of the actions that touch no channel, and one lemma per action does the
rest.

**Routing and order.** Both rest on `ChannelInv`. When nothing is deleted a slot never
changes once it is filled, so what the dispatch thread has read is still so when it
sends: `RoutingState` says whose descriptors `info` holds, that none is there twice, and
that they are of modules before `j`, the slot it looks at next. `FifoPerSender` speaks
of what has been received and is inductive only along the whole path: `OrderInv` says
that of the messages of a sender those received or in a receiver's queue (`SeenInOrder`)
come before the one in the dispatch thread's hands (`TransferInOrder`), and this before
those that wait in the sender's queue (`SentInOrder`). While a broadcast is sent to one
receiver after another, `TransferInOrder` says it of the receivers still to come, and
this is where `info` must have no descriptor twice. Steps that move no message keep all
of it (`QueuesKeepOrder`); `Send`, `Recv`, `Transmit` and a module's `dispatch_recv_msg`
are a lemma each.

**Key-value file.** `TypeInv` adds to `TypeOK` that a thread between `Lock` and `Return`
holds its handle's mutex (`CallKnown`); with `OneHandle` this excludes all others
(`Exclusion`), and `RowIsCurrent` follows: nobody writes between a read and a write.
`Durable` needs to know what the disk holds at *every* moment, for a power failure may
take it. `DiskInv` says so: the rows are `Shaped` (no hole before a key, no key twice:
what makes `Put` and `Get` those of a map, lemmas `PutDoes`, `RmDoes`, `GetHit`,
`GetMiss`); file and disk are the same unless a thread is between write and sync
(`SyncedRows`), and then each of their rows differs in one slot at most (`Near`) and all
other keys are found alike (`OtherKeysSame`), so that any mixture of the two is one of
the two (`MixOfNear`); and what has been acknowledged is found in both. While `emptied`
holds, what a power failure would leave of the file is the old file or an empty one
(`Stored`), and no value is known of any key (`EmptiedUnsure`): the first fsync that
succeeds, of whichever call, ends that. `CrashRows` draws the conclusion for a power
failure.

**Refinement.** With `FileInvariant` each step of `Mapfile` is a step of `KVMap` or
changes nothing the mapping sees; there is one lemma per action. `Pending` says what
the thread between write and sync has made of the map, and so what `Sync` does
(`SyncMaps`), what another opener's fsync does for it (`CreateSyncMaps`), and which
effects of unfinished calls a power failure can leave (`CrashMaps`). `FullMaps`
justifies the failing set: a search that finds no slot has met TABLE_ROW_SIZE
different keys of that row, each still stored (`FullRow`, which takes the least free
slot, lemma `Least`).

**Sub-device table.** `TableInv` says of each program counter what its pointer is worth:
a writer's entry is linked or is its own, a reader's cursor and next entry are linked
while it holds the lock. With a single writer nothing that was found before the lock is
stale inside it. What is allocated is linked, in a thread's hands, or among the `lost`
of an `add` that did not get the lock (`TableShape`). `MarkInv` adds what a comparison
has done so far: a marked entry is one the cloud thread has asked for, in this
comparison or in one cut short before it (`asked`, `left`), and an entry the iterator
has passed (`Place`) is unmarked, and known to the cloud, reported or asked for before
(`Passed`). An entry that is added meanwhile is unmarked, and it can be neither added
nor removed while the iterator holds the lock. `KeysInv` says that `get_keys` has in its
rows what it found up to some place (`Collected`), which is the cursor's or else the
last: the table's end, or the row that filled the array. `CountUpTo` counts the hits up
to a place.

**uthash.** `OrderInv` adds to `ListIntact` that the history is free of duplicates and
that the loop of `delete_all` stands at the head with the next element saved; that next
element is its successor, so that the loop ends at the list's end only
(`DeleteAllLeavesNone`). `TableInv` is about the chains. Instead of walking them it says
that sequences *exist* for which all links are right: `ChainsAre(T, C, S)` holds when
each `C[b]` is without repetitions, is `Linked` both ways from its bucket's head, is as
long as the bucket counts, and holds just those elements of the set `S` that hash to
`b`. `LinkedPush` and `LinkedRemove` are the two list operations on such sequences, and
`PushChains`, `RebucketChains` and `DelStores` apply them to a bucket, the others being
disjoint. `WalkIs` leads back to the definitions: a walk from the head yields that
sequence. For `HASH_EXPAND_BUCKETS`, `AllChains` says that the concatenation of the
chains meets each element once (so that none is put in two new chains), and `TurnsHold`
that after `k` turns the new buckets are right for the first `k` elements and that each
is within its raised bound. Induction over turns is by the least turn that is not so
(`SequenceLemmas!Least`). `FindIs` then finds what is stored, and `ChainsBounded` is
part of what each turn keeps (`CountsBounded`).

**Log.** `LogInv` says that at most the holder of `file_mutex` is past the lock, and
that after the rewind has been decided what is left of the record fits before the
limit, which no partial write changes. `LapInv` adds where things lie: the lap's
records end at the common place or before it, and behind that place are the bytes that
the thread past the lock has written so far, which become the lap's last record when it
advances the offset. `WrittenHolds` says what a `pwrite` leaves of the rest of the file,
and `FlattenAppend` what one more record does to the lap's concatenation.

**Helpers.** `DeadlineExact` is integer arithmetic for all clock values and delays within
`TimeAssumption`. The two facts about `json_read_file` follow from what each point of the
function holds (`ReadState`). `ConvInv` describes the
conversion lists by what was inserted: a list links its first pair, then the others
from the latest back (`Entry`), and memory is the blocks of these entries, of those that
were forgotten, and of the one being made (`Partial`). `protocol_destroy` at the k-th
entry of a list has freed those before it (`Start`); such a `k` exists at every step.

The invariants were checked with TLC on the instances of the runs before they were
proved.

**Model-checked only.**

- Liveness (`Delivered`, `FullChannelDrains`) is out of this
  prover's reach. Every other property of the passing runs is proved, under the
  hypotheses of the table.
- The failing runs' properties, which the code violates.
- Type correctness of `UTHash` and `ProtocolConvert` is part of `TableInv` and
  `ConvInv` and is no theorem of its own.

## 5. What is not modelled

- `mapfile_kv_item_get`, `subdev_address_hash_find`: they only read, and change
  nothing that others see. The first seeks and reads on the caller's descriptor (291), so
  two threads that walk the file must not share one.
- The block status of `gw_misc.c`: one variable with a get and a set, whose callers
  are not in the repository; `gw_rm_all_files`, which runs `rm -rf`.
- `protocol_read_ini_to_list`, `protocol_conv_to_device`, `protocol_conv_to_cloud`:
  declared, but not defined in the repository.
- The macros of uthash that nothing uses (sort, select, replace, in-order insertion,
  Bloom filter) and its hash functions; cJSON, pthreads and the kernel beyond what
  the code uses of them: external, and modelled from their use.
- Time: the sleeps and the time-outs of `select`. A time-out is a step that
  changes nothing; the two seconds that the dispatch thread waits at start-up are
  not relied on.
- Wrong arguments (NULL, out-of-range ids) whose checks return before anything
  changes, the wording of log records, and what is printed.
- Of the dispatcher: its result to the sender (`dispatch_transfer_msg` returns that
  of the last send only), and a module end that is closed without
  `dispatch_del_channel` (the dispatch thread then spins at 401).
- Of the key-value file: sizes other than empty or full, a `write` that fails after
  writing part of a row, an `fsync` that fails in `write_kv_item` (337 ignores its
  result, so that a value it has not stored is acknowledged), slots torn by a power
  failure, values longer than a slot, an `unlock` that fails. A `malloc` that fails in
  `mapfile_kv_open` has nothing to undo: a stuttering step. An `access` that fails on a
  file that is there is left out.
- Of the sub-device table: addresses longer than an entry's field; `get_keys` with no
  rows. `delete_all` and `get_keys` that do not get the lock (152-156, 243-248) return with
  nothing done: stuttering steps.
- Of the mutexes of the dispatcher, the key-value file and the log: that locking
  fails. The code looks at no result of theirs.
- Of the others: a log buffer that cannot be allocated, JSON items that are not strings,
  negative delays.

## 6. Plan

The order was by how much of the system depends on a part and how hard it is to
test: dispatcher, key-value file, sub-device table, log; then uthash, the protocol
lists, the JSON helpers and the timed wait, and the proofs of section 4. What would
add most next:

1. `DispatchBus`, an abstract specification of point-to-point and broadcast
   channels between threads, implemented by `Dispatch` with no deletes; `OrderInv` holds
   what the mapping needs.
2. `SubdevHash` stated over `UTHash`: each of its writes to the list a step of `HashSpec`,
   with `ListedAreFound` and `ListAlwaysIntact` for what it assumes of the table.
3. `Mapfile` with the `fsync` of `write_kv_item` that fails unnoticed, and two handles
   that both write.
