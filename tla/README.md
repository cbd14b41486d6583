# Specifications of bo_atom

bo_atom is a collection of C components for small network servers: a hash table and an
event loop (both descended from Redis), a key-value server and some smaller programs built on
them, a firmware upgrade tool, a consistent-hashing library, and a few data structures. This
directory holds TLA+ modules of the parts that carry state and logic of their own, the TLC
configurations that check them, and TLAPS proofs about the hash table, the event loop, the mem
server's replies, the atom server's queue, ketama, the upgrade tool and the kernel's lists. All
paths below are relative to `src/`.

## 1. Inventory

| Component | Source | State it keeps | Operations | Modelled in |
|---|---|---|---|---|
| hash table | `redis_dict/dict.c` | two tables, rehash position, iterator count, resize switch | create, add, replace, delete, find, random key, expand, resize, rehash, empty | `DictOps`, `Dict`, `KeyValue` |
| its iterators | `redis_dict/dict.c` | table, bucket, current and saved next entry | first/next, release | `DictIter` |
| its scan | `redis_dict/dict.c` | none but the caller's cursor | `dictScan` | `DictScan` |
| event loop: timers | `ae/ae.c` | unsorted list, next id, last wall-clock time | create, delete, nearest, process | `AeTimers` |
| event loop: files | `ae/ae.c`, `ae/ae/ae_epoll.c` | registrations, maxfd, set size, epoll set | create, delete, resize, poll, dispatch | `AeFileEvents` |
| event loop: signals | `ae/ae.c` | handlers per signal, pipe | create, delete, deliver, process | `AeSignals` |
| mem server: parser | `Z_my_work_mem/tcp_server.c` | receive buffer, command in progress | read, parse, reject | `RespParser` |
| mem server: commands, replies | `tcp_server.c`, `cmd.c` | clients, reply queues, the dict | accept, SET, GET, send, disconnect | `MemServer` |
| atom server | `Z_my_work_atom/` | a linked queue of clients, their descriptors | accept, receive, disconnect | `AtomServer` |
| ketama | `Z_my_work_mem/test_client/ketama.c` | a shared segment with the continuum, a semaphore, the file of servers | roll, create, smoke, get server | `Ketama` |
| skip list | `data_structure/skiplist/skiplist.c` | levels of links with spans, tail, length | insert, three deletions, range and rank searches | `SkipList` |
| red-black tree | `data_structure/red_black/jsw_rbtree.c` | links, colours, size; traversal paths | insert, erase, find, traverse, delete | `JswTree` |
| kernel red-black tree | `data_structure/kernel_struct/rbtree*` | links, parents, colours, leftmost, augmented values | insert, erase, replace, walk | `RbTree`, `RbLatch` |
| its latch | `kernel_struct/rbtree_latch.h` | two trees and a sequence count | insert, erase, lookup without a lock | `RbLatch` |
| kernel lists | `kernel_struct/list.h` | links of heads and entries | add, delete, replace, move, rotate, cut, splice; loops | `KernelLists`, `KernelHlists`, `ListWalks` |
| upgrade client | `Z_my_work_upgrade/` | image file and its stamped copy, transfer position | stamp, stop-and-wait transfer | `Upgrade` |
| network helpers | `netTool/` | none | `readn`, `writen`; wrappers of the socket calls | `Upgrade`; wrappers no |
| test client, md5, log, `Z_my_work`, `tags` | | | | no |

How they interact. The servers are single-threaded: `aeMain` waits in `epoll_wait`, calls the
handlers of the descriptors that are ready, then those of the timers that are due. Handlers
call back into the loop (register, unregister, close, accept, create and delete timers) while
the loop is walking a batch or a list. The mem server's read handler parses commands out of
the byte stream and runs them against the dict; replies are queued and sent by the write
handler. Every dict operation may carry entries from the old table to the new. Signals
interrupt the thread anywhere and reach the loop through a pipe. Processes that use ketama
meet in one segment of System V shared memory; the upgrade tool talks to a device, one frame and
one answer at a time.

What is hard: state the loop holds across callbacks (fired events, `prev`, `te`); the dict's two
tables and the iterators' saved pointers between calls; bytes that arrive split anywhere;
replies that wait while the values they point at change; signals; the stores of a tree's
rebalancing while a reader without a lock walks it; a semaphore that is set but never waited on;
kills between the steps that replace a file; pointers of list operations that may coincide.

What makes each part correct is stated as the properties of its module (section 4); the hazards
behind them are listed, at their lines, in `PROJECT.json`.

## 2. Modules

| Module | Contents |
|---|---|
| `KeyValue` | abstract specification of the dict: a map, one answer per call |
| `DictOps` | the dict as a value and the functions of `dict.c` as pure operators |
| `Dict` | the state machine, one action per public operation; refinement mapping to `KeyValue` |
| `DictOpsProofs` | lemmas about the operators |
| `DictProofs` | the invariant and the refinement of `Dict`; what its steps may do: iterators freeze, rehashes end, load stays bounded |
| `DictIter` | safe iterators walking a dict that others use |
| `DictIterProofs` | iterators are complete, return nothing twice and follow no freed entry |
| `DictScan` | a cursor scan over the same dict, added to `DictIter` |
| `AeTimers`, `AeFileEvents`, `AeSignals` | the three parts of the event loop |
| `AeTimersProofs`, `AeFileEventsProofs` | no timer is lost or fires when deleted; table, kernel and dispatch agree |
| `RespParser` | receive loop and parser over a byte stream |
| `MemServer` | clients, commands, reply queues and the heap |
| `MemServerProofs` | commands are executed as they were sent; replies are intact and sent by someone who is registered for it |
| `BinaryTrees` | what both red-black trees must look like: order, rules, freedom from loops |
| `RbTree` | the kernel's tree as a value, its functions as operators, with the stores they make |
| `RbLatch` | callers of `RbTree`, storing step by step; the latch and its reader |
| `JswTree` | the tree that rebalances on its way down |
| `SkipList` | the skip list |
| `KernelLists`, `KernelHlists` | the memory operations of `list.h`, next to what each means on sequences |
| `KernelListsProofs` | every list, of either kind, is the sequence its calls mean, and every loop meets it |
| `ListWalks` | the loops of `list.h` over both |
| `Ketama` | processes rolling, smoking and killed around one shared continuum |
| `Upgrade` | stamping an image, and its transfer over a cut and broken stream |
| `AtomServer` | the atom server's client queue, descriptors and registrations |
| `ProgramsProofs` | the queue agrees with what is open; rolls return whole continua; images survive and arrive |
| `MC...` | constants, views and symmetries for TLC; `MCPrograms` holds six small parts side by side |

`Dict` and `DictIter` both extend `DictOps`, and `DictScan` extends `DictIter`. `MemServer`
starts where `RespParser` ends (whole commands) and uses the dict as the map `Dict` is shown to
implement. `RbTree` and `JswTree` extend `BinaryTrees`, which holds no code of theirs, only
reference definitions; `RbLatch` extends `RbTree`; `MCOrdered` puts the three structures, which
have nothing to do with each other, into one run, and `MCPrograms` does so with the lists, the
signals, `Ketama`, `Upgrade` and `AtomServer`: the initial state chooses which of them moves.

### Correspondence with the code

- **DictOps/Dict.** `d.ht0`, `d.ht1` are `dict.ht[0..1]`, with `size`, `used` and `table`; a
  chain is the set of its keys. `sizemask` is `size - 1`. Each action is one call with all it
  does inside: `Add` is `dictAdd` with `dictAddRaw`, `_dictRehashStep`, `_dictKeyIndex` and
  `_dictExpandIfNeeded`. Values live in `val`, one per key: `dictEntry.v` moves with its entry.
  `dictRehash`'s two nested loops are the choice of the first bucket at which they stop.
  `Hash`, `Sizes`, `InitSize`, `EmptyVisits` (10 in the code) and `ForceRatio` (5) are constants.
  `Dict` empties only a dict nobody iterates (`EmptyMidIteration = FALSE`); see section 6.
- **DictIter.** An iterator is in one of the phases idle (created), inside, ended. The order of
  a chain is chosen as the iterator meets it. A deleted entry leaves its pointer dangling
  (`freed`). `stray` remembers whether a caller deleted anything but the entry its only
  iterator has just returned.
- **DictScan.** One action per call of `dictScan`. `Rev` and `NextCursor` compute as the code does,
  on `Width` bits: the bits above any mask are all set before the increment and come out zero,
  so the width does not matter. `Pow2` and `Reversed` are recursive functions, which the proofs
  can unfold. The inner loop is the set `Expansions` of buckets it visits.
  `missing` is what the scan owes; `folded` remembers the one situation in which it fails: a rehash,
  up or down, between sizes that differ fourfold, met by a cursor beyond the smaller size.
- **AeTimers.** The linked list is a sequence, `te` is the position `At`, counted from the end
  since the list grows at its head during the walk; `prev` is kept by name. A callback or a
  finalizer may create one timer and delete one. `Tick` is time passing anywhere.
- **AeFileEvents.** `mask[fd]` is `events[fd].mask`, `interest` the kernel's set. A batch is
  dispatched one event at a time, read handler first. Handlers may register, unregister,
  close their own or another descriptor, and accept, which reuses the lowest free number.
- **AeSignals.** `Deliver` runs `_aeSignalPreProc` between any two steps of the loop.
- **RespParser.** Bytes are single characters; the buffer is never cleared, so `LineEnd` sees
  what earlier reads left, as `strstr` does. The stream is what `test_client.c` sends.
- **MemServer.** A value object is named after the SET that allocated it. An item of a reply is
  two units long, so that a write may take half of it. `due` and `got` record what should be
  sent and what is sent; `stale` and `short` record which clients were owed an overwritten
  value or got an item in more than one write.
- **SkipList.** One action per call; `zslRandomLevel`'s result is any height. The common search
  loop is `Path`, with the condition for going on as its argument; `level[i]` is level `i + 1`.
  What `zslDelete` finds is a choice (`Deletions`), since it compares through `level[-1]`.
- **JswTree.** A node is named after its data; where `jsw_rberase` moves data from the node it
  frees into the one it found, the freed node takes the other's place under its own name. The
  loops are `InsertDown` and `EraseDown`; `Released` is the order in which `jsw_rbdelete` frees.
- **RbTree, RbLatch.** The mirrored halves of the C functions are one, with a side as argument.
  `tree.link`, `parent`, `red`, `aug`, `leftmost` are the fields; `log` the stores that a call makes
  to links and root (`WRITE_ONCE`, `rcu_assign_pointer`). `RbLatch` computes a call at once and
  makes its stores one at a time (`Store`), so that the reader's steps fall between any two.
  Callers insert as `rbtree_test.c` does, with cached leftmost and augmented maximum.
  `held` is what RCU keeps for a reader.
- **KernelLists, KernelHlists.** `links` is the memory, one store sequence of the header per
  operator, in its order where a later store reads an earlier one (`ListReplace`). `lists` is
  advanced by the meaning of each call, never computed from the memory, and the invariant
  relates the two. `live` are the heads that are initialised: `list_splice` leaves its source
  as it was. A node's `pprev` is named by the head or node that holds the pointer.
- **ListWalks.** Each loop macro is a recursion over its rounds that stops where the macro's
  condition does; the body of a safe one deletes any set of the entries it is given. The safe loops
  from the head, behind an entry and from an entry are one (`SafeLoop`) with another start.
- **Ketama.** `ketama_roll` is cut at every access to the segment, the semaphore or the
  file: a process's `pc` names the next. `sem` is the value in the kernel; waiting a second for a
  2 and giving up is `GiveUp`. The number of points is copied at line 580 (`Count`) and the time
  compared at line 547 (`Compare`), with the others running in between; the loads and stores of a process
  are taken to happen in program order. A `shmat` may fail wherever one is called. A version of the
  file is both its time and its continuum, so two edits within one second, which the code cannot
  tell apart, are out of sight. `cut` and `crossed` are history: segments in which a creation went
  wrong, and processes in whose segment a creation began between their two reads. `ketama_smoke`
  removes the semaphore (`SmokeSem`), then the segment (`SmokeSegment`); of a
  process's tracked ids only the last can still be in use, so neither needs a list of them.
- **Upgrade.** `disk` holds the image and its `_tmp`, `pc` the next system call; a unit is what one
  read of a loop takes. Every call that may fail has the failing branch of the code, also
  `unlink` and `rename`, whose results it does not look at. `toDevice`
  and `fromDevice` hold pieces, which writes and reads take in any number. EINTR and EAGAIN are
  repetitions of the same step.
- **AtomServer.** A client is named by its descriptor. `RecvBytes` ends in the inner loop of
  `recv_cmd_handle`, which nothing leaves while `do_protocol` is the stub it is.

## 3. Mutants

An operator named `Wrong...` directly before another is a faulty variant of that one, the kind
of slip a change to the code could make (a missing decrement, the wrong table, a lost
registration). No definition uses it. Replacing the right one by it makes TLC refute the
property named in `PROJECT.json` under "mutants": each property can fail for a mistake in
the code it is about.

## 4. Runs

| Run | Instance | States | What it shows |
|---|---|---|---|
| `dict` | 4 keys (3 collide at size 2, 2 at size 4), 2 values, sizes 2-8, 1 iterator | 12712 | structure, counters, rehash front, sampling, freezing, progress, load, and `IsMap` |
| `dict_walk` | 3 keys, sizes 2-8, 2 iterators or a scan | 460434 | complete, duplicate-free iteration, no freed entry; a scan ends and is complete unless folded |
| `dict_scan_shrink` | same, no iterators | | refutes that every scan is complete |
| `ae_timers` | 3 timers, 3 ticks, delays 1 and 2 | 57446 | no timer lost, revived, or delayed for ever |
| `ae_files` | 3 descriptors, table of 2 or 3 | 85358 | table, kernel and maxfd agree; valid dispatch; service |
| `ae_signals_block` | pipe of 4 bytes | | refutes that work is served after a signal |
| `parser` | 3 requests, buffer of 12 | 158378 | commands as sent, for all cuts that keep header lines whole |
| `parser_cut` | the command in the code's comment, buffer of 64 | | refutes the same for all cuts |
| `server` | 2 clients, 1 key, 2 commands each | 37216 | replies intact and in order, heap exact, all answered |
| `server_overwrite` | same | | refutes that replies keep the value read |
| `ordered` | skip list of 4 on 3 levels; jsw tree of 8; kernel tree of 7, and 6 of 14; latch with 4 | 566808 | well-formed structures, contents and answers; stores without loops; lookups under a latch |
| `programs` | 2 heads and 3 entries of each kind of list; 2 signals, pipe of 2 bytes; 2 processes, 3 versions of the file; an image of 2 blocks, 2 runs; 4 descriptors, 3 in the table | 472487 | lists and loops; signals read; whole continua and right servers; images that survive and arrive; the client queue; calls that return |

Why the bounds are enough. *dict*: with four keys and sizes 2, 4, 8 a table is grown while
full, rehashed over empty and shared buckets, stopped by either counter of `dictRehash`, shrunk,
and expanded explicitly to every size; all interleavings of these with one open iterator are
covered, and the theorems of section 5 hold without the bounds. *dict_walk*: the two keys
sharing a bucket and the third elsewhere give every position of an iterator relative to an
insertion, a deletion, a rehash and the other iterator; three table sizes are the least with
a fourfold shrink or growth, and the third key keeps a rehash going while the others are in the new table,
which is how a growing table folds a scan. `Beside` is 0: beside a scan, an iterator would only keep the tables still. *ae_timers*: relinking involves a
timer, its predecessor and a newcomer, so three; three ticks let a timer be armed, fire and be
armed again. *ae_files*: the listener, a client and a client that is closed and accepted again
in one batch. *parser*: an argument longer than the
buffer, a buffer filled exactly, two commands in one read, an empty command. *server*: one
client's SET between another's GET and its sending. *ordered*: four elements, two of them equal,
on three levels give links that end before, at and behind the one added or deleted, alone or
in runs; every list is reached with every height. A jsw tree of eight has all rotations of insertion
and removal. The kernel tree reaches each branch of its rebalancing with seven entries, except
those in the second round of `____rb_erase_color`; for these, callers start with trees of 14
entries, inserted upwards, downwards and from both ends, and use the three smallest and the three
largest. All expressions of the four modules are evaluated. A latch of four entries has every
rotation of insertion and erasure under a reader. `MaxDrift` bounds how often in a row a jsw tree
is given duplicates. *programs*: three entries give an operation a cell with two neighbours, one
that is a head, and none, on two lists that may swap them; three signals, of which the third can
find the pipe full. Two processes meet in every step of a roll, and `Killed` and `Smoking` leave one
of them to be killed and the other to remove everything; the file has no servers, two that share a
point, and one. Two runs of the tool let the second find what a kill of the first left; a frame
and an answer of two pieces are cut or not. Of four descriptors one is outside the table.

Abstractions for TLC: `WithoutAnswer` (dict) leaves out the last answer, which no action reads;
action properties are still evaluated on every step. `WithoutPast` (server) leaves out what a
client has already been sent correctly. Values and iterators are symmetric.

Deadlock is checked except where the system may stop: `ae_signals_block` (the thread blocks in read,
which is the point), `programs` (likewise, and the tool has been started as often as it will be), `parser*` (the stream ends), `server*` (all clients have left or asked all
they ask), `dict_walk` (a followed freed entry ends the program).

Fairness. `AeTimers`: the thread runs, and a poll ends at its timeout; nothing is assumed of file
events or of the clock's speed beyond the bound. `AeFileEvents`: weak fairness of the thread's
own step; the kernel reports what is ready. `AeSignals`: the thread runs when not blocked, and
pending signals are delivered. `MemServer`: strong fairness of each client's write handler and
of its progress, since the loop dispatches every ready descriptor and a connected peer reads
now and then; no fairness of commands or disconnects. `Ketama`: a process inside `ketama_roll` is
scheduled; nobody need edit, begin or finish a smoke, or die. `Upgrade`: the tool's process is scheduled, and `select`
returns at its timeout; the device owes nothing.

## 5. Proofs

`DictProofs` proves, for any finite set of keys, hash function, set of table sizes, step width
and number of iterators:

- `DictInvariant`: the conjunction of `TypeOK`, `Reachable`, `CountersExact` and `RehashFront`
  (with the table sizes being possible ones) is an invariant. None of the parts is inductive
  alone: the rehash loop ends within `ht0` only because the counter is exact and the passed
  buckets are empty; the counter stays exact only because a key is in one table only; and the
  lookup that keeps duplicates out is right only because keys are in their buckets.
- `TypeCorrect`, `TablesAlwaysSound`, `SamplingAlwaysComplete`: the properties the run `dict` checks, from it.
- `DictImplementsMap`: every step of `Dict` is a step of `KeyValue` or a stutter. It rests on the
  invariant (a lookup finds exactly the keys of `DictKeys`) and on lemmas that moving entries,
  expanding and rehash steps leave `DictKeys` alone.

From the invariant it proves the action properties of the run:

- `IteratorsFreeze` (for `EmptyMidIteration = FALSE`) needs one more invariant, that the code's
  counter equals the number of open iterators; then no operation takes a rehash step, and what
  is left to show is that expansions, insertions and removals leave other entries in place.
- `RehashesEnd`: `StopBucket` lies beyond `rehashidx` unless the old table is exhausted.
- `LoadStaysBounded`: the step an operation takes makes room for the entry it adds (`RoomOf`); an
  expansion happens at exactly `used = size` and the new table has twice that.

`DictIterProofs` proves, for any number of iterators, the properties of `DictIter`:

- `IterationsMeetEachOnce` (from `IterationsAreComplete` and `NeverTwice`) and
  `NoIteratorFollowsFreed`. The invariant (`IterInv`) says
  of an iterator inside the dict that what is due to its user has been returned or is pending,
  never both, where `Pending` is what lies in the buckets ahead (`Coming`), in the saved rest of
  the chain, and at the saved next entry. It needs the dict's own invariant (an entry is in one
  bucket of one table), that the code counts the running iterators, and that a freed entry is
  remembered by `stray`. `ComingAdd`, `ComingRemove` and `ComingExpand` say what the operations
  leave ahead of an iterator, `FirstBucket` what `dictNext` takes from it. Every step of
  `DictScan` is a step of `DictIter` or leaves its variables alone (`WalksAreIterations`), so
  iterations keep these promises among scans (`WalksMeetEachOnce`).

and, for any number of cursor bits, keys and table sizes that are powers of two, those of `DictScan`:

- `ScansAdvance`: `ScanAdvances`, which is said of the calls: every `dictScan` ends the scan or
  gives back a cursor ahead of the one it was given in the order of reversed bits (`CallsAdvance`), and
  what is not a call leaves the cursor alone (`OthersScan`). That order has `2^Width` places, so no
  scan makes more calls.
- `ScansReturnAll`: `ScanCompleteUnfolded`. The invariant
  (`ScanInv`) is that every entry a scan still owes has a hash whose reverse is not below the
  reverse of the cursor, the order in which the comment of `dictScan` says buckets are explored, as
  long as no cursor was folded. It needs the dict's own invariant, since a call looks for an entry
  in the bucket its hash selects, and that the table sizes are powers of two (`SizesOK`). Reversals
  are compared bit by bit: the reverse of fewer bits is the upper part of that of more (`ReversedUpper`),
  and what fewer bits decide more bits keep (`ReversedOrder`). So the next cursor is the first
  that differs from the last in the smaller table's bits (`NextCursorIs`), and an owed hash
  that agrees with the cursor in them is emitted: in the smaller table at once, in the larger because
  it is one of the expansions unless these are more than two and the cursor is beyond the first
  (`HashExpanded`, `NothingPassed`).

The lemmas about the operators (what a rehash keeps, that the loops stop in range, what an
insertion does to a chain) are in `DictOpsProofs`. Assumed: `DictAssumption` and
`ValAssumption`, which TLC evaluates: table sizes are closed under halving down to the initial
size, and there is one as large as twice the number of keys (no allocation limit is hit).

Assumed of iterators: `IterAssumption`, a finite set of them; of scans: `ScanAssumption`, that
every table size is a power of two that a cursor can index.

`AeFileEventsProofs` proves, for any number of descriptors, sizes and handlers:

- `MaxfdAlwaysHighest` (all of `TypeOK`), `KernelAlwaysAgrees` and `DispatchAlwaysValid`. The
  invariant (`FileInv`) adds to them that what is not open is not registered, that nothing closed
  since the poll is open, and that a pending event's descriptor fits the table, which holds as
  resizes happen only between batches. A valid event's descriptor is then registered, so open, so
  not closed. That the listening descriptor stays registered makes `Highest` be of a set that is
  not empty.

`AeTimersProofs` proves, for any delays and any number of timers:

- `TimersTyped`, `TimersNeverLost` and `DeletedNeverFires`. The invariant (`TimerInv`) orders the
  list by age, marks in it every timer that was deleted, and says of the walk (`WalkOK`) what its
  pointers rely on: what it has still to meet is not newer than `maxId`, `prev` is the neighbour of
  the next timer, and a null `prev` stands before timers that finalizers created and no others.
  `Pushed`, `Marked` and `Unlinked` say what user code and the relinking do to a list. The clock's
  bound is at least its first value (`TimerAssumption`).

`KernelListsProofs` proves, for any heads, nodes and entries and lists of any length:

- `HlistsAlwaysLinked`: `HlistsLinked`. The invariant (`HlistInv`) adds that no node is twice on a
  list, on two, or on one and fake. Every addition is the same four stores seen from the cell
  before and the cell behind (`Linking`, `LinkInKeeps`), every deletion the same two (`Unlinking`,
  `UnlinkKeeps`), although those cells may be a head, a node, or none.
- `ListsAlwaysLinked`: `ListsLinked`. Here the rings alone are inductive (`ListInv`): that no entry
  has two places follows from them, since next pointers that lead from two places of one entry
  would meet again at every step until they end at a head (`OnlyOnce`, by a least counterexample).
  The operations are made of four steps. `TakeOut` and `TakenLoose`: closing a ring around a run
  of entries leaves that ring right and the run a chain on no list (`Loose`). `PutChain`: a loose
  chain between two neighbours of a ring, whichever of the cells involved coincide. `InitRing`: a
  head is initialised. `LooseWritten`: an entry on no list may hold anything. A splice is a list
  that is a list no more (`DropRing`) whose chain is put into another, a cut takes a chain out
  and makes it the ring of a new head (`RingOf`), `list_cut_before` is `CutAfter` at the entry before.
- `LoopsAlwaysComplete`: `LoopsComplete`, from both invariants. A ring is a sequence without
  repetition that its pointers lead along (`Leads`), so it fits into the rounds a loop has
  (`WalkFits`), and the loop meets it (`LoopMeets`); a loop that starts elsewhere meets a part of it
  or its reverse (`Onward`, `Backwards`, `HOnward`). Of a safe loop the invariant (`Midway`, `Midback`,
  `HMidway`) says that the list is still a list, made of what the body left of the entries behind
  the loop (`Fore`, `Aft`) and all those ahead. So the entry that was read before the body is
  the next one of that list too: a deletion poisons only the links of the entry deleted. A safe loop
  that starts at an entry is midway in one that has deleted nothing so far (`MidwayStart`).

`MemServerProofs` proves, for any clients, keys and numbers of commands:

- `ServerTyped`, `ServerArmed` and `ServerReplies` (`TypeOK`, `WaitingIsArmed`, `RepliesIntact`) from
  `ServerInvariant`. Of a queue the invariant (`ServerInv`) says that only its first response has
  been begun and which items of that are sent (`QueueOK`, `ResponseOK`); of the heap that what is
  allocated is what the dict holds, and that two keys share no object; of a client that is owed
  nothing overwritten (`stale`) that every object its queue has still to send is allocated, and of one
  that got its items whole (`short`) that no item is half sent. The heart is `OnWire`: each
  response of the queue begins at an offset of `due`, the first one where `got` ends but for what
  it has sent. `RepliesIntact` is a consequence of it that says too little to be kept by a step.

Of `RespParser` it proves, for any commands, any length of the buffer and any cuts:

- `ParserTyped` (`ParserTypeOK`). The invariant (`ParserShape`) is its own strengthening: an item
  that is begun and not whole is shorter than its length, and the parser waits for its rest in
  `read` with an empty buffer.
- `ParserKeepsCommands` (`WholeLinesAsSent`) from `ParserInvariant`. As long as no line was cut, there
  is a place `p` of the stream with two halves to it (`AsSent`). What was executed and the items of
  the command in progress are what the commands encode before `p` (`HandedTo`), and `p` is where a
  command or an item begins. What was read behind `p` is in the buffer from `pre` on, or in
  the item that is begun (`Held`). A read ends in no line, and a parse begins where one does, so
  the buffer has that line whole, whatever earlier reads left behind it (`LineInBuffer`): `strstr`
  finds its end and not an older one, and `atoi` its number (`LineReads`). Every step then moves
  `p` to the next item or the next command, or keeps it (`SentReadItem`, `SentParseStar`,
  `SentParseItem`); with nothing left to parse the buffer is empty, which is why it
  never fills with an unfinished line. At the end of the stream `p` is the end of the last
  command (`SentMeans`). The stream is a concatenation of concatenations; what the proofs know of it is that
  such a concatenation has ends (`Ends`), a recursion over numbers that `EndsExist` gets from the
  well-founded order of a finite range, and that each part stands between two of them (`Joined`).

`ProgramsProofs` proves, for any values of the constants of the three programs:

- `QueueAlwaysAgrees`, of `AtomServer`: `QueueAgrees` is inductive with its types (`AtomInv`). A new
  client extends the bijection between positions and clients at its end, a deleted one closes
  the gap, whatever neighbours it has.
- `RollsWhole`, of `Ketama`: `RollWhole`. Of a segment in which no creation went wrong (`cut`) the
  invariant (`KetamaInv`) says that it is unwritten, whole, or being written by a process that is midway
  (`SegmentOK`); of that process, which fields it has already put there, and of which version of
  the file (`FillsOK`); of a process that has copied the number of points, that it is still the
  segment's unless a creation began there meanwhile (`CountOK`, `crossed`). The semaphore appears
  in none of it, since it excludes nobody.
- `ServersFound`, of `Ketama`. A turn of the loop with the first point that is not below the hash
  between `lowp` and `highp` answers it or goes on with a smaller range around it (`TurnFinds`); any
  other range answers 0 (`TurnMisses`). So there is one search function (`SearchThere`), and a
  smallest range on which it errs would contain a smaller one (`SearchFinds`, by the well-founded
  order of finite sets, which needs no induction schema). `KetamaInv` adds that a process that is
  ready is attached and that a whole continuum is one of a version's sorted points.
- `ImageAlwaysSurvives`, of `Upgrade`. `DiskInv` says which of the two files exist at every system
  call, and that until `_tmp` is sealed it is one header and the units copied so far.
- `DeliveryIsWhole`. `SendInv` says what is on the way: one frame at most, of which the pieces written
  are on the wire, or which the device has taken whole, before it answers (`Received`,
  `Unanswered`, `InFlight`).

Assumed: the `ASSUME`s of the modules, which TLC evaluates: descriptors are numbers and their set is
finite, `NoId` is no segment, frames and answers have at least one piece, heads are not entries
and, where loops walk over them, finitely many (`WalkAssumption`),
the numbers in a command (`ParserAssumption`) have at most two digits.

Only model-checked, and why. Liveness under fairness is beyond the prover (`DueServed`, `EverServed`,
`WorkServed`, `SignalsHandled`, `Answered`, `CallsReturn`, `RollReturns`). So is what a
`RECURSIVE` operator computes: `RbTree`, `JswTree`, `SkipList` and what `MCOrdered` and `RbLatch` say of
them (`WellFormed`, `ListAsList`, `StoresLoopless`, `LookupTrue`); the search of ketama and
the loops of `ListWalks` are recursive functions, which are within reach.

## 6. Divergences and observations

Refuted by a run (the lines are quoted in `PROJECT.json`): the pipe reader that blocks the loop,
header lines cut by a read, values freed under a waiting reply, and the scan that skips entries
when its dict shrinks or grows fourfold under it: the inner loop of `dictScan` takes the expansions of the cursor
in numerical order, the calls before it in reversed order (`ScansReturnAll` shows this to be the only way a scan fails).

Seen while modelling, and visible in the modules, without a run of their own:

- `dictEmpty` sets the iterator count to 0 under running iterators (`dict.c:995`); their release
  makes it negative and rehash steps stop. `EmptyMidIteration = TRUE` gives the behaviours.
- `dict.h:87-90` allows any call while a safe iterator runs; deleting the entry after the one
  returned leaves the iterator with a freed pointer (`NoFreedEntry` excepts it by `stray`).
- A timer created by a finalizer can be lost (`ae.c:396`): it is at the head when
  `timeEventHead` is overwritten (`NoTimerLost` excepts it by `byFinal`).
- A descriptor closed and accepted again in one batch gets its predecessor's event
  (`ae.c:515`); the servers' handlers then find nothing to read.
- A hang-up without input is reported as `AE_WRITABLE` only (`ae_epoll.c:123-124`): a descriptor
  waiting for input alone is never told, and the loop spins.
- `aeResizeSetSize` accepts one size its comment refuses (`ae.c:145-148` and 155).
- The rest of an item that one write did not take is sent from the item's start again
  (`tcp_server.c:391`); `RepliesIntact` leaves such clients out (`short`).
- `zslDelete` is to "Delete an element with matching object" (`skiplist.c:157`), but compares
  through `level[-1]` (line 170), reading the object as a node. `Deletions` is all that may come of it;
  that the list stays well formed and loses at most that element is checked.
- `jsw_rbsize` is documented as "The number of nodes" (`jsw_rbtree.c:419`), but duplicates and
  removals of what is not there are counted (307, 408), and `jsw_rberase` always returns 1.
- `zslGetElementByRank(0)` returns the header, which is no element.
- `recv_cmd_handle` of the atom server never leaves its inner loop once a byte has come, since
  `do_protocol` returns `SUCCESS_CMD` and the loop's condition is the constant 1
  (`Z_my_work_atom/tcp_server.c:128-156`): `spinning`.
- `clientDelete` of the atom server deletes the timers whose ids are not negative, and ids start at
  0 (line 61): with timers, a client that set none would delete the first of them all. No client
  sets one yet.
- The semaphore of `ketama.c` is set with SETVAL and never waited on, so it excludes nobody; readers
  can take a torn continuum: of a segment another process is midway in, of one in which a creation was
  cut short, ran beside another or met an edit, and, between lines 580 and 547, the old number of
  points with a new array (`RollWhole` excepts these three, and TLC refutes it without any of
  them). A roll whose file is edited after
  line 545 creates continua for ever (`RollReturns` excepts it), stamped with the new time at line
  476, while it waits for the old.
- `ketama_get_server` takes the first point for a hash of 0, which lies above no point: the
  comparison `h > midval1` fails there. It is the server it should be.
- The copying loop of `add_hisiHead` checks neither read nor write (`test_client.c:224-227`): a full
  disk replaces the image by a truncated one with the MD5 of the whole (`lost`). Whatever
  `add_hisiHead` returns, `main` goes on and sends what is there (365-376); a second run stamps
  a stamped image again.
- A `*0` line makes every later read of that client be parsed behind it, until the buffer is
  full and the connection closed (`tcp_server.c:158`).

## 7. Not modelled

Left out of the modelled parts: `dictGetSomeKeys`, statistics, hash functions and
the unsafe iterators' fingerprint; `aeWait`; the poll back ends other than epoll, which are not
built; log lines and the wording of replies. Memory is taken to be available.
Of the kernel tree, the test program's loops, and the barriers: stores reach memory in
program order and readers see them so. `seqcount_t` and RCU, which the repository does not hold,
are what `rbtree_latch.h` says of them. `zslFree` and comparison functions that are no order.
Of `list.h`: accessors that change nothing, and `list_empty_careful`. Of `ketama.c`: MD5 and how memory shares become points, which are data here. Of the atom
server: sending and timers, which its stub of a protocol never asks for.

Not modelled at all: `anet.c` (wrappers of socket calls without state), `log.c`, the MD5 sources,
`Z_my_work/main.c` (a scratch program over signal events) and `tags`: formatting, third-party or
generated code, and no state that another part depends on.
