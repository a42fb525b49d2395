# A TLA+ verification of F-Order

F-Order is a race detector for parallel programs that use futures. It maintains
the reachability of the program's dag on the fly, while a Cilk runtime extended
with futures and suspendable deques runs the program, and checks every memory
access against a history of earlier accesses. This directory holds TLA+ models
of its concurrent core, the TLC configurations that check them, and proofs
checked by TLAPS.

Paths below are relative to the repository root.

## 1. Inventory

| Component | Source | State | Operations | Hard behaviour |
|---|---|---|---|---|
| Order-maintenance wrapper | `rdtool/src/omrd.cpp`, `omrd.h`, macros of `check_mem.h` | one spin lock per worker, `g_relabel_mutex`, `g_batch_in_progress`, `g_batch_owner_id`, `g_relabel_id`, heavy lists | `insert` (fast and slow path), `join_batch`, `try_lock_all`, `batch_relabel`, queries | inserts, relabels and queries interleave; everyone waits for everyone |
| Batcher | `cilkrtssuspend/runtime/batcher.c` | `batch_lock`, `pending_batch`, `batch_id` of every worker | `cilk_batchify`, `cilk_set_next_batch_owner`, `invoke_batch`, `terminate_batch` | the batch's continuation can be stolen; several stores end a batch |
| Order-maintenance lists | `rdtool/src/om/blist.c`, `blist_split.c` | linked list of labelled nodes | `bl_insert`, `get_new_label`, `split` | concurrent inserts into one list; label arithmetic that wraps |
| Top-level tree | `rdtool/src/om/om_relabel.c`, `om.c` | binary tree of lists, counts, label ranges | `om_relabel`, `rebalance`, `rebuild` | thresholds, ranges and levels; long sequences of relabels |
| Future | `rts/include/cilk/future.h`, `rts/include/internal/future_base.h` | result, `tail` of the stack of waiters, FOM | `get`, `put`, `suspend_deque`, `resume_deques` | push against exchange; a waiter that runs while the walk stands on its link |
| Access history | `rdtool/src/check_mem.cpp`, `mem_access.*` | last writer and readers of a location, two spin locks | `check_access`, `handle_read`, `handle_write` | checks of parallel strands overlap; unlocked reads and deletions |
| Shadow memory | `rdtool/src/shadow_mem.h` | table of slots | `find`, `insert` (`erase` is not reached) | racing first accesses |
| Future order lists | `rdtool/src/list.cpp` | per strand: groups of the nodes through which other futures reach it | four constructors, `Merge`, `Search` | a binary search in groups that are sorted in one order only; labels change while a merge compares them |
| Shadow stack | `rdtool/src/shadow_stack.cpp` | frames with their nodes in the English and the Hebrew order | spawn, sync, future create/finish/get, steal | a thief copies what its victim is changing |
| Deque pool, deques, stealing | `cilkrtssuspend/runtime/deque_pool.c`, `deque.c`, `scheduler.c`, `cilk-abi.c` | head, tail and exception pointer of each deque; pools of suspended and resumable deques per worker | push, pop, suspend, make resumable, mug, steal | the THE protocol; pools change under unlocked readers; a deque is mugged while it is made resumable |

How they interact: the compiler's callbacks (`tsan.cpp`) call the shadow stack
at every spawn, sync and future operation and the access history at every load
and store. The shadow stack *inserts* nodes with `omrd_t::insert`; the access
history *queries* their order between `QUERY_START` and `QUERY_END`. An insert
that finds no label joins a *batch* of the runtime that relabels both orders
with `om_relabel`. Futures tie the program to the runtime: a `get` that is not
ready suspends its deque, `put` hands it back to the deque pool, and the FOM
(the future's final node and list) travels with it to the shadow stack.

What makes each one correct: inserts and relabels exclude each other and every
lock is released by its holder; queries answer with the true order whatever they
overlap with; every operation returns; labels are the order of insertion, at the
bottom and at the top; a future's `get` returns once, when the future is ready,
with the FOM; a report is of a race and a race is reported; two strands are
ordered by their nodes and lists exactly when the program orders them; a deque is
in one place, no frame is lost or run twice, and a deque that waits runs again.

`PROJECT.json` lists every component, modelled or not, and every hazard at its
line.

## 2. Modules

| Module | Models | Composes / refines |
|---|---|---|
| `Relabel` | wrapper, batcher, `om_relabel` as seen by workers, queries | wrapper with batcher and sequence lock |
| `RelabelProofs`, `RelabelBatchProofs` | theorems about `Relabel` | the second extends the first |
| `Labels` | `get_new_label` | used by `BList` |
| `BList`, `BListProofs` | concurrent `bl_insert` into one list | extends `Labels` |
| `OrderTree` | `om_create`, `om_relabel`, `rebalance`, `rebuild` | |
| `FutureSpec` | what a future promises | abstract specification |
| `FutureQueue`, `FutureQueueProofs` | `get`, `put`, `suspend_deque`, `resume_deques` | refines `FutureSpec` |
| `AccessHistory`, `AccessHistoryProofs` | `check_access`, `handle_read`, `handle_write`, first access to a slot | |
| `FutureLists` | lists of future nodes, as operators | used by `ShadowStack` |
| `ShadowStack`, `ShadowStackProofs`, `ShadowListsProofs` | the hooks of a running program, steals, suspension and resumption, `Precedes` | runtime's deques with shadow stacks and lists |
| `DequeSpec` | what the deques promise the program: atomic push, pop, steal, suspend, resume | abstract specification |
| `DequePool`, `DequePoolProofs` | deques, pools, the THE protocol, suspension, resumption, stealing | refines `DequeSpec` |
| `MC...` | instances for TLC | |

### Relabel

A worker's control point `pc[w]` follows the code line by line through
`insert`, `slow_path`, `join_batch`, `cilk_batchify` and what these call; one
action is one access to shared state, or a stretch of code under a lock that no
other worker can observe. The spin locks (`mut`), `g_relabel_mutex`
(`relabelMutex`), `batch_lock` (`lock`, `lockOwner`), `g_relabel_id` and
`pending_batch.id` are variables of their own because the code stores to them
one at a time.

The data is abstracted to what the protocol depends on. A worker stands for the
node it currently inserts after; the *true order* of these nodes is the order of
worker numbers. `room[o][x]` is the number of inserts after node `x` that still
find a label in order `o`; an insert uses one up, and a relabel gives a list
that it splits its room back. `label[o][x]` is what a query compares; a relabel
rewrites the labels one node at a time (`left` are those still to come), so that
a query can see old and new labels mixed. The continuation of the spawn in
`batch_relabel` (`cont`) may be stolen by a worker in the batch loop, and then
the last worker to arrive at the sync ends the batch.

A failed `CILK_ASSERT` is a step to `aborted`.

### Labels and BList

`GetNewLabel` is the arithmetic of `get_new_label` with wrap-around after
`MaxLabel`; the only assumption is that `MaxLabel` is odd, as 2^64 - 1 is. In
`BList` every store to a node or to the tail is a step, nodes are numbered as
they are allocated, and the initial states are the lists `split` makes
(`NodeInterval` apart), with the one-node list of `bl_insert_initial` among
them. Two workers never insert at the same base: a base is the current node of
one strand, which the `active_insert` counter of the code also assumes.
`after` is a history variable: the order of insertion.

### OrderTree

The tree is a recursive record; a leaf is a bottom list. One step is one
`om_relabel` with any choice of up to `MaxHeavy` heavy lists, each cut into up
to `MaxSplit` lists. It runs alone (shown in `Relabel`), and its parallel loops
and spawns touch disjoint nodes or add to counters, so one step is enough.
The density test of `too_heavy` is compared as integers, which is exact. Two
details are outside the bounds on purpose: a tree with `MAX_LABEL` leaves (2^64
with the code's labels), and the shift `1 << height`, an `int` shift in the code
that wraps for levels below 33; for those levels the parent has been rebuilt
before the capacity is looked at.

### FutureSpec and FutureQueue

`FutureSpec` says that `put` makes a future ready for good and that a `get`
returns once the future is ready, with the future's FOM merged. `FutureQueue`
models the code: the future's `tail` is an atomic stack of links, a waiting
deque pushes its embedded link with compare-and-swap, and `put` exchanges the
stack with NULL and walks it. `make_resumable` and the resumption of a deque by
some worker are one step each; `DequePool` is about the pools behind them.
Refinement mapping: `ready` is the set of futures whose `tail` is NULL, and a
strand is `getting` until its control is at the return.

A deque may get any number of times. The code then has a fault (section 4): a
walk reads the link of a deque that it has already made resumable, and the deque
may have written it again. `overwritten` is a history variable that becomes true
when a deque writes its link while a walk stands on it. From there on the code
promises nothing about waiters, and `FutureSpec` says so by a step of its own
(`Forfeit`, after which `forfeited` allows anything); up to there everything is
checked and proved, gets of other and of ready futures included.

### AccessHistory

One location, one grain of one `MemAccessList_t`. The program under test is a
*case*: a strict partial order on strands, its dag, and the accesses that each
strand makes. A strand is a `Current`, a stretch of execution between two
switches of the shadow stack, and runs when all strands before it have ended.
Strands that follow each other may have the same node (`node`), as when
`do_leave_end` or `CilkFutureCreate` makes a new `Current` from old nodes. Every load
and store of `writers[i]`, `readers[i]` and the `next` fields outside a lock is
a step, as is every lock operation. Using an entry that another strand deleted
sets `undefined`, after which the model stops: nothing is claimed of it.

`known` are the pairs of strands for which `Precedes` answers true. It is part of
the case and any subset of the dag: `Precedes` orders no parallel strands
(`PrecedesSound`), but it misses orders that are there, those of strands with the
same node and those of section 4, item 4. Strands with the same node are ordered
(`PrecedesSound` again), which `check_mem.cpp:55` relies on. A query is one step
whose answer does not depend on when it is made: no relabel changes the order
(`QueryCorrect`) and no list in use is written (`ListsFrozen`). `overlap` is a
history variable: the pairs of strands whose checks overlapped in time.

### FutureLists

A list is a function from future ids to *groups*, sequences of entries sorted in
the English order. The English and the Hebrew `om_node` of a place in the
program are always stored together, so one name stands for both, and the orders
(`om`) map names to positions. `group_merge` and `merge_group_single` keep what
the code does with the `desc` fields, the discarded comparison at `list.cpp:536`
included; `Search` is the binary search, written as a recursive function. The
chain of a list (`hash.head`) is a field of its own because one constructor does
not set it.

### ShadowStack

State of the code: `shadow` (the `Stack` of each worker's active deque: frames,
`tail`, and what is still in memory above the head), `heap` (the lists, which
frames share by pointer), `called_future`, `cur` (the `Current` of the worker)
and `om`. State of the program and the runtime: `acts` (activations of
functions), `own` (the activations that a worker's deque holds), `suspended`
(deques that wait for a future). Every hook is one action: a shadow stack is
accessed by its worker and, with the stack's lock, by thieves, and a list that is
written is private or under its lock. The hooks whose first and second halves
other workers can come between are split: `do_sync_begin`/`do_sync_end`,
`do_leave_stolen` and the runtime's choice of who goes on, `CilkFutureFinish` and
the helper's return. `CilkFutureFinish` stores the `steal_*` fields under the
stack's lock and pops later without it; one action is enough, because a thief that
comes in between finds the same helper's frame, on the stack or just above its
head, and leaves the same `tail`.

`strands` is a history: each `Current` the hooks make, with its ancestors in the
dag, built from the program's own structure (`at`, `ended`, `from`, `last` of an
activation) and never from nodes or lists. The properties compare `Precedes`
with it. They look at pairs with the youngest strand (`NewPairs`): each pair is
such a pair once, and its answer does not change later, as nodes keep their order
and a strand's list never changes (`ListsFrozen`, proved in `ShadowListsProofs`).

### DequeSpec and DequePool

`DequeSpec` has per worker the deque that it uses, per deque the number of frames
that nobody has taken, and two sets: deques that wait for a future and deques that
are ready because theirs is complete. Every operation is one step. `DequePool` is
the code.

`deq` are the deque objects with the fields the code keeps in step (`worker`,
`self`, `resumable`, `fiber`), and their frames as counts: `frames` is tail minus
head, `exc` is exc minus head. The pools are sequences. Whatever is done with a
worker's lock is one action, since no worker holds two of these locks, except for
a thief: it holds the victim's lock from `Probe` to the end of its steal
(`Locked`) and its accesses to `exc`, `tail` and `head` interleave with those of
the owner, which pushes and pops without a lock. What `__cilkrts_make_resumable`
reads outside a lock, and the fiber that becomes resumable only when its worker
has jumped to another one (`Jump`), are steps of their own.

The program above pushes, pops, gets, completes futures and stalls as it likes
within the bounds, with one restriction: while a deque waits for a future, a
worker gives its work up only if there is other work (`MayStop`). In the runtime
the last worker to arrive at a sync goes on with the parent, so the strand that
completes the future is on some worker or deque.
A trylock that fails, or a fiber that could not be allocated, changes nothing and
is tried again.

Refinement mapping: a worker that is suspending uses no deque until it has another,
which it uses before it switches to it; a deque is ready from the moment its future
takes it from the queue, while its owner may still be suspending it, until a worker
mugs it. A pop and a steal take effect (`Work`) when their outcome is decided: a
pop when its worker has seen that no thief is after the frame, or has waited for
the thief's lock and still found it; a steal when the thief finds the tail above
the raised `exc`, which is before it moves the head.

## 3. Runs

| Run | Instance | Result |
|---|---|---|
| `RelabelExclusion` | 3 workers, 2 lists, room 2, heavy below 1, 5 inserts | inserts and batches exclude each other, unlocks are by the holder, heavy lists are queued once, the slow path finds room |
| `RelabelQuery` | 2 workers, 1 list, room 1, 4 inserts, 1 query, fair | accepted queries are correct; labels change only in a batch; every insert returns |
| `RelabelBatchLock` | 2 workers, 4 inserts | **violation**: a trylock that "should never fail" does |
| `BList` | 3 workers, labels 0..15, 7 nodes | labels are the order; fails only when full; `bl_verify` holds |
| `OrderTree` | label widths 2, 3, 4 and 16, up to 11 lists | leaves keep their order; `om_verify`'s ranges and counts, capacity and depth (`TreeVerified`) |
| `FutureQueue` | 2 deques, 2 futures, two gets each, fair | until a link is overwritten under a walk: refines `FutureSpec`; nobody is lost, resumed twice or early; all complete |
| `FutureQueueReuse` | 2 deques, 2 futures, two gets each | **violation**: a get returns before its future is ready |
| `AccessHistory` | 3 strands, all dags, all choices of missed orders and shared nodes, at most one strand with two accesses, fair | every report is a race, or of an order that a query missed; races found when the racing checks do not overlap; every check ends |
| `AccessSeparate` | 4 strands: three readers, one writer | **violation**: a reader is lost from the history |
| `ShadowStack` | 3 workers, programs of six sizes | shadow stacks match the deques; frames are ready for whoever runs them; `Precedes` is sound, and complete within a future and across gets; `Search` is exact; lists in use do not change |
| `ShadowStackCreate` | 1 worker, a future that creates a future | **violation**: what comes before the inner creation is not ordered with the inner future |
| `DequePool` | 3 workers, 5 deques, 2 frames, 2 pushes, 2 gets, fair | every deque is in one place and knows it; assertions hold; no frame is lost or taken twice; refines `DequeSpec`; every waiting deque runs again |

Why the bounds are enough to be interesting:

- `RelabelExclusion`: three workers are an owner, a thief that takes its
  continuation and a third that inserts, fails or joins meanwhile; five inserts
  run out of room in one list and begin a second batch. `HeavyGap` below
  `MaxGap` lets a list become heavy on the fast path, without a failure.
- `RelabelQuery`: one query with the inserts that bring about a relabel of
  either order between any two of its reads. With room for one, four inserts let
  both workers fail, at the same time or one in the batch of the other.
- `BList`: 15 as the largest label is small enough for inserts to fail and large
  enough for three of them at neighbouring nodes. Deadlock is not checked,
  because the model stops when its pool of nodes is used up.
- `OrderTree`: with few bits rebuilds reach the root after a few splits; with 16
  bits a leaf below the root is rebuilt in place, which needs a subtree with
  spare capacity. 2, 3, 4 and 16 are widths at which the thresholds fall
  differently.
- `FutureQueue`: two gets of two futures are the smallest program in which a
  resumed deque waits again, for the same walk's future, for another one or for
  one that is ready. That a third deque comes after the exchange of a stack of
  two was checked with 3 deques, 2 futures and one get each (919,621 states).
- `AccessHistory`: every partial order of three strands, every set of its pairs
  that queries miss, every way to share nodes, and one strand that returns to the
  location, so that entries of the same strand meet. 916,549 states.
- `ShadowStack`: no single size with all operations is small enough, so the run
  covers six mixes (`MCBudgets`), each with what its comment names: calls in
  stolen frames, steals in the window of `CilkFutureFinish`, steals from stolen
  frames and from suspended deques, nested futures, groups of several nodes, and
  merges of groups that share a node. Deadlock is not checked, because a program
  may end.
- `DequePool`: three workers are one that waits, one that completes the future
  and a thief that mugs the deque between the two; the other two deques let a
  pool hold two, which its removal by swapping needs. Two pushes put a frame under
  a steal and another under a pop. Deadlock is not checked, because the workers
  stop when the program has nothing left.
- `AccessSeparate` needs four strands: two readers that overlap, one of them
  ordered before the writer, and an installed head.

### Fairness

`RelabelQuery`, `FutureQueue`, `AccessHistory` and `DequePool` assume weak
fairness of every worker thread, deque and strand: a thread that can take a step eventually does.
The workers are kernel threads that spin, yield or run and never block for good,
which is all that weak fairness asks. Spin locks are not assumed to be fair: a
waiting thread is enabled only while the lock is free. For futures it includes
that a resumable deque is found by some worker, which the scheduler loop does,
and that programs make the gets they make. The properties say "unless" where the
code stops first: `AllReturn` unless an assertion ends the program, `Completes`
unless a link was overwritten under a walk, `AllChecked` unless a deleted entry is
used or the list of readers has become cyclic. In
`DequePool` weak fairness of a worker includes that user code goes on, that a
lock which is free is taken, and that a worker which looks for work finds some:
victims are random, and a probe that finds nothing leaves the state as it was.

### Mutants

Every property of a passing run comes with a mutant in `PROJECT.json`: a changed
copy of one definition (a dropped guard, a missing reset, an off-by-one), named
in a comment `Mutant:` beside the original, under which TLC finds the property
violated.

## 4. What the models say about the code

1. **The end of a batch is published too early** (`RelabelBatchLock`).
   `terminate_batch` stores `pending_batch.id` before it frees `batch_lock`.
   If a thief ends the batch, its owner may leave, free `g_relabel_mutex`, and the
   next failed insert meets a `batch_lock` that is still taken: the assertion at
   `batcher.c:461` ends the program.
2. **A waiter's link is read after the waiter was let go** (`FutureQueueReuse`).
   `resume_deques` reads the next link of a deque that it has already made
   resumable. If that deque waits for another future by then, the walk continues
   on that future's stack and a get returns before its future is ready. Until a
   link is overwritten in that way nothing of it can happen, however often deques
   get; that is what is proved in section 5.
3. **Readers are lost** (`AccessSeparate`). `handle_read` links its new entry to
   a head of the list that it read before it took the lock; readers added in
   between drop out, and a later write misses its race with them.
4. **A list without a head** (`ShadowStackCreate`). The constructor of a list
   from one node, used for the first future that a strand creates, leaves
   `hash.head` uninitialised. A copy or merge walks the chain from there: with
   NULL it drops the node, and strands before the outer creation are not ordered
   with those of a nested future. The model takes NULL, which memory that was not
   used before has; any other value is arbitrary or ends the program.

Further observations made on the way, which are part of the models but
contradict nothing the repository says:

- Checks of parallel accesses that overlap can miss each other, since check and
  update are not one step.
- The list of readers can become cyclic when a reader pushes its entry again
  after another strand replaced the head (`check_mem.cpp:138`), which
  `AllChecked` excepts.
- Only the write-after-write check skips the current strand (`check_mem.cpp:55`);
  `handle_read` compares a strand's own earlier write with the strict
  `om_precedes`, so that a strand that writes and then reads is handed to
  `report_race` (a stub in this version, `check_mem.cpp:14`). The same is true of
  any ordered pair that `Precedes` misses. `ReportsAreRaces` therefore does not say
  that a program without races is never reported: it says that these are the only
  reports that are not of races.
- The branch for a last link with a deque (`future_base.h:55`) is never taken:
  every walk ends at the link of some future (`TypeOK`, proved as
  `QueueTypeCorrect`, also after a link was overwritten), and a future's own link
  has no deque. The model has no such branch.
- `om_precedes` is strict, so `Search` does not find a strand that has the very
  node of a creation or an end; the properties of `ShadowStack` about what is found
  compare strands with different nodes. Two strands do have the same node
  (`do_leave_end`, `CilkFutureCreate`), and are then always ordered
  (`PrecedesSound`).
- The comma in the condition at `list.cpp:536` discards the English comparison.
  It does no harm (`SearchExact` holds with it): the new node is the strand's own,
  and the nodes of its future in its list come before it in both orders.

## 5. Proofs

All theorems hold for every value of the constants under the named assumptions
of the modules, and every leaf is checked by TLAPS.

| Theorem | Module | States |
|---|---|---|
| `TypeCorrect`, `InsertsExcludeBatches`, `UnlocksByHolder` | `RelabelProofs` | `[]TypeOK`, `[]InsertsExcludeBatch`, `[]UnlockedByHolder` |
| `LabelsChangeOnlyInBatch`, `HeavyListsQueuedOnce`, `SlowPathLeavesRoom`, `QueriesCorrect` | `RelabelBatchProofs` | the action property `LabelsChangeInBatch`, `[]HeavyQueuedOnce`, `[]SlowPathGetsRoom`, `[]QueryCorrect` |
| `ListTypeCorrect`, `LabelsAreOrder`, `InsertFailsOnlyWhenFull`, `ListIsVerified` | `BListProofs` | `[]TypeOK`, `[]PrecedesIsOrder`, `[]FailsOnlyWhenFull`, `[]ListVerified` |
| `QueueTypeCorrect`, `GetsReady`, `GetsMergeFom`, `WaitersResumedOnce`, `QueueImplementsFuture` | `FutureQueueProofs` | `[]TypeOK`, `[]ReadyUnlessOverwritten`, `[]FomMerged`, `[]ResumedOnce`, and the safety part of `FutureSpec`, for any number of gets |
| `HistoryTypeCorrect`, `OnlyRacesReported`, `WriteRacesFound`, `SequentialRacesFound` | `AccessHistoryProofs` | `[]TypeOK`, `[]ReportsAreRaces`, `[]WriteRaceFound`, `[]SequentialRaceFound` |
| `DequeTypes`, `DequesHaveOnePlace`, `DequesKnowTheirPlaces`, `AssertionsAlwaysHold`, `WorkIsKept`, `DequesImplementSpec` | `DequePoolProofs` | `[]TypeOK`, `[]OnePlace`, `[]PlacesKnown`, `[]AssertionsHold`, `[]WorkKept`, and the refinement `Implements` |
| `ShadowTypeCorrect`, `ShadowsMatch`, `FramesAreReady` | `ShadowStackProofs` | `[]TypeOK`, `[]ShadowMatches`, `[]FramesReady` |
| `ListsAreFrozen` | `ShadowListsProofs` | the action property `ListsFrozen` |

The inductive invariants and why they are needed:

- *Locks* (`LockInv`). Exclusion follows from who holds what: a worker at an
  inserting control point holds its own lock, the owner of a batch has locked
  the workers below `idx` and, once it is past the locking loop, all of them,
  and `inProgress` holds only while it does. The invariant ties `pc`,
  `batchOwner`, `idx` and `mut` together.
- *Batches* (`BatchInv`). Labels change only at two control points. That
  `g_relabel_id` is odd there needs `ParityInv` (it is odd exactly while someone
  is between the two increments), which needs that at most one worker is inside
  the batch (`AloneInv`), also when the continuation was stolen (`ContInv`), and
  that the recorded owner is the worker that holds the locks (`OwnerInv`).
- *Heavy lists* (`HeavyInv`) *and room* (`RoomInv`). The flag of a list is up
  exactly when the list is queued or one worker, the winner of the
  compare-and-swap, is about to queue it; and nobody is about to while a batch
  empties the queue, because inserts and batches exclude each other. In
  `slow_path` the room at the base is zero before the batch and `MaxGap` after it.
- *Queries* (`OrderInv`). A label differs from its new value only for nodes in
  `left`, and `left` is empty while the id is even (`LeftInv`, `LabelInv`). For a
  query that has read one or two labels (`QueryInv`): if the id is still the one
  it began with, and even, then no label has changed since, and what it read is
  in the true order.
- *Lists* (`ListInv`). A new label lies between the base's and its successor's,
  and the successor of a claimed base cannot change, because whoever changes
  `next` of a node has claimed it (`ClaimInv`, `SuccInv`). Successors in the list are
  adjacent in the order of insertion, so a label between two neighbours is on
  the right side of all nodes (`LabelInv`). `NewLabelFits` is the lemma on
  `GetNewLabel`: its result is 0, and no label was free, or lies strictly
  between.
- *Links* (`LinkInv`). Between the stores of an insert `next` and `prev` disagree.
  The invariant says where: the successor of a node points back to it, unless a
  worker that has claimed the node has yet to store a link (`NodeInv`,
  `StoreInv`); nodes that are not in the list yet have no `prev`, and the first node
  stays first (`FreshInv`, `FirstInv`). A lemma from it (`OneBefore`), that no two
  nodes in the list have the same successor, keeps two neighbouring inserts from
  undoing each other's links. When nobody inserts, this is `bl_verify`.
- *Futures* (`QueueInv`). `TypeInv` holds always: every link leads to a deque or
  the link of a future, and no NULL is followed (`PointersInv`, `GetTypes`,
  `PutTypes`). The rest holds until a walk's link is overwritten. A deque is in at
  most one stack, the one of the future it waits for, from its compare-and-swap to
  the moment it runs again (`Waits`), and only then writes its link; so the links
  from `tail` or from a walk's position lead through waiters of that future only
  (`StackInv`, `LinkOf`), each waiter at most once and not yet resumed (`GetInv`).
  The one deque whose link is read while it may already run is the one a walk has
  just made resumable, and `overwritten` records that it did not write it. The
  refinement then has one case per action. That no waiter is met twice needs that
  the stack is a chain and that the walk goes down it: no two waiters have the
  same `next`, and below a waiter that was not served, the walk's position
  included, none was.
- *Access history* (`HistoryInv`). Every recorded strand has begun and has done
  what it is recorded for (`RecordOK`), and a strand begins only when all strands
  before it have ended (`StartOK`). So no record is of a strand after the current
  one, which is why asking in one direction is enough, and of the two accesses
  that are compared one is a write (`KindOK`). What is left, if the query answers
  false, is a race, the strand itself, or an order that the query missed. That
  `Precedes` orders no parallel strands is not needed here, but it is for finding
  races.
- *Races found* (`LastWriterOK`, `SequentialInv`). While no race is reported and
  no racing checks overlap, the writers so far form a chain in the dag that ends
  with the recorded writer: a write that does not follow it is reported before it
  replaces it. For reads the list has to be followed: when no two checks overlap
  there is a finite sequence of distinct entries that `head` and `next` run
  through; every strand that read since the last write is in it or before the last
  writer; and the walk of a write has queried and deleted exactly the entries in
  front of its pointer. So it uses no deleted entry and misses no reader.
- *Deques* (`DequeInv`). `PlaceInv` says at each control point who can reach a
  deque: a worker's active deque is its own and no other's (`ActiveInv`), a pool
  and its deques agree on where they are (`PoolInv`), a deque in somebody's hands
  is in no pool that others can take it from (`HeldInv`), a deque whose future is
  not finished is still being suspended by its worker or in a pool of suspended
  ones (`PendingInv`), and only deques in use are anywhere (`LiveInv`). It is
  stronger than `OnePlace` and `PlacesKnown` because the owner may still be
  suspending a deque that its future already resumes. `StealInv` is the THE
  protocol: one thief per victim's lock (`ThiefInv`); `exc` is raised
  exactly while that thief decides (`ExcInv`); at every point of a pop and a steal
  of the same deque, how many frames there are and who gets the last (`FrameInv`);
  and where a deque with frames is found (`WorkInv`).
- *Deques implement `DequeSpec`*. With `DequeInv` before and after a step there is
  one lemma per action (`...Maps`). Most move deques around and change nothing in
  `DequeSpec` (`MoveMaps`), because a deque says that it is in a pool of resumable
  ones exactly when it is in one (`ReadyKnown`). The others are one step of it:
  that a frame is there to be taken when a pop or a steal takes effect is `ExcInv`
  and `FrameInv`, and that a worker leaves no work on a deque which it gives up for
  a mugged one is `EmptyOK`.
- *Shadow stacks* (`ShadowInv`). A property of the last two frames is not
  inductive: a return or a steal uncovers older ones. So the invariant is about
  whole stacks, the stale copies below the tail included: each frame belongs to
  the parent of the activation above it and is in the state in which the hook that
  returns to it needs it (`StackOK`, `LiesOn`), the first is the root's and the
  last can go on (`Ready`). The frames from the tail on are those of the
  deque (`Covers`); how many depends on the control point (`HasStack`): between
  `CilkFutureFinish` and the runtime's own pop there is one less, and then the
  frame below has the nodes and the list that a thief takes from it (`Popped`).
  That no node is reused needs that the nodes are numbered without gaps in both
  orders (`OrderInv`). There is one lemma per action; lemmas about `push`, `pop`,
  `StolenFrames` and `LeftFrames` say which frames they keep. TLC checked
  `ShadowInv` on the run's six sizes of program, 1,488,845 states without symmetry.
- *Frozen lists* (`CopyInv`, on top of `ShadowInv`). A `sync_list` is the only list
  written in place, and a steal copies frames, so several frames can name one
  `sync_list`. A frame is *live* if somebody can still return to it (`LiveFrames`):
  what lies below a future's frame whose continuation was stolen is not. No live
  frame has a `sync_list` that a strand uses, that another live frame uses as its
  list, or that a frame of another function collects in (`ListsInv`). What disturbs
  this is the end of a sync, which makes the `sync_list` the list of a strand: then
  no other live frame may belong to that function. The lemma `Alone` says so: a
  frame below the head of a stack waits for a child that has not returned, a
  finished sync has no spawned child outstanding, the callers of a running
  function are on one deque (`CallsNext`, `OneCall`), and a function runs, or waits
  in a sync, in one place only (`Once`, `WaitersOut`). There is one lemma per
  action again; those about the common shapes of a step (a head frame that turns,
  frames that are popped, a deque cut in two by a thief) carry most of the work. TLC
  checked the invariant with three workers, 370,542 states.

Each of these was checked by TLC as an invariant of the runs' instances before
it was proved.

Only model-checked: liveness (`AllReturn`, `Completes`, `AllChecked`, `Resumes`),
as fairness is out of the prover's reach; everything about `OrderTree`, whose tree
is defined by recursion; and of `ShadowStack` what `Precedes` answers
(`PrecedesSound`, `SameFutureOrdered`, `GetOrdered`) and `SearchExact`.
`SearchExact` is about what a binary search computes, which needs induction over
data, and the answers of `Precedes` rest on it. `ReadyAfterGet` without the condition
on `overwritten` is not a theorem: the code violates it (section 4).

## 6. Not modelled

- Fibers' stacks, stack frames, teams, the counter of active workers, protected
  tails, replay, and the bookkeeping of batch records in the runtime;
  `__cilkrts_resume_suspended`, which is called only in a branch that is never taken
  (`future_base.h:62`); running out
  of memory for deques.
- A relabel in the middle of a merge of two lists. The merges compare nodes
  outside `QUERY_START`/`QUERY_END` (`list.cpp:179`), so this is a hazard of the
  code; `ShadowStack` takes the orders as abstract, and a joint model with the
  labels of `Relabel` has no instance that is both useful and small enough.
- The hooks of a worker inside a batch, which return at once; the growth of a
  shadow stack's array; `PrivateMemory`.
- `reset`, storage and deletion of futures.
- The mapping of addresses and sizes to grains (straight-line arithmetic), the
  directory of tables of the shadow memory (an array), and `erase`, which is not
  reached: `clear_shadow_memory` returns at once.
- Weak memory: the models interleave sequentially consistent steps. The code runs on
  x86 and uses volatile and atomic accesses at the places modelled as steps, and
  fences in the THE protocol.
- Statistics and reports (I/O), the instrumentation hooks (no state of their
  own), alternative list and stack implementations the build does not link,
  FutureRD, the rest of the Cilk Plus runtime (vendored: reducers, platform
  code, the unmodified runtime beside the modified one), benchmarks. These make
  up nearly all of the repository's lines; the detector and the runtime's
  additions for futures, suspension and batches are a few thousand.

## 7. Plan

Done: `Relabel`, `Labels`, `BList`, `OrderTree`, `FutureSpec`, `FutureQueue`,
`AccessHistory`, `FutureLists`, `ShadowStack`, `DequeSpec`, `DequePool`, and the
proofs of section 5. Next, most important first:

1. The part of `PrecedesSound` that does not search a list: strands of one future
   whose nodes are in both orders.
2. `FutureLists`: that `merge_group_single` and `group_merge` keep a group sorted,
   as lemmas; the label ranges of `rebuild` as lemmas without recursion.
3. Compositions: `FutureQueue` on `DequeSpec` in place of one atomic
   step; `BList` with `Relabel` (that the room of `Relabel` is the gap of labels);
   `OrderTree` with `BList` in one order.
