------------------------------ MODULE Relabel ------------------------------
(***************************************************************************)
(* The order-maintenance wrapper of the race detector: concurrent inserts, *)
(* the batched relabel that stops them, and the queries that run beside    *)
(* both.  Source: rdtool/src/omrd.cpp (omrd_t, join_batch, try_lock_all,   *)
(* batch_relabel), cilkrtssuspend/runtime/batcher.c (cilk_batchify and     *)
(* what it calls) and the QUERY_START/QUERY_END macros of check_mem.h.     *)
(*                                                                         *)
(* Every worker owns one spin lock, held while it inserts.  A worker whose *)
(* insert finds no free label may become the owner of a batch: it takes    *)
(* g_relabel_mutex, the runtime's batch_lock and then all worker locks,    *)
(* and the batch rewrites the labels of both orders.  Its continuation may *)
(* be stolen, so the worker that ends the batch need not be its owner.     *)
(* g_relabel_id is odd while a batch runs; queries use it as a sequence    *)
(* lock.  Each worker stands for the node it currently inserts after: the  *)
(* true order of the nodes is the order of the worker numbers.             *)
(***************************************************************************)
EXTENDS Integers

CONSTANTS P,           \* number of workers, __cilkrts_get_nworkers()
          Lists,       \* identities of the bottom lists of one order
          MaxGap,      \* inserts a node has room for right after a relabel
          HeavyGap,    \* is_heavy: room below this marks the list heavy
          MaxInserts,  \* bound: calls of insert
          MaxQueries   \* bound: queries

ASSUME PAssumption == P \in Nat \ {0}
ASSUME GapAssumption == MaxGap \in Nat /\ HeavyGap \in Nat /\ HeavyGap < MaxGap
ASSUME BoundAssumption == MaxInserts \in Nat /\ MaxQueries \in Nat
ASSUME ListAssumption == Lists # {}

Workers == 0 .. (P - 1)
Nodes   == Workers
Orders  == {"english", "hebrew"}
None    == -1

VARIABLES
  pc,                \* control point of each worker
  mut,               \* g_worker_mutexes: holder of each worker's spin lock
  relabelMutex,      \* g_relabel_mutex: its holder
  lock, lockOwner,   \* batch_lock.lock and batch_lock.owner
  inProgress,        \* g_batch_in_progress
  batchOwner,        \* g_batch_owner_id
  relabelId,         \* g_relabel_id
  pending,           \* pending_batch.id
  batchId,           \* w->l->batch_id, None while the worker runs user code
  idx,               \* loop variable of the holder of g_relabel_mutex
  failed,            \* insert_failed (thread local)
  slow,              \* the worker's insert is in slow_path
  ord,               \* the order the worker inserts in or queries
  room,              \* per order and node: inserts that still find a label
  list,              \* per order and node: the bottom list holding it
  heavy,             \* per order and list: the list's heavy flag
  queued,            \* per order and list: its entries in m_heavy_nodes
  label,             \* per order and node: the label a query compares
  left,              \* per order: nodes the running relabel has yet to write
  cont,              \* the continuation of the spawn in batch_relabel
  query,             \* per worker: the query being evaluated
  inserts, queries,  \* operations left (bounds)
  aborted            \* a CILK_ASSERT failed and ended the program

locks     == <<mut, relabelMutex, lock, lockOwner>>
batchVars == <<inProgress, batchOwner, relabelId, pending, batchId, idx, cont>>
data      == <<room, list, heavy, queued, label, left>>
local     == <<failed, slow, ord, query, inserts, queries>>
vars      == <<pc, locks, batchVars, data, local, aborted>>

NoQuery == [x |-> 0, y |-> 0, id |-> 0, lx |-> 0, ly |-> 0]

Init ==
  /\ pc = [w \in Workers |-> "idle"]
  /\ mut = [w \in Workers |-> None]
  /\ relabelMutex = None
  /\ lock = FALSE /\ lockOwner = None
  /\ inProgress = FALSE /\ batchOwner = None
  /\ relabelId = 0 /\ pending = 0
  /\ batchId = [w \in Workers |-> None]
  /\ idx = 0
  /\ failed = [w \in Workers |-> FALSE]
  /\ slow = [w \in Workers |-> FALSE]
  /\ ord = [w \in Workers |-> "english"]
  /\ room = [o \in Orders |-> [x \in Nodes |-> MaxGap]]
  /\ \E l \in Lists : list = [o \in Orders |-> [x \in Nodes |-> l]]
  /\ heavy = [o \in Orders |-> [l \in Lists |-> FALSE]]
  /\ queued = [o \in Orders |-> [l \in Lists |-> 0]]
  /\ label = [o \in Orders |-> [x \in Nodes |-> x]]
  /\ left = [o \in Orders |-> {}]
  /\ cont = "none"
  /\ query = [w \in Workers |-> NoQuery]
  /\ inserts = MaxInserts
  /\ queries = MaxQueries
  /\ aborted = FALSE

Goto(w, from, to) == pc[w] = from /\ pc' = [pc EXCEPT ![w] = to]

-----------------------------------------------------------------------------
(* omrd_t::insert: the fast path, and the retry at the end of slow_path.   *)

(* A worker calls insert on one of the two orders. *)
CallInsert(w) ==
  /\ Goto(w, "idle", "trylock")
  /\ inserts > 0
  /\ inserts' = inserts - 1
  /\ \E o \in Orders : ord' = [ord EXCEPT ![w] = o]
  /\ slow' = [slow EXCEPT ![w] = FALSE]
  /\ UNCHANGED <<locks, batchVars, data, failed, query, queries, aborted>>

(* pthread_spin_trylock on the worker's own lock; a worker that finds it   *)
(* taken joins the batch and tries again.                                  *)
TryLockOwn(w) ==
  /\ \/ /\ mut[w] = None
        /\ Goto(w, "trylock", "insert")
        /\ mut' = [mut EXCEPT ![w] = w]
     \/ /\ mut[w] # None
        /\ Goto(w, "trylock", "batchify")
        /\ UNCHANGED mut
  /\ UNCHANGED <<relabelMutex, lock, lockOwner, batchVars, data, local, aborted>>

(* Mutant: no check that a label is free. *)
TryInsertUnchecked(w) ==
  /\ Goto(w, "insert", "mark")
  /\ room' = [room EXCEPT ![ord[w]][w] = @ - 1]
  /\ UNCHANGED <<locks, batchVars, list, heavy, queued, label, left, local, aborted>>

(* try_insert: om_insert gives the new node a label between the base and   *)
(* its successor, or fails when there is none.  The new node becomes the   *)
(* worker's next base; both have half the gap.                             *)
TryInsert(w) ==
  LET o == ord[w] IN
  /\ \/ /\ room[o][w] > 0
        /\ Goto(w, "insert", "mark")
        /\ room' = [room EXCEPT ![o][w] = @ - 1]
     \/ /\ room[o][w] = 0
        /\ Goto(w, "insert", "slow")
        /\ UNCHANGED room
  /\ UNCHANGED <<locks, batchVars, list, heavy, queued, label, left, local, aborted>>

(* The end of insert: a list that is running out of labels is marked heavy *)
(* by a compare-and-swap that one worker wins.                             *)
MarkHeavy(w) ==
  LET o == ord[w]
      l == list[o][w]
  IN
  /\ \/ /\ ~heavy[o][l] /\ room[o][w] < HeavyGap
        /\ Goto(w, "mark", "push")
        /\ heavy' = [heavy EXCEPT ![o][l] = TRUE]
     \/ /\ heavy[o][l] \/ room[o][w] >= HeavyGap
        /\ Goto(w, "mark", "unlock")
        /\ UNCHANGED heavy
  /\ UNCHANGED <<locks, batchVars, room, list, queued, label, left, local, aborted>>

(* add_heavy: push the list's top-level node on m_heavy_nodes. *)
AddHeavy(w) ==
  LET o == ord[w]
      l == list[o][w]
  IN
  /\ \/ Goto(w, "push", "unlock")
     \/ Goto(w, "slowpush", "release")
  /\ queued' = [queued EXCEPT ![o][l] = @ + 1]
  /\ UNCHANGED <<locks, batchVars, room, list, heavy, label, left, local, aborted>>

(* insert returns. *)
UnlockOwn(w) ==
  /\ Goto(w, "unlock", "idle")
  /\ mut' = [mut EXCEPT ![w] = None]
  /\ UNCHANGED <<relabelMutex, lock, lockOwner, batchVars, data, local, aborted>>

(* Mutant: the list is pushed without winning the compare-and-swap. *)
SlowPathNoCAS(w) ==
  LET o == ord[w]
      l == list[o][w]
  IN
  /\ Goto(w, "slow", "slowpush")
  /\ heavy' = [heavy EXCEPT ![o][l] = TRUE]
  /\ slow' = [slow EXCEPT ![w] = TRUE]
  /\ failed' = [failed EXCEPT ![w] = TRUE]
  /\ UNCHANGED <<locks, batchVars, room, list, queued, label, left,
                 ord, query, inserts, queries, aborted>>

(* Mutant: insert_failed is not set, so that the worker never starts a batch. *)
SlowPathNoFlag(w) ==
  LET o == ord[w]
      l == list[o][w]
  IN
  /\ \/ /\ ~heavy[o][l]
        /\ Goto(w, "slow", "slowpush")
        /\ heavy' = [heavy EXCEPT ![o][l] = TRUE]
     \/ /\ heavy[o][l]
        /\ Goto(w, "slow", "release")
        /\ UNCHANGED heavy
  /\ slow' = [slow EXCEPT ![w] = TRUE]
  /\ UNCHANGED <<locks, batchVars, room, list, queued, label, left,
                 failed, ord, query, inserts, queries, aborted>>

(* slow_path, one round: note the failure and mark the list heavy. *)
SlowPath(w) ==
  LET o == ord[w]
      l == list[o][w]
  IN
  /\ \/ /\ ~heavy[o][l]
        /\ Goto(w, "slow", "slowpush")
        /\ heavy' = [heavy EXCEPT ![o][l] = TRUE]
     \/ /\ heavy[o][l]
        /\ Goto(w, "slow", "release")
        /\ UNCHANGED heavy
  /\ slow' = [slow EXCEPT ![w] = TRUE]
  /\ failed' = [failed EXCEPT ![w] = TRUE]
  /\ UNCHANGED <<locks, batchVars, room, list, queued, label, left,
                 ord, query, inserts, queries, aborted>>

(* slow_path: remember the pending batch and release the own lock. *)
SlowRelease(w) ==
  /\ Goto(w, "release", "batchify")
  /\ batchId' = [batchId EXCEPT ![w] = pending]
  /\ mut' = [mut EXCEPT ![w] = None]
  /\ UNCHANGED <<relabelMutex, lock, lockOwner, inProgress, batchOwner,
                 relabelId, pending, idx, cont, data, local, aborted>>

-----------------------------------------------------------------------------
(* join_batch: cilk_batchify, the attempt to become the owner, the batch,  *)
(* and the release.                                                        *)

(* cilk_batchify: a worker that did not note a batch takes the pending one. *)
Batchify(w) ==
  /\ Goto(w, "batchify", "checkid")
  /\ batchId' = [batchId EXCEPT ![w] = IF @ = None THEN pending ELSE @]
  /\ UNCHANGED <<locks, inProgress, batchOwner, relabelId, pending, idx, cont,
                 data, local, aborted>>

(* cilk_tool_om_try_lock_all, the two early returns. *)
TryLockAll(w) ==
  /\ \/ failed[w] /\ relabelId % 2 = 0 /\ Goto(w, "checkid", "tryrelabel")
     \/ (~failed[w] \/ relabelId % 2 = 1) /\ Goto(w, "checkid", "loop")
  /\ UNCHANGED <<locks, batchVars, data, local, aborted>>

(* The trylock of g_relabel_mutex. *)
TryRelabelMutex(w) ==
  /\ \/ /\ relabelMutex = None
        /\ Goto(w, "tryrelabel", "setowner")
        /\ relabelMutex' = w
     \/ /\ relabelMutex # None
        /\ Goto(w, "tryrelabel", "loop")
        /\ UNCHANGED relabelMutex
  /\ UNCHANGED <<mut, lock, lockOwner, batchVars, data, local, aborted>>

(* cilk_set_next_batch_owner: the trylock of batch_lock; CILK_ASSERT, live *)
(* in every build, ends the program when it fails.                         *)
SetNextBatchOwner(w) ==
  /\ \/ /\ ~lock
        /\ Goto(w, "setowner", "lockall")
        /\ lock' = TRUE /\ lockOwner' = w /\ idx' = 0
        /\ UNCHANGED aborted
     \/ /\ lock
        /\ pc[w] = "setowner"
        /\ aborted' = TRUE
        /\ UNCHANGED <<pc, lock, lockOwner, idx>>
  /\ UNCHANGED <<mut, relabelMutex, inProgress, batchOwner, relabelId, pending,
                 batchId, cont, data, local>>

(* pthread_spin_lock on every worker's lock in turn; each one may block. *)
LockWorker(w) ==
  /\ pc[w] = "lockall"
  /\ idx < P
  /\ mut[idx] = None
  /\ mut' = [mut EXCEPT ![idx] = w]
  /\ idx' = idx + 1
  /\ UNCHANGED <<pc, relabelMutex, lock, lockOwner, inProgress, batchOwner,
                 relabelId, pending, batchId, cont, data, local, aborted>>

(* Mutant: the loop over the worker locks stops one short. *)
BecomeOwnerEarly(w) ==
  /\ Goto(w, "lockall", "invoke")
  /\ idx = P - 1
  /\ inProgress' = TRUE
  /\ batchOwner' = w
  /\ UNCHANGED <<locks, relabelId, pending, batchId, idx, cont, data, local, aborted>>

(* All locks are held: the worker becomes the owner of the batch. *)
BecomeOwner(w) ==
  /\ Goto(w, "lockall", "invoke")
  /\ idx = P
  /\ inProgress' = TRUE
  /\ batchOwner' = w
  /\ UNCHANGED <<locks, relabelId, pending, batchId, idx, cont, data, local, aborted>>

(* Mutant: g_relabel_id is not incremented before the labels change. *)
InvokeBatchNoIncrement(w) ==
  /\ Goto(w, "invoke", "english")
  /\ batchId' = [batchId EXCEPT ![w] = pending]
  /\ cont' = "avail"
  /\ left' = [o \in Orders |-> IF \E l \in Lists : queued[o][l] > 0 THEN Nodes ELSE {}]
  /\ UNCHANGED <<locks, inProgress, batchOwner, relabelId, pending, idx, room, list,
                 heavy, queued, label, local, aborted>>

(* invoke_batch and the first line of batch_relabel: g_relabel_id becomes  *)
(* odd, the owner runs the spawned relabel of the English order and the    *)
(* continuation, the Hebrew one, can be stolen.                            *)
InvokeBatch(w) ==
  /\ Goto(w, "invoke", "english")
  /\ batchId' = [batchId EXCEPT ![w] = pending]
  /\ relabelId' = relabelId + 1
  /\ cont' = "avail"
  /\ left' = [o \in Orders |-> IF \E l \in Lists : queued[o][l] > 0 THEN Nodes ELSE {}]
  /\ UNCHANGED <<locks, inProgress, batchOwner, pending, idx, room, list, heavy,
                 queued, label, local, aborted>>

(* relabel: om_relabel gives every node of the order a new label, one at a *)
(* time; the new labels keep the order.                                    *)
WriteLabel(w) ==
  /\ pc[w] \in Orders
  /\ \E x \in left[pc[w]] :
       /\ label' = [label EXCEPT ![pc[w]][x] = @ + P]
       /\ left' = [left EXCEPT ![pc[w]] = @ \ {x}]
  /\ UNCHANGED <<pc, locks, batchVars, room, list, heavy, queued, local, aborted>>

(* Mutant: the new lists are spaced too tightly. *)
SplitTight(o) ==
  LET Moved == {x \in Nodes : queued[o][list[o][x]] > 0} IN
  /\ room' = [room EXCEPT ![o] = [x \in Nodes |-> IF x \in Moved THEN HeavyGap ELSE @[x]]]
  /\ heavy' = [heavy EXCEPT ![o] = [l \in Lists |-> @[l] /\ queued[o][l] = 0]]
  /\ queued' = [queued EXCEPT ![o] = [l \in Lists |-> 0]]
  /\ UNCHANGED list

(* The lists on m_heavy_nodes are split: their nodes move to new lists,    *)
(* which are not heavy, and have room again; the stack is reset.           *)
Split(o) ==
  LET Moved == {x \in Nodes : queued[o][list[o][x]] > 0}
      Free  == Lists \ {list[o][x] : x \in Nodes \ Moved}
  IN
  /\ \E f \in [Moved -> Free] :
       list' = [list EXCEPT ![o] = [x \in Nodes |-> IF x \in Moved THEN f[x] ELSE @[x]]]
  /\ room' = [room EXCEPT ![o] = [x \in Nodes |-> IF x \in Moved THEN MaxGap ELSE @[x]]]
  /\ heavy' = [heavy EXCEPT ![o] = [l \in Lists |-> @[l] /\ queued[o][l] = 0]]
  /\ queued' = [queued EXCEPT ![o] = [l \in Lists |-> 0]]

(* A strand of batch_relabel ends its relabel.  The owner goes on with the *)
(* continuation unless it was stolen; of two strands the last at the sync  *)
(* goes on (provably_good_steal), the other returns to the batch scheduler. *)
RelabelDone(w) ==
  /\ pc[w] \in Orders
  /\ left[pc[w]] = {}
  /\ Split(pc[w])
  /\ \/ /\ cont = "avail"
        /\ pc[w] = "english"
        /\ cont' = "none"
        /\ pc' = [pc EXCEPT ![w] = "hebrew"]
     \/ /\ cont \in {"none", "joined"}
        /\ cont' = "none"
        /\ pc' = [pc EXCEPT ![w] = "endrelabel"]
     \/ /\ cont = "stolen"
        /\ cont' = "joined"
        /\ pc' = [pc EXCEPT ![w] = "loop"]
  /\ UNCHANGED <<locks, inProgress, batchOwner, relabelId, pending, batchId, idx,
                 label, left, local, aborted>>

(* The last line of batch_relabel: g_relabel_id is even again. *)
EndRelabel(w) ==
  /\ Goto(w, "endrelabel", "termid")
  /\ relabelId' = relabelId + 1
  /\ UNCHANGED <<locks, inProgress, batchOwner, pending, batchId, idx, cont,
                 data, local, aborted>>

(* terminate_batch, three stores in this order. *)
TerminateId(w) ==
  /\ Goto(w, "termid", "termowner")
  /\ pending' = pending + 1
  /\ UNCHANGED <<locks, inProgress, batchOwner, relabelId, batchId, idx, cont,
                 data, local, aborted>>

TerminateOwner(w) ==
  /\ Goto(w, "termowner", "termlock")
  /\ lockOwner' = None
  /\ UNCHANGED <<mut, relabelMutex, lock, batchVars, data, local, aborted>>

TerminateLock(w) ==
  /\ Goto(w, "termlock", "loop")
  /\ lock' = FALSE
  /\ UNCHANGED <<mut, relabelMutex, lockOwner, batchVars, data, local, aborted>>

(* execute_batch: the loop condition reads the pending id, then the owner. *)
LoopId(w) ==
  /\ \/ pending <= batchId[w] /\ Goto(w, "loop", "loopowner")
     \/ pending > batchId[w] /\ Goto(w, "loop", "leave")
  /\ UNCHANGED <<locks, batchVars, data, local, aborted>>

LoopOwner(w) ==
  /\ \/ lockOwner # None /\ Goto(w, "loopowner", "steal")
     \/ lockOwner = None /\ Goto(w, "loopowner", "leave")
  /\ UNCHANGED <<locks, batchVars, data, local, aborted>>

(* execute_batch: the loop body steals the continuation or finds nothing. *)
StealBatch(w) ==
  /\ \/ /\ cont = "avail"
        /\ Goto(w, "steal", "hebrew")
        /\ cont' = "stolen"
     \/ /\ Goto(w, "steal", "loop")
        /\ UNCHANGED cont
  /\ UNCHANGED <<locks, inProgress, batchOwner, relabelId, pending, batchId, idx,
                 data, local, aborted>>

(* Mutant: every worker that leaves a batch releases the locks. *)
LeaveBatchAnyWorker(w) ==
  /\ Goto(w, "leave", "unlockall")
  /\ inProgress' = FALSE
  /\ batchOwner' = None
  /\ idx' = 0
  /\ batchId' = [batchId EXCEPT ![w] = None]
  /\ failed' = [failed EXCEPT ![w] = FALSE]
  /\ UNCHANGED <<locks, relabelId, pending, cont, data, slow, ord, query,
                 inserts, queries, aborted>>

(* switch_to_core_deque and the end of join_batch: the owner releases all  *)
(* it took, another worker goes on; slow_path then clears insert_failed.   *)
LeaveBatch(w) ==
  /\ \/ /\ batchOwner = w
        /\ Goto(w, "leave", "unlockall")
        /\ inProgress' = FALSE
        /\ batchOwner' = None
        /\ idx' = 0
     \/ /\ batchOwner # w
        /\ Goto(w, "leave", "trylock")
        /\ UNCHANGED <<inProgress, batchOwner, idx>>
  /\ batchId' = [batchId EXCEPT ![w] = None]
  /\ failed' = [failed EXCEPT ![w] = FALSE]
  /\ UNCHANGED <<locks, relabelId, pending, cont, data, slow, ord, query,
                 inserts, queries, aborted>>

UnlockWorker(w) ==
  /\ pc[w] = "unlockall"
  /\ idx < P
  /\ mut' = [mut EXCEPT ![idx] = None]
  /\ idx' = idx + 1
  /\ UNCHANGED <<pc, relabelMutex, lock, lockOwner, inProgress, batchOwner,
                 relabelId, pending, batchId, cont, data, local, aborted>>

UnlockRelabel(w) ==
  /\ Goto(w, "unlockall", "trylock")
  /\ idx = P
  /\ relabelMutex' = None
  /\ UNCHANGED <<mut, lock, lockOwner, batchVars, data, local, aborted>>

-----------------------------------------------------------------------------
(* A query between QUERY_START and QUERY_END compares two nodes. *)

QueryStart(w) ==
  /\ \/ /\ Goto(w, "idle", "queryx")
        /\ queries > 0
        /\ queries' = queries - 1
        /\ \E o \in Orders, x, y \in Nodes :
             /\ ord' = [ord EXCEPT ![w] = o]
             /\ query' = [query EXCEPT ![w] = [NoQuery EXCEPT !.x = x, !.y = y, !.id = relabelId]]
     \/ /\ Goto(w, "queryagain", "queryx")
        /\ query' = [query EXCEPT ![w].id = relabelId]
        /\ UNCHANGED <<queries, ord>>
  /\ UNCHANGED <<locks, batchVars, data, failed, slow, inserts, aborted>>

QueryX(w) ==
  /\ Goto(w, "queryx", "queryy")
  /\ query' = [query EXCEPT ![w].lx = label[ord[w]][query[w].x]]
  /\ UNCHANGED <<locks, batchVars, data, failed, slow, ord, inserts, queries, aborted>>

QueryY(w) ==
  /\ Goto(w, "queryy", "querycheck")
  /\ query' = [query EXCEPT ![w].ly = label[ord[w]][query[w].y]]
  /\ UNCHANGED <<locks, batchVars, data, failed, slow, ord, inserts, queries, aborted>>

(* Mutant: the parity of g_relabel_id is not checked. *)
QueryEndNoParity(w) ==
  /\ \/ /\ query[w].id = relabelId
        /\ Goto(w, "querycheck", "answered")
     \/ /\ query[w].id # relabelId
        /\ Goto(w, "querycheck", "queryagain")
  /\ UNCHANGED <<locks, batchVars, data, local, aborted>>

QueryEnd(w) ==
  /\ \/ /\ query[w].id % 2 = 0 /\ query[w].id = relabelId
        /\ Goto(w, "querycheck", "answered")
     \/ /\ query[w].id % 2 = 1 \/ query[w].id # relabelId
        /\ Goto(w, "querycheck", "queryagain")
  /\ UNCHANGED <<locks, batchVars, data, local, aborted>>

QueryReturn(w) ==
  /\ Goto(w, "answered", "idle")
  /\ query' = [query EXCEPT ![w] = NoQuery]
  /\ UNCHANGED <<locks, batchVars, data, failed, slow, ord, inserts, queries, aborted>>

-----------------------------------------------------------------------------
Insert(w) == \/ CallInsert(w) \/ TryLockOwn(w) \/ TryInsert(w) \/ MarkHeavy(w)
             \/ AddHeavy(w) \/ UnlockOwn(w) \/ SlowPath(w) \/ SlowRelease(w)

Start(w) == \/ Batchify(w) \/ TryLockAll(w) \/ TryRelabelMutex(w)
            \/ SetNextBatchOwner(w) \/ LockWorker(w) \/ BecomeOwner(w)

Batch(w) == \/ InvokeBatch(w) \/ WriteLabel(w) \/ RelabelDone(w) \/ EndRelabel(w)
            \/ TerminateId(w) \/ TerminateOwner(w) \/ TerminateLock(w)

Join(w) == \/ LoopId(w) \/ LoopOwner(w) \/ StealBatch(w) \/ LeaveBatch(w)
           \/ UnlockWorker(w) \/ UnlockRelabel(w)

Query(w) == \/ QueryStart(w) \/ QueryX(w) \/ QueryY(w) \/ QueryEnd(w) \/ QueryReturn(w)

Step(w) == ~aborted /\ (Insert(w) \/ Start(w) \/ Batch(w) \/ Join(w) \/ Query(w))

AllDone == inserts = 0 /\ queries = 0 /\ \A w \in Workers : pc[w] = "idle"

(* The program has run to its end or was ended by a failed CILK_ASSERT. *)
Stopped == (aborted \/ AllDone) /\ UNCHANGED vars

Next == (\E w \in Workers : Step(w)) \/ Stopped

Spec == Init /\ [][Next]_vars

(* Every worker is a running thread; nothing is assumed of the order in    *)
(* which threads run.                                                      *)
FairSpec == Spec /\ \A w \in Workers : WF_vars(Step(w))
-----------------------------------------------------------------------------
(* Properties *)

Points == {"idle", "trylock", "insert", "mark", "push", "unlock", "slow",
           "slowpush", "release", "batchify", "checkid", "tryrelabel",
           "setowner", "lockall", "invoke", "english", "hebrew", "endrelabel",
           "termid", "termowner", "termlock", "loop", "loopowner", "steal",
           "leave", "unlockall", "queryx", "queryy", "querycheck",
           "queryagain", "answered"}

Queries == [x : Nodes, y : Nodes, id : Nat, lx : Nat, ly : Nat]

(* The values the variables of omrd.cpp and batcher.c can hold, by group:  *)
(* control, locks, batch, order structures, thread-local state.            *)
ControlOK == pc \in [Workers -> Points] /\ aborted \in BOOLEAN

LocksOK ==
  /\ mut \in [Workers -> Workers \cup {None}]
  /\ relabelMutex \in Workers \cup {None}
  /\ lock \in BOOLEAN
  /\ lockOwner \in Workers \cup {None}

BatchOK ==
  /\ inProgress \in BOOLEAN
  /\ batchOwner \in Workers \cup {None}
  /\ relabelId \in Nat
  /\ pending \in Nat
  /\ batchId \in [Workers -> Nat \cup {None}]
  /\ idx \in 0 .. P
  /\ cont \in {"none", "avail", "stolen", "joined"}

DataOK ==
  /\ room \in [Orders -> [Nodes -> 0 .. MaxGap]]
  /\ list \in [Orders -> [Nodes -> Lists]]
  /\ heavy \in [Orders -> [Lists -> BOOLEAN]]
  /\ queued \in [Orders -> [Lists -> Nat]]
  /\ label \in [Orders -> [Nodes -> Nat]]
  /\ left \in [Orders -> SUBSET Nodes]

LocalOK ==
  /\ failed \in [Workers -> BOOLEAN]
  /\ slow \in [Workers -> BOOLEAN]
  /\ ord \in [Workers -> Orders]
  /\ query \in [Workers -> Queries]
  /\ inserts \in Nat
  /\ queries \in Nat

(* Every variable holds a value the program can give it: an insert is only *)
(* ever made with room for a label, and no index runs past the workers.    *)
TypeOK == ControlOK /\ LocksOK /\ BatchOK /\ DataOK /\ LocalOK

(* Control points at which a worker relies on its own spin lock: it reads  *)
(* or changes the list structure there.                                    *)
Inserting == {"insert", "mark", "push", "unlock", "slow", "slowpush", "release"}

(* No worker is inside an insert while a batch is in progress: the asserts *)
(* of try_insert and add_heavy (omrd.cpp:134, 141) never fail.             *)
InsertsExcludeBatch ==
  \A w \in Workers : pc[w] \in Inserting => ~inProgress

(* Every unlock is made by the holder: a worker ends its insert holding    *)
(* its own lock, and the owner of a batch holds what join_batch releases.  *)
UnlockedByHolder ==
  \A w \in Workers :
    /\ pc[w] \in Inserting => mut[w] = w
    /\ pc[w] = "unlockall" =>
         /\ relabelMutex = w
         /\ idx < P => mut[idx] = w

(* A list is on m_heavy_nodes exactly once from the moment the worker that *)
(* won the compare-and-swap on its flag has pushed it: om_relabel, which   *)
(* frees the lists it splits, gets no list twice and misses none.          *)
HeavyQueuedOnce ==
  \A o \in Orders, l \in Lists :
    LET Pushing == {w \in Workers : /\ pc[w] \in {"push", "slowpush"}
                                    /\ ord[w] = o /\ list[o][w] = l}
    IN IF heavy[o][l]
       THEN IF Pushing = {} THEN queued[o][l] = 1
            ELSE queued[o][l] = 0 /\ \A v, w \in Pushing : v = w
       ELSE queued[o][l] = 0 /\ Pushing = {}

(* An insert that went through slow_path leaves its list roomy: the assert *)
(* after slow_path (omrd.cpp:221) never fails.                             *)
SlowPathGetsRoom ==
  \A w \in Workers : pc[w] = "mark" /\ slow[w] => room[ord[w]][w] >= HeavyGap

(* A query that passes the check of QUERY_END answers with the true order, *)
(* however it overlapped with relabels.                                    *)
QueryCorrect ==
  \A w \in Workers :
    pc[w] = "answered" => ((query[w].lx < query[w].ly) <=> (query[w].x < query[w].y))

(* Labels change only while g_relabel_id is odd and the owner of the batch *)
(* holds the locks of all workers.                                         *)
LabelsChangeInBatch ==
  [][label' # label => /\ relabelId % 2 = 1
                       /\ batchOwner # None
                       /\ \A w \in Workers : mut[w] = batchOwner]_vars

(* Every insert and every query returns, unless CILK_ASSERT ends the       *)
(* program: no deadlock, no lost wake-up, no endless retry.                *)
AllReturn == <>(AllDone \/ aborted)

(* cilk_set_next_batch_owner (batcher.c:459): the trylock of batch_lock    *)
(* "should never fail".                                                    *)
BatchLockIsFree == ~aborted
=============================================================================
