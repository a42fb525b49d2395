------------------------ MODULE RelabelBatchProofs ------------------------
(***************************************************************************)
(* Proofs about Relabel, concluded: batches do not overlap in what they    *)
(* write, labels change only inside a batch, a heavy list is queued once,  *)
(* a worker finds room after the slow path, and a query that QUERY_END     *)
(* accepts answers with the true order, however relabels overlapped with   *)
(* it.                                                                     *)
(***************************************************************************)
EXTENDS RelabelProofs

-----------------------------------------------------------------------------
(* One batch at a time.  *)

(* The control points between taking and releasing batch_lock. *)
BatchPoints == {"lockall", "invoke", "english", "hebrew", "endrelabel", "termid",
                "termowner", "termlock"}

(* A strand of batch_relabel runs, and g_relabel_id is odd. *)
Relabelling == {"english", "hebrew", "endrelabel"}

(* A strand of the batch runs and has not yet advanced pending_batch.id. *)
Running == Relabelling \cup {"termid"}

(* Where the owner can be while a strand of its batch runs. *)
OwnerWaits == Running \cup {"loop", "loopowner", "steal"}

(* batch_lock is taken while a worker is between its two ends, and two     *)
(* workers are there only as the two strands of one batch_relabel.         *)
AloneInv ==
  /\ \A w \in Workers : pc[w] \in BatchPoints => lock
  /\ \A v, w \in Workers :
       pc[v] \in BatchPoints /\ pc[w] \in BatchPoints /\ v # w =>
         cont = "stolen" /\ pc[v] \in Orders /\ pc[w] \in Orders /\ pc[v] # pc[w]

(* What the continuation of the spawn says about the strands. *)
ContInv ==
  /\ cont = "avail" => \E w \in Workers : pc[w] = "english"
  /\ cont = "stolen" => /\ \E w \in Workers : pc[w] = "english"
                        /\ \E w \in Workers : pc[w] = "hebrew"
  /\ cont = "joined" => \E w \in Workers : pc[w] \in Orders
  /\ cont = "none" => \A w \in Workers : pc[w] # "english"

(* While a strand runs the batch has an owner, and the owner cannot leave  *)
(* execute_batch: both halves of its loop condition hold.                  *)
OwnerInv ==
  /\ \A w \in Workers : pc[w] \in {"lockall", "invoke"} => lockOwner = w
  /\ \A w \in Workers : pc[w] = "invoke" => batchOwner = w
  /\ (\E w \in Workers : pc[w] \in Running) =>
       /\ batchOwner # None
       /\ lockOwner = batchOwner
       /\ batchId[batchOwner] = pending
       /\ pc[batchOwner] \in OwnerWaits

(* g_relabel_id is odd exactly while a relabel runs. *)
ParityInv == relabelId % 2 = 1 <=> \E w \in Workers : pc[w] \in Relabelling

BatchInv == AloneInv /\ ContInv /\ OwnerInv /\ ParityInv

-----------------------------------------------------------------------------
(* Every conjunct of BatchInv, one action at a time. *)

(* A step of a worker that is outside the batch before and after, and, if  *)
(* it owns a running batch, stays in the loop of execute_batch.            *)
LEMMA BatchFrame ==
  ASSUME TypeOK, LockInv, BatchInv, NEW w \in Workers, NEW to,
         pc' = [pc EXCEPT ![w] = to],
         pc[w] \notin BatchPoints, to \notin BatchPoints,
         UNCHANGED <<lock, lockOwner, batchOwner, cont, relabelId, pending>>,
         \A v \in Workers : v # w => batchId'[v] = batchId[v],
         batchOwner = w /\ (\E u \in Workers : pc[u] \in Running) =>
           to \in {"loop", "loopowner", "steal"} /\ batchId'[w] = batchId[w]
  PROVE  BatchInv'
PROOF
<1> USE DEF TypeOK, ControlOK
<1>1. AloneInv'
  BY DEF BatchInv, AloneInv
<1>2. ContInv'
  BY DEF BatchInv, ContInv, Orders, BatchPoints
<1>3. OwnerInv'
  <2>1. (\E u \in Workers : pc'[u] \in Running) => \E u \in Workers : pc[u] \in Running
    BY DEF Running, Relabelling, BatchPoints
  <2>2. \A u \in Workers : pc'[u] \in {"lockall", "invoke"} => pc'[u] = pc[u]
    BY DEF BatchPoints
  <2> QED
    BY <2>1, <2>2 DEF BatchInv, OwnerInv, OwnerWaits, BatchOK
<1>4. ParityInv'
  BY DEF BatchInv, ParityInv, Relabelling, BatchPoints
<1> QED
  BY <1>1, <1>2, <1>3, <1>4 DEF BatchInv

(* The steps of insert and of a query take place outside the batch. *)
LEMMA BatchInsertQuery ==
  ASSUME TypeOK, LockInv, BatchInv, NEW w \in Workers, Insert(w) \/ Query(w)
  PROVE  BatchInv'
PROOF
<1> DEFINE Outside == {"idle", "trylock", "insert", "mark", "push", "unlock", "slow",
                       "slowpush", "release", "batchify", "queryx", "queryy",
                       "querycheck", "queryagain", "answered"}
<1>1. \A v \in Workers : v # w => batchId'[v] = batchId[v]
  BY DEF Insert, Query, CallInsert, TryLockOwn, TryInsert, MarkHeavy, AddHeavy, UnlockOwn,
         SlowPath, SlowRelease, QueryStart, QueryX, QueryY, QueryEnd, QueryReturn,
         batchVars, TypeOK, BatchOK
<1>2. UNCHANGED <<lock, lockOwner, batchOwner, cont, relabelId, pending>>
  BY DEF Insert, Query, CallInsert, TryLockOwn, TryInsert, MarkHeavy, AddHeavy, UnlockOwn,
         SlowPath, SlowRelease, QueryStart, QueryX, QueryY, QueryEnd, QueryReturn,
         batchVars, locks
<1>3. pc[w] \in Outside /\ \E to \in Outside : pc' = [pc EXCEPT ![w] = to]
  BY DEF Insert, Query, CallInsert, TryLockOwn, TryInsert, MarkHeavy, AddHeavy, UnlockOwn,
         SlowPath, SlowRelease, QueryStart, QueryX, QueryY, QueryEnd, QueryReturn, Goto
<1>4. PICK to \in Outside : pc' = [pc EXCEPT ![w] = to]
  BY <1>3
<1>5. batchOwner # w
  BY <1>3 DEF LockInv, OwnerPoints
<1>6. pc[w] \notin BatchPoints /\ to \notin BatchPoints
  BY <1>3 DEF BatchPoints
<1> QED
  BY <1>1, <1>2, <1>4, <1>5, <1>6, BatchFrame

(* The steps from cilk_batchify to the ownership of a batch keep BatchInv. *)
LEMMA BatchStart ==
  ASSUME TypeOK, LockInv, BatchInv, NEW w \in Workers, Start(w)
  PROVE  BatchInv'
PROOF
<1>1. CASE Batchify(w) \/ TryLockAll(w) \/ (TryRelabelMutex(w))
  <2>1. \A v \in Workers : v # w => batchId'[v] = batchId[v]
    BY <1>1 DEF Batchify, TryLockAll, TryRelabelMutex, batchVars, TypeOK, BatchOK
  <2>2. UNCHANGED <<lock, lockOwner, batchOwner, cont, relabelId, pending>>
    BY <1>1 DEF Batchify, TryLockAll, TryRelabelMutex, batchVars, locks
  <2>3. PICK to \in {"checkid", "tryrelabel", "loop", "setowner"} : pc' = [pc EXCEPT ![w] = to]
    BY <1>1 DEF Batchify, TryLockAll, TryRelabelMutex, Goto
  <2>4. pc[w] \in {"batchify", "checkid", "tryrelabel"}
    BY <1>1 DEF Batchify, TryLockAll, TryRelabelMutex, Goto
  <2>5. batchOwner # w
    BY <2>4 DEF LockInv, OwnerPoints
  <2>6. pc[w] \notin BatchPoints /\ to \notin BatchPoints
    BY <2>4 DEF BatchPoints
  <2> QED
    BY <2>1, <2>2, <2>3, <2>5, <2>6, BatchFrame
<1>2. CASE SetNextBatchOwner(w)
  <2>1. CASE lock
    BY <1>2, <2>1 DEF SetNextBatchOwner, BatchInv, AloneInv, ContInv, OwnerInv, ParityInv
  <2>2. CASE ~lock
    <3>1. /\ pc' = [pc EXCEPT ![w] = "lockall"] /\ lock' /\ lockOwner' = w
          /\ UNCHANGED <<batchOwner, cont, relabelId, pending, batchId>>
      BY <1>2, <2>2 DEF SetNextBatchOwner, Goto
    <3>2. \A v \in Workers : pc[v] \notin BatchPoints
      BY <2>2 DEF BatchInv, AloneInv
    <3>3. \A v \in Workers : v # w => pc'[v] = pc[v]
      BY <3>1 DEF TypeOK, ControlOK
    <3>4. pc'[w] = "lockall"
      BY <3>1 DEF TypeOK, ControlOK
    <3>5. AloneInv'
      BY <3>1, <3>2, <3>3 DEF AloneInv
    <3>6. ContInv'
      BY <3>1, <3>2, <3>3, <3>4 DEF BatchInv, ContInv, BatchPoints, Orders
    <3>7. OwnerInv'
      BY <3>1, <3>2, <3>3, <3>4 DEF OwnerInv, BatchPoints, Running, Relabelling
    <3>8. ParityInv'
      BY <3>1, <3>2, <3>3, <3>4 DEF BatchInv, ParityInv, BatchPoints, Relabelling
    <3> QED
      BY <3>5, <3>6, <3>7, <3>8 DEF BatchInv
  <2> QED
    BY <2>1, <2>2
<1>3. CASE LockWorker(w)
  BY <1>3 DEF LockWorker, BatchInv, AloneInv, ContInv, OwnerInv, ParityInv
<1>4. CASE BecomeOwner(w)
  <2>1. /\ pc' = [pc EXCEPT ![w] = "invoke"] /\ pc[w] = "lockall" /\ batchOwner' = w
        /\ UNCHANGED <<lock, lockOwner, cont, relabelId, pending, batchId>>
    BY <1>4 DEF BecomeOwner, Goto, locks
  <2>2. \A v \in Workers : v # w => pc'[v] = pc[v]
    BY <2>1 DEF TypeOK, ControlOK
  <2>3. pc'[w] = "invoke"
    BY <2>1 DEF TypeOK, ControlOK
  <2>4. \A v \in Workers : v # w => pc[v] \notin BatchPoints
    BY <2>1 DEF BatchInv, AloneInv, BatchPoints, Orders
  <2>5. AloneInv'
    BY <2>1, <2>2, <2>4 DEF BatchInv, AloneInv, BatchPoints
  <2>6. ContInv'
    BY <2>1, <2>2, <2>3 DEF BatchInv, ContInv, Orders
  <2>7. OwnerInv'
    BY <2>1, <2>2, <2>3, <2>4 DEF BatchInv, OwnerInv, BatchPoints, Running, Relabelling
  <2>8. ParityInv'
    BY <2>1, <2>2, <2>3 DEF BatchInv, ParityInv, Relabelling
  <2> QED
    BY <2>5, <2>6, <2>7, <2>8 DEF BatchInv
<1> QED
  BY <1>1, <1>2, <1>3, <1>4 DEF Start

(* A worker in the batch that is not one of two strands is alone there. *)
LEMMA Alone ==
  ASSUME BatchInv, NEW w \in Workers, pc[w] \in BatchPoints,
         cont # "stolen" \/ pc[w] \notin Orders
  PROVE  \A v \in Workers : v # w => pc[v] \notin BatchPoints
PROOF
  BY DEF BatchInv, AloneInv

(* The steps of the batch keep BatchInv. *)
LEMMA BatchBatch ==
  ASSUME TypeOK, LockInv, BatchInv, NEW w \in Workers, Batch(w)
  PROVE  BatchInv'
PROOF
<1> USE DEF Orders, BatchPoints, Running, Relabelling
<1>0. relabelId \in Nat
  BY DEF TypeOK, BatchOK
<1>1. CASE InvokeBatch(w)
  <2>1. /\ pc' = [pc EXCEPT ![w] = "english"] /\ pc[w] = "invoke"
        /\ batchId' = [batchId EXCEPT ![w] = pending]
        /\ relabelId' = relabelId + 1 /\ cont' = "avail"
        /\ UNCHANGED <<lock, lockOwner, batchOwner, pending>>
    BY <1>1 DEF InvokeBatch, Goto, locks
  <2>2. pc'[w] = "english" /\ \A v \in Workers : v # w => pc'[v] = pc[v]
    BY <2>1 DEF TypeOK, ControlOK
  <2>3. \A v \in Workers : v # w => pc[v] \notin BatchPoints
    BY <2>1, Alone
  <2>4. AloneInv'
    BY <2>1, <2>2, <2>3 DEF BatchInv, AloneInv
  <2>5. ContInv'
    BY <2>1, <2>2 DEF ContInv
  <2>6. OwnerInv'
    <3>1. batchOwner = w /\ lockOwner = w /\ batchId'[w] = pending /\ w # None
      BY <2>1 DEF BatchInv, OwnerInv, TypeOK, BatchOK, None, Workers
    <3> QED
      BY <2>1, <2>2, <2>3, <3>1 DEF OwnerInv, OwnerWaits
  <2>7. ParityInv'
    <3>1. relabelId % 2 # 1
      BY <2>1, <2>3 DEF BatchInv, ParityInv
    <3>2. relabelId' % 2 = 1
      BY <1>0, <2>1, <3>1
    <3> QED
      BY <2>2, <3>2 DEF ParityInv
  <2> QED
    BY <2>4, <2>5, <2>6, <2>7 DEF BatchInv
<1>2. CASE WriteLabel(w)
  BY <1>2 DEF WriteLabel, locks, batchVars, BatchInv, AloneInv, ContInv, OwnerInv, ParityInv
<1>3. CASE RelabelDone(w)
  <2>1. /\ pc[w] \in Orders
        /\ UNCHANGED <<lock, lockOwner, batchOwner, relabelId, pending, batchId>>
    BY <1>3 DEF RelabelDone, locks
  <2>2. /\ batchOwner \in Workers /\ lockOwner = batchOwner
        /\ batchId[batchOwner] = pending /\ pc[batchOwner] \in OwnerWaits
    BY <2>1 DEF BatchInv, OwnerInv, TypeOK, BatchOK
  <2>3. relabelId % 2 = 1
    BY <2>1 DEF BatchInv, ParityInv
  <2>4. CASE cont # "stolen"
    <3>1. PICK to \in {"hebrew", "endrelabel"} : pc' = [pc EXCEPT ![w] = to]
      BY <1>3, <2>4 DEF RelabelDone
    <3>2. cont' = "none"
      BY <1>3, <2>4 DEF RelabelDone
    <3>3. pc'[w] = to /\ \A v \in Workers : v # w => pc'[v] = pc[v]
      BY <3>1 DEF TypeOK, ControlOK
    <3>4. \A v \in Workers : v # w => pc[v] \notin BatchPoints
      BY <2>1, <2>4, Alone
    <3>5. AloneInv'
      BY <2>1, <3>3, <3>4 DEF BatchInv, AloneInv
    <3>6. ContInv'
      BY <3>2, <3>3, <3>4 DEF ContInv
    <3>7. OwnerInv'
      BY <2>1, <2>2, <3>3, <3>4 DEF BatchInv, OwnerInv, OwnerWaits
    <3>8. ParityInv'
      BY <2>1, <2>3, <3>3 DEF ParityInv
    <3> QED
      BY <3>5, <3>6, <3>7, <3>8 DEF BatchInv
  <2>5. CASE cont = "stolen"
    <3>1. pc' = [pc EXCEPT ![w] = "loop"] /\ cont' = "joined"
      BY <1>3, <2>5 DEF RelabelDone
    <3>2. pc'[w] = "loop" /\ \A v \in Workers : v # w => pc'[v] = pc[v]
      BY <3>1 DEF TypeOK, ControlOK
    <3>3. PICK u \in Workers : u # w /\ pc[u] \in Orders
      BY <2>1, <2>5 DEF BatchInv, ContInv
    <3>4. \A v \in Workers : v # w /\ v # u => pc[v] \notin BatchPoints
      BY <2>1, <3>3 DEF BatchInv, AloneInv
    <3>5. AloneInv'
      BY <2>1, <3>2, <3>3, <3>4 DEF BatchInv, AloneInv
    <3>6. ContInv'
      BY <3>1, <3>2, <3>3 DEF ContInv
    <3>7. OwnerInv'
      BY <2>1, <2>2, <3>2, <3>3, <3>4 DEF BatchInv, OwnerInv, OwnerWaits
    <3>8. ParityInv'
      BY <2>1, <2>3, <3>2, <3>3 DEF ParityInv
    <3> QED
      BY <3>5, <3>6, <3>7, <3>8 DEF BatchInv
  <2> QED
    BY <2>4, <2>5
<1>4. CASE EndRelabel(w)
  <2>1. /\ pc' = [pc EXCEPT ![w] = "termid"] /\ pc[w] = "endrelabel"
        /\ relabelId' = relabelId + 1
        /\ UNCHANGED <<lock, lockOwner, batchOwner, cont, pending, batchId>>
    BY <1>4 DEF EndRelabel, Goto, locks
  <2>2. pc'[w] = "termid" /\ \A v \in Workers : v # w => pc'[v] = pc[v]
    BY <2>1 DEF TypeOK, ControlOK
  <2>3. \A v \in Workers : v # w => pc[v] \notin BatchPoints
    BY <2>1, Alone
  <2>4. AloneInv'
    BY <2>1, <2>2, <2>3 DEF BatchInv, AloneInv
  <2>5. ContInv'
    BY <2>1, <2>2 DEF BatchInv, ContInv
  <2>6. OwnerInv'
    BY <2>1, <2>2, <2>3 DEF BatchInv, OwnerInv, OwnerWaits, TypeOK, BatchOK
  <2>7. ParityInv'
    <3>1. relabelId % 2 = 1
      BY <2>1 DEF BatchInv, ParityInv
    <3>2. relabelId' % 2 # 1
      BY <1>0, <2>1, <3>1
    <3> QED
      BY <2>2, <2>3, <3>2 DEF ParityInv
  <2> QED
    BY <2>4, <2>5, <2>6, <2>7 DEF BatchInv
<1>5. CASE TerminateId(w) \/ TerminateOwner(w) \/ TerminateLock(w)
  <2>1. /\ pc[w] \in {"termid", "termowner", "termlock"}
        /\ UNCHANGED <<batchOwner, cont, relabelId, batchId>>
    BY <1>5 DEF TerminateId, TerminateOwner, TerminateLock, Goto, batchVars
  <2>2. PICK to \in {"termowner", "termlock", "loop"} :
          /\ pc' = [pc EXCEPT ![w] = to]
          /\ to # "loop" => UNCHANGED lock
    BY <1>5 DEF TerminateId, TerminateOwner, TerminateLock, Goto, locks
  <2>3. pc'[w] = to /\ \A v \in Workers : v # w => pc'[v] = pc[v]
    BY <2>2 DEF TypeOK, ControlOK
  <2>4. \A v \in Workers : v # w => pc[v] \notin BatchPoints
    BY <2>1, Alone
  <2>5. AloneInv'
    BY <2>1, <2>2, <2>3, <2>4 DEF BatchInv, AloneInv
  <2>6. ContInv'
    BY <2>1, <2>3, <2>4 DEF BatchInv, ContInv
  <2>7. OwnerInv'
    BY <2>3, <2>4 DEF OwnerInv
  <2>8. ParityInv'
    BY <2>1, <2>3, <2>4 DEF BatchInv, ParityInv
  <2> QED
    BY <2>5, <2>6, <2>7, <2>8 DEF BatchInv
<1> QED
  BY <1>1, <1>2, <1>3, <1>4, <1>5 DEF Batch

(* The steps of execute_batch and the release of the locks keep BatchInv. *)
LEMMA BatchJoin ==
  ASSUME TypeOK, LockInv, BatchInv, NEW w \in Workers, Join(w)
  PROVE  BatchInv'
PROOF
<1>0. batchOwner = w /\ (\E u \in Workers : pc[u] \in Running) =>
        lockOwner = w /\ w # None /\ batchId[w] = pending /\ pc[w] \in OwnerWaits
  BY DEF BatchInv, OwnerInv
<1>1. CASE LoopId(w)
  <2>1. /\ UNCHANGED <<lock, lockOwner, batchOwner, cont, relabelId, pending, batchId>>
        /\ pc[w] = "loop"
    BY <1>1 DEF LoopId, Goto, locks, batchVars
  <2>2. PICK to \in {"loopowner", "leave"} :
          pc' = [pc EXCEPT ![w] = to] /\ (to = "leave" => pending > batchId[w])
    BY <1>1 DEF LoopId, Goto
  <2>3. ~(pending > pending)
    BY DEF TypeOK, BatchOK
  <2>4. pc[w] \notin BatchPoints /\ to \notin BatchPoints
    BY <2>1 DEF BatchPoints
  <2> QED
    BY <1>0, <2>1, <2>2, <2>3, <2>4, BatchFrame
<1>2. CASE LoopOwner(w)
  <2>1. /\ UNCHANGED <<lock, lockOwner, batchOwner, cont, relabelId, pending, batchId>>
        /\ pc[w] = "loopowner"
    BY <1>2 DEF LoopOwner, Goto, locks, batchVars
  <2>2. PICK to \in {"steal", "leave"} :
          pc' = [pc EXCEPT ![w] = to] /\ (to = "leave" => lockOwner = None)
    BY <1>2 DEF LoopOwner, Goto
  <2>3. pc[w] \notin BatchPoints /\ to \notin BatchPoints
    BY <2>1 DEF BatchPoints
  <2> QED
    BY <1>0, <2>1, <2>2, <2>3, BatchFrame
<1>3. CASE StealBatch(w)
  <2>1. /\ UNCHANGED <<lock, lockOwner, batchOwner, relabelId, pending, batchId>>
        /\ pc[w] = "steal"
    BY <1>3 DEF StealBatch, Goto, locks
  <2>2. CASE pc' = [pc EXCEPT ![w] = "loop"] /\ UNCHANGED cont
    <3>1. pc[w] \notin BatchPoints /\ "loop" \notin BatchPoints
      BY <2>1 DEF BatchPoints
    <3> QED
      BY <2>1, <2>2, <3>1, BatchFrame
  <2>3. CASE cont = "avail" /\ pc' = [pc EXCEPT ![w] = "hebrew"] /\ cont' = "stolen"
    <3> USE DEF Orders, BatchPoints, Running, Relabelling
    <3>1. pc'[w] = "hebrew" /\ \A v \in Workers : v # w => pc'[v] = pc[v]
      BY <2>3 DEF TypeOK, ControlOK
    <3>2. PICK e \in Workers : pc[e] = "english"
      BY <2>3 DEF BatchInv, ContInv
    <3>3. e # w /\ \A v \in Workers : v # e => pc[v] \notin BatchPoints
      BY <2>1, <2>3, <3>2, Alone
    <3>4. AloneInv'
      BY <2>1, <2>3, <3>1, <3>2, <3>3 DEF BatchInv, AloneInv
    <3>5. ContInv'
      BY <2>3, <3>1, <3>2, <3>3 DEF ContInv
    <3>6. OwnerInv'
      <4>1. /\ batchOwner \in Workers /\ batchOwner # None /\ lockOwner = batchOwner
            /\ batchId[batchOwner] = pending /\ pc[batchOwner] \in OwnerWaits
        BY <3>2 DEF BatchInv, OwnerInv, TypeOK, BatchOK
      <4>2. pc'[batchOwner] \in OwnerWaits
        BY <3>1, <4>1 DEF OwnerWaits
      <4>3. \A v \in Workers : pc'[v] \notin {"lockall", "invoke"}
        BY <3>1, <3>2, <3>3
      <4> QED
        BY <2>1, <4>1, <4>2, <4>3 DEF BatchInv, OwnerInv
    <3>7. ParityInv'
      BY <2>1, <3>1, <3>2 DEF BatchInv, ParityInv
    <3> QED
      BY <3>4, <3>5, <3>6, <3>7 DEF BatchInv
  <2> QED
    BY <1>3, <2>2, <2>3 DEF StealBatch, Goto
<1>4. CASE LeaveBatch(w)
  <2>1. /\ UNCHANGED <<lock, lockOwner, cont, relabelId, pending>>
        /\ pc[w] = "leave"
        /\ \A v \in Workers : v # w => batchId'[v] = batchId[v]
    BY <1>4 DEF LeaveBatch, Goto, locks, TypeOK, BatchOK
  <2>2. CASE batchOwner # w
    <3>1. pc' = [pc EXCEPT ![w] = "trylock"] /\ UNCHANGED batchOwner
      BY <1>4, <2>2 DEF LeaveBatch, Goto
    <3>2. pc[w] \notin BatchPoints /\ "trylock" \notin BatchPoints
      BY <2>1 DEF BatchPoints
    <3> QED
      BY <2>1, <2>2, <3>1, <3>2, BatchFrame
  <2>3. CASE batchOwner = w
    <3>1. pc' = [pc EXCEPT ![w] = "unlockall"]
      BY <1>4, <2>3 DEF LeaveBatch, Goto
    <3>2. pc'[w] = "unlockall" /\ \A v \in Workers : v # w => pc'[v] = pc[v]
      BY <3>1 DEF TypeOK, ControlOK
    <3>3. \A u \in Workers : pc[u] \notin Running
      BY <1>0, <2>1, <2>3 DEF OwnerWaits, Running, Relabelling
    <3>4. \A u \in Workers : pc[u] # "invoke"
      BY <2>1, <2>3 DEF BatchInv, OwnerInv
    <3>5. AloneInv'
      BY <2>1, <3>2 DEF BatchInv, AloneInv, BatchPoints
    <3>6. ContInv'
      BY <2>1, <3>2 DEF BatchInv, ContInv, Orders
    <3>7. OwnerInv'
      BY <2>1, <3>2, <3>3, <3>4 DEF BatchInv, OwnerInv, Running, Relabelling
    <3>8. ParityInv'
      BY <2>1, <3>2 DEF BatchInv, ParityInv, Relabelling
    <3> QED
      BY <3>5, <3>6, <3>7, <3>8 DEF BatchInv
  <2> QED
    BY <2>2, <2>3
<1>5. CASE UnlockWorker(w)
  BY <1>5 DEF UnlockWorker, BatchInv, AloneInv, ContInv, OwnerInv, ParityInv
<1>6. CASE UnlockRelabel(w)
  <2>1. /\ UNCHANGED <<lock, lockOwner, batchOwner, cont, relabelId, pending, batchId>>
        /\ pc[w] = "unlockall" /\ pc' = [pc EXCEPT ![w] = "trylock"]
    BY <1>6 DEF UnlockRelabel, Goto, batchVars
  <2>2. batchOwner # w
    BY <2>1 DEF LockInv, OwnerPoints
  <2>3. pc[w] \notin BatchPoints /\ "trylock" \notin BatchPoints
    BY <2>1 DEF BatchPoints
  <2> QED
    BY <2>1, <2>2, <2>3, BatchFrame
<1> QED
  BY <1>1, <1>2, <1>3, <1>4, <1>5, <1>6 DEF Join

(* BatchInv holds initially. *)
LEMMA BatchInit == Init => BatchInv
PROOF
  BY DEF Init, BatchInv, AloneInv, ContInv, OwnerInv, ParityInv, BatchPoints, Running,
         Relabelling, Orders

(* Every step keeps BatchInv. *)
LEMMA BatchNext == TypeOK /\ LockInv /\ BatchInv /\ [Next]_vars => BatchInv'
PROOF
<1> SUFFICES ASSUME TypeOK, LockInv, BatchInv, [Next]_vars PROVE BatchInv'
  OBVIOUS
<1>1. CASE \E w \in Workers : Step(w)
  BY <1>1, BatchInsertQuery, BatchStart, BatchBatch, BatchJoin DEF Step
<1>2. CASE UNCHANGED vars
  BY <1>2 DEF vars, locks, batchVars, BatchInv, AloneInv, ContInv, OwnerInv, ParityInv
<1> QED
  BY <1>1, <1>2 DEF Next, Stopped

(* BatchInv is an invariant. *)
LEMMA BatchInvariant == Spec => []BatchInv
PROOF
  BY TypeCorrect, LockInvariant, BatchInit, BatchNext, PTL DEF Spec

(* Labels change only while g_relabel_id is odd and the owner of the batch *)
(* holds every worker lock, for any number of workers: WriteLabel is the   *)
(* only step that changes them and it runs inside a batch.                 *)
THEOREM LabelsChangeOnlyInBatch == Spec => LabelsChangeInBatch
PROOF
<1> DEFINE Safe == label' # label => /\ relabelId % 2 = 1
                                     /\ batchOwner # None
                                     /\ \A w \in Workers : mut[w] = batchOwner
<1>1. TypeOK /\ LockInv /\ BatchInv /\ [Next]_vars => [Safe]_vars
  <2> SUFFICES ASSUME TypeOK, LockInv, BatchInv, Next, label' # label PROVE Safe
    OBVIOUS
  <2>1. PICK w \in Workers : WriteLabel(w)
    <3>1. PICK w \in Workers : Step(w)
      BY DEF Next, Stopped, vars, data
    <3>2. ~Insert(w) /\ ~Start(w)
      BY DEF Insert, CallInsert, TryLockOwn, TryInsert, MarkHeavy, AddHeavy, UnlockOwn,
             SlowPath, SlowRelease, Start, Batchify, TryLockAll, TryRelabelMutex,
             SetNextBatchOwner, LockWorker, BecomeOwner, data
    <3>3. ~Join(w) /\ ~Query(w)
      BY DEF Join, LoopId, LoopOwner, StealBatch, LeaveBatch, UnlockWorker, UnlockRelabel,
             Query, QueryStart, QueryX, QueryY, QueryEnd, QueryReturn, data
    <3>4. Batch(w) => WriteLabel(w)
      BY DEF Batch, InvokeBatch, RelabelDone, EndRelabel, TerminateId, TerminateOwner,
             TerminateLock, data
    <3> QED
      BY <3>1, <3>2, <3>3, <3>4 DEF Step
  <2>2. pc[w] \in Relabelling /\ pc[w] \in Running
    BY <2>1 DEF WriteLabel, Orders, Relabelling, Running
  <2>3. relabelId % 2 = 1
    BY <2>2 DEF BatchInv, ParityInv
  <2>4. batchOwner # None /\ batchOwner \in Workers
    BY <2>2 DEF BatchInv, OwnerInv, TypeOK, BatchOK
  <2> QED
    BY <2>3, <2>4 DEF LockInv
<1> QED
  BY <1>1, TypeCorrect, LockInvariant, BatchInvariant, PTL DEF Spec, LabelsChangeInBatch
-----------------------------------------------------------------------------
(* The heavy lists and the room of their nodes. *)

(* Worker w has won the compare-and-swap on the flag of list l and has not *)
(* yet pushed it.                                                          *)
Pushes(w, o, l) == pc[w] \in {"push", "slowpush"} /\ ord[w] = o /\ list[o][w] = l

(* A flag that is up stands for one entry of m_heavy_nodes or for one      *)
(* worker that is about to make it.                                        *)
HeavyOK(o, l) ==
  /\ ~heavy[o][l] => queued[o][l] = 0
  /\ \A w \in Workers : Pushes(w, o, l) => heavy[o][l] /\ queued[o][l] = 0
  /\ \A v, w \in Workers : Pushes(v, o, l) /\ Pushes(w, o, l) => v = w
  /\ heavy[o][l] /\ (\A w \in Workers : ~Pushes(w, o, l)) => queued[o][l] = 1

HeavyInv == \A o \in Orders, l \in Lists : HeavyOK(o, l)

(* The control points of an insert that still has to succeed. *)
Retrying == {"trylock", "insert", "slow", "slowpush", "release", "batchify", "checkid",
             "tryrelabel", "setowner", "lockall", "invoke", "english", "hebrew",
             "endrelabel", "termid", "termowner", "termlock", "loop", "loopowner",
             "steal", "leave", "unlockall"}

(* An insert in slow_path has no room at all or all the room a relabel     *)
(* gives, so that the insert that succeeds leaves more than is heavy.      *)
RoomOK(w) ==
  /\ pc[w] = "slow" \/ (slow[w] /\ pc[w] \in Retrying) => room[ord[w]][w] \in {0, MaxGap}
  /\ pc[w] = "mark" /\ slow[w] => room[ord[w]][w] >= HeavyGap

RoomInv == \A w \in Workers : RoomOK(w)

(* While a strand of a batch runs no worker is inside insert. *)
LEMMA NoInsertInBatch ==
  ASSUME TypeOK, LockInv, BatchInv, NEW w \in Workers, pc[w] \in Orders
  PROVE  \A v \in Workers : pc[v] \notin Inserting
PROOF
<1>1. batchOwner # None /\ batchOwner \in Workers
  BY DEF BatchInv, OwnerInv, Running, Relabelling, Orders, TypeOK, BatchOK
<1>2. /\ pc[batchOwner] \in OwnerPoints
      /\ \A v \in Workers : mut[v] = batchOwner
  BY <1>1 DEF LockInv
<1> QED
  BY <1>1, <1>2 DEF LockInv, Inserting, OwnerPoints

(* A step that neither raises a flag nor pushes a list keeps HeavyInv. *)
LEMMA HeavyFrame ==
  ASSUME TypeOK, HeavyInv, NEW w \in Workers, NEW to,
         pc' = [pc EXCEPT ![w] = to],
         pc[w] \notin {"push", "slowpush"}, to \notin {"push", "slowpush"},
         UNCHANGED <<heavy, queued, list>>,
         \A v \in Workers : v # w => ord'[v] = ord[v]
  PROVE  HeavyInv'
PROOF
<1>1. \A v \in Workers, o \in Orders, l \in Lists : Pushes(v, o, l)' <=> Pushes(v, o, l)
  BY DEF Pushes, TypeOK, ControlOK
<1> QED
  BY <1>1 DEF HeavyInv, HeavyOK

(* The winner of the compare-and-swap on a flag becomes its list's pusher. *)
LEMMA HeavyRaise ==
  ASSUME TypeOK, HeavyInv, NEW w \in Workers, NEW to \in {"push", "slowpush"},
         pc' = [pc EXCEPT ![w] = to], pc[w] \notin {"push", "slowpush"},
         ~heavy[ord[w]][list[ord[w]][w]],
         heavy' = [heavy EXCEPT ![ord[w]][list[ord[w]][w]] = TRUE],
         UNCHANGED <<queued, list, ord>>
  PROVE  HeavyInv'
PROOF
<1> PICK o \in Orders : o = ord[w]
  BY DEF TypeOK, LocalOK
<1> PICK l \in Lists : l = list[o][w]
  BY DEF TypeOK, DataOK, Nodes
<1>1. heavy'[o][l] /\ \A p \in Orders, m \in Lists : p # o \/ m # l => heavy'[p][m] = heavy[p][m]
  BY DEF TypeOK, DataOK
<1>2. /\ \A p \in Orders, m \in Lists : Pushes(w, p, m)' <=> (p = o /\ m = l)
      /\ \A p \in Orders, m \in Lists : ~Pushes(w, p, m)
      /\ \A v \in Workers, p \in Orders, m \in Lists : v # w => (Pushes(v, p, m)' <=> Pushes(v, p, m))
  BY DEF Pushes, TypeOK, ControlOK
<1>3. HeavyOK(o, l) /\ ~heavy[o][l]
  BY DEF HeavyInv
<1>4. queued[o][l] = 0 /\ \A v \in Workers : ~Pushes(v, o, l)
  BY <1>3 DEF HeavyOK
<1>5. HeavyOK(o, l)'
  BY <1>1, <1>2, <1>4 DEF HeavyOK
<1>6. ASSUME NEW p \in Orders, NEW m \in Lists, p # o \/ m # l PROVE HeavyOK(p, m)'
  <2>1. HeavyOK(p, m) /\ heavy'[p][m] = heavy[p][m] /\ queued'[p][m] = queued[p][m]
    BY <1>1, <1>6 DEF HeavyInv
  <2>2. \A v \in Workers : Pushes(v, p, m)' <=> Pushes(v, p, m)
    BY <1>2, <1>6
  <2> QED
    BY <2>1, <2>2 DEF HeavyOK
<1> QED
  BY <1>5, <1>6 DEF HeavyInv

(* The pusher makes the one entry. *)
LEMMA HeavyPush ==
  ASSUME TypeOK, HeavyInv, NEW w \in Workers, AddHeavy(w)
  PROVE  HeavyInv'
PROOF
<1> PICK o \in Orders : o = ord[w]
  BY DEF TypeOK, LocalOK
<1> PICK l \in Lists : l = list[o][w]
  BY DEF TypeOK, DataOK, Nodes
<1>1. /\ pc[w] \in {"push", "slowpush"} /\ pc'[w] \in {"unlock", "release"}
      /\ \A v \in Workers : v # w => pc'[v] = pc[v]
      /\ UNCHANGED <<heavy, list, ord>>
  BY DEF AddHeavy, Goto, local, TypeOK, ControlOK
<1>2. /\ queued'[o][l] = queued[o][l] + 1
      /\ \A p \in Orders, m \in Lists : p # o \/ m # l => queued'[p][m] = queued[p][m]
  BY DEF AddHeavy, TypeOK, DataOK
<1>3. /\ Pushes(w, o, l)
      /\ \A p \in Orders, m \in Lists : ~Pushes(w, p, m)'
      /\ \A p \in Orders, m \in Lists : Pushes(w, p, m) => p = o /\ m = l
      /\ \A v \in Workers, p \in Orders, m \in Lists : v # w => (Pushes(v, p, m)' <=> Pushes(v, p, m))
  BY <1>1 DEF Pushes
<1>4. heavy[o][l] /\ queued[o][l] = 0 /\ \A v \in Workers : Pushes(v, o, l) => v = w
  BY <1>3 DEF HeavyInv, HeavyOK
<1>5. HeavyOK(o, l)'
  BY <1>1, <1>2, <1>3, <1>4 DEF HeavyOK
<1>6. ASSUME NEW p \in Orders, NEW m \in Lists, p # o \/ m # l PROVE HeavyOK(p, m)'
  <2>1. HeavyOK(p, m) /\ heavy'[p][m] = heavy[p][m] /\ queued'[p][m] = queued[p][m]
    BY <1>1, <1>2, <1>6 DEF HeavyInv
  <2>2. \A v \in Workers : Pushes(v, p, m)' <=> Pushes(v, p, m)
    BY <1>3, <1>6
  <2> QED
    BY <2>1, <2>2 DEF HeavyOK
<1> QED
  BY <1>5, <1>6 DEF HeavyInv

(* The split takes the lists whose flag is up off the stack and lowers     *)
(* their flags: nobody is pushing meanwhile.                               *)
LEMMA HeavySplit ==
  ASSUME TypeOK, LockInv, BatchInv, HeavyInv, NEW w \in Workers, RelabelDone(w)
  PROVE  HeavyInv'
PROOF
<1> PICK o \in Orders : o = pc[w] /\ Split(o)
  BY DEF RelabelDone
<1>1. \A v \in Workers : pc[v] \notin {"push", "slowpush"}
  BY NoInsertInBatch DEF Inserting
<1>2. \A v \in Workers : pc'[v] \notin {"push", "slowpush"}
  BY <1>1 DEF RelabelDone, TypeOK, ControlOK
<1>3. /\ \A v \in Workers, p \in Orders, m \in Lists : ~Pushes(v, p, m)
      /\ \A v \in Workers, p \in Orders, m \in Lists : ~Pushes(v, p, m)'
  BY <1>1, <1>2 DEF Pushes
<1>4. heavy' = [heavy EXCEPT ![o] = [l \in Lists |-> heavy[o][l] /\ queued[o][l] = 0]]
  BY DEF Split, TypeOK, DataOK
<1>5. queued' = [queued EXCEPT ![o] = [l \in Lists |-> 0]]
  BY DEF Split
<1>6. ASSUME NEW m \in Lists PROVE HeavyOK(o, m)'
  <2>1. queued'[o][m] = 0
    BY <1>5 DEF TypeOK, DataOK
  <2>2. heavy[o][m] => queued[o][m] = 1
    BY <1>3 DEF HeavyInv, HeavyOK
  <2>3. ~(heavy[o][m] /\ queued[o][m] = 0)
    BY <2>2
  <2>4. ~heavy'[o][m]
    BY <1>4, <2>3 DEF TypeOK, DataOK
  <2> QED
    BY <1>3, <2>1, <2>4 DEF HeavyOK
<1>7. ASSUME NEW p \in Orders, NEW m \in Lists, p # o PROVE HeavyOK(p, m)'
  <2>1. HeavyOK(p, m)
    BY DEF HeavyInv
  <2>2. heavy'[p][m] = heavy[p][m] /\ queued'[p][m] = queued[p][m]
    BY <1>4, <1>5, <1>7 DEF TypeOK, DataOK
  <2> QED
    BY <1>3, <2>1, <2>2 DEF HeavyOK
<1> QED
  BY <1>6, <1>7 DEF HeavyInv

(* The steps of insert keep HeavyInv. *)
LEMMA HeavyInsert ==
  ASSUME TypeOK, HeavyInv, NEW w \in Workers, Insert(w)
  PROVE  HeavyInv'
PROOF
<1>1. CASE CallInsert(w)
  <2>1. \A v \in Workers : v # w => ord'[v] = ord[v]
    BY <1>1 DEF CallInsert, TypeOK, LocalOK
  <2>2. pc[w] = "idle" /\ pc' = [pc EXCEPT ![w] = "trylock"] /\ UNCHANGED <<heavy, queued, list>>
    BY <1>1 DEF CallInsert, Goto, data
  <2> QED
    BY <2>1, <2>2, HeavyFrame
<1>2. CASE TryLockOwn(w) \/ UnlockOwn(w) \/ SlowRelease(w)
  <2>1. UNCHANGED <<heavy, queued, list, ord>>
    BY <1>2 DEF TryLockOwn, UnlockOwn, SlowRelease, data, local
  <2>2. PICK to \in {"insert", "batchify", "idle"} : pc' = [pc EXCEPT ![w] = to]
    BY <1>2 DEF TryLockOwn, UnlockOwn, SlowRelease, Goto
  <2>3. pc[w] \in {"trylock", "unlock", "release"}
    BY <1>2 DEF TryLockOwn, UnlockOwn, SlowRelease, Goto
  <2> QED
    BY <2>1, <2>2, <2>3, HeavyFrame
<1>3. CASE TryInsert(w)
  BY <1>3, HeavyFrame DEF TryInsert, Goto, local
<1>4. CASE MarkHeavy(w)
  <2>1. CASE UNCHANGED heavy /\ Goto(w, "mark", "unlock")
    <3>1. /\ pc[w] = "mark" /\ pc' = [pc EXCEPT ![w] = "unlock"]
          /\ UNCHANGED <<heavy, queued, list, ord>>
      BY <1>4, <2>1 DEF MarkHeavy, Goto, local
    <3> QED
      BY <3>1, HeavyFrame
  <2>2. CASE ~heavy[ord[w]][list[ord[w]][w]] /\ Goto(w, "mark", "push")
    <3>1. /\ pc[w] = "mark" /\ pc' = [pc EXCEPT ![w] = "push"]
          /\ heavy' = [heavy EXCEPT ![ord[w]][list[ord[w]][w]] = TRUE]
          /\ UNCHANGED <<queued, list, ord>>
      BY <1>4, <2>2 DEF MarkHeavy, Goto, local, TypeOK, ControlOK
    <3> QED
      BY <2>2, <3>1, HeavyRaise
  <2> QED
    BY <1>4, <2>1, <2>2 DEF MarkHeavy
<1>5. CASE AddHeavy(w)
  BY <1>5, HeavyPush
<1>6. CASE SlowPath(w)
  <2>1. CASE UNCHANGED heavy /\ Goto(w, "slow", "release")
    <3>1. /\ pc[w] = "slow" /\ pc' = [pc EXCEPT ![w] = "release"]
          /\ UNCHANGED <<heavy, queued, list, ord>>
      BY <1>6, <2>1 DEF SlowPath, Goto
    <3> QED
      BY <3>1, HeavyFrame
  <2>2. CASE ~heavy[ord[w]][list[ord[w]][w]] /\ Goto(w, "slow", "slowpush")
    <3>1. /\ pc[w] = "slow" /\ pc' = [pc EXCEPT ![w] = "slowpush"]
          /\ heavy' = [heavy EXCEPT ![ord[w]][list[ord[w]][w]] = TRUE]
          /\ UNCHANGED <<queued, list, ord>>
      BY <1>6, <2>2 DEF SlowPath, Goto, TypeOK, ControlOK
    <3> QED
      BY <2>2, <3>1, HeavyRaise
  <2> QED
    BY <1>6, <2>1, <2>2 DEF SlowPath
<1> QED
  BY <1>1, <1>2, <1>3, <1>4, <1>5, <1>6 DEF Insert

(* Every step keeps HeavyInv. *)
LEMMA HeavyNext == TypeOK /\ LockInv /\ BatchInv /\ HeavyInv /\ [Next]_vars => HeavyInv'
PROOF
<1> SUFFICES ASSUME TypeOK, LockInv, BatchInv, HeavyInv, [Next]_vars PROVE HeavyInv'
  OBVIOUS
<1>1. ASSUME NEW w \in Workers, Start(w) PROVE HeavyInv'
  <2>1. CASE LockWorker(w) \/ (SetNextBatchOwner(w) /\ lock)
    BY <2>1 DEF LockWorker, SetNextBatchOwner, data, local, HeavyInv, HeavyOK, Pushes
  <2>2. CASE \/ Batchify(w) \/ TryLockAll(w) \/ TryRelabelMutex(w) \/ BecomeOwner(w)
             \/ (SetNextBatchOwner(w) /\ ~lock)
    <3>1. UNCHANGED <<heavy, queued, list, ord>>
      BY <2>2 DEF Batchify, TryLockAll, TryRelabelMutex, SetNextBatchOwner, BecomeOwner,
                  data, local
    <3>2. PICK to \in {"checkid", "tryrelabel", "loop", "setowner", "lockall", "invoke"} :
            pc' = [pc EXCEPT ![w] = to]
      BY <2>2 DEF Batchify, TryLockAll, TryRelabelMutex, SetNextBatchOwner, BecomeOwner, Goto
    <3>3. pc[w] \in {"batchify", "checkid", "tryrelabel", "lockall", "setowner"}
      BY <2>2 DEF Batchify, TryLockAll, TryRelabelMutex, SetNextBatchOwner, BecomeOwner, Goto
    <3> QED
      BY <3>1, <3>2, <3>3, HeavyFrame
  <2> QED
    BY <1>1, <2>1, <2>2 DEF Start
<1>2. ASSUME NEW w \in Workers, Batch(w) PROVE HeavyInv'
  <2>1. CASE WriteLabel(w)
    BY <2>1 DEF WriteLabel, local, HeavyInv, HeavyOK, Pushes
  <2>2. CASE RelabelDone(w)
    BY <2>2, HeavySplit
  <2>3. CASE \/ InvokeBatch(w) \/ EndRelabel(w) \/ TerminateId(w) \/ TerminateOwner(w)
             \/ TerminateLock(w)
    <3>1. UNCHANGED <<heavy, queued, list, ord>>
      BY <2>3 DEF InvokeBatch, EndRelabel, TerminateId, TerminateOwner, TerminateLock,
                  data, local
    <3>2. PICK to \in {"english", "termid", "termowner", "termlock", "loop"} :
            pc' = [pc EXCEPT ![w] = to]
      BY <2>3 DEF InvokeBatch, EndRelabel, TerminateId, TerminateOwner, TerminateLock, Goto
    <3>3. pc[w] \in {"invoke", "endrelabel", "termid", "termowner", "termlock"}
      BY <2>3 DEF InvokeBatch, EndRelabel, TerminateId, TerminateOwner, TerminateLock, Goto
    <3> QED
      BY <3>1, <3>2, <3>3, HeavyFrame
  <2> QED
    BY <1>2, <2>1, <2>2, <2>3 DEF Batch
<1>3. ASSUME NEW w \in Workers, Join(w) PROVE HeavyInv'
  <2>1. CASE UnlockWorker(w)
    BY <2>1 DEF UnlockWorker, data, local, HeavyInv, HeavyOK, Pushes
  <2>2. CASE LoopId(w) \/ LoopOwner(w) \/ StealBatch(w) \/ LeaveBatch(w) \/ UnlockRelabel(w)
    <3>1. UNCHANGED <<heavy, queued, list, ord>>
      BY <2>2 DEF LoopId, LoopOwner, StealBatch, LeaveBatch, UnlockRelabel, data, local
    <3>2. PICK to \in {"loopowner", "leave", "steal", "loop", "hebrew", "unlockall", "trylock"} :
            pc' = [pc EXCEPT ![w] = to]
      BY <2>2 DEF LoopId, LoopOwner, StealBatch, LeaveBatch, UnlockRelabel, Goto
    <3>3. pc[w] \in {"loop", "loopowner", "steal", "leave", "unlockall"}
      BY <2>2 DEF LoopId, LoopOwner, StealBatch, LeaveBatch, UnlockRelabel, Goto
    <3> QED
      BY <3>1, <3>2, <3>3, HeavyFrame
  <2> QED
    BY <1>3, <2>1, <2>2 DEF Join
<1>4. ASSUME NEW w \in Workers, Query(w) PROVE HeavyInv'
  <2>1. \A v \in Workers : v # w => ord'[v] = ord[v]
    BY <1>4 DEF Query, QueryStart, QueryX, QueryY, QueryEnd, QueryReturn, local, TypeOK, LocalOK
  <2>2. UNCHANGED <<heavy, queued, list>>
    BY <1>4 DEF Query, QueryStart, QueryX, QueryY, QueryEnd, QueryReturn, data
  <2>3. PICK to \in {"queryx", "queryy", "querycheck", "queryagain", "answered", "idle"} :
          pc' = [pc EXCEPT ![w] = to]
    BY <1>4 DEF Query, QueryStart, QueryX, QueryY, QueryEnd, QueryReturn, Goto
  <2>4. pc[w] \notin {"push", "slowpush"}
    BY <1>4 DEF Query, QueryStart, QueryX, QueryY, QueryEnd, QueryReturn, Goto
  <2> QED
    BY <2>1, <2>2, <2>3, <2>4, HeavyFrame
<1>5. CASE UNCHANGED vars
  BY <1>5 DEF vars, data, local, HeavyInv, HeavyOK, Pushes
<1> QED
  BY <1>1, <1>2, <1>3, <1>4, <1>5, HeavyInsert DEF Next, Step, Stopped

(* m_heavy_nodes holds every list whose flag is up exactly once when       *)
(* om_relabel reads it, for any number of workers and lists: the           *)
(* compare-and-swap elects one pusher and no batch runs until it has       *)
(* pushed, so that no list is split, and freed, twice, and none is missed. *)
THEOREM HeavyListsQueuedOnce == Spec => []HeavyQueuedOnce
PROOF
<1>1. Init => HeavyInv
  BY DEF Init, HeavyInv, HeavyOK, Pushes
<1>2. TypeOK /\ HeavyInv => HeavyQueuedOnce
  <2> SUFFICES ASSUME TypeOK, HeavyInv, NEW o \in Orders, NEW l \in Lists
               PROVE  LET Pushing == {w \in Workers : /\ pc[w] \in {"push", "slowpush"}
                                                      /\ ord[w] = o /\ list[o][w] = l}
                      IN IF heavy[o][l]
                         THEN IF Pushing = {} THEN queued[o][l] = 1
                              ELSE queued[o][l] = 0 /\ \A v, w \in Pushing : v = w
                         ELSE queued[o][l] = 0 /\ Pushing = {}
    BY DEF HeavyQueuedOnce
  <2>1. HeavyOK(o, l)
    BY DEF HeavyInv
  <2> QED
    BY <2>1 DEF HeavyOK, Pushes
<1> QED
  BY <1>1, <1>2, HeavyNext, TypeCorrect, LockInvariant, BatchInvariant, PTL DEF Spec

(* What no step takes from a worker's insert: its room shrinks only by its *)
(* own inserts, and a relabel gives it all there is.                       *)
RoomStays(v) ==
  /\ slow'[v] = slow[v] /\ ord'[v] = ord[v]
  /\ room'[ord[v]][v] \in {room[ord[v]][v], MaxGap}

(* A worker that stays where it is, or goes on trying, keeps RoomOK. *)
LEMMA RoomFrame ==
  ASSUME TypeOK, NEW v \in Workers, RoomOK(v), RoomStays(v),
         \/ pc'[v] = pc[v]
         \/ pc[v] \in Retrying /\ pc'[v] \in Retrying \ {"slow"}
  PROVE  RoomOK(v)'
PROOF
<1>1. room[ord[v]][v] \in 0 .. MaxGap /\ MaxGap >= HeavyGap /\ "mark" \notin Retrying
  BY GapAssumption DEF TypeOK, DataOK, LocalOK, Nodes, Retrying
<1>2. room'[ord'[v]][v] = room[ord[v]][v] \/ room'[ord'[v]][v] = MaxGap
  BY DEF RoomStays
<1>3. slow'[v] = slow[v]
  BY DEF RoomStays
<1> QED
  BY <1>1, <1>2, <1>3 DEF RoomOK

(* The other workers in a step that changes only what its worker owns. *)
LEMMA RoomOthers ==
  ASSUME TypeOK, RoomInv, NEW w \in Workers, RoomOK(w)',
         \A v \in Workers : v # w => pc'[v] = pc[v] /\ RoomStays(v)
  PROVE  RoomInv'
PROOF
  BY RoomFrame DEF RoomInv

(* A step that changes neither room nor slow. *)
LEMMA RoomSame ==
  ASSUME TypeOK, RoomInv, NEW w \in Workers, NEW to,
         pc' = [pc EXCEPT ![w] = to],
         UNCHANGED <<room, slow>>,
         \A v \in Workers : v # w => ord'[v] = ord[v],
         \/ to \notin Retrying \cup {"mark"}
         \/ ord'[w] = ord[w] /\ pc[w] \in Retrying /\ to \in Retrying \ {"slow"}
  PROVE  RoomInv'
PROOF
<1>1. pc'[w] = to /\ \A v \in Workers : v # w => pc'[v] = pc[v]
  BY DEF TypeOK, ControlOK
<1>2. \A v \in Workers : ord'[v] = ord[v] => RoomStays(v)
  BY DEF RoomStays
<1>3. RoomOK(w)'
  <2>1. CASE to \notin Retrying \cup {"mark"}
    <3>1. "slow" \in Retrying
      BY DEF Retrying
    <3> QED
      BY <1>1, <2>1, <3>1 DEF RoomOK
  <2>2. CASE ord'[w] = ord[w] /\ pc[w] \in Retrying /\ to \in Retrying \ {"slow"}
    BY <1>1, <1>2, <2>2, RoomFrame DEF RoomInv
  <2> QED
    BY <2>1, <2>2
<1> QED
  BY <1>1, <1>2, <1>3, RoomOthers

(* An assignment to one cell of a table leaves the cells of other columns. *)
LEMMA CellOther ==
  ASSUME NEW A, NEW B, NEW S, NEW f \in [A -> [B -> S]], NEW a \in A, NEW b \in B,
         NEW val, NEW p \in A, NEW q \in B, q # b
  PROVE  [f EXCEPT ![a][b] = val][p][q] = f[p][q]
PROOF
<1>1. CASE p = a
  BY <1>1
<1>2. CASE p # a
  BY <1>2
<1> QED
  BY <1>1, <1>2

(* The steps of insert keep RoomInv. *)
LEMMA RoomInsert ==
  ASSUME TypeOK, RoomInv, NEW w \in Workers, Insert(w)
  PROVE  RoomInv'
PROOF
<1>1. CASE CallInsert(w)
  <2>1. /\ pc' = [pc EXCEPT ![w] = "trylock"] /\ slow' = [slow EXCEPT ![w] = FALSE]
        /\ UNCHANGED room
    BY <1>1 DEF CallInsert, Goto, data
  <2>2. pc'[w] = "trylock" /\ ~slow'[w]
    BY <2>1 DEF TypeOK, ControlOK, LocalOK
  <2>3. RoomOK(w)'
    BY <2>2 DEF RoomOK
  <2>4. \A v \in Workers : v # w => ord'[v] = ord[v]
    BY <1>1 DEF CallInsert, TypeOK, LocalOK
  <2>5. \A v \in Workers : v # w => pc'[v] = pc[v] /\ slow'[v] = slow[v]
    BY <2>1 DEF TypeOK, ControlOK, LocalOK
  <2>6. \A v \in Workers : v # w => RoomStays(v)
    BY <2>1, <2>4, <2>5 DEF RoomStays
  <2> QED
    BY <2>3, <2>5, <2>6, RoomOthers
<1>2. CASE TryLockOwn(w) \/ UnlockOwn(w) \/ SlowRelease(w)
  <2>1. UNCHANGED <<room, slow, ord>>
    BY <1>2 DEF TryLockOwn, UnlockOwn, SlowRelease, data, local
  <2>2. PICK to \in {"insert", "batchify", "idle"} : pc' = [pc EXCEPT ![w] = to]
    BY <1>2 DEF TryLockOwn, UnlockOwn, SlowRelease, Goto
  <2>3. pc[w] \in Retrying \/ to = "idle"
    BY <1>2, <2>2 DEF TryLockOwn, UnlockOwn, SlowRelease, Goto, Retrying, TypeOK, ControlOK
  <2>4. to \notin Retrying \cup {"mark"} \/ (pc[w] \in Retrying /\ to \in Retrying \ {"slow"})
    BY <2>3 DEF Retrying
  <2> QED
    BY <2>1, <2>2, <2>4, RoomSame
<1>3. CASE TryInsert(w)
  <2>1. UNCHANGED <<slow, ord>> /\ pc[w] = "insert"
    BY <1>3 DEF TryInsert, Goto, local
  <2>2. ord[w] \in Orders /\ w \in Nodes /\ room[ord[w]][w] \in 0 .. MaxGap
    BY DEF TypeOK, LocalOK, DataOK, Nodes
  <2>3. \A v \in Workers : v # w => pc'[v] = pc[v]
    BY <1>3 DEF TryInsert, Goto, TypeOK, ControlOK
  <2>4. ASSUME NEW v \in Workers, v # w PROVE RoomStays(v)
    <3>1. ord[v] \in Orders /\ v \in Nodes
      BY DEF TypeOK, LocalOK, Nodes
    <3>2. room'[ord[v]][v] = room[ord[v]][v]
      <4> PICK o \in Orders, p \in Orders : o = ord[w] /\ p = ord[v]
        BY <2>2, <3>1
      <4>1. \/ room' = room
            \/ room' = [room EXCEPT ![o][w] = room[o][w] - 1]
        BY <1>3 DEF TryInsert
      <4>2. room'[p][v] = room[p][v]
        <5>1. room \in [Orders -> [Nodes -> 0 .. MaxGap]]
          BY DEF TypeOK, DataOK
        <5> QED
          BY <2>2, <2>4, <3>1, <4>1, <5>1, CellOther
      <4> QED
        BY <4>2
    <3> QED
      BY <2>1, <3>2 DEF RoomStays
  <2>5. RoomOK(w)'
    <3>1. CASE room[ord[w]][w] = 0
      <4>1. pc'[w] = "slow" /\ room' = room
        BY <1>3, <3>1 DEF TryInsert, Goto, TypeOK, ControlOK
      <4> QED
        BY <2>1, <3>1, <4>1 DEF RoomOK
    <3>2. CASE room[ord[w]][w] # 0
      <4>1. pc'[w] = "mark"
        BY <1>3, <3>2 DEF TryInsert, Goto, TypeOK, ControlOK
      <4>2. room'[ord[w]][w] = room[ord[w]][w] - 1
        BY <1>3, <2>2, <3>2 DEF TryInsert, TypeOK, DataOK
      <4>3. slow[w] => room[ord[w]][w] = MaxGap
        BY <2>1, <3>2 DEF RoomInv, RoomOK, Retrying
      <4>4. slow[w] => room'[ord[w]][w] >= HeavyGap
        BY <2>2, <4>2, <4>3, GapAssumption
      <4>5. "mark" \notin Retrying
        BY DEF Retrying
      <4>6. slow'[w] = slow[w] /\ room'[ord'[w]][w] = room'[ord[w]][w]
        BY <2>1
      <4>7. pc'[w] # "slow" /\ pc'[w] \notin Retrying
        BY <4>1, <4>5
      <4> QED
        BY <4>4, <4>6, <4>7 DEF RoomOK
    <3> QED
      BY <3>1, <3>2
  <2> QED
    BY <2>3, <2>4, <2>5, RoomOthers
<1>4. CASE MarkHeavy(w) \/ AddHeavy(w)
  <2>1. UNCHANGED <<room, slow, ord>>
    BY <1>4 DEF MarkHeavy, AddHeavy, local
  <2>2. PICK to \in {"push", "unlock", "release"} :
          pc' = [pc EXCEPT ![w] = to] /\ (to = "release" => pc[w] = "slowpush")
    BY <1>4 DEF MarkHeavy, AddHeavy, Goto
  <2>3. \/ to \notin Retrying \cup {"mark"}
        \/ (pc[w] \in Retrying /\ to \in Retrying \ {"slow"})
    BY <2>2 DEF Retrying
  <2> QED
    BY <2>1, <2>2, <2>3, RoomSame
<1>5. CASE SlowPath(w)
  <2>1. /\ pc[w] = "slow" /\ slow' = [slow EXCEPT ![w] = TRUE]
        /\ UNCHANGED <<room, ord>>
    BY <1>5 DEF SlowPath, Goto
  <2>2. pc'[w] \in {"slowpush", "release"} /\ \A v \in Workers : v # w => pc'[v] = pc[v]
    BY <1>5 DEF SlowPath, Goto, TypeOK, ControlOK
  <2>3. \A v \in Workers : v # w => slow'[v] = slow[v]
    BY <2>1 DEF TypeOK, LocalOK
  <2>4. \A v \in Workers : v # w => RoomStays(v)
    BY <2>1, <2>3 DEF RoomStays
  <2>5. room[ord[w]][w] \in {0, MaxGap}
    BY <2>1 DEF RoomInv, RoomOK
  <2>6. RoomOK(w)'
    BY <2>1, <2>2, <2>5 DEF RoomOK
  <2> QED
    BY <2>2, <2>4, <2>6, RoomOthers
<1> QED
  BY <1>1, <1>2, <1>3, <1>4, <1>5 DEF Insert

(* The split gives a worker's node the full room or leaves it. *)
LEMMA RoomSplit ==
  ASSUME TypeOK, RoomInv, NEW w \in Workers, RelabelDone(w)
  PROVE  RoomInv'
PROOF
<1> PICK o \in Orders : o = pc[w] /\ Split(o)
  BY DEF RelabelDone
<1>1. UNCHANGED <<slow, ord>>
  BY DEF RelabelDone, local
<1>2. pc'[w] \in {"hebrew", "endrelabel", "loop"} /\ \A v \in Workers : v # w => pc'[v] = pc[v]
  BY DEF RelabelDone, TypeOK, ControlOK
<1>3. \A v \in Workers : RoomStays(v)
  <2> SUFFICES ASSUME NEW v \in Workers PROVE RoomStays(v)
    OBVIOUS
  <2> DEFINE Moved == {x \in Nodes : queued[o][list[o][x]] > 0}
  <2>1. room' = [room EXCEPT ![o] = [x \in Nodes |-> IF x \in Moved THEN MaxGap ELSE room[o][x]]]
    BY DEF Split, TypeOK, DataOK
  <2> HIDE DEF Moved
  <2>2. ord[v] \in Orders /\ v \in Nodes
    BY DEF TypeOK, LocalOK, Nodes
  <2>3. CASE ord[v] = o
    <3>1. room'[o][v] = IF v \in Moved THEN MaxGap ELSE room[o][v]
      BY <2>1, <2>2 DEF TypeOK, DataOK
    <3> QED
      BY <1>1, <2>3, <3>1 DEF RoomStays
  <2>4. CASE ord[v] # o
    <3>1. room'[ord[v]] = room[ord[v]]
      BY <2>1, <2>2, <2>4 DEF TypeOK, DataOK
    <3> QED
      BY <1>1, <3>1 DEF RoomStays
  <2> QED
    BY <2>3, <2>4
<1>4. pc[w] \in Retrying /\ pc'[w] \in Retrying \ {"slow"}
  BY <1>2 DEF Orders, Retrying
<1>5. RoomOK(w)'
  BY <1>3, <1>4, RoomFrame DEF RoomInv
<1> QED
  BY <1>2, <1>3, <1>5, RoomOthers

(* Every step keeps RoomInv. *)
LEMMA RoomNext == TypeOK /\ RoomInv /\ [Next]_vars => RoomInv'
PROOF
<1> SUFFICES ASSUME TypeOK, RoomInv, [Next]_vars PROVE RoomInv'
  OBVIOUS
<1>1. ASSUME NEW w \in Workers, Start(w) PROVE RoomInv'
  <2>1. CASE LockWorker(w) \/ (SetNextBatchOwner(w) /\ lock)
    BY <2>1 DEF LockWorker, SetNextBatchOwner, data, local, RoomInv, RoomOK
  <2>2. CASE \/ Batchify(w) \/ TryLockAll(w) \/ TryRelabelMutex(w) \/ BecomeOwner(w)
             \/ (SetNextBatchOwner(w) /\ ~lock)
    <3>1. UNCHANGED <<room, slow, ord>>
      BY <2>2 DEF Batchify, TryLockAll, TryRelabelMutex, SetNextBatchOwner, BecomeOwner,
                  data, local
    <3>2. PICK to \in {"checkid", "tryrelabel", "loop", "setowner", "lockall", "invoke"} :
            pc' = [pc EXCEPT ![w] = to]
      BY <2>2 DEF Batchify, TryLockAll, TryRelabelMutex, SetNextBatchOwner, BecomeOwner, Goto
    <3>3. pc[w] \in {"batchify", "checkid", "tryrelabel", "lockall", "setowner"}
      BY <2>2 DEF Batchify, TryLockAll, TryRelabelMutex, SetNextBatchOwner, BecomeOwner, Goto
    <3>4. pc[w] \in Retrying /\ to \in Retrying \ {"slow"}
      BY <3>3 DEF Retrying
    <3> QED
      BY <3>1, <3>2, <3>4, RoomSame
  <2> QED
    BY <1>1, <2>1, <2>2 DEF Start
<1>2. ASSUME NEW w \in Workers, Batch(w) PROVE RoomInv'
  <2>1. CASE WriteLabel(w)
    BY <2>1 DEF WriteLabel, local, RoomInv, RoomOK
  <2>2. CASE RelabelDone(w)
    BY <2>2, RoomSplit
  <2>3. CASE \/ InvokeBatch(w) \/ EndRelabel(w) \/ TerminateId(w) \/ TerminateOwner(w)
             \/ TerminateLock(w)
    <3>1. UNCHANGED <<room, slow, ord>>
      BY <2>3 DEF InvokeBatch, EndRelabel, TerminateId, TerminateOwner, TerminateLock,
                  data, local
    <3>2. PICK to \in {"english", "termid", "termowner", "termlock", "loop"} :
            pc' = [pc EXCEPT ![w] = to]
      BY <2>3 DEF InvokeBatch, EndRelabel, TerminateId, TerminateOwner, TerminateLock, Goto
    <3>3. pc[w] \in {"invoke", "endrelabel", "termid", "termowner", "termlock"}
      BY <2>3 DEF InvokeBatch, EndRelabel, TerminateId, TerminateOwner, TerminateLock, Goto
    <3>4. pc[w] \in Retrying /\ to \in Retrying \ {"slow"}
      BY <3>3 DEF Retrying
    <3> QED
      BY <3>1, <3>2, <3>4, RoomSame
  <2> QED
    BY <1>2, <2>1, <2>2, <2>3 DEF Batch
<1>3. ASSUME NEW w \in Workers, Join(w) PROVE RoomInv'
  <2>1. CASE UnlockWorker(w)
    BY <2>1 DEF UnlockWorker, data, local, RoomInv, RoomOK
  <2>2. CASE LoopId(w) \/ LoopOwner(w) \/ StealBatch(w) \/ LeaveBatch(w) \/ UnlockRelabel(w)
    <3>1. UNCHANGED <<room, slow, ord>>
      BY <2>2 DEF LoopId, LoopOwner, StealBatch, LeaveBatch, UnlockRelabel, data, local
    <3>2. PICK to \in {"loopowner", "leave", "steal", "loop", "hebrew", "unlockall", "trylock"} :
            pc' = [pc EXCEPT ![w] = to]
      BY <2>2 DEF LoopId, LoopOwner, StealBatch, LeaveBatch, UnlockRelabel, Goto
    <3>3. pc[w] \in {"loop", "loopowner", "steal", "leave", "unlockall"}
      BY <2>2 DEF LoopId, LoopOwner, StealBatch, LeaveBatch, UnlockRelabel, Goto
    <3>4. pc[w] \in Retrying /\ to \in Retrying \ {"slow"}
      BY <3>3 DEF Retrying
    <3> QED
      BY <3>1, <3>2, <3>4, RoomSame
  <2> QED
    BY <1>3, <2>1, <2>2 DEF Join
<1>4. ASSUME NEW w \in Workers, Query(w) PROVE RoomInv'
  <2>1. \A v \in Workers : v # w => ord'[v] = ord[v]
    BY <1>4 DEF Query, QueryStart, QueryX, QueryY, QueryEnd, QueryReturn, local, TypeOK, LocalOK
  <2>2. UNCHANGED <<room, slow>>
    BY <1>4 DEF Query, QueryStart, QueryX, QueryY, QueryEnd, QueryReturn, data, local
  <2>3. PICK to \in {"queryx", "queryy", "querycheck", "queryagain", "answered", "idle"} :
          pc' = [pc EXCEPT ![w] = to]
    BY <1>4 DEF Query, QueryStart, QueryX, QueryY, QueryEnd, QueryReturn, Goto
  <2>4. to \notin Retrying \cup {"mark"}
    BY DEF Retrying
  <2> QED
    BY <2>1, <2>2, <2>3, <2>4, RoomSame
<1>5. CASE UNCHANGED vars
  BY <1>5 DEF vars, data, local, RoomInv, RoomOK
<1> QED
  BY <1>1, <1>2, <1>3, <1>4, <1>5, RoomInsert DEF Next, Step, Stopped

(* An insert that went through slow_path leaves its list roomy: the assert *)
(* after slow_path (omrd.cpp:221) never fails, whatever other workers and  *)
(* batches do between its rounds.                                          *)
THEOREM SlowPathLeavesRoom == Spec => []SlowPathGetsRoom
PROOF
<1>1. Init => RoomInv
  BY DEF Init, RoomInv, RoomOK, Retrying
<1>2. RoomInv => SlowPathGetsRoom
  BY DEF RoomInv, RoomOK, SlowPathGetsRoom
<1> QED
  BY <1>1, <1>2, RoomNext, TypeCorrect, PTL DEF Spec

-----------------------------------------------------------------------------
(* Queries. *)

(* A relabel that is not running has nothing left to write. *)
LeftInv ==
  /\ relabelId % 2 = 0 => \A o \in Orders : left[o] = {}
  /\ \A w \in Workers :
       /\ pc[w] = "endrelabel" => \A o \in Orders : left[o] = {}
       /\ pc[w] = "hebrew" /\ cont # "stolen" => left["english"] = {}
       /\ pc[w] = "english" /\ cont = "joined" => left["hebrew"] = {}

(* The labels of an order are shifted by a common amount, and by P more    *)
(* once the running relabel has written them.                              *)
LabelInv ==
  \A o \in Orders : \E c \in Int : \A x \in Nodes :
    label[o][x] = IF x \in left[o] THEN c + x ELSE c + P + x

(* A label read under an even g_relabel_id that has not changed since is   *)
(* the current one.                                                        *)
QueryInv ==
  \A w \in Workers :
    LET fresh == query[w].id % 2 = 0 /\ query[w].id = relabelId IN
    /\ pc[w] \in {"queryx", "queryy", "querycheck"} => query[w].id <= relabelId
    /\ pc[w] \in {"queryy", "querycheck"} /\ fresh =>
         query[w].lx = label[ord[w]][query[w].x]
    /\ pc[w] = "querycheck" /\ fresh =>
         query[w].ly = label[ord[w]][query[w].y]

(* The inductive invariant, on top of TypeOK, LockInv and BatchInv. *)
OrderInv == LeftInv /\ LabelInv /\ QueryInv /\ QueryCorrect

-----------------------------------------------------------------------------
(* Steps that change no label. *)

QueryPoints == {"queryx", "queryy", "querycheck", "answered"}

(* A step outside a query that changes no label, or changes labels while   *)
(* g_relabel_id is odd, leaves what queries rely on.                       *)
LEMMA QueryFrame ==
  ASSUME TypeOK, QueryInv, QueryCorrect, NEW w \in Workers, NEW to,
         pc' = [pc EXCEPT ![w] = to], to \notin QueryPoints,
         UNCHANGED query,
         \A v \in Workers : v # w => ord'[v] = ord[v],
         relabelId' \in {relabelId, relabelId + 1},
         label' = label \/ (relabelId % 2 = 1 /\ relabelId' = relabelId)
  PROVE  QueryInv' /\ QueryCorrect'
PROOF
<1>1. \A v \in Workers : v # w => pc'[v] = pc[v]
  BY DEF TypeOK, ControlOK
<1>2. pc'[w] = to
  BY DEF TypeOK, ControlOK
<1>3. QueryCorrect'
  BY <1>1, <1>2 DEF QueryCorrect, QueryPoints
<1>4. QueryInv'
  <2> SUFFICES ASSUME NEW v \in Workers, v # w
               PROVE  LET fresh == query[v].id % 2 = 0 /\ query[v].id = relabelId' IN
                      /\ pc[v] \in {"queryx", "queryy", "querycheck"} => query[v].id <= relabelId'
                      /\ pc[v] \in {"queryy", "querycheck"} /\ fresh =>
                           query[v].lx = label'[ord[v]][query[v].x]
                      /\ pc[v] = "querycheck" /\ fresh =>
                           query[v].ly = label'[ord[v]][query[v].y]
    BY <1>1, <1>2 DEF QueryInv, QueryPoints
  <2>1. relabelId \in Nat /\ query[v].id \in Nat
    BY DEF TypeOK, BatchOK, LocalOK, Queries
  <2>2. query[v].id <= relabelId => query[v].id <= relabelId'
    BY <2>1
  <2>3. query[v].id <= relabelId /\ query[v].id % 2 = 0 /\ query[v].id = relabelId' =>
          query[v].id = relabelId /\ label' = label
    <3>1. CASE relabelId' = relabelId
      BY <2>1, <3>1
    <3>2. CASE relabelId' = relabelId + 1
      <4>1. ~(relabelId + 1 <= relabelId)
        BY <2>1
      <4> QED
        BY <3>2, <4>1
    <3> QED
      BY <3>1, <3>2
  <2> QED
    BY <2>2, <2>3 DEF QueryInv
<1> QED
  BY <1>3, <1>4

(* A step that touches neither the relabel nor the queries. *)
LEMMA OrderFrame ==
  ASSUME TypeOK, OrderInv, NEW w \in Workers, NEW to,
         pc' = [pc EXCEPT ![w] = to], to \notin QueryPoints, to \notin Relabelling,
         UNCHANGED <<query, left, label, cont, relabelId>>,
         \A v \in Workers : v # w => ord'[v] = ord[v]
  PROVE  OrderInv'
PROOF
<1>1. QueryInv' /\ QueryCorrect'
  BY QueryFrame DEF OrderInv
<1>2. LabelInv'
  BY DEF OrderInv, LabelInv
<1>3. LeftInv'
  BY DEF OrderInv, LeftInv, Relabelling, TypeOK, ControlOK
<1> QED
  BY <1>1, <1>2, <1>3 DEF OrderInv

(* The steps of insert keep OrderInv. *)
LEMMA OrderInsert ==
  ASSUME TypeOK, OrderInv, NEW w \in Workers, Insert(w)
  PROVE  OrderInv'
PROOF
<1>1. UNCHANGED <<query, left, label, cont, relabelId>>
  BY DEF Insert, CallInsert, TryLockOwn, TryInsert, MarkHeavy, AddHeavy, UnlockOwn,
         SlowPath, SlowRelease, data, batchVars, local
<1>2. \A v \in Workers : v # w => ord'[v] = ord[v]
  BY DEF Insert, CallInsert, TryLockOwn, TryInsert, MarkHeavy, AddHeavy, UnlockOwn,
         SlowPath, SlowRelease, local, TypeOK, LocalOK
<1>3. PICK to \in {"idle", "trylock", "batchify"} \cup Inserting : pc' = [pc EXCEPT ![w] = to]
  BY DEF Insert, CallInsert, TryLockOwn, TryInsert, MarkHeavy, AddHeavy, UnlockOwn,
         SlowPath, SlowRelease, Goto, Inserting
<1>4. to \notin QueryPoints /\ to \notin Relabelling
  BY DEF QueryPoints, Relabelling, Inserting
<1> QED
  BY <1>1, <1>2, <1>3, <1>4, OrderFrame

(* The steps up to the ownership of a batch keep OrderInv. *)
LEMMA OrderStart ==
  ASSUME TypeOK, OrderInv, NEW w \in Workers, Start(w)
  PROVE  OrderInv'
PROOF
<1> DEFINE Targets == {"checkid", "tryrelabel", "setowner", "lockall", "invoke", "loop"}
<1>1. UNCHANGED <<query, ord, left, label, cont, relabelId>>
  BY DEF Start, Batchify, TryLockAll, TryRelabelMutex, SetNextBatchOwner, LockWorker,
         BecomeOwner, data, batchVars, local
<1>2. CASE UNCHANGED pc
  BY <1>1, <1>2 DEF OrderInv, LeftInv, LabelInv, QueryInv, QueryCorrect
<1>3. CASE \E to \in Targets : pc' = [pc EXCEPT ![w] = to]
  <2>1. PICK to \in Targets : pc' = [pc EXCEPT ![w] = to]
    BY <1>3
  <2>2. to \notin QueryPoints /\ to \notin Relabelling
    BY DEF QueryPoints, Relabelling
  <2> QED
    BY <1>1, <2>1, <2>2, OrderFrame
<1> QED
  BY <1>2, <1>3 DEF Start, Batchify, TryLockAll, TryRelabelMutex, SetNextBatchOwner, LockWorker,
                    BecomeOwner, Goto

(* The steps of execute_batch and the release of the locks keep OrderInv. *)
LEMMA OrderJoin ==
  ASSUME TypeOK, OrderInv, NEW w \in Workers, Join(w)
  PROVE  OrderInv'
PROOF
<1> DEFINE Targets == {"loop", "loopowner", "steal", "leave", "unlockall", "trylock"}
<1>1. UNCHANGED <<query, ord, left, label, relabelId>>
  BY DEF Join, LoopId, LoopOwner, StealBatch, LeaveBatch, UnlockWorker, UnlockRelabel,
         data, batchVars, local
<1>2. CASE UnlockWorker(w)
  BY <1>1, <1>2 DEF UnlockWorker, OrderInv, LeftInv, LabelInv, QueryInv, QueryCorrect
<1>3. CASE UNCHANGED cont /\ \E to \in Targets : pc' = [pc EXCEPT ![w] = to]
  <2>1. PICK to \in Targets : pc' = [pc EXCEPT ![w] = to]
    BY <1>3
  <2>2. to \notin QueryPoints /\ to \notin Relabelling
    BY DEF QueryPoints, Relabelling
  <2> QED
    BY <1>1, <1>3, <2>1, <2>2, OrderFrame
<1>4. CASE cont' = "stolen" /\ pc' = [pc EXCEPT ![w] = "hebrew"]
  <2>1. QueryInv' /\ QueryCorrect'
    <3>1. "hebrew" \notin QueryPoints
      BY DEF QueryPoints
    <3> QED
      BY <1>1, <1>4, <3>1, QueryFrame DEF OrderInv
  <2>2. LabelInv'
    BY <1>1 DEF OrderInv, LabelInv
  <2>3. LeftInv'
    BY <1>1, <1>4 DEF OrderInv, LeftInv, TypeOK, ControlOK
  <2> QED
    BY <2>1, <2>2, <2>3 DEF OrderInv
<1>5. LoopId(w) \/ LoopOwner(w) \/ LeaveBatch(w) \/ UnlockRelabel(w) =>
        UNCHANGED cont /\ \E to \in Targets : pc' = [pc EXCEPT ![w] = to]
  BY DEF LoopId, LoopOwner, LeaveBatch, UnlockRelabel, Goto, batchVars
<1>6. StealBatch(w) =>
        \/ UNCHANGED cont /\ \E to \in Targets : pc' = [pc EXCEPT ![w] = to]
        \/ cont' = "stolen" /\ pc' = [pc EXCEPT ![w] = "hebrew"]
  BY DEF StealBatch, Goto
<1> QED
  BY <1>2, <1>3, <1>4, <1>5, <1>6 DEF Join

(* The steps of the batch keep OrderInv. *)
LEMMA OrderBatch ==
  ASSUME TypeOK, BatchInv, OrderInv, NEW w \in Workers, Batch(w)
  PROVE  OrderInv'
PROOF
<1>0. relabelId \in Nat /\ P \in Nat
  BY PAssumption DEF TypeOK, BatchOK
<1>1. CASE InvokeBatch(w)
  <2>1. /\ pc' = [pc EXCEPT ![w] = "english"] /\ pc[w] = "invoke"
        /\ relabelId' = relabelId + 1 /\ cont' = "avail"
        /\ UNCHANGED <<label, query, ord>>
    BY <1>1 DEF InvokeBatch, Goto, local
  <2>2. \A o \in Orders : left'[o] \in {Nodes, {}}
    BY <1>1 DEF InvokeBatch
  <2>3. \A v \in Workers : v # w => pc[v] \notin BatchPoints
    BY <2>1, Alone DEF BatchPoints, Orders
  <2>4. pc'[w] = "english" /\ \A v \in Workers : v # w => pc'[v] = pc[v]
    BY <2>1 DEF TypeOK, ControlOK
  <2>5. relabelId % 2 = 0 /\ relabelId' % 2 = 1
    <3>1. relabelId % 2 # 1
      BY <2>1, <2>3 DEF BatchInv, ParityInv, Relabelling, BatchPoints
    <3> QED
      BY <1>0, <2>1, <3>1
  <2>6. QueryInv' /\ QueryCorrect'
    <3>1. "english" \notin QueryPoints
      BY DEF QueryPoints
    <3> QED
      BY <2>1, <3>1, QueryFrame DEF OrderInv
  <2>7. LeftInv'
    BY <2>1, <2>3, <2>4, <2>5 DEF LeftInv, BatchPoints
  <2>8. LabelInv'
    <3> SUFFICES ASSUME NEW o \in Orders
                 PROVE  \E c \in Int : \A x \in Nodes :
                          label[o][x] = IF x \in left'[o] THEN c + x ELSE c + P + x
      BY <2>1 DEF LabelInv
    <3>1. PICK c \in Int : \A x \in Nodes :
            label[o][x] = IF x \in left[o] THEN c + x ELSE c + P + x
      BY DEF OrderInv, LabelInv
    <3>2. left[o] = {}
      BY <2>5 DEF OrderInv, LeftInv
    <3>3. \A x \in Nodes : label[o][x] = c + P + x
      BY <3>1, <3>2
    <3>4. CASE left'[o] = {}
      BY <3>3, <3>4
    <3>5. CASE left'[o] = Nodes
      <4>1. c + P \in Int
        BY <1>0
      <4> QED
        BY <3>3, <3>5, <4>1
    <3> QED
      BY <2>2, <3>4, <3>5
  <2> QED
    BY <2>6, <2>7, <2>8 DEF OrderInv
<1>2. CASE WriteLabel(w)
  <2> DEFINE o == pc[w]
  <2>1. PICK x \in left[o] : /\ label' = [label EXCEPT ![o][x] = @ + P]
                             /\ left' = [left EXCEPT ![o] = @ \ {x}]
    BY <1>2 DEF WriteLabel
  <2>2. o \in Orders /\ UNCHANGED <<pc, cont, relabelId, query, ord>>
    BY <1>2 DEF WriteLabel, batchVars, local
  <2>3. relabelId % 2 = 1
    BY <2>2 DEF BatchInv, ParityInv, Relabelling, Orders
  <2>4. QueryInv' /\ QueryCorrect'
    <3>1. pc' = [pc EXCEPT ![w] = pc[w]] /\ pc[w] \notin QueryPoints
      BY <2>2 DEF TypeOK, ControlOK, QueryPoints, Orders
    <3> QED
      BY <2>2, <2>3, <3>1, QueryFrame DEF OrderInv
  <2> HIDE DEF o
  <2>5. /\ left'[o] = left[o] \ {x}
        /\ \A p \in Orders : p # o => left'[p] = left[p]
    BY <2>1, <2>2 DEF TypeOK, DataOK
  <2>6. LeftInv'
    <3>1. \A p \in Orders : left[p] = {} => left'[p] = {}
      BY <2>2, <2>5
    <3>2. "english" \in Orders /\ "hebrew" \in Orders
      BY DEF Orders
    <3> QED
      BY <1>0, <2>2, <2>3, <3>1, <3>2 DEF OrderInv, LeftInv
  <2>7. LabelInv'
    <3>1. x \in Nodes /\ label[o][x] \in Nat /\ Nodes \subseteq Int
      BY <2>2, <1>0 DEF TypeOK, DataOK, Nodes, Workers
    <3>2. label'[o] = [label[o] EXCEPT ![x] = label[o][x] + P]
      BY <2>1, <2>2 DEF TypeOK, DataOK
    <3>3. /\ label'[o][x] = label[o][x] + P
          /\ \A y \in Nodes : y # x => label'[o][y] = label[o][y]
      BY <2>2, <3>1, <3>2 DEF TypeOK, DataOK
    <3>4. \A p \in Orders : p # o => label'[p] = label[p]
      BY <2>1, <2>2 DEF TypeOK, DataOK
    <3>5. PICK c \in Int : \A y \in Nodes :
            label[o][y] = IF y \in left[o] THEN c + y ELSE c + P + y
      BY <2>2 DEF OrderInv, LabelInv
    <3>6. \A y \in Nodes : label'[o][y] = IF y \in left'[o] THEN c + y ELSE c + P + y
      <4> SUFFICES ASSUME NEW y \in Nodes
                   PROVE  label'[o][y] = IF y \in left'[o] THEN c + y ELSE c + P + y
        OBVIOUS
      <4>1. CASE y = x
        BY <1>0, <2>5, <3>1, <3>3, <3>5, <4>1
      <4>2. CASE y # x
        BY <2>5, <3>3, <3>5, <4>2
      <4> QED
        BY <4>1, <4>2
    <3> SUFFICES ASSUME NEW p \in Orders
                 PROVE  \E d \in Int : \A y \in Nodes :
                          label'[p][y] = IF y \in left'[p] THEN d + y ELSE d + P + y
      BY DEF LabelInv
    <3>7. CASE p = o
      BY <3>6, <3>7
    <3>8. CASE p # o
      BY <2>5, <3>4, <3>8 DEF OrderInv, LabelInv
    <3> QED
      BY <3>7, <3>8
  <2> QED
    BY <2>4, <2>6, <2>7 DEF OrderInv
<1>3. CASE RelabelDone(w)
  <2>1. /\ pc[w] \in Orders /\ left[pc[w]] = {}
        /\ UNCHANGED <<label, left, relabelId, query, ord>>
    BY <1>3 DEF RelabelDone, local
  <2>2. PICK to \in {"hebrew", "endrelabel", "loop"} : pc' = [pc EXCEPT ![w] = to]
    BY <1>3 DEF RelabelDone
  <2>3. pc'[w] = to /\ \A v \in Workers : v # w => pc'[v] = pc[v]
    BY <2>2 DEF TypeOK, ControlOK
  <2>4. QueryInv' /\ QueryCorrect'
    <3>1. to \notin QueryPoints
      BY DEF QueryPoints
    <3> QED
      BY <2>1, <2>2, <3>1, QueryFrame DEF OrderInv
  <2>5. LabelInv'
    BY <2>1 DEF OrderInv, LabelInv
  <2>6. relabelId % 2 = 1
    BY <2>1 DEF BatchInv, ParityInv, Relabelling, Orders
  <2>7. LeftInv'
    <3>0. ~(relabelId' % 2 = 0)
      BY <2>1, <2>6
    <3>1. CASE cont = "stolen"
      <4>1. to = "loop" /\ cont' = "joined"
        BY <1>3, <2>2, <2>3, <3>1 DEF RelabelDone, TypeOK, ControlOK
      <4>2. \A v \in Workers : v # w /\ pc[v] \in BatchPoints => pc[v] \in Orders /\ pc[v] # pc[w]
        BY <2>1 DEF BatchInv, AloneInv, Orders, BatchPoints
      <4> QED
        BY <2>1, <2>3, <3>0, <4>1, <4>2 DEF LeftInv, Orders, BatchPoints
    <3>2. CASE cont # "stolen"
      <4>1. \A v \in Workers : v # w => pc[v] \notin BatchPoints
        BY <2>1, <3>2, Alone DEF BatchPoints, Orders
      <4>2. CASE to = "endrelabel"
        <5>1. cont \in {"none", "joined"}
          BY <1>3, <2>2, <2>3, <3>2, <4>2 DEF RelabelDone, TypeOK, ControlOK
        <5>2. pc[w] = "english" => cont = "joined"
          BY <5>1 DEF BatchInv, ContInv
        <5>3. left["english"] = {} /\ left["hebrew"] = {}
          BY <2>1, <3>2, <5>2 DEF OrderInv, LeftInv, Orders
        <5> QED
          BY <2>1, <2>3, <3>0, <4>1, <4>2, <5>3 DEF LeftInv, Orders, BatchPoints
      <4>3. CASE to = "hebrew"
        <5>1. pc[w] = "english"
          BY <1>3, <2>2, <2>3, <3>2, <4>3 DEF RelabelDone, TypeOK, ControlOK
        <5> QED
          BY <2>1, <2>3, <3>0, <4>1, <4>3, <5>1 DEF LeftInv, BatchPoints
      <4>4. to # "loop"
        BY <1>3, <2>2, <2>3, <3>2 DEF RelabelDone, TypeOK, ControlOK
      <4> QED
        BY <4>2, <4>3, <4>4
    <3> QED
      BY <3>1, <3>2
  <2> QED
    BY <2>4, <2>5, <2>7 DEF OrderInv
<1>4. CASE EndRelabel(w)
  <2>1. /\ pc' = [pc EXCEPT ![w] = "termid"] /\ pc[w] = "endrelabel"
        /\ relabelId' = relabelId + 1 /\ UNCHANGED <<label, left, cont, query, ord>>
    BY <1>4 DEF EndRelabel, Goto, data, local
  <2>2. QueryInv' /\ QueryCorrect'
    <3>1. "termid" \notin QueryPoints
      BY DEF QueryPoints
    <3> QED
      BY <2>1, <3>1, QueryFrame DEF OrderInv
  <2>3. LabelInv'
    BY <2>1 DEF OrderInv, LabelInv
  <2>4. LeftInv'
    BY <2>1 DEF OrderInv, LeftInv, TypeOK, ControlOK
  <2> QED
    BY <2>2, <2>3, <2>4 DEF OrderInv
<1>5. CASE TerminateId(w) \/ TerminateOwner(w) \/ TerminateLock(w)
  <2>1. UNCHANGED <<query, ord, left, label, cont, relabelId>>
    BY <1>5 DEF TerminateId, TerminateOwner, TerminateLock, data, local, batchVars
  <2>2. PICK to \in {"termowner", "termlock", "loop"} : pc' = [pc EXCEPT ![w] = to]
    BY <1>5 DEF TerminateId, TerminateOwner, TerminateLock, Goto
  <2>3. to \notin QueryPoints /\ to \notin Relabelling
    BY DEF QueryPoints, Relabelling
  <2> QED
    BY <2>1, <2>2, <2>3, OrderFrame
<1> QED
  BY <1>1, <1>2, <1>3, <1>4, <1>5 DEF Batch

(* The steps of a query keep OrderInv; QUERY_END accepts only labels that  *)
(* no relabel has touched since the query began.                           *)
LEMMA OrderQuery ==
  ASSUME TypeOK, OrderInv, NEW w \in Workers, Query(w)
  PROVE  OrderInv'
PROOF
<1>0. relabelId \in Nat /\ query[w].id \in Nat
  BY DEF TypeOK, BatchOK, LocalOK, Queries
<1>1. UNCHANGED <<left, label, cont, relabelId>>
  BY DEF Query, QueryStart, QueryX, QueryY, QueryEnd, QueryReturn, data, batchVars
<1>2. PICK to \in QueryPoints \cup {"queryagain", "idle"} : pc' = [pc EXCEPT ![w] = to]
  BY DEF Query, QueryStart, QueryX, QueryY, QueryEnd, QueryReturn, Goto, QueryPoints
<1>3. pc'[w] = to /\ \A v \in Workers : v # w => pc'[v] = pc[v]
  BY <1>2 DEF TypeOK, ControlOK
<1>4. \A v \in Workers : v # w => query'[v] = query[v] /\ ord'[v] = ord[v]
  BY DEF Query, QueryStart, QueryX, QueryY, QueryEnd, QueryReturn, local, TypeOK, LocalOK
<1>5. LabelInv'
  BY <1>1 DEF OrderInv, LabelInv
<1>6. LeftInv'
  BY <1>1, <1>3 DEF OrderInv, LeftInv, QueryPoints
<1> DEFINE Fresh(q) == q.id % 2 = 0 /\ q.id = relabelId
           Known(p, q, o) ==
             /\ p \in {"queryx", "queryy", "querycheck"} => q.id <= relabelId
             /\ p \in {"queryy", "querycheck"} /\ Fresh(q) => q.lx = label[o][q.x]
             /\ p = "querycheck" /\ Fresh(q) => q.ly = label[o][q.y]
             /\ p = "answered" => ((q.lx < q.ly) <=> (q.x < q.y))
<1>7. SUFFICES Known(to, query'[w], ord'[w])
  <2>1. \A v \in Workers : Known(pc[v], query[v], ord[v])
    BY DEF OrderInv, QueryInv, QueryCorrect
  <2>2. \A v \in Workers : Known(pc'[v], query'[v], ord'[v])
    <3> HIDE DEF Known
    <3> QED
      BY <1>3, <1>4, <1>7, <2>1
  <2>3. QueryInv' /\ QueryCorrect'
    BY <1>1, <2>2 DEF QueryInv, QueryCorrect
  <2> QED
    BY <1>5, <1>6, <2>3 DEF OrderInv
<1>8. Known(pc[w], query[w], ord[w])
  BY DEF OrderInv, QueryInv, QueryCorrect
<1>9. query \in [Workers -> Queries]
  BY DEF TypeOK, LocalOK
<1>10. CASE QueryStart(w)
  <2>1. to = "queryx"
    BY <1>3, <1>10 DEF QueryStart, Goto, TypeOK, ControlOK
  <2>2. query'[w].id = relabelId
    <3>1. CASE \E x, y \in Nodes : query' =
                 [query EXCEPT ![w] = [NoQuery EXCEPT !.x = x, !.y = y, !.id = relabelId]]
      BY <1>9, <3>1 DEF NoQuery
    <3>2. CASE query' = [query EXCEPT ![w].id = relabelId]
      BY <1>9, <3>2 DEF Queries
    <3> QED
      BY <1>10, <3>1, <3>2 DEF QueryStart
  <2> QED
    BY <1>0, <2>1, <2>2
<1>11. CASE QueryX(w)
  <2>1. to = "queryy" /\ pc[w] = "queryx"
    BY <1>3, <1>11 DEF QueryX, Goto, TypeOK, ControlOK
  <2>2. /\ query'[w] = [query[w] EXCEPT !.lx = label[ord[w]][query[w].x]]
        /\ UNCHANGED ord
    BY <1>9, <1>11 DEF QueryX
  <2>3. /\ query'[w].lx = label[ord[w]][query[w].x]
        /\ query'[w].id = query[w].id /\ query'[w].x = query[w].x
    BY <1>9, <2>2 DEF Queries
  <2> QED
    BY <1>8, <2>1, <2>2, <2>3
<1>12. CASE QueryY(w)
  <2>1. to = "querycheck" /\ pc[w] = "queryy"
    BY <1>3, <1>12 DEF QueryY, Goto, TypeOK, ControlOK
  <2>2. /\ query'[w] = [query[w] EXCEPT !.ly = label[ord[w]][query[w].y]]
        /\ UNCHANGED ord
    BY <1>9, <1>12 DEF QueryY
  <2>3. /\ query'[w].ly = label[ord[w]][query[w].y] /\ query'[w].lx = query[w].lx
        /\ query'[w].id = query[w].id
        /\ query'[w].x = query[w].x /\ query'[w].y = query[w].y
    BY <1>9, <2>2 DEF Queries
  <2> QED
    BY <1>8, <2>1, <2>2, <2>3
<1>13. CASE QueryEnd(w)
  <2>1. pc[w] = "querycheck" /\ UNCHANGED <<query, ord>>
    BY <1>13 DEF QueryEnd, Goto, local
  <2>2. CASE to = "queryagain"
    BY <2>2
  <2>3. CASE to = "answered"
    <3>1. Fresh(query[w])
      BY <1>3, <1>13, <2>3 DEF QueryEnd, Goto, TypeOK, ControlOK
    <3>2. /\ query[w].lx = label[ord[w]][query[w].x]
          /\ query[w].ly = label[ord[w]][query[w].y]
      BY <1>8, <2>1, <3>1
    <3>3. ord[w] \in Orders /\ query[w].x \in Nodes /\ query[w].y \in Nodes
      BY <1>9 DEF TypeOK, LocalOK, Queries
    <3>4. left[ord[w]] = {}
      BY <3>1, <3>3 DEF OrderInv, LeftInv
    <3>5. PICK c \in Int : \A x \in Nodes :
            label[ord[w]][x] = IF x \in left[ord[w]] THEN c + x ELSE c + P + x
      BY <3>3 DEF OrderInv, LabelInv
    <3>6. query[w].lx = c + P + query[w].x /\ query[w].ly = c + P + query[w].y
      BY <3>2, <3>3, <3>4, <3>5
    <3>7. (query[w].lx < query[w].ly) <=> (query[w].x < query[w].y)
      BY <3>3, <3>6, PAssumption DEF Nodes, Workers
    <3> QED
      BY <2>1, <2>3, <3>7
  <2>4. to \in {"queryagain", "answered"}
    BY <1>3, <1>13 DEF QueryEnd, Goto, TypeOK, ControlOK
  <2> QED
    BY <2>2, <2>3, <2>4
<1>14. CASE QueryReturn(w)
  <2>1. to = "idle"
    BY <1>3, <1>14 DEF QueryReturn, Goto, TypeOK, ControlOK
  <2> QED
    BY <2>1
<1> QED
  BY <1>10, <1>11, <1>12, <1>13, <1>14 DEF Query

(* OrderInv holds initially: the labels of an order are the node numbers. *)
LEMMA OrderInit == Init => OrderInv
PROOF
<1> SUFFICES ASSUME Init PROVE OrderInv
  OBVIOUS
<1>1. LeftInv
  BY DEF Init, LeftInv, Orders
<1>2. LabelInv
  <2>1. P \in Int /\ Nodes \subseteq Int /\ (0 - P) \in Int
    BY PAssumption DEF Nodes, Workers
  <2>2. \A o \in Orders, x \in Nodes : label[o][x] = (0 - P) + P + x /\ x \notin left[o]
    BY <2>1 DEF Init
  <2> QED
    BY <2>1, <2>2 DEF LabelInv
<1>3. QueryInv /\ QueryCorrect
  BY DEF Init, QueryInv, QueryCorrect
<1> QED
  BY <1>1, <1>2, <1>3 DEF OrderInv

(* Every step keeps OrderInv. *)
LEMMA OrderNext == TypeOK /\ BatchInv /\ OrderInv /\ [Next]_vars => OrderInv'
PROOF
<1> SUFFICES ASSUME TypeOK, BatchInv, OrderInv, [Next]_vars PROVE OrderInv'
  OBVIOUS
<1>1. CASE \E w \in Workers : Step(w)
  BY <1>1, OrderInsert, OrderStart, OrderBatch, OrderJoin, OrderQuery DEF Step
<1>2. CASE UNCHANGED vars
  BY <1>2 DEF vars, data, batchVars, local, OrderInv, LeftInv, LabelInv, QueryInv, QueryCorrect
<1> QED
  BY <1>1, <1>2 DEF Next, Stopped

(* The sequence lock works for any number of workers: a query accepted by  *)
(* QUERY_END (check_mem.h:18) answers with the true order of its nodes.    *)
THEOREM QueriesCorrect == Spec => []QueryCorrect
PROOF
<1>1. OrderInv => QueryCorrect
  BY DEF OrderInv
<1> QED
  BY <1>1, TypeCorrect, BatchInvariant, OrderInit, OrderNext, PTL DEF Spec
=============================================================================
