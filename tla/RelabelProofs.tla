--------------------------- MODULE RelabelProofs ---------------------------
(***************************************************************************)
(* Proofs about Relabel, for every number of workers and every bound.      *)
(***************************************************************************)
EXTENDS Relabel, TLAPS

-----------------------------------------------------------------------------
(* Type correctness. *)

(* A step that moves one worker keeps the type of pc. *)
LEMMA GotoType ==
  ASSUME ControlOK, NEW w \in Workers, NEW from, NEW to \in Points, Goto(w, from, to)
  PROVE  pc' \in [Workers -> Points]
PROOF
  BY DEF ControlOK, Goto

(* Updating one entry of a two-level table keeps the table's type. *)
LEMMA TableUpdate ==
  ASSUME NEW A, NEW B, NEW S, NEW f \in [A -> [B -> S]],
         NEW a \in A, NEW b \in B, NEW v \in S
  PROVE  [f EXCEPT ![a][b] = v] \in [A -> [B -> S]]
PROOF
  OBVIOUS

(* The initial values of the variables have their types. *)
LEMMA TypeInit == Init => TypeOK
PROOF
<1> SUFFICES ASSUME Init PROVE TypeOK
  OBVIOUS
<1>1. ControlOK
  BY DEF Init, ControlOK, Points
<1>2. LocksOK
  BY DEF Init, LocksOK
<1>3. BatchOK
  <2>1. idx \in 0 .. P
    BY PAssumption DEF Init
  <2> QED
    BY <2>1 DEF Init, BatchOK
<1>4. DataOK
  BY PAssumption, GapAssumption DEF Init, DataOK, Workers, Nodes
<1>5. LocalOK
  BY PAssumption, BoundAssumption DEF Init, LocalOK, Queries, NoQuery, Workers, Nodes, Orders
<1> QED
  BY <1>1, <1>2, <1>3, <1>4, <1>5 DEF TypeOK

(* The steps of insert keep the types. *)
LEMMA TypeInsert ==
  ASSUME TypeOK, NEW w \in Workers, Insert(w)
  PROVE  TypeOK'
PROOF
<1> USE DEF TypeOK
<1>1. CASE CallInsert(w)
  <2>1. ControlOK'
    BY <1>1, GotoType DEF CallInsert, ControlOK, Points
  <2>2. LocalOK'
    BY <1>1 DEF CallInsert, LocalOK
  <2> QED
    BY <1>1, <2>1, <2>2 DEF CallInsert, locks, batchVars, data, LocksOK, BatchOK, DataOK
<1>2. CASE TryLockOwn(w)
  <2>1. ControlOK'
    BY <1>2, GotoType DEF TryLockOwn, ControlOK, Points
  <2>2. LocksOK'
    BY <1>2 DEF TryLockOwn, LocksOK
  <2> QED
    BY <1>2, <2>1, <2>2 DEF TryLockOwn, batchVars, data, local, BatchOK, DataOK, LocalOK
<1>3. CASE TryInsert(w)
  <2>1. ControlOK'
    BY <1>3, GotoType DEF TryInsert, ControlOK, Points
  <2>2. DataOK'
    <3>1. room' \in [Orders -> [Nodes -> 0 .. MaxGap]]
      <4>1. CASE UNCHANGED room
        BY <4>1 DEF DataOK
      <4>2. CASE room[ord[w]][w] > 0 /\ room' = [room EXCEPT ![ord[w]][w] = @ - 1]
        <5>1. ord[w] \in Orders /\ w \in Nodes
          BY DEF LocalOK, Nodes
        <5>2. room[ord[w]][w] \in 0 .. MaxGap
          BY <5>1 DEF DataOK
        <5>3. room[ord[w]][w] - 1 \in 0 .. MaxGap
          BY <4>2, <5>2, GapAssumption
        <5>4. room' = [room EXCEPT ![ord[w]][w] = room[ord[w]][w] - 1]
          BY <4>2
        <5> QED
          BY <5>1, <5>3, <5>4, TableUpdate DEF DataOK
      <4> QED
        BY <1>3, <4>1, <4>2 DEF TryInsert
    <3> QED
      BY <1>3, <3>1 DEF TryInsert, DataOK
  <2> QED
    BY <1>3, <2>1, <2>2 DEF TryInsert, locks, batchVars, local, LocksOK, BatchOK, LocalOK
<1>4. CASE MarkHeavy(w)
  <2>1. ControlOK'
    BY <1>4, GotoType DEF MarkHeavy, ControlOK, Points
  <2>2. DataOK'
    <3>1. ord[w] \in Orders /\ w \in Nodes
      BY DEF LocalOK, Nodes
    <3>2. list[ord[w]][w] \in Lists
      BY <3>1 DEF DataOK
    <3>3. TRUE \in BOOLEAN
      BY <3>1, <3>2 DEF DataOK
    <3>4. \/ heavy' = heavy
          \/ heavy' = [heavy EXCEPT ![ord[w]][list[ord[w]][w]] = TRUE]
      BY <1>4 DEF MarkHeavy
    <3>5. heavy' \in [Orders -> [Lists -> BOOLEAN]]
      <4>1. heavy \in [Orders -> [Lists -> BOOLEAN]]
        BY DEF DataOK
      <4>2. [heavy EXCEPT ![ord[w]][list[ord[w]][w]] = TRUE]
              \in [Orders -> [Lists -> BOOLEAN]]
        BY <3>1, <3>2, <3>3, <4>1, TableUpdate
      <4> QED
        BY <3>4, <4>1, <4>2
    <3> QED
      BY <1>4, <3>5 DEF MarkHeavy, DataOK
  <2> QED
    BY <1>4, <2>1, <2>2 DEF MarkHeavy, locks, batchVars, local, LocksOK, BatchOK, LocalOK
<1>5. CASE AddHeavy(w)
  <2>1. ControlOK'
    BY <1>5, GotoType DEF AddHeavy, ControlOK, Points
  <2>2. DataOK'
    <3>1. ord[w] \in Orders /\ w \in Nodes
      BY DEF LocalOK, Nodes
    <3>2. list[ord[w]][w] \in Lists
      BY <3>1 DEF DataOK
    <3>3. queued[ord[w]][list[ord[w]][w]] + 1 \in Nat
      BY <3>1, <3>2 DEF DataOK
    <3>4. \/ queued' = queued
          \/ queued' = [queued EXCEPT ![ord[w]][list[ord[w]][w]] = queued[ord[w]][list[ord[w]][w]] + 1]
      BY <1>5 DEF AddHeavy
    <3>5. queued' \in [Orders -> [Lists -> Nat]]
      <4>1. queued \in [Orders -> [Lists -> Nat]]
        BY DEF DataOK
      <4>2. [queued EXCEPT ![ord[w]][list[ord[w]][w]] = queued[ord[w]][list[ord[w]][w]] + 1]
              \in [Orders -> [Lists -> Nat]]
        BY <3>1, <3>2, <3>3, <4>1, TableUpdate
      <4> QED
        BY <3>4, <4>1, <4>2
    <3> QED
      BY <1>5, <3>5 DEF AddHeavy, DataOK
  <2> QED
    BY <1>5, <2>1, <2>2 DEF AddHeavy, locks, batchVars, local, LocksOK, BatchOK, LocalOK
<1>6. CASE UnlockOwn(w)
  <2>1. ControlOK'
    BY <1>6, GotoType DEF UnlockOwn, ControlOK, Points
  <2>2. LocksOK'
    BY <1>6 DEF UnlockOwn, LocksOK
  <2> QED
    BY <1>6, <2>1, <2>2 DEF UnlockOwn, batchVars, data, local, BatchOK, DataOK, LocalOK
<1>7. CASE SlowPath(w)
  <2>1. ControlOK'
    BY <1>7, GotoType DEF SlowPath, ControlOK, Points
  <2>2. DataOK'
    <3>1. ord[w] \in Orders /\ w \in Nodes
      BY DEF LocalOK, Nodes
    <3>2. list[ord[w]][w] \in Lists
      BY <3>1 DEF DataOK
    <3>3. TRUE \in BOOLEAN
      BY <3>1, <3>2 DEF DataOK
    <3>4. \/ heavy' = heavy
          \/ heavy' = [heavy EXCEPT ![ord[w]][list[ord[w]][w]] = TRUE]
      BY <1>7 DEF SlowPath
    <3>5. heavy' \in [Orders -> [Lists -> BOOLEAN]]
      <4>1. heavy \in [Orders -> [Lists -> BOOLEAN]]
        BY DEF DataOK
      <4>2. [heavy EXCEPT ![ord[w]][list[ord[w]][w]] = TRUE]
              \in [Orders -> [Lists -> BOOLEAN]]
        BY <3>1, <3>2, <3>3, <4>1, TableUpdate
      <4> QED
        BY <3>4, <4>1, <4>2
    <3> QED
      BY <1>7, <3>5 DEF SlowPath, DataOK
  <2>3. LocalOK'
    BY <1>7 DEF SlowPath, LocalOK
  <2> QED
    BY <1>7, <2>1, <2>2, <2>3 DEF SlowPath, locks, batchVars, LocksOK, BatchOK
<1>8. CASE SlowRelease(w)
  <2>1. ControlOK'
    BY <1>8, GotoType DEF SlowRelease, ControlOK, Points
  <2>2. LocksOK'
    BY <1>8 DEF SlowRelease, LocksOK
  <2>3. BatchOK'
    BY <1>8 DEF SlowRelease, BatchOK
  <2> QED
    BY <1>8, <2>1, <2>2, <2>3 DEF SlowRelease, data, local, DataOK, LocalOK
<1> QED
  BY <1>1, <1>2, <1>3, <1>4, <1>5, <1>6, <1>7, <1>8 DEF Insert

(* The steps from cilk_batchify to the ownership of a batch keep the types. *)
LEMMA TypeStart ==
  ASSUME TypeOK, NEW w \in Workers, Start(w)
  PROVE  TypeOK'
PROOF
<1> USE DEF TypeOK
<1>1. CASE Batchify(w)
  <2>1. ControlOK'
    BY <1>1, GotoType DEF Batchify, ControlOK, Points
  <2>2. BatchOK'
    BY <1>1 DEF Batchify, BatchOK
  <2> QED
    BY <1>1, <2>1, <2>2 DEF Batchify, locks, data, local, LocksOK, DataOK, LocalOK
<1>2. CASE TryLockAll(w)
  <2>1. ControlOK'
    BY <1>2, GotoType DEF TryLockAll, ControlOK, Points
  <2> QED
    BY <1>2, <2>1 DEF TryLockAll, locks, batchVars, data, local, LocksOK, BatchOK, DataOK, LocalOK
<1>3. CASE TryRelabelMutex(w)
  <2>1. ControlOK'
    BY <1>3, GotoType DEF TryRelabelMutex, ControlOK, Points
  <2>2. LocksOK'
    BY <1>3 DEF TryRelabelMutex, LocksOK
  <2> QED
    BY <1>3, <2>1, <2>2 DEF TryRelabelMutex, batchVars, data, local, BatchOK, DataOK, LocalOK
<1>4. CASE SetNextBatchOwner(w)
  <2>1. ControlOK'
    BY <1>4, GotoType DEF SetNextBatchOwner, ControlOK, Points
  <2>2. LocksOK'
    BY <1>4 DEF SetNextBatchOwner, LocksOK
  <2>3. BatchOK'
    BY <1>4, PAssumption DEF SetNextBatchOwner, BatchOK
  <2> QED
    BY <1>4, <2>1, <2>2, <2>3 DEF SetNextBatchOwner, data, local, DataOK, LocalOK
<1>5. CASE LockWorker(w)
  <2>1. LocksOK'
    BY <1>5, PAssumption DEF LockWorker, LocksOK, BatchOK, Workers
  <2>2. BatchOK'
    BY <1>5, PAssumption DEF LockWorker, BatchOK
  <2> QED
    BY <1>5, <2>1, <2>2 DEF LockWorker, data, local, ControlOK, DataOK, LocalOK
<1>6. CASE BecomeOwner(w)
  <2>1. ControlOK'
    BY <1>6, GotoType DEF BecomeOwner, ControlOK, Points
  <2>2. BatchOK'
    BY <1>6 DEF BecomeOwner, BatchOK
  <2> QED
    BY <1>6, <2>1, <2>2 DEF BecomeOwner, locks, data, local, LocksOK, DataOK, LocalOK
<1> QED
  BY <1>1, <1>2, <1>3, <1>4, <1>5, <1>6 DEF Start

(* The split of the heavy lists of one order keeps the types. *)
LEMMA SplitType ==
  ASSUME DataOK, NEW o \in Orders, Split(o)
  PROVE  /\ room' \in [Orders -> [Nodes -> 0 .. MaxGap]]
         /\ list' \in [Orders -> [Nodes -> Lists]]
         /\ heavy' \in [Orders -> [Lists -> BOOLEAN]]
         /\ queued' \in [Orders -> [Lists -> Nat]]
PROOF
<1> DEFINE Moved == {x \in Nodes : queued[o][list[o][x]] > 0}
           Free  == Lists \ {list[o][x] : x \in Nodes \ Moved}
<1>1. room' \in [Orders -> [Nodes -> 0 .. MaxGap]]
  <2>1. room' = [room EXCEPT ![o] = [x \in Nodes |-> IF x \in Moved THEN MaxGap ELSE room[o][x]]]
    BY DEF Split, DataOK
  <2>2. MaxGap \in 0 .. MaxGap
    BY GapAssumption
  <2> HIDE DEF Moved
  <2>3. [x \in Nodes |-> IF x \in Moved THEN MaxGap ELSE room[o][x]] \in [Nodes -> 0 .. MaxGap]
    BY <2>2 DEF DataOK
  <2> QED
    BY <2>1, <2>3 DEF DataOK
<1>2. list' \in [Orders -> [Nodes -> Lists]]
  <2>1. PICK f \in [Moved -> Free] :
          list' = [list EXCEPT ![o] = [x \in Nodes |-> IF x \in Moved THEN f[x] ELSE @[x]]]
    BY DEF Split
  <2>2. \A x \in Moved : f[x] \in Lists
    OBVIOUS
  <2>3. list' = [list EXCEPT ![o] = [x \in Nodes |-> IF x \in Moved THEN f[x] ELSE list[o][x]]]
    BY <2>1 DEF DataOK
  <2> HIDE DEF Moved
  <2>4. [x \in Nodes |-> IF x \in Moved THEN f[x] ELSE list[o][x]] \in [Nodes -> Lists]
    BY <2>2 DEF DataOK
  <2> QED
    BY <2>3, <2>4 DEF DataOK
<1>3. heavy' \in [Orders -> [Lists -> BOOLEAN]]
  <2>1. heavy' = [heavy EXCEPT ![o] = [l \in Lists |-> heavy[o][l] /\ queued[o][l] = 0]]
    BY DEF Split, DataOK
  <2>2. [l \in Lists |-> heavy[o][l] /\ queued[o][l] = 0] \in [Lists -> BOOLEAN]
    OBVIOUS
  <2> QED
    BY <2>1, <2>2 DEF DataOK
<1>4. queued' \in [Orders -> [Lists -> Nat]]
  BY DEF Split, DataOK
<1> QED
  BY <1>1, <1>2, <1>3, <1>4

(* The steps of the batch keep the types. *)
LEMMA TypeBatch ==
  ASSUME TypeOK, NEW w \in Workers, Batch(w)
  PROVE  TypeOK'
PROOF
<1> USE DEF TypeOK
<1>1. CASE InvokeBatch(w)
  <2>1. ControlOK'
    BY <1>1, GotoType DEF InvokeBatch, ControlOK, Points
  <2>2. BatchOK'
    BY <1>1 DEF InvokeBatch, BatchOK
  <2>3. DataOK'
    BY <1>1 DEF InvokeBatch, DataOK
  <2> QED
    BY <1>1, <2>1, <2>2, <2>3 DEF InvokeBatch, locks, local, LocksOK, LocalOK
<1>2. CASE WriteLabel(w)
  <2>1. DataOK'
    <3> DEFINE o == pc[w]
    <3>1. PICK x \in left[o] :
            /\ label' = [label EXCEPT ![o][x] = @ + P]
            /\ left' = [left EXCEPT ![o] = @ \ {x}]
      BY <1>2 DEF WriteLabel
    <3>2. o \in Orders /\ x \in Nodes
      BY <1>2 DEF WriteLabel, DataOK
    <3> HIDE DEF o
    <3>3. label' \in [Orders -> [Nodes -> Nat]]
      <4>1. label \in [Orders -> [Nodes -> Nat]]
        BY DEF DataOK
      <4>2. label[o][x] + P \in Nat
        BY <3>2, <4>1, PAssumption
      <4>3. label' = [label EXCEPT ![o][x] = label[o][x] + P]
        BY <3>1
      <4> QED
        BY <3>2, <4>1, <4>2, <4>3, TableUpdate
    <3>4. left' \in [Orders -> SUBSET Nodes]
      BY <3>1, <3>2 DEF DataOK
    <3> QED
      BY <1>2, <3>3, <3>4 DEF WriteLabel, DataOK
  <2> QED
    BY <1>2, <2>1 DEF WriteLabel, locks, batchVars, local, ControlOK, LocksOK, BatchOK, LocalOK
<1>3. CASE RelabelDone(w)
  <2>1. ControlOK'
    BY <1>3, GotoType DEF RelabelDone, ControlOK, Points
  <2>2. BatchOK'
    BY <1>3 DEF RelabelDone, BatchOK
  <2>3. DataOK'
    BY <1>3, SplitType DEF RelabelDone, TypeOK, DataOK
  <2> QED
    BY <1>3, <2>1, <2>2, <2>3 DEF RelabelDone, locks, local, LocksOK, LocalOK
<1>4. CASE EndRelabel(w)
  <2>1. ControlOK'
    BY <1>4, GotoType DEF EndRelabel, ControlOK, Points
  <2>2. BatchOK'
    BY <1>4 DEF EndRelabel, BatchOK
  <2> QED
    BY <1>4, <2>1, <2>2 DEF EndRelabel, locks, data, local, LocksOK, DataOK, LocalOK
<1>5. CASE TerminateId(w)
  <2>1. ControlOK'
    BY <1>5, GotoType DEF TerminateId, ControlOK, Points
  <2>2. BatchOK'
    BY <1>5 DEF TerminateId, BatchOK
  <2> QED
    BY <1>5, <2>1, <2>2 DEF TerminateId, locks, data, local, LocksOK, DataOK, LocalOK
<1>6. CASE TerminateOwner(w)
  <2>1. ControlOK'
    BY <1>6, GotoType DEF TerminateOwner, ControlOK, Points
  <2>2. LocksOK'
    BY <1>6 DEF TerminateOwner, LocksOK
  <2> QED
    BY <1>6, <2>1, <2>2 DEF TerminateOwner, batchVars, data, local, BatchOK, DataOK, LocalOK
<1>7. CASE TerminateLock(w)
  <2>1. ControlOK'
    BY <1>7, GotoType DEF TerminateLock, ControlOK, Points
  <2>2. LocksOK'
    BY <1>7 DEF TerminateLock, LocksOK
  <2> QED
    BY <1>7, <2>1, <2>2 DEF TerminateLock, batchVars, data, local, BatchOK, DataOK, LocalOK
<1> QED
  BY <1>1, <1>2, <1>3, <1>4, <1>5, <1>6, <1>7 DEF Batch

(* The steps of execute_batch and the release of the locks keep the types. *)
LEMMA TypeJoin ==
  ASSUME TypeOK, NEW w \in Workers, Join(w)
  PROVE  TypeOK'
PROOF
<1> USE DEF TypeOK
<1>1. CASE LoopId(w)
  <2>1. ControlOK'
    BY <1>1, GotoType DEF LoopId, ControlOK, Points
  <2> QED
    BY <1>1, <2>1 DEF LoopId, locks, batchVars, data, local, LocksOK, BatchOK, DataOK, LocalOK
<1>2. CASE LoopOwner(w)
  <2>1. ControlOK'
    BY <1>2, GotoType DEF LoopOwner, ControlOK, Points
  <2> QED
    BY <1>2, <2>1 DEF LoopOwner, locks, batchVars, data, local, LocksOK, BatchOK, DataOK, LocalOK
<1>3. CASE StealBatch(w)
  <2>1. ControlOK'
    BY <1>3, GotoType DEF StealBatch, ControlOK, Points
  <2>2. BatchOK'
    BY <1>3 DEF StealBatch, BatchOK
  <2> QED
    BY <1>3, <2>1, <2>2 DEF StealBatch, locks, data, local, LocksOK, DataOK, LocalOK
<1>4. CASE LeaveBatch(w)
  <2>1. ControlOK'
    BY <1>4, GotoType DEF LeaveBatch, ControlOK, Points
  <2>2. BatchOK'
    <3>1. idx' \in 0 .. P
      BY <1>4, PAssumption DEF LeaveBatch, BatchOK
    <3>2. batchId' \in [Workers -> Nat \cup {None}]
      BY <1>4 DEF LeaveBatch, BatchOK
    <3>3. inProgress' \in BOOLEAN /\ batchOwner' \in Workers \cup {None}
      BY <1>4 DEF LeaveBatch, BatchOK
    <3> QED
      BY <1>4, <3>1, <3>2, <3>3 DEF LeaveBatch, BatchOK
  <2>3. LocalOK'
    BY <1>4 DEF LeaveBatch, LocalOK
  <2> QED
    BY <1>4, <2>1, <2>2, <2>3 DEF LeaveBatch, locks, data, LocksOK, DataOK
<1>5. CASE UnlockWorker(w)
  <2>1. LocksOK'
    BY <1>5 DEF UnlockWorker, LocksOK
  <2>2. BatchOK'
    BY <1>5, PAssumption DEF UnlockWorker, BatchOK
  <2> QED
    BY <1>5, <2>1, <2>2 DEF UnlockWorker, data, local, ControlOK, DataOK, LocalOK
<1>6. CASE UnlockRelabel(w)
  <2>1. ControlOK'
    BY <1>6, GotoType DEF UnlockRelabel, ControlOK, Points
  <2>2. LocksOK'
    BY <1>6 DEF UnlockRelabel, LocksOK
  <2> QED
    BY <1>6, <2>1, <2>2 DEF UnlockRelabel, batchVars, data, local, BatchOK, DataOK, LocalOK
<1> QED
  BY <1>1, <1>2, <1>3, <1>4, <1>5, <1>6 DEF Join

(* The steps of a query keep the types. *)
LEMMA TypeQuery ==
  ASSUME TypeOK, NEW w \in Workers, Query(w)
  PROVE  TypeOK'
PROOF
<1> USE DEF TypeOK
<1>1. CASE QueryStart(w)
  <2>1. ControlOK'
    BY <1>1, GotoType DEF QueryStart, ControlOK, Points
  <2>2. LocalOK'
    <3>1. query' \in [Workers -> Queries]
      <4>1. CASE \E x, y \in Nodes : query' =
                   [query EXCEPT ![w] = [NoQuery EXCEPT !.x = x, !.y = y, !.id = relabelId]]
        <5>1. \A x, y \in Nodes : [NoQuery EXCEPT !.x = x, !.y = y, !.id = relabelId] \in Queries
          BY DEF NoQuery, Queries, BatchOK
        <5> QED
          BY <4>1, <5>1 DEF LocalOK
      <4>2. CASE query' = [query EXCEPT ![w].id = relabelId]
        BY <4>2 DEF LocalOK, BatchOK, Queries
      <4> QED
        BY <1>1, <4>1, <4>2 DEF QueryStart
    <3>2. ord' \in [Workers -> Orders]
      BY <1>1 DEF QueryStart, LocalOK
    <3>3. queries' \in Nat
      <4>1. queries' = queries \/ (queries > 0 /\ queries' = queries - 1)
        BY <1>1 DEF QueryStart
      <4> QED
        BY <4>1 DEF LocalOK
    <3> QED
      BY <1>1, <3>1, <3>2, <3>3 DEF QueryStart, LocalOK
  <2> QED
    BY <1>1, <2>1, <2>2 DEF QueryStart, locks, batchVars, data, LocksOK, BatchOK, DataOK
<1>2. CASE QueryX(w)
  <2>1. ControlOK'
    BY <1>2, GotoType DEF QueryX, ControlOK, Points
  <2>2. LocalOK'
    <3>1. query[w].x \in Nodes /\ ord[w] \in Orders
      BY DEF LocalOK, Queries
    <3>2. label[ord[w]][query[w].x] \in Nat
      BY <3>1 DEF DataOK
    <3>3. query' = [query EXCEPT ![w].lx = label[ord[w]][query[w].x]]
      BY <1>2 DEF QueryX
    <3>4. query' \in [Workers -> Queries]
      BY <3>2, <3>3 DEF LocalOK, Queries
    <3> QED
      BY <1>2, <3>4 DEF QueryX, LocalOK
  <2> QED
    BY <1>2, <2>1, <2>2 DEF QueryX, locks, batchVars, data, LocksOK, BatchOK, DataOK
<1>3. CASE QueryY(w)
  <2>1. ControlOK'
    BY <1>3, GotoType DEF QueryY, ControlOK, Points
  <2>2. LocalOK'
    <3>1. query[w].y \in Nodes /\ ord[w] \in Orders
      BY DEF LocalOK, Queries
    <3>2. label[ord[w]][query[w].y] \in Nat
      BY <3>1 DEF DataOK
    <3>3. query' = [query EXCEPT ![w].ly = label[ord[w]][query[w].y]]
      BY <1>3 DEF QueryY
    <3>4. query' \in [Workers -> Queries]
      BY <3>2, <3>3 DEF LocalOK, Queries
    <3> QED
      BY <1>3, <3>4 DEF QueryY, LocalOK
  <2> QED
    BY <1>3, <2>1, <2>2 DEF QueryY, locks, batchVars, data, LocksOK, BatchOK, DataOK
<1>4. CASE QueryEnd(w)
  <2>1. ControlOK'
    BY <1>4, GotoType DEF QueryEnd, ControlOK, Points
  <2> QED
    BY <1>4, <2>1 DEF QueryEnd, locks, batchVars, data, local, LocksOK, BatchOK, DataOK, LocalOK
<1>5. CASE QueryReturn(w)
  <2>1. ControlOK'
    BY <1>5, GotoType DEF QueryReturn, ControlOK, Points
  <2>2. LocalOK'
    <3>1. NoQuery \in Queries
      BY PAssumption DEF NoQuery, Queries, Nodes, Workers
    <3> QED
      BY <1>5, <3>1 DEF QueryReturn, LocalOK
  <2> QED
    BY <1>5, <2>1, <2>2 DEF QueryReturn, locks, batchVars, data, LocksOK, BatchOK, DataOK
<1> QED
  BY <1>1, <1>2, <1>3, <1>4, <1>5 DEF Query

(* Every step keeps the types. *)
LEMMA TypeNext == TypeOK /\ [Next]_vars => TypeOK'
PROOF
<1> SUFFICES ASSUME TypeOK, [Next]_vars PROVE TypeOK'
  OBVIOUS
<1>1. CASE \E w \in Workers : Step(w)
  BY <1>1, TypeInsert, TypeStart, TypeBatch, TypeJoin, TypeQuery DEF Step
<1>2. CASE UNCHANGED vars
  BY <1>2 DEF vars, locks, batchVars, data, local, TypeOK, ControlOK, LocksOK,
              BatchOK, DataOK, LocalOK
<1> QED
  BY <1>1, <1>2 DEF Next, Stopped

(* Type correctness: in every reachable state of omrd.cpp and batcher.c the *)
(* variables hold the values TypeOK gives them.                            *)
THEOREM TypeCorrect == Spec => []TypeOK
PROOF
  BY TypeInit, TypeNext, PTL DEF Spec
-----------------------------------------------------------------------------
(* Who holds what.  A worker inside insert holds its own lock; the owner   *)
(* of a batch, from its last lock to its first unlock, holds them all.     *)

(* The control points of a worker that owns the batch in progress. *)
OwnerPoints == {"invoke", "english", "hebrew", "endrelabel", "termid", "termowner",
                "termlock", "loop", "loopowner", "steal", "leave"}

(* The control points at which a worker holds g_relabel_mutex but is not   *)
(* the owner of a batch: before it becomes the owner and after.            *)
MutexPoints == {"setowner", "lockall", "unlockall"}

(* The inductive invariant of the worker locks and g_relabel_mutex. *)
LockInv ==
  /\ inProgress <=> batchOwner # None
  /\ \A w \in Workers :
       /\ pc[w] \in Inserting => mut[w] = w
       /\ pc[w] \in MutexPoints => relabelMutex = w
       /\ pc[w] = "lockall" => \A v \in Workers : v < idx => mut[v] = w
       /\ pc[w] = "unlockall" => \A v \in Workers : v >= idx => mut[v] = w
       /\ batchOwner = w => /\ relabelMutex = w
                            /\ pc[w] \in OwnerPoints
                            /\ \A v \in Workers : mut[v] = w

(* A step that moves one worker and changes no lock keeps LockInv, unless  *)
(* the worker begins or ends to hold something.                            *)
LEMMA LockFrame ==
  ASSUME TypeOK, LockInv, NEW w \in Workers, NEW to,
         pc' = [pc EXCEPT ![w] = to],
         to \notin MutexPoints,
         to \in Inserting => pc[w] \in Inserting,
         pc[w] \in OwnerPoints => to \in OwnerPoints,
         UNCHANGED <<mut, relabelMutex, inProgress, batchOwner, idx>>
  PROVE  LockInv'
PROOF
  BY DEF TypeOK, ControlOK, LockInv, MutexPoints

(* The steps of insert keep LockInv. *)
LEMMA LockInsert ==
  ASSUME TypeOK, LockInv, NEW w \in Workers, Insert(w)
  PROVE  LockInv'
PROOF
<1>1. CASE CallInsert(w)
  BY <1>1, LockFrame DEF CallInsert, Goto, locks, batchVars, MutexPoints, Inserting, OwnerPoints
<1>2. CASE TryLockOwn(w)
  <2>1. CASE mut[w] # None
    BY <1>2, <2>1, LockFrame DEF TryLockOwn, Goto, batchVars, MutexPoints, Inserting, OwnerPoints
  <2>2. CASE mut[w] = None
    <3>1. /\ pc' = [pc EXCEPT ![w] = "insert"] /\ mut' = [mut EXCEPT ![w] = w]
          /\ UNCHANGED <<relabelMutex, inProgress, batchOwner, idx>>
      BY <1>2, <2>2 DEF TryLockOwn, Goto, batchVars
    <3>2. \A v \in Workers : mut[w] # v
      BY <2>2 DEF None, Workers
    <3> QED
      BY <3>1, <3>2 DEF TypeOK, ControlOK, LocksOK, LockInv, MutexPoints, OwnerPoints
  <2> QED
    BY <2>1, <2>2
<1>3. CASE TryInsert(w)
  BY <1>3, LockFrame DEF TryInsert, Goto, locks, batchVars, MutexPoints, Inserting, OwnerPoints
<1>4. CASE MarkHeavy(w)
  BY <1>4, LockFrame DEF MarkHeavy, Goto, locks, batchVars, MutexPoints, Inserting, OwnerPoints
<1>5. CASE AddHeavy(w)
  BY <1>5, LockFrame DEF AddHeavy, Goto, locks, batchVars, MutexPoints, Inserting, OwnerPoints
<1>6. CASE UnlockOwn(w) \/ SlowRelease(w)
  <2>1. PICK to \in {"idle", "batchify"} : pc' = [pc EXCEPT ![w] = to]
    BY <1>6 DEF UnlockOwn, SlowRelease, Goto
  <2>2. /\ pc[w] \in Inserting /\ mut' = [mut EXCEPT ![w] = None]
        /\ UNCHANGED <<relabelMutex, inProgress, batchOwner, idx>>
    BY <1>6 DEF UnlockOwn, SlowRelease, Goto, batchVars, Inserting
  <2>3. mut[w] = w
    BY <2>2 DEF LockInv
  <2>4. batchOwner # w
    BY <2>2 DEF LockInv, OwnerPoints, Inserting
  <2>5. \A v \in Workers : v # w => batchOwner # v
    BY <2>3 DEF LockInv
  <2> QED
    BY <2>1, <2>2, <2>3, <2>4, <2>5
    DEF TypeOK, ControlOK, LocksOK, LockInv, MutexPoints, Inserting
<1>7. CASE SlowPath(w)
  BY <1>7, LockFrame DEF SlowPath, Goto, locks, batchVars, MutexPoints, Inserting, OwnerPoints
<1> QED
  BY <1>1, <1>2, <1>3, <1>4, <1>5, <1>6, <1>7 DEF Insert

(* The steps from cilk_batchify to the ownership of a batch keep LockInv. *)
LEMMA LockStart ==
  ASSUME TypeOK, LockInv, NEW w \in Workers, Start(w)
  PROVE  LockInv'
PROOF
<1>1. CASE Batchify(w)
  BY <1>1, LockFrame DEF Batchify, Goto, locks, MutexPoints, Inserting, OwnerPoints
<1>2. CASE TryLockAll(w)
  BY <1>2, LockFrame DEF TryLockAll, Goto, locks, batchVars, MutexPoints, Inserting, OwnerPoints
<1>3. CASE TryRelabelMutex(w)
  <2>1. CASE relabelMutex # None
    BY <1>3, <2>1, LockFrame DEF TryRelabelMutex, Goto, batchVars, MutexPoints, Inserting, OwnerPoints
  <2>2. CASE relabelMutex = None
    <3>1. /\ pc' = [pc EXCEPT ![w] = "setowner"] /\ relabelMutex' = w
          /\ UNCHANGED <<mut, inProgress, batchOwner, idx>>
      BY <1>3, <2>2 DEF TryRelabelMutex, Goto, batchVars
    <3>2. \A v \in Workers : relabelMutex # v
      BY <2>2 DEF None, Workers
    <3> QED
      BY <3>1, <3>2 DEF TypeOK, ControlOK, LockInv, MutexPoints, Inserting
  <2> QED
    BY <2>1, <2>2
<1>4. CASE SetNextBatchOwner(w)
  <2>1. CASE lock
    BY <1>4, <2>1 DEF SetNextBatchOwner, LockInv
  <2>2. CASE ~lock
    <3>1. /\ pc' = [pc EXCEPT ![w] = "lockall"] /\ idx' = 0 /\ pc[w] = "setowner"
          /\ UNCHANGED <<mut, relabelMutex, inProgress, batchOwner>>
      BY <1>4, <2>2 DEF SetNextBatchOwner, Goto
    <3>2. relabelMutex = w
      BY <3>1 DEF LockInv, MutexPoints
    <3>3. \A v \in Workers : v # w => pc[v] \notin MutexPoints
      BY <3>2 DEF LockInv
    <3>4. \A v \in Workers : batchOwner # v
      BY <3>1, <3>2 DEF LockInv, OwnerPoints
    <3>5. \A v \in Workers : ~(v < 0)
      BY DEF Workers
    <3> QED
      BY <3>1, <3>2, <3>3, <3>4, <3>5 DEF TypeOK, ControlOK, LockInv, MutexPoints, Inserting
  <2> QED
    BY <2>1, <2>2
<1>5. CASE LockWorker(w)
  <2>1. /\ pc[w] = "lockall" /\ mut[idx] = None /\ idx' = idx + 1 /\ idx \in Workers
        /\ mut' = [mut EXCEPT ![idx] = w]
        /\ UNCHANGED <<pc, relabelMutex, inProgress, batchOwner>>
    BY <1>5, PAssumption DEF LockWorker, TypeOK, BatchOK, Workers
  <2>2. \A v \in Workers : mut[idx] # v
    BY <2>1 DEF None, Workers
  <2>3. relabelMutex = w
    BY <2>1 DEF LockInv, MutexPoints
  <2>4. \A v \in Workers : v # w => pc[v] \notin MutexPoints
    BY <2>3 DEF LockInv
  <2>5. \A v \in Workers : v < idx + 1 => v < idx \/ v = idx
    BY <2>1 DEF Workers
  <2> QED
    BY <2>1, <2>2, <2>3, <2>4, <2>5 DEF TypeOK, ControlOK, LocksOK, LockInv, MutexPoints, Inserting
<1>6. CASE BecomeOwner(w)
  <2>1. /\ pc' = [pc EXCEPT ![w] = "invoke"] /\ pc[w] = "lockall"
        /\ idx = P /\ inProgress' /\ batchOwner' = w
        /\ UNCHANGED <<mut, relabelMutex, idx>>
    BY <1>6 DEF BecomeOwner, Goto, locks
  <2>2. w # None
    BY DEF None, Workers
  <2>3. relabelMutex = w
    BY <2>1 DEF LockInv, MutexPoints
  <2>4. \A v \in Workers : mut[v] = w
    <3>1. \A v \in Workers : v < idx
      BY <2>1, PAssumption DEF Workers
    <3> QED
      BY <2>1, <3>1 DEF LockInv
  <2> QED
    BY <2>1, <2>2, <2>3, <2>4 DEF TypeOK, ControlOK, LockInv, MutexPoints, Inserting, OwnerPoints
<1> QED
  BY <1>1, <1>2, <1>3, <1>4, <1>5, <1>6 DEF Start

(* The steps of the batch keep LockInv: they change no worker lock. *)
LEMMA LockBatch ==
  ASSUME TypeOK, LockInv, NEW w \in Workers, Batch(w)
  PROVE  LockInv'
PROOF
<1> USE DEF Goto, MutexPoints, Inserting, OwnerPoints
<1>1. CASE InvokeBatch(w)
  BY <1>1, LockFrame DEF InvokeBatch, locks
<1>2. CASE WriteLabel(w)
  BY <1>2 DEF WriteLabel, locks, batchVars, LockInv
<1>3. CASE RelabelDone(w)
  BY <1>3, LockFrame DEF RelabelDone, locks
<1>4. CASE EndRelabel(w)
  BY <1>4, LockFrame DEF EndRelabel, locks
<1>5. CASE TerminateId(w)
  BY <1>5, LockFrame DEF TerminateId, locks
<1>6. CASE TerminateOwner(w)
  BY <1>6, LockFrame DEF TerminateOwner, batchVars
<1>7. CASE TerminateLock(w)
  BY <1>7, LockFrame DEF TerminateLock, batchVars
<1> QED
  BY <1>1, <1>2, <1>3, <1>4, <1>5, <1>6, <1>7 DEF Batch

(* The steps of execute_batch and the release of the locks keep LockInv. *)
LEMMA LockJoin ==
  ASSUME TypeOK, LockInv, NEW w \in Workers, Join(w)
  PROVE  LockInv'
PROOF
<1>1. CASE LoopId(w)
  BY <1>1, LockFrame DEF LoopId, Goto, locks, batchVars, MutexPoints, Inserting, OwnerPoints
<1>2. CASE LoopOwner(w)
  BY <1>2, LockFrame DEF LoopOwner, Goto, locks, batchVars, MutexPoints, Inserting, OwnerPoints
<1>3. CASE StealBatch(w)
  BY <1>3, LockFrame DEF StealBatch, Goto, locks, MutexPoints, Inserting, OwnerPoints
<1>4. CASE LeaveBatch(w)
  <2>1. CASE batchOwner # w
    <3>1. /\ pc' = [pc EXCEPT ![w] = "trylock"]
          /\ UNCHANGED <<mut, relabelMutex, inProgress, batchOwner, idx>>
      BY <1>4, <2>1 DEF LeaveBatch, Goto, locks
    <3> QED
      BY <2>1, <3>1 DEF TypeOK, ControlOK, LockInv, MutexPoints, Inserting
  <2>2. CASE batchOwner = w
    <3>1. /\ pc' = [pc EXCEPT ![w] = "unlockall"] /\ ~inProgress' /\ batchOwner' = None
          /\ UNCHANGED <<mut, relabelMutex>>
      BY <1>4, <2>2 DEF LeaveBatch, Goto, locks
    <3>2. relabelMutex = w /\ \A v \in Workers : mut[v] = w
      BY <2>2 DEF LockInv
    <3>3. \A v \in Workers : v # w => pc[v] \notin MutexPoints
      BY <3>2 DEF LockInv
    <3>4. \A v \in Workers : None # v
      BY DEF None, Workers
    <3> QED
      BY <3>1, <3>2, <3>3, <3>4 DEF TypeOK, ControlOK, LockInv, MutexPoints, Inserting
  <2> QED
    BY <2>1, <2>2
<1>5. CASE UnlockWorker(w)
  <2>1. /\ pc[w] = "unlockall" /\ idx' = idx + 1 /\ idx \in Workers
        /\ mut' = [mut EXCEPT ![idx] = None]
        /\ UNCHANGED <<pc, relabelMutex, inProgress, batchOwner>>
    BY <1>5, PAssumption DEF UnlockWorker, TypeOK, BatchOK, Workers
  <2>2. relabelMutex = w /\ mut[idx] = w
    BY <2>1 DEF LockInv, MutexPoints, Workers
  <2>3. \A v \in Workers : v # w => pc[v] \notin MutexPoints
    BY <2>2 DEF LockInv
  <2>4. \A v \in Workers : batchOwner # v
    BY <2>1, <2>2 DEF LockInv, OwnerPoints
  <2>5. \A v \in Workers : v >= idx + 1 => v >= idx /\ v # idx
    BY <2>1 DEF Workers
  <2> QED
    BY <2>1, <2>2, <2>3, <2>4, <2>5 DEF TypeOK, ControlOK, LocksOK, LockInv, MutexPoints, Inserting
<1>6. CASE UnlockRelabel(w)
  <2>1. /\ pc' = [pc EXCEPT ![w] = "trylock"] /\ pc[w] = "unlockall"
        /\ UNCHANGED <<mut, inProgress, batchOwner, idx>>
    BY <1>6 DEF UnlockRelabel, Goto, batchVars
  <2>2. relabelMutex = w
    BY <2>1 DEF LockInv, MutexPoints
  <2>3. \A v \in Workers : v # w => pc[v] \notin MutexPoints
    BY <2>2 DEF LockInv
  <2>4. \A v \in Workers : batchOwner # v
    BY <2>1, <2>2 DEF LockInv, OwnerPoints
  <2> QED
    BY <2>1, <2>2, <2>3, <2>4 DEF TypeOK, ControlOK, LockInv, MutexPoints, Inserting
<1> QED
  BY <1>1, <1>2, <1>3, <1>4, <1>5, <1>6 DEF Join

(* The steps of a query keep LockInv: a query holds no lock. *)
LEMMA LockQuery ==
  ASSUME TypeOK, LockInv, NEW w \in Workers, Query(w)
  PROVE  LockInv'
PROOF
<1> USE DEF Goto, locks, batchVars, MutexPoints, Inserting, OwnerPoints
<1>1. CASE QueryStart(w)
  BY <1>1, LockFrame DEF QueryStart
<1>2. CASE QueryX(w)
  BY <1>2, LockFrame DEF QueryX
<1>3. CASE QueryY(w)
  BY <1>3, LockFrame DEF QueryY
<1>4. CASE QueryEnd(w)
  BY <1>4, LockFrame DEF QueryEnd
<1>5. CASE QueryReturn(w)
  BY <1>5, LockFrame DEF QueryReturn
<1> QED
  BY <1>1, <1>2, <1>3, <1>4, <1>5 DEF Query

(* LockInv holds initially. *)
LEMMA LockInit == Init => LockInv
PROOF
  BY DEF Init, LockInv, Inserting, MutexPoints, None, Workers

(* Every step keeps LockInv. *)
LEMMA LockNext == TypeOK /\ LockInv /\ [Next]_vars => LockInv'
PROOF
<1> SUFFICES ASSUME TypeOK, LockInv, [Next]_vars PROVE LockInv'
  OBVIOUS
<1>1. CASE \E w \in Workers : Step(w)
  BY <1>1, LockInsert, LockStart, LockBatch, LockJoin, LockQuery DEF Step
<1>2. CASE UNCHANGED vars
  BY <1>2 DEF vars, locks, batchVars, LockInv
<1> QED
  BY <1>1, <1>2 DEF Next, Stopped

(* LockInv is an invariant. *)
LEMMA LockInvariant == Spec => []LockInv
PROOF
  BY TypeCorrect, LockInit, LockNext, PTL DEF Spec

(* Inserts exclude batches, for any number of workers: the asserts of      *)
(* try_insert and add_heavy (omrd.cpp:134, 141) never fail.                *)
THEOREM InsertsExcludeBatches == Spec => []InsertsExcludeBatch
PROOF
<1>1. TypeOK /\ LockInv => InsertsExcludeBatch
  <2> SUFFICES ASSUME TypeOK, LockInv, NEW w \in Workers, pc[w] \in Inserting, inProgress
               PROVE  FALSE
    BY DEF InsertsExcludeBatch
  <2>1. PICK b \in Workers : batchOwner = b
    BY DEF LockInv, TypeOK, BatchOK
  <2>2. b = w
    BY <2>1 DEF LockInv
  <2> QED
    BY <2>1, <2>2 DEF LockInv, Inserting, OwnerPoints
<1> QED
  BY <1>1, TypeCorrect, LockInvariant, PTL

(* Every worker unlocks only what it holds: pthread_spin_unlock in insert, *)
(* slow_path and join_batch is called by the holder.                       *)
THEOREM UnlocksByHolder == Spec => []UnlockedByHolder
PROOF
<1>1. TypeOK /\ LockInv => UnlockedByHolder
  <2> SUFFICES ASSUME TypeOK, LockInv, NEW w \in Workers
               PROVE  /\ pc[w] \in Inserting => mut[w] = w
                      /\ pc[w] = "unlockall" =>
                           /\ relabelMutex = w
                           /\ idx < P => mut[idx] = w
    BY DEF UnlockedByHolder
  <2>1. idx < P => idx \in Workers /\ idx >= idx
    BY PAssumption DEF TypeOK, BatchOK, Workers
  <2> QED
    BY <2>1 DEF LockInv, MutexPoints
<1> QED
  BY <1>1, TypeCorrect, LockInvariant, PTL
=============================================================================
