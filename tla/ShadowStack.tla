---------------------------- MODULE ShadowStack ----------------------------
(***************************************************************************)
(* The shadow stacks of rdtool/src/shadow_stack.cpp (with stack.h, pool.h  *)
(* and current.h): how the callbacks of a running program maintain the     *)
(* nodes and lists from which Precedes answers whether one strand of the   *)
(* dag reaches another.                                                    *)
(*                                                                         *)
(* The program and the runtime under it (own, acts, suspended, pc) are     *)
(* modelled by the callbacks they cause: a worker calls, spawns, creates   *)
(* and gets futures, syncs and returns as it likes; an idle worker steals  *)
(* the oldest continuation of a deque or resumes a deque whose future is   *)
(* done.  A deque in the runtime is the sequence of the activations that   *)
(* its worker can still return to; its shadow stack also holds copies of   *)
(* the older frames, which were stolen.                                    *)
(*                                                                         *)
(* strands is a history: one entry per Current object with the strands     *)
(* that reach it in the dag.                                               *)
(***************************************************************************)
EXTENDS FutureLists, SequencesExt

CONSTANTS Workers,
          Budgets  \* bounds: how often a program does what, see Budget

Budget == [call : Nat, spawn : Nat, create : Nat, get : Nat, steal : Nat]

ASSUME BudgetsAssumption == Workers # {} /\ Budgets \subseteq Budget

VARIABLES
  om,         \* the English and the Hebrew order of the nodes
  heap,       \* the List objects; a pointer is an index, NULL is 0
  shadow,     \* per worker: the shadow stack of its active deque
  called_future, \* per worker: thread-local flag
  strands,    \* history: the Current objects and their ancestors
  cur,        \* per worker: current, an index of strands
  own,        \* per worker: the activations on its deque in the runtime
  acts,       \* the activations of functions, oldest first
  suspended,  \* deques that wait for a future, with their shadow stacks
  pc,         \* per worker: where it is between two callbacks
  left        \* what the program may still do (bound)

vars == <<om, heap, shadow, called_future, strands, cur, own, acts, suspended, pc, left>>

-----------------------------------------------------------------------------
(* Stacks of frames (stack.h).  tail is the oldest frame that was not      *)
(* stolen; above says whether the frame that was popped last, which is     *)
(* still in memory above the head, is a helper's.                          *)

EmptyStack == [frames |-> <<>>, tail |-> 1, above |-> FALSE]

TopFrame(stack)      == stack.frames[Len(stack.frames)]
ParentFrame(stack)    == stack.frames[Len(stack.frames) - 1]
SetTop(stack, f)   == [stack EXCEPT !.frames[Len(stack.frames)] = f]
SetParent(stack, f) == [stack EXCEPT !.frames[Len(stack.frames) - 1] = f]

push(stack, f) == [stack EXCEPT !.frames = Append(@, f), !.above = FALSE]

pop(stack) ==
  LET n == Len(stack.frames) - 1
  IN  [frames |-> SubSeq(stack.frames, 1, n),
       tail |-> IF n < stack.tail THEN n ELSE stack.tail,
       above |-> TopFrame(stack).helper]

(* steal_top: the thief copies the frames up to the next helper's. *)
NextHelper(stack) ==
  LET n == Len(stack.frames)
      helpers == {i \in stack.tail + 1..n : stack.frames[i].helper}
                 \cup IF stack.above THEN {n + 1} ELSE {}
  IN  CHOOSE i \in helpers : \A j \in helpers : i <= j

StolenFrames(stack) ==
  [frames |-> SubSeq(stack.frames, 1, NextHelper(stack) - 1),
   tail |-> stack.tail, above |-> FALSE]

(* Mutant: the victim's tail stays. *)
LeftFramesSame(stack) == stack

LeftFrames(stack) ==
  LET n == Len(stack.frames)
  IN  [stack EXCEPT !.tail = IF NextHelper(stack) > n THEN n ELSE NextHelper(stack)]

-----------------------------------------------------------------------------
(* Frames: FrameData_t.  node, cont, sync and steal_* stand for the pairs  *)
(* of an English and a Hebrew node.  act is the activation the frame is a  *)
(* copy for (not in the code).                                             *)

NewFrame(act, helper, node, list, future_id) ==
  [act |-> act, helper |-> helper, node |-> node, cont |-> 0, sync |-> 0,
   steal_cont |-> 0, steal_sync |-> 0, steal_list |-> 0,
   list |-> list, sync_list |-> 0, ori_list |-> 0, future_id |-> future_id]

(* The Current of a frame, reached by the strands in preds. *)
Strand(frame, preds) ==
  [node |-> frame.node, list |-> frame.list, future_id |-> frame.future_id,
   anc |-> preds \cup UNION {strands[s].anc : s \in preds}]

(* Worker w goes on with the head frame of its stack as a new strand. *)
Continue(w, stack, preds) ==
  /\ strands' = Append(strands, Strand(TopFrame(stack), preds))
  /\ cur' = [cur EXCEPT ![w] = Len(strands) + 1]
  /\ shadow' = [shadow EXCEPT ![w] = stack]

Act(w)     == own[w][Len(own[w])]
IsDetached(a) == acts[a].kind \in {"spawn", "future"}
Use(what)  == left[what] > 0 /\ left' = [left EXCEPT ![what] = @ - 1]

(* The spawned children of a that have not returned. *)
Outstanding(a) == {c \in DOMAIN acts : acts[c].parent = a /\ acts[c].kind = "spawn" /\ ~acts[c].done}

NewAct(kind, parent, from) ==
  [kind |-> kind, parent |-> parent, done |-> FALSE,
   from |-> from,     \* the strand that made it
   at |-> 0,          \* the strand of its last spawn or create
   ended |-> {},      \* the last strands of the children since its last sync
   waits |-> 0,       \* the strand that waits in a sync
   last |-> 0, fom |-> 0]  \* of a future: its last strand, its list

(* The first frame: init_strand without a frame to copy. *)
Init ==
  /\ om = [e |-> [n \in {1} |-> 1], h |-> [n \in {1} |-> 1]]
  /\ heap = <<EmptyList>>
  /\ called_future = [w \in Workers |-> FALSE]
  /\ strands = <<[node |-> 1, list |-> 1, future_id |-> 0, anc |-> {}]>>
  /\ acts = <<NewAct("root", 0, 0)>>
  /\ suspended = {}
  /\ left \in Budgets
  /\ \E first \in Workers :
       /\ shadow = [w \in Workers |-> IF w = first
                      THEN push(EmptyStack, NewFrame(1, FALSE, 1, 1, 0)) ELSE EmptyStack]
       /\ cur = [w \in Workers |-> IF w = first THEN 1 ELSE 0]
       /\ own = [w \in Workers |-> IF w = first THEN <<1>> ELSE <<>>]
       /\ pc = [w \in Workers |-> IF w = first THEN "run" ELSE "idle"]

Running(w) == pc[w] = "run"

-----------------------------------------------------------------------------
(* Calls *)

(* do_enter_begin: a called function has its caller's strand. *)
Enter(w) ==
  LET f == TopFrame(shadow[w])
      a == Len(acts) + 1
  IN  /\ Running(w) /\ Use("call")
      /\ acts' = Append(acts, NewAct("call", Act(w), cur[w]))
      /\ own' = [own EXCEPT ![w] = Append(@, a)]
      /\ shadow' = [shadow EXCEPT ![w] = push(@, NewFrame(a, FALSE, f.node, f.list, f.future_id))]
      /\ UNCHANGED <<om, heap, called_future, strands, cur, suspended, pc>>

(* do_leave_begin, do_leave_end: return from a call.  The caller may be a  *)
(* full frame, one that is not on this worker's deque.                     *)
LeaveCall(w) ==
  LET a == Act(w)
      child == TopFrame(shadow[w])
      parent == ParentFrame(shadow[w])
  IN  /\ Running(w) /\ acts[a].kind = "call" /\ child.sync = 0
      /\ acts' = [acts EXCEPT ![a].done = TRUE]
      /\ own' = [own EXCEPT ![w] = IF Len(@) > 1 THEN Front(@) ELSE <<acts[a].parent>>]
      /\ called_future' = [called_future EXCEPT ![w] = FALSE]
      /\ Continue(w, pop(SetParent(shadow[w], [parent EXCEPT !.node = child.node, !.list = child.list])),
                  {cur[w]})
      /\ UNCHANGED <<om, heap, suspended, pc, left>>

-----------------------------------------------------------------------------
(* Spawn and sync *)

(* do_detach_begin: the names of the nodes it makes.  The first spawn      *)
(* after a sync also makes the node of the next sync.                      *)
First(f)     == f.sync = 0
SyncNode(f)  == IF First(f) THEN Cardinality(DOMAIN om.e) + 1 ELSE f.sync
ChildNode(f) == Cardinality(DOMAIN om.e) + (IF First(f) THEN 2 ELSE 1)
ContNode(f)  == ChildNode(f) + 1

(* Mutant: the Hebrew order as the English one. *)
DetachedSame(f) ==
  LET Synced(order) == IF First(f) THEN insert(order, f.node, SyncNode(f)) ELSE order
      English(order) == insert(insert(order, f.node, ChildNode(f)), ChildNode(f), ContNode(f))
  IN  [e |-> English(Synced(om.e)), h |-> English(Synced(om.h))]

(* Mutant: the node of the sync is inserted last. *)
DetachedSyncLast(f) ==
  LET Synced(order) == IF First(f) THEN insert(order, f.node, SyncNode(f)) ELSE order
  IN  [e |-> Synced(insert(insert(om.e, f.node, ChildNode(f)), ChildNode(f), ContNode(f))),
       h |-> Synced(insert(insert(om.h, f.node, ContNode(f)), ContNode(f), ChildNode(f)))]

(* Child before continuation in the English order, continuation before     *)
(* child in the Hebrew one, both before the sync.                          *)
Detached(f) ==
  LET Synced(order) == IF First(f) THEN insert(order, f.node, SyncNode(f)) ELSE order
  IN  [e |-> insert(insert(Synced(om.e), f.node, ChildNode(f)), ChildNode(f), ContNode(f)),
       h |-> insert(insert(Synced(om.h), f.node, ContNode(f)), ContNode(f), ChildNode(f))]

DetachedHeap(f) == IF First(f) THEN Append(heap, EmptyList) ELSE heap

(* Mutant: the current list serves as the sync list. *)
DetachingParentShared(f) ==
  [f EXCEPT !.sync = SyncNode(f), !.cont = ContNode(f), !.node = 0,
            !.steal_cont = 0, !.steal_sync = 0, !.steal_list = 0,
            !.sync_list = IF First(f) THEN f.list ELSE @,
            !.ori_list = IF First(f) THEN f.list ELSE @]

DetachingParent(f) ==
  [f EXCEPT !.sync = SyncNode(f), !.cont = ContNode(f), !.node = 0,
            !.steal_cont = 0, !.steal_sync = 0, !.steal_list = 0,
            !.sync_list = IF First(f) THEN Len(heap) + 1 ELSE @,
            !.ori_list = IF First(f) THEN f.list ELSE @]

(* The worker runs the child that f detaches; acts and own follow. *)
Detach(w, kind) ==
  /\ ~TopFrame(shadow[w]).helper
  /\ acts' = [Append(acts, NewAct(kind, Act(w), cur[w])) EXCEPT ![Act(w)].at = cur[w]]
  /\ own' = [own EXCEPT ![w] = Append(@, Len(acts) + 1)]
  /\ om' = Detached(TopFrame(shadow[w]))

Spawn(w) ==
  LET f == TopFrame(shadow[w])
      child == NewFrame(Len(acts) + 1, TRUE, ChildNode(f), f.list, f.future_id)
  IN  /\ Running(w) /\ Use("spawn")
      /\ Detach(w, "spawn")
      /\ heap' = DetachedHeap(f)
      /\ Continue(w, push(SetTop(shadow[w], DetachingParent(f)), child), {cur[w]})
      /\ UNCHANGED <<called_future, suspended, pc>>

(* Mutant: the child's list is dropped. *)
MergeNothing(h, list, l) == h

(* Merge into sync_list, under its lock. *)
MergeInto(h, list, l) == [h EXCEPT ![list] = Merge(om, @, h[l])]

(* do_leave_begin, do_leave_end: return from a spawn whose parent is still *)
(* on the deque.                                                           *)
LeaveSpawn(w) ==
  LET a == Act(w)
      child == TopFrame(shadow[w])
      parent == ParentFrame(shadow[w])
  IN  /\ Running(w) /\ acts[a].kind = "spawn" /\ Len(own[w]) > 1
      /\ heap' = IF parent.list = child.list THEN heap
                 ELSE MergeInto(heap, parent.sync_list, child.list)
      /\ acts' = [acts EXCEPT ![a].done = TRUE, ![acts[a].parent].ended = @ \cup {cur[w]}]
      /\ own' = [own EXCEPT ![w] = Front(@)]
      /\ called_future' = [called_future EXCEPT ![w] = FALSE]
      /\ Continue(w, pop(SetParent(shadow[w], [parent EXCEPT !.node = parent.cont, !.cont = 0])),
                  {acts[acts[a].parent].at})
      /\ UNCHANGED <<om, suspended, pc, left>>

(* What do_leave_stolen makes of the copy of the parent: ready for the     *)
(* strand after the sync, should this worker be the last to arrive.        *)
LeaveStolenParent(parent) ==
  [parent EXCEPT !.steal_cont = parent.cont, !.steal_sync = parent.sync,
                 !.steal_list = parent.list,
                 !.node = parent.sync, !.cont = 0, !.sync = 0]

(* do_leave_begin, do_leave_stolen: the parent was stolen. *)
LeaveStolen(w) ==
  LET child == TopFrame(shadow[w])
      parent == ParentFrame(shadow[w])
  IN  /\ Running(w) /\ acts[Act(w)].kind = "spawn" /\ Len(own[w]) = 1
      /\ heap' = IF parent.list = child.list THEN heap
                 ELSE MergeInto(heap, parent.sync_list, child.list)
      /\ shadow' = [shadow EXCEPT ![w] = pop(SetParent(@, LeaveStolenParent(parent)))]
      /\ called_future' = [called_future EXCEPT ![w] = FALSE]
      /\ pc' = [pc EXCEPT ![w] = "returning"]
      /\ UNCHANGED <<om, strands, cur, own, acts, suspended, left>>

(* do_sync_begin of a function that has spawned since its last sync.       *)
(* (Otherwise it does nothing.)                                            *)
SyncBegin(w) ==
  LET f == TopFrame(shadow[w])
  IN  /\ Running(w) /\ ~f.helper /\ f.sync # 0
      /\ shadow' = [shadow EXCEPT ![w] = SetTop(@, [f EXCEPT !.node = f.sync, !.sync = 0])]
      /\ heap' = IF f.list = f.ori_list THEN heap ELSE MergeInto(heap, f.sync_list, f.list)
      /\ pc' = [pc EXCEPT ![w] = "sync"]
      /\ UNCHANGED <<om, called_future, strands, cur, own, acts, suspended, left>>

(* do_sync_end *)
Synced(f) ==
  [f EXCEPT !.list = IF f.sync_list # 0 /\ ~Empty(heap[f.sync_list]) THEN f.sync_list ELSE @,
            !.sync_list = 0]

SyncEnd(w) ==
  LET a == Act(w)
  IN  /\ pc[w] = "sync" /\ Outstanding(a) = {}
      /\ Continue(w, SetTop(shadow[w], Synced(TopFrame(shadow[w]))), {cur[w]} \cup acts[a].ended)
      /\ acts' = [acts EXCEPT ![a].ended = {}]
      /\ pc' = [pc EXCEPT ![w] = "run"]
      /\ UNCHANGED <<om, heap, called_future, own, suspended, left>>

GoIdle(w) ==
  /\ own' = [own EXCEPT ![w] = <<>>]
  /\ shadow' = [shadow EXCEPT ![w] = EmptyStack]
  /\ cur' = [cur EXCEPT ![w] = 0]
  /\ pc' = [pc EXCEPT ![w] = "idle"]

(* The runtime: a sync with children outstanding suspends the function. *)
SyncWait(w) ==
  LET a == Act(w)
  IN  /\ pc[w] = "sync" /\ Outstanding(a) # {}
      /\ acts' = [acts EXCEPT ![a].waits = cur[w]]
      /\ GoIdle(w)
      /\ UNCHANGED <<om, heap, called_future, strands, suspended, left>>

(* The runtime after do_leave_stolen: the last child to return goes on     *)
(* with a parent that waits in its sync, on its own copy of the frame.     *)
ReturnFromSpawn(w) ==
  LET a == Act(w)
      p == acts[a].parent
      returned == [acts EXCEPT ![a].done = TRUE, ![p].ended = @ \cup {cur[w]}]
  IN  /\ pc[w] = "returning"
      /\ \/ /\ acts[p].waits # 0 /\ Outstanding(p) = {a}
            /\ Continue(w, SetTop(shadow[w], Synced(TopFrame(shadow[w]))),
                        {acts[p].waits} \cup returned[p].ended)
            /\ acts' = [returned EXCEPT ![p].waits = 0, ![p].ended = {}]
            /\ own' = [own EXCEPT ![w] = <<p>>]
            /\ pc' = [pc EXCEPT ![w] = "run"]
         \/ /\ acts[p].waits = 0 \/ Outstanding(p) # {a}
            /\ acts' = returned
            /\ GoIdle(w)
            /\ UNCHANGED strands
      /\ UNCHANGED <<om, heap, called_future, suspended, left>>

-----------------------------------------------------------------------------
(* Futures *)

FutureIds == Cardinality({a \in DOMAIN acts : acts[a].kind = "future"})

(* CilkFutureCreate: the node at which the future is created goes into the *)
(* list of the future and of its creator.                                  *)
CilkFutureCreate(w) ==
  LET f == TopFrame(shadow[w])
      list == IF Empty(heap[f.list]) THEN ListOfNode(Node(f.node), f.future_id)
              ELSE ListWithNode(om, heap[f.list], Node(f.node), f.future_id)
      created == Append(DetachedHeap(f), list)
      child == NewFrame(Len(acts) + 1, TRUE, ChildNode(f), Len(created), FutureIds + 1)
  IN  /\ Running(w) /\ Use("create")
      /\ Detach(w, "future")
      /\ heap' = created
      /\ Continue(w, push(SetTop(shadow[w], [DetachingParent(f) EXCEPT !.list = Len(created)]), child),
                  {cur[w]})
      /\ UNCHANGED <<called_future, suspended, pc>>

(* Mutant: the thief will not know where to continue. *)
FinishedParentUnsaved(parent) == [parent EXCEPT !.node = parent.cont, !.cont = 0]

(* What CilkFutureFinish makes of the parent, which a thief may still take. *)
FinishedParent(parent) ==
  [parent EXCEPT !.steal_cont = parent.cont, !.steal_sync = parent.sync,
                 !.steal_list = parent.list,
                 !.node = parent.cont, !.cont = 0]

FinishedList(child) == ListWithNode(om, heap[child.list], Node(child.node), child.future_id)

(* CilkFutureFinish, and resume_deques' exchange that makes it known. *)
CilkFutureFinish(w) ==
  LET a == Act(w)
      child == TopFrame(shadow[w])
  IN  /\ Running(w) /\ acts[a].kind = "future"
      /\ called_future' = [called_future EXCEPT ![w] = TRUE]
      /\ heap' = Append(heap, FinishedList(child))
      /\ acts' = [acts EXCEPT ![a].done = TRUE, ![a].last = cur[w], ![a].fom = Len(heap) + 1]
      /\ shadow' = [shadow EXCEPT ![w] = pop(SetParent(@, FinishedParent(ParentFrame(@))))]
      /\ pc' = [pc EXCEPT ![w] = "finished"]
      /\ UNCHANGED <<om, strands, cur, own, suspended, left>>

(* The future's helper leaves.  Its worker goes on with the parent, as the *)
(* Current that CilkFutureFinish made; if the parent was stolen meanwhile, *)
(* do_leave_stolen returns at once, as called_future is set.               *)
LeaveFuture(w) ==
  LET p == acts[Act(w)].parent
  IN  /\ pc[w] = "finished" /\ called_future[w]
      /\ \/ /\ Len(own[w]) > 1
            /\ own' = [own EXCEPT ![w] = Front(@)]
            /\ Continue(w, shadow[w], {acts[p].at})
            /\ pc' = [pc EXCEPT ![w] = "run"]
         \/ Len(own[w]) = 1 /\ GoIdle(w) /\ UNCHANGED strands
      /\ UNCHANGED <<om, heap, called_future, acts, suspended, left>>

(* The futures whose handle the strand of w has: created before it. *)
Known(w) == {a \in DOMAIN acts : acts[a].kind = "future" /\ acts[a].from \in strands[cur[w]].anc}

(* CilkFutureGet of a future that is done. *)
CilkFutureGet(w, a) ==
  LET f == TopFrame(shadow[w])
  IN  /\ Running(w) /\ a \in Known(w) /\ acts[a].done /\ Use("get")
      /\ heap' = Append(heap, ListOfLists(om, heap[f.list], heap[acts[a].fom]))
      /\ Continue(w, SetTop(shadow[w], [f EXCEPT !.list = Len(heap) + 1]), {cur[w], acts[a].last})
      /\ UNCHANGED <<om, called_future, own, acts, suspended, pc>>

(* CilkFutureGet of another one: SuspendSelf takes the shadow stack away   *)
(* from the worker.  (A future does not wait for itself: the programs      *)
(* whose gets cannot return are left out.)                                 *)
CilkFutureGetSuspend(w, a) ==
  /\ Running(w) /\ a \in Known(w) /\ ~acts[a].done /\ Use("get")
  /\ \A i \in DOMAIN shadow[w].frames : shadow[w].frames[i].act # a
  /\ suspended' = suspended \cup
       {[stack |-> shadow[w], own |-> own[w], future |-> a, cur |-> cur[w]]}
  /\ GoIdle(w)
  /\ UNCHANGED <<om, heap, called_future, strands, acts>>

-----------------------------------------------------------------------------
(* CilkSteal *)

(* The activation whose continuation is stolen is the one before the first *)
(* detached child.                                                         *)
CanSteal(deque) == \E i \in 2..Len(deque) : IsDetached(deque[i])
StealAt(deque) ==
  CHOOSE i \in 1..Len(deque) - 1 :
    IsDetached(deque[i + 1]) /\ \A j \in 2..i : ~IsDetached(deque[j])

(* init_strand for a stolen frame. *)
InitStrand(f) ==
  IF f.steal_cont # 0
  THEN [f EXCEPT !.node = f.steal_cont, !.sync = f.steal_sync,
                 !.list = f.steal_list, !.cont = 0]
  ELSE [f EXCEPT !.node = f.cont, !.cont = 0]

(* do_steal_success: what thief w gets of a stack. *)
TakeFrames(w, stack, deque) ==
  LET loot == StolenFrames(stack)
  IN  /\ pc[w] = "idle" /\ CanSteal(deque) /\ Use("steal")
      /\ strands' = Append(strands, Strand(InitStrand(TopFrame(loot)), {acts[deque[StealAt(deque)]].at}))
      /\ cur' = [cur EXCEPT ![w] = Len(strands) + 1]
      /\ pc' = [pc EXCEPT ![w] = "run"]
      /\ UNCHANGED <<om, heap, called_future, acts>>

(* kNormal, from the active deque of worker v. *)
Steal(w, v) ==
  LET i == StealAt(own[v])
      loot == StolenFrames(shadow[v])
  IN  /\ w # v
      /\ TakeFrames(w, shadow[v], own[v])
      /\ shadow' = [shadow EXCEPT ![w] = SetTop(loot, InitStrand(TopFrame(loot))),
                                  ![v] = LeftFrames(@)]
      /\ own' = [own EXCEPT ![w] = SubSeq(own[v], 1, i), ![v] = SubSeq(@, i + 1, Len(@))]
      /\ UNCHANGED suspended

(* kSuspended and kResumable, from a deque that waits. *)
StealSuspended(w, d) ==
  LET i == StealAt(d.own)
      loot == StolenFrames(d.stack)
  IN  /\ TakeFrames(w, d.stack, d.own)
      /\ shadow' = [shadow EXCEPT ![w] = SetTop(loot, InitStrand(TopFrame(loot)))]
      /\ own' = [own EXCEPT ![w] = SubSeq(d.own, 1, i)]
      /\ suspended' = (suspended \ {d}) \cup
           {[d EXCEPT !.stack = LeftFrames(@), !.own = SubSeq(@, i + 1, Len(@))]}

(* kResume: the worker takes the whole deque and adds the future's list. *)
Resume(w, d) ==
  LET f == TopFrame(d.stack)
  IN  /\ pc[w] = "idle" /\ acts[d.future].done
      /\ heap' = Append(heap, ListOfLists(om, heap[f.list], heap[acts[d.future].fom]))
      /\ Continue(w, SetTop(d.stack, [f EXCEPT !.list = Len(heap) + 1]),
                  {d.cur, acts[d.future].last})
      /\ own' = [own EXCEPT ![w] = d.own]
      /\ suspended' = suspended \ {d}
      /\ pc' = [pc EXCEPT ![w] = "run"]
      /\ UNCHANGED <<om, called_future, acts, left>>

Next ==
  \E w \in Workers :
    \/ Enter(w) \/ LeaveCall(w)
    \/ Spawn(w) \/ LeaveSpawn(w) \/ LeaveStolen(w) \/ ReturnFromSpawn(w)
    \/ SyncBegin(w) \/ SyncEnd(w) \/ SyncWait(w)
    \/ CilkFutureCreate(w) \/ CilkFutureFinish(w) \/ LeaveFuture(w)
    \/ \E a \in DOMAIN acts : CilkFutureGet(w, a) \/ CilkFutureGetSuspend(w, a)
    \/ \E v \in Workers : Steal(w, v)
    \/ \E d \in suspended : StealSuspended(w, d) \/ Resume(w, d)

Spec == Init /\ [][Next]_vars

-----------------------------------------------------------------------------
(* Properties *)

(* Precedes of shadow_stack.cpp, for two strands. *)
Precedes(a, b) ==
  \/ a.future_id = b.future_id /\ BothPrecede(om, a.node, b.node)
  \/ Search(om, heap[b.list], a.node, a.future_id)

FrameType == [act : DOMAIN acts, helper : BOOLEAN, future_id : 0..Len(acts),
              node : DOMAIN om.e \cup {0}, cont : DOMAIN om.e \cup {0},
              sync : DOMAIN om.e \cup {0}, steal_cont : DOMAIN om.e \cup {0},
              steal_sync : DOMAIN om.e \cup {0}, steal_list : 0..Len(heap),
              list : DOMAIN heap, sync_list : 0..Len(heap), ori_list : 0..Len(heap)]

StackTypeOK(stack) ==
  /\ \A i \in DOMAIN stack.frames : stack.frames[i] \in FrameType
  /\ stack.tail \in 1..Len(stack.frames) + 1

(* The two orders hold the same nodes, each at a place of its own; every   *)
(* frame, strand and activation refers to what exists.                     *)
TypeOK ==
  /\ DOMAIN om.e = DOMAIN om.h
  /\ \A o \in {om.e, om.h} : {o[n] : n \in DOMAIN o} = 1..Cardinality(DOMAIN o)
  /\ \A w \in Workers : StackTypeOK(shadow[w]) /\ cur[w] \in 0..Len(strands)
  /\ \A d \in suspended : StackTypeOK(d.stack)
  /\ pc \in [Workers -> {"idle", "run", "sync", "returning", "finished"}]
  /\ called_future \in [Workers -> BOOLEAN]

(* The activations for which a stack holds frames that were not stolen. *)
Unstolen(stack) == [i \in 1..Len(stack.frames) - stack.tail + 1 |->
                      stack.frames[stack.tail + i - 1].act]

(* From its tail on a shadow stack has one frame for every activation of   *)
(* its deque in the runtime, in the same order: push, pop, steal_top and   *)
(* the hooks that call them keep in step with the runtime's pushes, pops   *)
(* and steals, also when CilkFutureFinish pops before the runtime does.    *)
ShadowMatches ==
  /\ \A w \in Workers :
       /\ pc[w] \in {"run", "sync"} => Unstolen(shadow[w]) = own[w]
       /\ pc[w] = "finished" /\ Len(own[w]) > 1 => Unstolen(shadow[w]) = Front(own[w])
  /\ \A d \in suspended : Unstolen(d.stack) = d.own

(* What the assertions of do_leave_end, do_leave_stolen and do_sync_begin  *)
(* need of the last two frames, the copies that a thief left behind and    *)
(* the copies that a thief made included.                                  *)
FramesReadyIn(stack) ==
  LET n == Len(stack.frames)
  IN  IF TopFrame(stack).helper
      THEN /\ n > 1 /\ ~ParentFrame(stack).helper
           /\ ParentFrame(stack).node = 0
           /\ ParentFrame(stack).cont # 0 /\ ParentFrame(stack).sync # 0
      ELSE /\ TopFrame(stack).node # 0 /\ TopFrame(stack).cont = 0
           /\ n > 1 => ParentFrame(stack).cont = 0

(* The om_asserts of the hooks never fail, whoever runs the frame. *)
FramesReady ==
  /\ \A w \in Workers : pc[w] = "run" => FramesReadyIn(shadow[w])
  /\ \A d \in suspended : FramesReadyIn(d.stack)

(* The pairs of strands of which one is the youngest.  The properties of   *)
(* pairs look at these only: every pair was one of them once, and what     *)
(* Precedes says of a pair does not change, since two nodes keep their     *)
(* order and a strand's list stays as it is (ListsFrozen).                 *)
NewPairs == {<<a, Len(strands)>> : a \in DOMAIN strands}
            \cup {<<Len(strands), b>> : b \in DOMAIN strands}

(* Precedes never orders two strands that the program does not order, and  *)
(* no two such strands have the same node, for which handle_write makes no *)
(* query (check_mem.cpp:55): no race is missed because of either.          *)
PrecedesSound ==
  \A p \in NewPairs :
    LET a == strands[p[1]]
        b == strands[p[2]]
    IN  /\ Precedes(a, b) => p[1] \in b.anc
        /\ p[1] # p[2] /\ a.node = b.node => p[1] \in b.anc \/ p[2] \in a.anc

(* Precedes orders every two ordered strands of one future, whatever was   *)
(* stolen and by whom, if they have different nodes.                       *)
SameFutureOrdered ==
  \A p \in NewPairs :
    LET a == strands[p[1]]
        b == strands[p[2]]
    IN  /\ p[1] \in b.anc
        /\ a.future_id = b.future_id
        /\ a.node # b.node
        => Precedes(a, b)

(* What a future did before its last strand is ordered with everything     *)
(* after a get of it: the list made by CilkFutureFinish reaches the getter *)
(* (at once or through Resume) and is never lost again, in merges at syncs *)
(* and in copies for later creates and gets.                               *)
GetOrdered ==
  \A f \in {f \in DOMAIN acts : acts[f].kind = "future" /\ acts[f].done} :
    LET last == strands[acts[f].last]
    IN  \A b \in {b \in DOMAIN strands : acts[f].last \in strands[b].anc},
           a \in {a \in last.anc : strands[a].future_id = last.future_id
                                   /\ strands[a].node # last.node} :
          strands[b].future_id # last.future_id => Precedes(strands[a], strands[b])

(* As GetOrdered for the other edge between futures: what was before the   *)
(* node at which a future was created is ordered with everything in it.    *)
(* It fails when futures are nested, because the constructor of a list     *)
(* from one node does not set hash.head.                                   *)
CreateOrdered ==
  \A f \in {f \in DOMAIN acts : acts[f].kind = "future"} :
    LET made == strands[acts[f].from]
    IN  \A b \in {b \in DOMAIN strands : acts[f].from \in strands[b].anc},
           a \in {a \in made.anc : strands[a].future_id = made.future_id
                                   /\ strands[a].node # made.node} :
          strands[b].future_id # made.future_id => Precedes(strands[a], strands[b])

(* The binary search with the desc fields finds a node of the list that    *)
(* the strand precedes exactly if there is one.  The entries of a group    *)
(* are only sorted in the English order, so the half that the search skips *)
(* could hold one.                                                         *)
SearchExact ==
  \A p \in NewPairs :
    LET s     == strands[p[1]]
        list  == heap[strands[p[2]].list]
    IN  s.future_id \in DOMAIN list.group =>
          (Search(om, list, s.node, s.future_id)
             <=> \E n \in CNodes(list.group[s.future_id]) : BothPrecede(om, s.node, n))

(* A list that a strand uses in queries is never written again: merges at  *)
(* syncs go to a list that is not yet the list of any strand.              *)
ListsFrozen ==
  [][\A b \in DOMAIN strands : heap'[strands[b].list] = heap[strands[b].list]]_vars
=============================================================================
