----------------------------- MODULE DequePool -----------------------------
(***************************************************************************)
(* The deques of the runtime and the pools they wait in                    *)
(* (cilkrtssuspend/runtime/deque_pool.c, deque.c and the stealing part of  *)
(* scheduler.c).  A worker that gets an unfinished future suspends its     *)
(* active deque and goes on with another; the worker that finishes the     *)
(* future makes the deque resumable; an idle worker resumes it.            *)
(*                                                                         *)
(* Every access to the pools of a worker is made with that worker's lock,  *)
(* and no worker ever holds two of these locks, so a critical section is   *)
(* one action.  (A trylock that fails changes nothing.)  What the code     *)
(* reads and writes between critical sections is in actions of its own,    *)
(* and so are the steps of a thief, which has the lock, that race with an  *)
(* owner that pushes and pops without it (the THE protocol).               *)
(*                                                                         *)
(* The frames of a deque are only counted.  The program on top is any      *)
(* program that completes every future something waits for.                *)
(***************************************************************************)
EXTENDS Integers, FiniteSets, SequencesExt

CONSTANTS Workers, Deques, NULL,
          MaxFrames,         \* bound: frames of a deque
          Pushes, Suspends   \* bounds: pushes and gets of a behaviour

ASSUME DequePoolAssumption ==
  /\ NULL \notin Workers \cup Deques
  /\ {MaxFrames, Pushes, Suspends} \subseteq Nat
  /\ IsFiniteSet(Deques) /\ IsFiniteSet(Workers)
  /\ Cardinality(Deques) > Cardinality(Workers)

VARIABLES
  deq,               \* the deque objects
  active,            \* per worker: *active_deque, which is also its core_deque
  suspended_deques,  \* per worker: pool of deques that can only be stolen from
  resumable_deques,  \* per worker: pool of deques that can be resumed
  waiting,           \* deques in the queue of an unfinished future
  pc,                \* per worker
  loc,               \* per worker: local variables
  left               \* what remains of Pushes and Suspends

vars == <<deq, active, suspended_deques, resumable_deques, waiting, pc, loc, left>>

ACTIVE_DEQUE_INDEX  == -1
INVALID_DEQUE_INDEX == -2

(* fiber: "running" is a fiber that its worker has not yet switched from.  *)
(* frames is tail - head, and exc is exc - head.                           *)
Deque == [live : BOOLEAN, worker : Workers \cup {NULL}, self : Int, resumable : BOOLEAN,
          fiber : {"none", "running", "ready", "scheduling"},
          frames : -1..MaxFrames, exc : 0..1]

(* A worker's deque d or deque_to_resume, new_deque, victim and whether it *)
(* will have work when it jumps to the next fiber.                         *)
Local == [d : Deques \cup {NULL}, new : Deques \cup {NULL},
          victim : Workers \cup {NULL}, work : BOOLEAN]
NoLocal == [d |-> NULL, new |-> NULL, victim |-> NULL, work |-> FALSE]

Unused == [live |-> FALSE, worker |-> NULL, self |-> INVALID_DEQUE_INDEX,
           resumable |-> FALSE, fiber |-> "none", frames |-> 0, exc |-> 0]

(* What deque_switch makes of the new active deque of w. *)
deque_switch(w, dq) == [dq EXCEPT !.worker = w, !.self = ACTIVE_DEQUE_INDEX]

(* The deques that the workers start with. *)
Core == CHOOSE core \in [Workers -> Deques] :
          \A v, w \in Workers : v # w => core[v] # core[w]

Init ==
  /\ active = Core
  /\ deq = [d \in Deques |->
              IF \E w \in Workers : Core[w] = d
              THEN deque_switch(CHOOSE w \in Workers : Core[w] = d, [Unused EXCEPT !.live = TRUE])
              ELSE Unused]
  /\ suspended_deques = [w \in Workers |-> <<>>]
  /\ resumable_deques = [w \in Workers |-> <<>>]
  /\ waiting = {}
  /\ \E first \in Workers : pc = [w \in Workers |-> IF w = first THEN "run" ELSE "idle"]
  /\ loc = [w \in Workers |-> NoLocal]
  /\ left = [push |-> Pushes, suspend |-> Suspends]

-----------------------------------------------------------------------------
(* Pools *)

(* deque_pool_add, what it does to deque d: its place in pool. *)
Added(dq, pool, victim) == [dq EXCEPT !.self = Len(pool), !.worker = victim]

(* deque_pool_remove: the last deque takes the place of d ... *)
deque_pool_remove(pool, d) ==
  [i \in 1..Len(pool) - 1 |-> IF i = deq[d].self + 1 THEN Last(pool) ELSE pool[i]]

(* Mutant: the deque that moved is not told. *)
RemovedOnly(pool, d) ==
  [deq EXCEPT ![d].self = INVALID_DEQUE_INDEX, ![d].worker = NULL]

(* ... and is told its new place. *)
Removed(pool, d) ==
  [deq EXCEPT ![Last(pool)].self = deq[d].self,
              ![d].self = INVALID_DEQUE_INDEX, ![d].worker = NULL]

-----------------------------------------------------------------------------
(* The program *)

can_steal_from(d) == deq[d].frames > 0

Active(w) == deq[active[w]]

(* A thief has the lock of v. *)
Locked(v) == \E w \in Workers : pc[w] \in {"probe", "dekker", "detach"} /\ loc[w].victim = v

(* Workers that run user code, or will without another steal. *)
Busy == {w \in Workers :
           \/ pc[w] \in {"run", "pop", "check", "resume", "owned", "free", "give",
                         "mugged", "detach"}
           \/ loc[w].work}

(* There is work besides what w runs. *)
OtherWork(w) ==
  \/ Busy \ {w} # {}
  \/ \E d \in Deques : deq[d].frames > 0
  \/ \E v \in Workers : resumable_deques[v] # <<>>

(* w may give up its work: the last worker to arrive goes on, and the      *)
(* futures that are waited for get completed.                              *)
MayStop(w) == waiting = {} \/ OtherWork(w)

Push(w) ==
  /\ pc[w] = "run" /\ left.push > 0 /\ Active(w).frames < MaxFrames
  /\ deq' = [deq EXCEPT ![active[w]].frames = @ + 1]
  /\ left' = [left EXCEPT !.push = @ - 1]
  /\ UNCHANGED <<active, suspended_deques, resumable_deques, waiting, pc, loc>>

(* __cilkrts_undo_detach: a child returns and takes its parent back, which *)
(* may have been stolen ...                                                *)
Pop(w) ==
  /\ pc[w] = "run" /\ (Active(w).frames > 0 \/ MayStop(w))
  /\ deq' = [deq EXCEPT ![active[w]].frames = @ - 1]
  /\ pc' = [pc EXCEPT ![w] = "pop"]
  /\ UNCHANGED <<active, suspended_deques, resumable_deques, waiting, loc, left>>

(* Mutant: the tail is compared with the head. *)
ExceptedHead(d) == deq[d].frames < 0

Excepted(d) == deq[d].frames < deq[d].exc

(* ... and looks whether a thief is after it. *)
UndoDetach(w) ==
  /\ pc[w] = "pop"
  /\ pc' = [pc EXCEPT ![w] = IF Excepted(active[w]) THEN "check" ELSE "run"]
  /\ UNCHANGED <<deq, active, suspended_deques, resumable_deques, waiting, loc, left>>

(* __cilkrts_c_THE_exception_check, with the worker's lock. *)
ExceptionCheck(w) ==
  LET stolen == Active(w).frames + 1 <= 0
  IN  /\ pc[w] = "check" /\ ~Locked(w)
      /\ deq' = [deq EXCEPT ![active[w]].exc = 0,
                            ![active[w]].frames = IF stolen THEN @ + 1 ELSE @]
      /\ pc' = [pc EXCEPT ![w] = IF stolen /\ MayStop(w) THEN "idle" ELSE "run"]
      /\ UNCHANGED <<active, suspended_deques, resumable_deques, waiting, loc, left>>

(* The worker stalls at a sync. *)
RunOut(w) ==
  /\ pc[w] = "run" /\ Active(w).frames = 0 /\ MayStop(w)
  /\ pc' = [pc EXCEPT ![w] = "idle"]
  /\ UNCHANGED <<deq, active, suspended_deques, resumable_deques, waiting, loc, left>>

-----------------------------------------------------------------------------
(* Suspension: __cilkrts_suspend_deque and deque_suspend *)

(* A get of an unfinished future has put the deque into its queue. *)
Get(w) ==
  /\ pc[w] = "run" /\ left.suspend > 0 /\ OtherWork(w)
  /\ Cardinality({d \in Deques : deq[d].live} \cup {v \in Workers : pc[v] = "suspend"})
       < Cardinality(Deques)  \* bound: a deque can be allocated
  /\ waiting' = waiting \cup {active[w]}
  /\ pc' = [pc EXCEPT ![w] = "suspend"]
  /\ left' = [left EXCEPT !.suspend = @ - 1]
  /\ UNCHANGED <<deq, active, suspended_deques, resumable_deques, loc>>

(* The worker has a resumable deque in its own pool: deque_mug takes it.   *)
(* Nobody else can reach it when resumable is cleared after the unlock.    *)
MugOwn(w) ==
  LET pool == resumable_deques[w]
      new  == Last(pool)
  IN  /\ pc[w] = "suspend" /\ ~Locked(w) /\ pool # <<>>
      /\ deq' = [Removed(pool, new) EXCEPT ![new].resumable = FALSE]
      /\ resumable_deques' = [resumable_deques EXCEPT ![w] = deque_pool_remove(@, new)]
      /\ loc' = [loc EXCEPT ![w] = [NoLocal EXCEPT !.d = active[w], !.new = new, !.work = TRUE]]
      /\ pc' = [pc EXCEPT ![w] = "switch"]
      /\ UNCHANGED <<active, suspended_deques, waiting, left>>

(* deque_init of a new deque. *)
Allocate(w) ==
  /\ pc[w] = "suspend" /\ ~Locked(w) /\ resumable_deques[w] = <<>>
  /\ \E d \in Deques : ~deq[d].live  \* bound, see Get
  /\ LET new == CHOOSE d \in Deques : ~deq[d].live
     IN  /\ deq' = [deq EXCEPT ![new] = [Unused EXCEPT !.live = TRUE, !.self = 0, !.fiber = "scheduling"]]
         /\ loc' = [loc EXCEPT ![w] = [NoLocal EXCEPT !.d = active[w], !.new = new]]
  /\ pc' = [pc EXCEPT ![w] = "switch"]
  /\ UNCHANGED <<active, suspended_deques, resumable_deques, waiting, left>>

(* The switch to the new deque, with the worker's lock.  With a new deque  *)
(* the worker tries to steal from the old one.                             *)
Switch(w) ==
  LET d   == loc[w].d
      new == loc[w].new
      switched == [deq EXCEPT ![d].fiber = "running", ![new] = deque_switch(w, @)]
  IN  /\ pc[w] = "switch" /\ ~Locked(w)
      /\ active' = [active EXCEPT ![w] = new]
      /\ \/ /\ ~loc[w].work /\ can_steal_from(d)
            /\ deq' = [switched EXCEPT ![d].frames = @ - 1]
            /\ loc' = [loc EXCEPT ![w].work = TRUE]
         \/ deq' = switched /\ UNCHANGED loc  \* nothing to steal, or no fiber for it
      /\ pc' = [pc EXCEPT ![w] = "park"]
      /\ UNCHANGED <<suspended_deques, resumable_deques, waiting, left>>

(* The end of deque_suspend: a deque with work on it goes to the pool of   *)
(* the less loaded of two random workers, by sizes that may be stale.  No  *)
(* one else can reach d between the test and the same test with the lock.  *)
Park(w) ==
  LET d == loc[w].d
  IN  /\ pc[w] = "park"
      /\ IF deq[d].frames # 0
         THEN \E victim \in Workers :
                /\ ~Locked(victim)
                /\ deq' = [deq EXCEPT ![d] = Added(@, suspended_deques[victim], victim)]
                /\ suspended_deques' = [suspended_deques EXCEPT ![victim] = Append(@, d)]
         ELSE /\ deq' = [deq EXCEPT ![d].self = INVALID_DEQUE_INDEX, ![d].worker = NULL]
              /\ UNCHANGED suspended_deques
      /\ pc' = [pc EXCEPT ![w] = "jump"]
      /\ UNCHANGED <<active, resumable_deques, waiting, loc, left>>

(* Mutant: the old fiber is not released. *)
JumpedKept(w) == [deq EXCEPT ![loc[w].new].fiber = "none"]

Jumped(w) == [deq EXCEPT ![loc[w].new].fiber = "none", ![loc[w].d].fiber = "ready"]

(* The rest of __cilkrts_suspend_deque: the fiber of the new deque is      *)
(* resumed, and only now that of the old one can be.                       *)
Jump(w) ==
  /\ pc[w] = "jump" /\ deq[loc[w].new].fiber \in {"ready", "scheduling"}
  /\ deq' = Jumped(w)
  /\ pc' = [pc EXCEPT ![w] = IF loc[w].work THEN "run" ELSE "idle"]
  /\ loc' = [loc EXCEPT ![w] = NoLocal]
  /\ UNCHANGED <<active, suspended_deques, resumable_deques, waiting, left>>

-----------------------------------------------------------------------------
(* __cilkrts_make_resumable *)

(* A future is done; its worker takes a deque from the queue. *)
Complete(w) ==
  /\ pc[w] = "run"
  /\ \E d \in waiting :
       /\ waiting' = waiting \ {d}
       /\ loc' = [loc EXCEPT ![w] = [NoLocal EXCEPT !.d = d]]
  /\ pc' = [pc EXCEPT ![w] = "resume"]
  /\ UNCHANGED <<deq, active, suspended_deques, resumable_deques, left>>

(* Mutant: the fiber is taken as soon as it is set. *)
FullySuspendedAtOnce(d) == deq[d].fiber # "none"

FullySuspended(d) == deq[d].fiber = "ready"

(* It waits until the deque is fully suspended and reads, without a lock,  *)
(* in whose pool it is.                                                    *)
ReadOwner(w) ==
  LET d == loc[w].d
  IN  /\ pc[w] = "resume" /\ FullySuspended(d)
      /\ loc' = [loc EXCEPT ![w].victim = deq[d].worker]
      /\ pc' = [pc EXCEPT ![w] = IF deq[d].worker = NULL THEN "free" ELSE "owned"]
      /\ UNCHANGED <<deq, active, suspended_deques, resumable_deques, waiting, left>>

StillOwned(w) == deq[loc[w].d].worker # NULL

(* Mutant: it is taken to be in a pool of resumable deques already. *)
OrphanedDropped == "run"

(* What is left to do when a thief has mugged the deque: find it a pool. *)
Orphaned == "free"

(* With the victim's lock: from one pool of the victim to the other, or,   *)
(* if a thief has mugged the deque meanwhile, nothing.                     *)
ResumeOwned(w) ==
  LET d == loc[w].d
      victim == loc[w].victim
  IN  /\ pc[w] = "owned" /\ ~Locked(victim)
      /\ IF StillOwned(w)
         THEN /\ deq' = [Removed(suspended_deques[victim], d) EXCEPT
                           ![d] = [Added(@, resumable_deques[victim], victim) EXCEPT !.resumable = TRUE]]
              /\ suspended_deques' = [suspended_deques EXCEPT ![victim] = deque_pool_remove(@, d)]
              /\ resumable_deques' = [resumable_deques EXCEPT ![victim] = Append(@, d)]
              /\ loc' = [loc EXCEPT ![w] = NoLocal]
              /\ pc' = [pc EXCEPT ![w] = "run"]
         ELSE /\ loc' = [loc EXCEPT ![w].victim = NULL]
              /\ pc' = [pc EXCEPT ![w] = Orphaned]
              /\ UNCHANGED <<deq, suspended_deques, resumable_deques>>
      /\ UNCHANGED <<active, waiting, left>>

(* A deque that is in no pool gets a random owner, first without a lock ... *)
ResumeFree(w) ==
  /\ pc[w] = "free"
  /\ \E victim \in Workers :
       /\ deq' = [deq EXCEPT ![loc[w].d].resumable = TRUE, ![loc[w].d].worker = victim]
       /\ loc' = [loc EXCEPT ![w].victim = victim]
  /\ pc' = [pc EXCEPT ![w] = "give"]
  /\ UNCHANGED <<active, suspended_deques, resumable_deques, waiting, left>>

(* ... and then a place in its pool. *)
Give(w) ==
  LET d == loc[w].d
      victim == loc[w].victim
  IN  /\ pc[w] = "give" /\ ~Locked(victim)
      /\ deq' = [deq EXCEPT ![d] = Added(@, resumable_deques[victim], victim)]
      /\ resumable_deques' = [resumable_deques EXCEPT ![victim] = Append(@, d)]
      /\ loc' = [loc EXCEPT ![w] = NoLocal]
      /\ pc' = [pc EXCEPT ![w] = "run"]
      /\ UNCHANGED <<active, suspended_deques, waiting, left>>

-----------------------------------------------------------------------------
(* random_steal *)

(* A worker whose pools are empty chooses another victim; it tries the     *)
(* victim's lock.                                                          *)
CanChoose(w, victim) ==
  /\ pc[w] = "idle" /\ ~Locked(victim)
  /\ w = victim => suspended_deques[w] # <<>> \/ resumable_deques[w] # <<>>

(* choose_deque takes the last resumable deque if there is one.  The first *)
(* part of jump_to_suspended_fiber, with the victim's lock.                *)
MugResumable(w, victim) ==
  LET pool == resumable_deques[victim]
      d    == Last(pool)
  IN  /\ CanChoose(w, victim) /\ pool # <<>>
      /\ deq' = Removed(pool, d)
      /\ resumable_deques' = [resumable_deques EXCEPT ![victim] = deque_pool_remove(@, d)]
      /\ loc' = [loc EXCEPT ![w] = [NoLocal EXCEPT !.d = d]]
      /\ pc' = [pc EXCEPT ![w] = "mugged"]
      /\ UNCHANGED <<active, suspended_deques, waiting, left>>

(* The second part: the switch to d, and the old deque is destroyed. *)
JumpToSuspendedFiber(w) ==
  LET d == loc[w].d
  IN  /\ pc[w] = "mugged" /\ deq[d].fiber = "ready" /\ ~Locked(w)
      /\ deq' = [deq EXCEPT ![d] = deque_switch(w, [@ EXCEPT !.fiber = "none", !.resumable = FALSE]),
                            ![active[w]] = Unused]
      /\ active' = [active EXCEPT ![w] = d]
      /\ loc' = [loc EXCEPT ![w] = NoLocal]
      /\ pc' = [pc EXCEPT ![w] = "run"]
      /\ UNCHANGED <<suspended_deques, resumable_deques, waiting, left>>

(* choose_deque otherwise: the active deque or a suspended one. *)
Choosable(w, victim) ==
  IF resumable_deques[victim] # <<>> THEN {}
  ELSE ToSet(suspended_deques[victim])
       \cup (IF w = victim /\ suspended_deques[w] # <<>> THEN {} ELSE {active[victim]})

(* There is something to steal on it, and the thief keeps the lock ... *)
Probe(w, victim, d) ==
  /\ CanChoose(w, victim) /\ d \in Choosable(w, victim) /\ can_steal_from(d)
  /\ pc' = [pc EXCEPT ![w] = "probe"]
  /\ loc' = [loc EXCEPT ![w] = [NoLocal EXCEPT !.d = d, !.victim = victim]]
  /\ UNCHANGED <<deq, active, suspended_deques, resumable_deques, waiting, left>>

(* increment_E ... *)
IncrementE(w) ==
  /\ pc[w] = "probe"
  /\ deq' = [deq EXCEPT ![loc[w].d].exc = @ + 1]
  /\ pc' = [pc EXCEPT ![w] = "dekker"]
  /\ UNCHANGED <<active, suspended_deques, resumable_deques, waiting, loc, left>>

(* Mutant: the exception pointer is not restored. *)
DecrementedNot(d) == deq

(* decrement_E *)
Decremented(d) == [deq EXCEPT ![d].exc = @ - 1]

(* ... the rest of dekker_protocol ... *)
Dekker(w) ==
  /\ pc[w] = "dekker"
  /\ \/ /\ can_steal_from(loc[w].d)
        /\ pc' = [pc EXCEPT ![w] = "detach"]
        /\ UNCHANGED <<deq, loc>>
     \/ /\ ~can_steal_from(loc[w].d)
        /\ deq' = Decremented(loc[w].d)
        /\ pc' = [pc EXCEPT ![w] = "idle"]
        /\ loc' = [loc EXCEPT ![w] = NoLocal]
  /\ UNCHANGED <<active, suspended_deques, resumable_deques, waiting, left>>

(* ... and detach_for_steal, which moves the head. *)
DetachForSteal(w) ==
  /\ pc[w] = "detach"
  /\ deq' = [deq EXCEPT ![loc[w].d].frames = @ - 1, ![loc[w].d].exc = @ - 1]
  /\ pc' = [pc EXCEPT ![w] = "run"]
  /\ loc' = [loc EXCEPT ![w] = NoLocal]
  /\ UNCHANGED <<active, suspended_deques, resumable_deques, waiting, left>>

(* If nothing is left on a suspended one, it is taken out of its pool. *)
MugEmpty(w, victim, d) ==
  LET pool == suspended_deques[victim]
  IN  /\ CanChoose(w, victim) /\ d \in Choosable(w, victim) \ {active[victim]} /\ ~can_steal_from(d)
      /\ deq' = Removed(pool, d)
      /\ suspended_deques' = [suspended_deques EXCEPT ![victim] = deque_pool_remove(@, d)]
      /\ UNCHANGED <<active, resumable_deques, waiting, pc, loc, left>>

-----------------------------------------------------------------------------
Program(w) == Pop(w) \/ RunOut(w) \/ Complete(w)

Return(w) == UndoDetach(w) \/ ExceptionCheck(w)

Suspension(w) == MugOwn(w) \/ Allocate(w) \/ Switch(w) \/ Park(w) \/ Jump(w)

MakeResumable(w) == ReadOwner(w) \/ ResumeOwned(w) \/ ResumeFree(w) \/ Give(w)

RandomSteal(w) ==
  \/ \E victim \in Workers :
       \/ MugResumable(w, victim)
       \/ \E d \in Deques : Probe(w, victim, d) \/ MugEmpty(w, victim, d)
  \/ IncrementE(w) \/ Dekker(w) \/ DetachForSteal(w)
  \/ JumpToSuspendedFiber(w)

(* What a worker does as long as it can. *)
Step(w) == Program(w) \/ Return(w) \/ Suspension(w) \/ MakeResumable(w) \/ RandomSteal(w)

Next == \E w \in Workers : Push(w) \/ Get(w) \/ Step(w)

Spec == Init /\ [][Next]_vars

(* User code goes on, and so does what the runtime does for it.  An idle   *)
(* worker that has something to steal or to resume finds it: victims are   *)
(* drawn at random, and the locks it tries are free again and again.       *)
Fairness == \A w \in Workers : WF_vars(Step(w))

FairSpec == Spec /\ Fairness

-----------------------------------------------------------------------------
(* Properties *)

(* What the pools, the queues and the local variables of workers refer to  *)
(* exists; head, tail and exc of a deque are never further apart than one  *)
(* speculative decrement or increment takes them.                          *)
TypeOK ==
  /\ deq \in [Deques -> Deque]
  /\ active \in [Workers -> Deques]
  /\ suspended_deques \in [Workers -> Seq(Deques)]
  /\ resumable_deques \in [Workers -> Seq(Deques)]
  /\ waiting \subseteq Deques
  /\ loc \in [Workers -> Local]
  /\ pc \in [Workers -> {"run", "pop", "check", "idle", "probe", "dekker", "detach",
                         "suspend", "switch", "park", "jump",
                         "resume", "owned", "free", "give", "mugged"}]
  /\ left \in [push : Nat, suspend : Nat]

(* The workers that run on d, ... *)
Runners(d) == {w \in Workers : active[w] = d /\ pc[w] \notin {"suspend", "switch"}}

(* ... that are about to run on it or to put it into a pool of resumables, *)
Holders(d) == {w \in Workers : \/ pc[w] \in {"resume", "owned", "free", "give", "mugged"} /\ loc[w].d = d
                               \/ pc[w] = "switch" /\ loc[w].new = d}

(* ... and those in whose pool of resumables it is. *)
Offers(d) == {w \in Workers : d \in ToSet(resumable_deques[w])}

(* Every deque is in exactly one of four places: in use by one worker, in  *)
(* the queue of one unfinished future, in the hands of one worker that     *)
(* resumes it, or in one pool of resumable deques.  So no suspended deque  *)
(* is lost and none is resumed twice, although its owner may still be      *)
(* suspending it and thieves may mug it when its future finishes.          *)
OnePlace ==
  \A d \in Deques :
    Cardinality(Runners(d)) + Cardinality(Holders(d)) + Cardinality(Offers(d))
      + (IF d \in waiting THEN 1 ELSE 0) = (IF deq[d].live THEN 1 ELSE 0)

(* A deque in a pool knows the pool and its place in it, which             *)
(* deque_pool_remove asserts and relies on when it moves the last deque,   *)
(* and one that is in no pool knows that.                                  *)
PlacesKnown ==
  /\ \A w \in Workers :
       /\ \A i \in DOMAIN suspended_deques[w] :
            LET dq == deq[suspended_deques[w][i]]
            IN  dq.worker = w /\ dq.self = i - 1 /\ ~dq.resumable
       /\ \A i \in DOMAIN resumable_deques[w] :
            LET dq == deq[resumable_deques[w][i]]
            IN  dq.worker = w /\ dq.self = i - 1 /\ dq.resumable
       /\ Active(w).worker = w /\ Active(w).self = ACTIVE_DEQUE_INDEX
  /\ \A d \in Deques : deq[d].self >= 0 /\ deq[d].worker # NULL =>
       \E w \in Workers : d \in ToSet(suspended_deques[w]) \cup ToSet(resumable_deques[w])

(* The assertions of deque_suspend, deque_switch, make_resumable,          *)
(* deque_pool_remove and deque_destroy hold.  In particular the owner that *)
(* make_resumable reads without a lock is still the owner or there is none *)
(* when it has the lock, and exc is head whenever no thief is at work.      *)
AssertionsHold ==
  /\ \A d \in Deques :
       deq[d].exc = Cardinality({w \in Workers : pc[w] \in {"dekker", "detach"} /\ loc[w].d = d})
  /\ \A w \in Workers :
       /\ pc[w] = "suspend" => Active(w).fiber = "none"
       /\ pc[w] = "switch" => deq[loc[w].new].worker = NULL /\ deq[loc[w].new].fiber # "none"
       /\ pc[w] = "resume" => ~deq[loc[w].d].resumable
       /\ pc[w] = "owned" =>
            LET dq   == deq[loc[w].d]
                pool == suspended_deques[loc[w].victim]
            IN  \/ dq.worker = NULL
                \/ /\ dq.worker = loc[w].victim
                   /\ dq.self + 1 \in DOMAIN pool /\ pool[dq.self + 1] = loc[w].d
       /\ pc[w] = "free" => deq[loc[w].d].self = INVALID_DEQUE_INDEX /\ deq[loc[w].d].worker = NULL
       /\ pc[w] = "mugged" => deq[loc[w].d].worker = NULL /\ Active(w).frames = 0

(* Work is neither lost nor done twice.  A deque with frames on it is the  *)
(* active deque of a worker, in a pool, or on the way there in the hands   *)
(* of a worker that holds it for a few steps; and its tail is below its    *)
(* head only while its owner finds out that a thief got the last frame.    *)
WorkKept ==
  \A d \in Deques :
    /\ deq[d].frames > 0 =>
         \E w \in Workers :
           \/ active[w] = d
           \/ d \in ToSet(suspended_deques[w]) \cup ToSet(resumable_deques[w])
           \/ pc[w] \in {"park", "mugged"} /\ loc[w].d = d
           \/ pc[w] = "switch" /\ loc[w].new = d
    /\ deq[d].frames < 0 => \E w \in Workers : active[w] = d /\ pc[w] \in {"pop", "check"}

(* Every deque that waits for a future runs again.  A behaviour has        *)
(* finitely many gets; in the end no deque is left that is not the active  *)
(* deque of a worker.                                                      *)
Resumes == <>[](\A d \in Deques : deq[d].live => \E w \in Workers : active[w] = d)

(* The worker that pops from d and does not know yet whether it succeeds. *)
Popping(d) == \E w \in Workers : active[w] = d /\ pc[w] \in {"pop", "check"}

(* The thief that has won the race for a frame of d and has yet to take it. *)
Detaching(d) == \E w \in Workers : pc[w] = "detach" /\ loc[w].d = d

(* In terms of DequeSpec: the deque of a worker, ... *)
Uses(w) == CASE pc[w] = "suspend" -> NULL
             [] pc[w] = "switch"  -> loc[w].new
             [] pc[w] = "mugged"  -> loc[w].d
             [] OTHER             -> active[w]

(* ... whether d waits to be resumed, its future being complete, ... *)
Ready(d) ==
  \/ Offers(d) # {}
  \/ \E w \in Workers : pc[w] \in {"resume", "owned", "free", "give"} /\ loc[w].d = d

(* ... and its frames: a pop counts when it is known to have succeeded, a  *)
(* steal when Dekker's protocol is won.                                    *)
Work(d) == deq[d].frames + (IF Popping(d) THEN 1 ELSE 0) - (IF Detaching(d) THEN 1 ELSE 0)

Abstract == INSTANCE DequeSpec WITH
  uses  <- [w \in Workers |-> Uses(w)],
  ready <- {d \in Deques : Ready(d)},
  work  <- [d \in Deques |-> Work(d)]

(* Pushes, pops, steals, suspension and resumption work as if each were    *)
(* one step, although owner and thief race for the last frame without a    *)
(* common lock and a deque may be completed while it is being suspended:   *)
(* every frame is taken once, and every deque comes back once.             *)
Implements == Abstract!Spec
=============================================================================
