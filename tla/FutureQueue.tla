---------------------------- MODULE FutureQueue ----------------------------
(***************************************************************************)
(* The waiters of a future: rts/include/internal/future_base.h             *)
(* (suspend_deque, resume_deques) and future.h (get, put), with what they  *)
(* use of the runtime: a deque suspends itself (deque_pool.c,              *)
(* __cilkrts_suspend_deque), is made resumable (__cilkrts_make_resumable)  *)
(* and is then resumed by whichever worker mugs it.                        *)
(*                                                                         *)
(* The waiters form a lock-free stack whose links are embedded in the      *)
(* deques: tail is the newest waiter, each link points to the next older   *)
(* one and the oldest to the future's own link `head', whose next is NULL. *)
(* put swaps tail for NULL, which also means ready, and walks the stack.   *)
(*                                                                         *)
(* A deque stands for the strand that runs on it.  Which worker runs it is *)
(* left out: any resumable deque may be resumed at any time.               *)
(*                                                                         *)
(* The walk reads the link of a deque after it has made the deque          *)
(* resumable.  By then the deque may wait for another future and have      *)
(* written its link again; the history variable overwritten says whether   *)
(* that has happened, and most properties hold until it has.               *)
(***************************************************************************)
EXTENDS Naturals

CONSTANTS Deques,    \* deques, each with one embedded link
          Futures,
          Null,      \* NULL, and "no future"
          MaxGets    \* bound: gets each strand performs

ASSUME DisjointAssumption == Deques \cap Futures = {} /\ Null \notin Deques \cup Futures
ASSUME GetsAssumption == MaxGets \in Nat

(* A link is a deque's or a future's own one (head). *)
Links == Deques \cup Futures

VARIABLES
  tail,       \* future_base::tail: a link, or Null once the future is ready
  next,       \* the next field of every link
  fom,        \* future_base::FOM has been stored
  dfom,       \* deque::FOM: the future whose FOM the deque was given, or Null
  resumable,  \* deque::resumable
  gpc,        \* control point of each deque's strand
  want,       \* per deque: the future of the get in progress, or Null
  t,          \* per deque: local t of suspend_deque
  ppc,        \* control point of each future's put
  cur,        \* per future: local t of resume_deques
  gets,       \* per deque: gets left (bound)
  merged,     \* per deque: the futures whose FOM CilkFutureGet or CilkSteal
              \* merged into the strand's reachability data
  overwritten \* history: a link was written that a walk had yet to follow

getVars == <<gpc, want, t, gets, merged>>
putVars == <<ppc, cur>>
vars    == <<tail, next, fom, dfom, resumable, getVars, putVars, overwritten>>

Init ==
  /\ tail = [f \in Futures |-> f]
  /\ next = [l \in Links |-> Null]
  /\ fom = [f \in Futures |-> FALSE]
  /\ dfom = [d \in Deques |-> Null]
  /\ resumable = [d \in Deques |-> FALSE]
  /\ gpc = [d \in Deques |-> "run"]
  /\ want = [d \in Deques |-> Null]
  /\ t = [d \in Deques |-> Null]
  /\ ppc = [f \in Futures |-> "run"]
  /\ cur = [f \in Futures |-> Null]
  /\ gets = [d \in Deques |-> MaxGets]
  /\ merged = [d \in Deques |-> {}]
  /\ overwritten = FALSE

GoGet(d, from, to) == gpc[d] = from /\ gpc' = [gpc EXCEPT ![d] = to]
GoPut(f, from, to) == ppc[f] = from /\ ppc' = [ppc EXCEPT ![f] = to]

-----------------------------------------------------------------------------
(* future::get *)

(* ready(): a future that is ready is read without suspending; for another *)
(* one suspend_deque reads tail again.                                     *)
CallGet(d, f) ==
  /\ gets[d] > 0
  /\ gets' = [gets EXCEPT ![d] = @ - 1]
  /\ want' = [want EXCEPT ![d] = f]
  /\ \/ tail[f] = Null /\ GoGet(d, "run", "readfom")
     \/ tail[f] # Null /\ GoGet(d, "run", "load")
  /\ UNCHANGED <<tail, next, fom, dfom, resumable, t, merged, putVars, overwritten>>

(* t = tail, before the loop and after a failed compare-and-swap. *)
LoadTail(d) ==
  /\ GoGet(d, "load", "link")
  /\ t' = [t EXCEPT ![d] = tail[want[d]]]
  /\ UNCHANGED <<tail, next, fom, dfom, resumable, want, gets, merged, putVars, overwritten>>

(* A walk has made deque d resumable and is about to read its link. *)
WalkedFrom(d) == \E f \in Futures : ppc[f] = "advance" /\ cur[f] = d

(* l->next = t *)
WriteLink(d) ==
  /\ next' = [next EXCEPT ![d] = t[d]]
  /\ overwritten' = (overwritten \/ WalkedFrom(d))

(* Mutant: the deque is linked although the future has become ready. *)
LinkDequeUnchecked(d) ==
  /\ GoGet(d, "link", "swap")
  /\ WriteLink(d)
  /\ UNCHANGED <<tail, fom, dfom, resumable, want, t, gets, merged, putVars>>

(* The loop of suspend_deque up to the compare-and-swap. *)
LinkDeque(d) ==
  /\ \/ t[d] # Null /\ GoGet(d, "link", "swap") /\ WriteLink(d)
     \/ t[d] = Null /\ GoGet(d, "link", "readfom") /\ UNCHANGED <<next, overwritten>>
  /\ UNCHANGED <<tail, fom, dfom, resumable, want, t, gets, merged, putVars>>

(* Mutant: tail is stored without a compare. *)
StoreTail(d) ==
  /\ GoGet(d, "swap", "suspend")
  /\ tail' = [tail EXCEPT ![want[d]] = d]
  /\ UNCHANGED <<next, fom, dfom, resumable, want, t, gets, merged, putVars, overwritten>>

(* The compare-and-swap of tail. *)
SwapTail(d) ==
  /\ \/ /\ GoGet(d, "swap", "suspend")
        /\ tail[want[d]] = t[d]
        /\ tail' = [tail EXCEPT ![want[d]] = d]
     \/ /\ GoGet(d, "swap", "load")
        /\ tail[want[d]] # t[d]
        /\ UNCHANGED tail
  /\ UNCHANGED <<next, fom, dfom, resumable, want, t, gets, merged, putVars, overwritten>>

(* __cilkrts_suspend_deque: from here on the deque's fiber is resumable.   *)
SuspendDeque(d) ==
  /\ GoGet(d, "suspend", "suspended")
  /\ UNCHANGED <<tail, next, fom, dfom, resumable, want, t, gets, merged, putVars, overwritten>>

(* A worker mugs a resumable deque (jump_to_suspended_fiber, deque_suspend), *)
(* merges the FOM the deque was given (CilkSteal) and runs it: get returns. *)
ResumeDeque(d) ==
  /\ resumable[d]
  /\ GoGet(d, "suspended", "return")
  /\ resumable' = [resumable EXCEPT ![d] = FALSE]
  /\ merged' = [merged EXCEPT ![d] = @ \cup {dfom[d]}]
  /\ UNCHANGED <<tail, next, fom, dfom, want, t, gets, putVars, overwritten>>

(* CilkFutureGet(false, FOM): the future was ready; its FOM is read now.   *)
ReadFom(d) ==
  /\ GoGet(d, "readfom", "return")
  /\ merged' = [merged EXCEPT ![d] = @ \cup {IF fom[want[d]] THEN want[d] ELSE Null}]
  /\ UNCHANGED <<tail, next, fom, dfom, resumable, want, t, gets, putVars, overwritten>>

(* assert(ready()), and get returns the result. *)
ReturnGet(d) ==
  /\ GoGet(d, "return", "run")
  /\ want' = [want EXCEPT ![d] = Null]
  /\ t' = [t EXCEPT ![d] = Null]
  /\ UNCHANGED <<tail, next, fom, dfom, resumable, gets, merged, putVars, overwritten>>

-----------------------------------------------------------------------------
(* future::put *)

(* The task has stored its result; CilkFutureFinish gives the FOM. *)
StoreFom(f) ==
  /\ GoPut(f, "run", "exchange")
  /\ fom' = [fom EXCEPT ![f] = TRUE]
  /\ UNCHANGED <<tail, next, dfom, resumable, getVars, cur, overwritten>>

(* Mutant: the waiters are walked before the future is made ready. *)
ExchangeTailLate(f) ==
  /\ GoPut(f, "exchange", "test")
  /\ cur' = [cur EXCEPT ![f] = tail[f]]
  /\ UNCHANGED <<tail, next, fom, dfom, resumable, getVars, overwritten>>

(* The atomic exchange of tail for NULL. *)
ExchangeTail(f) ==
  /\ GoPut(f, "exchange", "test")
  /\ cur' = [cur EXCEPT ![f] = tail[f]]
  /\ tail' = [tail EXCEPT ![f] = Null]
  /\ UNCHANGED <<next, fom, dfom, resumable, getVars, overwritten>>

(* Mutant: the waiter is made resumable without the FOM. *)
TestNextNoFom(f) ==
  /\ \/ GoPut(f, "test", "resume") /\ next[cur[f]] # Null
     \/ GoPut(f, "test", "last") /\ next[cur[f]] = Null
  /\ UNCHANGED <<tail, next, fom, dfom, resumable, getVars, cur, overwritten>>

(* while (t->next != NULL): give the waiter the FOM, or end the walk. *)
TestNext(f) ==
  /\ \/ /\ GoPut(f, "test", "resume")
        /\ next[cur[f]] # Null
        /\ dfom' = [dfom EXCEPT ![cur[f]] = f]
     \/ /\ GoPut(f, "test", "last")
        /\ next[cur[f]] = Null
        /\ UNCHANGED dfom
  /\ UNCHANGED <<tail, next, fom, resumable, getVars, cur, overwritten>>

(* Mutant: the walk does not advance past the deque it made resumable. *)
MakeResumableNoAdvance(f) ==
  /\ GoPut(f, "resume", "test")
  /\ gpc[cur[f]] = "suspended"
  /\ resumable' = [resumable EXCEPT ![cur[f]] = TRUE]
  /\ UNCHANGED <<tail, next, fom, dfom, getVars, cur, overwritten>>

(* __cilkrts_make_resumable waits until the deque is fully suspended, then *)
(* puts it in a pool of resumable deques.                                  *)
MakeResumable(f) ==
  /\ GoPut(f, "resume", "advance")
  /\ gpc[cur[f]] = "suspended"
  /\ resumable' = [resumable EXCEPT ![cur[f]] = TRUE]
  /\ UNCHANGED <<tail, next, fom, dfom, getVars, cur, overwritten>>

(* t = t->next *)
Advance(f) ==
  /\ GoPut(f, "advance", "test")
  /\ cur' = [cur EXCEPT ![f] = next[cur[f]]]
  /\ UNCHANGED <<tail, next, fom, dfom, resumable, getVars, overwritten>>

(* The link that ends the walk: put returns if it is the future's own,     *)
(* which has no deque.  TypeOK says that it is always a future's, so that  *)
(* the branch of if(t->d) is never taken.                                  *)
LastLink(f) ==
  /\ GoPut(f, "last", "done")
  /\ UNCHANGED <<tail, next, fom, dfom, resumable, getVars, cur, overwritten>>

-----------------------------------------------------------------------------
Get(d) == \/ \E f \in Futures : CallGet(d, f)
          \/ LoadTail(d) \/ LinkDeque(d) \/ SwapTail(d) \/ SuspendDeque(d)
          \/ ResumeDeque(d) \/ ReadFom(d) \/ ReturnGet(d)

Put(f) == StoreFom(f) \/ ExchangeTail(f) \/ TestNext(f) \/ MakeResumable(f)
          \/ Advance(f) \/ LastLink(f)

AllDone == /\ \A d \in Deques : gpc[d] = "run" /\ gets[d] = 0
           /\ \A f \in Futures : ppc[f] = "done"

(* The computation has ended; or a walk has strayed, and may then wait for *)
(* ever for a deque that nobody suspends.                                  *)
Finished == (AllDone \/ overwritten) /\ UNCHANGED vars

Next == (\E d \in Deques : Get(d)) \/ (\E f \in Futures : Put(f)) \/ Finished

Spec == Init /\ [][Next]_vars

(* Strands and tasks run on worker threads that do not stop, and a         *)
(* resumable deque is found by some worker.                                *)
FairSpec == /\ Spec
            /\ \A d \in Deques : WF_vars(Get(d))
            /\ \A f \in Futures : WF_vars(Put(f))
-----------------------------------------------------------------------------
(* Properties *)

(* The values the fields of future_base and of the deques can hold. *)
FieldsOK ==
  /\ tail \in [Futures -> Links \cup {Null}]
  /\ next \in [Links -> Links \cup {Null}]
  /\ fom \in [Futures -> BOOLEAN]
  /\ dfom \in [Deques -> Futures \cup {Null}]
  /\ resumable \in [Deques -> BOOLEAN]
  /\ gpc \in [Deques -> {"run", "load", "link", "swap", "suspend", "suspended",
                         "readfom", "return"}]
  /\ want \in [Deques -> Futures \cup {Null}]
  /\ t \in [Deques -> Links \cup {Null}]
  /\ ppc \in [Futures -> {"run", "exchange", "test", "resume", "advance", "last", "done"}]
  /\ cur \in [Futures -> Links \cup {Null}]
  /\ gets \in [Deques -> Nat]
  /\ merged \in [Deques -> SUBSET (Futures \cup {Null})]
  /\ overwritten \in BOOLEAN

(* No NULL is followed: a deque on a stack of waiters has a link that      *)
(* leads on, and a walk is always at a link and ends at a future's own one *)
(* (future_base.h:55 never finds a deque), even one that strayed.          *)
TypeOK ==
  /\ FieldsOK
  /\ \A d \in Deques : gpc[d] # "run" => want[d] \in Futures
  /\ \A d \in Deques : gpc[d] \in {"swap", "suspend", "suspended"} => next[d] \in Links
  /\ \A f \in Futures : ppc[f] \notin {"run", "exchange"} => cur[f] \in Links
  /\ \A f \in Futures : ppc[f] = "last" => cur[f] \in Futures

(* assert(ready()) at the end of get (future.h:88, 116): a get returns     *)
(* only when its future is ready.                                          *)
ReadyAfterGet ==
  \A d \in Deques : gpc[d] = "return" => tail[want[d]] = Null

(* The assertion holds, however often deques wait and for whatever         *)
(* futures, until a link is overwritten under a walk: reading the link     *)
(* late (future_base.h:52) is the only fault of the protocol.              *)
ReadyUnlessOverwritten == ~overwritten => ReadyAfterGet

(* A strand that returns from get has merged the FOM of the future it      *)
(* asked for and never an FOM that was not stored: the race detector       *)
(* orders the future's task before the strand whichever way get went.      *)
FomMerged ==
  ~overwritten =>
    \A d \in Deques :
      /\ Null \notin merged[d]
      /\ gpc[d] = "return" => want[d] \in merged[d]

(* CILK_ASSERT(deque_to_resume->resumable == 0) (deque_pool.c:95): until a *)
(* link is overwritten no waiter is made resumable twice, by one walk or   *)
(* by the walks of two futures.                                            *)
ResumedOnce ==
  ~overwritten =>
    \A f \in Futures : ppc[f] = "resume" => cur[f] \in Deques /\ ~resumable[cur[f]]

(* Every get returns and every put ends, unless a link is overwritten: no  *)
(* waiter is lost by a race of suspend_deque with resume_deques, and no    *)
(* walk waits for ever for a deque to be suspended.                        *)
Completes == <>(AllDone \/ overwritten)

(* The queue of waiters implements the future of FutureSpec, which         *)
(* promises nothing more once a link was overwritten.  The abstract get    *)
(* returns when the strand goes on, with the FOM merged.                   *)
Abstract == INSTANCE FutureSpec WITH
  Strands  <- Deques,
  NoFuture <- Null,
  ready    <- {f \in Futures : tail[f] = Null},
  getting  <- [d \in Deques |-> IF gpc[d] = "return" THEN Null ELSE want[d]],
  forfeited <- overwritten

Implements == Abstract!Spec
=============================================================================
