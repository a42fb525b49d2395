-------------------------- MODULE FutureQueueProofs --------------------------
(***************************************************************************)
(* Proofs about FutureQueue, for any deques and futures and any number of  *)
(* gets.  Type correctness holds in every state.  What the queue of        *)
(* waiters promises holds until a link is overwritten under a walk, and    *)
(* nothing but that can break it.                                          *)
(***************************************************************************)
EXTENDS FutureQueue, TLAPS

(* Whatever a pointer leads to is a future's own link or one that has been *)
(* linked to another.                                                      *)
Linked(l) == l \in Futures \/ (l \in Deques /\ next[l] # Null)

PointersInv ==
  /\ \A f \in Futures : next[f] = Null
  /\ \A f \in Futures : tail[f] # Null => Linked(tail[f])
  /\ \A d \in Deques : t[d] # Null => Linked(t[d])
  /\ \A d \in Deques : next[d] # Null => Linked(next[d])
  /\ \A f \in Futures : ppc[f] \notin {"run", "exchange"} => Linked(cur[f])

(* What the control points of a get and of a put say in every state. *)
GetTypes ==
  \A d \in Deques :
    /\ IF gpc[d] = "run" THEN want[d] = Null ELSE want[d] \in Futures
    /\ gpc[d] \in {"swap", "suspend", "suspended"} => next[d] # Null
    /\ gpc[d] = "swap" => t[d] # Null

PutTypes ==
  \A f \in Futures :
    /\ fom[f] <=> ppc[f] # "run"
    /\ ppc[f] \in {"run", "exchange"} <=> tail[f] # Null
    /\ ppc[f] \in {"resume", "advance"} => cur[f] \in Deques
    /\ ppc[f] = "last" => cur[f] \in Futures

TypeInv == FieldsOK /\ PointersInv /\ GetTypes /\ PutTypes

(* Deque d is on the stack of f and has not been made resumable. *)
Waits(d, f) == gpc[d] \in {"suspend", "suspended"} /\ want[d] = f /\ ~resumable[d]

(* Link l belongs to what is left of the stack of f. *)
LinkOf(l, f) == l = f \/ (l \in Deques /\ Waits(l, f))

(* The stack of f is a chain of waiters that ends at its own link: below a *)
(* waiter is a link of the stack, no two waiters have the same one below   *)
(* them, and the top has none above it.  A walk is at the top of what is   *)
(* left, or has just let its deque go and is above it.                     *)
StackOK(f) ==
  /\ \A d \in Deques : Waits(d, f) => LinkOf(next[d], f)
  /\ \A d, e \in Deques : Waits(d, f) /\ Waits(e, f) /\ next[d] = next[e] => d = e
  /\ tail[f] # Null =>
       /\ LinkOf(tail[f], f)
       /\ \A d \in Deques : Waits(d, f) => next[d] # tail[f]
  /\ ppc[f] \in {"test", "resume"} =>
       /\ LinkOf(cur[f], f)
       /\ \A d \in Deques : Waits(d, f) => next[d] # cur[f]
  /\ ppc[f] = "resume" => dfom[cur[f]] = f
  /\ ppc[f] = "advance" =>
       /\ LinkOf(next[cur[f]], f)
       /\ ~Waits(cur[f], f)
       /\ \A d \in Deques : Waits(d, f) => next[d] # next[cur[f]]

StackInv == \A f \in Futures : StackOK(f)

(* What a get knows at each of its control points. *)
GetOK(d) ==
  /\ gpc[d] = "link" /\ t[d] = Null => tail[want[d]] = Null
  /\ gpc[d] = "swap" => next[d] = t[d]
  /\ gpc[d] \in {"readfom", "return"} => tail[want[d]] = Null
  /\ resumable[d] => gpc[d] = "suspended" /\ dfom[d] = want[d] /\ tail[want[d]] = Null
  /\ Null \notin merged[d]
  /\ gpc[d] = "return" => want[d] \in merged[d]

GetInv == \A d \in Deques : GetOK(d)

(* The inductive invariant. *)
QueueInv == TypeInv /\ (~overwritten => StackInv /\ GetInv)

-----------------------------------------------------------------------------
(* Deques, futures and Null are told apart. *)
LEMMA Distinct ==
  /\ \A d \in Deques : d \notin Futures /\ d # Null
  /\ \A f \in Futures : f \notin Deques /\ f # Null
  /\ \A d \in Deques : d \in Links
  /\ \A f \in Futures : f \in Links
  /\ \A l \in Links : l \in Deques \/ l \in Futures
PROOF
  BY DisjointAssumption DEF Links

(* The invariant holds initially. *)
LEMMA QueueInit == Init => QueueInv
PROOF
<1> SUFFICES ASSUME Init PROVE QueueInv
  OBVIOUS
<1>1. FieldsOK
  BY Distinct, GetsAssumption DEF Init, FieldsOK, Links
<1>2. PointersInv
  BY Distinct DEF Init, PointersInv, Linked
<1>3. GetTypes /\ PutTypes
  BY Distinct DEF Init, GetTypes, PutTypes
<1>4. \A d \in Deques, f \in Futures : ~Waits(d, f)
  BY DEF Init, Waits
<1>5. StackInv
  <2>1. \A f \in Futures : tail[f] = f /\ ppc[f] = "run"
    BY DEF Init
  <2> QED
    BY <1>4, <2>1 DEF StackInv, StackOK, LinkOf
<1>6. GetInv
  <2>1. \A d \in Deques : gpc[d] = "run" /\ ~resumable[d] /\ merged[d] = {}
    BY DEF Init
  <2> QED
    BY <2>1 DEF GetInv, GetOK
<1> QED
  BY <1>1, <1>2, <1>3, <1>5, <1>6 DEF QueueInv, TypeInv

-----------------------------------------------------------------------------
(* Type correctness. *)

(* The steps of a get that leave the links and the tails alone. *)
LEMMA TypesEndGet ==
  ASSUME TypeInv, NEW d \in Deques,
         \/ \E f \in Futures : CallGet(d, f)
         \/ SuspendDeque(d) \/ ResumeDeque(d) \/ ReadFom(d) \/ ReturnGet(d)
  PROVE  TypeInv'
PROOF
<1> USE DEF TypeInv
<1>1. IF gpc[d] = "run" THEN want[d] = Null ELSE want[d] \in Futures
  BY DEF GetTypes
<1>2. FieldsOK'
  <2>1. CASE \E f \in Futures : CallGet(d, f)
    BY <2>1 DEF CallGet, GoGet, FieldsOK, putVars
  <2>2. CASE SuspendDeque(d)
    BY <2>2 DEF SuspendDeque, GoGet, FieldsOK, putVars
  <2>3. CASE ResumeDeque(d)
    BY <2>3 DEF ResumeDeque, GoGet, FieldsOK, putVars
  <2>4. CASE ReadFom(d)
    <3>1. (IF fom[want[d]] THEN want[d] ELSE Null) \in Futures \cup {Null}
      BY <1>1, <2>4 DEF ReadFom, GoGet
    <3> QED
      BY <2>4, <3>1 DEF ReadFom, GoGet, FieldsOK, putVars
  <2>5. CASE ReturnGet(d)
    BY <2>5 DEF ReturnGet, GoGet, FieldsOK, putVars
  <2> QED
    BY <2>1, <2>2, <2>3, <2>4, <2>5
<1>3. UNCHANGED <<tail, next, fom, ppc, cur>>
  BY DEF CallGet, SuspendDeque, ResumeDeque, ReadFom, ReturnGet, putVars
<1>4. \A e \in Deques : t'[e] = t[e] \/ t'[e] = Null
  BY DEF CallGet, SuspendDeque, ResumeDeque, ReadFom, ReturnGet, FieldsOK
<1>5. PointersInv'
  BY <1>3, <1>4 DEF PointersInv, Linked
<1>6. GetTypes'
  <2>1. \A e \in Deques : e # d => gpc'[e] = gpc[e] /\ want'[e] = want[e] /\ t'[e] = t[e]
    BY DEF CallGet, SuspendDeque, ResumeDeque, ReadFom, ReturnGet, GoGet, FieldsOK
  <2>2. IF gpc'[d] = "run" THEN want'[d] = Null ELSE want'[d] \in Futures
    BY <1>1 DEF CallGet, SuspendDeque, ResumeDeque, ReadFom, ReturnGet, GoGet, FieldsOK
  <2>3. gpc'[d] # "swap" /\ (gpc'[d] \in {"suspend", "suspended"} => gpc[d] = "suspend")
    BY DEF CallGet, SuspendDeque, ResumeDeque, ReadFom, ReturnGet, GoGet, FieldsOK
  <2> QED
    BY <1>3, <2>1, <2>2, <2>3 DEF GetTypes
<1>7. PutTypes'
  BY <1>3 DEF PutTypes
<1> QED
  BY <1>2, <1>5, <1>6, <1>7

(* The loop of suspend_deque: a link is written with one that leads on. *)
LEMMA TypesPush ==
  ASSUME TypeInv, NEW d \in Deques, LoadTail(d) \/ LinkDeque(d) \/ SwapTail(d)
  PROVE  TypeInv'
PROOF
<1> USE DEF TypeInv
<1>1. gpc[d] \in {"load", "link", "swap"} /\ want[d] \in Futures
  BY DEF LoadTail, LinkDeque, SwapTail, GoGet, GetTypes
<1>2. UNCHANGED <<fom, want, ppc, cur>>
  BY DEF LoadTail, LinkDeque, SwapTail, putVars
<1>3. \A e \in Deques : e # d => gpc'[e] = gpc[e] /\ t'[e] = t[e] /\ next'[e] = next[e]
  BY Distinct DEF LoadTail, LinkDeque, SwapTail, WriteLink, GoGet, FieldsOK
<1>4. CASE LoadTail(d)
  <2>1. FieldsOK'
    BY <1>1, <1>4 DEF LoadTail, GoGet, FieldsOK, putVars
  <2>2. gpc'[d] = "link" /\ t'[d] = tail[want[d]] /\ UNCHANGED <<tail, next>>
    BY <1>4 DEF LoadTail, GoGet, FieldsOK
  <2>3. PointersInv'
    BY <1>1, <1>2, <1>3, <2>2 DEF PointersInv, Linked
  <2> QED
    BY <1>1, <1>2, <1>3, <2>1, <2>2, <2>3 DEF GetTypes, PutTypes
<1>5. CASE LinkDeque(d)
  <2>1. FieldsOK'
    BY <1>5, Distinct DEF LinkDeque, WriteLink, GoGet, FieldsOK, putVars
  <2>2. /\ \/ gpc'[d] = "swap" /\ t[d] # Null /\ next'[d] = t[d]
           \/ gpc'[d] = "readfom" /\ UNCHANGED next
        /\ \A f \in Futures : next'[f] = next[f]
        /\ UNCHANGED <<tail, t>>
    BY <1>5, Distinct DEF LinkDeque, WriteLink, GoGet, FieldsOK
  <2>3. \A l : Linked(l) => Linked(l)'
    BY <1>3, <2>2 DEF Linked
  <2>4. PointersInv'
    BY <1>2, <1>3, <2>2, <2>3 DEF PointersInv
  <2> QED
    BY <1>1, <1>2, <1>3, <2>1, <2>2, <2>4 DEF GetTypes, PutTypes
<1>6. CASE SwapTail(d)
  <2>1. FieldsOK'
    BY <1>1, <1>6, Distinct DEF SwapTail, GoGet, FieldsOK, putVars
  <2>2. gpc[d] = "swap" /\ gpc'[d] \in {"suspend", "load"} /\ UNCHANGED <<next, t>>
    BY <1>6 DEF SwapTail, GoGet, FieldsOK
  <2>3. t[d] # Null /\ next[d] # Null
    BY <2>2 DEF GetTypes
  <2>4. \A f \in Futures : \/ tail'[f] = tail[f]
                           \/ tail'[f] = d /\ tail[f] # Null
    BY <1>1, <1>6, <2>3 DEF SwapTail, FieldsOK
  <2>5. PointersInv'
    BY <1>2, <2>2, <2>3, <2>4 DEF PointersInv, Linked
  <2>6. PutTypes'
    BY <1>2, <2>4, Distinct DEF PutTypes
  <2> QED
    BY <1>1, <1>2, <1>3, <2>1, <2>2, <2>3, <2>5, <2>6 DEF GetTypes
<1> QED
  BY <1>4, <1>5, <1>6

(* The steps of a put: a walk is led by links that lead on. *)
LEMMA TypesPut ==
  ASSUME TypeInv, NEW f \in Futures, Put(f)
  PROVE  TypeInv'
PROOF
<1> USE DEF TypeInv
<1>1. UNCHANGED <<next, gpc, want, t>>
  BY DEF Put, StoreFom, ExchangeTail, TestNext, MakeResumable, Advance, LastLink, getVars
<1>2. \A g \in Futures : g # f => /\ ppc'[g] = ppc[g] /\ cur'[g] = cur[g]
                                  /\ fom'[g] = fom[g] /\ tail'[g] = tail[g]
  BY DEF Put, StoreFom, ExchangeTail, TestNext, MakeResumable, Advance, LastLink, GoPut, FieldsOK
<1>3. GetTypes'
  BY <1>1 DEF GetTypes
<1>4. ASSUME ppc'[f] \notin {"run", "exchange"} => Linked(cur'[f]),
             tail'[f] \in {tail[f], Null}
      PROVE  PointersInv'
  BY <1>1, <1>2, <1>4 DEF PointersInv, Linked
<1>5. CASE StoreFom(f)
  <2>1. ppc[f] = "run" /\ ppc'[f] = "exchange" /\ fom'[f] /\ UNCHANGED <<tail, cur>>
    BY <1>5 DEF StoreFom, GoPut, FieldsOK
  <2>2. FieldsOK'
    BY <1>5 DEF StoreFom, GoPut, FieldsOK, getVars
  <2> QED
    BY <1>2, <1>3, <1>4, <2>1, <2>2 DEF PutTypes
<1>6. CASE ExchangeTail(f)
  <2>1. /\ ppc[f] = "exchange" /\ ppc'[f] = "test" /\ cur'[f] = tail[f]
        /\ tail'[f] = Null /\ UNCHANGED fom
    BY <1>6 DEF ExchangeTail, GoPut, FieldsOK
  <2>2. FieldsOK'
    BY <1>6 DEF ExchangeTail, GoPut, FieldsOK, getVars
  <2>3. Linked(cur'[f])
    BY <2>1 DEF PutTypes, PointersInv
  <2> QED
    BY <1>2, <1>3, <1>4, <2>1, <2>2, <2>3 DEF PutTypes
<1>7. CASE TestNext(f)
  <2>1. /\ ppc[f] = "test" /\ UNCHANGED <<tail, cur, fom>>
        /\ \/ ppc'[f] = "resume" /\ next[cur[f]] # Null
           \/ ppc'[f] = "last" /\ next[cur[f]] = Null
    BY <1>7 DEF TestNext, GoPut, FieldsOK
  <2>2. FieldsOK'
    BY <1>7 DEF TestNext, GoPut, FieldsOK, getVars
  <2>3. Linked(cur[f])
    BY <2>1 DEF PointersInv
  <2>4. next[cur[f]] # Null <=> cur[f] \in Deques
    BY <2>3, Distinct DEF PointersInv, Linked
  <2> QED
    BY <1>2, <1>3, <1>4, <2>1, <2>2, <2>3, <2>4 DEF PutTypes, Linked
<1>8. CASE MakeResumable(f)
  <2>1. ppc[f] = "resume" /\ ppc'[f] = "advance" /\ UNCHANGED <<tail, cur, fom>>
    BY <1>8 DEF MakeResumable, GoPut, FieldsOK
  <2>2. FieldsOK'
    BY <1>8 DEF MakeResumable, GoPut, FieldsOK, getVars
  <2>3. Linked(cur[f])
    BY <2>1 DEF PointersInv
  <2> QED
    BY <1>2, <1>3, <1>4, <2>1, <2>2, <2>3 DEF PutTypes
<1>9. CASE Advance(f)
  <2>1. ppc[f] = "advance" /\ ppc'[f] = "test" /\ cur'[f] = next[cur[f]] /\ UNCHANGED <<tail, fom>>
    BY <1>9 DEF Advance, GoPut, FieldsOK
  <2>2. cur[f] \in Deques /\ Linked(cur[f])
    BY <2>1 DEF PutTypes, PointersInv
  <2>3. Linked(next[cur[f]])
    BY <2>2, Distinct DEF PointersInv, Linked
  <2>4. FieldsOK'
    BY <1>9, <2>2, Distinct DEF Advance, GoPut, FieldsOK, getVars
  <2> QED
    BY <1>2, <1>3, <1>4, <2>1, <2>3, <2>4 DEF PutTypes
<1>10. CASE LastLink(f)
  <2>1. ppc[f] = "last" /\ ppc'[f] = "done" /\ UNCHANGED <<tail, cur, fom>>
    BY <1>10 DEF LastLink, GoPut, FieldsOK
  <2>2. FieldsOK'
    BY <1>10 DEF LastLink, GoPut, FieldsOK, getVars
  <2>3. Linked(cur[f])
    BY <2>1 DEF PointersInv
  <2> QED
    BY <1>2, <1>3, <1>4, <2>1, <2>2, <2>3 DEF PutTypes
<1> QED
  BY <1>5, <1>6, <1>7, <1>8, <1>9, <1>10 DEF Put

(* Every step keeps the types. *)
LEMMA TypesNext == TypeInv /\ [Next]_vars => TypeInv'
PROOF
<1> SUFFICES ASSUME TypeInv, [Next]_vars PROVE TypeInv'
  OBVIOUS
<1>1. CASE \E d \in Deques : Get(d)
  BY <1>1, TypesEndGet, TypesPush DEF Get
<1>2. CASE \E f \in Futures : Put(f)
  BY <1>2, TypesPut
<1>3. CASE UNCHANGED vars
  BY <1>3 DEF vars, getVars, putVars, TypeInv, FieldsOK, PointersInv, Linked, GetTypes, PutTypes
<1> QED
  BY <1>1, <1>2, <1>3 DEF Next, Finished

(* A future that is ready stays ready. *)
LEMMA ReadyStays ==
  ASSUME TypeInv, [Next]_vars, NEW f \in Futures, tail[f] = Null
  PROVE  tail'[f] = Null
PROOF
<1>1. ASSUME NEW d \in Deques, SwapTail(d) PROVE tail'[f] = Null
  <2>1. t[d] # Null /\ want[d] \in Futures
    BY <1>1 DEF TypeInv, GetTypes, SwapTail, GoGet
  <2> QED
    BY <1>1, <2>1 DEF SwapTail, TypeInv, FieldsOK
<1>2. ASSUME NEW d \in Deques, Get(d) PROVE tail'[f] = Null
  BY <1>1, <1>2 DEF Get, CallGet, LoadTail, LinkDeque, SuspendDeque, ResumeDeque, ReadFom, ReturnGet
<1>3. ASSUME NEW g \in Futures, Put(g) PROVE tail'[f] = Null
  BY <1>3 DEF Put, StoreFom, ExchangeTail, TestNext, MakeResumable, Advance, LastLink,
              TypeInv, FieldsOK
<1> QED
  BY <1>2, <1>3 DEF Next, Finished, vars

-----------------------------------------------------------------------------
(* The stacks, until a link is overwritten. *)

(* A step that leaves the stack of g alone, and a walk along it. *)
StackStays(g) ==
  /\ \A d \in Deques : Waits(d, g)' <=> Waits(d, g)
  /\ \A d \in Deques : Waits(d, g) => next'[d] = next[d]
  /\ tail'[g] = tail[g]
  /\ ppc'[g] \in {"test", "resume", "advance"} => ppc'[g] = ppc[g] /\ cur'[g] = cur[g]
  /\ ppc'[g] = "resume" => dfom'[cur[g]] = dfom[cur[g]]
  /\ ppc'[g] = "advance" => next'[cur[g]] = next[cur[g]]

LEMMA StackKept ==
  ASSUME TypeInv, NEW g \in Futures, StackOK(g), StackStays(g)
  PROVE  StackOK(g)'
PROOF
<1>1. \A l : LinkOf(l, g) => l = g \/ (l \in Deques /\ Waits(l, g)')
  BY DEF StackStays, LinkOf
<1>2. ppc[g] = "advance" => cur[g] \in Deques
  BY DEF TypeInv, PutTypes
<1>3. \A d \in Deques : Waits(d, g)' => LinkOf(next[d], g)'
  BY <1>1 DEF StackOK, StackStays, LinkOf, Waits
<1>4. \A d, e \in Deques : Waits(d, g)' /\ Waits(e, g)' /\ next'[d] = next'[e] => d = e
  BY DEF StackOK, StackStays
<1>5. tail'[g] # Null => /\ LinkOf(tail[g], g)'
                         /\ \A d \in Deques : Waits(d, g)' => next'[d] # tail'[g]
  BY <1>1 DEF StackOK, StackStays, LinkOf, Waits
<1>6. ppc'[g] \in {"test", "resume"} =>
        /\ LinkOf(cur[g], g)'
        /\ \A d \in Deques : Waits(d, g)' => next'[d] # cur'[g]
  BY <1>1 DEF StackOK, StackStays, LinkOf, Waits
<1>7. ppc'[g] = "resume" => dfom'[cur'[g]] = g
  BY DEF StackOK, StackStays
<1>8. ppc'[g] = "advance" =>
        /\ LinkOf(next[cur[g]], g)'
        /\ ~Waits(cur[g], g)'
        /\ \A d \in Deques : Waits(d, g)' => next'[d] # next'[cur'[g]]
  <2> SUFFICES ASSUME ppc'[g] = "advance"
               PROVE  /\ LinkOf(next[cur[g]], g)'
                      /\ ~Waits(cur[g], g)'
                      /\ \A d \in Deques : Waits(d, g)' => next'[d] # next'[cur'[g]]
    OBVIOUS
  <2>1. ppc[g] = "advance" /\ cur'[g] = cur[g] /\ next'[cur[g]] = next[cur[g]]
    BY DEF StackStays
  <2>2. LinkOf(next[cur[g]], g)'
    BY <1>1, <2>1 DEF StackOK, LinkOf, Waits
  <2>3. ~Waits(cur[g], g)'
    BY <1>2, <2>1 DEF StackOK, StackStays, Waits
  <2>4. \A d \in Deques : Waits(d, g)' => next'[d] # next'[cur'[g]]
    BY <2>1 DEF StackOK, StackStays
  <2> QED
    BY <2>2, <2>3, <2>4
<1> QED
  BY <1>3, <1>4, <1>5, <1>6, <1>7, <1>8 DEF StackOK

(* A step that leaves a get alone, but for the FOM its deque is given *)
(* before it is made resumable.                                       *)
GetStays(e) ==
  /\ gpc'[e] = gpc[e] /\ want'[e] = want[e] /\ t'[e] = t[e] /\ merged'[e] = merged[e]
  /\ gpc[e] = "swap" => next'[e] = next[e]
  /\ resumable'[e] => resumable[e] /\ dfom'[e] = dfom[e]

LEMMA GetKept ==
  ASSUME TypeInv, [Next]_vars, NEW e \in Deques, GetOK(e), GetStays(e)
  PROVE  GetOK(e)'
PROOF
<1>1. want[e] \in Futures /\ tail[want[e]] = Null => tail'[want[e]] = Null
  BY ReadyStays
<1>2. gpc[e] # "run" => want[e] \in Futures
  BY DEF TypeInv, GetTypes
<1> QED
  BY <1>1, <1>2 DEF GetOK, GetStays

(* The steps of get(d) other than a compare-and-swap that succeeds touch   *)
(* no stack: only the link of a deque that does not wait is written.       *)
LEMMA GetStacks ==
  ASSUME TypeInv, StackInv, GetInv, ~overwritten', NEW d \in Deques,
         \/ \E f \in Futures : CallGet(d, f)
         \/ LoadTail(d) \/ LinkDeque(d) \/ SuspendDeque(d)
         \/ ResumeDeque(d) \/ ReadFom(d) \/ ReturnGet(d)
         \/ SwapTail(d) /\ UNCHANGED tail
  PROVE  StackInv'
PROOF
<1> SUFFICES ASSUME NEW g \in Futures PROVE StackOK(g)'
  BY DEF StackInv
<1>1. UNCHANGED <<tail, dfom, ppc, cur>>
  BY DEF CallGet, LoadTail, LinkDeque, SuspendDeque, ResumeDeque, ReadFom, ReturnGet, SwapTail,
         putVars
<1>2. \A e \in Deques : e # d => /\ gpc'[e] = gpc[e] /\ want'[e] = want[e]
                                 /\ resumable'[e] = resumable[e]
  BY DEF CallGet, LoadTail, LinkDeque, SuspendDeque, ResumeDeque, ReadFom, ReturnGet, SwapTail,
         GoGet, TypeInv, FieldsOK
<1>3. Waits(d, g)' <=> Waits(d, g)
  <2>1. resumable[d] => gpc[d] = "suspended"
    BY DEF GetInv, GetOK
  <2>2. CASE \/ \E f \in Futures : CallGet(d, f)
             \/ LoadTail(d) \/ LinkDeque(d) \/ ReadFom(d) \/ ReturnGet(d)
    <3>1. gpc[d] \notin {"suspend", "suspended"} /\ gpc'[d] \notin {"suspend", "suspended"}
      BY <2>2 DEF CallGet, LoadTail, LinkDeque, ReadFom, ReturnGet, GoGet, TypeInv, FieldsOK
    <3> QED
      BY <3>1 DEF Waits
  <2>3. CASE SuspendDeque(d)
    BY <2>3 DEF SuspendDeque, GoGet, TypeInv, FieldsOK, Waits
  <2>4. CASE ResumeDeque(d)
    BY <2>4 DEF ResumeDeque, GoGet, TypeInv, FieldsOK, Waits
  <2>5. CASE SwapTail(d) /\ UNCHANGED tail
    <3>1. gpc[d] = "swap" /\ next[d] = t[d] /\ want[d] \in Futures /\ t[d] # Null
      BY <2>5 DEF SwapTail, GoGet, TypeInv, GetTypes, GetInv, GetOK
    <3>2. CASE gpc'[d] = "load"
      BY <3>1, <3>2 DEF Waits
    <3>3. CASE gpc'[d] # "load"
      <4>1. tail[want[d]] = d /\ t[d] = d
        BY <2>5, <3>1, <3>3 DEF SwapTail, GoGet, TypeInv, FieldsOK
      <4>2. LinkOf(d, want[d])
        BY <3>1, <4>1 DEF StackInv, StackOK
      <4> QED
        BY <3>1, <4>2, Distinct DEF LinkOf, Waits
    <3> QED
      BY <3>2, <3>3
  <2> QED
    BY <2>2, <2>3, <2>4, <2>5
<1>4. \A e \in Deques : Waits(e, g)' <=> Waits(e, g)
  BY <1>2, <1>3 DEF Waits
<1>5. \A e \in Deques : next'[e] = next[e] \/ (e = d /\ gpc[d] = "link" /\ ~WalkedFrom(d))
  BY Distinct DEF CallGet, LoadTail, LinkDeque, WriteLink, SuspendDeque, ResumeDeque, ReadFom,
         ReturnGet, SwapTail, GoGet, TypeInv, FieldsOK
<1>6. \A e \in Deques : Waits(e, g) => next'[e] = next[e]
  BY <1>5 DEF Waits
<1>7. ppc[g] = "advance" => next'[cur[g]] = next[cur[g]]
  BY <1>5 DEF WalkedFrom, TypeInv, PutTypes
<1>8. StackStays(g)
  BY <1>1, <1>4, <1>6, <1>7 DEF StackStays
<1> QED
  BY <1>8, StackKept DEF StackInv

(* The compare-and-swap that succeeds puts its deque on top of the stack. *)
LEMMA SwapStacks ==
  ASSUME TypeInv, StackInv, GetInv, NEW d \in Deques, SwapTail(d), ~(UNCHANGED tail)
  PROVE  StackInv'
PROOF
<1>1. gpc[d] = "swap" /\ want[d] \in Futures /\ t[d] # Null /\ next[d] = t[d] /\ ~resumable[d]
  BY DEF SwapTail, GoGet, TypeInv, GetTypes, GetInv, GetOK
<1> PICK f \in Futures : f = want[d]
  BY <1>1
<1>2. gpc'[d] = "suspend" /\ tail[f] = t[d] /\ tail' = [tail EXCEPT ![f] = d]
  BY DEF SwapTail, GoGet, TypeInv, FieldsOK
<1>3. UNCHANGED <<next, dfom, resumable, want, ppc, cur>>
  BY DEF SwapTail, putVars
<1>4. \A e \in Deques : e # d => gpc'[e] = gpc[e]
  BY DEF SwapTail, GoGet, TypeInv, FieldsOK
<1>5. /\ \A g \in Futures : ~Waits(d, g) /\ (Waits(d, g)' <=> g = f)
      /\ \A e \in Deques, g \in Futures : e # d => (Waits(e, g)' <=> Waits(e, g))
  BY <1>1, <1>2, <1>3, <1>4 DEF Waits
<1>6. tail'[f] = d /\ \A g \in Futures : g # f => tail'[g] = tail[g]
  BY <1>2 DEF TypeInv, FieldsOK
<1>7. ASSUME NEW g \in Futures, g # f PROVE StackOK(g)'
  <2>1. StackStays(g)
    BY <1>3, <1>5, <1>6, <1>7 DEF StackStays
  <2> QED
    BY <2>1, StackKept DEF StackInv
<1>8. StackOK(f)'
  <2>1. StackOK(f) /\ tail[f] # Null
    BY <1>1, <1>2 DEF StackInv
  <2>2. LinkOf(t[d], f) /\ \A e \in Deques : Waits(e, f) => next[e] # t[d]
    BY <1>2, <2>1 DEF StackOK
  <2>3. \A e \in Deques : Waits(e, f)' => LinkOf(next[e], f) /\ next[e] # d
    BY <1>1, <1>5, <2>1, <2>2, Distinct DEF StackOK, LinkOf
  <2>4. \A e \in Deques : Waits(e, f)' => LinkOf(next[e], f)'
    BY <1>3, <1>5, <2>3 DEF LinkOf, Waits
  <2>5. \A e1, e2 \in Deques : Waits(e1, f)' /\ Waits(e2, f)' /\ next'[e1] = next'[e2] => e1 = e2
    BY <1>1, <1>3, <1>5, <2>1, <2>2 DEF StackOK
  <2>6. /\ LinkOf(tail[f], f)'
        /\ \A e \in Deques : Waits(e, f)' => next'[e] # tail'[f]
    BY <1>3, <1>5, <1>6, <2>3 DEF LinkOf, Waits
  <2>7. ppc'[f] \in {"run", "exchange"}
    BY <1>3, <2>1 DEF TypeInv, PutTypes
  <2> QED
    BY <2>4, <2>5, <2>6, <2>7 DEF StackOK
<1> QED
  BY <1>7, <1>8 DEF StackInv

(* The gets after a step of get(d): that of d is where the step took it. *)
LEMMA GetGets ==
  ASSUME TypeInv, StackInv, GetInv, [Next]_vars, NEW d \in Deques, Get(d)
  PROVE  GetInv'
PROOF
<1> SUFFICES ASSUME NEW e \in Deques PROVE GetOK(e)'
  BY DEF GetInv
<1>1. CASE e # d
  <2>1. GetStays(e)
    BY <1>1, Distinct DEF Get, CallGet, LoadTail, LinkDeque, WriteLink, SwapTail, SuspendDeque,
       ResumeDeque, ReadFom, ReturnGet, GoGet, TypeInv, FieldsOK, GetStays
  <2> QED
    BY <2>1, GetKept DEF GetInv
<1>2. CASE e = d
  <2> SUFFICES GetOK(d)'
    BY <1>2
  <2>1. GetOK(d) /\ UNCHANGED dfom
    BY DEF GetInv, Get, CallGet, LoadTail, LinkDeque, SwapTail, SuspendDeque, ResumeDeque,
           ReadFom, ReturnGet
  <2>2. ASSUME NEW f \in Futures, CallGet(d, f) PROVE GetOK(d)'
    <3>1. /\ gpc[d] = "run" /\ want'[d] = f /\ UNCHANGED <<tail, merged, resumable>>
          /\ \/ gpc'[d] = "readfom" /\ tail[f] = Null
             \/ gpc'[d] = "load"
      BY <2>2 DEF CallGet, GoGet, TypeInv, FieldsOK
    <3> QED
      BY <2>1, <3>1 DEF GetOK
  <2>3. CASE LoadTail(d)
    <3>1. /\ gpc[d] = "load" /\ gpc'[d] = "link" /\ t'[d] = tail[want[d]]
          /\ UNCHANGED <<tail, want, merged, resumable>>
      BY <2>3 DEF LoadTail, GoGet, TypeInv, FieldsOK
    <3> QED
      BY <2>1, <3>1 DEF GetOK
  <2>4. CASE LinkDeque(d)
    <3>1. /\ gpc[d] = "link" /\ UNCHANGED <<tail, want, t, merged, resumable>>
          /\ \/ gpc'[d] = "swap" /\ next'[d] = t[d]
             \/ gpc'[d] = "readfom" /\ t[d] = Null
      BY <2>4, Distinct DEF LinkDeque, WriteLink, GoGet, TypeInv, FieldsOK
    <3> QED
      BY <2>1, <3>1 DEF GetOK
  <2>5. CASE SwapTail(d)
    <3>1. /\ gpc[d] = "swap" /\ gpc'[d] \in {"suspend", "load"}
          /\ UNCHANGED <<merged, resumable>>
      BY <2>5 DEF SwapTail, GoGet, TypeInv, FieldsOK
    <3> QED
      BY <2>1, <3>1 DEF GetOK
  <2>6. CASE SuspendDeque(d)
    <3>1. gpc[d] = "suspend" /\ gpc'[d] = "suspended" /\ UNCHANGED <<merged, resumable>>
      BY <2>6 DEF SuspendDeque, GoGet, TypeInv, FieldsOK
    <3> QED
      BY <2>1, <3>1 DEF GetOK
  <2>7. CASE ResumeDeque(d)
    <3>1. /\ gpc[d] = "suspended" /\ gpc'[d] = "return" /\ resumable[d] /\ ~resumable'[d]
          /\ merged'[d] = merged[d] \cup {dfom[d]} /\ UNCHANGED <<tail, want>>
      BY <2>7 DEF ResumeDeque, GoGet, TypeInv, FieldsOK
    <3>2. want[d] # Null
      BY <3>1, Distinct DEF TypeInv, GetTypes
    <3> QED
      BY <2>1, <3>1, <3>2 DEF GetOK
  <2>8. CASE ReadFom(d)
    <3>1. gpc[d] = "readfom" /\ gpc'[d] = "return" /\ UNCHANGED <<tail, want, resumable>>
      BY <2>8 DEF ReadFom, GoGet, TypeInv, FieldsOK
    <3>2. want[d] \in Futures /\ tail[want[d]] = Null
      BY <2>1, <3>1 DEF TypeInv, GetTypes, GetOK
    <3>3. fom[want[d]]
      BY <3>2 DEF TypeInv, PutTypes
    <3>4. merged'[d] = merged[d] \cup {want[d]} /\ want[d] # Null
      BY <2>8, <3>2, <3>3, Distinct DEF ReadFom, TypeInv, FieldsOK
    <3> QED
      BY <2>1, <3>1, <3>2, <3>4 DEF GetOK
  <2>9. CASE ReturnGet(d)
    <3>1. gpc[d] = "return" /\ gpc'[d] = "run" /\ UNCHANGED <<merged, resumable>>
      BY <2>9 DEF ReturnGet, GoGet, TypeInv, FieldsOK
    <3> QED
      BY <2>1, <3>1 DEF GetOK
  <2> QED
    BY <2>2, <2>3, <2>4, <2>5, <2>6, <2>7, <2>8, <2>9 DEF Get
<1> QED
  BY <1>1, <1>2

(* What a step of put(f) leaves alone; and the deque a walk is at waits.   *)
LEMMA PutFrame ==
  ASSUME TypeInv, StackInv, NEW f \in Futures, Put(f)
  PROVE  /\ UNCHANGED <<next, gpc, want, t, merged, overwritten>>
         /\ \A g \in Futures : g # f => /\ ppc'[g] = ppc[g] /\ cur'[g] = cur[g]
                                        /\ tail'[g] = tail[g]
         /\ \A g \in Futures : ppc[g] \in {"test", "resume"} /\ cur[g] \in Deques
                                  => Waits(cur[g], g)
         /\ UNCHANGED dfom \/ (/\ ppc[f] = "test" /\ cur[f] \in Deques
                               /\ dfom' = [dfom EXCEPT ![cur[f]] = f])
         /\ UNCHANGED resumable \/ (/\ ppc[f] = "resume" /\ cur[f] \in Deques
                                    /\ gpc[cur[f]] = "suspended"
                                    /\ resumable' = [resumable EXCEPT ![cur[f]] = TRUE])
PROOF
<1>1. UNCHANGED <<next, gpc, want, t, merged, overwritten>>
  BY DEF Put, StoreFom, ExchangeTail, TestNext, MakeResumable, Advance, LastLink, getVars
<1>2. \A g \in Futures : g # f => /\ ppc'[g] = ppc[g] /\ cur'[g] = cur[g]
                                  /\ tail'[g] = tail[g]
  BY DEF Put, StoreFom, ExchangeTail, TestNext, MakeResumable, Advance, LastLink, GoPut,
         TypeInv, FieldsOK
<1>3. \A g \in Futures : ppc[g] \in {"test", "resume"} /\ cur[g] \in Deques
                            => Waits(cur[g], g)
  BY Distinct DEF StackInv, StackOK, LinkOf
<1>4. UNCHANGED dfom \/ (/\ ppc[f] = "test" /\ cur[f] \in Deques
                         /\ dfom' = [dfom EXCEPT ![cur[f]] = f])
  <2>1. CASE TestNext(f)
    <3>1. ppc[f] = "test" => cur[f] \in Futures \/ cur[f] \in Deques
      BY DEF TypeInv, PointersInv, Linked
    <3> QED
      BY <2>1, <3>1 DEF TestNext, GoPut, TypeInv, PointersInv
  <2> QED
    BY <2>1 DEF Put, StoreFom, ExchangeTail, MakeResumable, Advance, LastLink
<1>5. UNCHANGED resumable \/ (/\ ppc[f] = "resume" /\ cur[f] \in Deques
                              /\ gpc[cur[f]] = "suspended"
                              /\ resumable' = [resumable EXCEPT ![cur[f]] = TRUE])
  BY DEF Put, StoreFom, ExchangeTail, TestNext, MakeResumable, Advance, LastLink, GoPut,
         TypeInv, PutTypes
<1> QED
  BY <1>1, <1>2, <1>3, <1>4, <1>5

(* A walk takes its own stack apart from the top and disturbs no other. *)
LEMMA PutStacks ==
  ASSUME TypeInv, StackInv, NEW f \in Futures, Put(f)
  PROVE  StackInv'
PROOF
<1>1. UNCHANGED <<next, gpc, want>>
  BY PutFrame
<1>2. ASSUME NEW g \in Futures, g # f PROVE StackOK(g)'
  <2>1. ppc'[g] = ppc[g] /\ cur'[g] = cur[g] /\ tail'[g] = tail[g]
    BY <1>2, PutFrame
  <2>2. \A e \in Deques : Waits(e, g)' <=> Waits(e, g)
    <3>1. CASE UNCHANGED resumable
      BY <1>1, <3>1 DEF Waits
    <3>2. CASE ~UNCHANGED resumable
      <4>1. Waits(cur[f], f) /\ resumable' = [resumable EXCEPT ![cur[f]] = TRUE]
        BY <3>2, PutFrame
      <4>2. want[cur[f]] # g
        BY <1>2, <4>1 DEF Waits
      <4> QED
        BY <1>1, <4>1, <4>2 DEF Waits, TypeInv, FieldsOK
    <3> QED
      BY <3>1, <3>2
  <2>3. ppc[g] = "resume" => dfom'[cur[g]] = dfom[cur[g]]
    <3> SUFFICES ASSUME ppc[g] = "resume", ~UNCHANGED dfom
                 PROVE  dfom'[cur[g]] = dfom[cur[g]]
      OBVIOUS
    <3>1. Waits(cur[f], f) /\ dfom' = [dfom EXCEPT ![cur[f]] = f]
      BY PutFrame
    <3>2. Waits(cur[g], g) /\ cur[g] \in Deques
      BY PutFrame DEF TypeInv, PutTypes
    <3>3. cur[g] # cur[f]
      BY <1>2, <3>1, <3>2 DEF Waits
    <3> QED
      BY <3>1, <3>2, <3>3 DEF TypeInv, FieldsOK
  <2>4. StackStays(g)
    BY <1>1, <2>1, <2>2, <2>3 DEF StackStays
  <2> QED
    BY <2>4, StackKept DEF StackInv
<1>3. StackOK(f)
  BY DEF StackInv
<1>4. StackOK(f)'
  <2>1. ASSUME UNCHANGED resumable
        PROVE  /\ \A e \in Deques : Waits(e, f)' <=> Waits(e, f)
               /\ \A l : LinkOf(l, f)' <=> LinkOf(l, f)
    BY <1>1, <2>1 DEF Waits, LinkOf
  <2>2. CASE StoreFom(f)
    <3>1. ppc'[f] = "exchange" /\ UNCHANGED <<tail, resumable>>
      BY <2>2 DEF StoreFom, GoPut, TypeInv, FieldsOK
    <3> QED
      BY <1>1, <1>3, <2>1, <3>1 DEF StackOK
  <2>3. CASE ExchangeTail(f)
    <3>1. /\ ppc[f] = "exchange" /\ ppc'[f] = "test" /\ cur'[f] = tail[f]
          /\ tail'[f] = Null /\ UNCHANGED resumable
      BY <2>3 DEF ExchangeTail, GoPut, TypeInv, FieldsOK
    <3>2. tail[f] # Null
      BY <3>1 DEF TypeInv, PutTypes
    <3> QED
      BY <1>1, <1>3, <2>1, <3>1, <3>2 DEF StackOK
  <2>4. CASE TestNext(f)
    <3>1. /\ ppc[f] = "test" /\ UNCHANGED <<tail, cur, resumable>>
          /\ \/ ppc'[f] = "resume" /\ dfom' = [dfom EXCEPT ![cur[f]] = f] /\ next[cur[f]] # Null
             \/ ppc'[f] = "last"
      BY <2>4 DEF TestNext, GoPut, TypeInv, FieldsOK
    <3>2. next[cur[f]] # Null => cur[f] \in Deques
      BY <3>1 DEF TypeInv, PointersInv, Linked
    <3>3. ppc'[f] = "resume" => dfom'[cur[f]] = f
      BY <3>1, <3>2 DEF TypeInv, FieldsOK
    <3> QED
      BY <1>1, <1>3, <2>1, <3>1, <3>3 DEF StackOK
  <2>5. CASE MakeResumable(f)
    <3>1. /\ ppc[f] = "resume" /\ ppc'[f] = "advance" /\ UNCHANGED <<tail, cur>>
          /\ resumable' = [resumable EXCEPT ![cur[f]] = TRUE]
      BY <2>5 DEF MakeResumable, GoPut, TypeInv, FieldsOK
    <3>2. cur[f] \in Deques /\ Waits(cur[f], f) /\ tail[f] = Null
      BY <3>1, PutFrame DEF TypeInv, PutTypes
    <3>3. \A e \in Deques : Waits(e, f)' <=> Waits(e, f) /\ e # cur[f]
      BY <1>1, <3>1, <3>2 DEF Waits, TypeInv, FieldsOK
    <3>4. \A e \in Deques : Waits(e, f) => LinkOf(next[e], f)' /\ next[e] # cur[f]
      BY <1>1, <1>3, <3>1, <3>3 DEF StackOK, LinkOf, Waits
    <3>5. \A e \in Deques : Waits(e, f)' => next[e] # next[cur[f]]
      BY <1>3, <3>2, <3>3 DEF StackOK
    <3>6. ~Waits(cur[f], f)'
      BY <3>1, <3>2, <3>3 DEF Waits
    <3>7. LinkOf(next[cur[f]], f)'
      BY <1>1, <3>1, <3>2, <3>4 DEF LinkOf, Waits
    <3>8. \A e1, e2 \in Deques : Waits(e1, f)' /\ Waits(e2, f)' /\ next[e1] = next[e2] => e1 = e2
      BY <1>3, <3>3 DEF StackOK
    <3>9. \A e \in Deques : Waits(e, f)' => LinkOf(next[e], f)'
      BY <3>3, <3>4
    <3>10. next' = next /\ cur' = cur /\ tail'[f] = Null /\ ppc'[f] = "advance"
      BY <1>1, <3>1, <3>2
    <3> QED
      BY <3>5, <3>6, <3>7, <3>8, <3>9, <3>10 DEF StackOK, LinkOf, Waits
  <2>6. CASE Advance(f)
    <3>1. /\ ppc[f] = "advance" /\ ppc'[f] = "test" /\ cur'[f] = next[cur[f]]
          /\ UNCHANGED <<tail, resumable>>
      BY <2>6 DEF Advance, GoPut, TypeInv, FieldsOK
    <3> QED
      BY <1>1, <1>3, <2>1, <3>1 DEF StackOK
  <2>7. CASE LastLink(f)
    <3>1. ppc'[f] = "done" /\ UNCHANGED <<tail, resumable>>
      BY <2>7 DEF LastLink, GoPut, TypeInv, FieldsOK
    <3> QED
      BY <1>1, <1>3, <2>1, <3>1 DEF StackOK
  <2> QED
    BY <2>2, <2>3, <2>4, <2>5, <2>6, <2>7 DEF Put
<1> QED
  BY <1>2, <1>4 DEF StackInv

(* The gets after a step of put(f): the deque it makes resumable has the   *)
(* FOM of the future it waits for.                                         *)
LEMMA PutGets ==
  ASSUME TypeInv, StackInv, GetInv, [Next]_vars, NEW f \in Futures, Put(f)
  PROVE  GetInv'
PROOF
<1> SUFFICES ASSUME NEW e \in Deques PROVE GetOK(e)'
  BY DEF GetInv
<1>1. UNCHANGED <<next, gpc, want, t, merged>>
  BY PutFrame
<1>2. GetOK(e)
  BY DEF GetInv
<1>3. CASE resumable'[e] /\ ~resumable[e]
  <2>1. /\ ppc[f] = "resume" /\ e = cur[f] /\ gpc[e] = "suspended" /\ Waits(e, f)
        /\ UNCHANGED dfom
    BY <1>3, PutFrame DEF TypeInv, FieldsOK
  <2>2. dfom[e] = f /\ want[e] = f
    BY <2>1 DEF StackInv, StackOK, Waits
  <2>3. tail[f] = Null
    BY <2>1 DEF TypeInv, PutTypes
  <2>4. tail'[f] = Null
    BY <2>3, ReadyStays
  <2> QED
    BY <1>1, <1>2, <2>1, <2>2, <2>4 DEF GetOK
<1>4. CASE ~(resumable'[e] /\ ~resumable[e])
  <2>1. resumable'[e] => dfom'[e] = dfom[e]
    <3> SUFFICES ASSUME resumable'[e], ~UNCHANGED dfom PROVE dfom'[e] = dfom[e]
      OBVIOUS
    <3>1. Waits(cur[f], f) /\ dfom' = [dfom EXCEPT ![cur[f]] = f]
      BY PutFrame
    <3>2. e # cur[f]
      BY <1>4, <3>1 DEF Waits
    <3> QED
      BY <3>1, <3>2 DEF TypeInv, FieldsOK
  <2>2. GetStays(e)
    BY <1>1, <1>4, <2>1 DEF GetStays
  <2> QED
    BY <1>2, <2>2, GetKept
<1> QED
  BY <1>3, <1>4

(* A link that was overwritten stays so. *)
LEMMA OverwrittenStays == overwritten /\ [Next]_vars => overwritten'
PROOF
  BY DEF Next, Get, CallGet, LoadTail, LinkDeque, WriteLink, SwapTail, SuspendDeque, ResumeDeque,
         ReadFom, ReturnGet, Put, StoreFom, ExchangeTail, TestNext, MakeResumable, Advance,
         LastLink, Finished, vars

(* The inductive step. *)
LEMMA QueueNext == QueueInv /\ [Next]_vars => QueueInv'
PROOF
<1> SUFFICES ASSUME QueueInv, [Next]_vars PROVE QueueInv'
  OBVIOUS
<1>1. TypeInv /\ TypeInv'
  BY TypesNext DEF QueueInv
<1>2. overwritten => overwritten'
  BY OverwrittenStays
<1>3. ASSUME ~overwritten' PROVE StackInv' /\ GetInv'
  <2>1. StackInv /\ GetInv
    BY <1>2, <1>3 DEF QueueInv
  <2>2. ASSUME NEW d \in Deques, Get(d) PROVE StackInv' /\ GetInv'
    <3>1. CASE SwapTail(d) /\ ~UNCHANGED tail
      BY <1>1, <2>1, <2>2, <3>1, SwapStacks, GetGets
    <3>2. CASE ~(SwapTail(d) /\ ~UNCHANGED tail)
      <4>1. \/ \E f \in Futures : CallGet(d, f)
            \/ LoadTail(d) \/ LinkDeque(d) \/ SuspendDeque(d)
            \/ ResumeDeque(d) \/ ReadFom(d) \/ ReturnGet(d)
            \/ SwapTail(d) /\ UNCHANGED tail
        BY <2>2, <3>2 DEF Get
      <4>2. StackInv'
        BY <1>1, <1>3, <2>1, <4>1, GetStacks
      <4> QED
        BY <1>1, <2>1, <2>2, <4>2, GetGets
    <3> QED
      BY <3>1, <3>2
  <2>3. ASSUME NEW f \in Futures, Put(f) PROVE StackInv' /\ GetInv'
    BY <1>1, <2>1, <2>3, PutStacks, PutGets
  <2>4. CASE UNCHANGED vars
    BY <2>1, <2>4 DEF vars, getVars, putVars, StackInv, StackOK, LinkOf, Waits, GetInv, GetOK
  <2> QED
    BY <2>2, <2>3, <2>4 DEF Next, Finished
<1> QED
  BY <1>1, <1>3 DEF QueueInv

(* The invariant holds in every behaviour. *)
LEMMA QueueInvariant == Spec => []QueueInv
PROOF
  BY QueueInit, QueueNext, PTL DEF Spec

-----------------------------------------------------------------------------
(* No NULL link is followed by suspend_deque or by resume_deques, and a    *)
(* walk ends at the future's own link (future_base.h:55), whatever links   *)
(* are overwritten under it.                                               *)
THEOREM QueueTypeCorrect == Spec => []TypeOK
PROOF
<1>1. QueueInv => TypeOK
  <2> SUFFICES ASSUME QueueInv PROVE TypeOK
    OBVIOUS
  <2>1. \A d \in Deques : gpc[d] # "run" => want[d] \in Futures
    BY DEF QueueInv, TypeInv, GetTypes
  <2>2. \A d \in Deques : gpc[d] \in {"swap", "suspend", "suspended"} => next[d] \in Links
    BY Distinct DEF QueueInv, TypeInv, GetTypes, FieldsOK
  <2>3. \A f \in Futures : ppc[f] \notin {"run", "exchange"} => cur[f] \in Links
    BY Distinct DEF QueueInv, TypeInv, PointersInv, Linked
  <2>4. \A f \in Futures : ppc[f] = "last" => cur[f] \in Futures
    BY DEF QueueInv, TypeInv, PutTypes
  <2> QED
    BY <2>1, <2>2, <2>3, <2>4 DEF TypeOK, QueueInv, TypeInv
<1> QED
  BY <1>1, QueueInvariant, PTL

(* A get returns only when its future is ready: assert(ready()) at the end *)
(* of get (future.h:88) can fail only after a deque has written the link   *)
(* that a walk was about to follow.                                        *)
THEOREM GetsReady == Spec => []ReadyUnlessOverwritten
PROOF
<1>1. QueueInv => ReadyUnlessOverwritten
  BY DEF QueueInv, GetInv, GetOK, ReadyUnlessOverwritten, ReadyAfterGet
<1> QED
  BY <1>1, QueueInvariant, PTL

(* Every get merges the FOM its future's task left, whether it suspended   *)
(* or found the future ready (CilkFutureGet, CilkSteal), until a link is   *)
(* overwritten under a walk.                                               *)
THEOREM GetsMergeFom == Spec => []FomMerged
PROOF
<1>1. QueueInv => FomMerged
  BY DEF QueueInv, GetInv, GetOK, FomMerged
<1> QED
  BY <1>1, QueueInvariant, PTL

(* The assertion of __cilkrts_make_resumable (deque_pool.c:95) holds for   *)
(* any number of futures with overlapping walks, until a link is           *)
(* overwritten under one.                                                  *)
THEOREM WaitersResumedOnce == Spec => []ResumedOnce
PROOF
<1>1. QueueInv => ResumedOnce
  <2> SUFFICES ASSUME QueueInv, ~overwritten, NEW f \in Futures, ppc[f] = "resume"
               PROVE  cur[f] \in Deques /\ ~resumable[cur[f]]
    BY DEF ResumedOnce
  <2>1. cur[f] \in Deques
    BY DEF QueueInv, TypeInv, PutTypes
  <2>2. LinkOf(cur[f], f)
    BY DEF QueueInv, StackInv, StackOK
  <2> QED
    BY <2>1, <2>2, Distinct DEF LinkOf, Waits
<1> QED
  BY <1>1, QueueInvariant, PTL

(* The queue of waiters implements the future: until a link is overwritten *)
(* under a walk every step of suspend_deque and resume_deques is a step of *)
(* FutureSpec or leaves its state alone.                                   *)
THEOREM QueueImplementsFuture == Spec => Abstract!Safety
PROOF
<1> DEFINE Ready   == {f \in Futures : tail[f] = Null}
           Getting == [d \in Deques |-> IF gpc[d] = "return" THEN Null ELSE want[d]]
<1>1. Init => Abstract!Init
  BY Distinct DEF Init, Abstract!Init
<1>2. QueueInv /\ [Next]_vars => [Abstract!Next]_Abstract!vars
  <2> SUFFICES ASSUME QueueInv, [Next]_vars
               PROVE  Abstract!Next \/ UNCHANGED <<Ready, Getting, merged, overwritten>>
    BY DEF Abstract!vars
  <2>1. CASE overwritten'
    BY <2>1 DEF Abstract!Next, Abstract!Forfeit
  <2>2. CASE ~overwritten'
    <3>1. ~overwritten /\ UNCHANGED overwritten
      <4>1. overwritten' \in BOOLEAN /\ overwritten \in BOOLEAN
        BY TypesNext DEF QueueInv, TypeInv, FieldsOK
      <4> QED
        BY <2>2, <4>1, OverwrittenStays
    <3>2. TypeInv /\ StackInv /\ GetInv /\ FieldsOK
      BY <3>1 DEF QueueInv, TypeInv
    <3>3. ASSUME NEW d \in Deques, NEW f \in Futures, CallGet(d, f) PROVE Abstract!Get(d, f)
      <4>1. gpc[d] = "run" /\ want[d] = Null
        BY <3>2, <3>3 DEF CallGet, GoGet, TypeInv, GetTypes
      <4>2. /\ want' = [want EXCEPT ![d] = f] /\ gpc'[d] # "return"
            /\ \A e \in Deques : e # d => gpc'[e] = gpc[e]
        BY <3>2, <3>3 DEF CallGet, GoGet, FieldsOK
      <4>3. Getting[d] = Null /\ Getting' = [Getting EXCEPT ![d] = f]
        BY <3>2, <4>1, <4>2 DEF FieldsOK
      <4> QED
        BY <3>3, <4>3 DEF Abstract!Get, CallGet
    <3>4. ASSUME NEW d \in Deques, ResumeDeque(d) \/ ReadFom(d) PROVE Abstract!Return(d)
      <4>1. /\ gpc[d] \in {"suspended", "readfom"} /\ gpc' = [gpc EXCEPT ![d] = "return"]
            /\ UNCHANGED <<tail, want>>
        BY <3>4 DEF ResumeDeque, ReadFom, GoGet
      <4>2. GetOK(d) /\ want[d] \in Futures
        BY <3>2, <4>1 DEF GetInv, TypeInv, GetTypes
      <4>3. tail[want[d]] = Null /\ merged' = [merged EXCEPT ![d] = @ \cup {want[d]}]
        <5>1. CASE ResumeDeque(d)
          <6>1. dfom[d] = want[d] /\ tail[want[d]] = Null
            BY <4>2, <5>1 DEF ResumeDeque, GetOK
          <6> QED
            BY <5>1, <6>1 DEF ResumeDeque
        <5>2. CASE ReadFom(d)
          <6>1. tail[want[d]] = Null
            BY <4>2, <5>2 DEF ReadFom, GoGet, GetOK
          <6>2. fom[want[d]]
            BY <3>2, <4>2, <6>1 DEF TypeInv, PutTypes
          <6> QED
            BY <5>2, <6>1, <6>2 DEF ReadFom
        <5> QED
          BY <3>4, <5>1, <5>2
      <4>4. Getting[d] = want[d] /\ want[d] \in Ready
        BY <4>1, <4>2, <4>3
      <4>5. Getting' = [Getting EXCEPT ![d] = Null]
        BY <3>2, <4>1 DEF FieldsOK
      <4>6. Ready' = Ready
        BY <4>1
      <4> QED
        BY <3>1, <4>3, <4>4, <4>5, <4>6 DEF Abstract!Return
    <3>5. ASSUME NEW f \in Futures, ExchangeTail(f) PROVE Abstract!Put(f)
      <4>1. tail[f] # Null
        BY <3>2, <3>5 DEF ExchangeTail, GoPut, TypeInv, PutTypes
      <4>2. tail' = [tail EXCEPT ![f] = Null] /\ UNCHANGED <<gpc, want, merged>>
        BY <3>5 DEF ExchangeTail, getVars
      <4>3. f \in Futures \ Ready /\ Ready' = Ready \cup {f}
        BY <3>2, <4>1, <4>2 DEF FieldsOK
      <4> QED
        BY <3>1, <4>2, <4>3 DEF Abstract!Put
    <3>6. ASSUME NEW d \in Deques,
                 LoadTail(d) \/ LinkDeque(d) \/ SwapTail(d) \/ SuspendDeque(d)
          PROVE  UNCHANGED <<Ready, Getting, merged>>
      <4>1. /\ \A e \in Deques : gpc[e] = "return" <=> gpc'[e] = "return"
            /\ UNCHANGED <<want, merged>>
        BY <3>2, <3>6 DEF LoadTail, LinkDeque, SwapTail, SuspendDeque, GoGet, FieldsOK
      <4>2. \A f \in Futures : tail'[f] = Null <=> tail[f] = Null
        <5>1. CASE SwapTail(d)
          <6>1. t[d] # Null /\ want[d] \in Futures
            BY <3>2, <5>1 DEF SwapTail, GoGet, TypeInv, GetTypes
          <6> QED
            BY <3>2, <5>1, <6>1, Distinct DEF SwapTail, FieldsOK
        <5> QED
          BY <3>6, <5>1 DEF LoadTail, LinkDeque, SuspendDeque
      <4> QED
        BY <4>1, <4>2
    <3>7. ASSUME NEW d \in Deques, ReturnGet(d) PROVE UNCHANGED <<Ready, Getting, merged>>
      <4>1. /\ gpc[d] = "return" /\ gpc' = [gpc EXCEPT ![d] = "run"]
            /\ want' = [want EXCEPT ![d] = Null] /\ UNCHANGED <<tail, merged>>
        BY <3>7 DEF ReturnGet, GoGet
      <4>2. \A e \in Deques : (IF gpc'[e] = "return" THEN Null ELSE want'[e])
                              = (IF gpc[e] = "return" THEN Null ELSE want[e])
        BY <3>2, <4>1 DEF FieldsOK
      <4> QED
        BY <4>1, <4>2
    <3>8. ASSUME NEW f \in Futures,
                 StoreFom(f) \/ TestNext(f) \/ MakeResumable(f) \/ Advance(f) \/ LastLink(f)
          PROVE  UNCHANGED <<Ready, Getting, merged>>
      BY <3>8 DEF StoreFom, TestNext, MakeResumable, Advance, LastLink, getVars
    <3>9. UNCHANGED vars => UNCHANGED <<Ready, Getting, merged>>
      BY DEF vars, getVars
    <3>10. CASE \E d \in Deques : Get(d)
      BY <3>1, <3>3, <3>4, <3>6, <3>7, <3>10 DEF Get, Abstract!Next
    <3>11. CASE \E f \in Futures : Put(f)
      BY <3>1, <3>5, <3>8, <3>11 DEF Put, Abstract!Next
    <3> QED
      BY <3>1, <3>9, <3>10, <3>11 DEF Next, Finished
  <2> QED
    BY <2>1, <2>2
<1> QED
  BY <1>1, <1>2, QueueInvariant, PTL DEF Spec, Abstract!Safety
=============================================================================
