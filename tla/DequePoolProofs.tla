-------------------------- MODULE DequePoolProofs --------------------------
(***************************************************************************)
(* Proofs about DequePool, for any number of workers, deques, frames,      *)
(* pushes and gets.                                                        *)
(*                                                                         *)
(* PlaceInv says who can reach a deque at each control point, and that a   *)
(* pool and the deques in it agree.  StealInv is about the THE protocol: a *)
(* victim has one thief, exc is raised exactly while the thief decides,    *)
(* and owner and thief do not both get the last frame.                     *)
(***************************************************************************)
EXTENDS DequePool, FiniteSetTheorems, TLAPS

(* Control points: of user code and its returns; of a worker without work, *)
(* a thief included; of a thief that has the victim's lock.                *)
Plain  == {"run", "pop", "check", "idle", "probe", "dekker", "detach"}
Stuck  == {"idle", "probe", "dekker", "detach", "mugged"}
Thief  == {"probe", "dekker", "detach"}
Raised == {"dekker", "detach"}

(* Deque d is in no pool. *)
Out(d) == deq[d].worker = NULL /\ deq[d].self = INVALID_DEQUE_INDEX

(* Deque d says that it is in a pool. *)
InPool(d) == deq[d].worker # NULL /\ deq[d].self >= 0

Pooled(d) == InPool(d) /\ ~deq[d].resumable

(* Worker w has taken d from the queue of a future or from a pool. *)
Held(w, d) ==
  \/ pc[w] \in {"resume", "owned", "free", "give", "mugged"} /\ loc[w].d = d
  \/ pc[w] = "switch" /\ loc[w].new = d

(* The future that d waits for has not yet looked for it. *)
Pending(d) == d \in waiting \/ \E w \in Workers : pc[w] = "resume" /\ loc[w].d = d

(* Worker w is suspending d. *)
Suspending(w, d) ==
  \/ pc[w] \in {"suspend", "switch"} /\ active[w] = d
  \/ pc[w] \in {"park", "jump"} /\ loc[w].d = d

-----------------------------------------------------------------------------
(* The inductive invariant *)

(* The local variables that a worker uses at its control point are set. *)
ControlOK(w) ==
  /\ pc[w] \in {"run", "pop", "check", "idle", "suspend"} => loc[w] = NoLocal
  /\ pc[w] = "switch" => loc[w].d = active[w] /\ loc[w].new \in Deques
  /\ pc[w] \in {"park", "jump"} =>
       loc[w].new = active[w] /\ loc[w].d \in Deques /\ loc[w].d # active[w]
  /\ pc[w] \in {"resume", "owned", "free", "give", "mugged"} \cup Thief => loc[w].d \in Deques
  /\ pc[w] \in {"owned", "give"} \cup Thief => loc[w].victim \in Workers

ControlInv == \A w \in Workers : ControlOK(w)

(* The active deques, and the deque objects that are not in use. *)
ActiveOK(w) ==
  LET q == deq[active[w]]
  IN  /\ q.live /\ q.worker = w /\ q.self = ACTIVE_DEQUE_INDEX /\ ~q.resumable
      /\ q.fiber \in (IF pc[w] \in {"park", "jump"} THEN {"ready", "scheduling"} ELSE {"none"})

ActiveInv ==
  /\ \A w \in Workers : ActiveOK(w)
  /\ \A d \in Deques : ~deq[d].live => deq[d] = Unused

(* A deque object says that it is in a pool, of resumable deques or not. *)
Says(q, resumable) == q.worker # NULL /\ q.self >= 0 /\ q.resumable = resumable

(* Deques in these pools know where they are, and only they say so. *)
Indexed(dq, pools, resumable) ==
  /\ \A w \in Workers : \A i \in 1..Len(pools[w]) :
       LET q == dq[pools[w][i]]
       IN  q.worker = w /\ q.self = i - 1 /\ q.resumable = resumable
  /\ \A d \in Deques : Says(dq[d], resumable) =>
       LET pool == pools[dq[d].worker]
       IN  dq[d].self + 1 \in 1..Len(pool) /\ pool[dq[d].self + 1] = d

PoolInv ==
  /\ Indexed(deq, suspended_deques, FALSE)
  /\ Indexed(deq, resumable_deques, TRUE)
  /\ \A d \in Deques : Says(deq[d], TRUE) => deq[d].fiber = "ready"

(* What a worker knows of the deque that it holds. *)
HeldOK(w) ==
  LET q == deq[loc[w].d]
      n == deq[loc[w].new]
  IN  /\ pc[w] = "owned" => /\ q.fiber = "ready" /\ ~q.resumable
                            /\ Out(loc[w].d) \/ (Pooled(loc[w].d) /\ q.worker = loc[w].victim)
      /\ pc[w] = "free" => q.fiber = "ready" /\ ~q.resumable /\ Out(loc[w].d)
      /\ pc[w] = "give" => /\ q.fiber = "ready" /\ q.resumable /\ q.worker = loc[w].victim
                           /\ q.self = INVALID_DEQUE_INDEX
      /\ pc[w] = "mugged" => q.fiber = "ready" /\ q.resumable /\ Out(loc[w].d)
      /\ pc[w] = "switch" => n.fiber \in {"ready", "scheduling"} /\ ~n.resumable /\ n.worker = NULL

HeldInv ==
  /\ \A w \in Workers : HeldOK(w)
  /\ \A w \in Workers, d \in Deques : Held(w, d) => deq[d].live /\ d \notin waiting
  /\ \A v, w \in Workers, d \in Deques : Held(v, d) /\ Held(w, d) => v = w

(* Deques that wait: each is still being suspended or has been. *)
PendingOK(d) ==
  /\ deq[d].live /\ ~deq[d].resumable
  /\ IF deq[d].fiber = "ready" THEN Out(d) \/ Pooled(d)
     ELSE \E w \in Workers : Suspending(w, d)
  /\ \A w \in Workers : active[w] = d => pc[w] \in {"suspend", "switch"}

(* What a worker that suspends a deque knows of it. *)
SuspendOK(w) ==
  /\ pc[w] \in {"suspend", "switch"} => Pending(active[w])
  /\ pc[w] \in {"park", "jump"} => Pending(loc[w].d) /\ deq[loc[w].d].fiber = "running"
  /\ pc[w] = "park" => deq[loc[w].d].worker = w /\ deq[loc[w].d].self = ACTIVE_DEQUE_INDEX
  /\ pc[w] = "jump" => Out(loc[w].d) \/ Pooled(loc[w].d)

PendingInv ==
  /\ \A d \in Deques : Pending(d) => PendingOK(d)
  /\ \A w \in Workers : SuspendOK(w)
  /\ \A v, w \in Workers : /\ pc[v] \in {"park", "jump"} /\ pc[w] \in {"park", "jump"}
                           /\ loc[v].d = loc[w].d
                           => v = w

(* No deque is lost. *)
LiveInv ==
  \A d \in Deques : deq[d].live =>
    \/ d \in waiting
    \/ InPool(d) /\ deq[d].resumable
    \/ \E w \in Workers : Held(w, d) \/ (active[w] = d /\ pc[w] \notin {"suspend", "switch"})

(* A thief with the lock of its victim: no other one has it, and the deque *)
(* is still the victim's.                                                  *)
ThiefOK(w) ==
  \/ loc[w].d = active[loc[w].victim]
  \/ Pooled(loc[w].d) /\ deq[loc[w].d].worker = loc[w].victim

ThiefInv ==
  /\ \A w \in Workers : pc[w] \in Thief => ThiefOK(w)
  /\ \A v, w \in Workers : /\ pc[v] \in Thief /\ pc[w] \in Thief
                           /\ loc[v].victim = loc[w].victim
                           => v = w

(* The exception pointer is raised exactly while a thief is at work, ... *)
ExcInv ==
  /\ \A w \in Workers : pc[w] \in Raised => deq[loc[w].d].exc = 1
  /\ \A d \in Deques : deq[d].exc = 1 => \E w \in Workers : pc[w] \in Raised /\ loc[w].d = d

(* ... so that owner and thief do not both take the last frame. *)
DetachOK(w) ==
  \/ deq[loc[w].d].frames > 0
  \/ deq[loc[w].d].frames = 0 /\ Popping(loc[w].d)

(* A worker without work, or with a new deque, has nothing on it. *)
EmptyOK(w) ==
  /\ pc[w] \in Stuck => deq[active[w]].frames = 0
  /\ ~loc[w].work /\ pc[w] = "switch" => deq[loc[w].new].frames = 0
  /\ ~loc[w].work /\ pc[w] \in {"park", "jump"} => deq[active[w]].frames = 0

FrameInv ==
  /\ \A d \in Deques : deq[d].frames < 0 => Popping(d)
  /\ \A w \in Workers : pc[w] = "detach" => DetachOK(w)
  /\ \A w \in Workers : EmptyOK(w)

(* Work is on a deque that somebody finds. *)
Found(d) ==
  \/ InPool(d)
  \/ \E w \in Workers : \/ active[w] = d
                        \/ pc[w] \in {"park", "mugged"} /\ loc[w].d = d
                        \/ pc[w] = "switch" /\ loc[w].new = d

WorkInv == \A d \in Deques : deq[d].frames > 0 => Found(d)

(* Where the deques are, ... *)
PlaceInv == ControlInv /\ ActiveInv /\ PoolInv /\ HeldInv /\ PendingInv /\ LiveInv

(* ... and who takes the frames on them. *)
StealInv == ThiefInv /\ ExcInv /\ FrameInv /\ WorkInv

DequeInv == TypeOK /\ PlaceInv /\ StealInv

-----------------------------------------------------------------------------
(* Lemmas *)

(* Workers, deques and NULL are told apart. *)
LEMMA Constants ==
  /\ NULL \notin Workers /\ NULL \notin Deques
  /\ MaxFrames \in Nat /\ Pushes \in Nat /\ Suspends \in Nat
PROOF
  BY DequePoolAssumption

(* The deques of a pool have indices in it. *)
LEMMA ToSetIndex ==
  ASSUME NEW pool \in Seq(Deques), NEW d
  PROVE  d \in ToSet(pool) <=> \E i \in 1..Len(pool) : pool[i] = d
PROOF
<1>1. DOMAIN pool = 1..Len(pool)
  OBVIOUS
<1> QED
  BY <1>1, Zenon DEF ToSet

(* Pools stay indexed when no deque in them or that says so changes. *)
LEMMA SameIndexed ==
  ASSUME NEW dq, NEW dp, NEW pools \in [Workers -> Seq(Deques)], NEW r,
         Indexed(dq, pools, r),
         \A x \in Deques : \/ /\ dp[x].worker = dq[x].worker /\ dp[x].self = dq[x].self
                              /\ dp[x].resumable = dq[x].resumable
                           \/ ~Says(dq[x], r) /\ ~Says(dp[x], r)
  PROVE  Indexed(dp, pools, r)
PROOF
<1>1. ASSUME NEW w \in Workers, NEW i \in 1..Len(pools[w])
      PROVE  LET q == dp[pools[w][i]]
             IN  q.worker = w /\ q.self = i - 1 /\ q.resumable = r
  <2> DEFINE d == pools[w][i]
  <2>1. d \in Deques
    OBVIOUS
  <2>2. dq[d].worker = w /\ dq[d].self = i - 1 /\ dq[d].resumable = r
    BY DEF Indexed
  <2>3. Says(dq[d], r)
    BY <2>2, Constants DEF Says
  <2> QED
    BY <2>1, <2>2, <2>3
<1>2. ASSUME NEW d \in Deques, Says(dp[d], r)
      PROVE  LET pool == pools[dp[d].worker]
             IN  dp[d].self + 1 \in 1..Len(pool) /\ pool[dp[d].self + 1] = d
  BY <1>2 DEF Says, Indexed
<1> QED
  BY <1>1, <1>2 DEF Indexed

(* The pools of all workers when the last deque of the pool of v takes the *)
(* place with number k, and when d gets the place after the last.          *)
Shrunk(pools, v, k) ==
  [pools EXCEPT ![v] = [i \in 1..Len(pools[v]) - 1 |-> IF i = k THEN Last(pools[v]) ELSE pools[v][i]]]

Grown(pools, v, d) == [pools EXCEPT ![v] = Append(pools[v], d)]

(* deque_pool_remove: the last deque of the pool takes the place of d. *)
LEMMA RemoveIndexed ==
  ASSUME NEW dq \in [Deques -> Deque], NEW dp, NEW r,
         NEW pools \in [Workers -> Seq(Deques)], Indexed(dq, pools, r),
         NEW v \in Workers, NEW d \in Deques, Says(dq[d], r), dq[d].worker = v,
         ~Says(dp[d], r),
         \A x \in Deques : x # d =>
            /\ dp[x].worker = dq[x].worker /\ dp[x].resumable = dq[x].resumable
            /\ dp[x].self = IF x = Last(pools[v]) THEN dq[d].self ELSE dq[x].self
  PROVE  /\ Shrunk(pools, v, dq[d].self + 1) \in [Workers -> Seq(Deques)]
         /\ Indexed(dp, Shrunk(pools, v, dq[d].self + 1), r)
PROOF
<1> DEFINE pool == pools[v]
<1>a. PICK k, n, last, after : /\ k = dq[d].self + 1 /\ n = Len(pools[v]) /\ last = Last(pools[v])
                               /\ after = Shrunk(pools, v, k)
  OBVIOUS
<1> DEFINE shrunk == [i \in 1..n - 1 |-> IF i = k THEN last ELSE pool[i]]
<1>1. pool \in Seq(Deques) /\ n \in Nat /\ k \in 1..n /\ pool[k] = d
  BY <1>a DEF Indexed, Says
<1>2. n \in 1..n /\ last = pool[n] /\ last \in Deques /\ \A i \in 1..n : pool[i] \in Deques
  BY <1>a, <1>1 DEF Last
<1>3. \A i \in 1..n : /\ dq[pool[i]].worker = v /\ dq[pool[i]].self = i - 1
                      /\ dq[pool[i]].resumable = r
  BY <1>a DEF Indexed
<1>4. \A i, j \in 1..n : pool[i] = pool[j] => i = j
  <2>1. SUFFICES ASSUME NEW i \in 1..n, NEW j \in 1..n, pool[i] = pool[j] PROVE i = j
    OBVIOUS
  <2>2. i - 1 = j - 1
    BY <1>3, <2>1
  <2> QED
    BY <1>1, <2>2
<1>5. dq[last].worker = v /\ dq[last].self = n - 1 /\ dq[last].resumable = r
  BY <1>2, <1>3
<1>6. /\ \A x \in Deques : x # d /\ x # last => dp[x].self = dq[x].self
      /\ last # d => dp[last].self = k - 1
  BY <1>a, <1>1, <1>2, <1>3
<1>7. shrunk \in Seq(Deques) /\ Len(shrunk) = n - 1
  <2>1. n - 1 \in Nat /\ shrunk \in [1..n - 1 -> Deques]
    BY <1>1, <1>2
  <2>2. PICK m \in Nat : m = n - 1
    BY <2>1
  <2>3. PICK sh \in [1..m -> Deques] : sh = shrunk
    BY ONLY <2>1, <2>2
  <2>4. sh \in Seq(Deques) /\ Len(sh) = m
    BY ONLY m \in Nat, sh \in [1..m -> Deques]
  <2> QED
    BY ONLY <2>2, <2>3, <2>4
<1>8. /\ after \in [Workers -> Seq(Deques)] /\ after[v] = shrunk
      /\ \A w \in Workers : w # v => after[w] = pools[w]
  BY <1>a, <1>7 DEF Shrunk
<1> HIDE DEF shrunk
<1>9. ASSUME NEW w \in Workers, NEW i \in 1..Len(after[w])
      PROVE  LET q == dp[after[w][i]]
             IN  q.worker = w /\ q.self = i - 1 /\ q.resumable = r
  <2>1. CASE w # v
    <3>1. after[w][i] = pools[w][i] /\ i \in 1..Len(pools[w])
      BY <1>8, <2>1
    <3>2. pools[w][i] \in Deques /\ dq[pools[w][i]].worker = w
          /\ dq[pools[w][i]].self = i - 1 /\ dq[pools[w][i]].resumable = r
      BY <3>1 DEF Indexed
    <3>3. pools[w][i] # d /\ pools[w][i] # last
      BY <1>5, <2>1, <3>2
    <3> QED
      BY <1>6, <3>1, <3>2, <3>3
  <2>2. CASE w = v
    <3>1. i \in 1..n - 1 /\ i \in 1..n /\ after[w][i] = IF i = k THEN last ELSE pool[i]
      BY <1>1, <1>7, <1>8, <2>2 DEF shrunk
    <3>2. CASE i = k
      <4>1. last # d
        BY <1>1, <1>2, <1>4, <3>1, <3>2
      <4> QED
        BY <1>2, <1>5, <1>6, <2>2, <3>1, <3>2, <4>1
    <3>3. CASE i # k
      <4>1. pool[i] # d /\ pool[i] # last
        BY <1>1, <1>2, <1>4, <3>1, <3>3
      <4> QED
        BY <1>2, <1>3, <1>6, <2>2, <3>1, <3>3, <4>1, SMTT(40)
    <3> QED
      BY <3>2, <3>3
  <2> QED
    BY <2>1, <2>2
<1>10. ASSUME NEW x \in Deques, Says(dp[x], r)
       PROVE  LET p == after[dp[x].worker]
              IN  dp[x].self + 1 \in 1..Len(p) /\ p[dp[x].self + 1] = x
  <2>1. x # d
    BY <1>10
  <2>2. CASE x = last
    <3>1. k # n
      BY <1>1, <1>2, <2>1, <2>2
    <3>2. k \in 1..n - 1 /\ shrunk[k] = last
      BY <1>1, <3>1 DEF shrunk
    <3>3. dp[x].worker = v /\ dp[x].self + 1 = k
      BY <1>1, <1>5, <1>6, <2>1, <2>2
    <3> QED
      BY <1>7, <1>8, <2>2, <3>2, <3>3
  <2>3. CASE x # last
    <3> DEFINE u == dq[x].worker
               j == dq[x].self + 1
    <3>1. dp[x].worker = u /\ dp[x].self + 1 = j /\ Says(dq[x], r)
      BY <1>6, <1>10, <2>1, <2>3 DEF Says
    <3>2. u \in Workers /\ j \in 1..Len(pools[u]) /\ pools[u][j] = x
      BY <3>1 DEF Says, Indexed, Deque
    <3>3. CASE u = v
      <4>1. j # k /\ j # n /\ j \in 1..n - 1
        BY <1>a, <1>1, <1>2, <2>1, <2>3, <3>2, <3>3
      <4>2. shrunk[j] = x
        BY <3>2, <3>3, <4>1 DEF shrunk
      <4> QED
        BY <1>7, <1>8, <3>1, <3>3, <4>1, <4>2
    <3>4. CASE u # v
      BY <1>8, <3>1, <3>2, <3>4
    <3> QED
      BY <3>3, <3>4
  <2> QED
    BY <2>2, <2>3
<1> QED
  BY <1>a, <1>8, <1>9, <1>10 DEF Indexed

(* What deque_pool_add makes of the deque objects, dq before and dp after. *)
AddedTo(dq, dp, pools, v, d, r) ==
  /\ dp[d].worker = v /\ dp[d].self = Len(pools[v]) /\ dp[d].resumable = r
  /\ \A x \in Deques : x # d => /\ dp[x].worker = dq[x].worker /\ dp[x].self = dq[x].self
                                /\ dp[x].resumable = dq[x].resumable

(* It gives d the place after the last. *)
LEMMA AddIndexed ==
  ASSUME NEW dq \in [Deques -> Deque], NEW dp, NEW r,
         NEW pools \in [Workers -> Seq(Deques)], Indexed(dq, pools, r),
         NEW v \in Workers, NEW d \in Deques, ~Says(dq[d], r),
         AddedTo(dq, dp, pools, v, d, r)
  PROVE  /\ Grown(pools, v, d) \in [Workers -> Seq(Deques)]
         /\ Indexed(dp, Grown(pools, v, d), r)
PROOF
<1> DEFINE pool == pools[v]
<1> USE DEF AddedTo
<1>a. PICK n, after : n = Len(pool) /\ after = Grown(pools, v, d)
  OBVIOUS
<1>1. /\ pool \in Seq(Deques) /\ n \in Nat /\ Append(pool, d) \in Seq(Deques)
      /\ Len(Append(pool, d)) = n + 1 /\ Append(pool, d)[n + 1] = d
      /\ \A i \in 1..n : Append(pool, d)[i] = pool[i]
  BY <1>a
<1>2. /\ after \in [Workers -> Seq(Deques)] /\ after[v] = Append(pool, d)
      /\ \A w \in Workers : w # v => after[w] = pools[w]
  BY <1>a, <1>1 DEF Grown
<1>3. ASSUME NEW w \in Workers, NEW i \in 1..Len(pools[w])
      PROVE  LET x == pools[w][i]
             IN  /\ x \in Deques /\ x # d /\ dp[x].worker = w
                 /\ dp[x].self = i - 1 /\ dp[x].resumable = r
  <2> DEFINE x == pools[w][i]
  <2>1. x \in Deques /\ dq[x].worker = w /\ dq[x].self = i - 1 /\ dq[x].resumable = r
    BY DEF Indexed
  <2>2. x # d
    BY <2>1, Constants DEF Says
  <2> QED
    BY <2>1, <2>2
<1>4. ASSUME NEW w \in Workers, NEW i \in 1..Len(after[w])
      PROVE  LET q == dp[after[w][i]]
             IN  q.worker = w /\ q.self = i - 1 /\ q.resumable = r
  <2>1. CASE w = v /\ i = n + 1
    BY <1>a, <1>1, <1>2, <2>1
  <2>2. CASE ~(w = v /\ i = n + 1)
    <3>1. i \in 1..Len(pools[w]) /\ after[w][i] = pools[w][i]
      BY <1>a, <1>1, <1>2, <2>2
    <3> QED
      BY <1>3, <3>1
  <2> QED
    BY <2>1, <2>2
<1>5. ASSUME NEW x \in Deques, Says(dp[x], r)
      PROVE  LET p == after[dp[x].worker]
             IN  dp[x].self + 1 \in 1..Len(p) /\ p[dp[x].self + 1] = x
  <2>1. CASE x = d
    BY <1>a, <1>1, <1>2, <2>1
  <2>2. CASE x # d
    <3> DEFINE u == dq[x].worker
               j == dq[x].self + 1
    <3>1. dp[x].worker = u /\ dp[x].self + 1 = j /\ Says(dq[x], r)
      BY <1>5, <2>2 DEF Says
    <3>2. u \in Workers /\ j \in 1..Len(pools[u]) /\ pools[u][j] = x
      BY <3>1 DEF Says, Indexed, Deque
    <3>3. CASE u = v
      <4>1. j \in 1..n /\ Append(pool, d)[j] = x
        BY <1>a, <1>1, <3>2, <3>3
      <4>2. j \in 1..n + 1
        BY <1>1, <4>1
      <4> QED
        BY <1>1, <1>2, <3>1, <3>3, <4>1, <4>2
    <3>4. CASE u # v
      BY <1>2, <3>1, <3>2, <3>4
    <3> QED
      BY <3>3, <3>4
  <2> QED
    BY <2>1, <2>2
<1> QED
  BY <1>a, <1>2, <1>4, <1>5 DEF Indexed

(* A step of user code or of a thief, which leaves all deques where they   *)
(* are: only frames and exc of a deque in use may change.                  *)
PlainStep(w) ==
  /\ UNCHANGED <<active, suspended_deques, resumable_deques, waiting>>
  /\ \A d \in Deques : /\ deq'[d].live = deq[d].live /\ deq'[d].worker = deq[d].worker
                       /\ deq'[d].self = deq[d].self /\ deq'[d].resumable = deq[d].resumable
                       /\ deq'[d].fiber = deq[d].fiber
                       /\ ~deq[d].live => deq'[d] = deq[d]
  /\ \A v \in Workers : v # w => pc'[v] = pc[v] /\ loc'[v] = loc[v]
  /\ pc[w] \in Plain /\ pc'[w] \in Plain

(* Such a step keeps the part of the invariant on places. *)
LEMMA PlainKeepsPlaces ==
  ASSUME TypeOK, PlaceInv, NEW w \in Workers, PlainStep(w), ControlOK(w)'
  PROVE  PlaceInv'
PROOF
<1> USE DEF PlaceInv
<1>1. /\ active \in [Workers -> Deques] /\ deq \in [Deques -> Deque]
      /\ suspended_deques \in [Workers -> Seq(Deques)]
      /\ resumable_deques \in [Workers -> Seq(Deques)]
  BY DEF TypeOK
<1>2. ControlInv'
  BY DEF ControlInv, ControlOK, PlainStep, Plain
<1>3. ActiveInv'
  <2>1. ASSUME NEW v \in Workers PROVE ActiveOK(v)'
    <3>1. ActiveOK(v) /\ active[v] \in Deques /\ active'[v] = active[v]
      BY <1>1 DEF ActiveInv, PlainStep
    <3>2. (pc'[v] \in {"park", "jump"}) <=> (pc[v] \in {"park", "jump"})
      BY DEF PlainStep, Plain
    <3> QED
      BY <3>1, <3>2 DEF ActiveOK, PlainStep
  <2>2. ASSUME NEW d \in Deques, ~deq'[d].live PROVE deq'[d] = Unused
    BY <2>2 DEF ActiveInv, PlainStep
  <2> QED
    BY <2>1, <2>2 DEF ActiveInv
<1>4. PoolInv'
  <2>1. \A x \in Deques : /\ deq'[x].worker = deq[x].worker /\ deq'[x].self = deq[x].self
                          /\ deq'[x].resumable = deq[x].resumable /\ deq'[x].fiber = deq[x].fiber
    BY DEF PlainStep
  <2>2. Indexed(deq', suspended_deques, FALSE) /\ Indexed(deq', resumable_deques, TRUE)
    BY <1>1, <2>1, SameIndexed DEF PoolInv
  <2>3. UNCHANGED <<suspended_deques, resumable_deques>>
    BY DEF PlainStep
  <2> QED
    BY <2>1, <2>2, <2>3 DEF PoolInv, Says, Indexed
<1>5. \A v \in Workers, d \in Deques : Held(v, d)' <=> Held(v, d)
  BY DEF Held, PlainStep, Plain
<1>6. \A d \in Deques : Pending(d)' <=> Pending(d)
  BY DEF Pending, PlainStep, Plain
<1>7. \A v \in Workers, d \in Deques : Suspending(v, d)' <=> Suspending(v, d)
  BY DEF Suspending, PlainStep, Plain
<1>8. \A d \in Deques : (Out(d)' <=> Out(d)) /\ (Pooled(d)' <=> Pooled(d)) /\ (InPool(d)' <=> InPool(d))
  BY DEF Out, Pooled, InPool, PlainStep
<1>9. HeldInv'
  <2>1. ASSUME NEW v \in Workers PROVE HeldOK(v)'
    <3>1. HeldOK(v) /\ ControlOK(v)
      BY DEF HeldInv, ControlInv
    <3> QED
      BY <3>1, <1>8 DEF HeldOK, ControlOK, PlainStep, Plain
  <2> QED
    BY <2>1, <1>5 DEF HeldInv, PlainStep
<1>10. PendingInv'
  <2>1. ASSUME NEW d \in Deques, Pending(d)' PROVE PendingOK(d)'
    <3>1. PendingOK(d)
      BY <2>1, <1>6 DEF PendingInv
    <3> QED
      BY <3>1, <1>7, <1>8 DEF PendingOK, PlainStep, Plain
  <2>2. ASSUME NEW v \in Workers PROVE SuspendOK(v)'
    <3>1. SuspendOK(v) /\ ControlOK(v)
      BY DEF PendingInv, ControlInv
    <3> QED
      BY <3>1, <1>1, <1>6, <1>8 DEF SuspendOK, ControlOK, PlainStep, Plain
  <2> QED
    BY <2>1, <2>2 DEF PendingInv, PlainStep, Plain
<1>11. LiveInv'
  BY <1>5, <1>8 DEF LiveInv, PlainStep, Plain
<1> QED
  BY <1>2, <1>3, <1>4, <1>9, <1>10, <1>11

-----------------------------------------------------------------------------
(* Facts that the invariant gives about one deque or one worker *)

(* No two workers have the same active deque. *)
LEMMA ActiveUnique ==
  ASSUME PlaceInv, NEW v \in Workers, NEW w \in Workers, active[v] = active[w]
  PROVE  v = w
PROOF
  BY DEF PlaceInv, ActiveInv, ActiveOK

(* A thief is after a deque of the worker whose lock it has, ... *)
LEMMA ThiefVictim ==
  ASSUME PlaceInv, ThiefInv, NEW w \in Workers, pc[w] \in Thief
  PROVE  /\ loc[w].d \in Deques /\ loc[w].victim \in Workers
         /\ deq[loc[w].d].worker = loc[w].victim
PROOF
<1>1. loc[w].d \in Deques /\ loc[w].victim \in Workers
  BY DEF PlaceInv, ControlInv, ControlOK
<1> QED
  BY <1>1 DEF PlaceInv, ThiefInv, ThiefOK, ActiveInv, ActiveOK

(* ... so that no other thief is after the same deque, ... *)
LEMMA ThiefUnique ==
  ASSUME PlaceInv, ThiefInv, NEW v \in Workers, NEW w \in Workers,
         pc[v] \in Thief, pc[w] \in Thief, loc[v].d = loc[w].d
  PROVE  v = w
PROOF
  BY ThiefVictim DEF ThiefInv

(* ... and nobody is after the deques of a worker whose lock is free. *)
LEMMA NoThief ==
  ASSUME PlaceInv, StealInv, NEW v \in Workers, ~Locked(v),
         NEW d \in Deques, deq[d].worker = v, TypeOK
  PROVE  /\ \A w \in Workers : pc[w] \in Thief => loc[w].d # d
         /\ deq[d].exc = 0
PROOF
<1>1. ASSUME NEW w \in Workers, pc[w] \in Thief PROVE loc[w].d # d
  BY <1>1, ThiefVictim DEF Locked, Thief, StealInv
<1>2. deq[d].exc \in 0..1
  BY DEF TypeOK, Deque
<1> QED
  BY <1>1, <1>2 DEF StealInv, ExcInv, Thief, Raised

(* A worker that runs user code has not let the tail pass the head. *)
LEMMA FramesNatural ==
  ASSUME TypeOK, PlaceInv, StealInv, NEW w \in Workers, pc[w] \notin {"pop", "check"}
  PROVE  Active(w).frames \in 0..MaxFrames
PROOF
<1>1. active[w] \in Deques /\ Active(w).frames \in -1..MaxFrames
  BY DEF TypeOK, Deque, Active
<1>2. ~Popping(active[w])
  BY ActiveUnique DEF Popping
<1> QED
  BY <1>1, <1>2, Constants DEF StealInv, FrameInv, Active

(* A step sets frames and exc of d, ... *)
FramesSet(d, f, e) == deq' = [deq EXCEPT ![d].frames = f, ![d].exc = e]

(* ... and leaves everything else alone. *)
FrameStep(d, f, e) ==
  /\ deq' \in [Deques -> Deque]
  /\ deq'[d].frames = f /\ deq'[d].exc = e
  /\ \A x \in Deques : /\ deq'[x].live = deq[x].live /\ deq'[x].worker = deq[x].worker
                       /\ deq'[x].self = deq[x].self /\ deq'[x].resumable = deq[x].resumable
                       /\ deq'[x].fiber = deq[x].fiber
  /\ \A x \in Deques : x # d => deq'[x] = deq[x]

(* The second follows from the first. *)
LEMMA FramesSetStep ==
  ASSUME deq \in [Deques -> Deque], NEW d \in Deques,
         NEW f \in -1..MaxFrames, NEW e \in 0..1, FramesSet(d, f, e)
  PROVE  FrameStep(d, f, e)
PROOF
<1>1. deq'[d] = [deq[d] EXCEPT !.frames = f, !.exc = e] /\ deq[d] \in Deque
  BY DEF FramesSet
<1>2. deq'[d] \in Deque
  BY <1>1 DEF Deque
<1>3. \A x \in Deques : x # d => deq'[x] = deq[x]
  BY DEF FramesSet
<1>4. deq' \in [Deques -> Deque]
  BY <1>2, <1>3 DEF FramesSet
<1>5. /\ deq'[d].live = deq[d].live /\ deq'[d].worker = deq[d].worker
      /\ deq'[d].self = deq[d].self /\ deq'[d].resumable = deq[d].resumable
      /\ deq'[d].fiber = deq[d].fiber /\ deq'[d].frames = f /\ deq'[d].exc = e
  BY <1>1 DEF Deque
<1> QED
  BY <1>3, <1>4, <1>5 DEF FrameStep

(* Steps of user code and of thieves keep the rest of the invariant, as    *)
(* long as they do not make a new thief, put frames only on active deques  *)
(* and keep ExcInv and FrameInv.                                           *)
LEMMA PlainKeepsRest ==
  ASSUME TypeOK, PlaceInv, StealInv, NEW w \in Workers, PlainStep(w),
         pc'[w] \in Thief => pc[w] \in Thief /\ loc'[w] = loc[w],
         \A d \in Deques : deq'[d].frames > 0 => deq[d].frames > 0 \/ d = active[w]
  PROVE  ThiefInv' /\ WorkInv'
PROOF
<1>1. ThiefInv'
  <2>1. ASSUME NEW v \in Workers, pc'[v] \in Thief
        PROVE  ThiefOK(v)'
    <3>1. pc[v] \in Thief /\ loc'[v] = loc[v]
      BY <2>1 DEF PlainStep
    <3>2. loc[v].d \in Deques /\ ThiefOK(v)
      BY <3>1, ThiefVictim DEF StealInv, ThiefInv
    <3> QED
      BY <3>1, <3>2 DEF PlainStep, ThiefOK, Pooled, InPool
  <2>2. ASSUME NEW v \in Workers, NEW u \in Workers, pc'[v] \in Thief, pc'[u] \in Thief,
               loc'[v].victim = loc'[u].victim
        PROVE  v = u
    BY <2>2 DEF PlainStep, StealInv, ThiefInv
  <2> QED
    BY <2>1, <2>2 DEF ThiefInv
<1>2. WorkInv'
  <2>1. SUFFICES ASSUME NEW d \in Deques, deq'[d].frames > 0
                 PROVE  Found(d)'
    BY DEF WorkInv
  <2>2. InPool(d)' <=> InPool(d)
    BY DEF InPool, PlainStep
  <2> QED
    BY <2>1, <2>2 DEF StealInv, WorkInv, Found, PlainStep, Plain
<1> QED
  BY <1>1, <1>2

-----------------------------------------------------------------------------
(* Steps that leave the deques where they are *)

(* Frames pushed on an active deque. *)
LEMMA PushKeeps ==
  ASSUME DequeInv, NEW w \in Workers, Push(w)
  PROVE  DequeInv'
PROOF
<1> DEFINE d == active[w]
<1>1. TypeOK /\ PlaceInv /\ StealInv
  BY DEF DequeInv
<1>2. d \in Deques /\ deq \in [Deques -> Deque] /\ pc[w] = "run"
  BY <1>1 DEF TypeOK, Push
<1>3. deq[d].frames \in 0..MaxFrames /\ deq[d].exc \in 0..1 /\ deq[d].frames < MaxFrames
  BY <1>1, <1>2, FramesNatural DEF Push, Active, Deque
<1>4. FramesSet(d, deq[d].frames + 1, deq[d].exc)
  BY <1>2 DEF Push, Deque, FramesSet
<1>5. FrameStep(d, deq[d].frames + 1, deq[d].exc)
  <2>1. deq[d].frames + 1 \in -1..MaxFrames
    BY <1>3, Constants
  <2> QED
    BY <1>2, <1>3, <1>4, <2>1, FramesSetStep
<1> USE DEF FrameStep
<1>6. UNCHANGED <<active, suspended_deques, resumable_deques, waiting, pc, loc>>
  BY DEF Push
<1>7. TypeOK'
  <2>1. left' \in [push : Nat, suspend : Nat]
    <3>1. /\ left \in [push : Nat, suspend : Nat] /\ left.push > 0
          /\ left' = [left EXCEPT !.push = left.push - 1]
      BY <1>1 DEF TypeOK, Push
    <3>2. left.push - 1 \in Nat
      BY <3>1
    <3> QED
      BY <3>1, <3>2
  <2> QED
    BY <1>1, <1>5, <1>6, <2>1 DEF TypeOK
<1>8. PlainStep(w) /\ ControlOK(w)'
  BY <1>1, <1>2, <1>5, <1>6 DEF PlainStep, Plain, PlaceInv, ActiveInv, ActiveOK, ControlInv, ControlOK
<1>9. PlaceInv'
  BY <1>1, <1>8, PlainKeepsPlaces
<1>10. ThiefInv' /\ WorkInv'
  BY <1>1, <1>2, <1>5, <1>6, <1>8, PlainKeepsRest DEF Thief
<1>11. ExcInv'
  <2>1. \A x \in Deques : deq'[x].exc = deq[x].exc
    BY <1>5
  <2>2. \A v \in Workers : pc[v] \in Raised => loc[v].d \in Deques
    BY <1>1, ThiefVictim DEF Raised, Thief, StealInv
  <2> QED
    BY <1>1, <1>6, <2>1, <2>2 DEF StealInv, ExcInv
<1>12. FrameInv'
  <2>1. \A x \in Deques : (Popping(x)' <=> Popping(x)) /\ deq'[x].frames >= deq[x].frames
    BY <1>3, <1>5, <1>6 DEF Popping, TypeOK, Deque
  <2>2. ASSUME NEW x \in Deques, deq'[x].frames < 0 PROVE Popping(x)'
    BY <1>1, <1>3, <1>5, <2>1, <2>2 DEF StealInv, FrameInv
  <2>3. ASSUME NEW v \in Workers, pc'[v] = "detach" PROVE DetachOK(v)'
    <3>1. loc[v].d \in Deques /\ DetachOK(v)
      BY <1>1, <1>6, <2>3, ThiefVictim DEF Thief, StealInv, FrameInv
    <3> QED
      BY <1>3, <1>5, <1>6, <2>1, <3>1 DEF DetachOK
  <2>4. ASSUME NEW v \in Workers PROVE EmptyOK(v)'
    <3>1. EmptyOK(v) /\ active[v] \in Deques /\ (active[v] = d => v = w)
      BY <1>1, ActiveUnique DEF StealInv, FrameInv, TypeOK
    <3>2. pc[v] = "switch" => loc[v].new \in Deques /\ loc[v].new # d
      BY <1>1, Constants DEF PlaceInv, ControlInv, ControlOK, HeldInv, HeldOK, ActiveInv, ActiveOK
    <3> QED
      BY <1>2, <1>5, <1>6, <3>1, <3>2 DEF EmptyOK, Stuck
  <2> QED
    BY <2>2, <2>3, <2>4 DEF FrameInv
<1> QED
  BY <1>7, <1>9, <1>10, <1>11, <1>12 DEF DequeInv, StealInv

(* The tail moves down; a thief that has made sure of a frame keeps it. *)
LEMMA PopKeeps ==
  ASSUME DequeInv, NEW w \in Workers, Pop(w)
  PROVE  DequeInv'
PROOF
<1> DEFINE d == active[w]
<1>1. TypeOK /\ PlaceInv /\ StealInv
  BY DEF DequeInv
<1>2. d \in Deques /\ deq \in [Deques -> Deque] /\ pc[w] = "run"
  BY <1>1 DEF TypeOK, Pop
<1>3. deq[d].frames \in 0..MaxFrames /\ deq[d].exc \in 0..1
  BY <1>1, <1>2, FramesNatural DEF Active, Deque
<1>4. FramesSet(d, deq[d].frames - 1, deq[d].exc)
  BY <1>2 DEF Pop, Deque, FramesSet
<1>5. FrameStep(d, deq[d].frames - 1, deq[d].exc)
  <2>1. deq[d].frames - 1 \in -1..MaxFrames
    BY <1>3, Constants
  <2> QED
    BY <1>2, <1>3, <1>4, <2>1, FramesSetStep
<1> USE DEF FrameStep
<1>6. /\ UNCHANGED <<active, suspended_deques, resumable_deques, waiting, loc, left>>
      /\ pc' = [pc EXCEPT ![w] = "pop"] /\ pc'[w] = "pop"
      /\ \A v \in Workers : v # w => pc'[v] = pc[v]
  BY <1>1 DEF Pop, TypeOK
<1>7. TypeOK'
  BY <1>1, <1>5, <1>6 DEF TypeOK
<1>8. PlainStep(w) /\ ControlOK(w)'
  BY <1>1, <1>2, <1>5, <1>6
  DEF PlainStep, Plain, Thief, PlaceInv, ActiveInv, ActiveOK, ControlInv, ControlOK
<1>9. PlaceInv'
  BY <1>1, <1>8, PlainKeepsPlaces
<1>10. ThiefInv' /\ WorkInv'
  BY <1>1, <1>2, <1>3, <1>5, <1>6, <1>8, PlainKeepsRest DEF Thief
<1>11. ExcInv'
  <2>1. \A x \in Deques : deq'[x].exc = deq[x].exc
    BY <1>5
  <2>2. \A v \in Workers : pc[v] \in Raised => loc[v].d \in Deques
    BY <1>1, ThiefVictim DEF Raised, Thief, StealInv
  <2> QED
    BY <1>1, <1>2, <1>6, <2>1, <2>2 DEF StealInv, ExcInv, Raised
<1>12. FrameInv'
  <2>1. Popping(d)' /\ \A x \in Deques : Popping(x) => Popping(x)'
    BY <1>1, <1>2, <1>6 DEF Popping
  <2>2. ASSUME NEW x \in Deques, deq'[x].frames < 0 PROVE Popping(x)'
    BY <1>1, <1>5, <1>6, <2>1, <2>2 DEF StealInv, FrameInv
  <2>3. ASSUME NEW v \in Workers, pc'[v] = "detach" PROVE DetachOK(v)'
    <3>1. pc[v] = "detach" /\ loc[v].d \in Deques /\ DetachOK(v)
      BY <1>1, <1>6, <2>3, ThiefVictim DEF Thief, StealInv, FrameInv
    <3>2. ~Popping(d)
      BY <1>1, <1>2, ActiveUnique DEF Popping
    <3> QED
      BY <1>3, <1>5, <1>6, <2>1, <3>1, <3>2 DEF DetachOK
  <2>4. ASSUME NEW v \in Workers PROVE EmptyOK(v)'
    <3>1. EmptyOK(v) /\ active[v] \in Deques /\ (active[v] = d => v = w)
      BY <1>1, ActiveUnique DEF StealInv, FrameInv, TypeOK
    <3>2. pc[v] = "switch" => loc[v].new \in Deques /\ loc[v].new # d
      BY <1>1, Constants DEF PlaceInv, ControlInv, ControlOK, HeldInv, HeldOK, ActiveInv, ActiveOK
    <3> QED
      BY <1>2, <1>5, <1>6, <3>1, <3>2 DEF EmptyOK, Stuck
  <2> QED
    BY <2>2, <2>3, <2>4 DEF FrameInv
<1> QED
  BY <1>7, <1>9, <1>10, <1>11, <1>12 DEF DequeInv, StealInv

(* The owner has the frame unless a thief is at work. *)
LEMMA UndoDetachKeeps ==
  ASSUME DequeInv, NEW w \in Workers, UndoDetach(w)
  PROVE  DequeInv'
PROOF
<1>1. TypeOK /\ PlaceInv /\ StealInv
  BY DEF DequeInv
<1>2. /\ UNCHANGED <<deq, active, suspended_deques, resumable_deques, waiting, loc, left>>
      /\ pc[w] = "pop" /\ pc'[w] \in {"check", "run"}
      /\ pc'[w] = "run" => ~Excepted(active[w])
      /\ \A v \in Workers : v # w => pc'[v] = pc[v]
      /\ pc' \in [Workers -> {"run", "pop", "check", "idle", "probe", "dekker", "detach",
                              "suspend", "switch", "park", "jump",
                              "resume", "owned", "free", "give", "mugged"}]
  BY <1>1 DEF UndoDetach, TypeOK
<1>3. TypeOK'
  BY <1>1, <1>2 DEF TypeOK
<1>4. PlainStep(w) /\ ControlOK(w)'
  BY <1>1, <1>2 DEF PlainStep, Plain, Thief, PlaceInv, ControlInv, ControlOK
<1>5. PlaceInv'
  BY <1>1, <1>4, PlainKeepsPlaces
<1>6. ThiefInv' /\ WorkInv'
  BY <1>1, <1>2, <1>4, PlainKeepsRest DEF Thief
<1>7. ExcInv'
  BY <1>1, <1>2 DEF StealInv, ExcInv, Raised
<1>8. FrameInv'
  <2>1. active[w] \in Deques /\ deq[active[w]].frames \in -1..MaxFrames /\ deq[active[w]].exc \in 0..1
    BY <1>1 DEF TypeOK, Deque
  <2>2. \A x \in Deques : Popping(x) => Popping(x)' \/ (x = active[w] /\ pc'[w] = "run")
    BY <1>2 DEF Popping
  <2>3. pc'[w] = "run" => deq[active[w]].frames >= deq[active[w]].exc
    BY <1>2, <2>1 DEF Excepted
  <2>4. ASSUME NEW x \in Deques, deq'[x].frames < 0 PROVE Popping(x)'
    BY <1>1, <1>2, <2>1, <2>2, <2>3, <2>4 DEF StealInv, FrameInv
  <2>5. ASSUME NEW v \in Workers, pc'[v] = "detach" PROVE DetachOK(v)'
    <3>1. pc[v] = "detach" /\ loc[v].d \in Deques /\ DetachOK(v) /\ deq[loc[v].d].exc = 1
      BY <1>1, <1>2, <2>5, ThiefVictim DEF Thief, Raised, StealInv, FrameInv, ExcInv
    <3> QED
      BY <1>2, <2>1, <2>2, <2>3, <3>1 DEF DetachOK
  <2>6. ASSUME NEW v \in Workers PROVE EmptyOK(v)'
    BY <1>1, <1>2 DEF EmptyOK, Stuck, StealInv, FrameInv
  <2> QED
    BY <2>4, <2>5, <2>6 DEF FrameInv
<1> QED
  BY <1>3, <1>5, <1>6, <1>7, <1>8 DEF DequeInv, StealInv

(* The owner finds out, with its lock, whether the frame was stolen. *)
LEMMA ExceptionCheckKeeps ==
  ASSUME DequeInv, NEW w \in Workers, ExceptionCheck(w)
  PROVE  DequeInv'
PROOF
<1> DEFINE d == active[w]
           f == IF deq[d].frames + 1 <= 0 THEN deq[d].frames + 1 ELSE deq[d].frames
<1>1. TypeOK /\ PlaceInv /\ StealInv
  BY DEF DequeInv
<1>2. d \in Deques /\ deq \in [Deques -> Deque] /\ pc[w] = "check" /\ ~Locked(w)
  BY <1>1 DEF TypeOK, ExceptionCheck
<1>3. deq[d].worker = w
  BY <1>1 DEF PlaceInv, ActiveInv, ActiveOK
<1>4. deq[d].exc = 0 /\ \A v \in Workers : pc[v] \in Thief => loc[v].d # d
  BY <1>1, <1>2, <1>3, NoThief
<1>5. deq[d].frames \in -1..MaxFrames /\ f \in 0..MaxFrames /\ f >= deq[d].frames
  BY <1>2, Constants DEF Deque
<1>6. FramesSet(d, f, 0)
  BY <1>2 DEF ExceptionCheck, Active, Deque, FramesSet
<1>7. FrameStep(d, f, 0)
  <2>1. f \in -1..MaxFrames /\ 0 \in 0..1
    BY <1>5, Constants
  <2> HIDE DEF d, f
  <2> QED
    BY <1>2, <1>6, <2>1, FramesSetStep
<1> USE DEF FrameStep
<1>8. /\ UNCHANGED <<active, suspended_deques, resumable_deques, waiting, loc, left>>
      /\ pc'[w] \in {"idle", "run"} /\ (pc'[w] = "idle" => f = 0)
      /\ \A v \in Workers : v # w => pc'[v] = pc[v]
      /\ pc' \in [Workers -> {"run", "pop", "check", "idle", "probe", "dekker", "detach",
                              "suspend", "switch", "park", "jump",
                              "resume", "owned", "free", "give", "mugged"}]
  BY <1>1, <1>5 DEF ExceptionCheck, TypeOK, Active
<1> HIDE DEF f
<1>9. TypeOK'
  BY <1>1, <1>7, <1>8 DEF TypeOK
<1>10. PlainStep(w) /\ ControlOK(w)'
  BY <1>1, <1>2, <1>7, <1>8
  DEF PlainStep, Plain, Thief, PlaceInv, ActiveInv, ActiveOK, ControlInv, ControlOK
<1>11. PlaceInv'
  BY <1>1, <1>10, PlainKeepsPlaces
<1>12. ThiefInv' /\ WorkInv'
  BY <1>1, <1>2, <1>7, <1>8, <1>10, PlainKeepsRest DEF Thief
<1>13. ExcInv'
  <2>1. \A x \in Deques : deq'[x].exc = deq[x].exc
    BY <1>4, <1>7
  <2>2. \A v \in Workers : pc[v] \in Raised => loc[v].d \in Deques
    BY <1>1, ThiefVictim DEF Raised, Thief, StealInv
  <2> QED
    BY <1>1, <1>2, <1>8, <2>1, <2>2 DEF StealInv, ExcInv, Raised
<1>14. FrameInv'
  <2>1. \A x \in Deques : x # d => (Popping(x) => Popping(x)')
    BY <1>8 DEF Popping
  <2>2. ASSUME NEW x \in Deques, deq'[x].frames < 0 PROVE Popping(x)'
    BY <1>1, <1>5, <1>7, <2>1, <2>2 DEF StealInv, FrameInv
  <2>3. ASSUME NEW v \in Workers, pc'[v] = "detach" PROVE DetachOK(v)'
    <3>1. pc[v] = "detach" /\ loc[v].d \in Deques /\ DetachOK(v) /\ loc[v].d # d
      BY <1>1, <1>4, <1>8, <2>3, ThiefVictim DEF Thief, StealInv, FrameInv
    <3> QED
      BY <1>7, <1>8, <2>1, <3>1 DEF DetachOK
  <2>4. ASSUME NEW v \in Workers PROVE EmptyOK(v)'
    <3>1. EmptyOK(v) /\ active[v] \in Deques /\ (active[v] = d => v = w)
      BY <1>1, ActiveUnique DEF StealInv, FrameInv, TypeOK
    <3>2. pc[v] = "switch" => loc[v].new \in Deques /\ loc[v].new # d
      BY <1>1, Constants DEF PlaceInv, ControlInv, ControlOK, HeldInv, HeldOK, ActiveInv, ActiveOK
    <3> QED
      BY <1>2, <1>7, <1>8, <3>1, <3>2 DEF EmptyOK, Stuck
  <2> QED
    BY <2>2, <2>3, <2>4 DEF FrameInv
<1> QED
  BY <1>9, <1>11, <1>12, <1>13, <1>14 DEF DequeInv, StealInv

(* A worker that stalls has an empty deque. *)
LEMMA RunOutKeeps ==
  ASSUME DequeInv, NEW w \in Workers, RunOut(w)
  PROVE  DequeInv'
PROOF
<1>1. TypeOK /\ PlaceInv /\ StealInv
  BY DEF DequeInv
<1>2. /\ UNCHANGED <<deq, active, suspended_deques, resumable_deques, waiting, loc, left>>
      /\ pc[w] = "run" /\ pc'[w] = "idle" /\ deq[active[w]].frames = 0
      /\ pc' = [pc EXCEPT ![w] = "idle"]
      /\ \A v \in Workers : v # w => pc'[v] = pc[v]
  BY <1>1 DEF RunOut, Active, TypeOK
<1>3. TypeOK'
  BY <1>1, <1>2 DEF TypeOK
<1>4. PlainStep(w) /\ ControlOK(w)'
  BY <1>1, <1>2 DEF PlainStep, Plain, Thief, PlaceInv, ControlInv, ControlOK
<1>5. PlaceInv'
  BY <1>1, <1>4, PlainKeepsPlaces
<1>6. ThiefInv' /\ WorkInv'
  BY <1>1, <1>2, <1>4, PlainKeepsRest DEF Thief
<1>7. ExcInv'
  BY <1>1, <1>2 DEF StealInv, ExcInv, Raised
<1>8. FrameInv'
  <2>1. \A x \in Deques : Popping(x) => Popping(x)'
    BY <1>2 DEF Popping
  <2>2. ASSUME NEW v \in Workers, pc'[v] = "detach" PROVE DetachOK(v)'
    <3>1. pc[v] = "detach" /\ loc[v].d \in Deques /\ DetachOK(v)
      BY <1>1, <1>2, <2>2, ThiefVictim DEF Thief, StealInv, FrameInv
    <3> QED
      BY <1>2, <2>1, <3>1 DEF DetachOK
  <2>3. ASSUME NEW v \in Workers PROVE EmptyOK(v)'
    BY <1>1, <1>2 DEF EmptyOK, Stuck, StealInv, FrameInv
  <2> QED
    BY <1>1, <1>2, <2>1, <2>2, <2>3 DEF FrameInv, StealInv
<1> QED
  BY <1>3, <1>5, <1>6, <1>7, <1>8 DEF DequeInv, StealInv

(* A worker becomes a thief, with a lock that was free. *)
LEMMA ProbeKeeps ==
  ASSUME DequeInv, NEW w \in Workers, NEW victim \in Workers, NEW d \in Deques,
         Probe(w, victim, d)
  PROVE  DequeInv'
PROOF
<1>1. TypeOK /\ PlaceInv /\ StealInv
  BY DEF DequeInv
<1>2. /\ UNCHANGED <<deq, active, suspended_deques, resumable_deques, waiting, left>>
      /\ pc[w] = "idle" /\ pc'[w] = "probe" /\ ~Locked(victim)
      /\ pc' = [pc EXCEPT ![w] = "probe"]
      /\ loc' = [loc EXCEPT ![w] = [NoLocal EXCEPT !.d = d, !.victim = victim]]
      /\ \A v \in Workers : v # w => pc'[v] = pc[v] /\ loc'[v] = loc[v]
      /\ d \in Choosable(w, victim)
  BY <1>1 DEF Probe, CanChoose, TypeOK
<1>3. loc'[w] \in Local /\ loc'[w].d = d /\ loc'[w].victim = victim
  <2>1. loc'[w] = [NoLocal EXCEPT !.d = d, !.victim = victim]
    BY <1>1, <1>2 DEF TypeOK
  <2> QED
    BY <2>1 DEF NoLocal, Local
<1>4. TypeOK'
  <2>1. loc' \in [Workers -> Local]
    BY <1>1, <1>2, <1>3 DEF TypeOK
  <2> QED
    BY <1>1, <1>2, <2>1 DEF TypeOK
<1>5. PlainStep(w) /\ ControlOK(w)'
  BY <1>1, <1>2, <1>3 DEF PlainStep, Plain, Thief, ControlOK
<1>6. PlaceInv'
  BY <1>1, <1>5, PlainKeepsPlaces
<1>7. d = active[victim] \/ (Pooled(d) /\ deq[d].worker = victim)
  <2>1. CASE d \in ToSet(suspended_deques[victim])
    <3>1. PICK i \in 1..Len(suspended_deques[victim]) : d = suspended_deques[victim][i]
      <4>1. suspended_deques[victim] \in Seq(Deques)
        BY <1>1 DEF TypeOK
      <4> QED
        BY <2>1, <4>1, ToSetIndex
    <3>2. deq[d].worker = victim /\ deq[d].self = i - 1 /\ ~deq[d].resumable
      BY <1>1, <3>1 DEF PlaceInv, PoolInv, Indexed
    <3> QED
      BY <3>2, Constants DEF Pooled, InPool
  <2>2. CASE d = active[victim]
    BY <2>2
  <2> QED
    BY <1>2, <2>1, <2>2 DEF Choosable
<1>8. ThiefInv'
  <2>1. ASSUME NEW v \in Workers, pc'[v] \in Thief PROVE ThiefOK(v)'
    <3>1. CASE v = w
      BY <1>2, <1>3, <1>7, <3>1 DEF ThiefOK, Pooled, InPool
    <3>2. CASE v # w
      <4>1. ThiefOK(v)
        BY <1>1, <1>2, <2>1, <3>2 DEF StealInv, ThiefInv
      <4> QED
        BY <1>2, <3>2, <4>1 DEF ThiefOK, Pooled, InPool
    <3> QED
      BY <3>1, <3>2
  <2>2. \A v \in Workers : v # w /\ pc'[v] \in Thief => loc'[v].victim # victim
    BY <1>2 DEF Locked, Thief
  <2> QED
    BY <1>1, <1>2, <1>3, <2>1, <2>2 DEF StealInv, ThiefInv
<1>9. ExcInv'
  BY <1>1, <1>2 DEF StealInv, ExcInv, Raised
<1>10. FrameInv'
  <2>1. \A x \in Deques : Popping(x) => Popping(x)'
    BY <1>2 DEF Popping
  <2>2. ASSUME NEW v \in Workers, pc'[v] = "detach" PROVE DetachOK(v)'
    <3>1. v # w /\ pc[v] = "detach" /\ loc[v].d \in Deques /\ DetachOK(v)
      BY <1>1, <1>2, <2>2, ThiefVictim DEF Thief, StealInv, FrameInv
    <3> QED
      BY <1>2, <2>1, <3>1 DEF DetachOK
  <2>3. ASSUME NEW v \in Workers PROVE EmptyOK(v)'
    BY <1>1, <1>2 DEF EmptyOK, Stuck, StealInv, FrameInv
  <2> QED
    BY <1>1, <1>2, <2>1, <2>2, <2>3 DEF FrameInv, StealInv
<1>11. WorkInv'
  BY <1>1, <1>2 DEF WorkInv, Found, InPool, StealInv
<1> QED
  BY <1>4, <1>6, <1>8, <1>9, <1>10, <1>11 DEF DequeInv, StealInv

(* The exception pointer goes up. *)
LEMMA IncrementEKeeps ==
  ASSUME DequeInv, NEW w \in Workers, IncrementE(w)
  PROVE  DequeInv'
PROOF
<1> DEFINE d == loc[w].d
<1>1. TypeOK /\ PlaceInv /\ StealInv
  BY DEF DequeInv
<1>2. d \in Deques /\ deq \in [Deques -> Deque] /\ pc[w] = "probe"
  BY <1>1, ThiefVictim DEF IncrementE, Thief, StealInv, TypeOK
<1>3. deq[d].frames \in -1..MaxFrames /\ deq[d].exc = 0
  <2>1. deq[d].exc # 1
    BY <1>1, <1>2, ThiefUnique DEF StealInv, ExcInv, Raised, Thief
  <2> QED
    BY <1>2, <2>1 DEF Deque
<1>4. FramesSet(d, deq[d].frames, 1)
  BY <1>2, <1>3 DEF IncrementE, Deque, FramesSet
<1>5. FrameStep(d, deq[d].frames, 1)
  <2> 1 \in 0..1
    OBVIOUS
  <2> HIDE DEF d
  <2> QED
    BY <1>2, <1>3, <1>4, FramesSetStep
<1> USE DEF FrameStep
<1>6. /\ UNCHANGED <<active, suspended_deques, resumable_deques, waiting, loc, left>>
      /\ pc' = [pc EXCEPT ![w] = "dekker"] /\ pc'[w] = "dekker"
      /\ \A v \in Workers : v # w => pc'[v] = pc[v]
  BY <1>1 DEF IncrementE, TypeOK
<1>7. TypeOK'
  BY <1>1, <1>5, <1>6 DEF TypeOK
<1>8. deq[d].live
  <2>1. deq[d].worker # NULL
    BY <1>1, <1>2, ThiefVictim, Constants DEF Thief, StealInv
  <2> QED
    BY <1>1, <1>2, <2>1 DEF PlaceInv, ActiveInv, Unused
<1>9. PlainStep(w) /\ ControlOK(w)'
  BY <1>1, <1>2, <1>5, <1>6, <1>8 DEF PlainStep, Plain, Thief, PlaceInv, ControlInv, ControlOK
<1>10. PlaceInv'
  BY <1>1, <1>9, PlainKeepsPlaces
<1>11. \A x \in Deques : deq'[x].frames = deq[x].frames
  BY <1>5
<1>12. ThiefInv' /\ WorkInv'
  BY <1>1, <1>2, <1>6, <1>9, <1>11, PlainKeepsRest DEF Thief
<1>13. ExcInv'
  <2>1. ASSUME NEW v \in Workers, pc'[v] \in Raised PROVE deq'[loc'[v].d].exc = 1
    <3>1. loc[v].d \in Deques /\ (v # w => deq[loc[v].d].exc = 1)
      BY <1>1, <1>2, <1>6, <2>1, ThiefVictim DEF Raised, Thief, StealInv, ExcInv
    <3> QED
      BY <1>5, <1>6, <3>1
  <2>2. ASSUME NEW x \in Deques, deq'[x].exc = 1
        PROVE  \E v \in Workers : pc'[v] \in Raised /\ loc'[v].d = x
    <3>1. CASE x = d
      BY <1>6, <3>1 DEF Raised
    <3>2. CASE x # d
      BY <1>1, <1>2, <1>5, <1>6, <2>2, <3>2 DEF Raised, StealInv, ExcInv
    <3> QED
      BY <3>1, <3>2
  <2> QED
    BY <2>1, <2>2 DEF ExcInv
<1>14. FrameInv'
  <2>1. \A x \in Deques : Popping(x) => Popping(x)'
    BY <1>2, <1>6 DEF Popping
  <2>2. ASSUME NEW v \in Workers, pc'[v] = "detach" PROVE DetachOK(v)'
    <3>1. v # w /\ pc[v] = "detach" /\ loc[v].d \in Deques /\ DetachOK(v)
      BY <1>1, <1>6, <2>2, ThiefVictim DEF Thief, StealInv, FrameInv
    <3> QED
      BY <1>6, <1>11, <2>1, <3>1 DEF DetachOK
  <2>3. ASSUME NEW v \in Workers PROVE EmptyOK(v)'
    <3>1. EmptyOK(v) /\ active[v] \in Deques /\ (pc[v] = "switch" => loc[v].new \in Deques)
      BY <1>1 DEF StealInv, FrameInv, TypeOK, PlaceInv, ControlInv, ControlOK
    <3> QED
      BY <1>2, <1>6, <1>11, <3>1 DEF EmptyOK, Stuck
  <2> QED
    BY <1>1, <1>11, <2>1, <2>2, <2>3 DEF FrameInv, StealInv
<1> QED
  BY <1>7, <1>10, <1>12, <1>13, <1>14 DEF DequeInv, StealInv

(* A thief looks again, and goes on or takes the exception pointer back. *)
LEMMA DekkerKeeps ==
  ASSUME DequeInv, NEW w \in Workers, Dekker(w)
  PROVE  DequeInv'
PROOF
<1> DEFINE d == loc[w].d
<1>1. TypeOK /\ PlaceInv /\ StealInv
  BY DEF DequeInv
<1>2. d \in Deques /\ deq \in [Deques -> Deque] /\ pc[w] = "dekker" /\ deq[d].live
  <2>1. d \in Deques /\ deq[d].worker # NULL /\ pc[w] = "dekker"
    BY <1>1, ThiefVictim, Constants DEF Dekker, Thief, StealInv
  <2> QED
    BY <1>1, <2>1 DEF PlaceInv, ActiveInv, Unused, TypeOK
<1>3. deq[d].frames \in -1..MaxFrames /\ deq[d].exc = 1
  BY <1>1, <1>2 DEF Deque, StealInv, ExcInv, Raised
<1>4. CASE deq[d].frames > 0
  <2>1. /\ UNCHANGED <<deq, active, suspended_deques, resumable_deques, waiting, loc, left>>
        /\ pc' = [pc EXCEPT ![w] = "detach"] /\ pc'[w] = "detach"
        /\ \A v \in Workers : v # w => pc'[v] = pc[v]
    BY <1>1, <1>4 DEF Dekker, can_steal_from, TypeOK
  <2>2. TypeOK'
    BY <1>1, <2>1 DEF TypeOK
  <2>3. PlainStep(w) /\ ControlOK(w)'
    BY <1>1, <1>2, <2>1 DEF PlainStep, Plain, Thief, PlaceInv, ControlInv, ControlOK
  <2>4. PlaceInv'
    BY <1>1, <2>3, PlainKeepsPlaces
  <2>5. ThiefInv' /\ WorkInv'
    BY <1>1, <1>2, <2>1, <2>3, PlainKeepsRest DEF Thief
  <2>6. ExcInv'
    BY <1>1, <1>2, <2>1 DEF StealInv, ExcInv, Raised
  <2>7. FrameInv'
    <3>1. \A x \in Deques : Popping(x) => Popping(x)'
      BY <1>2, <2>1 DEF Popping
    <3>2. ASSUME NEW v \in Workers, pc'[v] = "detach" PROVE DetachOK(v)'
      <4>1. loc[v].d \in Deques /\ (v = w \/ DetachOK(v))
        BY <1>1, <1>2, <2>1, <3>2, ThiefVictim DEF Thief, StealInv, FrameInv
      <4> QED
        BY <1>4, <2>1, <3>1, <4>1 DEF DetachOK
    <3>3. ASSUME NEW v \in Workers PROVE EmptyOK(v)'
      BY <1>1, <1>2, <2>1 DEF EmptyOK, Stuck, StealInv, FrameInv
    <3> QED
      BY <1>1, <2>1, <3>1, <3>2, <3>3 DEF FrameInv, StealInv
  <2> QED
    BY <2>2, <2>4, <2>5, <2>6, <2>7 DEF DequeInv, StealInv
<1>5. CASE ~(deq[d].frames > 0)
  <2>1. /\ UNCHANGED <<active, suspended_deques, resumable_deques, waiting, left>>
        /\ pc' = [pc EXCEPT ![w] = "idle"] /\ pc'[w] = "idle"
        /\ loc' = [loc EXCEPT ![w] = NoLocal] /\ loc'[w] = NoLocal
        /\ \A v \in Workers : v # w => pc'[v] = pc[v] /\ loc'[v] = loc[v]
    BY <1>1, <1>5 DEF Dekker, can_steal_from, TypeOK
  <2>2. FramesSet(d, deq[d].frames, 0)
    <3>1. deq' = [deq EXCEPT ![d].exc = deq[d].exc - 1]
      BY <1>5 DEF Dekker, can_steal_from, Decremented
    <3> QED
      BY <1>2, <1>3, <3>1 DEF Deque, FramesSet
  <2>3. FrameStep(d, deq[d].frames, 0)
    <3> 0 \in 0..1
      OBVIOUS
    <3> HIDE DEF d
    <3> QED
      BY <1>2, <1>3, <2>2, FramesSetStep
  <2> USE DEF FrameStep
  <2>4. TypeOK'
    <3>1. NoLocal \in Local
      BY DEF NoLocal, Local
    <3> QED
      BY <1>1, <2>1, <2>3, <3>1 DEF TypeOK
  <2>5. PlainStep(w) /\ ControlOK(w)'
    BY <1>1, <1>2, <2>1, <2>3 DEF PlainStep, Plain, Thief, PlaceInv, ControlInv, ControlOK
  <2>6. PlaceInv'
    BY <1>1, <2>5, PlainKeepsPlaces
  <2>7. \A x \in Deques : deq'[x].frames = deq[x].frames
    BY <2>3
  <2>8. ThiefInv' /\ WorkInv'
    BY <1>1, <1>2, <2>1, <2>5, <2>7, PlainKeepsRest DEF Thief
  <2>9. \A v \in Workers : pc'[v] \in Thief => v # w /\ loc[v].d \in Deques /\ loc[v].d # d
    BY <1>1, <1>2, <2>1, ThiefUnique, ThiefVictim DEF Thief, StealInv
  <2>10. ExcInv'
    <3>1. ASSUME NEW x \in Deques, deq'[x].exc = 1
          PROVE  \E v \in Workers : pc'[v] \in Raised /\ loc'[v].d = x
      <4>1. x # d /\ deq[x].exc = 1
        BY <2>3, <3>1
      <4>2. PICK v \in Workers : pc[v] \in Raised /\ loc[v].d = x
        BY <1>1, <4>1 DEF StealInv, ExcInv
      <4> QED
        BY <2>1, <4>1, <4>2
    <3> QED
      BY <1>1, <2>1, <2>3, <2>9, <3>1 DEF ExcInv, StealInv, Raised, Thief
  <2>11. FrameInv'
    <3>1. \A x \in Deques : Popping(x) => Popping(x)'
      BY <1>2, <2>1 DEF Popping
    <3>2. ASSUME NEW v \in Workers, pc'[v] = "detach" PROVE DetachOK(v)'
      <4>1. v # w /\ pc[v] = "detach" /\ loc[v].d \in Deques /\ DetachOK(v)
        BY <1>1, <2>1, <2>9, <3>2 DEF Thief, StealInv, FrameInv
      <4> QED
        BY <2>1, <2>7, <3>1, <4>1 DEF DetachOK
    <3>3. ASSUME NEW v \in Workers PROVE EmptyOK(v)'
      <4>1. EmptyOK(v) /\ active[v] \in Deques /\ (pc[v] = "switch" => loc[v].new \in Deques)
        BY <1>1 DEF StealInv, FrameInv, TypeOK, PlaceInv, ControlInv, ControlOK
      <4> QED
        BY <1>2, <2>1, <2>7, <4>1 DEF EmptyOK, Stuck
    <3> QED
      BY <1>1, <2>7, <3>1, <3>2, <3>3 DEF FrameInv, StealInv
  <2> QED
    BY <2>4, <2>6, <2>8, <2>10, <2>11 DEF DequeInv, StealInv
<1> QED
  BY <1>4, <1>5

(* The thief takes a frame that the owner does not have. *)
LEMMA DetachForStealKeeps ==
  ASSUME DequeInv, NEW w \in Workers, DetachForSteal(w)
  PROVE  DequeInv'
PROOF
<1> DEFINE d == loc[w].d
<1>1. TypeOK /\ PlaceInv /\ StealInv
  BY DEF DequeInv
<1>2. /\ d \in Deques /\ deq \in [Deques -> Deque] /\ pc[w] = "detach"
      /\ deq[d].live /\ deq[d].worker # NULL
  <2>1. d \in Deques /\ deq[d].worker # NULL /\ pc[w] = "detach"
    BY <1>1, ThiefVictim, Constants DEF DetachForSteal, Thief, StealInv
  <2> QED
    BY <1>1, <2>1 DEF PlaceInv, ActiveInv, Unused, TypeOK
<1>3. deq[d].frames \in 0..MaxFrames /\ deq[d].exc = 1 /\ (deq[d].frames > 0 \/ Popping(d))
  <2>1. deq[d].frames \in -1..MaxFrames /\ deq[d].exc = 1
    BY <1>1, <1>2 DEF Deque, StealInv, ExcInv, Raised
  <2>2. DetachOK(w)
    BY <1>1, <1>2 DEF StealInv, FrameInv
  <2> QED
    BY <2>1, <2>2, Constants DEF DetachOK
<1>4. FramesSet(d, deq[d].frames - 1, 0)
  BY <1>2, <1>3 DEF DetachForSteal, Deque, FramesSet
<1>5. FrameStep(d, deq[d].frames - 1, 0)
  <2>1. deq[d].frames - 1 \in -1..MaxFrames /\ 0 \in 0..1
    BY <1>3, Constants
  <2> HIDE DEF d
  <2> QED
    BY <1>2, <1>4, <2>1, FramesSetStep
<1> USE DEF FrameStep
<1>6. /\ UNCHANGED <<active, suspended_deques, resumable_deques, waiting, left>>
      /\ pc' = [pc EXCEPT ![w] = "run"] /\ pc'[w] = "run"
      /\ loc' = [loc EXCEPT ![w] = NoLocal] /\ loc'[w] = NoLocal
      /\ \A v \in Workers : v # w => pc'[v] = pc[v] /\ loc'[v] = loc[v]
  BY <1>1 DEF DetachForSteal, TypeOK
<1>7. TypeOK'
  <2>1. NoLocal \in Local
    BY DEF NoLocal, Local
  <2> QED
    BY <1>1, <1>5, <1>6, <2>1 DEF TypeOK
<1>8. PlainStep(w) /\ ControlOK(w)'
  BY <1>1, <1>2, <1>5, <1>6 DEF PlainStep, Plain, Thief, PlaceInv, ControlInv, ControlOK
<1>9. PlaceInv'
  BY <1>1, <1>8, PlainKeepsPlaces
<1>10. ThiefInv' /\ WorkInv'
  BY <1>1, <1>2, <1>3, <1>5, <1>6, <1>8, PlainKeepsRest DEF Thief
<1>11. \A v \in Workers : pc'[v] \in Thief => v # w /\ loc[v].d \in Deques /\ loc[v].d # d
  BY <1>1, <1>2, <1>6, ThiefUnique, ThiefVictim DEF Thief, StealInv
<1>12. ExcInv'
  <2>1. ASSUME NEW x \in Deques, deq'[x].exc = 1
        PROVE  \E v \in Workers : pc'[v] \in Raised /\ loc'[v].d = x
    <3>1. x # d /\ deq[x].exc = 1
      BY <1>5, <2>1
    <3>2. PICK v \in Workers : pc[v] \in Raised /\ loc[v].d = x
      BY <1>1, <3>1 DEF StealInv, ExcInv
    <3> QED
      BY <1>6, <3>1, <3>2
  <2> QED
    BY <1>1, <1>5, <1>6, <1>11, <2>1 DEF ExcInv, StealInv, Raised, Thief
<1>13. FrameInv'
  <2>1. \A x \in Deques : Popping(x) => Popping(x)'
    BY <1>2, <1>6 DEF Popping
  <2>2. ASSUME NEW x \in Deques, deq'[x].frames < 0 PROVE Popping(x)'
    <3>1. Popping(x)
      BY <1>1, <1>3, <1>5, <2>2 DEF StealInv, FrameInv
    <3> QED
      BY <2>1, <3>1
  <2>3. ASSUME NEW v \in Workers, pc'[v] = "detach" PROVE DetachOK(v)'
    <3>1. v # w /\ pc[v] = "detach" /\ loc[v].d \in Deques /\ loc[v].d # d /\ DetachOK(v)
      BY <1>1, <1>6, <1>11, <2>3 DEF Thief, StealInv, FrameInv
    <3> QED
      BY <1>5, <1>6, <2>1, <3>1 DEF DetachOK
  <2>4. ASSUME NEW v \in Workers PROVE EmptyOK(v)'
    <3>1. EmptyOK(v) /\ active[v] \in Deques
      BY <1>1 DEF StealInv, FrameInv, TypeOK
    <3>2. pc[v] = "switch" => loc[v].new \in Deques /\ loc[v].new # d
      BY <1>1, <1>2 DEF PlaceInv, ControlInv, ControlOK, HeldInv, HeldOK
    <3>3. Popping(d) /\ active[v] = d => pc[v] \in {"pop", "check"}
      BY <1>1, ActiveUnique DEF Popping
    <3> QED
      BY <1>2, <1>3, <1>5, <1>6, <3>1, <3>2, <3>3 DEF EmptyOK, Stuck
  <2> QED
    BY <2>2, <2>3, <2>4 DEF FrameInv
<1> QED
  BY <1>7, <1>9, <1>10, <1>12, <1>13 DEF DequeInv, StealInv

-----------------------------------------------------------------------------
(* Steps that move deques.  The invariant is taken apart into what it says *)
(* of one worker and of one deque.                                         *)

WorkerOK(w) == ControlOK(w) /\ ActiveOK(w) /\ HeldOK(w) /\ SuspendOK(w)

(* What worker w may have to do with d, besides Held and Suspending. *)
RunsOn(w, d)   == active[w] = d /\ pc[w] \notin {"suspend", "switch"}
Resuming(w, d) == pc[w] = "resume" /\ loc[w].d = d
Leaving(w, d)  == pc[w] \in {"park", "jump"} /\ loc[w].d = d

Somewhere(d) ==
  d \in waiting \/ Says(deq[d], TRUE) \/ \E w \in Workers : Held(w, d) \/ RunsOn(w, d)

DequeOK(d) ==
  /\ ~deq[d].live => deq[d] = Unused
  /\ Pending(d) => PendingOK(d)
  /\ deq[d].live => Somewhere(d)
  /\ \A w \in Workers : Held(w, d) => deq[d].live /\ d \notin waiting
  /\ \A v, w \in Workers : Held(v, d) /\ Held(w, d) => v = w
  /\ \A v, w \in Workers : Leaving(v, d) /\ Leaving(w, d) => v = w

(* The parts of the invariant ... *)
LEMMA PlaceParts ==
  ASSUME TypeOK, PlaceInv
  PROVE  /\ PoolInv
         /\ \A w \in Workers : WorkerOK(w)
         /\ \A d \in Deques : DequeOK(d)
PROOF
<1>1. \A d \in Deques : deq[d].resumable \in BOOLEAN
  BY DEF TypeOK, Deque
<1>2. ASSUME NEW d \in Deques PROVE DequeOK(d)
  <2>1. deq[d].live => Somewhere(d)
    BY <1>1 DEF PlaceInv, LiveInv, Somewhere, Says, InPool, RunsOn
  <2> QED
    BY <2>1 DEF PlaceInv, DequeOK, ActiveInv, HeldInv, PendingInv, Leaving
<1> QED
  BY <1>2 DEF PlaceInv, WorkerOK, ControlInv, ActiveInv, HeldInv, PendingInv

(* ... make it up. *)
LEMMA PlacePartsNext ==
  ASSUME TypeOK', PoolInv', \A w \in Workers : WorkerOK(w)', \A d \in Deques : DequeOK(d)'
  PROVE  PlaceInv'
PROOF
<1>1. ControlInv' /\ ActiveInv' /\ HeldInv'
  BY DEF WorkerOK, DequeOK, ControlInv, ActiveInv, HeldInv
<1>2. PendingInv'
  <2>1. \A v, w \in Workers : /\ pc'[v] \in {"park", "jump"} /\ pc'[w] \in {"park", "jump"}
                              /\ loc'[v].d = loc'[w].d
                              => v = w
    BY <1>1 DEF ControlInv, ControlOK, DequeOK, Leaving
  <2> QED
    BY <2>1 DEF WorkerOK, DequeOK, PendingInv
<1>3. LiveInv'
  BY DEF DequeOK, LiveInv, Somewhere, Says, InPool, RunsOn
<1> QED
  BY <1>1, <1>2, <1>3 DEF PlaceInv

(* A deque that stays where it is, but for its place in its pool, or that  *)
(* is taken out of a pool of suspended deques.                             *)
Kept(d) ==
  /\ deq'[d].live = deq[d].live /\ deq'[d].resumable = deq[d].resumable
  /\ deq'[d].fiber = deq[d].fiber
  /\ \/ deq'[d] = deq[d]
     \/ InPool(d) /\ InPool(d)' /\ deq'[d].worker = deq[d].worker
     \/ Pooled(d) /\ Out(d)'

(* Nothing that concerns worker v happens. *)
Spared(v) ==
  /\ pc'[v] = pc[v] /\ loc'[v] = loc[v] /\ active'[v] = active[v]
  /\ Kept(active[v])
  /\ pc[v] \in {"owned", "free", "give", "mugged", "park", "jump"} => Kept(loc[v].d)
  /\ pc[v] = "switch" => Kept(loc[v].new)
  /\ pc[v] \in {"suspend", "switch"} => Pending(active[v])'
  /\ pc[v] \in {"park", "jump"} => Pending(loc[v].d)'

(* What it knows stays true. *)
LEMMA SparedKeeps ==
  ASSUME TypeOK, PlaceInv, NEW v \in Workers, Spared(v)
  PROVE  WorkerOK(v)'
PROOF
<1>1. WorkerOK(v) /\ active[v] \in Deques
  BY PlaceParts DEF TypeOK
<1>2. ControlOK(v)'
  BY <1>1 DEF WorkerOK, ControlOK, Spared
<1>3. ActiveOK(v)'
  <2>1. deq'[active[v]] = deq[active[v]]
    BY <1>1 DEF WorkerOK, ActiveOK, Spared, Kept, InPool, Pooled, ACTIVE_DEQUE_INDEX
  <2> QED
    BY <1>1, <2>1 DEF WorkerOK, ActiveOK, Spared
<1>4. HeldOK(v)'
  <2>1. HeldOK(v) /\ ControlOK(v)
    BY <1>1 DEF WorkerOK
  <2>2. pc[v] = "owned" => HeldOK(v)'
    BY <2>1 DEF HeldOK, Spared, Kept, Out, InPool, Pooled
  <2>3. pc[v] \in {"free", "give", "mugged"} => HeldOK(v)'
    BY <2>1 DEF HeldOK, Spared, Kept, Out, InPool, Pooled, INVALID_DEQUE_INDEX
  <2>4. pc[v] = "switch" => HeldOK(v)'
    BY <2>1 DEF HeldOK, Spared, Kept, InPool, Pooled
  <2>5. pc[v] \notin {"owned", "free", "give", "mugged", "switch"} => HeldOK(v)'
    BY DEF HeldOK, Spared
  <2> QED
    BY <2>2, <2>3, <2>4, <2>5
<1>5. SuspendOK(v)'
  <2>1. SuspendOK(v) /\ ControlOK(v)
    BY <1>1 DEF WorkerOK
  <2>2. pc[v] \in {"suspend", "switch"} => SuspendOK(v)'
    <3>1. pc[v] \in {"suspend", "switch"} => Pending(active[v])' /\ pc'[v] = pc[v] /\ active'[v] = active[v]
      BY DEF Spared
    <3> QED
      BY <3>1 DEF SuspendOK
  <2>3. pc[v] \in {"park", "jump"} => SuspendOK(v)'
    <3>1. pc[v] \in {"park", "jump"} => Pending(loc[v].d)' /\ pc'[v] = pc[v] /\ loc'[v] = loc[v]
      BY DEF Spared
    <3> QED
      BY <2>1, <3>1 DEF SuspendOK, Spared, Kept, Out, InPool, Pooled, ACTIVE_DEQUE_INDEX
  <2>4. pc[v] \notin {"suspend", "switch", "park", "jump"} => SuspendOK(v)'
    BY DEF SuspendOK, Spared
  <2> QED
    BY <2>2, <2>3, <2>4
<1> QED
  BY <1>2, <1>3, <1>4, <1>5 DEF WorkerOK

(* A step of w that does nothing to d. *)
Unmoved(w, d) ==
  /\ Kept(d)
  /\ (d \in waiting') <=> (d \in waiting)
  /\ Held(w, d)' <=> Held(w, d)
  /\ Suspending(w, d)' <=> Suspending(w, d)
  /\ RunsOn(w, d)' <=> RunsOn(w, d)
  /\ Resuming(w, d)' <=> Resuming(w, d)
  /\ Leaving(w, d)' <=> Leaving(w, d)

(* The other workers stay where they are. *)
Alone(w) ==
  \A v \in Workers : v # w => pc'[v] = pc[v] /\ loc'[v] = loc[v] /\ active'[v] = active[v]

(* What is true of d stays true. *)
LEMMA UnmovedKeeps ==
  ASSUME TypeOK, PlaceInv, NEW w \in Workers, Alone(w), NEW d \in Deques, Unmoved(w, d)
  PROVE  DequeOK(d)' /\ (Pending(d)' <=> Pending(d))
PROOF
<1>1. DequeOK(d)
  BY PlaceParts
<1>2. \A v \in Workers : /\ Held(v, d)' <=> Held(v, d)
                         /\ Suspending(v, d)' <=> Suspending(v, d)
                         /\ RunsOn(v, d)' <=> RunsOn(v, d)
                         /\ Resuming(v, d)' <=> Resuming(v, d)
                         /\ Leaving(v, d)' <=> Leaving(v, d)
  BY DEF Alone, Unmoved, Held, Suspending, RunsOn, Resuming, Leaving
<1>3. Pending(d)' <=> Pending(d)
  BY <1>2 DEF Pending, Resuming, Unmoved
<1>4. ~deq'[d].live => deq'[d] = Unused
  <2>1. ~deq[d].live => deq[d].worker = NULL
    BY <1>1 DEF DequeOK, Unused
  <2> QED
    BY <1>1, <2>1 DEF DequeOK, Unmoved, Kept, InPool, Pooled
<1>5. Pending(d)' => PendingOK(d)'
  <2>1. SUFFICES ASSUME Pending(d) PROVE PendingOK(d)'
    BY <1>3
  <2>2. PendingOK(d)
    BY <1>1, <2>1 DEF DequeOK
  <2>3. Out(d) \/ Pooled(d) => Out(d)' \/ Pooled(d)'
    BY DEF Unmoved, Kept, Out, Pooled, InPool
  <2>4. \A v \in Workers : active'[v] = d => pc'[v] \in {"suspend", "switch"}
    BY <1>2, <2>2 DEF PendingOK, RunsOn
  <2> QED
    BY <1>2, <2>2, <2>3, <2>4 DEF PendingOK, Unmoved, Kept
<1>6. deq'[d].live => Somewhere(d)'
  <2>1. Says(deq[d], TRUE) => Says(deq'[d], TRUE)
    BY DEF Unmoved, Kept, Says, InPool, Pooled
  <2> QED
    BY <1>1, <1>2, <2>1 DEF DequeOK, Somewhere, Unmoved, Kept, Says
<1> QED
  BY <1>1, <1>2, <1>3, <1>4, <1>5, <1>6 DEF DequeOK, Unmoved, Kept

(* No thief is at work on d. *)
Safe(d) == \A v \in Workers : pc[v] \in Thief => loc[v].d # d

(* Deques that a thief cannot be at work on: those in no pool, those whose *)
(* owner is not locked, and those that are neither active nor pooled.      *)
LEMMA SafeDeque ==
  ASSUME TypeOK, PlaceInv, StealInv, NEW d \in Deques,
         \/ deq[d].worker = NULL
         \/ \E v \in Workers : deq[d].worker = v /\ ~Locked(v)
         \/ \A v \in Workers : active[v] # d /\ ~Pooled(d)
  PROVE  Safe(d)
PROOF
<1>1. CASE deq[d].worker = NULL
  BY <1>1, ThiefVictim, Constants DEF Safe, StealInv
<1>2. CASE \E v \in Workers : deq[d].worker = v /\ ~Locked(v)
  BY <1>2, NoThief DEF Safe
<1>3. CASE \A v \in Workers : active[v] # d /\ ~Pooled(d)
  BY <1>3, ThiefVictim DEF Safe, StealInv, ThiefInv, ThiefOK
<1> QED
  BY <1>1, <1>2, <1>3

(* A step of a worker that is no thief keeps the rest of the invariant, as *)
(* long as it does not touch what thieves are at work on and leaves no     *)
(* work behind.                                                            *)
LEMMA StealKeeps ==
  ASSUME TypeOK, PlaceInv, StealInv, NEW w \in Workers, Alone(w),
         pc[w] \notin Thief /\ pc[w] \notin {"pop", "check"},
         pc'[w] \notin Thief /\ pc'[w] \notin {"pop", "check"},
         active'[w] = active[w] \/ ~Locked(w),
         \A x \in Deques : \/ deq'[x].worker = deq[x].worker /\ (Pooled(x) => Pooled(x)')
                           \/ Safe(x),
         \A x \in Deques : deq'[x].exc = deq[x].exc,
         \A x \in Deques : \/ deq'[x].frames = deq[x].frames
                           \/ x = active[w] /\ ~Locked(w) /\ deq'[x].frames \in Nat,
         EmptyOK(w)',
         \A x \in Deques : deq'[x].frames > 0 => Found(x)'
  PROVE  StealInv'
PROOF
<1>1. \A v \in Workers : pc'[v] \in Thief =>
        /\ pc[v] \in Thief /\ pc'[v] = pc[v] /\ loc'[v] = loc[v]
        /\ loc[v].d \in Deques /\ loc[v].victim \in Workers /\ ~Safe(loc[v].d)
  BY ThiefVictim DEF Alone, StealInv, Safe
<1>2. ThiefInv'
  <2>1. ASSUME NEW v \in Workers, pc'[v] \in Thief PROVE ThiefOK(v)'
    <3>1. ThiefOK(v)
      BY <1>1, <2>1 DEF StealInv, ThiefInv
    <3>2. active'[loc[v].victim] = active[loc[v].victim]
      BY <1>1, <2>1 DEF Alone, Locked, Thief
    <3>3. /\ deq'[loc[v].d].worker = deq[loc[v].d].worker
          /\ Pooled(loc[v].d) => Pooled(loc[v].d)'
      <4>1. PICK x \in Deques : x = loc[v].d
        BY <1>1, <2>1
      <4>2. deq'[x].worker = deq[x].worker /\ (Pooled(x) => Pooled(x)')
        BY <1>1, <2>1, <4>1
      <4>3. loc'[v] = loc[v]
        BY <1>1, <2>1
      <4> QED
        BY <4>1, <4>2, <4>3 DEF Pooled, InPool
    <3> QED
      BY <1>1, <2>1, <3>1, <3>2, <3>3 DEF ThiefOK
  <2> QED
    BY <1>1, <2>1 DEF StealInv, ThiefInv
<1>3. ExcInv'
  <2>1. ASSUME NEW x \in Deques, deq'[x].exc = 1
        PROVE  \E v \in Workers : pc'[v] \in Raised /\ loc'[v].d = x
    <3>1. PICK v \in Workers : pc[v] \in Raised /\ loc[v].d = x
      BY <2>1 DEF StealInv, ExcInv
    <3>2. v # w
      BY <3>1 DEF Raised, Thief
    <3> QED
      BY <3>1, <3>2 DEF Alone
  <2>2. ASSUME NEW v \in Workers, pc'[v] \in Raised PROVE deq'[loc'[v].d].exc = 1
    BY <1>1, <2>2 DEF StealInv, ExcInv, Raised, Thief
  <2> QED
    BY <2>1, <2>2 DEF ExcInv
<1>4. FrameInv'
  <2>1. \A x \in Deques : Popping(x) => Popping(x)'
    BY DEF Popping, Alone
  <2>2. ASSUME NEW x \in Deques, deq'[x].frames < 0 PROVE Popping(x)'
    <3>1. deq[x].frames < 0
      BY <2>2
    <3> QED
      BY <2>1, <3>1 DEF StealInv, FrameInv
  <2>3. ASSUME NEW v \in Workers, pc'[v] = "detach" PROVE DetachOK(v)'
    <3>1. v # w /\ pc[v] = "detach" /\ loc'[v] = loc[v] /\ loc[v].d \in Deques /\ ~Safe(loc[v].d)
      BY <1>1, <2>3 DEF Thief
    <3>2. DetachOK(v)
      BY <3>1 DEF StealInv, FrameInv
    <3>3. deq'[loc[v].d].frames = deq[loc[v].d].frames
      <4>1. loc[v].d = active[w] => Locked(w)
        BY <3>1, ThiefVictim DEF Thief, Locked, StealInv, PlaceInv, ActiveInv, ActiveOK
      <4> QED
        BY <3>1, <4>1
    <3> QED
      BY <2>1, <3>1, <3>2, <3>3 DEF DetachOK
  <2>4. ASSUME NEW v \in Workers PROVE EmptyOK(v)'
    <3>1. CASE v = w
      BY <3>1
    <3>2. CASE v # w
      <4>1. EmptyOK(v) /\ active[v] \in Deques /\ active[v] # active[w]
        BY <3>2, ActiveUnique DEF StealInv, FrameInv, TypeOK
      <4>2. pc[v] = "switch" => loc[v].new \in Deques /\ loc[v].new # active[w]
        BY Constants DEF PlaceInv, ControlInv, ControlOK, HeldInv, HeldOK, ActiveInv, ActiveOK
      <4> QED
        BY <3>2, <4>1, <4>2 DEF EmptyOK, Alone
    <3> QED
      BY <3>1, <3>2
  <2> QED
    BY <2>2, <2>3, <2>4 DEF FrameInv
<1>5. WorkInv'
  BY DEF WorkInv
<1> QED
  BY <1>2, <1>3, <1>4, <1>5 DEF StealInv

(* What a worker holds or leaves is not in use and not in a pool of        *)
(* resumable deques.                                                       *)
LEMMA Apart ==
  ASSUME TypeOK, PlaceInv, NEW w \in Workers, NEW d \in Deques
  PROVE  /\ Held(w, d) => \A v \in Workers : active[v] = d =>
              pc[w] = "resume" /\ pc[v] \in {"suspend", "switch"}
         /\ Held(w, d) /\ Pending(d) => pc[w] = "resume"
         /\ Leaving(w, d) => /\ Pending(d) /\ deq[d].fiber = "running"
                             /\ \A v \in Workers : active[v] # d
         /\ Says(deq[d], TRUE) => /\ ~Held(w, d) /\ active[w] # d
                                  /\ ~Pending(d) /\ ~Leaving(w, d)
         /\ ~deq[d].live => /\ ~Held(w, d) /\ active[w] # d
                            /\ ~Pending(d) /\ ~Leaving(w, d)
PROOF
<1>1. /\ DequeOK(d) /\ WorkerOK(w) /\ deq[d] \in Deque
      /\ \A v \in Workers : ActiveOK(v)
  BY PlaceParts DEF TypeOK, WorkerOK
<1>2. \A v \in Workers : active[v] = d =>
        deq[d].live /\ deq[d].worker = v /\ deq[d].self = -1 /\ ~deq[d].resumable
  BY <1>1 DEF ActiveOK, ACTIVE_DEQUE_INDEX
<1>3. Held(w, d) /\ pc[w] # "resume" =>
        \/ deq[d].worker = NULL
        \/ deq[d].self = -2
        \/ deq[d].self >= 0 /\ ~deq[d].resumable
  BY <1>1 DEF WorkerOK, HeldOK, Held, Out, Pooled, InPool, INVALID_DEQUE_INDEX
<1>4. Pending(d) => /\ deq[d].live /\ ~deq[d].resumable
                    /\ \A v \in Workers : active[v] = d => pc[v] \in {"suspend", "switch"}
  BY <1>1 DEF DequeOK, PendingOK
<1>5. Held(w, d) /\ pc[w] = "resume" => Pending(d)
  BY DEF Held, Pending
<1>6. Held(w, d) => \A v \in Workers : active[v] = d =>
        pc[w] = "resume" /\ pc[v] \in {"suspend", "switch"}
  BY <1>2, <1>3, <1>4, <1>5, Constants
<1>7. Held(w, d) /\ Pending(d) => pc[w] = "resume"
  BY <1>1 DEF DequeOK, Held, Pending
<1>8. Leaving(w, d) => /\ Pending(d) /\ deq[d].fiber = "running"
                       /\ \A v \in Workers : active[v] # d
  <2>1. Leaving(w, d) => Pending(d) /\ deq[d].fiber = "running"
    BY <1>1 DEF Leaving, WorkerOK, SuspendOK
  <2>2. ASSUME NEW v \in Workers, active[v] = d, pc[v] \in {"suspend", "switch"}
        PROVE  deq[d].fiber = "none"
    BY <1>1, <2>2 DEF ActiveOK
  <2> QED
    BY <1>4, <2>1, <2>2
<1>9. Says(deq[d], TRUE) => ~Held(w, d) /\ active[w] # d /\ ~Pending(d)
  <2>1. Held(w, d) /\ pc[w] # "resume" => ~Says(deq[d], TRUE)
    BY <1>3 DEF Says
  <2> QED
    BY <1>2, <1>4, <1>5, <2>1 DEF Says
<1>10. ~deq[d].live => ~Held(w, d) /\ active[w] # d /\ ~Pending(d)
  BY <1>1, <1>2, <1>4 DEF DequeOK
<1> QED
  BY <1>6, <1>7, <1>8, <1>9, <1>10

(* A get: the active deque of w waits. *)
LEMMA GetKeeps ==
  ASSUME DequeInv, NEW w \in Workers, Get(w)
  PROVE  DequeInv'
PROOF
<1> DEFINE a == active[w]
<1>1. TypeOK /\ PlaceInv /\ StealInv /\ a \in Deques /\ WorkerOK(w) /\ DequeOK(a) /\ PoolInv
  BY PlaceParts DEF DequeInv, TypeOK
<1>2. /\ pc[w] = "run" /\ pc' = [pc EXCEPT ![w] = "suspend"] /\ pc'[w] = "suspend"
      /\ waiting' = waiting \cup {a}
      /\ \A v \in Workers : v # w => pc'[v] = pc[v]
      /\ UNCHANGED <<deq, active, suspended_deques, resumable_deques, loc>>
  BY <1>1 DEF Get, TypeOK
<1>3. TypeOK'
  <2>1. left' \in [push : Nat, suspend : Nat]
    <3>1. /\ left \in [push : Nat, suspend : Nat] /\ left.suspend > 0
          /\ left' = [left EXCEPT !.suspend = left.suspend - 1]
      BY <1>1 DEF TypeOK, Get
    <3>2. left.suspend - 1 \in Nat
      BY <3>1
    <3> QED
      BY <3>1, <3>2
  <2> QED
    BY <1>1, <1>2, <2>1 DEF TypeOK
<1>4. Alone(w)
  BY <1>2 DEF Alone
<1>5. \A x \in Deques : x # a => Unmoved(w, x)
  BY <1>2 DEF Unmoved, Kept, Held, Suspending, RunsOn, Resuming, Leaving
<1>6. \A x \in Deques : (Pending(x) => Pending(x)') /\ Kept(x)
  BY <1>2 DEF Pending, Kept
<1>7. \A v \in Workers : v # w => Spared(v)
  <2>1. ASSUME NEW v \in Workers, v # w PROVE Spared(v)
    <3>1. WorkerOK(v) /\ active[v] \in Deques /\ (pc[v] \in {"park", "jump"} => loc[v].d \in Deques)
      BY <1>1, PlaceParts DEF TypeOK, WorkerOK, ControlOK
    <3>2. pc[v] \in {"suspend", "switch"} => Pending(active[v])'
      BY <1>2, <3>1 DEF WorkerOK, SuspendOK, Pending
    <3>3. pc[v] \in {"park", "jump"} => Pending(loc[v].d)'
      BY <1>2, <3>1 DEF WorkerOK, SuspendOK, Pending
    <3> QED
      BY <1>2, <2>1, <3>2, <3>3 DEF Spared, Kept
  <2> QED
    BY <2>1
<1>8. WorkerOK(w)'
  <2>1. Pending(a)'
    BY <1>2 DEF Pending
  <2>2. ControlOK(w)' /\ ActiveOK(w)' /\ HeldOK(w)'
    BY <1>1, <1>2 DEF WorkerOK, ControlOK, ActiveOK, HeldOK, Thief
  <2> QED
    BY <1>2, <2>1, <2>2 DEF WorkerOK, SuspendOK
<1>9. DequeOK(a)'
  <2>1. \A v \in Workers : active[v] = a => v = w
    BY <1>1, ActiveUnique
  <2>2. \A v \in Workers : ~Held(v, a)
    BY <1>1, <1>2, Apart
  <2>3. \A v \in Workers : ~Held(v, a)'
    BY <1>2, <2>2 DEF Held
  <2>4. \A v \in Workers : ~Leaving(v, a)
    BY <1>1, Apart
  <2>5. \A v \in Workers : ~Leaving(v, a)'
    BY <1>2, <2>4 DEF Leaving
  <2>6. Suspending(w, a)'
    BY <1>2 DEF Suspending
  <2>7. deq[a].live /\ ~deq[a].resumable /\ deq[a].fiber = "none"
    BY <1>1, <1>2 DEF WorkerOK, ActiveOK
  <2>8. PendingOK(a)'
    BY <1>2, <2>1, <2>6, <2>7 DEF PendingOK
  <2> QED
    BY <1>2, <2>3, <2>5, <2>7, <2>8 DEF DequeOK, Somewhere
<1>10. PoolInv'
  BY <1>1, <1>2 DEF PoolInv, Says, Indexed
<1>11. PlaceInv'
  <2>1. \A v \in Workers : WorkerOK(v)'
    BY <1>1, <1>7, <1>8, SparedKeeps
  <2>2. \A x \in Deques : DequeOK(x)'
    BY <1>1, <1>2, <1>4, <1>5, <1>9, UnmovedKeeps
  <2> QED
    BY <1>3, <1>10, <2>1, <2>2, PlacePartsNext
<1>12. StealInv'
  <2>1. EmptyOK(w)'
    BY <1>2 DEF EmptyOK, Stuck
  <2>2. \A x \in Deques : deq'[x].frames > 0 => Found(x)'
    BY <1>1, <1>2 DEF StealInv, WorkInv, Found, InPool
  <2>3. \A x \in Deques : Pooled(x) => Pooled(x)'
    BY <1>2 DEF Pooled, InPool
  <2> QED
    BY <1>1, <1>2, <1>4, <2>1, <2>2, <2>3, StealKeeps DEF Thief
<1> QED
  BY <1>3, <1>11, <1>12 DEF DequeInv

(* The last deque of a pool of resumable deques, ... *)
LEMMA LastKnown ==
  ASSUME TypeOK, PoolInv, NEW v \in Workers, resumable_deques[v] # <<>>
  PROVE  LET d == Last(resumable_deques[v])
         IN  /\ d \in Deques /\ Says(deq[d], TRUE) /\ deq[d].worker = v
             /\ deq[d].self = Len(resumable_deques[v]) - 1 /\ deq[d].fiber = "ready"
             /\ deq[d].resumable
PROOF
<1> DEFINE pool == resumable_deques[v]
           d == Last(pool)
<1>1. pool \in Seq(Deques) /\ Len(pool) \in 1..Len(pool) /\ d = pool[Len(pool)]
  BY DEF TypeOK, Last
<1>2. d \in Deques
  BY <1>1
<1>3. deq[d].worker = v /\ deq[d].self = Len(pool) - 1 /\ deq[d].resumable = TRUE
  BY <1>1 DEF PoolInv, Indexed
<1>4. Says(deq[d], TRUE)
  BY <1>1, <1>3, Constants DEF Says
<1> QED
  BY <1>2, <1>3, <1>4 DEF PoolInv

(* ... and what is left when it is taken. *)
LEMMA TakeLast ==
  ASSUME TypeOK, PoolInv, NEW v \in Workers, NEW d \in Deques,
         resumable_deques[v] # <<>>, d = Last(resumable_deques[v]),
         deq'[d].worker = NULL, \A x \in Deques : x # d => deq'[x] = deq[x],
         resumable_deques' = Shrunk(resumable_deques, v, deq[d].self + 1),
         suspended_deques' = suspended_deques
  PROVE  PoolInv' /\ resumable_deques' \in [Workers -> Seq(Deques)]
PROOF
<1>1. /\ deq \in [Deques -> Deque] /\ resumable_deques \in [Workers -> Seq(Deques)]
      /\ suspended_deques \in [Workers -> Seq(Deques)]
  BY DEF TypeOK
<1>2. Says(deq[d], TRUE) /\ deq[d].worker = v /\ deq[d].resumable
  BY LastKnown
<1>3. ~Says(deq'[d], TRUE) /\ ~Says(deq'[d], FALSE) /\ ~Says(deq[d], FALSE)
  BY <1>2 DEF Says
<1>4. resumable_deques' \in [Workers -> Seq(Deques)] /\ Indexed(deq', resumable_deques', TRUE)
  <2>1. \A x \in Deques : x # d =>
          /\ deq'[x].worker = deq[x].worker /\ deq'[x].resumable = deq[x].resumable
          /\ deq'[x].self = IF x = Last(resumable_deques[v]) THEN deq[d].self ELSE deq[x].self
    OBVIOUS
  <2>2. Indexed(deq, resumable_deques, TRUE)
    BY DEF PoolInv
  <2>3. /\ Shrunk(resumable_deques, v, deq[d].self + 1) \in [Workers -> Seq(Deques)]
        /\ Indexed(deq', Shrunk(resumable_deques, v, deq[d].self + 1), TRUE)
    BY <1>1, <1>2, <1>3, <2>1, <2>2, RemoveIndexed
  <2> QED
    BY <2>3
<1>5. Indexed(deq', suspended_deques, FALSE)
  BY <1>1, <1>3, SameIndexed DEF PoolInv
<1>6. \A x \in Deques : Says(deq'[x], TRUE) => deq'[x].fiber = "ready"
  BY <1>3 DEF PoolInv
<1> QED
  BY <1>4, <1>5, <1>6 DEF PoolInv

(* A step that has nothing to do with deques in pools. *)
LEMMA PoolsUntouched ==
  ASSUME TypeOK, PoolInv,
         \A x \in Deques : \/ /\ deq'[x].worker = deq[x].worker /\ deq'[x].self = deq[x].self
                              /\ deq'[x].resumable = deq[x].resumable
                              /\ deq'[x].fiber = deq[x].fiber \/ ~Says(deq[x], TRUE)
                           \/ /\ ~Says(deq[x], TRUE) /\ ~Says(deq[x], FALSE)
                              /\ ~Says(deq'[x], TRUE) /\ ~Says(deq'[x], FALSE),
         suspended_deques' = suspended_deques, resumable_deques' = resumable_deques
  PROVE  PoolInv'
PROOF
<1>1. /\ suspended_deques \in [Workers -> Seq(Deques)] /\ resumable_deques \in [Workers -> Seq(Deques)]
      /\ Indexed(deq, suspended_deques, FALSE) /\ Indexed(deq, resumable_deques, TRUE)
  BY DEF TypeOK, PoolInv
<1>2. Indexed(deq', suspended_deques, FALSE)
  <2>1. \A x \in Deques : \/ /\ deq'[x].worker = deq[x].worker /\ deq'[x].self = deq[x].self
                             /\ deq'[x].resumable = deq[x].resumable
                          \/ ~Says(deq[x], FALSE) /\ ~Says(deq'[x], FALSE)
    OBVIOUS
  <2> QED
    BY <1>1, <2>1, SameIndexed
<1>3. Indexed(deq', resumable_deques, TRUE)
  <2>1. \A x \in Deques : \/ /\ deq'[x].worker = deq[x].worker /\ deq'[x].self = deq[x].self
                             /\ deq'[x].resumable = deq[x].resumable
                          \/ ~Says(deq[x], TRUE) /\ ~Says(deq'[x], TRUE)
    OBVIOUS
  <2> QED
    BY <1>1, <2>1, SameIndexed
<1>4. \A x \in Deques : Says(deq'[x], TRUE) => deq'[x].fiber = "ready"
  BY DEF PoolInv, Says
<1> QED
  BY <1>2, <1>3, <1>4 DEF PoolInv

(* Whoever is not concerned by the step of w. *)
LEMMA OthersKeep ==
  ASSUME TypeOK, PlaceInv, NEW w \in Workers, Alone(w), NEW v \in Workers, v # w,
         \A x \in Deques : \/ Kept(x)
                           \/ active[v] # x /\ (Held(v, x) => pc[v] = "resume") /\ ~Leaving(v, x),
         \A x \in Deques : \/ Pending(x) => Pending(x)'
                           \/ active[v] # x /\ ~Leaving(v, x)
  PROVE  WorkerOK(v)'
PROOF
<1>1. WorkerOK(v) /\ active[v] \in Deques
  BY PlaceParts DEF TypeOK
<1>2. pc'[v] = pc[v] /\ loc'[v] = loc[v] /\ active'[v] = active[v]
  BY DEF Alone
<1>3. Kept(active[v])
  <2>1. PICK x \in Deques : x = active[v]
    BY <1>1
  <2>2. Kept(x)
    BY <2>1
  <2> QED
    BY <1>2, <2>1, <2>2 DEF Kept, InPool, Out
<1>4. pc[v] \in {"owned", "free", "give", "mugged", "park", "jump"} => Kept(loc[v].d)
  <2>1. SUFFICES ASSUME pc[v] \in {"owned", "free", "give", "mugged", "park", "jump"}
                 PROVE  Kept(loc[v].d)
    OBVIOUS
  <2>2. PICK x \in Deques : x = loc[v].d
    BY <1>1, <2>1 DEF WorkerOK, ControlOK
  <2>3. Kept(x)
    BY <2>1, <2>2 DEF Held, Leaving
  <2> QED
    BY <1>2, <2>2, <2>3 DEF Kept, InPool, Out
<1>5. pc[v] = "switch" => Kept(loc[v].new)
  <2>1. SUFFICES ASSUME pc[v] = "switch" PROVE Kept(loc[v].new)
    OBVIOUS
  <2>2. PICK x \in Deques : x = loc[v].new
    BY <1>1, <2>1 DEF WorkerOK, ControlOK
  <2>3. Kept(x)
    BY <2>1, <2>2 DEF Held
  <2> QED
    BY <1>2, <2>2, <2>3 DEF Kept, InPool, Out
<1>6. pc[v] \in {"suspend", "switch"} => Pending(active[v])'
  <2>1. SUFFICES ASSUME pc[v] \in {"suspend", "switch"} PROVE Pending(active[v])'
    OBVIOUS
  <2>2. PICK x \in Deques : x = active[v] /\ Pending(x)
    BY <1>1, <2>1 DEF WorkerOK, SuspendOK
  <2>3. Pending(x)'
    BY <2>2
  <2> QED
    BY <1>2, <2>2, <2>3
<1>7. pc[v] \in {"park", "jump"} => Pending(loc[v].d)'
  <2>1. SUFFICES ASSUME pc[v] \in {"park", "jump"} PROVE Pending(loc[v].d)'
    OBVIOUS
  <2>2. PICK x \in Deques : x = loc[v].d /\ Pending(x)
    BY <1>1, <2>1 DEF WorkerOK, SuspendOK, ControlOK
  <2>3. Pending(x)'
    BY <2>1, <2>2 DEF Leaving
  <2> QED
    BY <1>2, <2>2, <2>3
<1> QED
  BY <1>2, <1>3, <1>4, <1>5, <1>6, <1>7, SparedKeeps DEF Spared

(* A suspending worker takes a resumable deque of its own. *)
LEMMA MugOwnKeeps ==
  ASSUME DequeInv, NEW w \in Workers, MugOwn(w)
  PROVE  DequeInv'
PROOF
<1>1. TypeOK /\ PlaceInv /\ StealInv /\ WorkerOK(w) /\ PoolInv /\ resumable_deques[w] # <<>>
      /\ pc[w] = "suspend" /\ ~Locked(w)
  BY PlaceParts DEF DequeInv, MugOwn
<1>2. PICK new \in Deques : /\ new = Last(resumable_deques[w]) /\ deq[new].worker = w
                            /\ Says(deq[new], TRUE) /\ deq[new].fiber = "ready"
                            /\ deq[new].resumable
  BY <1>1, LastKnown
<1>3. PICK a \in Deques : a = active[w] /\ a # new
  BY <1>1, <1>2, Apart DEF TypeOK
<1>4. deq \in [Deques -> Deque] /\ deq[new] \in Deque /\ DequeOK(new)
  BY <1>1, PlaceParts DEF TypeOK
<1>5. /\ deq' = [[deq EXCEPT ![new].self = deq[new].self, ![new].self = INVALID_DEQUE_INDEX,
                             ![new].worker = NULL] EXCEPT ![new].resumable = FALSE]
      /\ resumable_deques' = Shrunk(resumable_deques, w, deq[new].self + 1)
      /\ loc' = [loc EXCEPT ![w] = [NoLocal EXCEPT !.d = a, !.new = new, !.work = TRUE]]
      /\ pc' = [pc EXCEPT ![w] = "switch"]
      /\ UNCHANGED <<active, suspended_deques, waiting, left>>
  BY <1>2, <1>3 DEF MugOwn, Removed, deque_pool_remove, Shrunk
<1>6. /\ deq'[new] = [deq[new] EXCEPT !.self = INVALID_DEQUE_INDEX, !.worker = NULL,
                                      !.resumable = FALSE]
      /\ \A x \in Deques : x # new => deq'[x] = deq[x]
      /\ DOMAIN deq' = Deques
  BY <1>4, <1>5
<1>7. /\ deq'[new].live = deq[new].live /\ deq'[new].worker = NULL /\ ~deq'[new].resumable
      /\ deq'[new].self = INVALID_DEQUE_INDEX /\ deq'[new].fiber = "ready"
      /\ deq'[new].frames = deq[new].frames /\ deq'[new].exc = deq[new].exc
      /\ deq'[new] \in Deque
  <2>1. deq'[new] = [live |-> deq[new].live, worker |-> NULL, self |-> INVALID_DEQUE_INDEX,
                     resumable |-> FALSE, fiber |-> deq[new].fiber,
                     frames |-> deq[new].frames, exc |-> deq[new].exc]
    BY <1>4, <1>6 DEF Deque
  <2>2. deq'[new] \in Deque
    BY <1>4, <2>1 DEF Deque, INVALID_DEQUE_INDEX
  <2> QED
    BY <1>2, <2>1, <2>2
<1>8. deq' \in [Deques -> Deque]
  BY <1>4, <1>5, <1>6, <1>7
<1>9. /\ pc'[w] = "switch" /\ loc'[w].d = a /\ loc'[w].new = new /\ loc'[w].work = TRUE
      /\ loc'[w] \in Local /\ loc' \in [Workers -> Local]
      /\ \A v \in Workers : v # w => pc'[v] = pc[v] /\ loc'[v] = loc[v]
  <2>1. loc \in [Workers -> Local] /\ pc'[w] = "switch"
    BY <1>1, <1>5 DEF TypeOK
  <2>2. loc'[w] = [NoLocal EXCEPT !.d = a, !.new = new, !.work = TRUE]
    BY <1>5, <2>1
  <2>3. loc'[w] \in Local /\ loc'[w].d = a /\ loc'[w].new = new /\ loc'[w].work = TRUE
    BY <2>2 DEF NoLocal, Local
  <2> QED
    BY <1>1, <1>5, <2>1, <2>3 DEF TypeOK
<1>10. PoolInv' /\ resumable_deques' \in [Workers -> Seq(Deques)]
  <2>1. /\ deq'[new].worker = NULL /\ \A x \in Deques : x # new => deq'[x] = deq[x]
        /\ resumable_deques' = Shrunk(resumable_deques, w, deq[new].self + 1)
        /\ suspended_deques' = suspended_deques
    BY <1>5, <1>6, <1>7
  <2> QED
    BY ONLY <1>1, <1>2, <2>1, TakeLast, w \in Workers, new \in Deques
<1>11. TypeOK'
  BY <1>1, <1>5, <1>8, <1>9, <1>10 DEF TypeOK
<1>12. Alone(w)
  BY <1>5, <1>9 DEF Alone
<1>13. \A x \in Deques : x # new => Unmoved(w, x)
  BY <1>1, <1>3, <1>5, <1>6, <1>9 DEF Unmoved, Kept, Held, Suspending, RunsOn, Resuming, Leaving
<1>14. \A x \in Deques : x # new => DequeOK(x)' /\ (Pending(x)' <=> Pending(x))
  BY <1>1, <1>12, <1>13, UnmovedKeeps
<1>15. \A v \in Workers : ~Held(v, new) /\ active[v] # new /\ ~Pending(new) /\ ~Leaving(v, new)
  BY <1>1, <1>2, Apart
<1>16. ASSUME NEW v \in Workers, v # w PROVE WorkerOK(v)'
  <2>1. \A x \in Deques : x # new => Kept(x)
    BY <1>6 DEF Kept
  <2> QED
    BY <1>1, <1>12, <1>14, <1>15, <1>16, <2>1, OthersKeep
<1>17. WorkerOK(w)'
  <2>1. Pending(a)'
    BY <1>1, <1>3, <1>14 DEF WorkerOK, SuspendOK
  <2>2. ControlOK(w)'
    BY <1>3, <1>5, <1>9 DEF ControlOK, Thief
  <2>3. ActiveOK(w)'
    BY <1>1, <1>3, <1>5, <1>6, <1>9 DEF ActiveOK, WorkerOK
  <2>4. HeldOK(w)'
    BY <1>7, <1>9 DEF HeldOK
  <2> QED
    BY <1>3, <1>5, <1>9, <2>1, <2>2, <2>3, <2>4 DEF WorkerOK, SuspendOK
<1>18. DequeOK(new)'
  <2>1. \A v \in Workers : Held(v, new)' => v = w
    BY <1>9, <1>15 DEF Held
  <2>2. \A v \in Workers : ~Leaving(v, new)'
    BY <1>9, <1>15 DEF Leaving
  <2>3. ~Pending(new)' /\ new \notin waiting'
    BY <1>5, <1>9, <1>15 DEF Pending
  <2>4. Held(w, new)' /\ deq'[new].live
    <3>1. deq[new].live
      BY <1>2, <1>4, Constants DEF DequeOK, Unused
    <3> QED
      BY <1>7, <1>9, <3>1 DEF Held
  <2> QED
    BY <2>1, <2>2, <2>3, <2>4 DEF DequeOK, Somewhere
<1>19. PlaceInv'
  <2>1. \A v \in Workers : WorkerOK(v)'
    BY <1>16, <1>17
  <2> QED
    BY <1>10, <1>11, <1>14, <1>18, <2>1, PlacePartsNext
<1>20. StealInv'
  <2>1. EmptyOK(w)'
    BY <1>9 DEF EmptyOK, Stuck
  <2>2. ASSUME NEW x \in Deques, deq'[x].frames > 0 PROVE Found(x)'
    <3>1. CASE x = new
      BY <1>9, <3>1 DEF Found
    <3>2. CASE x # new
      <4>1. Found(x)
        BY <1>1, <1>6, <2>2, <3>2 DEF StealInv, WorkInv
      <4> QED
        BY <1>1, <1>5, <1>6, <1>9, <3>2, <4>1 DEF Found, InPool
    <3> QED
      BY <3>1, <3>2
  <2>3. Safe(new)
    BY <1>1, <1>2, SafeDeque
  <2>4. \A x \in Deques : x # new => deq'[x].worker = deq[x].worker /\ (Pooled(x) => Pooled(x)')
    BY <1>6 DEF Pooled, InPool
  <2>5. \A x \in Deques : deq'[x].exc = deq[x].exc /\ deq'[x].frames = deq[x].frames
    BY <1>6, <1>7
  <2> QED
    BY <1>1, <1>5, <1>9, <1>12, <2>1, <2>2, <2>3, <2>4, <2>5, StealKeeps DEF Thief
<1> QED
  BY <1>11, <1>19, <1>20 DEF DequeInv

(* A suspending worker makes a new deque. *)
LEMMA AllocateKeeps ==
  ASSUME DequeInv, NEW w \in Workers, Allocate(w)
  PROVE  DequeInv'
PROOF
<1>1. TypeOK /\ PlaceInv /\ StealInv /\ WorkerOK(w) /\ PoolInv /\ pc[w] = "suspend" /\ ~Locked(w)
  BY PlaceParts DEF DequeInv, Allocate
<1>2. PICK new \in Deques : ~deq[new].live /\ new = CHOOSE d \in Deques : ~deq[d].live
  BY DEF Allocate
<1>3. PICK a \in Deques : a = active[w] /\ a # new
  <2>1. active[w] \in Deques /\ ActiveOK(w)
    BY <1>1 DEF TypeOK, WorkerOK
  <2>2. deq[active[w]].live
    BY <2>1 DEF ActiveOK
  <2>3. active[w] # new
    BY <1>2, <2>2
  <2> QED
    BY <2>1, <2>3
<1>4. deq \in [Deques -> Deque] /\ deq[new] = Unused
  BY <1>1, <1>2, PlaceParts DEF TypeOK, DequeOK
<1>5. /\ deq' = [deq EXCEPT ![new] = [Unused EXCEPT !.live = TRUE, !.self = 0, !.fiber = "scheduling"]]
      /\ loc' = [loc EXCEPT ![w] = [NoLocal EXCEPT !.d = a, !.new = new]]
      /\ pc' = [pc EXCEPT ![w] = "switch"]
      /\ UNCHANGED <<active, suspended_deques, resumable_deques, waiting, left>>
  BY <1>2, <1>3 DEF Allocate
<1>6. /\ deq'[new] = [live |-> TRUE, worker |-> NULL, self |-> 0, resumable |-> FALSE,
                      fiber |-> "scheduling", frames |-> 0, exc |-> 0]
      /\ \A x \in Deques : x # new => deq'[x] = deq[x]
  BY <1>4, <1>5 DEF Unused
<1>7. /\ deq'[new].live /\ deq'[new].worker = NULL /\ ~deq'[new].resumable
      /\ deq'[new].fiber = "scheduling" /\ deq'[new].frames = 0 /\ deq'[new].exc = 0
      /\ deq[new].worker = NULL /\ deq[new].frames = 0 /\ deq[new].exc = 0
      /\ deq' \in [Deques -> Deque]
  <2>1. deq'[new] \in Deque
    BY <1>6, Constants DEF Deque
  <2>2. deq' \in [Deques -> Deque]
    BY <1>4, <1>5, <1>6, <2>1
  <2> QED
    BY <1>4, <1>6, <2>2 DEF Unused
<1>8. /\ pc'[w] = "switch" /\ loc'[w].d = a /\ loc'[w].new = new /\ loc'[w].work = FALSE
      /\ loc' \in [Workers -> Local]
      /\ \A v \in Workers : v # w => pc'[v] = pc[v] /\ loc'[v] = loc[v]
  <2>1. loc \in [Workers -> Local] /\ pc'[w] = "switch"
    BY <1>1, <1>5 DEF TypeOK
  <2>2. loc'[w] = [NoLocal EXCEPT !.d = a, !.new = new]
    BY <1>5, <2>1
  <2>3. loc'[w] \in Local /\ loc'[w].d = a /\ loc'[w].new = new /\ loc'[w].work = FALSE
    BY <2>2 DEF NoLocal, Local
  <2> QED
    BY <1>1, <1>5, <2>1, <2>3 DEF TypeOK
<1>9. PoolInv'
  <2>1. ~Says(deq[new], TRUE) /\ ~Says(deq[new], FALSE) /\ ~Says(deq'[new], TRUE) /\ ~Says(deq'[new], FALSE)
    BY <1>7 DEF Says
  <2>2. Indexed(deq', suspended_deques, FALSE) /\ Indexed(deq', resumable_deques, TRUE)
    BY <1>1, <1>6, <2>1, SameIndexed DEF PoolInv, TypeOK
  <2>3. \A x \in Deques : Says(deq'[x], TRUE) => deq'[x].fiber = "ready"
    BY <1>1, <1>6, <2>1 DEF PoolInv
  <2> QED
    BY <1>5, <2>2, <2>3 DEF PoolInv
<1>10. TypeOK'
  BY <1>1, <1>5, <1>7, <1>8 DEF TypeOK
<1>11. Alone(w)
  BY <1>5, <1>8 DEF Alone
<1>12. \A x \in Deques : x # new => Unmoved(w, x)
  BY <1>1, <1>3, <1>5, <1>6, <1>8 DEF Unmoved, Kept, Held, Suspending, RunsOn, Resuming, Leaving
<1>13. \A x \in Deques : x # new => DequeOK(x)' /\ (Pending(x)' <=> Pending(x))
  BY <1>1, <1>11, <1>12, UnmovedKeeps
<1>14. \A v \in Workers : ~Held(v, new) /\ active[v] # new /\ ~Pending(new) /\ ~Leaving(v, new)
  BY <1>1, <1>2, Apart
<1>15. ASSUME NEW v \in Workers, v # w PROVE WorkerOK(v)'
  <2>1. \A x \in Deques : x # new => Kept(x)
    BY <1>6 DEF Kept
  <2> QED
    BY <1>1, <1>11, <1>13, <1>14, <1>15, <2>1, OthersKeep
<1>16. WorkerOK(w)'
  <2>1. Pending(a)'
    BY <1>1, <1>3, <1>13 DEF WorkerOK, SuspendOK
  <2>2. ControlOK(w)'
    BY <1>3, <1>5, <1>8 DEF ControlOK, Thief
  <2>3. ActiveOK(w)'
    BY <1>1, <1>3, <1>5, <1>6, <1>8 DEF ActiveOK, WorkerOK
  <2>4. HeldOK(w)'
    BY <1>7, <1>8 DEF HeldOK
  <2> QED
    BY <1>3, <1>5, <1>8, <2>1, <2>2, <2>3, <2>4 DEF WorkerOK, SuspendOK
<1>17. DequeOK(new)'
  <2>1. \A v \in Workers : Held(v, new)' => v = w
    BY <1>8, <1>14 DEF Held
  <2>2. \A v \in Workers : ~Leaving(v, new)'
    BY <1>8, <1>14 DEF Leaving
  <2>3. ~Pending(new)' /\ new \notin waiting'
    BY <1>5, <1>8, <1>14 DEF Pending
  <2>4. Held(w, new)' /\ deq'[new].live
    BY <1>7, <1>8 DEF Held
  <2> QED
    BY <2>1, <2>2, <2>3, <2>4 DEF DequeOK, Somewhere
<1>18. PlaceInv'
  BY <1>9, <1>10, <1>13, <1>15, <1>16, <1>17, PlacePartsNext
<1>19. StealInv'
  <2>1. EmptyOK(w)'
    BY <1>7, <1>8 DEF EmptyOK, Stuck
  <2>2. ASSUME NEW x \in Deques, deq'[x].frames > 0 PROVE Found(x)'
    <3>1. x # new
      BY <1>7, <2>2
    <3>2. Found(x)
      BY <1>1, <1>6, <2>2, <3>1 DEF StealInv, WorkInv
    <3> QED
      BY <1>1, <1>5, <1>6, <1>8, <3>1, <3>2 DEF Found, InPool
  <2>3. \A x \in Deques : deq'[x].worker = deq[x].worker /\ (Pooled(x) => Pooled(x)')
    BY <1>6, <1>7 DEF Pooled, InPool
  <2>4. \A x \in Deques : deq'[x].exc = deq[x].exc /\ deq'[x].frames = deq[x].frames
    BY <1>6, <1>7
  <2> QED
    BY <1>1, <1>5, <1>8, <1>11, <2>1, <2>2, <2>3, <2>4, StealKeeps DEF Thief
<1> QED
  BY <1>10, <1>18, <1>19 DEF DequeInv

(* An idle worker takes a resumable deque of a victim. *)
LEMMA MugResumableKeeps ==
  ASSUME DequeInv, NEW w \in Workers, NEW victim \in Workers, MugResumable(w, victim)
  PROVE  DequeInv'
PROOF
<1>1. TypeOK /\ PlaceInv /\ StealInv /\ WorkerOK(w) /\ PoolInv /\ resumable_deques[victim] # <<>>
      /\ pc[w] = "idle" /\ ~Locked(victim)
  BY PlaceParts DEF DequeInv, MugResumable, CanChoose
<1>2. PICK d \in Deques : /\ d = Last(resumable_deques[victim]) /\ deq[d].worker = victim
                          /\ Says(deq[d], TRUE) /\ deq[d].fiber = "ready"
                          /\ deq[d].resumable
  BY <1>1, LastKnown
<1>3. PICK a \in Deques : a = active[w] /\ a # d
  BY <1>1, <1>2, Apart DEF TypeOK
<1>4. deq \in [Deques -> Deque] /\ deq[d] \in Deque /\ DequeOK(d)
  BY <1>1, PlaceParts DEF TypeOK
<1>5. /\ deq' = [deq EXCEPT ![d].self = deq[d].self, ![d].self = INVALID_DEQUE_INDEX, ![d].worker = NULL]
      /\ resumable_deques' = Shrunk(resumable_deques, victim, deq[d].self + 1)
      /\ loc' = [loc EXCEPT ![w] = [NoLocal EXCEPT !.d = d]]
      /\ pc' = [pc EXCEPT ![w] = "mugged"]
      /\ UNCHANGED <<active, suspended_deques, waiting, left>>
  BY <1>2 DEF MugResumable, Removed, deque_pool_remove, Shrunk
<1>6. /\ deq'[d] = [deq[d] EXCEPT !.self = INVALID_DEQUE_INDEX, !.worker = NULL]
      /\ \A x \in Deques : x # d => deq'[x] = deq[x]
  BY <1>4, <1>5
<1>7. /\ deq'[d].live = deq[d].live /\ deq'[d].worker = NULL /\ deq'[d].resumable
      /\ deq'[d].self = INVALID_DEQUE_INDEX /\ deq'[d].fiber = "ready"
      /\ deq'[d].frames = deq[d].frames /\ deq'[d].exc = deq[d].exc
      /\ deq' \in [Deques -> Deque]
  <2>1. deq'[d] = [live |-> deq[d].live, worker |-> NULL, self |-> INVALID_DEQUE_INDEX,
                   resumable |-> deq[d].resumable, fiber |-> deq[d].fiber,
                   frames |-> deq[d].frames, exc |-> deq[d].exc]
    BY <1>4, <1>6 DEF Deque
  <2>2. deq'[d] \in Deque
    BY <1>4, <2>1 DEF Deque, INVALID_DEQUE_INDEX
  <2>3. deq' \in [Deques -> Deque]
    BY <1>4, <1>5, <1>6, <2>2
  <2> QED
    BY <1>2, <2>1, <2>3
<1>8. /\ pc'[w] = "mugged" /\ loc'[w].d = d /\ loc' \in [Workers -> Local]
      /\ \A v \in Workers : v # w => pc'[v] = pc[v] /\ loc'[v] = loc[v]
  <2>1. loc \in [Workers -> Local] /\ pc'[w] = "mugged"
    BY <1>1, <1>5 DEF TypeOK
  <2>2. loc'[w] = [NoLocal EXCEPT !.d = d]
    BY <1>5, <2>1
  <2>3. loc'[w] \in Local /\ loc'[w].d = d
    BY <2>2 DEF NoLocal, Local
  <2> QED
    BY <1>1, <1>5, <2>1, <2>3 DEF TypeOK
<1>9. PoolInv' /\ resumable_deques' \in [Workers -> Seq(Deques)]
  BY <1>1, <1>2, <1>5, <1>6, <1>7, TakeLast
<1>10. TypeOK'
  BY <1>1, <1>5, <1>7, <1>8, <1>9 DEF TypeOK
<1>11. Alone(w)
  BY <1>5, <1>8 DEF Alone
<1>12. \A x \in Deques : x # d => Unmoved(w, x)
  BY <1>1, <1>3, <1>5, <1>6, <1>8 DEF Unmoved, Kept, Held, Suspending, RunsOn, Resuming, Leaving
<1>13. \A x \in Deques : x # d => DequeOK(x)' /\ (Pending(x)' <=> Pending(x))
  BY <1>1, <1>11, <1>12, UnmovedKeeps
<1>14. \A v \in Workers : ~Held(v, d) /\ active[v] # d /\ ~Pending(d) /\ ~Leaving(v, d)
  BY <1>1, <1>2, Apart
<1>15. ASSUME NEW v \in Workers, v # w PROVE WorkerOK(v)'
  <2>1. \A x \in Deques : x # d => Kept(x)
    BY <1>6 DEF Kept
  <2> QED
    BY <1>1, <1>11, <1>13, <1>14, <1>15, <2>1, OthersKeep
<1>16. WorkerOK(w)'
  <2>1. ControlOK(w)'
    BY <1>3, <1>5, <1>8 DEF ControlOK, Thief
  <2>2. ActiveOK(w)'
    BY <1>1, <1>3, <1>5, <1>6, <1>8 DEF ActiveOK, WorkerOK
  <2>3. HeldOK(w)'
    BY <1>7, <1>8 DEF HeldOK, Out
  <2> QED
    BY <1>8, <2>1, <2>2, <2>3 DEF WorkerOK, SuspendOK
<1>17. DequeOK(d)'
  <2>1. \A v \in Workers : Held(v, d)' => v = w
    BY <1>8, <1>14 DEF Held
  <2>2. \A v \in Workers : ~Leaving(v, d)'
    BY <1>8, <1>14 DEF Leaving
  <2>3. ~Pending(d)' /\ d \notin waiting'
    BY <1>5, <1>8, <1>14 DEF Pending
  <2>4. Held(w, d)' /\ deq'[d].live
    <3>1. deq[d].live
      BY <1>2, <1>4, Constants DEF DequeOK, Unused
    <3> QED
      BY <1>7, <1>8, <3>1 DEF Held
  <2> QED
    BY <2>1, <2>2, <2>3, <2>4 DEF DequeOK, Somewhere
<1>18. PlaceInv'
  BY <1>9, <1>10, <1>13, <1>15, <1>16, <1>17, PlacePartsNext
<1>19. StealInv'
  <2>1. EmptyOK(w)'
    <3>1. deq[a].frames = 0
      BY <1>1, <1>3 DEF EmptyOK, Stuck, StealInv, FrameInv
    <3> QED
      BY <1>3, <1>5, <1>6, <1>8, <3>1 DEF EmptyOK
  <2>2. ASSUME NEW x \in Deques, deq'[x].frames > 0 PROVE Found(x)'
    <3>1. CASE x = d
      BY <1>8, <3>1 DEF Found
    <3>2. CASE x # d
      <4>1. Found(x)
        BY <1>1, <1>6, <2>2, <3>2 DEF StealInv, WorkInv
      <4> QED
        BY <1>1, <1>5, <1>6, <1>8, <3>2, <4>1 DEF Found, InPool
    <3> QED
      BY <3>1, <3>2
  <2>3. Safe(d)
    BY <1>1, <1>2, SafeDeque
  <2>4. \A x \in Deques : x # d => deq'[x].worker = deq[x].worker /\ (Pooled(x) => Pooled(x)')
    BY <1>6 DEF Pooled, InPool
  <2>5. \A x \in Deques : deq'[x].exc = deq[x].exc /\ deq'[x].frames = deq[x].frames
    BY <1>6, <1>7
  <2> QED
    BY <1>1, <1>5, <1>8, <1>11, <2>1, <2>2, <2>3, <2>4, <2>5, StealKeeps DEF Thief
<1> QED
  BY <1>10, <1>18, <1>19 DEF DequeInv

(* A suspending worker makes the deque that it got its active one. *)
LEMMA SwitchKeeps ==
  ASSUME DequeInv, NEW w \in Workers, Switch(w)
  PROVE  DequeInv'
PROOF
<1>1. TypeOK /\ PlaceInv /\ StealInv /\ WorkerOK(w) /\ PoolInv /\ pc[w] = "switch" /\ ~Locked(w)
  BY PlaceParts DEF DequeInv, Switch
<1>2. PICK d \in Deques, new \in Deques : d = loc[w].d /\ d = active[w] /\ new = loc[w].new
  BY <1>1 DEF WorkerOK, ControlOK, TypeOK
<1>3. /\ deq[d].live /\ deq[d].worker = w /\ deq[d].self = ACTIVE_DEQUE_INDEX /\ ~deq[d].resumable
      /\ Pending(d)
      /\ deq[new].worker = NULL /\ ~deq[new].resumable /\ deq[new].fiber \in {"ready", "scheduling"}
      /\ d # new
  <2>1. ActiveOK(w) /\ SuspendOK(w) /\ HeldOK(w)
    BY <1>1 DEF WorkerOK
  <2>2. deq[new].worker = NULL /\ ~deq[new].resumable /\ deq[new].fiber \in {"ready", "scheduling"}
    BY <1>1, <1>2, <2>1 DEF HeldOK
  <2> QED
    BY <1>1, <1>2, <2>1, <2>2, Constants DEF ActiveOK, SuspendOK
<1>4. /\ deq \in [Deques -> Deque] /\ deq[d] \in Deque /\ deq[new] \in Deque /\ DequeOK(d) /\ DequeOK(new)
      /\ Held(w, new) /\ deq[new].live /\ new \notin waiting
  <2>1. Held(w, new) /\ DequeOK(new)
    BY <1>1, <1>2, PlaceParts DEF Held
  <2> QED
    BY <1>1, <2>1, PlaceParts DEF TypeOK, DequeOK
<1>5. PICK f \in -1..MaxFrames :
        /\ f = deq[d].frames \/ f \in Nat
        /\ deq'[d] = [live |-> deq[d].live, worker |-> deq[d].worker, self |-> deq[d].self,
                      resumable |-> deq[d].resumable, fiber |-> "running",
                      frames |-> f, exc |-> deq[d].exc]
        /\ deq'[new] = [live |-> deq[new].live, worker |-> w, self |-> ACTIVE_DEQUE_INDEX,
                        resumable |-> deq[new].resumable, fiber |-> deq[new].fiber,
                        frames |-> deq[new].frames, exc |-> deq[new].exc]
        /\ \A x \in Deques : x # d /\ x # new => deq'[x] = deq[x]
        /\ deq' = [x \in Deques |-> deq'[x]]
        /\ loc' = loc \/ loc' = [loc EXCEPT ![w].work = TRUE]
  <2> DEFINE switched == [deq EXCEPT ![d].fiber = "running", ![new] = deque_switch(w, @)]
  <2>1. /\ switched \in [Deques -> [live : BOOLEAN, worker : Workers \cup {NULL}, self : Int, resumable : BOOLEAN,
                          fiber : {"none", "running", "ready", "scheduling"}, frames : -1..MaxFrames, exc : 0..1]]
        /\ switched[d] = [live |-> deq[d].live, worker |-> deq[d].worker, self |-> deq[d].self,
                      resumable |-> deq[d].resumable, fiber |-> "running",
                      frames |-> deq[d].frames, exc |-> deq[d].exc]
        /\ switched[new] = [live |-> deq[new].live, worker |-> w, self |-> ACTIVE_DEQUE_INDEX,
                        resumable |-> deq[new].resumable, fiber |-> deq[new].fiber,
                        frames |-> deq[new].frames, exc |-> deq[new].exc]
        /\ \A x \in Deques : x # d /\ x # new => switched[x] = deq[x]
    <3>1. switched[d] = [deq[d] EXCEPT !.fiber = "running"]
      BY <1>3, <1>4
    <3>2. switched[new] = [deq[new] EXCEPT !.worker = w, !.self = ACTIVE_DEQUE_INDEX]
      BY <1>3, <1>4 DEF deque_switch
    <3>3. \A x \in Deques : x # d /\ x # new => switched[x] = deq[x]
      BY <1>4
    <3>4. switched[d] = [live |-> deq[d].live, worker |-> deq[d].worker, self |-> deq[d].self,
                      resumable |-> deq[d].resumable, fiber |-> "running",
                      frames |-> deq[d].frames, exc |-> deq[d].exc]
      BY <1>4, <3>1 DEF Deque
    <3>5. switched[new] = [live |-> deq[new].live, worker |-> w, self |-> ACTIVE_DEQUE_INDEX,
                        resumable |-> deq[new].resumable, fiber |-> deq[new].fiber,
                        frames |-> deq[new].frames, exc |-> deq[new].exc]
      BY <1>4, <3>2 DEF Deque
    <3> HIDE DEF switched
    <3>6. switched[d] \in Deque
      BY <1>4, <3>4 DEF Deque
    <3>7. switched[new] \in Deque
      BY <1>4, <3>5 DEF Deque, ACTIVE_DEQUE_INDEX
    <3>8. switched \in [Deques -> Deque]
      BY <1>4, <3>3, <3>6, <3>7 DEF switched
    <3> QED
      BY <3>3, <3>4, <3>5, <3>8 DEF Deque
  <2>2. \/ /\ deq[d].frames > 0 /\ deq' = [switched EXCEPT ![d].frames = switched[d].frames - 1]
           /\ loc' = [loc EXCEPT ![w].work = TRUE]
        \/ deq' = switched /\ loc' = loc
    BY <1>2 DEF Switch, can_steal_from
  <2>3. deq[d].frames \in -1..MaxFrames
    BY <1>4 DEF Deque
  <2> HIDE DEF switched
  <2>4. CASE deq' = switched /\ loc' = loc
    BY <2>1, <2>3, <2>4
  <2>5. CASE /\ deq[d].frames > 0 /\ deq' = [switched EXCEPT ![d].frames = switched[d].frames - 1]
             /\ loc' = [loc EXCEPT ![w].work = TRUE]
    <3>1. deq[d].frames - 1 \in -1..MaxFrames /\ deq[d].frames - 1 \in Nat
      BY <2>3, <2>5, Constants
    <3>2. deq'[d] = [live |-> deq[d].live, worker |-> deq[d].worker, self |-> deq[d].self,
                     resumable |-> deq[d].resumable, fiber |-> "running",
                     frames |-> deq[d].frames - 1, exc |-> deq[d].exc]
      BY <2>1, <2>5
    <3>3. /\ deq'[new] = switched[new]
          /\ \A x \in Deques : x # d /\ x # new => deq'[x] = deq[x]
          /\ deq' = [x \in Deques |-> deq'[x]]
      BY <1>3, <2>1, <2>5
    <3> QED
      BY <2>1, <2>5, <3>1, <3>2, <3>3
  <2> QED
    BY <2>2, <2>4, <2>5
<1>6. /\ active' = [active EXCEPT ![w] = new] /\ pc' = [pc EXCEPT ![w] = "park"]
      /\ UNCHANGED <<suspended_deques, resumable_deques, waiting, left>>
  BY <1>2 DEF Switch
<1>7. /\ deq'[d].live /\ deq'[d].worker = w /\ deq'[d].self = ACTIVE_DEQUE_INDEX
      /\ ~deq'[d].resumable /\ deq'[d].fiber = "running" /\ deq'[d].frames = f
      /\ deq'[d].exc = deq[d].exc
      /\ deq'[new].live /\ deq'[new].worker = w /\ deq'[new].self = ACTIVE_DEQUE_INDEX
      /\ ~deq'[new].resumable /\ deq'[new].fiber = deq[new].fiber
      /\ deq'[new].frames = deq[new].frames /\ deq'[new].exc = deq[new].exc
      /\ deq' \in [Deques -> Deque]
  <2>1. deq'[d] \in Deque
    BY <1>4, <1>5 DEF Deque
  <2>2. deq'[new] \in Deque
    BY <1>4, <1>5 DEF Deque, ACTIVE_DEQUE_INDEX
  <2>3. deq' \in [Deques -> Deque]
    BY <1>4, <1>5, <2>1, <2>2
  <2> QED
    BY <1>3, <1>4, <1>5, <2>3
<1>8. /\ pc'[w] = "park" /\ loc'[w].d = d /\ loc'[w].new = new /\ active'[w] = new
      /\ ~loc'[w].work => ~loc[w].work
      /\ loc' \in [Workers -> Local] /\ pc' \in [Workers -> {"run", "pop", "check", "idle", "probe",
                 "dekker", "detach", "suspend", "switch", "park", "jump",
                 "resume", "owned", "free", "give", "mugged"}]
      /\ active' \in [Workers -> Deques]
      /\ \A v \in Workers : v # w => pc'[v] = pc[v] /\ loc'[v] = loc[v] /\ active'[v] = active[v]
  <2>1. loc \in [Workers -> Local] /\ pc' \in [Workers -> {"run", "pop", "check", "idle", "probe",
                 "dekker", "detach", "suspend", "switch", "park", "jump",
                 "resume", "owned", "free", "give", "mugged"}] /\ pc'[w] = "park"
        /\ active' \in [Workers -> Deques] /\ active'[w] = new
        /\ \A v \in Workers : v # w => pc'[v] = pc[v] /\ active'[v] = active[v]
    BY <1>1, <1>6 DEF TypeOK
  <2>2. CASE loc' = loc
    BY <1>2, <2>1, <2>2
  <2>3. CASE loc' = [loc EXCEPT ![w].work = TRUE]
    <3>1. loc[w] \in Local /\ loc'[w] = [loc[w] EXCEPT !.work = TRUE]
      BY <2>1, <2>3
    <3>2. loc'[w] \in Local /\ loc'[w].d = d /\ loc'[w].new = new /\ loc'[w].work
      BY <1>2, <3>1 DEF Local
    <3> QED
      BY <2>1, <2>3, <3>2
  <2> QED
    BY <1>5, <2>2, <2>3
<1>9. PoolInv'
  <2>1. ~Says(deq[new], TRUE) /\ ~Says(deq[new], FALSE)
        /\ ~Says(deq'[new], TRUE) /\ ~Says(deq'[new], FALSE)
        /\ ~Says(deq[d], TRUE) /\ ~Says(deq[d], FALSE)
        /\ ~Says(deq'[d], TRUE) /\ ~Says(deq'[d], FALSE)
    BY <1>3, <1>7 DEF Says, ACTIVE_DEQUE_INDEX
  <2> QED
    BY <1>1, <1>5, <1>6, <2>1, PoolsUntouched
<1>10. TypeOK'
  BY <1>1, <1>6, <1>7, <1>8 DEF TypeOK
<1>11. Alone(w)
  BY <1>8 DEF Alone
<1>12. \A x \in Deques : x # d /\ x # new => Unmoved(w, x)
  BY <1>1, <1>2, <1>5, <1>6, <1>8 DEF Unmoved, Kept, Held, Suspending, RunsOn, Resuming, Leaving
<1>13. \A x \in Deques : x # d /\ x # new => DequeOK(x)' /\ (Pending(x)' <=> Pending(x))
  BY <1>1, <1>11, <1>12, UnmovedKeeps
<1>14. \A v \in Workers : v # w =>
         /\ active[v] # d /\ active[v] # new /\ (Held(v, d) => pc[v] = "resume")
         /\ ~Leaving(v, d) /\ ~Leaving(v, new) /\ ~Held(v, new)
  <2>1. ~Pending(new)
    BY <1>1, <1>4, Apart
  <2>2. \A v \in Workers : active[v] # new
    BY <1>1, <1>4, Apart
  <2>3. \A v \in Workers : v # w => ~Held(v, new)
    BY <1>4 DEF DequeOK
  <2>4. \A v \in Workers : v # w => active[v] # d
    BY <1>1, <1>2, ActiveUnique
  <2>5. ASSUME NEW v \in Workers PROVE ~Leaving(v, d) /\ (Held(v, d) => pc[v] = "resume")
    <3>1. Leaving(v, d) => active[w] # d
      BY <1>1, Apart
    <3>2. Held(v, d) => pc[v] = "resume"
      BY <1>1, <1>3, Apart
    <3> QED
      BY <1>2, <3>1, <3>2
  <2>6. \A v \in Workers : ~Leaving(v, new)
    BY <1>1, <2>1, Apart
  <2> QED
    BY <2>2, <2>3, <2>4, <2>5, <2>6
<1>15. Pending(d)' /\ (Pending(new)' <=> Pending(new))
  BY <1>1, <1>3, <1>6, <1>8 DEF Pending
<1>16. ASSUME NEW v \in Workers, v # w PROVE WorkerOK(v)'
  <2>1. \A x \in Deques : x # d /\ x # new => Kept(x)
    BY <1>5 DEF Kept
  <2> QED
    BY <1>1, <1>11, <1>13, <1>14, <1>15, <1>16, <2>1, OthersKeep
<1>17. WorkerOK(w)'
  <2>1. ControlOK(w)'
    BY <1>3, <1>8 DEF ControlOK, Thief
  <2>2. ActiveOK(w)'
    BY <1>3, <1>7, <1>8 DEF ActiveOK
  <2>3. HeldOK(w)'
    BY <1>8 DEF HeldOK
  <2>4. SuspendOK(w)'
    BY <1>7, <1>8, <1>15 DEF SuspendOK
  <2> QED
    BY <2>1, <2>2, <2>3, <2>4 DEF WorkerOK
<1>18. DequeOK(d)'
  <2>1. \A v \in Workers : (Held(v, d)' <=> Held(v, d)) /\ (Leaving(v, d)' => v = w)
    BY <1>1, <1>2, <1>3, <1>8, <1>14 DEF Held, Leaving
  <2>2. \A v \in Workers : active'[v] # d
    BY <1>3, <1>8, <1>14
  <2>3. Suspending(w, d)'
    BY <1>8 DEF Suspending
  <2>4. PendingOK(d)'
    BY <1>7, <2>2, <2>3 DEF PendingOK
  <2>5. Somewhere(d)'
    <3>1. d \in waiting \/ \E v \in Workers : Held(v, d)
      BY <1>3 DEF Pending, Held
    <3> QED
      BY <1>6, <2>1, <3>1 DEF Somewhere
  <2> QED
    BY <1>4, <1>6, <1>7, <2>1, <2>4, <2>5 DEF DequeOK
<1>19. DequeOK(new)'
  <2>1. \A v \in Workers : ~Held(v, new)' /\ ~Leaving(v, new)'
    BY <1>3, <1>8, <1>14 DEF Held, Leaving
  <2>2. ~Pending(new)'
    BY <1>1, <1>4, <1>15, Apart
  <2>3. RunsOn(w, new)'
    BY <1>8 DEF RunsOn
  <2> QED
    BY <1>7, <2>1, <2>2, <2>3 DEF DequeOK, Somewhere
<1>20. PlaceInv'
  BY <1>9, <1>10, <1>13, <1>16, <1>17, <1>18, <1>19, PlacePartsNext
<1>21. StealInv'
  <2>1. EmptyOK(w)'
    <3>1. ~loc[w].work => deq[new].frames = 0
      BY <1>1, <1>2 DEF StealInv, FrameInv, EmptyOK
    <3> QED
      BY <1>7, <1>8, <3>1 DEF EmptyOK, Stuck
  <2>2. ASSUME NEW x \in Deques, deq'[x].frames > 0 PROVE Found(x)'
    <3>1. CASE x \in {d, new}
      BY <1>8, <3>1 DEF Found
    <3>2. CASE x \notin {d, new}
      <4>1. Found(x)
        BY <1>1, <1>5, <2>2, <3>2 DEF StealInv, WorkInv
      <4> QED
        BY <1>1, <1>2, <1>5, <1>8, <3>2, <4>1 DEF Found, InPool
    <3> QED
      BY <3>1, <3>2
  <2>3. Safe(new)
    BY <1>1, <1>3, SafeDeque
  <2>4. \A x \in Deques : x # new => deq'[x].worker = deq[x].worker /\ (Pooled(x) => Pooled(x)')
    BY <1>3, <1>5, <1>7 DEF Pooled, InPool
  <2>5. \A x \in Deques : /\ deq'[x].exc = deq[x].exc
                          /\ deq'[x].frames = deq[x].frames \/ (x = active[w] /\ deq'[x].frames \in Nat)
    BY <1>2, <1>5, <1>7
  <2> QED
    BY <1>1, <1>8, <1>11, <2>1, <2>2, <2>3, <2>4, <2>5, StealKeeps DEF Thief
<1> QED
  BY <1>10, <1>20, <1>21 DEF DequeInv

(* A deque object with another place. *)
Placed(q, place, owner) == [q EXCEPT !.self = place, !.worker = owner]

(* The old deque goes to a pool if there is work on it. *)
LEMMA ParkKeeps ==
  ASSUME DequeInv, NEW w \in Workers, Park(w)
  PROVE  DequeInv'
PROOF
<1>1. TypeOK /\ PlaceInv /\ StealInv /\ WorkerOK(w) /\ PoolInv /\ pc[w] = "park"
  BY PlaceParts DEF DequeInv, Park
<1>2. PICK d \in Deques : d = loc[w].d /\ Leaving(w, d)
  BY <1>1 DEF WorkerOK, ControlOK, Leaving
<1>3. /\ deq[d].live /\ deq[d].worker = w /\ deq[d].self = ACTIVE_DEQUE_INDEX /\ ~deq[d].resumable
      /\ Pending(d) /\ deq[d].fiber = "running" /\ \A v \in Workers : active[v] # d
      /\ deq \in [Deques -> Deque] /\ deq[d] \in Deque /\ DequeOK(d)
  <2>1. SuspendOK(w) /\ DequeOK(d)
    BY <1>1, PlaceParts DEF WorkerOK
  <2>2. Pending(d) /\ deq[d].worker = w /\ deq[d].self = ACTIVE_DEQUE_INDEX
    BY <1>1, <1>2, <2>1 DEF SuspendOK
  <2>3. PendingOK(d)
    BY <2>1, <2>2 DEF DequeOK
  <2>4. deq[d].fiber = "running" /\ \A v \in Workers : active[v] # d
    BY <1>1, <1>2, Apart
  <2> QED
    BY <1>1, <2>1, <2>2, <2>3, <2>4 DEF PendingOK, TypeOK
<1>4. /\ pc' = [pc EXCEPT ![w] = "jump"] /\ pc'[w] = "jump"
      /\ \A v \in Workers : v # w => pc'[v] = pc[v]
      /\ UNCHANGED <<active, resumable_deques, waiting, loc, left>>
  BY <1>1 DEF Park, TypeOK
<1>5. PICK owner \in Workers \cup {NULL}, place \in Int :
        /\ deq' = [deq EXCEPT ![d] = Placed(deq[d], place, owner)]
        /\ \/ /\ owner \in Workers /\ place = Len(suspended_deques[owner])
              /\ suspended_deques' = Grown(suspended_deques, owner, d)
           \/ /\ deq[d].frames = 0 /\ owner = NULL /\ place = INVALID_DEQUE_INDEX
              /\ suspended_deques' = suspended_deques
  <2>1. CASE deq[d].frames # 0
    <3>1. PICK victim \in Workers :
            /\ deq' = [deq EXCEPT ![d] = Added(deq[d], suspended_deques[victim], victim)]
            /\ suspended_deques' = [suspended_deques EXCEPT ![victim] = Append(suspended_deques[victim], d)]
      BY <1>2, <2>1 DEF Park
    <3>2. Len(suspended_deques[victim]) \in Int
      BY <1>1 DEF TypeOK
    <3>3. deq' = [deq EXCEPT ![d] = Placed(deq[d], Len(suspended_deques[victim]), victim)]
      BY <3>1 DEF Added, Placed
    <3>4. suspended_deques' = Grown(suspended_deques, victim, d)
      BY <3>1 DEF Grown
    <3> QED
      BY <3>2, <3>3, <3>4, Zenon
  <2>2. CASE deq[d].frames = 0
    <3>1. /\ deq' = [deq EXCEPT ![d].self = INVALID_DEQUE_INDEX, ![d].worker = NULL]
          /\ suspended_deques' = suspended_deques
      BY <1>2, <2>2 DEF Park
    <3>2. deq' = [deq EXCEPT ![d] = Placed(deq[d], INVALID_DEQUE_INDEX, NULL)]
      BY <1>3, <3>1 DEF Placed
    <3>3. INVALID_DEQUE_INDEX \in Int
      BY DEF INVALID_DEQUE_INDEX
    <3> QED
      BY <2>2, <3>1, <3>2, <3>3, Zenon
  <2> QED
    BY <2>1, <2>2
<1>6. /\ deq'[d].live /\ deq'[d].worker = owner /\ deq'[d].self = place /\ ~deq'[d].resumable
      /\ deq'[d].fiber = "running" /\ deq'[d].frames = deq[d].frames /\ deq'[d].exc = deq[d].exc
      /\ deq' \in [Deques -> Deque] /\ \A x \in Deques : x # d => deq'[x] = deq[x]
  <2>1. deq'[d] = [deq[d] EXCEPT !.self = place, !.worker = owner]
        /\ \A x \in Deques : x # d => deq'[x] = deq[x]
    BY <1>3, <1>5 DEF Placed
  <2>2. deq'[d] = [live |-> deq[d].live, worker |-> owner, self |-> place,
                   resumable |-> deq[d].resumable, fiber |-> deq[d].fiber,
                   frames |-> deq[d].frames, exc |-> deq[d].exc]
    BY <1>3, <2>1 DEF Deque
  <2>3. deq'[d] \in Deque
    BY <1>3, <2>2 DEF Deque
  <2>4. deq' \in [Deques -> Deque]
    BY <1>3, <1>5, <2>1, <2>3
  <2> QED
    BY <1>3, <2>1, <2>2, <2>4
<1>7. Out(d)' \/ Pooled(d)'
  <2>1. owner \in Workers => place >= 0 /\ owner # NULL
    BY <1>1, <1>5, Constants DEF TypeOK, INVALID_DEQUE_INDEX
  <2> QED
    BY <1>5, <1>6, <2>1, Constants DEF Out, Pooled, InPool
<1>8. PoolInv' /\ suspended_deques' \in [Workers -> Seq(Deques)]
  <2>1. /\ suspended_deques \in [Workers -> Seq(Deques)] /\ resumable_deques \in [Workers -> Seq(Deques)]
        /\ Indexed(deq, suspended_deques, FALSE) /\ Indexed(deq, resumable_deques, TRUE)
    BY <1>1 DEF TypeOK, PoolInv
  <2>2. ~Says(deq[d], FALSE) /\ ~Says(deq[d], TRUE) /\ ~Says(deq'[d], TRUE)
    BY <1>3, <1>6 DEF Says, ACTIVE_DEQUE_INDEX
  <2>3. CASE suspended_deques' = suspended_deques /\ owner = NULL
    <3>1. ~Says(deq'[d], FALSE)
      BY <1>6, <2>3 DEF Says
    <3> QED
      BY <1>1, <1>4, <1>6, <2>1, <2>2, <2>3, <3>1, PoolsUntouched
  <2>4. CASE /\ owner \in Workers /\ place = Len(suspended_deques[owner])
             /\ suspended_deques' = Grown(suspended_deques, owner, d)
    <3>0. PICK r : r = FALSE
      OBVIOUS
    <3>1. deq'[d].worker = owner /\ deq'[d].self = Len(suspended_deques[owner]) /\ deq'[d].resumable = r
      <4>1. deq'[d] \in Deque
        BY <1>6
      <4>2. deq'[d].resumable \in BOOLEAN
        BY <4>1 DEF Deque
      <4> QED
        BY <1>6, <2>4, <3>0, <4>2
    <3>2. \A x \in Deques : x # d =>
            /\ deq'[x].worker = deq[x].worker /\ deq'[x].self = deq[x].self
            /\ deq'[x].resumable = deq[x].resumable
      BY <1>6
    <3>3. /\ Grown(suspended_deques, owner, d) \in [Workers -> Seq(Deques)]
          /\ Indexed(deq', Grown(suspended_deques, owner, d), FALSE)
      <4>1. Indexed(deq, suspended_deques, r) /\ ~Says(deq[d], r)
        BY <2>1, <2>2, <3>0
      <4>2. /\ Grown(suspended_deques, owner, d) \in [Workers -> Seq(Deques)]
            /\ Indexed(deq', Grown(suspended_deques, owner, d), r)
        <5>1. owner \in Workers /\ deq \in [Deques -> Deque] /\ suspended_deques \in [Workers -> Seq(Deques)]
          BY <1>3, <2>1, <2>4
        <5>2. AddedTo(deq, deq', suspended_deques, owner, d, r)
          BY <3>1, <3>2 DEF AddedTo
        <5> QED
          BY <4>1, <5>1, <5>2, AddIndexed
      <4> QED
        BY <3>0, <4>2
    <3>4. Indexed(deq', resumable_deques, TRUE)
      BY <2>1, <2>2, <3>2, SameIndexed
    <3>5. \A x \in Deques : Says(deq'[x], TRUE) => deq'[x].fiber = "ready"
      BY <1>1, <1>6, <2>2 DEF PoolInv
    <3> QED
      BY <1>4, <2>4, <3>3, <3>4, <3>5 DEF PoolInv
  <2> QED
    BY <1>5, <2>3, <2>4
<1>9. TypeOK'
  BY <1>1, <1>4, <1>6, <1>8 DEF TypeOK
<1>10. Alone(w)
  BY <1>4 DEF Alone
<1>11. \A x \in Deques : x # d => Unmoved(w, x)
  BY <1>1, <1>2, <1>4, <1>6 DEF Unmoved, Kept, Held, Suspending, RunsOn, Resuming, Leaving
<1>12. \A x \in Deques : x # d => DequeOK(x)' /\ (Pending(x)' <=> Pending(x))
  BY <1>1, <1>10, <1>11, UnmovedKeeps
<1>13. \A v \in Workers : /\ Held(v, d) => pc[v] = "resume"
                          /\ Leaving(v, d) => v = w
  BY <1>1, <1>2, <1>3, Apart DEF DequeOK
<1>14. Pending(d)'
  BY <1>1, <1>3, <1>4 DEF Pending
<1>15. ASSUME NEW v \in Workers, v # w PROVE WorkerOK(v)'
  <2>1. \A x \in Deques : x # d => Kept(x)
    BY <1>6 DEF Kept
  <2> QED
    BY <1>1, <1>3, <1>10, <1>12, <1>13, <1>14, <1>15, <2>1, OthersKeep
<1>16. WorkerOK(w)'
  <2>1. ControlOK(w)'
    BY <1>1, <1>4 DEF ControlOK, Thief, WorkerOK
  <2>2. ActiveOK(w)'
    <3>1. active[w] \in Deques /\ active[w] # d
      BY <1>1, <1>3 DEF TypeOK
    <3> QED
      BY <1>1, <1>4, <1>6, <3>1 DEF ActiveOK, WorkerOK
  <2>3. HeldOK(w)'
    BY <1>4 DEF HeldOK
  <2>4. SuspendOK(w)'
    BY <1>2, <1>4, <1>6, <1>7, <1>14 DEF SuspendOK, Out, Pooled, InPool
  <2> QED
    BY <2>1, <2>2, <2>3, <2>4 DEF WorkerOK
<1>17. DequeOK(d)'
  <2>1. \A v \in Workers : (Held(v, d)' <=> Held(v, d)) /\ (Leaving(v, d)' <=> Leaving(v, d))
    BY <1>1, <1>4 DEF Held, Leaving
  <2>2. Suspending(w, d)'
    BY <1>2, <1>4 DEF Suspending
  <2>3. PendingOK(d)'
    BY <1>3, <1>4, <1>6, <2>2 DEF PendingOK
  <2>4. Somewhere(d)'
    <3>1. d \in waiting \/ \E v \in Workers : Held(v, d)
      BY <1>3 DEF Pending, Held
    <3> QED
      BY <1>4, <2>1, <3>1 DEF Somewhere
  <2> QED
    BY <1>3, <1>4, <1>6, <2>1, <2>3, <2>4 DEF DequeOK
<1>18. PlaceInv'
  BY <1>8, <1>9, <1>12, <1>15, <1>16, <1>17, PlacePartsNext
<1>19. StealInv'
  <2>1. EmptyOK(w)'
    <3>1. ~loc[w].work => deq[active[w]].frames = 0
      BY <1>1 DEF StealInv, FrameInv, EmptyOK
    <3>2. active[w] \in Deques /\ active[w] # d
      BY <1>1, <1>3 DEF TypeOK
    <3> QED
      BY <1>4, <1>6, <3>1, <3>2 DEF EmptyOK, Stuck
  <2>2. ASSUME NEW x \in Deques, deq'[x].frames > 0 PROVE Found(x)'
    <3>1. CASE x = d
      <4>1. owner \in Workers /\ place >= 0
        BY <1>1, <1>5, <1>6, <2>2, <3>1 DEF TypeOK
      <4> QED
        BY <1>6, <3>1, <4>1, Constants DEF Found, InPool
    <3>2. CASE x # d
      <4>1. Found(x)
        BY <1>1, <1>6, <2>2, <3>2 DEF StealInv, WorkInv
      <4> QED
        BY <1>1, <1>2, <1>4, <1>6, <3>2, <4>1 DEF Found, InPool
    <3> QED
      BY <3>1, <3>2
  <2>3. Safe(d)
    <3>1. ~Pooled(d)
      BY <1>3 DEF Pooled, InPool, ACTIVE_DEQUE_INDEX
    <3> QED
      BY <1>1, <1>3, <3>1, SafeDeque
  <2>4. \A x \in Deques : x # d => deq'[x].worker = deq[x].worker /\ (Pooled(x) => Pooled(x)')
    BY <1>6 DEF Pooled, InPool
  <2>5. \A x \in Deques : deq'[x].exc = deq[x].exc /\ deq'[x].frames = deq[x].frames
    BY <1>6
  <2> QED
    BY <1>1, <1>4, <1>10, <2>1, <2>2, <2>3, <2>4, <2>5, StealKeeps DEF Thief
<1> QED
  BY <1>9, <1>18, <1>19 DEF DequeInv

(* The worker goes on on the new deque, and the old one can be resumed. *)
LEMMA JumpKeeps ==
  ASSUME DequeInv, NEW w \in Workers, Jump(w)
  PROVE  DequeInv'
PROOF
<1>1. TypeOK /\ PlaceInv /\ StealInv /\ WorkerOK(w) /\ PoolInv /\ pc[w] = "jump"
  BY PlaceParts DEF DequeInv, Jump
<1>2. PICK d \in Deques, new \in Deques :
        d = loc[w].d /\ Leaving(w, d) /\ new = loc[w].new /\ new = active[w] /\ d # new
  <2>1. active[w] \in Deques
    BY <1>1 DEF TypeOK
  <2> QED
    BY <1>1, <2>1 DEF WorkerOK, ControlOK, Leaving
<1>3. /\ deq[d].live /\ ~deq[d].resumable /\ (Out(d) \/ Pooled(d))
      /\ Pending(d) /\ deq[d].fiber = "running" /\ (\A v \in Workers : active[v] # d)
      /\ deq \in [Deques -> Deque] /\ deq[d] \in Deque /\ deq[new] \in Deque /\ DequeOK(d)
      /\ deq[new].live /\ deq[new].worker = w /\ deq[new].self = ACTIVE_DEQUE_INDEX /\ ~deq[new].resumable
  <2>1. SuspendOK(w) /\ ActiveOK(w) /\ DequeOK(d)
    BY <1>1, PlaceParts DEF WorkerOK
  <2>2. Pending(d) /\ (Out(d) \/ Pooled(d))
    BY <1>1, <1>2, <2>1 DEF SuspendOK
  <2>3. PendingOK(d)
    BY <2>1, <2>2 DEF DequeOK
  <2>4. deq[d].fiber = "running" /\ \A v \in Workers : active[v] # d
    BY <1>1, <1>2, Apart
  <2>5. deq[new].live /\ deq[new].worker = w /\ deq[new].self = ACTIVE_DEQUE_INDEX /\ ~deq[new].resumable
    BY <1>2, <2>1 DEF ActiveOK
  <2> QED
    BY <1>1, <2>1, <2>2, <2>3, <2>4, <2>5 DEF PendingOK, TypeOK
<1>4. /\ deq' = [deq EXCEPT ![new].fiber = "none", ![d].fiber = "ready"]
      /\ pc'[w] \in {"run", "idle"} /\ (pc'[w] = "idle" => ~loc[w].work)
      /\ loc' = [loc EXCEPT ![w] = NoLocal] /\ loc'[w] = NoLocal
      /\ \A v \in Workers : v # w => pc'[v] = pc[v] /\ loc'[v] = loc[v]
      /\ pc' \in [Workers -> {"run", "pop", "check", "idle", "probe",
                 "dekker", "detach", "suspend", "switch", "park", "jump",
                 "resume", "owned", "free", "give", "mugged"}]
      /\ UNCHANGED <<active, suspended_deques, resumable_deques, waiting, left>>
  BY <1>1, <1>2 DEF Jump, Jumped, TypeOK
<1>5. /\ deq'[d].live /\ deq'[d].worker = deq[d].worker /\ deq'[d].self = deq[d].self
      /\ deq'[d].resumable = deq[d].resumable /\ deq'[d].fiber = "ready"
      /\ deq'[d].frames = deq[d].frames /\ deq'[d].exc = deq[d].exc
      /\ deq'[new].live /\ deq'[new].worker = w /\ deq'[new].self = ACTIVE_DEQUE_INDEX
      /\ ~deq'[new].resumable /\ deq'[new].fiber = "none"
      /\ deq'[new].frames = deq[new].frames /\ deq'[new].exc = deq[new].exc
      /\ deq' \in [Deques -> Deque] /\ \A x \in Deques : x # d /\ x # new => deq'[x] = deq[x]
  <2>1. deq'[d] = [deq[d] EXCEPT !.fiber = "ready"] /\ deq'[new] = [deq[new] EXCEPT !.fiber = "none"]
        /\ \A x \in Deques : x # d /\ x # new => deq'[x] = deq[x]
    BY <1>2, <1>3, <1>4
  <2>2. deq'[d] = [live |-> deq[d].live, worker |-> deq[d].worker, self |-> deq[d].self,
                   resumable |-> deq[d].resumable, fiber |-> "ready",
                   frames |-> deq[d].frames, exc |-> deq[d].exc]
    BY <1>3, <2>1 DEF Deque
  <2>3. deq'[new] = [live |-> deq[new].live, worker |-> deq[new].worker, self |-> deq[new].self,
                     resumable |-> deq[new].resumable, fiber |-> "none",
                     frames |-> deq[new].frames, exc |-> deq[new].exc]
    BY <1>3, <2>1 DEF Deque
  <2>4. deq'[d] \in Deque
    BY <1>3, <2>2 DEF Deque
  <2>5. deq'[new] \in Deque
    BY <1>3, <2>3 DEF Deque
  <2>6. deq' \in [Deques -> Deque]
    BY <1>3, <1>4, <2>1, <2>4, <2>5
  <2> QED
    BY <1>3, <2>1, <2>2, <2>3, <2>6
<1>6. PoolInv'
  <2>1. ~Says(deq[new], TRUE) /\ ~Says(deq[new], FALSE) /\ ~Says(deq'[new], TRUE)
        /\ ~Says(deq'[new], FALSE) /\ ~Says(deq[d], TRUE)
    BY <1>3, <1>5 DEF Says, ACTIVE_DEQUE_INDEX
  <2> QED
    BY <1>1, <1>4, <1>5, <2>1, PoolsUntouched
<1>7. TypeOK'
  <2>1. NoLocal \in Local
    BY DEF NoLocal, Local
  <2> QED
    BY <1>1, <1>4, <1>5, <2>1 DEF TypeOK
<1>8. Alone(w)
  BY <1>4 DEF Alone
<1>9. \A x \in Deques : x # d /\ x # new => Unmoved(w, x)
  BY <1>1, <1>2, <1>4, <1>5 DEF Unmoved, Kept, Held, Suspending, RunsOn, Resuming, Leaving
<1>10. \A x \in Deques : x # d /\ x # new => DequeOK(x)' /\ (Pending(x)' <=> Pending(x))
  BY <1>1, <1>8, <1>9, UnmovedKeeps
<1>11. \A v \in Workers : /\ Held(v, d) => pc[v] = "resume"
                          /\ Leaving(v, d) => v = w
  BY <1>1, <1>2, <1>3, Apart DEF DequeOK
<1>12. ~Pending(new) /\ \A v \in Workers : ~Held(v, new) /\ ~Leaving(v, new) /\ (v # w => active[v] # new)
  <2>1. ~Pending(new)
    BY <1>1, <1>2, PlaceParts DEF DequeOK, PendingOK
  <2>2. \A v \in Workers : ~Held(v, new) /\ ~Leaving(v, new)
    BY <1>1, <1>2, Apart
  <2> QED
    BY <1>1, <1>2, <2>1, <2>2, ActiveUnique
<1>13. Pending(d)' /\ ~Pending(new)'
  BY <1>1, <1>3, <1>4, <1>12 DEF Pending
<1>14. ASSUME NEW v \in Workers, v # w PROVE WorkerOK(v)'
  <2>1. \A x \in Deques : x # d /\ x # new => Kept(x)
    BY <1>5 DEF Kept
  <2> QED
    BY <1>1, <1>3, <1>8, <1>10, <1>11, <1>12, <1>13, <1>14, <2>1, OthersKeep
<1>15. WorkerOK(w)'
  <2>1. ControlOK(w)'
    BY <1>4 DEF ControlOK, Thief
  <2>2. ActiveOK(w)'
    BY <1>2, <1>4, <1>5 DEF ActiveOK
  <2> QED
    BY <1>4, <2>1, <2>2 DEF WorkerOK, HeldOK, SuspendOK
<1>16. DequeOK(d)'
  <2>1. \A v \in Workers : (Held(v, d)' <=> Held(v, d)) /\ ~Leaving(v, d)'
    BY <1>1, <1>4, <1>11 DEF Held, Leaving
  <2>2. Out(d)' \/ Pooled(d)'
    BY <1>3, <1>5 DEF Out, Pooled, InPool
  <2>3. PendingOK(d)'
    BY <1>3, <1>4, <1>5, <2>2 DEF PendingOK
  <2>4. Somewhere(d)'
    <3>1. d \in waiting \/ \E v \in Workers : Held(v, d)
      BY <1>3 DEF Pending, Held
    <3> QED
      BY <1>4, <2>1, <3>1 DEF Somewhere
  <2> QED
    BY <1>3, <1>4, <1>5, <2>1, <2>3, <2>4 DEF DequeOK
<1>17. DequeOK(new)'
  <2>1. \A v \in Workers : ~Held(v, new)' /\ ~Leaving(v, new)'
    BY <1>4, <1>12 DEF Held, Leaving
  <2>2. RunsOn(w, new)'
    BY <1>2, <1>4 DEF RunsOn
  <2> QED
    BY <1>5, <1>13, <2>1, <2>2 DEF DequeOK, Somewhere
<1>18. PlaceInv'
  BY <1>6, <1>7, <1>10, <1>14, <1>15, <1>16, <1>17, PlacePartsNext
<1>19. StealInv'
  <2>1. EmptyOK(w)'
    <3>1. ~loc[w].work => deq[new].frames = 0
      BY <1>1, <1>2 DEF StealInv, FrameInv, EmptyOK
    <3> QED
      BY <1>2, <1>4, <1>5, <3>1 DEF EmptyOK, Stuck
  <2>2. \A x \in Deques : deq'[x].worker = deq[x].worker /\ (Pooled(x) => Pooled(x)')
    BY <1>3, <1>5 DEF Pooled, InPool
  <2>3. \A x \in Deques : deq'[x].exc = deq[x].exc /\ deq'[x].frames = deq[x].frames
    BY <1>5
  <2>4. ASSUME NEW x \in Deques, deq'[x].frames > 0 PROVE Found(x)'
    <3>1. Found(x)
      BY <1>1, <2>3, <2>4 DEF StealInv, WorkInv
    <3>2. InPool(x) => InPool(x)'
      BY <1>3, <1>5 DEF InPool
    <3> QED
      BY <1>1, <1>4, <3>1, <3>2 DEF Found
  <2> QED
    BY <1>1, <1>4, <1>8, <2>1, <2>2, <2>3, <2>4, StealKeeps DEF Thief
<1> QED
  BY <1>7, <1>18, <1>19 DEF DequeInv

(* A future is done, and a worker takes a deque from its queue. *)
LEMMA CompleteKeeps ==
  ASSUME DequeInv, NEW w \in Workers, Complete(w)
  PROVE  DequeInv'
PROOF
<1>1. TypeOK /\ PlaceInv /\ StealInv /\ WorkerOK(w) /\ PoolInv /\ pc[w] = "run"
  BY PlaceParts DEF DequeInv, Complete
<1>2. PICK d \in waiting : /\ waiting' = waiting \ {d}
                           /\ loc' = [loc EXCEPT ![w] = [NoLocal EXCEPT !.d = d]]
  BY DEF Complete
<1>3. d \in Deques /\ DequeOK(d) /\ Pending(d)
  BY <1>1, <1>2, PlaceParts DEF TypeOK, Pending
<1>4. pc' = [pc EXCEPT ![w] = "resume"]
      /\ UNCHANGED <<deq, active, suspended_deques, resumable_deques, left>>
  BY DEF Complete
<1>5. /\ pc'[w] = "resume" /\ loc'[w].d = d /\ ~loc'[w].work /\ loc' \in [Workers -> Local]
      /\ \A v \in Workers : v # w => pc'[v] = pc[v] /\ loc'[v] = loc[v]
  <2>1. loc \in [Workers -> Local] /\ pc'[w] = "resume"
    BY <1>1, <1>4 DEF TypeOK
  <2>2. loc'[w] = [NoLocal EXCEPT !.d = d]
    BY <1>2, <2>1
  <2>3. loc'[w] \in Local /\ loc'[w].d = d /\ ~loc'[w].work
    BY <1>3, <2>2 DEF NoLocal, Local
  <2> QED
    BY <1>1, <1>2, <1>4, <2>1, <2>3 DEF TypeOK
<1>6. TypeOK'
  BY <1>1, <1>2, <1>4, <1>5 DEF TypeOK
<1>7. Alone(w)
  BY <1>4, <1>5 DEF Alone
<1>8. PoolInv'
  BY <1>1, <1>4 DEF PoolInv
<1>9. \A x \in Deques : x # d => Unmoved(w, x)
  BY <1>1, <1>2, <1>4, <1>5 DEF Unmoved, Kept, Held, Suspending, RunsOn, Resuming, Leaving
<1>10. \A x \in Deques : x # d => DequeOK(x)' /\ (Pending(x)' <=> Pending(x))
  BY <1>1, <1>7, <1>9, UnmovedKeeps
<1>11. Pending(d)'
  BY <1>5 DEF Pending
<1>12. ASSUME NEW v \in Workers, v # w PROVE WorkerOK(v)'
  <2>1. \A x \in Deques : Kept(x)
    BY <1>4 DEF Kept
  <2> QED
    BY <1>1, <1>7, <1>10, <1>11, <1>12, <2>1, OthersKeep
<1>13. WorkerOK(w)'
  <2>1. ControlOK(w)'
    BY <1>3, <1>5 DEF ControlOK, Thief
  <2>2. ActiveOK(w)'
    BY <1>1, <1>4, <1>5 DEF ActiveOK, WorkerOK
  <2> QED
    BY <1>5, <2>1, <2>2 DEF WorkerOK, SuspendOK, HeldOK
<1>14. DequeOK(d)'
  <2>1. \A v \in Workers : (Held(v, d)' <=> v = w) /\ (Leaving(v, d)' <=> Leaving(v, d))
    BY <1>1, <1>2, <1>3, <1>5 DEF DequeOK, Held, Leaving
  <2>2. PendingOK(d)
    BY <1>3 DEF DequeOK
  <2>3. PendingOK(d)'
    <3>1. active[w] # d /\ \A v \in Workers : v # w => (Suspending(v, d)' <=> Suspending(v, d))
      BY <1>1, <1>4, <1>5, <2>2 DEF PendingOK, Suspending
    <3>2. ~Suspending(w, d)
      BY <1>1 DEF Suspending
    <3>3. (\E v \in Workers : Suspending(v, d)) => \E v \in Workers : Suspending(v, d)'
      BY <3>1, <3>2
    <3>4. (Out(d) <=> Out(d)') /\ (Pooled(d) <=> Pooled(d)')
      BY <1>4 DEF Out, Pooled, InPool
    <3>5. \A v \in Workers : active'[v] = d => pc'[v] \in {"suspend", "switch"}
      BY <1>4, <1>5, <2>2, <3>1 DEF PendingOK
    <3> QED
      BY <1>4, <2>2, <3>3, <3>4, <3>5 DEF PendingOK
  <2>4. Somewhere(d)' /\ deq'[d].live /\ d \notin waiting'
    BY <1>2, <1>4, <2>1, <2>2 DEF Somewhere, PendingOK
  <2> QED
    BY <1>3, <2>1, <2>3, <2>4 DEF DequeOK
<1>15. PlaceInv'
  BY <1>6, <1>8, <1>10, <1>12, <1>13, <1>14, PlacePartsNext
<1>16. StealInv'
  <2>1. EmptyOK(w)'
    BY <1>5 DEF EmptyOK, Stuck
  <2>2. \A x \in Deques : deq'[x].frames > 0 => Found(x)'
    BY <1>1, <1>4, <1>5 DEF Found, InPool, StealInv, WorkInv
  <2>3. \A x \in Deques : /\ deq'[x].worker = deq[x].worker /\ (Pooled(x) => Pooled(x)')
                          /\ deq'[x].exc = deq[x].exc /\ deq'[x].frames = deq[x].frames
    BY <1>4 DEF Pooled, InPool
  <2> QED
    BY <1>1, <1>4, <1>5, <1>7, <2>1, <2>2, <2>3, StealKeeps DEF Thief
<1> QED
  BY <1>6, <1>15, <1>16 DEF DequeInv

(* What a worker knows of the fully suspended deque that it holds. *)
LEMMA HeldAlone ==
  ASSUME TypeOK, PlaceInv, NEW w \in Workers, NEW d \in Deques, Held(w, d),
         deq[d].fiber = "ready"
  PROVE  /\ deq[d].live /\ d \notin waiting
         /\ \A v \in Workers : active[v] # d /\ ~Leaving(v, d) /\ (Held(v, d) => v = w)
PROOF
<1>1. DequeOK(d)
  BY PlaceParts
<1>2. deq[d].live /\ d \notin waiting /\ \A v \in Workers : Held(v, d) => v = w
  BY <1>1 DEF DequeOK
<1>3. \A v \in Workers : ~Leaving(v, d)
  BY Apart
<1>4. ASSUME NEW v \in Workers, active[v] = d PROVE FALSE
  <2>1. pc[v] \in {"suspend", "switch"}
    BY <1>4, Apart
  <2>2. ActiveOK(v)
    BY PlaceParts DEF WorkerOK
  <2> QED
    BY <1>4, <2>1, <2>2 DEF ActiveOK
<1> QED
  BY <1>2, <1>3, <1>4

(* It reads whose the fully suspended deque is. *)
LEMMA ReadOwnerKeeps ==
  ASSUME DequeInv, NEW w \in Workers, ReadOwner(w)
  PROVE  DequeInv'
PROOF
<1>1. TypeOK /\ PlaceInv /\ StealInv /\ WorkerOK(w) /\ PoolInv /\ pc[w] = "resume"
  BY PlaceParts DEF DequeInv, ReadOwner
<1>2. PICK d \in Deques : d = loc[w].d /\ Held(w, d) /\ Pending(d)
  BY <1>1 DEF WorkerOK, ControlOK, Held, Pending
<1>3. /\ deq[d].fiber = "ready" /\ loc' = [loc EXCEPT ![w].victim = deq[d].worker]
      /\ pc' = [pc EXCEPT ![w] = IF deq[d].worker = NULL THEN "free" ELSE "owned"]
      /\ UNCHANGED <<deq, active, suspended_deques, resumable_deques, waiting, left>>
  BY <1>2 DEF ReadOwner, FullySuspended
<1>4. deq[d].worker \in Workers \cup {NULL} /\ DequeOK(d)
  BY <1>1, PlaceParts DEF TypeOK, Deque
<1>5. PendingOK(d)
  BY <1>2, <1>4 DEF DequeOK
<1>6. /\ deq[d].live /\ d \notin waiting
      /\ \A v \in Workers : active[v] # d /\ ~Leaving(v, d) /\ (Held(v, d) => v = w)
  BY <1>1, <1>2, <1>3, HeldAlone
<1>7. /\ pc'[w] = (IF deq[d].worker = NULL THEN "free" ELSE "owned") /\ loc'[w].d = d
      /\ loc'[w].victim = deq[d].worker /\ loc' \in [Workers -> Local]
      /\ \A v \in Workers : v # w => pc'[v] = pc[v] /\ loc'[v] = loc[v]
  <2>1. loc \in [Workers -> Local] /\ loc[w] \in Local
        /\ pc'[w] = IF deq[d].worker = NULL THEN "free" ELSE "owned"
    BY <1>1, <1>3 DEF TypeOK
  <2>2. loc'[w] = [loc[w] EXCEPT !.victim = deq[d].worker]
    BY <1>3, <2>1
  <2>3. loc'[w] \in Local /\ loc'[w].d = d /\ loc'[w].victim = deq[d].worker
    BY <1>2, <1>4, <2>1, <2>2 DEF Local
  <2> QED
    BY <1>1, <1>3, <2>1, <2>3 DEF TypeOK
<1>8. TypeOK'
  <2>1. pc' \in [Workers -> {"run", "pop", "check", "idle", "probe", "dekker", "detach",
                             "suspend", "switch", "park", "jump",
                             "resume", "owned", "free", "give", "mugged"}]
    BY <1>1, <1>3 DEF TypeOK
  <2> QED
    BY <1>1, <1>3, <1>7, <2>1 DEF TypeOK
<1>9. Alone(w)
  BY <1>3, <1>7 DEF Alone
<1>10. PoolInv'
  BY <1>1, <1>3 DEF PoolInv
<1>11. \A x \in Deques : x # d => Unmoved(w, x)
  BY <1>1, <1>2, <1>3, <1>7 DEF Unmoved, Kept, Held, Suspending, RunsOn, Resuming, Leaving
<1>12. \A x \in Deques : x # d => DequeOK(x)' /\ (Pending(x)' <=> Pending(x))
  BY <1>1, <1>9, <1>11, UnmovedKeeps
<1>13. ASSUME NEW v \in Workers, v # w PROVE WorkerOK(v)'
  <2>1. \A x \in Deques : Kept(x)
    BY <1>3 DEF Kept
  <2> QED
    BY <1>1, <1>6, <1>9, <1>12, <1>13, <2>1, OthersKeep
<1>14. WorkerOK(w)'
  <2>1. ControlOK(w)'
    BY <1>2, <1>4, <1>7 DEF ControlOK, Thief
  <2>2. ActiveOK(w)'
    BY <1>1, <1>3, <1>7 DEF ActiveOK, WorkerOK
  <2>3. HeldOK(w)'
    <3>1. ~deq[d].resumable /\ (Out(d) \/ Pooled(d))
      BY <1>3, <1>5 DEF PendingOK
    <3> QED
      BY <1>3, <1>7, <3>1 DEF HeldOK, Out, Pooled, InPool
  <2> QED
    BY <1>7, <2>1, <2>2, <2>3 DEF WorkerOK, SuspendOK
<1>15. DequeOK(d)'
  <2>1. \A v \in Workers : /\ (Held(v, d)' <=> Held(v, d)) /\ ~Leaving(v, d)'
    BY <1>1, <1>2, <1>6, <1>7 DEF Held, Leaving
  <2>2. ~Pending(d)'
    BY <1>3, <1>6, <1>7 DEF Pending, Held
  <2>3. Somewhere(d)' /\ deq'[d].live /\ d \notin waiting'
    BY <1>2, <1>3, <1>6, <2>1 DEF Somewhere
  <2> QED
    BY <1>4, <1>6, <2>1, <2>2, <2>3 DEF DequeOK
<1>16. PlaceInv'
  BY <1>8, <1>10, <1>12, <1>13, <1>14, <1>15, PlacePartsNext
<1>17. StealInv'
  <2>1. EmptyOK(w)'
    BY <1>7 DEF EmptyOK, Stuck
  <2>2. \A x \in Deques : deq'[x].frames > 0 => Found(x)'
    BY <1>1, <1>3, <1>7 DEF Found, InPool, StealInv, WorkInv
  <2>3. \A x \in Deques : /\ deq'[x].worker = deq[x].worker /\ (Pooled(x) => Pooled(x)')
                          /\ deq'[x].exc = deq[x].exc /\ deq'[x].frames = deq[x].frames
    BY <1>3 DEF Pooled, InPool
  <2> QED
    BY <1>1, <1>3, <1>7, <1>9, <2>1, <2>2, <2>3, StealKeeps DEF Thief
<1> QED
  BY <1>8, <1>16, <1>17 DEF DequeInv

(* A deque in no pool gets an owner, ... *)
LEMMA ResumeFreeKeeps ==
  ASSUME DequeInv, NEW w \in Workers, ResumeFree(w)
  PROVE  DequeInv'
PROOF
<1>1. TypeOK /\ PlaceInv /\ StealInv /\ WorkerOK(w) /\ PoolInv /\ pc[w] = "free"
  BY PlaceParts DEF DequeInv, ResumeFree
<1>2. PICK d \in Deques : d = loc[w].d /\ Held(w, d)
  BY <1>1 DEF WorkerOK, ControlOK, Held
<1>3. PICK victim \in Workers :
        /\ deq' = [deq EXCEPT ![d].resumable = TRUE, ![d].worker = victim]
        /\ loc' = [loc EXCEPT ![w].victim = victim]
  BY <1>2 DEF ResumeFree
<1>4. /\ pc' = [pc EXCEPT ![w] = "give"]
      /\ UNCHANGED <<active, suspended_deques, resumable_deques, waiting, left>>
  BY DEF ResumeFree
<1>5. /\ deq \in [Deques -> Deque] /\ deq[d] \in Deque /\ DequeOK(d) /\ deq[d].fiber = "ready"
      /\ deq[d].worker = NULL /\ deq[d].self = INVALID_DEQUE_INDEX
  BY <1>1, <1>2, PlaceParts DEF TypeOK, WorkerOK, HeldOK, Out
<1>6. /\ deq[d].live /\ d \notin waiting
      /\ \A v \in Workers : active[v] # d /\ ~Leaving(v, d) /\ (Held(v, d) => v = w)
  BY <1>1, <1>2, <1>5, HeldAlone
<1>7. /\ deq'[d].live /\ deq'[d].worker = victim /\ deq'[d].self = INVALID_DEQUE_INDEX
      /\ deq'[d].resumable /\ deq'[d].fiber = "ready"
      /\ deq'[d].frames = deq[d].frames /\ deq'[d].exc = deq[d].exc
      /\ deq' \in [Deques -> Deque] /\ \A x \in Deques : x # d => deq'[x] = deq[x]
  <2>1. deq'[d] = [deq[d] EXCEPT !.resumable = TRUE, !.worker = victim]
        /\ \A x \in Deques : x # d => deq'[x] = deq[x]
    BY <1>3, <1>5
  <2>2. deq'[d] = [live |-> deq[d].live, worker |-> victim, self |-> deq[d].self,
                   resumable |-> TRUE, fiber |-> deq[d].fiber,
                   frames |-> deq[d].frames, exc |-> deq[d].exc]
    BY <1>5, <2>1 DEF Deque
  <2>3. deq'[d] \in Deque
    BY <1>5, <2>2 DEF Deque
  <2>4. deq' \in [Deques -> Deque]
    BY <1>3, <1>5, <2>1, <2>3
  <2> QED
    BY <1>5, <1>6, <2>1, <2>2, <2>4
<1>8. /\ pc'[w] = "give" /\ loc'[w].d = d /\ loc'[w].victim = victim /\ loc' \in [Workers -> Local]
      /\ \A v \in Workers : v # w => pc'[v] = pc[v] /\ loc'[v] = loc[v]
  <2>1. loc \in [Workers -> Local] /\ loc[w] \in Local /\ pc'[w] = "give"
    BY <1>1, <1>4 DEF TypeOK
  <2>2. loc'[w] = [loc[w] EXCEPT !.victim = victim]
    BY <1>3, <2>1
  <2>3. loc'[w] \in Local /\ loc'[w].d = d /\ loc'[w].victim = victim
    BY <1>2, <2>1, <2>2 DEF Local
  <2> QED
    BY <1>1, <1>3, <1>4, <2>1, <2>3 DEF TypeOK
<1>9. TypeOK'
  BY <1>1, <1>4, <1>7, <1>8 DEF TypeOK
<1>10. Alone(w)
  BY <1>4, <1>8 DEF Alone
<1>11. PoolInv'
  <2>1. ~Says(deq[d], TRUE) /\ ~Says(deq[d], FALSE) /\ ~Says(deq'[d], TRUE) /\ ~Says(deq'[d], FALSE)
    BY <1>5, <1>7 DEF Says, INVALID_DEQUE_INDEX
  <2> QED
    BY <1>1, <1>4, <1>7, <2>1, PoolsUntouched
<1>12. \A x \in Deques : x # d => Unmoved(w, x)
  BY <1>1, <1>2, <1>4, <1>7, <1>8 DEF Unmoved, Kept, Held, Suspending, RunsOn, Resuming, Leaving
<1>13. \A x \in Deques : x # d => DequeOK(x)' /\ (Pending(x)' <=> Pending(x))
  BY <1>1, <1>10, <1>12, UnmovedKeeps
<1>14. ASSUME NEW v \in Workers, v # w PROVE WorkerOK(v)'
  <2>1. \A x \in Deques : x # d => Kept(x)
    BY <1>7 DEF Kept
  <2>2. ~Held(v, d)
    BY <1>6, <1>14
  <2> QED
    BY <1>1, <1>6, <1>10, <1>13, <1>14, <2>1, <2>2, OthersKeep
<1>15. WorkerOK(w)'
  <2>1. ControlOK(w)'
    BY <1>2, <1>8 DEF ControlOK, Thief
  <2>2. ActiveOK(w)'
    <3>1. active[w] \in Deques /\ active[w] # d
      BY <1>1, <1>6 DEF TypeOK
    <3> QED
      BY <1>1, <1>4, <1>7, <1>8, <3>1 DEF ActiveOK, WorkerOK
  <2>3. HeldOK(w)'
    BY <1>7, <1>8 DEF HeldOK
  <2> QED
    BY <1>8, <2>1, <2>2, <2>3 DEF WorkerOK, SuspendOK
<1>16. DequeOK(d)'
  <2>1. \A v \in Workers : (Held(v, d)' <=> v = w) /\ ~Leaving(v, d)'
    BY <1>1, <1>2, <1>6, <1>8 DEF Held, Leaving
  <2>2. ~Pending(d)'
    BY <1>4, <1>6, <1>8 DEF Pending, Held
  <2>3. Somewhere(d)' /\ d \notin waiting'
    BY <1>4, <1>6, <2>1 DEF Somewhere
  <2> QED
    BY <1>7, <2>1, <2>2, <2>3 DEF DequeOK
<1>17. PlaceInv'
  BY <1>9, <1>11, <1>13, <1>14, <1>15, <1>16, PlacePartsNext
<1>18. StealInv'
  <2>1. EmptyOK(w)'
    BY <1>8 DEF EmptyOK, Stuck
  <2>2. ASSUME NEW x \in Deques, deq'[x].frames > 0 PROVE Found(x)'
    <3>1. Found(x)
      BY <1>1, <1>7, <2>2 DEF StealInv, WorkInv
    <3>2. x # d
      <4>1. ~Found(d)
        BY <1>1, <1>5, <1>6 DEF Found, InPool, Held, Leaving
      <4> QED
        BY <3>1, <4>1
    <3> QED
      BY <1>1, <1>2, <1>4, <1>7, <1>8, <3>1, <3>2 DEF Found, InPool
  <2>3. Safe(d)
    BY <1>1, <1>5, SafeDeque
  <2>4. \A x \in Deques : x # d => deq'[x].worker = deq[x].worker /\ (Pooled(x) => Pooled(x)')
    BY <1>7 DEF Pooled, InPool
  <2>5. \A x \in Deques : deq'[x].exc = deq[x].exc /\ deq'[x].frames = deq[x].frames
    BY <1>7
  <2> QED
    BY <1>1, <1>4, <1>8, <1>10, <2>1, <2>2, <2>3, <2>4, <2>5, StealKeeps DEF Thief
<1> QED
  BY <1>9, <1>17, <1>18 DEF DequeInv

(* ... and a place in its pool. *)
LEMMA GiveKeeps ==
  ASSUME DequeInv, NEW w \in Workers, Give(w)
  PROVE  DequeInv'
PROOF
<1>1. TypeOK /\ PlaceInv /\ StealInv /\ WorkerOK(w) /\ PoolInv /\ pc[w] = "give"
  BY PlaceParts DEF DequeInv, Give
<1>2. PICK d \in Deques, victim \in Workers : d = loc[w].d /\ Held(w, d) /\ victim = loc[w].victim
  BY <1>1 DEF WorkerOK, ControlOK, Held
<1>3. PICK place \in Nat : place = Len(resumable_deques[victim])
  BY <1>1 DEF TypeOK
<1>4. /\ deq' = [deq EXCEPT ![d] = Placed(deq[d], place, victim)]
      /\ resumable_deques' = Grown(resumable_deques, victim, d)
      /\ loc' = [loc EXCEPT ![w] = NoLocal] /\ pc' = [pc EXCEPT ![w] = "run"]
      /\ UNCHANGED <<active, suspended_deques, waiting, left>>
  BY <1>2, <1>3 DEF Give, Added, Grown, Placed
<1>5. /\ deq \in [Deques -> Deque] /\ deq[d] \in Deque /\ DequeOK(d) /\ deq[d].fiber = "ready"
      /\ deq[d].resumable /\ deq[d].worker = victim /\ deq[d].self = INVALID_DEQUE_INDEX
  BY <1>1, <1>2, PlaceParts DEF TypeOK, WorkerOK, HeldOK
<1>6. /\ deq[d].live /\ d \notin waiting
      /\ \A v \in Workers : active[v] # d /\ ~Leaving(v, d) /\ (Held(v, d) => v = w)
  BY <1>1, <1>2, <1>5, HeldAlone
<1>7. /\ deq'[d].live /\ deq'[d].worker = victim /\ deq'[d].self = place
      /\ deq'[d].resumable = TRUE /\ deq'[d].fiber = "ready"
      /\ deq'[d].frames = deq[d].frames /\ deq'[d].exc = deq[d].exc
      /\ deq' \in [Deques -> Deque] /\ \A x \in Deques : x # d => deq'[x] = deq[x]
  <2>1. deq'[d] = [deq[d] EXCEPT !.self = place, !.worker = victim]
        /\ \A x \in Deques : x # d => deq'[x] = deq[x]
    BY <1>4, <1>5 DEF Placed
  <2>2. deq'[d] = [live |-> deq[d].live, worker |-> victim, self |-> place,
                   resumable |-> deq[d].resumable, fiber |-> deq[d].fiber,
                   frames |-> deq[d].frames, exc |-> deq[d].exc]
    BY <1>5, <2>1 DEF Deque
  <2>3. deq'[d] \in Deque
    BY <1>3, <1>5, <2>2 DEF Deque
  <2>4. deq' \in [Deques -> Deque]
    BY <1>4, <1>5, <2>1, <2>3
  <2>5. deq[d].resumable = TRUE
    BY <1>5 DEF Deque
  <2> QED
    BY <1>5, <1>6, <2>1, <2>2, <2>4, <2>5
<1>8. /\ pc'[w] = "run" /\ loc'[w] = NoLocal /\ loc' \in [Workers -> Local]
      /\ \A v \in Workers : v # w => pc'[v] = pc[v] /\ loc'[v] = loc[v]
  <2>1. NoLocal \in Local
    BY DEF NoLocal, Local
  <2> QED
    BY <1>1, <1>4, <2>1 DEF TypeOK
<1>9. Says(deq'[d], TRUE) /\ InPool(d)'
  BY <1>3, <1>7, Constants DEF Says, InPool
<1>10. PoolInv' /\ resumable_deques' \in [Workers -> Seq(Deques)]
  <2>1. /\ suspended_deques \in [Workers -> Seq(Deques)] /\ resumable_deques \in [Workers -> Seq(Deques)]
        /\ Indexed(deq, suspended_deques, FALSE) /\ Indexed(deq, resumable_deques, TRUE)
    BY <1>1 DEF TypeOK, PoolInv
  <2>2. ~Says(deq[d], FALSE) /\ ~Says(deq[d], TRUE) /\ ~Says(deq'[d], FALSE)
    BY <1>5, <1>7 DEF Says, INVALID_DEQUE_INDEX
  <2>3. \A x \in Deques : x # d =>
          /\ deq'[x].worker = deq[x].worker /\ deq'[x].self = deq[x].self
          /\ deq'[x].resumable = deq[x].resumable
    BY <1>7
  <2>4. /\ Grown(resumable_deques, victim, d) \in [Workers -> Seq(Deques)]
        /\ Indexed(deq', Grown(resumable_deques, victim, d), TRUE)
    <3>1. PICK r : r = TRUE
      OBVIOUS
    <3>2. deq'[d].worker = victim /\ deq'[d].self = Len(resumable_deques[victim]) /\ deq'[d].resumable = r
      BY <1>3, <1>7, <3>1
    <3>3. Indexed(deq, resumable_deques, r) /\ ~Says(deq[d], r)
      BY <2>1, <2>2, <3>1
    <3>4. deq \in [Deques -> Deque] /\ resumable_deques \in [Workers -> Seq(Deques)]
      BY <1>5, <2>1
    <3>5. AddedTo(deq, deq', resumable_deques, victim, d, r)
      BY <2>3, <3>2 DEF AddedTo
    <3>6. /\ Grown(resumable_deques, victim, d) \in [Workers -> Seq(Deques)]
          /\ Indexed(deq', Grown(resumable_deques, victim, d), r)
      BY <3>3, <3>4, <3>5, AddIndexed
    <3> QED
      BY <3>1, <3>6
  <2>5. Indexed(deq', suspended_deques, FALSE)
    BY <2>1, <2>2, <2>3, SameIndexed
  <2>6. \A x \in Deques : Says(deq'[x], TRUE) => deq'[x].fiber = "ready"
    BY <1>1, <1>7 DEF PoolInv
  <2> QED
    BY <1>4, <2>4, <2>5, <2>6 DEF PoolInv
<1>11. TypeOK'
  BY <1>1, <1>4, <1>7, <1>8, <1>10 DEF TypeOK
<1>12. Alone(w)
  BY <1>4, <1>8 DEF Alone
<1>13. \A x \in Deques : x # d => Unmoved(w, x)
  BY <1>1, <1>2, <1>4, <1>7, <1>8 DEF Unmoved, Kept, Held, Suspending, RunsOn, Resuming, Leaving
<1>14. \A x \in Deques : x # d => DequeOK(x)' /\ (Pending(x)' <=> Pending(x))
  BY <1>1, <1>12, <1>13, UnmovedKeeps
<1>15. ASSUME NEW v \in Workers, v # w PROVE WorkerOK(v)'
  <2>1. \A x \in Deques : x # d => Kept(x)
    BY <1>7 DEF Kept
  <2>2. ~Held(v, d)
    BY <1>6, <1>15
  <2> QED
    BY <1>1, <1>6, <1>12, <1>14, <1>15, <2>1, <2>2, OthersKeep
<1>16. WorkerOK(w)'
  <2>1. ControlOK(w)'
    BY <1>8 DEF ControlOK, Thief
  <2>2. ActiveOK(w)'
    <3>1. active[w] \in Deques /\ active[w] # d
      BY <1>1, <1>6 DEF TypeOK
    <3> QED
      BY <1>1, <1>4, <1>7, <1>8, <3>1 DEF ActiveOK, WorkerOK
  <2> QED
    BY <1>8, <2>1, <2>2 DEF WorkerOK, HeldOK, SuspendOK
<1>17. DequeOK(d)'
  <2>1. \A v \in Workers : ~Held(v, d)' /\ ~Leaving(v, d)'
    BY <1>6, <1>8 DEF Held, Leaving
  <2>2. ~Pending(d)'
    BY <1>4, <1>6, <1>8 DEF Pending, Held
  <2>3. Somewhere(d)'
    BY <1>9 DEF Somewhere
  <2> QED
    BY <1>7, <2>1, <2>2, <2>3 DEF DequeOK
<1>18. PlaceInv'
  BY <1>10, <1>11, <1>14, <1>15, <1>16, <1>17, PlacePartsNext
<1>19. StealInv'
  <2>1. EmptyOK(w)'
    BY <1>8 DEF EmptyOK, Stuck
  <2>2. ASSUME NEW x \in Deques, deq'[x].frames > 0 PROVE Found(x)'
    <3>1. CASE x = d
      BY <1>9, <3>1 DEF Found
    <3>2. CASE x # d
      <4>1. Found(x)
        BY <1>1, <1>7, <2>2, <3>2 DEF StealInv, WorkInv
      <4> QED
        BY <1>1, <1>2, <1>4, <1>7, <1>8, <3>2, <4>1 DEF Found, InPool
    <3> QED
      BY <3>1, <3>2
  <2>3. Safe(d)
    <3>1. ~Pooled(d)
      BY <1>5 DEF Pooled
    <3> QED
      BY <1>1, <1>6, <3>1, SafeDeque
  <2>4. \A x \in Deques : x # d => deq'[x].worker = deq[x].worker /\ (Pooled(x) => Pooled(x)')
    BY <1>7 DEF Pooled, InPool
  <2>5. \A x \in Deques : deq'[x].exc = deq[x].exc /\ deq'[x].frames = deq[x].frames
    BY <1>7
  <2> QED
    BY <1>1, <1>4, <1>8, <1>12, <2>1, <2>2, <2>3, <2>4, <2>5, StealKeeps DEF Thief
<1> QED
  BY <1>11, <1>18, <1>19 DEF DequeInv

(* What deque_pool_remove makes of the deque objects. *)
Taken(d, last) ==
  [deq EXCEPT ![last].self = deq[d].self, ![d].self = INVALID_DEQUE_INDEX, ![d].worker = NULL]

(* It takes d out, and tells the deque that moved. *)
LEMMA RemovedShape ==
  ASSUME deq \in [Deques -> Deque], NEW d \in Deques, NEW last \in Deques, NEW dm, dm = Taken(d, last)
  PROVE  /\ dm \in [Deques -> Deque]
         /\ dm[d] = [live |-> deq[d].live, worker |-> NULL, self |-> INVALID_DEQUE_INDEX,
                     resumable |-> deq[d].resumable, fiber |-> deq[d].fiber,
                     frames |-> deq[d].frames, exc |-> deq[d].exc]
         /\ \A x \in Deques : x # d =>
              dm[x] = IF x = last THEN [deq[x] EXCEPT !.self = deq[d].self] ELSE deq[x]
PROOF
<1>1. PICK k \in Int : k = deq[d].self
  BY DEF Deque
<1>2. PICK d1 : d1 = [deq EXCEPT ![last].self = k]
  OBVIOUS
<1>3. d1 \in [Deques -> Deque]
  <2>1. [deq[last] EXCEPT !.self = k] \in Deque
    BY DEF Deque
  <2> QED
    BY <1>2, <2>1
<1>4. d1[d] \in Deque
  BY <1>3
<1>5. \A x \in Deques : d1[x] = IF x = last THEN [deq[x] EXCEPT !.self = k] ELSE deq[x]
  BY <1>2
<1>6. dm = [d1 EXCEPT ![d] = [[d1[d] EXCEPT !.self = INVALID_DEQUE_INDEX] EXCEPT !.worker = NULL]]
  BY <1>1, <1>2, <1>3 DEF Taken
<1>7. /\ dm[d] = [[d1[d] EXCEPT !.self = INVALID_DEQUE_INDEX] EXCEPT !.worker = NULL]
      /\ \A x \in Deques : x # d => dm[x] = d1[x]
  BY <1>3, <1>6
<1>8. dm[d] = [live |-> d1[d].live, worker |-> NULL, self |-> INVALID_DEQUE_INDEX,
               resumable |-> d1[d].resumable, fiber |-> d1[d].fiber,
               frames |-> d1[d].frames, exc |-> d1[d].exc]
  BY <1>4, <1>7 DEF Deque
<1>9. /\ d1[d].live = deq[d].live /\ d1[d].resumable = deq[d].resumable
      /\ d1[d].fiber = deq[d].fiber /\ d1[d].frames = deq[d].frames /\ d1[d].exc = deq[d].exc
  BY <1>5 DEF Deque
<1>10. dm[d] \in Deque
  BY <1>4, <1>8 DEF Deque, INVALID_DEQUE_INDEX
<1>11. dm \in [Deques -> Deque]
  BY <1>3, <1>6, <1>7, <1>10
<1> QED
  BY <1>1, <1>5, <1>7, <1>8, <1>9, <1>11

(* What is left of the pools when d is taken from a pool of suspended      *)
(* deques, the last of which takes its place.                              *)
LEMMA TakeSuspended ==
  ASSUME TypeOK, PoolInv, NEW v \in Workers, NEW d \in Deques, Pooled(d), deq[d].worker = v,
         ~Says(deq'[d], FALSE),
         \A x \in Deques : x # d =>
            /\ deq'[x].worker = deq[x].worker /\ deq'[x].resumable = deq[x].resumable
            /\ deq'[x].self = IF x = Last(suspended_deques[v]) THEN deq[d].self ELSE deq[x].self,
         suspended_deques' = Shrunk(suspended_deques, v, deq[d].self + 1)
  PROVE  suspended_deques' \in [Workers -> Seq(Deques)] /\ Indexed(deq', suspended_deques', FALSE)
PROOF
<1>1. /\ deq \in [Deques -> Deque] /\ suspended_deques \in [Workers -> Seq(Deques)]
      /\ deq[d] \in Deque
  BY DEF TypeOK
<1>2. PICK r : r = FALSE
  OBVIOUS
<1>3. deq[d].resumable \in BOOLEAN
  BY <1>1 DEF Deque
<1>4. Indexed(deq, suspended_deques, r) /\ Says(deq[d], r) /\ ~Says(deq'[d], r)
  BY <1>2, <1>3 DEF PoolInv, Says, Pooled, InPool
<1>5. /\ Shrunk(suspended_deques, v, deq[d].self + 1) \in [Workers -> Seq(Deques)]
      /\ Indexed(deq', Shrunk(suspended_deques, v, deq[d].self + 1), r)
  BY <1>1, <1>4, RemoveIndexed
<1> QED
  BY <1>2, <1>5

(* The last deque of a pool of suspended deques. *)
LEMMA LastPooled ==
  ASSUME TypeOK, PoolInv, NEW v \in Workers, NEW d \in Deques, Pooled(d), deq[d].worker = v
  PROVE  LET last == Last(suspended_deques[v])
         IN  last \in Deques /\ Pooled(last) /\ deq[last].worker = v
PROOF
<1> DEFINE pool == suspended_deques[v]
           last == Last(pool)
<1>1. pool \in Seq(Deques) /\ deq[d] \in Deque
  BY DEF TypeOK
<1>2. Says(deq[d], FALSE)
  <2>1. deq[d].resumable \in BOOLEAN
    BY <1>1 DEF Deque
  <2> QED
    BY <2>1 DEF Says, Pooled, InPool
<1>3. deq[d].self + 1 \in 1..Len(pool)
  BY <1>2 DEF PoolInv, Indexed
<1>4. Len(pool) \in 1..Len(pool) /\ last = pool[Len(pool)] /\ last \in Deques
  BY <1>1, <1>3 DEF Last
<1>5. deq[last].worker = v /\ deq[last].self = Len(pool) - 1 /\ deq[last].resumable = FALSE
  BY <1>4 DEF PoolInv, Indexed
<1> QED
  BY <1>1, <1>4, <1>5, Constants DEF Pooled, InPool

(* A deque that was mugged before its owner could be locked is in no pool. *)
LEMMA OrphanedKeeps ==
  ASSUME DequeInv, NEW w \in Workers, ResumeOwned(w), ~StillOwned(w)
  PROVE  DequeInv'
PROOF
<1>1. TypeOK /\ PlaceInv /\ StealInv /\ WorkerOK(w) /\ PoolInv /\ pc[w] = "owned"
  BY PlaceParts DEF DequeInv, ResumeOwned
<1>2. PICK d \in Deques : d = loc[w].d
  BY <1>1 DEF WorkerOK, ControlOK
<1>3. deq[d].fiber = "ready" /\ ~deq[d].resumable /\ Out(d)
  BY <1>1, <1>2 DEF WorkerOK, HeldOK, StillOwned, Pooled, InPool
<1>4. /\ loc' = [loc EXCEPT ![w].victim = NULL] /\ pc' = [pc EXCEPT ![w] = "free"]
      /\ UNCHANGED <<deq, active, suspended_deques, resumable_deques, waiting, left>>
  BY DEF ResumeOwned, Orphaned
<1>5. /\ pc'[w] = "free" /\ loc'[w].d = d /\ loc' \in [Workers -> Local]
      /\ \A v \in Workers : v # w => pc'[v] = pc[v] /\ loc'[v] = loc[v]
  <2>1. loc \in [Workers -> Local] /\ loc[w] \in Local /\ pc'[w] = "free"
    BY <1>1, <1>4 DEF TypeOK
  <2>2. loc'[w] = [loc[w] EXCEPT !.victim = NULL]
    BY <1>4, <2>1
  <2>3. loc'[w] \in Local /\ loc'[w].d = d
    BY <1>2, <2>1, <2>2 DEF Local
  <2> QED
    BY <1>1, <1>4, <2>1, <2>3 DEF TypeOK
<1>6. TypeOK'
  BY <1>1, <1>4, <1>5 DEF TypeOK
<1>7. Alone(w)
  BY <1>4, <1>5 DEF Alone
<1>8. PoolInv'
  BY <1>1, <1>4 DEF PoolInv
<1>9. \A x \in Deques : Unmoved(w, x)
  BY <1>1, <1>2, <1>4, <1>5 DEF Unmoved, Kept, Held, Suspending, RunsOn, Resuming, Leaving
<1>10. \A x \in Deques : DequeOK(x)' /\ (Pending(x)' <=> Pending(x))
  BY <1>1, <1>7, <1>9, UnmovedKeeps
<1>11. ASSUME NEW v \in Workers, v # w PROVE WorkerOK(v)'
  <2>1. \A x \in Deques : Kept(x)
    BY <1>9 DEF Unmoved
  <2> QED
    BY <1>1, <1>7, <1>10, <1>11, <2>1, OthersKeep
<1>12. WorkerOK(w)'
  <2>1. ControlOK(w)'
    BY <1>2, <1>5 DEF ControlOK, Thief
  <2>2. ActiveOK(w)'
    BY <1>1, <1>4, <1>5 DEF ActiveOK, WorkerOK
  <2>3. HeldOK(w)'
    BY <1>3, <1>4, <1>5 DEF HeldOK, Out
  <2> QED
    BY <1>5, <2>1, <2>2, <2>3 DEF WorkerOK, SuspendOK
<1>13. PlaceInv'
  BY <1>6, <1>8, <1>10, <1>11, <1>12, PlacePartsNext
<1>14. StealInv'
  <2>1. EmptyOK(w)'
    BY <1>5 DEF EmptyOK, Stuck
  <2>2. \A x \in Deques : deq'[x].frames > 0 => Found(x)'
    BY <1>1, <1>4, <1>5 DEF Found, InPool, StealInv, WorkInv
  <2>3. \A x \in Deques : /\ deq'[x].worker = deq[x].worker /\ (Pooled(x) => Pooled(x)')
                          /\ deq'[x].exc = deq[x].exc /\ deq'[x].frames = deq[x].frames
    BY <1>4 DEF Pooled, InPool
  <2> QED
    BY <1>1, <1>4, <1>5, <1>7, <2>1, <2>2, <2>3, StealKeeps DEF Thief
<1> QED
  BY <1>6, <1>13, <1>14 DEF DequeInv

(* Otherwise it goes from one pool of its owner to the other. *)
LEMMA StillOwnedKeeps ==
  ASSUME DequeInv, NEW w \in Workers, ResumeOwned(w), StillOwned(w)
  PROVE  DequeInv'
PROOF
<1>1. TypeOK /\ PlaceInv /\ StealInv /\ WorkerOK(w) /\ PoolInv /\ pc[w] = "owned"
  BY PlaceParts DEF DequeInv, ResumeOwned
<1>2. PICK d \in Deques, victim \in Workers : d = loc[w].d /\ Held(w, d) /\ victim = loc[w].victim
  BY <1>1 DEF WorkerOK, ControlOK, Held
<1>3. PICK place \in Nat : place = Len(resumable_deques[victim])
  BY <1>1 DEF TypeOK
<1>4. /\ deq \in [Deques -> Deque] /\ deq[d] \in Deque /\ DequeOK(d) /\ deq[d].fiber = "ready"
      /\ ~deq[d].resumable /\ deq[d].worker = victim /\ Pooled(d) /\ ~Locked(victim)
  <2>1. deq[d].fiber = "ready" /\ ~deq[d].resumable /\ deq[d].worker = victim /\ Pooled(d)
    BY <1>1, <1>2 DEF WorkerOK, HeldOK, StillOwned, Out
  <2>2. ~Locked(victim)
    BY <1>2 DEF ResumeOwned
  <2> QED
    BY <1>1, <2>1, <2>2, PlaceParts DEF TypeOK
<1>5. PICK last \in Deques : last = Last(suspended_deques[victim]) /\ Pooled(last) /\ deq[last].worker = victim
  BY <1>1, <1>4, LastPooled
<1>6. /\ deq' = [Removed(suspended_deques[victim], d) EXCEPT
                   ![d] = [Added(Removed(suspended_deques[victim], d)[d], resumable_deques[victim], victim)
                             EXCEPT !.resumable = TRUE]]
      /\ suspended_deques' = Shrunk(suspended_deques, victim, deq[d].self + 1)
      /\ resumable_deques' = Grown(resumable_deques, victim, d)
      /\ loc' = [loc EXCEPT ![w] = NoLocal] /\ pc' = [pc EXCEPT ![w] = "run"]
      /\ UNCHANGED <<active, waiting, left>>
  BY <1>2 DEF ResumeOwned, deque_pool_remove, Shrunk, Grown
<1>7. /\ deq[d].live /\ d \notin waiting
      /\ \A v \in Workers : active[v] # d /\ ~Leaving(v, d) /\ (Held(v, d) => v = w)
  BY <1>1, <1>2, <1>4, HeldAlone
<1>8. /\ deq'[d] = [live |-> deq[d].live, worker |-> victim, self |-> place,
                    resumable |-> TRUE, fiber |-> deq[d].fiber,
                    frames |-> deq[d].frames, exc |-> deq[d].exc]
      /\ \A x \in Deques : x # d => deq'[x] = IF x = last THEN [deq[x] EXCEPT !.self = deq[d].self] ELSE deq[x]
      /\ deq' \in [Deques -> Deque]
  <2>1. PICK dm : dm = Removed(suspended_deques[victim], d)
    OBVIOUS
  <2>2. dm = Taken(d, last)
    BY <1>5, <2>1 DEF Removed, Taken
  <2>3. /\ dm \in [Deques -> Deque]
        /\ dm[d] = [live |-> deq[d].live, worker |-> NULL, self |-> INVALID_DEQUE_INDEX,
                    resumable |-> deq[d].resumable, fiber |-> deq[d].fiber,
                    frames |-> deq[d].frames, exc |-> deq[d].exc]
        /\ \A x \in Deques : x # d => dm[x] = IF x = last THEN [deq[x] EXCEPT !.self = deq[d].self] ELSE deq[x]
    BY <1>4, <2>2, RemovedShape
  <2>4. dm[d] \in Deque
    BY <2>3
  <2>5. deq' = [dm EXCEPT ![d] = [[dm[d] EXCEPT !.self = place, !.worker = victim] EXCEPT !.resumable = TRUE]]
    BY <1>3, <1>6, <2>1 DEF Added
  <2>6. deq'[d] = [[dm[d] EXCEPT !.self = place, !.worker = victim] EXCEPT !.resumable = TRUE]
        /\ \A x \in Deques : x # d => deq'[x] = dm[x]
    BY <2>3, <2>5
  <2>7. deq'[d] = [live |-> deq[d].live, worker |-> victim, self |-> place,
                   resumable |-> TRUE, fiber |-> deq[d].fiber,
                   frames |-> deq[d].frames, exc |-> deq[d].exc]
    <3>1. PICK q : q = [dm[d] EXCEPT !.self = place, !.worker = victim]
      OBVIOUS
    <3>2. dm[d] = [live |-> deq[d].live, worker |-> NULL, self |-> INVALID_DEQUE_INDEX,
                   resumable |-> deq[d].resumable, fiber |-> deq[d].fiber,
                   frames |-> deq[d].frames, exc |-> deq[d].exc]
      BY <2>3
    <3>3. PICK m : m = dm[d]
      OBVIOUS
    <3>4. m = [live |-> deq[d].live, worker |-> NULL, self |-> INVALID_DEQUE_INDEX,
               resumable |-> deq[d].resumable, fiber |-> deq[d].fiber,
               frames |-> deq[d].frames, exc |-> deq[d].exc]
          /\ q = [m EXCEPT !.self = place, !.worker = victim]
      BY <3>1, <3>2, <3>3
    <3>5. q = [live |-> deq[d].live, worker |-> victim, self |-> place,
               resumable |-> deq[d].resumable, fiber |-> deq[d].fiber,
               frames |-> deq[d].frames, exc |-> deq[d].exc]
      BY <3>4
    <3>6. deq'[d] = [q EXCEPT !.resumable = TRUE]
      BY <2>6, <3>1
    <3> QED
      BY <3>5, <3>6
  <2>8. deq'[d] \in Deque
    BY <1>3, <1>4, <2>7 DEF Deque
  <2>9. deq' \in [Deques -> Deque]
    BY <2>3, <2>5, <2>6, <2>8
  <2> QED
    BY <2>3, <2>6, <2>7, <2>9
<1>9. /\ deq'[d].live /\ deq'[d].worker = victim /\ deq'[d].self = place
      /\ deq'[d].resumable = TRUE /\ deq'[d].fiber = "ready"
      /\ deq'[d].frames = deq[d].frames /\ deq'[d].exc = deq[d].exc
      /\ \A x \in Deques : x # d =>
           /\ deq'[x].live = deq[x].live /\ deq'[x].worker = deq[x].worker
           /\ deq'[x].self = (IF x = last THEN deq[d].self ELSE deq[x].self)
           /\ deq'[x].resumable = deq[x].resumable /\ deq'[x].fiber = deq[x].fiber
           /\ deq'[x].frames = deq[x].frames /\ deq'[x].exc = deq[x].exc
           /\ x # last => deq'[x] = deq[x]
  <2>1. \A x \in Deques : deq[x] \in Deque
    BY <1>4
  <2>2. ASSUME NEW x \in Deques, x # d
        PROVE  /\ deq'[x].live = deq[x].live /\ deq'[x].worker = deq[x].worker
               /\ deq'[x].self = (IF x = last THEN deq[d].self ELSE deq[x].self)
               /\ deq'[x].resumable = deq[x].resumable /\ deq'[x].fiber = deq[x].fiber
               /\ deq'[x].frames = deq[x].frames /\ deq'[x].exc = deq[x].exc
               /\ x # last => deq'[x] = deq[x]
    BY <1>8, <2>1, <2>2 DEF Deque
  <2> QED
    BY <1>4, <1>7, <1>8, <2>2
<1>10. /\ pc'[w] = "run" /\ loc'[w] = NoLocal /\ loc' \in [Workers -> Local]
       /\ \A v \in Workers : v # w => pc'[v] = pc[v] /\ loc'[v] = loc[v]
  <2>1. NoLocal \in Local
    BY DEF NoLocal, Local
  <2> QED
    BY <1>1, <1>6, <2>1 DEF TypeOK
<1>11. Says(deq'[d], TRUE) /\ InPool(d)' /\ deq[d].self \in Int /\ deq[d].self >= 0
  BY <1>3, <1>4, <1>9, Constants DEF Says, InPool, Pooled, Deque
<1>12. \A x \in Deques : x # d => Kept(x) /\ (Pooled(x) => Pooled(x)') /\ (InPool(x) => InPool(x)')
  <2>1. ASSUME NEW x \in Deques, x # d, x = last
        PROVE  Kept(x) /\ (Pooled(x) => Pooled(x)') /\ (InPool(x) => InPool(x)')
    BY <1>5, <1>9, <1>11, <2>1 DEF Kept, Pooled, InPool
  <2>2. ASSUME NEW x \in Deques, x # d, x # last
        PROVE  Kept(x) /\ (Pooled(x) => Pooled(x)') /\ (InPool(x) => InPool(x)')
    BY <1>9, <2>2 DEF Kept, Pooled, InPool
  <2> QED
    BY <2>1, <2>2
<1>13. /\ PoolInv' /\ resumable_deques' \in [Workers -> Seq(Deques)]
       /\ suspended_deques' \in [Workers -> Seq(Deques)]
  <2>1. /\ resumable_deques \in [Workers -> Seq(Deques)]
        /\ Indexed(deq, resumable_deques, TRUE)
    BY <1>1 DEF TypeOK, PoolInv
  <2>2. ~Says(deq[d], TRUE) /\ ~Says(deq'[d], FALSE)
    BY <1>4, <1>9 DEF Says
  <2>3. suspended_deques' \in [Workers -> Seq(Deques)] /\ Indexed(deq', suspended_deques', FALSE)
    <3>1. \A x \in Deques : x # d =>
            /\ deq'[x].worker = deq[x].worker /\ deq'[x].resumable = deq[x].resumable
            /\ deq'[x].self = IF x = Last(suspended_deques[victim]) THEN deq[d].self ELSE deq[x].self
      BY <1>5, <1>9
    <3>2. suspended_deques' = Shrunk(suspended_deques, victim, deq[d].self + 1)
      BY <1>6
    <3> QED
      BY <1>1, <1>4, <2>2, <3>1, <3>2, TakeSuspended
  <2>4. PICK dm : dm = [deq' EXCEPT ![d] = deq[d]]
    OBVIOUS
  <2>5. dm \in [Deques -> Deque] /\ dm[d] = deq[d] /\ \A x \in Deques : x # d => dm[x] = deq'[x]
    BY <1>4, <1>8, <2>4
  <2>6. ~deq[last].resumable /\ (last # d => ~deq'[last].resumable)
    BY <1>5, <1>9 DEF Pooled
  <2>7. \A x \in Deques : \/ /\ dm[x].worker = deq[x].worker /\ dm[x].self = deq[x].self
                             /\ dm[x].resumable = deq[x].resumable
                          \/ ~Says(deq[x], TRUE) /\ ~Says(dm[x], TRUE)
    <3>1. ~Says(deq[last], TRUE) /\ ~Says(dm[last], TRUE)
      BY <2>5, <2>6 DEF Says
    <3>2. ASSUME NEW x \in Deques, x # d, x # last PROVE dm[x] = deq[x]
      BY <1>9, <2>5, <3>2
    <3> QED
      BY <2>5, <3>1, <3>2
  <2>8. Indexed(dm, resumable_deques, TRUE)
    <3>1. resumable_deques \in [Workers -> Seq(Deques)] /\ Indexed(deq, resumable_deques, TRUE)
      BY <2>1
    <3> QED
      BY ONLY <2>7, <3>1, SameIndexed
  <2>9. PICK r : r = TRUE
    OBVIOUS
  <2>10. /\ Indexed(dm, resumable_deques, r) /\ ~Says(dm[d], r)
         /\ dm \in [Deques -> Deque] /\ resumable_deques \in [Workers -> Seq(Deques)]
    BY <2>1, <2>2, <2>5, <2>8, <2>9
  <2>11. AddedTo(dm, deq', resumable_deques, victim, d, r)
    BY <1>3, <1>9, <2>5, <2>9 DEF AddedTo
  <2>12. /\ Grown(resumable_deques, victim, d) \in [Workers -> Seq(Deques)]
         /\ Indexed(deq', Grown(resumable_deques, victim, d), r)
    BY <2>10, <2>11, AddIndexed
  <2>13. \A x \in Deques : Says(deq'[x], TRUE) => deq'[x].fiber = "ready"
    <3>1. ASSUME NEW x \in Deques, Says(deq'[x], TRUE) PROVE deq'[x].fiber = "ready"
      <4>1. CASE x = d
        BY <1>9, <4>1
      <4>2. CASE x # d
        <5>1. x # last
          BY <2>6, <3>1, <4>2 DEF Says
        <5> QED
          BY <1>1, <1>9, <3>1, <4>2, <5>1 DEF PoolInv
      <4> QED
        BY <4>1, <4>2
    <3> QED
      BY <3>1
  <2> QED
    BY <1>6, <2>3, <2>9, <2>12, <2>13 DEF PoolInv
<1>14. TypeOK'
  BY <1>1, <1>6, <1>8, <1>10, <1>13 DEF TypeOK
<1>15. Alone(w)
  BY <1>6, <1>10 DEF Alone
<1>16. \A x \in Deques : x # d => Unmoved(w, x)
  BY <1>1, <1>2, <1>6, <1>10, <1>12 DEF Unmoved, Held, Suspending, RunsOn, Resuming, Leaving
<1>17. \A x \in Deques : x # d => DequeOK(x)' /\ (Pending(x)' <=> Pending(x))
  BY <1>1, <1>15, <1>16, UnmovedKeeps
<1>18. ASSUME NEW v \in Workers, v # w PROVE WorkerOK(v)'
  <2>1. ~Held(v, d)
    BY <1>7, <1>18
  <2> QED
    BY <1>1, <1>7, <1>12, <1>15, <1>17, <1>18, <2>1, OthersKeep
<1>19. WorkerOK(w)'
  <2>1. ControlOK(w)'
    BY <1>10 DEF ControlOK, Thief
  <2>2. ActiveOK(w)'
    <3>1. active[w] \in Deques /\ active[w] # d
      BY <1>1, <1>7 DEF TypeOK
    <3>2. active[w] # last
      BY <1>1, <1>5 DEF WorkerOK, ActiveOK, Pooled, InPool, ACTIVE_DEQUE_INDEX
    <3> QED
      BY <1>1, <1>6, <1>9, <1>10, <3>1, <3>2 DEF ActiveOK, WorkerOK
  <2> QED
    BY <1>10, <2>1, <2>2 DEF WorkerOK, HeldOK, SuspendOK
<1>20. DequeOK(d)'
  <2>1. \A v \in Workers : ~Held(v, d)' /\ ~Leaving(v, d)'
    BY <1>7, <1>10 DEF Held, Leaving
  <2>2. ~Pending(d)'
    BY <1>6, <1>7, <1>10 DEF Pending, Held
  <2>3. Somewhere(d)'
    BY <1>11 DEF Somewhere
  <2> QED
    BY <1>9, <2>1, <2>2, <2>3 DEF DequeOK
<1>21. PlaceInv'
  BY <1>13, <1>14, <1>17, <1>18, <1>19, <1>20, PlacePartsNext
<1>22. StealInv'
  <2>1. EmptyOK(w)'
    BY <1>10 DEF EmptyOK, Stuck
  <2>2. ASSUME NEW x \in Deques, deq'[x].frames > 0 PROVE Found(x)'
    <3>1. CASE x = d
      BY <1>11, <3>1 DEF Found
    <3>2. CASE x # d
      <4>1. Found(x)
        BY <1>1, <1>9, <2>2, <3>2 DEF StealInv, WorkInv
      <4>2. CASE InPool(x)
        BY <1>12, <3>2, <4>2 DEF Found
      <4>3. CASE ~InPool(x)
        BY <1>1, <1>2, <1>6, <1>10, <3>2, <4>1, <4>3 DEF Found
      <4> QED
        BY <4>2, <4>3
    <3> QED
      BY <3>1, <3>2
  <2>3. Safe(d)
    BY <1>1, <1>4, SafeDeque
  <2>4. \A x \in Deques : x # d => deq'[x].worker = deq[x].worker /\ (Pooled(x) => Pooled(x)')
    BY <1>9, <1>12
  <2>5. \A x \in Deques : deq'[x].exc = deq[x].exc /\ deq'[x].frames = deq[x].frames
    BY <1>9
  <2> QED
    BY <1>1, <1>6, <1>10, <1>15, <2>1, <2>2, <2>3, <2>4, <2>5, StealKeeps DEF Thief
<1> QED
  BY <1>14, <1>21, <1>22 DEF DequeInv

(* The mugged deque becomes the active one, and the old one is destroyed. *)
LEMMA JumpToSuspendedFiberKeeps ==
  ASSUME DequeInv, NEW w \in Workers, JumpToSuspendedFiber(w)
  PROVE  DequeInv'
PROOF
<1>1. TypeOK /\ PlaceInv /\ StealInv /\ WorkerOK(w) /\ PoolInv /\ pc[w] = "mugged" /\ ~Locked(w)
  BY PlaceParts DEF DequeInv, JumpToSuspendedFiber
<1>2. PICK d \in Deques : d = loc[w].d /\ Held(w, d)
  BY <1>1 DEF WorkerOK, ControlOK, Held
<1>3. PICK a \in Deques : a = active[w]
  BY <1>1 DEF TypeOK
<1>4. /\ deq \in [Deques -> Deque] /\ deq[d] \in Deque /\ deq[a] \in Deque /\ DequeOK(d) /\ DequeOK(a)
      /\ deq[d].fiber = "ready" /\ deq[d].worker = NULL
      /\ deq[a].worker = w /\ deq[a].self = ACTIVE_DEQUE_INDEX
  BY <1>1, <1>2, <1>3, PlaceParts DEF TypeOK, WorkerOK, HeldOK, Out, ActiveOK
<1>5. /\ deq[d].live /\ d \notin waiting
      /\ \A v \in Workers : active[v] # d /\ ~Leaving(v, d) /\ (Held(v, d) => v = w)
  BY <1>1, <1>2, <1>4, HeldAlone
<1>6. a # d /\ \A v \in Workers : v # w => active[v] # a
  BY <1>1, <1>3, <1>5, ActiveUnique
<1>7. ~Pending(a) /\ a \notin waiting /\ \A v \in Workers : ~Held(v, a) /\ ~Leaving(v, a)
  <2>1. ~Pending(a)
    BY <1>1, <1>3, <1>4 DEF DequeOK, PendingOK
  <2>2. \A v \in Workers : ~Held(v, a) /\ ~Leaving(v, a)
    BY <1>1, <1>3, Apart
  <2> QED
    BY <2>1, <2>2 DEF Pending
<1>8. Safe(a) /\ Safe(d) /\ deq[a].frames = 0 /\ deq[a].exc = 0
  <2>1. Safe(a) /\ Safe(d)
    BY <1>1, <1>4, SafeDeque
  <2>2. deq[a].frames = 0
    BY <1>1, <1>3 DEF StealInv, FrameInv, EmptyOK, Stuck
  <2>3. deq[a].exc # 1
    BY <1>1, <2>1 DEF StealInv, ExcInv, Safe, Raised, Thief
  <2> QED
    BY <1>4, <2>1, <2>2, <2>3 DEF Deque
<1>9. /\ deq' = [deq EXCEPT ![d] = deque_switch(w, [deq[d] EXCEPT !.fiber = "none", !.resumable = FALSE]),
                            ![a] = Unused]
      /\ active' = [active EXCEPT ![w] = d]
      /\ loc' = [loc EXCEPT ![w] = NoLocal] /\ pc' = [pc EXCEPT ![w] = "run"]
      /\ UNCHANGED <<suspended_deques, resumable_deques, waiting, left>>
  BY <1>2, <1>3 DEF JumpToSuspendedFiber
<1>10. /\ deq'[d].live /\ deq'[d].worker = w /\ deq'[d].self = ACTIVE_DEQUE_INDEX
       /\ ~deq'[d].resumable /\ deq'[d].fiber = "none"
       /\ deq'[d].frames = deq[d].frames /\ deq'[d].exc = deq[d].exc /\ deq'[a] = Unused
       /\ deq' \in [Deques -> Deque] /\ \A x \in Deques : x # d /\ x # a => deq'[x] = deq[x]
  <2>1. PICK q : q = deque_switch(w, [deq[d] EXCEPT !.fiber = "none", !.resumable = FALSE])
    OBVIOUS
  <2>2. deq' = [deq EXCEPT ![d] = q, ![a] = Unused]
    BY <1>9, <2>1
  <2>3. PICK m : m = [deq[d] EXCEPT !.fiber = "none", !.resumable = FALSE]
    OBVIOUS
  <2>4. m = [live |-> deq[d].live, worker |-> deq[d].worker, self |-> deq[d].self,
             resumable |-> FALSE, fiber |-> "none", frames |-> deq[d].frames, exc |-> deq[d].exc]
    BY <1>4, <2>3 DEF Deque
  <2>5. q = [m EXCEPT !.worker = w, !.self = ACTIVE_DEQUE_INDEX]
    BY <2>1, <2>3 DEF deque_switch
  <2>6. q = [live |-> deq[d].live, worker |-> w, self |-> ACTIVE_DEQUE_INDEX,
             resumable |-> FALSE, fiber |-> "none", frames |-> deq[d].frames, exc |-> deq[d].exc]
    BY <2>4, <2>5
  <2>7. q \in Deque
    BY <1>4, <2>6 DEF Deque, ACTIVE_DEQUE_INDEX
  <2>8. Unused \in Deque
    BY Constants DEF Unused, Deque, INVALID_DEQUE_INDEX
  <2>9. /\ deq'[d] = q /\ deq'[a] = Unused /\ deq' \in [Deques -> Deque]
        /\ \A x \in Deques : x # d /\ x # a => deq'[x] = deq[x]
    BY <1>4, <1>6, <2>2, <2>7, <2>8
  <2> QED
    BY <1>5, <2>6, <2>9
<1>11. /\ ~deq'[a].live /\ deq'[a].worker = NULL /\ deq'[a].self = INVALID_DEQUE_INDEX
       /\ deq'[a].frames = 0 /\ deq'[a].exc = 0
  BY <1>10 DEF Unused
<1>12. /\ pc'[w] = "run" /\ loc'[w] = NoLocal /\ active'[w] = d /\ loc' \in [Workers -> Local]
       /\ active' \in [Workers -> Deques]
       /\ \A v \in Workers : v # w => pc'[v] = pc[v] /\ loc'[v] = loc[v] /\ active'[v] = active[v]
  <2>1. NoLocal \in Local
    BY DEF NoLocal, Local
  <2> QED
    BY <1>1, <1>9, <2>1 DEF TypeOK
<1>13. TypeOK'
  BY <1>1, <1>9, <1>10, <1>12 DEF TypeOK
<1>14. Alone(w)
  BY <1>12 DEF Alone
<1>15. PoolInv'
  <2>1. ~Says(deq[d], TRUE) /\ ~Says(deq[d], FALSE) /\ ~Says(deq'[d], TRUE) /\ ~Says(deq'[d], FALSE)
    BY <1>4, <1>10 DEF Says, ACTIVE_DEQUE_INDEX
  <2>2. ~Says(deq[a], TRUE) /\ ~Says(deq[a], FALSE) /\ ~Says(deq'[a], TRUE) /\ ~Says(deq'[a], FALSE)
    BY <1>4, <1>11 DEF Says, ACTIVE_DEQUE_INDEX
  <2>3. \A x \in Deques : x # d /\ x # a => deq'[x] = deq[x]
    BY <1>10
  <2> QED
    BY <1>1, <1>9, <2>1, <2>2, <2>3, PoolsUntouched
<1>16. \A x \in Deques : x # d /\ x # a => Unmoved(w, x)
  BY <1>1, <1>2, <1>3, <1>9, <1>10, <1>12 DEF Unmoved, Kept, Held, Suspending, RunsOn, Resuming, Leaving
<1>17. \A x \in Deques : x # d /\ x # a => DequeOK(x)' /\ (Pending(x)' <=> Pending(x))
  BY <1>1, <1>14, <1>16, UnmovedKeeps
<1>18. ASSUME NEW v \in Workers, v # w PROVE WorkerOK(v)'
  <2>1. \A x \in Deques : x # d /\ x # a => Kept(x)
    BY <1>10 DEF Kept
  <2>2. ~Held(v, d) /\ active[v] # d /\ ~Leaving(v, d)
    BY <1>5, <1>18
  <2>3. ~Held(v, a) /\ active[v] # a /\ ~Leaving(v, a)
    BY <1>6, <1>7, <1>18
  <2> QED
    BY <1>1, <1>14, <1>17, <1>18, <2>1, <2>2, <2>3, OthersKeep
<1>19. WorkerOK(w)'
  <2>1. ControlOK(w)'
    BY <1>12 DEF ControlOK, Thief
  <2>2. ActiveOK(w)'
    BY <1>10, <1>12 DEF ActiveOK
  <2> QED
    BY <1>12, <2>1, <2>2 DEF WorkerOK, HeldOK, SuspendOK
<1>20. DequeOK(d)'
  <2>1. \A v \in Workers : ~Held(v, d)' /\ ~Leaving(v, d)'
    BY <1>5, <1>12 DEF Held, Leaving
  <2>2. ~Pending(d)'
    BY <1>5, <1>9, <1>12 DEF Pending, Held
  <2>3. Somewhere(d)'
    BY <1>12 DEF Somewhere, RunsOn
  <2> QED
    BY <1>10, <2>1, <2>2, <2>3 DEF DequeOK
<1>21. DequeOK(a)'
  <2>1. \A v \in Workers : ~Held(v, a)' /\ ~Leaving(v, a)'
    BY <1>7, <1>12 DEF Held, Leaving
  <2>2. ~Pending(a)'
    BY <1>7, <1>9, <1>12 DEF Pending, Held
  <2> QED
    BY <1>10, <1>11, <2>1, <2>2 DEF DequeOK
<1>22. PlaceInv'
  BY <1>13, <1>15, <1>17, <1>18, <1>19, <1>20, <1>21, PlacePartsNext
<1>23. StealInv'
  <2>1. EmptyOK(w)'
    BY <1>12 DEF EmptyOK, Stuck
  <2>2. ASSUME NEW x \in Deques, deq'[x].frames > 0 PROVE Found(x)'
    <3>1. CASE x = d
      BY <1>12, <3>1 DEF Found
    <3>2. CASE x # d
      <4>1. x # a
        BY <1>11, <2>2
      <4>2. Found(x) /\ deq'[x] = deq[x]
        BY <1>1, <1>10, <2>2, <3>2, <4>1 DEF StealInv, WorkInv
      <4> QED
        BY <1>1, <1>2, <1>3, <1>12, <3>2, <4>1, <4>2 DEF Found, InPool
    <3> QED
      BY <3>1, <3>2
  <2>3. \A x \in Deques : \/ deq'[x].worker = deq[x].worker /\ (Pooled(x) => Pooled(x)')
                          \/ Safe(x)
    BY <1>8, <1>10 DEF Pooled, InPool
  <2>4. \A x \in Deques : deq'[x].exc = deq[x].exc /\ deq'[x].frames = deq[x].frames
    BY <1>8, <1>10, <1>11
  <2> QED
    BY <1>1, <1>12, <1>14, <2>1, <2>2, <2>3, <2>4, StealKeeps DEF Thief
<1> QED
  BY <1>13, <1>22, <1>23 DEF DequeInv

(* A thief takes a deque without work out of a pool. *)
LEMMA MugEmptyKeeps ==
  ASSUME DequeInv, NEW w \in Workers, NEW victim \in Workers, NEW d \in Deques, MugEmpty(w, victim, d)
  PROVE  DequeInv'
PROOF
<1>1. TypeOK /\ PlaceInv /\ StealInv /\ WorkerOK(w) /\ PoolInv /\ pc[w] = "idle" /\ ~Locked(victim)
  BY PlaceParts DEF DequeInv, MugEmpty, CanChoose
<1>2. deq \in [Deques -> Deque] /\ deq[d] \in Deque /\ Pooled(d) /\ deq[d].worker = victim
  <2>1. suspended_deques[victim] \in Seq(Deques) /\ d \in ToSet(suspended_deques[victim])
    BY <1>1 DEF TypeOK, MugEmpty, Choosable
  <2>2. PICK i \in 1..Len(suspended_deques[victim]) : suspended_deques[victim][i] = d
    BY <2>1, ToSetIndex
  <2>3. deq[d].worker = victim /\ deq[d].self = i - 1 /\ deq[d].resumable = FALSE
    BY <1>1, <2>2 DEF PoolInv, Indexed
  <2> QED
    BY <1>1, <2>1, <2>3, Constants DEF TypeOK, Pooled, InPool
<1>3. PICK last \in Deques : last = Last(suspended_deques[victim]) /\ Pooled(last) /\ deq[last].worker = victim
  BY <1>1, <1>2, LastPooled
<1>4. /\ deq' = Taken(d, last) /\ deq[d].frames <= 0
      /\ suspended_deques' = Shrunk(suspended_deques, victim, deq[d].self + 1)
      /\ UNCHANGED <<active, resumable_deques, waiting, pc, loc, left>>
  <2>1. deq[d].frames \in Int
    BY <1>2 DEF Deque
  <2> QED
    BY <1>3, <2>1 DEF MugEmpty, Removed, Taken, deque_pool_remove, Shrunk, can_steal_from
<1>5. /\ deq' \in [Deques -> Deque]
      /\ deq'[d] = [live |-> deq[d].live, worker |-> NULL, self |-> INVALID_DEQUE_INDEX,
                    resumable |-> deq[d].resumable, fiber |-> deq[d].fiber,
                    frames |-> deq[d].frames, exc |-> deq[d].exc]
      /\ \A x \in Deques : x # d => deq'[x] = IF x = last THEN [deq[x] EXCEPT !.self = deq[d].self] ELSE deq[x]
  <2>1. PICK dm : dm = Taken(d, last)
    OBVIOUS
  <2>2. /\ dm \in [Deques -> Deque]
        /\ dm[d] = [live |-> deq[d].live, worker |-> NULL, self |-> INVALID_DEQUE_INDEX,
                    resumable |-> deq[d].resumable, fiber |-> deq[d].fiber,
                    frames |-> deq[d].frames, exc |-> deq[d].exc]
        /\ \A x \in Deques : x # d => dm[x] = IF x = last THEN [deq[x] EXCEPT !.self = deq[d].self] ELSE deq[x]
    BY <1>2, <2>1, RemovedShape
  <2>3. dm = deq'
    BY <1>4, <2>1
  <2> QED
    BY <2>2, <2>3
<1>6. /\ deq'[d].live = deq[d].live /\ deq'[d].worker = NULL /\ deq'[d].self = INVALID_DEQUE_INDEX
      /\ deq'[d].resumable = deq[d].resumable /\ deq'[d].fiber = deq[d].fiber
      /\ deq'[d].frames = deq[d].frames /\ deq'[d].exc = deq[d].exc
      /\ \A x \in Deques : x # d =>
           /\ deq'[x].live = deq[x].live /\ deq'[x].worker = deq[x].worker
           /\ deq'[x].self = (IF x = last THEN deq[d].self ELSE deq[x].self)
           /\ deq'[x].resumable = deq[x].resumable /\ deq'[x].fiber = deq[x].fiber
           /\ deq'[x].frames = deq[x].frames /\ deq'[x].exc = deq[x].exc
           /\ x # last => deq'[x] = deq[x]
  <2>1. \A x \in Deques : deq[x] \in Deque
    BY <1>2
  <2>2. ASSUME NEW x \in Deques, x # d
        PROVE  /\ deq'[x].live = deq[x].live /\ deq'[x].worker = deq[x].worker
               /\ deq'[x].self = (IF x = last THEN deq[d].self ELSE deq[x].self)
               /\ deq'[x].resumable = deq[x].resumable /\ deq'[x].fiber = deq[x].fiber
               /\ deq'[x].frames = deq[x].frames /\ deq'[x].exc = deq[x].exc
               /\ x # last => deq'[x] = deq[x]
    BY <1>5, <2>1, <2>2 DEF Deque
  <2> QED
    BY <1>5, <2>2
<1>7. deq[d].self \in Int /\ deq[d].self >= 0 /\ Out(d)'
  BY <1>2, <1>6 DEF Pooled, InPool, Deque, Out
<1>8. \A x \in Deques : x # d => Kept(x) /\ (Pooled(x) => Pooled(x)') /\ (InPool(x) => InPool(x)')
  <2>1. ASSUME NEW x \in Deques, x # d, x = last
        PROVE  Kept(x) /\ (Pooled(x) => Pooled(x)') /\ (InPool(x) => InPool(x)')
    BY <1>3, <1>6, <1>7, <2>1 DEF Kept, Pooled, InPool
  <2>2. ASSUME NEW x \in Deques, x # d, x # last
        PROVE  Kept(x) /\ (Pooled(x) => Pooled(x)') /\ (InPool(x) => InPool(x)')
    BY <1>6, <2>2 DEF Kept, Pooled, InPool
  <2> QED
    BY <2>1, <2>2
<1>9. \A x \in Deques : Kept(x)
  BY <1>2, <1>6, <1>7, <1>8 DEF Kept
<1>10. PoolInv' /\ suspended_deques' \in [Workers -> Seq(Deques)]
  <2>1. /\ resumable_deques \in [Workers -> Seq(Deques)]
        /\ Indexed(deq, resumable_deques, TRUE)
    BY <1>1 DEF TypeOK, PoolInv
  <2>2. ~Says(deq[d], TRUE) /\ ~Says(deq'[d], TRUE) /\ ~Says(deq'[d], FALSE)
    BY <1>2, <1>6 DEF Says, Pooled
  <2>3. suspended_deques' \in [Workers -> Seq(Deques)] /\ Indexed(deq', suspended_deques', FALSE)
    <3>1. \A x \in Deques : x # d =>
            /\ deq'[x].worker = deq[x].worker /\ deq'[x].resumable = deq[x].resumable
            /\ deq'[x].self = IF x = Last(suspended_deques[victim]) THEN deq[d].self ELSE deq[x].self
      BY <1>3, <1>6
    <3>2. suspended_deques' = Shrunk(suspended_deques, victim, deq[d].self + 1)
      BY <1>4
    <3> QED
      BY <1>1, <1>2, <2>2, <3>1, <3>2, TakeSuspended
  <2>4. ~Says(deq[last], TRUE) /\ ~Says(deq'[last], TRUE)
    <3>1. ~deq[last].resumable /\ (last # d => ~deq'[last].resumable)
      BY <1>3, <1>6 DEF Pooled
    <3> QED
      BY <2>2, <3>1 DEF Says
  <2>5. \A x \in Deques : \/ /\ deq'[x].worker = deq[x].worker /\ deq'[x].self = deq[x].self
                             /\ deq'[x].resumable = deq[x].resumable
                          \/ ~Says(deq[x], TRUE) /\ ~Says(deq'[x], TRUE)
    BY <1>6, <2>2, <2>4
  <2>6. Indexed(deq', resumable_deques, TRUE)
    BY <2>1, <2>5, SameIndexed
  <2>7. ASSUME NEW x \in Deques, Says(deq'[x], TRUE) PROVE deq'[x].fiber = "ready"
    <3>1. x # d /\ x # last
      BY <2>2, <2>4, <2>7
    <3> QED
      BY <1>1, <1>6, <2>7, <3>1 DEF PoolInv
  <2> QED
    BY <1>4, <2>3, <2>6, <2>7 DEF PoolInv
<1>11. TypeOK'
  BY <1>1, <1>4, <1>5, <1>10 DEF TypeOK
<1>12. Alone(w)
  BY <1>4 DEF Alone
<1>13. \A x \in Deques : Unmoved(w, x)
  BY <1>4, <1>9 DEF Unmoved, Held, Suspending, RunsOn, Resuming, Leaving
<1>14. \A x \in Deques : DequeOK(x)' /\ (Pending(x)' <=> Pending(x))
  BY <1>1, <1>12, <1>13, UnmovedKeeps
<1>15. ASSUME NEW v \in Workers, v # w PROVE WorkerOK(v)'
  BY <1>1, <1>9, <1>12, <1>14, <1>15, OthersKeep
<1>16. PICK a \in Deques : a = active[w] /\ a # d /\ a # last
  <2>1. active[w] \in Deques /\ deq[active[w]].self = ACTIVE_DEQUE_INDEX
    BY <1>1 DEF TypeOK, WorkerOK, ActiveOK
  <2> QED
    BY <1>2, <1>3, <2>1 DEF Pooled, InPool, ACTIVE_DEQUE_INDEX
<1>17. WorkerOK(w)'
  <2>1. deq'[a] = deq[a] /\ active'[w] = a /\ pc'[w] = "idle" /\ loc'[w] = loc[w]
    BY <1>1, <1>4, <1>6, <1>16
  <2>2. ActiveOK(w)'
    BY <1>1, <1>16, <2>1 DEF ActiveOK, WorkerOK
  <2>3. ControlOK(w)'
    BY <1>1, <1>16, <2>1 DEF ControlOK, WorkerOK, Thief
  <2> QED
    BY <2>1, <2>2, <2>3 DEF WorkerOK, HeldOK, SuspendOK
<1>18. PlaceInv'
  BY <1>10, <1>11, <1>14, <1>15, <1>17, PlacePartsNext
<1>19. StealInv'
  <2>1. EmptyOK(w)'
    <3>1. deq[a].frames = 0 /\ deq'[a] = deq[a]
      BY <1>1, <1>6, <1>16 DEF EmptyOK, Stuck, StealInv, FrameInv
    <3> QED
      BY <1>1, <1>4, <1>16, <3>1 DEF EmptyOK
  <2>2. ASSUME NEW x \in Deques, deq'[x].frames > 0 PROVE Found(x)'
    <3>1. x # d
      BY <1>2, <1>4, <1>6, <2>2 DEF Deque
    <3>2. Found(x)
      BY <1>1, <1>6, <2>2, <3>1 DEF StealInv, WorkInv
    <3> QED
      BY <1>4, <1>8, <3>1, <3>2 DEF Found
  <2>3. Safe(d)
    BY <1>1, <1>2, SafeDeque
  <2>4. \A x \in Deques : x # d => deq'[x].worker = deq[x].worker /\ (Pooled(x) => Pooled(x)')
    BY <1>6, <1>8
  <2>5. \A x \in Deques : deq'[x].exc = deq[x].exc /\ deq'[x].frames = deq[x].frames
    BY <1>6
  <2> QED
    BY <1>1, <1>4, <1>12, <2>1, <2>2, <2>3, <2>4, <2>5, StealKeeps DEF Thief
<1> QED
  BY <1>11, <1>18, <1>19 DEF DequeInv

-----------------------------------------------------------------------------
(* The initial states *)

(* There are enough deques for the workers to start with. *)
LEMMA CoreDeques ==
  Core \in [Workers -> Deques] /\ \A v, w \in Workers : v # w => Core[v] # Core[w]
PROOF
<1> DEFINE nw == Cardinality(Workers)
           nd == Cardinality(Deques)
<1>1. nw \in Nat /\ nd \in Nat /\ nw < nd /\ ExistsBijection(1..nw, Workers) /\ ExistsBijection(1..nd, Deques)
  BY DequePoolAssumption, FS_CardinalityType
<1>2. PICK f : f \in Bijection(1..nw, Workers)
  BY <1>1 DEF ExistsBijection
<1>3. PICK h : h \in Bijection(1..nd, Deques)
  BY <1>1 DEF ExistsBijection
<1>4. \A w \in Workers : \E i \in 1..nw : f[i] = w
  BY <1>2 DEF Bijection, Surjection
<1>5. h \in [1..nd -> Deques] /\ \A i, j \in 1..nd : h[i] = h[j] => i = j
  BY <1>3 DEF Bijection, Injection, IsInjective
<1> HIDE DEF nw, nd
<1> DEFINE g == [w \in Workers |-> CHOOSE i \in 1..nw : f[i] = w]
           core == [w \in Workers |-> h[g[w]]]
<1>6. \A w \in Workers : g[w] \in 1..nw /\ f[g[w]] = w
  BY <1>4
<1> HIDE DEF g
<1>7. \A w \in Workers : g[w] \in 1..nd
  BY <1>1, <1>6
<1>8. core \in [Workers -> Deques]
  BY <1>5, <1>7
<1>9. \A v, w \in Workers : v # w => core[v] # core[w]
  BY <1>5, <1>6, <1>7
<1>10. \E c \in [Workers -> Deques] : \A v, w \in Workers : v # w => c[v] # c[w]
  BY <1>8, <1>9
<1> QED
  BY <1>10 DEF Core

(* The invariant holds when the workers start. *)
LEMMA InitInv ==
  ASSUME Init
  PROVE  DequeInv
PROOF
<1>1. /\ active = Core /\ active \in [Workers -> Deques]
      /\ \A v, w \in Workers : v # w => active[v] # active[w]
  BY CoreDeques DEF Init
<1>2. /\ suspended_deques = [w \in Workers |-> <<>>] /\ resumable_deques = [w \in Workers |-> <<>>]
      /\ waiting = {} /\ loc = [w \in Workers |-> NoLocal]
      /\ left = [push |-> Pushes, suspend |-> Suspends]
  BY DEF Init
<1>3. PICK first \in Workers : pc = [w \in Workers |-> IF w = first THEN "run" ELSE "idle"]
  BY DEF Init
<1>4. \A w \in Workers : pc[w] \in {"run", "idle"} /\ loc[w] = NoLocal
  BY <1>2, <1>3
<1> DEFINE Started(w) == [live |-> TRUE, worker |-> w, self |-> ACTIVE_DEQUE_INDEX,
                          resumable |-> FALSE, fiber |-> "none", frames |-> 0, exc |-> 0]
<1>5. \A w : deque_switch(w, [Unused EXCEPT !.live = TRUE]) = Started(w)
  <2>1. PICK u : u = [Unused EXCEPT !.live = TRUE]
    OBVIOUS
  <2>2. u = [live |-> TRUE, worker |-> NULL, self |-> INVALID_DEQUE_INDEX,
             resumable |-> FALSE, fiber |-> "none", frames |-> 0, exc |-> 0]
    BY <2>1 DEF Unused
  <2>3. ASSUME NEW w PROVE deque_switch(w, u) = Started(w)
    <3>1. deque_switch(w, u) = [u EXCEPT !.worker = w, !.self = ACTIVE_DEQUE_INDEX]
      BY DEF deque_switch
    <3> QED
      BY <2>2, <3>1
  <2> QED
    BY <2>1, <2>3
<1>6. deq = [d \in Deques |-> IF \E w \in Workers : active[w] = d
                              THEN Started(CHOOSE w \in Workers : active[w] = d)
                              ELSE Unused]
  <2>1. deq = [d \in Deques |-> IF \E w \in Workers : active[w] = d
                                THEN deque_switch(CHOOSE w \in Workers : active[w] = d,
                                                  [Unused EXCEPT !.live = TRUE])
                                ELSE Unused]
    BY <1>1, Zenon DEF Init
  <2> HIDE DEF Started
  <2> QED
    BY ONLY <1>5, <2>1
<1>7. ASSUME NEW w \in Workers PROVE deq[active[w]] = Started(w)
  <2>1. PICK d \in Deques : d = active[w]
    BY <1>1
  <2>2. (CHOOSE v \in Workers : active[v] = d) = w
    <3>1. \A v \in Workers : active[v] = d <=> v = w
      BY <1>1, <2>1
    <3> QED
      BY <3>1
  <2> QED
    BY <1>6, <2>1, <2>2
<1>8. \A d \in Deques : deq[d] = Unused \/ \E w \in Workers : active[w] = d /\ deq[d] = Started(w)
  BY <1>6, <1>7
<1>9. \A d \in Deques : /\ deq[d].frames = 0 /\ deq[d].exc = 0 /\ deq[d].self < 0
                        /\ deq[d].live => \E w \in Workers : active[w] = d
                        /\ ~deq[d].live => deq[d] = Unused
  <2>1. SUFFICES ASSUME NEW d \in Deques
                 PROVE  /\ deq[d].frames = 0 /\ deq[d].exc = 0 /\ deq[d].self < 0
                        /\ deq[d].live => \E w \in Workers : active[w] = d
                        /\ ~deq[d].live => deq[d] = Unused
    OBVIOUS
  <2>2. CASE deq[d] = Unused
    BY <2>2 DEF Unused, INVALID_DEQUE_INDEX
  <2>3. ASSUME NEW w \in Workers, active[w] = d, deq[d] = Started(w)
        PROVE  /\ deq[d].frames = 0 /\ deq[d].exc = 0 /\ deq[d].self < 0
               /\ deq[d].live /\ active[w] = d
    BY <2>3 DEF ACTIVE_DEQUE_INDEX
  <2> HIDE DEF Started
  <2> QED
    BY <1>8, <2>2, <2>3
<1>10. TypeOK
  <2>1. Unused \in Deque
    BY Constants DEF Unused, Deque, INVALID_DEQUE_INDEX
  <2>2. \A w \in Workers : Started(w) \in Deque
    BY Constants DEF Deque, ACTIVE_DEQUE_INDEX
  <2>3. deq \in [Deques -> Deque]
    <3>1. \A d \in Deques : deq[d] \in Deque
      BY <1>8, <2>1, <2>2
    <3> HIDE DEF Started
    <3> QED
      BY <1>6, <3>1
  <2>4. NoLocal \in Local
    BY DEF NoLocal, Local
  <2>5. <<>> \in Seq(Deques)
    OBVIOUS
  <2>6. /\ suspended_deques \in [Workers -> Seq(Deques)] /\ resumable_deques \in [Workers -> Seq(Deques)]
        /\ loc \in [Workers -> Local] /\ waiting \subseteq Deques
    BY <1>2, <2>4, <2>5
  <2>7. left \in [push : Nat, suspend : Nat]
    BY <1>2, Constants
  <2>8. pc \in [Workers -> {"run", "pop", "check", "idle", "probe", "dekker", "detach",
                            "suspend", "switch", "park", "jump",
                            "resume", "owned", "free", "give", "mugged"}]
    BY <1>3
  <2> QED
    BY <1>1, <2>3, <2>6, <2>7, <2>8 DEF TypeOK
<1>11. ControlInv
  BY <1>4 DEF ControlInv, ControlOK, Thief
<1>12. ActiveInv
  <2>1. ASSUME NEW w \in Workers PROVE ActiveOK(w)
    <3>1. deq[active[w]] = Started(w)
      BY <1>7
    <3>2. /\ deq[active[w]].live /\ deq[active[w]].worker = w
          /\ deq[active[w]].self = ACTIVE_DEQUE_INDEX /\ ~deq[active[w]].resumable
          /\ deq[active[w]].fiber = "none"
      BY <3>1
    <3> QED
      BY <1>4, <3>2 DEF ActiveOK
  <2> QED
    BY <1>9, <2>1 DEF ActiveInv
<1>13. PoolInv
  <2>1. \A d \in Deques : ~Says(deq[d], TRUE) /\ ~Says(deq[d], FALSE)
    <3>1. \A d \in Deques : deq[d].self \in Int /\ deq[d].self < 0
      BY <1>9, <1>10 DEF TypeOK, Deque
    <3> QED
      BY <3>1 DEF Says
  <2>2. \A w \in Workers : 1..Len(suspended_deques[w]) = {} /\ 1..Len(resumable_deques[w]) = {}
    <3>1. \A w \in Workers : Len(suspended_deques[w]) = 0 /\ Len(resumable_deques[w]) = 0
      BY <1>2
    <3> QED
      BY <3>1
  <2>3. Indexed(deq, suspended_deques, FALSE)
    BY <2>1, <2>2 DEF Indexed
  <2>4. Indexed(deq, resumable_deques, TRUE)
    BY <2>1, <2>2 DEF Indexed
  <2> QED
    BY <2>1, <2>3, <2>4 DEF PoolInv
<1>14. HeldInv
  BY <1>4 DEF HeldInv, HeldOK, Held
<1>15. PendingInv
  BY <1>2, <1>4 DEF PendingInv, Pending, SuspendOK
<1>16. LiveInv
  BY <1>4, <1>9 DEF LiveInv
<1>17. ThiefInv /\ ExcInv
  BY <1>4, <1>9 DEF ThiefInv, ExcInv, Thief, Raised
<1>18. FrameInv /\ WorkInv
  BY <1>1, <1>4, <1>9 DEF FrameInv, WorkInv, EmptyOK
<1> QED
  BY <1>10, <1>11, <1>12, <1>13, <1>14, <1>15, <1>16, <1>17, <1>18 DEF DequeInv, PlaceInv, StealInv

-----------------------------------------------------------------------------
(* Every step *)

(* A step that changes nothing keeps the invariant. *)
LEMMA StutterKeeps ==
  ASSUME DequeInv, UNCHANGED vars
  PROVE  DequeInv'
PROOF
<1>1. TypeOK /\ PlaceInv /\ StealInv
  BY DEF DequeInv
<1>2. UNCHANGED <<deq, active, suspended_deques, resumable_deques, waiting, pc, loc, left>>
  BY DEF vars
<1>3. TypeOK'
  BY <1>1, <1>2 DEF TypeOK
<1>4. ControlInv' /\ ActiveInv' /\ PoolInv'
  BY <1>1, <1>2 DEF PlaceInv, ControlInv, ControlOK, ActiveInv, ActiveOK, PoolInv
<1>5. HeldInv' /\ PendingInv' /\ LiveInv'
  BY <1>1, <1>2 DEF PlaceInv, HeldInv, HeldOK, Held, Out, Pooled, InPool, PendingInv, Pending,
                    PendingOK, Suspending, SuspendOK, LiveInv
<1>6. ThiefInv' /\ ExcInv'
  BY <1>1, <1>2 DEF StealInv, ThiefInv, ThiefOK, Pooled, InPool, ExcInv
<1>7. FrameInv' /\ WorkInv'
  BY <1>1, <1>2 DEF StealInv, FrameInv, Popping, DetachOK, EmptyOK, WorkInv, Found, InPool
<1> QED
  BY <1>3, <1>4, <1>5, <1>6, <1>7 DEF DequeInv, PlaceInv, StealInv

(* Every step of every worker keeps it. *)
LEMMA NextKeeps ==
  ASSUME DequeInv, [Next]_vars
  PROVE  DequeInv'
PROOF
<1>1. CASE UNCHANGED vars
  BY <1>1, StutterKeeps
<1>2. ASSUME NEW w \in Workers, Push(w) \/ Get(w) \/ Program(w) \/ Return(w)
      PROVE  DequeInv'
  BY <1>2, PushKeeps, GetKeeps, PopKeeps, RunOutKeeps, CompleteKeeps, UndoDetachKeeps,
     ExceptionCheckKeeps DEF Program, Return
<1>3. ASSUME NEW w \in Workers, Suspension(w)
      PROVE  DequeInv'
  BY <1>3, MugOwnKeeps, AllocateKeeps, SwitchKeeps, ParkKeeps, JumpKeeps DEF Suspension
<1>4. ASSUME NEW w \in Workers, MakeResumable(w)
      PROVE  DequeInv'
  BY <1>4, ReadOwnerKeeps, StillOwnedKeeps, OrphanedKeeps, ResumeFreeKeeps, GiveKeeps
     DEF MakeResumable
<1>5. ASSUME NEW w \in Workers, RandomSteal(w)
      PROVE  DequeInv'
  BY <1>5, MugResumableKeeps, ProbeKeeps, MugEmptyKeeps, IncrementEKeeps, DekkerKeeps,
     DetachForStealKeeps, JumpToSuspendedFiberKeeps DEF RandomSteal
<1> QED
  BY <1>1, <1>2, <1>3, <1>4, <1>5 DEF Next, Step

(* The invariant holds in every reachable state, however many workers      *)
(* suspend, steal and resume deques.                                       *)
THEOREM DequePoolInvariant == Spec => []DequeInv
PROOF
<1>1. Init => DequeInv
  BY InitInv
<1>2. DequeInv /\ [Next]_vars => DequeInv'
  BY NextKeeps
<1> QED
  BY <1>1, <1>2, PTL DEF Spec

-----------------------------------------------------------------------------
(* What follows from the invariant *)

(* Counting a set of at most one element. *)
LEMMA CountOne ==
  ASSUME NEW S, NEW x \in S, \A y \in S : y = x
  PROVE  Cardinality(S) = 1
PROOF
<1>1. S = {x}
  OBVIOUS
<1> QED
  BY <1>1, FS_Singleton

(* Counting an empty set. *)
LEMMA CountNone ==
  ASSUME NEW S, \A y \in S : FALSE
  PROVE  Cardinality(S) = 0
PROOF
<1>1. S = {}
  OBVIOUS
<1> QED
  BY <1>1, FS_EmptySet

(* Where a deque is that says that it is in a pool. *)
LEMMA PlaceOf ==
  ASSUME PoolInv, NEW d \in Deques, NEW w \in Workers, w = deq[d].worker
  PROVE  /\ Says(deq[d], FALSE) => /\ deq[d].self + 1 \in 1..Len(suspended_deques[w])
                                   /\ suspended_deques[w][deq[d].self + 1] = d
         /\ Says(deq[d], TRUE) => /\ deq[d].self + 1 \in 1..Len(resumable_deques[w])
                                  /\ resumable_deques[w][deq[d].self + 1] = d
PROOF
<1>1. ASSUME NEW pools, NEW r, Indexed(deq, pools, r), Says(deq[d], r)
      PROVE  deq[d].self + 1 \in 1..Len(pools[w]) /\ pools[w][deq[d].self + 1] = d
  BY <1>1 DEF Indexed
<1>2. Indexed(deq, suspended_deques, FALSE) /\ Indexed(deq, resumable_deques, TRUE)
  BY DEF PoolInv
<1> QED
  BY <1>1, <1>2

(* A deque that says that it is in a pool is in one. *)
LEMMA InPoolFound ==
  ASSUME TypeOK, PoolInv, NEW d \in Deques, InPool(d)
  PROVE  \E w \in Workers : d \in ToSet(suspended_deques[w]) \cup ToSet(resumable_deques[w])
PROOF
<1>1. PICK w \in Workers : w = deq[d].worker
  BY DEF TypeOK, Deque, InPool
<1>2. suspended_deques[w] \in Seq(Deques) /\ resumable_deques[w] \in Seq(Deques)
  BY DEF TypeOK
<1>3. deq[d].resumable \in BOOLEAN
  BY DEF TypeOK, Deque
<1>4. Says(deq[d], TRUE) \/ Says(deq[d], FALSE)
  BY <1>3 DEF Says, InPool
<1>5. \/ \E i \in 1..Len(suspended_deques[w]) : suspended_deques[w][i] = d
      \/ \E i \in 1..Len(resumable_deques[w]) : resumable_deques[w][i] = d
  BY <1>1, <1>4, PlaceOf
<1> QED
  BY <1>2, <1>5, ToSetIndex

(* Deques, pools and local variables keep their types: in particular the   *)
(* tail of a deque is at most one below its head, and exc at most one      *)
(* above it.                                                               *)
THEOREM DequeTypes == Spec => []TypeOK
PROOF
<1>1. DequeInv => TypeOK
  BY DEF DequeInv
<1> QED
  BY <1>1, DequePoolInvariant, PTL

(* A deque in a pool knows its place, and only a deque in a pool says so.  *)
THEOREM DequesKnowTheirPlaces == Spec => []PlacesKnown
PROOF
<1>1. ASSUME DequeInv PROVE PlacesKnown
  <2>1. TypeOK /\ PlaceInv /\ PoolInv
    BY <1>1 DEF DequeInv, PlaceInv
  <2>2. ASSUME NEW w \in Workers PROVE Active(w).worker = w /\ Active(w).self = ACTIVE_DEQUE_INDEX
    BY <2>1, PlaceParts DEF WorkerOK, ActiveOK, Active
  <2>3. ASSUME NEW w \in Workers
        PROVE  /\ \A i \in DOMAIN suspended_deques[w] :
                    LET dq == deq[suspended_deques[w][i]]
                    IN  dq.worker = w /\ dq.self = i - 1 /\ ~dq.resumable
               /\ \A i \in DOMAIN resumable_deques[w] :
                    LET dq == deq[resumable_deques[w][i]]
                    IN  dq.worker = w /\ dq.self = i - 1 /\ dq.resumable
    <3>1. /\ DOMAIN suspended_deques[w] = 1..Len(suspended_deques[w])
          /\ DOMAIN resumable_deques[w] = 1..Len(resumable_deques[w])
      BY <2>1 DEF TypeOK
    <3> QED
      BY <2>1, <3>1 DEF PoolInv, Indexed
  <2>4. ASSUME NEW d \in Deques, deq[d].self >= 0, deq[d].worker # NULL
        PROVE  \E w \in Workers : d \in ToSet(suspended_deques[w]) \cup ToSet(resumable_deques[w])
    BY <2>1, <2>4, InPoolFound DEF InPool
  <2> QED
    BY <2>2, <2>3, <2>4 DEF PlacesKnown
<1> QED
  BY <1>1, DequePoolInvariant, PTL

(* Work is found: a deque with frames is active, in a pool, or on its way  *)
(* there; and its tail is below its head only while its owner finds out    *)
(* that a thief got the last frame.                                        *)
THEOREM WorkIsKept == Spec => []WorkKept
PROOF
<1>1. ASSUME DequeInv PROVE WorkKept
  <2>1. TypeOK /\ PoolInv /\ WorkInv /\ FrameInv
    BY <1>1 DEF DequeInv, PlaceInv, StealInv
  <2>2. ASSUME NEW d \in Deques, deq[d].frames > 0
        PROVE  \E w \in Workers :
                 \/ active[w] = d
                 \/ d \in ToSet(suspended_deques[w]) \cup ToSet(resumable_deques[w])
                 \/ pc[w] \in {"park", "mugged"} /\ loc[w].d = d
                 \/ pc[w] = "switch" /\ loc[w].new = d
    <3>1. Found(d)
      BY <2>1, <2>2 DEF WorkInv
    <3>2. CASE InPool(d)
      BY <2>1, <3>2, InPoolFound
    <3>3. CASE ~InPool(d)
      BY <3>1, <3>3 DEF Found
    <3> QED
      BY <3>2, <3>3
  <2>3. ASSUME NEW d \in Deques, deq[d].frames < 0
        PROVE  \E w \in Workers : active[w] = d /\ pc[w] \in {"pop", "check"}
    BY <2>1, <2>3 DEF FrameInv, Popping
  <2> QED
    BY <2>2, <2>3 DEF WorkKept
<1> QED
  BY <1>1, DequePoolInvariant, PTL

(* The assertions of the runtime hold: exc is raised by exactly the        *)
(* thieves at work, and what a worker has read of a deque without a lock   *)
(* is still true, or harmless, when it has the lock.                       *)
THEOREM AssertionsAlwaysHold == Spec => []AssertionsHold
PROOF
<1>1. ASSUME DequeInv PROVE AssertionsHold
  <2>1. TypeOK /\ PlaceInv /\ StealInv /\ PoolInv
    BY <1>1 DEF DequeInv, PlaceInv
  <2>2. ASSUME NEW d \in Deques
        PROVE  deq[d].exc = Cardinality({w \in Workers : pc[w] \in {"dekker", "detach"} /\ loc[w].d = d})
    <3> DEFINE S == {w \in Workers : pc[w] \in {"dekker", "detach"} /\ loc[w].d = d}
    <3>1. deq[d].exc \in 0..1
      BY <2>1 DEF TypeOK, Deque
    <3>2. CASE deq[d].exc = 1
      <4>1. PICK w \in S : TRUE
        BY <2>1, <3>2 DEF StealInv, ExcInv, Raised
      <4>2. \A v \in S : v = w
        BY <2>1, <4>1, ThiefUnique DEF StealInv, Thief
      <4> QED
        BY <3>2, <4>1, <4>2, CountOne
    <3>3. CASE deq[d].exc = 0
      <4>1. \A v \in S : FALSE
        BY <2>1, <3>3 DEF StealInv, ExcInv, Raised
      <4> QED
        BY <3>3, <4>1, CountNone
    <3> QED
      BY <3>1, <3>2, <3>3
  <2>3. ASSUME NEW w \in Workers
        PROVE  /\ pc[w] = "suspend" => Active(w).fiber = "none"
               /\ pc[w] = "switch" => deq[loc[w].new].worker = NULL /\ deq[loc[w].new].fiber # "none"
               /\ pc[w] = "free" => deq[loc[w].d].self = INVALID_DEQUE_INDEX /\ deq[loc[w].d].worker = NULL
               /\ pc[w] = "mugged" => deq[loc[w].d].worker = NULL /\ Active(w).frames = 0
    <3>1. WorkerOK(w) /\ EmptyOK(w)
      BY <2>1, PlaceParts DEF StealInv, FrameInv
    <3> QED
      BY <3>1 DEF WorkerOK, ActiveOK, HeldOK, EmptyOK, Stuck, Active, Out
  <2>4. ASSUME NEW w \in Workers, pc[w] = "resume"
        PROVE  ~deq[loc[w].d].resumable
    <3>1. PICK d \in Deques : d = loc[w].d /\ Pending(d)
      BY <2>1, <2>4, PlaceParts DEF WorkerOK, ControlOK, Pending
    <3> QED
      BY <2>1, <3>1, PlaceParts DEF DequeOK, PendingOK
  <2>5. ASSUME NEW w \in Workers, pc[w] = "owned"
        PROVE  LET dq   == deq[loc[w].d]
                   pool == suspended_deques[loc[w].victim]
               IN  \/ dq.worker = NULL
                   \/ /\ dq.worker = loc[w].victim
                      /\ dq.self + 1 \in DOMAIN pool /\ pool[dq.self + 1] = loc[w].d
    <3>1. PICK d \in Deques, victim \in Workers : d = loc[w].d /\ victim = loc[w].victim
      BY <2>1, <2>5, PlaceParts DEF WorkerOK, ControlOK
    <3>2. Out(d) \/ (Pooled(d) /\ deq[d].worker = victim)
      BY <2>1, <2>5, <3>1, PlaceParts DEF WorkerOK, HeldOK
    <3>3. CASE Out(d)
      BY <3>1, <3>3 DEF Out
    <3>4. CASE Pooled(d) /\ deq[d].worker = victim
      <4>1. deq[d].resumable \in BOOLEAN
        BY <2>1 DEF TypeOK, Deque
      <4>2. Says(deq[d], FALSE)
        BY <3>4, <4>1 DEF Pooled, InPool, Says
      <4>3. DOMAIN suspended_deques[victim] = 1..Len(suspended_deques[victim])
        BY <2>1 DEF TypeOK
      <4> QED
        BY <2>1, <3>1, <3>4, <4>2, <4>3, PlaceOf
    <3> QED
      BY <3>2, <3>3, <3>4
  <2> QED
    BY <2>2, <2>3, <2>4, <2>5 DEF AssertionsHold
<1> QED
  BY <1>1, DequePoolInvariant, PTL

(* Every deque in use is in exactly one place: with one worker that runs   *)
(* on it, in the queue of one future, in the hands of one worker, or in    *)
(* one pool of resumable deques.  None is lost, none is resumed twice.     *)
THEOREM DequesHaveOnePlace == Spec => []OnePlace
PROOF
<1>1. ASSUME DequeInv PROVE OnePlace
  <2>1. TypeOK /\ PlaceInv /\ PoolInv
    BY <1>1 DEF DequeInv, PlaceInv
  <2>2. SUFFICES ASSUME NEW d \in Deques
                 PROVE  Cardinality(Runners(d)) + Cardinality(Holders(d)) + Cardinality(Offers(d))
                          + (IF d \in waiting THEN 1 ELSE 0) = (IF deq[d].live THEN 1 ELSE 0)
    BY DEF OnePlace
  <2>3. DequeOK(d) /\ \A w \in Workers : WorkerOK(w)
    BY <2>1, PlaceParts
  <2>4. /\ \A w : w \in Runners(d) <=> w \in Workers /\ RunsOn(w, d)
        /\ \A w : w \in Holders(d) <=> w \in Workers /\ Held(w, d)
        /\ \A w : w \in Offers(d) <=> w \in Workers /\ Says(deq[d], TRUE) /\ w = deq[d].worker
    <3>1. ASSUME NEW w \in Workers
          PROVE  d \in ToSet(resumable_deques[w]) <=> Says(deq[d], TRUE) /\ w = deq[d].worker
      <4>1. resumable_deques[w] \in Seq(Deques)
        BY <2>1 DEF TypeOK
      <4>2. (\E i \in 1..Len(resumable_deques[w]) : resumable_deques[w][i] = d)
              <=> Says(deq[d], TRUE) /\ w = deq[d].worker
        <5>1. ASSUME NEW i \in 1..Len(resumable_deques[w]), resumable_deques[w][i] = d
              PROVE  Says(deq[d], TRUE) /\ w = deq[d].worker
          <6>1. deq[d].worker = w /\ deq[d].self = i - 1 /\ deq[d].resumable = TRUE
            BY <2>1, <5>1 DEF PoolInv, Indexed
          <6> QED
            BY <6>1, Constants DEF Says
        <5>2. ASSUME Says(deq[d], TRUE), w = deq[d].worker
              PROVE  \E i \in 1..Len(resumable_deques[w]) : resumable_deques[w][i] = d
          BY <2>1, <5>2, PlaceOf
        <5> QED
          BY <5>1, <5>2
      <4> QED
        BY <4>1, <4>2, ToSetIndex
    <3> QED
      BY <3>1 DEF Runners, RunsOn, Holders, Held, Offers
  <2>5. /\ \A v, w \in Runners(d) : v = w
        /\ \A v, w \in Holders(d) : v = w
        /\ \A v, w \in Offers(d) : v = w
    <3>1. \A v, w \in Workers : RunsOn(v, d) /\ RunsOn(w, d) => v = w
      BY <2>1, ActiveUnique DEF RunsOn
    <3>2. \A v, w \in Workers : Held(v, d) /\ Held(w, d) => v = w
      BY <2>3 DEF DequeOK
    <3>3. ASSUME NEW v \in Runners(d), NEW w \in Runners(d) PROVE v = w
      BY <2>4, <3>1
    <3>4. ASSUME NEW v \in Holders(d), NEW w \in Holders(d) PROVE v = w
      BY <2>4, <3>2
    <3>5. ASSUME NEW v \in Offers(d), NEW w \in Offers(d) PROVE v = w
      <4>1. v \in Offers(d) /\ w \in Offers(d)
        OBVIOUS
      <4>2. v = deq[d].worker
        BY <2>4, <4>1
      <4>3. w = deq[d].worker
        BY <2>4, <4>1
      <4> QED
        BY <4>2, <4>3
    <3> QED
      BY <3>3, <3>4, <3>5
  <2>6. /\ d \in waiting => Runners(d) = {} /\ Holders(d) = {} /\ Offers(d) = {} /\ deq[d].live
        /\ Offers(d) # {} => Runners(d) = {} /\ Holders(d) = {} /\ deq[d].live
        /\ Holders(d) # {} => Runners(d) = {} /\ deq[d].live
        /\ Runners(d) # {} => deq[d].live
    <3>1. ASSUME d \in waiting
          PROVE  Runners(d) = {} /\ Holders(d) = {} /\ Offers(d) = {} /\ deq[d].live
      <4>1. PendingOK(d)
        BY <2>3, <3>1 DEF DequeOK, Pending
      <4>2. ~Says(deq[d], TRUE)
        BY <4>1 DEF PendingOK, Says
      <4>3. \A w \in Workers : ~RunsOn(w, d) /\ ~Held(w, d)
        BY <2>3, <3>1, <4>1 DEF PendingOK, DequeOK, RunsOn
      <4> QED
        BY <2>4, <4>1, <4>2, <4>3 DEF PendingOK
    <3>2. ASSUME Offers(d) # {}
          PROVE  Runners(d) = {} /\ Holders(d) = {} /\ deq[d].live
      <4>1. Says(deq[d], TRUE)
        BY <2>4, <3>2
      <4>2. \A w \in Workers : ~RunsOn(w, d) /\ ~Held(w, d)
        BY <2>1, <4>1, Apart DEF RunsOn
      <4>3. deq[d].live
        BY <2>3, <4>1 DEF DequeOK, Unused, Says
      <4> QED
        BY <2>4, <4>2, <4>3
    <3>3. ASSUME Holders(d) # {}
          PROVE  Runners(d) = {} /\ deq[d].live
      <4>1. PICK w \in Workers : Held(w, d)
        BY <2>4, <3>3
      <4>2. \A v \in Workers : ~RunsOn(v, d)
        BY <2>1, <4>1, Apart DEF RunsOn
      <4> QED
        BY <2>3, <2>4, <4>1, <4>2 DEF DequeOK
    <3>4. ASSUME Runners(d) # {} PROVE deq[d].live
      <4>1. PICK w \in Workers : active[w] = d
        BY <2>4, <3>4 DEF RunsOn
      <4> QED
        BY <2>3, <4>1 DEF WorkerOK, ActiveOK
    <3> QED
      BY <3>1, <3>2, <3>3, <3>4
  <2>7. deq[d].live => d \in waiting \/ Offers(d) # {} \/ Holders(d) # {} \/ Runners(d) # {}
    <3>1. SUFFICES ASSUME deq[d].live
                   PROVE  d \in waiting \/ Offers(d) # {} \/ Holders(d) # {} \/ Runners(d) # {}
      OBVIOUS
    <3>2. Somewhere(d)
      BY <2>3, <3>1 DEF DequeOK
    <3>3. Says(deq[d], TRUE) => deq[d].worker \in Workers
      BY <2>1 DEF TypeOK, Deque, Says
    <3> QED
      BY <2>4, <3>2, <3>3 DEF Somewhere
  <2>8. /\ Cardinality(Runners(d)) = IF Runners(d) = {} THEN 0 ELSE 1
        /\ Cardinality(Holders(d)) = IF Holders(d) = {} THEN 0 ELSE 1
        /\ Cardinality(Offers(d)) = IF Offers(d) = {} THEN 0 ELSE 1
    <3>1. ASSUME NEW S, \A v, w \in S : v = w
          PROVE  Cardinality(S) = IF S = {} THEN 0 ELSE 1
      <4>1. CASE S = {}
        BY <4>1, CountNone
      <4>2. CASE S # {}
        <5>1. PICK x \in S : TRUE
          BY <4>2
        <5> QED
          BY <3>1, <4>2, <5>1, CountOne
      <4> QED
        BY <4>1, <4>2
    <3> QED
      BY <2>5, <3>1
  <2> QED
    BY <2>6, <2>7, <2>8
<1> QED
  BY <1>1, DequePoolInvariant, PTL

-----------------------------------------------------------------------------
(* DequePool implements DequeSpec *)

(* The future that d has waited for is complete, and w looks for a pool. *)
Returning(w, d) == pc[w] \in {"resume", "owned", "free", "give"} /\ loc[w].d = d

(* What a step may leave as it is in terms of DequeSpec. *)
SameUses  == \A w \in Workers : Uses(w)' = Uses(w)
SameReady == \A d \in Deques : Ready(d)' <=> Ready(d)
SameWork  == \A d \in Deques : Work(d)' = Work(d)

AbstractStep == [Abstract!Next]_(Abstract!vars)

(* The steps of DequeSpec, one worker or deque at a time. *)
LEMMA StutterStep ==
  ASSUME SameUses, SameReady, SameWork, waiting' = waiting
  PROVE  AbstractStep
PROOF
<1>1. [w \in Workers |-> Uses(w)]' = [w \in Workers |-> Uses(w)]
  BY DEF SameUses
<1>2. {d \in Deques : Ready(d)}' = {d \in Deques : Ready(d)}
  BY DEF SameReady
<1>3. [d \in Deques |-> Work(d)]' = [d \in Deques |-> Work(d)]
  BY DEF SameWork
<1> QED
  BY <1>1, <1>2, <1>3 DEF AbstractStep, Abstract!vars

(* A frame is pushed, ... *)
LEMMA PushStep ==
  ASSUME SameUses, SameReady, waiting' = waiting, NEW w \in Workers, NEW u \in Deques,
         u = Uses(w), u # NULL, Work(u)' = Work(u) + 1,
         \A d \in Deques : d # u => Work(d)' = Work(d)
  PROVE  AbstractStep
PROOF
<1>1. [v \in Workers |-> Uses(v)]' = [v \in Workers |-> Uses(v)]
  BY DEF SameUses
<1>2. {d \in Deques : Ready(d)}' = {d \in Deques : Ready(d)}
  BY DEF SameReady
<1>3. [d \in Deques |-> Work(d)]' = [[d \in Deques |-> Work(d)] EXCEPT ![u] = @ + 1]
  OBVIOUS
<1>4. [v \in Workers |-> Uses(v)][w] = u
  OBVIOUS
<1>5. Abstract!Push(w)
  BY <1>1, <1>2, <1>3, <1>4 DEF Abstract!Push
<1> QED
  BY <1>5 DEF AbstractStep, Abstract!Next

(* ... popped ... *)
LEMMA PopStep ==
  ASSUME SameUses, SameReady, waiting' = waiting, NEW w \in Workers, NEW u \in Deques,
         u = Uses(w), u # NULL, Work(u) > 0, Work(u)' = Work(u) - 1,
         \A d \in Deques : d # u => Work(d)' = Work(d)
  PROVE  AbstractStep
PROOF
<1>1. [v \in Workers |-> Uses(v)]' = [v \in Workers |-> Uses(v)]
  BY DEF SameUses
<1>2. {d \in Deques : Ready(d)}' = {d \in Deques : Ready(d)}
  BY DEF SameReady
<1>3. [d \in Deques |-> Work(d)]' = [[d \in Deques |-> Work(d)] EXCEPT ![u] = @ - 1]
  OBVIOUS
<1>4. [v \in Workers |-> Uses(v)][w] = u /\ [d \in Deques |-> Work(d)][u] > 0
  OBVIOUS
<1>5. Abstract!Pop(w)
  BY <1>1, <1>2, <1>3, <1>4 DEF Abstract!Pop
<1> QED
  BY <1>5 DEF AbstractStep, Abstract!Next

(* ... or stolen. *)
LEMMA StealStep ==
  ASSUME SameUses, SameReady, waiting' = waiting, NEW u \in Deques,
         Work(u) > 0, Work(u)' = Work(u) - 1,
         \A d \in Deques : d # u => Work(d)' = Work(d)
  PROVE  AbstractStep
PROOF
<1>1. [v \in Workers |-> Uses(v)]' = [v \in Workers |-> Uses(v)]
  BY DEF SameUses
<1>2. {d \in Deques : Ready(d)}' = {d \in Deques : Ready(d)}
  BY DEF SameReady
<1>3. [d \in Deques |-> Work(d)]' = [[d \in Deques |-> Work(d)] EXCEPT ![u] = @ - 1]
  OBVIOUS
<1>4. [d \in Deques |-> Work(d)][u] > 0
  OBVIOUS
<1>5. Abstract!Steal(u)
  BY <1>1, <1>2, <1>3, <1>4 DEF Abstract!Steal
<1> QED
  BY <1>5 DEF AbstractStep, Abstract!Next

(* A deque waits, ... *)
LEMMA SuspendStep ==
  ASSUME SameReady, SameWork, NEW w \in Workers, NEW u \in Deques, u = Uses(w), u # NULL,
         waiting' = waiting \cup {u}, Uses(w)' = NULL,
         \A v \in Workers : v # w => Uses(v)' = Uses(v)
  PROVE  AbstractStep
PROOF
<1>1. [v \in Workers |-> Uses(v)]' = [[v \in Workers |-> Uses(v)] EXCEPT ![w] = NULL]
  OBVIOUS
<1>2. {d \in Deques : Ready(d)}' = {d \in Deques : Ready(d)}
  BY DEF SameReady
<1>3. [d \in Deques |-> Work(d)]' = [d \in Deques |-> Work(d)]
  BY DEF SameWork
<1>4. [v \in Workers |-> Uses(v)][w] = u
  OBVIOUS
<1>5. Abstract!Suspend(w)
  BY <1>1, <1>2, <1>3, <1>4 DEF Abstract!Suspend
<1> QED
  BY <1>5 DEF AbstractStep, Abstract!Next

(* ... its future is complete, ... *)
LEMMA CompleteStep ==
  ASSUME SameUses, SameWork, NEW u \in Deques, u \in waiting, waiting' = waiting \ {u},
         Ready(u)', \A d \in Deques : d # u => (Ready(d)' <=> Ready(d))
  PROVE  AbstractStep
PROOF
<1>1. [v \in Workers |-> Uses(v)]' = [v \in Workers |-> Uses(v)]
  BY DEF SameUses
<1>2. {d \in Deques : Ready(d)}' = {d \in Deques : Ready(d)} \cup {u}
  OBVIOUS
<1>3. [d \in Deques |-> Work(d)]' = [d \in Deques |-> Work(d)]
  BY DEF SameWork
<1>5. Abstract!Complete(u)
  BY <1>1, <1>2, <1>3 DEF Abstract!Complete
<1> QED
  BY <1>5 DEF AbstractStep, Abstract!Next

(* ... and a worker gets it back; ... *)
LEMMA ResumeStep ==
  ASSUME SameWork, waiting' = waiting, NEW w \in Workers, NEW u \in Deques,
         Uses(w) = NULL \/ (Uses(w) \in Deques /\ Work(Uses(w)) = 0),
         Ready(u), ~Ready(u)', \A d \in Deques : d # u => (Ready(d)' <=> Ready(d)),
         Uses(w)' = u, \A v \in Workers : v # w => Uses(v)' = Uses(v)
  PROVE  AbstractStep
PROOF
<1>1. [v \in Workers |-> Uses(v)]' = [[v \in Workers |-> Uses(v)] EXCEPT ![w] = u]
  OBVIOUS
<1>2. {d \in Deques : Ready(d)}' = {d \in Deques : Ready(d)} \ {u} /\ u \in {d \in Deques : Ready(d)}
  OBVIOUS
<1>3. [d \in Deques |-> Work(d)]' = [d \in Deques |-> Work(d)]
  BY DEF SameWork
<1>4. PICK f : f = [v \in Workers |-> Uses(v)]
  OBVIOUS
<1>5. PICK k : k = [d \in Deques |-> Work(d)]
  OBVIOUS
<1>6. f[w] # NULL => k[f[w]] = 0
  BY <1>4, <1>5
<1>7. Abstract!Resume(w, u)
  BY <1>1, <1>2, <1>3, <1>4, <1>5, <1>6 DEF Abstract!Resume, Abstract!Idle
<1> QED
  BY <1>7 DEF AbstractStep, Abstract!Next

(* ... or a worker gets a fresh one. *)
LEMMA RenewStep ==
  ASSUME SameWork, SameReady, waiting' = waiting, NEW w \in Workers, NEW u \in Deques,
         Uses(w) = NULL, ~Ready(u), u \notin waiting, Work(u) = 0,
         \A v \in Workers : Uses(v) # u,
         Uses(w)' = u, \A v \in Workers : v # w => Uses(v)' = Uses(v)
  PROVE  AbstractStep
PROOF
<1>1. [v \in Workers |-> Uses(v)]' = [[v \in Workers |-> Uses(v)] EXCEPT ![w] = u]
  OBVIOUS
<1>2. {d \in Deques : Ready(d)}' = {d \in Deques : Ready(d)} /\ u \notin {d \in Deques : Ready(d)}
  BY DEF SameReady
<1>3. [d \in Deques |-> Work(d)]' = [d \in Deques |-> Work(d)]
  BY DEF SameWork
<1>4. [v \in Workers |-> Uses(v)][w] = NULL /\ [d \in Deques |-> Work(d)][u] = 0
  OBVIOUS
<1>5. \A v \in Workers : [x \in Workers |-> Uses(x)][v] # u
  OBVIOUS
<1>6. Abstract!Renew(w, u)
  BY <1>1, <1>2, <1>3, <1>4, <1>5 DEF Abstract!Renew
<1> QED
  BY <1>6 DEF AbstractStep, Abstract!Next

-----------------------------------------------------------------------------
(* What a step of one worker changes *)

(* Just the deques in the pools of resumable ones say that they are. *)
LEMMA OfferKnown ==
  ASSUME NEW dq, NEW pools \in [Workers -> Seq(Deques)],
         Indexed(dq, pools, TRUE), NEW d \in Deques, dq \in [Deques -> Deque]
  PROVE  (\E w \in Workers : d \in ToSet(pools[w])) <=> Says(dq[d], TRUE)
PROOF
<1>1. ASSUME NEW w \in Workers, d \in ToSet(pools[w]) PROVE Says(dq[d], TRUE)
  <2>1. PICK i \in 1..Len(pools[w]) : pools[w][i] = d
    BY <1>1, ToSetIndex
  <2>2. dq[d].worker = w /\ dq[d].self = i - 1 /\ dq[d].resumable = TRUE
    BY <2>1 DEF Indexed
  <2> QED
    BY <2>2, Constants DEF Says
<1>2. ASSUME Says(dq[d], TRUE) PROVE \E w \in Workers : d \in ToSet(pools[w])
  <2>1. PICK w \in Workers : w = dq[d].worker
    BY <1>2 DEF Deque, Says
  <2>2. dq[d].self + 1 \in 1..Len(pools[w]) /\ pools[w][dq[d].self + 1] = d
    BY <1>2, <2>1 DEF Indexed
  <2> QED
    BY <2>2, ToSetIndex
<1> QED
  BY <1>1, <1>2

(* So a deque is ready that says that it is or that a worker is returning, ... *)
LEMMA ReadyKnown ==
  ASSUME TypeOK, PoolInv, NEW d \in Deques
  PROVE  Ready(d) <=> Says(deq[d], TRUE) \/ \E w \in Workers : Returning(w, d)
PROOF
<1>1. Offers(d) # {} <=> \E w \in Workers : d \in ToSet(resumable_deques[w])
  BY DEF Offers
<1>2. (\E w \in Workers : d \in ToSet(resumable_deques[w])) <=> Says(deq[d], TRUE)
  BY OfferKnown DEF TypeOK, PoolInv
<1> QED
  BY <1>1, <1>2 DEF Ready, Returning

(* ... after a step as well. *)
LEMMA ReadyKnownNext ==
  ASSUME TypeOK', PoolInv', NEW d \in Deques
  PROVE  Ready(d)' <=> Says(deq'[d], TRUE) \/ \E w \in Workers : Returning(w, d)'
PROOF
<1>1. Offers(d)' # {} <=> \E w \in Workers : d \in ToSet(resumable_deques'[w])
  BY DEF Offers
<1>2. (\E w \in Workers : d \in ToSet(resumable_deques'[w])) <=> Says(deq'[d], TRUE)
  BY OfferKnown DEF TypeOK, PoolInv
<1> QED
  BY <1>1, <1>2 DEF Ready, Returning

(* A deque stays ready when it stays in the pools or in the hands of w. *)
LEMMA ReadyMoved ==
  ASSUME TypeOK, PoolInv, TypeOK', PoolInv', NEW w \in Workers, Alone(w), NEW d \in Deques,
         Says(deq'[d], TRUE) \/ Returning(w, d)' <=> Says(deq[d], TRUE) \/ Returning(w, d)
  PROVE  Ready(d)' <=> Ready(d)
PROOF
<1>1. \A v \in Workers : v # w => (Returning(v, d)' <=> Returning(v, d))
  BY DEF Alone, Returning
<1>2. (\E v \in Workers : Returning(v, d)) <=>
        Returning(w, d) \/ \E v \in Workers : v # w /\ Returning(v, d)
  OBVIOUS
<1>3. (\E v \in Workers : Returning(v, d)') <=>
        Returning(w, d)' \/ \E v \in Workers : v # w /\ Returning(v, d)
  BY <1>1
<1> QED
  BY <1>2, <1>3, ReadyKnown, ReadyKnownNext

(* The same where the pools do not change. *)
LEMMA ReadySame ==
  ASSUME NEW w \in Workers, Alone(w), resumable_deques' = resumable_deques, NEW d \in Deques,
         Returning(w, d)' <=> Returning(w, d)
  PROVE  Ready(d)' <=> Ready(d)
PROOF
<1>1. \A v \in Workers : Returning(v, d)' <=> Returning(v, d)
  BY DEF Alone, Returning
<1>2. Offers(d)' = Offers(d)
  BY DEF Offers
<1> QED
  BY <1>1, <1>2 DEF Ready, Returning

(* The others use the deques that they used. *)
LEMMA UsesOthers ==
  ASSUME NEW w \in Workers, Alone(w)
  PROVE  \A v \in Workers : v # w => Uses(v)' = Uses(v)
PROOF
  BY DEF Alone, Uses

(* Outside the THE protocol the frames of a deque are its work. *)
LEMMA WorkStep ==
  ASSUME TypeOK, TypeOK', NEW w \in Workers, Alone(w),
         pc[w] \notin {"pop", "check", "detach"}, pc'[w] \notin {"pop", "check", "detach"},
         NEW d \in Deques
  PROVE  /\ Popping(d)' <=> Popping(d)
         /\ Detaching(d)' <=> Detaching(d)
         /\ deq'[d].frames = deq[d].frames => Work(d)' = Work(d)
         /\ deq'[d].frames = deq[d].frames - 1 => Work(d)' = Work(d) - 1
         /\ deq'[d].frames = deq[d].frames + 1 => Work(d)' = Work(d) + 1
PROOF
<1>1. Popping(d)' <=> Popping(d)
  BY DEF Popping, Alone
<1>2. Detaching(d)' <=> Detaching(d)
  BY DEF Detaching, Alone
<1>3. deq[d].frames \in Int /\ deq'[d].frames \in Int
  <2>1. deq[d] \in Deque /\ deq'[d] \in Deque
    BY DEF TypeOK
  <2>2. deq[d].frames \in -1..MaxFrames /\ deq'[d].frames \in -1..MaxFrames
    BY <2>1 DEF Deque
  <2> QED
    BY <2>2
<1>4. PICK p \in Int : p = IF Popping(d) THEN 1 ELSE 0
  OBVIOUS
<1>5. PICK q \in Int : q = IF Detaching(d) THEN 1 ELSE 0
  OBVIOUS
<1>6. Work(d) = deq[d].frames + p - q
  BY ONLY <1>4, <1>5 DEF Work
<1>7. Work(d)' = deq'[d].frames + p - q
  <2>1. p = IF Popping(d)' THEN 1 ELSE 0
    BY <1>1, <1>4
  <2>2. q = IF Detaching(d)' THEN 1 ELSE 0
    BY <1>2, <1>5
  <2> QED
    BY ONLY <2>1, <2>2 DEF Work
<1>8. /\ deq'[d].frames = deq[d].frames => Work(d)' = Work(d)
      /\ deq'[d].frames = deq[d].frames - 1 => Work(d)' = Work(d) - 1
      /\ deq'[d].frames = deq[d].frames + 1 => Work(d)' = Work(d) + 1
  BY ONLY <1>3, <1>6, <1>7, p \in Int, q \in Int
<1> QED
  BY <1>1, <1>2, <1>8

(* The frames that count, and those that owner and thief are at work on. *)
LEMMA WorkValue ==
  ASSUME NEW d, deq[d].frames \in Int
  PROVE  /\ Popping(d) /\ Detaching(d) => Work(d) = deq[d].frames
         /\ Popping(d) /\ ~Detaching(d) => Work(d) = deq[d].frames + 1
         /\ ~Popping(d) /\ Detaching(d) => Work(d) = deq[d].frames - 1
         /\ ~Popping(d) /\ ~Detaching(d) => Work(d) = deq[d].frames
PROOF
  BY DEF Work

(* The same after a step. *)
LEMMA WorkValueNext ==
  ASSUME NEW d, deq'[d].frames \in Int
  PROVE  /\ Popping(d)' /\ Detaching(d)' => Work(d)' = deq'[d].frames
         /\ Popping(d)' /\ ~Detaching(d)' => Work(d)' = deq'[d].frames + 1
         /\ ~Popping(d)' /\ Detaching(d)' => Work(d)' = deq'[d].frames - 1
         /\ ~Popping(d)' /\ ~Detaching(d)' => Work(d)' = deq'[d].frames
PROOF
  BY DEF Work

(* Who pops from d stays the same, ... *)
LEMMA PoppingSame ==
  ASSUME NEW w \in Workers, Alone(w), active' = active, NEW d,
         active[w] = d => (pc'[w] \in {"pop", "check"} <=> pc[w] \in {"pop", "check"})
  PROVE  Popping(d)' <=> Popping(d)
PROOF
  BY DEF Popping, Alone

(* ... or who detaches a frame from it. *)
LEMMA DetachingSame ==
  ASSUME NEW w \in Workers, Alone(w), NEW d,
         pc'[w] = "detach" /\ loc'[w].d = d <=> pc[w] = "detach" /\ loc[w].d = d
  PROVE  Detaching(d)' <=> Detaching(d)
PROOF
  BY DEF Detaching, Alone

(* Then the work on d does too. *)
LEMMA WorkSame ==
  ASSUME NEW d, deq'[d].frames = deq[d].frames,
         Popping(d)' <=> Popping(d), Detaching(d)' <=> Detaching(d)
  PROVE  Work(d)' = Work(d)
PROOF
  BY DEF Work

(* The frames of a deque are counted. *)
LEMMA FramesInt ==
  ASSUME TypeOK, NEW d \in Deques
  PROVE  deq[d].frames \in Int /\ deq[d].frames >= -1 /\ deq[d].exc \in 0..1
PROOF
<1>1. deq[d] \in Deque
  BY DEF TypeOK
<1>2. deq[d].frames \in -1..MaxFrames /\ deq[d].exc \in 0..1
  BY <1>1 DEF Deque
<1> QED
  BY <1>2, Constants

(* A worker that runs user code or steals keeps its deque. *)
LEMMA PlainUses ==
  ASSUME NEW w \in Workers, Alone(w), active' = active, resumable_deques' = resumable_deques,
         pc[w] \in Plain, pc'[w] \in Plain
  PROVE  SameUses /\ SameReady /\ Uses(w) = active[w]
PROOF
<1>1. Uses(w) = active[w] /\ Uses(w)' = active[w]
  BY DEF Uses, Plain
<1>2. SameUses
  BY <1>1, UsesOthers DEF SameUses
<1>3. \A d \in Deques : ~Returning(w, d) /\ ~Returning(w, d)'
  BY DEF Returning, Plain
<1> QED
  BY <1>1, <1>2, <1>3, ReadySame DEF SameReady

(* Nobody else pops from the active deque of w. *)
LEMMA PopsAlone ==
  ASSUME PlaceInv, NEW w \in Workers
  PROVE  Popping(active[w]) <=> pc[w] \in {"pop", "check"}
PROOF
  BY ActiveUnique DEF Popping

(* Nobody else detaches a frame from the deque of a thief. *)
LEMMA DetachesAlone ==
  ASSUME PlaceInv, ThiefInv, NEW w \in Workers, pc[w] \in Thief
  PROVE  Detaching(loc[w].d) <=> pc[w] = "detach"
PROOF
  BY ThiefUnique DEF Detaching, Thief

-----------------------------------------------------------------------------
(* The steps of the program and of thieves *)

(* A push is a push. *)
LEMMA PushMaps ==
  ASSUME DequeInv, DequeInv', NEW w \in Workers, Push(w)
  PROVE  AbstractStep
PROOF
<1>0. PICK a \in Deques : a = active[w]
  BY DEF DequeInv, TypeOK
<1>1. /\ TypeOK /\ TypeOK' /\ Alone(w) /\ active' = active /\ waiting' = waiting
      /\ resumable_deques' = resumable_deques /\ pc[w] = "run" /\ pc'[w] = "run"
      /\ a \in Deques /\ a # NULL
  BY <1>0, Constants DEF DequeInv, Push, Alone, TypeOK
<1>2. SameUses /\ SameReady /\ Uses(w) = a
  BY <1>0, <1>1, PlainUses DEF Plain
<1>3. /\ deq'[a].frames = deq[a].frames + 1
      /\ \A d \in Deques : d # a => deq'[d].frames = deq[d].frames
  BY <1>0, <1>1 DEF Push, TypeOK, Deque, Active
<1>4. Work(a)' = Work(a) + 1 /\ \A d \in Deques : d # a => Work(d)' = Work(d)
  BY <1>0, <1>1, <1>3, WorkStep
<1> QED
  BY <1>0, <1>1, <1>2, <1>4, PushStep

(* A pop does not count yet, ... *)
LEMMA PopMaps ==
  ASSUME DequeInv, DequeInv', NEW w \in Workers, Pop(w)
  PROVE  AbstractStep
PROOF
<1>0. PICK a \in Deques : a = active[w]
  BY DEF DequeInv, TypeOK
<1>1. /\ TypeOK /\ TypeOK' /\ PlaceInv /\ PlaceInv'
      /\ Alone(w) /\ active' = active /\ waiting' = waiting
      /\ resumable_deques' = resumable_deques /\ pc[w] = "run" /\ pc'[w] = "pop" /\ loc' = loc
      /\ a \in Deques
  BY <1>0 DEF DequeInv, Pop, Alone, TypeOK
<1>2. SameUses /\ SameReady
  BY <1>0, <1>1, PlainUses DEF Plain
<1>3. /\ deq'[a].frames = deq[a].frames - 1
      /\ \A d \in Deques : d # a => deq'[d].frames = deq[d].frames
  BY <1>0, <1>1 DEF Pop, TypeOK, Deque, Active
<1>4. \A d \in Deques : Detaching(d)' <=> Detaching(d)
  BY <1>0, <1>1, DetachingSame
<1>5. \A d \in Deques : d # a => (Popping(d)' <=> Popping(d))
  BY <1>0, <1>1, PoppingSame
<1>6. ~Popping(a) /\ Popping(a)'
  <2>1. ~Popping(a)
    BY <1>0, <1>1, PopsAlone
  <2>2. Popping(a)'
    BY <1>0, <1>1 DEF Popping
  <2> QED
    BY <1>0, <2>1, <2>2
<1>7. Work(a)' = Work(a)
  <2>1. deq[a].frames \in Int
    BY <1>0, <1>1, FramesInt
  <2>2. deq'[a].frames \in Int
    BY <1>0, <1>3, <2>1
  <2> QED
    BY <1>0, <1>3, <1>4, <1>6, <2>1, <2>2, WorkValue, WorkValueNext
<1>8. SameWork
  BY <1>0, <1>3, <1>4, <1>5, <1>7, WorkSame DEF SameWork
<1> QED
  BY <1>0, <1>1, <1>2, <1>8, StutterStep

(* ... until it is known that no thief is after the frame ... *)
LEMMA UndoDetachMaps ==
  ASSUME DequeInv, DequeInv', NEW w \in Workers, UndoDetach(w)
  PROVE  AbstractStep
PROOF
<1>0. PICK a \in Deques : a = active[w]
  BY DEF DequeInv, TypeOK
<1>1. /\ TypeOK /\ PlaceInv /\ StealInv /\ Alone(w) /\ active' = active /\ waiting' = waiting
      /\ resumable_deques' = resumable_deques /\ pc[w] = "pop" /\ loc' = loc /\ deq' = deq
      /\ pc'[w] = IF Excepted(a) THEN "check" ELSE "run"
      /\ a \in Deques /\ a # NULL
  BY <1>0, Constants DEF DequeInv, UndoDetach, Alone, TypeOK
<1>2. SameUses /\ SameReady /\ Uses(w) = a
  BY <1>0, <1>1, PlainUses DEF Plain
<1>3. \A d \in Deques : Detaching(d)' <=> Detaching(d)
  BY <1>0, <1>1, DetachingSame
<1>4. \A d \in Deques : d # a => Work(d)' = Work(d)
  BY <1>0, <1>1, <1>3, PoppingSame, WorkSame
<1>5. CASE Excepted(a)
  <2>1. Popping(a)' <=> Popping(a)
    BY <1>0, <1>1, <1>5, PoppingSame
  <2>2. SameWork
    BY <1>0, <1>1, <1>3, <1>4, <2>1, WorkSame DEF SameWork
  <2> QED
    BY <1>0, <1>1, <1>2, <2>2, StutterStep
<1>6. CASE ~Excepted(a)
  <2>1. Popping(a)
    BY <1>0, <1>1, PopsAlone
  <2>2. ~Popping(a)'
    BY <1>0, <1>1, <1>6, ActiveUnique DEF Popping, Alone
  <2>3. deq[a].frames \in Int /\ deq[a].exc \in 0..1 /\ deq[a].frames >= deq[a].exc
    BY <1>0, <1>1, <1>6, FramesInt DEF Excepted
  <2>4. Detaching(a) => deq[a].exc = 1
    BY <1>0, <1>1 DEF StealInv, ExcInv, Raised, Detaching
  <2>5. Work(a) > 0 /\ Work(a)' = Work(a) - 1
    <3>1. deq'[a].frames \in Int /\ deq'[a].frames = deq[a].frames
      BY <1>0, <1>1, <2>3
    <3> QED
      BY <1>0, <1>3, <2>1, <2>2, <2>3, <2>4, <3>1, WorkValue, WorkValueNext
  <2> QED
    BY <1>0, <1>1, <1>2, <1>4, <2>5, PopStep
<1> QED
  BY <1>0, <1>5, <1>6

(* ... or that the thief was too late; if it was not, nothing was popped. *)
LEMMA ExceptionCheckMaps ==
  ASSUME DequeInv, DequeInv', NEW w \in Workers, ExceptionCheck(w)
  PROVE  AbstractStep
PROOF
<1>0. PICK a \in Deques : a = active[w]
  BY DEF DequeInv, TypeOK
<1> DEFINE stolen == deq[a].frames + 1 <= 0
<1>1. /\ TypeOK /\ PlaceInv /\ StealInv /\ Alone(w) /\ active' = active /\ waiting' = waiting
      /\ resumable_deques' = resumable_deques /\ pc[w] = "check" /\ loc' = loc
      /\ pc'[w] \in {"idle", "run"} /\ ~Locked(w) /\ a \in Deques /\ a # NULL
  BY <1>0, Constants DEF DequeInv, ExceptionCheck, Alone, TypeOK
<1>2. SameUses /\ SameReady /\ Uses(w) = a
  BY <1>0, <1>1, PlainUses DEF Plain
<1>3. deq[a].frames \in Int
  BY <1>0, <1>1, FramesInt
<1>4. /\ stolen => deq'[a].frames = deq[a].frames + 1
      /\ ~stolen => deq'[a].frames = deq[a].frames
      /\ \A d \in Deques : d # a => deq'[d].frames = deq[d].frames
  <2>1. deq' = [deq EXCEPT ![a].exc = 0, ![a].frames = IF stolen THEN @ + 1 ELSE @]
    BY <1>0 DEF ExceptionCheck, Active
  <2> QED
    BY <1>0, <1>1, <2>1 DEF TypeOK, Deque
<1>5. \A d \in Deques : Detaching(d)' <=> Detaching(d)
  BY <1>0, <1>1, DetachingSame
<1>6. ~Detaching(a) /\ ~Detaching(a)'
  <2>1. deq[a].worker = w
    BY <1>0, <1>1 DEF PlaceInv, ActiveInv, ActiveOK
  <2> QED
    BY <1>0, <1>1, <1>5, <2>1, NoThief DEF Detaching, Thief
<1>7. Popping(a) /\ ~Popping(a)'
  <2>1. Popping(a)
    BY <1>0, <1>1, PopsAlone
  <2>2. ~Popping(a)'
    BY <1>0, <1>1, ActiveUnique DEF Popping, Alone
  <2> QED
    BY <1>0, <2>1, <2>2
<1>8. \A d \in Deques : d # a => Work(d)' = Work(d)
  BY <1>0, <1>1, <1>4, <1>5, PoppingSame, WorkSame
<1>9. CASE stolen
  <2>1. Work(a)' = Work(a)
    <3>1. deq'[a].frames \in Int /\ deq'[a].frames = deq[a].frames + 1
      BY <1>0, <1>3, <1>4, <1>9
    <3> QED
      BY <1>0, <1>3, <1>6, <1>7, <3>1, WorkValue, WorkValueNext
  <2>2. SameWork
    BY <1>0, <1>8, <2>1 DEF SameWork
  <2> QED
    BY <1>0, <1>1, <1>2, <2>2, StutterStep
<1>10. CASE ~stolen
  <2>1. Work(a) > 0 /\ Work(a)' = Work(a) - 1
    <3>1. deq'[a].frames \in Int /\ deq'[a].frames = deq[a].frames /\ deq[a].frames >= 0
      BY <1>0, <1>3, <1>4, <1>10
    <3> QED
      BY <1>0, <1>3, <1>6, <1>7, <3>1, WorkValue, WorkValueNext
  <2> QED
    BY <1>0, <1>1, <1>2, <1>8, <2>1, PopStep
<1> QED
  BY <1>0, <1>9, <1>10

(* Steps that change neither the frames of a deque nor who is after them. *)
LEMMA QuietMaps ==
  ASSUME DequeInv, NEW w \in Workers, Alone(w),
         active' = active, waiting' = waiting, resumable_deques' = resumable_deques,
         pc[w] \in Plain \ {"pop", "check", "detach"},
         pc'[w] \in Plain \ {"pop", "check", "detach"},
         \A d \in Deques : deq'[d].frames = deq[d].frames
  PROVE  AbstractStep
PROOF
<1>1. SameUses /\ SameReady
  BY PlainUses
<1>2. \A d \in Deques : (Popping(d)' <=> Popping(d)) /\ (Detaching(d)' <=> Detaching(d))
  BY PoppingSame, DetachingSame
<1>3. SameWork
  BY <1>2, WorkSame DEF SameWork
<1> QED
  BY <1>1, <1>3, StutterStep

(* A worker that stalls keeps its deque. *)
LEMMA RunOutMaps ==
  ASSUME DequeInv, NEW w \in Workers, RunOut(w)
  PROVE  AbstractStep
PROOF
<1>1. /\ Alone(w) /\ active' = active /\ waiting' = waiting /\ deq' = deq
      /\ resumable_deques' = resumable_deques /\ pc[w] = "run" /\ pc'[w] = "idle"
  BY DEF DequeInv, RunOut, Alone, TypeOK
<1> QED
  BY <1>1, QuietMaps DEF Plain

(* A thief that has the lock has not stolen anything, ... *)
LEMMA ProbeMaps ==
  ASSUME DequeInv, NEW w \in Workers, NEW victim \in Workers, NEW d \in Deques,
         Probe(w, victim, d)
  PROVE  AbstractStep
PROOF
<1>1. /\ Alone(w) /\ active' = active /\ waiting' = waiting /\ deq' = deq
      /\ resumable_deques' = resumable_deques /\ pc[w] = "idle" /\ pc'[w] = "probe"
  BY DEF DequeInv, Probe, CanChoose, Alone, TypeOK
<1> QED
  BY <1>1, QuietMaps DEF Plain

(* ... nor has one that raises exc. *)
LEMMA IncrementEMaps ==
  ASSUME DequeInv, NEW w \in Workers, IncrementE(w)
  PROVE  AbstractStep
PROOF
<1>1. /\ Alone(w) /\ active' = active /\ waiting' = waiting
      /\ resumable_deques' = resumable_deques /\ pc[w] = "probe" /\ pc'[w] = "dekker"
  BY DEF DequeInv, IncrementE, Alone, TypeOK
<1>2. \A d \in Deques : deq'[d].frames = deq[d].frames
  BY DEF DequeInv, IncrementE, TypeOK, Deque
<1> QED
  BY <1>1, <1>2, QuietMaps DEF Plain

(* A steal counts when Dekker's protocol is won, ... *)
LEMMA DekkerMaps ==
  ASSUME DequeInv, NEW w \in Workers, Dekker(w)
  PROVE  AbstractStep
PROOF
<1>1. /\ TypeOK /\ PlaceInv /\ StealInv /\ ThiefInv
      /\ Alone(w) /\ active' = active /\ waiting' = waiting
      /\ resumable_deques' = resumable_deques /\ pc[w] = "dekker"
  BY DEF DequeInv, StealInv, Dekker, Alone, TypeOK
<1>2. PICK t \in Deques : t = loc[w].d
  BY <1>1, ThiefVictim DEF Thief
<1>3. CASE can_steal_from(t)
  <2>1. deq' = deq /\ loc' = loc /\ pc'[w] = "detach"
    BY <1>1, <1>2, <1>3 DEF Dekker, TypeOK
  <2>2. SameUses /\ SameReady
    BY <1>1, <2>1, PlainUses DEF Plain
  <2>3. \A d \in Deques : Popping(d)' <=> Popping(d)
    BY <1>1, <2>1, PoppingSame
  <2>4. \A d \in Deques : d # t => (Detaching(d)' <=> Detaching(d))
    BY <1>1, <1>2, <2>1, DetachingSame
  <2>5. ~Detaching(t) /\ Detaching(t)'
    <3>1. ~Detaching(t)
      BY <1>1, <1>2, DetachesAlone DEF Thief
    <3>2. Detaching(t)'
      BY <1>2, <2>1 DEF Detaching
    <3> QED
      BY <3>1, <3>2
  <2>6. \A d \in Deques : d # t => Work(d)' = Work(d)
    BY <2>1, <2>3, <2>4, WorkSame
  <2>7. Work(t) > 0 /\ Work(t)' = Work(t) - 1
    <3>1. deq[t].frames \in Int /\ deq[t].frames > 0 /\ deq'[t].frames = deq[t].frames
      BY <1>1, <1>3, <2>1, FramesInt DEF can_steal_from
    <3> QED
      BY <2>3, <2>5, <3>1, WorkValue, WorkValueNext
  <2> QED
    BY <1>1, <2>2, <2>6, <2>7, StealStep
<1>4. CASE ~can_steal_from(t)
  <2>1. deq' = [deq EXCEPT ![t].exc = @ - 1] /\ pc'[w] = "idle"
    BY <1>1, <1>2, <1>4 DEF Dekker, Decremented, TypeOK
  <2>2. \A d \in Deques : deq'[d].frames = deq[d].frames
    BY <1>1, <2>1 DEF TypeOK, Deque
  <2> QED
    BY <1>1, <2>1, <2>2, QuietMaps DEF Plain
<1> QED
  BY <1>3, <1>4

(* ... not when the head is moved. *)
LEMMA DetachForStealMaps ==
  ASSUME DequeInv, NEW w \in Workers, DetachForSteal(w)
  PROVE  AbstractStep
PROOF
<1>1. /\ TypeOK /\ PlaceInv /\ StealInv /\ ThiefInv
      /\ Alone(w) /\ active' = active /\ waiting' = waiting
      /\ resumable_deques' = resumable_deques /\ pc[w] = "detach" /\ pc'[w] = "run"
  BY DEF DequeInv, StealInv, DetachForSteal, Alone, TypeOK
<1>2. PICK t \in Deques : t = loc[w].d
  BY <1>1, ThiefVictim DEF Thief
<1>3. SameUses /\ SameReady
  BY <1>1, PlainUses DEF Plain
<1>4. \A d \in Deques : Popping(d)' <=> Popping(d)
  BY <1>1, PoppingSame
<1>5. \A d \in Deques : d # t => (Detaching(d)' <=> Detaching(d))
  BY <1>1, <1>2, DetachingSame
<1>6. Detaching(t) /\ ~Detaching(t)'
  <2>1. Detaching(t)
    BY <1>1, <1>2 DEF Detaching
  <2>2. ASSUME NEW v \in Workers, pc'[v] = "detach", loc'[v].d = t PROVE FALSE
    BY <1>1, <1>2, <2>2, ThiefUnique DEF Alone, Thief
  <2> QED
    BY <2>1, <2>2 DEF Detaching
<1>7. /\ deq'[t].frames = deq[t].frames - 1
      /\ \A d \in Deques : d # t => deq'[d].frames = deq[d].frames
  <2>1. deq' = [deq EXCEPT ![t].frames = @ - 1, ![t].exc = @ - 1]
    BY <1>2 DEF DetachForSteal
  <2> QED
    BY <1>1, <2>1 DEF TypeOK, Deque
<1>8. Work(t)' = Work(t)
  <2>1. deq[t].frames \in Int
    BY <1>1, FramesInt
  <2>2. deq'[t].frames \in Int
    BY <1>7, <2>1
  <2> QED
    BY <1>4, <1>6, <1>7, <2>1, <2>2, WorkValue, WorkValueNext
<1>9. SameWork
  BY <1>4, <1>5, <1>7, <1>8, WorkSame DEF SameWork
<1> QED
  BY <1>1, <1>3, <1>9, StutterStep

-----------------------------------------------------------------------------
(* The steps that suspend and resume deques *)

(* A worker moves deques around and keeps the one that it uses. *)
LEMMA MoveMaps ==
  ASSUME TypeOK, TypeOK', NEW w \in Workers, Alone(w), waiting' = waiting,
         pc[w] \notin {"pop", "check", "detach"}, pc'[w] \notin {"pop", "check", "detach"},
         \A d \in Deques : deq'[d].frames = deq[d].frames, Uses(w)' = Uses(w), SameReady
  PROVE  AbstractStep
PROOF
<1>1. SameUses
  BY UsesOthers DEF SameUses
<1>2. SameWork
  BY WorkStep DEF SameWork
<1> QED
  BY <1>1, <1>2, StutterStep

(* A get suspends the deque, although it is not yet in any pool. *)
LEMMA GetMaps ==
  ASSUME DequeInv, DequeInv', NEW w \in Workers, Get(w)
  PROVE  AbstractStep
PROOF
<1>1. PICK a \in Deques : a = active[w]
  BY DEF DequeInv, TypeOK
<1>2. /\ TypeOK /\ TypeOK' /\ Alone(w) /\ deq' = deq /\ waiting' = waiting \cup {a} /\ a # NULL
      /\ resumable_deques' = resumable_deques /\ pc[w] = "run" /\ pc'[w] = "suspend"
  BY <1>1, Constants DEF DequeInv, Get, Alone, TypeOK
<1>3. Uses(w) = a /\ Uses(w)' = NULL /\ \A v \in Workers : v # w => Uses(v)' = Uses(v)
  BY <1>1, <1>2, UsesOthers DEF Uses
<1>4. SameReady
  BY <1>2, ReadySame DEF SameReady, Returning
<1>5. SameWork
  BY <1>2, WorkStep DEF SameWork
<1> QED
  BY <1>2, <1>3, <1>4, <1>5, SuspendStep

(* A deque leaves the pools of resumable ones for the hands of w. *)
LEMMA TakenMaps ==
  ASSUME DequeInv, DequeInv', NEW w \in Workers, Alone(w), NEW d \in Deques,
         Says(deq[d], TRUE), deq'[d].worker = NULL,
         \A x \in Deques : x # d => deq'[x] = deq[x],
         \A x \in Deques : ~Returning(w, x) /\ ~Returning(w, x)'
  PROVE  /\ Ready(d) /\ ~Ready(d)'
         /\ \A x \in Deques : x # d => (Ready(x)' <=> Ready(x))
PROOF
<1>1. TypeOK /\ TypeOK' /\ PlaceInv /\ PoolInv /\ PoolInv'
  BY DEF DequeInv, PlaceInv
<1>2. Ready(d)
  BY <1>1, ReadyKnown
<1>3. \A v \in Workers : ~Returning(v, d)
  BY <1>1, Apart DEF Returning, Held
<1>4. \A v \in Workers : ~Returning(v, d)'
  BY <1>3 DEF Returning, Alone
<1>5. ~Ready(d)'
  BY <1>1, <1>4, ReadyKnownNext DEF Says
<1>6. \A x \in Deques : x # d => (Ready(x)' <=> Ready(x))
  BY <1>1, ReadyMoved
<1> QED
  BY <1>2, <1>5, <1>6

(* The last deque of a pool is taken out of it. *)
LEMMA LastTaken ==
  ASSUME TypeOK, NEW d \in Deques, NEW dm, dm = Taken(d, d)
  PROVE  /\ dm \in [Deques -> Deque]
         /\ dm[d].worker = NULL /\ dm[d].frames = deq[d].frames
         /\ \A x \in Deques : x # d => dm[x] = deq[x]
PROOF
<1>1. deq \in [Deques -> Deque]
  BY DEF TypeOK
<1>2. PICK last \in Deques : last = d
  OBVIOUS
<1>3. /\ dm \in [Deques -> Deque]
      /\ dm[d] = [live |-> deq[d].live, worker |-> NULL, self |-> INVALID_DEQUE_INDEX,
                  resumable |-> deq[d].resumable, fiber |-> deq[d].fiber,
                  frames |-> deq[d].frames, exc |-> deq[d].exc]
      /\ \A x \in Deques : x # d =>
           dm[x] = IF x = last THEN [deq[x] EXCEPT !.self = deq[d].self] ELSE deq[x]
  <2>1. dm = Taken(d, last)
    BY <1>2
  <2> QED
    BY ONLY <1>1, <2>1, RemovedShape, d \in Deques, last \in Deques
<1> QED
  BY <1>2, <1>3

(* A suspending worker resumes a deque of its own ... *)
LEMMA MugOwnMaps ==
  ASSUME DequeInv, DequeInv', NEW w \in Workers, MugOwn(w)
  PROVE  AbstractStep
PROOF
<1>1. /\ TypeOK /\ TypeOK' /\ PoolInv /\ resumable_deques[w] # <<>> /\ pc[w] = "suspend"
      /\ active' = active /\ waiting' = waiting
  BY DEF DequeInv, PlaceInv, MugOwn
<1>2. PICK d \in Deques : d = Last(resumable_deques[w]) /\ Says(deq[d], TRUE)
  BY <1>1, LastKnown
<1>3. /\ pc'[w] = "switch" /\ loc'[w].new = d /\ Alone(w)
  BY <1>1, <1>2 DEF MugOwn, TypeOK, Alone, NoLocal
<1>4. PICK dm : dm = Taken(d, d)
  OBVIOUS
<1>5. /\ dm \in [Deques -> Deque]
      /\ dm[d].worker = NULL /\ dm[d].frames = deq[d].frames
      /\ \A x \in Deques : x # d => dm[x] = deq[x]
  BY <1>1, <1>4, LastTaken
<1>6. deq' = [dm EXCEPT ![d].resumable = FALSE]
  BY <1>2, <1>4 DEF MugOwn, Removed, Taken
<1>7. /\ deq'[d].worker = NULL /\ deq'[d].frames = deq[d].frames
      /\ \A x \in Deques : x # d => deq'[x] = deq[x]
  <2>1. dm[d] \in Deque
    BY <1>5
  <2>2. deq'[d] = [dm[d] EXCEPT !.resumable = FALSE] /\ \A x \in Deques : x # d => deq'[x] = dm[x]
    BY <1>5, <1>6
  <2> QED
    BY <1>5, <2>1, <2>2 DEF Deque
<1>8. Ready(d) /\ ~Ready(d)' /\ \A x \in Deques : x # d => (Ready(x)' <=> Ready(x))
  BY <1>1, <1>2, <1>3, <1>7, TakenMaps DEF Returning
<1>9. Uses(w) = NULL /\ Uses(w)' = d /\ \A v \in Workers : v # w => Uses(v)' = Uses(v)
  BY <1>1, <1>3, UsesOthers DEF Uses
<1>10. SameWork
  <2>1. \A x \in Deques : deq'[x].frames = deq[x].frames
    BY <1>7
  <2> QED
    BY <1>1, <1>3, <2>1, WorkStep DEF SameWork
<1> QED
  BY <1>1, <1>8, <1>9, <1>10, ResumeStep

(* An idle worker resumes a deque of its victim, and leaves no work behind. *)
LEMMA MugResumableMaps ==
  ASSUME DequeInv, DequeInv', NEW w \in Workers, NEW victim \in Workers, MugResumable(w, victim)
  PROVE  AbstractStep
PROOF
<1>1. /\ TypeOK /\ TypeOK' /\ PlaceInv /\ StealInv /\ PoolInv /\ resumable_deques[victim] # <<>>
      /\ pc[w] = "idle" /\ active' = active /\ waiting' = waiting
  BY DEF DequeInv, PlaceInv, MugResumable, CanChoose
<1>2. PICK d \in Deques : d = Last(resumable_deques[victim]) /\ Says(deq[d], TRUE)
  BY <1>1, LastKnown
<1>3. /\ pc'[w] = "mugged" /\ loc'[w].d = d /\ Alone(w)
  BY <1>1, <1>2 DEF MugResumable, TypeOK, Alone, NoLocal
<1>4. PICK dm : dm = Taken(d, d)
  OBVIOUS
<1>5. /\ dm[d].worker = NULL /\ dm[d].frames = deq[d].frames
      /\ \A x \in Deques : x # d => dm[x] = deq[x]
  BY <1>1, <1>4, LastTaken
<1>6. deq' = dm
  BY <1>2, <1>4 DEF MugResumable, Removed, Taken
<1>7. Ready(d) /\ ~Ready(d)' /\ \A x \in Deques : x # d => (Ready(x)' <=> Ready(x))
  BY <1>1, <1>2, <1>3, <1>5, <1>6, TakenMaps DEF Returning
<1>8. PICK a \in Deques : a = active[w]
  BY <1>1 DEF TypeOK
<1>9. Uses(w) = a /\ Uses(w)' = d /\ \A v \in Workers : v # w => Uses(v)' = Uses(v)
  BY <1>1, <1>3, <1>8, UsesOthers DEF Uses
<1>10. Work(a) = 0
  <2>1. deq[a].frames = 0 /\ ~Popping(a)
    BY <1>1, <1>8, PopsAlone DEF StealInv, FrameInv, EmptyOK, Stuck
  <2>2. ~Detaching(a)
    BY <1>1, <2>1 DEF StealInv, FrameInv, DetachOK, Detaching
  <2> QED
    BY <2>1, <2>2, WorkValue
<1>11. SameWork
  <2>1. \A x \in Deques : deq'[x].frames = deq[x].frames
    BY <1>5, <1>6
  <2> QED
    BY <1>1, <1>3, <2>1, WorkStep DEF SameWork
<1> QED
  BY <1>1, <1>7, <1>9, <1>10, <1>11, ResumeStep

(* ... or gets a new one. *)
LEMMA AllocateMaps ==
  ASSUME DequeInv, DequeInv', NEW w \in Workers, Allocate(w)
  PROVE  AbstractStep
PROOF
<1>1. /\ TypeOK /\ TypeOK' /\ PlaceInv /\ StealInv /\ ThiefInv /\ PoolInv /\ ActiveInv
      /\ pc[w] = "suspend" /\ active' = active /\ waiting' = waiting
      /\ resumable_deques' = resumable_deques
  BY DEF DequeInv, PlaceInv, StealInv, Allocate
<1>2. PICK d \in Deques : ~deq[d].live /\ d = CHOOSE x \in Deques : ~deq[x].live
  BY DEF Allocate
<1>3. /\ pc'[w] = "switch" /\ loc'[w].new = d /\ Alone(w)
  BY <1>1, <1>2 DEF Allocate, TypeOK, Alone, NoLocal
<1>4. /\ deq[d].worker = NULL /\ deq[d].frames = 0 /\ ~Says(deq[d], TRUE)
  <2>1. deq[d] = Unused
    BY <1>1, <1>2 DEF ActiveInv
  <2>2. Unused.worker = NULL /\ Unused.frames = 0
    BY DEF Unused
  <2> QED
    BY <2>1, <2>2 DEF Says
<1>5. /\ deq'[d].frames = 0
      /\ \A x \in Deques : x # d => deq'[x] = deq[x]
  <2>1. deq' = [deq EXCEPT ![d] = [Unused EXCEPT !.live = TRUE, !.self = 0, !.fiber = "scheduling"]]
    BY <1>2 DEF Allocate
  <2>2. deq'[d] = [Unused EXCEPT !.live = TRUE, !.self = 0, !.fiber = "scheduling"]
    BY <1>1, <2>1 DEF TypeOK
  <2> QED
    BY <1>1, <2>1, <2>2 DEF TypeOK, Unused
<1>6. /\ d \notin waiting
      /\ \A v \in Workers : ~Held(v, d) /\ active[v] # d
  BY <1>1, <1>2, Apart DEF Pending
<1>7. ~Ready(d)
  BY <1>1, <1>4, <1>6, ReadyKnown DEF Held, Returning
<1>8. \A v \in Workers : Uses(v) # d
  BY <1>6, Constants DEF Uses, Held
<1>9. Work(d) = 0
  <2>1. ~Popping(d)
    BY <1>6 DEF Popping
  <2>2. ~Detaching(d)
    BY <1>1, <1>4, ThiefVictim, Constants DEF Detaching, Thief
  <2> QED
    BY <1>4, <2>1, <2>2, WorkValue
<1>10. SameWork
  <2>1. \A x \in Deques : deq'[x].frames = deq[x].frames
    BY <1>4, <1>5
  <2> QED
    BY <1>1, <1>3, <2>1, WorkStep DEF SameWork
<1>11. SameReady
  BY <1>1, <1>3, ReadySame DEF SameReady, Returning
<1>12. Uses(w) = NULL /\ Uses(w)' = d /\ \A v \in Workers : v # w => Uses(v)' = Uses(v)
  BY <1>1, <1>3, UsesOthers DEF Uses
<1> QED
  BY <1>1, <1>6, <1>7, <1>8, <1>9, <1>10, <1>11, <1>12, RenewStep

(* The switch to it may steal a frame from the old one. *)
LEMMA SwitchMaps ==
  ASSUME DequeInv, DequeInv', NEW w \in Workers, Switch(w)
  PROVE  AbstractStep
PROOF
<1>1. /\ TypeOK /\ TypeOK' /\ PlaceInv /\ StealInv /\ pc[w] = "switch" /\ ~Locked(w)
      /\ waiting' = waiting /\ resumable_deques' = resumable_deques
  BY DEF DequeInv, Switch
<1>2. PICK d \in Deques, new \in Deques : d = loc[w].d /\ d = active[w] /\ new = loc[w].new
  BY <1>1 DEF PlaceInv, ControlInv, ControlOK, TypeOK
<1>3. /\ pc'[w] = "park" /\ active'[w] = new /\ Alone(w)
  BY <1>1, <1>2 DEF Switch, TypeOK, Alone
<1>4. Uses(w)' = Uses(w)
  BY <1>1, <1>2, <1>3 DEF Uses
<1>5. SameReady
  BY <1>1, <1>3, ReadySame DEF SameReady, Returning
<1>6. PICK sw : sw = [deq EXCEPT ![d].fiber = "running", ![new] = deque_switch(w, @)]
  OBVIOUS
<1>7. /\ deq \in [Deques -> Deque] /\ deq[d] \in Deque /\ deq[new] \in Deque /\ d # new
  <2>1. deq[d].worker = w /\ deq[new].worker = NULL
    BY <1>1, <1>2 DEF PlaceInv, ActiveInv, ActiveOK, HeldInv, HeldOK
  <2> QED
    BY <1>1, <2>1, Constants DEF TypeOK
<1>8. /\ sw[d] = [live |-> deq[d].live, worker |-> deq[d].worker, self |-> deq[d].self,
                  resumable |-> deq[d].resumable, fiber |-> "running",
                  frames |-> deq[d].frames, exc |-> deq[d].exc]
      /\ DOMAIN sw = Deques /\ \A x \in Deques : sw[x].frames = deq[x].frames
  <2>1. sw[d] = [deq[d] EXCEPT !.fiber = "running"] /\ DOMAIN sw = Deques
    BY <1>6, <1>7
  <2>2. sw[new] = [deq[new] EXCEPT !.worker = w, !.self = ACTIVE_DEQUE_INDEX]
    BY <1>6, <1>7 DEF deque_switch
  <2>3. \A x \in Deques : x # d /\ x # new => sw[x] = deq[x]
    BY <1>6, <1>7
  <2>4. sw[d] = [live |-> deq[d].live, worker |-> deq[d].worker, self |-> deq[d].self,
                 resumable |-> deq[d].resumable, fiber |-> "running",
                 frames |-> deq[d].frames, exc |-> deq[d].exc]
    BY <1>7, <2>1 DEF Deque
  <2>5. sw[new].frames = deq[new].frames
    BY <1>7, <2>2 DEF Deque
  <2> QED
    BY <2>1, <2>3, <2>4, <2>5
<1>9. CASE deq' = sw
  BY <1>1, <1>3, <1>4, <1>5, <1>8, <1>9, MoveMaps
<1>10. CASE can_steal_from(d) /\ deq' = [sw EXCEPT ![d].frames = @ - 1]
  <2>1. deq'[d].frames = deq[d].frames - 1 /\ \A x \in Deques : x # d => deq'[x].frames = deq[x].frames
    BY <1>8, <1>10
  <2>2. Work(d)' = Work(d) - 1 /\ \A x \in Deques : x # d => Work(x)' = Work(x)
    BY <1>1, <1>3, <2>1, WorkStep
  <2>3. ~Detaching(d)
    <3>1. deq[d].worker = w
      BY <1>1, <1>2 DEF PlaceInv, ActiveInv, ActiveOK
    <3> QED
      BY <1>1, <3>1, NoThief DEF Detaching, Thief
  <2>4. Work(d) > 0
    <3>1. deq[d].frames \in Int /\ deq[d].frames > 0
      BY <1>1, <1>10, FramesInt DEF can_steal_from
    <3> QED
      BY <2>3, <3>1, WorkValue
  <2>5. SameUses
    BY <1>3, <1>4, UsesOthers DEF SameUses
  <2> QED
    BY <1>1, <1>5, <2>2, <2>4, <2>5, StealStep
<1> QED
  BY <1>2, <1>6, <1>9, <1>10 DEF Switch

(* The old deque goes to a pool or to nobody. *)
LEMMA ParkMaps ==
  ASSUME DequeInv, DequeInv', NEW w \in Workers, Park(w)
  PROVE  AbstractStep
PROOF
<1>1. /\ TypeOK /\ TypeOK' /\ PlaceInv /\ pc[w] = "park" /\ pc'[w] = "jump" /\ Alone(w)
      /\ active' = active /\ waiting' = waiting /\ resumable_deques' = resumable_deques
  BY DEF DequeInv, Park, TypeOK, Alone
<1>2. PICK d \in Deques : d = loc[w].d
  BY <1>1 DEF PlaceInv, ControlInv, ControlOK
<1>3. \A x \in Deques : deq'[x].frames = deq[x].frames
  <2>1. deq \in [Deques -> Deque] /\ deq[d] \in Deque
    BY <1>1 DEF TypeOK
  <2>2. PICK place, owner : deq' = [deq EXCEPT ![d] = Placed(deq[d], place, owner)]
    <3>1. CASE deq[d].frames # 0
      <4>1. PICK victim \in Workers :
              deq' = [deq EXCEPT ![d] = Added(deq[d], suspended_deques[victim], victim)]
        BY <1>2, <3>1 DEF Park
      <4>2. deq' = [deq EXCEPT ![d] = Placed(deq[d], Len(suspended_deques[victim]), victim)]
        BY <4>1 DEF Added, Placed
      <4> QED
        BY <4>2, Zenon
    <3>2. CASE deq[d].frames = 0
      <4>1. deq' = [deq EXCEPT ![d].self = INVALID_DEQUE_INDEX, ![d].worker = NULL]
        BY <1>2, <3>2 DEF Park
      <4>2. deq' = [deq EXCEPT ![d] = Placed(deq[d], INVALID_DEQUE_INDEX, NULL)]
        BY <2>1, <4>1 DEF Placed
      <4> QED
        BY <4>2, Zenon
    <3> QED
      BY <3>1, <3>2
  <2>3. /\ deq'[d] = [deq[d] EXCEPT !.self = place, !.worker = owner]
        /\ \A x \in Deques : x # d => deq'[x] = deq[x]
    BY <2>1, <2>2 DEF Placed
  <2> QED
    BY <2>1, <2>3 DEF Deque
<1>4. Uses(w)' = Uses(w)
  BY <1>1 DEF Uses
<1>5. SameReady
  BY <1>1, ReadySame DEF SameReady, Returning
<1> QED
  BY <1>1, <1>3, <1>4, <1>5, MoveMaps

(* The fibers change, not the deques. *)
LEMMA JumpMaps ==
  ASSUME DequeInv, DequeInv', NEW w \in Workers, Jump(w)
  PROVE  AbstractStep
PROOF
<1>1. /\ TypeOK /\ TypeOK' /\ PlaceInv /\ pc[w] = "jump" /\ pc'[w] \in {"run", "idle"} /\ Alone(w)
      /\ active' = active /\ waiting' = waiting /\ resumable_deques' = resumable_deques
  BY DEF DequeInv, Jump, TypeOK, Alone
<1>2. \A x \in Deques : deq'[x].frames = deq[x].frames
  <2>1. PICK d \in Deques, new \in Deques : d = loc[w].d /\ new = loc[w].new /\ d # new
    BY <1>1 DEF PlaceInv, ControlInv, ControlOK, TypeOK
  <2>2. deq \in [Deques -> Deque] /\ deq[d] \in Deque /\ deq[new] \in Deque
    BY <1>1 DEF TypeOK
  <2>3. deq' = [deq EXCEPT ![new].fiber = "none", ![d].fiber = "ready"]
    BY <2>1 DEF Jump, Jumped
  <2>4. /\ deq'[d] = [deq[d] EXCEPT !.fiber = "ready"] /\ deq'[new] = [deq[new] EXCEPT !.fiber = "none"]
        /\ \A x \in Deques : x # d /\ x # new => deq'[x] = deq[x]
    BY <2>1, <2>2, <2>3
  <2>5. deq'[d].frames = deq[d].frames /\ deq'[new].frames = deq[new].frames
    BY <2>2, <2>4 DEF Deque
  <2> QED
    BY <2>4, <2>5
<1>3. Uses(w)' = Uses(w)
  BY <1>1 DEF Uses
<1>4. SameReady
  BY <1>1, ReadySame DEF SameReady, Returning
<1> QED
  BY <1>1, <1>2, <1>3, <1>4, MoveMaps

(* The future is complete, even if its deque is still being suspended. *)
LEMMA CompleteMaps ==
  ASSUME DequeInv, DequeInv', NEW w \in Workers, Complete(w)
  PROVE  AbstractStep
PROOF
<1>1. /\ TypeOK /\ TypeOK' /\ pc[w] = "run" /\ pc'[w] = "resume"
      /\ active' = active /\ resumable_deques' = resumable_deques /\ deq' = deq
  BY DEF DequeInv, Complete, TypeOK
<1>2. PICK d \in waiting : /\ waiting' = waiting \ {d}
                           /\ loc' = [loc EXCEPT ![w] = [NoLocal EXCEPT !.d = d]]
  BY DEF Complete
<1>3. d \in Deques /\ loc'[w].d = d /\ Alone(w)
  BY <1>1, <1>2 DEF Complete, TypeOK, NoLocal, Alone
<1>4. Ready(d)'
  BY <1>1, <1>3 DEF Ready
<1>5. \A x \in Deques : x # d => (Ready(x)' <=> Ready(x))
  BY <1>1, <1>3, ReadySame DEF Returning
<1>6. SameUses
  <2>1. Uses(w)' = Uses(w)
    BY <1>1 DEF Uses
  <2> QED
    BY <1>3, <2>1, UsesOthers DEF SameUses
<1>7. SameWork
  BY <1>1, <1>3, WorkStep DEF SameWork
<1> QED
  BY <1>2, <1>3, <1>4, <1>5, <1>6, <1>7, CompleteStep

(* What follows only moves the deque: its owner is read, ... *)
LEMMA ReadOwnerMaps ==
  ASSUME DequeInv, DequeInv', NEW w \in Workers, ReadOwner(w)
  PROVE  AbstractStep
PROOF
<1>1. /\ TypeOK /\ TypeOK' /\ pc[w] = "resume" /\ pc'[w] \in {"free", "owned"} /\ Alone(w)
      /\ active' = active /\ waiting' = waiting /\ resumable_deques' = resumable_deques
      /\ deq' = deq
  BY DEF DequeInv, ReadOwner, TypeOK, Alone
<1>2. loc'[w].d = loc[w].d
  BY <1>1 DEF ReadOwner, TypeOK, Local
<1>3. Uses(w)' = Uses(w)
  BY <1>1 DEF Uses
<1>4. SameReady
  BY <1>1, <1>2, ReadySame DEF SameReady, Returning
<1> QED
  BY <1>1, <1>3, <1>4, MoveMaps

(* ... it gets an owner if it has none, ... *)
LEMMA ResumeFreeMaps ==
  ASSUME DequeInv, DequeInv', NEW w \in Workers, ResumeFree(w)
  PROVE  AbstractStep
PROOF
<1>1. /\ TypeOK /\ TypeOK' /\ PlaceInv /\ pc[w] = "free" /\ pc'[w] = "give"
      /\ active' = active /\ waiting' = waiting /\ resumable_deques' = resumable_deques
  BY DEF DequeInv, ResumeFree, TypeOK
<1>2. PICK d \in Deques, victim \in Workers :
        /\ d = loc[w].d /\ deq' = [deq EXCEPT ![d].resumable = TRUE, ![d].worker = victim]
        /\ loc' = [loc EXCEPT ![w].victim = victim]
  BY <1>1 DEF PlaceInv, ControlInv, ControlOK, ResumeFree
<1>3. loc'[w].d = loc[w].d /\ Alone(w)
  BY <1>1, <1>2 DEF ResumeFree, TypeOK, Local, Alone
<1>4. \A x \in Deques : deq'[x].frames = deq[x].frames
  BY <1>1, <1>2 DEF TypeOK, Deque
<1>5. Uses(w)' = Uses(w)
  BY <1>1 DEF Uses
<1>6. SameReady
  BY <1>1, <1>3, ReadySame DEF SameReady, Returning
<1> QED
  BY <1>1, <1>3, <1>4, <1>5, <1>6, MoveMaps

(* The deque goes from the hands of w to a pool of resumable ones. *)
LEMMA OfferMaps ==
  ASSUME DequeInv, DequeInv', NEW w \in Workers, Alone(w), NEW d \in Deques, d = loc[w].d,
         pc[w] \in {"owned", "give"}, pc'[w] = "run", active' = active, waiting' = waiting,
         Says(deq'[d], TRUE), \A x \in Deques : deq'[x].frames = deq[x].frames,
         \A x \in Deques : x # d => (Says(deq'[x], TRUE) <=> Says(deq[x], TRUE))
  PROVE  AbstractStep
PROOF
<1>1. TypeOK /\ TypeOK' /\ PoolInv /\ PoolInv'
  BY DEF DequeInv, PlaceInv
<1>2. Uses(w)' = Uses(w)
  BY DEF Uses
<1>3. \A x \in Deques : /\ Returning(w, x) <=> x = d
                        /\ ~Returning(w, x)'
  BY DEF Returning
<1>4. SameReady
  BY <1>1, <1>3, ReadyMoved DEF SameReady
<1> QED
  BY <1>1, <1>2, <1>4, MoveMaps

(* ... with a place in a pool, ... *)
LEMMA GiveMaps ==
  ASSUME DequeInv, DequeInv', NEW w \in Workers, Give(w)
  PROVE  AbstractStep
PROOF
<1>1. /\ TypeOK /\ PlaceInv /\ pc[w] = "give" /\ pc'[w] = "run" /\ Alone(w)
      /\ active' = active /\ waiting' = waiting
  BY DEF DequeInv, Give, TypeOK, Alone
<1>2. PICK d \in Deques, victim \in Workers : d = loc[w].d /\ victim = loc[w].victim
  BY <1>1 DEF PlaceInv, ControlInv, ControlOK
<1>3. PICK place \in Nat : place = Len(resumable_deques[victim])
  BY <1>1 DEF TypeOK
<1>4. deq \in [Deques -> Deque] /\ deq[d] \in Deque /\ deq[d].resumable
  BY <1>1, <1>2 DEF TypeOK, PlaceInv, HeldInv, HeldOK
<1>5. deq' = [deq EXCEPT ![d] = Placed(deq[d], place, victim)]
  BY <1>2, <1>3 DEF Give, Added, Placed
<1>6. /\ deq'[d] = [deq[d] EXCEPT !.self = place, !.worker = victim]
      /\ \A x \in Deques : x # d => deq'[x] = deq[x]
  BY <1>4, <1>5 DEF Placed
<1>7. /\ deq'[d].worker = victim /\ deq'[d].self = place /\ deq'[d].resumable = TRUE
      /\ deq'[d].frames = deq[d].frames
  BY <1>4, <1>6 DEF Deque
<1>8. Says(deq'[d], TRUE)
  BY <1>7, Constants DEF Says
<1> QED
  <2>1. /\ \A x \in Deques : deq'[x].frames = deq[x].frames
        /\ \A x \in Deques : x # d => (Says(deq'[x], TRUE) <=> Says(deq[x], TRUE))
    BY <1>6, <1>7
  <2> QED
    BY <1>1, <1>2, <1>8, <2>1, OfferMaps

(* ... or it goes from one pool of its owner to the other. *)
LEMMA ResumeOwnedMaps ==
  ASSUME DequeInv, DequeInv', NEW w \in Workers, ResumeOwned(w)
  PROVE  AbstractStep
PROOF
<1>1. /\ TypeOK /\ TypeOK' /\ PlaceInv /\ PoolInv /\ pc[w] = "owned" /\ Alone(w)
      /\ active' = active /\ waiting' = waiting
  BY DEF DequeInv, PlaceInv, ResumeOwned, TypeOK, Alone
<1>2. PICK d \in Deques, victim \in Workers : d = loc[w].d /\ victim = loc[w].victim
  BY <1>1 DEF PlaceInv, ControlInv, ControlOK
<1>3. CASE ~StillOwned(w)
  <2>1. deq' = deq /\ resumable_deques' = resumable_deques /\ pc'[w] = "free"
        /\ loc'[w].d = loc[w].d
    BY <1>1, <1>3 DEF ResumeOwned, Orphaned, TypeOK, Local
  <2>2. Uses(w)' = Uses(w)
    BY <1>1, <2>1 DEF Uses
  <2>3. SameReady
    BY <1>1, <2>1, ReadySame DEF SameReady, Returning
  <2> QED
    BY <1>1, <2>1, <2>2, <2>3, MoveMaps
<1>4. CASE StillOwned(w)
  <2>1. /\ deq \in [Deques -> Deque] /\ Pooled(d) /\ deq[d].worker = victim
        /\ pc'[w] = "run"
    <3>1. HeldOK(w)
      BY <1>1 DEF PlaceInv, HeldInv
    <3>2. Pooled(d) /\ deq[d].worker = victim
      BY <1>1, <1>2, <1>4, <3>1 DEF HeldOK, StillOwned, Out
    <3> QED
      BY <1>1, <1>4, <3>2 DEF TypeOK, ResumeOwned
  <2>2. PICK place \in Nat : place = Len(resumable_deques[victim])
    BY <1>1 DEF TypeOK
  <2>3. PICK last \in Deques : last = Last(suspended_deques[victim]) /\ Pooled(last)
    BY <1>1, <2>1, LastPooled
  <2>4. PICK dm : dm = Taken(d, last)
    OBVIOUS
  <2>5. /\ dm \in [Deques -> Deque]
        /\ dm[d] = [live |-> deq[d].live, worker |-> NULL, self |-> INVALID_DEQUE_INDEX,
                    resumable |-> deq[d].resumable, fiber |-> deq[d].fiber,
                    frames |-> deq[d].frames, exc |-> deq[d].exc]
        /\ \A x \in Deques : x # d =>
             dm[x] = IF x = last THEN [deq[x] EXCEPT !.self = deq[d].self] ELSE deq[x]
    BY ONLY <2>1, <2>4, RemovedShape, d \in Deques, last \in Deques
  <2>6. deq' = [dm EXCEPT ![d] = [[dm[d] EXCEPT !.self = place, !.worker = victim] EXCEPT !.resumable = TRUE]]
    <3>1. Removed(suspended_deques[victim], d) = dm
      BY <2>3, <2>4 DEF Removed, Taken
    <3> QED
      BY <1>2, <1>4, <2>2, <3>1 DEF ResumeOwned, Added
  <2>7. /\ deq'[d] = [[dm[d] EXCEPT !.self = place, !.worker = victim] EXCEPT !.resumable = TRUE]
        /\ \A x \in Deques : x # d => deq'[x] = dm[x]
    BY <2>5, <2>6
  <2>8. /\ deq'[d].worker = victim /\ deq'[d].self = place /\ deq'[d].resumable = TRUE
        /\ deq'[d].frames = deq[d].frames
    BY <2>5, <2>7
  <2>9. Says(deq'[d], TRUE)
    BY <2>8, Constants DEF Says
  <2>10. ASSUME NEW x \in Deques, x # d
         PROVE  /\ deq'[x].frames = deq[x].frames
                /\ Says(deq'[x], TRUE) <=> Says(deq[x], TRUE)
    <3>1. CASE x # last
      BY <2>5, <2>7, <2>10, <3>1
    <3>2. CASE x = last
      <4>1. deq'[x] = [deq[x] EXCEPT !.self = deq[d].self] /\ deq[x] \in Deque
        BY <2>1, <2>5, <2>7, <2>10, <3>2
      <4>2. deq'[x].frames = deq[x].frames /\ deq'[x].resumable = deq[x].resumable
        BY <4>1 DEF Deque
      <4>3. ~deq[x].resumable
        BY <2>3, <3>2 DEF Pooled
      <4> QED
        BY <4>2, <4>3 DEF Says
    <3> QED
      BY <3>1, <3>2
  <2>11. \A x \in Deques : deq'[x].frames = deq[x].frames
    BY <2>8, <2>10
  <2> QED
    BY <1>1, <1>2, <2>1, <2>9, <2>10, <2>11, OfferMaps
<1> QED
  BY <1>3, <1>4

(* The mugged deque was in use since it was taken. *)
LEMMA JumpToSuspendedFiberMaps ==
  ASSUME DequeInv, DequeInv', NEW w \in Workers, JumpToSuspendedFiber(w)
  PROVE  AbstractStep
PROOF
<1>1. /\ TypeOK /\ TypeOK' /\ PlaceInv /\ StealInv /\ pc[w] = "mugged" /\ pc'[w] = "run" /\ Alone(w)
      /\ waiting' = waiting /\ resumable_deques' = resumable_deques
  BY DEF DequeInv, JumpToSuspendedFiber, TypeOK, Alone
<1>2. PICK d \in Deques, a \in Deques : d = loc[w].d /\ a = active[w] /\ active'[w] = d
  BY <1>1 DEF PlaceInv, ControlInv, ControlOK, TypeOK, JumpToSuspendedFiber
<1>3. Uses(w)' = Uses(w)
  BY <1>1, <1>2 DEF Uses
<1>4. SameReady
  BY <1>1, ReadySame DEF SameReady, Returning
<1>5. \A x \in Deques : deq'[x].frames = deq[x].frames
  <2>1. deq \in [Deques -> Deque] /\ deq[d] \in Deque /\ deq[a].frames = 0
    BY <1>1, <1>2 DEF TypeOK, StealInv, FrameInv, EmptyOK, Stuck
  <2>2. d # a
    BY <1>1, <1>2, Apart DEF Held
  <2>3. deq' = [deq EXCEPT ![d] = deque_switch(w, [deq[d] EXCEPT !.fiber = "none", !.resumable = FALSE]),
                           ![a] = Unused]
    BY <1>2 DEF JumpToSuspendedFiber
  <2>4. /\ deq'[d] = deque_switch(w, [deq[d] EXCEPT !.fiber = "none", !.resumable = FALSE])
        /\ deq'[a] = Unused /\ \A x \in Deques : x # a /\ x # d => deq'[x] = deq[x]
    BY <2>1, <2>2, <2>3
  <2>5. deq'[d].frames = deq[d].frames
    BY <2>1, <2>4 DEF deque_switch, Deque
  <2>6. deq'[a].frames = 0
    BY <2>4 DEF Unused
  <2> QED
    BY <2>1, <2>4, <2>5, <2>6
<1> QED
  BY <1>1, <1>3, <1>4, <1>5, MoveMaps

(* A deque without work that leaves its pool still waits. *)
LEMMA MugEmptyMaps ==
  ASSUME DequeInv, DequeInv', NEW w \in Workers, NEW victim \in Workers, NEW d \in Deques,
         MugEmpty(w, victim, d)
  PROVE  AbstractStep
PROOF
<1>1. /\ TypeOK /\ TypeOK' /\ PoolInv /\ pc[w] = "idle" /\ pc'[w] = "idle" /\ Alone(w)
      /\ active' = active /\ waiting' = waiting /\ resumable_deques' = resumable_deques /\ loc' = loc
  BY DEF DequeInv, PlaceInv, MugEmpty, CanChoose, Alone
<1>2. deq \in [Deques -> Deque] /\ suspended_deques[victim] \in Seq(Deques)
  BY <1>1 DEF TypeOK
<1>3. PICK last \in Deques : last = Last(suspended_deques[victim])
  <2>1. d \in ToSet(suspended_deques[victim])
    BY DEF MugEmpty, Choosable
  <2>2. suspended_deques[victim] # <<>>
    BY <1>2, <2>1, ToSetIndex
  <2> QED
    BY <1>2, <2>2 DEF Last
<1>4. PICK dm : dm = Taken(d, last)
  OBVIOUS
<1>5. deq' = dm
  BY <1>3, <1>4 DEF MugEmpty, Removed, Taken
<1>6. /\ dm[d] = [live |-> deq[d].live, worker |-> NULL, self |-> INVALID_DEQUE_INDEX,
                  resumable |-> deq[d].resumable, fiber |-> deq[d].fiber,
                  frames |-> deq[d].frames, exc |-> deq[d].exc]
      /\ \A x \in Deques : x # d =>
           dm[x] = IF x = last THEN [deq[x] EXCEPT !.self = deq[d].self] ELSE deq[x]
  BY ONLY <1>2, <1>4, RemovedShape, d \in Deques, last \in Deques
<1>7. \A x \in Deques : dm[x].frames = deq[x].frames
  <2>1. dm[d].frames = deq[d].frames
    BY <1>6
  <2>2. [deq[last] EXCEPT !.self = deq[d].self].frames = deq[last].frames
    BY <1>2 DEF Deque
  <2> QED
    BY <1>6, <2>1, <2>2
<1>8. Uses(w)' = Uses(w)
  BY <1>1 DEF Uses
<1>9. SameReady
  BY <1>1, ReadySame DEF SameReady, Returning
<1> QED
  BY <1>1, <1>5, <1>7, <1>8, <1>9, MoveMaps

-----------------------------------------------------------------------------
(* The initial states are initial states of DequeSpec, ... *)
LEMMA InitMaps ==
  ASSUME Init
  PROVE  Abstract!Init
PROOF
<1>1. TypeOK /\ PlaceInv /\ StealInv /\ ControlInv /\ PoolInv
  BY InitInv DEF DequeInv, PlaceInv
<1>2. /\ waiting = {} /\ \A w \in Workers : pc[w] \in {"run", "idle"}
      /\ \A w \in Workers : resumable_deques[w] = <<>>
  BY DEF Init
<1>3. \A w \in Workers : Uses(w) = active[w] /\ active[w] \in Deques
  BY <1>1, <1>2 DEF Uses, TypeOK
<1>4. /\ [w \in Workers |-> Uses(w)] \in [Workers -> Deques]
      /\ \A v, w \in Workers : [x \in Workers |-> Uses(x)][v] = [x \in Workers |-> Uses(x)][w] => v = w
  BY <1>1, <1>3, ActiveUnique
<1>5. {d \in Deques : Ready(d)} = {}
  <2>1. ASSUME NEW d \in Deques PROVE ~Ready(d)
    <3>1. ASSUME NEW w \in Workers PROVE d \notin ToSet(resumable_deques[w])
      <4>1. PICK pool \in Seq(Deques) : pool = resumable_deques[w]
        BY <1>1 DEF TypeOK
      <4>2. 1..Len(pool) = {}
        BY <1>2, <4>1
      <4> QED
        BY <4>1, <4>2, ToSetIndex
    <3> QED
      BY <1>2, <3>1 DEF Ready, Offers
  <2> QED
    BY <2>1
<1>6. [d \in Deques |-> Work(d)] = [d \in Deques |-> 0]
  <2>1. ASSUME NEW d \in Deques PROVE Work(d) = 0
    <3>1. deq[d].frames = 0
      <4>1. deq[d] = Unused \/ \E w : deq[d] = deque_switch(w, [Unused EXCEPT !.live = TRUE])
        BY DEF Init
      <4>2. /\ Unused.frames = 0
            /\ \A w : deque_switch(w, [Unused EXCEPT !.live = TRUE]).frames = 0
        BY DEF Unused, deque_switch
      <4> QED
        BY <4>1, <4>2
    <3>2. ~Popping(d) /\ ~Detaching(d)
      BY <1>2 DEF Popping, Detaching
    <3> QED
      BY <3>1, <3>2, WorkValue
  <2> QED
    BY <2>1
<1> QED
  BY <1>2, <1>4, <1>5, <1>6 DEF Abstract!Init

(* ... and every step is a step of DequeSpec or changes nothing in it. *)
LEMMA NextMaps ==
  ASSUME DequeInv, DequeInv', [Next]_vars
  PROVE  AbstractStep
PROOF
<1>1. CASE UNCHANGED vars
  <2>1. UNCHANGED <<deq, active, resumable_deques, waiting, pc, loc>>
    BY <1>1 DEF vars
  <2>2. SameUses /\ SameReady
    BY <2>1 DEF SameUses, SameReady, Uses, Ready, Offers
  <2>3. SameWork
    BY <2>1 DEF SameWork, Work, Popping, Detaching
  <2> QED
    BY <2>1, <2>2, <2>3, StutterStep
<1>2. ASSUME NEW w \in Workers, Push(w) \/ Get(w) \/ Program(w) \/ Return(w)
      PROVE  AbstractStep
  BY <1>2, PushMaps, GetMaps, PopMaps, RunOutMaps, CompleteMaps, UndoDetachMaps,
     ExceptionCheckMaps DEF Program, Return
<1>3. ASSUME NEW w \in Workers, Suspension(w)
      PROVE  AbstractStep
  BY <1>3, MugOwnMaps, AllocateMaps, SwitchMaps, ParkMaps, JumpMaps DEF Suspension
<1>4. ASSUME NEW w \in Workers, MakeResumable(w)
      PROVE  AbstractStep
  BY <1>4, ReadOwnerMaps, ResumeOwnedMaps, ResumeFreeMaps, GiveMaps DEF MakeResumable
<1>5. ASSUME NEW w \in Workers, RandomSteal(w)
      PROVE  AbstractStep
  BY <1>5, MugResumableMaps, ProbeMaps, MugEmptyMaps, IncrementEMaps, DekkerMaps,
     DetachForStealMaps, JumpToSuspendedFiberMaps DEF RandomSteal
<1> QED
  BY <1>1, <1>2, <1>3, <1>4, <1>5 DEF Next, Step

(* The deques of the runtime, with their pools, locks and the THE          *)
(* protocol, implement DequeSpec: every frame is taken once, by the worker *)
(* that pushed it or by one thief, and a deque that waits for a future     *)
(* comes back to one worker after the future is complete.                  *)
THEOREM DequesImplementSpec == Spec => Implements
PROOF
<1>1. Init => Abstract!Init
  BY InitMaps
<1>2. DequeInv /\ DequeInv' /\ [Next]_vars => [Abstract!Next]_(Abstract!vars)
  BY NextMaps DEF AbstractStep
<1> QED
  BY <1>1, <1>2, DequePoolInvariant, PTL DEF Spec, Implements, Abstract!Spec
=============================================================================
