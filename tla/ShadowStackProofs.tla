------------------------- MODULE ShadowStackProofs -------------------------
(***************************************************************************)
(* Proofs about ShadowStack, for any number of workers and programs of any *)
(* size: the nodes of the two orders are numbered without gaps, a shadow   *)
(* stack matches the deque of its worker, and the hooks find the frames    *)
(* they need.                                                              *)
(*                                                                         *)
(* The argument: on every stack, of a worker that runs, of one that is     *)
(* leaving a function or of a suspended deque, each frame lies on its      *)
(* parent's, which is in the state in which the hook that will return to   *)
(* it finds it (StackOK, LiesOn).  This holds for the frames below the     *)
(* tail too, the stale copies of frames that thieves took.  What the deque *)
(* holds is named by the frames from the tail on (Covers); the control     *)
(* point of the worker says how many of them there are (HasStack).         *)
(***************************************************************************)
EXTENDS ShadowStack, FiniteSetTheorems, SequenceTheorems, WellFoundedInduction, TLAPS

Kinds == {"root", "call", "spawn", "future"}

Activations == [kind : Kinds, parent : Nat, done : BOOLEAN, from : Nat, at : Nat,
                ended : SUBSET Nat, waits : Nat, last : Nat, fom : Nat]

Frames == [act : Nat, helper : BOOLEAN, future_id : Nat, node : Nat, cont : Nat,
           sync : Nat, steal_cont : Nat, steal_sync : Nat, steal_list : Nat,
           list : Nat, sync_list : Nat, ori_list : Nat]

Stacks == [frames : Seq(Frames), tail : Nat, above : BOOLEAN]

Deques == [stack : Stacks, own : Seq(Nat), future : Nat, cur : Nat]

Points == {"idle", "run", "sync", "returning", "finished"}

IsSequence(s) == s \in Seq({s[i] : i \in DOMAIN s})

Shapes ==
  /\ shadow \in [Workers -> Stacks]
  /\ own \in [Workers -> Seq(Nat)]
  /\ acts \in Seq(Activations)
  /\ suspended \subseteq Deques
  /\ pc \in [Workers -> Points]
  /\ called_future \in [Workers -> BOOLEAN]
  /\ IsSequence(heap) /\ IsSequence(strands)
  /\ cur \in [Workers -> 0 .. Len(strands)]

(* The places of the nodes D are the first n.  (They are all the nodes:    *)
(* the names are numbers without gaps.)                                    *)
On(o, D, n)  == DOMAIN o = D /\ {o[x] : x \in D} = 1 .. n
Placed(o, n) == On(o, 1 .. n, n)

NodeCount == Cardinality(DOMAIN om.e)

OrderInv == NodeCount \in Nat /\ Placed(om.e, NodeCount) /\ Placed(om.h, NodeCount)

(* A frame is for an activation of A and refers to the N nodes and H lists *)
(* that exist.  Whoever steals it where CilkFutureFinish left it finds a   *)
(* list too.                                                               *)
FramesOf(A, N, H) ==
  [act : 1 .. Len(A), helper : BOOLEAN, future_id : 0 .. Len(A), node : 0 .. N,
   cont : 0 .. N, sync : 0 .. N, steal_cont : 0 .. N, steal_sync : 0 .. N,
   steal_list : 0 .. H, list : 1 .. H, sync_list : 0 .. H, ori_list : 0 .. H]

FrameOK(A, N, H, f) ==
  /\ f \in FramesOf(A, N, H)
  /\ f.helper <=> A[f.act].kind \in {"spawn", "future"}
  /\ f.steal_cont # 0 => f.steal_list # 0

(* Frame g lies on f: f is its parent, and if g was detached then f knows  *)
(* the nodes of its continuation and of its sync.                          *)
LiesOn(A, g, f) ==
  /\ A[g.act].parent = f.act
  /\ IF g.helper THEN ~f.helper /\ f.node = 0 /\ f.cont # 0 /\ f.sync # 0
     ELSE f.cont = 0

(* A frame that can go on. *)
Ready(f) == f.cont = 0 /\ f.node # 0

StackOK(A, N, H, s) ==
  /\ s \in Stacks
  /\ s.tail \in 1 .. Len(s.frames)
  /\ s.frames[1].act = 1
  /\ \A i \in 1 .. Len(s.frames) : FrameOK(A, N, H, s.frames[i])
  /\ \A i \in 1 .. Len(s.frames) - 1 : LiesOn(A, s.frames[i + 1], s.frames[i])
  /\ Ready(TopFrame(s))

(* The frames from the tail on are those of the first n activations. *)
Covers(s, deque, n) ==
  /\ Len(s.frames) - s.tail + 1 = n /\ n <= Len(deque)
  /\ \A i \in 1 .. n : deque[i] = s.frames[s.tail + i - 1].act

(* CilkFutureFinish has popped the frame of the last activation. *)
Popped(A, s, deque) ==
  /\ s.above /\ TopFrame(s).steal_cont # 0
  /\ deque[Len(deque)] \in 1 .. Len(A)
  /\ A[deque[Len(deque)]].kind \in {"spawn", "future"}

(* What a worker at control point p has. *)
HasStack(A, N, H, p, s, deque) ==
  /\ p = "idle" => deque = <<>> /\ s = EmptyStack
  /\ p # "idle" => StackOK(A, N, H, s)
  /\ p \in {"run", "sync"} => Covers(s, deque, Len(deque))
  /\ p = "returning" => /\ Len(deque) = 1 /\ s.tail = Len(s.frames)
                        /\ deque[1] \in 1 .. Len(A)
                        /\ A[deque[1]].parent = TopFrame(s).act
  /\ p = "finished" /\ Len(deque) > 1 =>
       Covers(s, deque, Len(deque) - 1) /\ Popped(A, s, deque)

WorkerOK(w) == HasStack(acts, NodeCount, Len(heap), pc[w], shadow[w], own[w])

DequeOK(d) == /\ StackOK(acts, NodeCount, Len(heap), d.stack)
              /\ Covers(d.stack, d.own, Len(d.own))

RootOK == 1 \in DOMAIN acts /\ acts[1].kind = "root"

ShadowInv ==
  /\ Shapes /\ OrderInv /\ RootOK
  /\ \A w \in Workers : WorkerOK(w)
  /\ \A d \in suspended : DequeOK(d)

-----------------------------------------------------------------------------
(* Sequences *)

(* A sequence grows by one. *)
LEMMA SequenceGrows ==
  ASSUME NEW s, IsSequence(s), NEW e
  PROVE  /\ Len(s) \in Nat /\ DOMAIN s = 1 .. Len(s)
         /\ IsSequence(Append(s, e)) /\ Len(Append(s, e)) = Len(s) + 1
         /\ \A i \in 1 .. Len(s) : Append(s, e)[i] = s[i]
PROOF
<1> DEFINE R == {s[i] : i \in DOMAIN s}
           T == R \cup {e}
           t == Append(s, e)
<1>1. s \in Seq(R)
  BY DEF IsSequence
<1>2. s \in Seq(T)
  BY <1>1, SeqMonotonic
<1>3. Len(s) \in Nat /\ DOMAIN s = 1 .. Len(s)
  BY <1>1, LenProperties
<1>4. /\ t \in Seq(T) /\ Len(t) = Len(s) + 1
      /\ \A i \in 1 .. Len(s) : t[i] = s[i]
  BY <1>2, AppendProperties
<1>5. t \in Seq(Range(t)) /\ Range(t) = {t[i] : i \in DOMAIN t}
  BY <1>4, SeqOfRange DEF Range
<1> QED
  BY <1>3, <1>4, <1>5 DEF IsSequence

(* An update leaves the length. *)
LEMMA SequenceUpdated ==
  ASSUME NEW s, IsSequence(s), NEW t, DOMAIN t = DOMAIN s, t = [i \in DOMAIN t |-> t[i]]
  PROVE  IsSequence(t) /\ Len(t) = Len(s)
PROOF
<1> DEFINE R == {t[i] : i \in DOMAIN t}
<1>1. Len(s) \in Nat /\ DOMAIN s = 1 .. Len(s)
  BY LenProperties DEF IsSequence
<1>2. t \in [1 .. Len(s) -> R]
  BY <1>1
<1>3. t \in Seq(R)
  BY <1>1, <1>2, SeqDef
<1>4. Len(t) \in Nat /\ DOMAIN t = 1 .. Len(t)
  BY <1>3, LenProperties
<1> QED
  BY <1>1, <1>3, <1>4 DEF IsSequence

-----------------------------------------------------------------------------
(* Stacks *)

(* Stack p is s up to frame n, which is f in p. *)
Cut(s, p, n, f) ==
  /\ p \in Stacks /\ Len(p.frames) = n /\ p.frames[n] = f
  /\ \A i \in 1 .. n - 1 : p.frames[i] = s.frames[i]

LEMMA StackFrames ==
  ASSUME NEW s \in Stacks
  PROVE  /\ s.frames \in Seq(Frames) /\ Len(s.frames) \in Nat /\ s.tail \in Nat
         /\ s.above \in BOOLEAN /\ DOMAIN s.frames = 1 .. Len(s.frames)
         /\ \A i \in 1 .. Len(s.frames) : s.frames[i] \in Frames
PROOF
<1>1. s.frames \in Seq(Frames) /\ s.tail \in Nat /\ s.above \in BOOLEAN
  BY DEF Stacks
<1> QED
  BY <1>1, LenProperties, ElementOfSeq

(* The head frame is replaced. *)
LEMMA SetTopView ==
  ASSUME NEW s \in Stacks, Len(s.frames) > 0, NEW f \in Frames
  PROVE  /\ Cut(s, SetTop(s, f), Len(s.frames), f)
         /\ SetTop(s, f).tail = s.tail /\ SetTop(s, f).above = s.above
PROOF
<1> DEFINE n == Len(s.frames)
           q == [s.frames EXCEPT ![n] = f]
<1>1. n \in Nat /\ s.frames \in Seq(Frames) /\ n \in 1 .. n
  BY StackFrames
<1>2. q \in Seq(Frames) /\ Len(q) = n /\ \A j \in 1 .. n : q[j] = IF j = n THEN f ELSE s.frames[j]
  BY <1>1, ExceptSeq
<1>3. SetTop(s, f) = [s EXCEPT !.frames = q]
  BY DEF SetTop
<1>4. s = [frames |-> s.frames, tail |-> s.tail, above |-> s.above]
  BY DEF Stacks
<1>5. SetTop(s, f) = [frames |-> q, tail |-> s.tail, above |-> s.above]
  BY <1>3, <1>4
<1> HIDE DEF q
<1>6. SetTop(s, f) \in Stacks
  BY <1>2, <1>5, StackFrames DEF Stacks
<1> QED
  BY <1>1, <1>2, <1>5, <1>6 DEF Cut

(* The head frame is popped and its parent replaced. *)
LEMMA PopView ==
  ASSUME NEW s \in Stacks, Len(s.frames) > 1, NEW f \in Frames
  PROVE  /\ Cut(s, pop(SetParent(s, f)), Len(s.frames) - 1, f)
         /\ pop(SetParent(s, f)).tail = IF Len(s.frames) - 1 < s.tail THEN Len(s.frames) - 1
                                        ELSE s.tail
         /\ pop(SetParent(s, f)).above = TopFrame(s).helper
PROOF
<1> DEFINE n == Len(s.frames)
           q == [s.frames EXCEPT ![n - 1] = f]
           r == SubSeq(q, 1, n - 1)
           p == SetParent(s, f)
<1>1. n \in Nat /\ s.frames \in Seq(Frames) /\ n - 1 \in 1 .. n /\ n \in 1 .. n
  BY StackFrames
<1>2. q \in Seq(Frames) /\ Len(q) = n
      /\ \A j \in 1 .. n : q[j] = IF j = n - 1 THEN f ELSE s.frames[j]
  BY <1>1, ExceptSeq
<1>3. s = [frames |-> s.frames, tail |-> s.tail, above |-> s.above]
  BY DEF Stacks
<1>4. p = [s EXCEPT !.frames = q]
  BY DEF SetParent
<1>5. p.frames = q /\ p.tail = s.tail
  BY <1>3, <1>4
<1> HIDE DEF q, p
<1>6. \A i \in 1 .. n - 1 : q[i] \in Frames
  BY <1>1, <1>2, StackFrames
<1>7. r \in Seq(Frames) /\ Len(r) = n - 1 /\ \A i \in 1 .. n - 1 : r[i] = q[i]
  BY <1>1, <1>6, SubSeqProperties
<1>8. TopFrame(p).helper = TopFrame(s).helper
  BY <1>1, <1>2, <1>5 DEF TopFrame
<1>9. TopFrame(s).helper \in BOOLEAN
  BY <1>1, StackFrames DEF TopFrame, Frames
<1>10. pop(p) = [frames |-> r, tail |-> IF n - 1 < s.tail THEN n - 1 ELSE s.tail,
                 above |-> TopFrame(s).helper]
  BY <1>1, <1>2, <1>5, <1>8 DEF pop
<1> HIDE DEF r
<1>11. pop(p) \in Stacks
  BY <1>1, <1>7, <1>9, <1>10, StackFrames DEF Stacks
<1>12. pop(p).frames = r
  BY <1>10
<1>13. pop(p).tail = (IF n - 1 < s.tail THEN n - 1 ELSE s.tail)
       /\ pop(p).above = TopFrame(s).helper
  BY <1>10
<1>14. Cut(s, pop(p), n - 1, f)
  <2>1. \A i \in 1 .. (n - 1) - 1 : i \in 1 .. n - 1 /\ i \in 1 .. n /\ i # n - 1
    BY <1>1
  <2>2. r[n - 1] = f
    BY <1>1, <1>2, <1>7
  <2>3. \A i \in 1 .. (n - 1) - 1 : r[i] = q[i] /\ q[i] = s.frames[i]
    BY <1>2, <1>7, <2>1
  <2> QED
    BY <1>7, <1>11, <1>12, <2>2, <2>3 DEF Cut
<1> QED
  BY <1>13, <1>14 DEF p

(* A frame is pushed. *)
LEMMA PushView ==
  ASSUME NEW s \in Stacks, NEW g \in Frames
  PROVE  /\ push(s, g) \in Stacks /\ push(s, g).tail = s.tail
         /\ Len(push(s, g).frames) = Len(s.frames) + 1
         /\ \A i \in 1 .. Len(s.frames) : push(s, g).frames[i] = s.frames[i]
         /\ push(s, g).frames[Len(s.frames) + 1] = g
PROOF
<1> DEFINE q == Append(s.frames, g)
<1>1. /\ q \in Seq(Frames) /\ Len(q) = Len(s.frames) + 1
      /\ \A i \in 1 .. Len(s.frames) : q[i] = s.frames[i]
      /\ q[Len(s.frames) + 1] = g
  BY StackFrames, AppendProperties
<1>2. s = [frames |-> s.frames, tail |-> s.tail, above |-> s.above]
  BY DEF Stacks
<1>3. push(s, g) = [s EXCEPT !.frames = q, !.above = FALSE]
  BY DEF push
<1> HIDE DEF q
<1>4. push(s, g) = [frames |-> q, tail |-> s.tail, above |-> FALSE]
  BY <1>2, <1>3
<1> QED
  BY <1>1, <1>4, StackFrames DEF Stacks

(* What a thief takes of the frames below k, and goes on with as f. *)
LEMMA LootView ==
  ASSUME NEW s \in Stacks, NEW k \in 2 .. Len(s.frames) + 1, NextHelper(s) = k,
         NEW f \in Frames
  PROVE  /\ Cut(s, SetTop(StolenFrames(s), f), k - 1, f)
         /\ SetTop(StolenFrames(s), f).tail = s.tail
         /\ TopFrame(StolenFrames(s)) = s.frames[k - 1]
PROOF
<1> DEFINE r == SubSeq(s.frames, 1, k - 1)
           p == [frames |-> r, tail |-> s.tail, above |-> FALSE]
<1>1. \A i \in 1 .. k - 1 : s.frames[i] \in Frames
  BY StackFrames
<1>2. Len(s.frames) \in Nat /\ k \in Nat /\ k - 1 > 0
  BY StackFrames
<1>3. r \in Seq(Frames) /\ Len(r) = k - 1 /\ \A i \in 1 .. k - 1 : r[i] = s.frames[i]
  BY <1>1, <1>2, SubSeqProperties
<1>4. StolenFrames(s) = p
  BY DEF StolenFrames
<1> HIDE DEF r
<1>5. p \in Stacks /\ p.frames = r /\ p.tail = s.tail
  BY <1>3, StackFrames DEF Stacks
<1>6. Cut(p, SetTop(p, f), k - 1, f) /\ SetTop(p, f).tail = s.tail
  BY <1>2, <1>3, <1>5, SetTopView
<1>7. TopFrame(p) = s.frames[k - 1]
  BY <1>2, <1>3, <1>5 DEF TopFrame
<1> HIDE DEF p
<1> QED
  BY <1>2, <1>3, <1>4, <1>5, <1>6, <1>7 DEF Cut

(* What it leaves. *)
LEMMA LeftView ==
  ASSUME NEW s \in Stacks, NEW k \in Nat, NextHelper(s) = k
  PROVE  /\ LeftFrames(s) \in Stacks /\ LeftFrames(s).frames = s.frames
         /\ LeftFrames(s).tail = IF k > Len(s.frames) THEN Len(s.frames) ELSE k
         /\ LeftFrames(s).above = s.above
PROOF
<1>1. s = [frames |-> s.frames, tail |-> s.tail, above |-> s.above]
  BY DEF Stacks
<1>2. LeftFrames(s) = [frames |-> s.frames, above |-> s.above,
                       tail |-> IF k > Len(s.frames) THEN Len(s.frames) ELSE k]
  BY <1>1 DEF LeftFrames
<1> QED
  BY <1>2, StackFrames DEF Stacks

-----------------------------------------------------------------------------
(* The orders *)

(* omrd_t::insert numbers the places anew, without a gap. *)
LEMMA InsertPlaced ==
  ASSUME NEW o, NEW D, NEW n \in Nat, On(o, D, n), NEW b \in D, NEW c, c \notin D
  PROVE  On(insert(o, b, c), D \cup {c}, n + 1)
PROOF
<1> DEFINE q == insert(o, b, c)
<1>1. DOMAIN o = D /\ \A x \in D : o[x] \in 1 .. n
  BY DEF On
<1>2. \A y \in 1 .. n : \E x \in D : o[x] = y
  BY DEF On
<1>3. DOMAIN q = D \cup {c}
  BY <1>1 DEF insert
<1>4. /\ q[c] = o[b] + 1
      /\ \A x \in D : q[x] = IF o[x] > o[b] THEN o[x] + 1 ELSE o[x]
  BY <1>1 DEF insert
<1> HIDE DEF q
<1>5. \A x \in D \cup {c} : q[x] \in 1 .. n + 1
  BY <1>1, <1>4
<1>6. ASSUME NEW y \in 1 .. n + 1 PROVE \E x \in D \cup {c} : q[x] = y
  <2>1. CASE y = o[b] + 1
    BY <1>4, <2>1
  <2>2. CASE y <= o[b]
    <3>1. y \in 1 .. n
      BY <1>1, <2>2
    <3>2. PICK x \in D : o[x] = y
      BY <1>2, <3>1
    <3> QED
      BY <1>1, <1>4, <2>2, <3>2
  <2>3. CASE y > o[b] + 1
    <3>1. y - 1 \in 1 .. n
      BY <1>1, <2>3
    <3>2. PICK x \in D : o[x] = y - 1
      BY <1>2, <3>1
    <3> QED
      BY <1>1, <1>4, <2>3, <3>2
  <2> QED
    BY <1>1, <2>1, <2>2, <2>3
<1>7. {q[x] : x \in D \cup {c}} = 1 .. n + 1
  BY <1>5, <1>6
<1> QED
  BY <1>3, <1>7 DEF On, q

(* Two inserts, in either order of the names of the new nodes. *)
LEMMA InsertTwice ==
  ASSUME NEW o, NEW n \in Nat, Placed(o, n), NEW b \in 1 .. n
  PROVE  /\ Placed(insert(insert(o, b, n + 1), n + 1, n + 2), n + 2)
         /\ Placed(insert(insert(o, b, n + 2), n + 2, n + 1), n + 2)
PROOF
<1> DEFINE p == insert(o, b, n + 1)
           q == insert(o, b, n + 2)
<1>1. On(o, 1 .. n, n) /\ n + 1 \notin 1 .. n /\ n + 2 \notin 1 .. n
  BY DEF Placed
<1>2. On(p, (1 .. n) \cup {n + 1}, n + 1)
  BY <1>1, InsertPlaced
<1>3. On(q, (1 .. n) \cup {n + 2}, n + 1)
  BY <1>1, InsertPlaced
<1> HIDE DEF p, q
<1>4. On(insert(p, n + 1, n + 2), ((1 .. n) \cup {n + 1}) \cup {n + 2}, (n + 1) + 1)
  BY <1>2, InsertPlaced
<1>5. On(insert(q, n + 2, n + 1), ((1 .. n) \cup {n + 2}) \cup {n + 1}, (n + 1) + 1)
  BY <1>3, InsertPlaced
<1>6. /\ ((1 .. n) \cup {n + 1}) \cup {n + 2} = 1 .. (n + 2)
      /\ ((1 .. n) \cup {n + 2}) \cup {n + 1} = 1 .. (n + 2)
      /\ (n + 1) + 1 = n + 2
  OBVIOUS
<1> QED
  BY <1>4, <1>5, <1>6 DEF Placed, p, q

(* A placed order has as many nodes as places. *)
LEMMA PlacedCount ==
  ASSUME NEW o, NEW n \in Nat, Placed(o, n)
  PROVE  Cardinality(DOMAIN o) = n
PROOF
<1>1. DOMAIN o = 1 .. n
  BY DEF Placed, On
<1>2. Cardinality(1 .. n) = n
  BY FS_Interval
<1> QED
  BY <1>1, <1>2

(* do_detach_begin makes two or three nodes, and both orders get them. *)
LEMMA DetachedPlaced ==
  ASSUME OrderInv, NEW f, f.node \in 1 .. NodeCount
  PROVE  /\ Placed(Detached(f).e, ContNode(f)) /\ Placed(Detached(f).h, ContNode(f))
         /\ ContNode(f) \in Nat /\ ChildNode(f) \in 1 .. ContNode(f)
         /\ NodeCount <= ContNode(f) /\ ContNode(f) # 0 /\ ChildNode(f) # 0
         /\ f.sync = 0 => SyncNode(f) \in 1 .. ContNode(f)
PROOF
<1> PICK n \in Nat : n = NodeCount
  BY DEF OrderInv
<1>1. Placed(om.e, n) /\ Placed(om.h, n) /\ f.node \in 1 .. n
  BY DEF OrderInv
<1>2. CASE f.sync = 0
  <2>1. SyncNode(f) = n + 1 /\ ChildNode(f) = (n + 1) + 1 /\ ContNode(f) = (n + 1) + 2
    BY <1>2 DEF First, SyncNode, ChildNode, ContNode, NodeCount
  <2> DEFINE e == insert(om.e, f.node, n + 1)
             h == insert(om.h, f.node, n + 1)
  <2>2. 1 .. (n + 1) = (1 .. n) \cup {n + 1} /\ n + 1 \notin 1 .. n
    OBVIOUS
  <2>3. Placed(e, n + 1) /\ Placed(h, n + 1)
    <3>1. On(om.e, 1 .. n, n) /\ On(om.h, 1 .. n, n)
      BY <1>1 DEF Placed
    <3>2. On(e, (1 .. n) \cup {n + 1}, n + 1)
      BY <1>1, <2>2, <3>1, InsertPlaced
    <3>3. On(h, (1 .. n) \cup {n + 1}, n + 1)
      BY <1>1, <2>2, <3>1, InsertPlaced
    <3> QED
      BY <2>2, <3>2, <3>3 DEF Placed
  <2>4. Detached(f) = [e |-> insert(insert(e, f.node, (n + 1) + 1), (n + 1) + 1, (n + 1) + 2),
                       h |-> insert(insert(h, f.node, (n + 1) + 2), (n + 1) + 2, (n + 1) + 1)]
    BY <1>2, <2>1 DEF Detached, First
  <2> HIDE DEF e, h
  <2>5. n + 1 \in Nat /\ f.node \in 1 .. (n + 1)
    BY <1>1
  <2>6. Placed(Detached(f).e, (n + 1) + 2) /\ Placed(Detached(f).h, (n + 1) + 2)
    BY <2>3, <2>4, <2>5, InsertTwice
  <2> QED
    BY <2>1, <2>6
<1>3. CASE f.sync # 0
  <2>1. ChildNode(f) = n + 1 /\ ContNode(f) = n + 2
    BY <1>3 DEF First, ChildNode, ContNode, NodeCount
  <2>2. Detached(f) = [e |-> insert(insert(om.e, f.node, n + 1), n + 1, n + 2),
                       h |-> insert(insert(om.h, f.node, n + 2), n + 2, n + 1)]
    BY <1>3, <2>1 DEF Detached, First
  <2>3. Placed(Detached(f).e, n + 2) /\ Placed(Detached(f).h, n + 2)
    BY <1>1, <2>2, InsertTwice
  <2> QED
    BY <1>3, <2>1, <2>3
<1> QED
  BY <1>2, <1>3

-----------------------------------------------------------------------------
(* Stacks while the program goes on *)

(* Activations are only added. *)
Extends(A, B) ==
  /\ A \in Seq(Activations) /\ B \in Seq(Activations) /\ Len(A) <= Len(B)
  /\ \A a \in 1 .. Len(A) : B[a].kind = A[a].kind /\ B[a].parent = A[a].parent

(* What exists goes on existing. *)
LEMMA FrameGrows ==
  ASSUME NEW A, NEW B, Extends(A, B), NEW N \in Nat, NEW M \in Nat, N <= M,
         NEW H \in Nat, NEW I \in Nat, H <= I, NEW f, FrameOK(A, N, H, f)
  PROVE  FrameOK(B, M, I, f)
PROOF
<1>1. Len(A) \in Nat /\ Len(B) \in Nat /\ Len(A) <= Len(B)
  BY LenProperties DEF Extends
<1>2. /\ 1 .. Len(A) \subseteq 1 .. Len(B) /\ 0 .. Len(A) \subseteq 0 .. Len(B)
      /\ 0 .. N \subseteq 0 .. M /\ 0 .. H \subseteq 0 .. I /\ 1 .. H \subseteq 1 .. I
  BY <1>1
<1>3. f \in FramesOf(A, N, H) /\ f.act \in 1 .. Len(A)
  BY DEF FrameOK, FramesOf
<1>4. f \in FramesOf(B, M, I)
  BY <1>2, <1>3 DEF FramesOf
<1>5. B[f.act].kind = A[f.act].kind
  BY <1>3 DEF Extends
<1> QED
  BY <1>4, <1>5 DEF FrameOK

LEMMA StackGrows ==
  ASSUME NEW A, NEW B, Extends(A, B), NEW N \in Nat, NEW M \in Nat, N <= M,
         NEW H \in Nat, NEW I \in Nat, H <= I, NEW s, StackOK(A, N, H, s)
  PROVE  StackOK(B, M, I, s)
PROOF
<1>1. /\ s \in Stacks /\ Len(s.frames) \in Nat
      /\ \A i \in 1 .. Len(s.frames) : FrameOK(A, N, H, s.frames[i])
  BY StackFrames DEF StackOK
<1>2. \A i \in 1 .. Len(s.frames) : FrameOK(B, M, I, s.frames[i])
  BY <1>1, FrameGrows
<1>3. \A i \in 1 .. Len(s.frames) : B[s.frames[i].act].parent = A[s.frames[i].act].parent
  BY <1>1 DEF FrameOK, FramesOf, Extends
<1>4. \A i \in 1 .. Len(s.frames) - 1 : LiesOn(B, s.frames[i + 1], s.frames[i])
  BY <1>1, <1>3 DEF StackOK, LiesOn
<1> QED
  BY <1>2, <1>4 DEF StackOK

(* A worker that does nothing keeps what it has. *)
LEMMA HasStackGrows ==
  ASSUME NEW A, NEW B, Extends(A, B), NEW N \in Nat, NEW M \in Nat, N <= M,
         NEW H \in Nat, NEW I \in Nat, H <= I, NEW p, NEW s, NEW deque,
         HasStack(A, N, H, p, s, deque)
  PROVE  HasStack(B, M, I, p, s, deque)
PROOF
<1>1. p # "idle" => StackOK(B, M, I, s)
  BY StackGrows DEF HasStack
<1>2. Len(A) \in Nat /\ Len(B) \in Nat /\ Len(A) <= Len(B)
  BY LenProperties DEF Extends
<1>3. \A a \in 1 .. Len(A) : /\ a \in 1 .. Len(B)
                             /\ B[a].kind = A[a].kind /\ B[a].parent = A[a].parent
  BY <1>2 DEF Extends
<1>4. Popped(A, s, deque) => Popped(B, s, deque)
  BY <1>3 DEF Popped
<1> QED
  BY <1>1, <1>3, <1>4 DEF HasStack

(* Frames above frame n are gone, and frame n goes on. *)
LEMMA StackCut ==
  ASSUME NEW A, NEW N, NEW H, NEW s, StackOK(A, N, H, s), NEW n \in 1 .. Len(s.frames),
         NEW f, FrameOK(A, N, H, f), Ready(f),
         f.act = s.frames[n].act, f.helper = s.frames[n].helper,
         NEW p, Cut(s, p, n, f), p.tail \in 1 .. n
  PROVE  /\ StackOK(A, N, H, p)
         /\ \A i \in 1 .. n : p.frames[i].act = s.frames[i].act
PROOF
<1>1. Len(s.frames) \in Nat /\ n \in Nat
  BY StackFrames DEF StackOK
<1>2. p \in Stacks /\ Len(p.frames) = n /\ p.frames[n] = f
  BY DEF Cut
<1>3. \A i \in 1 .. n : i # n => p.frames[i] = s.frames[i]
  BY <1>1 DEF Cut
<1>4. \A i \in 1 .. n : FrameOK(A, N, H, p.frames[i])
  BY <1>1, <1>2, <1>3 DEF StackOK
<1>5. \A i \in 1 .. n : p.frames[i].act = s.frames[i].act /\ p.frames[i].helper = s.frames[i].helper
  BY <1>2, <1>3
<1>6. ASSUME NEW i \in 1 .. n - 1 PROVE LiesOn(A, p.frames[i + 1], p.frames[i])
  <2>1. i \in 1 .. n /\ i # n /\ i + 1 \in 1 .. n /\ i \in 1 .. Len(s.frames) - 1
    BY <1>1
  <2>2. LiesOn(A, s.frames[i + 1], s.frames[i])
    BY <2>1 DEF StackOK
  <2>3. /\ p.frames[i] = s.frames[i]
        /\ p.frames[i + 1].act = s.frames[i + 1].act
        /\ p.frames[i + 1].helper = s.frames[i + 1].helper
    BY <1>3, <1>5, <2>1
  <2> QED
    BY <2>2, <2>3 DEF LiesOn
<1>7. p.frames[1].act = 1
  <2>1. s.frames[1].act = 1 /\ 1 \in 1 .. n
    BY <1>1 DEF StackOK
  <2> QED
    BY <1>5, <2>1
<1>8. Ready(TopFrame(p))
  BY <1>2 DEF TopFrame
<1> QED
  BY <1>2, <1>4, <1>5, <1>6, <1>7, <1>8 DEF StackOK

(* A frame g is pushed on the head frame, which becomes f. *)
LEMMA StackPushed ==
  ASSUME NEW A, NEW N, NEW H, NEW s, StackOK(A, N, H, s),
         NEW f \in Frames, FrameOK(A, N, H, f), f.act = TopFrame(s).act,
         f.helper = TopFrame(s).helper,
         NEW g \in Frames, FrameOK(A, N, H, g), Ready(g), LiesOn(A, g, f),
         NEW p, p = push(SetTop(s, f), g)
  PROVE  /\ StackOK(A, N, H, p)
         /\ p.tail = s.tail /\ Len(p.frames) = Len(s.frames) + 1
         /\ \A i \in 1 .. Len(s.frames) : p.frames[i].act = s.frames[i].act
         /\ p.frames[Len(s.frames) + 1] = g
PROOF
<1> DEFINE q == SetTop(s, f)
<1>1. s \in Stacks /\ Len(s.frames) \in Nat /\ s.tail \in 1 .. Len(s.frames)
  BY StackFrames DEF StackOK
<1> PICK n \in Nat : n = Len(s.frames)
  BY <1>1
<1>2. n > 0 /\ TopFrame(s) = s.frames[n]
  BY <1>1 DEF TopFrame
<1>3. Cut(s, q, n, f) /\ q.tail = s.tail
  BY <1>1, <1>2, SetTopView
<1>0. p = push(q, g)
  OBVIOUS
<1> HIDE DEF q
<1>4. q \in Stacks /\ Len(q.frames) = n /\ q.frames[n] = f /\ q.tail = s.tail
      /\ \A i \in 1 .. n : i # n => q.frames[i] = s.frames[i]
  BY <1>2, <1>3 DEF Cut
<1>5. /\ p \in Stacks /\ p.tail = s.tail /\ Len(p.frames) = n + 1
      /\ \A i \in 1 .. n : p.frames[i] = q.frames[i]
      /\ p.frames[n + 1] = g
  <2>1. /\ p \in Stacks /\ p.tail = q.tail
        /\ Len(p.frames) = Len(q.frames) + 1
        /\ \A i \in 1 .. Len(q.frames) : p.frames[i] = q.frames[i]
        /\ p.frames[Len(q.frames) + 1] = g
    <3>1. q \in Stacks /\ g \in Frames
      BY <1>4
    <3> QED
      BY ONLY <1>0, <3>1, PushView
  <2> QED
    BY <1>4, <2>1
<1>6. \A i \in 1 .. n : p.frames[i].act = s.frames[i].act /\ p.frames[i].helper = s.frames[i].helper
  BY <1>2, <1>4, <1>5
<1>7. ASSUME NEW i \in 1 .. n + 1 PROVE FrameOK(A, N, H, p.frames[i])
  BY <1>4, <1>5 DEF StackOK
<1>8. ASSUME NEW i \in 1 .. (n + 1) - 1 PROVE LiesOn(A, p.frames[i + 1], p.frames[i])
  <2>1. CASE i = n
    BY <1>2, <1>4, <1>5, <2>1
  <2>2. CASE i # n
    <3>1. i \in 1 .. n /\ i + 1 \in 1 .. n /\ i \in 1 .. Len(s.frames) - 1
      BY <2>2
    <3>2. LiesOn(A, s.frames[i + 1], s.frames[i]) /\ p.frames[i] = s.frames[i]
      BY <1>4, <1>5, <2>2, <3>1 DEF StackOK
    <3>3. p.frames[i + 1].act = s.frames[i + 1].act /\ p.frames[i + 1].helper = s.frames[i + 1].helper
      BY <1>6, <3>1
    <3> QED
      BY <3>2, <3>3 DEF LiesOn
  <2> QED
    BY <2>1, <2>2
<1>9. p.frames[1].act = 1 /\ p.tail \in 1 .. Len(p.frames)
  BY <1>1, <1>2, <1>5, <1>6 DEF StackOK
<1>10. Ready(TopFrame(p))
  BY <1>5 DEF TopFrame
<1> QED
  BY <1>5, <1>6, <1>7, <1>8, <1>9, <1>10 DEF StackOK

-----------------------------------------------------------------------------
(* Steals *)

LEMMA LeastOf ==
  ASSUME NEW T, T \subseteq Nat, T # {}
  PROVE  \E x \in T : \A y \in T : x <= y
PROOF
<1> DEFINE R == {p \in Nat \X Nat : p[1] < p[2]}
<1>1. IsWellFoundedOn(R, Nat)
  BY NatLessThanWellFounded, Zenon DEF OpToRel
<1>2. \A x, y \in Nat : y < x => <<y, x>> \in R
  OBVIOUS
<1> HIDE DEF R
<1>3. PICK x \in T : \A y \in T : ~(<<y, x>> \in R)
  BY <1>1, WFMin
<1>4. ASSUME NEW y \in T PROVE x <= y
  <2>1. x \in Nat /\ y \in Nat /\ ~(<<y, x>> \in R)
    BY <1>3
  <2>2. ~(y < x)
    BY <1>2, <2>1
  <2> QED
    BY <2>1, <2>2
<1> QED
  BY <1>3, <1>4

(* Where StealAt takes a deque apart. *)
LEMMA StealAtFirst ==
  ASSUME NEW deque \in Seq(Nat), CanSteal(deque)
  PROVE  /\ StealAt(deque) \in 1 .. Len(deque) - 1
         /\ IsDetached(deque[StealAt(deque) + 1])
         /\ \A j \in 2 .. StealAt(deque) : ~IsDetached(deque[j])
PROOF
<1> DEFINE T == {j \in 2 .. Len(deque) : IsDetached(deque[j])}
           P(i) == /\ IsDetached(deque[i + 1])
                   /\ \A j \in 2 .. i : ~IsDetached(deque[j])
<1>1. Len(deque) \in Nat
  BY LenProperties
<1>2. T \subseteq Nat /\ T # {}
  BY <1>1 DEF CanSteal
<1>3. PICK k \in T : \A j \in T : k <= j
  BY <1>2, LeastOf
<1>4. k \in 2 .. Len(deque) /\ IsDetached(deque[k])
  OBVIOUS
<1>5. \A j \in 2 .. k - 1 : ~IsDetached(deque[j])
  <2> SUFFICES ASSUME NEW j \in 2 .. k - 1, IsDetached(deque[j]) PROVE FALSE
    OBVIOUS
  <2>1. j \in T /\ ~(k <= j)
    BY <1>1, <1>4
  <2> QED
    BY <1>3, <2>1
<1>6. k - 1 \in 1 .. Len(deque) - 1 /\ (k - 1) + 1 = k
  BY <1>1, <1>4
<1>7. P(k - 1)
  BY <1>4, <1>5, <1>6
<1>8. StealAt(deque) = CHOOSE i \in 1 .. Len(deque) - 1 : P(i)
  BY DEF StealAt
<1> HIDE DEF P
<1>9. StealAt(deque) \in 1 .. Len(deque) - 1 /\ P(StealAt(deque))
  BY <1>6, <1>7, <1>8
<1> QED
  BY <1>9 DEF P

(* The next helper's frame is that of the activation which is detached     *)
(* from the stolen one, on the stack or just above its head.               *)
LEMMA NextHelperIs ==
  ASSUME NEW N, NEW H, NEW s, StackOK(acts, N, H, s), NEW deque \in Seq(Nat),
         NEW n \in Nat, Covers(s, deque, n), n = Len(deque) \/ n = Len(deque) - 1,
         n # Len(deque) => Popped(acts, s, deque), CanSteal(deque),
         NEW i, i = StealAt(deque)
  PROVE  /\ i \in 1 .. n /\ NextHelper(s) = s.tail + i
         /\ i < n => s.frames[s.tail + i].helper
         /\ i = n => n # Len(deque)
PROOF
<1> DEFINE t == s.tail
           m == Len(s.frames)
           helpers == {j \in t + 1 .. m : s.frames[j].helper} \cup IF s.above THEN {m + 1} ELSE {}
<1>1. /\ s \in Stacks /\ m \in Nat /\ t \in 1 .. m /\ t \in Nat
  BY StackFrames DEF StackOK
<1>2. /\ m - t + 1 = n /\ n <= Len(deque) /\ Len(deque) \in Nat
      /\ \A j \in 1 .. n : deque[j] = s.frames[t + j - 1].act
  BY LenProperties DEF Covers
<1>3. /\ i \in 1 .. Len(deque) - 1 /\ IsDetached(deque[i + 1])
      /\ \A j \in 2 .. i : ~IsDetached(deque[j])
  BY StealAtFirst
<1>4. i \in 1 .. n /\ i \in Nat
  BY <1>2, <1>3, SMTT(40)
<1>5. \A j \in 1 .. m : s.frames[j].helper <=> IsDetached(s.frames[j].act)
  BY DEF StackOK, FrameOK, IsDetached
<1> HIDE DEF t, m
<1>6. ASSUME NEW j \in 1 .. n
      PROVE  s.frames[t + j - 1].helper <=> IsDetached(deque[j])
  <2>1. t + j - 1 \in 1 .. m
    BY <1>1, <1>2
  <2> QED
    BY <1>2, <1>5, <2>1
<1>7. ASSUME i < n PROVE t + i <= m /\ s.frames[t + i].helper
  <2>1. i + 1 \in 1 .. n /\ t + (i + 1) - 1 = t + i /\ t + i <= m
    BY <1>1, <1>2, <1>4, <1>7
  <2> QED
    BY <1>3, <1>6, <2>1
<1>8. ASSUME i = n PROVE n # Len(deque) /\ t + i = m + 1 /\ s.above
  BY <1>1, <1>2, <1>3, <1>8 DEF Popped
<1>9. t + i \in helpers
  <2>1. CASE i < n
    BY <1>1, <1>4, <1>7, <2>1
  <2>2. CASE i = n
    BY <1>8, <2>2
  <2> QED
    BY <1>4, <2>1, <2>2
<1>10. ASSUME NEW j \in helpers, j < t + i PROVE FALSE
  <2>1. j \in t + 1 .. m /\ s.frames[j].helper
    <3>1. t + i <= m + 1
      BY <1>1, <1>2, <1>4
    <3>2. j # m + 1
      BY <1>1, <1>4, <1>10, <3>1
    <3> QED
      BY <1>10, <3>2
  <2>2. j - t + 1 \in 1 .. n /\ j - t + 1 \in 2 .. i /\ t + (j - t + 1) - 1 = j
    BY <1>1, <1>2, <1>4, <1>10, <2>1
  <2>3. IsDetached(deque[j - t + 1])
    BY <1>6, <2>1, <2>2
  <2> QED
    BY <1>3, <2>2, <2>3
<1>11. \A j \in helpers : j \in Nat
  BY <1>1
<1>12. NextHelper(s) = CHOOSE k \in helpers : \A j \in helpers : k <= j
  BY DEF NextHelper, t, m
<1> HIDE DEF helpers
<1>13. \A j \in helpers : t + i <= j
  BY <1>1, <1>4, <1>10, <1>11
<1>14. \A k \in helpers : (\A j \in helpers : k <= j) => k = t + i
  BY <1>1, <1>4, <1>9, <1>11, <1>13
<1>15. NextHelper(s) = t + i
  BY <1>9, <1>12, <1>13, <1>14
<1> QED
  BY <1>4, <1>7, <1>8, <1>15 DEF t, m

(* The arithmetic of a stack of m frames with tail t, cut at frame k. *)
LEMMA CutPlaces ==
  ASSUME NEW m \in Nat, NEW t \in Nat, NEW n \in Nat, NEW i \in Nat, NEW k \in Nat,
         NEW l \in Nat, m - t + 1 = n, n <= l, t \in 1 .. m, i \in 1 .. n, k = t + i
  PROVE  /\ k \in 2 .. m + 1 /\ k - 1 \in 1 .. m /\ t \in 1 .. k - 1
         /\ i < n => k - 1 \in 1 .. m - 1 /\ ~(k > m) /\ k \in 1 .. m
         /\ i = n => k - 1 = m /\ k > m /\ m \in 1 .. m
         /\ (k - 1) - t + 1 = i /\ m - k + 1 = n - i /\ n - i <= l - i
         /\ \A j \in 1 .. i : j \in 1 .. n /\ t + j - 1 \in 1 .. k - 1
         /\ \A j \in 1 .. n - i : /\ j \in 1 .. l - i /\ i + j \in 1 .. n
                                  /\ t + (i + j) - 1 = k + j - 1
  OBVIOUS

LEMMA FrameIsFrame ==
  ASSUME NEW A \in Seq(Activations), NEW N \in Nat, NEW H \in Nat, NEW f, FrameOK(A, N, H, f)
  PROVE  f \in Frames
PROOF
<1>1. Len(A) \in Nat
  BY LenProperties
<1>2. /\ 1 .. Len(A) \subseteq Nat /\ 0 .. Len(A) \subseteq Nat
      /\ 0 .. N \subseteq Nat /\ 0 .. H \subseteq Nat /\ 1 .. H \subseteq Nat
  BY <1>1
<1> QED
  BY <1>2 DEF FrameOK, FramesOf, Frames

(* init_strand makes the stolen frame ready to go on. *)
LEMMA InitStrandReady ==
  ASSUME NEW A, NEW N \in Nat, NEW H \in Nat, NEW f, FrameOK(A, N, H, f),
         f.steal_cont # 0 \/ f.cont # 0
  PROVE  /\ FrameOK(A, N, H, InitStrand(f)) /\ Ready(InitStrand(f))
         /\ InitStrand(f).act = f.act /\ InitStrand(f).helper = f.helper
PROOF
<1>0. 0 \in 0 .. N
  OBVIOUS
<1>1. f \in FramesOf(A, N, H) /\ f.cont \in 0 .. N /\ f.steal_cont \in 0 .. N /\ f.steal_sync \in 0 .. N
  BY DEF FrameOK, FramesOf
<1>2. CASE f.steal_cont # 0
  <2> DEFINE g == [f EXCEPT !.node = f.steal_cont, !.sync = f.steal_sync,
                            !.list = f.steal_list, !.cont = 0]
  <2>1. InitStrand(f) = g
    BY <1>2 DEF InitStrand
  <2>2. f.steal_list \in 1 .. H
    BY <1>1, <1>2 DEF FrameOK, FramesOf
  <2>3. g \in FramesOf(A, N, H)
    BY <1>0, <1>1, <2>2, Zenon DEF FramesOf
  <2>4. /\ g.act = f.act /\ g.helper = f.helper /\ g.node = f.steal_cont /\ g.cont = 0
        /\ g.steal_cont = f.steal_cont /\ g.steal_list = f.steal_list
    BY <1>1 DEF FramesOf
  <2> HIDE DEF g
  <2> QED
    BY <1>2, <2>1, <2>3, <2>4 DEF FrameOK, Ready
<1>3. CASE f.steal_cont = 0
  <2> DEFINE g == [f EXCEPT !.node = f.cont, !.cont = 0]
  <2>1. InitStrand(f) = g
    BY <1>3 DEF InitStrand
  <2>2. g \in FramesOf(A, N, H)
    BY <1>0, <1>1, Zenon DEF FramesOf
  <2>3. /\ g.act = f.act /\ g.helper = f.helper /\ g.node = f.cont /\ g.cont = 0
        /\ g.steal_cont = f.steal_cont /\ g.steal_list = f.steal_list
    BY <1>1 DEF FramesOf
  <2> HIDE DEF g
  <2> QED
    BY <1>3, <2>1, <2>2, <2>3 DEF FrameOK, Ready
<1> QED
  BY <1>2, <1>3

(* The worker v has deque and s, with frames for the first n activations   *)
(* of the deque.                                                           *)
Stealable(N, H, s, deque, n) ==
  /\ StackOK(acts, N, H, s) /\ Covers(s, deque, n)
  /\ n = Len(deque) \/ n = Len(deque) - 1
  /\ n # Len(deque) => Popped(acts, s, deque)
  /\ CanSteal(deque)

IsLoot(p, s) == p = SetTop(StolenFrames(s), InitStrand(TopFrame(StolenFrames(s))))
IsLeft(p, s) == p = LeftFrames(s)
IsCut(i, deque) == i = StealAt(deque)
IsRest(rest, i, deque) == rest = SubSeq(deque, i + 1, Len(deque))

(* The thief's stack is one that can go on and covers what it stole. *)
LEMMA LootOK ==
  ASSUME acts \in Seq(Activations), NEW N \in Nat, NEW H \in Nat, NEW s,
         NEW deque \in Seq(Nat), NEW n \in Nat, Stealable(N, H, s, deque, n),
         NEW p, IsLoot(p, s), NEW i \in Nat, IsCut(i, deque)
  PROVE  /\ StackOK(acts, N, H, p)
         /\ SubSeq(deque, 1, i) \in Seq(Nat) /\ Len(SubSeq(deque, 1, i)) = i
         /\ Covers(p, SubSeq(deque, 1, i), i)
PROOF
<1>1. /\ StackOK(acts, N, H, s) /\ Covers(s, deque, n)
      /\ n = Len(deque) \/ n = Len(deque) - 1
      /\ n # Len(deque) => Popped(acts, s, deque)
      /\ CanSteal(deque)
  BY DEF Stealable
<1>2. /\ i \in 1 .. n /\ NextHelper(s) = s.tail + i
      /\ i < n => s.frames[s.tail + i].helper
      /\ i = n => n # Len(deque)
  <2>1. i = StealAt(deque)
    BY DEF IsCut
  <2> QED
    BY <1>1, <2>1, NextHelperIs
<1>3. s \in Stacks /\ Len(s.frames) \in Nat /\ s.tail \in Nat /\ s.tail \in 1 .. Len(s.frames)
  BY <1>1, StackFrames DEF StackOK
<1>len. Len(deque) \in Nat
  BY LenProperties
<1> PICK m \in Nat : m = Len(s.frames)
  BY <1>3
<1> PICK t \in Nat : t = s.tail
  BY <1>3
<1> PICK l \in Nat : l = Len(deque)
  BY <1>len
<1>cover. /\ m - t + 1 = n /\ n <= l /\ t \in 1 .. m
      /\ \A j \in 1 .. n : deque[j] = s.frames[t + j - 1].act
  BY <1>1, <1>3 DEF Covers
<1>k. PICK k \in Nat : k = t + i
  OBVIOUS
<1>places. /\ k \in 2 .. m + 1 /\ k - 1 \in 1 .. m /\ t \in 1 .. k - 1
           /\ i < n => k - 1 \in 1 .. m - 1 /\ ~(k > m) /\ k \in 1 .. m
           /\ i = n => k - 1 = m /\ k > m /\ m \in 1 .. m
           /\ (k - 1) - t + 1 = i /\ m - k + 1 = n - i /\ n - i <= l - i
           /\ \A j \in 1 .. i : j \in 1 .. n /\ t + j - 1 \in 1 .. k - 1
           /\ \A j \in 1 .. n - i : /\ j \in 1 .. l - i /\ i + j \in 1 .. n
                                    /\ t + (i + j) - 1 = k + j - 1
  <2>1. /\ m \in Nat /\ t \in Nat /\ n \in Nat /\ i \in Nat /\ k \in Nat /\ l \in Nat
        /\ m - t + 1 = n /\ n <= l /\ t \in 1 .. m /\ i \in 1 .. n /\ k = t + i
    BY <1>2, <1>cover, <1>k
  <2> QED
    BY ONLY <2>1, CutPlaces
<1>next. NextHelper(s) = k /\ (i < n => s.frames[k].helper)
  BY <1>2, <1>k
<1>4. /\ k \in 2 .. m + 1 /\ k - 1 \in 1 .. m /\ t \in 1 .. k - 1
      /\ i < n => k - 1 \in 1 .. m - 1
      /\ i = n => k - 1 = m
  BY <1>places
<1> PICK f : f = s.frames[k - 1]
  OBVIOUS
<1> PICK g : g = InitStrand(f)
  OBVIOUS
<1>5. FrameOK(acts, N, H, f)
  BY <1>1, <1>4 DEF StackOK
<1>6. f.steal_cont # 0 \/ f.cont # 0
  <2>1. CASE i < n
    <3>1. k - 1 \in 1 .. m - 1 /\ (k - 1) + 1 = k
      BY <1>4, <2>1
    <3>2. \A j \in 1 .. m - 1 : LiesOn(acts, s.frames[j + 1], s.frames[j])
      BY <1>1 DEF StackOK
    <3>3. LiesOn(acts, s.frames[k], s.frames[k - 1]) /\ s.frames[k].helper
      BY <1>next, <2>1, <3>1, <3>2
    <3> QED
      BY <3>3 DEF LiesOn
  <2>2. CASE i = n
    <3>1. Popped(acts, s, deque) /\ k - 1 = Len(s.frames)
      BY <1>1, <1>2, <1>4, <2>2
    <3> QED
      BY <3>1 DEF Popped, TopFrame
  <2> QED
    BY <1>2, <2>1, <2>2
<1>7. /\ FrameOK(acts, N, H, g) /\ Ready(g) /\ g.act = f.act /\ g.helper = f.helper
  <2>1. N \in Nat /\ H \in Nat
    OBVIOUS
  <2>2. /\ FrameOK(acts, N, H, InitStrand(f)) /\ Ready(InitStrand(f))
        /\ InitStrand(f).act = f.act /\ InitStrand(f).helper = f.helper
    BY ONLY <1>5, <1>6, <2>1, InitStrandReady
  <2> QED
    BY <2>2
<1>8. g \in Frames
  BY <1>7, FrameIsFrame
<1>9. TopFrame(StolenFrames(s)) = f
  BY <1>3, <1>4, <1>8, <1>next, LootView
<1>10. Cut(s, p, k - 1, g) /\ p.tail = s.tail
  <2>1. p = SetTop(StolenFrames(s), g)
    BY <1>9 DEF IsLoot
  <2> QED
    BY <1>3, <1>4, <1>8, <1>next, <2>1, LootView
<1>11. /\ StackOK(acts, N, H, p)
       /\ \A j \in 1 .. k - 1 : p.frames[j].act = s.frames[j].act
  <2>1. k - 1 \in 1 .. Len(s.frames) /\ p.tail \in 1 .. k - 1
    BY <1>4, <1>10
  <2>2. g.act = s.frames[k - 1].act /\ g.helper = s.frames[k - 1].helper
    BY <1>7
  <2> QED
    BY ONLY <1>1, <1>7, <1>10, <2>1, <2>2, StackCut
<1>12. /\ SubSeq(deque, 1, i) \in Seq(Nat) /\ Len(SubSeq(deque, 1, i)) = i
       /\ \A j \in 1 .. i : SubSeq(deque, 1, i)[j] = deque[j]
  <2>1. i >= 1 /\ l \in Nat /\ i <= l
    BY <1>2, <1>cover
  <2>2. \A j \in 1 .. i : deque[j] \in Nat
    BY <2>1, ElementOfSeq, SMTT(40)
  <2>3. /\ SubSeq(deque, 1, i) \in Seq(Nat)
        /\ Len(SubSeq(deque, 1, i)) = (IF 1 <= i THEN i - 1 + 1 ELSE 0)
        /\ \A j \in 1 .. i - 1 + 1 : SubSeq(deque, 1, i)[j] = deque[1 + j - 1]
    BY <2>1, <2>2, SubSeqProperties
  <2> QED
    BY <2>1, <2>3
<1>13. Len(p.frames) - p.tail + 1 = i
  <2>1. Len(p.frames) = k - 1 /\ p.tail = t
    BY <1>10 DEF Cut
  <2> QED
    BY <1>places, <2>1
<1>14. ASSUME NEW j \in 1 .. i PROVE SubSeq(deque, 1, i)[j] = p.frames[p.tail + j - 1].act
  <2>1. j \in 1 .. n /\ t + j - 1 \in 1 .. k - 1
    BY <1>places
  <2>2. p.tail = t
    BY <1>10
  <2> QED
    BY <1>11, <1>12, <1>cover, <2>1, <2>2
<1> QED
  BY <1>11, <1>12, <1>13, <1>14, SMTT(40) DEF Covers

(* The victim's stack covers what is left of its deque. *)
LEMMA LeftOK ==
  ASSUME acts \in Seq(Activations), NEW N \in Nat, NEW H \in Nat, NEW s,
         NEW deque \in Seq(Nat), NEW n \in Nat, Stealable(N, H, s, deque, n),
         NEW p, IsLeft(p, s), NEW i \in Nat, IsCut(i, deque), NEW rest, IsRest(rest, i, deque)
  PROVE  /\ StackOK(acts, N, H, p) /\ rest \in Seq(Nat)
         /\ Len(rest) = Len(deque) - i /\ Len(rest) > 0 /\ i \in 1 .. n
         /\ i < n => Covers(p, rest, n - i)
         /\ i = n => n # Len(deque)
         /\ Popped(acts, s, deque) => Popped(acts, p, rest)
PROOF
<1>1. /\ StackOK(acts, N, H, s) /\ Covers(s, deque, n)
      /\ n = Len(deque) \/ n = Len(deque) - 1
      /\ n # Len(deque) => Popped(acts, s, deque)
      /\ CanSteal(deque)
  BY DEF Stealable
<1>2. /\ i \in 1 .. n /\ NextHelper(s) = s.tail + i
      /\ i < n => s.frames[s.tail + i].helper
      /\ i = n => n # Len(deque)
  <2>1. i = StealAt(deque)
    BY DEF IsCut
  <2> QED
    BY <1>1, <2>1, NextHelperIs
<1>3. s \in Stacks /\ Len(s.frames) \in Nat /\ s.tail \in Nat /\ s.tail \in 1 .. Len(s.frames)
  BY <1>1, StackFrames DEF StackOK
<1>len. Len(deque) \in Nat
  BY LenProperties
<1> PICK m \in Nat : m = Len(s.frames)
  BY <1>3
<1> PICK t \in Nat : t = s.tail
  BY <1>3
<1> PICK l \in Nat : l = Len(deque)
  BY <1>len
<1>cover. /\ m - t + 1 = n /\ n <= l /\ t \in 1 .. m
      /\ \A j \in 1 .. n : deque[j] = s.frames[t + j - 1].act
  BY <1>1, <1>3 DEF Covers
<1>k. PICK k \in Nat : k = t + i
  OBVIOUS
<1>places. /\ k \in 2 .. m + 1 /\ k - 1 \in 1 .. m /\ t \in 1 .. k - 1
           /\ i < n => k - 1 \in 1 .. m - 1 /\ ~(k > m) /\ k \in 1 .. m
           /\ i = n => k - 1 = m /\ k > m /\ m \in 1 .. m
           /\ (k - 1) - t + 1 = i /\ m - k + 1 = n - i /\ n - i <= l - i
           /\ \A j \in 1 .. i : j \in 1 .. n /\ t + j - 1 \in 1 .. k - 1
           /\ \A j \in 1 .. n - i : /\ j \in 1 .. l - i /\ i + j \in 1 .. n
                                    /\ t + (i + j) - 1 = k + j - 1
  <2>1. /\ m \in Nat /\ t \in Nat /\ n \in Nat /\ i \in Nat /\ k \in Nat /\ l \in Nat
        /\ m - t + 1 = n /\ n <= l /\ t \in 1 .. m /\ i \in 1 .. n /\ k = t + i
    BY <1>2, <1>cover, <1>k
  <2> QED
    BY ONLY <2>1, CutPlaces
<1>next. NextHelper(s) = k /\ (i < n => s.frames[k].helper)
  BY <1>2, <1>k
<1>4. /\ p \in Stacks /\ p.frames = s.frames /\ p.above = s.above
      /\ p.tail = IF k > m THEN m ELSE k
  <2>1. p = LeftFrames(s)
    BY DEF IsLeft
  <2> QED
    BY <1>3, <1>next, <2>1, LeftView
<1>5. StackOK(acts, N, H, p)
  <2>0. i < n \/ i = n
    BY <1>2
  <2>1. p.tail \in 1 .. m
    BY <1>4, <1>places, <2>0
  <2>2. Len(p.frames) = m /\ TopFrame(p) = TopFrame(s)
    BY <1>4 DEF TopFrame
  <2> QED
    BY <1>1, <1>4, <2>1, <2>2 DEF StackOK
<1>6. i >= 1 /\ i < l
  BY <1>1, <1>2, <1>cover
<1>7. /\ rest \in Seq(Nat) /\ Len(rest) = l - i
      /\ \A j \in 1 .. l - i : rest[j] = deque[i + j]
  <2>1. \A j \in i + 1 .. l : deque[j] \in Nat
    <3>1. \A j \in i + 1 .. l : j \in 1 .. l
      OBVIOUS
    <3> QED
      BY <3>1, ElementOfSeq
  <2>2. /\ rest \in Seq(Nat)
        /\ Len(rest) = IF i + 1 <= l THEN l - (i + 1) + 1 ELSE 0
        /\ \A j \in 1 .. l - (i + 1) + 1 : rest[j] = deque[(i + 1) + j - 1]
    <3>1. rest = SubSeq(deque, i + 1, l) /\ i + 1 \in Int /\ l \in Int
      BY DEF IsRest
    <3> QED
      BY <2>1, <3>1, SubSeqProperties
  <2>3. /\ l - (i + 1) + 1 = l - i /\ i + 1 <= l
        /\ \A j \in 1 .. l - i : (i + 1) + j - 1 = i + j
    BY <1>6
  <2> QED
    BY <2>2, <2>3
<1>8. ASSUME i < n PROVE Covers(p, rest, n - i)
  <2>1. p.tail = k /\ Len(p.frames) = m
    BY <1>4, <1>8, <1>places
  <2>2. m - k + 1 = n - i /\ n - i <= l - i
    BY <1>places
  <2>3. ASSUME NEW j \in 1 .. n - i PROVE rest[j] = p.frames[k + j - 1].act
    <3>1. j \in 1 .. l - i /\ i + j \in 1 .. n /\ t + (i + j) - 1 = k + j - 1
      BY <1>places
    <3>2. rest[j] = deque[i + j] /\ deque[i + j] = s.frames[t + (i + j) - 1].act
      BY <1>7, <1>cover, <3>1
    <3> QED
      BY <1>4, <3>1, <3>2
  <2> QED
    BY <1>7, <2>1, <2>2, <2>3 DEF Covers
<1>9. rest[Len(rest)] = deque[Len(deque)]
  <2>1. l - i \in 1 .. l - i /\ i + (l - i) = l
    BY <1>6
  <2> QED
    BY <1>7, <2>1
<1>10. Popped(acts, s, deque) => Popped(acts, p, rest)
  BY <1>4, <1>9 DEF Popped, TopFrame
<1>11. Len(rest) = Len(deque) - i /\ Len(rest) > 0
  BY <1>6, <1>7
<1> QED
  BY <1>2, <1>5, <1>7, <1>8, <1>10, <1>11

-----------------------------------------------------------------------------
(* Activations, which steps only add to or mark. *)

LEMMA ActUpdated ==
  ASSUME NEW A \in Seq(Activations), NEW a \in 1 .. Len(A), NEW r \in Activations,
         r.kind = A[a].kind, r.parent = A[a].parent
  PROVE  Extends(A, [A EXCEPT ![a] = r])
PROOF
<1> PICK B : B = [A EXCEPT ![a] = r]
  OBVIOUS
<1>1. /\ B \in Seq(Activations) /\ Len(B) = Len(A)
      /\ \A j \in 1 .. Len(A) : B[j] = IF j = a THEN r ELSE A[j]
  BY ExceptSeq
<1>2. Len(A) \in Nat
  BY LenProperties
<1>3. Extends(A, B)
  BY <1>1, <1>2 DEF Extends
<1> QED
  BY <1>3

LEMMA ActMarked ==
  ASSUME NEW A \in Seq(Activations), NEW a \in 1 .. Len(A), NEW x \in Nat, NEW E \in SUBSET Nat
  PROVE  /\ Extends(A, A)
         /\ Extends(A, [A EXCEPT ![a].done = TRUE])
         /\ Extends(A, [A EXCEPT ![a].ended = E])
         /\ Extends(A, [A EXCEPT ![a].waits = x])
         /\ Extends(A, [A EXCEPT ![a].at = x])
         /\ Extends(A, [A EXCEPT ![a].last = x])
         /\ Extends(A, [A EXCEPT ![a].fom = x])
PROOF
<1> PICK r : r = A[a]
  OBVIOUS
<1>1. r \in Activations
  BY ElementOfSeq
<1>2. /\ [r EXCEPT !.done = TRUE] \in Activations
      /\ [r EXCEPT !.ended = E] \in Activations
      /\ [r EXCEPT !.waits = x] \in Activations
      /\ [r EXCEPT !.at = x] \in Activations
      /\ [r EXCEPT !.last = x] \in Activations
      /\ [r EXCEPT !.fom = x] \in Activations
  BY <1>1 DEF Activations
<1>3. \A q \in {[r EXCEPT !.done = TRUE], [r EXCEPT !.ended = E], [r EXCEPT !.waits = x],
                [r EXCEPT !.at = x], [r EXCEPT !.last = x], [r EXCEPT !.fom = x]} :
        q.kind = r.kind /\ q.parent = r.parent
  BY <1>1 DEF Activations
<1>4. Extends(A, A)
  BY LenProperties DEF Extends
<1>5. Extends(A, [A EXCEPT ![a] = [r EXCEPT !.done = TRUE]])
  BY <1>2, <1>3, ActUpdated
<1>6. Extends(A, [A EXCEPT ![a] = [r EXCEPT !.ended = E]])
  BY <1>2, <1>3, ActUpdated
<1>7. Extends(A, [A EXCEPT ![a] = [r EXCEPT !.waits = x]])
  BY <1>2, <1>3, ActUpdated
<1>8. Extends(A, [A EXCEPT ![a] = [r EXCEPT !.at = x]])
  BY <1>2, <1>3, ActUpdated
<1>9. Extends(A, [A EXCEPT ![a] = [r EXCEPT !.last = x]])
  BY <1>2, <1>3, ActUpdated
<1>10. Extends(A, [A EXCEPT ![a] = [r EXCEPT !.fom = x]])
  BY <1>2, <1>3, ActUpdated
<1> QED
  BY <1>4, <1>5, <1>6, <1>7, <1>8, <1>9, <1>10

LEMMA ExtendsTwice ==
  ASSUME NEW A, NEW B, NEW C, Extends(A, B), Extends(B, C)
  PROVE  Extends(A, C)
PROOF
<1>1. Len(A) \in Nat /\ Len(B) \in Nat /\ Len(C) \in Nat
  BY LenProperties DEF Extends
<1>2. Len(A) <= Len(B) /\ Len(B) <= Len(C)
  BY DEF Extends
<1>3. ASSUME NEW a \in 1 .. Len(A)
      PROVE  C[a].kind = A[a].kind /\ C[a].parent = A[a].parent
  <2>1. a \in 1 .. Len(B)
    BY <1>1, <1>2
  <2> QED
    BY <1>3, <2>1 DEF Extends
<1> QED
  BY <1>1, <1>2, <1>3 DEF Extends

LEMMA NewActType ==
  ASSUME NEW k \in Kinds, NEW p \in Nat, NEW c \in Nat
  PROVE  /\ NewAct(k, p, c) \in Activations
         /\ NewAct(k, p, c).kind = k /\ NewAct(k, p, c).parent = p
  BY DEF NewAct, Activations

LEMMA ActAdded ==
  ASSUME NEW A \in Seq(Activations), NEW r \in Activations
  PROVE  /\ Extends(A, Append(A, r)) /\ Len(Append(A, r)) = Len(A) + 1
         /\ Append(A, r)[Len(A) + 1] = r
PROOF
<1> PICK B : B = Append(A, r)
  OBVIOUS
<1>1. /\ B \in Seq(Activations) /\ Len(B) = Len(A) + 1
      /\ \A i \in 1 .. Len(A) : B[i] = A[i]
      /\ B[Len(A) + 1] = r
  BY AppendProperties
<1>2. Len(A) \in Nat
  BY LenProperties
<1> QED
  BY <1>1, <1>2 DEF Extends

-----------------------------------------------------------------------------
(* One step of a worker *)

(* What there is stays. *)
Grows ==
  /\ Extends(acts, acts') /\ OrderInv' /\ NodeCount <= NodeCount'
  /\ IsSequence(heap') /\ Len(heap) <= Len(heap')

LEMMA StepConcludes ==
  ASSUME ShadowInv, Shapes', Grows,
         \A u \in Workers : \/ WorkerOK(u)'
                            \/ shadow'[u] = shadow[u] /\ own'[u] = own[u] /\ pc'[u] = pc[u],
         \A d \in suspended' : d \in suspended \/ DequeOK(d)'
  PROVE  ShadowInv'
PROOF
<1>1. /\ Extends(acts, acts') /\ NodeCount \in Nat /\ NodeCount' \in Nat /\ NodeCount <= NodeCount'
      /\ Len(heap) \in Nat /\ Len(heap)' \in Nat /\ Len(heap) <= Len(heap)'
  BY LenProperties DEF Grows, ShadowInv, OrderInv, Shapes, IsSequence
<1>2. RootOK'
  <2>1. 1 \in 1 .. Len(acts) /\ acts[1].kind = "root" /\ acts \in Seq(Activations)
    BY LenProperties DEF ShadowInv, Shapes, RootOK
  <2>2. acts' \in Seq(Activations) /\ Len(acts) <= Len(acts') /\ acts'[1].kind = "root"
    BY <1>1, <2>1 DEF Extends
  <2>3. Len(acts) \in Nat /\ Len(acts') \in Nat /\ DOMAIN acts' = 1 .. Len(acts')
    BY <2>1, <2>2, LenProperties
  <2> QED
    BY <2>1, <2>2, <2>3 DEF RootOK
<1>3. ASSUME NEW u \in Workers PROVE WorkerOK(u)'
  <2>1. CASE WorkerOK(u)'
    BY <2>1
  <2>2. CASE shadow'[u] = shadow[u] /\ own'[u] = own[u] /\ pc'[u] = pc[u]
    <3>1. HasStack(acts, NodeCount, Len(heap), pc[u], shadow[u], own[u])
      BY DEF ShadowInv, WorkerOK
    <3>2. HasStack(acts', NodeCount', Len(heap)', pc[u], shadow[u], own[u])
      BY <1>1, <3>1, HasStackGrows
    <3> QED
      BY <2>2, <3>2 DEF WorkerOK
  <2> QED
    BY <2>1, <2>2
<1>4. ASSUME NEW d \in suspended' PROVE DequeOK(d)'
  <2>1. CASE d \in suspended
    <3>1. StackOK(acts, NodeCount, Len(heap), d.stack) /\ Covers(d.stack, d.own, Len(d.own))
      BY <2>1 DEF ShadowInv, DequeOK
    <3>2. StackOK(acts', NodeCount', Len(heap)', d.stack)
      BY <1>1, <3>1, StackGrows
    <3> QED
      BY <3>1, <3>2 DEF DequeOK
  <2>2. CASE DequeOK(d)'
    BY <2>2
  <2> QED
    BY <2>1, <2>2
<1> QED
  BY <1>2, <1>3, <1>4 DEF ShadowInv, Grows

(* The strands and who runs which. *)
StrandsOK == /\ IsSequence(strands') /\ cur' \in [Workers -> 0 .. Len(strands')]
             /\ called_future' \in [Workers -> BOOLEAN]

(* Worker w goes on with stack s and deque at p. *)
Moves(w, s, deque, p) ==
  /\ shadow' = [shadow EXCEPT ![w] = s]
  /\ own' = [own EXCEPT ![w] = deque]
  /\ pc' = [pc EXCEPT ![w] = p]

LEMMA WorkerStep ==
  ASSUME ShadowInv, NEW w \in Workers, NEW s \in Stacks, NEW deque \in Seq(Nat), NEW p \in Points,
         Moves(w, s, deque, p), Grows, StrandsOK,
         HasStack(acts', NodeCount', Len(heap'), p, s, deque),
         suspended' \subseteq Deques, \A d \in suspended' : d \in suspended \/ DequeOK(d)'
  PROVE  ShadowInv'
PROOF
<1>1. /\ shadow \in [Workers -> Stacks] /\ own \in [Workers -> Seq(Nat)] /\ pc \in [Workers -> Points]
  BY DEF ShadowInv, Shapes
<1>2. /\ shadow' \in [Workers -> Stacks] /\ own' \in [Workers -> Seq(Nat)] /\ pc' \in [Workers -> Points]
      /\ shadow'[w] = s /\ own'[w] = deque /\ pc'[w] = p
      /\ \A u \in Workers : u # w => shadow'[u] = shadow[u] /\ own'[u] = own[u] /\ pc'[u] = pc[u]
  BY <1>1 DEF Moves
<1>3. Shapes'
  BY <1>2 DEF Shapes, Grows, StrandsOK, Extends
<1>4. WorkerOK(w)'
  BY <1>2 DEF WorkerOK
<1> QED
  BY <1>2, <1>3, <1>4, StepConcludes

(* A new strand for w, or none. *)
LEMMA StrandAdded ==
  ASSUME ShadowInv, NEW w \in Workers, NEW e, strands' = Append(strands, e),
         cur' = [cur EXCEPT ![w] = Len(strands) + 1]
  PROVE  IsSequence(strands') /\ cur' \in [Workers -> 0 .. Len(strands')]
PROOF
<1>1. IsSequence(strands) /\ cur \in [Workers -> 0 .. Len(strands)]
  BY DEF ShadowInv, Shapes
<1>2. Len(strands) \in Nat /\ IsSequence(strands') /\ Len(strands') = Len(strands) + 1
  BY <1>1, SequenceGrows
<1>3. 0 .. Len(strands) \subseteq 0 .. Len(strands') /\ Len(strands) + 1 \in 0 .. Len(strands')
  BY <1>2
<1> QED
  BY <1>1, <1>2, <1>3

LEMMA StrandNotAdded ==
  ASSUME ShadowInv, NEW w \in Workers, strands' = strands,
         cur' = cur \/ cur' = [cur EXCEPT ![w] = 0]
  PROVE  IsSequence(strands') /\ cur' \in [Workers -> 0 .. Len(strands')]
PROOF
<1>1. IsSequence(strands) /\ cur \in [Workers -> 0 .. Len(strands)] /\ Len(strands) \in Nat
  BY LenProperties DEF ShadowInv, Shapes, IsSequence
<1>2. 0 \in 0 .. Len(strands)
  BY <1>1
<1> QED
  BY <1>1, <1>2

(* Only the strands and the stacks change. *)
LEMMA NothingGrows ==
  ASSUME ShadowInv, om' = om, IsSequence(heap'), Len(heap) <= Len(heap'), Extends(acts, acts')
  PROVE  Grows /\ NodeCount' = NodeCount /\ NodeCount \in Nat
PROOF
<1>1. NodeCount' = NodeCount /\ OrderInv' /\ NodeCount \in Nat
  BY DEF NodeCount, OrderInv, ShadowInv
<1> QED
  BY <1>1 DEF Grows

-----------------------------------------------------------------------------
(* A stack and its deque in step *)

Matched(A, N, H, s, deque) == StackOK(A, N, H, s) /\ Covers(s, deque, Len(deque))

(* The arithmetic of a stack of m frames with tail t. *)
LEMMA Places ==
  ASSUME NEW m \in Nat, NEW t \in Nat, NEW l \in Nat, t \in 1 .. m, m - t + 1 = l
  PROVE  /\ l > 0 /\ l \in 1 .. l /\ t + l - 1 = m
         /\ \A i \in 1 .. l : t + i - 1 \in 1 .. m
         /\ (m + 1) - t + 1 = l + 1 /\ t + (l + 1) - 1 = m + 1
         /\ l > 1 => /\ ~(m - 1 < t) /\ (m - 1) - t + 1 = l - 1 /\ l - 1 <= l
                     /\ \A i \in 1 .. l - 1 : i \in 1 .. l /\ t + i - 1 \in 1 .. m - 1
         /\ ~(l > 1) => l = 1 /\ m - 1 < t
  OBVIOUS

LEMMA OneLess ==
  ASSUME NEW m \in Nat, m > 0
  PROVE  /\ m # 1 => m > 1
         /\ m > 1 => /\ m - 1 \in Nat /\ m - 1 \in 1 .. m - 1 /\ m - 1 \in 1 .. m
                     /\ (m - 1) + 1 = m
  OBVIOUS

(* A stack has a head frame. *)
LEMMA HeadOf ==
  ASSUME NEW A \in Seq(Activations), NEW N \in Nat, NEW H \in Nat, NEW s, StackOK(A, N, H, s)
  PROVE  /\ s \in Stacks /\ Len(s.frames) \in Nat /\ Len(s.frames) > 0
         /\ s.tail \in 1 .. Len(s.frames)
         /\ FrameOK(A, N, H, TopFrame(s)) /\ Ready(TopFrame(s)) /\ TopFrame(s) \in Frames
         /\ TopFrame(s) = s.frames[Len(s.frames)]
PROOF
<1>1. s \in Stacks /\ Len(s.frames) \in Nat /\ s.tail \in 1 .. Len(s.frames)
  BY StackFrames DEF StackOK
<1>2. Len(s.frames) > 0 /\ Len(s.frames) \in 1 .. Len(s.frames)
  BY <1>1
<1>3. FrameOK(A, N, H, TopFrame(s)) /\ Ready(TopFrame(s))
  BY <1>2 DEF StackOK, TopFrame
<1>4. TopFrame(s) \in Frames
  BY <1>3, FrameIsFrame
<1> QED
  BY <1>1, <1>2, <1>3, <1>4 DEF TopFrame

(* A frame that is not the root's has its parent's below it. *)
LEMMA ParentOf ==
  ASSUME NEW A \in Seq(Activations), NEW N \in Nat, NEW H \in Nat, NEW s, StackOK(A, N, H, s),
         A[1].kind = "root", A[TopFrame(s).act].kind # "root"
  PROVE  /\ Len(s.frames) > 1
         /\ FrameOK(A, N, H, ParentFrame(s)) /\ ParentFrame(s) \in Frames
         /\ LiesOn(A, TopFrame(s), ParentFrame(s))
         /\ ParentFrame(s) = s.frames[Len(s.frames) - 1]
PROOF
<1>1. s \in Stacks /\ Len(s.frames) \in Nat /\ Len(s.frames) > 0
  BY HeadOf
<1>2. Len(s.frames) > 1
  <2>1. Len(s.frames) = 1 => TopFrame(s).act = 1
    BY DEF TopFrame, StackOK
  <2>2. Len(s.frames) # 1
    BY <2>1
  <2> QED
    BY ONLY <1>1, <2>2, OneLess
<1>3. PICK n \in Nat : /\ n = Len(s.frames) - 1 /\ n \in 1 .. Len(s.frames)
                       /\ n \in 1 .. Len(s.frames) - 1 /\ n + 1 = Len(s.frames)
  BY ONLY <1>1, <1>2, OneLess
<1>4. FrameOK(A, N, H, s.frames[n]) /\ LiesOn(A, s.frames[n + 1], s.frames[n])
  BY <1>3 DEF StackOK
<1>5. ParentFrame(s) = s.frames[n] /\ TopFrame(s) = s.frames[n + 1]
  BY <1>3 DEF ParentFrame, TopFrame
<1>6. ParentFrame(s) \in Frames
  BY <1>4, <1>5, FrameIsFrame
<1> QED
  BY <1>2, <1>3, <1>4, <1>5, <1>6

(* The head frame is the one of the last activation. *)
LEMMA LastIsHead ==
  ASSUME NEW A \in Seq(Activations), NEW N \in Nat, NEW H \in Nat, NEW s,
         NEW deque \in Seq(Nat), Matched(A, N, H, s, deque)
  PROVE  /\ Len(deque) \in Nat /\ Len(deque) > 0
         /\ deque[Len(deque)] = TopFrame(s).act /\ TopFrame(s).act \in 1 .. Len(A)
         /\ Len(s.frames) - s.tail + 1 = Len(deque)
PROOF
<1>1. StackOK(A, N, H, s)
  BY DEF Matched
<1>2. /\ Len(s.frames) \in Nat /\ s.tail \in 1 .. Len(s.frames)
      /\ TopFrame(s) = s.frames[Len(s.frames)] /\ FrameOK(A, N, H, TopFrame(s))
  BY <1>1, HeadOf
<1> PICK m \in Nat : m = Len(s.frames)
  BY <1>2
<1>3. Len(deque) \in Nat
  BY LenProperties
<1> PICK l \in Nat : l = Len(deque)
  BY <1>3
<1>4. m - s.tail + 1 = l /\ \A i \in 1 .. l : deque[i] = s.frames[s.tail + i - 1].act
  BY DEF Matched, Covers
<1>5. l > 0 /\ l \in 1 .. l /\ s.tail + l - 1 = m
  <2>1. m \in Nat /\ l \in Nat /\ s.tail \in Nat /\ s.tail \in 1 .. m /\ m - s.tail + 1 = l
    BY <1>2, <1>4
  <2> QED
    BY ONLY <2>1, Places
<1>6. deque[l] = s.frames[m].act
  BY <1>4, <1>5
<1>7. TopFrame(s).act \in 1 .. Len(A)
  BY <1>2 DEF FrameOK, FramesOf
<1> QED
  BY <1>2, <1>4, <1>5, <1>6, <1>7

(* The head frame becomes f. *)
Tops(p, s, f) == p = SetTop(s, f)

LEMMA Topped ==
  ASSUME NEW A \in Seq(Activations), NEW N \in Nat, NEW H \in Nat, NEW s, StackOK(A, N, H, s),
         NEW f, FrameOK(A, N, H, f), Ready(f),
         f.act = TopFrame(s).act, f.helper = TopFrame(s).helper, NEW p, Tops(p, s, f)
  PROVE  /\ StackOK(A, N, H, p) /\ p \in Stacks
         /\ Len(p.frames) = Len(s.frames) /\ p.tail = s.tail
         /\ \A deque, l : Covers(s, deque, l) => Covers(p, deque, l)
PROOF
<1>1. /\ s \in Stacks /\ Len(s.frames) \in Nat /\ Len(s.frames) > 0
      /\ s.tail \in 1 .. Len(s.frames) /\ TopFrame(s) = s.frames[Len(s.frames)]
  BY HeadOf
<1>2. f \in Frames
  BY FrameIsFrame
<1> PICK n \in Nat : n = Len(s.frames)
  BY <1>1
<1>3. Cut(s, p, n, f) /\ p.tail = s.tail
  BY <1>1, <1>2, SetTopView DEF Tops
<1>4. p \in Stacks /\ Len(p.frames) = n
  BY <1>3 DEF Cut
<1>5. /\ StackOK(A, N, H, p)
      /\ \A i \in 1 .. n : p.frames[i].act = s.frames[i].act
  <2>1. n \in 1 .. Len(s.frames) /\ f.act = s.frames[n].act /\ f.helper = s.frames[n].helper
        /\ p.tail \in 1 .. n /\ StackOK(A, N, H, s) /\ FrameOK(A, N, H, f) /\ Ready(f)
    BY <1>1, <1>3
  <2> QED
    BY ONLY <1>3, <2>1, StackCut
<1>6. ASSUME NEW deque, NEW l, Covers(s, deque, l) PROVE Covers(p, deque, l)
  <2>1. /\ n - s.tail + 1 = l /\ l <= Len(deque)
        /\ \A i \in 1 .. l : deque[i] = s.frames[s.tail + i - 1].act
    BY <1>6 DEF Covers
  <2>2. \A i \in 1 .. l : s.tail + i - 1 \in 1 .. n
    BY <1>1, <2>1
  <2> QED
    BY <1>3, <1>4, <1>5, <2>1, <2>2 DEF Covers
<1> QED
  BY <1>3, <1>4, <1>5, <1>6

(* A frame g for activation a is pushed on the head frame, now f. *)
LEMMA Pushed ==
  ASSUME NEW A \in Seq(Activations), NEW N \in Nat, NEW H \in Nat, NEW s,
         NEW deque \in Seq(Nat), Matched(A, N, H, s, deque),
         NEW f, FrameOK(A, N, H, f), f.act = TopFrame(s).act, f.helper = TopFrame(s).helper,
         NEW g, FrameOK(A, N, H, g), Ready(g), LiesOn(A, g, f),
         NEW p, p = push(SetTop(s, f), g)
  PROVE  /\ p \in Stacks /\ Append(deque, g.act) \in Seq(Nat)
         /\ Matched(A, N, H, p, Append(deque, g.act))
PROOF
<1>1. f \in Frames /\ g \in Frames
  BY FrameIsFrame
<1>2. StackOK(A, N, H, s) /\ Covers(s, deque, Len(deque))
  BY DEF Matched
<1>3. /\ StackOK(A, N, H, p)
      /\ p.tail = s.tail /\ Len(p.frames) = Len(s.frames) + 1
      /\ \A i \in 1 .. Len(s.frames) : p.frames[i].act = s.frames[i].act
      /\ p.frames[Len(s.frames) + 1] = g
  BY <1>1, <1>2, StackPushed
<1>4. g.act \in Nat
  BY <1>1 DEF Frames
<1> PICK r : r = Append(deque, g.act)
  OBVIOUS
<1>5. /\ r \in Seq(Nat) /\ Len(r) = Len(deque) + 1 /\ r[Len(deque) + 1] = g.act
      /\ \A i \in 1 .. Len(deque) : r[i] = deque[i]
  BY <1>4, AppendProperties
<1>6. /\ s \in Stacks /\ Len(s.frames) \in Nat /\ s.tail \in 1 .. Len(s.frames)
      /\ Len(deque) \in Nat
  BY <1>2, StackFrames, LenProperties DEF StackOK
<1> PICK m \in Nat : m = Len(s.frames)
  BY <1>6
<1> PICK l \in Nat : l = Len(deque)
  BY <1>6
<1> PICK t \in Nat : t = s.tail
  BY <1>6
<1>7. m - t + 1 = l /\ \A i \in 1 .. l : deque[i] = s.frames[t + i - 1].act
  BY <1>2 DEF Covers
<1>9. /\ (m + 1) - t + 1 = l + 1 /\ t + (l + 1) - 1 = m + 1
      /\ \A i \in 1 .. l : t + i - 1 \in 1 .. m
  <2>1. m \in Nat /\ l \in Nat /\ t \in Nat /\ t \in 1 .. m /\ m - t + 1 = l
    BY <1>6, <1>7
  <2> QED
    BY ONLY <2>1, Places
<1>8. ASSUME NEW i \in 1 .. l + 1 PROVE r[i] = p.frames[t + i - 1].act
  <2>1. CASE i = l + 1
    <3>1. t + i - 1 = m + 1
      BY <1>9, <2>1
    <3> QED
      BY <1>3, <1>5, <2>1, <3>1
  <2>2. CASE i # l + 1
    <3>1. i \in 1 .. l
      BY <2>2
    <3>2. t + i - 1 \in 1 .. m
      BY <1>9, <3>1
    <3> QED
      BY <1>3, <1>5, <1>7, <3>1, <3>2
  <2> QED
    BY <2>1, <2>2
<1>10. Covers(p, r, Len(r))
  <2>1. Len(p.frames) = m + 1 /\ p.tail = t /\ Len(r) = l + 1
    BY <1>3, <1>5
  <2>2. (m + 1) - t + 1 = l + 1 /\ l + 1 <= l + 1
    BY <1>9
  <2> QED
    BY <1>8, <2>1, <2>2 DEF Covers
<1>11. p \in Stacks
  BY <1>3 DEF StackOK
<1> QED
  BY <1>3, <1>5, <1>10, <1>11 DEF Matched

(* The head frame is popped and its parent's becomes f. *)
Pops(p, s, f) == p = pop(SetParent(s, f))

LEMMA HeadPopped ==
  ASSUME NEW A \in Seq(Activations), NEW N \in Nat, NEW H \in Nat, NEW s,
         NEW deque \in Seq(Nat), Matched(A, N, H, s, deque), Len(s.frames) > 1,
         NEW f, FrameOK(A, N, H, f), Ready(f),
         f.act = ParentFrame(s).act, f.helper = ParentFrame(s).helper,
         NEW p, Pops(p, s, f)
  PROVE  /\ p \in Stacks /\ StackOK(A, N, H, p)
         /\ TopFrame(p) = f /\ p.above = TopFrame(s).helper
         /\ Len(deque) > 1 => /\ Covers(p, deque, Len(deque) - 1)
                              /\ Front(deque) \in Seq(Nat)
                              /\ Len(Front(deque)) = Len(deque) - 1
                              /\ Covers(p, Front(deque), Len(Front(deque)))
         /\ ~(Len(deque) > 1) => /\ Len(deque) = 1 /\ p.tail = Len(p.frames)
                                 /\ <<f.act>> \in Seq(Nat) /\ Len(<<f.act>>) = 1
                                 /\ Covers(p, <<f.act>>, 1)
PROOF
<1>1. /\ StackOK(A, N, H, s) /\ Covers(s, deque, Len(deque))
  BY DEF Matched
<1>2. /\ s \in Stacks /\ Len(s.frames) \in Nat /\ s.tail \in 1 .. Len(s.frames)
      /\ Len(deque) \in Nat /\ Len(deque) > 0
  BY <1>1, HeadOf, LastIsHead
<1>3. f \in Frames
  BY FrameIsFrame
<1> PICK m \in Nat : m = Len(s.frames)
  BY <1>2
<1> PICK l \in Nat : l = Len(deque)
  BY <1>2
<1> PICK t \in Nat : t = s.tail
  BY <1>2
<1>m. m > 1 /\ m > 0 /\ t \in 1 .. m
  BY <1>2
<1>n. PICK n \in Nat : n = m - 1 /\ n \in 1 .. n /\ n \in 1 .. m
  BY <1>m, OneLess
<1>4. ParentFrame(s) = s.frames[n]
  BY <1>n DEF ParentFrame
<1>5. /\ Cut(s, p, n, f) /\ p.tail = (IF n < t THEN n ELSE t)
      /\ p.above = TopFrame(s).helper
  <2>1. s \in Stacks /\ Len(s.frames) > 1 /\ f \in Frames /\ p = pop(SetParent(s, f))
    BY <1>2, <1>3 DEF Pops
  <2>2. /\ Cut(s, p, Len(s.frames) - 1, f)
        /\ p.tail = IF Len(s.frames) - 1 < s.tail THEN Len(s.frames) - 1 ELSE s.tail
        /\ p.above = TopFrame(s).helper
    BY ONLY <2>1, PopView
  <2> QED
    BY <1>n, <2>2
<1>6. p \in Stacks /\ Len(p.frames) = n /\ p.frames[n] = f
  BY <1>5 DEF Cut
<1>7. /\ StackOK(A, N, H, p)
      /\ \A i \in 1 .. n : p.frames[i].act = s.frames[i].act
  <2>1. n \in 1 .. Len(s.frames) /\ f.act = s.frames[n].act /\ f.helper = s.frames[n].helper
        /\ StackOK(A, N, H, s) /\ FrameOK(A, N, H, f) /\ Ready(f)
    BY <1>1, <1>4, <1>n
  <2>2. p.tail \in 1 .. n
    <3>1. n < t \/ t \in 1 .. n
      BY <1>m
    <3> QED
      BY <1>5, <1>n, <3>1
  <2>3. Cut(s, p, n, f)
    BY <1>5
  <2> QED
    BY ONLY <2>1, <2>2, <2>3, StackCut
<1>8. TopFrame(p) = f
  BY <1>6 DEF TopFrame
<1>9. /\ m - t + 1 = l
      /\ \A i \in 1 .. l : deque[i] = s.frames[t + i - 1].act
  BY <1>1 DEF Covers
<1>places. /\ l > 1 => /\ ~(m - 1 < t) /\ (m - 1) - t + 1 = l - 1 /\ l - 1 <= l
                       /\ \A i \in 1 .. l - 1 : i \in 1 .. l /\ t + i - 1 \in 1 .. m - 1
           /\ ~(l > 1) => l = 1 /\ m - 1 < t
  <2>1. m \in Nat /\ l \in Nat /\ t \in Nat /\ t \in 1 .. m /\ m - t + 1 = l
    BY <1>m, <1>9
  <2> QED
    BY ONLY <2>1, Places
<1>10. ASSUME l > 1
       PROVE  /\ Covers(p, deque, l - 1) /\ Front(deque) \in Seq(Nat)
              /\ Len(Front(deque)) = l - 1 /\ Covers(p, Front(deque), Len(Front(deque)))
  <2> PICK r : r = Front(deque)
    OBVIOUS
  <2>1. r = SubSeq(deque, 1, l - 1)
    BY DEF Front
  <2>2. r \in Seq(Nat) /\ Len(r) = l - 1 /\ \A i \in 1 .. l - 1 : r[i] = deque[i]
    <3>1. \A i \in 1 .. l - 1 : deque[i] \in Nat
      BY ElementOfSeq
    <3>2. /\ r \in Seq(Nat) /\ Len(r) = (IF 1 <= l - 1 THEN (l - 1) - 1 + 1 ELSE 0)
          /\ \A i \in 1 .. (l - 1) - 1 + 1 : r[i] = deque[1 + i - 1]
      BY <2>1, <3>1, SubSeqProperties
    <3> QED
      BY <1>10, <3>2
  <2>3. p.tail = t /\ n - t + 1 = l - 1 /\ l - 1 <= l
    BY <1>5, <1>n, <1>places, <1>10
  <2>4. \A i \in 1 .. l - 1 : i \in 1 .. l /\ t + i - 1 \in 1 .. n
    BY <1>n, <1>places, <1>10
  <2>5. \A i \in 1 .. l - 1 : deque[i] = p.frames[t + i - 1].act
    BY <1>7, <1>9, <2>4
  <2>6. Covers(p, deque, l - 1)
    BY <1>6, <2>3, <2>5 DEF Covers
  <2>7. Covers(p, r, l - 1)
    BY <1>6, <2>2, <2>3, <2>5 DEF Covers
  <2> QED
    BY <2>2, <2>6, <2>7
<1>11. ASSUME ~(l > 1)
       PROVE  /\ l = 1 /\ p.tail = n /\ <<f.act>> \in Seq(Nat) /\ Len(<<f.act>>) = 1
              /\ Covers(p, <<f.act>>, 1)
  <2>1. l = 1 /\ p.tail = n
    BY <1>5, <1>n, <1>places, <1>11
  <2>2. f.act \in Nat
    BY <1>3 DEF Frames
  <2> PICK r : r = <<f.act>>
    OBVIOUS
  <2>3. r \in Seq(Nat) /\ Len(r) = 1 /\ r[1] = f.act
    BY <2>2
  <2>4. n - n + 1 = 1 /\ \A i \in 1 .. 1 : n + i - 1 = n /\ i = 1
    OBVIOUS
  <2>5. Covers(p, r, 1)
    BY <1>6, <2>1, <2>3, <2>4 DEF Covers
  <2> QED
    BY <2>1, <2>3, <2>5
<1> QED
  BY <1>5, <1>6, <1>7, <1>8, <1>10, <1>11

-----------------------------------------------------------------------------
(* The hooks keep the invariant *)

(* What a hook finds. *)
LEMMA Finds ==
  ASSUME ShadowInv, NEW w \in Workers
  PROVE  /\ acts \in Seq(Activations) /\ acts[1].kind = "root"
         /\ NodeCount \in Nat /\ Len(heap) \in Nat /\ Len(acts) \in Nat
         /\ shadow[w] \in Stacks /\ own[w] \in Seq(Nat) /\ pc[w] \in Points
         /\ cur[w] \in Nat /\ called_future \in [Workers -> BOOLEAN] /\ suspended \subseteq Deques
         /\ IsSequence(heap)
         /\ pc[w] # "idle" => StackOK(acts, NodeCount, Len(heap), shadow[w])
         /\ HasStack(acts, NodeCount, Len(heap), pc[w], shadow[w], own[w])
PROOF
<1>1. /\ acts \in Seq(Activations) /\ acts[1].kind = "root" /\ NodeCount \in Nat
      /\ shadow[w] \in Stacks /\ own[w] \in Seq(Nat) /\ pc[w] \in Points
      /\ cur[w] \in 0 .. Len(strands) /\ IsSequence(strands) /\ IsSequence(heap)
      /\ called_future \in [Workers -> BOOLEAN] /\ suspended \subseteq Deques
  BY DEF ShadowInv, Shapes, OrderInv, RootOK
<1>2. Len(heap) \in Nat /\ Len(acts) \in Nat /\ Len(strands) \in Nat
  BY <1>1, LenProperties DEF IsSequence
<1>3. cur[w] \in Nat
  BY <1>1, <1>2
<1>4. HasStack(acts, NodeCount, Len(heap), pc[w], shadow[w], own[w])
  BY DEF ShadowInv, WorkerOK
<1> QED
  BY <1>1, <1>2, <1>3, <1>4 DEF HasStack

LEMMA Runs ==
  ASSUME ShadowInv, NEW w \in Workers, pc[w] \in {"run", "sync"}
  PROVE  /\ StackOK(acts, NodeCount, Len(heap), shadow[w])
         /\ Matched(acts, NodeCount, Len(heap), shadow[w], own[w])
         /\ FrameOK(acts, NodeCount, Len(heap), TopFrame(shadow[w]))
         /\ Ready(TopFrame(shadow[w])) /\ TopFrame(shadow[w]) \in Frames
         /\ Act(w) = TopFrame(shadow[w]).act /\ Act(w) \in 1 .. Len(acts) /\ Act(w) \in Nat
         /\ Len(own[w]) \in Nat /\ Len(own[w]) > 0
PROOF
<1>1. /\ acts \in Seq(Activations) /\ NodeCount \in Nat /\ Len(heap) \in Nat
      /\ own[w] \in Seq(Nat) /\ Len(acts) \in Nat
      /\ HasStack(acts, NodeCount, Len(heap), pc[w], shadow[w], own[w])
  BY Finds
<1>2. Matched(acts, NodeCount, Len(heap), shadow[w], own[w])
  BY <1>1 DEF HasStack, Matched
<1>3. StackOK(acts, NodeCount, Len(heap), shadow[w])
  BY <1>2 DEF Matched
<1>4. /\ FrameOK(acts, NodeCount, Len(heap), TopFrame(shadow[w]))
      /\ Ready(TopFrame(shadow[w])) /\ TopFrame(shadow[w]) \in Frames
  BY <1>1, <1>3, HeadOf
<1>5. /\ Len(own[w]) \in Nat /\ Len(own[w]) > 0
      /\ own[w][Len(own[w])] = TopFrame(shadow[w]).act /\ TopFrame(shadow[w]).act \in 1 .. Len(acts)
  BY <1>1, <1>2, LastIsHead
<1> QED
  BY <1>1, <1>2, <1>3, <1>4, <1>5 DEF Act

LEMMA MatchedGrows ==
  ASSUME NEW A, NEW B, Extends(A, B), NEW N \in Nat, NEW M \in Nat, N <= M,
         NEW H \in Nat, NEW I \in Nat, H <= I, NEW s, NEW deque, Matched(A, N, H, s, deque)
  PROVE  Matched(B, M, I, s, deque)
  BY StackGrows DEF Matched

(* A worker that runs. *)
LEMMA RunsOn ==
  ASSUME NEW A, NEW N, NEW H, NEW p, p \in {"run", "sync"}, NEW s, NEW deque,
         Matched(A, N, H, s, deque)
  PROVE  HasStack(A, N, H, p, s, deque)
  BY DEF HasStack, Matched

(* The head frame stays. *)
LEMMA SetTopSame ==
  ASSUME NEW A \in Seq(Activations), NEW N \in Nat, NEW H \in Nat, NEW s, StackOK(A, N, H, s)
  PROVE  s = SetTop(s, TopFrame(s))
PROOF
<1>1. /\ s \in Stacks /\ Len(s.frames) \in Nat /\ Len(s.frames) > 0
  BY HeadOf
<1>2. s.frames \in [1 .. Len(s.frames) -> Frames]
  BY <1>1, StackFrames, LenProperties
<1>3. [s.frames EXCEPT ![Len(s.frames)] = s.frames[Len(s.frames)]] = s.frames
  BY <1>2
<1>4. [s EXCEPT !.frames = s.frames] = s
  BY <1>1 DEF Stacks
<1> QED
  BY <1>3, <1>4 DEF SetTop, TopFrame

(* A call pushes a frame. *)
Calls(p, s, a, f) ==
  f = TopFrame(s) /\ p = push(s, NewFrame(a, FALSE, f.node, f.list, f.future_id))

LEMMA Called ==
  ASSUME NEW A \in Seq(Activations), NEW N \in Nat, NEW H \in Nat, NEW s,
         NEW deque \in Seq(Nat), Matched(A, N, H, s, deque),
         NEW B, Extends(A, B), NEW a, a = Len(A) + 1, Len(B) = a,
         B[a].kind = "call", B[a].parent = TopFrame(s).act,
         NEW f, NEW p, Calls(p, s, a, f)
  PROVE  /\ p \in Stacks /\ Append(deque, a) \in Seq(Nat)
         /\ Matched(B, N, H, p, Append(deque, a))
PROOF
<1> PICK g : g = NewFrame(a, FALSE, f.node, f.list, f.future_id)
  OBVIOUS
<1>0. f = TopFrame(s) /\ p = push(s, g)
  BY DEF Calls
<1>1. B \in Seq(Activations) /\ Len(A) \in Nat /\ a \in 1 .. Len(B) /\ N <= N /\ H <= H
  BY LenProperties DEF Extends
<1>2. Matched(B, N, H, s, deque)
  BY <1>1, MatchedGrows
<1>3. StackOK(B, N, H, s)
  BY <1>2 DEF Matched
<1>4. FrameOK(B, N, H, f) /\ Ready(f)
  BY <1>0, <1>1, <1>3, HeadOf
<1>5. f.node \in 0 .. N /\ f.list \in 1 .. H /\ f.future_id \in 0 .. Len(B) /\ f.node # 0 /\ f.cont = 0
  BY <1>4 DEF FrameOK, FramesOf, Ready
<1>6. FrameOK(B, N, H, g) /\ g.act = a /\ ~g.helper /\ g.node = f.node /\ g.cont = 0
  <2>1. 0 \in 0 .. N /\ 0 \in 0 .. H /\ FALSE \in BOOLEAN
    OBVIOUS
  <2>2. g \in FramesOf(B, N, H)
    BY <1>1, <1>5, <2>1, Zenon DEF NewFrame, FramesOf
  <2>3. g.act = a /\ ~g.helper /\ g.node = f.node /\ g.cont = 0 /\ g.steal_cont = 0
    BY DEF NewFrame
  <2> QED
    BY <2>2, <2>3 DEF FrameOK
<1>7. Ready(g) /\ LiesOn(B, g, f)
  BY <1>0, <1>5, <1>6 DEF Ready, LiesOn
<1>8. s = SetTop(s, f)
  BY <1>0, <1>1, <1>3, SetTopSame
<1>9. p = push(SetTop(s, f), g)
  BY <1>0, <1>8
<1>10. p \in Stacks /\ Append(deque, g.act) \in Seq(Nat) /\ Matched(B, N, H, p, Append(deque, g.act))
  <2>1. f.act = TopFrame(s).act /\ f.helper = TopFrame(s).helper /\ deque \in Seq(Nat)
        /\ N \in Nat /\ H \in Nat
    BY <1>0
  <2> QED
    BY ONLY <1>1, <1>2, <1>4, <1>6, <1>7, <1>9, <2>1, Pushed
<1> QED
  BY <1>6, <1>10

(* do_enter_begin *)
LEMMA EnterStep ==
  ASSUME ShadowInv, NEW w \in Workers, Enter(w)
  PROVE  ShadowInv'
PROOF
<1>1. pc[w] \in {"run", "sync"}
  BY DEF Enter, Running
<1>2. /\ Matched(acts, NodeCount, Len(heap), shadow[w], own[w])
      /\ Act(w) = TopFrame(shadow[w]).act /\ Act(w) \in Nat
  BY <1>1, Runs
<1>3. /\ acts \in Seq(Activations) /\ NodeCount \in Nat /\ Len(heap) \in Nat /\ Len(acts) \in Nat
      /\ own[w] \in Seq(Nat) /\ pc[w] \in Points /\ cur[w] \in Nat
      /\ called_future \in [Workers -> BOOLEAN] /\ suspended \subseteq Deques /\ IsSequence(heap)
  BY Finds
<1> PICK r : r = NewAct("call", Act(w), cur[w])
  OBVIOUS
<1>4. r \in Activations /\ r.kind = "call" /\ r.parent = Act(w)
  BY <1>2, <1>3, NewActType DEF Kinds
<1>5. acts' = Append(acts, r)
  BY DEF Enter
<1> PICK B : B = acts'
  OBVIOUS
<1>6. Extends(acts, B) /\ Len(B) = Len(acts) + 1 /\ B[Len(acts) + 1] = r
  BY <1>3, <1>4, <1>5, ActAdded
<1>7. Grows /\ NodeCount' = NodeCount /\ heap' = heap
  <2>1. om' = om /\ heap' = heap
    BY DEF Enter
  <2> QED
    BY <1>3, <1>6, <2>1, NothingGrows
<1> PICK f : f = TopFrame(shadow[w])
  OBVIOUS
<1> PICK a : a = Len(acts) + 1
  OBVIOUS
<1> PICK p : p = push(shadow[w], NewFrame(a, FALSE, f.node, f.list, f.future_id))
  OBVIOUS
<1> PICK deque : deque = Append(own[w], a)
  OBVIOUS
<1>8. p \in Stacks /\ deque \in Seq(Nat) /\ Matched(B, NodeCount, Len(heap), p, deque)
  <2>1. B[a].kind = "call" /\ B[a].parent = TopFrame(shadow[w]).act /\ Len(B) = a
    BY <1>2, <1>4, <1>6
  <2>2. a = Len(acts) + 1 /\ deque = Append(own[w], a) /\ Calls(p, shadow[w], a, f)
    BY DEF Calls
  <2> QED
    BY ONLY <1>2, <1>3, <1>6, <2>1, <2>2, Called
<1>9. Moves(w, p, deque, pc[w])
  BY DEF Enter, Moves, ShadowInv, Shapes
<1>10. StrandsOK
  BY <1>3, StrandNotAdded DEF Enter, StrandsOK
<1>11. HasStack(acts', NodeCount', Len(heap'), pc[w], p, deque)
  BY <1>1, <1>7, <1>8, RunsOn
<1>12. suspended' = suspended
  BY DEF Enter
<1> QED
  BY <1>3, <1>7, <1>8, <1>9, <1>10, <1>11, <1>12, WorkerStep

(* The frames to which the hooks return. *)
Returned(f, x, l) == [f EXCEPT !.node = x, !.list = l]
Continued(f)      == [f EXCEPT !.node = f.cont, !.cont = 0]
AtSync(f)         == [f EXCEPT !.node = f.sync, !.sync = 0]
WithList(f, l)    == [f EXCEPT !.list = l]

(* Frame g is f in another state, and can go on. *)
Turns(A, N, H, f, g) ==
  FrameOK(A, N, H, g) /\ Ready(g) /\ g.act = f.act /\ g.helper = f.helper

LEMMA ReturnedTurns ==
  ASSUME NEW A, NEW N \in Nat, NEW H \in Nat, NEW f, FrameOK(A, N, H, f), f.cont = 0,
         NEW x \in 0 .. N, x # 0, NEW l \in 1 .. H
  PROVE  Turns(A, N, H, f, Returned(f, x, l))
PROOF
<1> DEFINE g == Returned(f, x, l)
<1>1. f \in FramesOf(A, N, H)
  BY DEF FrameOK
<1>2. g \in FramesOf(A, N, H)
  BY <1>1, Zenon DEF FramesOf, Returned
<1>3. /\ g.act = f.act /\ g.helper = f.helper /\ g.node = x /\ g.cont = 0
      /\ g.steal_cont = f.steal_cont /\ g.steal_list = f.steal_list
  BY <1>1 DEF FramesOf, Returned
<1> HIDE DEF g
<1>4. Turns(A, N, H, f, g)
  BY <1>2, <1>3 DEF FrameOK, Ready, Turns
<1> QED
  BY <1>4 DEF g

LEMMA ContinuedTurns ==
  ASSUME NEW A, NEW N \in Nat, NEW H \in Nat, NEW f, FrameOK(A, N, H, f), f.cont # 0
  PROVE  Turns(A, N, H, f, Continued(f))
PROOF
<1> DEFINE g == Continued(f)
<1>0. 0 \in 0 .. N
  OBVIOUS
<1>1. f \in FramesOf(A, N, H) /\ f.cont \in 0 .. N
  BY DEF FrameOK, FramesOf
<1>2. g \in FramesOf(A, N, H)
  BY <1>0, <1>1, Zenon DEF FramesOf, Continued
<1>3. /\ g.act = f.act /\ g.helper = f.helper /\ g.node = f.cont /\ g.cont = 0
      /\ g.steal_cont = f.steal_cont /\ g.steal_list = f.steal_list
  BY <1>1 DEF FramesOf, Continued
<1> HIDE DEF g
<1>4. Turns(A, N, H, f, g)
  BY <1>2, <1>3 DEF FrameOK, Ready, Turns
<1> QED
  BY <1>4 DEF g

LEMMA StolenTurns ==
  ASSUME NEW A, NEW N \in Nat, NEW H \in Nat, NEW f, FrameOK(A, N, H, f), f.sync # 0
  PROVE  Turns(A, N, H, f, LeaveStolenParent(f))
PROOF
<1> DEFINE g == LeaveStolenParent(f)
<1>0. 0 \in 0 .. N
  OBVIOUS
<1>1. f \in FramesOf(A, N, H) /\ f.cont \in 0 .. N /\ f.sync \in 0 .. N /\ f.list \in 1 .. H
  BY DEF FrameOK, FramesOf
<1>l. f.list \in 0 .. H /\ f.list # 0
  BY <1>1
<1>2. g \in FramesOf(A, N, H)
  BY <1>0, <1>1, <1>l, Zenon DEF FramesOf, LeaveStolenParent
<1>3. /\ g.act = f.act /\ g.helper = f.helper /\ g.node = f.sync /\ g.cont = 0
      /\ g.steal_list = f.list
  BY <1>1 DEF FramesOf, LeaveStolenParent
<1> HIDE DEF g
<1>4. Turns(A, N, H, f, g)
  BY <1>2, <1>3, <1>l DEF FrameOK, Ready, Turns
<1> QED
  BY <1>4 DEF g

LEMMA FinishedTurns ==
  ASSUME NEW A, NEW N \in Nat, NEW H \in Nat, NEW f, FrameOK(A, N, H, f), f.cont # 0
  PROVE  Turns(A, N, H, f, FinishedParent(f)) /\ FinishedParent(f).steal_cont # 0
PROOF
<1> DEFINE g == FinishedParent(f)
<1>0. 0 \in 0 .. N
  OBVIOUS
<1>1. f \in FramesOf(A, N, H) /\ f.cont \in 0 .. N /\ f.sync \in 0 .. N /\ f.list \in 1 .. H
  BY DEF FrameOK, FramesOf
<1>l. f.list \in 0 .. H /\ f.list # 0
  BY <1>1
<1>2. g \in FramesOf(A, N, H)
  BY <1>0, <1>1, <1>l, Zenon DEF FramesOf, FinishedParent
<1>3. /\ g.act = f.act /\ g.helper = f.helper /\ g.node = f.cont /\ g.cont = 0
      /\ g.steal_list = f.list /\ g.steal_cont = f.cont
  BY <1>1 DEF FramesOf, FinishedParent
<1> HIDE DEF g
<1>4. Turns(A, N, H, f, g)
  BY <1>2, <1>3, <1>l DEF FrameOK, Ready, Turns
<1> QED
  BY <1>3, <1>4 DEF g

LEMMA AtSyncTurns ==
  ASSUME NEW A, NEW N \in Nat, NEW H \in Nat, NEW f, FrameOK(A, N, H, f), Ready(f), f.sync # 0
  PROVE  Turns(A, N, H, f, AtSync(f))
PROOF
<1> DEFINE g == AtSync(f)
<1>0. 0 \in 0 .. N
  OBVIOUS
<1>1. f \in FramesOf(A, N, H) /\ f.sync \in 0 .. N
  BY DEF FrameOK, FramesOf
<1>2. g \in FramesOf(A, N, H)
  BY <1>0, <1>1, Zenon DEF FramesOf, AtSync
<1>3. /\ g.act = f.act /\ g.helper = f.helper /\ g.node = f.sync /\ g.cont = f.cont
      /\ g.steal_cont = f.steal_cont /\ g.steal_list = f.steal_list
  BY <1>1 DEF FramesOf, AtSync
<1> HIDE DEF g
<1>4. Turns(A, N, H, f, g)
  BY <1>2, <1>3 DEF FrameOK, Ready, Turns
<1> QED
  BY <1>4 DEF g

LEMMA WithListTurns ==
  ASSUME NEW A, NEW N \in Nat, NEW H \in Nat, NEW f, FrameOK(A, N, H, f), Ready(f), NEW l \in 1 .. H
  PROVE  Turns(A, N, H, f, WithList(f, l))
PROOF
<1> DEFINE g == WithList(f, l)
<1>1. f \in FramesOf(A, N, H)
  BY DEF FrameOK, FramesOf
<1>2. g \in FramesOf(A, N, H)
  BY <1>1, Zenon DEF FramesOf, WithList
<1>3. /\ g.act = f.act /\ g.helper = f.helper /\ g.node = f.node /\ g.cont = f.cont
      /\ g.steal_cont = f.steal_cont /\ g.steal_list = f.steal_list
  BY <1>1 DEF FramesOf, WithList
<1> HIDE DEF g
<1>4. Turns(A, N, H, f, g)
  BY <1>2, <1>3 DEF FrameOK, Ready, Turns
<1> QED
  BY <1>4 DEF g

LEMMA SyncedTurns ==
  ASSUME NEW A, NEW N \in Nat, NEW H \in Nat, NEW f, FrameOK(A, N, H, f), Ready(f)
  PROVE  Turns(A, N, H, f, Synced(f))
PROOF
<1> DEFINE g == Synced(f)
           l == IF f.sync_list # 0 /\ ~Empty(heap[f.sync_list]) THEN f.sync_list ELSE f.list
<1>0. 0 \in 0 .. H
  OBVIOUS
<1>1. f \in FramesOf(A, N, H) /\ f.list \in 1 .. H /\ f.sync_list \in 0 .. H
  BY DEF FrameOK, FramesOf
<1>l. l \in 1 .. H
  BY <1>1
<1>e. g = [f EXCEPT !.list = l, !.sync_list = 0]
  BY DEF Synced
<1> HIDE DEF l
<1>2. g \in FramesOf(A, N, H)
  BY <1>0, <1>1, <1>e, <1>l, Zenon DEF FramesOf
<1>3. /\ g.act = f.act /\ g.helper = f.helper /\ g.node = f.node /\ g.cont = f.cont
      /\ g.steal_cont = f.steal_cont /\ g.steal_list = f.steal_list
  BY <1>1, <1>e DEF FramesOf
<1> HIDE DEF g
<1>4. Turns(A, N, H, f, g)
  BY <1>2, <1>3 DEF FrameOK, Ready, Turns
<1> QED
  BY <1>4 DEF g

(* A hook that leaves a function finds the frame of its parent. *)
LEMMA RunsChild ==
  ASSUME ShadowInv, NEW w \in Workers, pc[w] \in {"run", "sync"}, acts[Act(w)].kind # "root"
  PROVE  /\ Len(shadow[w].frames) > 1
         /\ FrameOK(acts, NodeCount, Len(heap), ParentFrame(shadow[w]))
         /\ LiesOn(acts, TopFrame(shadow[w]), ParentFrame(shadow[w]))
         /\ TopFrame(shadow[w]).helper <=> acts[Act(w)].kind \in {"spawn", "future"}
         /\ acts[Act(w)].parent = ParentFrame(shadow[w]).act
         /\ ParentFrame(shadow[w]).act \in 1 .. Len(acts)
PROOF
<1>1. /\ acts \in Seq(Activations) /\ acts[1].kind = "root" /\ NodeCount \in Nat /\ Len(heap) \in Nat
  BY Finds
<1>2. /\ StackOK(acts, NodeCount, Len(heap), shadow[w])
      /\ FrameOK(acts, NodeCount, Len(heap), TopFrame(shadow[w]))
      /\ Act(w) = TopFrame(shadow[w]).act
  BY Runs
<1>3. /\ Len(shadow[w].frames) > 1
      /\ FrameOK(acts, NodeCount, Len(heap), ParentFrame(shadow[w]))
      /\ LiesOn(acts, TopFrame(shadow[w]), ParentFrame(shadow[w]))
  BY <1>1, <1>2, ParentOf
<1>4. ParentFrame(shadow[w]).act \in 1 .. Len(acts)
  BY <1>3 DEF FrameOK, FramesOf
<1> QED
  BY <1>2, <1>3, <1>4 DEF FrameOK, LiesOn

(* The frame of a child is popped, and its parent's turns into f. *)
LEMMA ChildPopped ==
  ASSUME ShadowInv, NEW w \in Workers, pc[w] \in {"run", "sync"}, acts[Act(w)].kind # "root",
         NEW f, Turns(acts, NodeCount, Len(heap), ParentFrame(shadow[w]), f),
         NEW p, Pops(p, shadow[w], f)
  PROVE  /\ p \in Stacks /\ StackOK(acts, NodeCount, Len(heap), p)
         /\ TopFrame(p) = f /\ p.above = TopFrame(shadow[w]).helper
         /\ f.act = acts[Act(w)].parent
         /\ Len(own[w]) > 1 => /\ Covers(p, own[w], Len(own[w]) - 1)
                               /\ Front(own[w]) \in Seq(Nat)
                               /\ Covers(p, Front(own[w]), Len(Front(own[w])))
         /\ ~(Len(own[w]) > 1) => /\ Len(own[w]) = 1 /\ p.tail = Len(p.frames)
                                  /\ <<f.act>> \in Seq(Nat)
                                  /\ Covers(p, <<f.act>>, Len(<<f.act>>))
PROOF
<1>1. /\ acts \in Seq(Activations) /\ NodeCount \in Nat /\ Len(heap) \in Nat /\ own[w] \in Seq(Nat)
  BY Finds
<1>2. Matched(acts, NodeCount, Len(heap), shadow[w], own[w])
  BY Runs
<1>3. Len(shadow[w].frames) > 1 /\ acts[Act(w)].parent = ParentFrame(shadow[w]).act
  BY RunsChild
<1>4. /\ FrameOK(acts, NodeCount, Len(heap), f) /\ Ready(f)
      /\ f.act = ParentFrame(shadow[w]).act /\ f.helper = ParentFrame(shadow[w]).helper
  BY DEF Turns
<1>5. Pops(p, shadow[w], f)
  OBVIOUS
<1>6. /\ p \in Stacks /\ StackOK(acts, NodeCount, Len(heap), p)
      /\ TopFrame(p) = f /\ p.above = TopFrame(shadow[w]).helper
      /\ Len(own[w]) > 1 => /\ Covers(p, own[w], Len(own[w]) - 1)
                            /\ Front(own[w]) \in Seq(Nat)
                            /\ Covers(p, Front(own[w]), Len(Front(own[w])))
      /\ ~(Len(own[w]) > 1) => /\ Len(own[w]) = 1 /\ p.tail = Len(p.frames)
                               /\ <<f.act>> \in Seq(Nat) /\ Len(<<f.act>>) = 1
                               /\ Covers(p, <<f.act>>, 1)
  BY ONLY <1>1, <1>2, <1>3, <1>4, <1>5, HeadPopped
<1> QED
  BY <1>3, <1>4, <1>6

(* do_leave_end after a call *)
LEMMA LeaveCallStep ==
  ASSUME ShadowInv, NEW w \in Workers, LeaveCall(w)
  PROVE  ShadowInv'
PROOF
<1>1. pc[w] \in {"run", "sync"} /\ acts[Act(w)].kind = "call"
  BY DEF LeaveCall, Running
<1>2. /\ acts \in Seq(Activations) /\ NodeCount \in Nat /\ Len(heap) \in Nat /\ Len(acts) \in Nat
      /\ own[w] \in Seq(Nat) /\ pc[w] \in Points
      /\ called_future \in [Workers -> BOOLEAN] /\ suspended \subseteq Deques /\ IsSequence(heap)
  BY Finds
<1>3. /\ FrameOK(acts, NodeCount, Len(heap), TopFrame(shadow[w]))
      /\ Ready(TopFrame(shadow[w])) /\ Act(w) \in 1 .. Len(acts)
  BY <1>1, Runs
<1>4. /\ FrameOK(acts, NodeCount, Len(heap), ParentFrame(shadow[w]))
      /\ LiesOn(acts, TopFrame(shadow[w]), ParentFrame(shadow[w]))
      /\ ~TopFrame(shadow[w]).helper
  BY <1>1, RunsChild
<1> PICK f : f = Returned(ParentFrame(shadow[w]), TopFrame(shadow[w]).node, TopFrame(shadow[w]).list)
  OBVIOUS
<1>5. Turns(acts, NodeCount, Len(heap), ParentFrame(shadow[w]), f)
  <2>1. /\ TopFrame(shadow[w]).node \in 0 .. NodeCount /\ TopFrame(shadow[w]).node # 0
        /\ TopFrame(shadow[w]).list \in 1 .. Len(heap)
    BY <1>3 DEF FrameOK, FramesOf, Ready
  <2>2. ParentFrame(shadow[w]).cont = 0
    BY <1>4 DEF LiesOn
  <2> QED
    BY <1>2, <1>4, <2>1, <2>2, ReturnedTurns
<1> PICK p : p = pop(SetParent(shadow[w], f))
  OBVIOUS
<1> PICK deque : deque = IF Len(own[w]) > 1 THEN Front(own[w]) ELSE <<acts[Act(w)].parent>>
  OBVIOUS
<1>6. p \in Stacks /\ deque \in Seq(Nat) /\ Matched(acts, NodeCount, Len(heap), p, deque)
  <2>1. Pops(p, shadow[w], f) /\ acts[Act(w)].kind # "root"
    BY <1>1 DEF Pops
  <2> QED
    BY <1>1, <1>5, <2>1, ChildPopped DEF Matched
<1>7. Extends(acts, acts')
  <2>1. acts' = [acts EXCEPT ![Act(w)].done = TRUE]
    BY DEF LeaveCall
  <2> QED
    BY <1>2, <1>3, <2>1, ActMarked
<1>8. Grows /\ NodeCount' = NodeCount /\ heap' = heap
  <2>1. om' = om /\ heap' = heap
    BY DEF LeaveCall
  <2> QED
    BY <1>2, <1>7, <2>1, NothingGrows
<1>9. /\ shadow' = [shadow EXCEPT ![w] = p] /\ cur' = [cur EXCEPT ![w] = Len(strands) + 1]
      /\ strands' = Append(strands, Strand(TopFrame(p), {cur[w]}))
      /\ called_future' = [called_future EXCEPT ![w] = FALSE]
      /\ own' = [own EXCEPT ![w] = deque] /\ pc' = pc /\ suspended' = suspended
  BY DEF LeaveCall, Continue, Returned
<1>10. StrandsOK
  BY <1>2, <1>9, StrandAdded DEF StrandsOK
<1>11. Moves(w, p, deque, pc[w])
  BY <1>9 DEF Moves, ShadowInv, Shapes
<1>12. HasStack(acts', NodeCount', Len(heap'), pc[w], p, deque)
  <2>1. Matched(acts', NodeCount', Len(heap'), p, deque)
    BY <1>2, <1>6, <1>7, <1>8, MatchedGrows
  <2> QED
    BY <1>1, <2>1, RunsOn
<1> QED
  BY <1>2, <1>6, <1>8, <1>9, <1>10, <1>11, <1>12, WorkerStep

LEMMA ExtendsSame ==
  ASSUME NEW A \in Seq(Activations)
  PROVE  Extends(A, A)
  BY LenProperties DEF Extends

(* A merge writes one list. *)
LEMMA HeapMerged ==
  ASSUME IsSequence(heap), NEW b, NEW l, NEW k,
         heap' = IF b THEN heap ELSE MergeInto(heap, l, k)
  PROVE  IsSequence(heap') /\ Len(heap') = Len(heap)
PROOF
<1> PICK t : t = MergeInto(heap, l, k)
  OBVIOUS
<1>1. DOMAIN t = DOMAIN heap /\ t = [i \in DOMAIN t |-> t[i]]
  BY DEF MergeInto
<1>2. IsSequence(t) /\ Len(t) = Len(heap)
  BY <1>1, SequenceUpdated
<1> QED
  BY <1>2

(* A child that was detached returns. *)
LEMMA DetachedReturns ==
  ASSUME ShadowInv, NEW w \in Workers, pc[w] \in {"run", "sync"},
         acts[Act(w)].kind \in {"spawn", "future"}
  PROVE  /\ FrameOK(acts, NodeCount, Len(heap), ParentFrame(shadow[w]))
         /\ TopFrame(shadow[w]).helper
         /\ ParentFrame(shadow[w]).cont # 0 /\ ParentFrame(shadow[w]).sync # 0
PROOF
<1>1. acts[Act(w)].kind # "root"
  OBVIOUS
<1>2. /\ FrameOK(acts, NodeCount, Len(heap), ParentFrame(shadow[w]))
      /\ LiesOn(acts, TopFrame(shadow[w]), ParentFrame(shadow[w]))
      /\ TopFrame(shadow[w]).helper
  BY <1>1, RunsChild
<1> QED
  BY <1>2 DEF LiesOn

(* do_leave_end after a spawn *)
LEMMA LeaveSpawnStep ==
  ASSUME ShadowInv, NEW w \in Workers, LeaveSpawn(w)
  PROVE  ShadowInv'
PROOF
<1>1. /\ pc[w] \in {"run", "sync"} /\ acts[Act(w)].kind = "spawn" /\ acts[Act(w)].kind # "root"
      /\ Len(own[w]) > 1
  BY DEF LeaveSpawn, Running
<1>2. /\ acts \in Seq(Activations) /\ NodeCount \in Nat /\ Len(heap) \in Nat /\ Len(acts) \in Nat
      /\ own[w] \in Seq(Nat) /\ pc[w] \in Points /\ cur[w] \in Nat
      /\ called_future \in [Workers -> BOOLEAN] /\ suspended \subseteq Deques /\ IsSequence(heap)
  BY Finds
<1>3. /\ Act(w) \in 1 .. Len(acts) /\ acts[Act(w)].parent \in 1 .. Len(acts)
  BY <1>1, Runs, RunsChild
<1>4. /\ FrameOK(acts, NodeCount, Len(heap), ParentFrame(shadow[w]))
      /\ ParentFrame(shadow[w]).cont # 0
  BY <1>1, DetachedReturns
<1> PICK f : f = Continued(ParentFrame(shadow[w]))
  OBVIOUS
<1>5. Turns(acts, NodeCount, Len(heap), ParentFrame(shadow[w]), f)
  BY <1>2, <1>4, ContinuedTurns
<1> PICK p : p = pop(SetParent(shadow[w], f))
  OBVIOUS
<1> PICK deque : deque = Front(own[w])
  OBVIOUS
<1>6. p \in Stacks /\ deque \in Seq(Nat) /\ Matched(acts, NodeCount, Len(heap), p, deque)
  <2>1. Pops(p, shadow[w], f)
    BY DEF Pops
  <2> QED
    BY <1>1, <1>5, <2>1, ChildPopped DEF Matched
<1>7. Extends(acts, acts')
  <2> PICK B : B = [acts EXCEPT ![Act(w)].done = TRUE]
    OBVIOUS
  <2> PICK q : q = acts[Act(w)].parent
    OBVIOUS
  <2>1. Extends(acts, B)
    BY <1>2, <1>3, ActMarked
  <2>2. B \in Seq(Activations) /\ q \in 1 .. Len(B)
    BY <1>2, <1>3, <2>1, LenProperties DEF Extends
  <2>3. B[q].ended \cup {cur[w]} \in SUBSET Nat
    <3>1. B[q] \in Activations
      BY <2>2, ElementOfSeq
    <3> QED
      BY <1>2, <3>1 DEF Activations
  <2>4. Extends(B, [B EXCEPT ![q].ended = B[q].ended \cup {cur[w]}])
    BY <2>2, <2>3, ActMarked
  <2>5. acts' = [B EXCEPT ![q].ended = B[q].ended \cup {cur[w]}]
    BY DEF LeaveSpawn
  <2> QED
    BY <2>1, <2>4, <2>5, ExtendsTwice
<1>8. IsSequence(heap') /\ Len(heap') = Len(heap)
  BY <1>2, HeapMerged DEF LeaveSpawn
<1>9. Grows /\ NodeCount' = NodeCount
  <2>1. om' = om
    BY DEF LeaveSpawn
  <2> QED
    BY <1>2, <1>7, <1>8, <2>1, NothingGrows
<1>10. /\ shadow' = [shadow EXCEPT ![w] = p] /\ cur' = [cur EXCEPT ![w] = Len(strands) + 1]
       /\ strands' = Append(strands, Strand(TopFrame(p), {acts[acts[Act(w)].parent].at}))
       /\ called_future' = [called_future EXCEPT ![w] = FALSE]
       /\ own' = [own EXCEPT ![w] = deque] /\ pc' = pc /\ suspended' = suspended
  BY DEF LeaveSpawn, Continue, Continued
<1>11. StrandsOK
  BY <1>2, <1>10, StrandAdded DEF StrandsOK
<1>12. Moves(w, p, deque, pc[w])
  BY <1>10 DEF Moves, ShadowInv, Shapes
<1>13. HasStack(acts', NodeCount', Len(heap'), pc[w], p, deque)
  <2>1. Matched(acts', NodeCount', Len(heap'), p, deque)
    BY <1>2, <1>6, <1>7, <1>8, <1>9, MatchedGrows
  <2> QED
    BY <1>1, <2>1, RunsOn
<1> QED
  BY <1>2, <1>6, <1>9, <1>10, <1>11, <1>12, <1>13, WorkerStep

(* do_leave_stolen *)
LEMMA LeaveStolenStep ==
  ASSUME ShadowInv, NEW w \in Workers, LeaveStolen(w)
  PROVE  ShadowInv'
PROOF
<1>1. /\ pc[w] \in {"run", "sync"} /\ acts[Act(w)].kind = "spawn" /\ acts[Act(w)].kind # "root"
      /\ Len(own[w]) = 1 /\ ~(Len(own[w]) > 1)
  BY DEF LeaveStolen, Running
<1>2. /\ acts \in Seq(Activations) /\ NodeCount \in Nat /\ Len(heap) \in Nat /\ Len(acts) \in Nat
      /\ own[w] \in Seq(Nat) /\ pc[w] \in Points /\ cur[w] \in Nat
      /\ called_future \in [Workers -> BOOLEAN] /\ suspended \subseteq Deques /\ IsSequence(heap)
  BY Finds
<1>3. Act(w) \in 1 .. Len(acts) /\ own[w][1] = Act(w)
  BY <1>1, Runs DEF Act
<1>4. /\ FrameOK(acts, NodeCount, Len(heap), ParentFrame(shadow[w]))
      /\ ParentFrame(shadow[w]).sync # 0
  BY <1>1, DetachedReturns
<1> PICK f : f = LeaveStolenParent(ParentFrame(shadow[w]))
  OBVIOUS
<1>5. Turns(acts, NodeCount, Len(heap), ParentFrame(shadow[w]), f)
  BY <1>2, <1>4, StolenTurns
<1> PICK p : p = pop(SetParent(shadow[w], f))
  OBVIOUS
<1>6. /\ p \in Stacks /\ StackOK(acts, NodeCount, Len(heap), p) /\ TopFrame(p) = f
      /\ f.act = acts[Act(w)].parent /\ p.tail = Len(p.frames)
  <2>1. Pops(p, shadow[w], f)
    BY DEF Pops
  <2> QED
    BY <1>1, <1>5, <2>1, ChildPopped
<1>7. HasStack(acts, NodeCount, Len(heap), "returning", p, own[w])
  BY <1>1, <1>3, <1>6 DEF HasStack
<1>8. IsSequence(heap') /\ Len(heap') = Len(heap)
  BY <1>2, HeapMerged DEF LeaveStolen
<1>9. Grows /\ NodeCount' = NodeCount /\ acts' = acts
  <2>1. om' = om /\ acts' = acts
    BY DEF LeaveStolen
  <2> QED
    BY <1>2, <1>8, <2>1, NothingGrows, ExtendsSame
<1>10. /\ shadow' = [shadow EXCEPT ![w] = p] /\ cur' = cur /\ strands' = strands
       /\ called_future' = [called_future EXCEPT ![w] = FALSE]
       /\ own' = own /\ pc' = [pc EXCEPT ![w] = "returning"] /\ suspended' = suspended
  BY DEF LeaveStolen, ShadowInv, Shapes
<1>11. StrandsOK
  BY <1>2, <1>10, StrandNotAdded DEF StrandsOK
<1>12. Moves(w, p, own[w], "returning")
  BY <1>10 DEF Moves, ShadowInv, Shapes
<1>13. HasStack(acts', NodeCount', Len(heap'), "returning", p, own[w])
  BY <1>7, <1>8, <1>9
<1>14. "returning" \in Points
  BY DEF Points
<1> QED
  BY <1>2, <1>6, <1>9, <1>10, <1>11, <1>12, <1>13, <1>14, WorkerStep

(* The head frame of a worker turns into f. *)
LEMMA HeadTurns ==
  ASSUME NEW A \in Seq(Activations), NEW N \in Nat, NEW H \in Nat, NEW s, StackOK(A, N, H, s),
         NEW f, Turns(A, N, H, TopFrame(s), f), NEW p, Tops(p, s, f)
  PROVE  /\ p \in Stacks /\ StackOK(A, N, H, p)
         /\ Len(p.frames) = Len(s.frames) /\ p.tail = s.tail
         /\ \A deque, l : Covers(s, deque, l) => Covers(p, deque, l)
PROOF
<1>1. /\ FrameOK(A, N, H, f) /\ Ready(f)
      /\ f.act = TopFrame(s).act /\ f.helper = TopFrame(s).helper
  BY DEF Turns
<1>2. A \in Seq(Activations) /\ N \in Nat /\ H \in Nat /\ StackOK(A, N, H, s) /\ Tops(p, s, f)
  OBVIOUS
<1>3. /\ StackOK(A, N, H, p) /\ p \in Stacks
      /\ Len(p.frames) = Len(s.frames) /\ p.tail = s.tail
  BY ONLY <1>1, <1>2, Topped
<1>4. \A deque, l : Covers(s, deque, l) => Covers(p, deque, l)
  BY ONLY <1>1, <1>2, Topped
<1> QED
  BY ONLY <1>3, <1>4

(* do_sync_begin *)
LEMMA SyncBeginStep ==
  ASSUME ShadowInv, NEW w \in Workers, SyncBegin(w)
  PROVE  ShadowInv'
PROOF
<1>1. pc[w] \in {"run", "sync"} /\ TopFrame(shadow[w]).sync # 0
  BY DEF SyncBegin, Running
<1>2. /\ acts \in Seq(Activations) /\ NodeCount \in Nat /\ Len(heap) \in Nat
      /\ own[w] \in Seq(Nat) /\ called_future \in [Workers -> BOOLEAN]
      /\ suspended \subseteq Deques /\ IsSequence(heap)
  BY Finds
<1>3. /\ StackOK(acts, NodeCount, Len(heap), shadow[w])
      /\ Matched(acts, NodeCount, Len(heap), shadow[w], own[w])
      /\ FrameOK(acts, NodeCount, Len(heap), TopFrame(shadow[w])) /\ Ready(TopFrame(shadow[w]))
  BY <1>1, Runs
<1> PICK f : f = AtSync(TopFrame(shadow[w]))
  OBVIOUS
<1>4. Turns(acts, NodeCount, Len(heap), TopFrame(shadow[w]), f)
  BY <1>1, <1>2, <1>3, AtSyncTurns
<1> PICK p : p = SetTop(shadow[w], f)
  OBVIOUS
<1>5. p \in Stacks /\ Matched(acts, NodeCount, Len(heap), p, own[w])
  <2>1. Tops(p, shadow[w], f)
    BY DEF Tops
  <2> QED
    BY <1>2, <1>3, <1>4, <2>1, HeadTurns DEF Matched
<1>6. IsSequence(heap') /\ Len(heap') = Len(heap)
  BY <1>2, HeapMerged DEF SyncBegin
<1>7. Grows /\ NodeCount' = NodeCount /\ acts' = acts
  <2>1. om' = om /\ acts' = acts
    BY DEF SyncBegin
  <2> QED
    BY <1>2, <1>6, <2>1, NothingGrows, ExtendsSame
<1>8. /\ shadow' = [shadow EXCEPT ![w] = p] /\ cur' = cur /\ strands' = strands
      /\ called_future' = called_future /\ own' = own
      /\ pc' = [pc EXCEPT ![w] = "sync"] /\ suspended' = suspended
  BY DEF SyncBegin, AtSync, ShadowInv, Shapes
<1>9. StrandsOK
  BY <1>2, <1>8, StrandNotAdded DEF StrandsOK
<1>10. Moves(w, p, own[w], "sync")
  BY <1>8 DEF Moves, ShadowInv, Shapes
<1>11. HasStack(acts', NodeCount', Len(heap'), "sync", p, own[w])
  BY <1>5, <1>6, <1>7, RunsOn
<1>12. "sync" \in Points
  BY DEF Points
<1> QED
  BY <1>2, <1>5, <1>7, <1>8, <1>9, <1>10, <1>11, <1>12, WorkerStep

(* do_sync_end *)
LEMMA SyncEndStep ==
  ASSUME ShadowInv, NEW w \in Workers, SyncEnd(w)
  PROVE  ShadowInv'
PROOF
<1>1. pc[w] \in {"run", "sync"}
  BY DEF SyncEnd
<1>2. /\ acts \in Seq(Activations) /\ NodeCount \in Nat /\ Len(heap) \in Nat
      /\ own[w] \in Seq(Nat) /\ called_future \in [Workers -> BOOLEAN]
      /\ suspended \subseteq Deques /\ IsSequence(heap)
  BY Finds
<1>3. /\ StackOK(acts, NodeCount, Len(heap), shadow[w])
      /\ Matched(acts, NodeCount, Len(heap), shadow[w], own[w])
      /\ FrameOK(acts, NodeCount, Len(heap), TopFrame(shadow[w])) /\ Ready(TopFrame(shadow[w]))
      /\ Act(w) \in 1 .. Len(acts)
  BY <1>1, Runs
<1> PICK f : f = Synced(TopFrame(shadow[w]))
  OBVIOUS
<1>4. Turns(acts, NodeCount, Len(heap), TopFrame(shadow[w]), f)
  BY <1>2, <1>3, SyncedTurns
<1> PICK p : p = SetTop(shadow[w], f)
  OBVIOUS
<1>5. p \in Stacks /\ Matched(acts, NodeCount, Len(heap), p, own[w])
  <2>1. Tops(p, shadow[w], f)
    BY DEF Tops
  <2> QED
    BY <1>2, <1>3, <1>4, <2>1, HeadTurns DEF Matched
<1>6. Extends(acts, acts')
  <2>1. acts' = [acts EXCEPT ![Act(w)].ended = {}]
    BY DEF SyncEnd
  <2> QED
    BY <1>2, <1>3, <2>1, ActMarked
<1>7. Grows /\ NodeCount' = NodeCount /\ heap' = heap
  <2>1. om' = om /\ heap' = heap
    BY DEF SyncEnd
  <2> QED
    BY <1>2, <1>6, <2>1, NothingGrows
<1>8. /\ shadow' = [shadow EXCEPT ![w] = p] /\ cur' = [cur EXCEPT ![w] = Len(strands) + 1]
      /\ strands' = Append(strands, Strand(TopFrame(p), {cur[w]} \cup acts[Act(w)].ended))
      /\ called_future' = called_future /\ own' = own
      /\ pc' = [pc EXCEPT ![w] = "run"] /\ suspended' = suspended
  BY DEF SyncEnd, Continue
<1>9. StrandsOK
  BY <1>2, <1>8, StrandAdded DEF StrandsOK
<1>10. Moves(w, p, own[w], "run")
  BY <1>8 DEF Moves, ShadowInv, Shapes
<1>11. HasStack(acts', NodeCount', Len(heap'), "run", p, own[w])
  <2>1. Matched(acts', NodeCount', Len(heap'), p, own[w])
    BY <1>2, <1>5, <1>6, <1>7, MatchedGrows
  <2> QED
    BY <2>1, RunsOn
<1>12. "run" \in Points
  BY DEF Points
<1> QED
  BY <1>2, <1>5, <1>7, <1>8, <1>9, <1>10, <1>11, <1>12, WorkerStep

(* A worker that has nothing left. *)
LEMMA IdleStep ==
  ASSUME ShadowInv, NEW w \in Workers, GoIdle(w), Grows, strands' = strands,
         called_future' \in [Workers -> BOOLEAN],
         suspended' \subseteq Deques, \A d \in suspended' : d \in suspended \/ DequeOK(d)'
  PROVE  ShadowInv'
PROOF
<1> PICK p : p = EmptyStack
  OBVIOUS
<1> PICK deque : deque = <<>>
  OBVIOUS
<1>1. p \in Stacks
  <2>1. <<>> \in Seq(Frames)
    OBVIOUS
  <2> QED
    BY <2>1 DEF EmptyStack, Stacks
<1>2. deque \in Seq(Nat) /\ "idle" \in Points
  BY DEF Points
<1>3. Moves(w, p, deque, "idle")
  BY DEF GoIdle, Moves
<1>4. StrandsOK
  BY StrandNotAdded DEF GoIdle, StrandsOK
<1>5. HasStack(acts', NodeCount', Len(heap'), "idle", p, deque)
  BY DEF HasStack
<1> QED
  BY <1>1, <1>2, <1>3, <1>4, <1>5, WorkerStep

(* The runtime suspends a function in its sync. *)
LEMMA SyncWaitStep ==
  ASSUME ShadowInv, NEW w \in Workers, SyncWait(w)
  PROVE  ShadowInv'
PROOF
<1>1. pc[w] \in {"run", "sync"}
  BY DEF SyncWait
<1>2. /\ acts \in Seq(Activations) /\ Len(heap) \in Nat /\ cur[w] \in Nat
      /\ called_future \in [Workers -> BOOLEAN] /\ suspended \subseteq Deques /\ IsSequence(heap)
  BY Finds
<1>3. Act(w) \in 1 .. Len(acts)
  BY <1>1, Runs
<1>4. Extends(acts, acts')
  <2>1. acts' = [acts EXCEPT ![Act(w)].waits = cur[w]]
    BY DEF SyncWait
  <2>2. {} \in SUBSET Nat
    OBVIOUS
  <2> QED
    BY <1>2, <1>3, <2>1, <2>2, ActMarked
<1>5. Grows
  <2>1. om' = om /\ heap' = heap
    BY DEF SyncWait
  <2> QED
    BY <1>2, <1>4, <2>1, NothingGrows
<1>6. GoIdle(w) /\ strands' = strands /\ called_future' = called_future /\ suspended' = suspended
  BY DEF SyncWait
<1> QED
  BY <1>2, <1>5, <1>6, IdleStep

(* A child has returned: it is marked, and its parent notes its last strand. *)
LEMMA ChildReturned ==
  ASSUME NEW A \in Seq(Activations), NEW a \in 1 .. Len(A), NEW q \in 1 .. Len(A), NEW c \in Nat,
         NEW B, B = [A EXCEPT ![a].done = TRUE, ![q].ended = @ \cup {c}]
  PROVE  Extends(A, B)
PROOF
<1> PICK C : C = [A EXCEPT ![a].done = TRUE]
  OBVIOUS
<1>0. {} \in SUBSET Nat
  OBVIOUS
<1>1. Extends(A, C)
  BY <1>0, ActMarked
<1>2. C \in Seq(Activations) /\ q \in 1 .. Len(C)
  BY <1>1, LenProperties DEF Extends
<1>3. C[q].ended \cup {c} \in SUBSET Nat
  <2>1. C[q] \in Activations
    BY <1>2, ElementOfSeq
  <2> QED
    BY <2>1 DEF Activations
<1>4. Extends(C, [C EXCEPT ![q].ended = C[q].ended \cup {c}])
  BY <1>2, <1>3, ActMarked
<1>5. B = [C EXCEPT ![q].ended = C[q].ended \cup {c}]
  OBVIOUS
<1> QED
  BY <1>1, <1>4, <1>5, ExtendsTwice

(* The runtime after do_leave_stolen *)
LEMMA ReturnFromSpawnStep ==
  ASSUME ShadowInv, NEW w \in Workers, ReturnFromSpawn(w)
  PROVE  ShadowInv'
PROOF
<1> PICK s : s = shadow[w]
  OBVIOUS
<1> PICK a : a = Act(w)
  OBVIOUS
<1> PICK q : q = acts[a].parent
  OBVIOUS
<1>1. pc[w] = "returning"
  BY DEF ReturnFromSpawn
<1>2. /\ acts \in Seq(Activations) /\ NodeCount \in Nat /\ Len(heap) \in Nat /\ Len(acts) \in Nat
      /\ own[w] \in Seq(Nat) /\ cur[w] \in Nat
      /\ called_future \in [Workers -> BOOLEAN] /\ suspended \subseteq Deques /\ IsSequence(heap)
      /\ HasStack(acts, NodeCount, Len(heap), pc[w], shadow[w], own[w])
  BY Finds
<1>3. /\ StackOK(acts, NodeCount, Len(heap), s) /\ Len(own[w]) = 1 /\ s.tail = Len(s.frames)
      /\ own[w][1] \in 1 .. Len(acts) /\ acts[own[w][1]].parent = TopFrame(s).act
  BY <1>1, <1>2 DEF HasStack
<1>4. a \in 1 .. Len(acts) /\ q = TopFrame(s).act
  BY <1>3 DEF Act
<1>5. /\ s \in Stacks /\ Len(s.frames) \in Nat /\ Len(s.frames) > 0
      /\ FrameOK(acts, NodeCount, Len(heap), TopFrame(s)) /\ Ready(TopFrame(s))
      /\ TopFrame(s) = s.frames[Len(s.frames)]
  BY <1>2, <1>3, HeadOf
<1>6. q \in 1 .. Len(acts) /\ q \in Nat
  <2>1. TopFrame(s).act \in 1 .. Len(acts)
    BY <1>5 DEF FrameOK, FramesOf
  <2> QED
    BY <1>2, <1>4, <2>1
<1> PICK B : B = [acts EXCEPT ![a].done = TRUE, ![q].ended = @ \cup {cur[w]}]
  OBVIOUS
<1>7. Extends(acts, B)
  BY <1>2, <1>4, <1>6, ChildReturned
<1>8. om' = om /\ heap' = heap /\ called_future' = called_future /\ suspended' = suspended
  BY DEF ReturnFromSpawn
<1>9. CASE /\ acts[q].waits # 0 /\ Outstanding(q) = {a}
           /\ Continue(w, SetTop(shadow[w], Synced(TopFrame(shadow[w]))), {acts[q].waits} \cup B[q].ended)
           /\ acts' = [B EXCEPT ![q].waits = 0, ![q].ended = {}]
           /\ own' = [own EXCEPT ![w] = <<q>>]
           /\ pc' = [pc EXCEPT ![w] = "run"]
  <2> PICK f : f = Synced(TopFrame(s))
    OBVIOUS
  <2> PICK p : p = SetTop(s, f)
    OBVIOUS
  <2> PICK deque : deque = <<q>>
    OBVIOUS
  <2>1. Turns(acts, NodeCount, Len(heap), TopFrame(s), f)
    BY <1>2, <1>5, SyncedTurns
  <2>2. /\ p \in Stacks /\ StackOK(acts, NodeCount, Len(heap), p)
        /\ \A d, l : Covers(s, d, l) => Covers(p, d, l)
    <3>1. Tops(p, s, f)
      BY DEF Tops
    <3> QED
      BY <1>2, <1>3, <2>1, <3>1, HeadTurns
  <2>3. deque \in Seq(Nat) /\ Len(deque) = 1 /\ deque[1] = q
    BY <1>6
  <2>4. Covers(s, deque, Len(deque))
    <3> PICK m \in Nat : m = Len(s.frames)
      BY <1>5
    <3>1. m - m + 1 = 1 /\ 1 <= 1 /\ \A i \in 1 .. 1 : m + i - 1 = m /\ i = 1
      OBVIOUS
    <3>2. s.tail = m /\ q = s.frames[m].act
      BY <1>3, <1>4, <1>5
    <3> QED
      BY <2>3, <3>1, <3>2 DEF Covers
  <2>5. Matched(acts, NodeCount, Len(heap), p, deque)
    BY <2>2, <2>4 DEF Matched
  <2>6. Extends(acts, acts')
    <3> PICK z \in Nat : z = 0
      OBVIOUS
    <3> PICK C : C = [B EXCEPT ![q].waits = z]
      OBVIOUS
    <3>0. 0 \in Nat /\ {} \in SUBSET Nat
      OBVIOUS
    <3>1. B \in Seq(Activations) /\ q \in 1 .. Len(B)
      BY <1>2, <1>6, <1>7, LenProperties DEF Extends
    <3>2. Extends(B, C)
      <4>1. z \in Nat /\ C = [B EXCEPT ![q].waits = z]
        OBVIOUS
      <4>2. Extends(B, [B EXCEPT ![q].waits = z])
        BY ONLY <3>0, <3>1, <4>1, ActMarked
      <4> QED
        BY <4>1, <4>2
    <3>3. C \in Seq(Activations) /\ q \in 1 .. Len(C)
      BY <3>1, <3>2, LenProperties DEF Extends
    <3>4. Extends(C, [C EXCEPT ![q].ended = {}])
      BY <3>0, <3>3, ActMarked
    <3>5. acts' = [C EXCEPT ![q].ended = {}]
      BY <1>9
    <3> QED
      BY <1>7, <3>2, <3>4, <3>5, ExtendsTwice
  <2>7. Grows /\ NodeCount' = NodeCount
    BY <1>2, <1>8, <2>6, NothingGrows
  <2>8. /\ shadow' = [shadow EXCEPT ![w] = p] /\ cur' = [cur EXCEPT ![w] = Len(strands) + 1]
        /\ strands' = Append(strands, Strand(TopFrame(p), {acts[q].waits} \cup B[q].ended))
        /\ own' = [own EXCEPT ![w] = deque] /\ pc' = [pc EXCEPT ![w] = "run"]
    BY <1>9 DEF Continue
  <2>9. StrandsOK
    BY <1>2, <1>8, <2>8, StrandAdded DEF StrandsOK
  <2>10. Moves(w, p, deque, "run") /\ "run" \in Points
    BY <2>8 DEF Moves, Points
  <2>11. HasStack(acts', NodeCount', Len(heap'), "run", p, deque)
    <3>1. Matched(acts', NodeCount', Len(heap'), p, deque)
      BY <1>2, <1>8, <2>5, <2>6, <2>7, MatchedGrows
    <3> QED
      BY <3>1, RunsOn
  <2> QED
    BY <1>2, <1>8, <2>2, <2>3, <2>7, <2>9, <2>10, <2>11, WorkerStep
<1>10. CASE acts' = B /\ GoIdle(w) /\ strands' = strands
  <2>1. Grows
    BY <1>2, <1>7, <1>8, <1>10, NothingGrows
  <2> QED
    BY <1>2, <1>8, <1>10, <2>1, IdleStep
<1> QED
  BY <1>9, <1>10 DEF ReturnFromSpawn

(* CilkFutureFinish *)
LEMMA FutureFinishStep ==
  ASSUME ShadowInv, NEW w \in Workers, CilkFutureFinish(w)
  PROVE  ShadowInv'
PROOF
<1>1. pc[w] \in {"run", "sync"} /\ acts[Act(w)].kind = "future" /\ acts[Act(w)].kind # "root"
  BY DEF CilkFutureFinish, Running
<1>2. /\ acts \in Seq(Activations) /\ NodeCount \in Nat /\ Len(heap) \in Nat /\ Len(acts) \in Nat
      /\ own[w] \in Seq(Nat) /\ cur[w] \in Nat
      /\ called_future \in [Workers -> BOOLEAN] /\ suspended \subseteq Deques /\ IsSequence(heap)
  BY Finds
<1>3. Act(w) \in 1 .. Len(acts) /\ own[w][Len(own[w])] = Act(w)
  BY <1>1, Runs DEF Act
<1>4. /\ FrameOK(acts, NodeCount, Len(heap), ParentFrame(shadow[w]))
      /\ ParentFrame(shadow[w]).cont # 0 /\ TopFrame(shadow[w]).helper
  BY <1>1, DetachedReturns
<1> PICK f : f = FinishedParent(ParentFrame(shadow[w]))
  OBVIOUS
<1>5. Turns(acts, NodeCount, Len(heap), ParentFrame(shadow[w]), f) /\ f.steal_cont # 0
  BY <1>2, <1>4, FinishedTurns
<1> PICK p : p = pop(SetParent(shadow[w], f))
  OBVIOUS
<1>6. /\ p \in Stacks /\ StackOK(acts, NodeCount, Len(heap), p) /\ TopFrame(p) = f /\ p.above
      /\ Len(own[w]) > 1 => Covers(p, own[w], Len(own[w]) - 1)
  <2>1. Pops(p, shadow[w], f)
    BY DEF Pops
  <2> QED
    BY <1>1, <1>4, <1>5, <2>1, ChildPopped
<1>7. Popped(acts, p, own[w])
  BY <1>1, <1>3, <1>5, <1>6 DEF Popped
<1>8. HasStack(acts, NodeCount, Len(heap), "finished", p, own[w])
  BY <1>6, <1>7 DEF HasStack
<1>9. IsSequence(heap') /\ Len(heap') = Len(heap) + 1
  <2>1. heap' = Append(heap, FinishedList(TopFrame(shadow[w])))
    BY DEF CilkFutureFinish
  <2> QED
    BY <1>2, <2>1, SequenceGrows
<1>10. Extends(acts, acts')
  <2> PICK a : a = Act(w)
    OBVIOUS
  <2> PICK B : B = [acts EXCEPT ![a].done = TRUE]
    OBVIOUS
  <2> PICK C : C = [B EXCEPT ![a].last = cur[w]]
    OBVIOUS
  <2>0. {} \in SUBSET Nat /\ Len(heap) + 1 \in Nat
    BY <1>2
  <2>1. Extends(acts, B)
    BY <1>2, <1>3, <2>0, ActMarked
  <2>2. B \in Seq(Activations) /\ a \in 1 .. Len(B)
    BY <1>2, <1>3, <2>1, LenProperties DEF Extends
  <2>3. Extends(B, C)
    BY <1>2, <2>0, <2>2, ActMarked
  <2>4. C \in Seq(Activations) /\ a \in 1 .. Len(C)
    BY <2>2, <2>3, LenProperties DEF Extends
  <2>5. Extends(C, [C EXCEPT ![a].fom = Len(heap) + 1])
    BY <2>0, <2>4, ActMarked
  <2>6. acts' = [C EXCEPT ![a].fom = Len(heap) + 1]
    BY DEF CilkFutureFinish
  <2> QED
    BY <2>1, <2>3, <2>5, <2>6, ExtendsTwice
<1>11. Grows /\ NodeCount' = NodeCount
  <2>1. om' = om /\ Len(heap) <= Len(heap')
    BY <1>2, <1>9 DEF CilkFutureFinish
  <2> QED
    BY <1>9, <1>10, <2>1, NothingGrows
<1>12. /\ shadow' = [shadow EXCEPT ![w] = p] /\ cur' = cur /\ strands' = strands
       /\ called_future' = [called_future EXCEPT ![w] = TRUE]
       /\ own' = own /\ pc' = [pc EXCEPT ![w] = "finished"] /\ suspended' = suspended
  BY DEF CilkFutureFinish, ShadowInv, Shapes
<1>13. StrandsOK
  BY <1>2, <1>12, StrandNotAdded DEF StrandsOK
<1>14. Moves(w, p, own[w], "finished") /\ "finished" \in Points
  BY <1>12 DEF Moves, ShadowInv, Shapes, Points
<1>15. HasStack(acts', NodeCount', Len(heap'), "finished", p, own[w])
  <2>1. Len(heap) \in Nat /\ Len(heap') \in Nat /\ Len(heap) <= Len(heap')
    BY <1>2, <1>9
  <2> QED
    BY <1>2, <1>8, <1>10, <1>11, <2>1, HasStackGrows
<1> QED
  BY <1>2, <1>6, <1>11, <1>12, <1>13, <1>14, <1>15, WorkerStep

(* The helper of a future leaves. *)
LEMMA LeaveFutureStep ==
  ASSUME ShadowInv, NEW w \in Workers, LeaveFuture(w)
  PROVE  ShadowInv'
PROOF
<1>1. pc[w] = "finished"
  BY DEF LeaveFuture
<1>2. /\ acts \in Seq(Activations) /\ NodeCount \in Nat /\ Len(heap) \in Nat
      /\ own[w] \in Seq(Nat) /\ shadow[w] \in Stacks
      /\ called_future \in [Workers -> BOOLEAN] /\ suspended \subseteq Deques /\ IsSequence(heap)
      /\ HasStack(acts, NodeCount, Len(heap), pc[w], shadow[w], own[w])
  BY Finds
<1>3. om' = om /\ heap' = heap /\ called_future' = called_future /\ acts' = acts /\ suspended' = suspended
  BY DEF LeaveFuture
<1>4. Grows /\ NodeCount' = NodeCount
  BY <1>2, <1>3, NothingGrows, ExtendsSame
<1>5. CASE /\ Len(own[w]) > 1 /\ own' = [own EXCEPT ![w] = Front(own[w])]
           /\ Continue(w, shadow[w], {acts[acts[Act(w)].parent].at})
           /\ pc' = [pc EXCEPT ![w] = "run"]
  <2> PICK s : s = shadow[w]
    OBVIOUS
  <2> PICK l : l = Len(own[w])
    OBVIOUS
  <2> PICK deque : deque = Front(own[w])
    OBVIOUS
  <2>1. StackOK(acts, NodeCount, Len(heap), s) /\ Covers(s, own[w], l - 1)
    BY <1>1, <1>2, <1>5 DEF HasStack
  <2>2. l \in Nat /\ l > 1
    BY <1>2, <1>5, LenProperties
  <2>3. deque \in Seq(Nat) /\ Len(deque) = l - 1 /\ \A i \in 1 .. l - 1 : deque[i] = own[w][i]
    <3>1. \A i \in 1 .. l - 1 : own[w][i] \in Nat
      BY <1>2, <2>2, ElementOfSeq
    <3>2. /\ deque \in Seq(Nat) /\ Len(deque) = (IF 1 <= l - 1 THEN (l - 1) - 1 + 1 ELSE 0)
          /\ \A i \in 1 .. (l - 1) - 1 + 1 : deque[i] = own[w][1 + i - 1]
      <4>1. deque = SubSeq(own[w], 1, l - 1)
        BY DEF Front
      <4> QED
        BY <2>2, <3>1, <4>1, SubSeqProperties, SMTT(40)
    <3> QED
      BY <2>2, <3>2
  <2>4. Covers(s, deque, Len(deque))
    BY <2>1, <2>2, <2>3 DEF Covers
  <2>5. HasStack(acts', NodeCount', Len(heap'), "run", s, deque)
    BY <1>3, <1>4, <2>1, <2>4, RunsOn DEF Matched
  <2>6. /\ cur' = [cur EXCEPT ![w] = Len(strands) + 1]
        /\ strands' = Append(strands, Strand(TopFrame(s), {acts[acts[Act(w)].parent].at}))
    BY <1>5 DEF Continue
  <2>7. StrandsOK
    BY <1>2, <1>3, <2>6, StrandAdded DEF StrandsOK
  <2>8. Moves(w, s, deque, "run") /\ "run" \in Points
    BY <1>5 DEF Continue, Moves, Points
  <2> QED
    BY <1>2, <1>3, <1>4, <2>3, <2>5, <2>7, <2>8, WorkerStep
<1>6. CASE GoIdle(w) /\ strands' = strands
  BY <1>2, <1>3, <1>4, <1>6, IdleStep
<1> QED
  BY <1>5, <1>6 DEF LeaveFuture

(* CilkFutureGet of a future that is done *)
LEMMA FutureGetStep ==
  ASSUME ShadowInv, NEW w \in Workers, NEW a, CilkFutureGet(w, a)
  PROVE  ShadowInv'
PROOF
<1>1. pc[w] \in {"run", "sync"}
  BY DEF CilkFutureGet, Running
<1>2. /\ acts \in Seq(Activations) /\ NodeCount \in Nat /\ Len(heap) \in Nat
      /\ own[w] \in Seq(Nat) /\ called_future \in [Workers -> BOOLEAN] /\ pc[w] \in Points
      /\ suspended \subseteq Deques /\ IsSequence(heap)
  BY Finds
<1>3. Matched(acts, NodeCount, Len(heap), shadow[w], own[w])
  BY <1>1, Runs
<1> PICK H \in Nat : H = Len(heap) + 1
  BY <1>2
<1>4. /\ IsSequence(heap') /\ Len(heap') = H /\ Len(heap) <= H /\ H \in 1 .. H
      /\ om' = om /\ acts' = acts
  <2>1. /\ heap' = Append(heap, ListOfLists(om, heap[TopFrame(shadow[w]).list], heap[acts[a].fom]))
        /\ om' = om /\ acts' = acts
    BY DEF CilkFutureGet
  <2> QED
    BY <1>2, <2>1, SequenceGrows
<1>5. Grows /\ NodeCount' = NodeCount /\ Extends(acts, acts)
  BY <1>2, <1>4, NothingGrows, ExtendsSame
<1>6. Matched(acts, NodeCount, H, shadow[w], own[w])
  <2>1. NodeCount <= NodeCount
    BY <1>2
  <2> QED
    BY <1>2, <1>3, <1>4, <1>5, <2>1, MatchedGrows
<1>7. StackOK(acts, NodeCount, H, shadow[w])
  BY <1>6 DEF Matched
<1>8. FrameOK(acts, NodeCount, H, TopFrame(shadow[w])) /\ Ready(TopFrame(shadow[w]))
  BY <1>2, <1>7, HeadOf
<1> PICK f : f = WithList(TopFrame(shadow[w]), H)
  OBVIOUS
<1> PICK p : p = SetTop(shadow[w], f)
  OBVIOUS
<1>9. Turns(acts, NodeCount, H, TopFrame(shadow[w]), f)
  BY <1>2, <1>4, <1>8, WithListTurns
<1>10. p \in Stacks /\ Matched(acts, NodeCount, H, p, own[w])
  <2>1. Tops(p, shadow[w], f)
    BY DEF Tops
  <2> QED
    BY <1>2, <1>6, <1>7, <1>9, <2>1, HeadTurns DEF Matched
<1>11. /\ shadow' = [shadow EXCEPT ![w] = p] /\ cur' = [cur EXCEPT ![w] = Len(strands) + 1]
       /\ strands' = Append(strands, Strand(TopFrame(p), {cur[w], acts[a].last}))
       /\ called_future' = called_future /\ own' = own /\ pc' = pc /\ suspended' = suspended
  BY DEF CilkFutureGet, Continue, WithList
<1>12. StrandsOK
  BY <1>2, <1>11, StrandAdded DEF StrandsOK
<1>13. Moves(w, p, own[w], pc[w])
  BY <1>11 DEF Moves, ShadowInv, Shapes
<1>14. HasStack(acts', NodeCount', Len(heap'), pc[w], p, own[w])
  BY <1>1, <1>4, <1>5, <1>10, RunsOn
<1> QED
  BY <1>2, <1>5, <1>10, <1>11, <1>12, <1>13, <1>14, WorkerStep

(* CilkFutureGet of one that is not *)
LEMMA FutureGetSuspendStep ==
  ASSUME ShadowInv, NEW w \in Workers, NEW a \in DOMAIN acts, CilkFutureGetSuspend(w, a)
  PROVE  ShadowInv'
PROOF
<1>1. pc[w] \in {"run", "sync"}
  BY DEF CilkFutureGetSuspend, Running
<1>2. /\ acts \in Seq(Activations) /\ NodeCount \in Nat /\ Len(heap) \in Nat
      /\ shadow[w] \in Stacks /\ own[w] \in Seq(Nat) /\ cur[w] \in Nat
      /\ called_future \in [Workers -> BOOLEAN] /\ suspended \subseteq Deques /\ IsSequence(heap)
  BY Finds
<1>3. Matched(acts, NodeCount, Len(heap), shadow[w], own[w])
  BY <1>1, Runs
<1>4. /\ om' = om /\ heap' = heap /\ acts' = acts /\ called_future' = called_future
      /\ strands' = strands /\ GoIdle(w)
  BY DEF CilkFutureGetSuspend
<1>5. Grows /\ NodeCount' = NodeCount
  BY <1>2, <1>4, NothingGrows, ExtendsSame
<1> PICK d : d = [stack |-> shadow[w], own |-> own[w], future |-> a, cur |-> cur[w]]
  OBVIOUS
<1>6. suspended' = suspended \cup {d}
  BY DEF CilkFutureGetSuspend
<1>7. d.stack = shadow[w] /\ d.own = own[w]
  OBVIOUS
<1>8. d \in Deques
  <2>1. a \in Nat
    BY <1>2, LenProperties
  <2> QED
    BY <1>2, <2>1 DEF Deques
<1>9. DequeOK(d)'
  BY <1>3, <1>4, <1>5, <1>7 DEF DequeOK, Matched
<1> QED
  BY <1>2, <1>4, <1>5, <1>6, <1>8, <1>9, IdleStep

(* kResume *)
LEMMA ResumeStep ==
  ASSUME ShadowInv, NEW w \in Workers, NEW d \in suspended, Resume(w, d)
  PROVE  ShadowInv'
PROOF
<1>2. /\ acts \in Seq(Activations) /\ NodeCount \in Nat /\ Len(heap) \in Nat
      /\ called_future \in [Workers -> BOOLEAN]
      /\ suspended \subseteq Deques /\ IsSequence(heap)
  BY Finds
<1>3. Matched(acts, NodeCount, Len(heap), d.stack, d.own) /\ d.own \in Seq(Nat)
  BY <1>2 DEF ShadowInv, DequeOK, Matched, Deques
<1> PICK s : s = d.stack
  OBVIOUS
<1> PICK deque : deque = d.own
  OBVIOUS
<1> PICK H \in Nat : H = Len(heap) + 1
  BY <1>2
<1>4. /\ IsSequence(heap') /\ Len(heap') = H /\ Len(heap) <= H /\ H \in 1 .. H
      /\ om' = om /\ acts' = acts
  <2>1. /\ heap' = Append(heap, ListOfLists(om, heap[TopFrame(s).list], heap[acts[d.future].fom]))
        /\ om' = om /\ acts' = acts
    BY DEF Resume
  <2> QED
    BY <1>2, <2>1, SequenceGrows
<1>5. Grows /\ NodeCount' = NodeCount /\ Extends(acts, acts)
  BY <1>2, <1>4, NothingGrows, ExtendsSame
<1>6. Matched(acts, NodeCount, H, s, deque)
  <2>1. NodeCount <= NodeCount
    BY <1>2
  <2> QED
    BY <1>2, <1>3, <1>4, <1>5, <2>1, MatchedGrows
<1>7. StackOK(acts, NodeCount, H, s)
  BY <1>6 DEF Matched
<1>8. FrameOK(acts, NodeCount, H, TopFrame(s)) /\ Ready(TopFrame(s))
  BY <1>2, <1>7, HeadOf
<1> PICK f : f = WithList(TopFrame(s), H)
  OBVIOUS
<1> PICK p : p = SetTop(s, f)
  OBVIOUS
<1>9. Turns(acts, NodeCount, H, TopFrame(s), f)
  BY <1>2, <1>4, <1>8, WithListTurns
<1>10. p \in Stacks /\ Matched(acts, NodeCount, H, p, deque)
  <2>1. Tops(p, s, f)
    BY DEF Tops
  <2> QED
    BY <1>2, <1>6, <1>7, <1>9, <2>1, HeadTurns DEF Matched
<1>11. /\ shadow' = [shadow EXCEPT ![w] = p] /\ cur' = [cur EXCEPT ![w] = Len(strands) + 1]
       /\ strands' = Append(strands, Strand(TopFrame(p), {d.cur, acts[d.future].last}))
       /\ called_future' = called_future /\ own' = [own EXCEPT ![w] = deque]
       /\ pc' = [pc EXCEPT ![w] = "run"] /\ suspended' = suspended \ {d}
  BY DEF Resume, Continue, WithList
<1>12. StrandsOK
  BY <1>2, <1>11, StrandAdded DEF StrandsOK
<1>13. Moves(w, p, deque, "run") /\ "run" \in Points
  BY <1>11 DEF Moves, Points
<1>14. HasStack(acts', NodeCount', Len(heap'), "run", p, deque)
  BY <1>4, <1>5, <1>10, RunsOn
<1> QED
  BY <1>2, <1>3, <1>5, <1>10, <1>11, <1>12, <1>13, <1>14, WorkerStep

(* do_detach_begin makes the parent's frame ready for its child. *)
LEMMA DetachingParentOK ==
  ASSUME ShadowInv, NEW f, FrameOK(acts, NodeCount, Len(heap), f), f.node # 0,
         NEW B, Extends(acts, B), NEW I \in Nat, Len(heap) <= I, First(f) => Len(heap) + 1 <= I,
         NEW g, g = DetachingParent(f), NEW M \in Nat, M = ContNode(f)
  PROVE  /\ FrameOK(B, M, I, g) /\ g.act = f.act /\ g.helper = f.helper
         /\ g.node = 0 /\ g.cont # 0 /\ g.sync # 0
PROOF
<1>1. /\ NodeCount \in Nat /\ Len(heap) \in Nat /\ OrderInv
  BY Finds, BudgetsAssumption DEF ShadowInv
<1>2. f \in FramesOf(acts, NodeCount, Len(heap)) /\ f.node \in 1 .. NodeCount
      /\ f.sync \in 0 .. NodeCount /\ f.sync_list \in 0 .. Len(heap) /\ f.ori_list \in 0 .. Len(heap)
      /\ f.list \in 1 .. Len(heap)
  BY <1>1, SMTT(40) DEF FrameOK, FramesOf
<1>3. /\ NodeCount <= M /\ M # 0 /\ M \in 0 .. M
      /\ f.sync = 0 => SyncNode(f) \in 1 .. M
  BY <1>1, <1>2, DetachedPlaced
<1>4. FrameOK(B, M, I, f)
  BY <1>1, <1>3, FrameGrows
<1> PICK x : x = SyncNode(f)
  OBVIOUS
<1> PICK y : y = IF First(f) THEN Len(heap) + 1 ELSE f.sync_list
  OBVIOUS
<1> PICK z : z = IF First(f) THEN f.list ELSE f.ori_list
  OBVIOUS
<1>5. x \in 0 .. M /\ x # 0
  <2>1. CASE f.sync = 0
    BY <1>3, <2>1
  <2>2. CASE f.sync # 0
    BY <1>1, <1>2, <1>3, <2>2 DEF SyncNode, First
  <2> QED
    BY <2>1, <2>2
<1>6. y \in 0 .. I
  BY <1>1, <1>2
<1>7. z \in 0 .. I
  BY <1>1, <1>2
<1>8. g = [f EXCEPT !.sync = x, !.cont = M, !.node = 0, !.steal_cont = 0, !.steal_sync = 0,
                    !.steal_list = 0, !.sync_list = y, !.ori_list = z]
  BY DEF DetachingParent
<1>9. f \in FramesOf(B, M, I) /\ 0 \in 0 .. M /\ 0 \in 0 .. I
  BY <1>4 DEF FrameOK
<1>10. g \in FramesOf(B, M, I)
  BY <1>3, <1>5, <1>6, <1>7, <1>8, <1>9, ZenonT(60) DEF FramesOf
<1>11. /\ g.act = f.act /\ g.helper = f.helper /\ g.node = 0 /\ g.cont = M /\ g.sync = x
       /\ g.steal_cont = 0
  BY <1>8, <1>9 DEF FramesOf
<1> QED
  BY <1>3, <1>4, <1>5, <1>10, <1>11 DEF FrameOK

(* A frame is given another list. *)
LEMMA WithListOK ==
  ASSUME NEW A, NEW N \in Nat, NEW H \in Nat, NEW f, FrameOK(A, N, H, f), NEW l \in 1 .. H
  PROVE  /\ FrameOK(A, N, H, WithList(f, l))
         /\ WithList(f, l).act = f.act /\ WithList(f, l).helper = f.helper
         /\ WithList(f, l).node = f.node /\ WithList(f, l).cont = f.cont
         /\ WithList(f, l).sync = f.sync
PROOF
<1> DEFINE g == WithList(f, l)
<1>1. f \in FramesOf(A, N, H)
  BY DEF FrameOK, FramesOf
<1>2. g \in FramesOf(A, N, H)
  BY <1>1, Zenon DEF FramesOf, WithList
<1>3. /\ g.act = f.act /\ g.helper = f.helper /\ g.node = f.node /\ g.cont = f.cont
      /\ g.sync = f.sync /\ g.steal_cont = f.steal_cont /\ g.steal_list = f.steal_list
  BY <1>1 DEF FramesOf, WithList
<1> HIDE DEF g
<1>4. FrameOK(A, N, H, g)
  BY <1>2, <1>3 DEF FrameOK
<1> QED
  BY <1>3, <1>4 DEF g

(* The frame of a detached child is pushed. *)
Pushes(p, s, f, g) == p = push(SetTop(s, f), g)

LEMMA ChildPushed ==
  ASSUME NEW A \in Seq(Activations), NEW N \in Nat, NEW H \in Nat, NEW s,
         NEW deque \in Seq(Nat), Matched(A, N, H, s, deque),
         NEW B, Extends(A, B), NEW M \in Nat, N <= M, NEW I \in Nat, H <= I,
         NEW a, B[a].parent = TopFrame(s).act, ~TopFrame(s).helper,
         NEW f, FrameOK(B, M, I, f), f.act = TopFrame(s).act, f.helper = TopFrame(s).helper,
         f.node = 0, f.cont # 0, f.sync # 0,
         NEW g, FrameOK(B, M, I, g), g.act = a, g.helper, g.node # 0, g.cont = 0,
         NEW p, Pushes(p, s, f, g)
  PROVE  /\ p \in Stacks /\ Append(deque, a) \in Seq(Nat)
         /\ Matched(B, M, I, p, Append(deque, a))
PROOF
<1>1. B \in Seq(Activations)
  BY DEF Extends
<1>2. Matched(B, M, I, s, deque)
  BY MatchedGrows
<1>3. Ready(g) /\ LiesOn(B, g, f)
  BY DEF Ready, LiesOn
<1>4. p = push(SetTop(s, f), g)
  BY DEF Pushes
<1>5. /\ deque \in Seq(Nat) /\ M \in Nat /\ I \in Nat
      /\ FrameOK(B, M, I, f) /\ f.act = TopFrame(s).act /\ f.helper = TopFrame(s).helper
      /\ FrameOK(B, M, I, g)
  OBVIOUS
<1>6. p \in Stacks /\ Append(deque, g.act) \in Seq(Nat) /\ Matched(B, M, I, p, Append(deque, g.act))
  BY ONLY <1>1, <1>2, <1>3, <1>4, <1>5, Pushed
<1> QED
  BY <1>6

(* What Detach does to the activations and the orders. *)
LEMMA DetachGrows ==
  ASSUME ShadowInv, NEW w \in Workers, NEW kind \in {"spawn", "future"}, pc[w] \in {"run", "sync"},
         Detach(w, kind)
  PROVE  /\ Extends(acts, acts') /\ Len(acts') = Len(acts) + 1
         /\ acts'[Len(acts) + 1].kind = kind /\ acts'[Len(acts) + 1].parent = Act(w)
         /\ OrderInv' /\ NodeCount' = ContNode(TopFrame(shadow[w])) /\ NodeCount <= NodeCount'
         /\ NodeCount' \in Nat
         /\ ChildNode(TopFrame(shadow[w])) \in 0 .. NodeCount' /\ ChildNode(TopFrame(shadow[w])) # 0
PROOF
<1>1. /\ acts \in Seq(Activations) /\ NodeCount \in Nat /\ Len(heap) \in Nat /\ Len(acts) \in Nat
      /\ cur[w] \in Nat
  BY Finds
<1>2. /\ Act(w) \in 1 .. Len(acts) /\ Act(w) \in Nat
      /\ FrameOK(acts, NodeCount, Len(heap), TopFrame(shadow[w])) /\ Ready(TopFrame(shadow[w]))
  BY Runs
<1> PICK a : a = Act(w)
  OBVIOUS
<1> PICK r : r = NewAct(kind, a, cur[w])
  OBVIOUS
<1> PICK C : C = Append(acts, r)
  OBVIOUS
<1> PICK m \in Nat : m = Len(acts)
  BY <1>1
<1>3. r \in Activations /\ r.kind = kind /\ r.parent = a
  BY <1>1, <1>2, NewActType, SMTT(40) DEF Kinds
<1>4. Extends(acts, C) /\ Len(C) = m + 1 /\ C[m + 1] = r
  BY <1>1, <1>3, ActAdded
<1>5. C \in Seq(Activations) /\ a \in 1 .. Len(C) /\ m + 1 \in 1 .. Len(C)
  BY <1>2, <1>4 DEF Extends
<1> PICK B : B = [C EXCEPT ![a].at = cur[w]]
  OBVIOUS
<1>6. Extends(C, B)
  <2>1. {} \in SUBSET Nat
    OBVIOUS
  <2>2. Extends(C, [C EXCEPT ![a].at = cur[w]])
    BY ONLY <1>1, <1>5, <2>1, ActMarked
  <2> QED
    BY <2>2
<1>7. Len(B) = Len(C)
  <2>1. C[a] \in Activations
    BY <1>5, ElementOfSeq
  <2>2. [C[a] EXCEPT !.at = cur[w]] \in Activations
    BY <1>1, <2>1 DEF Activations
  <2>3. B = [C EXCEPT ![a] = [C[a] EXCEPT !.at = cur[w]]]
    OBVIOUS
  <2> QED
    BY <1>5, <2>2, <2>3, ExceptSeq
<1>8. acts' = B
  BY DEF Detach
<1>9. Extends(acts, acts') /\ Len(acts') = m + 1
  BY <1>4, <1>6, <1>7, <1>8, ExtendsTwice
<1>10. acts'[m + 1].kind = kind /\ acts'[m + 1].parent = a
  BY <1>3, <1>4, <1>5, <1>6, <1>8 DEF Extends
<1> PICK f : f = TopFrame(shadow[w])
  OBVIOUS
<1>11. f.node \in 1 .. NodeCount
  BY <1>1, <1>2, SMTT(40) DEF FrameOK, FramesOf, Ready
<1>12. /\ Placed(Detached(f).e, ContNode(f)) /\ Placed(Detached(f).h, ContNode(f))
       /\ ContNode(f) \in Nat /\ ChildNode(f) \in 1 .. ContNode(f)
       /\ NodeCount <= ContNode(f) /\ ChildNode(f) # 0
  BY <1>11, DetachedPlaced DEF ShadowInv
<1>13. om' = Detached(f)
  BY DEF Detach
<1> PICK M \in Nat : M = ContNode(f)
  BY <1>12
<1>14. NodeCount' = M
  BY <1>12, <1>13, PlacedCount DEF NodeCount
<1>15. OrderInv'
  BY <1>12, <1>13, <1>14 DEF OrderInv
<1> QED
  BY <1>9, <1>10, <1>12, <1>14, <1>15

(* The lists that do_detach_begin makes. *)
LEMMA DetachedHeapGrows ==
  ASSUME IsSequence(heap), NEW f, NEW t, t = DetachedHeap(f)
  PROVE  /\ IsSequence(t) /\ Len(t) \in Nat /\ Len(heap) \in Nat /\ Len(heap) <= Len(t)
         /\ First(f) => Len(heap) + 1 <= Len(t)
PROOF
<1>1. Len(heap) \in Nat
  BY LenProperties DEF IsSequence
<1>2. CASE First(f)
  <2>1. t = Append(heap, EmptyList)
    BY <1>2 DEF DetachedHeap
  <2> QED
    BY <1>1, <1>2, <2>1, SequenceGrows
<1>3. CASE ~First(f)
  BY <1>1, <1>3 DEF DetachedHeap
<1> QED
  BY <1>2, <1>3

(* do_detach_begin for a spawn *)
LEMMA SpawnStep ==
  ASSUME ShadowInv, NEW w \in Workers, Spawn(w)
  PROVE  ShadowInv'
PROOF
<1> PICK s : s = shadow[w]
  OBVIOUS
<1> PICK f : f = TopFrame(s)
  OBVIOUS
<1> PICK a : a = Len(acts) + 1
  OBVIOUS
<1> PICK x : x = ChildNode(f)
  OBVIOUS
<1>1. pc[w] \in {"run", "sync"} /\ Detach(w, "spawn") /\ ~f.helper
  BY DEF Spawn, Running, Detach
<1>2. /\ acts \in Seq(Activations) /\ NodeCount \in Nat /\ Len(heap) \in Nat /\ Len(acts) \in Nat
      /\ own[w] \in Seq(Nat) /\ pc[w] \in Points /\ cur[w] \in Nat
      /\ called_future \in [Workers -> BOOLEAN] /\ suspended \subseteq Deques /\ IsSequence(heap)
  BY Finds
<1>3. /\ Matched(acts, NodeCount, Len(heap), s, own[w])
      /\ FrameOK(acts, NodeCount, Len(heap), f) /\ Ready(f) /\ Act(w) = f.act
  BY <1>1, Runs
<1> PICK B : B = acts'
  OBVIOUS
<1> PICK M : M = NodeCount'
  OBVIOUS
<1>4. /\ Extends(acts, B) /\ Len(B) = a /\ B[a].kind = "spawn" /\ B[a].parent = f.act
      /\ OrderInv' /\ M = ContNode(f) /\ NodeCount <= M /\ M \in Nat
      /\ x \in 0 .. M /\ x # 0
  BY <1>1, <1>3, DetachGrows
<1> PICK I : I = Len(heap')
  OBVIOUS
<1>5. /\ IsSequence(heap') /\ I \in Nat /\ Len(heap) <= I
      /\ First(f) => Len(heap) + 1 <= I
  <2>1. heap' = DetachedHeap(f)
    BY DEF Spawn
  <2> QED
    BY <1>2, <2>1, DetachedHeapGrows
<1>6. Grows
  BY <1>4, <1>5 DEF Grows
<1> PICK h : h = DetachingParent(f)
  OBVIOUS
<1>7. /\ FrameOK(B, M, I, h) /\ h.act = f.act /\ h.helper = f.helper
      /\ h.node = 0 /\ h.cont # 0 /\ h.sync # 0
  BY <1>3, <1>4, <1>5, DetachingParentOK DEF Ready
<1> PICK g : g = NewFrame(a, TRUE, x, f.list, f.future_id)
  OBVIOUS
<1>8. FrameOK(B, M, I, g) /\ g.act = a /\ g.helper /\ g.node = x /\ g.cont = 0
  <2>1. f.list \in 1 .. I /\ f.future_id \in 0 .. Len(B) /\ a \in 1 .. Len(B)
    <3>1. FrameOK(B, M, I, f)
      BY <1>2, <1>3, <1>4, <1>5, FrameGrows
    <3>2. f.list \in 1 .. I /\ f.future_id \in 0 .. Len(B)
      BY <3>1 DEF FrameOK, FramesOf
    <3>3. a \in 1 .. a
      BY <1>2
    <3> QED
      BY <1>4, <3>2, <3>3
  <2>2. 0 \in 0 .. M /\ 0 \in 0 .. I /\ TRUE \in BOOLEAN
    BY <1>4, <1>5
  <2>3. g \in FramesOf(B, M, I)
    BY <1>4, <2>1, <2>2, Zenon DEF NewFrame, FramesOf
  <2>4. g.act = a /\ g.helper /\ g.node = x /\ g.cont = 0 /\ g.steal_cont = 0
    BY DEF NewFrame
  <2> QED
    BY <1>4, <2>3, <2>4 DEF FrameOK
<1> PICK p : p = push(SetTop(s, h), g)
  OBVIOUS
<1> PICK deque : deque = Append(own[w], a)
  OBVIOUS
<1>9. p \in Stacks /\ deque \in Seq(Nat) /\ Matched(B, M, I, p, deque)
  <2>1. Pushes(p, s, h, g)
    BY DEF Pushes
  <2>2. /\ acts \in Seq(Activations) /\ NodeCount \in Nat /\ Len(heap) \in Nat
        /\ own[w] \in Seq(Nat) /\ Matched(acts, NodeCount, Len(heap), s, own[w])
        /\ Extends(acts, B) /\ M \in Nat /\ NodeCount <= M /\ I \in Nat /\ Len(heap) <= I
        /\ B[a].parent = TopFrame(s).act /\ ~TopFrame(s).helper
    BY <1>1, <1>2, <1>3, <1>4, <1>5
  <2>3. /\ FrameOK(B, M, I, h) /\ h.act = TopFrame(s).act /\ h.helper = TopFrame(s).helper
        /\ h.node = 0 /\ h.cont # 0 /\ h.sync # 0
    BY <1>7
  <2>4. FrameOK(B, M, I, g) /\ g.act = a /\ g.helper /\ g.node # 0 /\ g.cont = 0
    BY <1>4, <1>8
  <2>5. /\ p \in Stacks /\ Append(own[w], a) \in Seq(Nat)
        /\ Matched(B, M, I, p, Append(own[w], a))
    BY ONLY <2>1, <2>2, <2>3, <2>4, ChildPushed
  <2> QED
    BY <2>5
<1>10. /\ shadow' = [shadow EXCEPT ![w] = p] /\ cur' = [cur EXCEPT ![w] = Len(strands) + 1]
       /\ strands' = Append(strands, Strand(TopFrame(p), {cur[w]}))
       /\ called_future' = called_future /\ pc' = pc /\ suspended' = suspended
       /\ own' = [own EXCEPT ![w] = deque]
  BY <1>2 DEF Spawn, Continue, Detach, ShadowInv, Shapes
<1>11. StrandsOK
  BY <1>2, <1>10, StrandAdded DEF StrandsOK
<1>12. Moves(w, p, deque, pc[w])
  BY <1>10 DEF Moves, ShadowInv, Shapes
<1>13. HasStack(acts', NodeCount', Len(heap'), pc[w], p, deque)
  BY <1>1, <1>9, RunsOn
<1> QED
  BY <1>2, <1>6, <1>9, <1>10, <1>11, <1>12, <1>13, WorkerStep

(* There are at most as many futures as activations. *)
LEMMA FutureIdsBound ==
  ASSUME acts \in Seq(Activations)
  PROVE  FutureIds \in Nat /\ FutureIds + 1 \in 0 .. Len(acts) + 1
PROOF
<1> DEFINE T == {a \in DOMAIN acts : acts[a].kind = "future"}
<1>1. Len(acts) \in Nat /\ DOMAIN acts = 1 .. Len(acts)
  BY LenProperties
<1>2. IsFiniteSet(1 .. Len(acts)) /\ Cardinality(1 .. Len(acts)) = Len(acts)
  BY <1>1, FS_Interval
<1>3. T \subseteq 1 .. Len(acts)
  BY <1>1
<1> HIDE DEF T
<1>4. IsFiniteSet(T) /\ Cardinality(T) <= Len(acts)
  BY <1>2, <1>3, FS_Subset
<1>5. Cardinality(T) \in Nat
  BY <1>4, FS_CardinalityType
<1>6. FutureIds = Cardinality(T)
  BY DEF FutureIds, T
<1> QED
  BY <1>1, <1>4, <1>5, <1>6

(* CilkFutureCreate *)
LEMMA FutureCreateStep ==
  ASSUME ShadowInv, NEW w \in Workers, CilkFutureCreate(w)
  PROVE  ShadowInv'
PROOF
<1> PICK s : s = shadow[w]
  OBVIOUS
<1> PICK f : f = TopFrame(s)
  OBVIOUS
<1> PICK a : a = Len(acts) + 1
  OBVIOUS
<1> PICK x : x = ChildNode(f)
  OBVIOUS
<1>1. pc[w] \in {"run", "sync"} /\ Detach(w, "future") /\ ~f.helper
  BY DEF CilkFutureCreate, Running, Detach
<1>2. /\ acts \in Seq(Activations) /\ NodeCount \in Nat /\ Len(heap) \in Nat /\ Len(acts) \in Nat
      /\ own[w] \in Seq(Nat) /\ pc[w] \in Points /\ cur[w] \in Nat
      /\ called_future \in [Workers -> BOOLEAN] /\ suspended \subseteq Deques /\ IsSequence(heap)
  BY Finds
<1>3. /\ Matched(acts, NodeCount, Len(heap), s, own[w])
      /\ FrameOK(acts, NodeCount, Len(heap), f) /\ Ready(f) /\ Act(w) = f.act
  BY <1>1, Runs
<1> PICK B : B = acts'
  OBVIOUS
<1> PICK M : M = NodeCount'
  OBVIOUS
<1>4. /\ Extends(acts, B) /\ Len(B) = a /\ B[a].kind = "future" /\ B[a].parent = f.act
      /\ OrderInv' /\ M = ContNode(f) /\ NodeCount <= M /\ M \in Nat
      /\ x \in 0 .. M /\ x # 0
  BY <1>1, <1>3, DetachGrows
<1> PICK list : list = IF Empty(heap[f.list]) THEN ListOfNode(Node(f.node), f.future_id)
                       ELSE ListWithNode(om, heap[f.list], Node(f.node), f.future_id)
  OBVIOUS
<1> PICK created : created = Append(DetachedHeap(f), list)
  OBVIOUS
<1> PICK I : I = Len(created)
  OBVIOUS
<1>5. /\ IsSequence(created) /\ I \in Nat /\ I \in 1 .. I
      /\ Len(heap) <= I
      /\ First(f) => Len(heap) + 1 <= I
  <2> PICK t : t = DetachedHeap(f)
    OBVIOUS
  <2>1. /\ IsSequence(t) /\ Len(t) \in Nat /\ Len(heap) <= Len(t)
        /\ First(f) => Len(heap) + 1 <= Len(t)
    BY <1>2, DetachedHeapGrows
  <2>2. IsSequence(created) /\ I = Len(t) + 1
    BY <2>1, SequenceGrows
  <2> QED
    BY <1>2, <2>1, <2>2
<1>6. heap' = created
  BY DEF CilkFutureCreate
<1>7. Grows
  BY <1>4, <1>5, <1>6 DEF Grows
<1> PICK k : k = DetachingParent(f)
  OBVIOUS
<1>8. /\ FrameOK(B, M, I, k) /\ k.act = f.act /\ k.helper = f.helper
      /\ k.node = 0 /\ k.cont # 0 /\ k.sync # 0
  BY <1>3, <1>4, <1>5, DetachingParentOK DEF Ready
<1> PICK h : h = WithList(k, I)
  OBVIOUS
<1>9. /\ FrameOK(B, M, I, h) /\ h.act = f.act /\ h.helper = f.helper
      /\ h.node = 0 /\ h.cont # 0 /\ h.sync # 0
  <2>1. /\ FrameOK(B, M, I, WithList(k, I))
        /\ WithList(k, I).act = k.act /\ WithList(k, I).helper = k.helper
        /\ WithList(k, I).node = k.node /\ WithList(k, I).cont = k.cont
        /\ WithList(k, I).sync = k.sync
    <3>1. M \in Nat /\ I \in Nat /\ I \in 1 .. I /\ FrameOK(B, M, I, k)
      BY <1>4, <1>5, <1>8
    <3> QED
      BY ONLY <3>1, WithListOK
  <2>2. h = WithList(k, I)
    OBVIOUS
  <2> QED
    BY ONLY <1>8, <2>1, <2>2
<1> PICK g : g = NewFrame(a, TRUE, x, I, FutureIds + 1)
  OBVIOUS
<1>10. FrameOK(B, M, I, g) /\ g.act = a /\ g.helper /\ g.node = x /\ g.cont = 0
  <2>1. FutureIds + 1 \in 0 .. Len(B) /\ a \in 1 .. Len(B)
    BY <1>2, <1>4, FutureIdsBound
  <2>2. 0 \in 0 .. M /\ 0 \in 0 .. I /\ TRUE \in BOOLEAN
    BY <1>4, <1>5
  <2>3. g \in FramesOf(B, M, I)
    BY <1>4, <1>5, <2>1, <2>2, ZenonT(60) DEF NewFrame, FramesOf
  <2>4. g.act = a /\ g.helper /\ g.node = x /\ g.cont = 0 /\ g.steal_cont = 0
    BY DEF NewFrame
  <2> QED
    BY <1>4, <2>3, <2>4 DEF FrameOK
<1> PICK p : p = push(SetTop(s, h), g)
  OBVIOUS
<1> PICK deque : deque = Append(own[w], a)
  OBVIOUS
<1>11. p \in Stacks /\ deque \in Seq(Nat) /\ Matched(B, M, I, p, deque)
  <2>1. Pushes(p, s, h, g)
    BY DEF Pushes
  <2>2. /\ acts \in Seq(Activations) /\ NodeCount \in Nat /\ Len(heap) \in Nat
        /\ own[w] \in Seq(Nat) /\ Matched(acts, NodeCount, Len(heap), s, own[w])
        /\ Extends(acts, B) /\ M \in Nat /\ NodeCount <= M /\ I \in Nat /\ Len(heap) <= I
        /\ B[a].parent = TopFrame(s).act /\ ~TopFrame(s).helper
    BY <1>1, <1>2, <1>3, <1>4, <1>5
  <2>3. /\ FrameOK(B, M, I, h) /\ h.act = TopFrame(s).act /\ h.helper = TopFrame(s).helper
        /\ h.node = 0 /\ h.cont # 0 /\ h.sync # 0
    BY <1>9
  <2>4. FrameOK(B, M, I, g) /\ g.act = a /\ g.helper /\ g.node # 0 /\ g.cont = 0
    BY <1>4, <1>10
  <2>5. /\ p \in Stacks /\ Append(own[w], a) \in Seq(Nat)
        /\ Matched(B, M, I, p, Append(own[w], a))
    BY ONLY <2>1, <2>2, <2>3, <2>4, ChildPushed
  <2> QED
    BY <2>5
<1>12. /\ shadow' = [shadow EXCEPT ![w] = p] /\ cur' = [cur EXCEPT ![w] = Len(strands) + 1]
       /\ strands' = Append(strands, Strand(TopFrame(p), {cur[w]}))
       /\ called_future' = called_future /\ pc' = pc /\ suspended' = suspended
       /\ own' = [own EXCEPT ![w] = deque]
  BY <1>2 DEF CilkFutureCreate, Continue, Detach, WithList, ShadowInv, Shapes
<1>13. StrandsOK
  BY <1>2, <1>12, StrandAdded DEF StrandsOK
<1>14. Moves(w, p, deque, pc[w])
  BY <1>12 DEF Moves, ShadowInv, Shapes
<1>15. HasStack(acts', NodeCount', Len(heap'), pc[w], p, deque)
  <2>1. HasStack(B, M, I, pc[w], p, deque)
    BY ONLY <1>1, <1>11, RunsOn
  <2>2. acts' = B /\ NodeCount' = M /\ Len(heap') = I
    BY <1>6
  <2> QED
    BY <2>1, <2>2
<1> QED
  BY <1>2, <1>7, <1>11, <1>12, <1>13, <1>14, <1>15, WorkerStep

(* Who can be stolen from. *)
LEMMA Victim ==
  ASSUME ShadowInv, NEW v \in Workers, CanSteal(own[v])
  PROVE  \E n \in Nat :
           /\ Stealable(NodeCount, Len(heap), shadow[v], own[v], n)
           /\ \/ pc[v] \in {"run", "sync"} /\ n = Len(own[v])
              \/ pc[v] = "finished" /\ n = Len(own[v]) - 1 /\ Popped(acts, shadow[v], own[v])
PROOF
<1>1. /\ own[v] \in Seq(Nat) /\ pc[v] \in Points
      /\ HasStack(acts, NodeCount, Len(heap), pc[v], shadow[v], own[v])
  BY Finds
<1>2. Len(own[v]) \in Nat
  BY <1>1, LenProperties
<1>3. Len(own[v]) > 1
  BY <1>2 DEF CanSteal
<1>4. pc[v] # "idle"
  <2>1. Len(<<>>) = 0
    OBVIOUS
  <2> QED
    BY <1>1, <1>3, <2>1 DEF HasStack
<1>5. pc[v] # "returning"
  <2>1. pc[v] = "returning" => Len(own[v]) = 1
    BY <1>1 DEF HasStack
  <2>2. \A l \in Nat : l > 1 => l # 1
    OBVIOUS
  <2>3. Len(own[v]) # 1
    BY <1>2, <1>3, <2>2
  <2> QED
    BY <2>1, <2>3
<1>6. CASE pc[v] \in {"run", "sync"}
  BY <1>1, <1>2, <1>4, <1>6 DEF HasStack, Stealable
<1>7. CASE pc[v] = "finished"
  <2>1. /\ StackOK(acts, NodeCount, Len(heap), shadow[v])
        /\ Covers(shadow[v], own[v], Len(own[v]) - 1) /\ Popped(acts, shadow[v], own[v])
    BY <1>1, <1>3, <1>7 DEF HasStack
  <2>2. Len(own[v]) - 1 \in Nat
    BY <1>2, <1>3
  <2> QED
    BY <1>7, <2>1, <2>2 DEF Stealable
<1> QED
  BY <1>1, <1>4, <1>5, <1>6, <1>7 DEF Points

(* kNormal *)
LEMMA StealStep ==
  ASSUME ShadowInv, NEW w \in Workers, NEW v \in Workers, Steal(w, v)
  PROVE  ShadowInv'
PROOF
<1>1. w # v /\ CanSteal(own[v])
  BY DEF Steal, TakeFrames
<1>2. /\ acts \in Seq(Activations) /\ NodeCount \in Nat /\ Len(heap) \in Nat
      /\ own[v] \in Seq(Nat) /\ pc[v] \in Points
      /\ called_future \in [Workers -> BOOLEAN] /\ suspended \subseteq Deques /\ IsSequence(heap)
  BY Finds
<1> PICK s : s = shadow[v]
  OBVIOUS
<1> PICK deque : deque = own[v]
  OBVIOUS
<1>3. PICK n \in Nat :
        /\ Stealable(NodeCount, Len(heap), s, deque, n)
        /\ \/ pc[v] \in {"run", "sync"} /\ n = Len(deque)
           \/ pc[v] = "finished" /\ n = Len(deque) - 1 /\ Popped(acts, s, deque)
  BY <1>1, Victim
<1>4. PICK i \in Nat : i = StealAt(deque)
  <2>1. StealAt(deque) \in 1 .. Len(deque) - 1
    BY <1>1, <1>2, StealAtFirst
  <2> QED
    BY <2>1
<1> PICK p : p = SetTop(StolenFrames(s), InitStrand(TopFrame(StolenFrames(s))))
  OBVIOUS
<1> PICK q : q = LeftFrames(s)
  OBVIOUS
<1> PICK taken : taken = SubSeq(deque, 1, i)
  OBVIOUS
<1> PICK rest : rest = SubSeq(deque, i + 1, Len(deque))
  OBVIOUS
<1>5. IsLoot(p, s) /\ IsLeft(q, s) /\ IsCut(i, deque) /\ IsRest(rest, i, deque)
      /\ deque \in Seq(Nat) /\ Len(deque) \in Nat
  BY <1>2, <1>4, LenProperties DEF IsLoot, IsLeft, IsCut, IsRest
<1>6. /\ StackOK(acts, NodeCount, Len(heap), p) /\ taken \in Seq(Nat)
      /\ Covers(p, taken, Len(taken)) /\ p \in Stacks
  <2>1. /\ StackOK(acts, NodeCount, Len(heap), p)
        /\ SubSeq(deque, 1, i) \in Seq(Nat) /\ Len(SubSeq(deque, 1, i)) = i
        /\ Covers(p, SubSeq(deque, 1, i), i)
    <3>1. acts \in Seq(Activations) /\ NodeCount \in Nat /\ Len(heap) \in Nat /\ n \in Nat /\ i \in Nat
      BY <1>2
    <3> QED
      BY ONLY <1>3, <1>5, <3>1, LootOK
  <2> QED
    BY <2>1 DEF StackOK
<1>7. /\ StackOK(acts, NodeCount, Len(heap), q) /\ rest \in Seq(Nat)
      /\ Len(rest) = Len(deque) - i /\ Len(rest) > 0 /\ i \in 1 .. n
      /\ i < n => Covers(q, rest, n - i)
      /\ i = n => n # Len(deque)
      /\ Popped(acts, s, deque) => Popped(acts, q, rest)
  <2>1. acts \in Seq(Activations) /\ NodeCount \in Nat /\ Len(heap) \in Nat /\ n \in Nat /\ i \in Nat
    BY <1>2
  <2> QED
    BY ONLY <1>3, <1>5, <2>1, LeftOK
<1>8. q \in Stacks
  BY <1>7 DEF StackOK
<1>9. HasStack(acts, NodeCount, Len(heap), "run", p, taken)
  BY <1>6, RunsOn DEF Matched
<1>10. HasStack(acts, NodeCount, Len(heap), pc[v], q, rest)
  <2>1. CASE pc[v] \in {"run", "sync"} /\ n = Len(deque)
    <3>1. i < n /\ n - i = Len(rest)
      BY <1>7, <2>1
    <3>2. Covers(q, rest, Len(rest))
      BY <1>7, <3>1
    <3> QED
      BY <1>7, <2>1, <3>2, RunsOn DEF Matched
  <2>2. CASE pc[v] = "finished" /\ n = Len(deque) - 1 /\ Popped(acts, s, deque)
    <3>1. Len(rest) > 1 => i < n /\ n - i = Len(rest) - 1
      <4>1. /\ Len(deque) \in Nat /\ n \in Nat /\ i \in 1 .. n
            /\ Len(rest) = Len(deque) - i /\ n = Len(deque) - 1
        BY <1>2, <1>5, <1>7, <2>2
      <4> QED
        BY ONLY <4>1
    <3>2. Len(rest) > 1 => Covers(q, rest, Len(rest) - 1)
      BY <1>7, <3>1
    <3> QED
      BY <1>7, <2>2, <3>2 DEF HasStack
  <2> QED
    BY <1>3, <2>1, <2>2
<1>11. /\ om' = om /\ heap' = heap /\ called_future' = called_future /\ acts' = acts
       /\ suspended' = suspended /\ pc' = [pc EXCEPT ![w] = "run"]
       /\ cur' = [cur EXCEPT ![w] = Len(strands) + 1]
       /\ strands' = Append(strands, Strand(InitStrand(TopFrame(StolenFrames(s))),
                                            {acts[deque[StealAt(deque)]].at}))
  BY DEF Steal, TakeFrames
<1>12. /\ shadow' = [shadow EXCEPT ![w] = p, ![v] = q]
       /\ own' = [own EXCEPT ![w] = taken, ![v] = rest]
  <2>1. /\ shadow' = [shadow EXCEPT ![w] = SetTop(StolenFrames(shadow[v]),
                                                  InitStrand(TopFrame(StolenFrames(shadow[v])))),
                                    ![v] = LeftFrames(@)]
        /\ own' = [own EXCEPT ![w] = SubSeq(own[v], 1, StealAt(own[v])),
                              ![v] = SubSeq(@, StealAt(own[v]) + 1, Len(@))]
    BY DEF Steal
  <2>2. shadow \in [Workers -> Stacks] /\ own \in [Workers -> Seq(Nat)]
    BY DEF ShadowInv, Shapes
  <2> QED
    BY <1>1, <1>4, <2>1, <2>2
<1>13. /\ shadow' \in [Workers -> Stacks] /\ own' \in [Workers -> Seq(Nat)] /\ pc' \in [Workers -> Points]
       /\ shadow'[w] = p /\ own'[w] = taken /\ pc'[w] = "run"
       /\ shadow'[v] = q /\ own'[v] = rest /\ pc'[v] = pc[v]
       /\ \A u \in Workers : u # w /\ u # v =>
            shadow'[u] = shadow[u] /\ own'[u] = own[u] /\ pc'[u] = pc[u]
  <2>1. shadow \in [Workers -> Stacks] /\ own \in [Workers -> Seq(Nat)] /\ pc \in [Workers -> Points]
        /\ "run" \in Points
    BY DEF ShadowInv, Shapes, Points
  <2>2. pc' = [pc EXCEPT ![w] = "run"]
    BY <1>11
  <2> QED
    BY ONLY <1>1, <1>6, <1>7, <1>8, <1>12, <2>1, <2>2
<1>14. StrandsOK
  BY <1>2, <1>11, StrandAdded DEF StrandsOK
<1>15. Grows /\ NodeCount' = NodeCount
  BY <1>2, <1>11, NothingGrows, ExtendsSame
<1>16. Shapes'
  BY <1>2, <1>11, <1>13, <1>14 DEF Shapes, StrandsOK
<1>17. WorkerOK(w)' /\ WorkerOK(v)'
  BY <1>9, <1>10, <1>11, <1>13, <1>15 DEF WorkerOK
<1> QED
  BY <1>11, <1>13, <1>15, <1>16, <1>17, StepConcludes

(* kSuspended and kResumable *)
LEMMA StealSuspendedStep ==
  ASSUME ShadowInv, NEW w \in Workers, NEW d \in suspended, StealSuspended(w, d)
  PROVE  ShadowInv'
PROOF
<1>2. /\ acts \in Seq(Activations) /\ NodeCount \in Nat /\ Len(heap) \in Nat
      /\ called_future \in [Workers -> BOOLEAN] /\ suspended \subseteq Deques /\ IsSequence(heap)
  BY Finds
<1> PICK s : s = d.stack
  OBVIOUS
<1> PICK deque : deque = d.own
  OBVIOUS
<1>1. CanSteal(deque)
  BY DEF StealSuspended, TakeFrames
<1>d. deque \in Seq(Nat) /\ d \in Deques
  BY <1>2 DEF Deques
<1> PICK n : n = Len(deque)
  OBVIOUS
<1>3. n \in Nat /\ Stealable(NodeCount, Len(heap), s, deque, n)
  BY <1>1, <1>d, LenProperties DEF ShadowInv, DequeOK, Stealable
<1>4. PICK i \in Nat : i = StealAt(deque)
  <2>1. StealAt(deque) \in 1 .. Len(deque) - 1
    BY <1>1, <1>d, StealAtFirst
  <2> QED
    BY <2>1
<1> PICK p : p = SetTop(StolenFrames(s), InitStrand(TopFrame(StolenFrames(s))))
  OBVIOUS
<1> PICK q : q = LeftFrames(s)
  OBVIOUS
<1> PICK taken : taken = SubSeq(deque, 1, i)
  OBVIOUS
<1> PICK rest : rest = SubSeq(deque, i + 1, Len(deque))
  OBVIOUS
<1>5. IsLoot(p, s) /\ IsLeft(q, s) /\ IsCut(i, deque) /\ IsRest(rest, i, deque)
  BY <1>4 DEF IsLoot, IsLeft, IsCut, IsRest
<1>6. /\ StackOK(acts, NodeCount, Len(heap), p) /\ taken \in Seq(Nat)
      /\ Covers(p, taken, Len(taken)) /\ p \in Stacks
  <2>1. /\ StackOK(acts, NodeCount, Len(heap), p)
        /\ SubSeq(deque, 1, i) \in Seq(Nat) /\ Len(SubSeq(deque, 1, i)) = i
        /\ Covers(p, SubSeq(deque, 1, i), i)
    <3>1. acts \in Seq(Activations) /\ NodeCount \in Nat /\ Len(heap) \in Nat /\ i \in Nat
      BY <1>2
    <3> QED
      BY ONLY <1>d, <1>3, <1>5, <3>1, LootOK
  <2> QED
    BY <2>1 DEF StackOK
<1>7. /\ StackOK(acts, NodeCount, Len(heap), q) /\ rest \in Seq(Nat)
      /\ Len(rest) = Len(deque) - i /\ Len(rest) > 0 /\ i \in 1 .. n
      /\ i < n => Covers(q, rest, n - i)
      /\ i = n => n # Len(deque)
      /\ Popped(acts, s, deque) => Popped(acts, q, rest)
  <2>1. acts \in Seq(Activations) /\ NodeCount \in Nat /\ Len(heap) \in Nat /\ i \in Nat
    BY <1>2
  <2> QED
    BY ONLY <1>d, <1>3, <1>5, <2>1, LeftOK
<1>8. Covers(q, rest, Len(rest)) /\ q \in Stacks
  <2>1. i < n /\ n - i = Len(rest)
    BY <1>3, <1>7
  <2> QED
    BY <1>7, <2>1 DEF StackOK
<1> PICK e : e = [d EXCEPT !.stack = q, !.own = rest]
  OBVIOUS
<1>9. e \in Deques /\ e.stack = q /\ e.own = rest
  BY <1>d, <1>7, <1>8 DEF Deques
<1>10. /\ om' = om /\ heap' = heap /\ called_future' = called_future /\ acts' = acts
       /\ suspended' = (suspended \ {d}) \cup {e} /\ pc' = [pc EXCEPT ![w] = "run"]
       /\ cur' = [cur EXCEPT ![w] = Len(strands) + 1]
       /\ strands' = Append(strands, Strand(InitStrand(TopFrame(StolenFrames(s))),
                                            {acts[deque[StealAt(deque)]].at}))
       /\ shadow' = [shadow EXCEPT ![w] = p] /\ own' = [own EXCEPT ![w] = taken]
  BY <1>4 DEF StealSuspended, TakeFrames
<1>11. StrandsOK
  BY <1>2, <1>10, StrandAdded DEF StrandsOK
<1>12. Grows /\ NodeCount' = NodeCount
  BY <1>2, <1>10, NothingGrows, ExtendsSame
<1>13. DequeOK(e)'
  BY <1>7, <1>8, <1>9, <1>10, <1>12 DEF DequeOK
<1>14. Moves(w, p, taken, "run") /\ "run" \in Points
  BY <1>10 DEF Moves, Points
<1>15. HasStack(acts', NodeCount', Len(heap'), "run", p, taken)
  BY <1>6, <1>10, <1>12, RunsOn DEF Matched
<1>16. suspended' \subseteq Deques /\ \A x \in suspended' : x \in suspended \/ DequeOK(x)'
  BY <1>2, <1>9, <1>10, <1>13
<1> QED
  BY <1>6, <1>11, <1>12, <1>14, <1>15, <1>16, WorkerStep

-----------------------------------------------------------------------------
(* The invariant *)

LEMMA InitInv ==
  ASSUME Init
  PROVE  ShadowInv
PROOF
<1>1. /\ om = [e |-> [n \in {1} |-> 1], h |-> [n \in {1} |-> 1]] /\ heap = <<EmptyList>>
      /\ called_future = [w \in Workers |-> FALSE]
      /\ strands = <<[node |-> 1, list |-> 1, future_id |-> 0, anc |-> {}]>>
      /\ acts = <<NewAct("root", 0, 0)>> /\ suspended = {}
  BY DEF Init
<1>2. PICK first \in Workers :
        /\ shadow = [w \in Workers |-> IF w = first
                       THEN push(EmptyStack, NewFrame(1, FALSE, 1, 1, 0)) ELSE EmptyStack]
        /\ cur = [w \in Workers |-> IF w = first THEN 1 ELSE 0]
        /\ own = [w \in Workers |-> IF w = first THEN <<1>> ELSE <<>>]
        /\ pc = [w \in Workers |-> IF w = first THEN "run" ELSE "idle"]
  BY DEF Init
<1>3. /\ Len(heap) = 1 /\ IsSequence(heap) /\ Len(strands) = 1 /\ IsSequence(strands)
  <2>1. \A x : /\ Len(<<x>>) = 1 /\ <<x>> \in Seq({x}) /\ <<x>>[1] = x /\ DOMAIN <<x>> = 1 .. 1
    OBVIOUS
  <2>2. \A x : {<<x>>[i] : i \in DOMAIN <<x>>} = {x}
    BY <2>1
  <2> QED
    BY <1>1, <2>1, <2>2 DEF IsSequence
<1>4. Placed(om.e, 1) /\ Placed(om.h, 1)
  <2>1. om.e = [x \in {1} |-> 1] /\ om.h = [x \in {1} |-> 1]
    BY <1>1
  <2>2. 1 .. 1 = {1}
    OBVIOUS
  <2> QED
    BY <2>1, <2>2 DEF Placed, On
<1>5. NodeCount = 1 /\ OrderInv
  <2>1. NodeCount = 1
    BY <1>4, PlacedCount DEF NodeCount
  <2> QED
    BY <1>4, <2>1 DEF OrderInv
<1>6. /\ acts \in Seq(Activations) /\ Len(acts) = 1 /\ DOMAIN acts = 1 .. 1 /\ acts[1].kind = "root"
  <2> PICK r : r = NewAct("root", 0, 0)
    OBVIOUS
  <2>1. r \in Activations /\ r.kind = "root"
    BY NewActType DEF Kinds
  <2>2. acts = <<r>>
    BY <1>1
  <2> QED
    BY <2>1, <2>2
<1> PICK g : g = NewFrame(1, FALSE, 1, 1, 0)
  OBVIOUS
<1> PICK s : s = push(EmptyStack, g)
  OBVIOUS
<1>7. FrameOK(acts, 1, 1, g) /\ g.act = 1 /\ g.cont = 0 /\ g.node = 1
  <2>1. 0 \in 0 .. 1 /\ 1 \in 0 .. 1 /\ 1 \in 1 .. 1 /\ FALSE \in BOOLEAN
    OBVIOUS
  <2>2. 1 \in 1 .. Len(acts) /\ 0 \in 0 .. Len(acts)
    BY <1>6
  <2>3. g \in FramesOf(acts, 1, 1)
    BY <2>1, <2>2, Zenon DEF NewFrame, FramesOf
  <2>4. g.act = 1 /\ ~g.helper /\ g.cont = 0 /\ g.node = 1 /\ g.steal_cont = 0
    BY DEF NewFrame
  <2> QED
    BY <1>6, <2>3, <2>4 DEF FrameOK
<1>8. EmptyStack \in Stacks /\ Len(EmptyStack.frames) = 0 /\ EmptyStack.tail = 1
  <2>1. <<>> \in Seq(Frames) /\ Len(<<>>) = 0
    OBVIOUS
  <2> QED
    BY <2>1 DEF EmptyStack, Stacks
<1>9. /\ s \in Stacks /\ s.tail = 1 /\ Len(s.frames) = 1 /\ s.frames[1] = g
  <2>1. g \in Frames
    BY <1>6, <1>7, FrameIsFrame
  <2>2. /\ s \in Stacks /\ s.tail = EmptyStack.tail
        /\ Len(s.frames) = Len(EmptyStack.frames) + 1
        /\ s.frames[Len(EmptyStack.frames) + 1] = g
    BY <1>8, <2>1, PushView
  <2>3. Len(EmptyStack.frames) + 1 = 1
    BY ONLY <1>8
  <2> QED
    BY ONLY <1>8, <2>2, <2>3
<1>10. StackOK(acts, 1, 1, s)
  <2>1. \A i \in 1 .. 1 : i = 1
    OBVIOUS
  <2>2. \A i \in 1 .. Len(s.frames) : FrameOK(acts, 1, 1, s.frames[i])
    BY <1>7, <1>9, <2>1
  <2>3. \A i \in 1 .. Len(s.frames) - 1 : FALSE
    BY ONLY <1>9
  <2>4. TopFrame(s) = g
    BY ONLY <1>9 DEF TopFrame
  <2>5. Ready(TopFrame(s))
    BY ONLY <1>7, <2>4 DEF Ready
  <2>6. s.tail \in 1 .. Len(s.frames) /\ s.frames[1].act = 1
    BY ONLY <1>7, <1>9
  <2> QED
    BY ONLY <1>9, <2>2, <2>3, <2>5, <2>6 DEF StackOK
<1>11. Covers(s, <<1>>, Len(<<1>>)) /\ <<1>> \in Seq(Nat)
  <2>1. Len(<<1>>) = 1 /\ <<1>>[1] = 1 /\ <<1>> \in Seq(Nat)
    OBVIOUS
  <2>2. Len(s.frames) - s.tail + 1 = 1
    BY ONLY <1>9
  <2>3. ASSUME NEW i \in 1 .. 1 PROVE <<1>>[i] = s.frames[s.tail + i - 1].act
    <3>1. i = 1 /\ s.tail + i - 1 = 1
      BY ONLY <1>9, <2>3
    <3> QED
      BY ONLY <1>7, <1>9, <2>1, <3>1
  <2> QED
    BY ONLY <2>1, <2>2, <2>3 DEF Covers
<1>12. ASSUME NEW w \in Workers PROVE WorkerOK(w)
  <2>1. CASE w = first
    <3>1. shadow[w] = s /\ own[w] = <<1>> /\ pc[w] = "run"
      BY <1>2, <2>1
    <3>2. HasStack(acts, 1, 1, "run", s, <<1>>)
      BY <1>10, <1>11, RunsOn DEF Matched
    <3> QED
      BY <1>3, <1>5, <3>1, <3>2 DEF WorkerOK
  <2>2. CASE w # first
    BY <1>2, <2>2 DEF WorkerOK, HasStack
  <2> QED
    BY <2>1, <2>2
<1>13. Shapes
  <2>1. <<>> \in Seq(Nat) /\ "run" \in Points /\ "idle" \in Points /\ 0 \in 0 .. 1 /\ 1 \in 0 .. 1
    BY DEF Points
  <2>2. shadow \in [Workers -> Stacks]
    BY <1>2, <1>8, <1>9
  <2>3. own \in [Workers -> Seq(Nat)]
    BY <1>2, <1>11, <2>1
  <2>4. pc \in [Workers -> Points]
    BY <1>2, <2>1
  <2>5. cur \in [Workers -> 0 .. Len(strands)]
    BY <1>2, <1>3, <2>1
  <2>6. called_future \in [Workers -> BOOLEAN] /\ suspended \subseteq Deques
    BY <1>1
  <2> QED
    BY <1>3, <1>6, <2>2, <2>3, <2>4, <2>5, <2>6 DEF Shapes
<1> QED
  BY <1>1, <1>5, <1>6, <1>12, <1>13 DEF ShadowInv, RootOK

LEMMA StepInv ==
  ASSUME ShadowInv, [Next]_vars
  PROVE  ShadowInv'
PROOF
<1>1. CASE Next
  <2> PICK w \in Workers :
        \/ Enter(w) \/ LeaveCall(w)
        \/ Spawn(w) \/ LeaveSpawn(w) \/ LeaveStolen(w) \/ ReturnFromSpawn(w)
        \/ SyncBegin(w) \/ SyncEnd(w) \/ SyncWait(w)
        \/ CilkFutureCreate(w) \/ CilkFutureFinish(w) \/ LeaveFuture(w)
        \/ \E a \in DOMAIN acts : CilkFutureGet(w, a) \/ CilkFutureGetSuspend(w, a)
        \/ \E v \in Workers : Steal(w, v)
        \/ \E d \in suspended : StealSuspended(w, d) \/ Resume(w, d)
    BY <1>1 DEF Next
  <2>1. CASE Enter(w)
    BY <2>1, EnterStep
  <2>2. CASE LeaveCall(w)
    BY <2>2, LeaveCallStep
  <2>3. CASE Spawn(w)
    BY <2>3, SpawnStep
  <2>4. CASE LeaveSpawn(w)
    BY <2>4, LeaveSpawnStep
  <2>5. CASE LeaveStolen(w)
    BY <2>5, LeaveStolenStep
  <2>6. CASE ReturnFromSpawn(w)
    BY <2>6, ReturnFromSpawnStep
  <2>7. CASE SyncBegin(w)
    BY <2>7, SyncBeginStep
  <2>8. CASE SyncEnd(w)
    BY <2>8, SyncEndStep
  <2>9. CASE SyncWait(w)
    BY <2>9, SyncWaitStep
  <2>10. CASE CilkFutureCreate(w)
    BY <2>10, FutureCreateStep
  <2>11. CASE CilkFutureFinish(w)
    BY <2>11, FutureFinishStep
  <2>12. CASE LeaveFuture(w)
    BY <2>12, LeaveFutureStep
  <2>13. CASE \E a \in DOMAIN acts : CilkFutureGet(w, a) \/ CilkFutureGetSuspend(w, a)
    BY <2>13, FutureGetStep, FutureGetSuspendStep
  <2>14. CASE \E v \in Workers : Steal(w, v)
    BY <2>14, StealStep
  <2>15. CASE \E d \in suspended : StealSuspended(w, d) \/ Resume(w, d)
    BY <2>15, StealSuspendedStep, ResumeStep
  <2> QED
    BY <2>1, <2>2, <2>3, <2>4, <2>5, <2>6, <2>7, <2>8, <2>9, <2>10, <2>11, <2>12, <2>13,
       <2>14, <2>15
<1>2. CASE UNCHANGED vars
  <2>1. /\ shadow' = shadow /\ own' = own /\ pc' = pc /\ acts' = acts /\ suspended' = suspended
        /\ om' = om /\ heap' = heap /\ called_future' = called_future /\ strands' = strands
        /\ cur' = cur
    BY <1>2 DEF vars
  <2>2. Shapes' /\ OrderInv' /\ RootOK' /\ NodeCount' = NodeCount
    BY <2>1 DEF ShadowInv, Shapes, OrderInv, NodeCount, RootOK
  <2>3. (\A w \in Workers : WorkerOK(w))' /\ (\A d \in suspended : DequeOK(d))'
    BY <2>1, <2>2 DEF ShadowInv, WorkerOK, DequeOK
  <2> QED
    BY <2>2, <2>3 DEF ShadowInv
<1> QED
  BY <1>1, <1>2

LEMMA AlwaysInv == Spec => []ShadowInv
PROOF
<1>1. Init => ShadowInv
  BY InitInv
<1>2. ShadowInv /\ [Next]_vars => ShadowInv'
  BY StepInv
<1> QED
  BY <1>1, <1>2, PTL DEF Spec

-----------------------------------------------------------------------------
(* Theorems *)

LEMMA FramesTyped ==
  ASSUME ShadowInv, NEW s, StackOK(acts, NodeCount, Len(heap), s)
  PROVE  StackTypeOK(s)
PROOF
<1>1. Shapes /\ OrderInv
  BY DEF ShadowInv
<1>2. Len(heap) \in Nat /\ DOMAIN heap = 1 .. Len(heap)
  BY <1>1, SequenceGrows DEF Shapes
<1>3. DOMAIN acts = 1 .. Len(acts)
  BY <1>1, LenProperties DEF Shapes
<1>4. NodeCount \in Nat /\ DOMAIN om.e = 1 .. NodeCount
  BY <1>1 DEF OrderInv, Placed, On
<1>5. DOMAIN om.e \cup {0} = 0 .. NodeCount
  <2> PICK n \in Nat : n = NodeCount
    BY <1>4
  <2>1. 1 .. n \cup {0} = 0 .. n
    OBVIOUS
  <2> QED
    BY <1>4, <2>1
<1>6. FrameType = FramesOf(acts, NodeCount, Len(heap))
  BY ONLY <1>2, <1>3, <1>5, Zenon DEF FrameType, FramesOf
<1>7. /\ s \in Stacks /\ s.tail \in 1 .. Len(s.frames)
      /\ \A i \in 1 .. Len(s.frames) : s.frames[i] \in FramesOf(acts, NodeCount, Len(heap))
  BY DEF StackOK, FrameOK
<1>8. Len(s.frames) \in Nat /\ DOMAIN s.frames = 1 .. Len(s.frames)
  BY <1>7, StackFrames
<1>9. s.tail \in 1 .. Len(s.frames) + 1
  <2> PICK n \in Nat : n = Len(s.frames)
    BY <1>8
  <2>1. \A t \in 1 .. n : t \in 1 .. n + 1
    OBVIOUS
  <2> QED
    BY <1>7, <2>1
<1> QED
  BY ONLY <1>6, <1>7, <1>8, <1>9 DEF StackTypeOK

LEMMA InvTyped == ShadowInv => TypeOK
PROOF
<1> SUFFICES ASSUME ShadowInv PROVE TypeOK
  OBVIOUS
<1>1. Shapes /\ OrderInv /\ (\A w \in Workers : WorkerOK(w)) /\ (\A d \in suspended : DequeOK(d))
  BY DEF ShadowInv
<1>2. /\ DOMAIN om.e = DOMAIN om.h
      /\ \A o \in {om.e, om.h} : {o[n] : n \in DOMAIN o} = 1 .. Cardinality(DOMAIN o)
  <2>1. DOMAIN om.e = 1 .. NodeCount /\ DOMAIN om.h = 1 .. NodeCount
    BY <1>1 DEF OrderInv, Placed, On
  <2>2. {om.e[n] : n \in DOMAIN om.e} = 1 .. NodeCount
    BY <1>1, <2>1 DEF OrderInv, Placed, On
  <2>3. {om.h[n] : n \in DOMAIN om.h} = 1 .. NodeCount
    BY <1>1, <2>1 DEF OrderInv, Placed, On
  <2>4. Cardinality(DOMAIN om.e) = NodeCount /\ Cardinality(DOMAIN om.h) = NodeCount
    BY <2>1 DEF NodeCount
  <2> QED
    BY ONLY <2>1, <2>2, <2>3, <2>4, Zenon
<1>3. StackTypeOK(EmptyStack)
  <2>1. EmptyStack.frames = <<>> /\ EmptyStack.tail = 1
    BY DEF EmptyStack
  <2>2. DOMAIN EmptyStack.frames = {} /\ Len(EmptyStack.frames) = 0
    BY ONLY <2>1
  <2>3. EmptyStack.tail \in 1 .. Len(EmptyStack.frames) + 1
    BY ONLY <2>1, <2>2
  <2> QED
    BY ONLY <2>2, <2>3 DEF StackTypeOK
<1>4. ASSUME NEW w \in Workers
      PROVE  StackTypeOK(shadow[w]) /\ cur[w] \in 0 .. Len(strands)
  <2>1. cur[w] \in 0 .. Len(strands)
    BY <1>1 DEF Shapes
  <2>2. CASE pc[w] = "idle"
    BY <1>1, <1>3, <2>1, <2>2 DEF WorkerOK, HasStack
  <2>3. CASE pc[w] # "idle"
    <3>1. StackOK(acts, NodeCount, Len(heap), shadow[w])
      BY <1>1, <2>3 DEF WorkerOK, HasStack
    <3> QED
      BY <2>1, <3>1, FramesTyped
  <2> QED
    BY <2>2, <2>3
<1>5. \A d \in suspended : StackTypeOK(d.stack)
  BY <1>1, FramesTyped DEF DequeOK
<1>6. /\ pc \in [Workers -> {"idle", "run", "sync", "returning", "finished"}]
      /\ called_future \in [Workers -> BOOLEAN]
  BY <1>1 DEF Shapes, Points
<1> QED
  BY ONLY <1>2, <1>4, <1>5, <1>6 DEF TypeOK

(* A sequence that a stack covers is its frames from the tail on. *)
LEMMA CoveredUnstolen ==
  ASSUME NEW s, NEW q \in Seq(Nat), Covers(s, q, Len(q))
  PROVE  Unstolen(s) = q
PROOF
<1>1. q = [i \in 1 .. Len(q) |-> q[i]]
  BY LenProperties
<1>2. /\ Len(s.frames) - s.tail + 1 = Len(q)
      /\ \A i \in 1 .. Len(q) : q[i] = s.frames[s.tail + i - 1].act
  BY DEF Covers
<1>3. Unstolen(s) = [i \in 1 .. Len(q) |-> s.frames[s.tail + i - 1].act]
  BY ONLY <1>2 DEF Unstolen
<1> QED
  BY ONLY <1>1, <1>2, <1>3, Zenon

LEMMA CoveredFront ==
  ASSUME NEW s, NEW q \in Seq(Nat), Len(q) > 1, Covers(s, q, Len(q) - 1)
  PROVE  Unstolen(s) = Front(q)
PROOF
<1> PICK r : r = Front(q)
  OBVIOUS
<1>1. Len(q) \in Nat
  BY LenProperties
<1>2. r \in Seq(Nat) /\ Len(r) = Len(q) - 1 /\ \A i \in 1 .. Len(q) - 1 : r[i] = q[i]
  <2> PICK l \in Nat : l = Len(q)
    BY <1>1
  <2>1. l - 1 \in Nat /\ \A i \in 1 .. l - 1 : i \in 1 .. l
    OBVIOUS
  <2>2. \A i \in 1 .. l - 1 : q[i] \in Nat
    BY <2>1, ElementOfSeq
  <2>3. r = SubSeq(q, 1, l - 1)
    BY DEF Front
  <2> QED
    BY <2>1, <2>2, <2>3, SubSeqProperties
<1>3. /\ Len(s.frames) - s.tail + 1 = Len(q) - 1
      /\ \A i \in 1 .. Len(q) - 1 : q[i] = s.frames[s.tail + i - 1].act
  BY DEF Covers
<1>4. Len(r) <= Len(r)
  BY <1>1, <1>2
<1>5. Covers(s, r, Len(r))
  BY ONLY <1>2, <1>3, <1>4 DEF Covers
<1>6. Unstolen(s) = r
  BY ONLY <1>2, <1>5, CoveredUnstolen
<1> QED
  BY <1>6

LEMMA InvMatches == ShadowInv => ShadowMatches
PROOF
<1> SUFFICES ASSUME ShadowInv PROVE ShadowMatches
  OBVIOUS
<1>1. Shapes /\ (\A w \in Workers : WorkerOK(w)) /\ (\A d \in suspended : DequeOK(d))
  BY DEF ShadowInv
<1>2. ASSUME NEW w \in Workers, pc[w] \in {"run", "sync"}
      PROVE  Unstolen(shadow[w]) = own[w]
  <2>1. own[w] \in Seq(Nat) /\ Covers(shadow[w], own[w], Len(own[w]))
    BY <1>1, <1>2 DEF Shapes, WorkerOK, HasStack
  <2> QED
    BY <2>1, CoveredUnstolen
<1>3. ASSUME NEW w \in Workers, pc[w] = "finished", Len(own[w]) > 1
      PROVE  Unstolen(shadow[w]) = Front(own[w])
  <2>1. own[w] \in Seq(Nat) /\ Covers(shadow[w], own[w], Len(own[w]) - 1)
    BY <1>1, <1>3 DEF Shapes, WorkerOK, HasStack
  <2> QED
    BY <1>3, <2>1, CoveredFront
<1>4. ASSUME NEW d \in suspended
      PROVE  Unstolen(d.stack) = d.own
  <2>1. d.own \in Seq(Nat) /\ Covers(d.stack, d.own, Len(d.own))
    BY <1>1 DEF Shapes, Deques, DequeOK
  <2> QED
    BY <2>1, CoveredUnstolen
<1> QED
  BY ONLY <1>2, <1>3, <1>4 DEF ShadowMatches

LEMMA StackReady ==
  ASSUME ShadowInv, NEW s, StackOK(acts, NodeCount, Len(heap), s)
  PROVE  FramesReadyIn(s)
PROOF
<1>1. Len(s.frames) \in Nat \ {0}
  BY StackFrames DEF StackOK
<1> PICK n \in Nat \ {0} : n = Len(s.frames)
  BY <1>1
<1>2. /\ Ready(TopFrame(s)) /\ FrameOK(acts, NodeCount, Len(heap), s.frames[n])
      /\ s.frames[1].act = 1
  BY DEF StackOK
<1>3. TopFrame(s) = s.frames[n] /\ ParentFrame(s) = s.frames[n - 1]
  BY DEF TopFrame, ParentFrame
<1>4. CASE n > 1
  <2>1. n - 1 \in 1 .. n - 1 /\ (n - 1) + 1 = n
    BY <1>4
  <2>2. LiesOn(acts, s.frames[n], s.frames[n - 1])
    BY <2>1 DEF StackOK
  <2>3. LiesOn(acts, TopFrame(s), ParentFrame(s))
    BY <1>3, <2>2
  <2> QED
    BY ONLY <1>2, <1>4, <2>3, n = Len(s.frames) DEF LiesOn, Ready, FramesReadyIn
<1>5. CASE n = 1
  <2>1. ~TopFrame(s).helper
    BY <1>2, <1>3, <1>5 DEF FrameOK, ShadowInv, RootOK
  <2>2. ~(Len(s.frames) > 1)
    BY <1>5
  <2> QED
    BY ONLY <1>2, <2>1, <2>2 DEF Ready, FramesReadyIn
<1>6. n > 1 \/ n = 1
  <2>1. n \in Nat /\ n # 0
    OBVIOUS
  <2> QED
    BY ONLY <2>1
<1> QED
  BY ONLY <1>4, <1>5, <1>6

LEMMA InvReady == ShadowInv => FramesReady
PROOF
<1> SUFFICES ASSUME ShadowInv PROVE FramesReady
  OBVIOUS
<1>1. \A w \in Workers : pc[w] = "run" => StackOK(acts, NodeCount, Len(heap), shadow[w])
  BY DEF ShadowInv, WorkerOK, HasStack
<1>2. \A d \in suspended : StackOK(acts, NodeCount, Len(heap), d.stack)
  BY DEF ShadowInv, DequeOK
<1> QED
  BY <1>1, <1>2, StackReady DEF FramesReady

(* om_insert of the two lists and the hooks of rdtool.cpp keep what they   *)
(* refer to: the two orders hold the same nodes at places without gaps,    *)
(* and every frame on every shadow stack, stolen or not, names nodes,      *)
(* lists and activations that exist.                                       *)
THEOREM ShadowTypeCorrect == Spec => []TypeOK
PROOF
  BY AlwaysInv, InvTyped, PTL

(* push, pop, steal_top and the hooks that call them keep every shadow     *)
(* stack in step with the runtime's deque: from the tail on it has one     *)
(* frame for each activation the deque holds, in the deque's order, for    *)
(* workers and for suspended deques, whoever stole from them; after        *)
(* CilkFutureFinish it is one frame ahead of the runtime.                  *)
THEOREM ShadowsMatch == Spec => []ShadowMatches
PROOF
  BY AlwaysInv, InvMatches, PTL

(* The om_asserts of do_leave_end, do_leave_stolen and do_sync_begin never *)
(* fail, for any number of workers, steals and suspensions: the head frame *)
(* has its node, and a detached head frame's parent has the nodes of its   *)
(* continuation and its sync.                                              *)
THEOREM FramesAreReady == Spec => []FramesReady
PROOF
  BY AlwaysInv, InvReady, PTL
=============================================================================
