------------------------- MODULE ShadowListsProofs -------------------------
(***************************************************************************)
(* Proofs about ShadowStack, concluded: the lists that strands use in      *)
(* queries are frozen, for any number of workers and programs of any size. *)
(*                                                                         *)
(* The lists written in place are the sync_lists of frames.  A frame that  *)
(* somebody can still return to is live; there can be several live copies  *)
(* of one frame, since thieves copy what they steal and what is below it.  *)
(* The argument: no live frame has as its sync_list a list that a strand   *)
(* or another live frame uses, or that the frame of another function       *)
(* collects its children in (ListsInv); and whoever turns a sync_list into *)
(* the list of a strand is alone, no other copy of that frame is live      *)
(* (Alone), because every other copy waits for a child that has not        *)
(* returned.  For that the runtime has to run every function in one place  *)
(* (OwnInv).                                                               *)
(***************************************************************************)
EXTENDS ShadowStackProofs

(* Who has a deque: workers and suspended deques. *)
Holders == {<<w, 0>> : w \in Workers} \cup {<<d, 1>> : d \in suspended}

Home(s, q, p) == [stack |-> s, own |-> q, at |-> p]

HomeOf(x) == IF x[2] = 0 THEN Home(shadow[x[1]], own[x[1]], pc[x[1]])
             ELSE Home(x[1].stack, x[1].own, "run")

Homes == [x \in Holders |-> HomeOf(x)]

(* Below, V is a function from holders to homes and A the activations. *)

IsHomes(V) == \A x \in DOMAIN V : V[x].own \in Seq(Nat)

Nobody(V, a) == \A x \in DOMAIN V : \A i \in 1 .. Len(V[x].own) : V[x].own[i] # a

(* Every activation is on one deque and once. *)
Once(V) ==
  \A x, y \in DOMAIN V : \A i \in 1 .. Len(V[x].own), j \in 1 .. Len(V[y].own) :
    V[x].own[i] = V[y].own[j] => x = y /\ i = j

Exist(A, V) == \A x \in DOMAIN V : \A i \in 1 .. Len(V[x].own) : V[x].own[i] \in 1 .. Len(A)

(* A call that has not returned, of a. *)
Calling(A, b, a) == b \in 1 .. Len(A) /\ A[b].kind = "call" /\ ~A[b].done /\ A[b].parent = a

(* A caller on a deque has its callee after it. *)
CallsNext(A, V) ==
  \A x \in DOMAIN V : \A i \in 1 .. Len(V[x].own), b \in 1 .. Len(A) :
    Calling(A, b, V[x].own[i]) => i < Len(V[x].own) /\ V[x].own[i + 1] = b

OneCall(A) == \A a, b, c \in 1 .. Len(A) : Calling(A, b, a) /\ Calling(A, c, a) => b = c

(* A function that waits in a sync runs nowhere. *)
WaitersOut(A, V) ==
  \A a \in 1 .. Len(A) : A[a].waits # 0 => Nobody(V, a) /\ \A b \in 1 .. Len(A) : ~Calling(A, b, a)

Detaches(A, a) == A[a].kind \in {"spawn", "future"}

(* Parents are older, and a detached function detaches nothing itself. *)
Family(A) ==
  \A a \in 1 .. Len(A) :
    /\ A[a].parent \in 0 .. a - 1
    /\ A[a].kind = "root" => A[a].parent = 0
    /\ A[a].parent # 0 /\ Detaches(A, a) => ~Detaches(A, A[a].parent)

OwnInv(A, V) ==
  /\ A \in Seq(Activations) /\ IsHomes(V)
  /\ Once(V) /\ Exist(A, V) /\ CallsNext(A, V) /\ OneCall(A) /\ WaitersOut(A, V) /\ Family(A)

(* V becomes U: homes Gone are replaced by homes Come. *)
Replaces(V, U, Gone, Come) ==
  /\ \A z \in DOMAIN U : z \notin Come => z \in DOMAIN V /\ z \notin Gone /\ U[z] = V[z]
  /\ Gone \subseteq DOMAIN V /\ Come \subseteq DOMAIN U

(* Activations return or are marked, and none wait anew. *)
Marks(A, B) ==
  /\ Extends(A, B) /\ Len(B) = Len(A)
  /\ \A a \in 1 .. Len(A) : (A[a].done => B[a].done) /\ (B[a].waits # 0 => A[a].waits # 0)

(* Deque r is the part of deque q from place k + 1 on, up to its end or a  *)
(* place after which there is no callee.                                   *)
Part(A, r, q, k) ==
  /\ r \in Seq(Nat) /\ k \in Nat /\ k + Len(r) <= Len(q)
  /\ \A i \in 1 .. Len(r) : r[i] = q[k + i]
  /\ \/ Len(r) = 0
     \/ k + Len(r) = Len(q)
     \/ A[q[k + Len(r) + 1]].kind # "call"
     \/ A[q[k + Len(r) + 1]].done

LEMMA SameCalls ==
  ASSUME NEW A, NEW B, Marks(A, B), NEW a, NEW b, Calling(B, b, a)
  PROVE  Calling(A, b, a)
PROOF
<1>1. /\ Len(A) = Len(B) /\ b \in 1 .. Len(B)
      /\ \A c \in 1 .. Len(A) : /\ B[c].kind = A[c].kind /\ B[c].parent = A[c].parent
                                /\ A[c].done => B[c].done
  BY DEF Marks, Extends, Calling
<1> QED
  BY <1>1 DEF Calling

LEMMA FamilyMarked ==
  ASSUME NEW A, NEW B, Marks(A, B), Family(A), OneCall(A)
  PROVE  Family(B) /\ OneCall(B) /\ B \in Seq(Activations)
PROOF
<1>1. /\ Len(A) = Len(B) /\ Len(A) \in Nat /\ B \in Seq(Activations)
      /\ \A c \in 1 .. Len(A) : B[c].kind = A[c].kind /\ B[c].parent = A[c].parent
  BY LenProperties DEF Marks, Extends
<1>2. OneCall(B)
  BY <1>1, SameCalls DEF OneCall
<1>3. ASSUME NEW a \in 1 .. Len(B)
      PROVE  /\ B[a].parent \in 0 .. a - 1
             /\ B[a].kind = "root" => B[a].parent = 0
             /\ B[a].parent # 0 /\ Detaches(B, a) => ~Detaches(B, B[a].parent)
  <2>1. /\ A[a].parent \in 0 .. a - 1 /\ (A[a].kind = "root" => A[a].parent = 0)
        /\ B[a].kind = A[a].kind /\ B[a].parent = A[a].parent
        /\ A[a].parent # 0 /\ Detaches(A, a) => ~Detaches(A, A[a].parent)
    BY <1>1 DEF Family
  <2>2. A[a].parent # 0 => A[a].parent \in 1 .. Len(A)
    BY <1>1, <2>1
  <2> QED
    BY <1>1, <2>1, <2>2 DEF Detaches
<1> QED
  BY <1>1, <1>2, <1>3 DEF Family

(* Deques are cut, moved and divided. *)
LEMMA DequesCut ==
  ASSUME NEW A, NEW B, NEW V, NEW U, NEW Gone, NEW Come, OwnInv(A, V), Marks(A, B),
         Replaces(V, U, Gone, Come), NEW src \in [Come -> Gone], NEW off \in [Come -> Nat],
         \A x \in Come : Part(B, U[x].own, V[src[x]].own, off[x]),
         \A x, y \in Come : x # y /\ src[x] = src[y] =>
           off[x] + Len(U[x].own) <= off[y] \/ off[y] + Len(U[y].own) <= off[x]
  PROVE  OwnInv(B, U)
PROOF
<1> DEFINE home(x) == IF x \in Come THEN src[x] ELSE x
           at(x)   == IF x \in Come THEN off[x] ELSE 0
<1>1. /\ A \in Seq(Activations) /\ IsHomes(V) /\ Once(V) /\ Exist(A, V) /\ CallsNext(A, V)
      /\ OneCall(A) /\ WaitersOut(A, V) /\ Family(A)
  BY DEF OwnInv
<1>2. Family(B) /\ OneCall(B) /\ B \in Seq(Activations) /\ Len(A) = Len(B)
  BY <1>1, FamilyMarked DEF Marks
<1>3. ASSUME NEW x \in DOMAIN U
      PROVE  /\ home(x) \in DOMAIN V /\ at(x) \in Nat /\ U[x].own \in Seq(Nat)
             /\ V[home(x)].own \in Seq(Nat)
             /\ Len(U[x].own) \in Nat /\ Len(V[home(x)].own) \in Nat
             /\ at(x) + Len(U[x].own) <= Len(V[home(x)].own)
             /\ \A i \in 1 .. Len(U[x].own) : U[x].own[i] = V[home(x)].own[at(x) + i]
             /\ x \notin Come => home(x) \notin Gone
             /\ x \in Come => home(x) \in Gone
  <2>1. home(x) \in DOMAIN V /\ at(x) \in Nat /\ (x \notin Come => home(x) \notin Gone)
        /\ (x \in Come => home(x) \in Gone)
    BY DEF Replaces
  <2>2. V[home(x)].own \in Seq(Nat) /\ Len(V[home(x)].own) \in Nat
    BY <1>1, <2>1, LenProperties DEF IsHomes
  <2>3. CASE x \in Come
    <3>1. Part(B, U[x].own, V[home(x)].own, at(x))
      BY <2>3
    <3> QED
      BY <2>1, <2>2, <3>1, LenProperties DEF Part
  <2>4. CASE x \notin Come
    <3>1. U[x] = V[x] /\ home(x) = x /\ at(x) = 0
      BY <2>4 DEF Replaces
    <3> QED
      BY <2>1, <2>2, <3>1
  <2> QED
    BY <2>3, <2>4
<1>h. \A x \in DOMAIN U : /\ x \in Come => home(x) = src[x] /\ at(x) = off[x]
                          /\ x \notin Come => home(x) = x /\ at(x) = 0 /\ U[x] = V[x]
  BY DEF Replaces
<1> HIDE DEF home, at
<1>4. ASSUME NEW x \in DOMAIN U, NEW i \in 1 .. Len(U[x].own)
      PROVE  at(x) + i \in 1 .. Len(V[home(x)].own) /\ U[x].own[i] = V[home(x)].own[at(x) + i]
  <2>1. /\ at(x) \in Nat /\ Len(U[x].own) \in Nat /\ Len(V[home(x)].own) \in Nat
        /\ at(x) + Len(U[x].own) <= Len(V[home(x)].own)
        /\ U[x].own[i] = V[home(x)].own[at(x) + i]
    BY <1>3
  <2> QED
    BY ONLY <2>1, i \in 1 .. Len(U[x].own)
<1>5. ASSUME NEW x \in DOMAIN U, NEW y \in DOMAIN U, NEW i \in 1 .. Len(U[x].own),
             NEW j \in 1 .. Len(U[y].own), U[x].own[i] = U[y].own[j]
      PROVE  x = y /\ i = j
  <2>1. home(x) = home(y) /\ at(x) + i = at(y) + j
    <3>1. /\ home(x) \in DOMAIN V /\ home(y) \in DOMAIN V
          /\ at(x) + i \in 1 .. Len(V[home(x)].own) /\ at(y) + j \in 1 .. Len(V[home(y)].own)
          /\ V[home(x)].own[at(x) + i] = V[home(y)].own[at(y) + j]
      BY <1>3, <1>4, <1>5
    <3> QED
      BY ONLY <1>1, <3>1 DEF Once
  <2>2. ASSUME x \in Come, y \in Come, x # y PROVE FALSE
    <3>1. at(x) + Len(U[x].own) <= at(y) \/ at(y) + Len(U[y].own) <= at(x)
      BY <1>h, <2>1, <2>2
    <3>2. /\ at(x) \in Nat /\ at(y) \in Nat /\ Len(U[x].own) \in Nat /\ Len(U[y].own) \in Nat
          /\ i \in 1 .. Len(U[x].own) /\ j \in 1 .. Len(U[y].own)
      BY <1>3, <1>5
    <3> QED
      BY ONLY <2>1, <3>1, <3>2
  <2>3. x = y
    <3>1. x \in Come <=> y \in Come
      BY <1>3, <2>1
    <3>2. x \notin Come /\ y \notin Come => x = y
      BY <1>h, <2>1
    <3> QED
      BY <2>2, <3>1, <3>2
  <2>4. at(x) = at(y) /\ at(x) \in Nat /\ Len(U[x].own) \in Nat
    BY <1>3, <2>3
  <2> QED
    BY <2>1, <2>3, <2>4
<1>6. ASSUME NEW x \in DOMAIN U, NEW i \in 1 .. Len(U[x].own), NEW b \in 1 .. Len(B),
             Calling(B, b, U[x].own[i])
      PROVE  i < Len(U[x].own) /\ U[x].own[i + 1] = b
  <2> PICK q : q = V[home(x)].own
    OBVIOUS
  <2> PICK k : k = at(x)
    OBVIOUS
  <2> PICK r : r = U[x].own
    OBVIOUS
  <2>1. /\ k \in Nat /\ Len(r) \in Nat /\ Len(q) \in Nat /\ k + Len(r) <= Len(q)
        /\ i \in 1 .. Len(r) /\ k + i \in 1 .. Len(q) /\ r[i] = q[k + i]
        /\ \A j \in 1 .. Len(r) : r[j] = q[k + j]
    BY <1>3, <1>4, <1>6
  <2>2. Calling(A, b, q[k + i])
    BY <1>6, <2>1, SameCalls
  <2>3. k + i < Len(q) /\ q[k + i + 1] = b
    <3>1. home(x) \in DOMAIN V /\ b \in 1 .. Len(A)
      BY <1>2, <1>3
    <3>2. k + i \in 1 .. Len(V[home(x)].own) /\ Calling(A, b, V[home(x)].own[k + i])
      BY <2>1, <2>2
    <3>3. k + i < Len(V[home(x)].own) /\ V[home(x)].own[k + i + 1] = b
      BY ONLY <1>1, <3>1, <3>2 DEF CallsNext
    <3> QED
      BY <3>3
  <2>4. CASE i < Len(r)
    <3>1. i + 1 \in 1 .. Len(r) /\ k + (i + 1) = k + i + 1
      BY <2>1, <2>4
    <3> QED
      BY <2>1, <2>3, <2>4, <3>1
  <2>5. CASE i = Len(r)
    <3>1. x \in Come
      <4>1. x \notin Come => r = q /\ k = 0
        BY <1>h
      <4> QED
        BY <2>1, <2>3, <2>5, <4>1
    <3>2. Part(B, r, q, k)
      BY <1>h, <3>1
    <3>3. B[b].kind = "call" /\ ~B[b].done
      BY <1>6 DEF Calling
    <3>4. k + Len(r) + 1 = k + i + 1 /\ Len(r) # 0 /\ k + Len(r) # Len(q)
      BY <2>1, <2>3, <2>5
    <3>5. q[k + Len(r) + 1] = b
      BY <2>3, <3>4
    <3> QED
      BY ONLY <3>2, <3>3, <3>4, <3>5 DEF Part
  <2>6. i < Len(r) \/ i = Len(r)
    BY <2>1
  <2> QED
    BY <2>4, <2>5, <2>6
<1>7. IsHomes(U)
  BY <1>3 DEF IsHomes
<1>8. Exist(B, U)
  <2> SUFFICES ASSUME NEW x \in DOMAIN U, NEW i \in 1 .. Len(U[x].own)
               PROVE  U[x].own[i] \in 1 .. Len(B)
    BY DEF Exist
  <2>1. home(x) \in DOMAIN V /\ at(x) + i \in 1 .. Len(V[home(x)].own)
        /\ U[x].own[i] = V[home(x)].own[at(x) + i]
    BY <1>3, <1>4
  <2> QED
    BY ONLY <1>1, <1>2, <2>1 DEF Exist
<1>9. ASSUME NEW a \in 1 .. Len(B), B[a].waits # 0
      PROVE  Nobody(U, a) /\ \A b \in 1 .. Len(B) : ~Calling(B, b, a)
  <2>1. Nobody(V, a) /\ \A b \in 1 .. Len(A) : ~Calling(A, b, a)
    BY <1>1, <1>2, <1>9 DEF Marks, WaitersOut
  <2>2. Nobody(U, a)
    <3> SUFFICES ASSUME NEW x \in DOMAIN U, NEW i \in 1 .. Len(U[x].own) PROVE U[x].own[i] # a
      BY DEF Nobody
    <3>1. home(x) \in DOMAIN V /\ at(x) + i \in 1 .. Len(V[home(x)].own)
          /\ U[x].own[i] = V[home(x)].own[at(x) + i]
      BY <1>3, <1>4
    <3> QED
      BY ONLY <2>1, <3>1 DEF Nobody
  <2> QED
    BY <1>2, <2>1, <2>2, SameCalls
<1> QED
  BY <1>2, <1>5, <1>6, <1>7, <1>8, <1>9 DEF OwnInv, Once, CallsNext, WaitersOut

(* The youngest activation p of deque x calls or detaches b. *)
Adds(A, B, p, b) ==
  /\ Extends(A, B) /\ b = Len(A) + 1 /\ Len(B) = b
  /\ \A a \in 1 .. Len(A) : B[a].done = A[a].done /\ B[a].waits = A[a].waits
  /\ B[b].parent = p /\ ~B[b].done /\ B[b].waits = 0 /\ B[b].kind # "root"
  /\ Detaches(B, b) => ~Detaches(A, p)

LEMMA FamilyGrows ==
  ASSUME NEW A \in Seq(Activations), NEW B, NEW p \in 1 .. Len(A), NEW b, Adds(A, B, p, b), Family(A)
  PROVE  Family(B)
PROOF
<1>1. /\ Len(A) \in Nat /\ b = Len(A) + 1 /\ Len(B) = b
      /\ \A a \in 1 .. Len(A) : B[a].kind = A[a].kind /\ B[a].parent = A[a].parent
      /\ B[b].parent = p /\ B[b].kind # "root" /\ (Detaches(B, b) => ~Detaches(A, p))
  BY LenProperties DEF Adds, Extends
<1>2. ASSUME NEW a \in 1 .. Len(B)
      PROVE  /\ B[a].parent \in 0 .. a - 1
             /\ B[a].kind = "root" => B[a].parent = 0
             /\ B[a].parent # 0 /\ Detaches(B, a) => ~Detaches(B, B[a].parent)
  <2>1. CASE a = b
    <3>1. p \in 0 .. a - 1 /\ B[p].kind = A[p].kind
      BY <1>1, <2>1
    <3> QED
      BY <1>1, <2>1, <3>1 DEF Detaches
  <2>2. CASE a # b
    <3>1. a \in 1 .. Len(A)
      BY <1>1, <2>2
    <3>2. /\ A[a].parent \in 0 .. a - 1 /\ (A[a].kind = "root" => A[a].parent = 0)
          /\ A[a].parent # 0 /\ Detaches(A, a) => ~Detaches(A, A[a].parent)
      BY <3>1 DEF Family
    <3>3. A[a].parent # 0 => A[a].parent \in 1 .. Len(A)
      BY <1>1, <3>1, <3>2
    <3> QED
      BY <1>1, <3>1, <3>2, <3>3 DEF Detaches
  <2> QED
    BY <2>1, <2>2
<1> QED
  BY <1>2 DEF Family

LEMMA DequeGrows ==
  ASSUME NEW A, NEW B, NEW V, NEW U, OwnInv(A, V), NEW x \in DOMAIN V, NEW n \in Nat,
         n = Len(V[x].own), n > 0, NEW p, p = V[x].own[n], NEW b, Adds(A, B, p, b),
         Replaces(V, U, {x}, {x}), U[x].own = Append(V[x].own, b)
  PROVE  OwnInv(B, U)
PROOF
<1>1. /\ A \in Seq(Activations) /\ IsHomes(V) /\ Once(V) /\ Exist(A, V) /\ CallsNext(A, V)
      /\ OneCall(A) /\ WaitersOut(A, V) /\ Family(A)
  BY DEF OwnInv
<1>2. n \in 1 .. n /\ p \in 1 .. Len(A) /\ Len(A) \in Nat
  <2>1. n \in 1 .. n
    OBVIOUS
  <2> QED
    BY <1>1, <2>1, LenProperties DEF Exist
<1>3. /\ b = Len(A) + 1 /\ Len(B) = b /\ B \in Seq(Activations) /\ b \in Nat /\ b \in 1 .. Len(B)
      /\ \A a \in 1 .. Len(A) : /\ B[a].kind = A[a].kind /\ B[a].parent = A[a].parent
                                /\ B[a].done = A[a].done /\ B[a].waits = A[a].waits
      /\ B[b].parent = p /\ ~B[b].done /\ B[b].waits = 0
  BY <1>2 DEF Adds, Extends
<1>4. Family(B)
  BY <1>1, <1>2, FamilyGrows
<1>5. /\ U[x].own \in Seq(Nat) /\ Len(U[x].own) = n + 1 /\ U[x].own[n + 1] = b
      /\ \A i \in 1 .. n : U[x].own[i] = V[x].own[i]
  <2>1. V[x].own \in Seq(Nat)
    BY <1>1 DEF IsHomes
  <2> QED
    BY <1>3, <2>1, AppendProperties
<1>6. DOMAIN U \subseteq DOMAIN V /\ \A z \in DOMAIN U : z # x => U[z] = V[z]
  BY DEF Replaces
<1>7. IsHomes(U)
  BY <1>1, <1>5, <1>6 DEF IsHomes
<1>8. ASSUME NEW z \in DOMAIN U, NEW i \in 1 .. Len(U[z].own)
      PROVE  \/ z = x /\ i = n + 1 /\ U[z].own[i] = b
             \/ /\ i \in 1 .. Len(V[z].own) /\ U[z].own[i] = V[z].own[i]
                /\ U[z].own[i] \in 1 .. Len(A)
  <2>1. CASE z = x
    <3>1. i = n + 1 \/ i \in 1 .. n
      BY <1>5, <2>1
    <3> QED
      BY <1>1, <1>5, <2>1, <3>1 DEF Exist
  <2>2. CASE z # x
    BY <1>1, <1>6, <2>2 DEF Exist
  <2> QED
    BY <2>1, <2>2
<1>9. Exist(B, U)
  <2>1. \A a \in 1 .. Len(A) : a \in 1 .. Len(B)
    BY <1>2, <1>3
  <2> QED
    BY <1>3, <1>8, <2>1 DEF Exist
<1>10. Once(U)
  <2> SUFFICES ASSUME NEW y \in DOMAIN U, NEW z \in DOMAIN U, NEW i \in 1 .. Len(U[y].own),
                      NEW j \in 1 .. Len(U[z].own), U[y].own[i] = U[z].own[j]
               PROVE  y = z /\ i = j
    BY DEF Once
  <2>1. b \notin 1 .. Len(A)
    BY <1>2, <1>3
  <2>2. CASE y = x /\ i = n + 1 /\ U[y].own[i] = b
    BY <1>8, <2>1, <2>2
  <2>3. CASE i \in 1 .. Len(V[y].own) /\ U[y].own[i] = V[y].own[i] /\ U[y].own[i] \in 1 .. Len(A)
    <3>1. j \in 1 .. Len(V[z].own) /\ U[z].own[j] = V[z].own[j]
      BY <1>8, <2>1, <2>3
    <3>2. y \in DOMAIN V /\ z \in DOMAIN V /\ V[y].own[i] = V[z].own[j]
          /\ i \in 1 .. Len(V[y].own)
      BY <1>6, <2>3, <3>1
    <3> QED
      BY ONLY <1>1, <3>1, <3>2 DEF Once
  <2> QED
    BY <1>8, <2>2, <2>3
<1>11. \A a \in 1 .. Len(A) : ~Calling(A, a, p)
  <2> SUFFICES ASSUME NEW a \in 1 .. Len(A), Calling(A, a, p) PROVE FALSE
    OBVIOUS
  <2>1. n < Len(V[x].own)
    BY <1>1, <1>2 DEF CallsNext
  <2> QED
    BY <2>1
<1>12. \A c, a \in 1 .. Len(B) :
         Calling(B, c, a) => (c = b /\ a = p) \/ (c \in 1 .. Len(A) /\ Calling(A, c, a))
  <2> SUFFICES ASSUME NEW c \in 1 .. Len(B), NEW a \in 1 .. Len(B), Calling(B, c, a)
               PROVE  (c = b /\ a = p) \/ (c \in 1 .. Len(A) /\ Calling(A, c, a))
    OBVIOUS
  <2>1. c = b \/ c \in 1 .. Len(A)
    BY <1>2, <1>3
  <2>2. B[c].kind = "call" /\ ~B[c].done /\ B[c].parent = a
    BY DEF Calling
  <2>3. CASE c = b
    BY <1>3, <2>2, <2>3
  <2>4. CASE c \in 1 .. Len(A)
    <3>1. A[c].kind = "call" /\ ~A[c].done /\ A[c].parent = a
      BY <1>3, <2>2, <2>4
    <3> QED
      BY ONLY <2>4, <3>1 DEF Calling
  <2> QED
    BY <2>1, <2>3, <2>4
<1>13. OneCall(B)
  <2> SUFFICES ASSUME NEW a \in 1 .. Len(B), NEW c \in 1 .. Len(B), NEW d \in 1 .. Len(B),
                      Calling(B, c, a), Calling(B, d, a)
               PROVE  c = d
    BY DEF OneCall
  <2>1. /\ (c = b /\ a = p) \/ (c \in 1 .. Len(A) /\ Calling(A, c, a))
        /\ (d = b /\ a = p) \/ (d \in 1 .. Len(A) /\ Calling(A, d, a))
    BY <1>12
  <2>2. CASE a = p
    BY <1>11, <2>1, <2>2
  <2>3. CASE a # p
    <3>1. c \in 1 .. Len(A) /\ d \in 1 .. Len(A) /\ Calling(A, c, a) /\ Calling(A, d, a)
      BY <2>1, <2>3
    <3>2. a \in 1 .. Len(A)
      <4>1. A[c].parent = a /\ A[c].parent \in 0 .. c - 1
        BY <1>1, <3>1 DEF Calling, Family
      <4> QED
        BY <1>2, <1>3, <3>1, <4>1
    <3> QED
      BY <1>1, <3>1, <3>2 DEF OneCall
  <2> QED
    BY <2>2, <2>3
<1>14. CallsNext(B, U)
  <2> SUFFICES ASSUME NEW z \in DOMAIN U, NEW i \in 1 .. Len(U[z].own), NEW c \in 1 .. Len(B),
                      Calling(B, c, U[z].own[i])
               PROVE  i < Len(U[z].own) /\ U[z].own[i + 1] = c
    BY DEF CallsNext
  <2>1. U[z].own[i] \in 1 .. Len(B)
    BY <1>9 DEF Exist
  <2>2. CASE c = b /\ U[z].own[i] = p
    <3>1. i \in 1 .. Len(V[z].own) /\ V[z].own[i] = p
      <4>1. p # b
        BY <1>2, <1>3
      <4> QED
        BY <1>8, <2>2, <4>1
    <3>2. z = x /\ i = n
      BY <1>1, <1>2, <1>6, <3>1 DEF Once
    <3> QED
      BY <1>5, <2>2, <3>2
  <2>3. CASE c \in 1 .. Len(A) /\ Calling(A, c, U[z].own[i])
    <3>1. U[z].own[i] # b
      <4>1. A[c].parent = U[z].own[i] /\ A[c].parent \in 0 .. c - 1
        BY <1>1, <2>3 DEF Calling, Family
      <4> QED
        BY <1>2, <1>3, <2>3, <4>1
    <3>2. i \in 1 .. Len(V[z].own) /\ U[z].own[i] = V[z].own[i] /\ z \in DOMAIN V
      BY <1>6, <1>8, <3>1
    <3>3. Calling(A, c, V[z].own[i])
      BY ONLY <2>3, <3>2
    <3>4. i < Len(V[z].own) /\ V[z].own[i + 1] = c
      BY ONLY <1>1, <2>3, <3>2, <3>3 DEF CallsNext
    <3>5. CASE z = x
      <4>1. i + 1 \in 1 .. n /\ i < n + 1
        BY <3>2, <3>4, <3>5
      <4> QED
        BY <1>5, <3>4, <3>5, <4>1
    <3>6. CASE z # x
      BY <1>6, <3>4, <3>6
    <3> QED
      BY <3>5, <3>6
  <2> QED
    BY <1>12, <2>1, <2>2, <2>3
<1>15. WaitersOut(B, U)
  <2> SUFFICES ASSUME NEW a \in 1 .. Len(B), B[a].waits # 0
               PROVE  Nobody(U, a) /\ \A c \in 1 .. Len(B) : ~Calling(B, c, a)
    BY DEF WaitersOut
  <2>1. a # b /\ a \in 1 .. Len(A) /\ A[a].waits # 0
    BY <1>2, <1>3
  <2>2. Nobody(V, a) /\ \A c \in 1 .. Len(A) : ~Calling(A, c, a)
    BY <1>1, <2>1 DEF WaitersOut
  <2>3. a # p
    BY <1>2, <2>2 DEF Nobody
  <2>4. Nobody(U, a)
    BY <1>6, <1>8, <2>1, <2>2 DEF Nobody
  <2> QED
    BY <1>12, <2>2, <2>3, <2>4
<1> QED
  BY <1>3, <1>4, <1>7, <1>9, <1>10, <1>13, <1>14, <1>15 DEF OwnInv

(* A function that is on no deque goes on on deque x, which is empty. *)
LEMMA DequeStarts ==
  ASSUME NEW A, NEW V, NEW U, OwnInv(A, V), NEW x \in DOMAIN V, V[x].own = <<>>,
         NEW p \in 1 .. Len(A), A[p].waits = 0, Nobody(V, p),
         \A b \in 1 .. Len(A) : ~Calling(A, b, p),
         Replaces(V, U, {x}, {x}), U[x].own = <<p>>
  PROVE  OwnInv(A, U)
PROOF
<1>1. /\ A \in Seq(Activations) /\ IsHomes(V) /\ Once(V) /\ Exist(A, V) /\ CallsNext(A, V)
      /\ OneCall(A) /\ WaitersOut(A, V) /\ Family(A) /\ p \in Nat
  BY LenProperties DEF OwnInv
<1>2. U[x].own \in Seq(Nat) /\ Len(U[x].own) = 1 /\ U[x].own[1] = p
  BY <1>1
<1>3. DOMAIN U \subseteq DOMAIN V /\ \A z \in DOMAIN U : z # x => U[z] = V[z]
  BY DEF Replaces
<1>4. ASSUME NEW z \in DOMAIN U, NEW i \in 1 .. Len(U[z].own), z = x
      PROVE  i = 1
  <2>1. i \in 1 .. 1
    BY ONLY <1>2, <1>4
  <2> QED
    BY ONLY <2>1
<1>5. Nobody(V, p)
  OBVIOUS
<1>6. IsHomes(U) /\ Exist(A, U)
  BY <1>1, <1>2, <1>3, <1>4 DEF IsHomes, Exist
<1>7. Once(U)
  BY <1>1, <1>2, <1>3, <1>4, <1>5 DEF Once, Nobody
<1>8. CallsNext(A, U)
  BY <1>1, <1>2, <1>3, <1>4 DEF CallsNext
<1>9. WaitersOut(A, U)
  BY <1>1, <1>2, <1>3, <1>4 DEF WaitersOut, Nobody
<1> QED
  BY <1>1, <1>6, <1>7, <1>8, <1>9 DEF OwnInv

(* A function that is on no deque and has called nobody begins to wait. *)
LEMMA DequesWait ==
  ASSUME NEW A, NEW B, NEW V, OwnInv(A, V), NEW p, Nobody(V, p),
         \A b \in 1 .. Len(A) : ~Calling(A, b, p), Extends(A, B), Len(B) = Len(A),
         \A a \in 1 .. Len(A) : B[a].done = A[a].done /\ (a # p => B[a].waits = A[a].waits)
  PROVE  OwnInv(B, V)
PROOF
<1>1. /\ A \in Seq(Activations) /\ IsHomes(V) /\ Once(V) /\ Exist(A, V) /\ CallsNext(A, V)
      /\ OneCall(A) /\ WaitersOut(A, V) /\ Family(A)
  BY DEF OwnInv
<1>2. /\ B \in Seq(Activations)
      /\ \A a \in 1 .. Len(A) : B[a].kind = A[a].kind /\ B[a].parent = A[a].parent
  BY DEF Extends
<1>3. \A a, b : Calling(B, b, a) <=> Calling(A, b, a)
  BY <1>2 DEF Calling
<1>4. Family(B)
  <2>1. \A a \in 1 .. Len(A) : A[a].parent # 0 => A[a].parent \in 1 .. Len(A)
    <3> SUFFICES ASSUME NEW a \in 1 .. Len(A), A[a].parent # 0 PROVE A[a].parent \in 1 .. Len(A)
      OBVIOUS
    <3>1. A[a].parent \in 0 .. a - 1 /\ Len(A) \in Nat
      BY <1>1, LenProperties DEF Family
    <3> QED
      BY <3>1
  <2> QED
    BY <1>1, <1>2, <2>1 DEF Family, Detaches
<1>5. Exist(B, V) /\ CallsNext(B, V) /\ OneCall(B)
  BY <1>1, <1>3 DEF Exist, CallsNext, OneCall
<1>6. WaitersOut(B, V)
  BY <1>1, <1>3 DEF WaitersOut
<1> QED
  BY <1>1, <1>2, <1>4, <1>5, <1>6 DEF OwnInv

(* Frames that somebody can return to.  From below the tail on these are   *)
(* the frames whose child was called or spawned: nobody returns from a     *)
(* future to a parent that was stolen.                                     *)
LiveIn(A, s) ==
  {i \in 1 .. Len(s.frames) : \A j \in i + 1 .. s.tail : A[s.frames[j].act].kind # "future"}

(* A worker that ends a future whose parent was stolen returns to nothing. *)
Holding(h) == h.at # "idle" /\ (h.at = "finished" => Len(h.own) > 1)

LiveAt(A, h) == IF Holding(h) THEN {h.stack.frames[i] : i \in LiveIn(A, h.stack)} ELSE {}

LiveFrames(A, V) == UNION {LiveAt(A, V[x]) : x \in DOMAIN V}

(* The same without the head frame of h, of x. *)
LiveBelow(A, h) ==
  IF Holding(h) THEN {h.stack.frames[i] : i \in LiveIn(A, h.stack) \ {Len(h.stack.frames)}} ELSE {}

LiveBut(A, V, x) == LiveBelow(A, V[x]) \cup UNION {LiveAt(A, V[y]) : y \in DOMAIN V \ {x}}

(* The spawned children of a that have not returned. *)
Spawning(A, a) == {b \in 1 .. Len(A) : A[b].parent = a /\ A[b].kind = "spawn" /\ ~A[b].done}

(* A frame has a sync_list as long as it has the node of the next sync,    *)
(* and the head frame until the sync is passed.                            *)
FieldsOK(p, s) ==
  /\ \A i \in 1 .. Len(s.frames) :
       /\ s.frames[i].steal_cont # 0 => s.frames[i].steal_sync # 0
       /\ IF i = Len(s.frames) /\ p \in {"sync", "returning"}
          THEN s.frames[i].sync = 0 /\ s.frames[i].sync_list # 0
          ELSE s.frames[i].sync = 0 <=> s.frames[i].sync_list = 0
  /\ p = "finished" => TopFrame(s).sync # 0

(* A child that has left its stack is to return. *)
HomeInv(A, h) ==
  /\ h.at = "returning" => /\ Len(h.own) = 1
                           /\ A[h.own[1]].kind = "spawn" /\ ~A[h.own[1]].done
  /\ h.at # "idle" => FieldsOK(h.at, h.stack)

(* Of the live frames S and the lists L of the strands: no function has    *)
(* returned; a frame without a sync_list waits for no child; no one else   *)
(* uses a sync_list but the copies of the frame.                           *)
ListsInv(A, S, L) ==
  /\ \A f \in S : ~A[f.act].done /\ (f.sync_list = 0 => Spawning(A, f.act) = {})
  /\ \A f \in S : f.sync_list # 0 =>
       /\ f.sync_list \notin L
       /\ \A g \in S : /\ g.list # f.sync_list /\ g.steal_list # f.sync_list
                       /\ g.sync_list = f.sync_list => g.act = f.act

HomesOK(A, N, H, V) ==
  \A x \in DOMAIN V : /\ V[x].at \in Points
                      /\ HasStack(A, N, H, V[x].at, V[x].stack, V[x].own)
                      /\ HomeInv(A, V[x])

Copies(A, N, H, V, L) ==
  OwnInv(A, V) /\ HomesOK(A, N, H, V) /\ ListsInv(A, LiveFrames(A, V), L)

LEMMA HomeView ==
  ASSUME NEW A, NEW N, NEW H, NEW V, NEW L, Copies(A, N, H, V, L), NEW x \in DOMAIN V
  PROVE  /\ A \in Seq(Activations) /\ V[x].own \in Seq(Nat) /\ Len(V[x].own) \in Nat
         /\ V[x].at \in Points /\ HasStack(A, N, H, V[x].at, V[x].stack, V[x].own)
         /\ HomeInv(A, V[x])
         /\ V[x].at # "idle" =>
              /\ StackOK(A, N, H, V[x].stack) /\ V[x].stack \in Stacks
              /\ Len(V[x].stack.frames) \in Nat /\ V[x].stack.tail \in Nat
              /\ V[x].stack.tail \in 1 .. Len(V[x].stack.frames)
              /\ FieldsOK(V[x].at, V[x].stack)
         /\ V[x].at \in {"run", "sync"} =>
              /\ Covers(V[x].stack, V[x].own, Len(V[x].own))
              /\ Len(V[x].own) > 0 /\ Len(V[x].own) \in 1 .. Len(V[x].own)
              /\ V[x].stack.tail + Len(V[x].own) - 1 = Len(V[x].stack.frames)
PROOF
<1>1. /\ A \in Seq(Activations) /\ V[x].own \in Seq(Nat) /\ Len(V[x].own) \in Nat
      /\ V[x].at \in Points /\ HasStack(A, N, H, V[x].at, V[x].stack, V[x].own)
      /\ HomeInv(A, V[x])
  BY LenProperties DEF Copies, OwnInv, IsHomes, HomesOK
<1>2. ASSUME V[x].at # "idle"
      PROVE  /\ StackOK(A, N, H, V[x].stack) /\ V[x].stack \in Stacks
             /\ Len(V[x].stack.frames) \in Nat /\ V[x].stack.tail \in Nat
             /\ V[x].stack.tail \in 1 .. Len(V[x].stack.frames)
             /\ FieldsOK(V[x].at, V[x].stack)
  <2>1. StackOK(A, N, H, V[x].stack) /\ FieldsOK(V[x].at, V[x].stack)
    BY <1>1, <1>2 DEF HasStack, HomeInv
  <2>2. V[x].stack \in Stacks /\ V[x].stack.tail \in 1 .. Len(V[x].stack.frames)
    BY <2>1 DEF StackOK
  <2> QED
    BY <2>1, <2>2, StackFrames
<1>3. ASSUME V[x].at \in {"run", "sync"}
      PROVE  /\ Covers(V[x].stack, V[x].own, Len(V[x].own))
             /\ Len(V[x].own) > 0 /\ Len(V[x].own) \in 1 .. Len(V[x].own)
             /\ V[x].stack.tail + Len(V[x].own) - 1 = Len(V[x].stack.frames)
  <2>1. Covers(V[x].stack, V[x].own, Len(V[x].own))
    BY <1>1, <1>3 DEF HasStack
  <2>2. Len(V[x].stack.frames) - V[x].stack.tail + 1 = Len(V[x].own)
    BY <2>1 DEF Covers
  <2>3. Len(V[x].stack.frames) \in Nat /\ V[x].stack.tail \in 1 .. Len(V[x].stack.frames)
    BY <1>2, <1>3
  <2> PICK m \in Nat : m = Len(V[x].stack.frames)
    BY <2>3
  <2> PICK t \in 1 .. m : t = V[x].stack.tail
    BY <2>3
  <2> PICK l \in Nat : l = Len(V[x].own)
    BY <1>1
  <2>4. m - t + 1 = l
    BY <2>2
  <2>5. l > 0 /\ l \in 1 .. l /\ t + l - 1 = m
    BY ONLY <2>4, m \in Nat, t \in 1 .. m, l \in Nat
  <2> QED
    BY <2>1, <2>5
<1> QED
  BY <1>1, <1>2, <1>3

LEMMA LiveIs ==
  ASSUME NEW A, NEW V, NEW x \in DOMAIN V, Holding(V[x]), NEW i \in LiveIn(A, V[x].stack)
  PROVE  V[x].stack.frames[i] \in LiveFrames(A, V)
  BY DEF LiveFrames, LiveAt

LEMMA LiveWhere ==
  ASSUME NEW A, NEW V, NEW f \in LiveFrames(A, V)
  PROVE  \E x \in DOMAIN V : Holding(V[x]) /\ \E i \in LiveIn(A, V[x].stack) : f = V[x].stack.frames[i]
  BY DEF LiveFrames, LiveAt

LEMMA LiveWhereBut ==
  ASSUME NEW A, NEW V, NEW x \in DOMAIN V, NEW f \in LiveBut(A, V, x)
  PROVE  \E y \in DOMAIN V : Holding(V[y]) /\ \E i \in LiveIn(A, V[y].stack) :
           f = V[y].stack.frames[i] /\ ~(y = x /\ i = Len(V[y].stack.frames))
  BY DEF LiveBut, LiveAt, LiveBelow

LEMMA LiveButLive ==
  ASSUME NEW A, NEW V, NEW x \in DOMAIN V
  PROVE  LiveBut(A, V, x) \subseteq LiveFrames(A, V)
  BY DEF LiveBut, LiveBelow, LiveAt, LiveFrames

(* Why a frame is live: its function is on the deque, or a child of it is  *)
(* returning to it, or it has called or spawned the next frame, which is   *)
(* live.                                                                   *)
LEMMA WhyLive ==
  ASSUME NEW A, NEW N, NEW H, NEW V, NEW L, Copies(A, N, H, V, L),
         NEW y \in DOMAIN V, Holding(V[y]), NEW i \in LiveIn(A, V[y].stack),
         NEW f, f = V[y].stack.frames[i]
  PROVE  /\ f \in Frames /\ f.act \in 1 .. Len(A) /\ ~A[f.act].done
         /\ \/ \E j \in 1 .. Len(V[y].own) : V[y].own[j] = f.act /\ i = V[y].stack.tail + j - 1
            \/ /\ V[y].at = "returning" /\ i = Len(V[y].stack.frames)
               /\ Len(V[y].own) = 1 /\ V[y].own[1] \in Spawning(A, f.act)
            \/ /\ i < V[y].stack.tail /\ i + 1 \in LiveIn(A, V[y].stack)
               /\ A[V[y].stack.frames[i + 1].act].parent = f.act
               /\ A[V[y].stack.frames[i + 1].act].kind # "future"
               /\ V[y].stack.frames[i + 1].helper => f.sync # 0
PROOF
<1> PICK s : s = V[y].stack
  OBVIOUS
<1> PICK deque : deque = V[y].own
  OBVIOUS
<1> PICK p : p = V[y].at
  OBVIOUS
<1>h. Holding(V[y]) <=> p # "idle" /\ (p = "finished" => Len(deque) > 1)
  BY DEF Holding
<1>i. i \in LiveIn(A, s) /\ f = s.frames[i]
  OBVIOUS
<1>1. /\ A \in Seq(Activations) /\ deque \in Seq(Nat) /\ Len(deque) \in Nat /\ p \in Points
      /\ HasStack(A, N, H, p, s, deque) /\ StackOK(A, N, H, s) /\ s \in Stacks
      /\ Len(s.frames) \in Nat /\ s.tail \in Nat /\ s.tail \in 1 .. Len(s.frames)
  BY <1>h, HomeView
<1>r. p = "returning" => Len(deque) = 1 /\ A[deque[1]].kind = "spawn" /\ ~A[deque[1]].done
  <2>1. HomeInv(A, V[y])
    BY HomeView
  <2> QED
    BY <2>1 DEF HomeInv
<1>2. i \in 1 .. Len(s.frames) /\ i \in Nat
      /\ \A j \in i + 1 .. s.tail : A[s.frames[j].act].kind # "future"
  BY ONLY <1>1, <1>i DEF LiveIn
<1>3. f.act \in 1 .. Len(A) /\ f \in Frames
  <2>1. FrameOK(A, N, H, f) /\ s.frames[i] \in Frames
    BY <1>1, <1>2, <1>i, StackFrames DEF StackOK
  <2> QED
    BY <1>i, <2>1 DEF FrameOK, FramesOf
<1>n. ~A[f.act].done
  <2>1. f \in LiveFrames(A, V)
    BY LiveIs
  <2> QED
    BY <2>1 DEF Copies, ListsInv
<1>4. CASE i < s.tail
  <2>1. i + 1 \in 1 .. Len(s.frames) /\ i \in 1 .. Len(s.frames) - 1 /\ i + 1 \in i + 1 .. s.tail
        /\ \A j \in (i + 1) + 1 .. s.tail : j \in i + 1 .. s.tail
    BY ONLY <1>1, <1>2, <1>4
  <2>3. i + 1 \in LiveIn(A, s)
    BY ONLY <1>2, <2>1 DEF LiveIn
  <2>4. LiesOn(A, s.frames[i + 1], s.frames[i])
    BY <1>1, <2>1 DEF StackOK
  <2>5. A[s.frames[i + 1].act].kind # "future"
    BY ONLY <1>2, <2>1
  <2>6. A[s.frames[i + 1].act].parent = f.act /\ (s.frames[i + 1].helper => f.sync # 0)
    BY ONLY <1>i, <2>4 DEF LiesOn
  <2> QED
    BY <1>3, <1>n, <1>4, <2>3, <2>5, <2>6
<1>5. CASE i >= s.tail /\ p = "returning"
  <2>1. s.tail = Len(s.frames) /\ A[deque[1]].parent = TopFrame(s).act /\ deque[1] \in 1 .. Len(A)
    BY ONLY <1>1, <1>5 DEF HasStack
  <2>2. i = Len(s.frames)
    BY ONLY <1>1, <1>2, <1>5, <2>1
  <2>3. TopFrame(s) = f
    BY <1>i, <2>2 DEF TopFrame
  <2>4. deque[1] \in Spawning(A, f.act)
    BY ONLY <1>r, <1>5, <2>1, <2>3 DEF Spawning
  <2> QED
    BY <1>3, <1>n, <1>5, <1>r, <2>2, <2>4
<1>6. CASE i >= s.tail /\ p # "returning"
  <2>1. PICK n \in Nat : n <= Len(deque) /\ Covers(s, deque, n)
    <3>1. CASE p \in {"run", "sync"}
      <4>1. Covers(s, deque, Len(deque))
        BY ONLY <1>1, <3>1 DEF HasStack
      <4> QED
        BY ONLY <1>1, <4>1
    <3>2. CASE p = "finished"
      <4>1. Covers(s, deque, Len(deque) - 1) /\ Len(deque) > 1
        BY ONLY <1>1, <1>h, <3>2, Holding(V[y]) DEF HasStack
      <4>2. Len(deque) - 1 \in Nat /\ Len(deque) - 1 <= Len(deque)
        BY ONLY <1>1, <4>1
      <4> QED
        BY ONLY <4>1, <4>2
    <3>3. p \in {"run", "sync", "finished"}
      BY <1>1, <1>6, <1>h DEF Points
    <3> QED
      BY ONLY <3>1, <3>2, <3>3
  <2>2. /\ Len(s.frames) - s.tail + 1 = n
        /\ \A j \in 1 .. n : deque[j] = s.frames[s.tail + j - 1].act
    BY ONLY <2>1 DEF Covers
  <2>3. i - s.tail + 1 \in 1 .. n /\ s.tail + (i - s.tail + 1) - 1 = i
        /\ i - s.tail + 1 \in 1 .. Len(deque)
    <3> PICK m \in Nat : m = Len(s.frames)
      BY <1>1
    <3> PICK t \in Nat : t = s.tail
      BY <1>1
    <3> PICK l \in Nat : l = Len(deque)
      BY <1>1
    <3>1. i \in 1 .. m /\ i >= t /\ n <= l /\ m - t + 1 = n
      BY <1>2, <1>6, <2>1, <2>2
    <3>2. i - t + 1 \in 1 .. n /\ t + (i - t + 1) - 1 = i /\ i - t + 1 \in 1 .. l
      BY ONLY <3>1, m \in Nat, t \in Nat, l \in Nat, n \in Nat
    <3> QED
      BY <3>2
  <2>4. deque[i - s.tail + 1] = f.act
    BY ONLY <1>i, <2>2, <2>3
  <2> QED
    BY <1>3, <1>n, <2>3, <2>4
<1>7. i < s.tail \/ i >= s.tail
  BY ONLY <1>1, <1>2
<1> QED
  BY <1>4, <1>5, <1>6, <1>7

LEMMA Children ==
  ASSUME NEW A \in Seq(Activations), Family(A), NEW a \in 1 .. Len(A), NEW b \in 1 .. Len(A),
         A[b].parent = a, ~A[b].done, A[b].kind # "future"
  PROVE  Calling(A, b, a) \/ b \in Spawning(A, a)
PROOF
<1>1. A[b].kind \in Kinds
  <2>1. A[b] \in Activations
    BY ElementOfSeq
  <2> QED
    BY <2>1 DEF Activations
<1>2. A[b].kind # "root"
  BY DEF Family
<1> QED
  BY <1>1, <1>2 DEF Kinds, Calling, Spawning

(* Where the copies of a frame of function a are. *)
LEMMA Where ==
  ASSUME NEW A, NEW N, NEW H, NEW V, NEW L, Copies(A, N, H, V, L), NEW a,
         NEW y \in DOMAIN V, Holding(V[y]), NEW i \in LiveIn(A, V[y].stack),
         V[y].stack.frames[i].act = a
  PROVE  \/ \E j \in 1 .. Len(V[y].own) : V[y].own[j] = a /\ i = V[y].stack.tail + j - 1
         \/ /\ V[y].at = "returning" /\ i = Len(V[y].stack.frames)
            /\ Len(V[y].own) = 1 /\ V[y].own[1] \in Spawning(A, a)
         \/ /\ i < V[y].stack.tail /\ V[y].stack.frames[i].sync # 0
            /\ \E g \in LiveFrames(A, V) : g.act \in Spawning(A, a)
         \/ \E b \in 1 .. Len(A) : Calling(A, b, a)
PROOF
<1> PICK f : f = V[y].stack.frames[i]
  OBVIOUS
<1> PICK g : g = V[y].stack.frames[i + 1]
  OBVIOUS
<1>1. /\ f \in Frames /\ f.act \in 1 .. Len(A) /\ ~A[f.act].done
      /\ \/ \E j \in 1 .. Len(V[y].own) : V[y].own[j] = f.act /\ i = V[y].stack.tail + j - 1
         \/ /\ V[y].at = "returning" /\ i = Len(V[y].stack.frames)
            /\ Len(V[y].own) = 1 /\ V[y].own[1] \in Spawning(A, f.act)
         \/ /\ i < V[y].stack.tail /\ i + 1 \in LiveIn(A, V[y].stack)
            /\ A[g.act].parent = f.act /\ A[g.act].kind # "future" /\ (g.helper => f.sync # 0)
  BY WhyLive
<1>2. ASSUME i < V[y].stack.tail, i + 1 \in LiveIn(A, V[y].stack),
             A[g.act].parent = f.act, A[g.act].kind # "future", g.helper => f.sync # 0
      PROVE  \/ i < V[y].stack.tail /\ f.sync # 0 /\ g \in LiveFrames(A, V) /\ g.act \in Spawning(A, a)
             \/ g.act \in 1 .. Len(A) /\ Calling(A, g.act, a)
  <2>1. g.act \in 1 .. Len(A) /\ ~A[g.act].done
    BY <1>2, WhyLive
  <2>2. A \in Seq(Activations) /\ Family(A)
    BY DEF Copies, OwnInv
  <2>3. Calling(A, g.act, a) \/ g.act \in Spawning(A, a)
    BY <1>1, <1>2, <2>1, <2>2, Children
  <2>4. CASE g.act \in Spawning(A, a)
    <3>1. g \in LiveFrames(A, V)
      BY <1>2, LiveIs
    <3>2. g.helper
      <4>1. StackOK(A, N, H, V[y].stack) /\ i + 1 \in 1 .. Len(V[y].stack.frames)
        BY <1>2, HomeView DEF Holding, LiveIn
      <4>2. FrameOK(A, N, H, g)
        BY <4>1 DEF StackOK
      <4>3. A[g.act].kind = "spawn"
        BY <2>4 DEF Spawning
      <4> QED
        BY ONLY <4>2, <4>3 DEF FrameOK
    <3> QED
      BY <1>2, <2>4, <3>1, <3>2
  <2> QED
    BY <2>1, <2>3, <2>4
<1>3. f.act = a
  OBVIOUS
<1> QED
  BY <1>1, <1>2, <1>3

(* Function p runs, on deque x: it has called nobody. *)
LEMMA RunsUncalling ==
  ASSUME NEW A, NEW N, NEW H, NEW V, NEW L, Copies(A, N, H, V, L), NEW x \in DOMAIN V,
         NEW n, n = Len(V[x].own), n > 0, NEW p, p = V[x].own[n], NEW b
  PROVE  ~Calling(A, b, p)
PROOF
<1>1. n \in Nat /\ n \in 1 .. Len(V[x].own)
  <2>1. n \in Nat
    BY HomeView
  <2> QED
    BY <2>1
<1>2. CallsNext(A, V)
  BY DEF Copies, OwnInv
<1>3. ASSUME Calling(A, b, V[x].own[n]) PROVE FALSE
  <2>1. b \in 1 .. Len(A)
    BY <1>3 DEF Calling
  <2>2. n < Len(V[x].own)
    BY ONLY <1>1, <1>2, <1>3, <2>1, x \in DOMAIN V DEF CallsNext
  <2> QED
    BY <1>1, <2>2
<1> QED
  BY <1>3

LEMMA OnHead ==
  ASSUME NEW A, NEW N, NEW H, NEW V, NEW L, Copies(A, N, H, V, L), NEW x \in DOMAIN V,
         V[x].at \in {"run", "sync"}, NEW p, p = V[x].own[Len(V[x].own)],
         NEW y \in DOMAIN V, NEW j \in 1 .. Len(V[y].own), V[y].own[j] = p
  PROVE  y = x /\ V[y].stack.tail + j - 1 = Len(V[y].stack.frames)
PROOF
<1>1. Len(V[x].own) \in 1 .. Len(V[x].own)
      /\ V[x].stack.tail + Len(V[x].own) - 1 = Len(V[x].stack.frames)
  BY HomeView
<1>2. Once(V)
  BY DEF Copies, OwnInv
<1>3. y = x /\ j = Len(V[x].own)
  BY <1>1, <1>2 DEF Once
<1> QED
  BY <1>1, <1>3

(* The function p that runs, on deque x, and has no child that has not     *)
(* returned is alone: there is no other live frame of it.                  *)
LEMMA Alone ==
  ASSUME NEW A, NEW N, NEW H, NEW V, NEW L, Copies(A, N, H, V, L), NEW x \in DOMAIN V,
         V[x].at \in {"run", "sync"}, NEW p, p = V[x].own[Len(V[x].own)], Spawning(A, p) = {},
         NEW f \in LiveBut(A, V, x)
  PROVE  f.act # p
PROOF
<1> SUFFICES ASSUME f.act = p PROVE FALSE
  OBVIOUS
<1>1. PICK y \in DOMAIN V : Holding(V[y]) /\ \E i \in LiveIn(A, V[y].stack) :
        f = V[y].stack.frames[i] /\ ~(y = x /\ i = Len(V[y].stack.frames))
  BY LiveWhereBut
<1>2. PICK i \in LiveIn(A, V[y].stack) :
        f = V[y].stack.frames[i] /\ ~(y = x /\ i = Len(V[y].stack.frames))
  BY <1>1
<1>3. \A b : ~Calling(A, b, p)
  <2>1. Len(V[x].own) > 0
    BY HomeView
  <2> QED
    BY <2>1, RunsUncalling
<1>4. \E j \in 1 .. Len(V[y].own) : V[y].own[j] = p /\ i = V[y].stack.tail + j - 1
  BY <1>1, <1>2, <1>3, Where
<1> QED
  BY <1>2, <1>4, OnHead

(* The other copies of the frame of the running function p know its        *)
(* sync_list.                                                              *)
LEMMA CopiesSync ==
  ASSUME NEW A, NEW N, NEW H, NEW V, NEW L, Copies(A, N, H, V, L), NEW x \in DOMAIN V,
         V[x].at \in {"run", "sync"}, NEW p, p = V[x].own[Len(V[x].own)],
         NEW f \in LiveBut(A, V, x), f.act = p
  PROVE  f.sync_list # 0
PROOF
<1>1. PICK y \in DOMAIN V : Holding(V[y]) /\ \E i \in LiveIn(A, V[y].stack) :
        f = V[y].stack.frames[i] /\ ~(y = x /\ i = Len(V[y].stack.frames))
  BY LiveWhereBut
<1>2. PICK i \in LiveIn(A, V[y].stack) :
        f = V[y].stack.frames[i] /\ ~(y = x /\ i = Len(V[y].stack.frames))
  BY <1>1
<1>3. \A b : ~Calling(A, b, p)
  <2>1. Len(V[x].own) > 0
    BY HomeView
  <2> QED
    BY <2>1, RunsUncalling
<1>4. \A j \in 1 .. Len(V[y].own) : ~(V[y].own[j] = p /\ i = V[y].stack.tail + j - 1)
  BY <1>2, OnHead
<1>5. \/ V[y].at = "returning" /\ i = Len(V[y].stack.frames)
      \/ i < V[y].stack.tail /\ f.sync # 0
  BY <1>1, <1>2, <1>3, <1>4, Where
<1>6. /\ FieldsOK(V[y].at, V[y].stack) /\ V[y].stack.tail \in 1 .. Len(V[y].stack.frames)
      /\ i \in 1 .. Len(V[y].stack.frames) /\ Len(V[y].stack.frames) \in Nat
  BY <1>1, HomeView DEF Holding, LiveIn
<1>7. /\ IF i = Len(V[y].stack.frames) /\ V[y].at \in {"sync", "returning"}
         THEN f.sync = 0 /\ f.sync_list # 0 ELSE f.sync = 0 <=> f.sync_list = 0
  BY ONLY <1>2, <1>6 DEF FieldsOK
<1>8. i < V[y].stack.tail => i # Len(V[y].stack.frames)
  BY <1>6
<1> QED
  BY ONLY <1>5, <1>7, <1>8

(* A detached function has called and spawned nobody that has not          *)
(* returned, once its frame is popped.                                     *)
LEMMA DetachedSpawnsNone ==
  ASSUME NEW A, Family(A), NEW c \in 1 .. Len(A), Detaches(A, c)
  PROVE  Spawning(A, c) = {}
PROOF
<1> SUFFICES ASSUME NEW b \in Spawning(A, c) PROVE FALSE
  OBVIOUS
<1>1. b \in 1 .. Len(A) /\ A[b].parent = c /\ Detaches(A, b)
  BY DEF Spawning, Detaches
<1>2. A[b].parent # 0
  BY <1>1
<1> QED
  BY <1>1, <1>2 DEF Family

(* A child c that is returning has no live frame. *)
LEMMA NoneReturning ==
  ASSUME NEW A, NEW N, NEW H, NEW V, NEW L, Copies(A, N, H, V, L), NEW x \in DOMAIN V,
         V[x].at = "returning", NEW c, c = V[x].own[1], NEW f \in LiveFrames(A, V)
  PROVE  f.act # c
PROOF
<1> SUFFICES ASSUME f.act = c PROVE FALSE
  OBVIOUS
<1>1. PICK y \in DOMAIN V : Holding(V[y]) /\ \E i \in LiveIn(A, V[y].stack) : f = V[y].stack.frames[i]
  BY LiveWhere
<1>2. PICK i \in LiveIn(A, V[y].stack) : f = V[y].stack.frames[i]
  BY <1>1
<1>3. /\ Len(V[x].own) = 1 /\ A[c].kind = "spawn" /\ c \in 1 .. Len(A) /\ c \in Nat
      /\ V[x].stack.tail = Len(V[x].stack.frames) /\ A[c].parent = TopFrame(V[x].stack).act
      /\ A \in Seq(Activations)
  <2>1. HomeInv(A, V[x]) /\ HasStack(A, N, H, V[x].at, V[x].stack, V[x].own) /\ A \in Seq(Activations)
    BY HomeView
  <2>2. c \in 1 .. Len(A)
    BY <2>1 DEF HasStack
  <2> QED
    BY <2>1, <2>2 DEF HomeInv, HasStack
<1>4. Family(A) /\ Once(V)
  BY DEF Copies, OwnInv
<1>5. \A b : ~Calling(A, b, c)
  <2>1. Len(V[x].own) > 0 /\ c = V[x].own[Len(V[x].own)]
    BY <1>3
  <2> QED
    BY <2>1, RunsUncalling
<1>6. Spawning(A, c) = {}
  BY <1>3, <1>4, DetachedSpawnsNone DEF Detaches
<1>7. PICK j \in 1 .. Len(V[y].own) : V[y].own[j] = c /\ i = V[y].stack.tail + j - 1
  BY <1>1, <1>2, <1>5, <1>6, Where
<1>8. y = x /\ j = 1
  <2>1. 1 \in 1 .. Len(V[x].own)
    BY <1>3
  <2> QED
    BY <1>4, <1>7, <2>1 DEF Once
<1>9. f = TopFrame(V[x].stack)
  <2>1. Len(V[x].stack.frames) \in Nat
    BY <1>3, HomeView
  <2>2. i = Len(V[x].stack.frames)
    BY <1>3, <1>7, <1>8, <2>1
  <2> QED
    BY <1>2, <1>8, <2>2 DEF TopFrame
<1>10. A[c].parent \in 0 .. c - 1
  BY <1>3, <1>4 DEF Family
<1> QED
  BY <1>3, <1>9, <1>10

(* If it is the last child of a function p that waits, its worker has the  *)
(* only live frame of p.                                                   *)
LEMMA LastReturning ==
  ASSUME NEW A, NEW N, NEW H, NEW V, NEW L, Copies(A, N, H, V, L), NEW x \in DOMAIN V,
         V[x].at = "returning", NEW c, c = V[x].own[1], NEW p \in 1 .. Len(A), A[p].waits # 0,
         Spawning(A, p) = {c}, NEW f \in LiveBut(A, V, x)
  PROVE  f.act # p
PROOF
<1> SUFFICES ASSUME f.act = p PROVE FALSE
  OBVIOUS
<1>1. PICK y \in DOMAIN V : Holding(V[y]) /\ \E i \in LiveIn(A, V[y].stack) :
        f = V[y].stack.frames[i] /\ ~(y = x /\ i = Len(V[y].stack.frames))
  BY LiveWhereBut
<1>2. PICK i \in LiveIn(A, V[y].stack) :
        f = V[y].stack.frames[i] /\ ~(y = x /\ i = Len(V[y].stack.frames))
  BY <1>1
<1>3. Nobody(V, p) /\ \A b \in 1 .. Len(A) : ~Calling(A, b, p)
  BY DEF Copies, OwnInv, WaitersOut
<1>4. \A j \in 1 .. Len(V[y].own) : V[y].own[j] # p
  BY <1>3 DEF Nobody
<1>5. \A g \in LiveFrames(A, V) : g.act \notin Spawning(A, p)
  BY NoneReturning
<1>6. i = Len(V[y].stack.frames) /\ Len(V[y].own) = 1 /\ V[y].own[1] = c
  BY <1>1, <1>2, <1>3, <1>4, <1>5, Where
<1>7. Len(V[x].own) = 1
  <2>1. HomeInv(A, V[x])
    BY HomeView
  <2> QED
    BY <2>1 DEF HomeInv
<1>8. y = x
  <2>1. 1 \in 1 .. Len(V[x].own) /\ 1 \in 1 .. Len(V[y].own) /\ Once(V)
    BY <1>6, <1>7 DEF Copies, OwnInv
  <2> QED
    BY <1>6, <2>1 DEF Once
<1> QED
  BY <1>2, <1>6, <1>8

(* The deque of x alone is cut. *)
LEMMA OneCut ==
  ASSUME NEW A, NEW B, NEW V, NEW U, OwnInv(A, V), Marks(A, B), NEW x \in DOMAIN V,
         Replaces(V, U, {x}, {x}), Part(B, U[x].own, V[x].own, 0)
  PROVE  OwnInv(B, U)
PROOF
<1> DEFINE src == [z \in {x} |-> x]
           off == [z \in {x} |-> 0]
<1>1. src \in [{x} -> {x}] /\ off \in [{x} -> Nat] /\ src[x] = x /\ off[x] = 0
  OBVIOUS
<1> HIDE DEF src, off
<1>2. \A z \in {x} : Part(B, U[z].own, V[src[z]].own, off[z])
  BY <1>1
<1>3. \A y, z \in {x} : y # z => FALSE
  OBVIOUS
<1> QED
  BY <1>1, <1>2, <1>3, DequesCut

(* The same as it was, nothing, and all but the last. *)
LEMMA Parts ==
  ASSUME NEW B, NEW q \in Seq(Nat)
  PROVE  /\ Part(B, q, q, 0) /\ Part(B, <<>>, q, 0)
         /\ Len(q) > 0 /\ (B[q[Len(q)]].kind # "call" \/ B[q[Len(q)]].done) => Part(B, Front(q), q, 0)
PROOF
<1> PICK l \in Nat : l = Len(q)
  BY LenProperties
<1>1. Part(B, q, q, 0)
  <2>1. 0 \in Nat /\ 0 + l = l /\ \A i \in 1 .. l : 0 + i = i
    OBVIOUS
  <2> QED
    BY <2>1 DEF Part
<1>2. Part(B, <<>>, q, 0)
  <2>1. <<>> \in Seq(Nat) /\ Len(<<>>) = 0 /\ 0 \in Nat /\ 0 + 0 <= l /\ \A i \in 1 .. 0 : FALSE
    OBVIOUS
  <2> QED
    BY <2>1 DEF Part
<1>3. ASSUME l > 0, B[q[l]].kind # "call" \/ B[q[l]].done PROVE Part(B, Front(q), q, 0)
  <2> PICK r : r = Front(q)
    OBVIOUS
  <2>1. /\ l - 1 \in Nat /\ 0 \in Nat /\ 0 + (l - 1) <= l /\ 0 + (l - 1) + 1 = l
        /\ \A i \in 1 .. l - 1 : i \in 1 .. l /\ 0 + i = i
    BY <1>3
  <2>2. \A i \in 1 .. l - 1 : q[i] \in Nat
    BY <2>1, ElementOfSeq
  <2>3. r = SubSeq(q, 1, l - 1)
    BY DEF Front
  <2>4. r \in Seq(Nat) /\ Len(r) = l - 1 /\ \A i \in 1 .. l - 1 : r[i] = q[i]
    BY <2>1, <2>2, <2>3, SubSeqProperties
  <2>5. Part(B, r, q, 0)
    BY ONLY <1>3, <2>1, <2>4, l = Len(q) DEF Part
  <2> QED
    BY <2>5
<1> QED
  BY <1>1, <1>2, <1>3

(* The functions D of the homes Gone return. *)
Returns(A, B, V, Gone, D) ==
  /\ \A a \in 1 .. Len(A) : B[a].done => A[a].done \/ a \in D
  /\ \A a \in D : \E y \in Gone : \E j \in 1 .. Len(V[y].own) : V[y].own[j] = a

NewHomes(B, M, I, U, Come) ==
  \A z \in Come : /\ U[z].at \in Points
                  /\ HasStack(B, M, I, U[z].at, U[z].stack, U[z].own)
                  /\ HomeInv(B, U[z])

(* Homes that are not Gone are as good as they were. *)
LEMMA HomesStep ==
  ASSUME NEW A, NEW B, NEW N \in Nat, NEW M \in Nat, NEW H \in Nat, NEW I \in Nat, NEW V, NEW U,
         NEW L, Copies(A, N, H, V, L), NEW Gone, NEW Come, Replaces(V, U, Gone, Come),
         Extends(A, B), N <= M, H <= I, OwnInv(B, U),
         NewHomes(B, M, I, U, Come), NEW D, Returns(A, B, V, Gone, D)
  PROVE  HomesOK(B, M, I, U)
PROOF
<1> SUFFICES ASSUME NEW z \in DOMAIN U
             PROVE  /\ U[z].at \in Points
                    /\ HasStack(B, M, I, U[z].at, U[z].stack, U[z].own)
                    /\ HomeInv(B, U[z])
  BY DEF HomesOK
<1>1. CASE z \in Come
  BY <1>1 DEF NewHomes
<1>2. CASE z \notin Come
  <2>1. z \in DOMAIN V /\ z \notin Gone /\ U[z] = V[z] /\ Gone \subseteq DOMAIN V
    BY <1>2 DEF Replaces
  <2>2. /\ V[z].at \in Points /\ HasStack(A, N, H, V[z].at, V[z].stack, V[z].own)
        /\ HomeInv(A, V[z])
    BY <2>1, HomeView
  <2>3. HasStack(B, M, I, V[z].at, V[z].stack, V[z].own)
    BY <2>2, HasStackGrows
  <2>4. ASSUME V[z].at = "returning"
        PROVE  /\ Len(V[z].own) = 1
               /\ B[V[z].own[1]].kind = "spawn" /\ ~B[V[z].own[1]].done
    <3> PICK c : c = V[z].own[1]
      OBVIOUS
    <3>1. Len(V[z].own) = 1 /\ A[c].kind = "spawn" /\ ~A[c].done
      BY <2>2, <2>4 DEF HomeInv
    <3>2. 1 \in 1 .. Len(V[z].own)
      BY <3>1
    <3>3. c \in 1 .. Len(A) /\ Once(V)
      BY <2>1, <3>2 DEF Copies, OwnInv, Exist
    <3>4. c \notin D
      <4> SUFFICES ASSUME c \in D PROVE FALSE
        OBVIOUS
      <4>1. PICK y \in Gone : \E j \in 1 .. Len(V[y].own) : V[y].own[j] = c
        BY DEF Returns
      <4>2. y = z
        BY ONLY <2>1, <3>2, <3>3, <4>1, y \in Gone, c = V[z].own[1] DEF Once
      <4> QED
        BY <2>1, <4>2
    <3>5. B[c].kind = "spawn" /\ ~B[c].done
      BY <3>1, <3>3, <3>4 DEF Extends, Returns
    <3> QED
      BY <3>1, <3>5
  <2>5. HomeInv(B, V[z])
    BY <2>2, <2>4 DEF HomeInv
  <2> QED
    BY <2>1, <2>2, <2>3, <2>5
<1> QED
  BY <1>1, <1>2

(* The functions of the frames are what they were. *)
LEMMA SameLive ==
  ASSUME NEW A, NEW B, NEW N, NEW H, NEW V, NEW L, Copies(A, N, H, V, L), Extends(A, B),
         NEW y \in DOMAIN V
  PROVE  LiveAt(B, V[y]) = LiveAt(A, V[y])
PROOF
<1>1. CASE Holding(V[y])
  <2> PICK s : s = V[y].stack
    OBVIOUS
  <2>1. /\ StackOK(A, N, H, s) /\ Len(s.frames) \in Nat /\ s.tail \in Nat
        /\ s.tail \in 1 .. Len(s.frames)
    BY <1>1, HomeView DEF Holding
  <2>2. \A j \in 1 .. s.tail : j \in 1 .. Len(s.frames)
    BY ONLY <2>1
  <2>3. \A j \in 1 .. Len(s.frames) : s.frames[j].act \in 1 .. Len(A)
    BY <2>1 DEF StackOK, FrameOK, FramesOf
  <2>4. \A j \in 1 .. s.tail : B[s.frames[j].act].kind = A[s.frames[j].act].kind
    BY <2>2, <2>3 DEF Extends
  <2>5. \A i \in 1 .. Len(s.frames) : \A j \in i + 1 .. s.tail : j \in 1 .. s.tail
    BY ONLY <2>1
  <2>6. LiveIn(B, s) = LiveIn(A, s)
    BY ONLY <2>4, <2>5 DEF LiveIn
  <2> QED
    BY <2>6 DEF LiveAt
<1>2. CASE ~Holding(V[y])
  BY <1>2 DEF LiveAt
<1> QED
  BY <1>1, <1>2

LEMMA LiveStep ==
  ASSUME NEW A, NEW B, NEW N, NEW H, NEW V, NEW U, NEW L, Copies(A, N, H, V, L), Extends(A, B),
         NEW Gone, NEW Come, Replaces(V, U, Gone, Come), NEW T,
         \A z \in Come : LiveAt(B, U[z]) \subseteq T,
         \A y \in DOMAIN V : y \notin Gone => LiveAt(A, V[y]) \subseteq T
  PROVE  LiveFrames(B, U) \subseteq T
PROOF
<1> SUFFICES ASSUME NEW z \in DOMAIN U PROVE LiveAt(B, U[z]) \subseteq T
  BY DEF LiveFrames
<1>1. CASE z \in Come
  BY <1>1
<1>2. CASE z \notin Come
  <2>1. z \in DOMAIN V /\ z \notin Gone /\ U[z] = V[z]
    BY <1>2 DEF Replaces
  <2> QED
    BY <2>1, SameLive
<1> QED
  BY <1>1, <1>2

(* Home h, for x, has the frames of x up to n, which is f now. *)
LEMMA LiveCut ==
  ASSUME NEW A, NEW B, NEW N, NEW H, NEW V, NEW L, Copies(A, N, H, V, L), Extends(A, B),
         NEW x \in DOMAIN V, Holding(V[x]), NEW n \in 1 .. Len(V[x].stack.frames),
         NEW s, s = V[x].stack, NEW h, NEW p, p = h.stack, NEW f, Cut(s, p, n, f),
         f.act = s.frames[n].act, p.tail \in 1 .. n,
         p.tail = s.tail \/ (p.tail = n /\ s.tail = n + 1 /\ A[s.frames[n + 1].act].kind # "future")
  PROVE  LiveAt(B, h) \subseteq LiveBelow(A, V[x]) \cup {f}
PROOF
<1>1. /\ StackOK(A, N, H, s) /\ Len(s.frames) \in Nat /\ s.tail \in Nat
      /\ s.tail \in 1 .. Len(s.frames)
  BY HomeView DEF Holding
<1>2. /\ Len(p.frames) = n /\ p.frames[n] = f
      /\ \A j \in 1 .. n - 1 : p.frames[j] = s.frames[j]
  BY DEF Cut
<1>3. \A j \in 1 .. Len(s.frames) : s.frames[j].act \in 1 .. Len(A)
  BY <1>1 DEF StackOK, FrameOK, FramesOf
<1>4. ASSUME NEW i \in LiveIn(B, p), i # n
      PROVE  p.frames[i] \in LiveBelow(A, V[x])
  <2>1. i \in 1 .. n /\ i \in 1 .. n - 1 /\ i \in 1 .. Len(s.frames) /\ i # Len(s.frames) /\ n \in Nat
    BY <1>1, <1>2, <1>4 DEF LiveIn
  <2>2. \A j \in i + 1 .. p.tail : B[p.frames[j].act].kind # "future"
    BY DEF LiveIn
  <2>3. ASSUME NEW j \in i + 1 .. s.tail PROVE A[s.frames[j].act].kind # "future"
    <3>1. j \in 1 .. Len(s.frames) /\ j \in Nat
      BY <1>1, <2>1
    <3>2. CASE j \in i + 1 .. p.tail /\ j <= n
      <4>1. j = n \/ j \in 1 .. n - 1
        BY <2>1, <3>1, <3>2
      <4>2. p.frames[j].act = s.frames[j].act
        BY <1>2, <4>1
      <4>3. B[p.frames[j].act].kind # "future"
        BY <2>2, <3>2
      <4> QED
        BY <1>3, <3>1, <4>2, <4>3 DEF Extends
    <3>3. CASE p.tail = s.tail
      <4>1. CASE j <= n
        BY <3>2, <3>3, <4>1
      <4>2. CASE j > n
        <5>1. s.tail \in 1 .. n
          BY <3>3
        <5> QED
          BY ONLY <1>1, <2>1, <2>3, <4>2, <5>1
      <4> QED
        BY <2>1, <3>1, <4>1, <4>2
    <3>4. CASE p.tail = n /\ s.tail = n + 1 /\ A[s.frames[n + 1].act].kind # "future"
      <4>1. j = n + 1 \/ (j \in i + 1 .. p.tail /\ j <= n)
        BY <2>1, <3>1, <3>4
      <4> QED
        BY <3>2, <3>4, <4>1
    <3> QED
      BY <3>3, <3>4
  <2>4. i \in LiveIn(A, s) \ {Len(s.frames)}
    BY <2>1, <2>3 DEF LiveIn
  <2>5. p.frames[i] = s.frames[i]
    BY <1>2, <2>1
  <2> QED
    BY <2>4, <2>5 DEF LiveBelow
<1> QED
  BY <1>2, <1>4 DEF LiveAt

(* Frame n of x, below the head, can be returned to. *)
LEMMA BelowHead ==
  ASSUME NEW A, NEW N, NEW H, NEW V, NEW L, Copies(A, N, H, V, L), NEW x \in DOMAIN V,
         Holding(V[x]), NEW s, s = V[x].stack, NEW n \in 1 .. Len(s.frames) - 1,
         s.tail <= n \/ (s.tail = n + 1 /\ A[s.frames[n + 1].act].kind # "future")
  PROVE  s.frames[n] \in LiveBelow(A, V[x]) /\ s.frames[n] \in LiveFrames(A, V)
PROOF
<1>1. Len(s.frames) \in Nat /\ s.tail \in Nat
  BY HomeView DEF Holding
<1>2. n \in 1 .. Len(s.frames) /\ n # Len(s.frames) /\ n \in Nat
  BY <1>1
<1>3. ASSUME NEW j \in n + 1 .. s.tail PROVE A[s.frames[j].act].kind # "future"
  <2>1. j = n + 1 /\ s.tail = n + 1
    BY <1>1, <1>2, <1>3
  <2> QED
    BY <1>2, <2>1
<1>4. n \in LiveIn(A, s) \ {Len(s.frames)}
  BY <1>2, <1>3 DEF LiveIn
<1>5. s.frames[n] \in LiveBelow(A, V[x])
  BY <1>4 DEF LiveBelow
<1> QED
  BY <1>5, LiveButLive DEF LiveBut

LEMMA HeadLive ==
  ASSUME NEW A, NEW N, NEW H, NEW V, NEW L, Copies(A, N, H, V, L), NEW x \in DOMAIN V,
         Holding(V[x])
  PROVE  TopFrame(V[x].stack) \in LiveFrames(A, V) /\ TopFrame(V[x].stack) \in LiveAt(A, V[x])
PROOF
<1> PICK s : s = V[x].stack
  OBVIOUS
<1>1. Len(s.frames) \in Nat /\ s.tail \in Nat /\ s.tail \in 1 .. Len(s.frames)
  BY HomeView DEF Holding
<1>2. Len(s.frames) \in 1 .. Len(s.frames) /\ \A j \in Len(s.frames) + 1 .. s.tail : FALSE
  BY ONLY <1>1
<1>3. Len(s.frames) \in LiveIn(A, s)
  BY <1>2 DEF LiveIn
<1>4. TopFrame(s) = s.frames[Len(s.frames)]
  BY DEF TopFrame
<1>5. TopFrame(s) \in LiveAt(A, V[x])
  BY <1>3, <1>4 DEF LiveAt
<1> QED
  BY <1>5 DEF LiveFrames

(* All live frames but the head of x, and G. *)
LEMMA OthersLive ==
  ASSUME NEW A, NEW B, NEW N, NEW H, NEW V, NEW U, NEW L, Copies(A, N, H, V, L), Extends(A, B),
         NEW x \in DOMAIN V, Replaces(V, U, {x}, {x}), NEW G,
         LiveAt(B, U[x]) \subseteq LiveBelow(A, V[x]) \cup G
  PROVE  LiveFrames(B, U) \subseteq LiveBut(A, V, x) \cup G
PROOF
<1> PICK T : T = LiveBut(A, V, x) \cup G
  OBVIOUS
<1>1. \A z \in {x} : LiveAt(B, U[z]) \subseteq T
  BY DEF LiveBut
<1>2. \A y \in DOMAIN V : y \notin {x} => LiveAt(A, V[y]) \subseteq T
  BY DEF LiveBut
<1>3. LiveFrames(B, U) \subseteq T
  BY <1>1, <1>2, LiveStep
<1> QED
  BY <1>3

(* The lists that live frames S and strands use. *)
Reads(S, L) == L \cup {f.list : f \in S} \cup {f.steal_list : f \in S}

(* Frame f is live after a step: its lists are those that others use or    *)
(* M, its sync_list is what it was in a copy of it, or a new one, new, if  *)
(* f is a frame of p.                                                      *)
Keeps(B, S, L, M, new, p, f) ==
  /\ ~B[f.act].done /\ (f.sync_list = 0 => Spawning(B, f.act) = {})
  /\ f.list \in Reads(S, L) \cup M /\ f.steal_list \in Reads(S, L) \cup M \cup {0}
  /\ f.sync_list # 0 =>
       /\ f.sync_list \notin M
       /\ \/ \E g \in S : g.sync_list = f.sync_list /\ g.act = f.act
          \/ f.sync_list = new /\ f.act = p

LEMMA ListsStep ==
  ASSUME NEW A, NEW B, NEW S, NEW T, NEW L, NEW K, ListsInv(A, S, L), NEW M, NEW new, NEW p,
         \A f \in T : Keeps(B, S, L, M, new, p, f), K \subseteq Reads(S, L) \cup M,
         new \notin Reads(S, L), \A g \in S : g.sync_list # new
  PROVE  ListsInv(B, T, K)
PROOF
<1>1. \A f \in S : f.sync_list # 0 => f.sync_list \notin Reads(S, L)
  BY DEF ListsInv, Reads
<1>2. \A f, g \in S : f.sync_list # 0 /\ g.sync_list = f.sync_list => g.act = f.act
  BY DEF ListsInv
<1>3. ASSUME NEW f \in T, f.sync_list # 0
      PROVE  f.sync_list \notin Reads(S, L) \cup M
  BY <1>1, <1>3 DEF Keeps
<1>4. ASSUME NEW f \in T, f.sync_list # 0, NEW g \in T, g.sync_list = f.sync_list
      PROVE  g.act = f.act
  <2>1. /\ \/ \E e \in S : e.sync_list = f.sync_list /\ e.act = f.act
           \/ f.sync_list = new /\ f.act = p
        /\ \/ \E e \in S : e.sync_list = g.sync_list /\ e.act = g.act
           \/ g.sync_list = new /\ g.act = p
    BY <1>4 DEF Keeps
  <2> QED
    BY <1>2, <1>4, <2>1
<1>5. ASSUME NEW f \in T, f.sync_list # 0, NEW g \in T
      PROVE  g.list # f.sync_list /\ g.steal_list # f.sync_list
  <2>1. g.list \in Reads(S, L) \cup M /\ g.steal_list \in Reads(S, L) \cup M \cup {0}
    BY DEF Keeps
  <2> QED
    BY <1>3, <1>5, <2>1
<1>6. \A f \in T : ~B[f.act].done /\ (f.sync_list = 0 => Spawning(B, f.act) = {})
  BY DEF Keeps
<1> QED
  BY <1>3, <1>4, <1>5, <1>6 DEF ListsInv

(* A frame that was live keeps its lists. *)
LEMMA OldKeeps ==
  ASSUME NEW A, NEW B, NEW S, NEW L, ListsInv(A, S, L), NEW M, NEW new, NEW p, NEW f \in S,
         B[f.act].done => A[f.act].done,
         f.sync_list = 0 => Spawning(B, f.act) \subseteq Spawning(A, f.act),
         f.sync_list # 0 => f.sync_list \notin M
  PROVE  Keeps(B, S, L, M, new, p, f)
PROOF
<1>1. ~A[f.act].done /\ (f.sync_list = 0 => Spawning(A, f.act) = {})
  BY DEF ListsInv
<1>2. f.list \in Reads(S, L) /\ f.steal_list \in Reads(S, L)
  BY DEF Reads
<1> QED
  BY <1>1, <1>2 DEF Keeps

(* So does one that goes on in another state. *)
LEMMA TurnedKeeps ==
  ASSUME NEW A, NEW B, NEW S, NEW L, ListsInv(A, S, L), NEW M, NEW new, NEW p, NEW g \in S, NEW f,
         f.act = g.act, f.sync_list = g.sync_list,
         f.list \in Reads(S, L) \cup M, f.steal_list \in Reads(S, L) \cup {0},
         B[f.act].done => A[f.act].done,
         f.sync_list = 0 => Spawning(B, f.act) \subseteq Spawning(A, f.act),
         f.sync_list # 0 => f.sync_list \notin M
  PROVE  Keeps(B, S, L, M, new, p, f)
PROOF
<1>1. ~A[g.act].done /\ (g.sync_list = 0 => Spawning(A, g.act) = {})
  BY DEF ListsInv
<1> QED
  BY <1>1 DEF Keeps

LEMMA SpawningMarked ==
  ASSUME NEW A, NEW B, Marks(A, B), NEW a
  PROVE  Spawning(B, a) \subseteq Spawning(A, a)
PROOF
<1>1. /\ Len(B) = Len(A)
      /\ \A c \in 1 .. Len(A) : /\ B[c].kind = A[c].kind /\ B[c].parent = A[c].parent
                                /\ A[c].done => B[c].done
  BY DEF Marks, Extends
<1> QED
  BY <1>1 DEF Spawning

StrandLists == {strands[b].list : b \in DOMAIN strands}

CopyInv ==
  /\ ShadowInv
  /\ Copies(acts, NodeCount, Len(heap), Homes, StrandLists)
  /\ StrandLists \subseteq 1 .. Len(heap)

(* Live frames name lists that exist. *)
LEMMA LiveBounds ==
  ASSUME NEW A, NEW N, NEW H, NEW V, NEW L, Copies(A, N, H, V, L), NEW f \in LiveFrames(A, V)
  PROVE  /\ FrameOK(A, N, H, f) /\ f \in Frames
         /\ f.list \in 1 .. H /\ f.steal_list \in 0 .. H /\ f.sync_list \in 0 .. H
PROOF
<1>1. PICK x \in DOMAIN V : Holding(V[x]) /\ \E i \in LiveIn(A, V[x].stack) : f = V[x].stack.frames[i]
  BY LiveWhere
<1>2. PICK i \in LiveIn(A, V[x].stack) : f = V[x].stack.frames[i]
  BY <1>1
<1>3. i \in 1 .. Len(V[x].stack.frames) /\ StackOK(A, N, H, V[x].stack)
  BY <1>1, HomeView DEF Holding, LiveIn
<1>4. FrameOK(A, N, H, f) /\ f \in Frames
  BY <1>1, <1>2, <1>3, WhyLive DEF StackOK
<1> QED
  BY <1>4 DEF FrameOK, FramesOf

LEMMA StrandsKept ==
  ASSUME IsSequence(strands), NEW e,
         strands' = strands \/ strands' = Append(strands, e)
  PROVE  StrandLists' \subseteq StrandLists \cup {e.list}
PROOF
<1>1. CASE strands' = strands
  BY <1>1 DEF StrandLists
<1>2. CASE strands' = Append(strands, e)
  <2>1. /\ Len(strands) \in Nat /\ DOMAIN strands = 1 .. Len(strands) /\ IsSequence(strands')
        /\ Len(strands') = Len(strands) + 1 /\ \A i \in 1 .. Len(strands) : strands'[i] = strands[i]
    BY <1>2, SequenceGrows
  <2>2. DOMAIN strands' = 1 .. Len(strands) + 1
    BY <2>1, LenProperties DEF IsSequence
  <2>3. strands'[Len(strands) + 1] = e
    BY <1>2, AppendProperties DEF IsSequence
  <2>4. \A i \in 1 .. Len(strands) + 1 : i \in 1 .. Len(strands) \/ i = Len(strands) + 1
    BY <2>1
  <2> QED
    BY <2>1, <2>2, <2>3, <2>4 DEF StrandLists
<1> QED
  BY <1>1, <1>2

(* Worker w has home x. *)
LEMMA WorkerHome ==
  ASSUME NEW w \in Workers
  PROVE  <<w, 0>> \in DOMAIN Homes /\ Homes[<<w, 0>>] = Home(shadow[w], own[w], pc[w])
PROOF
<1>1. <<w, 0>> \in Holders /\ <<w, 0>>[1] = w /\ <<w, 0>>[2] = 0
  BY DEF Holders
<1> QED
  BY <1>1 DEF Homes, HomeOf

LEMMA WorkerMoves ==
  ASSUME Shapes, NEW w \in Workers, NEW s, NEW deque, NEW p, Moves(w, s, deque, p),
         suspended' = suspended
  PROVE  Replaces(Homes, Homes', {<<w, 0>>}, {<<w, 0>>})
         /\ Homes'[<<w, 0>>] = Home(s, deque, p)
PROOF
<1>1. /\ shadow'[w] = s /\ own'[w] = deque /\ pc'[w] = p
      /\ \A u \in Workers : u # w => shadow'[u] = shadow[u] /\ own'[u] = own[u] /\ pc'[u] = pc[u]
  BY DEF Moves, Shapes
<1>2. Holders' = Holders
  BY DEF Holders
<1>3. DOMAIN Homes = Holders /\ DOMAIN Homes' = Holders
  BY <1>2 DEF Homes
<1>4. \A z \in Holders : Homes[z] = HomeOf(z) /\ Homes'[z] = HomeOf(z)'
  BY <1>2 DEF Homes
<1>5. ASSUME NEW z \in Holders, z # <<w, 0>>
      PROVE  HomeOf(z)' = HomeOf(z)
  <2>1. CASE z[2] = 0
    <3>1. PICK u \in Workers : z = <<u, 0>>
      BY <2>1 DEF Holders
    <3>2. u # w
      BY <1>5, <3>1
    <3> QED
      BY <1>1, <3>1, <3>2 DEF HomeOf
  <2>2. CASE z[2] # 0
    BY <2>2 DEF HomeOf
  <2> QED
    BY <2>1, <2>2
<1>6. HomeOf(<<w, 0>>)' = Home(s, deque, p) /\ <<w, 0>> \in Holders
  BY <1>1 DEF HomeOf, Holders
<1> QED
  BY <1>3, <1>4, <1>5, <1>6 DEF Replaces

(* What the next stacks and deques are. *)
LEMMA HomeStacks ==
  ASSUME ShadowInv', NEW x \in Holders'
  PROVE  Homes'[x].at \in Points
         /\ HasStack(acts', NodeCount', Len(heap'), Homes'[x].at, Homes'[x].stack, Homes'[x].own)
PROOF
<1>0. Homes'[x] = HomeOf(x)'
  BY DEF Homes
<1>1. CASE x[2] = 0
  <2>1. PICK u \in Workers : x = <<u, 0>>
    BY <1>1 DEF Holders
  <2>2. Homes'[x] = Home(shadow'[u], own'[u], pc'[u])
    BY <1>0, <2>1 DEF HomeOf
  <2>3. pc'[u] \in Points /\ WorkerOK(u)'
    BY DEF ShadowInv, Shapes
  <2> QED
    BY <2>2, <2>3 DEF Home, WorkerOK
<1>2. CASE x[2] # 0
  <2>1. PICK d \in suspended' : x = <<d, 1>>
    BY <1>2 DEF Holders
  <2>2. Homes'[x] = Home(d.stack, d.own, "run")
    BY <1>0, <1>2, <2>1 DEF HomeOf
  <2>3. StackOK(acts', NodeCount', Len(heap'), d.stack) /\ Covers(d.stack, d.own, Len(d.own))
    BY DEF ShadowInv, DequeOK
  <2>4. HasStack(acts', NodeCount', Len(heap'), "run", d.stack, d.own) /\ "run" \in Points
    BY <2>3 DEF HasStack, Points
  <2> QED
    BY <2>2, <2>4 DEF Home
<1> QED
  BY <1>1, <1>2

(* What a step does to the live frames T and to strands. *)
AllKeep(T, M, new, q) ==
  \A f \in T : Keeps(acts', LiveFrames(acts, Homes), StrandLists, M, new, q, f)

Records(T) ==
  \/ strands' = strands
  \/ \E g \in T : \E preds : strands' = Append(strands, Strand(g, preds)) /\ g.list \in 1 .. Len(heap')

AllFresh(M, new) == M \subseteq 1 .. Len(heap') /\ new \in Nat /\ new > Len(heap)

(* A step that replaces homes Gone by homes Come keeps the invariant. *)
LEMMA CopyConcludes ==
  ASSUME CopyInv, ShadowInv', NEW Gone, NEW Come, Replaces(Homes, Homes', Gone, Come),
         Grows, OwnInv(acts', Homes'), \A z \in Come : HomeInv(acts', Homes'[z]),
         NEW D, Returns(acts, acts', Homes, Gone, D),
         NEW T, LiveFrames(acts', Homes') \subseteq T,
         NEW M, NEW new, AllFresh(M, new), NEW q, AllKeep(T, M, new, q), Records(T)
  PROVE  CopyInv'
PROOF
<1>1. /\ Copies(acts, NodeCount, Len(heap), Homes, StrandLists) /\ ShadowInv
      /\ StrandLists \subseteq 1 .. Len(heap)
  BY DEF CopyInv
<1>2. /\ NodeCount \in Nat /\ NodeCount' \in Nat /\ Len(heap) \in Nat /\ Len(heap') \in Nat
      /\ IsSequence(strands) /\ Extends(acts, acts')
      /\ NodeCount <= NodeCount' /\ Len(heap) <= Len(heap') /\ new > Len(heap)
  BY <1>1, LenProperties DEF Grows, AllFresh, ShadowInv, OrderInv, Shapes, IsSequence
<1>3. \A z \in Come : /\ Homes'[z].at \in Points
                      /\ HasStack(acts', NodeCount', Len(heap'), Homes'[z].at, Homes'[z].stack,
                                  Homes'[z].own)
  <2>1. Come \subseteq Holders'
    BY DEF Replaces, Homes
  <2>2. \A z \in Holders' : /\ Homes'[z].at \in Points
                      /\ HasStack(acts', NodeCount', Len(heap'), Homes'[z].at, Homes'[z].stack,
                                  Homes'[z].own)
    BY HomeStacks
  <2> QED
    BY <2>1, <2>2
<1>4. HomesOK(acts', NodeCount', Len(heap'), Homes')
  <2> PICK A : A = acts
    OBVIOUS
  <2> PICK B : B = acts'
    OBVIOUS
  <2> PICK V : V = Homes
    OBVIOUS
  <2> PICK U : U = Homes'
    OBVIOUS
  <2> PICK N \in Nat : N = NodeCount
    BY <1>2
  <2> PICK O \in Nat : O = NodeCount'
    BY <1>2
  <2> PICK H \in Nat : H = Len(heap)
    BY <1>2
  <2> PICK I \in Nat : I = Len(heap')
    BY <1>2
  <2> PICK L : L = StrandLists
    OBVIOUS
  <2>1. /\ Copies(A, N, H, V, L) /\ Replaces(V, U, Gone, Come) /\ Extends(A, B)
        /\ N <= O /\ H <= I /\ OwnInv(B, U)
    BY <1>1, <1>2
  <2>2. NewHomes(B, O, I, U, Come)
    BY <1>3 DEF NewHomes
  <2>3. Returns(A, B, V, Gone, D)
    OBVIOUS
  <2>4. HomesOK(B, O, I, U)
    <3>1. N \in Nat /\ O \in Nat /\ H \in Nat /\ I \in Nat
      OBVIOUS
    <3> QED
      BY ONLY <2>1, <2>2, <2>3, <3>1, HomesStep
  <2> QED
    BY <2>4
<1> PICK S : S = LiveFrames(acts, Homes)
  OBVIOUS
<1> PICK L : L = StrandLists
  OBVIOUS
<1>5. \A f \in S : f.list \in 1 .. Len(heap) /\ f.steal_list \in 0 .. Len(heap)
                   /\ f.sync_list \in 0 .. Len(heap)
  BY <1>1, LiveBounds
<1>6. new \notin Reads(S, L) /\ \A f \in S : f.sync_list # new
  <2>1. new \notin 0 .. Len(heap) /\ new \notin 1 .. Len(heap)
    BY <1>2
  <2> QED
    BY <1>1, <1>5, <2>1 DEF Reads
<1>7. /\ StrandLists' \subseteq Reads(S, L) \cup M
      /\ StrandLists' \subseteq 1 .. Len(heap')
  <2>0. 1 .. Len(heap) \subseteq 1 .. Len(heap')
    BY <1>2
  <2>1. CASE strands' = strands
    BY <1>1, <2>0, <2>1 DEF StrandLists, Reads
  <2>2. CASE strands' # strands
    <3>0. PICK g \in T : \E preds : strands' = Append(strands, Strand(g, preds))
                                    /\ g.list \in 1 .. Len(heap')
      BY <2>2 DEF Records
    <3>1. PICK preds : strands' = Append(strands, Strand(g, preds)) /\ g.list \in 1 .. Len(heap')
      BY <3>0
    <3>2. Strand(g, preds).list = g.list
      BY DEF Strand
    <3>3. StrandLists' \subseteq StrandLists \cup {g.list}
      <4> PICK e : e = Strand(g, preds)
        OBVIOUS
      <4> QED
        BY <1>2, <3>1, <3>2, StrandsKept
    <3>4. g.list \in Reads(S, L) \cup M
      BY <3>1 DEF Keeps, AllKeep
    <3> QED
      BY <1>1, <2>0, <3>1, <3>3, <3>4 DEF Reads
  <2> QED
    BY <2>1, <2>2
<1>8. ListsInv(acts, S, L)
  BY <1>1 DEF Copies
<1>9. ListsInv(acts', LiveFrames(acts', Homes'), StrandLists')
  <2>1. \A f \in LiveFrames(acts', Homes') : Keeps(acts', S, L, M, new, q, f)
    BY DEF AllKeep
  <2> QED
    BY ONLY <1>6, <1>7, <1>8, <2>1, ListsStep
<1> QED
  BY <1>4, <1>7, <1>9 DEF CopyInv, Copies

(* The same for a step of worker w. *)
LEMMA WorkerCopies ==
  ASSUME CopyInv, ShadowInv', NEW w \in Workers, NEW x, x = <<w, 0>>, NEW s, NEW deque, NEW p,
         Moves(w, s, deque, p), suspended' = suspended,
         Grows, OwnInv(acts', Homes'), HomeInv(acts', Home(s, deque, p)),
         NEW D, Returns(acts, acts', Homes, {x}, D),
         NEW G, LiveAt(acts', Home(s, deque, p)) \subseteq LiveBelow(acts, Homes[x]) \cup G,
         NEW M, NEW new, AllFresh(M, new), NEW q,
         AllKeep(LiveBut(acts, Homes, x), M, new, q), AllKeep(G, M, new, q), Records(G)
  PROVE  CopyInv'
PROOF
<1>0. Shapes /\ Copies(acts, NodeCount, Len(heap), Homes, StrandLists)
  BY DEF CopyInv, ShadowInv
<1>1. x \in DOMAIN Homes /\ Replaces(Homes, Homes', {x}, {x}) /\ Homes'[x] = Home(s, deque, p)
  <2>1. <<w, 0>> \in DOMAIN Homes
    BY WorkerHome
  <2>2. /\ Replaces(Homes, Homes', {<<w, 0>>}, {<<w, 0>>})
        /\ Homes'[<<w, 0>>] = Home(s, deque, p)
    BY ONLY <1>0, WorkerMoves, Moves(w, s, deque, p), suspended' = suspended, w \in Workers
  <2> QED
    BY <2>1, <2>2
<1> PICK T : T = LiveBut(acts, Homes, x) \cup G
  OBVIOUS
<1>2. LiveFrames(acts', Homes') \subseteq T
  <2>1. Extends(acts, acts')
    BY DEF Grows
  <2> QED
    BY <1>0, <1>1, <2>1, OthersLive
<1>3. \A z \in {x} : HomeInv(acts', Homes'[z])
  BY <1>1
<1>4. AllKeep(T, M, new, q)
  BY DEF AllKeep
<1>5. Records(T)
  BY DEF Records
<1> PICK X : X = {x}
  OBVIOUS
<1>6. /\ Replaces(Homes, Homes', X, X) /\ \A z \in X : HomeInv(acts', Homes'[z])
      /\ Returns(acts, acts', Homes, X, D)
  BY <1>1, <1>3
<1> QED
  BY ONLY <1>2, <1>4, <1>5, <1>6, CopyConcludes, CopyInv, ShadowInv', Grows, OwnInv(acts', Homes'),
     AllFresh(M, new)

(* Fields of the frames of a stack that is cut, and of one that grows. *)
HeadFields(p, f) ==
  /\ f.steal_cont # 0 => f.steal_sync # 0
  /\ IF p \in {"sync", "returning"} THEN f.sync = 0 /\ f.sync_list # 0
     ELSE f.sync = 0 <=> f.sync_list = 0
  /\ p = "finished" => f.sync # 0

LEMMA FieldsCut ==
  ASSUME NEW s, NEW o, FieldsOK(o, s), Len(s.frames) \in Nat, NEW n \in 1 .. Len(s.frames),
         NEW p, NEW f, Cut(s, p, n, f), NEW q, HeadFields(q, f)
  PROVE  FieldsOK(q, p)
PROOF
<1>1. Len(p.frames) = n /\ p.frames[n] = f /\ \A i \in 1 .. n - 1 : p.frames[i] = s.frames[i]
  BY DEF Cut
<1>2. TopFrame(p) = f
  BY <1>1 DEF TopFrame
<1>3. ASSUME NEW i \in 1 .. n, i # n
      PROVE  /\ p.frames[i].steal_cont # 0 => p.frames[i].steal_sync # 0
             /\ p.frames[i].sync = 0 <=> p.frames[i].sync_list = 0
  <2>1. i \in 1 .. n - 1 /\ i \in 1 .. Len(s.frames) /\ i # Len(s.frames)
    BY <1>3
  <2>2. p.frames[i] = s.frames[i]
    BY <1>1, <2>1
  <2> QED
    BY <2>1, <2>2 DEF FieldsOK
<1>4. /\ f.steal_cont # 0 => f.steal_sync # 0
      /\ q \in {"sync", "returning"} => f.sync = 0 /\ f.sync_list # 0
      /\ q \notin {"sync", "returning"} => (f.sync = 0 <=> f.sync_list = 0)
      /\ q = "finished" => f.sync # 0
  BY DEF HeadFields
<1> QED
  BY <1>1, <1>2, <1>3, <1>4 DEF FieldsOK

LEMMA FieldsPushed ==
  ASSUME NEW s, NEW o, FieldsOK(o, s), NEW n \in Nat, n = Len(s.frames),
         NEW p, Len(p.frames) = n + 1, \A i \in 1 .. n - 1 : p.frames[i] = s.frames[i],
         HeadFields("run", p.frames[n]), HeadFields("run", p.frames[n + 1])
  PROVE  FieldsOK("run", p)
PROOF
<1>1. ASSUME NEW i \in 1 .. n + 1
      PROVE  /\ p.frames[i].steal_cont # 0 => p.frames[i].steal_sync # 0
             /\ p.frames[i].sync = 0 <=> p.frames[i].sync_list = 0
  <2>1. CASE i \in 1 .. n - 1
    <3>1. i \in 1 .. n /\ i # n
      BY <2>1
    <3> QED
      BY <2>1, <3>1 DEF FieldsOK
  <2>2. CASE i = n \/ i = n + 1
    BY <2>2 DEF HeadFields
  <2>3. i \in 1 .. n - 1 \/ i = n \/ i = n + 1
    OBVIOUS
  <2> QED
    BY <2>1, <2>2, <2>3
<1> QED
  BY <1>1 DEF FieldsOK

(* What a hook of worker w finds of the copies. *)
LEMMA FindsCopies ==
  ASSUME CopyInv, NEW w \in Workers, NEW x, x = <<w, 0>>
  PROVE  /\ ShadowInv /\ Shapes
         /\ x \in DOMAIN Homes /\ Homes[x] = Home(shadow[w], own[w], pc[w])
         /\ Homes[x].stack = shadow[w] /\ Homes[x].own = own[w] /\ Homes[x].at = pc[w]
         /\ Copies(acts, NodeCount, Len(heap), Homes, StrandLists)
         /\ OwnInv(acts, Homes) /\ ListsInv(acts, LiveFrames(acts, Homes), StrandLists)
         /\ Family(acts)
         /\ HomeInv(acts, Homes[x])
         /\ Holding(Homes[x]) <=> pc[w] # "idle" /\ (pc[w] = "finished" => Len(own[w]) > 1)
         /\ pc[w] # "idle" => FieldsOK(pc[w], shadow[w])
PROOF
<1>1. x \in DOMAIN Homes /\ Homes[x] = Home(shadow[w], own[w], pc[w])
  BY WorkerHome
<1>2. Homes[x].stack = shadow[w] /\ Homes[x].own = own[w] /\ Homes[x].at = pc[w]
  BY <1>1 DEF Home
<1>3. /\ ShadowInv /\ Shapes /\ Copies(acts, NodeCount, Len(heap), Homes, StrandLists)
      /\ OwnInv(acts, Homes) /\ ListsInv(acts, LiveFrames(acts, Homes), StrandLists)
      /\ Family(acts)
  BY DEF CopyInv, ShadowInv, Copies, OwnInv
<1>4. HomeInv(acts, Homes[x])
  BY <1>1, <1>3, HomeView
<1> QED
  BY <1>1, <1>2, <1>3, <1>4 DEF HomeInv, Holding

(* The head frame of a worker that runs. *)
LEMMA HeadCopies ==
  ASSUME CopyInv, NEW w \in Workers, NEW x, x = <<w, 0>>, pc[w] \in {"run", "sync"},
         NEW f, f = TopFrame(shadow[w])
  PROVE  /\ Holding(Homes[x]) /\ f \in LiveFrames(acts, Homes) /\ HeadFields(pc[w], f)
         /\ Len(own[w]) > 0 /\ Act(w) = own[w][Len(own[w])] /\ Act(w) = f.act
         /\ \A b : ~Calling(acts, b, Act(w))
         /\ f.list \in Reads(LiveFrames(acts, Homes), StrandLists)
         /\ f.steal_list \in Reads(LiveFrames(acts, Homes), StrandLists)
         /\ f.list \in 1 .. Len(heap) /\ f.sync_list \in 0 .. Len(heap)
         /\ Len(shadow[w].frames) \in 1 .. Len(shadow[w].frames) /\ Len(shadow[w].frames) \in Nat
         /\ f = shadow[w].frames[Len(shadow[w].frames)]
         /\ shadow[w].tail \in 1 .. Len(shadow[w].frames) /\ shadow[w] \in Stacks /\ f \in Frames
PROOF
<1>1. /\ x \in DOMAIN Homes /\ Homes[x].stack = shadow[w] /\ Homes[x].own = own[w]
      /\ Homes[x].at = pc[w]
      /\ Copies(acts, NodeCount, Len(heap), Homes, StrandLists) /\ ShadowInv
      /\ Holding(Homes[x]) /\ FieldsOK(pc[w], shadow[w])
  BY FindsCopies
<1>2. f \in LiveFrames(acts, Homes)
  BY <1>1, HeadLive
<1>3. Len(own[w]) > 0 /\ Act(w) = f.act /\ Act(w) = own[w][Len(own[w])]
  BY <1>1, Runs DEF Act
<1>4. \A b : ~Calling(acts, b, Act(w))
  BY <1>1, <1>3, RunsUncalling
<1>5. f.list \in 1 .. Len(heap) /\ f.sync_list \in 0 .. Len(heap) /\ f \in Frames
  BY <1>1, <1>2, LiveBounds
<1>6. Len(shadow[w].frames) \in 1 .. Len(shadow[w].frames) /\ Len(shadow[w].frames) \in Nat
      /\ f = shadow[w].frames[Len(shadow[w].frames)]
      /\ shadow[w].tail \in 1 .. Len(shadow[w].frames) /\ shadow[w] \in Stacks
  <2>1. Len(shadow[w].frames) \in Nat /\ shadow[w].tail \in 1 .. Len(shadow[w].frames)
        /\ shadow[w] \in Stacks
    BY <1>1, HomeView
  <2>2. Len(shadow[w].frames) \in 1 .. Len(shadow[w].frames)
    BY <2>1
  <2> QED
    BY <2>1, <2>2 DEF TopFrame
<1>7. HeadFields(pc[w], f)
  <2>1. "finished" \notin {"run", "sync"} /\ "returning" \notin {"run", "sync"}
    OBVIOUS
  <2>2. /\ f.steal_cont # 0 => f.steal_sync # 0
        /\ IF pc[w] \in {"sync", "returning"} THEN f.sync = 0 /\ f.sync_list # 0
           ELSE f.sync = 0 <=> f.sync_list = 0
    BY ONLY <1>1, <1>6 DEF FieldsOK
  <2> QED
    BY <2>1, <2>2 DEF HeadFields
<1>8. /\ f.list \in Reads(LiveFrames(acts, Homes), StrandLists)
      /\ f.steal_list \in Reads(LiveFrames(acts, Homes), StrandLists)
  BY <1>2 DEF Reads
<1> QED
  BY <1>1, <1>2, <1>3, <1>4, <1>5, <1>6, <1>7, <1>8

LEMMA WorkerCuts ==
  ASSUME CopyInv, NEW w \in Workers, NEW s, NEW deque, NEW p, Moves(w, s, deque, p),
         suspended' = suspended, Marks(acts, acts'), Part(acts', deque, own[w], 0)
  PROVE  OwnInv(acts', Homes')
PROOF
<1> PICK x : x = <<w, 0>>
  OBVIOUS
<1>1. Shapes /\ x \in DOMAIN Homes /\ Homes[x].own = own[w] /\ OwnInv(acts, Homes)
  BY FindsCopies
<1>2. Replaces(Homes, Homes', {x}, {x}) /\ Homes'[x].own = deque
  <2>1. /\ Replaces(Homes, Homes', {<<w, 0>>}, {<<w, 0>>})
        /\ Homes'[<<w, 0>>] = Home(s, deque, p)
    BY ONLY <1>1, WorkerMoves, Moves(w, s, deque, p), suspended' = suspended, w \in Workers
  <2> QED
    BY <2>1 DEF Home
<1>3. Part(acts', Homes'[x].own, Homes[x].own, 0)
  BY <1>1, <1>2
<1> QED
  BY ONLY <1>1, <1>2, <1>3, Marks(acts, acts'), OneCut

LEMMA Marked ==
  ASSUME NEW A, NEW B, Marks(A, B)
  PROVE  /\ A \in Seq(Activations) /\ B \in Seq(Activations) /\ Extends(A, B) /\ Len(B) = Len(A)
         /\ \A a : Spawning(B, a) \subseteq Spawning(A, a)
PROOF
<1>1. \A a : Spawning(B, a) \subseteq Spawning(A, a)
  BY SpawningMarked
<1> QED
  BY <1>1 DEF Marks, Extends

(* What a step of worker w does to the frames that it leaves alone, and    *)
(* that of all activations only c can return in it.                        *)
OthersKeep(x, M) ==
  \A f \in LiveBut(acts, Homes, x) :
    f.sync_list \notin M /\ (acts'[f.act].done => acts[f.act].done)

OneReturns(w, c) ==
  /\ \E j \in 1 .. Len(own[w]) : own[w][j] = c
  /\ \A a \in 1 .. Len(acts) : acts'[a].done => acts[a].done \/ a = c

(* A step of worker w in which activations return or are marked. *)
LEMMA MarkCopies ==
  ASSUME CopyInv, ShadowInv', NEW w \in Workers, NEW x, x = <<w, 0>>, NEW s, NEW deque, NEW p,
         Moves(w, s, deque, p), suspended' = suspended, Marks(acts, acts'),
         Grows, OwnInv(acts', Homes'), HomeInv(acts', Home(s, deque, p)),
         NEW c, OneReturns(w, c),
         NEW G, LiveAt(acts', Home(s, deque, p)) \subseteq LiveBelow(acts, Homes[x]) \cup G,
         NEW M, NEW new, AllFresh(M, new), OthersKeep(x, M), NEW q, AllKeep(G, M, new, q), Records(G)
  PROVE  CopyInv'
PROOF
<1>1. /\ x \in DOMAIN Homes /\ Homes[x].own = own[w]
      /\ ListsInv(acts, LiveFrames(acts, Homes), StrandLists)
  BY FindsCopies
<1>2. \A a : Spawning(acts', a) \subseteq Spawning(acts, a)
  BY Marked
<1>3. Returns(acts, acts', Homes, {x}, {c})
  BY <1>1 DEF Returns, OneReturns
<1>4. LiveBut(acts, Homes, x) \subseteq LiveFrames(acts, Homes)
  BY <1>1, LiveButLive
<1>6. ASSUME NEW f \in LiveBut(acts, Homes, x)
      PROVE  Keeps(acts', LiveFrames(acts, Homes), StrandLists, M, new, q, f)
  <2>1. /\ f \in LiveFrames(acts, Homes) /\ (acts'[f.act].done => acts[f.act].done)
        /\ Spawning(acts', f.act) \subseteq Spawning(acts, f.act) /\ f.sync_list \notin M
    BY <1>2, <1>4 DEF OthersKeep
  <2> QED
    BY <1>1, <2>1, OldKeeps
<1>7. AllKeep(LiveBut(acts, Homes, x), M, new, q)
  BY <1>6 DEF AllKeep
<1> PICK h : h = Home(s, deque, p)
  OBVIOUS
<1>8. /\ HomeInv(acts', Home(s, deque, p))
      /\ LiveAt(acts', Home(s, deque, p)) \subseteq LiveBelow(acts, Homes[x]) \cup G
  OBVIOUS
<1> QED
  BY ONLY <1>3, <1>7, <1>8, WorkerCopies, CopyInv, ShadowInv', w \in Workers, x = <<w, 0>>,
     Moves(w, s, deque, p), suspended' = suspended, Grows, OwnInv(acts', Homes'),
     AllFresh(M, new), AllKeep(G, M, new, q), Records(G)

(* Stack s is the stack of w up to frame n, which is g now. *)
Cuts(w, s, n, g) ==
  /\ n \in 1 .. Len(shadow[w].frames) /\ Cut(shadow[w], s, n, g)
  /\ g.act = shadow[w].frames[n].act /\ s.tail \in 1 .. n
  /\ \/ s.tail = shadow[w].tail
     \/ /\ s.tail = n /\ shadow[w].tail = n + 1
        /\ acts[shadow[w].frames[n + 1].act].kind # "future"

LEMMA CutHome ==
  ASSUME CopyInv, NEW w \in Workers, NEW x, x = <<w, 0>>, Holding(Homes[x]),
         NEW n, NEW s, NEW g, Cuts(w, s, n, g),
         NEW deque, NEW p, HeadFields(p, g), Extends(acts, acts')
  PROVE  /\ LiveAt(acts', Home(s, deque, p)) \subseteq LiveBelow(acts, Homes[x]) \cup {g}
         /\ FieldsOK(p, s)
PROOF
<1>1. /\ x \in DOMAIN Homes /\ Homes[x].stack = shadow[w] /\ Homes[x].at = pc[w]
      /\ Copies(acts, NodeCount, Len(heap), Homes, StrandLists)
      /\ FieldsOK(pc[w], shadow[w])
  BY FindsCopies DEF Holding
<1>2. Len(shadow[w].frames) \in Nat
  BY <1>1, HomeView DEF Holding
<1> PICK h : h = Home(s, deque, p)
  OBVIOUS
<1>3. h.stack = s
  BY DEF Home
<1> PICK t : t = shadow[w]
  OBVIOUS
<1>4. /\ n \in 1 .. Len(Homes[x].stack.frames) /\ t = Homes[x].stack /\ s = h.stack
      /\ Cut(t, s, n, g) /\ g.act = t.frames[n].act /\ s.tail \in 1 .. n
      /\ s.tail = t.tail \/ (s.tail = n /\ t.tail = n + 1 /\ acts[t.frames[n + 1].act].kind # "future")
  BY <1>1, <1>3 DEF Cuts
<1>5. LiveAt(acts', h) \subseteq LiveBelow(acts, Homes[x]) \cup {g}
  BY ONLY <1>1, <1>4, Holding(Homes[x]), Extends(acts, acts'), LiveCut
<1>6. FieldsOK(p, s)
  <2>1. n \in 1 .. Len(t.frames) /\ Len(t.frames) \in Nat /\ FieldsOK(pc[w], t)
    BY <1>1, <1>2, <1>4
  <2> QED
    BY ONLY <1>4, <2>1, HeadFields(p, g), FieldsCut
<1> QED
  BY <1>5, <1>6

(* A step of worker w that cuts its stack at frame n and goes on with g. *)
LEMMA CutCopies ==
  ASSUME CopyInv, ShadowInv', NEW w \in Workers, NEW x, x = <<w, 0>>, Holding(Homes[x]),
         NEW n, NEW s, NEW g, Cuts(w, s, n, g), NEW deque, NEW p, HeadFields(p, g),
         p = "returning" => /\ Len(deque) = 1
                            /\ acts'[deque[1]].kind = "spawn" /\ ~acts'[deque[1]].done,
         Moves(w, s, deque, p), suspended' = suspended, Marks(acts, acts'),
         Grows, OwnInv(acts', Homes'), NEW c, OneReturns(w, c),
         NEW M, NEW new, AllFresh(M, new), OthersKeep(x, M),
         NEW q, AllKeep({g}, M, new, q), Records({g})
  PROVE  CopyInv'
PROOF
<1> PICK G : G = {g}
  OBVIOUS
<1>1. Extends(acts, acts')
  BY DEF Grows
<1>2. /\ LiveAt(acts', Home(s, deque, p)) \subseteq LiveBelow(acts, Homes[x]) \cup {g}
      /\ FieldsOK(p, s)
  BY ONLY <1>1, CutHome, CopyInv, w \in Workers, x = <<w, 0>>, Holding(Homes[x]),
     Cuts(w, s, n, g), HeadFields(p, g)
<1>3. HomeInv(acts', Home(s, deque, p))
  BY <1>2 DEF HomeInv, Home
<1>4. /\ LiveAt(acts', Home(s, deque, p)) \subseteq LiveBelow(acts, Homes[x]) \cup G
      /\ AllKeep(G, M, new, q) /\ Records(G)
  BY <1>2
<1> QED
  BY ONLY <1>3, <1>4, MarkCopies, CopyInv, ShadowInv', w \in Workers, x = <<w, 0>>,
     Moves(w, s, deque, p), suspended' = suspended, Marks(acts, acts'), Grows,
     OwnInv(acts', Homes'), OneReturns(w, c), AllFresh(M, new), OthersKeep(x, M)

(* Nothing returns. *)
LEMMA NoReturns ==
  ASSUME NEW w \in Workers, NEW x, Len(own[w]) \in Nat, Len(own[w]) > 0,
         \A a \in 1 .. Len(acts) : acts'[a].done => acts[a].done, NEW M,
         \A f \in LiveBut(acts, Homes, x) : f.act \in 1 .. Len(acts) /\ f.sync_list \notin M
  PROVE  OneReturns(w, own[w][Len(own[w])]) /\ OthersKeep(x, M)
PROOF
<1>1. Len(own[w]) \in 1 .. Len(own[w])
  OBVIOUS
<1> QED
  BY <1>1 DEF OneReturns, OthersKeep

(* The functions of live frames exist. *)
LEMMA LiveActs ==
  ASSUME NEW A, NEW N, NEW H, NEW V, NEW L, Copies(A, N, H, V, L), NEW x \in DOMAIN V
  PROVE  \A f \in LiveBut(A, V, x) :
           /\ f \in LiveFrames(A, V) /\ f.act \in 1 .. Len(A) /\ f.sync_list \in 0 .. H
           /\ f.list \in 1 .. H /\ f.steal_list \in 0 .. H
PROOF
<1> TAKE f \in LiveBut(A, V, x)
<1>1. f \in LiveFrames(A, V)
  BY LiveButLive
<1>2. FrameOK(A, N, H, f) /\ f.list \in 1 .. H /\ f.steal_list \in 0 .. H /\ f.sync_list \in 0 .. H
  BY <1>1, LiveBounds
<1>3. f.act \in 1 .. Len(A)
  BY <1>2 DEF FrameOK, FramesOf
<1> QED
  BY <1>1, <1>2, <1>3

(* The head frame f of worker w, which runs or syncs, turns to g, and no   *)
(* function returns.                                                       *)
LEMMA HeadTurnCopies ==
  ASSUME CopyInv, ShadowInv', NEW w \in Workers, NEW x, x = <<w, 0>>, pc[w] \in {"run", "sync"},
         NEW f, f = TopFrame(shadow[w]), NEW g \in Frames, g.act = f.act, NEW s, Tops(s, shadow[w], g),
         NEW p \in {"run", "sync"}, HeadFields(p, g), Moves(w, s, own[w], p),
         suspended' = suspended, Marks(acts, acts'),
         \A a \in 1 .. Len(acts) : acts'[a].done => acts[a].done, Grows,
         NEW M, AllFresh(M, Len(heap) + 1), \A e \in LiveBut(acts, Homes, x) : e.sync_list \notin M,
         AllKeep({g}, M, Len(heap) + 1, 0), Records({g})
  PROVE  CopyInv'
PROOF
<1> PICK deque : deque = own[w]
  OBVIOUS
<1>2. deque \in Seq(Nat) /\ ShadowInv /\ Len(deque) \in Nat
  <2>1. ShadowInv
    BY DEF CopyInv
  <2> QED
    BY <2>1, Finds, LenProperties
<1>4. /\ Holding(Homes[x]) /\ Len(own[w]) > 0
      /\ Len(shadow[w].frames) \in 1 .. Len(shadow[w].frames)
      /\ f = shadow[w].frames[Len(shadow[w].frames)]
      /\ shadow[w].tail \in 1 .. Len(shadow[w].frames) /\ shadow[w] \in Stacks
      /\ Len(shadow[w].frames) \in Nat
  BY HeadCopies
<1> PICK n : n = Len(shadow[w].frames)
  OBVIOUS
<1>6. Cuts(w, s, n, g)
  <2>1. Cut(shadow[w], s, n, g) /\ s.tail = shadow[w].tail
    BY <1>4, SetTopView DEF Tops
  <2> QED
    BY <1>4, <2>1 DEF Cuts
<1>9. OwnInv(acts', Homes')
  <2>1. Part(acts', deque, own[w], 0)
    BY <1>2, Parts
  <2>2. Moves(w, s, deque, p)
    OBVIOUS
  <2> QED
    BY ONLY <2>1, <2>2, WorkerCuts, CopyInv, w \in Workers, suspended' = suspended, Marks(acts, acts')
<1> PICK new : new = Len(heap) + 1
  OBVIOUS
<1> PICK c : c = own[w][Len(own[w])]
  OBVIOUS
<1>13. OneReturns(w, c) /\ OthersKeep(x, M)
  <2>1. \A e \in LiveBut(acts, Homes, x) : e.act \in 1 .. Len(acts) /\ e.sync_list \notin M
    BY FindsCopies, LiveActs
  <2>2. Len(own[w]) \in Nat /\ Len(own[w]) > 0 /\ \A a \in 1 .. Len(acts) : acts'[a].done => acts[a].done
    BY <1>2, <1>4
  <2>4. OneReturns(w, own[w][Len(own[w])]) /\ OthersKeep(x, M)
    BY ONLY <2>1, <2>2, NoReturns, w \in Workers
  <2> QED
    BY <2>4
<1>14. p # "returning" /\ Moves(w, s, deque, p) /\ AllFresh(M, new) /\ AllKeep({g}, M, new, 0)
  OBVIOUS
<1> QED
  BY ONLY <1>4, <1>6, <1>9, <1>13, <1>14, CutCopies, CopyInv, ShadowInv', HeadFields(p, g),
     suspended' = suspended, Marks(acts, acts'), Grows, Records({g}), w \in Workers, x = <<w, 0>>

LEMMA StrandRecorded ==
  ASSUME NEW s, NEW m, NEW n, NEW t, Cut(t, s, n, m), NEW P,
         strands' = Append(strands, Strand(TopFrame(s), P)), m.list \in 1 .. Len(heap')
  PROVE  Records({m})
PROOF
<1>1. TopFrame(s) = m
  BY DEF Cut, TopFrame
<1> QED
  BY <1>1 DEF Records

(* do_sync_begin *)
LEMMA SyncBeginCopies ==
  ASSUME CopyInv, NEW w \in Workers, SyncBegin(w)
  PROVE  CopyInv'
PROOF
<1> PICK x : x = <<w, 0>>
  OBVIOUS
<1>0. ShadowInv /\ ShadowInv'
  BY SyncBeginStep DEF CopyInv
<1> PICK f : f = TopFrame(shadow[w])
  OBVIOUS
<1> PICK g : g = AtSync(f)
  OBVIOUS
<1> PICK s : s = SetTop(shadow[w], g)
  OBVIOUS
<1> PICK new : new = Len(heap) + 1
  OBVIOUS
<1> PICK M : M = {}
  OBVIOUS
<1>1. /\ pc[w] = "run" /\ f.sync # 0 /\ acts' = acts /\ suspended' = suspended /\ strands' = strands
      /\ om' = om /\ shadow' = [shadow EXCEPT ![w] = s] /\ own' = own /\ pc' = [pc EXCEPT ![w] = "sync"]
  BY DEF SyncBegin, Running, AtSync
<1>2. acts \in Seq(Activations) /\ IsSequence(heap) /\ Len(heap) \in Nat
  BY <1>0, Finds
<1>3. Grows /\ Marks(acts, acts') /\ AllFresh(M, new)
  <2>1. Extends(acts, acts')
    BY <1>1, <1>2, ExtendsSame
  <2>2. IsSequence(heap') /\ Len(heap') = Len(heap)
    BY <1>2, HeapMerged DEF SyncBegin
  <2> QED
    BY <1>0, <1>1, <1>2, <2>1, <2>2, NothingGrows DEF Marks, AllFresh
<1>4. /\ f \in LiveFrames(acts, Homes) /\ HeadFields("run", f) /\ f \in Frames
      /\ f.list \in Reads(LiveFrames(acts, Homes), StrandLists)
      /\ f.steal_list \in Reads(LiveFrames(acts, Homes), StrandLists)
  BY <1>1, HeadCopies
<1>5. g \in Frames
  BY <1>4, Zenon DEF Frames, AtSync
<1>6. /\ g.act = f.act /\ g.list = f.list /\ g.steal_list = f.steal_list
      /\ g.sync_list = f.sync_list /\ g.sync = 0 /\ g.steal_cont = f.steal_cont
      /\ g.steal_sync = f.steal_sync
  BY <1>4 DEF Frames, AtSync
<1>7. HeadFields("sync", g)
  BY <1>1, <1>4, <1>6 DEF HeadFields
<1>8. AllKeep({g}, M, new, 0)
  <2>1. ListsInv(acts, LiveFrames(acts, Homes), StrandLists)
    BY FindsCopies
  <2>2. Keeps(acts', LiveFrames(acts, Homes), StrandLists, M, new, 0, g)
    BY <1>1, <1>4, <1>6, <2>1, TurnedKeeps
  <2> QED
    BY <2>2 DEF AllKeep
<1>9. /\ pc[w] \in {"run", "sync"} /\ "sync" \in {"run", "sync"} /\ Tops(s, shadow[w], g)
      /\ Moves(w, s, own[w], "sync") /\ Records({g})
      /\ \A a \in 1 .. Len(acts) : acts'[a].done => acts[a].done
      /\ \A e \in LiveBut(acts, Homes, x) : e.sync_list \notin M
  BY <1>0, <1>1 DEF Tops, Moves, Records, ShadowInv, Shapes
<1> QED
  BY ONLY <1>0, <1>1, <1>3, <1>5, <1>6, <1>7, <1>8, <1>9, HeadTurnCopies, CopyInv,
     w \in Workers, x = <<w, 0>>, f = TopFrame(shadow[w]),
     new = Len(heap) + 1

(* CilkFutureGet *)
LEMMA FutureGetCopies ==
  ASSUME CopyInv, NEW w \in Workers, NEW a, CilkFutureGet(w, a)
  PROVE  CopyInv'
PROOF
<1> PICK x : x = <<w, 0>>
  OBVIOUS
<1>0. ShadowInv /\ ShadowInv'
  BY FutureGetStep DEF CopyInv
<1> PICK f : f = TopFrame(shadow[w])
  OBVIOUS
<1> PICK new : new = Len(heap) + 1
  OBVIOUS
<1> PICK M : M = {new}
  OBVIOUS
<1> PICK g : g = WithList(f, new)
  OBVIOUS
<1> PICK s : s = SetTop(shadow[w], g)
  OBVIOUS
<1>1. /\ pc[w] = "run" /\ acts' = acts /\ suspended' = suspended
      /\ strands' = Append(strands, Strand(TopFrame(s), {cur[w], acts[a].last}))
      /\ om' = om /\ shadow' = [shadow EXCEPT ![w] = s] /\ own' = own /\ pc' = pc
      /\ heap' = Append(heap, ListOfLists(om, heap[f.list], heap[acts[a].fom]))
  BY DEF CilkFutureGet, Running, WithList, Continue
<1>2. acts \in Seq(Activations) /\ IsSequence(heap) /\ Len(heap) \in Nat /\ new \in Nat
  BY <1>0, Finds
<1>3. Grows /\ Marks(acts, acts') /\ AllFresh(M, new) /\ Len(heap') = new
  <2>1. Extends(acts, acts')
    BY <1>1, <1>2, ExtendsSame
  <2>2. IsSequence(heap') /\ Len(heap') = new
    BY <1>1, <1>2, SequenceGrows
  <2>3. Len(heap) <= Len(heap') /\ M \subseteq 1 .. Len(heap') /\ new > Len(heap)
    BY <1>2, <2>2
  <2> QED
    BY <1>0, <1>1, <1>2, <2>1, <2>2, <2>3, NothingGrows DEF Marks, AllFresh
<1>4. /\ f \in LiveFrames(acts, Homes) /\ HeadFields("run", f) /\ f \in Frames
      /\ f.list \in Reads(LiveFrames(acts, Homes), StrandLists)
      /\ f.steal_list \in Reads(LiveFrames(acts, Homes), StrandLists)
      /\ f.sync_list \in 0 .. Len(heap)
      /\ Len(shadow[w].frames) \in 1 .. Len(shadow[w].frames) /\ Len(shadow[w].frames) \in Nat
      /\ shadow[w] \in Stacks
  BY <1>1, HeadCopies
<1>5. g \in Frames
  BY <1>2, <1>4, Zenon DEF Frames, WithList
<1>6. /\ g.act = f.act /\ g.list = new /\ g.steal_list = f.steal_list
      /\ g.sync_list = f.sync_list /\ g.sync = f.sync /\ g.steal_cont = f.steal_cont
      /\ g.steal_sync = f.steal_sync
  BY <1>4 DEF Frames, WithList
<1>7. HeadFields("run", g)
  BY <1>4, <1>6 DEF HeadFields
<1>8. AllKeep({g}, M, new, 0)
  <2>1. ListsInv(acts, LiveFrames(acts, Homes), StrandLists)
    BY FindsCopies
  <2>2. f.sync_list # new
    BY <1>2, <1>4
  <2>3. Keeps(acts', LiveFrames(acts, Homes), StrandLists, M, new, 0, g)
    BY <1>1, <1>4, <1>6, <2>1, <2>2, TurnedKeeps
  <2> QED
    BY <2>3 DEF AllKeep
<1>9. Records({g})
  <2>1. Cut(shadow[w], s, Len(shadow[w].frames), g)
    BY <1>4, <1>5, SetTopView
  <2>2. g.list \in 1 .. Len(heap')
    BY <1>2, <1>3, <1>6
  <2> QED
    BY <1>1, <2>1, <2>2, StrandRecorded
<1>10. \A e \in LiveBut(acts, Homes, x) : e.sync_list \notin M
  <2>1. \A e \in LiveBut(acts, Homes, x) : e.sync_list \in 0 .. Len(heap)
    BY FindsCopies, LiveActs
  <2> QED
    BY <1>2, <2>1
<1>11. /\ pc[w] \in {"run", "sync"} /\ "run" \in {"run", "sync"} /\ Tops(s, shadow[w], g)
       /\ Moves(w, s, own[w], "run")
       /\ \A b \in 1 .. Len(acts) : acts'[b].done => acts[b].done
  BY <1>0, <1>1 DEF Tops, Moves, ShadowInv, Shapes
<1> QED
  BY ONLY <1>0, <1>1, <1>3, <1>5, <1>6, <1>7, <1>8, <1>9, <1>10, <1>11, HeadTurnCopies, CopyInv,
     w \in Workers, x = <<w, 0>>, f = TopFrame(shadow[w]), new = Len(heap) + 1

(* No live frame but the head frame f of worker w, which runs, has the     *)
(* sync_list of f, if the children of its function have returned.          *)
LEMMA AloneWithList ==
  ASSUME CopyInv, NEW w \in Workers, NEW x, x = <<w, 0>>, pc[w] \in {"run", "sync"},
         NEW f, f = TopFrame(shadow[w]), Spawning(acts, f.act) = {}, f.sync_list # 0
  PROVE  \A e \in LiveBut(acts, Homes, x) : e.sync_list # f.sync_list
PROOF
<1> TAKE e \in LiveBut(acts, Homes, x)
<1>1. /\ x \in DOMAIN Homes /\ Homes[x].own = own[w] /\ Homes[x].at = pc[w]
      /\ Copies(acts, NodeCount, Len(heap), Homes, StrandLists)
      /\ ListsInv(acts, LiveFrames(acts, Homes), StrandLists)
  BY FindsCopies
<1>2. f \in LiveFrames(acts, Homes) /\ Act(w) = own[w][Len(own[w])] /\ Act(w) = f.act
  BY HeadCopies
<1>3. e.act # f.act
  BY <1>1, <1>2, Alone
<1>4. e \in LiveFrames(acts, Homes)
  BY <1>1, LiveButLive
<1> QED
  BY <1>1, <1>2, <1>3, <1>4 DEF ListsInv

(* do_sync_end *)
LEMMA SyncEndCopies ==
  ASSUME CopyInv, NEW w \in Workers, SyncEnd(w)
  PROVE  CopyInv'
PROOF
<1> PICK x : x = <<w, 0>>
  OBVIOUS
<1>0. ShadowInv /\ ShadowInv'
  BY SyncEndStep DEF CopyInv
<1> PICK f : f = TopFrame(shadow[w])
  OBVIOUS
<1> PICK new : new = Len(heap) + 1
  OBVIOUS
<1> PICK M : M = {f.sync_list}
  OBVIOUS
<1> PICK g : g = Synced(f)
  OBVIOUS
<1> PICK s : s = SetTop(shadow[w], g)
  OBVIOUS
<1>1. /\ pc[w] = "sync" /\ Outstanding(Act(w)) = {} /\ acts' = [acts EXCEPT ![Act(w)].ended = {}]
      /\ suspended' = suspended
      /\ strands' = Append(strands, Strand(TopFrame(s), {cur[w]} \cup acts[Act(w)].ended))
      /\ om' = om /\ heap' = heap /\ shadow' = [shadow EXCEPT ![w] = s] /\ own' = own
      /\ pc' = [pc EXCEPT ![w] = "run"]
  BY DEF SyncEnd, Continue
<1>2. acts \in Seq(Activations) /\ IsSequence(heap) /\ Len(heap) \in Nat /\ new \in Nat
  BY <1>0, Finds
<1>3. /\ f \in LiveFrames(acts, Homes) /\ HeadFields("sync", f) /\ f \in Frames
      /\ f.list \in Reads(LiveFrames(acts, Homes), StrandLists)
      /\ f.steal_list \in Reads(LiveFrames(acts, Homes), StrandLists)
      /\ f.sync_list \in 0 .. Len(heap) /\ f.list \in 1 .. Len(heap) /\ Act(w) = f.act
      /\ Len(shadow[w].frames) \in 1 .. Len(shadow[w].frames) /\ Len(shadow[w].frames) \in Nat
      /\ shadow[w] \in Stacks
  BY <1>1, HeadCopies
<1>4. /\ f.sync = 0 /\ f.sync_list # 0 /\ f.sync_list \in 1 .. Len(heap)
      /\ f.steal_cont # 0 => f.steal_sync # 0
  BY <1>2, <1>3 DEF HeadFields
<1>5. Act(w) \in 1 .. Len(acts)
  BY <1>0, <1>1, Runs
<1>6. /\ Marks(acts, acts') /\ \A b \in 1 .. Len(acts) : acts'[b].done = acts[b].done
  <2>1. Extends(acts, acts')
    BY <1>1, <1>2, <1>5, ActMarked
  <2>2. DOMAIN acts = 1 .. Len(acts) /\ acts = [b \in 1 .. Len(acts) |-> acts[b]]
    BY <1>2, LenProperties, SeqDef
  <2>3. \A b \in 1 .. Len(acts) : acts[b] \in Activations
    BY <1>2, ElementOfSeq
  <2>4. DOMAIN acts' = 1 .. Len(acts)
        /\ \A b \in 1 .. Len(acts) : acts'[b].done = acts[b].done /\ acts'[b].waits = acts[b].waits
    BY <1>1, <1>5, <2>2, <2>3 DEF Activations
  <2>5. Len(acts') = Len(acts)
    BY <1>2, <2>1, <2>4, LenProperties DEF Extends
  <2> QED
    BY <2>1, <2>4, <2>5 DEF Marks
<1>7. Grows /\ AllFresh(M, new)
  <2>1. M \subseteq 1 .. Len(heap') /\ new > Len(heap) /\ Len(heap) <= Len(heap') /\ IsSequence(heap')
    BY <1>1, <1>2, <1>4
  <2> QED
    BY <1>0, <1>1, <1>2, <1>6, <2>1, NothingGrows DEF Marks, AllFresh
<1>8. Spawning(acts, f.act) = {}
  <2>1. DOMAIN acts = 1 .. Len(acts)
    BY <1>2, LenProperties
  <2> QED
    BY <1>1, <1>3, <2>1 DEF Spawning, Outstanding
<1>9. g \in Frames
  BY <1>4, <1>3, Zenon DEF Frames, Synced
<1>10. /\ g.act = f.act /\ (g.list = f.list \/ g.list = f.sync_list) /\ g.steal_list = f.steal_list
       /\ g.sync_list = 0 /\ g.sync = f.sync /\ g.steal_cont = f.steal_cont
       /\ g.steal_sync = f.steal_sync
  BY <1>3 DEF Frames, Synced
<1>11. HeadFields("run", g)
  BY <1>4, <1>10 DEF HeadFields
<1>12. AllKeep({g}, M, new, 0)
  <2>1. ListsInv(acts, LiveFrames(acts, Homes), StrandLists)
    BY FindsCopies
  <2>2. ~acts'[g.act].done
    BY <1>3, <1>5, <1>6, <1>10, <2>1 DEF ListsInv
  <2>3. Spawning(acts', g.act) = {}
    BY <1>6, <1>8, <1>10, SpawningMarked
  <2>4. Keeps(acts', LiveFrames(acts, Homes), StrandLists, M, new, 0, g)
    BY <1>3, <1>10, <2>2, <2>3 DEF Keeps
  <2> QED
    BY <2>4 DEF AllKeep
<1>13. Records({g})
  <2>1. Cut(shadow[w], s, Len(shadow[w].frames), g)
    BY <1>3, <1>9, SetTopView
  <2>2. g.list \in 1 .. Len(heap')
    BY <1>1, <1>3, <1>4, <1>10
  <2> QED
    BY <1>1, <2>1, <2>2, StrandRecorded
<1>14. \A e \in LiveBut(acts, Homes, x) : e.sync_list \notin M
  <2>1. pc[w] \in {"run", "sync"}
    BY <1>1
  <2>2. \A e \in LiveBut(acts, Homes, x) : e.sync_list # f.sync_list
    BY ONLY <1>4, <1>8, <2>1, AloneWithList, CopyInv, w \in Workers, x = <<w, 0>>,
       f = TopFrame(shadow[w])
  <2> QED
    BY <2>2
<1>15. /\ pc[w] \in {"run", "sync"} /\ "run" \in {"run", "sync"} /\ Tops(s, shadow[w], g)
       /\ Moves(w, s, own[w], "run") /\ Marks(acts, acts')
       /\ \A b \in 1 .. Len(acts) : acts'[b].done => acts[b].done
  BY <1>0, <1>1, <1>6 DEF Tops, Moves, ShadowInv, Shapes
<1> QED
  BY ONLY <1>0, <1>1, <1>7, <1>9, <1>10, <1>11, <1>12, <1>13, <1>14, <1>15, HeadTurnCopies, CopyInv,
     w \in Workers, x = <<w, 0>>, f = TopFrame(shadow[w]), new = Len(heap) + 1

(* The parent f of the head frame of worker w, which runs: it is live if   *)
(* somebody will return to it, and the head frame is popped when it turns  *)
(* to g.                                                                   *)
LEMMA ParentCopies ==
  ASSUME CopyInv, NEW w \in Workers, NEW x, x = <<w, 0>>, pc[w] = "run",
         acts[Act(w)].kind # "root", NEW f, f = ParentFrame(shadow[w]),
         NEW n, n = Len(shadow[w].frames) - 1
  PROVE  /\ f \in Frames /\ f.act = acts[Act(w)].parent /\ f.act \in 1 .. Len(acts)
         /\ f.act # Act(w) /\ Act(w) \in 1 .. Len(acts)
         /\ f.list \in 1 .. Len(heap) /\ f.sync_list \in 0 .. Len(heap)
         /\ f.steal_list \in 0 .. Len(heap)
         /\ f.steal_cont # 0 => f.steal_sync # 0
         /\ f.sync = 0 <=> f.sync_list = 0
         /\ Len(own[w]) > 1 \/ acts[Act(w)].kind # "future" =>
              f \in LiveBelow(acts, Homes[x]) /\ f \in LiveFrames(acts, Homes)
         /\ \A g \in Frames : \A s : g.act = f.act /\ Pops(s, shadow[w], g) =>
              /\ Cut(shadow[w], s, n, g) /\ n \in 1 .. Len(shadow[w].frames)
              /\ Len(own[w]) > 1 \/ acts[Act(w)].kind # "future" => Cuts(w, s, n, g)
PROOF
<1>1. /\ x \in DOMAIN Homes /\ Homes[x].stack = shadow[w] /\ Homes[x].own = own[w]
      /\ Copies(acts, NodeCount, Len(heap), Homes, StrandLists) /\ ShadowInv
      /\ FieldsOK(pc[w], shadow[w]) /\ Family(acts)
  BY FindsCopies
<1>h. Holding(Homes[x])
  BY HeadCopies
<1>2. /\ Len(shadow[w].frames) > 1 /\ FrameOK(acts, NodeCount, Len(heap), f)
      /\ f.act = acts[Act(w)].parent /\ f.act \in 1 .. Len(acts)
  BY <1>1, RunsChild
<1>3. /\ Matched(acts, NodeCount, Len(heap), shadow[w], own[w]) /\ Act(w) \in 1 .. Len(acts)
      /\ Act(w) = TopFrame(shadow[w]).act /\ Len(own[w]) \in Nat
  BY <1>1, Runs
<1>4. acts \in Seq(Activations) /\ NodeCount \in Nat /\ Len(heap) \in Nat /\ Len(acts) \in Nat
      /\ shadow[w] \in Stacks
  BY <1>1, Finds
<1>5. /\ Len(shadow[w].frames) \in Nat /\ shadow[w].tail \in 1 .. Len(shadow[w].frames)
      /\ Len(shadow[w].frames) - shadow[w].tail + 1 = Len(own[w])
  BY <1>3, <1>4, HeadOf DEF Matched, Covers
<1> PICK m \in Nat : m = Len(shadow[w].frames)
  BY <1>5
<1> PICK t \in 1 .. m : t = shadow[w].tail
  BY <1>5
<1> PICK l \in Nat : l = Len(own[w])
  BY <1>3
<1>6. /\ n \in 1 .. m /\ n \in 1 .. m - 1 /\ n + 1 = m /\ n # m /\ t \in Nat /\ n \in Nat
      /\ l > 1 => t <= n /\ t \in 1 .. n /\ ~(n < t)
      /\ ~(l > 1) => t = n + 1 /\ n < t
  <2>1. m > 1 /\ m - t + 1 = l /\ n = m - 1
    BY <1>2, <1>5
  <2> QED
    BY ONLY <2>1, m \in Nat, t \in 1 .. m, l \in Nat
<1>7. shadow[w].frames[n] = f /\ shadow[w].frames[n + 1].act = Act(w)
  BY <1>3, <1>6 DEF ParentFrame, TopFrame
<1>8. /\ f \in Frames /\ f.list \in 1 .. Len(heap) /\ f.sync_list \in 0 .. Len(heap)
      /\ f.steal_list \in 0 .. Len(heap)
  BY <1>2, <1>4, FrameIsFrame DEF FrameOK, FramesOf
<1>9. f.act # Act(w)
  <2>1. acts[Act(w)].parent \in 0 .. Act(w) - 1
    BY <1>1, <1>3 DEF Family
  <2> QED
    BY <1>2, <1>3, <1>4, <2>1
<1>10. /\ f.steal_cont # 0 => f.steal_sync # 0
       /\ f.sync = 0 <=> f.sync_list = 0
  BY <1>1, <1>6, <1>7 DEF FieldsOK
<1>11. ASSUME Len(own[w]) > 1 \/ acts[Act(w)].kind # "future"
       PROVE  f \in LiveBelow(acts, Homes[x]) /\ f \in LiveFrames(acts, Homes)
  <2> PICK s : s = Homes[x].stack
    OBVIOUS
  <2>1. /\ n \in 1 .. Len(s.frames) - 1
        /\ s.tail <= n \/ (s.tail = n + 1 /\ acts[s.frames[n + 1].act].kind # "future")
    BY <1>1, <1>6, <1>7, <1>11
  <2>2. s.frames[n] \in LiveBelow(acts, Homes[x]) /\ s.frames[n] \in LiveFrames(acts, Homes)
    BY ONLY <1>1, <1>h, <2>1, s = Homes[x].stack, BelowHead
  <2> QED
    BY <1>1, <1>7, <2>2
<1>12. ASSUME NEW g \in Frames, NEW s, g.act = f.act, Pops(s, shadow[w], g)
       PROVE  /\ Cut(shadow[w], s, n, g) /\ n \in 1 .. Len(shadow[w].frames)
              /\ Len(own[w]) > 1 \/ acts[Act(w)].kind # "future" => Cuts(w, s, n, g)
  <2>1. Cut(shadow[w], s, n, g) /\ s.tail = IF n < t THEN n ELSE t
    BY <1>2, <1>4, <1>12, PopView DEF Pops
  <2>2. n \in 1 .. Len(shadow[w].frames) /\ n \in 1 .. n
    BY <1>6
  <2>3. ASSUME Len(own[w]) > 1 \/ acts[Act(w)].kind # "future"
        PROVE  Cuts(w, s, n, g)
    <3>1. CASE l > 1
      BY <1>6, <1>7, <1>12, <2>1, <2>2, <3>1 DEF Cuts
    <3>2. CASE ~(l > 1)
      <4>1. s.tail = n /\ shadow[w].tail = n + 1 /\ acts[shadow[w].frames[n + 1].act].kind # "future"
        BY <1>6, <1>7, <2>1, <2>3, <3>2
      <4> QED
        BY <1>7, <1>12, <2>1, <2>2, <4>1 DEF Cuts
    <3> QED
      BY <3>1, <3>2
  <2> QED
    BY <2>1, <2>2, <2>3
<1> QED
  BY <1>2, <1>3, <1>8, <1>9, <1>10, <1>11, <1>12

(* Only a returns. *)
LEMMA DoneMarks ==
  ASSUME NEW A \in Seq(Activations), NEW B, Extends(A, B), DOMAIN B = DOMAIN A,
         \A b \in 1 .. Len(A) : (A[b].done => B[b].done) /\ B[b].waits \in {A[b].waits, 0}
  PROVE  Marks(A, B)
PROOF
<1>1. Len(B) = Len(A)
  BY LenProperties DEF Extends
<1> QED
  BY <1>1 DEF Marks

(* The head frame's function a has no child that has not returned, so no   *)
(* other frame of it is live: it returns.                                  *)
LEMMA HeadReturns ==
  ASSUME CopyInv, NEW w \in Workers, NEW x, x = <<w, 0>>, pc[w] \in {"run", "sync"},
         NEW a, a = Act(w), Spawning(acts, a) = {},
         \A b \in 1 .. Len(acts) : acts'[b].done => acts[b].done \/ b = a, NEW M, M = {}
  PROVE  OneReturns(w, a) /\ OthersKeep(x, M)
PROOF
<1>1. /\ x \in DOMAIN Homes /\ Homes[x].own = own[w] /\ Homes[x].at = pc[w]
      /\ Copies(acts, NodeCount, Len(heap), Homes, StrandLists)
  BY FindsCopies
<1>2. Len(own[w]) > 0 /\ Act(w) = own[w][Len(own[w])]
  BY HeadCopies
<1>3. Len(own[w]) \in Nat
  BY <1>1, HomeView
<1>4. OneReturns(w, a)
  <2>1. Len(own[w]) \in 1 .. Len(own[w])
    BY <1>2, <1>3
  <2> QED
    BY <1>2, <2>1 DEF OneReturns
<1>5. ASSUME NEW f \in LiveBut(acts, Homes, x)
      PROVE  f.sync_list \notin M /\ (acts'[f.act].done => acts[f.act].done)
  <2>1. f.act # a
    BY <1>1, <1>2, Alone
  <2>2. f.act \in 1 .. Len(acts)
    BY <1>1, LiveActs
  <2> QED
    BY <2>1, <2>2
<1> QED
  BY <1>4, <1>5 DEF OthersKeep

(* do_leave_stolen *)
LEMMA LeaveStolenCopies ==
  ASSUME CopyInv, NEW w \in Workers, LeaveStolen(w)
  PROVE  CopyInv'
PROOF
<1> PICK x : x = <<w, 0>>
  OBVIOUS
<1>0. ShadowInv /\ ShadowInv'
  BY LeaveStolenStep DEF CopyInv
<1> PICK f : f = ParentFrame(shadow[w])
  OBVIOUS
<1> PICK g : g = LeaveStolenParent(f)
  OBVIOUS
<1> PICK s : s = pop(SetParent(shadow[w], g))
  OBVIOUS
<1> PICK n : n = Len(shadow[w].frames) - 1
  OBVIOUS
<1> PICK deque : deque = own[w]
  OBVIOUS
<1> PICK a : a = Act(w)
  OBVIOUS
<1> PICK new : new = Len(heap) + 1
  OBVIOUS
<1> PICK M : M = {}
  OBVIOUS
<1>1. /\ pc[w] = "run" /\ acts[a].kind = "spawn" /\ Len(own[w]) = 1 /\ acts' = acts
      /\ suspended' = suspended /\ strands' = strands /\ om' = om
      /\ shadow' = [shadow EXCEPT ![w] = s] /\ own' = own /\ pc' = [pc EXCEPT ![w] = "returning"]
      /\ heap' = IF f.list = TopFrame(shadow[w]).list THEN heap
                 ELSE MergeInto(heap, f.sync_list, TopFrame(shadow[w]).list)
  BY DEF LeaveStolen, Running
<1>2. acts \in Seq(Activations) /\ IsSequence(heap) /\ Len(heap) \in Nat /\ own[w] \in Seq(Nat)
  BY <1>0, Finds
<1>3. Grows /\ Marks(acts, acts') /\ AllFresh(M, new)
  <2>1. Extends(acts, acts')
    BY <1>1, <1>2, ExtendsSame
  <2>2. IsSequence(heap') /\ Len(heap') = Len(heap)
    BY <1>1, <1>2, HeapMerged
  <2> QED
    BY <1>0, <1>1, <1>2, <2>1, <2>2, NothingGrows DEF Marks, AllFresh
<1>4. /\ Holding(Homes[x]) /\ TopFrame(shadow[w]) \in LiveFrames(acts, Homes)
      /\ a = TopFrame(shadow[w]).act /\ a = own[w][Len(own[w])]
      /\ ListsInv(acts, LiveFrames(acts, Homes), StrandLists) /\ Family(acts)
  BY <1>1, HeadCopies, FindsCopies
<1>5. /\ f \in Frames /\ f.act \in 1 .. Len(acts) /\ a \in 1 .. Len(acts)
      /\ f.sync = 0 <=> f.sync_list = 0
      /\ f \in LiveBelow(acts, Homes[x]) /\ f \in LiveFrames(acts, Homes)
      /\ \A h \in Frames : \A r : h.act = f.act /\ Pops(r, shadow[w], h) => Cuts(w, r, n, h)
  BY <1>1, ParentCopies
<1>6. f.sync # 0
  BY <1>0, <1>1, DetachedReturns
<1>7. g \in Frames
  BY <1>5, ZenonT(60) DEF Frames, LeaveStolenParent
<1>8. /\ g.act = f.act /\ g.list = f.list /\ g.steal_list = f.list
      /\ g.sync_list = f.sync_list /\ g.sync = 0 /\ g.steal_sync = f.sync
  BY <1>5 DEF Frames, LeaveStolenParent
<1>9. HeadFields("returning", g)
  BY <1>5, <1>6, <1>8 DEF HeadFields
<1>10. Cuts(w, s, n, g)
  <2>1. Pops(s, shadow[w], g)
    BY DEF Pops
  <2> QED
    BY <1>5, <1>7, <1>8, <2>1
<1>11. AllKeep({g}, M, new, 0)
  <2>1. f.list \in Reads(LiveFrames(acts, Homes), StrandLists)
    BY <1>5 DEF Reads
  <2>2. Keeps(acts', LiveFrames(acts, Homes), StrandLists, M, new, 0, g)
    BY <1>1, <1>4, <1>5, <1>8, <2>1, TurnedKeeps
  <2> QED
    BY <2>2 DEF AllKeep
<1>12. Moves(w, s, deque, "returning")
  BY <1>0, <1>1 DEF Moves, ShadowInv, Shapes
<1>13. OwnInv(acts', Homes')
  <2>1. Part(acts', deque, own[w], 0)
    BY <1>2, Parts
  <2> QED
    BY ONLY <1>1, <1>3, <1>12, <2>1, WorkerCuts, CopyInv, w \in Workers
<1>14. OneReturns(w, a) /\ OthersKeep(x, M)
  <2>1. Spawning(acts, a) = {}
    BY <1>1, <1>4, <1>5, DetachedSpawnsNone DEF Detaches
  <2> QED
    BY <1>1, <2>1, HeadReturns
<1>15. Len(deque) = 1 /\ acts'[deque[1]].kind = "spawn" /\ ~acts'[deque[1]].done
  BY <1>1, <1>4 DEF ListsInv
<1> PICK p : p = "returning"
  OBVIOUS
<1>16. /\ p = "returning" => Len(deque) = 1 /\ acts'[deque[1]].kind = "spawn" /\ ~acts'[deque[1]].done
       /\ Records({g}) /\ HeadFields(p, g) /\ Moves(w, s, deque, p)
  BY <1>1, <1>9, <1>12, <1>15 DEF Records
<1> QED
  BY ONLY <1>0, <1>1, <1>3, <1>4, <1>10, <1>11, <1>13, <1>14, <1>16, CutCopies, CopyInv,
     w \in Workers, x = <<w, 0>>

(* A spawned child a returns to q. *)
ReturnsTo(A, B, a, q, c) == B = [A EXCEPT ![a].done = TRUE, ![q].ended = @ \cup {c}]

LEMMA SpawnReturned ==
  ASSUME NEW A \in Seq(Activations), NEW a \in 1 .. Len(A), NEW q \in 1 .. Len(A), a # q, NEW c \in Nat,
         NEW B, ReturnsTo(A, B, a, q, c)
  PROVE  /\ Extends(A, B) /\ Marks(A, B) /\ B[a].done
         /\ \A b \in 1 .. Len(A) : B[b].done => A[b].done \/ b = a
         /\ \A b \in 1 .. Len(A) : B[b].waits = A[b].waits
PROOF
<1>0. B = [A EXCEPT ![a].done = TRUE, ![q].ended = @ \cup {c}]
  BY DEF ReturnsTo
<1>1. Extends(A, B)
  BY <1>0, ChildReturned
<1>2. /\ DOMAIN A = 1 .. Len(A) /\ A = [b \in 1 .. Len(A) |-> A[b]]
      /\ \A b \in 1 .. Len(A) : A[b] \in Activations
  BY LenProperties, SeqDef, ElementOfSeq
<1> PICK r : r = [A[a] EXCEPT !.done = TRUE]
  OBVIOUS
<1> PICK t : t = [A[q] EXCEPT !.ended = @ \cup {c}]
  OBVIOUS
<1>3. /\ r.done /\ r.waits = A[a].waits /\ t.done = A[q].done /\ t.waits = A[q].waits
  BY <1>2 DEF Activations
<1>4. DOMAIN B = DOMAIN A /\ \A b \in 1 .. Len(A) : B[b] = IF b = a THEN r ELSE IF b = q THEN t ELSE A[b]
  BY <1>0, <1>2
<1>5. \A b \in 1 .. Len(A) : /\ b # a => B[b].done = A[b].done
                             /\ B[b].waits = A[b].waits
  BY <1>3, <1>4
<1>6. B[a].done
  BY <1>3, <1>4
<1>7. Marks(A, B)
  BY <1>1, <1>4, <1>5, <1>6, DoneMarks
<1> QED
  BY <1>1, <1>5, <1>6, <1>7

(* Return from a spawn whose parent is still on the deque. *)
LEMMA LeaveSpawnCopies ==
  ASSUME CopyInv, NEW w \in Workers, LeaveSpawn(w)
  PROVE  CopyInv'
PROOF
<1> PICK x : x = <<w, 0>>
  OBVIOUS
<1>0. ShadowInv /\ ShadowInv'
  BY LeaveSpawnStep DEF CopyInv
<1> PICK f : f = ParentFrame(shadow[w])
  OBVIOUS
<1> PICK g : g = Continued(f)
  OBVIOUS
<1> PICK s : s = pop(SetParent(shadow[w], g))
  OBVIOUS
<1> PICK n : n = Len(shadow[w].frames) - 1
  OBVIOUS
<1> PICK deque : deque = Front(own[w])
  OBVIOUS
<1> PICK a : a = Act(w)
  OBVIOUS
<1> PICK new : new = Len(heap) + 1
  OBVIOUS
<1> PICK M : M = {}
  OBVIOUS
<1>1. /\ pc[w] = "run" /\ acts[a].kind = "spawn" /\ Len(own[w]) > 1
      /\ acts' = [acts EXCEPT ![a].done = TRUE, ![acts[a].parent].ended = @ \cup {cur[w]}]
      /\ suspended' = suspended
      /\ strands' = Append(strands, Strand(TopFrame(s), {acts[acts[a].parent].at})) /\ om' = om
      /\ shadow' = [shadow EXCEPT ![w] = s] /\ own' = [own EXCEPT ![w] = deque] /\ pc' = pc
      /\ heap' = IF f.list = TopFrame(shadow[w]).list THEN heap
                 ELSE MergeInto(heap, f.sync_list, TopFrame(shadow[w]).list)
  BY DEF LeaveSpawn, Running, Continue, Continued
<1>2. /\ acts \in Seq(Activations) /\ IsSequence(heap) /\ Len(heap) \in Nat /\ own[w] \in Seq(Nat)
      /\ cur[w] \in Nat
  BY <1>0, Finds
<1>4. /\ Holding(Homes[x]) /\ a = own[w][Len(own[w])]
      /\ ListsInv(acts, LiveFrames(acts, Homes), StrandLists) /\ Family(acts)
  BY <1>1, HeadCopies, FindsCopies
<1>5. /\ f \in Frames /\ f.act = acts[a].parent /\ f.act \in 1 .. Len(acts) /\ a \in 1 .. Len(acts)
      /\ f.act # a /\ (f.sync = 0 <=> f.sync_list = 0) /\ f.list \in 1 .. Len(heap)
      /\ f.steal_cont # 0 => f.steal_sync # 0
      /\ f \in LiveBelow(acts, Homes[x]) /\ f \in LiveFrames(acts, Homes)
      /\ \A h \in Frames : \A r : h.act = f.act /\ Pops(r, shadow[w], h) => Cuts(w, r, n, h)
  BY <1>1, ParentCopies
<1>6. /\ Extends(acts, acts') /\ Marks(acts, acts') /\ acts'[a].done
      /\ \A b \in 1 .. Len(acts) : acts'[b].done => acts[b].done \/ b = a
  <2> PICK q : q = acts[a].parent
    OBVIOUS
  <2>1. /\ q \in 1 .. Len(acts) /\ a # q /\ a \in 1 .. Len(acts)
        /\ acts' = [acts EXCEPT ![a].done = TRUE, ![q].ended = @ \cup {cur[w]}]
    BY <1>1, <1>5
  <2>2. ReturnsTo(acts, acts', a, q, cur[w])
    BY <2>1 DEF ReturnsTo
  <2> PICK c \in Nat : c = cur[w]
    BY <1>2
  <2>3. /\ ReturnsTo(acts, acts', a, q, c) /\ acts \in Seq(Activations)
        /\ a \in 1 .. Len(acts) /\ q \in 1 .. Len(acts) /\ a # q /\ c \in Nat
    BY <1>2, <2>1, <2>2
  <2> QED
    BY ONLY <2>3, SpawnReturned
<1>3. Grows /\ AllFresh(M, new) /\ Len(heap') = Len(heap)
  <2>2. IsSequence(heap') /\ Len(heap') = Len(heap)
    BY <1>1, <1>2, HeapMerged
  <2> QED
    BY <1>0, <1>1, <1>2, <1>6, <2>2, NothingGrows DEF AllFresh
<1>7. g \in Frames
  BY <1>5, Zenon DEF Frames, Continued
<1>8. /\ g.act = f.act /\ g.list = f.list /\ g.steal_list = f.steal_list
      /\ g.sync_list = f.sync_list /\ g.sync = f.sync /\ g.steal_sync = f.steal_sync
      /\ g.steal_cont = f.steal_cont
  BY <1>5 DEF Frames, Continued
<1>9. HeadFields("run", g)
  BY <1>5, <1>8 DEF HeadFields
<1>10. Cuts(w, s, n, g)
  <2>1. Pops(s, shadow[w], g)
    BY DEF Pops
  <2> QED
    BY <1>5, <1>7, <1>8, <2>1
<1>11. AllKeep({g}, M, new, 0)
  <2>1. /\ f.list \in Reads(LiveFrames(acts, Homes), StrandLists)
        /\ f.steal_list \in Reads(LiveFrames(acts, Homes), StrandLists)
    BY <1>5 DEF Reads
  <2>2. (acts'[g.act].done => acts[g.act].done) /\ Spawning(acts', g.act) \subseteq Spawning(acts, g.act)
    BY <1>5, <1>6, <1>8, SpawningMarked
  <2>3. Keeps(acts', LiveFrames(acts, Homes), StrandLists, M, new, 0, g)
    BY <1>4, <1>5, <1>8, <2>1, <2>2, TurnedKeeps
  <2> QED
    BY <2>3 DEF AllKeep
<1>12. Moves(w, s, deque, "run")
  BY <1>0, <1>1 DEF Moves, ShadowInv, Shapes
<1>13. OwnInv(acts', Homes')
  <2>1. Part(acts', deque, own[w], 0)
    <3>1. Len(own[w]) \in Nat
      BY <1>2, LenProperties
    <3>2. Len(own[w]) > 0
      BY <1>1, <3>1
    <3>3. acts'[own[w][Len(own[w])]].done
      BY <1>4, <1>6
    <3> QED
      BY <1>2, <3>2, <3>3, Parts
  <2> QED
    BY ONLY <1>1, <1>6, <1>12, <2>1, WorkerCuts, CopyInv, w \in Workers
<1>14. OneReturns(w, a) /\ OthersKeep(x, M)
  <2>1. Spawning(acts, a) = {}
    BY <1>1, <1>2, <1>4, <1>5, DetachedSpawnsNone DEF Detaches
  <2>2. pc[w] \in {"run", "sync"} /\ \A b \in 1 .. Len(acts) : acts'[b].done => acts[b].done \/ b = a
    BY <1>1, <1>6
  <2> QED
    BY ONLY <2>1, <2>2, HeadReturns, CopyInv, w \in Workers, x = <<w, 0>>, a = Act(w), M = {}
<1>15. Records({g})
  <2>1. Cut(shadow[w], s, n, g) /\ g.list \in 1 .. Len(heap')
    BY <1>3, <1>5, <1>8, <1>10 DEF Cuts
  <2> QED
    BY <1>1, <2>1, StrandRecorded
<1> PICK p : p = "run"
  OBVIOUS
<1>16. p # "returning" /\ HeadFields(p, g) /\ Moves(w, s, deque, p)
  BY <1>9, <1>12
<1> QED
  BY ONLY <1>0, <1>1, <1>3, <1>4, <1>6, <1>10, <1>11, <1>13, <1>14, <1>15, <1>16, CutCopies, CopyInv,
     w \in Workers, x = <<w, 0>>

(* Worker w drops its deque and goes on with function q, which is on no    *)
(* other deque.                                                            *)
LEMMA StartsAfresh ==
  ASSUME CopyInv, NEW w \in Workers, NEW x, x = <<w, 0>>, NEW s, NEW deque, NEW p,
         Moves(w, s, deque, p), suspended' = suspended, Marks(acts, acts'),
         NEW q \in 1 .. Len(acts), deque = <<q>>, acts'[q].waits = 0,
         \A y \in DOMAIN Homes \ {x} : \A i \in 1 .. Len(Homes[y].own) : Homes[y].own[i] # q,
         \A b \in 1 .. Len(acts) : ~Calling(acts', b, q)
  PROVE  OwnInv(acts', Homes')
PROOF
<1>1. Shapes /\ x \in DOMAIN Homes /\ Homes[x].own = own[w] /\ OwnInv(acts, Homes)
      /\ own[w] \in Seq(Nat)
  <2>1. Shapes /\ x \in DOMAIN Homes /\ Homes[x].own = own[w] /\ OwnInv(acts, Homes)
    BY FindsCopies
  <2> QED
    BY <2>1 DEF OwnInv, IsHomes
<1>2. Replaces(Homes, Homes', {x}, {x}) /\ Homes'[x].own = deque
  <2>1. /\ Replaces(Homes, Homes', {<<w, 0>>}, {<<w, 0>>})
        /\ Homes'[<<w, 0>>] = Home(s, deque, p)
    BY ONLY <1>1, WorkerMoves, Moves(w, s, deque, p), suspended' = suspended, w \in Workers
  <2> QED
    BY <2>1 DEF Home
<1> PICK V : V = Homes
  OBVIOUS
<1> PICK W : W = Homes'
  OBVIOUS
<1> PICK h : h = Home(s, <<>>, p)
  OBVIOUS
<1> PICK U : U = [z \in DOMAIN V |-> IF z = x THEN h ELSE V[z]]
  OBVIOUS
<1>3. /\ DOMAIN U = DOMAIN V /\ U[x] = h /\ h.own = <<>>
      /\ \A z \in DOMAIN V : z # x => U[z] = V[z]
  BY <1>1 DEF Home
<1>4. Replaces(V, U, {x}, {x}) /\ Replaces(U, W, {x}, {x})
  BY <1>1, <1>2, <1>3 DEF Replaces
<1>5. OwnInv(acts', U)
  <2>1. Part(acts', U[x].own, V[x].own, 0)
    BY <1>1, <1>3, Parts
  <2> QED
    BY <1>1, <1>4, <2>1, OneCut
<1>6. Nobody(U, q)
  <2> SUFFICES ASSUME NEW y \in DOMAIN U, NEW i \in 1 .. Len(U[y].own) PROVE U[y].own[i] # q
    BY DEF Nobody
  <2>1. CASE y = x
    <3>1. i \in 1 .. 0
      BY <1>3, <2>1
    <3> QED
      BY <3>1
  <2>2. CASE y # x
    BY <1>3, <2>2
  <2> QED
    BY <2>1, <2>2
<1>7. Len(acts') = Len(acts)
  BY DEF Marks
<1> PICK B : B = acts'
  OBVIOUS
<1>8. /\ OwnInv(B, U) /\ x \in DOMAIN U /\ U[x].own = <<>> /\ q \in 1 .. Len(B) /\ B[q].waits = 0
      /\ \A b \in 1 .. Len(B) : ~Calling(B, b, q)
      /\ Replaces(U, W, {x}, {x}) /\ W[x].own = <<q>>
  BY <1>1, <1>2, <1>3, <1>4, <1>5, <1>7
<1>9. OwnInv(B, W)
  BY ONLY <1>6, <1>8, DequeStarts
<1> QED
  BY <1>9

(* A caller is on no deque but, below its callee, on that of the callee.   *)
LEMMA CallerNowhere ==
  ASSUME NEW A, NEW V, OwnInv(A, V), NEW x \in DOMAIN V, NEW a, NEW q \in 1 .. Len(A),
         Calling(A, a, q), Len(V[x].own) = 1, V[x].own[1] = a
  PROVE  /\ A[q].waits = 0
         /\ \A y \in DOMAIN V \ {x} : \A i \in 1 .. Len(V[y].own) : V[y].own[i] # q
         /\ \A b \in 1 .. Len(A) : Calling(A, b, q) => b = a
PROOF
<1>1. Once(V) /\ CallsNext(A, V) /\ OneCall(A) /\ WaitersOut(A, V) /\ a \in 1 .. Len(A) /\ IsHomes(V)
  BY DEF OwnInv, Calling
<1>2. A[q].waits = 0
  BY <1>1 DEF WaitersOut
<1>3. ASSUME NEW y \in DOMAIN V \ {x}, NEW i \in 1 .. Len(V[y].own), V[y].own[i] = q PROVE FALSE
  <2>1. i < Len(V[y].own) /\ V[y].own[i + 1] = a
    BY <1>1, <1>3 DEF CallsNext
  <2>2. Len(V[y].own) \in Nat
    BY <1>1, LenProperties DEF IsHomes
  <2>3. i + 1 \in 1 .. Len(V[y].own) /\ 1 \in 1 .. Len(V[x].own)
    BY <2>1, <2>2
  <2>4. y = x
    BY <1>1, <2>1, <2>3 DEF Once
  <2> QED
    BY <2>4
<1>4. \A b \in 1 .. Len(A) : Calling(A, b, q) => b = a
  BY <1>1 DEF OneCall
<1> QED
  BY <1>2, <1>3, <1>4

(* A function a returns. *)
Finishes(A, B, a) == B = [A EXCEPT ![a].done = TRUE]

LEMMA DoneMarked ==
  ASSUME NEW A \in Seq(Activations), NEW a \in 1 .. Len(A), NEW B, Finishes(A, B, a)
  PROVE  /\ Extends(A, B) /\ Marks(A, B) /\ B[a].done
         /\ \A b \in 1 .. Len(A) : B[b].done => A[b].done \/ b = a
         /\ \A b \in 1 .. Len(A) : B[b].waits = A[b].waits
PROOF
<1>0. B = [A EXCEPT ![a].done = TRUE]
  BY DEF Finishes
<1>1. Extends(A, B)
  BY <1>0, 0 \in Nat, {} \in SUBSET Nat, ActMarked
<1>2. /\ DOMAIN A = 1 .. Len(A) /\ A = [b \in 1 .. Len(A) |-> A[b]]
      /\ \A b \in 1 .. Len(A) : A[b] \in Activations
  BY LenProperties, SeqDef, ElementOfSeq
<1> PICK r : r = [A[a] EXCEPT !.done = TRUE]
  OBVIOUS
<1>3. r.done /\ r.waits = A[a].waits
  BY <1>2 DEF Activations
<1>4. DOMAIN B = DOMAIN A /\ \A b \in 1 .. Len(A) : B[b] = IF b = a THEN r ELSE A[b]
  BY <1>0, <1>2
<1>5. \A b \in 1 .. Len(A) : /\ B[b].done => A[b].done \/ b = a
                             /\ A[b].done => B[b].done
                             /\ B[b].waits = A[b].waits
  BY <1>3, <1>4
<1>6. B[a].done
  BY <1>3, <1>4
<1>7. Marks(A, B)
  BY <1>1, <1>4, <1>5, DoneMarks
<1> QED
  BY <1>1, <1>5, <1>6, <1>7

(* The deque of worker w after a return from the call of a. *)
LEMMA CallDeque ==
  ASSUME CopyInv, NEW w \in Workers, pc[w] = "run", NEW a, a = Act(w), acts[a].kind = "call",
         NEW q, q = acts[a].parent, NEW s, NEW deque,
         deque = IF Len(own[w]) > 1 THEN Front(own[w]) ELSE <<q>>, NEW p,
         Moves(w, s, deque, p), suspended' = suspended, Marks(acts, acts'), acts'[a].done
  PROVE  OwnInv(acts', Homes')
PROOF
<1> PICK x : x = <<w, 0>>
  OBVIOUS
<1>1. /\ x \in DOMAIN Homes /\ Homes[x].own = own[w] /\ OwnInv(acts, Homes)
      /\ ListsInv(acts, LiveFrames(acts, Homes), StrandLists) /\ ShadowInv
  BY FindsCopies
<1>2. /\ TopFrame(shadow[w]) \in LiveFrames(acts, Homes) /\ a = TopFrame(shadow[w]).act
      /\ a = own[w][Len(own[w])] /\ Len(own[w]) > 0
  BY HeadCopies
<1>3. own[w] \in Seq(Nat) /\ Len(own[w]) \in Nat
  BY <1>1, Finds, LenProperties
<1>4. q \in 1 .. Len(acts) /\ a \in 1 .. Len(acts) /\ a # q
  <2>1. acts[Act(w)].kind # "root"
    OBVIOUS
  <2> QED
    BY <2>1, ParentCopies
<1>5. Calling(acts, a, q)
  BY <1>1, <1>2, <1>4 DEF Calling, ListsInv
<1>6. CASE Len(own[w]) > 1
  <2>1. deque = Front(own[w]) /\ acts'[own[w][Len(own[w])]].done
    BY <1>2, <1>6
  <2>2. Part(acts', deque, own[w], 0)
    BY <1>2, <1>3, <2>1, Parts
  <2> QED
    BY ONLY <2>2, WorkerCuts, CopyInv, w \in Workers, Moves(w, s, deque, p), suspended' = suspended,
       Marks(acts, acts')
<1>7. CASE ~(Len(own[w]) > 1)
  <2>1. deque = <<q>> /\ Len(own[w]) = 1 /\ own[w][1] = a
    BY <1>2, <1>3, <1>7
  <2>2. /\ acts[q].waits = 0
        /\ \A y \in DOMAIN Homes \ {x} : \A i \in 1 .. Len(Homes[y].own) : Homes[y].own[i] # q
        /\ \A b \in 1 .. Len(acts) : Calling(acts, b, q) => b = a
    BY <1>1, <1>4, <1>5, <2>1, CallerNowhere, SMTT(40)
  <2>3. acts'[q].waits = 0
    BY <1>4, <2>2 DEF Marks
  <2>4. \A b \in 1 .. Len(acts) : ~Calling(acts', b, q)
    <3> SUFFICES ASSUME NEW b \in 1 .. Len(acts), Calling(acts', b, q) PROVE FALSE
      OBVIOUS
    <3>1. Calling(acts, b, q)
      BY SameCalls
    <3>2. b = a
      BY <2>2, <3>1
    <3> QED
      BY <3>2 DEF Calling
  <2> QED
    BY ONLY <1>4, <2>1, <2>2, <2>3, <2>4, StartsAfresh, CopyInv, w \in Workers, x = <<w, 0>>,
       Moves(w, s, deque, p), suspended' = suspended, Marks(acts, acts')
<1> QED
  BY <1>6, <1>7

(* Return from a call. *)
LEMMA LeaveCallCopies ==
  ASSUME CopyInv, NEW w \in Workers, LeaveCall(w)
  PROVE  CopyInv'
PROOF
<1> PICK x : x = <<w, 0>>
  OBVIOUS
<1>0. ShadowInv /\ ShadowInv'
  BY LeaveCallStep DEF CopyInv
<1> PICK f : f = ParentFrame(shadow[w])
  OBVIOUS
<1> PICK e : e = TopFrame(shadow[w])
  OBVIOUS
<1> PICK g : g = Returned(f, e.node, e.list)
  OBVIOUS
<1> PICK s : s = pop(SetParent(shadow[w], g))
  OBVIOUS
<1> PICK n : n = Len(shadow[w].frames) - 1
  OBVIOUS
<1> PICK a : a = Act(w)
  OBVIOUS
<1> PICK q : q = acts[a].parent
  OBVIOUS
<1> PICK deque : deque = IF Len(own[w]) > 1 THEN Front(own[w]) ELSE <<q>>
  OBVIOUS
<1> PICK new : new = Len(heap) + 1
  OBVIOUS
<1> PICK M : M = {}
  OBVIOUS
<1>1. /\ pc[w] = "run" /\ acts[a].kind = "call" /\ e.sync = 0
      /\ acts' = [acts EXCEPT ![a].done = TRUE]
      /\ suspended' = suspended
      /\ strands' = Append(strands, Strand(TopFrame(s), {cur[w]})) /\ om' = om
      /\ shadow' = [shadow EXCEPT ![w] = s] /\ own' = [own EXCEPT ![w] = deque] /\ pc' = pc
      /\ heap' = heap
  BY DEF LeaveCall, Running, Continue, Returned
<1>2. /\ acts \in Seq(Activations) /\ IsSequence(heap) /\ Len(heap) \in Nat
  BY <1>0, Finds
<1>4. /\ Holding(Homes[x]) /\ a = e.act /\ HeadFields("run", e) /\ e \in LiveFrames(acts, Homes)
      /\ e \in Frames /\ e.list \in 1 .. Len(heap)
      /\ ListsInv(acts, LiveFrames(acts, Homes), StrandLists) /\ Family(acts)
  BY <1>1, HeadCopies, FindsCopies
<1>5. /\ f \in Frames /\ f.act = acts[a].parent /\ f.act \in 1 .. Len(acts) /\ a \in 1 .. Len(acts)
      /\ f.act # a /\ (f.sync = 0 <=> f.sync_list = 0)
      /\ f.steal_cont # 0 => f.steal_sync # 0
      /\ f \in LiveBelow(acts, Homes[x]) /\ f \in LiveFrames(acts, Homes)
      /\ \A h \in Frames : \A r : h.act = f.act /\ Pops(r, shadow[w], h) => Cuts(w, r, n, h)
  BY <1>1, ParentCopies
<1>6. /\ Extends(acts, acts') /\ Marks(acts, acts') /\ acts'[a].done
      /\ \A b \in 1 .. Len(acts) : acts'[b].done => acts[b].done \/ b = a
  <2>1. Finishes(acts, acts', a) /\ acts \in Seq(Activations) /\ a \in 1 .. Len(acts)
    BY <1>1, <1>2, <1>5 DEF Finishes
  <2> QED
    BY ONLY <2>1, DoneMarked
<1>3. Grows /\ AllFresh(M, new)
  BY <1>0, <1>1, <1>2, <1>6, NothingGrows DEF AllFresh
<1>7. g \in Frames
  <2>1. e.node \in Nat /\ e.list \in Nat
    BY <1>4 DEF Frames
  <2> QED
    BY <1>5, <2>1, Zenon DEF Frames, Returned
<1>8. /\ g.act = f.act /\ g.list = e.list /\ g.steal_list = f.steal_list
      /\ g.sync_list = f.sync_list /\ g.sync = f.sync /\ g.steal_sync = f.steal_sync
      /\ g.steal_cont = f.steal_cont
  BY <1>5 DEF Frames, Returned
<1>9. HeadFields("run", g)
  BY <1>5, <1>8 DEF HeadFields
<1>10. Cuts(w, s, n, g)
  <2>1. Pops(s, shadow[w], g)
    BY DEF Pops
  <2> QED
    BY <1>5, <1>7, <1>8, <2>1
<1>11. AllKeep({g}, M, new, 0)
  <2>1. /\ e.list \in Reads(LiveFrames(acts, Homes), StrandLists)
        /\ f.steal_list \in Reads(LiveFrames(acts, Homes), StrandLists)
    BY <1>4, <1>5 DEF Reads
  <2>2. (acts'[g.act].done => acts[g.act].done) /\ Spawning(acts', g.act) \subseteq Spawning(acts, g.act)
    BY <1>5, <1>6, <1>8, SpawningMarked
  <2>3. Keeps(acts', LiveFrames(acts, Homes), StrandLists, M, new, 0, g)
    <3>1. /\ g.list \in Reads(LiveFrames(acts, Homes), StrandLists) \cup M
          /\ g.steal_list \in Reads(LiveFrames(acts, Homes), StrandLists) \cup {0}
          /\ g.sync_list \notin M
      BY <1>8, <2>1
    <3>2. /\ ListsInv(acts, LiveFrames(acts, Homes), StrandLists)
          /\ f \in LiveFrames(acts, Homes) /\ g.act = f.act /\ g.sync_list = f.sync_list
      BY <1>4, <1>5, <1>8
    <3> QED
      BY ONLY <2>2, <3>1, <3>2, TurnedKeeps
  <2> QED
    BY <2>3 DEF AllKeep
<1>12. Moves(w, s, deque, "run")
  BY <1>0, <1>1 DEF Moves, ShadowInv, Shapes
<1>13. OwnInv(acts', Homes')
  BY ONLY <1>1, <1>6, <1>12, CallDeque, CopyInv, w \in Workers, a = Act(w), q = acts[a].parent,
     deque = IF Len(own[w]) > 1 THEN Front(own[w]) ELSE <<q>>
<1>14. OneReturns(w, a) /\ OthersKeep(x, M)
  <2>1. Spawning(acts, a) = {}
    BY <1>1, <1>4 DEF HeadFields, ListsInv
  <2>2. pc[w] \in {"run", "sync"} /\ \A b \in 1 .. Len(acts) : acts'[b].done => acts[b].done \/ b = a
    BY <1>1, <1>6
  <2> QED
    BY ONLY <2>1, <2>2, HeadReturns, CopyInv, w \in Workers, x = <<w, 0>>, a = Act(w), M = {}
<1>15. Records({g})
  <2>1. Cut(shadow[w], s, n, g) /\ g.list \in 1 .. Len(heap')
    BY <1>1, <1>4, <1>8, <1>10 DEF Cuts
  <2> QED
    BY <1>1, <2>1, StrandRecorded
<1> PICK p : p = "run"
  OBVIOUS
<1>16. p # "returning" /\ HeadFields(p, g) /\ Moves(w, s, deque, p)
  BY <1>9, <1>12
<1> QED
  BY ONLY <1>0, <1>1, <1>3, <1>4, <1>6, <1>10, <1>11, <1>13, <1>14, <1>15, <1>16, CutCopies, CopyInv,
     w \in Workers, x = <<w, 0>>

(* A future a ends. *)
Ends(A, B, a, c, l) == B = [A EXCEPT ![a].done = TRUE, ![a].last = c, ![a].fom = l]

LEMMA FutureMarked ==
  ASSUME NEW A \in Seq(Activations), NEW a \in 1 .. Len(A), NEW c \in Nat, NEW l \in Nat,
         NEW B, Ends(A, B, a, c, l)
  PROVE  /\ Extends(A, B) /\ Marks(A, B) /\ B[a].done
         /\ \A b \in 1 .. Len(A) : B[b].done => A[b].done \/ b = a
PROOF
<1>0. B = [A EXCEPT ![a].done = TRUE, ![a].last = c, ![a].fom = l]
  BY DEF Ends
<1>2. /\ DOMAIN A = 1 .. Len(A) /\ A = [b \in 1 .. Len(A) |-> A[b]]
      /\ \A b \in 1 .. Len(A) : A[b] \in Activations
  BY LenProperties, SeqDef, ElementOfSeq
<1> PICK r : r = [A[a] EXCEPT !.done = TRUE, !.last = c, !.fom = l]
  OBVIOUS
<1>3. r.done /\ r.waits = A[a].waits /\ r.kind = A[a].kind /\ r.parent = A[a].parent
  BY <1>2 DEF Activations
<1>r. r \in Activations
  BY <1>2, Zenon DEF Activations
<1>4. B = [A EXCEPT ![a] = r]
  BY <1>0, <1>2
<1>1. Extends(A, B)
  BY <1>3, <1>r, <1>4, ActUpdated
<1>5. DOMAIN B = DOMAIN A /\ \A b \in 1 .. Len(A) : B[b] = IF b = a THEN r ELSE A[b]
  BY <1>2, <1>4
<1>6. \A b \in 1 .. Len(A) : /\ B[b].done => A[b].done \/ b = a
                             /\ A[b].done => B[b].done
                             /\ B[b].waits = A[b].waits
  BY <1>3, <1>5
<1>7. B[a].done
  BY <1>3, <1>5
<1>8. Marks(A, B)
  BY <1>1, <1>5, <1>6, <1>7, DoneMarks
<1> QED
  BY <1>1, <1>6, <1>7, <1>8

(* CilkFutureFinish *)
LEMMA FutureFinishCopies ==
  ASSUME CopyInv, NEW w \in Workers, CilkFutureFinish(w)
  PROVE  CopyInv'
PROOF
<1> PICK x : x = <<w, 0>>
  OBVIOUS
<1>0. ShadowInv /\ ShadowInv'
  BY FutureFinishStep DEF CopyInv
<1> PICK f : f = ParentFrame(shadow[w])
  OBVIOUS
<1> PICK g : g = FinishedParent(f)
  OBVIOUS
<1> PICK s : s = pop(SetParent(shadow[w], g))
  OBVIOUS
<1> PICK n : n = Len(shadow[w].frames) - 1
  OBVIOUS
<1> PICK a : a = Act(w)
  OBVIOUS
<1> PICK deque : deque = own[w]
  OBVIOUS
<1> PICK new : new = Len(heap) + 1
  OBVIOUS
<1> PICK M : M = {}
  OBVIOUS
<1> PICK p : p = "finished"
  OBVIOUS
<1>1. /\ pc[w] = "run" /\ acts[a].kind = "future"
      /\ acts' = [acts EXCEPT ![a].done = TRUE, ![a].last = cur[w], ![a].fom = new]
      /\ suspended' = suspended /\ strands' = strands /\ om' = om
      /\ shadow' = [shadow EXCEPT ![w] = s] /\ own' = own /\ pc' = [pc EXCEPT ![w] = p]
      /\ heap' = Append(heap, FinishedList(TopFrame(shadow[w])))
  BY DEF CilkFutureFinish, Running
<1>2. /\ acts \in Seq(Activations) /\ IsSequence(heap) /\ Len(heap) \in Nat /\ new \in Nat
      /\ own[w] \in Seq(Nat) /\ cur[w] \in Nat
  BY <1>0, Finds
<1>4. /\ x \in DOMAIN Homes /\ Holding(Homes[x])
      /\ FieldsOK(pc[w], shadow[w]) /\ Len(shadow[w].frames) \in Nat
      /\ ListsInv(acts, LiveFrames(acts, Homes), StrandLists) /\ Family(acts)
  BY <1>1, HeadCopies, FindsCopies
<1>5. /\ f \in Frames /\ f.act = acts[a].parent /\ f.act \in 1 .. Len(acts) /\ a \in 1 .. Len(acts)
      /\ f.act # a /\ (f.sync = 0 <=> f.sync_list = 0)
      /\ Len(own[w]) > 1 => f \in LiveFrames(acts, Homes)
      /\ \A h \in Frames : \A r : h.act = f.act /\ Pops(r, shadow[w], h) =>
           /\ Cut(shadow[w], r, n, h) /\ n \in 1 .. Len(shadow[w].frames)
           /\ Len(own[w]) > 1 => Cuts(w, r, n, h)
  BY <1>1, ParentCopies
<1>6. /\ Extends(acts, acts') /\ Marks(acts, acts')
      /\ \A b \in 1 .. Len(acts) : acts'[b].done => acts[b].done \/ b = a
  <2> PICK c \in Nat : c = cur[w]
    BY <1>2
  <2>1. /\ Ends(acts, acts', a, c, new) /\ acts \in Seq(Activations) /\ a \in 1 .. Len(acts)
        /\ c \in Nat /\ new \in Nat
    BY <1>1, <1>2, <1>5 DEF Ends
  <2> QED
    BY ONLY <2>1, FutureMarked
<1>3. Grows /\ AllFresh(M, new)
  <2>1. IsSequence(heap') /\ Len(heap') = Len(heap) + 1 /\ Len(heap) <= Len(heap')
    BY <1>1, <1>2, SequenceGrows
  <2> QED
    BY <1>0, <1>1, <1>2, <1>6, <2>1, NothingGrows DEF AllFresh
<1>7. g \in Frames
  BY <1>5, ZenonT(60) DEF Frames, FinishedParent
<1>8. /\ g.act = f.act /\ g.list = f.list /\ g.steal_list = f.list
      /\ g.sync_list = f.sync_list /\ g.sync = f.sync /\ g.steal_sync = f.sync
  BY <1>5 DEF Frames, FinishedParent
<1>9. HeadFields(p, g)
  <2>1. f.sync # 0
    BY <1>0, <1>1, DetachedReturns
  <2> QED
    BY <1>5, <1>8, <2>1 DEF HeadFields
<1>10. /\ Cut(shadow[w], s, n, g) /\ n \in 1 .. Len(shadow[w].frames)
       /\ Len(own[w]) > 1 => Cuts(w, s, n, g)
  <2>1. Pops(s, shadow[w], g)
    BY DEF Pops
  <2> QED
    BY <1>5, <1>7, <1>8, <2>1
<1>12. Moves(w, s, deque, p)
  BY <1>0, <1>1 DEF Moves, ShadowInv, Shapes
<1>13. OwnInv(acts', Homes')
  <2>1. Part(acts', deque, own[w], 0)
    BY <1>2, Parts
  <2> QED
    BY ONLY <1>1, <1>6, <1>12, <2>1, WorkerCuts, CopyInv, w \in Workers
<1>14. OneReturns(w, a) /\ OthersKeep(x, M)
  <2>1. Spawning(acts, a) = {}
    BY <1>1, <1>2, <1>4, <1>5, DetachedSpawnsNone DEF Detaches
  <2>2. pc[w] \in {"run", "sync"} /\ \A b \in 1 .. Len(acts) : acts'[b].done => acts[b].done \/ b = a
    BY <1>1, <1>6
  <2> QED
    BY ONLY <2>1, <2>2, HeadReturns, CopyInv, w \in Workers, x = <<w, 0>>, a = Act(w), M = {}
<1>15. CASE Len(own[w]) > 1
  <2>1. AllKeep({g}, M, new, 0)
    <3>1. f.list \in Reads(LiveFrames(acts, Homes), StrandLists)
      BY <1>5, <1>15 DEF Reads
    <3>2. (acts'[g.act].done => acts[g.act].done) /\ Spawning(acts', g.act) \subseteq Spawning(acts, g.act)
      BY <1>5, <1>6, <1>8, SpawningMarked
    <3>3. /\ g.list \in Reads(LiveFrames(acts, Homes), StrandLists) \cup M
          /\ g.steal_list \in Reads(LiveFrames(acts, Homes), StrandLists) \cup {0}
          /\ g.sync_list \notin M
      BY <1>8, <3>1
    <3>4. /\ ListsInv(acts, LiveFrames(acts, Homes), StrandLists)
          /\ f \in LiveFrames(acts, Homes) /\ g.act = f.act /\ g.sync_list = f.sync_list
      BY <1>4, <1>5, <1>8, <1>15
    <3>5. Keeps(acts', LiveFrames(acts, Homes), StrandLists, M, new, 0, g)
      BY ONLY <3>2, <3>3, <3>4, TurnedKeeps
    <3> QED
      BY <3>5 DEF AllKeep
  <2>2. p # "returning" /\ Cuts(w, s, n, g) /\ Records({g})
    BY <1>1, <1>10, <1>15 DEF Records
  <2> QED
    BY ONLY <1>0, <1>1, <1>3, <1>4, <1>6, <1>9, <1>12, <1>13, <1>14, <2>1, <2>2, CutCopies,
       CopyInv, w \in Workers, x = <<w, 0>>
<1>16. CASE ~(Len(own[w]) > 1)
  <2> PICK G : G = {}
    OBVIOUS
  <2>1. HomeInv(acts', Home(s, deque, p))
    <3>1. FieldsOK(p, s)
      BY ONLY <1>4, <1>9, <1>10, FieldsCut
    <3> QED
      BY <3>1 DEF HomeInv, Home
  <2>2. LiveAt(acts', Home(s, deque, p)) \subseteq LiveBelow(acts, Homes[x]) \cup G
    BY <1>16 DEF LiveAt, Holding, Home
  <2>3. AllKeep(G, M, new, 0) /\ Records(G)
    BY <1>1 DEF AllKeep, Records
  <2> QED
    BY ONLY <1>0, <1>1, <1>3, <1>6, <1>12, <1>13, <1>14, <2>1, <2>2, <2>3, MarkCopies,
       CopyInv, w \in Workers, x = <<w, 0>>
<1> QED
  BY <1>15, <1>16

(* Worker w goes idle. *)
LEMMA IdleCopies ==
  ASSUME CopyInv, ShadowInv', NEW w \in Workers, NEW x, x = <<w, 0>>, GoIdle(w),
         strands' = strands, suspended' = suspended, Grows, OwnInv(acts', Homes'),
         NEW D, Returns(acts, acts', Homes, {x}, D),
         \A f \in LiveBut(acts, Homes, x) :
           /\ acts'[f.act].done => acts[f.act].done
           /\ Spawning(acts', f.act) \subseteq Spawning(acts, f.act)
  PROVE  CopyInv'
PROOF
<1> PICK s : s = EmptyStack
  OBVIOUS
<1> PICK deque : deque = <<>>
  OBVIOUS
<1> PICK p : p = "idle"
  OBVIOUS
<1> PICK G : G = {}
  OBVIOUS
<1> PICK M : M = {}
  OBVIOUS
<1> PICK new : new = Len(heap) + 1
  OBVIOUS
<1>1. /\ x \in DOMAIN Homes /\ ShadowInv
      /\ ListsInv(acts, LiveFrames(acts, Homes), StrandLists)
  BY FindsCopies
<1>2. AllFresh(M, new)
  <2>1. Len(heap) \in Nat
    BY <1>1, Finds
  <2> QED
    BY <2>1 DEF AllFresh
<1>3. Moves(w, s, deque, p)
  BY DEF GoIdle, Moves
<1>4. /\ HomeInv(acts', Home(s, deque, p))
      /\ LiveAt(acts', Home(s, deque, p)) \subseteq LiveBelow(acts, Homes[x]) \cup G
  BY DEF HomeInv, Home, LiveAt, Holding
<1>5. AllKeep(LiveBut(acts, Homes, x), M, new, 0)
  <2>1. LiveBut(acts, Homes, x) \subseteq LiveFrames(acts, Homes)
    BY <1>1, LiveButLive
  <2>2. ASSUME NEW f \in LiveBut(acts, Homes, x)
        PROVE  Keeps(acts', LiveFrames(acts, Homes), StrandLists, M, new, 0, f)
    BY <1>1, <2>1, OldKeeps
  <2> QED
    BY <2>2 DEF AllKeep
<1>6. AllKeep(G, M, new, 0) /\ Records(G)
  BY DEF AllKeep, Records
<1> QED
  BY ONLY <1>2, <1>3, <1>4, <1>5, <1>6, WorkerCopies, CopyInv, ShadowInv', w \in Workers, x = <<w, 0>>,
     suspended' = suspended, Grows, OwnInv(acts', Homes'), Returns(acts, acts', Homes, {x}, D)

(* The future's helper leaves. *)
LEMMA LeaveFutureCopies ==
  ASSUME CopyInv, NEW w \in Workers, LeaveFuture(w)
  PROVE  CopyInv'
PROOF
<1> PICK x : x = <<w, 0>>
  OBVIOUS
<1>0. ShadowInv /\ ShadowInv'
  BY LeaveFutureStep DEF CopyInv
<1> PICK s : s = shadow[w]
  OBVIOUS
<1> PICK g : g = TopFrame(s)
  OBVIOUS
<1> PICK n : n = Len(s.frames)
  OBVIOUS
<1> PICK deque : deque = Front(own[w])
  OBVIOUS
<1> PICK c : c = own[w][Len(own[w])]
  OBVIOUS
<1> PICK M : M = {}
  OBVIOUS
<1> PICK new : new = Len(heap) + 1
  OBVIOUS
<1> PICK p : p = "run"
  OBVIOUS
<1>1. /\ pc[w] = "finished" /\ acts' = acts /\ suspended' = suspended /\ om' = om /\ heap' = heap
  BY DEF LeaveFuture
<1>2. /\ acts \in Seq(Activations) /\ IsSequence(heap) /\ Len(heap) \in Nat /\ new \in Nat
      /\ own[w] \in Seq(Nat) /\ Len(own[w]) \in Nat
      /\ HasStack(acts, NodeCount, Len(heap), pc[w], shadow[w], own[w])
  BY <1>0, Finds, LenProperties
<1>3. Grows /\ Marks(acts, acts') /\ AllFresh(M, new)
  <2>1. Extends(acts, acts')
    BY <1>1, <1>2, ExtendsSame
  <2> QED
    BY <1>0, <1>1, <1>2, <2>1, NothingGrows DEF Marks, AllFresh
<1>4. /\ x \in DOMAIN Homes /\ Homes[x].stack = s /\ Homes[x].at = pc[w]
      /\ Copies(acts, NodeCount, Len(heap), Homes, StrandLists)
      /\ ListsInv(acts, LiveFrames(acts, Homes), StrandLists)
      /\ Len(own[w]) > 1 => Holding(Homes[x])
      /\ FieldsOK(pc[w], s)
  BY <1>1, FindsCopies
<1>5. CASE /\ Len(own[w]) > 1 /\ own' = [own EXCEPT ![w] = deque]
           /\ Continue(w, shadow[w], {acts[acts[Act(w)].parent].at})
           /\ pc' = [pc EXCEPT ![w] = p]
  <2>1. Holding(Homes[x]) /\ g \in LiveFrames(acts, Homes)
    BY <1>4, <1>5, HeadLive
  <2>2. /\ s \in Stacks /\ n \in Nat /\ s.tail \in 1 .. n /\ n \in 1 .. n /\ g = s.frames[n]
    <3>1. s \in Stacks /\ n \in Nat /\ s.tail \in 1 .. n
      BY <1>1, <1>4, HomeView
    <3>2. n \in 1 .. n
      BY <3>1
    <3> QED
      BY <3>1, <3>2 DEF TopFrame
  <2>3. /\ g \in Frames /\ g.list \in 1 .. Len(heap)
        /\ g.list \in Reads(LiveFrames(acts, Homes), StrandLists)
        /\ g.steal_list \in Reads(LiveFrames(acts, Homes), StrandLists)
    BY <1>4, <2>1, LiveBounds DEF Reads
  <2>4. Cuts(w, s, n, g)
    BY <2>2, <2>3 DEF Cuts, Cut
  <2>5. HeadFields(p, g)
    <3>1. FieldsOK("finished", s) /\ "finished" \notin {"sync", "returning"}
      BY <1>1, <1>4
    <3>2. g.steal_cont # 0 => g.steal_sync # 0
      BY <2>2, <3>1 DEF FieldsOK
    <3>3. g.sync = 0 <=> g.sync_list = 0
      BY <2>2, <3>1 DEF FieldsOK
    <3>4. p \notin {"sync", "returning"} /\ p # "finished"
      OBVIOUS
    <3> QED
      BY ONLY <3>2, <3>3, <3>4 DEF HeadFields
  <2>6. AllKeep({g}, M, new, 0)
    <3>1. Keeps(acts', LiveFrames(acts, Homes), StrandLists, M, new, 0, g)
      BY <1>1, <1>4, <2>1, OldKeeps
    <3> QED
      BY <3>1 DEF AllKeep
  <2>7. Moves(w, s, deque, p)
    BY <1>0, <1>5 DEF Moves, Continue
  <2>8. OwnInv(acts', Homes')
    <3>1. acts[c].kind # "call"
      <4>1. Popped(acts, s, own[w])
        BY <1>1, <1>2, <1>5 DEF HasStack
      <4> QED
        BY <4>1 DEF Popped
    <3>2. Len(own[w]) > 0 /\ acts'[own[w][Len(own[w])]].kind # "call"
      BY <1>1, <1>2, <1>5, <3>1
    <3>3. Part(acts', deque, own[w], 0)
      BY <1>2, <3>2, Parts
    <3> QED
      BY ONLY <1>1, <1>3, <2>7, <3>3, WorkerCuts, CopyInv, w \in Workers
  <2>9. OneReturns(w, c) /\ OthersKeep(x, M)
    <3>1. \A e \in LiveBut(acts, Homes, x) : e.act \in 1 .. Len(acts) /\ e.sync_list \notin M
      BY <1>4, LiveActs
    <3>2. Len(own[w]) \in Nat /\ Len(own[w]) > 0 /\ \A a \in 1 .. Len(acts) : acts'[a].done => acts[a].done
      BY <1>1, <1>2, <1>5
    <3>3. OneReturns(w, own[w][Len(own[w])]) /\ OthersKeep(x, M)
      BY ONLY <3>1, <3>2, NoReturns, w \in Workers
    <3> QED
      BY <3>3
  <2>10. Records({g})
    <3>1. strands' = Append(strands, Strand(TopFrame(s), {acts[acts[Act(w)].parent].at}))
      BY <1>5 DEF Continue
    <3>2. Cut(s, s, n, g) /\ g.list \in 1 .. Len(heap')
      BY <1>1, <2>3, <2>4 DEF Cuts
    <3> QED
      BY <3>1, <3>2, StrandRecorded
  <2>11. p # "returning"
    OBVIOUS
  <2> QED
    BY ONLY <1>0, <1>1, <1>3, <2>1, <2>4, <2>5, <2>6, <2>7, <2>8, <2>9, <2>10, <2>11, CutCopies, CopyInv,
       w \in Workers, x = <<w, 0>>
<1>6. CASE GoIdle(w) /\ strands' = strands
  <2> PICK D : D = {}
    OBVIOUS
  <2>1. Moves(w, EmptyStack, <<>>, "idle")
    BY <1>6 DEF GoIdle, Moves
  <2>2. OwnInv(acts', Homes')
    <3>1. Part(acts', <<>>, own[w], 0)
      BY <1>2, Parts
    <3> QED
      BY ONLY <1>1, <1>3, <2>1, <3>1, WorkerCuts, CopyInv, w \in Workers
  <2>3. Returns(acts, acts', Homes, {x}, D)
    BY <1>1 DEF Returns
  <2>4. \A f \in LiveBut(acts, Homes, x) :
           /\ acts'[f.act].done => acts[f.act].done
           /\ Spawning(acts', f.act) \subseteq Spawning(acts, f.act)
    BY <1>1
  <2> QED
    BY ONLY <1>0, <1>1, <1>3, <1>6, <2>2, <2>3, <2>4, IdleCopies, CopyInv, w \in Workers, x = <<w, 0>>
<1> QED
  BY <1>5, <1>6 DEF LeaveFuture

(* What the runtime finds after do_leave_stolen. *)
LEMMA ReturningCopies ==
  ASSUME CopyInv, NEW w \in Workers, NEW x, x = <<w, 0>>, pc[w] = "returning",
         NEW f, f = TopFrame(shadow[w]), NEW a, a = Act(w), NEW q, q = acts[a].parent
  PROVE  /\ x \in DOMAIN Homes /\ Homes[x].own = own[w] /\ Homes[x].at = "returning"
         /\ Holding(Homes[x]) /\ Copies(acts, NodeCount, Len(heap), Homes, StrandLists)
         /\ ListsInv(acts, LiveFrames(acts, Homes), StrandLists) /\ OwnInv(acts, Homes)
         /\ own[w] \in Seq(Nat) /\ Len(own[w]) = 1 /\ own[w][1] = a
         /\ a \in 1 .. Len(acts) /\ acts[a].kind = "spawn" /\ ~acts[a].done
         /\ q = f.act /\ q \in 1 .. Len(acts) /\ a # q
         /\ f \in LiveFrames(acts, Homes) /\ f \in Frames /\ HeadFields("returning", f)
         /\ f.list \in 1 .. Len(heap) /\ f.sync_list \in 1 .. Len(heap)
         /\ \A e \in LiveFrames(acts, Homes) : e.act # a
         /\ shadow[w] \in Stacks /\ Len(shadow[w].frames) \in 1 .. Len(shadow[w].frames)
         /\ Len(shadow[w].frames) \in Nat /\ shadow[w].tail \in 1 .. Len(shadow[w].frames)
         /\ f = shadow[w].frames[Len(shadow[w].frames)]
PROOF
<1>1. /\ x \in DOMAIN Homes /\ Homes[x].own = own[w] /\ Homes[x].at = "returning"
      /\ Homes[x].stack = shadow[w]
      /\ Holding(Homes[x]) /\ Copies(acts, NodeCount, Len(heap), Homes, StrandLists)
      /\ ListsInv(acts, LiveFrames(acts, Homes), StrandLists) /\ OwnInv(acts, Homes)
      /\ ShadowInv /\ HomeInv(acts, Homes[x]) /\ FieldsOK("returning", shadow[w])
  BY FindsCopies
<1>2. /\ own[w] \in Seq(Nat) /\ acts \in Seq(Activations)
      /\ HasStack(acts, NodeCount, Len(heap), pc[w], shadow[w], own[w])
  BY <1>1, Finds
<1>3. /\ Len(own[w]) = 1 /\ own[w][1] \in 1 .. Len(acts)
      /\ acts[own[w][1]].parent = TopFrame(shadow[w]).act
  BY <1>2 DEF HasStack
<1>4. own[w][1] = a /\ q = f.act
  BY <1>3 DEF Act
<1>5. acts[a].kind = "spawn" /\ ~acts[a].done
  BY <1>1, <1>4 DEF HomeInv
<1>6. f \in LiveFrames(acts, Homes)
  BY <1>1, HeadLive
<1>7. /\ FrameOK(acts, NodeCount, Len(heap), f) /\ f \in Frames /\ f.list \in 1 .. Len(heap)
      /\ f.sync_list \in 0 .. Len(heap)
  BY <1>1, <1>6, LiveBounds
<1>8. q \in 1 .. Len(acts)
  BY <1>4, <1>7 DEF FrameOK, FramesOf
<1>9. a # q
  <2>1. acts[a].parent \in 0 .. a - 1
    BY <1>1, <1>3, <1>4 DEF OwnInv, Family
  <2>2. a \in Nat
    BY <1>3, <1>4
  <2> QED
    BY <2>1, <2>2
<1>10. /\ shadow[w] \in Stacks /\ Len(shadow[w].frames) \in Nat
       /\ shadow[w].tail \in 1 .. Len(shadow[w].frames)
  BY <1>1, HomeView
<1>11. Len(shadow[w].frames) \in 1 .. Len(shadow[w].frames)
  BY <1>10
<1>12. f = shadow[w].frames[Len(shadow[w].frames)]
  BY DEF TopFrame
<1>13. /\ f.steal_cont # 0 => f.steal_sync # 0
       /\ f.sync = 0 /\ f.sync_list # 0
  BY <1>1, <1>11, <1>12 DEF FieldsOK
<1>14. HeadFields("returning", f)
  BY <1>13 DEF HeadFields
<1>15. f.sync_list \in 1 .. Len(heap)
  <2>1. Len(heap) \in Nat
    BY <1>1, Finds
  <2> QED
    BY <1>7, <1>13, <2>1
<1>16. \A e \in LiveFrames(acts, Homes) : e.act # a
  <2>1. a = Homes[x].own[1]
    BY <1>1, <1>4
  <2> QED
    BY <1>1, <2>1, NoneReturning
<1> QED
  BY <1>1, <1>2, <1>3, <1>4, <1>5, <1>6, <1>7, <1>8, <1>9, <1>10, <1>11, <1>12, <1>14, <1>15, <1>16

(* Function q goes on after its sync. *)
Resumes(A, B, q) == B = [A EXCEPT ![q].waits = 0, ![q].ended = {}]

LEMMA Resumed ==
  ASSUME NEW A \in Seq(Activations), NEW q \in 1 .. Len(A), NEW B, Resumes(A, B, q)
  PROVE  /\ Extends(A, B) /\ DOMAIN B = DOMAIN A /\ B[q].waits = 0
         /\ \A b \in 1 .. Len(A) : B[b].done = A[b].done /\ B[b].waits \in {A[b].waits, 0}
PROOF
<1> PICK C : C = [A EXCEPT ![q].waits = 0]
  OBVIOUS
<1>0. 0 \in Nat /\ {} \in SUBSET Nat
  OBVIOUS
<1>1. Extends(A, C)
  BY <1>0, ActMarked
<1>2. C \in Seq(Activations) /\ q \in 1 .. Len(C)
  BY <1>1, LenProperties DEF Extends
<1>3. Extends(C, [C EXCEPT ![q].ended = {}])
  BY <1>0, <1>2, ActMarked
<1>4. B = [C EXCEPT ![q].ended = {}]
  BY DEF Resumes
<1>5. Extends(A, B)
  BY <1>1, <1>3, <1>4, ExtendsTwice
<1>6. /\ DOMAIN A = 1 .. Len(A) /\ A = [b \in 1 .. Len(A) |-> A[b]]
      /\ \A b \in 1 .. Len(A) : A[b] \in Activations
  BY LenProperties, SeqDef, ElementOfSeq
<1> PICK r : r = [A[q] EXCEPT !.waits = 0, !.ended = {}]
  OBVIOUS
<1>7. r.done = A[q].done /\ r.waits = 0
  BY <1>6 DEF Activations
<1>8. DOMAIN B = DOMAIN A /\ \A b \in 1 .. Len(A) : B[b] = IF b = q THEN r ELSE A[b]
  BY <1>6 DEF Resumes
<1> QED
  BY <1>5, <1>7, <1>8

(* The child that is not the last one to return. *)
LEMMA ReturnIdleCopies ==
  ASSUME CopyInv, NEW w \in Workers, pc[w] = "returning", ReturnFromSpawn(w),
         NEW a, a = Act(w), NEW q, q = acts[a].parent,
         ReturnsTo(acts, acts', a, q, cur[w]), GoIdle(w), strands' = strands
  PROVE  CopyInv'
PROOF
<1> PICK x : x = <<w, 0>>
  OBVIOUS
<1>0. ShadowInv /\ ShadowInv'
  BY ReturnFromSpawnStep DEF CopyInv
<1>1. /\ x \in DOMAIN Homes /\ Homes[x].own = own[w]
      /\ own[w] \in Seq(Nat) /\ Len(own[w]) = 1 /\ own[w][1] = a
      /\ a \in 1 .. Len(acts) /\ q \in 1 .. Len(acts) /\ a # q
      /\ \A e \in LiveFrames(acts, Homes) : e.act # a
      /\ Copies(acts, NodeCount, Len(heap), Homes, StrandLists)
  <2> PICK f : f = TopFrame(shadow[w])
    OBVIOUS
  <2> QED
    BY ReturningCopies
<1>2. acts \in Seq(Activations) /\ IsSequence(heap) /\ Len(heap) \in Nat /\ cur[w] \in Nat
  BY <1>0, Finds
<1>3. /\ Extends(acts, acts') /\ Marks(acts, acts')
      /\ \A b \in 1 .. Len(acts) : acts'[b].done => acts[b].done \/ b = a
  BY <1>1, <1>2, SpawnReturned, SMTT(40)
<1>4. om' = om /\ heap' = heap /\ suspended' = suspended
  BY DEF ReturnFromSpawn
<1>5. Grows
  BY <1>0, <1>2, <1>3, <1>4, NothingGrows
<1>6. OwnInv(acts', Homes')
  <2>1. Moves(w, EmptyStack, <<>>, "idle")
    BY DEF GoIdle, Moves
  <2>2. Part(acts', <<>>, own[w], 0)
    BY <1>1, Parts
  <2> QED
    BY ONLY <1>3, <1>4, <2>1, <2>2, WorkerCuts, CopyInv, w \in Workers
<1> PICK D : D = {a}
  OBVIOUS
<1>7. Returns(acts, acts', Homes, {x}, D)
  <2>1. \E j \in 1 .. Len(Homes[x].own) : Homes[x].own[j] = a
    BY <1>1
  <2> QED
    BY <1>3, <2>1 DEF Returns
<1>8. ASSUME NEW f \in LiveBut(acts, Homes, x)
      PROVE  /\ acts'[f.act].done => acts[f.act].done
             /\ Spawning(acts', f.act) \subseteq Spawning(acts, f.act)
  <2>1. f \in LiveFrames(acts, Homes) /\ f.act \in 1 .. Len(acts)
    BY <1>1, LiveActs
  <2> QED
    BY <1>1, <1>3, <2>1, SpawningMarked
<1> QED
  BY ONLY <1>0, <1>4, <1>5, <1>6, <1>7, <1>8, IdleCopies, CopyInv, w \in Workers, x = <<w, 0>>,
     GoIdle(w), strands' = strands

(* The last child to return goes on with its parent. *)
LEMMA ReturnLastCopies ==
  ASSUME CopyInv, NEW w \in Workers, pc[w] = "returning", ReturnFromSpawn(w),
         NEW a, a = Act(w), NEW q, q = acts[a].parent, acts[q].waits # 0, Outstanding(q) = {a},
         NEW R, ReturnsTo(acts, R, a, q, cur[w]), Resumes(R, acts', q),
         NEW g, g = Synced(TopFrame(shadow[w])), NEW s, Tops(s, shadow[w], g),
         NEW P, strands' = Append(strands, Strand(TopFrame(s), P)),
         Moves(w, s, <<q>>, "run")
  PROVE  CopyInv'
PROOF
<1> PICK x : x = <<w, 0>>
  OBVIOUS
<1> PICK f : f = TopFrame(shadow[w])
  OBVIOUS
<1> PICK deque : deque = <<q>>
  OBVIOUS
<1> PICK new : new = Len(heap) + 1
  OBVIOUS
<1> PICK M : M = {f.sync_list}
  OBVIOUS
<1> PICK n : n = Len(shadow[w].frames)
  OBVIOUS
<1> PICK p : p = "run"
  OBVIOUS
<1>0. ShadowInv /\ ShadowInv'
  BY ReturnFromSpawnStep DEF CopyInv
<1>1. /\ x \in DOMAIN Homes /\ Homes[x].own = own[w] /\ Homes[x].at = "returning"
      /\ Holding(Homes[x]) /\ Copies(acts, NodeCount, Len(heap), Homes, StrandLists)
      /\ ListsInv(acts, LiveFrames(acts, Homes), StrandLists) /\ OwnInv(acts, Homes)
      /\ own[w] \in Seq(Nat) /\ Len(own[w]) = 1 /\ own[w][1] = a
      /\ a \in 1 .. Len(acts) /\ acts[a].kind = "spawn" /\ ~acts[a].done
      /\ q = f.act /\ q \in 1 .. Len(acts) /\ a # q
      /\ f \in LiveFrames(acts, Homes) /\ f \in Frames /\ HeadFields("returning", f)
      /\ f.list \in 1 .. Len(heap) /\ f.sync_list \in 1 .. Len(heap)
      /\ \A e \in LiveFrames(acts, Homes) : e.act # a
      /\ shadow[w] \in Stacks /\ Len(shadow[w].frames) \in 1 .. Len(shadow[w].frames)
      /\ Len(shadow[w].frames) \in Nat /\ shadow[w].tail \in 1 .. Len(shadow[w].frames)
      /\ f = shadow[w].frames[Len(shadow[w].frames)]
  BY ONLY ReturningCopies, CopyInv, w \in Workers, x = <<w, 0>>, pc[w] = "returning",
     f = TopFrame(shadow[w]), a = Act(w), q = acts[a].parent, SMTT(40)
<1>2. /\ acts \in Seq(Activations) /\ IsSequence(heap) /\ Len(heap) \in Nat /\ cur[w] \in Nat
      /\ new \in Nat
  BY <1>0, Finds
<1>3. om' = om /\ heap' = heap /\ suspended' = suspended
  BY DEF ReturnFromSpawn
<1>4. /\ Extends(acts, acts') /\ Marks(acts, acts') /\ acts'[a].done /\ acts'[q].waits = 0
      /\ \A b \in 1 .. Len(acts) : acts'[b].done => acts[b].done \/ b = a
  <2>1. /\ Extends(acts, R) /\ Marks(acts, R) /\ R[a].done
        /\ \A b \in 1 .. Len(acts) : R[b].done => acts[b].done \/ b = a
        /\ \A b \in 1 .. Len(acts) : R[b].waits = acts[b].waits
    <3>1. /\ acts \in Seq(Activations) /\ a \in 1 .. Len(acts) /\ q \in 1 .. Len(acts) /\ a # q
          /\ cur[w] \in Nat
      BY <1>1, <1>2
    <3> QED
      BY ONLY <3>1, SpawnReturned, ReturnsTo(acts, R, a, q, cur[w])
  <2>2. R \in Seq(Activations) /\ Len(R) = Len(acts) /\ DOMAIN R = DOMAIN acts
    BY <1>2, <2>1, LenProperties DEF Marks, Extends
  <2>3. /\ Extends(R, acts') /\ DOMAIN acts' = DOMAIN R /\ acts'[q].waits = 0
        /\ \A b \in 1 .. Len(R) : acts'[b].done = R[b].done /\ acts'[b].waits \in {R[b].waits, 0}
    BY <1>1, <2>2, Resumed
  <2>4. Extends(acts, acts')
    BY <2>1, <2>3, ExtendsTwice
  <2>5. \A b \in 1 .. Len(acts) : (acts[b].done => acts'[b].done) /\ acts'[b].waits \in {acts[b].waits, 0}
    <3>1. \A b \in 1 .. Len(acts) : acts[b].done => R[b].done
      BY <2>1 DEF Marks
    <3> QED
      BY <2>1, <2>2, <2>3, <3>1
  <2>6. Marks(acts, acts')
    <3>1. acts \in Seq(Activations) /\ DOMAIN acts' = DOMAIN acts
      BY <1>2, <2>2, <2>3
    <3> QED
      BY ONLY <2>4, <2>5, <3>1, DoneMarks
  <2> QED
    BY <1>1, <2>1, <2>2, <2>3, <2>4, <2>6
<1>5. Spawning(acts, q) = {a}
  <2>1. DOMAIN acts = 1 .. Len(acts)
    BY <1>2, LenProperties
  <2> QED
    BY <2>1 DEF Spawning, Outstanding
<1>6. Grows /\ AllFresh(M, new)
  <2>1. M \subseteq 1 .. Len(heap') /\ new > Len(heap) /\ Len(heap) <= Len(heap') /\ IsSequence(heap')
    <3>1. f.sync_list \in 1 .. Len(heap)
      BY <1>1
    <3>2. Len(heap) \in Nat /\ IsSequence(heap)
      BY <1>2
    <3>3. new > Len(heap) /\ Len(heap) <= Len(heap)
      BY <3>2
    <3> QED
      BY ONLY <1>3, <3>1, <3>2, <3>3, M = {f.sync_list}
  <2> QED
    BY <1>0, <1>2, <1>3, <1>4, <2>1, NothingGrows DEF AllFresh
<1>7. g \in Frames
  <2>1. f.list \in Nat /\ f.sync_list \in Nat /\ g = Synced(f)
    BY <1>1 DEF Frames
  <2> QED
    <3>1. f \in Frames
      BY <1>1
    <3> QED
      BY ONLY <2>1, <3>1, Zenon DEF Frames, Synced
<1>8. /\ g.act = f.act /\ (g.list = f.list \/ g.list = f.sync_list) /\ g.steal_list = f.steal_list
      /\ g.sync_list = 0 /\ g.sync = f.sync /\ g.steal_cont = f.steal_cont
      /\ g.steal_sync = f.steal_sync
  BY <1>1 DEF Frames, Synced
<1>9. HeadFields(p, g)
  BY <1>1, <1>8 DEF HeadFields
<1>10. Cuts(w, s, n, g)
  <2>1. Cut(shadow[w], s, n, g) /\ s.tail = shadow[w].tail
    <3>1. shadow[w] \in Stacks /\ Len(shadow[w].frames) > 0
      <4>1. \A m \in Nat : m \in 1 .. m => m > 0
        OBVIOUS
      <4>2. shadow[w] \in Stacks /\ n \in Nat /\ n \in 1 .. n
        BY <1>1
      <4> QED
        BY ONLY <4>1, <4>2, n = Len(shadow[w].frames)
    <3> QED
      BY <1>7, <3>1, SetTopView DEF Tops
  <2> QED
    BY <1>1, <1>8, <2>1 DEF Cuts
<1>11. AllKeep({g}, M, new, 0)
  <2>1. ~acts'[g.act].done
    BY <1>1, <1>4, <1>8 DEF ListsInv
  <2>2. Spawning(acts', g.act) = {}
    <3>1. Spawning(acts', q) \subseteq {a}
      BY <1>4, <1>5, SpawningMarked
    <3>2. a \notin Spawning(acts', q)
      BY <1>4 DEF Spawning
    <3> QED
      BY <1>1, <1>8, <3>1, <3>2
  <2>3. /\ g.list \in Reads(LiveFrames(acts, Homes), StrandLists) \cup M
        /\ g.steal_list \in Reads(LiveFrames(acts, Homes), StrandLists)
    BY <1>1, <1>8 DEF Reads
  <2>4. Keeps(acts', LiveFrames(acts, Homes), StrandLists, M, new, 0, g)
    BY <1>8, <2>1, <2>2, <2>3 DEF Keeps
  <2> QED
    BY <2>4 DEF AllKeep
<1>12. Records({g})
  <2>1. Cut(shadow[w], s, n, g) /\ g.list \in 1 .. Len(heap')
    BY <1>1, <1>3, <1>8, <1>10 DEF Cuts
  <2> QED
    BY <2>1, StrandRecorded
<1>13. Moves(w, s, deque, p)
  OBVIOUS
<1>14. OwnInv(acts', Homes')
  <2>1. Nobody(Homes, q) /\ \A b \in 1 .. Len(acts) : ~Calling(acts, b, q)
    BY <1>1 DEF OwnInv, WaitersOut
  <2>2. \A y \in DOMAIN Homes \ {x} : \A i \in 1 .. Len(Homes[y].own) : Homes[y].own[i] # q
    BY <2>1 DEF Nobody
  <2>3. \A b \in 1 .. Len(acts) : ~Calling(acts', b, q)
    BY <1>4, <2>1, SameCalls
  <2>4. q \in 1 .. Len(acts) /\ acts'[q].waits = 0 /\ Marks(acts, acts')
    BY <1>1, <1>4
  <2> QED
    BY ONLY <1>3, <1>13, <2>2, <2>3, <2>4, StartsAfresh, CopyInv, w \in Workers, x = <<w, 0>>,
       deque = <<q>>
<1>15. OneReturns(w, a) /\ OthersKeep(x, M)
  <2>1. OneReturns(w, a)
    <3>1. \E j \in 1 .. Len(own[w]) : own[w][j] = a
      <4>1. Len(own[w]) = 1 /\ own[w][1] = a
        BY <1>1
      <4>2. 1 \in 1 .. 1
        OBVIOUS
      <4> QED
        BY ONLY <4>1, <4>2
    <3> QED
      BY <1>4, <3>1 DEF OneReturns
  <2>2. ASSUME NEW e \in LiveBut(acts, Homes, x)
        PROVE  e.sync_list \notin M /\ (acts'[e.act].done => acts[e.act].done)
    <3>1. e \in LiveFrames(acts, Homes) /\ e.act \in 1 .. Len(acts)
      BY <1>1, LiveActs
    <3>2. e.act # q
      <4>1. a = Homes[x].own[1]
        BY <1>1
      <4> QED
        BY <1>1, <1>5, <4>1, LastReturning
    <3>3. f.sync_list # 0
      BY <1>1 DEF HeadFields
    <3>4. e.sync_list # f.sync_list
      BY <1>1, <3>1, <3>2, <3>3 DEF ListsInv
    <3> QED
      BY <1>1, <1>4, <3>1, <3>4
  <2> QED
    BY <2>1, <2>2 DEF OthersKeep
<1>16. p # "returning"
  OBVIOUS
<1> QED
  BY ONLY <1>0, <1>1, <1>3, <1>4, <1>6, <1>9, <1>10, <1>11, <1>12, <1>13, <1>14, <1>15, <1>16, CutCopies,
     CopyInv, w \in Workers, x = <<w, 0>>

(* The runtime after do_leave_stolen *)
LEMMA ReturnFromSpawnCopies ==
  ASSUME CopyInv, NEW w \in Workers, ReturnFromSpawn(w)
  PROVE  CopyInv'
PROOF
<1> PICK a : a = Act(w)
  OBVIOUS
<1> PICK q : q = acts[a].parent
  OBVIOUS
<1> PICK R : R = [acts EXCEPT ![a].done = TRUE, ![q].ended = @ \cup {cur[w]}]
  OBVIOUS
<1> PICK g : g = Synced(TopFrame(shadow[w]))
  OBVIOUS
<1> PICK s : s = SetTop(shadow[w], g)
  OBVIOUS
<1>1. pc[w] = "returning" /\ ReturnsTo(acts, R, a, q, cur[w]) /\ Tops(s, shadow[w], g)
  BY DEF ReturnFromSpawn, ReturnsTo, Tops
<1>2. CASE /\ acts[q].waits # 0 /\ Outstanding(q) = {a}
           /\ Continue(w, SetTop(shadow[w], Synced(TopFrame(shadow[w]))), {acts[q].waits} \cup R[q].ended)
           /\ acts' = [R EXCEPT ![q].waits = 0, ![q].ended = {}]
           /\ own' = [own EXCEPT ![w] = <<q>>]
           /\ pc' = [pc EXCEPT ![w] = "run"]
  <2> PICK P : P = {acts[q].waits} \cup R[q].ended
    OBVIOUS
  <2>1. /\ Resumes(R, acts', q) /\ strands' = Append(strands, Strand(TopFrame(s), P))
        /\ Moves(w, s, <<q>>, "run")
    BY <1>2 DEF Resumes, Continue, Moves
  <2> QED
    BY ONLY <1>1, <1>2, <2>1, ReturnLastCopies, CopyInv, w \in Workers, ReturnFromSpawn(w), a = Act(w),
       q = acts[a].parent, g = Synced(TopFrame(shadow[w]))
<1>3. CASE acts' = R /\ GoIdle(w) /\ strands' = strands
  BY <1>1, <1>3, ReturnIdleCopies
<1> QED
  BY <1>2, <1>3 DEF ReturnFromSpawn

(* Function a waits. *)
Awaits(A, B, a, c) == B = [A EXCEPT ![a].waits = c]

LEMMA Waited ==
  ASSUME NEW A \in Seq(Activations), NEW a \in 1 .. Len(A), NEW c \in Nat, NEW B, Awaits(A, B, a, c)
  PROVE  /\ Extends(A, B) /\ Len(B) = Len(A)
         /\ \A b \in 1 .. Len(A) : B[b].done = A[b].done /\ (b # a => B[b].waits = A[b].waits)
         /\ \A b : Spawning(B, b) \subseteq Spawning(A, b)
PROOF
<1>0. {} \in SUBSET Nat /\ B = [A EXCEPT ![a].waits = c]
  BY DEF Awaits
<1>1. Extends(A, B)
  BY <1>0, ActMarked
<1>2. /\ DOMAIN A = 1 .. Len(A) /\ A = [b \in 1 .. Len(A) |-> A[b]]
      /\ \A b \in 1 .. Len(A) : A[b] \in Activations
  BY LenProperties, SeqDef, ElementOfSeq
<1> PICK r : r = [A[a] EXCEPT !.waits = c]
  OBVIOUS
<1>3. r.done = A[a].done
  BY <1>2 DEF Activations
<1>4. DOMAIN B = DOMAIN A /\ \A b \in 1 .. Len(A) : B[b] = IF b = a THEN r ELSE A[b]
  BY <1>0, <1>2
<1>5. Len(B) = Len(A)
  BY <1>1, <1>4, LenProperties DEF Extends
<1>6. \A b \in 1 .. Len(A) : B[b].done = A[b].done /\ (b # a => B[b].waits = A[b].waits)
  BY <1>3, <1>4
<1>7. \A b \in 1 .. Len(A) : B[b].kind = A[b].kind /\ B[b].parent = A[b].parent
  BY <1>1 DEF Extends
<1> QED
  BY <1>1, <1>5, <1>6, <1>7 DEF Spawning

(* The runtime: a sync with children outstanding. *)
LEMMA SyncWaitCopies ==
  ASSUME CopyInv, NEW w \in Workers, SyncWait(w)
  PROVE  CopyInv'
PROOF
<1> PICK x : x = <<w, 0>>
  OBVIOUS
<1> PICK a : a = Act(w)
  OBVIOUS
<1>0. ShadowInv /\ ShadowInv'
  BY SyncWaitStep DEF CopyInv
<1>1. /\ pc[w] = "sync" /\ Awaits(acts, acts', a, cur[w]) /\ GoIdle(w) /\ suspended' = suspended
      /\ om' = om /\ heap' = heap /\ strands' = strands
  BY DEF SyncWait, Awaits
<1>2. acts \in Seq(Activations) /\ IsSequence(heap) /\ Len(heap) \in Nat /\ cur[w] \in Nat
  BY <1>0, Finds
<1>3. /\ x \in DOMAIN Homes /\ Homes[x].own = own[w] /\ Homes[x].at = "sync"
      /\ Copies(acts, NodeCount, Len(heap), Homes, StrandLists)
      /\ OwnInv(acts, Homes) /\ Shapes
  BY <1>1, FindsCopies
<1>4. /\ a \in 1 .. Len(acts) /\ a = own[w][Len(own[w])] /\ Len(own[w]) > 0 /\ Len(own[w]) \in Nat
      /\ own[w] \in Seq(Nat)
  BY <1>0, <1>1, Runs, Finds DEF Act
<1>5. /\ Extends(acts, acts') /\ Len(acts') = Len(acts)
      /\ \A b \in 1 .. Len(acts) : /\ acts'[b].done = acts[b].done
                                   /\ b # a => acts'[b].waits = acts[b].waits
      /\ \A b : Spawning(acts', b) \subseteq Spawning(acts, b)
  BY ONLY <1>1, <1>2, <1>4, Waited
<1>6. Grows
  BY <1>0, <1>1, <1>2, <1>5, NothingGrows
<1>7. OwnInv(acts', Homes')
  <2>1. Moves(w, EmptyStack, <<>>, "idle")
    BY <1>1 DEF GoIdle, Moves
  <2>2. Replaces(Homes, Homes', {x}, {x}) /\ Homes'[x].own = <<>>
    <3>1. /\ Replaces(Homes, Homes', {<<w, 0>>}, {<<w, 0>>})
          /\ Homes'[<<w, 0>>] = Home(EmptyStack, <<>>, "idle")
      BY ONLY <1>1, <1>3, <2>1, WorkerMoves, w \in Workers
    <3> QED
      BY <3>1 DEF Home
  <2> PICK V : V = Homes
    OBVIOUS
  <2> PICK U : U = Homes'
    OBVIOUS
  <2> PICK A : A = acts
    OBVIOUS
  <2>3. Marks(A, A)
    BY <1>2, ExtendsSame DEF Marks
  <2>4. Part(A, U[x].own, V[x].own, 0)
    BY <1>3, <1>4, <2>2, Parts
  <2>5. OwnInv(A, V) /\ x \in DOMAIN V /\ Replaces(V, U, {x}, {x})
    BY <1>3, <2>2
  <2>6. OwnInv(A, U)
    BY ONLY <2>3, <2>4, <2>5, OneCut
  <2>7. Nobody(U, a)
    <3> SUFFICES ASSUME NEW y \in DOMAIN U, NEW i \in 1 .. Len(U[y].own), U[y].own[i] = a PROVE FALSE
      BY DEF Nobody
    <3>1. y # x
      <4>1. y = x => i \in 1 .. 0
        BY <2>2
      <4> QED
        BY <4>1
    <3>2. y \in DOMAIN V /\ U[y] = V[y]
      BY <2>5, <3>1 DEF Replaces
    <3>3. Len(V[x].own) \in 1 .. Len(V[x].own) /\ V[x].own[Len(V[x].own)] = a
      BY <1>3, <1>4
    <3> QED
      BY <2>5, <3>1, <3>2, <3>3 DEF OwnInv, Once
  <2>8. \A b \in 1 .. Len(A) : ~Calling(A, b, a)
    <3>1. pc[w] \in {"run", "sync"}
      BY <1>1
    <3>2. \A b : ~Calling(acts, b, Act(w))
      <4> PICK f : f = TopFrame(shadow[w])
        OBVIOUS
      <4> QED
        BY <3>1, HeadCopies
    <3> QED
      BY <3>2
  <2> PICK B : B = acts'
    OBVIOUS
  <2>9. /\ Extends(A, B) /\ Len(B) = Len(A)
        /\ \A b \in 1 .. Len(A) : B[b].done = A[b].done /\ (b # a => B[b].waits = A[b].waits)
    BY <1>5
  <2>10. OwnInv(B, U)
    BY ONLY <2>6, <2>7, <2>8, <2>9, DequesWait
  <2> QED
    BY <2>10
<1> PICK D : D = {}
  OBVIOUS
<1>8. Returns(acts, acts', Homes, {x}, D)
  BY <1>5 DEF Returns
<1>9. \A f \in LiveBut(acts, Homes, x) :
         /\ acts'[f.act].done => acts[f.act].done
         /\ Spawning(acts', f.act) \subseteq Spawning(acts, f.act)
  <2>1. \A f \in LiveBut(acts, Homes, x) : f.act \in 1 .. Len(acts)
    BY <1>3, LiveActs
  <2> QED
    BY <1>5, <2>1
<1> QED
  BY ONLY <1>0, <1>1, <1>6, <1>7, <1>8, <1>9, IdleCopies, CopyInv, w \in Workers, x = <<w, 0>>

(* The children of a function after p called or detached b. *)
LEMMA AddsSpawning ==
  ASSUME NEW A \in Seq(Activations), Family(A), NEW B, NEW p \in 1 .. Len(A), NEW b, Adds(A, B, p, b)
  PROVE  /\ \A a \in 1 .. Len(A) : /\ B[a].done => A[a].done
                                   /\ B[b].kind # "spawn" \/ a # p => Spawning(B, a) \subseteq Spawning(A, a)
         /\ Spawning(B, b) = {} /\ ~B[b].done
PROOF
<1>1. /\ Len(A) \in Nat /\ b = Len(A) + 1 /\ Len(B) = b /\ ~B[b].done /\ B[b].parent = p
      /\ \A a \in 1 .. Len(A) : /\ B[a].kind = A[a].kind /\ B[a].parent = A[a].parent
                                /\ B[a].done = A[a].done
  BY LenProperties DEF Adds, Extends
<1>2. ASSUME NEW a \in 1 .. Len(A), B[b].kind # "spawn" \/ a # p
      PROVE  Spawning(B, a) \subseteq Spawning(A, a)
  <2> SUFFICES ASSUME NEW c \in 1 .. Len(B), B[c].parent = a, B[c].kind = "spawn", ~B[c].done
               PROVE  c \in Spawning(A, a)
    BY DEF Spawning
  <2>1. c # b
    BY <1>1, <1>2
  <2>2. c \in 1 .. Len(A)
    BY <1>1, <2>1
  <2> QED
    BY <1>1, <2>2 DEF Spawning
<1>3. Spawning(B, b) = {}
  <2> SUFFICES ASSUME NEW c \in 1 .. Len(B), B[c].parent = b PROVE FALSE
    BY DEF Spawning
  <2>1. CASE c = b
    BY <1>1, <2>1
  <2>2. CASE c # b
    <3>1. c \in 1 .. Len(A)
      BY <1>1, <2>2
    <3>2. A[c].parent \in 0 .. c - 1 /\ A[c].parent = b
      BY <1>1, <3>1 DEF Family
    <3> QED
      BY <1>1, <3>1, <3>2
  <2> QED
    BY <2>1, <2>2
<1> QED
  BY <1>1, <1>2, <1>3

(* A stack that grows by frame g. *)
LEMMA PushHome ==
  ASSUME CopyInv, NEW w \in Workers, NEW x, x = <<w, 0>>, Holding(Homes[x]),
         NEW n, n = Len(shadow[w].frames), NEW t, NEW h, Cuts(w, t, n, h), HeadFields("run", h),
         NEW g \in Frames, HeadFields("run", g), NEW s, s = push(t, g),
         NEW deque, Extends(acts, acts')
  PROVE  /\ LiveAt(acts', Home(s, deque, "run")) \subseteq LiveBelow(acts, Homes[x]) \cup {h, g}
         /\ FieldsOK("run", s) /\ TopFrame(s) = g
PROOF
<1> PICK p : p = "run"
  OBVIOUS
<1>1. /\ LiveAt(acts', Home(t, deque, p)) \subseteq LiveBelow(acts, Homes[x]) \cup {h}
      /\ FieldsOK(p, t)
  <2>1. HeadFields(p, h)
    OBVIOUS
  <2> QED
    BY ONLY <2>1, CutHome, CopyInv, w \in Workers, x = <<w, 0>>, Holding(Homes[x]), Cuts(w, t, n, h),
       Extends(acts, acts')
<1>2. /\ t \in Stacks /\ Len(t.frames) = n /\ n \in Nat /\ t.tail \in 1 .. n
  <2>1. Homes[x].stack = shadow[w] /\ x \in DOMAIN Homes
        /\ Copies(acts, NodeCount, Len(heap), Homes, StrandLists)
    BY FindsCopies
  <2>2. n \in Nat
    BY <2>1, HomeView DEF Holding
  <2> QED
    BY <2>2 DEF Cuts, Cut
<1>3. /\ s \in Stacks /\ s.tail = t.tail /\ Len(s.frames) = n + 1
      /\ \A i \in 1 .. n : s.frames[i] = t.frames[i]
      /\ s.frames[n + 1] = g
  <2>1. /\ push(t, g) \in Stacks /\ push(t, g).tail = t.tail
        /\ Len(push(t, g).frames) = Len(t.frames) + 1
        /\ \A i \in 1 .. Len(t.frames) : push(t, g).frames[i] = t.frames[i]
        /\ push(t, g).frames[Len(t.frames) + 1] = g
    BY <1>2, PushView
  <2> QED
    BY <1>2, <2>1
<1>4. TopFrame(s) = g
  BY <1>3 DEF TopFrame
<1>5. ASSUME NEW i \in LiveIn(acts', s), i # n + 1
      PROVE  i \in LiveIn(acts', t) /\ s.frames[i] = t.frames[i]
  <2>1. i \in 1 .. n + 1 /\ \A j \in i + 1 .. s.tail : acts'[s.frames[j].act].kind # "future"
    BY <1>3 DEF LiveIn
  <2>2. i \in 1 .. n
    BY <1>2, <1>5, <2>1
  <2>3. \A j \in i + 1 .. t.tail : j \in 1 .. n
    BY <1>2, <2>2
  <2>4. \A j \in i + 1 .. t.tail : acts'[t.frames[j].act].kind # "future"
    BY <1>3, <2>1, <2>3
  <2> QED
    BY <1>2, <1>3, <2>2, <2>4 DEF LiveIn
<1>6. LiveAt(acts', Home(s, deque, p)) \subseteq LiveAt(acts', Home(t, deque, p)) \cup {g}
  <2>1. /\ Holding(Home(s, deque, p)) /\ Holding(Home(t, deque, p))
        /\ Home(s, deque, p).stack = s /\ Home(t, deque, p).stack = t
    BY DEF Holding, Home
  <2>2. /\ LiveAt(acts', Home(s, deque, p)) = {s.frames[i] : i \in LiveIn(acts', s)}
        /\ LiveAt(acts', Home(t, deque, p)) = {t.frames[i] : i \in LiveIn(acts', t)}
    BY <2>1 DEF LiveAt
  <2> QED
    BY <1>3, <1>5, <2>2
<1>7. FieldsOK("run", s)
  <2>1. ASSUME NEW i \in 1 .. n + 1
        PROVE  /\ s.frames[i].steal_cont # 0 => s.frames[i].steal_sync # 0
               /\ s.frames[i].sync = 0 <=> s.frames[i].sync_list = 0
    <3>1. CASE i \in 1 .. n
      <4>1. s.frames[i] = t.frames[i] /\ p = "run"
        BY <1>3, <3>1
      <4> QED
        BY <1>1, <1>2, <3>1, <4>1 DEF FieldsOK
    <3>2. CASE i = n + 1
      BY <1>3, <3>2 DEF HeadFields
    <3> QED
      BY <1>2, <3>1, <3>2
  <2> QED
    BY <1>3, <2>1 DEF FieldsOK
<1> QED
  BY <1>1, <1>4, <1>6, <1>7

(* Worker w pushes frame g for b, which its function calls or detaches. *)
LEMMA PushCopies ==
  ASSUME CopyInv, ShadowInv', NEW w \in Workers, NEW x, x = <<w, 0>>, pc[w] = "run",
         NEW n, n = Len(shadow[w].frames), NEW t, NEW h, Cuts(w, t, n, h), HeadFields("run", h),
         NEW g \in Frames, HeadFields("run", g), NEW s, s = push(t, g),
         NEW b, NEW deque, deque = Append(own[w], b), Moves(w, s, deque, "run"),
         suspended' = suspended, Grows, Adds(acts, acts', Act(w), b),
         NEW M, NEW new, AllFresh(M, new), NEW q,
         AllKeep(LiveBut(acts, Homes, x), M, new, q), AllKeep({h, g}, M, new, q), Records({h, g})
  PROVE  CopyInv'
PROOF
<1> PICK p : p = "run"
  OBVIOUS
<1> PICK G : G = {h, g}
  OBVIOUS
<1> PICK D : D = {}
  OBVIOUS
<1>1. /\ x \in DOMAIN Homes /\ Homes[x].own = own[w] /\ Shapes /\ Holding(Homes[x])
      /\ OwnInv(acts, Homes)
  BY FindsCopies
<1>2. Extends(acts, acts')
  BY DEF Grows
<1>3. /\ LiveAt(acts', Home(s, deque, "run")) \subseteq LiveBelow(acts, Homes[x]) \cup {h, g}
      /\ FieldsOK("run", s) /\ TopFrame(s) = g
  BY ONLY <1>1, <1>2, PushHome, CopyInv, w \in Workers, x = <<w, 0>>, n = Len(shadow[w].frames),
     Cuts(w, t, n, h), HeadFields("run", h), g \in Frames, HeadFields("run", g), s = push(t, g)
<1>4. HomeInv(acts', Home(s, deque, p))
  BY <1>3 DEF HomeInv, Home
<1>5. OwnInv(acts', Homes')
  <2>1. Replaces(Homes, Homes', {x}, {x}) /\ Homes'[x].own = deque
    <3>1. /\ Replaces(Homes, Homes', {<<w, 0>>}, {<<w, 0>>})
          /\ Homes'[<<w, 0>>] = Home(s, deque, p)
      BY <1>1, WorkerMoves
    <3> QED
      BY <3>1 DEF Home
  <2> PICK A : A = acts
    OBVIOUS
  <2> PICK B : B = acts'
    OBVIOUS
  <2> PICK V : V = Homes
    OBVIOUS
  <2> PICK U : U = Homes'
    OBVIOUS
  <2>2. Len(own[w]) \in Nat /\ Len(own[w]) > 0
    <3>1. ShadowInv /\ pc[w] \in {"run", "sync"}
      BY DEF CopyInv
    <3> QED
      BY <3>1, Runs
  <2> PICK l \in Nat : l = Len(V[x].own)
    BY <1>1, <2>2
  <2> PICK a : a = V[x].own[l]
    OBVIOUS
  <2>3. /\ OwnInv(A, V) /\ x \in DOMAIN V /\ l \in Nat /\ l = Len(V[x].own) /\ l > 0 /\ a = V[x].own[l]
        /\ Replaces(V, U, {x}, {x}) /\ U[x].own = Append(V[x].own, b)
    BY <1>1, <2>1, <2>2
  <2>4. Adds(A, B, a, b)
    <3>1. a = Act(w)
      BY <1>1 DEF Act
    <3> QED
      BY <3>1
  <2>5. OwnInv(B, U)
    BY ONLY <2>3, <2>4, DequeGrows
  <2> QED
    BY <2>5
<1>6. Returns(acts, acts', Homes, {x}, D)
  BY DEF Returns, Adds
<1>7. /\ Moves(w, s, deque, p) /\ AllKeep(G, M, new, q) /\ Records(G)
      /\ LiveAt(acts', Home(s, deque, p)) \subseteq LiveBelow(acts, Homes[x]) \cup G
  BY <1>3
<1> QED
  BY ONLY <1>4, <1>5, <1>6, <1>7, WorkerCopies, CopyInv, ShadowInv', w \in Workers, x = <<w, 0>>,
     suspended' = suspended, Grows, AllFresh(M, new), AllKeep(LiveBut(acts, Homes, x), M, new, q)

(* Activation a of kind k is added. *)
Added(A, B, k, a, c) == B = Append(A, NewAct(k, a, c))

LEMMA AddedAdds ==
  ASSUME NEW A \in Seq(Activations), NEW a \in 1 .. Len(A), NEW c \in Nat,
         NEW k \in {"call", "spawn", "future"}, k # "call" => ~Detaches(A, a),
         NEW B, Added(A, B, k, a, c)
  PROVE  Adds(A, B, a, Len(A) + 1) /\ B[Len(A) + 1].kind = k
PROOF
<1> PICK r : r = NewAct(k, a, c)
  OBVIOUS
<1>1. r \in Activations /\ r.kind = k /\ r.parent = a /\ ~r.done /\ r.waits = 0
  <2>1. k \in Kinds /\ a \in Nat
    BY DEF Kinds
  <2>2. r \in Activations /\ r.kind = k /\ r.parent = a
    BY <2>1, NewActType
  <2>3. ~r.done /\ r.waits = 0
    BY DEF NewAct
  <2> QED
    BY <2>2, <2>3
<1>2. B = Append(A, r)
  BY DEF Added
<1>3. Extends(A, B) /\ Len(B) = Len(A) + 1 /\ B[Len(A) + 1] = r
  BY <1>1, <1>2, ActAdded
<1>4. \A b \in 1 .. Len(A) : B[b] = A[b]
  BY <1>1, <1>2, AppendProperties
<1>5. k # "root" /\ (Detaches(B, Len(A) + 1) => ~Detaches(A, a))
  BY <1>1, <1>3 DEF Detaches
<1> QED
  BY <1>1, <1>3, <1>4, <1>5 DEF Adds

(* What the frames of others keep when w adds function b. *)
LEMMA AddsKeep ==
  ASSUME CopyInv, NEW w \in Workers, NEW x, x = <<w, 0>>, pc[w] = "run",
         NEW b, Adds(acts, acts', Act(w), b), NEW M, \A l \in M : l > Len(heap), NEW new, NEW q
  PROVE  /\ AllKeep(LiveBut(acts, Homes, x), M, new, q)
         /\ Spawning(acts', b) = {} /\ ~acts'[b].done
         /\ \A a \in 1 .. Len(acts) : acts'[a].done => acts[a].done
         /\ acts'[b].kind # "spawn" => Spawning(acts', Act(w)) \subseteq Spawning(acts, Act(w))
PROOF
<1>1. /\ x \in DOMAIN Homes /\ Homes[x].own = own[w] /\ Homes[x].at = "run"
      /\ ListsInv(acts, LiveFrames(acts, Homes), StrandLists)
      /\ Copies(acts, NodeCount, Len(heap), Homes, StrandLists) /\ Family(acts) /\ ShadowInv
  BY FindsCopies
<1>2. acts \in Seq(Activations) /\ Len(heap) \in Nat
  BY <1>1, Finds
<1>3. Act(w) \in 1 .. Len(acts) /\ Act(w) = own[w][Len(own[w])]
  <2>1. pc[w] \in {"run", "sync"}
    OBVIOUS
  <2> QED
    BY <1>1, <2>1, Runs DEF Act
<1> PICK p : p = Act(w)
  OBVIOUS
<1>4. /\ \A a \in 1 .. Len(acts) :
           /\ acts'[a].done => acts[a].done
           /\ acts'[b].kind # "spawn" \/ a # p => Spawning(acts', a) \subseteq Spawning(acts, a)
      /\ Spawning(acts', b) = {} /\ ~acts'[b].done
  <2> PICK A : A = acts
    OBVIOUS
  <2> PICK B : B = acts'
    OBVIOUS
  <2>1. A \in Seq(Activations) /\ Family(A) /\ p \in 1 .. Len(A) /\ Adds(A, B, p, b)
    BY <1>1, <1>2, <1>3
  <2>2. /\ \A a \in 1 .. Len(A) :
             /\ B[a].done => A[a].done
             /\ B[b].kind # "spawn" \/ a # p => Spawning(B, a) \subseteq Spawning(A, a)
        /\ Spawning(B, b) = {} /\ ~B[b].done
    BY ONLY <2>1, AddsSpawning
  <2> QED
    BY <2>2
<1>5. ASSUME NEW f \in LiveBut(acts, Homes, x)
      PROVE  Keeps(acts', LiveFrames(acts, Homes), StrandLists, M, new, q, f)
  <2>1. f \in LiveFrames(acts, Homes) /\ f.act \in 1 .. Len(acts) /\ f.sync_list \in 0 .. Len(heap)
    BY <1>1, LiveActs
  <2>2. f.sync_list \notin M
    BY <1>2, <2>1
  <2>3. f.sync_list = 0 => f.act # p
    <3>1. Homes[x].at \in {"run", "sync"} /\ p = Homes[x].own[Len(Homes[x].own)]
      BY <1>1, <1>3
    <3> QED
      BY <1>1, <3>1, CopiesSync
  <2> QED
    BY <1>1, <1>4, <2>1, <2>2, <2>3, OldKeeps
<1> QED
  BY <1>3, <1>4, <1>5 DEF AllKeep

(* The frame of a function that was added. *)
LEMMA ChildKeeps ==
  ASSUME NEW b, Spawning(acts', b) = {}, ~acts'[b].done, NEW M, NEW new, NEW q,
         NEW g, g.act = b, g.sync_list = 0, g.steal_list = 0,
         g.list \in Reads(LiveFrames(acts, Homes), StrandLists) \cup M
  PROVE  Keeps(acts', LiveFrames(acts, Homes), StrandLists, M, new, q, g)
  BY DEF Keeps

(* do_enter_begin *)
LEMMA EnterCopies ==
  ASSUME CopyInv, NEW w \in Workers, Enter(w)
  PROVE  CopyInv'
PROOF
<1> PICK x : x = <<w, 0>>
  OBVIOUS
<1>0. ShadowInv /\ ShadowInv'
  BY EnterStep DEF CopyInv
<1> PICK f : f = TopFrame(shadow[w])
  OBVIOUS
<1> PICK b : b = Len(acts) + 1
  OBVIOUS
<1> PICK g : g = NewFrame(b, FALSE, f.node, f.list, f.future_id)
  OBVIOUS
<1> PICK t : t = shadow[w]
  OBVIOUS
<1> PICK s : s = push(t, g)
  OBVIOUS
<1> PICK deque : deque = Append(own[w], b)
  OBVIOUS
<1> PICK n : n = Len(shadow[w].frames)
  OBVIOUS
<1> PICK new : new = Len(heap) + 1
  OBVIOUS
<1> PICK M : M = {}
  OBVIOUS
<1>1. /\ pc[w] = "run" /\ Added(acts, acts', "call", Act(w), cur[w]) /\ suspended' = suspended
      /\ strands' = strands /\ om' = om /\ heap' = heap /\ pc' = pc
      /\ shadow' = [shadow EXCEPT ![w] = s] /\ own' = [own EXCEPT ![w] = deque]
  BY <1>0 DEF Enter, Running, Added, ShadowInv, Shapes
<1>2. acts \in Seq(Activations) /\ IsSequence(heap) /\ Len(heap) \in Nat /\ cur[w] \in Nat
      /\ Len(acts) \in Nat
  BY <1>0, Finds
<1>3. /\ Holding(Homes[x]) /\ f \in LiveFrames(acts, Homes) /\ HeadFields("run", f)
      /\ Act(w) = f.act
      /\ f.list \in Reads(LiveFrames(acts, Homes), StrandLists)
      /\ n \in 1 .. n /\ n \in Nat /\ f = shadow[w].frames[n]
      /\ t.tail \in 1 .. n /\ t \in Stacks /\ f \in Frames
      /\ f.sync_list \in 0 .. Len(heap)
  BY <1>1, HeadCopies
<1>4. Act(w) \in 1 .. Len(acts)
  <2>1. pc[w] \in {"run", "sync"}
    BY <1>1
  <2> QED
    BY <1>0, <2>1, Runs
<1>5. Adds(acts, acts', Act(w), b) /\ acts'[b].kind = "call"
  <2> PICK p : p = Act(w)
    OBVIOUS
  <2> PICK c : c = cur[w]
    OBVIOUS
  <2> PICK k : k = "call"
    OBVIOUS
  <2>1. acts \in Seq(Activations) /\ p \in 1 .. Len(acts) /\ c \in Nat /\ k \in {"call", "spawn", "future"}
        /\ (k # "call" => ~Detaches(acts, p)) /\ Added(acts, acts', k, p, c)
    BY <1>1, <1>2, <1>4
  <2>2. Adds(acts, acts', p, Len(acts) + 1) /\ acts'[Len(acts) + 1].kind = k
    BY ONLY <2>1, AddedAdds
  <2> QED
    BY <2>2
<1>6. Grows /\ AllFresh(M, new)
  <2>1. Extends(acts, acts')
    BY <1>5 DEF Adds
  <2>2. IsSequence(heap') /\ Len(heap') = Len(heap)
    BY <1>1, <1>2
  <2> QED
    BY <1>0, <1>1, <1>2, <2>1, <2>2, NothingGrows DEF AllFresh
<1>7. /\ g.act = b /\ g.list = f.list /\ g.steal_list = 0 /\ g.sync_list = 0 /\ g.sync = 0
      /\ g.steal_cont = 0 /\ g \in Frames
  <2>1. /\ g.act = b /\ g.list = f.list /\ g.steal_list = 0 /\ g.sync_list = 0 /\ g.sync = 0
        /\ g.steal_cont = 0
    BY DEF NewFrame
  <2>2. f.node \in Nat /\ f.list \in Nat /\ f.future_id \in Nat /\ b \in Nat
    <3>1. f \in Frames /\ Len(acts) \in Nat /\ b = Len(acts) + 1
      BY <1>2, <1>3
    <3> QED
      BY ONLY <3>1 DEF Frames
  <2>3. 0 \in Nat /\ FALSE \in BOOLEAN
    OBVIOUS
  <2>4. g \in Frames
    BY ONLY <2>2, <2>3, g = NewFrame(b, FALSE, f.node, f.list, f.future_id), Zenon DEF Frames, NewFrame
  <2> QED
    BY <2>1, <2>4
<1>8. HeadFields("run", g)
  BY <1>7 DEF HeadFields
<1>9. /\ AllKeep(LiveBut(acts, Homes, x), M, new, 0)
      /\ Spawning(acts', b) = {} /\ ~acts'[b].done
      /\ \A a \in 1 .. Len(acts) : acts'[a].done => acts[a].done
      /\ Spawning(acts', Act(w)) \subseteq Spawning(acts, Act(w))
  <2>1. \A l \in M : l > Len(heap)
    OBVIOUS
  <2>2. acts'[b].kind # "spawn"
    BY <1>5
  <2>3. pc[w] = "run" /\ Adds(acts, acts', Act(w), b)
    BY <1>1, <1>5
  <2> QED
    BY ONLY <2>1, <2>2, <2>3, AddsKeep, CopyInv, w \in Workers, x = <<w, 0>>
<1>10. AllKeep({f, g}, M, new, 0)
  <2>1. Keeps(acts', LiveFrames(acts, Homes), StrandLists, M, new, 0, g)
    BY <1>3, <1>7, <1>9, ChildKeeps
  <2>2. Keeps(acts', LiveFrames(acts, Homes), StrandLists, M, new, 0, f)
    <3>1. ListsInv(acts, LiveFrames(acts, Homes), StrandLists)
      BY FindsCopies
    <3> QED
      BY <1>3, <1>4, <1>9, <3>1, OldKeeps
  <2> QED
    BY <2>1, <2>2 DEF AllKeep
<1>11. Cuts(w, t, n, f)
  <2>1. Cut(shadow[w], t, n, f)
    BY <1>3 DEF Cut
  <2> QED
    BY <1>3, <2>1 DEF Cuts
<1>12. Moves(w, s, deque, "run")
  BY <1>0, <1>1 DEF Moves, ShadowInv, Shapes
<1>13. Records({f, g})
  BY <1>1 DEF Records
<1> QED
  BY ONLY <1>0, <1>1, <1>3, <1>5, <1>6, <1>7, <1>8, <1>9, <1>10, <1>11, <1>12, <1>13, PushCopies,
     CopyInv, w \in Workers, x = <<w, 0>>, n = Len(shadow[w].frames), s = push(t, g),
     deque = Append(own[w], b)

(* The strand that detaches a function is noted. *)
Notes(A, B, a, c) == B = [A EXCEPT ![a].at = c]

LEMMA Noted ==
  ASSUME NEW A \in Seq(Activations), NEW a \in 1 .. Len(A), NEW c \in Nat, NEW B, Notes(A, B, a, c)
  PROVE  /\ Extends(A, B) /\ Len(B) = Len(A)
         /\ \A b \in 1 .. Len(A) : B[b].done = A[b].done /\ B[b].waits = A[b].waits
PROOF
<1>0. {} \in SUBSET Nat /\ B = [A EXCEPT ![a].at = c]
  BY DEF Notes
<1>1. Extends(A, B)
  BY <1>0, ActMarked
<1>2. /\ DOMAIN A = 1 .. Len(A) /\ A = [b \in 1 .. Len(A) |-> A[b]]
      /\ \A b \in 1 .. Len(A) : A[b] \in Activations
  BY LenProperties, SeqDef, ElementOfSeq
<1> PICK r : r = [A[a] EXCEPT !.at = c]
  OBVIOUS
<1>3. r.done = A[a].done /\ r.waits = A[a].waits
  BY <1>2 DEF Activations
<1>4. DOMAIN B = DOMAIN A /\ \A b \in 1 .. Len(A) : B[b] = IF b = a THEN r ELSE A[b]
  BY <1>0, <1>2
<1>5. Len(B) = Len(A)
  BY <1>1, <1>4, LenProperties DEF Extends
<1> QED
  BY <1>1, <1>3, <1>4, <1>5

LEMMA DetachAdds ==
  ASSUME ShadowInv, NEW w \in Workers, pc[w] \in {"run", "sync"}, NEW kind \in {"spawn", "future"},
         Detach(w, kind)
  PROVE  Adds(acts, acts', Act(w), Len(acts) + 1) /\ acts'[Len(acts) + 1].kind = kind
PROOF
<1>1. /\ acts \in Seq(Activations) /\ Len(acts) \in Nat /\ cur[w] \in Nat
  BY Finds
<1>2. /\ Act(w) \in 1 .. Len(acts) /\ Act(w) = TopFrame(shadow[w]).act
      /\ FrameOK(acts, NodeCount, Len(heap), TopFrame(shadow[w]))
  BY Runs
<1> PICK A : A = acts
  OBVIOUS
<1> PICK B : B = acts'
  OBVIOUS
<1> PICK a : a = Act(w)
  OBVIOUS
<1> PICK c : c = cur[w]
  OBVIOUS
<1> PICK b : b = Len(A) + 1
  OBVIOUS
<1> PICK C : C = Append(A, NewAct(kind, a, c))
  OBVIOUS
<1>3. ~Detaches(A, a)
  <2>1. ~TopFrame(shadow[w]).helper
    BY DEF Detach
  <2> QED
    BY <1>2, <2>1 DEF FrameOK, Detaches
<1>4. Adds(A, C, a, b) /\ C[b].kind = kind
  <2>1. /\ A \in Seq(Activations) /\ a \in 1 .. Len(A) /\ c \in Nat
        /\ kind \in {"call", "spawn", "future"} /\ (kind # "call" => ~Detaches(A, a))
        /\ Added(A, C, kind, a, c)
    BY <1>1, <1>2, <1>3 DEF Added
  <2>2. Adds(A, C, a, Len(A) + 1) /\ C[Len(A) + 1].kind = kind
    BY ONLY <2>1, AddedAdds
  <2> QED
    BY <2>2
<1>5. /\ C \in Seq(Activations) /\ a \in 1 .. Len(C) /\ Len(A) \in Nat
      /\ Extends(A, C) /\ Len(C) = Len(A) + 1 /\ b \in 1 .. Len(C)
  BY <1>1, <1>2, <1>4 DEF Adds, Extends
<1>6. Notes(C, B, a, c)
  BY DEF Detach, Notes
<1>7. /\ Extends(C, B) /\ Len(B) = Len(C)
      /\ \A i \in 1 .. Len(C) : B[i].done = C[i].done /\ B[i].waits = C[i].waits
  <2>1. C \in Seq(Activations) /\ a \in 1 .. Len(C) /\ c \in Nat /\ Notes(C, B, a, c)
    BY <1>1, <1>5, <1>6
  <2> QED
    BY ONLY <2>1, Noted
<1>8. Extends(A, B) /\ B[b].kind = C[b].kind /\ B[b].parent = C[b].parent
  BY <1>5, <1>7, ExtendsTwice DEF Extends
<1>9. \A i \in 1 .. Len(A) : i \in 1 .. Len(C)
  BY <1>5
<1>10. /\ \A i \in 1 .. Len(A) : B[i].done = A[i].done /\ B[i].waits = A[i].waits
       /\ B[b].parent = a /\ ~B[b].done /\ B[b].waits = 0 /\ B[b].kind = kind
  BY <1>4, <1>5, <1>7, <1>8, <1>9 DEF Adds
<1>11. Adds(A, B, a, b)
  BY <1>3, <1>5, <1>7, <1>8, <1>10 DEF Adds
<1> QED
  BY <1>10, <1>11

(* The fields that do_detach_begin sets in the parent's frame. *)
LEMMA DetachingFields ==
  ASSUME NEW f \in Frames, NEW l, NEW h, h = WithList(DetachingParent(f), l)
  PROVE  /\ h.act = f.act /\ h.list = l /\ h.steal_list = 0 /\ h.steal_cont = 0
         /\ h.sync = SyncNode(f)
         /\ f.sync = 0 => h.sync_list = Len(heap) + 1
         /\ f.sync # 0 => h.sync_list = f.sync_list
PROOF
<1> PICK m : m = Len(heap) + 1
  OBVIOUS
<1> PICK k : k = DetachingParent(f)
  OBVIOUS
<1> PICK x : x = SyncNode(f)
  OBVIOUS
<1> PICK y : y = ContNode(f)
  OBVIOUS
<1>1. k = [f EXCEPT !.sync = x, !.cont = y, !.node = 0, !.steal_cont = 0, !.steal_sync = 0,
                    !.steal_list = 0, !.sync_list = IF f.sync = 0 THEN m ELSE @,
                    !.ori_list = IF f.sync = 0 THEN f.list ELSE @]
  BY DEF DetachingParent, First
<1>2. /\ k.act = f.act /\ k.steal_list = 0 /\ k.steal_cont = 0 /\ k.sync = x
      /\ k.sync_list = IF f.sync = 0 THEN m ELSE f.sync_list
  BY ONLY <1>1, f \in Frames DEF Frames
<1>3. DOMAIN k = DOMAIN f /\ DOMAIN f = {"act", "helper", "future_id", "node", "cont", "sync",
         "steal_cont", "steal_sync", "steal_list", "list", "sync_list", "ori_list"}
  BY ONLY <1>1, f \in Frames DEF Frames
<1>4. h = [k EXCEPT !.list = l]
  BY DEF WithList
<1>5. /\ h.act = k.act /\ h.list = l /\ h.steal_list = k.steal_list /\ h.steal_cont = k.steal_cont
      /\ h.sync = k.sync /\ h.sync_list = k.sync_list
  BY ONLY <1>3, <1>4
<1> QED
  BY <1>2, <1>5

(* do_detach_begin: the head f of w becomes h, and g is pushed for the     *)
(* child, with list l and future d.                                        *)
DetachedStack(w, f, l, d) ==
  push(SetTop(shadow[w], WithList(DetachingParent(f), l)),
       NewFrame(Len(acts) + 1, TRUE, ChildNode(f), l, d))

DetachTo(w, kind, f, l, d) ==
  /\ pc[w] = "run" /\ Detach(w, kind) /\ f = TopFrame(shadow[w])
  /\ shadow' = [shadow EXCEPT ![w] = DetachedStack(w, f, l, d)]
  /\ strands' = Append(strands, Strand(TopFrame(DetachedStack(w, f, l, d)), {cur[w]}))
  /\ pc' = pc /\ suspended' = suspended

HeapDetached(f, M) ==
  /\ IsSequence(heap') /\ Len(heap) <= Len(heap')
  /\ First(f) => Len(heap) + 1 <= Len(heap')
  /\ M \subseteq 1 .. Len(heap')
  /\ \A m \in M : m > Len(heap) /\ (First(f) => m # Len(heap) + 1)

LEMMA DetachCopies ==
  ASSUME CopyInv, ShadowInv', NEW w \in Workers, NEW kind \in {"spawn", "future"},
         NEW f, NEW l \in 1 .. Len(heap'), NEW d \in Nat, DetachTo(w, kind, f, l, d),
         NEW M, HeapDetached(f, M), l \in Reads(LiveFrames(acts, Homes), StrandLists) \cup M
  PROVE  CopyInv'
PROOF
<1> PICK h : h = WithList(DetachingParent(f), l)
  OBVIOUS
<1> PICK g : g = NewFrame(Len(acts) + 1, TRUE, ChildNode(f), l, d)
  OBVIOUS
<1> PICK s : s = push(SetTop(shadow[w], h), g)
  OBVIOUS
<1>d. /\ pc[w] = "run" /\ Detach(w, kind) /\ f = TopFrame(shadow[w])
      /\ shadow' = [shadow EXCEPT ![w] = s]
      /\ strands' = Append(strands, Strand(TopFrame(s), {cur[w]}))
      /\ pc' = pc /\ suspended' = suspended
  BY DEF DetachTo, DetachedStack
<1>h. /\ IsSequence(heap') /\ Len(heap) <= Len(heap')
      /\ First(f) => Len(heap) + 1 <= Len(heap')
      /\ M \subseteq 1 .. Len(heap')
      /\ \A m \in M : m > Len(heap) /\ (First(f) => m # Len(heap) + 1)
  BY DEF HeapDetached
<1> USE <1>d, <1>h
<1> PICK x : x = <<w, 0>>
  OBVIOUS
<1> PICK new : new = Len(heap) + 1
  OBVIOUS
<1> PICK t : t = SetTop(shadow[w], h)
  OBVIOUS
<1> PICK b : b = Len(acts) + 1
  OBVIOUS
<1> PICK a : a = Act(w)
  OBVIOUS
<1> PICK deque : deque = Append(own[w], b)
  OBVIOUS
<1> PICK n : n = Len(shadow[w].frames)
  OBVIOUS
<1>0. ShadowInv /\ pc[w] \in {"run", "sync"}
  BY DEF CopyInv
<1>2. acts \in Seq(Activations) /\ IsSequence(heap) /\ Len(heap) \in Nat /\ Len(acts) \in Nat
  BY <1>0, Finds
<1>3. /\ Holding(Homes[x]) /\ f \in LiveFrames(acts, Homes) /\ HeadFields("run", f)
      /\ Act(w) = f.act /\ Len(own[w]) > 0
      /\ n \in 1 .. n /\ n \in Nat /\ n > 0 /\ f = shadow[w].frames[n]
      /\ shadow[w].tail \in 1 .. n /\ shadow[w] \in Stacks /\ f \in Frames
      /\ f.sync_list \in 0 .. Len(heap)
  <2>1. pc[w] \in {"run", "sync"} /\ pc[w] = "run" /\ f = TopFrame(shadow[w])
    BY <1>0
  <2>2. /\ Holding(Homes[x]) /\ f \in LiveFrames(acts, Homes) /\ HeadFields(pc[w], f)
        /\ Len(own[w]) > 0 /\ Act(w) = f.act
        /\ Len(shadow[w].frames) \in 1 .. Len(shadow[w].frames) /\ Len(shadow[w].frames) \in Nat
        /\ f = shadow[w].frames[Len(shadow[w].frames)]
        /\ shadow[w].tail \in 1 .. Len(shadow[w].frames) /\ shadow[w] \in Stacks /\ f \in Frames
        /\ f.sync_list \in 0 .. Len(heap)
    BY ONLY <2>1, HeadCopies, CopyInv, w \in Workers, x = <<w, 0>>
  <2>3. \A m \in Nat : m \in 1 .. m => m > 0
    OBVIOUS
  <2> QED
    BY ONLY <2>1, <2>2, <2>3, n = Len(shadow[w].frames)
<1>4. /\ FrameOK(acts, NodeCount, Len(heap), f) /\ f.node # 0 /\ a \in 1 .. Len(acts)
  BY <1>0, Runs DEF Ready
<1>5. Adds(acts, acts', a, b) /\ acts'[b].kind = kind
  BY <1>0, DetachAdds
<1>6. /\ OrderInv' /\ NodeCount' = ContNode(f) /\ NodeCount <= NodeCount' /\ NodeCount' \in Nat
      /\ ChildNode(f) \in 0 .. NodeCount'
  BY <1>0, DetachGrows
<1>7. Grows /\ AllFresh(M, new)
  <2>1. Extends(acts, acts')
    BY <1>5 DEF Adds
  <2>2. new \in Nat /\ new > Len(heap)
    BY <1>2
  <2> QED
    BY <1>6, <2>1, <2>2 DEF Grows, AllFresh
<1> PICK k : k = DetachingParent(f)
  OBVIOUS
<1> PICK B : B = acts'
  OBVIOUS
<1> PICK N \in Nat : N = NodeCount'
  BY <1>6
<1>8. Len(heap') \in Nat
  BY LenProperties DEF IsSequence
<1> PICK I \in Nat : I = Len(heap')
  BY <1>8
<1>9. /\ FrameOK(B, N, I, k) /\ k.sync # 0
  <2>1. /\ ShadowInv /\ FrameOK(acts, NodeCount, Len(heap), f) /\ f.node # 0
        /\ Extends(acts, B) /\ Len(heap) <= I /\ (First(f) => Len(heap) + 1 <= I)
        /\ k = DetachingParent(f) /\ N = ContNode(f)
    BY <1>0, <1>4, <1>5, <1>6 DEF Adds
  <2>2. N \in Nat /\ I \in Nat
    OBVIOUS
  <2> QED
    BY ONLY <2>1, <2>2, DetachingParentOK
<1>10. FrameOK(B, N, I, h) /\ h.sync # 0 /\ h \in Frames /\ h.act = f.act
  <2>1. l \in 1 .. I /\ h = WithList(k, l) /\ N \in Nat /\ I \in Nat
    OBVIOUS
  <2>2. FrameOK(B, N, I, h) /\ h.sync # 0
    BY ONLY <1>9, <2>1, WithListOK
  <2>3. B \in Seq(Activations)
    BY <1>5 DEF Adds, Extends
  <2>4. h \in Frames
    BY <2>2, <2>3, FrameIsFrame
  <2>5. h.act = f.act
    BY <1>3, DetachingFields, SMTT(40)
  <2> QED
    BY <2>2, <2>4, <2>5
<1>11. /\ h.list = l /\ h.steal_list = 0 /\ h.steal_cont = 0
       /\ f.sync = 0 => h.sync_list = new
       /\ f.sync # 0 => h.sync_list = f.sync_list
  <2>1. f \in Frames
    BY <1>3
  <2>2. /\ h.list = l /\ h.steal_list = 0 /\ h.steal_cont = 0
        /\ f.sync = 0 => h.sync_list = Len(heap) + 1
        /\ f.sync # 0 => h.sync_list = f.sync_list
    BY ONLY <2>1, h = WithList(DetachingParent(f), l), DetachingFields
  <2> QED
    BY <2>2
<1>12. h.sync_list # 0 /\ h.sync_list \notin M
  <2>1. CASE f.sync = 0
    <3>1. First(f)
      BY <2>1 DEF First
    <3> QED
      BY <1>2, <1>11, <2>1, <3>1
  <2>2. CASE f.sync # 0
    <3>1. f.sync_list # 0
      BY <1>3, <2>2 DEF HeadFields
    <3>2. f.sync_list \notin M
      <4>1. \A m \in M : m > Len(heap)
        OBVIOUS
      <4> QED
        BY ONLY <1>2, <1>3, <4>1
    <3> QED
      BY <1>11, <2>2, <3>1, <3>2
  <2> QED
    BY <2>1, <2>2
<1>13. HeadFields("run", h)
  BY <1>10, <1>11, <1>12 DEF HeadFields
<1>14. /\ g.act = b /\ g.list = l /\ g.steal_list = 0 /\ g.sync_list = 0 /\ g.sync = 0
       /\ g.steal_cont = 0 /\ g \in Frames
  <2>1. /\ g.act = b /\ g.list = l /\ g.steal_list = 0 /\ g.sync_list = 0 /\ g.sync = 0
        /\ g.steal_cont = 0
    BY DEF NewFrame
  <2> PICK y : y = ChildNode(f)
    OBVIOUS
  <2>2. y \in Nat /\ l \in Nat /\ d \in Nat /\ b \in Nat
    BY <1>2, <1>6, <1>8
  <2>3. 0 \in Nat /\ TRUE \in BOOLEAN
    OBVIOUS
  <2>4. g = NewFrame(b, TRUE, y, l, d)
    OBVIOUS
  <2>5. g \in Frames
    BY ONLY <2>2, <2>3, <2>4, Zenon DEF Frames, NewFrame
  <2> QED
    BY <2>1, <2>5
<1>15. HeadFields("run", g)
  BY <1>14 DEF HeadFields
<1>16. /\ AllKeep(LiveBut(acts, Homes, x), M, new, a)
       /\ Spawning(acts', b) = {} /\ ~acts'[b].done
       /\ \A c \in 1 .. Len(acts) : acts'[c].done => acts[c].done
  <2>1. \A m \in M : m > Len(heap)
    OBVIOUS
  <2>2. pc[w] = "run" /\ Adds(acts, acts', Act(w), b)
    BY <1>5
  <2> QED
    BY ONLY <2>1, <2>2, AddsKeep, CopyInv, w \in Workers, x = <<w, 0>>
<1>17. AllKeep({h, g}, M, new, a)
  <2>1. Keeps(acts', LiveFrames(acts, Homes), StrandLists, M, new, a, g)
    BY <1>14, <1>16, ChildKeeps
  <2>2. Keeps(acts', LiveFrames(acts, Homes), StrandLists, M, new, a, h)
    <3>1. ListsInv(acts, LiveFrames(acts, Homes), StrandLists)
      BY FindsCopies
    <3>2. ~acts[f.act].done
      BY <1>3, <3>1 DEF ListsInv
    <3>3. ~acts'[h.act].done
      BY <1>3, <1>4, <1>10, <1>16, <3>2
    <3>4. \/ \E e \in LiveFrames(acts, Homes) : e.sync_list = h.sync_list /\ e.act = h.act
          \/ h.sync_list = new /\ h.act = a
      BY <1>3, <1>10, <1>11
    <3> QED
      BY <1>11, <1>12, <3>3, <3>4 DEF Keeps
  <2> QED
    BY <2>1, <2>2 DEF AllKeep
<1>18. Cut(shadow[w], t, n, h) /\ t.tail = shadow[w].tail
  BY <1>3, <1>10, SetTopView
<1>19. Cuts(w, t, n, h)
  BY <1>3, <1>10, <1>18 DEF Cuts
<1>20. Moves(w, s, deque, "run")
  BY <1>0 DEF Moves, Detach, ShadowInv, Shapes
<1>21. Records({h, g})
  <2>1. t \in Stacks
    BY <1>18 DEF Cut
  <2>2. s = push(t, g)
    OBVIOUS
  <2>3. /\ Len(push(t, g).frames) = Len(t.frames) + 1
        /\ push(t, g).frames[Len(t.frames) + 1] = g
    BY <1>14, <2>1, PushView
  <2>4. TopFrame(s) = g
    BY <2>2, <2>3 DEF TopFrame
  <2> QED
    BY <1>14, <2>4 DEF Records
<1> QED
  BY ONLY <1>0, <1>3, <1>5, <1>7, <1>10, <1>13, <1>14, <1>15, <1>16, <1>17, <1>19, <1>20, <1>21,
     PushCopies, CopyInv, ShadowInv', <1>d, w \in Workers, x = <<w, 0>>,
     n = Len(shadow[w].frames), s = push(t, g), t = SetTop(shadow[w], h),
     deque = Append(own[w], b), a = Act(w)

(* do_detach_begin for a spawn *)
LEMMA SpawnCopies ==
  ASSUME CopyInv, NEW w \in Workers, Spawn(w)
  PROVE  CopyInv'
PROOF
<1> PICK f : f = TopFrame(shadow[w])
  OBVIOUS
<1> PICK l : l = f.list
  OBVIOUS
<1> PICK d : d = f.future_id
  OBVIOUS
<1> PICK k : k = DetachingParent(f)
  OBVIOUS
<1> PICK h : h = WithList(DetachingParent(f), l)
  OBVIOUS
<1> PICK g : g = NewFrame(Len(acts) + 1, TRUE, ChildNode(f), l, d)
  OBVIOUS
<1> PICK s : s = push(SetTop(shadow[w], k), g)
  OBVIOUS
<1> PICK kind : kind = "spawn"
  OBVIOUS
<1> PICK M : M = {}
  OBVIOUS
<1>0. ShadowInv /\ ShadowInv'
  BY SpawnStep DEF CopyInv
<1>1. /\ pc[w] = "run" /\ Detach(w, kind) /\ pc' = pc /\ suspended' = suspended
      /\ shadow' = [shadow EXCEPT ![w] = s] /\ heap' = DetachedHeap(f)
      /\ strands' = Append(strands, Strand(TopFrame(s), {cur[w]}))
  BY DEF Spawn, Running, Continue
<1>2. IsSequence(heap) /\ Len(heap) \in Nat
  BY <1>0, Finds
<1>3. /\ f \in Frames /\ f.list \in Reads(LiveFrames(acts, Homes), StrandLists)
      /\ f.list \in 1 .. Len(heap)
  BY <1>1, HeadCopies
<1>4. h = k
  <2>1. DOMAIN k = DOMAIN f /\ DOMAIN f = {"act", "helper", "future_id", "node", "cont", "sync",
         "steal_cont", "steal_sync", "steal_list", "list", "sync_list", "ori_list"}
        /\ k = [y \in DOMAIN k |-> k[y]] /\ k.list = l
    BY ONLY <1>3, k = DetachingParent(f), l = f.list DEF Frames, DetachingParent
  <2>2. h = [k EXCEPT !.list = l]
    BY DEF WithList
  <2> QED
    BY ONLY <2>1, <2>2
<1>5. /\ IsSequence(heap') /\ Len(heap) <= Len(heap') /\ Len(heap') \in Nat
      /\ First(f) => Len(heap) + 1 <= Len(heap')
  BY <1>1, <1>2, DetachedHeapGrows
<1>6. l \in 1 .. Len(heap') /\ d \in Nat
  BY <1>2, <1>3, <1>5 DEF Frames
<1>7. DetachTo(w, kind, f, l, d)
  BY <1>1, <1>4 DEF DetachTo, DetachedStack
<1>8. HeapDetached(f, M) /\ l \in Reads(LiveFrames(acts, Homes), StrandLists) \cup M
  BY <1>3, <1>5 DEF HeapDetached
<1>9. kind \in {"spawn", "future"}
  OBVIOUS
<1> QED
  BY ONLY <1>0, <1>6, <1>7, <1>8, <1>9, DetachCopies, CopyInv, w \in Workers

(* CilkFutureCreate *)
LEMMA FutureCreateCopies ==
  ASSUME CopyInv, NEW w \in Workers, CilkFutureCreate(w)
  PROVE  CopyInv'
PROOF
<1> PICK f : f = TopFrame(shadow[w])
  OBVIOUS
<1> PICK list : list = IF Empty(heap[f.list]) THEN ListOfNode(Node(f.node), f.future_id)
                       ELSE ListWithNode(om, heap[f.list], Node(f.node), f.future_id)
  OBVIOUS
<1> PICK t : t = DetachedHeap(f)
  OBVIOUS
<1> PICK created : created = Append(DetachedHeap(f), list)
  OBVIOUS
<1> PICK l : l = Len(created)
  OBVIOUS
<1> PICK d : d = FutureIds + 1
  OBVIOUS
<1> PICK kind : kind = "future"
  OBVIOUS
<1> PICK M : M = {l}
  OBVIOUS
<1>0. ShadowInv /\ ShadowInv'
  BY FutureCreateStep DEF CopyInv
<1>1. heap' = created /\ DetachTo(w, kind, f, l, d)
  BY DEF CilkFutureCreate, Running, Continue, DetachTo, DetachedStack, WithList
<1>2. IsSequence(heap) /\ Len(heap) \in Nat /\ acts \in Seq(Activations)
  BY <1>0, Finds
<1>3. /\ IsSequence(t) /\ Len(heap) <= Len(t) /\ Len(t) \in Nat
      /\ First(f) => Len(heap) + 1 <= Len(t)
  BY <1>2, DetachedHeapGrows
<1>4. IsSequence(created) /\ l = Len(t) + 1
  BY <1>3, SequenceGrows
<1>5. /\ l \in 1 .. l /\ l > Len(heap) /\ (First(f) => l # Len(heap) + 1) /\ Len(heap) <= l
      /\ (First(f) => Len(heap) + 1 <= l)
  BY ONLY <1>2, <1>3, <1>4
<1>6. HeapDetached(f, M)
  BY <1>1, <1>4, <1>5 DEF HeapDetached
<1>7. l \in 1 .. Len(heap') /\ d \in Nat /\ l \in Reads(LiveFrames(acts, Homes), StrandLists) \cup M
  <2>1. FutureIds \in Nat
    BY <1>2, FutureIdsBound
  <2> QED
    BY <1>1, <1>5, <2>1
<1>8. kind \in {"spawn", "future"}
  OBVIOUS
<1> QED
  BY ONLY <1>0, <1>1, <1>6, <1>7, <1>8, DetachCopies, CopyInv, w \in Workers

(* Two deques x and z take the place of x and y: they are the halves of y. *)
LEMMA DequesSplit ==
  ASSUME NEW A, NEW V, NEW U, OwnInv(A, V), NEW x, NEW y, NEW z, x # z,
         Replaces(V, U, {x, y}, {x, z}), NEW i \in Nat,
         Part(A, U[x].own, V[y].own, 0), Len(U[x].own) <= i, Part(A, U[z].own, V[y].own, i)
  PROVE  OwnInv(A, U)
PROOF
<1> DEFINE src == [e \in {x, z} |-> y]
           off == [e \in {x, z} |-> IF e = x THEN 0 ELSE i]
<1>1. /\ src \in [{x, z} -> {x, y}] /\ off \in [{x, z} -> Nat]
      /\ src[x] = y /\ src[z] = y /\ off[x] = 0 /\ off[z] = i
  OBVIOUS
<1> HIDE DEF src, off
<1>2. \A e \in {x, z} : Part(A, U[e].own, V[src[e]].own, off[e])
  BY <1>1
<1>3. Len(U[x].own) \in Nat
  BY LenProperties DEF Part
<1>4. \A d, e \in {x, z} : d # e /\ src[d] = src[e] =>
         off[d] + Len(U[d].own) <= off[e] \/ off[e] + Len(U[e].own) <= off[d]
  <2>1. 0 + Len(U[x].own) <= i
    BY <1>3
  <2> QED
    BY <1>1, <2>1
<1>5. Marks(A, A)
  BY ExtendsSame DEF Marks, OwnInv
<1> PICK Gone : Gone = {x, y}
  OBVIOUS
<1> PICK Come : Come = {x, z}
  OBVIOUS
<1>6. /\ Replaces(V, U, Gone, Come) /\ src \in [Come -> Gone] /\ off \in [Come -> Nat]
      /\ \A e \in Come : Part(A, U[e].own, V[src[e]].own, off[e])
      /\ \A d, e \in Come : d # e /\ src[d] = src[e] =>
           off[d] + Len(U[d].own) <= off[e] \/ off[e] + Len(U[e].own) <= off[d]
  BY <1>1, <1>2, <1>4
<1> QED
  BY ONLY <1>5, <1>6, OwnInv(A, V), DequesCut

(* Deque x takes the place of x and y: it is y. *)
LEMMA DequeMoves ==
  ASSUME NEW A, NEW V, NEW U, OwnInv(A, V), NEW x, NEW y,
         Replaces(V, U, {x, y}, {x}), Part(A, U[x].own, V[y].own, 0)
  PROVE  OwnInv(A, U)
PROOF
<1> DEFINE src == [e \in {x} |-> y]
           off == [e \in {x} |-> 0]
<1>1. src \in [{x} -> {x, y}] /\ off \in [{x} -> Nat] /\ src[x] = y /\ off[x] = 0
  OBVIOUS
<1> HIDE DEF src, off
<1>2. \A e \in {x} : Part(A, U[e].own, V[src[e]].own, off[e])
  BY <1>1
<1>3. \A d, e \in {x} : d # e /\ src[d] = src[e] =>
         off[d] + Len(U[d].own) <= off[e] \/ off[e] + Len(U[e].own) <= off[d]
  OBVIOUS
<1>4. Marks(A, A)
  BY ExtendsSame DEF Marks, OwnInv
<1> PICK Gone : Gone = {x, y}
  OBVIOUS
<1> PICK Come : Come = {x}
  OBVIOUS
<1>5. /\ Replaces(V, U, Gone, Come) /\ src \in [Come -> Gone] /\ off \in [Come -> Nat]
      /\ \A e \in Come : Part(A, U[e].own, V[src[e]].own, off[e])
      /\ \A d, e \in Come : d # e /\ src[d] = src[e] =>
           off[d] + Len(U[d].own) <= off[e] \/ off[e] + Len(U[e].own) <= off[d]
  BY <1>1, <1>2, <1>3
<1> QED
  BY ONLY <1>4, <1>5, OwnInv(A, V), DequesCut

(* The home of a deque that waits. *)
LEMMA DequeHome ==
  ASSUME NEW d \in suspended
  PROVE  <<d, 1>> \in DOMAIN Homes /\ Homes[<<d, 1>>] = Home(d.stack, d.own, "run")
PROOF
<1>1. <<d, 1>> \in Holders /\ <<d, 1>>[1] = d /\ <<d, 1>>[2] = 1
  BY DEF Holders
<1> QED
  BY <1>1 DEF Homes, HomeOf

(* A step of the workers in W in which the deques in E come and those in D *)
(* go.                                                                     *)
LEMMA HomesMove ==
  ASSUME NEW W, W \subseteq Workers, NEW D, D \subseteq suspended, NEW E, E \subseteq suspended',
         \A d \in suspended' : d \in E \/ d \in suspended \ D,
         \A u \in Workers : u \notin W =>
           shadow'[u] = shadow[u] /\ own'[u] = own[u] /\ pc'[u] = pc[u]
  PROVE  /\ Replaces(Homes, Homes', {<<u, 0>> : u \in W} \cup {<<d, 1>> : d \in D},
                     {<<u, 0>> : u \in W} \cup {<<d, 1>> : d \in E})
         /\ \A u \in W : Homes'[<<u, 0>>] = Home(shadow'[u], own'[u], pc'[u])
         /\ \A d \in E : Homes'[<<d, 1>>] = Home(d.stack, d.own, "run")
PROOF
<1>1. DOMAIN Homes = Holders /\ DOMAIN Homes' = Holders'
      /\ Holders = {<<u, 0>> : u \in Workers} \cup {<<d, 1>> : d \in suspended}
      /\ Holders' = {<<u, 0>> : u \in Workers} \cup {<<d, 1>> : d \in suspended'}
  BY DEF Homes, Holders
<1>2. /\ \A u \in Workers : /\ Homes[<<u, 0>>] = Home(shadow[u], own[u], pc[u])
                            /\ Homes'[<<u, 0>>] = Home(shadow'[u], own'[u], pc'[u])
      /\ \A d \in suspended : Homes[<<d, 1>>] = Home(d.stack, d.own, "run")
      /\ \A d \in suspended' : Homes'[<<d, 1>>] = Home(d.stack, d.own, "run")
  <2>1. \A z \in Holders : Homes[z] = HomeOf(z)
    BY DEF Homes
  <2>2. \A z \in Holders' : Homes'[z] = HomeOf(z)'
    BY DEF Homes
  <2>3. \A u : <<u, 0>>[1] = u /\ <<u, 0>>[2] = 0 /\ <<u, 1>>[1] = u /\ <<u, 1>>[2] = 1
    OBVIOUS
  <2>4. \A u \in Workers : /\ HomeOf(<<u, 0>>) = Home(shadow[u], own[u], pc[u])
                           /\ HomeOf(<<u, 0>>)' = Home(shadow'[u], own'[u], pc'[u])
    BY <2>3 DEF HomeOf
  <2>5. \A d : /\ HomeOf(<<d, 1>>) = Home(d.stack, d.own, "run")
               /\ HomeOf(<<d, 1>>)' = Home(d.stack, d.own, "run")
    BY <2>3 DEF HomeOf
  <2> QED
    BY <1>1, <2>1, <2>2, <2>4, <2>5
<1> PICK Gone : Gone = {<<u, 0>> : u \in W} \cup {<<d, 1>> : d \in D}
  OBVIOUS
<1> PICK Come : Come = {<<u, 0>> : u \in W} \cup {<<d, 1>> : d \in E}
  OBVIOUS
<1>3. Gone \subseteq Holders /\ Come \subseteq Holders'
  BY <1>1
<1>4. ASSUME NEW z \in Holders', z \notin Come
      PROVE  z \in Holders /\ z \notin Gone /\ Homes'[z] = Homes[z]
  <2>0. \A u, d : <<u, 0>> # <<d, 1>>
    OBVIOUS
  <2>1. ASSUME NEW u \in Workers, z = <<u, 0>> PROVE z \in Holders /\ z \notin Gone /\ Homes'[z] = Homes[z]
    <3>1. u \notin W
      BY <1>4, <2>1
    <3> QED
      BY <1>1, <1>2, <2>0, <2>1, <3>1
  <2>2. ASSUME NEW d \in suspended', z = <<d, 1>> PROVE z \in Holders /\ z \notin Gone /\ Homes'[z] = Homes[z]
    <3>1. d \notin E
      BY <1>4, <2>2
    <3>2. d \in suspended /\ d \notin D
      BY <3>1
    <3> QED
      BY <1>1, <1>2, <2>0, <2>2, <3>2
  <2> QED
    BY <1>1, <2>1, <2>2
<1>5. Replaces(Homes, Homes', Gone, Come)
  BY <1>1, <1>3, <1>4 DEF Replaces
<1> QED
  BY <1>2, <1>5

(* A step in which no function is added and none returns. *)
LEMMA CarryCopies ==
  ASSUME CopyInv, ShadowInv', acts' = acts, om' = om, IsSequence(heap'), Len(heap) <= Len(heap'),
         NEW Gone, NEW Come, Replaces(Homes, Homes', Gone, Come),
         OwnInv(acts, Homes'), \A z \in Come : HomeInv(acts, Homes'[z]),
         NEW G, LiveFrames(acts, Homes') \subseteq LiveFrames(acts, Homes) \cup G,
         NEW M, M \subseteq 1 .. Len(heap'), \A m \in M : m > Len(heap),
         AllKeep(G, M, Len(heap) + 1, 0), Records(G)
  PROVE  CopyInv'
PROOF
<1> PICK new : new = Len(heap) + 1
  OBVIOUS
<1> PICK T : T = LiveFrames(acts, Homes) \cup G
  OBVIOUS
<1> PICK D : D = {}
  OBVIOUS
<1>1. /\ ShadowInv /\ Copies(acts, NodeCount, Len(heap), Homes, StrandLists)
      /\ ListsInv(acts, LiveFrames(acts, Homes), StrandLists)
  BY DEF CopyInv, Copies
<1>2. Len(heap) \in Nat /\ acts \in Seq(Activations)
  BY <1>1 DEF ShadowInv, Shapes, IsSequence
<1>3. Grows
  BY <1>1, <1>2, NothingGrows, ExtendsSame
<1>4. AllFresh(M, new)
  BY <1>2 DEF AllFresh
<1>5. Returns(acts, acts', Homes, Gone, D)
  BY DEF Returns
<1>6. ASSUME NEW f \in LiveFrames(acts, Homes)
      PROVE  Keeps(acts', LiveFrames(acts, Homes), StrandLists, M, new, 0, f)
  <2>1. f.sync_list \in 0 .. Len(heap)
    BY <1>1, LiveBounds
  <2>2. f.sync_list \notin M
    BY <1>2, <2>1
  <2> QED
    BY <1>1, <2>2, OldKeeps
<1>7. AllKeep(T, M, new, 0)
  BY <1>6 DEF AllKeep
<1>8. Records(T)
  BY DEF Records
<1>9. /\ OwnInv(acts', Homes') /\ \A z \in Come : HomeInv(acts', Homes'[z])
      /\ LiveFrames(acts', Homes') \subseteq T
  OBVIOUS
<1> QED
  BY ONLY <1>3, <1>4, <1>5, <1>7, <1>8, <1>9, CopyConcludes, CopyInv, ShadowInv',
     Replaces(Homes, Homes', Gone, Come)

(* CilkFutureGet of a future that is not done *)
LEMMA FutureGetSuspendCopies ==
  ASSUME CopyInv, NEW w \in Workers, NEW a \in DOMAIN acts, CilkFutureGetSuspend(w, a)
  PROVE  CopyInv'
PROOF
<1> PICK x : x = <<w, 0>>
  OBVIOUS
<1> PICK d : d = [stack |-> shadow[w], own |-> own[w], future |-> a, cur |-> cur[w]]
  OBVIOUS
<1> PICK z : z = <<d, 1>>
  OBVIOUS
<1> PICK G : G = {}
  OBVIOUS
<1> PICK M : M = {}
  OBVIOUS
<1>0. ShadowInv /\ ShadowInv'
  BY FutureGetSuspendStep DEF CopyInv
<1>1. /\ pc[w] = "run" /\ acts' = acts /\ om' = om /\ heap' = heap /\ strands' = strands
      /\ suspended' = suspended \cup {d} /\ GoIdle(w)
  BY DEF CilkFutureGetSuspend, Running
<1>2. IsSequence(heap) /\ Len(heap) \in Nat /\ acts \in Seq(Activations) /\ own[w] \in Seq(Nat)
  BY <1>0, Finds
<1>3. /\ x \in DOMAIN Homes /\ Homes[x] = Home(shadow[w], own[w], pc[w]) /\ Homes[x].own = own[w]
      /\ Shapes /\ OwnInv(acts, Homes) /\ HomeInv(acts, Homes[x])
      /\ Copies(acts, NodeCount, Len(heap), Homes, StrandLists)
  BY FindsCopies
<1>4. /\ shadow'[w] = EmptyStack /\ own'[w] = <<>> /\ pc'[w] = "idle"
      /\ \A u \in Workers : u \notin {w} =>
           shadow'[u] = shadow[u] /\ own'[u] = own[u] /\ pc'[u] = pc[u]
  BY <1>1, <1>3 DEF GoIdle, Shapes
<1>5. /\ Replaces(Homes, Homes', {x, x}, {x, z})
      /\ Homes'[x] = Home(EmptyStack, <<>>, "idle") /\ Homes'[z] = Homes[x]
  <2> PICK W : W = {w}
    OBVIOUS
  <2> PICK D : D = {}
    OBVIOUS
  <2> PICK E : E = {d}
    OBVIOUS
  <2>1. /\ W \subseteq Workers /\ D \subseteq suspended /\ E \subseteq suspended'
        /\ \A e \in suspended' : e \in E \/ e \in suspended \ D
        /\ \A u \in Workers : u \notin W =>
             shadow'[u] = shadow[u] /\ own'[u] = own[u] /\ pc'[u] = pc[u]
    BY <1>1, <1>4
  <2>2. /\ Replaces(Homes, Homes', {<<u, 0>> : u \in W} \cup {<<e, 1>> : e \in D},
                    {<<u, 0>> : u \in W} \cup {<<e, 1>> : e \in E})
        /\ \A u \in W : Homes'[<<u, 0>>] = Home(shadow'[u], own'[u], pc'[u])
        /\ \A e \in E : Homes'[<<e, 1>>] = Home(e.stack, e.own, "run")
    BY ONLY <2>1, HomesMove
  <2>3. /\ {<<u, 0>> : u \in W} \cup {<<e, 1>> : e \in D} = {x, x}
        /\ {<<u, 0>> : u \in W} \cup {<<e, 1>> : e \in E} = {x, z}
    OBVIOUS
  <2>4. Homes'[x] = Home(EmptyStack, <<>>, "idle")
    BY <1>4, <2>2
  <2>5. Homes'[z] = Home(d.stack, d.own, "run") /\ d.stack = shadow[w] /\ d.own = own[w]
    BY <2>2
  <2> QED
    BY <1>1, <1>3, <2>2, <2>3, <2>4, <2>5
<1>6. OwnInv(acts, Homes')
  <2> PICK A : A = acts
    OBVIOUS
  <2> PICK V : V = Homes
    OBVIOUS
  <2> PICK U : U = Homes'
    OBVIOUS
  <2>1. x # z
    OBVIOUS
  <2>2. U[x].own = <<>> /\ U[z].own = V[x].own /\ V[x].own \in Seq(Nat)
    BY <1>2, <1>3, <1>5 DEF Home
  <2>3. Part(A, U[x].own, V[x].own, 0) /\ Part(A, U[z].own, V[x].own, 0) /\ Len(U[x].own) <= 0
    BY <2>2, Parts
  <2>4. OwnInv(A, V) /\ Replaces(V, U, {x, x}, {x, z}) /\ 0 \in Nat
    BY <1>3, <1>5
  <2>5. OwnInv(A, U)
    BY ONLY <2>1, <2>3, <2>4, DequesSplit
  <2> QED
    BY <2>5
<1> PICK Gone : Gone = {x, x}
  OBVIOUS
<1> PICK Come : Come = {x, z}
  OBVIOUS
<1>7. ~Holding(Homes'[x]) /\ Homes'[x].at = "idle"
  BY <1>5 DEF Home, Holding
<1>8. \A y \in Come : HomeInv(acts, Homes'[y])
  BY <1>3, <1>5, <1>7 DEF HomeInv
<1>9. LiveFrames(acts, Homes') \subseteq LiveFrames(acts, Homes) \cup G
  <2> PICK T : T = LiveFrames(acts, Homes)
    OBVIOUS
  <2>1. \A y \in DOMAIN Homes : LiveAt(acts, Homes[y]) \subseteq T
    BY DEF LiveFrames
  <2>2. \A y \in Come : LiveAt(acts, Homes'[y]) \subseteq T
    BY <1>3, <1>5, <1>7, <2>1 DEF LiveAt
  <2>3. Replaces(Homes, Homes', Gone, Come) /\ Extends(acts, acts)
    BY <1>2, <1>5, ExtendsSame
  <2>4. LiveFrames(acts, Homes') \subseteq T
    <3> PICK A : A = acts
      OBVIOUS
    <3> PICK V : V = Homes
      OBVIOUS
    <3> PICK U : U = Homes'
      OBVIOUS
    <3>1. /\ Copies(A, NodeCount, Len(heap), V, StrandLists) /\ Extends(A, A)
          /\ Replaces(V, U, Gone, Come) /\ \A y \in Come : LiveAt(A, U[y]) \subseteq T
          /\ \A y \in DOMAIN V : y \notin Gone => LiveAt(A, V[y]) \subseteq T
      BY <1>3, <2>1, <2>2, <2>3
    <3>2. LiveFrames(A, U) \subseteq T
      BY ONLY <3>1, LiveStep
    <3> QED
      BY <3>2
  <2> QED
    BY <2>4
<1>10. /\ IsSequence(heap') /\ Len(heap) <= Len(heap') /\ M \subseteq 1 .. Len(heap')
       /\ \A m \in M : m > Len(heap)
       /\ AllKeep(G, M, Len(heap) + 1, 0) /\ Records(G) /\ Replaces(Homes, Homes', Gone, Come)
  BY <1>1, <1>2, <1>5 DEF AllKeep, Records
<1> QED
  BY ONLY <1>0, <1>1, <1>6, <1>8, <1>9, <1>10, CarryCopies, CopyInv

(* The head of a home that runs, or of one below which a frame is taken. *)
LEMMA PlaceFields ==
  ASSUME NEW s, NEW o, FieldsOK(o, s), NEW n \in 1 .. Len(s.frames),
         n # Len(s.frames) \/ o \notin {"sync", "returning"}, NEW f, f = s.frames[n]
  PROVE  HeadFields("run", f)
  BY DEF FieldsOK, HeadFields

(* kResume *)
LEMMA ResumeCopies ==
  ASSUME CopyInv, NEW w \in Workers, NEW d \in suspended, Resume(w, d)
  PROVE  CopyInv'
PROOF
<1> PICK x : x = <<w, 0>>
  OBVIOUS
<1> PICK y : y = <<d, 1>>
  OBVIOUS
<1> PICK s : s = d.stack
  OBVIOUS
<1> PICK f : f = TopFrame(s)
  OBVIOUS
<1> PICK l : l = Len(heap) + 1
  OBVIOUS
<1> PICK g : g = WithList(f, l)
  OBVIOUS
<1> PICK p : p = SetTop(s, g)
  OBVIOUS
<1> PICK n : n = Len(s.frames)
  OBVIOUS
<1> PICK G : G = {g}
  OBVIOUS
<1> PICK M : M = {l}
  OBVIOUS
<1>0. ShadowInv /\ ShadowInv'
  BY ResumeStep DEF CopyInv
<1>1. /\ acts' = acts /\ om' = om /\ suspended' = suspended \ {d}
      /\ shadow' = [shadow EXCEPT ![w] = p] /\ own' = [own EXCEPT ![w] = d.own]
      /\ pc' = [pc EXCEPT ![w] = "run"]
      /\ strands' = Append(strands, Strand(TopFrame(p), {d.cur, acts[d.future].last}))
      /\ heap' = Append(heap, ListOfLists(om, heap[TopFrame(s).list], heap[acts[d.future].fom]))
  BY DEF Resume, Continue, WithList
<1>2. IsSequence(heap) /\ Len(heap) \in Nat /\ acts \in Seq(Activations)
  BY <1>0, Finds
<1>h. IsSequence(heap') /\ Len(heap') = l
  BY <1>1, <1>2, SequenceGrows
<1>3. /\ y \in DOMAIN Homes /\ Homes[y] = Home(s, d.own, "run")
      /\ Homes[y].stack = s /\ Homes[y].own = d.own /\ Homes[y].at = "run" /\ Holding(Homes[y])
  BY DequeHome DEF Home, Holding
<1>4. /\ Copies(acts, NodeCount, Len(heap), Homes, StrandLists) /\ Shapes /\ OwnInv(acts, Homes)
      /\ ListsInv(acts, LiveFrames(acts, Homes), StrandLists)
  BY <1>0 DEF CopyInv, Copies, ShadowInv
<1>5. /\ s \in Stacks /\ n \in Nat /\ n > 0 /\ n \in 1 .. n /\ s.tail \in 1 .. n /\ FieldsOK("run", s)
      /\ d.own \in Seq(Nat)
  <2>1. s \in Stacks /\ n \in Nat /\ s.tail \in 1 .. n /\ FieldsOK("run", s) /\ d.own \in Seq(Nat)
    <3> PICK A : A = acts
      OBVIOUS
    <3> PICK V : V = Homes
      OBVIOUS
    <3>1. /\ Copies(A, NodeCount, Len(heap), V, StrandLists) /\ y \in DOMAIN V
          /\ V[y].stack = s /\ V[y].own = d.own /\ V[y].at = "run"
      BY <1>3, <1>4
    <3>2. /\ s \in Stacks /\ Len(s.frames) \in Nat /\ s.tail \in 1 .. Len(s.frames)
          /\ FieldsOK("run", s) /\ d.own \in Seq(Nat)
      BY ONLY <3>1, HomeView
    <3> QED
      BY <3>2
  <2>2. \A m \in Nat : \A t \in 1 .. m : m > 0 /\ m \in 1 .. m
    OBVIOUS
  <2> QED
    BY ONLY <2>1, <2>2
<1>6. f \in LiveFrames(acts, Homes) /\ f = s.frames[n]
  BY <1>3, <1>4, HeadLive DEF TopFrame
<1>7. f \in Frames /\ f.steal_list \in Reads(LiveFrames(acts, Homes), StrandLists)
  BY <1>4, <1>6, LiveBounds DEF Reads
<1>8. /\ g.act = f.act /\ g.sync_list = f.sync_list /\ g.list = l /\ g.steal_list = f.steal_list
      /\ g.sync = f.sync /\ g.steal_cont = f.steal_cont /\ g.steal_sync = f.steal_sync
  BY <1>7 DEF Frames, WithList
<1>9. g \in Frames
  <2>1. l \in Nat
    BY <1>2
  <2> QED
    BY ONLY <1>7, <2>1, g = WithList(f, l), Zenon DEF Frames, WithList
<1>10. HeadFields("run", f) /\ HeadFields("run", g)
  <2> PICK o : o = "run"
    OBVIOUS
  <2>1. FieldsOK(o, s) /\ n \in 1 .. Len(s.frames) /\ o \notin {"sync", "returning"} /\ f = s.frames[n]
    BY <1>5, <1>6
  <2>2. HeadFields("run", f)
    BY ONLY <2>1, PlaceFields
  <2> QED
    BY <1>8, <2>2 DEF HeadFields
<1>11. Cut(s, p, n, g) /\ p.tail = s.tail
  BY <1>5, <1>9, SetTopView
<1>12. FieldsOK("run", p)
  BY <1>5, <1>10, <1>11, FieldsCut
<1>13. /\ shadow'[w] = p /\ own'[w] = d.own /\ pc'[w] = "run"
       /\ \A u \in Workers : u \notin {w} =>
           shadow'[u] = shadow[u] /\ own'[u] = own[u] /\ pc'[u] = pc[u]
  BY <1>1, <1>4 DEF Shapes
<1>14. Replaces(Homes, Homes', {x, y}, {x}) /\ Homes'[x] = Home(p, d.own, "run")
  <2> PICK W : W = {w}
    OBVIOUS
  <2> PICK D : D = {d}
    OBVIOUS
  <2> PICK E : E = {}
    OBVIOUS
  <2>1. /\ W \subseteq Workers /\ D \subseteq suspended /\ E \subseteq suspended'
        /\ \A e \in suspended' : e \in E \/ e \in suspended \ D
        /\ \A u \in Workers : u \notin W =>
             shadow'[u] = shadow[u] /\ own'[u] = own[u] /\ pc'[u] = pc[u]
    BY <1>1, <1>13
  <2>2. /\ Replaces(Homes, Homes', {<<u, 0>> : u \in W} \cup {<<e, 1>> : e \in D},
                    {<<u, 0>> : u \in W} \cup {<<e, 1>> : e \in E})
        /\ \A u \in W : Homes'[<<u, 0>>] = Home(shadow'[u], own'[u], pc'[u])
    BY ONLY <2>1, HomesMove
  <2>3. /\ {<<u, 0>> : u \in W} \cup {<<e, 1>> : e \in D} = {x, y}
        /\ {<<u, 0>> : u \in W} \cup {<<e, 1>> : e \in E} = {x}
    OBVIOUS
  <2> QED
    BY <1>13, <2>2, <2>3
<1> PICK h : h = Home(p, d.own, "run")
  OBVIOUS
<1>15. h.stack = p /\ h.own = d.own /\ h.at = "run" /\ Homes'[x] = h
  BY <1>14 DEF Home
<1>16. OwnInv(acts, Homes')
  <2> PICK A : A = acts
    OBVIOUS
  <2> PICK V : V = Homes
    OBVIOUS
  <2> PICK U : U = Homes'
    OBVIOUS
  <2>1. Part(A, U[x].own, V[y].own, 0)
    BY <1>3, <1>5, <1>15, Parts
  <2>2. OwnInv(A, V) /\ Replaces(V, U, {x, y}, {x})
    BY <1>4, <1>14
  <2>3. OwnInv(A, U)
    BY ONLY <2>1, <2>2, DequeMoves
  <2> QED
    BY <2>3
<1> PICK Gone : Gone = {x, y}
  OBVIOUS
<1> PICK Come : Come = {x}
  OBVIOUS
<1>17. \A z \in Come : HomeInv(acts, Homes'[z])
  BY <1>12, <1>15 DEF HomeInv
<1>18. LiveFrames(acts, Homes') \subseteq LiveFrames(acts, Homes) \cup G
  <2> PICK T : T = LiveFrames(acts, Homes) \cup G
    OBVIOUS
  <2>1. \A z \in DOMAIN Homes : LiveAt(acts, Homes[z]) \subseteq T
    BY DEF LiveFrames
  <2>2. LiveAt(acts, h) \subseteq LiveBelow(acts, Homes[y]) \cup {g}
    <3> PICK A : A = acts
      OBVIOUS
    <3> PICK V : V = Homes
      OBVIOUS
    <3>1. /\ Copies(A, NodeCount, Len(heap), V, StrandLists) /\ Extends(A, A) /\ y \in DOMAIN V
          /\ Holding(V[y]) /\ n \in 1 .. Len(V[y].stack.frames) /\ s = V[y].stack /\ p = h.stack
          /\ Cut(s, p, n, g) /\ g.act = s.frames[n].act /\ p.tail \in 1 .. n /\ p.tail = s.tail
      BY <1>2, <1>3, <1>4, <1>5, <1>6, <1>8, <1>11, <1>15, ExtendsSame
    <3>2. LiveAt(A, h) \subseteq LiveBelow(A, V[y]) \cup {g}
      BY ONLY <3>1, LiveCut
    <3> QED
      BY <3>2
  <2>3. LiveBelow(acts, Homes[y]) \subseteq T
    BY <1>3, <2>1 DEF LiveBelow, LiveAt
  <2>4. \A z \in Come : LiveAt(acts, Homes'[z]) \subseteq T
    BY <1>15, <2>2, <2>3
  <2>5. Replaces(Homes, Homes', Gone, Come) /\ Extends(acts, acts)
    BY <1>2, <1>14, ExtendsSame
  <2>6. LiveFrames(acts, Homes') \subseteq T
    BY <1>4, <2>1, <2>4, <2>5, LiveStep
  <2> QED
    BY <2>6
<1>19. AllKeep(G, M, Len(heap) + 1, 0)
  <2> PICK new : new = Len(heap) + 1
    OBVIOUS
  <2>1. f.sync_list \in 0 .. Len(heap)
    BY <1>4, <1>6, LiveBounds
  <2>2. f.sync_list \notin M
    BY <1>2, <2>1
  <2>3. g.list \in Reads(LiveFrames(acts, Homes), StrandLists) \cup M
    BY <1>8
  <2>4. Keeps(acts', LiveFrames(acts, Homes), StrandLists, M, new, 0, g)
    BY <1>1, <1>4, <1>6, <1>7, <1>8, <2>2, <2>3, TurnedKeeps
  <2> QED
    BY <2>4 DEF AllKeep
<1>20. Records(G)
  <2>1. TopFrame(p) = g
    BY <1>11 DEF Cut, TopFrame
  <2>2. g.list \in 1 .. Len(heap')
    BY <1>2, <1>8, <1>h
  <2> QED
    BY <1>1, <2>1, <2>2 DEF Records
<1>21. /\ IsSequence(heap') /\ Len(heap) <= Len(heap') /\ M \subseteq 1 .. Len(heap')
       /\ \A m \in M : m > Len(heap)
       /\ Replaces(Homes, Homes', Gone, Come)
  BY <1>2, <1>14, <1>h
<1> QED
  BY ONLY <1>0, <1>1, <1>16, <1>17, <1>18, <1>19, <1>20, <1>21, CarryCopies, CopyInv

(* The fields of a stolen frame, which init_strand sets. *)
LEMMA StolenFields ==
  ASSUME NEW f \in Frames, f.steal_cont # 0 => f.steal_sync # 0, f.sync # 0, f.sync_list # 0
  PROVE  /\ InitStrand(f).act = f.act /\ InitStrand(f).sync_list = f.sync_list
         /\ InitStrand(f).steal_list = f.steal_list
         /\ InitStrand(f).list = IF f.steal_cont # 0 THEN f.steal_list ELSE f.list
         /\ HeadFields("run", InitStrand(f))
PROOF
<1> PICK g : g = InitStrand(f)
  OBVIOUS
<1>1. CASE f.steal_cont # 0
  <2>1. g = [f EXCEPT !.node = f.steal_cont, !.sync = f.steal_sync, !.list = f.steal_list, !.cont = 0]
    BY <1>1 DEF InitStrand
  <2>2. /\ g.act = f.act /\ g.sync_list = f.sync_list /\ g.steal_list = f.steal_list
        /\ g.list = f.steal_list /\ g.sync = f.steal_sync /\ g.steal_cont = f.steal_cont
        /\ g.steal_sync = f.steal_sync
    BY <2>1 DEF Frames
  <2> QED
    BY <1>1, <2>2 DEF HeadFields
<1>2. CASE f.steal_cont = 0
  <2>1. g = [f EXCEPT !.node = f.cont, !.cont = 0]
    BY <1>2 DEF InitStrand
  <2>2. /\ g.act = f.act /\ g.sync_list = f.sync_list /\ g.steal_list = f.steal_list
        /\ g.list = f.list /\ g.sync = f.sync /\ g.steal_cont = f.steal_cont
        /\ g.steal_sync = f.steal_sync
    BY <2>1 DEF Frames
  <2> QED
    BY <1>2, <2>2 DEF HeadFields
<1> QED
  BY <1>1, <1>2

(* Where a stack is taken apart. *)
StolenAt(s, p, j) ==
  /\ j \in 1 .. Len(s.frames) /\ s.tail \in 1 .. j
  /\ Cut(s, p, j, InitStrand(s.frames[j])) /\ p.tail = s.tail
  /\ TopFrame(StolenFrames(s)) = s.frames[j]
  /\ s.frames[j].sync # 0 /\ s.frames[j].sync_list # 0
  /\ HeadFields("run", InitStrand(s.frames[j]))

LEMMA LootShape ==
  ASSUME acts \in Seq(Activations), NEW N \in Nat, NEW H \in Nat, NEW s,
         NEW deque \in Seq(Nat), NEW n \in Nat, Stealable(N, H, s, deque, n),
         NEW p, IsLoot(p, s), NEW i \in Nat, IsCut(i, deque),
         NEW o, FieldsOK(o, s), n # Len(deque) => o = "finished"
  PROVE  \E j \in Nat : StolenAt(s, p, j)
PROOF
<1>1. /\ StackOK(acts, N, H, s) /\ Covers(s, deque, n)
      /\ n = Len(deque) \/ n = Len(deque) - 1
      /\ n # Len(deque) => Popped(acts, s, deque)
      /\ CanSteal(deque)
  BY DEF Stealable
<1>2. /\ i \in 1 .. n /\ NextHelper(s) = s.tail + i
      /\ i < n => s.frames[s.tail + i].helper
      /\ i = n => n # Len(deque)
  <2>1. i = StealAt(deque)
    BY DEF IsCut
  <2> QED
    BY <1>1, <2>1, NextHelperIs
<1>3. s \in Stacks /\ Len(s.frames) \in Nat /\ s.tail \in Nat /\ s.tail \in 1 .. Len(s.frames)
  BY <1>1, StackFrames DEF StackOK
<1>len. Len(deque) \in Nat
  BY LenProperties
<1> PICK m \in Nat : m = Len(s.frames)
  BY <1>3
<1> PICK t \in Nat : t = s.tail
  BY <1>3
<1> PICK l \in Nat : l = Len(deque)
  BY <1>len
<1>cover. m - t + 1 = n /\ n <= l /\ t \in 1 .. m
  BY <1>1, <1>3 DEF Covers
<1>k. PICK k \in Nat : k = t + i
  OBVIOUS
<1>4. /\ k \in 2 .. m + 1 /\ k - 1 \in 1 .. m /\ t \in 1 .. k - 1
      /\ i < n => k - 1 \in 1 .. m - 1
      /\ i = n => k - 1 = m
  <2>1. /\ m \in Nat /\ t \in Nat /\ n \in Nat /\ i \in Nat /\ k \in Nat /\ l \in Nat
        /\ m - t + 1 = n /\ n <= l /\ t \in 1 .. m /\ i \in 1 .. n /\ k = t + i
    BY <1>2, <1>cover, <1>k
  <2> QED
    BY ONLY <2>1, CutPlaces
<1>next. NextHelper(s) = k /\ (i < n => s.frames[k].helper)
  BY <1>2, <1>k
<1> PICK j \in Nat : j = k - 1
  BY <1>4
<1> PICK f : f = s.frames[j]
  OBVIOUS
<1> PICK g : g = InitStrand(f)
  OBVIOUS
<1>5. FrameOK(acts, N, H, f)
  BY <1>1, <1>4 DEF StackOK
<1>6. f.sync # 0 /\ (f.steal_cont # 0 \/ f.cont # 0)
      /\ (j # Len(s.frames) \/ o \notin {"sync", "returning"})
  <2>1. CASE i < n
    <3>1. j \in 1 .. m - 1 /\ j + 1 = k /\ j # m
      BY <1>4, <2>1
    <3>2. \A e \in 1 .. m - 1 : LiesOn(acts, s.frames[e + 1], s.frames[e])
      BY <1>1 DEF StackOK
    <3>3. LiesOn(acts, s.frames[k], f) /\ s.frames[k].helper
      BY <1>next, <2>1, <3>1, <3>2
    <3> QED
      BY <3>1, <3>3 DEF LiesOn
  <2>2. CASE i = n
    <3>1. Popped(acts, s, deque) /\ j = Len(s.frames) /\ o = "finished"
      BY <1>1, <1>2, <1>4, <2>2
    <3>2. TopFrame(s) = f /\ TopFrame(s).sync # 0
      BY <3>1 DEF FieldsOK, TopFrame
    <3> QED
      BY <3>1, <3>2 DEF Popped
  <2> QED
    BY <1>2, <2>1, <2>2
<1>7. f.sync_list # 0 /\ (f.steal_cont # 0 => f.steal_sync # 0)
  <2>1. j \in 1 .. Len(s.frames)
    BY <1>4
  <2> QED
    BY ONLY <1>6, <2>1, FieldsOK(o, s), f = s.frames[j] DEF FieldsOK
<1>8. g \in Frames /\ f \in Frames
  <2>1. FrameOK(acts, N, H, InitStrand(f))
    <3>1. N \in Nat /\ H \in Nat /\ (f.steal_cont # 0 \/ f.cont # 0)
      BY <1>6
    <3> QED
      BY ONLY <1>5, <3>1, InitStrandReady
  <2> QED
    BY <1>5, <2>1, FrameIsFrame
<1>9. TopFrame(StolenFrames(s)) = f
  BY <1>3, <1>4, <1>8, <1>next, LootView
<1>10. Cut(s, p, j, g) /\ p.tail = s.tail
  <2>1. p = SetTop(StolenFrames(s), g)
    BY <1>9 DEF IsLoot
  <2>2. Cut(s, SetTop(StolenFrames(s), g), k - 1, g) /\ SetTop(StolenFrames(s), g).tail = s.tail
    BY <1>3, <1>4, <1>8, <1>next, LootView
  <2> QED
    BY <2>1, <2>2
<1>11. HeadFields("run", InitStrand(f))
  BY <1>6, <1>7, <1>8, StolenFields
<1>12. j \in 1 .. Len(s.frames) /\ s.tail \in 1 .. j
  BY <1>4
<1>13. StolenAt(s, p, j)
  BY <1>6, <1>7, <1>9, <1>10, <1>11, <1>12 DEF StolenAt
<1> QED
  BY <1>13

(* The victim's stack loses no frame, and its tail moves up. *)
LEMMA LeftShape ==
  ASSUME acts \in Seq(Activations), NEW N \in Nat, NEW H \in Nat, NEW s,
         NEW deque \in Seq(Nat), NEW n \in Nat, Stealable(N, H, s, deque, n),
         NEW q, IsLeft(q, s), NEW i \in Nat, IsCut(i, deque)
  PROVE  /\ q.frames = s.frames /\ TopFrame(q) = TopFrame(s)
         /\ s.tail \in Nat /\ q.tail \in Nat /\ s.tail <= q.tail
PROOF
<1>1. /\ StackOK(acts, N, H, s) /\ Covers(s, deque, n)
      /\ n = Len(deque) \/ n = Len(deque) - 1
      /\ n # Len(deque) => Popped(acts, s, deque)
      /\ CanSteal(deque)
  BY DEF Stealable
<1>2. /\ i \in 1 .. n /\ NextHelper(s) = s.tail + i
      /\ i < n => s.frames[s.tail + i].helper
      /\ i = n => n # Len(deque)
  <2>1. i = StealAt(deque)
    BY DEF IsCut
  <2> QED
    BY <1>1, <2>1, NextHelperIs
<1>3. s \in Stacks /\ Len(s.frames) \in Nat /\ s.tail \in Nat /\ s.tail \in 1 .. Len(s.frames)
  BY <1>1, StackFrames DEF StackOK
<1>4. PICK k \in Nat : k = s.tail + i
  BY <1>3
<1>5. q.frames = s.frames /\ q.tail = IF k > Len(s.frames) THEN Len(s.frames) ELSE k
  <2>1. q = LeftFrames(s)
    BY DEF IsLeft
  <2> QED
    BY <1>2, <1>3, <1>4, <2>1, LeftView
<1>6. TopFrame(q) = TopFrame(s)
  BY <1>5 DEF TopFrame
<1> QED
  BY <1>3, <1>4, <1>5, <1>6

(* The halves of a deque. *)
LEMMA DequeHalves ==
  ASSUME NEW deque \in Seq(Nat), CanSteal(deque), NEW i \in Nat, IsCut(i, deque),
         NEW rest, IsRest(rest, i, deque), NEW taken, taken = SubSeq(deque, 1, i)
  PROVE  Part(acts, taken, deque, 0) /\ Len(taken) <= i /\ Part(acts, rest, deque, i)
PROOF
<1>0. Len(deque) \in Nat
  BY LenProperties
<1> PICK l \in Nat : l = Len(deque)
  BY <1>0
<1>1. i \in 1 .. l - 1 /\ IsDetached(deque[i + 1])
  BY StealAtFirst DEF IsCut
<1>2. \A j \in 1 .. l : deque[j] \in Nat
  BY ElementOfSeq
<1>3. taken \in Seq(Nat) /\ Len(taken) = i /\ \A j \in 1 .. i : taken[j] = deque[j]
  <2>1. \A j \in 1 .. i : j \in 1 .. l
    BY <1>1
  <2>2. \A j \in 1 .. i : deque[j] \in Nat
    BY <1>2, <2>1
  <2>3. /\ taken \in Seq(Nat)
        /\ Len(taken) = (IF 1 <= i THEN i - 1 + 1 ELSE 0)
        /\ \A j \in 1 .. i - 1 + 1 : taken[j] = deque[1 + j - 1]
    BY <2>2, SubSeqProperties
  <2> QED
    BY <1>1, <2>3
<1>4. rest \in Seq(Nat) /\ Len(rest) = l - i /\ \A j \in 1 .. l - i : rest[j] = deque[i + j]
  <2>1. \A j \in i + 1 .. l : deque[j] \in Nat
    <3>1. \A j \in i + 1 .. l : j \in 1 .. l
      BY <1>1
    <3> QED
      BY <1>2, <3>1
  <2>2. /\ rest \in Seq(Nat)
        /\ Len(rest) = IF i + 1 <= l THEN l - (i + 1) + 1 ELSE 0
        /\ \A j \in 1 .. l - (i + 1) + 1 : rest[j] = deque[(i + 1) + j - 1]
    <3>1. rest = SubSeq(deque, i + 1, l) /\ i + 1 \in Int /\ l \in Int
      BY DEF IsRest
    <3> QED
      BY <2>1, <3>1, SubSeqProperties
  <2>3. /\ l - (i + 1) + 1 = l - i /\ i + 1 <= l
        /\ \A j \in 1 .. l - i : (i + 1) + j - 1 = i + j
    BY <1>1
  <2> QED
    BY <2>2, <2>3
<1>5. Part(acts, taken, deque, 0)
  <2>1. acts[deque[0 + Len(taken) + 1]].kind # "call"
    <3>1. 0 + Len(taken) + 1 = i + 1
      BY <1>3
    <3> QED
      BY <1>1, <3>1 DEF IsDetached
  <2>2. 0 + Len(taken) <= Len(deque) /\ \A j \in 1 .. Len(taken) : taken[j] = deque[0 + j]
    BY <1>1, <1>3
  <2> QED
    BY <1>3, <2>1, <2>2 DEF Part
<1>6. Part(acts, rest, deque, i)
  <2>1. i + Len(rest) = Len(deque)
    BY <1>1, <1>4
  <2>2. i + Len(rest) <= Len(deque)
    BY <2>1
  <2> QED
    BY <1>4, <2>1, <2>2 DEF Part
<1> QED
  BY <1>3, <1>5, <1>6

(* A home h is taken apart: p and taken for the thief, q and rest remain. *)
TakenApart(n, i, h, p, q, taken, rest) ==
  /\ Stealable(NodeCount, Len(heap), h.stack, h.own, n)
  /\ \/ h.at \in {"run", "sync"} /\ n = Len(h.own)
     \/ h.at = "finished" /\ n = Len(h.own) - 1
  /\ IsCut(i, h.own) /\ IsLoot(p, h.stack) /\ IsLeft(q, h.stack)
  /\ IsRest(rest, i, h.own) /\ taken = SubSeq(h.own, 1, i)

(* The frames that stay with the victim were its frames before. *)
LEMMA LeftLive ==
  ASSUME NEW A, NEW s, NEW q, q.frames = s.frames, s.tail \in Nat, q.tail \in Nat, s.tail <= q.tail,
         NEW h, Holding(h), s = h.stack, NEW r, NEW o
  PROVE  LiveAt(A, Home(q, r, o)) \subseteq LiveAt(A, h)
PROOF
<1> PICK m : m = Home(q, r, o)
  OBVIOUS
<1>1. m.stack = q
  BY DEF Home
<1> PICK F : F = s.frames
  OBVIOUS
<1>2. LiveIn(A, q) \subseteq LiveIn(A, s)
  <2> SUFFICES ASSUME NEW i \in LiveIn(A, q) PROVE i \in LiveIn(A, s)
    OBVIOUS
  <2>1. i \in 1 .. Len(F) /\ \A j \in i + 1 .. q.tail : A[F[j].act].kind # "future"
    BY DEF LiveIn
  <2>2. \A j \in i + 1 .. s.tail : j \in i + 1 .. q.tail
    OBVIOUS
  <2>3. \A j \in i + 1 .. s.tail : A[F[j].act].kind # "future"
    BY <2>1, <2>2
  <2> QED
    BY <2>1, <2>3 DEF LiveIn
<1>3. LiveAt(A, h) = {F[i] : i \in LiveIn(A, s)}
  BY DEF LiveAt
<1>4. LiveAt(A, m) \subseteq {F[i] : i \in LiveIn(A, q)}
  BY <1>1 DEF LiveAt
<1> QED
  BY <1>2, <1>3, <1>4

(* Home y is taken apart: thief x gets p and taken, and z is what remains. *)
Stolen(x, y, z, n, i, p, q, taken, rest, preds) ==
  /\ y \in DOMAIN Homes /\ n \in Nat /\ i \in Nat /\ x # z
  /\ TakenApart(n, i, Homes[y], p, q, taken, rest)
  /\ Replaces(Homes, Homes', {x, y}, {x, z})
  /\ Homes'[x] = Home(p, taken, "run") /\ Homes'[z] = Home(q, rest, Homes[y].at)
  /\ strands' = Append(strands, Strand(InitStrand(TopFrame(StolenFrames(Homes[y].stack))), preds))

(* What a thief does to the lists, whatever it steals from. *)
LEMMA StealCopies ==
  ASSUME CopyInv, ShadowInv', acts' = acts, om' = om, heap' = heap,
         NEW x, NEW y, NEW z, NEW n, NEW i, NEW p, NEW q, NEW taken, NEW rest, NEW preds,
         Stolen(x, y, z, n, i, p, q, taken, rest, preds)
  PROVE  CopyInv'
PROOF
<1>st. /\ y \in DOMAIN Homes /\ n \in Nat /\ i \in Nat /\ x # z
       /\ TakenApart(n, i, Homes[y], p, q, taken, rest)
       /\ Replaces(Homes, Homes', {x, y}, {x, z})
       /\ Homes'[x] = Home(p, taken, "run") /\ Homes'[z] = Home(q, rest, Homes[y].at)
       /\ strands' = Append(strands,
                            Strand(InitStrand(TopFrame(StolenFrames(Homes[y].stack))), preds))
  BY DEF Stolen
<1> USE <1>st
<1> PICK s : s = Homes[y].stack
  OBVIOUS
<1> PICK deque : deque = Homes[y].own
  OBVIOUS
<1> PICK o : o = Homes[y].at
  OBVIOUS
<1> PICK M : M = {}
  OBVIOUS
<1>0. /\ ShadowInv /\ Copies(acts, NodeCount, Len(heap), Homes, StrandLists)
      /\ OwnInv(acts, Homes) /\ ListsInv(acts, LiveFrames(acts, Homes), StrandLists)
  BY DEF CopyInv, Copies
<1>1. IsSequence(heap) /\ Len(heap) \in Nat /\ acts \in Seq(Activations) /\ NodeCount \in Nat
  <2>1. Shapes /\ OrderInv
    BY <1>0 DEF ShadowInv
  <2>2. IsSequence(heap) /\ Len(heap) \in Nat /\ acts \in Seq(Activations)
    BY <2>1 DEF Shapes, IsSequence
  <2>3. NodeCount \in Nat
    BY <2>1 DEF OrderInv, Placed, On
  <2> QED
    BY <2>2, <2>3
<1>2. /\ Stealable(NodeCount, Len(heap), s, deque, n) /\ CanSteal(deque)
      /\ \/ o \in {"run", "sync"} /\ n = Len(deque)
         \/ o = "finished" /\ n = Len(deque) - 1
      /\ IsCut(i, deque) /\ IsLoot(p, s) /\ IsLeft(q, s)
      /\ IsRest(rest, i, deque) /\ taken = SubSeq(deque, 1, i)
  BY DEF TakenApart, Stealable
<1>3. deque \in Seq(Nat) /\ Len(deque) \in Nat /\ FieldsOK(o, s) /\ s \in Stacks
      /\ Len(s.frames) \in Nat /\ s.tail \in Nat
  BY <1>0, <1>2, HomeView
<1>4. Holding(Homes[y]) /\ o \notin {"idle", "returning"} /\ (n # Len(deque) => o = "finished")
  <2>1. Len(deque) > 1
    <3>1. StealAt(deque) \in 1 .. Len(deque) - 1
      BY <1>2, <1>3, StealAtFirst
    <3> QED
      BY <1>3, <3>1
  <2> QED
    BY <1>2, <2>1 DEF Holding
<1>5. PICK j \in Nat : StolenAt(s, p, j)
  BY <1>1, <1>2, <1>3, <1>4, LootShape
<1> PICK f : f = s.frames[j]
  OBVIOUS
<1> PICK g : g = InitStrand(f)
  OBVIOUS
<1> PICK G : G = {g}
  OBVIOUS
<1>6. /\ j \in 1 .. Len(s.frames) /\ s.tail \in 1 .. j /\ Cut(s, p, j, g) /\ p.tail = s.tail
      /\ TopFrame(StolenFrames(s)) = f /\ f.sync # 0 /\ f.sync_list # 0 /\ HeadFields("run", g)
  BY <1>5 DEF StolenAt
<1>7. f \in LiveFrames(acts, Homes)
  <2>1. CASE j = Len(s.frames)
    <3>1. TopFrame(s) = f
      BY <2>1 DEF TopFrame
    <3> QED
      BY <1>0, <1>4, <3>1, HeadLive
  <2>2. CASE j # Len(s.frames)
    <3>1. j \in 1 .. Len(s.frames) - 1 /\ s.tail <= j
      BY <1>3, <1>6, <2>2
    <3> QED
      BY <1>0, <1>4, <3>1, BelowHead
  <2> QED
    BY <2>1, <2>2
<1>8. f \in Frames /\ f.list \in 1 .. Len(heap) /\ f.steal_list \in 0 .. Len(heap)
      /\ FrameOK(acts, NodeCount, Len(heap), f) /\ f.sync_list \in 0 .. Len(heap)
  BY <1>0, <1>7, LiveBounds
<1>9. /\ g.act = f.act /\ g.sync_list = f.sync_list /\ g.steal_list = f.steal_list
      /\ g.list = IF f.steal_cont # 0 THEN f.steal_list ELSE f.list
  <2>1. f.steal_cont # 0 => f.steal_sync # 0
    BY <1>3, <1>6 DEF FieldsOK
  <2> QED
    BY <1>6, <1>8, <2>1, StolenFields
<1>10. g.list \in 1 .. Len(heap)
  <2>1. f.steal_cont # 0 => f.steal_list # 0
    BY <1>8 DEF FrameOK
  <2> QED
    BY <1>1, <1>8, <1>9, <2>1
<1>11. FieldsOK("run", p)
  BY <1>3, <1>6, FieldsCut
<1>12. /\ q.frames = s.frames /\ TopFrame(q) = TopFrame(s)
       /\ s.tail \in Nat /\ q.tail \in Nat /\ s.tail <= q.tail
  <2>1. n \in Nat /\ i \in Nat
    OBVIOUS
  <2> QED
    BY ONLY <1>1, <1>2, <1>3, <2>1, LeftShape
<1>13. FieldsOK(o, q)
  BY <1>3, <1>12 DEF FieldsOK
<1> PICK h : h = Home(p, taken, "run")
  OBVIOUS
<1> PICK m : m = Home(q, rest, o)
  OBVIOUS
<1>14. /\ h.stack = p /\ h.own = taken /\ h.at = "run" /\ Homes'[x] = h
       /\ m.stack = q /\ m.own = rest /\ m.at = o /\ Homes'[z] = m
  BY DEF Home
<1>15. OwnInv(acts, Homes')
  <2> PICK A : A = acts
    OBVIOUS
  <2> PICK V : V = Homes
    OBVIOUS
  <2> PICK U : U = Homes'
    OBVIOUS
  <2>1. Part(A, taken, deque, 0) /\ Len(taken) <= i /\ Part(A, rest, deque, i)
    BY <1>2, <1>3, DequeHalves
  <2>2. /\ OwnInv(A, V) /\ Replaces(V, U, {x, y}, {x, z}) /\ i \in Nat /\ x # z
        /\ Part(A, U[x].own, V[y].own, 0) /\ Len(U[x].own) <= i /\ Part(A, U[z].own, V[y].own, i)
    BY <1>0, <1>14, <2>1
  <2>3. OwnInv(A, U)
    BY ONLY <2>2, DequesSplit
  <2> QED
    BY <2>3
<1> PICK Gone : Gone = {x, y}
  OBVIOUS
<1> PICK Come : Come = {x, z}
  OBVIOUS
<1>16. \A e \in Come : HomeInv(acts, Homes'[e])
  BY <1>4, <1>11, <1>13, <1>14 DEF HomeInv
<1>17. LiveFrames(acts, Homes') \subseteq LiveFrames(acts, Homes) \cup G
  <2> PICK T : T = LiveFrames(acts, Homes) \cup G
    OBVIOUS
  <2>1. \A e \in DOMAIN Homes : LiveAt(acts, Homes[e]) \subseteq T
    BY DEF LiveFrames
  <2>2. LiveAt(acts, h) \subseteq LiveBelow(acts, Homes[y]) \cup {g}
    <3> PICK A : A = acts
      OBVIOUS
    <3> PICK V : V = Homes
      OBVIOUS
    <3>1. /\ Copies(A, NodeCount, Len(heap), V, StrandLists) /\ Extends(A, A) /\ y \in DOMAIN V
          /\ Holding(V[y]) /\ j \in 1 .. Len(V[y].stack.frames) /\ s = V[y].stack /\ p = h.stack
          /\ Cut(s, p, j, g) /\ g.act = s.frames[j].act /\ p.tail \in 1 .. j /\ p.tail = s.tail
      BY <1>0, <1>1, <1>4, <1>6, <1>9, <1>14, ExtendsSame
    <3>2. LiveAt(A, h) \subseteq LiveBelow(A, V[y]) \cup {g}
      BY ONLY <3>1, LiveCut
    <3> QED
      BY <3>2
  <2>3. LiveBelow(acts, Homes[y]) \subseteq T
    BY <1>4, <2>1 DEF LiveBelow, LiveAt
  <2>4. LiveAt(acts, m) \subseteq T
    BY <1>4, <1>12, <2>1, LeftLive
  <2>5. \A e \in Come : LiveAt(acts, Homes'[e]) \subseteq T
    BY <1>14, <2>2, <2>3, <2>4
  <2>6. Replaces(Homes, Homes', Gone, Come) /\ Extends(acts, acts)
    BY <1>1, ExtendsSame
  <2>7. LiveFrames(acts, Homes') \subseteq T
    <3> PICK A : A = acts
      OBVIOUS
    <3> PICK V : V = Homes
      OBVIOUS
    <3> PICK U : U = Homes'
      OBVIOUS
    <3>1. /\ Copies(A, NodeCount, Len(heap), V, StrandLists) /\ Extends(A, A)
          /\ Replaces(V, U, Gone, Come) /\ \A e \in Come : LiveAt(A, U[e]) \subseteq T
          /\ \A e \in DOMAIN V : e \notin Gone => LiveAt(A, V[e]) \subseteq T
      BY <1>0, <2>1, <2>5, <2>6
    <3>2. LiveFrames(A, U) \subseteq T
      BY ONLY <3>1, LiveStep
    <3> QED
      BY <3>2
  <2> QED
    BY <2>7
<1>18. AllKeep(G, M, Len(heap) + 1, 0)
  <2> PICK new : new = Len(heap) + 1
    OBVIOUS
  <2>1. g.list \in Reads(LiveFrames(acts, Homes), StrandLists) \cup M
    BY <1>7, <1>9 DEF Reads
  <2>2. g.steal_list \in Reads(LiveFrames(acts, Homes), StrandLists) \cup {0}
    BY <1>7, <1>9 DEF Reads
  <2>3. Keeps(acts', LiveFrames(acts, Homes), StrandLists, M, new, 0, g)
    BY <1>0, <1>7, <1>9, <2>1, <2>2, TurnedKeeps
  <2> QED
    BY <2>3 DEF AllKeep
<1>19. Records(G)
  <2>1. strands' = Append(strands, Strand(g, preds)) /\ g.list \in 1 .. Len(heap')
    BY <1>6, <1>10
  <2> QED
    BY <2>1 DEF Records
<1>20. /\ IsSequence(heap') /\ Len(heap) <= Len(heap') /\ M \subseteq 1 .. Len(heap')
       /\ \A e \in M : e > Len(heap)
       /\ Replaces(Homes, Homes', Gone, Come) /\ acts' = acts /\ om' = om
  BY <1>1
<1> QED
  BY ONLY <1>0, <1>15, <1>16, <1>17, <1>18, <1>19, <1>20, CarryCopies, CopyInv, ShadowInv'

(* kNormal *)
LEMMA StealNormalCopies ==
  ASSUME CopyInv, NEW w \in Workers, NEW v \in Workers, Steal(w, v)
  PROVE  CopyInv'
PROOF
<1> PICK x : x = <<w, 0>>
  OBVIOUS
<1> PICK y : y = <<v, 0>>
  OBVIOUS
<1> PICK s : s = shadow[v]
  OBVIOUS
<1> PICK deque : deque = own[v]
  OBVIOUS
<1>0. ShadowInv /\ ShadowInv'
  BY StealStep DEF CopyInv
<1>1. w # v /\ CanSteal(deque)
  BY DEF Steal, TakeFrames
<1>2. /\ y \in DOMAIN Homes /\ Homes[y].stack = s /\ Homes[y].own = deque /\ Homes[y].at = pc[v]
      /\ Shapes /\ deque \in Seq(Nat)
  BY <1>0, FindsCopies, Finds
<1>3. PICK n \in Nat :
        /\ Stealable(NodeCount, Len(heap), s, deque, n)
        /\ \/ pc[v] \in {"run", "sync"} /\ n = Len(deque)
           \/ pc[v] = "finished" /\ n = Len(deque) - 1 /\ Popped(acts, s, deque)
  BY <1>0, <1>1, Victim
<1>4. PICK i \in Nat : i = StealAt(deque)
  <2>1. StealAt(deque) \in 1 .. Len(deque) - 1
    BY <1>1, <1>2, StealAtFirst
  <2> QED
    BY <2>1
<1> PICK p : p = SetTop(StolenFrames(s), InitStrand(TopFrame(StolenFrames(s))))
  OBVIOUS
<1> PICK q : q = LeftFrames(s)
  OBVIOUS
<1> PICK taken : taken = SubSeq(deque, 1, i)
  OBVIOUS
<1> PICK rest : rest = SubSeq(deque, i + 1, Len(deque))
  OBVIOUS
<1>5. TakenApart(n, i, Homes[y], p, q, taken, rest)
  BY <1>2, <1>3, <1>4 DEF TakenApart, IsLoot, IsLeft, IsCut, IsRest
<1> PICK preds : preds = {acts[deque[StealAt(deque)]].at}
  OBVIOUS
<1>6. /\ om' = om /\ heap' = heap /\ acts' = acts
      /\ suspended' = suspended /\ pc' = [pc EXCEPT ![w] = "run"]
      /\ strands' = Append(strands, Strand(InitStrand(TopFrame(StolenFrames(Homes[y].stack))), preds))
  BY <1>2 DEF Steal, TakeFrames
<1>7. /\ shadow' = [shadow EXCEPT ![w] = p, ![v] = q]
      /\ own' = [own EXCEPT ![w] = taken, ![v] = rest]
  <2>1. /\ shadow' = [shadow EXCEPT ![w] = SetTop(StolenFrames(shadow[v]),
                                                  InitStrand(TopFrame(StolenFrames(shadow[v])))),
                                    ![v] = LeftFrames(@)]
        /\ own' = [own EXCEPT ![w] = SubSeq(own[v], 1, StealAt(own[v])),
                              ![v] = SubSeq(@, StealAt(own[v]) + 1, Len(@))]
    BY DEF Steal
  <2>2. shadow \in [Workers -> Stacks] /\ own \in [Workers -> Seq(Nat)]
    BY <1>2 DEF Shapes
  <2> QED
    BY <1>1, <1>4, <2>1, <2>2
<1>8. /\ shadow'[w] = p /\ own'[w] = taken /\ pc'[w] = "run"
      /\ shadow'[v] = q /\ own'[v] = rest /\ pc'[v] = pc[v]
      /\ \A u \in Workers : u \notin {w, v} =>
           shadow'[u] = shadow[u] /\ own'[u] = own[u] /\ pc'[u] = pc[u]
  <2>1. shadow \in [Workers -> Stacks] /\ own \in [Workers -> Seq(Nat)] /\ pc \in [Workers -> Points]
    BY <1>2 DEF Shapes
  <2>2. pc' = [pc EXCEPT ![w] = "run"] /\ w \in Workers /\ v \in Workers /\ w # v
    BY <1>1, <1>6
  <2> QED
    BY ONLY <1>7, <2>1, <2>2
<1>9. /\ Replaces(Homes, Homes', {x, y}, {x, y}) /\ Homes'[x] = Home(p, taken, "run")
      /\ Homes'[y] = Home(q, rest, pc[v])
  <2> PICK W : W = {w, v}
    OBVIOUS
  <2> PICK D : D = {}
    OBVIOUS
  <2>1. /\ W \subseteq Workers /\ D \subseteq suspended /\ D \subseteq suspended'
        /\ \A d \in suspended' : d \in D \/ d \in suspended \ D
        /\ \A u \in Workers : u \notin W =>
             shadow'[u] = shadow[u] /\ own'[u] = own[u] /\ pc'[u] = pc[u]
    BY <1>6, <1>8
  <2>2. /\ Replaces(Homes, Homes', {<<u, 0>> : u \in W} \cup {<<d, 1>> : d \in D},
                    {<<u, 0>> : u \in W} \cup {<<d, 1>> : d \in D})
        /\ \A u \in W : Homes'[<<u, 0>>] = Home(shadow'[u], own'[u], pc'[u])
    BY ONLY <2>1, HomesMove
  <2>3. {<<u, 0>> : u \in W} \cup {<<d, 1>> : d \in D} = {x, y}
    OBVIOUS
  <2> QED
    BY <1>8, <2>2, <2>3
<1>10. x # y
  BY <1>1
<1>11. /\ y \in DOMAIN Homes /\ n \in Nat /\ i \in Nat /\ Homes'[y] = Home(q, rest, Homes[y].at)
       /\ Homes'[x] = Home(p, taken, "run") /\ Replaces(Homes, Homes', {x, y}, {x, y})
  BY <1>2, <1>9
<1>12. Stolen(x, y, y, n, i, p, q, taken, rest, preds)
  BY ONLY <1>5, <1>6, <1>10, <1>11 DEF Stolen
<1> QED
  BY ONLY <1>0, <1>6, <1>12, StealCopies, CopyInv

(* kSuspended and kResumable *)
LEMMA StealSuspendedCopies ==
  ASSUME CopyInv, NEW w \in Workers, NEW d \in suspended, StealSuspended(w, d)
  PROVE  CopyInv'
PROOF
<1> PICK x : x = <<w, 0>>
  OBVIOUS
<1> PICK y : y = <<d, 1>>
  OBVIOUS
<1> PICK s : s = d.stack
  OBVIOUS
<1> PICK deque : deque = d.own
  OBVIOUS
<1>0. ShadowInv /\ ShadowInv'
  BY StealSuspendedStep DEF CopyInv
<1>1. CanSteal(deque) /\ d \in Deques /\ deque \in Seq(Nat) /\ Shapes
  <2>1. Shapes /\ d \in Deques
    BY <1>0 DEF ShadowInv, Shapes
  <2> QED
    BY <2>1 DEF StealSuspended, TakeFrames, Deques
<1>2. /\ y \in DOMAIN Homes /\ Homes[y].stack = s /\ Homes[y].own = deque /\ Homes[y].at = "run"
  <2>1. <<d, 1>> \in DOMAIN Homes /\ Homes[<<d, 1>>] = Home(d.stack, d.own, "run")
    BY DequeHome
  <2> QED
    BY <2>1 DEF Home
<1> PICK n : n = Len(deque)
  OBVIOUS
<1>3. n \in Nat /\ Stealable(NodeCount, Len(heap), s, deque, n)
  BY <1>0, <1>1, LenProperties DEF ShadowInv, DequeOK, Stealable
<1>4. PICK i \in Nat : i = StealAt(deque)
  <2>1. StealAt(deque) \in 1 .. Len(deque) - 1
    BY <1>1, StealAtFirst
  <2> QED
    BY <2>1
<1> PICK p : p = SetTop(StolenFrames(s), InitStrand(TopFrame(StolenFrames(s))))
  OBVIOUS
<1> PICK q : q = LeftFrames(s)
  OBVIOUS
<1> PICK taken : taken = SubSeq(deque, 1, i)
  OBVIOUS
<1> PICK rest : rest = SubSeq(deque, i + 1, Len(deque))
  OBVIOUS
<1> PICK e : e = [d EXCEPT !.stack = q, !.own = rest]
  OBVIOUS
<1> PICK z : z = <<e, 1>>
  OBVIOUS
<1>5. TakenApart(n, i, Homes[y], p, q, taken, rest)
  BY <1>2, <1>3, <1>4 DEF TakenApart, IsLoot, IsLeft, IsCut, IsRest
<1>6. e.stack = q /\ e.own = rest
  BY <1>1 DEF Deques
<1> PICK preds : preds = {acts[deque[StealAt(deque)]].at}
  OBVIOUS
<1>7. /\ om' = om /\ heap' = heap /\ acts' = acts
      /\ suspended' = (suspended \ {d}) \cup {e} /\ pc' = [pc EXCEPT ![w] = "run"]
      /\ shadow' = [shadow EXCEPT ![w] = p] /\ own' = [own EXCEPT ![w] = taken]
      /\ strands' = Append(strands, Strand(InitStrand(TopFrame(StolenFrames(Homes[y].stack))), preds))
  BY <1>2, <1>4 DEF StealSuspended, TakeFrames
<1>8. /\ shadow'[w] = p /\ own'[w] = taken /\ pc'[w] = "run"
      /\ \A u \in Workers : u \notin {w} =>
           shadow'[u] = shadow[u] /\ own'[u] = own[u] /\ pc'[u] = pc[u]
  BY <1>1, <1>7 DEF Shapes
<1>9. /\ Replaces(Homes, Homes', {x, y}, {x, z}) /\ Homes'[x] = Home(p, taken, "run")
      /\ Homes'[z] = Home(q, rest, "run")
  <2> PICK W : W = {w}
    OBVIOUS
  <2> PICK D : D = {d}
    OBVIOUS
  <2> PICK E : E = {e}
    OBVIOUS
  <2>1. /\ W \subseteq Workers /\ D \subseteq suspended /\ E \subseteq suspended'
        /\ \A c \in suspended' : c \in E \/ c \in suspended \ D
        /\ \A u \in Workers : u \notin W =>
             shadow'[u] = shadow[u] /\ own'[u] = own[u] /\ pc'[u] = pc[u]
    BY <1>7, <1>8
  <2>2. /\ Replaces(Homes, Homes', {<<u, 0>> : u \in W} \cup {<<c, 1>> : c \in D},
                    {<<u, 0>> : u \in W} \cup {<<c, 1>> : c \in E})
        /\ \A u \in W : Homes'[<<u, 0>>] = Home(shadow'[u], own'[u], pc'[u])
        /\ \A c \in E : Homes'[<<c, 1>>] = Home(c.stack, c.own, "run")
    BY ONLY <2>1, HomesMove
  <2>3. /\ {<<u, 0>> : u \in W} \cup {<<c, 1>> : c \in D} = {x, y}
        /\ {<<u, 0>> : u \in W} \cup {<<c, 1>> : c \in E} = {x, z}
    OBVIOUS
  <2>4. Homes'[x] = Home(p, taken, "run")
    BY <1>8, <2>2
  <2>5. Homes'[z] = Home(q, rest, "run")
    BY <1>6, <2>2
  <2> QED
    BY <2>2, <2>3, <2>4, <2>5
<1>10. x # z
  OBVIOUS
<1>11. /\ y \in DOMAIN Homes /\ n \in Nat /\ i \in Nat /\ Homes'[z] = Home(q, rest, Homes[y].at)
       /\ Homes'[x] = Home(p, taken, "run") /\ Replaces(Homes, Homes', {x, y}, {x, z})
  BY <1>2, <1>3, <1>9
<1>12. Stolen(x, y, z, n, i, p, q, taken, rest, preds)
  BY ONLY <1>5, <1>7, <1>10, <1>11 DEF Stolen
<1> QED
  BY ONLY <1>0, <1>7, <1>12, StealCopies, CopyInv

(* The invariant holds at first: the one strand has list 1, and the one    *)
(* frame has no sync list.                                                 *)
LEMMA InitCopies ==
  ASSUME Init
  PROVE  CopyInv
PROOF
<1>0. ShadowInv
  BY InitInv
<1>1. /\ strands = <<[node |-> 1, list |-> 1, future_id |-> 0, anc |-> {}]>>
      /\ acts = <<NewAct("root", 0, 0)>> /\ suspended = {} /\ Len(heap) = 1
  <2>1. /\ strands = <<[node |-> 1, list |-> 1, future_id |-> 0, anc |-> {}]>>
        /\ acts = <<NewAct("root", 0, 0)>> /\ suspended = {} /\ heap = <<EmptyList>>
    BY DEF Init
  <2>2. \A e : Len(<<e>>) = 1
    OBVIOUS
  <2> QED
    BY <2>1, <2>2
<1>2. PICK first \in Workers :
        /\ shadow = [w \in Workers |-> IF w = first
                       THEN push(EmptyStack, NewFrame(1, FALSE, 1, 1, 0)) ELSE EmptyStack]
        /\ own = [w \in Workers |-> IF w = first THEN <<1>> ELSE <<>>]
        /\ pc = [w \in Workers |-> IF w = first THEN "run" ELSE "idle"]
  BY DEF Init
<1> PICK g : g = NewFrame(1, FALSE, 1, 1, 0)
  OBVIOUS
<1> PICK s : s = push(EmptyStack, g)
  OBVIOUS
<1> PICK r : r = NewAct("root", 0, 0)
  OBVIOUS
<1> PICK x : x = <<first, 0>>
  OBVIOUS
<1> PICK V : V = Homes
  OBVIOUS
<1>3. g.act = 1 /\ g.sync = 0 /\ g.sync_list = 0 /\ g.steal_cont = 0 /\ g.list = 1
  BY DEF NewFrame
<1>4. r \in Activations /\ r.kind = "root" /\ r.parent = 0 /\ r.waits = 0 /\ ~r.done
  <2>1. r \in Activations
    BY NewActType DEF Kinds
  <2>2. r.kind = "root" /\ r.parent = 0 /\ r.waits = 0 /\ ~r.done
    BY DEF NewAct
  <2> QED
    BY <2>1, <2>2
<1>5. acts \in Seq(Activations) /\ Len(acts) = 1 /\ acts[1] = r /\ 1 .. Len(acts) = {1}
  <2>1. acts = <<r>>
    BY <1>1
  <2>2. acts \in Seq(Activations) /\ Len(acts) = 1 /\ acts[1] = r
    BY <1>4, <2>1
  <2>3. 1 .. 1 = {1}
    OBVIOUS
  <2> QED
    BY <2>2, <2>3
<1>6. s.frames = <<g>> /\ Len(s.frames) = 1 /\ s.frames[1] = g
  <2>1. s.frames = Append(<<>>, g)
    BY DEF push, EmptyStack
  <2>2. Append(<<>>, g) = <<g>> /\ Len(<<g>>) = 1 /\ <<g>>[1] = g
    OBVIOUS
  <2> QED
    BY <2>1, <2>2
<1>7. DOMAIN V = {<<w, 0>> : w \in Workers} /\ \A w \in Workers : V[<<w, 0>>] = Home(shadow[w], own[w], pc[w])
  <2>1. Holders = {<<w, 0>> : w \in Workers}
    BY <1>1 DEF Holders
  <2> QED
    BY <2>1, WorkerHome DEF Homes
<1>8. /\ x \in DOMAIN V /\ V[x].stack = s /\ V[x].own = <<1>> /\ V[x].at = "run"
      /\ \A y \in DOMAIN V : y # x => V[y].own = <<>> /\ V[y].at = "idle"
  <2>1. V[x] = Home(s, <<1>>, "run")
    BY <1>2, <1>7
  <2>2. ASSUME NEW y \in DOMAIN V, y # x PROVE V[y].own = <<>> /\ V[y].at = "idle"
    <3>1. PICK w \in Workers : y = <<w, 0>>
      BY <1>7
    <3>2. own[w] = <<>> /\ pc[w] = "idle"
      BY <1>2, <2>2, <3>1
    <3>3. V[y] = Home(shadow[w], own[w], pc[w])
      BY <1>7, <3>1
    <3> QED
      BY <3>2, <3>3 DEF Home
  <2> QED
    BY <1>7, <2>1, <2>2 DEF Home
<1>9. \A y \in DOMAIN V : /\ V[y].own \in Seq(Nat)
                          /\ \A i \in 1 .. Len(V[y].own) : y = x /\ i = 1 /\ V[y].own[i] = 1
  <2>1. <<1>> \in Seq(Nat) /\ Len(<<1>>) = 1 /\ <<1>>[1] = 1 /\ <<>> \in Seq(Nat) /\ Len(<<>>) = 0
    OBVIOUS
  <2>2. \A i : (i \in 1 .. 1 => i = 1) /\ i \notin 1 .. 0
    OBVIOUS
  <2> QED
    BY <1>8, <2>1, <2>2
<1>10. OwnInv(acts, V)
  <2>1. \A a, b \in 1 .. Len(acts) : a = b /\ a = 1 /\ acts[a] = r
    BY <1>5
  <2>2. \A a, b : ~Calling(acts, b, a)
    BY <1>4, <2>1 DEF Calling
  <2>3. IsHomes(V) /\ Once(V)
    BY <1>9 DEF IsHomes, Once
  <2>4. Exist(acts, V)
    BY <1>5, <1>9 DEF Exist
  <2>5. CallsNext(acts, V) /\ OneCall(acts)
    BY <2>2 DEF CallsNext, OneCall
  <2>6. WaitersOut(acts, V)
    BY <1>4, <2>1 DEF WaitersOut
  <2>7. Family(acts)
    <3>1. ~Detaches(acts, 1)
      BY <1>4, <1>5 DEF Detaches
    <3>2. 0 \in 0 .. 1 - 1
      OBVIOUS
    <3> QED
      BY <1>4, <2>1, <3>1, <3>2 DEF Family
  <2> QED
    BY <1>5, <2>3, <2>4, <2>5, <2>6, <2>7 DEF OwnInv
<1>11. HomesOK(acts, NodeCount, Len(heap), V)
  <2>1. FieldsOK("run", s)
    <3>1. \A i \in 1 .. 1 : i = 1
      OBVIOUS
    <3> QED
      BY <1>3, <1>6, <3>1 DEF FieldsOK
  <2>2. \A y \in DOMAIN V : HomeInv(acts, V[y])
    BY <1>8, <2>1 DEF HomeInv
  <2>3. ASSUME NEW y \in DOMAIN V
        PROVE  V[y].at \in Points /\ HasStack(acts, NodeCount, Len(heap), V[y].at, V[y].stack, V[y].own)
    <3>1. PICK w \in Workers : y = <<w, 0>>
      BY <1>7
    <3>h. V[y] = Home(shadow[w], own[w], pc[w])
      BY <1>7, <3>1
    <3>2. V[y].at = pc[w] /\ V[y].stack = shadow[w] /\ V[y].own = own[w]
      BY <3>h DEF Home
    <3>3. WorkerOK(w) /\ pc[w] \in Points
      BY <1>0 DEF ShadowInv, Shapes
    <3> QED
      BY <3>2, <3>3 DEF WorkerOK
  <2> QED
    BY <2>2, <2>3 DEF HomesOK
<1>12. StrandLists = {1}
  <2> PICK e : e = [node |-> 1, list |-> 1, future_id |-> 0, anc |-> {}]
    OBVIOUS
  <2>1. strands = <<e>> /\ e.list = 1
    BY <1>1
  <2>2. DOMAIN <<e>> = {1} /\ <<e>>[1] = e
    OBVIOUS
  <2> QED
    BY <2>1, <2>2 DEF StrandLists
<1>13. LiveFrames(acts, V) \subseteq {g}
  <2>1. ASSUME NEW y \in DOMAIN V PROVE LiveAt(acts, V[y]) \subseteq {g}
    <3>1. CASE y = x
      <4>0. \A i \in 1 .. 1 : i = 1
        OBVIOUS
      <4>1. \A i \in LiveIn(acts, s) : i = 1
        BY <1>6, <4>0 DEF LiveIn
      <4>2. LiveAt(acts, V[y]) \subseteq {s.frames[i] : i \in LiveIn(acts, s)}
        <5>1. V[y].stack = s
          BY <1>8, <3>1
        <5> QED
          BY <5>1 DEF LiveAt
      <4> QED
        BY <1>6, <4>1, <4>2
    <3>2. CASE y # x
      BY <1>8, <3>2 DEF LiveAt, Holding
    <3> QED
      BY <3>1, <3>2
  <2> QED
    BY <2>1 DEF LiveFrames
<1>14. ListsInv(acts, LiveFrames(acts, V), StrandLists)
  <2>1. Spawning(acts, 1) = {}
    <3>1. \A b \in 1 .. Len(acts) : acts[b].kind # "spawn"
      BY <1>4, <1>5
    <3> QED
      BY <3>1 DEF Spawning
  <2>2. \A f \in LiveFrames(acts, V) : f.sync_list = 0 /\ f.act = 1 /\ ~acts[f.act].done
    BY <1>3, <1>4, <1>5, <1>13
  <2> QED
    BY <2>1, <2>2 DEF ListsInv
<1>15. StrandLists \subseteq 1 .. Len(heap)
  BY <1>1, <1>12
<1> QED
  BY <1>0, <1>10, <1>11, <1>14, <1>15 DEF CopyInv, Copies

(* A step that changes nothing. *)
LEMMA SameCopies ==
  ASSUME CopyInv, ShadowInv', UNCHANGED vars
  PROVE  CopyInv'
PROOF
<1>1. /\ shadow' = shadow /\ own' = own /\ pc' = pc /\ acts' = acts /\ suspended' = suspended
      /\ om' = om /\ heap' = heap /\ strands' = strands
  BY DEF vars
<1>2. Homes' = Homes
  <2>1. Holders' = Holders
    BY <1>1 DEF Holders
  <2>2. \A x : HomeOf(x)' = HomeOf(x)
    BY <1>1 DEF HomeOf
  <2> QED
    BY <2>1, <2>2 DEF Homes
<1>3. NodeCount' = NodeCount /\ StrandLists' = StrandLists
  BY <1>1 DEF NodeCount, StrandLists
<1> QED
  BY <1>1, <1>2, <1>3 DEF CopyInv

LEMMA StepCopies ==
  ASSUME CopyInv, [Next]_vars
  PROVE  CopyInv'
PROOF
<1>1. CASE Next
  <2> PICK w \in Workers :
        \/ Enter(w) \/ LeaveCall(w)
        \/ Spawn(w) \/ LeaveSpawn(w) \/ LeaveStolen(w) \/ ReturnFromSpawn(w)
        \/ SyncBegin(w) \/ SyncEnd(w) \/ SyncWait(w)
        \/ CilkFutureCreate(w) \/ CilkFutureFinish(w) \/ LeaveFuture(w)
        \/ \E a \in DOMAIN acts : CilkFutureGet(w, a) \/ CilkFutureGetSuspend(w, a)
        \/ \E v \in Workers : Steal(w, v)
        \/ \E d \in suspended : StealSuspended(w, d) \/ Resume(w, d)
    BY <1>1 DEF Next
  <2>1. CASE Enter(w)
    BY <2>1, EnterCopies
  <2>2. CASE LeaveCall(w)
    BY <2>2, LeaveCallCopies
  <2>3. CASE Spawn(w)
    BY <2>3, SpawnCopies
  <2>4. CASE LeaveSpawn(w)
    BY <2>4, LeaveSpawnCopies
  <2>5. CASE LeaveStolen(w)
    BY <2>5, LeaveStolenCopies
  <2>6. CASE ReturnFromSpawn(w)
    BY <2>6, ReturnFromSpawnCopies
  <2>7. CASE SyncBegin(w)
    BY <2>7, SyncBeginCopies
  <2>8. CASE SyncEnd(w)
    BY <2>8, SyncEndCopies
  <2>9. CASE SyncWait(w)
    BY <2>9, SyncWaitCopies
  <2>10. CASE CilkFutureCreate(w)
    BY <2>10, FutureCreateCopies
  <2>11. CASE CilkFutureFinish(w)
    BY <2>11, FutureFinishCopies
  <2>12. CASE LeaveFuture(w)
    BY <2>12, LeaveFutureCopies
  <2>13. CASE \E a \in DOMAIN acts : CilkFutureGet(w, a) \/ CilkFutureGetSuspend(w, a)
    BY <2>13, FutureGetCopies, FutureGetSuspendCopies
  <2>14. CASE \E v \in Workers : Steal(w, v)
    BY <2>14, StealNormalCopies
  <2>15. CASE \E d \in suspended : StealSuspended(w, d) \/ Resume(w, d)
    BY <2>15, StealSuspendedCopies, ResumeCopies
  <2> QED
    BY <2>1, <2>2, <2>3, <2>4, <2>5, <2>6, <2>7, <2>8, <2>9, <2>10, <2>11, <2>12, <2>13,
       <2>14, <2>15
<1>2. CASE UNCHANGED vars
  <2>1. ShadowInv'
    BY StepInv DEF CopyInv
  <2> QED
    BY <1>2, <2>1, SameCopies
<1> QED
  BY <1>1, <1>2

LEMMA AlwaysCopies == Spec => []CopyInv
PROOF
<1>1. Init => CopyInv
  BY InitCopies
<1>2. CopyInv /\ [Next]_vars => CopyInv'
  BY StepCopies
<1> QED
  BY <1>1, <1>2, PTL DEF Spec

(* The lists of the strands are not among those that a step writes. *)
Frozen == \A b \in DOMAIN strands : heap'[strands[b].list] = heap[strands[b].list]

LEMMA GrownFrozen ==
  ASSUME CopyInv, heap' = heap \/ \E e : heap' = Append(heap, e)
  PROVE  Frozen
PROOF
<1>1. \A b \in DOMAIN strands : strands[b].list \in 1 .. Len(heap)
  BY DEF CopyInv, StrandLists
<1>2. IsSequence(heap)
  BY DEF CopyInv, ShadowInv, Shapes
<1>3. ASSUME NEW e, heap' = Append(heap, e) PROVE Frozen
  BY <1>1, <1>2, <1>3, SequenceGrows DEF Frozen
<1>4. CASE heap' = heap
  BY <1>4 DEF Frozen
<1> QED
  BY <1>3, <1>4

LEMMA MergeFrozen ==
  ASSUME CopyInv, NEW b, NEW f \in LiveFrames(acts, Homes), f.sync_list # 0, NEW l,
         heap' = IF b THEN heap ELSE MergeInto(heap, f.sync_list, l)
  PROVE  Frozen
PROOF
<1>1. f.sync_list \notin StrandLists
  BY DEF CopyInv, Copies, ListsInv
<1>2. \A c \in DOMAIN strands : strands[c].list # f.sync_list /\ strands[c].list \in 1 .. Len(heap)
  BY <1>1 DEF CopyInv, StrandLists
<1>3. DOMAIN heap = 1 .. Len(heap)
  BY SequenceGrows DEF CopyInv, ShadowInv, Shapes
<1>4. CASE heap' = heap
  BY <1>4 DEF Frozen
<1>5. CASE heap' = MergeInto(heap, f.sync_list, l)
  BY <1>2, <1>3, <1>5 DEF Frozen, MergeInto
<1> QED
  BY <1>4, <1>5

(* The list that a returning child merges into. *)
LEMMA ParentList ==
  ASSUME CopyInv, NEW w \in Workers, pc[w] = "run", acts[Act(w)].kind = "spawn"
  PROVE  /\ ParentFrame(shadow[w]) \in LiveFrames(acts, Homes)
         /\ ParentFrame(shadow[w]).sync_list # 0
PROOF
<1> PICK x : x = <<w, 0>>
  OBVIOUS
<1> PICK f : f = ParentFrame(shadow[w])
  OBVIOUS
<1> PICK n : n = Len(shadow[w].frames) - 1
  OBVIOUS
<1>1. f.sync # 0
  BY DetachedReturns DEF CopyInv
<1>2. (f.sync = 0 <=> f.sync_list = 0) /\ f \in LiveFrames(acts, Homes)
  BY ParentCopies
<1> QED
  BY <1>1, <1>2

LEMMA StepFrozen ==
  ASSUME CopyInv, [Next]_vars
  PROVE  Frozen
PROOF
<1>1. CASE Next
  <2> PICK w \in Workers :
        \/ Enter(w) \/ LeaveCall(w)
        \/ Spawn(w) \/ LeaveSpawn(w) \/ LeaveStolen(w) \/ ReturnFromSpawn(w)
        \/ SyncBegin(w) \/ SyncEnd(w) \/ SyncWait(w)
        \/ CilkFutureCreate(w) \/ CilkFutureFinish(w) \/ LeaveFuture(w)
        \/ \E a \in DOMAIN acts : CilkFutureGet(w, a) \/ CilkFutureGetSuspend(w, a)
        \/ \E v \in Workers : Steal(w, v)
        \/ \E d \in suspended : StealSuspended(w, d) \/ Resume(w, d)
    BY <1>1 DEF Next
  <2>1. CASE Enter(w) \/ LeaveCall(w) \/ ReturnFromSpawn(w) \/ SyncEnd(w) \/ SyncWait(w) \/ LeaveFuture(w)
    <3>1. heap' = heap
      BY <2>1 DEF Enter, LeaveCall, ReturnFromSpawn, SyncEnd, SyncWait, LeaveFuture
    <3> QED
      BY <3>1, GrownFrozen
  <2>2. CASE Spawn(w)
    <3>1. heap' = DetachedHeap(TopFrame(shadow[w]))
      BY <2>2 DEF Spawn
    <3>2. heap' = heap \/ heap' = Append(heap, EmptyList)
      BY <3>1 DEF DetachedHeap
    <3> QED
      BY <3>2, GrownFrozen
  <2>3. CASE CilkFutureCreate(w)
    <3> PICK h : h = DetachedHeap(TopFrame(shadow[w]))
      OBVIOUS
    <3>1. PICK l : heap' = Append(h, l)
      BY <2>3 DEF CilkFutureCreate
    <3>2. h = heap \/ h = Append(heap, EmptyList)
      BY DEF DetachedHeap
    <3>3. IsSequence(heap) /\ \A b \in DOMAIN strands : strands[b].list \in 1 .. Len(heap)
      BY DEF CopyInv, StrandLists, ShadowInv, Shapes
    <3>4. IsSequence(h) /\ \A i \in 1 .. Len(heap) : h[i] = heap[i] /\ i \in 1 .. Len(h)
      <4>1. DOMAIN heap = 1 .. Len(heap) /\ Len(heap) \in Nat
        BY <3>3, SequenceGrows
      <4>2. CASE h = heap
        BY <3>3, <4>2
      <4>3. CASE h = Append(heap, EmptyList)
        <5>1. /\ IsSequence(h) /\ Len(h) = Len(heap) + 1
              /\ \A i \in 1 .. Len(heap) : h[i] = heap[i]
          BY <3>3, <4>3, SequenceGrows
        <5>2. \A i \in 1 .. Len(heap) : i \in 1 .. Len(heap) + 1
          BY <4>1
        <5> QED
          BY <5>1, <5>2
      <4> QED
        BY <3>2, <4>2, <4>3
    <3>5. \A i \in 1 .. Len(heap) : heap'[i] = heap[i]
      BY <3>1, <3>4, SequenceGrows
    <3> QED
      BY <3>3, <3>5 DEF Frozen
  <2>4. CASE CilkFutureFinish(w)
    <3>1. \E e : heap' = Append(heap, e)
      BY <2>4 DEF CilkFutureFinish
    <3> QED
      BY <3>1, GrownFrozen
  <2>5. CASE \E a \in DOMAIN acts : CilkFutureGet(w, a) \/ CilkFutureGetSuspend(w, a)
    <3>1. heap' = heap \/ \E e : heap' = Append(heap, e)
      BY <2>5 DEF CilkFutureGet, CilkFutureGetSuspend
    <3> QED
      BY <3>1, GrownFrozen
  <2>6. CASE \E v \in Workers : Steal(w, v)
    <3>1. heap' = heap
      BY <2>6 DEF Steal, TakeFrames
    <3> QED
      BY <3>1, GrownFrozen
  <2>7. CASE \E d \in suspended : StealSuspended(w, d) \/ Resume(w, d)
    <3>1. heap' = heap \/ \E e : heap' = Append(heap, e)
      BY <2>7 DEF StealSuspended, TakeFrames, Resume
    <3> QED
      BY <3>1, GrownFrozen
  <2>8. CASE LeaveSpawn(w) \/ LeaveStolen(w)
    <3> PICK f : f = ParentFrame(shadow[w])
      OBVIOUS
    <3> PICK l : l = TopFrame(shadow[w]).list
      OBVIOUS
    <3>1. /\ pc[w] = "run" /\ acts[Act(w)].kind = "spawn"
          /\ heap' = IF f.list = l THEN heap ELSE MergeInto(heap, f.sync_list, l)
      BY <2>8 DEF LeaveSpawn, LeaveStolen, Running
    <3>2. f \in LiveFrames(acts, Homes) /\ f.sync_list # 0
      BY <3>1, ParentList
    <3> QED
      BY <3>1, <3>2, MergeFrozen
  <2>9. CASE SyncBegin(w)
    <3> PICK f : f = TopFrame(shadow[w])
      OBVIOUS
    <3> PICK x : x = <<w, 0>>
      OBVIOUS
    <3>1. /\ pc[w] = "run" /\ f.sync # 0
          /\ heap' = IF f.list = f.ori_list THEN heap ELSE MergeInto(heap, f.sync_list, f.list)
      BY <2>9 DEF SyncBegin, Running
    <3>2. f \in LiveFrames(acts, Homes) /\ HeadFields("run", f)
      BY <3>1, HeadCopies
    <3>3. f.sync_list # 0
      BY <3>1, <3>2 DEF HeadFields
    <3> QED
      BY <3>1, <3>2, <3>3, MergeFrozen
  <2> QED
    BY <2>1, <2>2, <2>3, <2>4, <2>5, <2>6, <2>7, <2>8, <2>9
<1>2. CASE UNCHANGED vars
  <2>1. heap' = heap
    BY <1>2 DEF vars
  <2> QED
    BY <2>1, GrownFrozen
<1> QED
  BY <1>1, <1>2

(* A merge at a sync or at a return never writes a list that a strand      *)
(* uses in queries, whoever holds copies of the frame whose sync list it   *)
(* is: what Precedes finds in the list of a strand it finds for ever.      *)
THEOREM ListsAreFrozen == Spec => ListsFrozen
PROOF
<1>1. CopyInv /\ [Next]_vars => [Frozen]_vars
  BY StepFrozen
<1>2. Spec => [][Frozen]_vars
  BY <1>1, AlwaysCopies, PTL DEF Spec
<1> QED
  BY <1>2 DEF ListsFrozen, Frozen
=============================================================================
