---------------------------- MODULE BListProofs ----------------------------
(***************************************************************************)
(* Proofs about Labels and BList, for every label width, any number of     *)
(* workers and nodes.                                                      *)
(***************************************************************************)
EXTENDS BList, TLAPS

(* What get_new_label returns lies strictly between the two labels, or is  *)
(* 0; and it is 0 only when no label is free.                              *)
LEMMA NewLabelFits ==
  ASSUME NEW b \in Label, NEW n \in Label \cup {NoNext}, n = NoNext \/ b < n
  PROVE  LET lab == GetNewLabel(b, n) IN
         /\ lab \in Label
         /\ lab > 0 => b < lab /\ (n # NoNext => lab < n)
         /\ lab = 0 => IF n = NoNext THEN b = MaxLabel ELSE n = b + 1
PROOF
<1>1. b \in Nat /\ b <= MaxLabel /\ MaxLabel \in Nat /\ MaxLabel % 2 = 1
  BY LabelAssumption DEF Label
<1>2. CASE n = NoNext
  BY <1>1, <1>2 DEF GetNewLabel, NoNext, Label
<1>3. CASE n # NoNext
  <2>1. n \in Nat /\ n <= MaxLabel /\ b < n
    BY <1>1, <1>3 DEF NoNext, Label
  <2> QED
    BY <1>1, <1>3, <2>1 DEF GetNewLabel, NoNext, Label
<1> QED
  BY <1>2, <1>3

-----------------------------------------------------------------------------
(* The inductive invariant. *)

Unlinked(w) == pc[w] \in {"tail", "back", "publish"}
HasNew(w)   == pc[w] \in {"tail", "back", "publish", "prev", "release"}

(* A base is claimed by one worker. *)
ClaimInv == \A w \in Workers : pc[w] # "idle" =>
              base[w] \in alloc /\ active[base[w]] = w

(* A node under insertion belongs to one worker and is nobody's base. *)
NewInv ==
  \A w \in Workers :
    /\ HasNew(w) => new[w] \in alloc
    /\ ~HasNew(w) => new[w] = NULL
    /\ \A v \in Workers : /\ v # w /\ HasNew(w) => new[v] # new[w]
                          /\ HasNew(w) /\ pc[v] # "idle" => base[v] # new[w]

(* The tail has no successor, and a worker that inserts elsewhere never    *)
(* finds its base to be the tail later.                                    *)
TailInv ==
  /\ tail \in alloc
  /\ next[tail] = NULL
  /\ \A w \in Workers :
       /\ pc[w] = "tail" => new[w] # tail
       /\ pc[w] \in {"back", "publish"} => /\ base[w] # tail
                                           /\ next[new[w]] = next[base[w]]

(* The label of a new node lies between its neighbours'. *)
LabelInv ==
  \A w \in Workers : Unlinked(w) =>
    /\ label[base[w]] < label[new[w]]
    /\ next[base[w]] # NULL => label[new[w]] < label[next[base[w]]]

(* A node in the list points to a node that was put after it, and every    *)
(* node after it is that one or after that one.                            *)
SuccInv ==
  /\ \A p \in after : p[1] \in alloc /\ p[2] \in alloc
  /\ \A x \in alloc : next[x] # NULL /\ (\A w \in Workers : Unlinked(w) => new[w] # x)
       => <<x, next[x]>> \in after
  /\ \A x, y \in Nodes : <<x, y>> \in after =>
       /\ next[x] # NULL
       /\ y = next[x] \/ <<next[x], y>> \in after
       /\ \A w \in Workers : Unlinked(w) => new[w] # x

ListInv == /\ TypeOK /\ ClaimInv /\ NewInv /\ TailInv /\ LabelInv /\ SuccInv
           /\ PrecedesIsOrder /\ FailsOnlyWhenFull

-----------------------------------------------------------------------------
(* NULL is not a node. *)
LEMMA NullNotNode == NULL \notin Nodes
BY DEF NULL, Nodes

(* The labels of a split list increase. *)
LEMMA SplitIncreases ==
  ASSUME NEW i \in Nat, NEW j \in Nat, i < j
  PROVE  i * NodeInterval < j * NodeInterval
PROOF
<1>1. NodeInterval \in Nat /\ NodeInterval >= 1
  BY SplitAssumption
<1>2. PICK d \in Nat : j = i + 1 + d
  <2>1. j - i - 1 \in Nat /\ j = i + 1 + (j - i - 1)
    OBVIOUS
  <2> QED
    BY <2>1
<1>3. j * NodeInterval = i * NodeInterval + NodeInterval + d * NodeInterval
  BY <1>1, <1>2
<1>4. d * NodeInterval \in Nat /\ i * NodeInterval \in Nat
  BY <1>1
<1> QED
  BY <1>1, <1>3, <1>4

(* split leaves a list that satisfies the invariant. *)
LEMMA InitList == Init => ListInv
PROOF
<1> SUFFICES ASSUME NEW k \in 1 .. SublistSize,
      /\ alloc = 0 .. (k - 1)
      /\ label = [n \in Nodes |-> IF n < k THEN n * NodeInterval ELSE 0]
      /\ next = [n \in Nodes |-> IF n < k - 1 THEN n + 1 ELSE NULL]
      /\ prev = [n \in Nodes |-> IF n < k THEN n - 1 ELSE NULL]
      /\ tail = k - 1
      /\ active = [n \in Nodes |-> Nobody]
      /\ pc = [w \in Workers |-> "idle"]
      /\ base = [w \in Workers |-> NULL]
      /\ new = [w \in Workers |-> NULL]
      /\ after = {p \in (0 .. (k - 1)) \X (0 .. (k - 1)) : p[1] < p[2]}
    PROVE ListInv
  BY DEF Init
<1>1. k \in Nat /\ k >= 1 /\ k <= MaxNodes /\ k <= SublistSize /\ MaxNodes \in Nat
      /\ SublistSize \in Nat
  BY SplitAssumption
<1>2. alloc \subseteq Nodes
  BY <1>1 DEF Nodes
<1>3. \A n \in Nodes : n < k => n * NodeInterval \in Label
  <2> SUFFICES ASSUME NEW n \in Nodes, n < k PROVE n * NodeInterval \in Label
    OBVIOUS
  <2>1. n \in 0 .. (SublistSize - 1)
    BY <1>1 DEF Nodes
  <2>2. n * NodeInterval <= MaxLabel
    BY <2>1, SplitAssumption
  <2>3. n * NodeInterval \in Nat
    BY <2>1, SplitAssumption
  <2> QED
    BY <2>2, <2>3, LabelAssumption DEF Label
<1>4. TypeOK
  <2>1. label \in [Nodes -> Label]
    <3>1. 0 \in Label
      BY LabelAssumption DEF Label
    <3> QED
      BY <1>3, <3>1
  <2>2. next \in [Nodes -> Nodes \cup {NULL}] /\ tail \in Nodes
    BY <1>1 DEF Nodes
  <2>3. prev \in [Nodes -> Nodes \cup {NULL}]
    BY <1>1 DEF Nodes, NULL
  <2>4. after \in SUBSET (Nodes \X Nodes)
    BY <1>2
  <2> QED
    BY <1>2, <2>1, <2>2, <2>3, <2>4 DEF TypeOK, Points
<1>5. ClaimInv /\ NewInv /\ LabelInv /\ FailsOnlyWhenFull
  BY DEF ClaimInv, NewInv, LabelInv, FailsOnlyWhenFull, HasNew, Unlinked
<1>6. TailInv
  BY <1>1, <1>2 DEF TailInv, Nodes
<1>7. SuccInv
  <2>1. \A p \in after : p[1] \in alloc /\ p[2] \in alloc
    OBVIOUS
  <2>2. \A x, y \in Nodes : <<x, y>> \in after <=> x < y /\ y < k
    BY <1>1 DEF Nodes
  <2>3. \A x \in alloc : next[x] # NULL => <<x, next[x]>> \in after
    BY <1>1, <1>2, <2>2 DEF Nodes
  <2>4. ASSUME NEW x \in Nodes, NEW y \in Nodes, <<x, y>> \in after
        PROVE  next[x] # NULL /\ (y = next[x] \/ <<next[x], y>> \in after)
    BY <1>1, <2>2, <2>4 DEF Nodes, NULL
  <2> QED
    BY <2>1, <2>3, <2>4 DEF SuccInv, Unlinked
<1>8. PrecedesIsOrder
  <2> SUFFICES ASSUME NEW p \in after PROVE label[p[1]] < label[p[2]]
    BY DEF PrecedesIsOrder
  <2>1. p[1] \in Nat /\ p[2] \in Nat /\ p[1] < p[2] /\ p[1] < k /\ p[2] < k
        /\ p[1] \in Nodes /\ p[2] \in Nodes
    BY <1>1, <1>2
  <2>2. p[1] * NodeInterval < p[2] * NodeInterval
    BY <2>1, SplitIncreases
  <2> QED
    BY <2>1, <2>2
<1> QED
  BY <1>4, <1>5, <1>6, <1>7, <1>8 DEF ListInv

-----------------------------------------------------------------------------
(* Every action preserves the invariant. *)

LEMMA ClaimKeeps ==
  ASSUME ListInv, NEW w \in Workers, Claim(w)
  PROVE  ListInv'
PROOF
<1> USE DEF Claim, Goto
<1> PICK b \in Returned : /\ active[b] = Nobody
                          /\ active' = [active EXCEPT ![b] = w]
                          /\ base' = [base EXCEPT ![w] = b]
  OBVIOUS
<1>1. b \in alloc /\ b \in Nodes /\ \A v \in Workers : b # new[v]
  BY DEF Returned, ListInv, TypeOK
<1>2. TypeOK'
  BY <1>1 DEF ListInv, TypeOK, Points
<1>3. pc[w] = "idle" /\ pc'[w] = "label" /\ base'[w] = b
      /\ \A v \in Workers \ {w} : pc'[v] = pc[v] /\ base'[v] = base[v]
  BY DEF ListInv, TypeOK
<1>4. ClaimInv'
  BY <1>1, <1>3, WorkerAssumption DEF ListInv, TypeOK, ClaimInv
<1>5. NewInv'
  BY <1>1, <1>3 DEF ListInv, NewInv, HasNew
<1>6. TailInv'
  BY <1>3 DEF ListInv, TailInv
<1>7. LabelInv'
  BY <1>3 DEF ListInv, LabelInv, Unlinked
<1>8. SuccInv'
  <2>1. \A v \in Workers : Unlinked(v)' <=> Unlinked(v)
    BY <1>3 DEF Unlinked
  <2> QED
    BY <2>1 DEF ListInv, SuccInv
<1>9. PrecedesIsOrder' /\ FailsOnlyWhenFull'
  BY <1>3 DEF ListInv, PrecedesIsOrder, FailsOnlyWhenFull
<1> QED
  BY <1>2, <1>4, <1>5, <1>6, <1>7, <1>8, <1>9 DEF ListInv

(* What get_new_label reads: the base is in the list, so its successor, if *)
(* any, has the larger label.                                              *)
LEMMA BaseLabels ==
  ASSUME ListInv, NEW w \in Workers, pc[w] # "idle"
  PROVE  /\ base[w] \in Nodes /\ label[base[w]] \in Label
         /\ next[base[w]] # NULL => /\ next[base[w]] \in alloc
                                    /\ label[next[base[w]]] \in Label
                                    /\ label[base[w]] < label[next[base[w]]]
PROOF
<1>1. base[w] \in alloc /\ base[w] \in Nodes /\ label[base[w]] \in Label
  BY DEF ListInv, TypeOK, ClaimInv
<1>2. ASSUME next[base[w]] # NULL PROVE <<base[w], next[base[w]]>> \in after
  <2>1. \A v \in Workers : Unlinked(v) => new[v] # base[w]
    BY DEF ListInv, NewInv, HasNew, Unlinked
  <2> QED
    BY <1>1, <1>2, <2>1 DEF ListInv, SuccInv
<1>3. next[base[w]] # NULL => next[base[w]] \in alloc /\ next[base[w]] \in Nodes
                              /\ label[base[w]] < label[next[base[w]]]
  BY <1>1, <1>2 DEF ListInv, TypeOK, SuccInv, PrecedesIsOrder
<1> QED
  BY <1>1, <1>3 DEF ListInv, TypeOK

LEMMA NewNodeKeeps ==
  ASSUME ListInv, NEW w \in Workers, NewNode(w)
  PROVE  ListInv'
PROOF
<1> DEFINE lab == GetNewLabel(label[base[w]], NextLabel(base[w]))
<1>1. pc[w] = "label" /\ UNCHANGED <<next, prev, tail, active, base, after>>
  BY DEF NewNode
<1>2. /\ lab \in Label
      /\ lab > 0 => /\ label[base[w]] < lab
                    /\ next[base[w]] # NULL => lab < label[next[base[w]]]
      /\ lab = 0 => IF next[base[w]] = NULL THEN label[base[w]] = MaxLabel
                    ELSE label[next[base[w]]] = label[base[w]] + 1
  <2>1. /\ base[w] \in Nodes /\ label[base[w]] \in Label
        /\ next[base[w]] # NULL => /\ label[next[base[w]]] \in Label
                                   /\ label[base[w]] < label[next[base[w]]]
    BY <1>1, BaseLabels
  <2>2. NextLabel(base[w]) \in Label \cup {NoNext}
        /\ (NextLabel(base[w]) = NoNext <=> next[base[w]] = NULL)
        /\ (NextLabel(base[w]) = NoNext \/ label[base[w]] < NextLabel(base[w]))
        /\ (next[base[w]] # NULL => NextLabel(base[w]) = label[next[base[w]]])
    BY <2>1 DEF NextLabel, Label, NoNext
  <2>3. /\ lab \in Label
        /\ lab > 0 => /\ label[base[w]] < lab
                      /\ NextLabel(base[w]) # NoNext => lab < NextLabel(base[w])
        /\ lab = 0 => IF NextLabel(base[w]) = NoNext THEN label[base[w]] = MaxLabel
                      ELSE NextLabel(base[w]) = label[base[w]] + 1
    BY <2>1, <2>2, NewLabelFits
  <2> QED
    BY <2>2, <2>3
<1> HIDE DEF lab
<1>3. CASE lab = 0
  <2>1. pc' = [pc EXCEPT ![w] = "failed"] /\ UNCHANGED <<alloc, label, new>>
    BY <1>3 DEF NewNode, Goto, lab
  <2>2. pc'[w] = "failed" /\ \A v \in Workers \ {w} : pc'[v] = pc[v]
    BY <2>1 DEF ListInv, TypeOK
  <2>3. TypeOK'
    BY <1>1, <2>1 DEF ListInv, TypeOK, Points
  <2>4. ClaimInv' /\ NewInv' /\ TailInv' /\ LabelInv'
    BY <1>1, <2>1, <2>2 DEF ListInv, ClaimInv, NewInv, TailInv, LabelInv, HasNew, Unlinked
  <2>5. SuccInv'
    <3>1. \A v \in Workers : Unlinked(v)' <=> Unlinked(v)
      BY <1>1, <2>2 DEF Unlinked
    <3> QED
      BY <1>1, <2>1, <3>1 DEF ListInv, SuccInv
  <2>6. PrecedesIsOrder' /\ FailsOnlyWhenFull'
    BY <1>1, <1>2, <1>3, <2>1, <2>2 DEF ListInv, PrecedesIsOrder, FailsOnlyWhenFull
  <2> QED
    BY <2>3, <2>4, <2>5, <2>6 DEF ListInv
<1>4. CASE lab > 0
  <2>1. PICK n \in Nodes \ alloc : /\ alloc' = alloc \cup {n}
                                   /\ label' = [label EXCEPT ![n] = lab]
                                   /\ new' = [new EXCEPT ![w] = n]
                                   /\ pc' = [pc EXCEPT ![w] = "tail"]
    BY <1>4 DEF NewNode, Goto, lab
  <2>2. pc'[w] = "tail" /\ new'[w] = n
        /\ \A v \in Workers \ {w} : pc'[v] = pc[v] /\ new'[v] = new[v]
    BY <2>1 DEF ListInv, TypeOK
  <2>3. TypeOK'
    BY <1>1, <1>2, <2>1 DEF ListInv, TypeOK, Points
  <2>4. label'[n] = lab /\ \A x \in alloc : label'[x] = label[x]
    BY <2>1 DEF ListInv, TypeOK
  <2>5. ClaimInv'
    BY <1>1, <2>1, <2>2 DEF ListInv, ClaimInv
  <2>6. NewInv'
    BY <1>1, <2>1, <2>2, NullNotNode DEF ListInv, NewInv, ClaimInv, HasNew
  <2>7. TailInv'
    BY <1>1, <2>1, <2>2 DEF ListInv, TailInv
  <2>8. LabelInv'
    <3> SUFFICES ASSUME NEW v \in Workers, Unlinked(v)'
                 PROVE  (/\ label[base[v]] < label[new[v]]
                         /\ next[base[v]] # NULL => label[new[v]] < label[next[base[v]]])'
      BY DEF LabelInv
    <3>1. pc[v] # "idle"
      BY <1>1, <2>2 DEF Unlinked
    <3>2. base[v] \in alloc /\ (next[base[v]] # NULL => next[base[v]] \in alloc)
      BY <3>1, BaseLabels DEF ListInv, ClaimInv
    <3>3. label'[base'[v]] = label[base[v]] /\ next'[base'[v]] = next[base[v]]
          /\ (next[base[v]] # NULL => label'[next'[base'[v]]] = label[next[base[v]]])
      BY <1>1, <2>4, <3>2
    <3>4. CASE v = w
      BY <1>2, <1>4, <2>2, <2>4, <3>3, <3>4
    <3>5. CASE v # w
      <4>1. Unlinked(v) /\ new'[v] = new[v] /\ new[v] \in alloc
        BY <2>2, <3>5 DEF ListInv, NewInv, Unlinked, HasNew
      <4>2. label'[new'[v]] = label[new[v]]
        BY <2>4, <4>1
      <4> QED
        BY <3>3, <4>1, <4>2 DEF ListInv, LabelInv
    <3> QED
      BY <3>4, <3>5
  <2>9. SuccInv'
    <3>1. \A v \in Workers \ {w} : Unlinked(v)' = Unlinked(v) /\ new'[v] = new[v]
      BY <2>2 DEF Unlinked
    <3>2. Unlinked(w)' /\ ~Unlinked(w) /\ new'[w] = n
      BY <1>1, <2>2 DEF Unlinked
    <3>3. (\A p \in after : p[1] \in alloc /\ p[2] \in alloc)'
      BY <1>1, <2>1 DEF ListInv, SuccInv
    <3>4. (\A x \in alloc : next[x] # NULL /\ (\A v \in Workers : Unlinked(v) => new[v] # x)
             => <<x, next[x]>> \in after)'
      BY <1>1, <2>1, <3>1, <3>2 DEF ListInv, SuccInv
    <3>5. (\A x, y \in Nodes : <<x, y>> \in after =>
             /\ next[x] # NULL
             /\ y = next[x] \/ <<next[x], y>> \in after
             /\ \A v \in Workers : Unlinked(v) => new[v] # x)'
      BY <1>1, <2>1, <3>1, <3>2 DEF ListInv, SuccInv
    <3> QED
      BY <3>3, <3>4, <3>5 DEF SuccInv
  <2>10. PrecedesIsOrder'
    BY <1>1, <2>4 DEF ListInv, SuccInv, PrecedesIsOrder
  <2>11. FailsOnlyWhenFull'
    <3> SUFFICES ASSUME NEW v \in Workers, pc'[v] = "failed"
                 PROVE  (IF next[base[v]] = NULL THEN label[base[v]] = MaxLabel
                         ELSE label[next[base[v]]] = label[base[v]] + 1)'
      BY DEF FailsOnlyWhenFull
    <3>1. v # w /\ pc[v] = "failed"
      BY <2>2
    <3>2. base[v] \in alloc /\ (next[base[v]] # NULL => next[base[v]] \in alloc)
      BY <3>1, BaseLabels DEF ListInv, ClaimInv
    <3> QED
      BY <1>1, <2>4, <3>1, <3>2 DEF ListInv, FailsOnlyWhenFull
  <2> QED
    BY <2>3, <2>5, <2>6, <2>7, <2>8, <2>9, <2>10, <2>11 DEF ListInv
<1> QED
  BY <1>2, <1>3, <1>4, LabelAssumption DEF Label

LEMMA TestTailKeeps ==
  ASSUME ListInv, NEW w \in Workers, TestTail(w)
  PROVE  ListInv'
PROOF
<1> DEFINE n == new[w]
<1>1. pc[w] = "tail" /\ UNCHANGED <<alloc, label, prev, active, base, new, after>>
  BY DEF TestTail, Goto
<1>2. n \in alloc /\ n \in Nodes /\ n # tail /\ base[w] # n
      /\ base[w] \in alloc /\ base[w] \in Nodes
  BY <1>1 DEF ListInv, TypeOK, NewInv, TailInv, ClaimInv, HasNew
<1>3. next' = [next EXCEPT ![n] = next[base[w]]]
  BY DEF TestTail, ListInv, TailInv
<1>4. \/ base[w] = tail /\ pc' = [pc EXCEPT ![w] = "publish"] /\ tail' = n
      \/ base[w] # tail /\ pc' = [pc EXCEPT ![w] = "back"] /\ tail' = tail
  BY DEF TestTail, Goto
<1>5. pc'[w] \in {"back", "publish"} /\ \A v \in Workers \ {w} : pc'[v] = pc[v]
  BY <1>4 DEF ListInv, TypeOK
<1>6. /\ next'[n] = next[base[w]] /\ next'[base[w]] = next[base[w]]
      /\ \A x \in Nodes \ {n} : next'[x] = next[x]
  BY <1>2, <1>3 DEF ListInv, TypeOK
<1>7. TypeOK'
  BY <1>1, <1>2, <1>3, <1>4 DEF ListInv, TypeOK, Points
<1>8. ClaimInv'
  BY <1>1, <1>5 DEF ListInv, ClaimInv
<1>9. NewInv'
  BY <1>1, <1>5 DEF ListInv, NewInv, HasNew
<1>10. \A v \in Workers : pc[v] # "idle" => base[v] \in Nodes /\ base[v] # n
                                            /\ next'[base[v]] = next[base[v]]
  BY <1>1, <1>6 DEF ListInv, TypeOK, ClaimInv, NewInv, HasNew
<1>11. TailInv'
  <2>1. tail' \in alloc' /\ next'[tail'] = NULL
    BY <1>1, <1>2, <1>4, <1>6 DEF ListInv, TypeOK, TailInv
  <2>2. base'[w] # tail' /\ next'[new'[w]] = next'[base'[w]]
    BY <1>1, <1>2, <1>4, <1>6
  <2>3. ASSUME NEW v \in Workers \ {w}
        PROVE  (/\ pc[v] = "tail" => new[v] # tail
                /\ pc[v] \in {"back", "publish"} => /\ base[v] # tail
                                                    /\ next[new[v]] = next[base[v]])'
    <3>1. HasNew(v) => new[v] # n /\ new[v] \in Nodes
      BY <1>1 DEF ListInv, TypeOK, NewInv, HasNew
    <3> QED
      BY <1>1, <1>4, <1>5, <1>6, <1>10, <3>1 DEF ListInv, TailInv, HasNew
  <2> QED
    BY <1>5, <2>1, <2>2, <2>3 DEF TailInv
<1>12. \A v \in Workers : Unlinked(v)' = Unlinked(v)
  BY <1>1, <1>5 DEF Unlinked
<1>13. LabelInv'
  BY <1>1, <1>10, <1>12 DEF ListInv, LabelInv, Unlinked
<1>14. SuccInv'
  <2>1. (\A p \in after : p[1] \in alloc /\ p[2] \in alloc)'
    BY <1>1 DEF ListInv, SuccInv
  <2>2. Unlinked(w)
    BY <1>1 DEF Unlinked
  <2>3. (\A x \in alloc : next[x] # NULL /\ (\A v \in Workers : Unlinked(v) => new[v] # x)
             => <<x, next[x]>> \in after)'
    BY <1>1, <1>6, <1>12, <2>2 DEF ListInv, TypeOK, SuccInv
  <2>4. (\A x, y \in Nodes : <<x, y>> \in after =>
             /\ next[x] # NULL
             /\ y = next[x] \/ <<next[x], y>> \in after
             /\ \A v \in Workers : Unlinked(v) => new[v] # x)'
    BY <1>1, <1>6, <1>12, <2>2 DEF ListInv, SuccInv
  <2> QED
    BY <2>1, <2>3, <2>4 DEF SuccInv
<1>15. PrecedesIsOrder'
  BY <1>1 DEF ListInv, PrecedesIsOrder
<1>16. FailsOnlyWhenFull'
  BY <1>1, <1>5, <1>10 DEF ListInv, FailsOnlyWhenFull
<1> QED
  BY <1>7, <1>8, <1>9, <1>11, <1>13, <1>14, <1>15, <1>16 DEF ListInv

(* The two stores to prev. *)
LEMMA PrevKeeps ==
  ASSUME ListInv, NEW w \in Workers, LinkBack(w) \/ SetPrev(w)
  PROVE  ListInv'
PROOF
<1>1. UNCHANGED <<alloc, label, next, tail, active, base, new, after>>
  BY DEF LinkBack, SetPrev
<1>2. new[w] \in Nodes /\ base[w] \in Nodes
  BY DEF LinkBack, SetPrev, Goto, ListInv, TypeOK, NewInv, ClaimInv, HasNew
<1>3. TypeOK'
  BY <1>1, <1>2 DEF LinkBack, SetPrev, Goto, ListInv, TypeOK, Points
<1>4. /\ \/ pc[w] = "back" /\ pc'[w] = "publish"
         \/ pc[w] = "prev" /\ pc'[w] = "release"
      /\ \A v \in Workers \ {w} : pc'[v] = pc[v]
  <2>1. CASE LinkBack(w)
    BY <2>1 DEF LinkBack, Goto, ListInv, TypeOK
  <2>2. CASE SetPrev(w)
    BY <2>2 DEF SetPrev, Goto, ListInv, TypeOK
  <2> QED
    BY <2>1, <2>2
<1>5. \A v \in Workers : Unlinked(v)' = Unlinked(v) /\ HasNew(v)' = HasNew(v)
  BY <1>4 DEF Unlinked, HasNew
<1>6. ClaimInv' /\ TailInv' /\ FailsOnlyWhenFull'
  BY <1>1, <1>4 DEF ListInv, ClaimInv, TailInv, FailsOnlyWhenFull
<1>7. NewInv' /\ LabelInv' /\ PrecedesIsOrder'
  BY <1>1, <1>4, <1>5 DEF ListInv, NewInv, LabelInv, PrecedesIsOrder
<1>8. SuccInv'
  BY <1>1, <1>5 DEF ListInv, SuccInv
<1> QED
  BY <1>3, <1>6, <1>7, <1>8 DEF ListInv

LEMMA ReleaseKeeps ==
  ASSUME ListInv, NEW w \in Workers, Release(w)
  PROVE  ListInv'
PROOF
<1>1. UNCHANGED <<alloc, label, next, prev, tail, after>>
  BY DEF Release
<1>2. /\ pc[w] \in {"release", "failed"} /\ pc' = [pc EXCEPT ![w] = "idle"]
      /\ active' = [active EXCEPT ![base[w]] = Nobody]
      /\ base' = [base EXCEPT ![w] = NULL]
      /\ new' = [new EXCEPT ![w] = NULL]
  BY DEF Release, Goto
<1>3. TypeOK'
  BY <1>1, <1>2 DEF ListInv, TypeOK, Points
<1>4. /\ pc'[w] = "idle" /\ new'[w] = NULL
      /\ \A v \in Workers \ {w} : pc'[v] = pc[v] /\ base'[v] = base[v] /\ new'[v] = new[v]
  BY <1>2 DEF ListInv, TypeOK
<1>5. ClaimInv'
  BY <1>1, <1>2, <1>4 DEF ListInv, TypeOK, ClaimInv
<1>6. NewInv'
  BY <1>1, <1>3, <1>4, NullNotNode DEF ListInv, NewInv, HasNew, TypeOK
<1>7. TailInv' /\ LabelInv' /\ FailsOnlyWhenFull' /\ PrecedesIsOrder'
  BY <1>1, <1>4 DEF ListInv, TailInv, LabelInv, FailsOnlyWhenFull, PrecedesIsOrder, Unlinked
<1>8. SuccInv'
  <2>1. ~Unlinked(w) /\ ~Unlinked(w)'
        /\ \A v \in Workers \ {w} : Unlinked(v)' = Unlinked(v) /\ new'[v] = new[v]
    BY <1>2, <1>4 DEF Unlinked
  <2> QED
    BY <1>1, <2>1 DEF ListInv, SuccInv
<1> QED
  BY <1>3, <1>5, <1>6, <1>7, <1>8 DEF ListInv

(* base->next = n puts the node, whose label lies between its neighbours', *)
(* before everything that was after the base.                              *)
LEMMA PublishKeeps ==
  ASSUME ListInv, NEW w \in Workers, Publish(w)
  PROVE  ListInv'
PROOF
<1> DEFINE b == base[w]
           n == new[w]
<1>1. /\ pc[w] = "publish" /\ pc' = [pc EXCEPT ![w] = "prev"]
      /\ next' = [next EXCEPT ![b] = n]
      /\ UNCHANGED <<alloc, label, prev, tail, active, base, new>>
  BY DEF Publish, Goto
<1>2. after' = after \cup {<<b, n>>}
                     \cup {<<x, n>> : x \in {x \in Nodes : <<x, b>> \in after}}
                     \cup {<<n, y>> : y \in {y \in Nodes : <<b, y>> \in after}}
  BY DEF Publish
<1>3. /\ n \in alloc /\ n \in Nodes /\ n # NULL
      /\ b \in alloc /\ b \in Nodes /\ b # n /\ b # tail
      /\ next[n] = next[b]
  BY <1>1, NullNotNode DEF ListInv, TypeOK, NewInv, TailInv, ClaimInv, HasNew
<1>4. pc'[w] = "prev" /\ \A v \in Workers \ {w} : pc'[v] = pc[v]
  BY <1>1 DEF ListInv, TypeOK
<1>5. next'[b] = n /\ \A x \in Nodes \ {b} : next'[x] = next[x]
  BY <1>1, <1>3 DEF ListInv, TypeOK
<1>6. after \in SUBSET (Nodes \X Nodes)
  BY DEF ListInv, TypeOK
<1>7. TypeOK'
  <2>1. after' \in SUBSET (Nodes \X Nodes)
    <3>1. ASSUME NEW p \in after' PROVE p \in Nodes \X Nodes
      <4>1. \/ p \in after \/ p = <<b, n>>
            \/ \E x \in Nodes : p = <<x, n>>
            \/ \E y \in Nodes : p = <<n, y>>
        BY <1>2, <3>1
      <4> QED
        BY <1>3, <1>6, <4>1
    <3> QED
      BY <3>1
  <2> QED
    BY <1>1, <1>3, <2>1 DEF ListInv, TypeOK, Points
<1>8. \A x, y \in Nodes : <<x, y>> \in after' <=>
        \/ <<x, y>> \in after
        \/ x = b /\ y = n
        \/ y = n /\ <<x, b>> \in after
        \/ x = n /\ <<b, y>> \in after
  BY <1>2
<1> HIDE DEF b, n
<1>9. /\ ClaimInv' /\ NewInv'
      /\ \A v \in Workers \ {w} : pc[v] # "idle" => base[v] \in Nodes /\ base[v] # b
  BY <1>1, <1>4 DEF ListInv, TypeOK, ClaimInv, NewInv, HasNew, b
<1>10. \A v \in Workers \ {w} : pc[v] # "idle" => next'[base[v]] = next[base[v]]
  BY <1>5, <1>9
<1>11. \A v \in Workers \ {w} : HasNew(v) => /\ new[v] \in Nodes
                                             /\ next'[new[v]] = next[new[v]]
  BY <1>1, <1>5 DEF ListInv, TypeOK, NewInv, b, HasNew
<1>12. TailInv'
  BY <1>1, <1>3, <1>4, <1>5, <1>10, <1>11 DEF ListInv, TypeOK, TailInv, HasNew
<1>13. LabelInv' /\ FailsOnlyWhenFull'
  BY <1>1, <1>4, <1>10 DEF ListInv, LabelInv, FailsOnlyWhenFull, Unlinked
<1>14. /\ Unlinked(w) /\ ~Unlinked(w)'
       /\ \A v \in Workers \ {w} : Unlinked(v)' = Unlinked(v)
       /\ \A v \in Workers : Unlinked(v) => new[v] # b
       /\ \A v \in Workers \ {w} : Unlinked(v) => new[v] # n
  BY <1>1, <1>4 DEF ListInv, NewInv, Unlinked, HasNew, b, n
<1>15. next[b] # NULL => <<b, next[b]>> \in after
  BY <1>3, <1>14 DEF ListInv, SuccInv
<1>16. \A x, y \in Nodes : <<x, y>> \in after => label[x] < label[y]
  BY DEF ListInv, PrecedesIsOrder
<1>17. \A x \in Nodes : label[x] \in Int
  BY LabelAssumption DEF ListInv, TypeOK, Label
<1>18. \A x, y \in Nodes : <<x, y>> \in after =>
         x \in alloc /\ y \in alloc /\ next[x] # NULL
         /\ (y = next[x] \/ <<next[x], y>> \in after)
  BY DEF ListInv, SuccInv
<1>19. \A x \in Nodes : next[x] \in Nodes \cup {NULL}
  BY DEF ListInv, TypeOK
<1>20. \A x, y \in Nodes : <<x, y>> \in after' => label[x] < label[y]
  <2>1. label[b] < label[n] /\ (next[b] # NULL => label[n] < label[next[b]])
    BY <1>14 DEF ListInv, LabelInv, b, n
  <2>2. \A y \in Nodes : <<b, y>> \in after => label[n] < label[y]
    <3> SUFFICES ASSUME NEW y \in Nodes, <<b, y>> \in after
                 PROVE  label[n] < label[y]
      OBVIOUS
    <3> DEFINE z == next[b]
    <3>1. z \in Nodes /\ (y = z \/ <<z, y>> \in after) /\ label[n] < label[z]
      BY <1>3, <1>18, <1>19, <2>1
    <3>2. y = z \/ label[z] < label[y]
      BY <1>16, <3>1
    <3> QED
      BY <1>3, <1>17, <3>1, <3>2
  <2>3. \A x \in Nodes : <<x, b>> \in after => label[x] < label[n]
    BY <1>3, <1>16, <1>17, <2>1
  <2> QED
    BY <1>8, <1>16, <2>1, <2>2, <2>3
<1>21. PrecedesIsOrder'
  <2>1. after' \subseteq Nodes \X Nodes /\ label' = label
    BY <1>1, <1>7 DEF TypeOK
  <2> QED
    BY <1>20, <2>1 DEF PrecedesIsOrder
<1>22. SuccInv'
  <2>1. (\A p \in after : p[1] \in alloc /\ p[2] \in alloc)'
    <3>1. \A x, y \in Nodes : <<x, y>> \in after' => x \in alloc /\ y \in alloc
      BY <1>3, <1>8, <1>18
    <3> QED
      BY <1>1, <1>7, <3>1 DEF TypeOK
  <2>2. (\A x \in alloc : next[x] # NULL /\ (\A v \in Workers : Unlinked(v) => new[v] # x)
             => <<x, next[x]>> \in after)'
    <3> SUFFICES ASSUME NEW x \in alloc, next'[x] # NULL,
                        \A v \in Workers : Unlinked(v)' => new'[v] # x
                 PROVE  <<x, next'[x]>> \in after'
      BY <1>1
    <3>1. x \in Nodes
      BY DEF ListInv, TypeOK
    <3>2. CASE x = b
      BY <1>3, <1>5, <1>8, <3>2
    <3>3. CASE x = n
      BY <1>3, <1>5, <1>8, <1>15, <1>19, <3>3
    <3>4. CASE x # b /\ x # n
      <4>1. \A v \in Workers : Unlinked(v) => new[v] # x
        BY <1>1, <1>14, <3>4 DEF n
      <4> QED
        BY <1>5, <1>8, <1>19, <3>1, <3>4, <4>1 DEF ListInv, SuccInv
    <3> QED
      BY <3>2, <3>3, <3>4
  <2>3. ASSUME NEW x \in Nodes, NEW y \in Nodes, <<x, y>> \in after'
        PROVE  next'[x] # NULL /\ (y = next'[x] \/ <<next'[x], y>> \in after')
    <3>1. CASE x = b
      BY <1>3, <1>5, <1>8, <1>16, <1>17, <2>3, <3>1
    <3>2. CASE x = n
      <4>1. y # n
        BY <1>1, <1>17, <1>20, <2>3, <3>2
      <4>2. <<n, y>> \notin after
        BY <1>3, <1>14 DEF ListInv, SuccInv, n
      <4>3. <<b, y>> \in after
        BY <1>3, <1>8, <2>3, <3>2, <4>1, <4>2
      <4> QED
        BY <1>3, <1>5, <1>8, <1>18, <1>19, <3>2, <4>3
    <3>3. CASE x # b /\ x # n
      BY <1>3, <1>5, <1>8, <1>18, <1>19, <2>3, <3>3
    <3> QED
      BY <3>1, <3>2, <3>3
  <2>4. ASSUME NEW x \in Nodes, NEW y \in Nodes, <<x, y>> \in after',
               NEW v \in Workers, Unlinked(v)'
        PROVE  new'[v] # x
    <3>1. v # w /\ Unlinked(v) /\ new'[v] = new[v]
      BY <1>1, <1>14, <2>4
    <3> QED
      BY <1>3, <1>8, <1>14, <2>4, <3>1 DEF ListInv, SuccInv
  <2> QED
    BY <2>1, <2>2, <2>3, <2>4 DEF SuccInv
<1> QED
  BY <1>7, <1>9, <1>12, <1>13, <1>21, <1>22 DEF ListInv

(* The invariant holds in every state, for every label width, any number   *)
(* of workers and of nodes.                                                *)
THEOREM ListInvariant == Spec => []ListInv
PROOF
<1>1. Init => ListInv
  BY InitList
<1>2. ASSUME ListInv, [Next]_vars PROVE ListInv'
  <2>1. CASE Next
    <3>1. PICK w \in Workers : Step(w)
      BY <2>1 DEF Next
    <3> QED
      BY <1>2, <3>1, ClaimKeeps, NewNodeKeeps, TestTailKeeps, PrevKeeps, PublishKeeps,
         ReleaseKeeps DEF Step
  <2>2. CASE UNCHANGED vars
    BY <1>2, <2>2 DEF vars, nodeVars, ListInv, TypeOK, ClaimInv, NewInv, TailInv, LabelInv,
       SuccInv, PrecedesIsOrder, FailsOnlyWhenFull, HasNew, Unlinked
  <2> QED
    BY <1>2, <2>1, <2>2
<1> QED
  BY <1>1, <1>2, PTL DEF Spec

(* The fields of every node and every local keep their type: no label      *)
(* leaves the range of label_t, and links lead to nodes of the list.       *)
THEOREM ListTypeCorrect == Spec => []TypeOK
BY ListInvariant, PTL DEF ListInv

(* bl_precedes is the order of insertion at every step of every            *)
(* interleaving of bl_insert.                                              *)
THEOREM LabelsAreOrder == Spec => []PrecedesIsOrder
BY ListInvariant, PTL DEF ListInv

(* bl_insert returns NULL only when no label is left after its base.       *)
THEOREM InsertFailsOnlyWhenFull == Spec => []FailsOnlyWhenFull
BY ListInvariant, PTL DEF ListInv

-----------------------------------------------------------------------------
(* The links.  *)

(* A node is in the list from the store to its base's next on. *)
Linked(x) == x \in alloc /\ \A w \in Workers : Unlinked(w) => new[w] # x

(* The successor of a node points back to it, or a worker whose base the   *)
(* node is has yet to store one of the two links.                          *)
BackOK(x) ==
  next[x] # NULL =>
    \/ prev[next[x]] = x
    \/ \E w \in Workers :
         /\ base[w] = x
         /\ \/ pc[w] = "publish" /\ prev[next[x]] = new[w]
            \/ pc[w] = "prev" /\ new[w] = next[x]

(* A node is the successor of the one it points back to, or will be once a *)
(* worker has published its node.                                          *)
ForthOK(x) ==
  prev[x] # NULL =>
    \/ next[prev[x]] = x
    \/ \E w \in Workers : /\ pc[w] = "publish" /\ prev[x] = new[w]
                          /\ x = next[base[w]]

(* Only the tail has no successor, or the base of a worker about to give   *)
(* it one.                                                                 *)
EndOK(x) ==
  next[x] = NULL => \/ x = tail
                    \/ \E w \in Workers : base[w] = x /\ pc[w] = "publish"

NodeInv == \A x \in Nodes : Linked(x) => BackOK(x) /\ ForthOK(x) /\ EndOK(x)

(* What a worker knows of the links it has stored. *)
StoreOK(w) ==
  /\ Unlinked(w) \/ pc[w] = "prev" => prev[new[w]] = NULL
  /\ pc[w] = "tail" => next[new[w]] = NULL
  /\ pc[w] = "publish" => IF next[base[w]] = NULL THEN new[w] = tail
                          ELSE prev[next[base[w]]] = new[w]
  /\ pc[w] \in {"prev", "release"} => next[base[w]] = new[w]
  /\ pc[w] = "release" => prev[new[w]] = base[w]

StoreInv == \A w \in Workers : StoreOK(w)

(* Nodes not in use have no links, and what was put after a node is in the *)
(* list.                                                                   *)
FreshInv == /\ \A x \in Nodes : x \notin alloc => prev[x] = NULL /\ next[x] = NULL
            /\ \A x, y \in Nodes : <<x, y>> \in after => Linked(y)

(* The first node stays first. *)
FirstInv ==
  /\ First \in Nodes /\ Linked(First) /\ prev[First] = NULL
  /\ \A x \in Nodes : <<x, First>> \notin after
  /\ \A x \in Nodes : Linked(x) /\ x # First => <<First, x>> \in after

LinkInv == NodeInv /\ StoreInv /\ FreshInv /\ FirstInv

(* The base of an insert is in the list, with its successor, and is no     *)
(* other's base.                                                           *)
LEMMA BaseLinked ==
  ASSUME ListInv, LinkInv, NEW w \in Workers, pc[w] # "idle"
  PROVE  /\ base[w] \in Nodes /\ Linked(base[w])
         /\ next[base[w]] # NULL => /\ next[base[w]] \in Nodes
                                    /\ Linked(next[base[w]])
                                    /\ next[base[w]] # First
         /\ \A v \in Workers : v # w /\ pc[v] # "idle" => base[v] # base[w]
PROOF
<1>1. base[w] \in Nodes /\ base[w] \in alloc
  BY DEF ListInv, TypeOK, ClaimInv
<1>2. \A v \in Workers : Unlinked(v) => new[v] # base[w]
  BY DEF ListInv, NewInv, HasNew, Unlinked
<1>3. ASSUME next[base[w]] # NULL
      PROVE  next[base[w]] \in Nodes /\ <<base[w], next[base[w]]>> \in after
  BY <1>1, <1>2, <1>3 DEF ListInv, TypeOK, SuccInv
<1>4. next[base[w]] # NULL => Linked(next[base[w]]) /\ next[base[w]] # First
  BY <1>1, <1>3 DEF LinkInv, FreshInv, FirstInv
<1>5. \A v \in Workers : v # w /\ pc[v] # "idle" => base[v] # base[w]
  BY DEF ListInv, ClaimInv
<1> QED
  BY <1>1, <1>2, <1>3, <1>4, <1>5 DEF Linked

(* The node of an insert is its own, and outside the list until published. *)
LEMMA NewOwned ==
  ASSUME ListInv, LinkInv, NEW w \in Workers, HasNew(w)
  PROVE  /\ new[w] \in Nodes /\ new[w] \in alloc /\ new[w] # NULL
         /\ Unlinked(w) => ~Linked(new[w]) /\ new[w] # First
         /\ ~Unlinked(w) => Linked(new[w])
         /\ \A v \in Workers : v # w => new[v] # new[w]
         /\ \A v \in Workers : pc[v] # "idle" => base[v] # new[w]
PROOF
<1>1. /\ new[w] \in alloc
      /\ \A v \in Workers : v # w => new[v] # new[w]
      /\ \A v \in Workers : pc[v] # "idle" => base[v] # new[w]
  BY DEF ListInv, NewInv
<1>2. new[w] \in Nodes /\ new[w] # NULL
  BY <1>1, NullNotNode DEF ListInv, TypeOK
<1>3. Unlinked(w) => ~Linked(new[w]) /\ new[w] # First
  BY DEF Linked, LinkInv, FirstInv
<1>4. ~Unlinked(w) => Linked(new[w])
  BY <1>1 DEF Linked
<1> QED
  BY <1>1, <1>2, <1>3, <1>4

(* Two nodes of the list never have the same successor. *)
LEMMA OneBefore ==
  ASSUME ListInv, LinkInv, NEW x \in Nodes, NEW b \in Nodes, Linked(x), Linked(b),
         next[x] # NULL, next[x] = next[b]
  PROVE  x = b
PROOF
<1> SUFFICES ASSUME x # b PROVE FALSE
  OBVIOUS
<1>1. BackOK(x) /\ BackOK(b)
  BY DEF LinkInv, NodeInv
<1>2. x # NULL /\ b # NULL
  BY NullNotNode
<1>3. \A w \in Workers : pc[w] \in {"publish", "prev"} => HasNew(w) /\ new[w] # NULL
  BY NewOwned DEF HasNew
<1>4. \A w \in Workers : pc[w] = "publish" => ~Linked(new[w])
  BY NewOwned DEF HasNew, Unlinked
<1>5. \A w \in Workers : pc[w] = "prev" => prev[new[w]] = NULL
  BY DEF LinkInv, StoreInv, StoreOK
<1>6. \A v, w \in Workers : HasNew(w) /\ new[v] = new[w] => v = w
  BY NewOwned
<1>7. CASE prev[next[x]] = x
  BY <1>1, <1>2, <1>4, <1>5, <1>7 DEF BackOK
<1>8. ASSUME NEW w \in Workers, base[w] = x, pc[w] = "publish", prev[next[x]] = new[w]
      PROVE  FALSE
  BY <1>1, <1>3, <1>4, <1>5, <1>6, <1>8 DEF BackOK
<1>9. ASSUME NEW w \in Workers, base[w] = x, pc[w] = "prev", new[w] = next[x]
      PROVE  FALSE
  BY <1>1, <1>2, <1>3, <1>5, <1>6, <1>9 DEF BackOK
<1> QED
  BY <1>1, <1>7, <1>8, <1>9 DEF BackOK

(* split leaves a list with all its links. *)
LEMMA InitLinks == Init => LinkInv
PROOF
<1> SUFFICES ASSUME NEW k \in 1 .. SublistSize,
      /\ alloc = 0 .. (k - 1)
      /\ next = [n \in Nodes |-> IF n < k - 1 THEN n + 1 ELSE NULL]
      /\ prev = [n \in Nodes |-> IF n < k THEN n - 1 ELSE NULL]
      /\ tail = k - 1
      /\ pc = [w \in Workers |-> "idle"]
      /\ after = {p \in (0 .. (k - 1)) \X (0 .. (k - 1)) : p[1] < p[2]}
    PROVE LinkInv
  BY DEF Init
<1>1. k \in Nat /\ k >= 1 /\ k <= MaxNodes /\ MaxNodes \in Nat
  BY SplitAssumption
<1>2. \A w \in Workers : ~Unlinked(w) /\ pc[w] = "idle"
  BY DEF Unlinked
<1>3. \A x \in Nodes : Linked(x) <=> x < k
  BY <1>1, <1>2 DEF Linked, Nodes
<1>4. ASSUME NEW x \in Nodes, x < k PROVE BackOK(x) /\ ForthOK(x) /\ EndOK(x)
  <2>1. x \in Int /\ 0 <= x /\ x <= MaxNodes - 1
    BY <1>1 DEF Nodes
  <2>2. BackOK(x)
    BY <1>1, <1>4, <2>1 DEF BackOK, Nodes
  <2>3. ForthOK(x)
    BY <1>1, <1>4, <2>1 DEF ForthOK, Nodes, NULL
  <2>4. EndOK(x)
    BY <1>1, <1>4, <2>1 DEF EndOK, Nodes, NULL
  <2> QED
    BY <2>2, <2>3, <2>4
<1>5. NodeInv
  BY <1>3, <1>4 DEF NodeInv
<1>6. StoreInv
  BY <1>2 DEF StoreInv, StoreOK
<1>7. \A x, y \in Nodes : <<x, y>> \in after <=> x < y /\ y < k
  BY <1>1 DEF Nodes
<1>8. FreshInv
  BY <1>1, <1>3, <1>7 DEF FreshInv, Nodes
<1>9. First \in Nodes /\ First = 0 /\ \A x \in Nodes : x \in Int /\ 0 <= x
  BY <1>1 DEF First, Nodes
<1>10. FirstInv
  BY <1>1, <1>3, <1>7, <1>9 DEF FirstInv, NULL
<1> QED
  BY <1>5, <1>6, <1>8, <1>10 DEF LinkInv

(* A step that touches no link and no worker at a store. *)
LEMMA LinksQuiet ==
  ASSUME LinkInv, NEW w \in Workers, UNCHANGED <<next, prev, tail, after>>,
         pc[w] \notin {"publish", "prev"}, alloc \subseteq alloc',
         \A x \in Nodes : Linked(x)' <=> Linked(x),
         \A v \in Workers : v # w => pc'[v] = pc[v] /\ base'[v] = base[v] /\ new'[v] = new[v],
         StoreOK(w)'
  PROVE  LinkInv'
PROOF
<1>1. NodeInv'
  <2> SUFFICES ASSUME NEW x \in Nodes, Linked(x) PROVE (BackOK(x) /\ ForthOK(x) /\ EndOK(x))'
    BY DEF NodeInv
  <2>1. BackOK(x) /\ ForthOK(x) /\ EndOK(x)
    BY DEF LinkInv, NodeInv
  <2>2. BackOK(x)'
    BY <2>1 DEF BackOK
  <2>3. ForthOK(x)'
    BY <2>1 DEF ForthOK
  <2>4. EndOK(x)'
    BY <2>1 DEF EndOK
  <2> QED
    BY <2>2, <2>3, <2>4
<1>2. StoreInv'
  <2>1. ASSUME NEW v \in Workers, v # w PROVE StoreOK(v)'
    <3>1. StoreOK(v) /\ pc'[v] = pc[v] /\ base'[v] = base[v] /\ new'[v] = new[v]
      BY <2>1 DEF LinkInv, StoreInv
    <3> QED
      BY <3>1 DEF StoreOK, Unlinked
  <2> QED
    BY <2>1 DEF StoreInv
<1>3. FreshInv'
  BY DEF LinkInv, FreshInv
<1>4. FirstInv'
  BY DEF LinkInv, FirstInv
<1> QED
  BY <1>1, <1>2, <1>3, <1>4 DEF LinkInv

(* Claiming a base, allocating a node and returning it touch no link. *)
LEMMA ClaimLinks ==
  ASSUME ListInv, LinkInv, NEW w \in Workers, Claim(w)
  PROVE  LinkInv'
PROOF
<1>1. /\ UNCHANGED <<alloc, next, prev, tail, new, after>>
      /\ pc[w] = "idle" /\ pc'[w] = "label"
      /\ \A v \in Workers : v # w => pc'[v] = pc[v]
  BY DEF Claim, Goto, ListInv, TypeOK
<1>2. \A v \in Workers : v # w => base'[v] = base[v]
  BY DEF Claim, ListInv, TypeOK
<1>3. \A v \in Workers : Unlinked(v)' <=> Unlinked(v)
  BY <1>1 DEF Unlinked
<1>4. \A x \in Nodes : Linked(x)' <=> Linked(x)
  BY <1>1, <1>3 DEF Linked
<1>5. StoreOK(w)'
  BY <1>1 DEF StoreOK, Unlinked
<1> QED
  BY <1>1, <1>2, <1>4, <1>5, LinksQuiet

(* The end of an insert forgets the base and the new node only. *)
LEMMA ReleaseLinks ==
  ASSUME ListInv, LinkInv, NEW w \in Workers, Release(w)
  PROVE  LinkInv'
PROOF
<1>1. /\ UNCHANGED <<alloc, next, prev, tail, after>>
      /\ pc[w] \in {"release", "failed"} /\ pc'[w] = "idle"
      /\ \A v \in Workers : v # w => pc'[v] = pc[v]
  BY DEF Release, Goto, ListInv, TypeOK
<1>2. \A v \in Workers : v # w => base'[v] = base[v] /\ new'[v] = new[v]
  BY DEF Release, ListInv, TypeOK
<1>3. /\ ~Unlinked(w) /\ ~Unlinked(w)'
      /\ \A v \in Workers : v # w => (Unlinked(v)' <=> Unlinked(v))
  BY <1>1 DEF Unlinked
<1>4. \A x \in Nodes : Linked(x)' <=> Linked(x)
  BY <1>1, <1>2, <1>3 DEF Linked
<1>5. StoreOK(w)'
  BY <1>1 DEF StoreOK, Unlinked
<1> QED
  BY <1>1, <1>2, <1>4, <1>5, LinksQuiet

(* A new node has no links yet. *)
LEMMA NewNodeLinks ==
  ASSUME ListInv, LinkInv, NEW w \in Workers, NewNode(w)
  PROVE  LinkInv'
PROOF
<1>1. pc[w] = "label" /\ UNCHANGED <<next, prev, tail, base, after>>
  BY DEF NewNode
<1>2. CASE pc' = [pc EXCEPT ![w] = "failed"] /\ UNCHANGED <<alloc, new>>
  <2>1. pc'[w] = "failed" /\ \A v \in Workers : v # w => pc'[v] = pc[v]
    BY <1>2 DEF ListInv, TypeOK
  <2>2. \A v \in Workers : Unlinked(v)' <=> Unlinked(v)
    BY <1>1, <2>1 DEF Unlinked
  <2>3. \A x \in Nodes : Linked(x)' <=> Linked(x)
    BY <1>2, <2>2 DEF Linked
  <2>4. StoreOK(w)'
    BY <2>1 DEF StoreOK, Unlinked
  <2> QED
    BY <1>1, <1>2, <2>1, <2>3, <2>4, LinksQuiet
<1>3. ASSUME NEW n \in Nodes \ alloc, alloc' = alloc \cup {n},
             new' = [new EXCEPT ![w] = n], pc' = [pc EXCEPT ![w] = "tail"]
      PROVE  LinkInv'
  <2>1. /\ pc'[w] = "tail" /\ new'[w] = n
        /\ \A v \in Workers : v # w => pc'[v] = pc[v] /\ new'[v] = new[v]
    BY <1>3 DEF ListInv, TypeOK
  <2>2. /\ ~Unlinked(w) /\ Unlinked(w)'
        /\ \A v \in Workers : v # w => (Unlinked(v)' <=> Unlinked(v))
    BY <1>1, <2>1 DEF Unlinked
  <2>3. \A x \in Nodes : Linked(x)' <=> Linked(x)
    BY <1>3, <2>1, <2>2 DEF Linked
  <2>4. prev[n] = NULL /\ next[n] = NULL
    BY <1>3 DEF LinkInv, FreshInv
  <2>5. StoreOK(w)'
    BY <1>1, <2>1, <2>4 DEF StoreOK
  <2> QED
    BY <1>1, <1>3, <2>1, <2>3, <2>5, LinksQuiet
<1> QED
  BY <1>2, <1>3 DEF NewNode, Goto

(* n->next is stored in a node outside the list; the tail moves from a     *)
(* base about to get its successor.                                        *)
LEMMA TestTailLinks ==
  ASSUME ListInv, LinkInv, NEW w \in Workers, TestTail(w)
  PROVE  LinkInv'
PROOF
<1> PICK n, b : n = new[w] /\ b = base[w]
  OBVIOUS
<1>1. pc[w] = "tail" /\ UNCHANGED <<alloc, prev, base, new, after>>
  BY DEF TestTail, Goto
<1>2. HasNew(w) /\ Unlinked(w)
  BY <1>1 DEF HasNew, Unlinked
<1>3. /\ n \in Nodes /\ n \in alloc /\ ~Linked(n)
      /\ \A v \in Workers : v # w => new[v] # n
      /\ \A v \in Workers : pc[v] # "idle" => base[v] # n
  BY <1>2, NewOwned
<1>4. \/ b = tail /\ pc' = [pc EXCEPT ![w] = "publish"] /\ tail' = n
      \/ b # tail /\ pc' = [pc EXCEPT ![w] = "back"] /\ tail' = tail
  BY DEF TestTail, Goto
<1>5. /\ pc'[w] \in {"back", "publish"} /\ (pc'[w] = "publish" <=> b = tail)
      /\ \A v \in Workers : v # w => pc'[v] = pc[v]
  BY <1>4 DEF ListInv, TypeOK
<1>6. \A x \in Nodes : x # n => next'[x] = next[x]
  BY <1>3 DEF TestTail, ListInv, TypeOK
<1>7. \A v \in Workers : Unlinked(v)' <=> Unlinked(v)
  BY <1>1, <1>5 DEF Unlinked
<1>8. \A x \in Nodes : Linked(x)' <=> Linked(x)
  BY <1>1, <1>7 DEF Linked
<1>9. \A v \in Workers : pc[v] # "idle" => base[v] \in Nodes /\ next'[base[v]] = next[base[v]]
  BY <1>3, <1>6, BaseLinked
<1>10. next[tail] = NULL /\ b \in Nodes /\ next'[b] = next[b]
       /\ \A v \in Workers : v # w /\ HasNew(v) => new[v] # b
  BY <1>1, <1>9, NewOwned DEF ListInv, TailInv
<1>11. StoreOK(w) /\ next[n] = NULL
  BY <1>1 DEF LinkInv, StoreInv, StoreOK
<1>12. NodeInv'
  <2> SUFFICES ASSUME NEW x \in Nodes, Linked(x) PROVE (BackOK(x) /\ ForthOK(x) /\ EndOK(x))'
    BY <1>8 DEF NodeInv
  <2>1. BackOK(x) /\ ForthOK(x) /\ EndOK(x) /\ x # n /\ next'[x] = next[x]
    BY <1>3, <1>6 DEF LinkInv, NodeInv
  <2>2. BackOK(x)'
    <3> SUFFICES ASSUME next[x] # NULL, prev[next[x]] # x PROVE BackOK(x)'
      BY <1>1, <2>1 DEF BackOK
    <3>1. PICK v \in Workers :
            /\ base[v] = x
            /\ \/ pc[v] = "publish" /\ prev[next[x]] = new[v]
               \/ pc[v] = "prev" /\ new[v] = next[x]
      BY <2>1 DEF BackOK
    <3>2. pc'[v] = pc[v]
      BY <1>1, <1>5, <3>1
    <3> QED
      BY <1>1, <2>1, <3>1, <3>2 DEF BackOK
  <2>3. ForthOK(x)'
    <3> SUFFICES ASSUME prev[x] # NULL PROVE ForthOK(x)'
      BY <1>1 DEF ForthOK
    <3>1. prev[x] \in Nodes
      BY DEF ListInv, TypeOK
    <3>2. CASE next[prev[x]] = x
      BY <1>1, <1>6, <1>11, <3>1, <3>2, NullNotNode DEF ForthOK
    <3>3. ASSUME NEW v \in Workers, pc[v] = "publish", prev[x] = new[v], x = next[base[v]]
          PROVE  ForthOK(x)'
      BY <1>1, <1>5, <1>9, <3>3 DEF ForthOK
    <3> QED
      BY <2>1, <3>2, <3>3 DEF ForthOK
  <2>4. EndOK(x)'
    <3>1. CASE x = tail
      BY <1>1, <1>4, <1>5, <3>1 DEF EndOK
    <3>2. ASSUME NEW v \in Workers, base[v] = x, pc[v] = "publish" PROVE EndOK(x)'
      BY <1>1, <1>5, <3>2 DEF EndOK
    <3> QED
      BY <2>1, <3>1, <3>2 DEF EndOK
  <2> QED
    BY <2>2, <2>3, <2>4
<1>13. StoreInv'
  <2>1. StoreOK(w)'
    <3>1. prev'[n] = NULL
      BY <1>1, <1>2, <1>11 DEF StoreOK
    <3>2. pc'[w] = "publish" => next'[b] = NULL /\ tail' = n
      BY <1>4, <1>5, <1>10
    <3> QED
      BY <1>1, <1>5, <3>1, <3>2 DEF StoreOK
  <2>2. ASSUME NEW v \in Workers, v # w PROVE StoreOK(v)'
    <3>1. StoreOK(v) /\ pc'[v] = pc[v] /\ base'[v] = base[v] /\ new'[v] = new[v] /\ new[v] # n
      BY <1>1, <1>3, <1>5, <2>2 DEF LinkInv, StoreInv
    <3>2. pc[v] = "tail" => next'[new[v]] = NULL
      <4>1. pc[v] = "tail" => new[v] \in Nodes
        BY NewOwned DEF HasNew
      <4> QED
        BY <1>6, <3>1, <4>1 DEF StoreOK
    <3>3. pc[v] = "publish" => new[v] # b
      BY <1>10, <2>2 DEF HasNew
    <3>4. pc[v] # "idle" => next'[base[v]] = next[base[v]]
      BY <1>9
    <3>5. pc[v] = "publish" /\ new[v] = tail => tail' = tail
      BY <1>4, <3>3
    <3> QED
      BY <1>1, <1>7, <3>1, <3>2, <3>4, <3>5 DEF StoreOK
  <2> QED
    BY <2>1, <2>2 DEF StoreInv
<1>14. FreshInv'
  BY <1>1, <1>3, <1>6, <1>8 DEF LinkInv, FreshInv
<1>15. FirstInv'
  BY <1>1, <1>8 DEF LinkInv, FirstInv
<1> QED
  BY <1>12, <1>13, <1>14, <1>15 DEF LinkInv
(* base->next->prev = n: only the base has that successor, so only the     *)
(* base waits for the other link.                                          *)
LEMMA LinkBackLinks ==
  ASSUME ListInv, LinkInv, NEW w \in Workers, LinkBack(w)
  PROVE  LinkInv'
PROOF
<1> PICK n, b, y : n = new[w] /\ b = base[w] /\ y = next[base[w]]
  OBVIOUS
<1>1. /\ pc[w] = "back" /\ pc' = [pc EXCEPT ![w] = "publish"]
      /\ prev' = [prev EXCEPT ![y] = n]
      /\ UNCHANGED <<alloc, next, tail, base, new, after>>
  BY DEF LinkBack, Goto
<1>2. pc'[w] = "publish" /\ \A v \in Workers : v # w => pc'[v] = pc[v]
  BY <1>1 DEF ListInv, TypeOK
<1>3. b \in Nodes /\ Linked(b) /\ \A v \in Workers : v # w /\ pc[v] # "idle" => base[v] # b
  BY <1>1, BaseLinked
<1>4. b # tail /\ EndOK(b)
  BY <1>1, <1>3 DEF ListInv, TailInv, LinkInv, NodeInv
<1>5. y # NULL
  BY <1>1, <1>3, <1>4 DEF EndOK
<1>6. y \in Nodes /\ Linked(y) /\ y # First
  BY <1>1, <1>5, BaseLinked
<1>7. HasNew(w) /\ Unlinked(w)
  BY <1>1 DEF HasNew, Unlinked
<1>8. n \in Nodes /\ ~Linked(n)
  BY <1>7, NewOwned
<1>9. prev'[y] = n /\ \A x \in Nodes : x # y => prev'[x] = prev[x]
  BY <1>1, <1>6 DEF ListInv, TypeOK
<1>10. \A v \in Workers : Unlinked(v)' <=> Unlinked(v)
  BY <1>1, <1>2 DEF Unlinked
<1>11. \A x \in Nodes : Linked(x)' <=> Linked(x)
  BY <1>1, <1>10 DEF Linked
<1>12. \A x \in Nodes : Linked(x) /\ next[x] = y => x = b
  BY <1>3, <1>5, OneBefore
<1>13. \A v \in Workers : v # w /\ pc[v] # "idle" => base[v] \in Nodes /\ next[base[v]] # y
  BY <1>3, <1>12, BaseLinked
<1>14. NodeInv'
  <2> SUFFICES ASSUME NEW x \in Nodes, Linked(x) PROVE (BackOK(x) /\ ForthOK(x) /\ EndOK(x))'
    BY <1>11 DEF NodeInv
  <2>1. BackOK(x) /\ ForthOK(x) /\ EndOK(x)
    BY DEF LinkInv, NodeInv
  <2>2. BackOK(x)'
    <3>1. CASE next[x] = y
      BY <1>1, <1>2, <1>9, <1>12, <3>1 DEF BackOK
    <3>2. CASE next[x] # NULL /\ next[x] # y
      <4>1. next[x] \in Nodes /\ prev'[next[x]] = prev[next[x]]
        BY <1>9, <3>2 DEF ListInv, TypeOK
      <4> QED
        BY <1>1, <1>2, <2>1, <3>2, <4>1 DEF BackOK
    <3>3. CASE next[x] = NULL
      BY <1>1, <3>3 DEF BackOK
    <3> QED
      BY <3>1, <3>2, <3>3
  <2>3. ForthOK(x)'
    <3>1. CASE x = y
      BY <1>1, <1>2, <1>9, <3>1 DEF ForthOK
    <3>2. CASE x # y
      BY <1>1, <1>2, <1>9, <2>1, <3>2 DEF ForthOK
    <3> QED
      BY <3>1, <3>2
  <2>4. EndOK(x)'
    BY <1>1, <1>2, <2>1 DEF EndOK
  <2> QED
    BY <2>2, <2>3, <2>4
<1>15. StoreInv'
  <2>1. StoreOK(w)'
    <3>1. prev[n] = NULL /\ n # y
      BY <1>6, <1>7, <1>8 DEF LinkInv, StoreInv, StoreOK
    <3> QED
      BY <1>1, <1>2, <1>5, <1>8, <1>9, <3>1 DEF StoreOK
  <2>2. ASSUME NEW v \in Workers, v # w PROVE StoreOK(v)'
    <3>1. StoreOK(v) /\ pc'[v] = pc[v] /\ base'[v] = base[v] /\ new'[v] = new[v]
      BY <1>1, <1>2, <2>2 DEF LinkInv, StoreInv
    <3>2. pc[v] # "idle" /\ next[base[v]] # NULL =>
            prev'[next[base[v]]] = prev[next[base[v]]]
      BY <1>9, <1>13, <2>2 DEF ListInv, TypeOK
    <3>3. ASSUME HasNew(v) PROVE prev'[new[v]] = prev[new[v]]
      <4>1. new[v] \in Nodes /\ (Unlinked(v) => ~Linked(new[v]))
        BY <3>3, NewOwned
      <4>2. Unlinked(v) \/ pc[v] \in {"prev", "release"}
        BY <3>3 DEF HasNew, Unlinked
      <4>3. pc[v] \in {"prev", "release"} => next[base[v]] = new[v]
        BY <3>1 DEF StoreOK
      <4>4. new[v] # y
        BY <1>6, <1>13, <2>2, <4>1, <4>2, <4>3
      <4> QED
        BY <1>9, <4>1, <4>4
    <3> QED
      BY <1>1, <1>10, <3>1, <3>2, <3>3 DEF StoreOK, HasNew, Unlinked
  <2> QED
    BY <2>1, <2>2 DEF StoreInv
<1>16. FreshInv'
  BY <1>1, <1>6, <1>9, <1>11 DEF LinkInv, FreshInv, Linked
<1>17. FirstInv'
  BY <1>1, <1>6, <1>9, <1>11 DEF LinkInv, FirstInv
<1> QED
  BY <1>14, <1>15, <1>16, <1>17 DEF LinkInv

(* n->prev = base: only the base has the new node as its successor. *)
LEMMA SetPrevLinks ==
  ASSUME ListInv, LinkInv, NEW w \in Workers, SetPrev(w)
  PROVE  LinkInv'
PROOF
<1> PICK n, b : n = new[w] /\ b = base[w]
  OBVIOUS
<1>1. /\ pc[w] = "prev" /\ pc' = [pc EXCEPT ![w] = "release"]
      /\ prev' = [prev EXCEPT ![n] = b]
      /\ UNCHANGED <<alloc, next, tail, base, new, after>>
  BY DEF SetPrev, Goto
<1>2. pc'[w] = "release" /\ \A v \in Workers : v # w => pc'[v] = pc[v]
  BY <1>1 DEF ListInv, TypeOK
<1>3. next[b] = n
  BY <1>1 DEF LinkInv, StoreInv, StoreOK
<1>4. HasNew(w) /\ ~Unlinked(w)
  BY <1>1 DEF HasNew, Unlinked
<1>5. n \in Nodes /\ n # NULL /\ n \in alloc /\ \A v \in Workers : v # w => new[v] # n
  BY <1>4, NewOwned
<1>6. b \in Nodes /\ Linked(b) /\ n # First
      /\ \A v \in Workers : v # w /\ pc[v] # "idle" => base[v] # b
  BY <1>1, <1>3, <1>5, BaseLinked
<1>7. prev'[n] = b /\ \A x \in Nodes : x # n => prev'[x] = prev[x]
  BY <1>1, <1>5 DEF ListInv, TypeOK
<1>8. \A v \in Workers : Unlinked(v)' <=> Unlinked(v)
  BY <1>1, <1>2 DEF Unlinked
<1>9. \A x \in Nodes : Linked(x)' <=> Linked(x)
  BY <1>1, <1>8 DEF Linked
<1>10. \A x \in Nodes : Linked(x) /\ next[x] = n => x = b
  BY <1>3, <1>5, <1>6, OneBefore
<1>11. \A v \in Workers : v # w /\ pc[v] # "idle" => base[v] \in Nodes /\ next[base[v]] # n
  BY <1>6, <1>10, BaseLinked
<1>12. NodeInv'
  <2> SUFFICES ASSUME NEW x \in Nodes, Linked(x) PROVE (BackOK(x) /\ ForthOK(x) /\ EndOK(x))'
    BY <1>9 DEF NodeInv
  <2>1. BackOK(x) /\ ForthOK(x) /\ EndOK(x)
    BY DEF LinkInv, NodeInv
  <2>2. BackOK(x)'
    <3>1. CASE next[x] = n
      BY <1>1, <1>7, <1>10, <3>1 DEF BackOK
    <3>2. CASE next[x] # NULL /\ next[x] # n
      <4>1. next[x] \in Nodes /\ prev'[next[x]] = prev[next[x]]
        BY <1>7, <3>2 DEF ListInv, TypeOK
      <4> QED
        BY <1>1, <1>2, <2>1, <3>2, <4>1 DEF BackOK
    <3>3. CASE next[x] = NULL
      BY <1>1, <3>3 DEF BackOK
    <3> QED
      BY <3>1, <3>2, <3>3
  <2>3. ForthOK(x)'
    <3>1. CASE x = n
      BY <1>1, <1>3, <1>7, <3>1 DEF ForthOK
    <3>2. CASE x # n
      BY <1>1, <1>2, <1>7, <2>1, <3>2 DEF ForthOK
    <3> QED
      BY <3>1, <3>2
  <2>4. EndOK(x)'
    BY <1>1, <1>2, <2>1 DEF EndOK
  <2> QED
    BY <2>2, <2>3, <2>4
<1>13. StoreInv'
  <2>1. StoreOK(w)'
    BY <1>1, <1>2, <1>3, <1>7 DEF StoreOK, Unlinked
  <2>2. ASSUME NEW v \in Workers, v # w PROVE StoreOK(v)'
    <3>1. /\ StoreOK(v) /\ pc'[v] = pc[v] /\ base'[v] = base[v] /\ new'[v] = new[v]
          /\ new[v] # n
      BY <1>1, <1>2, <1>5, <2>2 DEF LinkInv, StoreInv
    <3>2. pc[v] # "idle" /\ next[base[v]] # NULL =>
            prev'[next[base[v]]] = prev[next[base[v]]]
      BY <1>7, <1>11, <2>2 DEF ListInv, TypeOK
    <3>3. HasNew(v) => prev'[new[v]] = prev[new[v]]
      BY <1>7, <3>1, NewOwned
    <3> QED
      BY <1>1, <1>8, <3>1, <3>2, <3>3 DEF StoreOK, HasNew, Unlinked
  <2> QED
    BY <2>1, <2>2 DEF StoreInv
<1>14. FreshInv'
  BY <1>1, <1>5, <1>7, <1>9 DEF LinkInv, FreshInv
<1>15. FirstInv'
  BY <1>1, <1>6, <1>7, <1>9 DEF LinkInv, FirstInv
<1> QED
  BY <1>12, <1>13, <1>14, <1>15 DEF LinkInv

(* base->next = n: the node joins the list; its successor already points   *)
(* back to it.                                                             *)
LEMMA PublishLinks ==
  ASSUME ListInv, LinkInv, NEW w \in Workers, Publish(w)
  PROVE  LinkInv'
PROOF
<1> PICK n, b : n = new[w] /\ b = base[w]
  OBVIOUS
<1>1. /\ pc[w] = "publish" /\ pc' = [pc EXCEPT ![w] = "prev"]
      /\ next' = [next EXCEPT ![b] = n]
      /\ UNCHANGED <<alloc, prev, tail, base, new>>
  BY DEF Publish, Goto
<1>2. pc'[w] = "prev" /\ \A v \in Workers : v # w => pc'[v] = pc[v]
  BY <1>1 DEF ListInv, TypeOK
<1>3. HasNew(w) /\ Unlinked(w)
  BY <1>1 DEF HasNew, Unlinked
<1>4. /\ n \in Nodes /\ n # NULL /\ n \in alloc /\ n # First /\ ~Linked(n)
      /\ \A v \in Workers : v # w => new[v] # n
      /\ \A v \in Workers : pc[v] # "idle" => base[v] # n
  BY <1>3, NewOwned
<1>5. /\ b \in Nodes /\ Linked(b) /\ b # n
      /\ \A v \in Workers : v # w /\ pc[v] # "idle" => base[v] \in Nodes /\ base[v] # b
  BY <1>1, <1>4, BaseLinked
<1>6. next'[b] = n /\ \A x \in Nodes : x # b => next'[x] = next[x]
  BY <1>1, <1>5 DEF ListInv, TypeOK
<1>7. /\ next[n] = next[b] /\ prev[n] = NULL
      /\ IF next[b] = NULL THEN n = tail ELSE prev[next[b]] = n
  BY <1>1, <1>3 DEF ListInv, TailInv, LinkInv, StoreInv, StoreOK
<1>8. ~Unlinked(w)' /\ \A v \in Workers : v # w => (Unlinked(v)' <=> Unlinked(v))
  BY <1>2 DEF Unlinked
<1>9. \A x \in Nodes : Linked(x)' <=> Linked(x) \/ x = n
  BY <1>1, <1>3, <1>4, <1>8 DEF Linked
<1>10. \A x, y \in Nodes : <<x, y>> \in after' <=>
         \/ <<x, y>> \in after
         \/ x = b /\ y = n
         \/ y = n /\ <<x, b>> \in after
         \/ x = n /\ <<b, y>> \in after
  BY DEF Publish
<1>11. NodeInv'
  <2>1. BackOK(n)' /\ ForthOK(n)' /\ EndOK(n)'
    BY <1>1, <1>4, <1>5, <1>6, <1>7 DEF BackOK, ForthOK, EndOK
  <2>2. ASSUME NEW x \in Nodes, Linked(x) PROVE (BackOK(x) /\ ForthOK(x) /\ EndOK(x))'
    <3>1. BackOK(x) /\ ForthOK(x) /\ EndOK(x) /\ x # NULL
      BY <2>2, NullNotNode DEF LinkInv, NodeInv
    <3>2. BackOK(x)' /\ EndOK(x)'
      <4>1. CASE x = b
        BY <1>1, <1>2, <1>4, <1>6, <4>1 DEF BackOK, EndOK
      <4>2. CASE x # b
        <5>1. next'[x] = next[x]
          BY <1>6, <4>2
        <5>2. \A v \in Workers : base[v] = x => pc'[v] = pc[v]
          BY <1>2, <4>2
        <5> QED
          BY <1>1, <3>1, <5>1, <5>2 DEF BackOK, EndOK
      <4> QED
        BY <4>1, <4>2
    <3>3. ForthOK(x)'
      <4> SUFFICES ASSUME prev[x] # NULL PROVE ForthOK(x)'
        BY <1>1 DEF ForthOK
      <4>1. prev[x] \in Nodes
        BY DEF ListInv, TypeOK
      <4>2. CASE next[prev[x]] = x
        <5>1. prev[x] # b
          BY <1>5, <1>7, <3>1, <4>2
        <5> QED
          BY <1>1, <1>6, <4>1, <4>2, <5>1 DEF ForthOK
      <4>3. CASE prev[x] = n /\ x = next[b]
        BY <1>1, <1>4, <1>5, <1>6, <1>7, <4>3 DEF ForthOK
      <4>4. ASSUME NEW v \in Workers, v # w, pc[v] = "publish", prev[x] = new[v],
                   x = next[base[v]]
            PROVE  ForthOK(x)'
        <5>1. next'[base[v]] = next[base[v]]
          BY <1>5, <1>6, <4>4
        <5> QED
          BY <1>1, <1>2, <4>4, <5>1 DEF ForthOK
      <4> QED
        BY <3>1, <4>2, <4>3, <4>4 DEF ForthOK
    <3> QED
      BY <3>2, <3>3
  <2> QED
    BY <1>9, <2>1, <2>2 DEF NodeInv
<1>12. StoreInv'
  <2>1. StoreOK(w)'
    BY <1>1, <1>2, <1>6, <1>7 DEF StoreOK
  <2>2. ASSUME NEW v \in Workers, v # w PROVE StoreOK(v)'
    <3>1. StoreOK(v) /\ pc'[v] = pc[v] /\ base'[v] = base[v] /\ new'[v] = new[v]
      BY <1>1, <1>2, <2>2 DEF LinkInv, StoreInv
    <3>2. pc[v] # "idle" => next'[base[v]] = next[base[v]]
      BY <1>5, <1>6, <2>2
    <3>3. pc[v] = "tail" => next'[new[v]] = next[new[v]]
      <4>1. pc[v] = "tail" => new[v] \in Nodes /\ new[v] # b
        BY <1>1, NewOwned DEF HasNew
      <4> QED
        BY <1>6, <4>1
    <3> QED
      BY <1>1, <1>8, <2>2, <3>1, <3>2, <3>3 DEF StoreOK
  <2> QED
    BY <2>1, <2>2 DEF StoreInv
<1>13. FreshInv'
  <2>1. \A x \in Nodes : x \notin alloc => x # b /\ prev[x] = NULL /\ next[x] = NULL
    BY <1>5 DEF LinkInv, FreshInv, Linked
  <2>2. \A x, y \in Nodes : <<x, y>> \in after => Linked(y)
    BY DEF LinkInv, FreshInv
  <2>3. \A x, y \in Nodes : <<x, y>> \in after' => Linked(y) \/ y = n
    BY <1>5, <1>10, <2>2
  <2> QED
    BY <1>1, <1>6, <1>9, <2>1, <2>3 DEF FreshInv
<1>14. FirstInv'
  <2>1. /\ First \in Nodes /\ Linked(First) /\ prev[First] = NULL
        /\ \A x \in Nodes : <<x, First>> \notin after
        /\ \A x \in Nodes : Linked(x) /\ x # First => <<First, x>> \in after
    BY DEF LinkInv, FirstInv
  <2>2. \A x \in Nodes : <<x, First>> \notin after'
    BY <1>4, <1>5, <1>10, <2>1
  <2>3. \A x \in Nodes : (Linked(x) \/ x = n) /\ x # First => <<First, x>> \in after'
    BY <1>4, <1>5, <1>10, <2>1
  <2> QED
    BY <1>1, <1>9, <2>1, <2>2, <2>3 DEF FirstInv
<1> QED
  BY <1>11, <1>12, <1>13, <1>14 DEF LinkInv

(* The links are consistent at every step of every interleaving of         *)
(* bl_insert.                                                              *)
THEOREM LinkInvariant == Spec => []LinkInv
PROOF
<1>1. Init => LinkInv
  BY InitLinks
<1>2. ASSUME ListInv, LinkInv, [Next]_vars PROVE LinkInv'
  <2>1. CASE Next
    <3>1. PICK w \in Workers : Step(w)
      BY <2>1 DEF Next
    <3> QED
      BY <1>2, <3>1, ClaimLinks, NewNodeLinks, TestTailLinks, LinkBackLinks, PublishLinks,
         SetPrevLinks, ReleaseLinks DEF Step
  <2>2. CASE UNCHANGED vars
    <3>1. UNCHANGED <<alloc, next, prev, tail, pc, base, new, after>>
      BY <2>2 DEF vars, nodeVars
    <3>2. NodeInv'
      BY <1>2, <3>1 DEF LinkInv, NodeInv, BackOK, ForthOK, EndOK, Linked, Unlinked
    <3>3. StoreInv'
      BY <1>2, <3>1 DEF LinkInv, StoreInv, StoreOK, Unlinked
    <3>4. FreshInv' /\ FirstInv'
      BY <1>2, <3>1 DEF LinkInv, FreshInv, FirstInv, Linked, Unlinked
    <3> QED
      BY <3>2, <3>3, <3>4 DEF LinkInv
  <2> QED
    BY <1>2, <2>1, <2>2
<1>3. Spec => []ListInv
  BY ListInvariant
<1> QED
  BY <1>1, <1>2, <1>3, PTL DEF Spec

(* Whenever no insert is under way, what bl_verify asserts of the links    *)
(* holds: next and prev are inverse, only the tail has no successor, and   *)
(* the first node precedes all others.                                     *)
THEOREM ListIsVerified == Spec => []ListVerified
PROOF
<1>1. ListInv /\ LinkInv => ListVerified
  <2> SUFFICES ASSUME ListInv, LinkInv, \A w \in Workers : pc[w] = "idle"
               PROVE  /\ \A n \in alloc :
                           /\ next[n] # NULL => prev[next[n]] = n
                           /\ prev[n] # NULL => next[prev[n]] = n
                           /\ next[n] = NULL <=> n = tail
                      /\ prev[First] = NULL
                      /\ \A n \in alloc \ {First} : <<First, n>> \in after
    BY DEF ListVerified
  <2>1. \A n \in alloc : n \in Nodes /\ Linked(n)
    BY DEF ListInv, TypeOK, Linked, Unlinked
  <2>2. \A n \in alloc : BackOK(n) /\ ForthOK(n) /\ EndOK(n)
    BY <2>1 DEF LinkInv, NodeInv
  <2>3. next[tail] = NULL
    BY DEF ListInv, TailInv
  <2>4. \A n \in alloc : /\ next[n] # NULL => prev[next[n]] = n
                         /\ prev[n] # NULL => next[prev[n]] = n
                         /\ next[n] = NULL <=> n = tail
    BY <2>2, <2>3 DEF BackOK, ForthOK, EndOK
  <2>5. prev[First] = NULL /\ \A n \in alloc \ {First} : <<First, n>> \in after
    BY <2>1 DEF LinkInv, FirstInv
  <2> QED
    BY <2>4, <2>5
<1> QED
  BY <1>1, ListInvariant, LinkInvariant, PTL

=============================================================================
