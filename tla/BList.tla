------------------------------- MODULE BList -------------------------------
(***************************************************************************)
(* A bottom list of the order-maintenance structure under concurrent       *)
(* inserts: bl_insert and insert_internal of rdtool/src/om/blist.c.        *)
(*                                                                         *)
(* Workers insert into one list at the same time, each holding only its    *)
(* own spin lock (module Relabel), and no two at the same base: a base is  *)
(* the current node of the one strand that inserts after it (external: the *)
(* shadow stack).  Every store to a node that other workers can reach is a *)
(* step of its own.                                                        *)
(***************************************************************************)
EXTENDS Labels

CONSTANTS Workers,
          Nobody,       \* no worker
          NodeInterval, \* NODE_INTERVAL
          SublistSize,  \* SUBLIST_SIZE
          MaxNodes      \* bound: nodes of the list

ASSUME WorkerAssumption == Nobody \notin Workers

(* The labels that split gives to a full list fit. *)
ASSUME SplitAssumption ==
  /\ NodeInterval \in Nat \ {0}
  /\ SublistSize \in Nat \ {0}
  /\ MaxNodes \in Nat
  /\ SublistSize <= MaxNodes
  /\ \A i \in 0 .. (SublistSize - 1) : i * NodeInterval <= MaxLabel

Nodes == 0 .. (MaxNodes - 1)
First == 0
NULL  == -1

VARIABLES
  alloc,    \* nodes in use
  label, next, prev,
  tail,     \* self->tail
  active,   \* per node: the worker between active_insert++ and --
  pc,
  base,     \* per worker: the node it inserts after
  new,      \* per worker: the node it inserts
  after     \* history: <<x, y>> for every node y that was put after x

nodeVars == <<alloc, label, next, prev, tail, active>>
vars     == <<nodeVars, pc, base, new, after>>

(* A list of k nodes as split makes it; with one node it is also the list  *)
(* of bl_insert_initial.                                                   *)
Init ==
  \E k \in 1 .. SublistSize :
    /\ alloc = 0 .. (k - 1)
    /\ label = [n \in Nodes |-> IF n < k THEN n * NodeInterval ELSE 0]
    /\ next = [n \in Nodes |-> IF n < k - 1 THEN n + 1 ELSE NULL]
    /\ prev = [n \in Nodes |-> IF n < k THEN n - 1 ELSE NULL]
    /\ tail = k - 1
    /\ active = [n \in Nodes |-> Nobody]
    /\ pc = [w \in Workers |-> "idle"]
    /\ base = [w \in Workers |-> NULL]
    /\ new = [w \in Workers |-> NULL]
    /\ after = {p \in (0 .. (k - 1)) \X (0 .. (k - 1)) : p[1] < p[2]}

Goto(w, from, to) == pc[w] = from /\ pc' = [pc EXCEPT ![w] = to]

(* Nodes that an insert has returned. *)
Returned == alloc \ {new[w] : w \in Workers}

-----------------------------------------------------------------------------
(* bl_insert, up to the label: the base is claimed. *)
Claim(w) ==
  /\ Goto(w, "idle", "label")
  /\ \E n \in Returned :
       /\ active[n] = Nobody
       /\ active' = [active EXCEPT ![n] = w]
       /\ base' = [base EXCEPT ![w] = n]
  /\ UNCHANGED <<alloc, label, next, prev, tail, new, after>>

NextLabel(n) == IF next[n] = NULL THEN NoNext ELSE label[next[n]]

(* get_new_label, and node_new if there is a label; nodes are numbered as  *)
(* they are allocated.                                                     *)
NewNode(w) ==
  /\ pc[w] = "label"
  /\ LET lab == GetNewLabel(label[base[w]], NextLabel(base[w])) IN
     \/ /\ lab > 0
        /\ Goto(w, "label", "tail")
        /\ \E n \in Nodes \ alloc :
             /\ \A m \in Nodes \ alloc : n <= m
             /\ alloc' = alloc \cup {n}
             /\ label' = [label EXCEPT ![n] = lab]
             /\ new' = [new EXCEPT ![w] = n]
     \/ /\ lab = 0
        /\ Goto(w, "label", "failed")
        /\ UNCHANGED <<alloc, label, new>>
  /\ UNCHANGED <<next, prev, tail, active, base, after>>

(* Mutant: the tail is not moved to a node added at the end. *)
TestTailKept(w) ==
  /\ \/ base[w] = tail /\ Goto(w, "tail", "publish")
     \/ base[w] # tail /\ Goto(w, "tail", "back")
  /\ next' = [next EXCEPT ![new[w]] = next[base[w]]]
  /\ UNCHANGED <<alloc, label, prev, tail, active, base, new, after>>

(* insert_internal: at the end of the list or before base->next. *)
TestTail(w) ==
  /\ \/ /\ base[w] = tail
        /\ Goto(w, "tail", "publish")
        /\ tail' = new[w]
        /\ next' = [next EXCEPT ![new[w]] = NULL]
     \/ /\ base[w] # tail
        /\ Goto(w, "tail", "back")
        /\ next' = [next EXCEPT ![new[w]] = next[base[w]]]
        /\ UNCHANGED tail
  /\ UNCHANGED <<alloc, label, prev, active, base, new, after>>

(* base->next->prev = n *)
LinkBack(w) ==
  /\ Goto(w, "back", "publish")
  /\ prev' = [prev EXCEPT ![next[base[w]]] = new[w]]
  /\ UNCHANGED <<alloc, label, next, tail, active, base, new, after>>

(* base->next = n: from here on the node is in the list. *)
Publish(w) ==
  LET b == base[w]
      n == new[w]
  IN
  /\ Goto(w, "publish", "prev")
  /\ next' = [next EXCEPT ![b] = n]
  /\ after' = after \cup {<<b, n>>}
                    \cup {<<x, n>> : x \in {x \in Nodes : <<x, b>> \in after}}
                    \cup {<<n, y>> : y \in {y \in Nodes : <<b, y>> \in after}}
  /\ UNCHANGED <<alloc, label, prev, tail, active, base, new>>

(* n->prev = base *)
SetPrev(w) ==
  /\ Goto(w, "prev", "release")
  /\ prev' = [prev EXCEPT ![new[w]] = base[w]]
  /\ UNCHANGED <<alloc, label, next, tail, active, base, new, after>>

(* bl_insert returns the node, or NULL. *)
Release(w) ==
  /\ Goto(w, "release", "idle") \/ Goto(w, "failed", "idle")
  /\ active' = [active EXCEPT ![base[w]] = Nobody]
  /\ base' = [base EXCEPT ![w] = NULL]
  /\ new' = [new EXCEPT ![w] = NULL]
  /\ UNCHANGED <<alloc, label, next, prev, tail, after>>

-----------------------------------------------------------------------------
Step(w) == \/ Claim(w) \/ NewNode(w) \/ TestTail(w) \/ LinkBack(w) \/ Publish(w)
           \/ SetPrev(w) \/ Release(w)

Next == \E w \in Workers : Step(w)

Spec == Init /\ [][Next]_vars
-----------------------------------------------------------------------------
(* Properties *)

Points == {"idle", "label", "failed", "tail", "back", "publish", "prev", "release"}

(* The values the fields of the nodes, of the list and the locals can hold. *)
TypeOK ==
  /\ alloc \in SUBSET Nodes
  /\ label \in [Nodes -> Label]
  /\ next \in [Nodes -> Nodes \cup {NULL}]
  /\ prev \in [Nodes -> Nodes \cup {NULL}]
  /\ tail \in Nodes
  /\ active \in [Nodes -> Workers \cup {Nobody}]
  /\ pc \in [Workers -> Points]
  /\ base \in [Workers -> Nodes \cup {NULL}]
  /\ new \in [Workers -> Nodes \cup {NULL}]
  /\ after \in SUBSET (Nodes \X Nodes)

(* bl_precedes is the order of insertion, also while inserts are under     *)
(* way: a node put after another has the larger label.                     *)
PrecedesIsOrder == \A p \in after : label[p[1]] < label[p[2]]

(* An insert fails only when the labels of the base and of its successor   *)
(* are adjacent, or the base has the last label: no label is wasted.       *)
FailsOnlyWhenFull ==
  \A w \in Workers : pc[w] = "failed" =>
    IF next[base[w]] = NULL THEN label[base[w]] = MaxLabel
    ELSE label[next[base[w]]] = label[base[w]] + 1

(* When no insert is under way the list is what bl_verify asserts: next    *)
(* and prev are inverse, and the tail is the node without a successor.     *)
ListVerified ==
  (\A w \in Workers : pc[w] = "idle") =>
    /\ \A n \in alloc :
         /\ next[n] # NULL => prev[next[n]] = n
         /\ prev[n] # NULL => next[prev[n]] = n
         /\ next[n] = NULL <=> n = tail
    /\ prev[First] = NULL
    /\ \A n \in alloc \ {First} : <<First, n>> \in after
=============================================================================
