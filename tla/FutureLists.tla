---------------------------- MODULE FutureLists ----------------------------
(***************************************************************************)
(* The lists of future nodes of rdtool/src/list.cpp.  Every strand has a   *)
(* list of the nodes through which strands of other futures reach it: the  *)
(* node at which a future was created and the last node of a future that   *)
(* was got.  A list keeps one group of nodes per future, sorted in the     *)
(* English order; Search answers whether a strand of that future precedes  *)
(* one of them.                                                            *)
(*                                                                         *)
(* A node of the program has a place in the English and in the Hebrew      *)
(* order.  The two om_node pointers of a node are always stored together,  *)
(* so one name stands for both.  om is a record of the two orders, each a  *)
(* function from nodes to positions.                                       *)
(*                                                                         *)
(* The hash table of a list is a function from future ids to groups.  Its  *)
(* chain (hash.head and the next fields) holds the same groups in the      *)
(* order of their ids, except that the constructor from a single node      *)
(* leaves hash.head unset (field head).  What is then found there is       *)
(* undefined; the model takes the outcome of fresh or recycled empty       *)
(* memory, NULL.  Any other value ends the program or is arbitrary.        *)
(***************************************************************************)
EXTENDS Integers, Sequences, FiniteSets, TLC

(* om_precedes: strict, in one of the orders. *)
om_precedes(order, x, y) == order[x] < order[y]

BothPrecede(om, x, y) == om_precedes(om.e, x, y) /\ om_precedes(om.h, x, y)

(* Mutant: the nodes after it stay where they are. *)
insert_no_shift(order, base, new) == order @@ (new :> order[base] + 1)

(* omrd_t::insert: a new node directly after base (Relabel and BList are   *)
(* about how it gets there).                                               *)
insert(order, base, new) ==
  [n \in DOMAIN order \cup {new} |->
     IF n = new THEN order[base] + 1
     ELSE IF order[n] > order[base] THEN order[n] + 1 ELSE order[n]]

(* Node: cnode and desc, which is cnode or a node of the same future that  *)
(* cnode precedes.                                                         *)
Node(c) == [c |-> c, d |-> c]

CNodes(group) == {group[i].c : i \in DOMAIN group}

-----------------------------------------------------------------------------
(* Groups *)

(* Merges two groups that are sorted in the English order.  Of two entries *)
(* for the same node the one with the later desc is kept.                  *)
group_merge(om, group1, group2) ==
  LET cs       == CNodes(group1) \cup CNodes(group2)
      At(g, c) == g[CHOOSE i \in DOMAIN g : g[i].c = c]
      Keep(c)  == IF c \notin CNodes(group2) THEN At(group1, c)
                  ELSE IF c \notin CNodes(group1) THEN At(group2, c)
                  ELSE IF BothPrecede(om, At(group1, c).d, At(group2, c).d)
                  THEN At(group2, c) ELSE At(group1, c)
      Rank(c)  == Cardinality({x \in cs : om.e[x] <= om.e[c]})
  IN  [k \in 1..Cardinality(cs) |-> Keep(CHOOSE c \in cs : Rank(c) = k)]

(* Adds n to a group.  The entries before it in the English order take it  *)
(* as their desc if the old desc is before it in the Hebrew order: the     *)
(* comma operator in the condition discards the English comparison.        *)
merge_group_single(om, group, n) ==
  LET Before(k) == \A i \in 1..k : om_precedes(om.e, group[i].c, n.c)
      k == CHOOSE k \in 0..Len(group) : Before(k) /\ (k < Len(group) => ~Before(k + 1))
  IN  [i \in 1..k |-> IF om_precedes(om.h, group[i].d, n.c)
                      THEN [group[i] EXCEPT !.d = n.c] ELSE group[i]]
      \o <<n>> \o SubSeq(group, k + 1, Len(group))

-----------------------------------------------------------------------------
(* Lists *)

EmptyList == [group |-> <<>>, head |-> TRUE]

Empty(list) == DOMAIN list.group = {}

(* What a walk along the chain of a list visits. *)
Chain(list) == IF list.head THEN list.group ELSE <<>>

(* The constructor from a node; hash.head is not set. *)
ListOfNode(n, future_id) == [group |-> future_id :> <<n>>, head |-> FALSE]

MergedChains(om, l1, l2) ==
  LET c1 == Chain(l1)
      c2 == Chain(l2)
  IN  [f \in DOMAIN c1 \cup DOMAIN c2 |->
         IF f \notin DOMAIN c2 THEN c1[f]
         ELSE IF f \notin DOMAIN c1 THEN c2[f]
         ELSE group_merge(om, c1[f], c2[f])]

(* The constructor from two lists; hash.head is set with the first entry. *)
ListOfLists(om, l1, l2) ==
  LET merged == MergedChains(om, l1, l2)
  IN  [group |-> merged, head |-> DOMAIN merged # {}]

(* List::Merge, in place; hash.head stays what it was if there is no entry. *)
Merge(om, list, ori) ==
  LET merged == MergedChains(om, list, ori)
  IN  [group |-> merged, head |-> list.head \/ DOMAIN merged # {}]

(* The constructor from a list and a node. *)
ListWithNode(om, l, n, future_id) ==
  LET c == Chain(l)
  IN  [group |-> [f \in DOMAIN c \cup {future_id} |->
                    IF f # future_id THEN c[f]
                    ELSE IF f \in DOMAIN c THEN merge_group_single(om, c[f], n)
                    ELSE <<n>>],
       head |-> TRUE]

(* Mutant: an entry that node is parallel to sends the search to the left   *)
(* without a look at its desc.                                             *)
SearchNoDesc(om, list, node, future_id) ==
  /\ future_id \in DOMAIN list.group
  /\ LET group == list.group[future_id]
         Find[low \in 1..Len(group) + 1, high \in 0..Len(group)] ==
           /\ low <= high
           /\ LET mid == low + (high - low) \div 2
              IN  \/ BothPrecede(om, node, group[mid].c)
                  \/ IF ~om_precedes(om.e, node, group[mid].c)
                     THEN Find[mid + 1, high] ELSE Find[low, mid - 1]
     IN  Find[1, Len(group)]

(* List::Search: the group of the future, then a binary search in it. *)
Search(om, list, node, future_id) ==
  /\ future_id \in DOMAIN list.group
  /\ LET group == list.group[future_id]
         Find[low \in 1..Len(group) + 1, high \in 0..Len(group)] ==
           /\ low <= high
           /\ LET mid == low + (high - low) \div 2
                  n   == group[mid]
              IN  \/ BothPrecede(om, node, n.c)
                  \/ IF ~om_precedes(om.e, node, n.c)
                     THEN Find[mid + 1, high]
                     ELSE BothPrecede(om, node, n.d) \/ Find[low, mid - 1]
     IN  Find[1, Len(group)]
=============================================================================
