------------------------------ MODULE OrderTree ------------------------------
(***************************************************************************)
(* The top-level tree of the order-maintenance structure: om_relabel,      *)
(* rebalance and rebuild of rdtool/src/om/om_relabel.c.                    *)
(*                                                                         *)
(* The leaves of the tree are the bottom lists (module BList) in order,    *)
(* and a leaf's label is what om_precedes compares for nodes of two lists. *)
(* A relabel splits the heavy lists, adds the new leaves to the counts of  *)
(* all ancestors and rebuilds the subtrees that have become too dense.     *)
(* It runs alone (module Relabel), and what its cilk_for and spawns do in  *)
(* parallel touches disjoint nodes or adds up: one relabel is one step.    *)
(***************************************************************************)
EXTENDS Integers, Sequences, FiniteSetsExt

CONSTANTS Widths,    \* label widths in bits: values of MAX_LEVEL
          MaxLeaves, \* bound: leaves of the tree
          MaxSplit,  \* bound: lists that one list is split into
          MaxHeavy   \* bound: heavy lists of one batch

ASSUME TreeAssumption ==
  /\ Widths \subseteq Nat \ {0}
  /\ MaxLeaves \in Nat /\ MaxSplit \in Nat /\ MaxHeavy \in Nat

VARIABLES
  maxLevel,  \* MAX_LEVEL
  root,      \* the tree
  height,    \* self->height
  lists,     \* history: number of bottom lists
  capable    \* history: the assertion on capacity in rebalance held so far

vars == <<maxLevel, root, height, lists, capable>>

MaxLabel == 2 ^ maxLevel - 1

(* tl_node: an internal node has two kids; needs is needs_rebalance. *)
Leaf(lab) == [label |-> lab, level |-> maxLevel, leaves |-> 1, needs |-> FALSE, kids |-> <<>>]

IsLeaf(n) == n.kids = <<>>

(* om_create. *)
Init ==
  /\ maxLevel \in Widths
  /\ root = Leaf(0)
  /\ height = 0
  /\ lists = 1
  /\ capable = TRUE

RECURSIVE Labels(_), Mark(_, _, _), Depths(_, _), RebuildRecursive(_, _, _, _),
          Rebalance(_, _, _), CapacityAsserted(_, _), Subtrees(_)

(* The labels of the leaves from left to right. *)
Labels(n) == IF IsLeaf(n) THEN <<n.label>> ELSE Labels(n.kids[1]) \o Labels(n.kids[2])

(* The depth of every leaf, in the same order. *)
Depths(n, d) == IF IsLeaf(n) THEN <<d>> ELSE Depths(n.kids[1], d + 1) \o Depths(n.kids[2], d + 1)

Subtrees(n) ==
  {n} \cup UNION {Subtrees(n.kids[i]) : i \in DOMAIN n.kids}

-----------------------------------------------------------------------------
(* The first loop of om_relabel.  cut maps the ranks of the heavy leaves   *)
(* to the number of lists each is split into.                              *)

CutsIn(cut, first, last) == {i \in DOMAIN cut : first <= i /\ i <= last /\ cut[i] > 1}

(* New leaves among the leaves first..last. *)
Added(cut, first, last) == MapThenSumSet(LAMBDA i : cut[i] - 1, CutsIn(cut, first, last))

(* num_leaves and needs_rebalance, from the split leaves up to the root;   *)
(* first is the rank of the leftmost leaf of n.                            *)
Mark(n, cut, first) ==
  LET last == first + n.leaves - 1 IN
  IF CutsIn(cut, first, last) = {} THEN n
  ELSE [n EXCEPT !.leaves = @ + Added(cut, first, last),
                 !.needs  = TRUE,
                 !.kids   = IF IsLeaf(n) THEN <<>>
                            ELSE <<Mark(n.kids[1], cut, first),
                                   Mark(n.kids[2], cut, first + n.kids[1].leaves)>>]

(* FAST_LOG2_CEIL *)
LogCeil(x) == CHOOSE i \in 0 .. x : 2 ^ i >= x /\ (i = 0 \/ 2 ^ (i - 1) < x)

(* self->height: the deepest leaf that rebuilding in place could give. *)
NewHeight(cut) ==
  LET depth == Depths(root, 0)
  IN Max({height} \cup {depth[i] + LogCeil(cut[i]) : i \in {j \in DOMAIN cut : cut[j] > 1}})

-----------------------------------------------------------------------------
(* rebalance *)

Capacity(n) == IF n.level = 0 THEN MaxLabel ELSE 2 ^ (maxLevel - n.level)

(* density >= 0.75 + 0.25 * level / height, as integers. *)
TooHeavy(n, h) == n.needs /\ 4 * h * n.leaves >= (3 * h + n.level) * Capacity(n)

(* The label with its lower height(n) bits cleared; 0 for the root. *)
RangeLeft(n, isRoot) ==
  IF isRoot THEN 0 ELSE n.label - (n.label % 2 ^ (maxLevel - n.level))

(* Mutant: both halves start at the same label. *)
RebuildRecursiveShared(level, size, llab, rlab) ==
  LET mlab == llab + (rlab - llab) \div 2 IN
  IF size = 1 THEN Leaf(llab)
  ELSE [label |-> rlab, level |-> level, leaves |-> size, needs |-> FALSE,
        kids |-> <<RebuildRecursive(level + 1, size - size \div 2, llab, mlab),
                   RebuildRecursive(level + 1, size \div 2, mlab, rlab)>>]

(* A balanced tree of size leaves over the labels llab..rlab. *)
RebuildRecursive(level, size, llab, rlab) ==
  LET mlab == llab + (rlab - llab) \div 2 IN
  IF size = 1 THEN Leaf(llab)
  ELSE [label |-> rlab, level |-> level, leaves |-> size, needs |-> FALSE,
        kids |-> <<RebuildRecursive(level + 1, size - size \div 2, llab, mlab),
                   RebuildRecursive(level + 1, size \div 2, mlab + 1, rlab)>>]

(* Where a node is in the tree: the label, level and left end of the range *)
(* of its parent, and whether it is the right kid.                         *)
RootPlace == [root |-> TRUE]
Place(p, isRoot, right) ==
  [root |-> FALSE, label |-> p.label, left |-> RangeLeft(p, isRoot), level |-> p.level,
   right |-> right]

(* Mutant: a leaf that becomes an internal node keeps its level. *)
RebuildKeepsLevel(n, place) ==
  LET lab == IF ~IsLeaf(n) THEN n.label
             ELSE IF place.root THEN MaxLabel
             ELSE IF place.right THEN place.label
             ELSE (place.label - place.left) \div 2 + place.left
      top == [n EXCEPT !.label = lab]
  IN RebuildRecursive(top.level, n.leaves, RangeLeft(top, place.root), top.label)

(* Mutant: the label of a left kid is not offset by its parent's range. *)
RebuildNoOffset(n, place) ==
  LET top == IF ~IsLeaf(n) THEN n
             ELSE IF place.root THEN [n EXCEPT !.level = 0, !.label = MaxLabel]
             ELSE [n EXCEPT !.level = place.level + 1,
                            !.label = IF place.right THEN place.label
                                      ELSE (place.label - place.left) \div 2]
  IN RebuildRecursive(top.level, n.leaves, RangeLeft(top, place.root), top.label)

(* rebuild: a leaf becomes an internal node; its label and level, or those *)
(* the node has, give the range of the new subtree.                        *)
Rebuild(n, place) ==
  LET top == IF ~IsLeaf(n) THEN n
             ELSE IF place.root THEN [n EXCEPT !.level = 0, !.label = MaxLabel]
             ELSE [n EXCEPT !.level = place.level + 1,
                            !.label = IF place.right THEN place.label
                                      ELSE (place.label - place.left) \div 2 + place.left]
  IN RebuildRecursive(top.level, n.leaves, RangeLeft(top, place.root), top.label)

(* rebalance *)
Rebalance(n, place, h) ==
  IF ~n.needs THEN n
  ELSE IF IsLeaf(n) \/ TooHeavy(n.kids[1], h) \/ TooHeavy(n.kids[2], h) THEN Rebuild(n, place)
  ELSE [n EXCEPT !.needs = FALSE,
                 !.kids = <<Rebalance(n.kids[1], Place(n, place.root, FALSE), h),
                            Rebalance(n.kids[2], Place(n, place.root, TRUE), h)>>]

(* The assertion of every call of rebalance on an internal node. *)
CapacityAsserted(n, h) ==
  n.needs /\ ~IsLeaf(n) =>
    /\ Capacity(n) >= n.leaves
    /\ \/ TooHeavy(n.kids[1], h) \/ TooHeavy(n.kids[2], h)
       \/ CapacityAsserted(n.kids[1], h) /\ CapacityAsserted(n.kids[2], h)

-----------------------------------------------------------------------------
(* om_relabel with the heavy lists of a batch.  MAX_LABEL leaves are never *)
(* reached with labels of 64 bits; the test for a full structure is        *)
(* outside the bound.                                                      *)
OmRelabel(cut) ==
  LET marked == Mark(root, cut, 1)
      h      == NewHeight(cut)
  IN
  /\ lists + Added(cut, 1, lists) <= Min({MaxLeaves, MaxLabel})
  /\ root' = Rebalance(marked, RootPlace, h)
  /\ height' = h
  /\ lists' = lists + Added(cut, 1, lists)
  /\ capable' = (capable /\ CapacityAsserted(marked, h))
  /\ UNCHANGED maxLevel

Cuts == UNION {[S -> 1 .. MaxSplit] : S \in {T \in SUBSET (1 .. lists) :
                                               Cardinality(T) \in 1 .. MaxHeavy}}

Next == \E cut \in Cuts : OmRelabel(cut)

Spec == Init /\ [][Next]_vars
-----------------------------------------------------------------------------
(* Properties *)

(* Every node has a label of the tree's width and a level; after a relabel *)
(* no node waits for a rebalance.                                          *)
TypeOK ==
  /\ maxLevel \in Widths
  /\ height \in Nat
  /\ lists \in Nat
  /\ capable \in BOOLEAN
  /\ \A n \in Subtrees(root) :
       /\ n.label \in 0 .. MaxLabel
       /\ n.level \in 0 .. maxLevel
       /\ n.leaves \in Nat
       /\ n.needs = FALSE
       /\ IsLeaf(n) <=> n.level = maxLevel

(* om_precedes on nodes of two lists is the order of the lists: the labels *)
(* of the leaves increase strictly after any sequence of relabels.         *)
LeavesOrdered ==
  LET lab == Labels(root) IN \A i \in 1 .. (Len(lab) - 1) : lab[i] < lab[i + 1]

(* om_verify: num_leaves counts the leaves of every subtree, and no list   *)
(* is lost or made up.                                                     *)
Verified == \A n \in Subtrees(root) : /\ n.leaves = Len(Labels(n))
                                      /\ n = root => n.leaves = lists

(* rebalance: "The children might be out of room, but this node cannot be" *)
(* (om_relabel.c:168).                                                     *)
CapacityHolds == capable

(* self->height, which the density thresholds depend on, is never less     *)
(* than the depth of a leaf, and no leaf is deeper than labels have bits.  *)
DepthBounded ==
  LET depth == Depths(root, 0)
  IN \A i \in DOMAIN depth : depth[i] <= height /\ depth[i] <= maxLevel

(* The range that range_left and the label of an internal node delimit     *)
(* holds the labels of all its leaves.                                     *)
LabelsInRange ==
  \A n \in Subtrees(root) : ~IsLeaf(n) =>
    \A i \in DOMAIN Labels(n) :
      RangeLeft(n, n = root) <= Labels(n)[i] /\ Labels(n)[i] <= n.label

(* After any sequence of relabels the tree is what rebuild and rebalance   *)
(* assert and rely on: a list split deep in the tree, several in one batch *)
(* or again and again at one place neither breaks the counts nor runs a    *)
(* subtree out of labels.                                                  *)
TreeVerified == Verified /\ CapacityHolds /\ DepthBounded /\ LabelsInRange
=============================================================================
