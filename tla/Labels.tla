------------------------------- MODULE Labels -------------------------------
(***************************************************************************)
(* The label arithmetic of the bottom lists: get_new_label of              *)
(* rdtool/src/om/blist.c.  A label_t is an unsigned integer of 64 bits;    *)
(* here MaxLabel is any odd number, as MAX_LABEL = 2^64 - 1 is, and sums   *)
(* wrap around after it.                                                   *)
(***************************************************************************)
EXTENDS Integers

CONSTANT MaxLabel   \* MAX_LABEL

ASSUME LabelAssumption == MaxLabel \in Nat /\ MaxLabel % 2 = 1

Label  == 0 .. MaxLabel
NoNext == -1        \* base->next is NULL

(* Mutant: the result is not compared with the base's label. *)
GetNewLabelUnchecked(base, next) ==
  LET bound == IF next = NoNext THEN MaxLabel ELSE next
      odd   == IF base % 2 = 1 /\ bound % 2 = 1 THEN 1 ELSE 0
      end   == IF next = NoNext THEN 1 ELSE 0
  IN (base \div 2 + bound \div 2 + odd + end) % (MaxLabel + 1)

(* Mutant: the sum does not wrap around, as if computed in a wider type. *)
GetNewLabelWide(base, next) ==
  LET bound == IF next = NoNext THEN MaxLabel ELSE next
      odd   == IF base % 2 = 1 /\ bound % 2 = 1 THEN 1 ELSE 0
      end   == IF next = NoNext THEN 1 ELSE 0
      lab   == base \div 2 + bound \div 2 + odd + end
  IN IF lab = base THEN 0 ELSE lab

(* Mutant: no correction for the average of two odd labels. *)
GetNewLabelNoOdd(base, next) ==
  LET bound == IF next = NoNext THEN MaxLabel ELSE next
      end   == IF next = NoNext THEN 1 ELSE 0
      lab   == (base \div 2 + bound \div 2 + end) % (MaxLabel + 1)
  IN IF lab = base THEN 0 ELSE lab

(* The label of a node inserted between labels base and next: their        *)
(* average, corrected for two odd labels and for the end of the list; 0    *)
(* when there is none.                                                     *)
GetNewLabel(base, next) ==
  LET bound == IF next = NoNext THEN MaxLabel ELSE next
      odd   == IF base % 2 = 1 /\ bound % 2 = 1 THEN 1 ELSE 0
      end   == IF next = NoNext THEN 1 ELSE 0
      lab   == (base \div 2 + bound \div 2 + odd + end) % (MaxLabel + 1)
  IN IF lab = base THEN 0 ELSE lab
=============================================================================
