-------------------------------- MODULE IntSet --------------------------------
(***************************************************************************)
(* What DenseStaticIntSet (src/Include/WAVM/Inline/DenseStaticIntSet.h)    *)
(* promises, per its header comment: a set of integers in the range        *)
(* 0 .. maxIndexPlusOne - 1, changed by adding and removing members and by *)
(* the logical operators with other such sets.                              *)
(***************************************************************************)
EXTENDS Integers

CONSTANTS
  MaxIndexPlusOne,  \* the exclusive upper bound of the members
  OperandSets       \* the sets used as right operands of |, & and ^

Universe == 0 .. MaxIndexPlusOne - 1

VARIABLE members

Init == \E i \in Universe : members \in {{}, {i}}

AddMember(i) == members' = members \cup {i}

RemoveMember(i) == members' = members \ {i}

ComplementMembers == members' = Universe \ members

Union(s) == members' = members \cup s

Intersect(s) == members' = members \cap s

SymmetricDifference(s) == members' = (members \ s) \cup (s \ members)

Next ==
  \/ \E i \in Universe : AddMember(i) \/ RemoveMember(i)
  \/ ComplementMembers
  \/ \E s \in OperandSets : Union(s) \/ Intersect(s) \/ SymmetricDifference(s)

Spec == Init /\ [][Next]_members

=============================================================================
