---------------------------- MODULE AbstractTable ----------------------------
(***************************************************************************)
(* What a table promises its users (spec sections 3 and 4.4): each table  *)
(* is a sequence of elements, a reference or the uninitialized sentinel,  *)
(* never longer than its type's maximum.  It changes only by a grow, which *)
(* appends some number of copies of one fill element at once, and by a     *)
(* write of one element below its size.  Slots never become out-of-bounds *)
(* and a table never shrinks.                                              *)
(***************************************************************************)
EXTENDS Integers, Sequences

CONSTANTS
  Tables,   \* the tables
  Elems,    \* the elements a slot may hold
  MaxSize   \* type.size.max

VARIABLE contents   \* contents[t]: the elements of table t, in index order

Init == contents \in [Tables -> {s \in Seq(Elems) : Len(s) <= MaxSize}]

\* A grow that makes the new elements visible, all at once.
GrowBy(t) ==
  \E delta \in 1 .. MaxSize - Len(contents[t]), e \in Elems :
    contents' = [contents EXCEPT ![t] = @ \o [i \in 1 .. delta |-> e]]

\* A write of element i (indices from 1) of table t.
WriteElem(t) ==
  \E i \in 1 .. Len(contents[t]), e \in Elems :
    contents' = [contents EXCEPT ![t][i] = e]

Next == \E t \in Tables : GrowBy(t) \/ WriteElem(t)

Spec == Init /\ [][Next]_contents
====
