-------------------------- MODULE DenseStaticIntSet --------------------------
(***************************************************************************)
(* DenseStaticIntSet<Index, maxIndexPlusOne>                               *)
(* (src/Include/WAVM/Inline/DenseStaticIntSet.h): a fixed array of         *)
(* numElements words of indicesPerElement bits, bit i % indicesPerElement  *)
(* of word i / indicesPerElement standing for member i.  One set value is  *)
(* changed by a sequence of the mutating operations (the logical          *)
(* operators assign their result back, as in s = s | t); the queries are   *)
(* operators on the words.  The words are shown to implement IntSet.       *)
(***************************************************************************)
EXTENDS Integers, FiniteSets, FiniteSetsExt, Bitwise

CONSTANTS
  MaxIndexPlusOne,    \* maxIndexPlusOne
  IndicesPerElement,  \* indicesPerElement: the bits of an Element (Uptr)
  IndexBits,          \* the width of the Index type
  OperandSets,        \* right operands of |, & and ^, built with add
  RangeMins,          \* rangeMin arguments of addRange
  RangeMaxs,          \* rangeMax arguments of addRange
  MaxOps              \* bound on the operations applied

ASSUME /\ MaxIndexPlusOne <= 2 ^ IndexBits
       /\ \A s \in OperandSets : s \subseteq 0 .. MaxIndexPlusOne - 1
       /\ RangeMins \cup RangeMaxs \subseteq 0 .. MaxIndexPlusOne - 1

W == IndicesPerElement

\* Line 169: numElements, rounded up.
NumElements == (MaxIndexPlusOne + W - 1) \div W

Slots == 0 .. NumElements - 1

Universe == 0 .. MaxIndexPlusOne - 1

ElementMax == 2 ^ W - 1

\* Element(1) << b
BitMask(b) == 2 ^ b

Bit(x, b) == (x \div 2 ^ b) % 2

\* ~x on an Element of W bits.
WordNot(x) == ElementMax - x

\* A conversion to Index: (Index)x, or an Uptr returned as an Index.
AsIndex(x) == x % (2 ^ IndexBits)

\* countTrailingZeroes of a non-zero Element.
countTrailingZeroes(x) == Min({b \in 0 .. W - 1 : Bit(x, b) = 1})

\* The members the words stand for: the bits below maxIndexPlusOne.
Members(e) == {i \in Universe : Bit(e[i \div W], i % W) = 1}

\* The words of a set built by the constructor and add (lines 18-23, 82-86).
FromSet(s) == [k \in Slots |-> SumSet({BitMask(i % W) : i \in {j \in s : j \div W = k}})]

-----------------------------------------------------------------------------
(* Queries (lines 27-78, 146-157).                                         *)

contains(e, i) == (e[i \div W] & BitMask(i % W)) # 0

\* Lines 36-38: the words or-ed together, over the first n of them.
CombinedElements(e, n) == FoldSet(LAMBDA k, acc : e[k] | acc, 0, 0 .. n - 1)

\* Mutant: the loop stops one word short.
isEmptyShortLoop(e) == CombinedElements(e, NumElements - 1) = 0

isEmpty(e) == CombinedElements(e, NumElements) = 0

\* Lines 41-57: the lowest set bit of the first non-zero word, cast to
\* Index, or maxIndexPlusOne converted to the Index returned.
getSmallestMember(e) ==
  LET nonZero == {k \in Slots : e[k] # 0} IN
  IF nonZero = {} THEN AsIndex(MaxIndexPlusOne)
  ELSE LET k == Min(nonZero) IN AsIndex(k * W + countTrailingZeroes(e[k]))

\* Lines 58-78: the lowest clear bit of the first word that is not all
\* ones, cast to Index; a result at or past maxIndexPlusOne ends the search,
\* which then returns maxIndexPlusOne converted to Index.
getSmallestNonMember(e) ==
  LET notFull == {k \in Slots : WordNot(e[k]) # 0} IN
  IF notFull = {} THEN AsIndex(MaxIndexPlusOne)
  ELSE LET k == Min(notFull)
           result == AsIndex(k * W + countTrailingZeroes(WordNot(e[k])))
       IN IF result >= MaxIndexPlusOne THEN AsIndex(MaxIndexPlusOne) ELSE result

\* operator== compares the words with memcmp.
Equal(e1, e2) == e1 = e2

-----------------------------------------------------------------------------
(* The set value and the operations that change it.                       *)

VARIABLES
  elements,  \* elements[k]: word k
  pc,        \* "idle", or "addRange" inside addRange's loop
  index,     \* addRange's loop index, of type Index
  rangeMax,  \* addRange's rangeMax
  opsDone    \* operations applied

vars == <<elements, pc, index, rangeMax, opsDone>>

\* Lines 18-23: the default constructor, or the one adding one index.
Init ==
  /\ \E i \in Universe : elements \in {FromSet({}), FromSet({i})}
  /\ pc = "idle"
  /\ index = 0
  /\ rangeMax = 0
  /\ opsDone = 0

\* An operation applied to the set, when none is under way.
Apply(newElements) ==
  /\ pc = "idle"
  /\ opsDone < MaxOps
  /\ elements' = newElements
  /\ opsDone' = opsDone + 1
  /\ UNCHANGED <<pc, index, rangeMax>>

\* Lines 82-86.
Add(i) == Apply([elements EXCEPT ![i \div W] = @ | BitMask(i % W)])

\* Mutant: the mask is applied without inverting it.
RemoveNoInvert(i) == Apply([elements EXCEPT ![i \div W] = @ & BitMask(i % W)])

\* Lines 93-99 (the returned hadIndex is not used by the properties).
Remove(i) == Apply([elements EXCEPT ![i \div W] = @ & WordNot(BitMask(i % W))])

\* Lines 103-109.
Complement == Apply([k \in Slots |-> WordNot(elements[k])])

\* Lines 110-142, each with a set built by add as right operand.
OrWith(s) == Apply([k \in Slots |-> elements[k] | FromSet(s)[k]])

AndWith(s) == Apply([k \in Slots |-> elements[k] & FromSet(s)[k]])

XorWith(s) == Apply([k \in Slots |-> elements[k] ^^ FromSet(s)[k]])

\* Lines 87-92: addRange asserts rangeMin <= rangeMax < maxIndexPlusOne
\* and loops with an Index-typed counter.
AddRangeBegin(lo, hi) ==
  /\ pc = "idle"
  /\ opsDone < MaxOps
  /\ lo <= hi
  /\ pc' = "addRange"
  /\ index' = lo
  /\ rangeMax' = hi
  /\ opsDone' = opsDone + 1
  /\ UNCHANGED elements

\* One iteration: add(index), then ++index in Index arithmetic.
AddRangeStep ==
  /\ pc = "addRange"
  /\ index <= rangeMax
  /\ elements' = [elements EXCEPT ![index \div W] = @ | BitMask(index % W)]
  /\ index' = (index + 1) % (2 ^ IndexBits)
  /\ UNCHANGED <<pc, rangeMax, opsDone>>

AddRangeDone ==
  /\ pc = "addRange"
  /\ index > rangeMax
  /\ pc' = "idle"
  /\ UNCHANGED <<elements, index, rangeMax, opsDone>>

\* No more operations are applied.
Finished ==
  /\ pc = "idle"
  /\ opsDone = MaxOps
  /\ UNCHANGED vars

Next ==
  \/ \E i \in Universe : Add(i) \/ Remove(i)
  \/ Complement
  \/ \E s \in OperandSets : OrWith(s) \/ AndWith(s) \/ XorWith(s)
  \/ \E lo \in RangeMins, hi \in RangeMaxs : AddRangeBegin(lo, hi)
  \/ AddRangeStep \/ AddRangeDone
  \/ Finished

Spec == Init /\ [][Next]_vars

-----------------------------------------------------------------------------
(* Properties.                                                             *)

\* The queries answer for the members the words stand for: isEmpty, the
\* smallest member and the smallest non-member (maxIndexPlusOne when there
\* is none), and operator== against every operand set; whatever sequence
\* of operations, the logical operators included, produced the words.
QueriesMatchMembers ==
  LET m == Members(elements) IN
  /\ isEmpty(elements) = (m = {})
  /\ getSmallestMember(elements) = IF m = {} THEN MaxIndexPlusOne ELSE Min(m)
  /\ getSmallestNonMember(elements) =
       IF m = Universe THEN MaxIndexPlusOne ELSE Min(Universe \ m)
  /\ \A s \in OperandSets : Equal(elements, FromSet(s)) = (m = s)

\* The words implement IntSet: every operation, and every iteration of
\* addRange, changes the members as the set operation it stands for.
AbstractSet == INSTANCE IntSet WITH members <- Members(elements)

ImplementsIntSet == AbstractSet!Spec

=============================================================================
