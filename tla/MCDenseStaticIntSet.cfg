\* Set run: eight indices in two words of four bits (no padding, as for the
\* 256-index sets of U8 in 64-bit words), a 4-bit Index, three operations.
CONSTANTS
  MaxIndexPlusOne = 8
  IndicesPerElement = 4
  IndexBits = 4
  OperandSets = {{1, 6}, {0, 1, 2, 3}}
  RangeMins = {0, 5}
  RangeMaxs = {5, 7}
  MaxOps = 3
SPECIFICATION Spec
INVARIANTS
  QueriesMatchMembers
PROPERTIES
  ImplementsIntSet
