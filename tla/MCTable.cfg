\* Core run: one table of min 1 / max 3 elements, below the implementation
\* maximum 4 and a reservation of 5 (the second page is
\* committed on growth), two threads of two operations each, a 4-bit Uptr.
\* Deltas 1 and 2 race grows against sets, gets and call_indirect on the
\* slots they add; delta 15 (2^4 - 1) passes the quota of 17 and wraps
\* the limit check's sum; two grows of 2 after it exhaust the quota.
\* No symmetry, so that the liveness property is checked soundly.
CONSTANTS
  Tables = {T1}
  Threads = {th1, th2}
  Refs = {F}
  T1 = T1
  T2 = T2
  F = F
  G = G
  OOBElem = OOBElem
  UninitElem = UninitElem
  NullRef = NullRef
  NoThread = NoThread
  Addr <- MCAddr
  SigOf <- MCSigOf
  UptrBits = 4
  ReservedElems = 5
  MaxTableElems = 4
  TypeMin = 1
  TypeMax = 3
  ElemsPerPage = 2
  QuotaMax = 17
  GrowDeltas = {0, 1, 2, 15}
  GrowElems <- MCGrowElems
  SetValues <- MCSetValues
  Indices = {1, 2, 5}
  Sigs = {1}
  MaxOps = 2
SPECIFICATION Spec
INVARIANTS
  TypeOK
  ValidSlotsNotOutOfBounds
  CommittedCoversElements
  QuotaConserved
  SetOwnershipConserved
  SizeWithinLimits
PROPERTIES
  SizeMonotonic
  OperationsComplete
  ImplementsAbstractTable
