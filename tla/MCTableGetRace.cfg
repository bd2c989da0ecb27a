\* Get racing grow: one thread grows the table by one slot while the
\* other reads that slot.
CONSTANTS
  Tables = {T1}
  Threads = {th1, th2}
  Refs = {F}
  T1 = T1
  T2 = T2
  F = F
  G = G
  OOBElem = OOBElem
  UninitElem = UninitElem
  NullRef = NullRef
  NoThread = NoThread
  Addr <- MCAddr
  SigOf <- MCSigOf
  UptrBits = 4
  ReservedElems = 4
  MaxTableElems = 3
  TypeMin = 1
  TypeMax = 3
  ElemsPerPage = 2
  QuotaMax = 4
  GrowDeltas = {1}
  GrowElems <- MCGrowElems
  SetValues <- MCSetValues
  Indices = {1}
  Sigs = {1}
  MaxOps = 2
SPECIFICATION Spec
INVARIANT
  GetBeyondSizeRaises
