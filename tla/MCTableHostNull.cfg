\* Host growTable: one thread grows the table passing the initial element
\* through unchanged, null included.
CONSTANTS
  Tables = {T1}
  Threads = {th1}
  Refs = {F}
  T1 = T1
  T2 = T2
  F = F
  G = G
  OOBElem = OOBElem
  UninitElem = UninitElem
  NullRef = NullRef
  NoThread = NoThread
  Addr <- MCAddr
  SigOf <- MCSigOf
  UptrBits = 4
  ReservedElems = 4
  MaxTableElems = 3
  TypeMin = 1
  TypeMax = 3
  ElemsPerPage = 2
  QuotaMax = 4
  GrowDeltas = {1}
  GrowElems <- MCHostGrowElems
  SetValues <- MCSetValues
  Indices = {0, 1, 2, 4}
  Sigs = {1}
  MaxOps = 2
SPECIFICATION Spec
INVARIANT
  SlotsNeverNull
