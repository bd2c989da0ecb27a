\* Init range run: one thread on a table of three elements running table.init
\* with a source range that runs past the two-entry segment after a first
\* entry in range.
CONSTANTS
  Tables = {T1}
  Threads = {th1}
  Refs = {F, G}
  T1 = T1
  T2 = T2
  F = F
  G = G
  S1 = S1
  OOBElem = OOBElem
  UninitElem = UninitElem
  NullRef = NullRef
  NoThread = NoThread
  ModuleInstance = ModuleInstance
  Addr <- MCAddr
  SigOf <- MCSigOf
  UptrBits = 4
  ReservedElems = 4
  MaxTableElems = 3
  TypeMin = 3
  TypeMax = 3
  ElemsPerPage = 2
  QuotaMax = 4
  GrowDeltas = {}
  GrowElems <- MCGrowElems
  SetValues <- MCSetValues
  Indices = {}
  Sigs = {1}
  MaxOps = 1
  Segments = {S1}
  SegElems <- MCSegElems
  Offsets = {0, 1, 2}
  CopyCounts = {}
  FillCounts = {}
  InitCounts = {2}
SPECIFICATION BulkSpec
INVARIANTS
  InitOutOfRangeWritesNothing
