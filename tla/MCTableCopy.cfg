\* Copy run: one thread of four operations on a table of three elements with
\* two references: set slots apart, then copy overlapping ranges both ways
\* and fill, with counts that run off the end of the table.
CONSTANTS
  Tables = {T1}
  Threads = {th1}
  Refs = {F, G}
  T1 = T1
  T2 = T2
  F = F
  G = G
  S1 = S1
  OOBElem = OOBElem
  UninitElem = UninitElem
  NullRef = NullRef
  NoThread = NoThread
  ModuleInstance = ModuleInstance
  Addr <- MCAddr
  SigOf <- MCSigOf
  UptrBits = 4
  ReservedElems = 4
  MaxTableElems = 3
  TypeMin = 3
  TypeMax = 3
  ElemsPerPage = 2
  QuotaMax = 4
  GrowDeltas = {}
  GrowElems <- MCGrowElems
  SetValues <- MCSetValues
  Indices = {0, 1}
  Sigs = {1}
  MaxOps = 3
  Segments = {S1}
  SegElems <- MCSegElems
  Offsets = {0, 1, 2}
  CopyCounts = {0, 2}
  FillCounts = {0, 2}
  InitCounts = {}
SPECIFICATION BulkSpec
INVARIANTS
  CopyIsMemmove
