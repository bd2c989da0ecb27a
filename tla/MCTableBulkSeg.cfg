\* Segment run: two threads of two operations racing table.init against
\* elem.drop on a table of two elements and one segment of two entries;
\* no grows, copies, fills or single-slot operations.
CONSTANTS
  Tables = {T1}
  Threads = {th1, th2}
  Refs = {F}
  T1 = T1
  T2 = T2
  F = F
  G = G
  S1 = S1
  OOBElem = OOBElem
  UninitElem = UninitElem
  NullRef = NullRef
  NoThread = NoThread
  ModuleInstance = ModuleInstance
  Addr <- MCAddr
  SigOf <- MCSigOf
  UptrBits = 4
  ReservedElems = 4
  MaxTableElems = 3
  TypeMin = 2
  TypeMax = 3
  ElemsPerPage = 2
  QuotaMax = 4
  GrowDeltas = {}
  GrowElems <- MCGrowElems
  SetValues <- MCSetValues
  Indices = {}
  Sigs = {1}
  MaxOps = 2
  Segments = {S1}
  SegElems <- MCSegElems
  Offsets = {0, 1}
  CopyCounts = {}
  FillCounts = {}
  InitCounts = {0, 2}
SPECIFICATION BulkSpec
INVARIANTS
  BulkTypeOK
  InitReadsLiveSegment
PROPERTIES
  DroppedSegmentFreed
