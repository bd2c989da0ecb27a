\* Lifecycle run: the initial table T0 of two elements in R0; two threads of
\* two operations each create, clone, destroy, set, grow and resolve.  A
\* quota of 5 admits one table of two elements beside T0 plus one grow, so
\* later creates and clones fail on the quota, and a third table finds no
\* reservation left.
CONSTANTS
  Threads = {th1, th2}
  TableObjs = {T0, T1, T2}
  Regions = {R0, R1}
  NoRegion = NoRegion
  NoThread = NoThread
  NoTable = NoTable
  Refs = {A, B}
  Zero = Zero
  th1 = th1
  th2 = th2
  T0 = T0
  T1 = T1
  T2 = T2
  R0 = R0
  R1 = R1
  A = A
  B = B
  InitTable = T0
  InitRegion = R0
  InitElem = A
  MinElems = 2
  MaxElems = 3
  GrowDeltas = {1}
  QuotaMax = 5
  MaxOps = 2
SPECIFICATION Spec
INVARIANTS
  TypeOK
  RegistryResolvesLiveTables
  QuotaMatchesLiveTables
  CloneCopiesSourceValues
PROPERTIES
  ResizingMutexReleased
