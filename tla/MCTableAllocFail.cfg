\* Allocation-failure run: the instance of MCTableLifecycle.cfg.  A table
\* created or cloned when both reservations are in use gets nullptr from
\* allocateVirtualPages, and its destructor frees table->elements.
CONSTANTS
  Threads = {th1, th2}
  TableObjs = {T0, T1, T2}
  Regions = {R0, R1}
  NoRegion = NoRegion
  NoThread = NoThread
  NoTable = NoTable
  Refs = {A, B}
  Zero = Zero
  th1 = th1
  th2 = th2
  T0 = T0
  T1 = T1
  T2 = T2
  R0 = R0
  R1 = R1
  A = A
  B = B
  InitTable = T0
  InitRegion = R0
  InitElem = A
  MinElems = 2
  MaxElems = 3
  GrowDeltas = {1}
  QuotaMax = 5
  MaxOps = 2
SPECIFICATION Spec
INVARIANT
  DestroyFreesOwnReservation
SYMMETRY ThreadSymmetry
