\* Three keys and two values in four buckets, the most a table of three
\* pairs needs plus the empty bucket getBucketForAdd returns.
CONSTANTS
  Keys = {k1, k2, k3}
  Values = {v1, v2}
  k1 = k1
  k2 = k2
  k3 = k3
  v1 = v1
  v2 = v2
  NoKey = NoKey
  NoValue = NoValue
  NumBuckets = 4
  HashBits = 2
  KeyHash <- MCKeyHash
SPECIFICATION Spec
INVARIANTS
  TypeOK
  IterationVisitsEachPairOnce
PROPERTIES
  ImplementsFiniteMap
  IterationTerminates
