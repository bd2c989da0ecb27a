------------------------------ MODULE HashMap ------------------------------
(***************************************************************************)
(* HashMap<Key, Value, KeyHashPolicy> of                                   *)
(* src/Include/WAVM/Inline/Impl/HashMapImpl.h, used by one thread.         *)
(*                                                                         *)
(* The map is a HashTable of HashTableBucket<Pair>: each bucket holds     *)
(* hashAndOccupancy (zero for an empty bucket) and, when occupied, the    *)
(* pair.  HashTable itself is not in this source tree, so its calls are   *)
(* modelled by what HashMap relies on, and no more:                       *)
(*   - getBucketForRead / getBucketForModify return the bucket whose      *)
(*     hashAndOccupancy is hash | isOccupiedMask and whose key is equal,  *)
(*     or none;                                                           *)
(*   - getBucketForAdd returns the bucket whose hashAndOccupancy and key  *)
(*     equal its arguments, or else any empty bucket;                     *)
(*   - remove empties the bucket lookup would find.                       *)
(* HashTable also moves pairs between buckets (Robin Hood displacement,   *)
(* the backward shift of remove, rehashing).  Those moves are left out:   *)
(* they change no pair, and every layout they produce is reached anyway  *)
(* by adds into chosen empty buckets and removes.                         *)
(* Hashes are words of HashBits bits with isOccupiedMask the top bit, so  *)
(* the key hashes can be zero and can collide, as 64-bit hashes can.      *)
(***************************************************************************)
EXTENDS Integers, Sequences, SequencesExt, FiniteSets, Bitwise, TLC

CONSTANTS
  Keys, Values,   \* the keys and values callers pass
  NoKey, NoValue, \* no key; nullptr or no value
  NumBuckets,     \* table.numBuckets()
  HashBits,       \* width of a hash word
  KeyHash         \* KeyHashPolicy::getKeyHash

ASSUME /\ NumBuckets > Cardinality(Keys)
       /\ KeyHash \in [Keys -> 0 .. 2^HashBits - 1]

VARIABLES
  buckets,  \* buckets[b]: hashAndOccupancy, key and value of bucket b
  ret,      \* the last call's name, key and result
  pc,       \* "idle", or "iterating" inside a range-for over the map
  it,       \* the iterator's bucket index; NumBuckets is endBucket
  visited   \* the pairs the loop body has been given so far

vars == <<buckets, ret, pc, it, visited>>

BucketIdx == 0 .. NumBuckets - 1
isOccupiedMask == 2^(HashBits - 1)
EmptyBucket == [hashAndOccupancy |-> 0, key |-> NoKey, value |-> NoValue]
Bucket(h, k, v) == [hashAndOccupancy |-> h, key |-> k, value |-> v]
NoRet == [op |-> "none", key |-> NoKey, out |-> NoValue]

\* Bound on the pairs one loop can be given: NumBuckets, one per bucket.
MaxVisits == NumBuckets

getKeyHash(k) == KeyHash[k]

\* Mutant: the occupancy bit is not or-ed into the stored hash.
HashAndOccupancyNoMask(k) == getKeyHash(k)

\* getKeyHash(key) | HashTableBucket<Pair>::isOccupiedMask.
HashAndOccupancy(k) == getKeyHash(k) | isOccupiedMask

-----------------------------------------------------------------------------
(* The HashTable calls.                                                    *)

Occupied(bs, b) == bs[b].hashAndOccupancy # 0

\* getBucketForRead / getBucketForModify (hash, key).
Lookup(k) ==
  {b \in BucketIdx : /\ buckets[b].hashAndOccupancy = (getKeyHash(k) | isOccupiedMask)
                     /\ buckets[b].key = k}

\* getBucketForAdd (hashAndOccupancy, key): the bucket whose
\* hashAndOccupancy and key equal its arguments, or else any empty one.
BucketForAdd(h, k) ==
  LET found == {b \in BucketIdx : buckets[b].hashAndOccupancy = h /\ buckets[b].key = k}
  IN IF found # {} THEN found ELSE {b \in BucketIdx : ~Occupied(buckets, b)}

\* remove (hash, key): empty the bucket lookup finds, if there is one.
TableRemove(k) ==
  buckets' = [b \in BucketIdx |-> IF b \in Lookup(k) THEN EmptyBucket ELSE buckets[b]]

-----------------------------------------------------------------------------
(* The HashMap members.                                                    *)

Idle == pc = "idle"

Reply(op, k, out) == ret' = [op |-> op, key |-> k, out |-> out]

\* The pair of a bucket, as bucket->storage.contents.
PairOf(b) == <<buckets[b].key, buckets[b].value>>

\* The value of the bucket lookup finds, or nullptr.
Found(k) == IF Lookup(k) = {} THEN NoValue ELSE buckets[CHOOSE b \in Lookup(k) : TRUE].value

\* getOrAdd, add, addOrFail and set: take the bucket for add, construct the
\* pair in it if it is empty, and answer.
Construct(b, k, v) == buckets' = [buckets EXCEPT ![b] = Bucket(HashAndOccupancy(k), k, v)]

getOrAdd(k, v) ==
  \E b \in BucketForAdd(HashAndOccupancy(k), k) :
    /\ IF Occupied(buckets, b) THEN UNCHANGED buckets ELSE Construct(b, k, v)
    /\ Reply("getOrAdd", k, buckets'[b].value)

add(k, v) ==
  \E b \in BucketForAdd(HashAndOccupancy(k), k) :
    /\ IF Occupied(buckets, b) THEN UNCHANGED buckets ELSE Construct(b, k, v)
    /\ Reply("add", k, ~Occupied(buckets, b))

\* wavmAssert(!bucket.hashAndOccupancy): callers add only absent keys.
addOrFail(k, v) ==
  /\ Lookup(k) = {}
  /\ \E b \in BucketForAdd(HashAndOccupancy(k), k) :
       Construct(b, k, v) /\ Reply("addOrFail", k, NoValue)

set(k, v) ==
  \E b \in BucketForAdd(HashAndOccupancy(k), k) :
    /\ IF Occupied(buckets, b) THEN buckets' = [buckets EXCEPT ![b].value = v]
       ELSE Construct(b, k, v)
    /\ Reply("set", k, v)

remove(k) == TableRemove(k) /\ Reply("remove", k, Lookup(k) # {})

\* wavmAssert(removed): callers remove only present keys.
removeOrFail(k) ==
  /\ Lookup(k) # {}
  /\ TableRemove(k)
  /\ Reply("removeOrFail", k, NoValue)

clear == buckets' = [b \in BucketIdx |-> EmptyBucket] /\ Reply("clear", NoKey, NoValue)

\* contains, operator[] (whose wavmAssert(bucket) callers respect), get,
\* getPair and size read the table and change nothing.
Query(k) ==
  /\ UNCHANGED buckets
  /\ \/ Reply("contains", k, Lookup(k) # {})
     \/ Lookup(k) # {} /\ Reply("index", k, Found(k))
     \/ Reply("get", k, Found(k))
     \/ Reply("getPair", k, IF Lookup(k) = {} THEN NoValue
                            ELSE PairOf(CHOOSE b \in Lookup(k) : TRUE))
     \/ Reply("size", NoKey, Cardinality({b \in BucketIdx : Occupied(buckets, b)}))

-----------------------------------------------------------------------------
(* Iteration: for(const auto& pair : map) { ... }, calling begin(), end(),  *)
(* operator!=, operator* and operator++.                                   *)

\* Mutant: the scan stops one bucket short of endBucket.
RECURSIVE SkipEmptyBeforeEnd(_)
SkipEmptyBeforeEnd(b) ==
  IF b < NumBuckets - 1 /\ ~Occupied(buckets, b) THEN SkipEmptyBeforeEnd(b + 1) ELSE b

\* The first occupied bucket at or after b, or endBucket.
RECURSIVE SkipEmpty(_)
SkipEmpty(b) == IF b < NumBuckets /\ ~Occupied(buckets, b) THEN SkipEmpty(b + 1) ELSE b

\* Mutant: begin() starts at the first bucket without skipping empty ones.
beginNoSkip == 0

\* begin(): the first occupied bucket.
begin == SkipEmpty(0)

\* Mutant: operator++ as a while loop, which stays on an occupied bucket.
IncrementWhile(b) == SkipEmpty(b)

\* operator++: do ++bucket while bucket < endBucket and it is empty.
Increment(b) == SkipEmpty(b + 1)

IterBegin ==
  /\ Idle
  /\ pc' = "iterating"
  /\ it' = begin
  /\ UNCHANGED <<buckets, ret, visited>>

\* it != end(): give the body *it, then ++it.
IterStep ==
  /\ pc = "iterating"
  /\ it # NumBuckets
  /\ Len(visited) < MaxVisits
  /\ visited' = Append(visited, PairOf(it))
  /\ it' = Increment(it)
  /\ UNCHANGED <<buckets, ret, pc>>

IterEnd ==
  /\ pc = "iterating"
  /\ it = NumBuckets
  /\ pc' = "idle"
  /\ Reply("iterate", NoKey, [pairs |-> ToSet(visited), count |-> Len(visited)])
  /\ visited' = <<>>
  /\ UNCHANGED <<buckets, it>>

-----------------------------------------------------------------------------

\* HashMap(initializerList): each pair of a list with distinct keys (the
\* wavmAssert(result) of line 21) added, each into a bucket of its own.
FromList(pairs, pos) ==
  [b \in BucketIdx |-> IF \E k \in DOMAIN pairs : pos[k] = b
                         THEN LET k == CHOOSE k \in DOMAIN pairs : pos[k] = b
                              IN Bucket(HashAndOccupancy(k), k, pairs[k])
                         ELSE EmptyBucket]

\* HashMap(reserveNumPairs), an empty table, or HashMap(initializerList).
Init ==
  /\ \/ buckets = [b \in BucketIdx |-> EmptyBucket]
     \/ \E ks \in SUBSET Keys :
          \E pairs \in [ks -> Values], pos \in Injection(ks, BucketIdx) :
            buckets = FromList(pairs, pos)
  /\ ret = NoRet
  /\ pc = "idle"
  /\ it = NumBuckets
  /\ visited = <<>>

Call ==
  /\ Idle
  /\ \/ \E k \in Keys, v \in Values : getOrAdd(k, v) \/ add(k, v) \/ addOrFail(k, v) \/ set(k, v)
     \/ \E k \in Keys : remove(k) \/ removeOrFail(k) \/ Query(k)
     \/ clear
  /\ UNCHANGED <<pc, it, visited>>

Next == Call \/ IterBegin \/ IterStep \/ IterEnd

\* The loop of one thread runs to its end once it has begun.
Spec == Init /\ [][Next]_vars /\ WF_vars(IterStep) /\ WF_vars(IterEnd)

-----------------------------------------------------------------------------
(* Properties.                                                             *)

TypeOK ==
  /\ buckets \in [BucketIdx -> [hashAndOccupancy : 0 .. 2^HashBits - 1,
                                key : Keys \cup {NoKey}, value : Values \cup {NoValue}]]
  /\ ret.op \in {"none", "getOrAdd", "add", "addOrFail", "set", "remove", "removeOrFail",
                 "clear", "contains", "index", "get", "getPair", "size", "iterate"}
  /\ pc \in {"idle", "iterating"}
  /\ it \in 0 .. NumBuckets
  /\ visited \in Seq(Keys \X Values)

\* The keys and values the occupied buckets hold, as the map callers see.
Contents ==
  LET occ == {b \in BucketIdx : Occupied(buckets, b)} IN
  [k \in {buckets[b].key : b \in occ} |-> buckets[CHOOSE b \in occ : buckets[b].key = k].value]

Abstract == INSTANCE FiniteMap WITH map <- Contents

\* Every sequence of calls behaves as on a finite map: add, getOrAdd, set
\* and remove answer by whether the key was there, reads find the value
\* last stored, and a whole range-for gives the body every pair once.
ImplementsFiniteMap == Abstract!Spec

\* A range-for over the map gives its body exactly the pairs the map holds,
\* each once, whatever the layout getBucketForAdd and remove left.
IterationVisitsEachPairOnce ==
  ret.op = "iterate" =>
    /\ ret.out.pairs = {PairOf(b) : b \in {b \in BucketIdx : Occupied(buckets, b)}}
    /\ ret.out.count = Cardinality({b \in BucketIdx : Occupied(buckets, b)})

\* A range-for that has begun reaches end().
IterationTerminates == pc = "iterating" ~> pc = "idle"
====
