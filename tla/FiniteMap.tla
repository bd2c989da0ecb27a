----------------------------- MODULE FiniteMap -----------------------------
(***************************************************************************)
(* What WAVM's HashMap promises its callers (the declarations of          *)
(* Inline/HashMap.h, whose bodies are Impl/HashMapImpl.h): a finite map   *)
(* from keys to values, and the answer each call returns.  `ret` is the  *)
(* last call's name, key and result.  Calls whose assertion requires the *)
(* key to be present (operator[], removeOrFail) or absent (addOrFail) are *)
(* made only when it is.  Iterating yields every pair once: its result is *)
(* the set of pairs visited and the number of visits.                     *)
(***************************************************************************)
EXTENDS FiniteSets, Functions

CONSTANTS Keys, Values, NoKey, NoValue

VARIABLES map, ret

NoRet == [op |-> "none", key |-> NoKey, out |-> NoValue]

Pairs(m) == {<<k, m[k]>> : k \in DOMAIN m}

Put(m, k, v) == [x \in DOMAIN m \cup {k} |-> IF x = k THEN v ELSE m[x]]

\* An empty map, or one built from a list of pairs with distinct keys.
Init == map \in UNION {[ks -> Values] : ks \in SUBSET Keys} /\ ret = NoRet

Reply(op, k, out) == ret' = [op |-> op, key |-> k, out |-> out]

Present(k) == k \in DOMAIN map

Add(k, v) ==
  /\ map' = IF Present(k) THEN map ELSE Put(map, k, v)
  /\ Reply("add", k, ~Present(k))

AddOrFail(k, v) == ~Present(k) /\ map' = Put(map, k, v) /\ Reply("addOrFail", k, NoValue)

SetValue(k, v) == map' = Put(map, k, v) /\ Reply("set", k, v)

GetOrAdd(k, v) ==
  /\ map' = IF Present(k) THEN map ELSE Put(map, k, v)
  /\ Reply("getOrAdd", k, map'[k])

Remove(k) == map' = Restrict(map, DOMAIN map \ {k}) /\ Reply("remove", k, Present(k))

RemoveOrFail(k) ==
  Present(k) /\ map' = Restrict(map, DOMAIN map \ {k}) /\ Reply("removeOrFail", k, NoValue)

Clear == map' = [k \in {} |-> NoValue] /\ Reply("clear", NoKey, NoValue)

\* The queries leave the map alone.
Query(k) ==
  /\ UNCHANGED map
  /\ \/ Reply("contains", k, Present(k))
     \/ Present(k) /\ Reply("index", k, map[k])
     \/ Reply("get", k, IF Present(k) THEN map[k] ELSE NoValue)
     \/ Reply("getPair", k, IF Present(k) THEN <<k, map[k]>> ELSE NoValue)
     \/ Reply("size", NoKey, Cardinality(DOMAIN map))
     \/ Reply("iterate", NoKey, [pairs |-> Pairs(map), count |-> Cardinality(DOMAIN map)])

Next ==
  \/ \E k \in Keys, v \in Values :
       Add(k, v) \/ AddOrFail(k, v) \/ SetValue(k, v) \/ GetOrAdd(k, v)
  \/ \E k \in Keys : Remove(k) \/ RemoveOrFail(k) \/ Query(k)
  \/ Clear

Spec == Init /\ [][Next]_<<map, ret>>
====
