----------------------------- MODULE MCHashMap -----------------------------
EXTENDS HashMap

CONSTANTS k1, k2, k3, v1, v2

\* Hashes of 2 bits, the top one being isOccupiedMask: k1 hashes to zero,
\* k2 has the occupancy bit set already and shares k1's stored
\* hashAndOccupancy, and k3 differs in the low bit.
MCKeyHash == (k1 :> 0) @@ (k2 :> 2) @@ (k3 :> 1)
====
