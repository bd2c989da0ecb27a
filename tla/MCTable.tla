------------------------------- MODULE MCTable -------------------------------
(***************************************************************************)
(* Model-checking instance of Table: one or two tables, two threads, one   *)
(* or two references, a 4-bit Uptr and pages of two elements.              *)
(***************************************************************************)
EXTENDS Table, TLC

CONSTANTS T1, T2, F, G

\* Addresses: the references lie on both sides of the OOB sentinel so that
\* biasing wraps around for some of them.
MCAddr == (F :> 3) @@ (G :> 13) @@ (OOBElem :> 6) @@ (UninitElem :> 11) @@ (NullRef :> 0)

\* Sentinels carry Encoding{0} (makeDummyFunction); real functions a
\* non-zero encoding.
MCSigOf == (F :> 1) @@ (G :> 2) @@ (OOBElem :> 0) @@ (UninitElem :> 0) @@ (NullRef :> 0)

\* table.grow and createTable replace null by the uninitialized sentinel
\* before growTableImpl, so its fill value is a reference or that sentinel.
MCGrowElems == Refs \cup {UninitElem}

\* Host growTable passes its initialElement through unchanged, null too.
MCHostGrowElems == Refs \cup {UninitElem, NullRef}

MCSetValues == Refs \cup {NullRef}

\* Threads are interchangeable model values.
ThreadSymmetry == Permutations(Threads)
====
