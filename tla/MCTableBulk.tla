----------------------------- MODULE MCTableBulk -----------------------------
(***************************************************************************)
(* Model-checking instance of TableBulk, on the constants of MCTable.      *)
(***************************************************************************)
EXTENDS TableBulk, MCTable

CONSTANTS S1

\* One passive segment of two entries: a function and ref.null.
MCSegElems == S1 :> <<F, NullRef>>
====
