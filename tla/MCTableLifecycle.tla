--------------------------- MODULE MCTableLifecycle ---------------------------
(***************************************************************************)
(* Model-checking instance of TableLifecycle: two threads, three table    *)
(* objects and two reservations, so that a third table finds the address  *)
(* space used up.  The lifecycle run checks a liveness property, so only  *)
(* the safety runs use the thread symmetry.                               *)
(***************************************************************************)
EXTENDS TableLifecycle, TLC

CONSTANTS th1, th2, T0, T1, T2, R0, R1, A, B

ThreadSymmetry == Permutations({th1, th2})
====
