---------------------------- MODULE MCTableCache ----------------------------
(* A cache of three tables for TLC: all of them collide in the first hash  *)
(* table, two of them in the larger one, and one counts twice.             *)
EXTENDS TableCache

SmallHash == [k \in Keys |-> 2 * k + 1]
SmallCharge == [k \in Keys |-> IF k = 2 THEN 2 ELSE 1]

(* Threads differ in nothing but their names, and no handle depends on one. *)
ThreadSymmetry == Permutations(Threads)

=============================================================================
