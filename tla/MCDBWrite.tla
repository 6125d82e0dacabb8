----------------------------- MODULE MCDBWrite -----------------------------
(* Instances of DBWrite for TLC.                                           *)
EXTENDS DBWrite, TLC

Symmetry == Permutations(Clients)

=============================================================================
