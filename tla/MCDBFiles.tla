----------------------------- MODULE MCDBFiles -----------------------------
(* Instances of DBFiles for TLC.                                           *)
EXTENDS DBFiles

=============================================================================
