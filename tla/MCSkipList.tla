----------------------------- MODULE MCSkipList -----------------------------
(* A small memtable for TLC: keys are written again, and readers start     *)
(* while the list grows in height.                                         *)
EXTENDS SkipList
=============================================================================
