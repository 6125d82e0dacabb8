---------------------------- MODULE MCCompaction ----------------------------
(* Instances of Compaction for TLC.                                        *)
EXTENDS Compaction

(* Two snapshots and manual compactions, or three keys and compactions     *)
(* that write two tables.                                                  *)
LevelLoads ==
  {[keys |-> 2, writes |-> 3, snapshots |-> 2, outputs |-> 1, manual |-> TRUE],
   [keys |-> 3, writes |-> 4, snapshots |-> 0, outputs |-> 2, manual |-> FALSE]}

(* A snapshot, and a compaction that writes two tables.                    *)
SplitLoads ==
  {[keys |-> 1, writes |-> 3, snapshots |-> 1, outputs |-> 2, manual |-> FALSE]}

(* A manual compaction may take files with a gap between them, and a       *)
(* memtable of keys of the gap may be flushed while it runs.               *)
GapLoads ==
  {[keys |-> 3, writes |-> 5, snapshots |-> 0, outputs |-> 1, manual |-> TRUE]}

=============================================================================
