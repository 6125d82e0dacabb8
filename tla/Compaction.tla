----------------------------- MODULE Compaction -----------------------------
(***************************************************************************)
(* The levels of a LevelDB database: where the versions of a key are, how  *)
(* flushes and compactions move and drop them, and what a read finds.      *)
(*                                                                         *)
(* A table is the set of its entries.  File sizes are not modelled: where  *)
(* the code compares bytes with a limit, any outcome in TooLarge is        *)
(* possible, and a table may end after any entry.  The background thread   *)
(* does one compaction at a time, but a memtable may be switched and       *)
(* flushed while it runs, and snapshots come and go.  Faults and crashes   *)
(* are in the module DBFiles.                                              *)
(***************************************************************************)
EXTENDS Integers, FiniteSets, FiniteSetsExt

CONSTANTS
  MaxKey,         \* user keys are 1..MaxKey
  NumLevels,      \* config::kNumLevels
  MaxMemLevel,    \* config::kMaxMemCompactLevel
  MaxSeq,         \* bound: writes
  Deletes,        \* which of Put (FALSE) and Delete (TRUE) clients call
  Loads,          \* bounds: what clients do and how large tables get, see below
  TooLarge        \* what a comparison of bytes with a limit may give

ASSUME LevelAssumption ==
  NumLevels \in Nat /\ MaxMemLevel \in Nat /\ MaxMemLevel < NumLevels
ASSUME BoundAssumption ==
  /\ MaxKey \in Nat \ {0} /\ MaxSeq \in Nat
  /\ Loads \subseteq [keys : 1..MaxKey, writes : 0..MaxSeq, snapshots : Nat,
                     outputs : Nat \ {0}, manual : BOOLEAN]
  /\ Deletes \subseteq BOOLEAN /\ TooLarge \subseteq BOOLEAN /\ FALSE \in TooLarge

VARIABLES
  load,        \* the load of this behaviour: the keys and writes there are,
               \* snapshots held at a time, tables one compaction writes,
               \* and whether CompactRange is called
  mem, imm,    \* mem_ and imm_, as sets of entries
  hasImm,      \* imm_ # NULL
  levels,      \* current_->files_: level -> set of files
  lastSeq,     \* last_sequence_
  snaps,       \* snapshots_
  comp,        \* the compaction in progress
  flushes,     \* files written at level 0 or pushed below it so far
  hist         \* history: every entry ever written

vars == <<load, mem, imm, hasImm, levels, lastSeq, snaps, comp, flushes, hist>>

Keys == 1..MaxKey
Levels == 0..(NumLevels - 1)
Entries == [k : Keys, s : 1..MaxSeq, del : BOOLEAN]
Files == [num : Nat, ents : SUBSET Entries]

NoComp == [pc |-> "idle", level |-> 0, in0 |-> {}, in1 |-> {}, snap |-> 0,
           base |-> [l \in Levels |-> {}]]

----------------------------------------------------------------------------
(* Internal keys and files.                                                *)

(* InternalKeyComparator: user keys ascending, sequence numbers descending.*)
Before(a, b) == a.k < b.k \/ (a.k = b.k /\ a.s > b.s)

Smallest(f) == CHOOSE e \in f.ents : \A x \in f.ents : x = e \/ Before(e, x)
Largest(f)  == CHOOSE e \in f.ents : \A x \in f.ents : x = e \/ Before(x, e)
Lo(f) == Min({e.k : e \in f.ents})
Hi(f) == Max({e.k : e \in f.ents})

(* GetRange and GetRange2, as user keys.                                   *)
RangeLo(fs) == Min({Lo(f) : f \in fs})
RangeHi(fs) == Max({Hi(f) : f \in fs})

Overlaps(f, lo, hi) == lo <= Hi(f) /\ Lo(f) <= hi

(* Version::OverlapInLevel.                                                *)
OverlapInLevel(v, level, lo, hi) == \E f \in v[level] : Overlaps(f, lo, hi)

(* Version::GetOverlappingInputs.  At level 0, where files overlap each    *)
(* other, the range grows with every file it meets; what it grows to is    *)
(* the smallest range that every file it overlaps lies in.                 *)
Level0Ranges(v, lo, hi) ==
  {r \in Keys \X Keys :
     /\ r[1] <= lo /\ hi <= r[2]
     /\ \A f \in v[0] : Overlaps(f, r[1], r[2]) => r[1] <= Lo(f) /\ Hi(f) <= r[2]}

GetOverlappingInputs(v, level, lo, hi) ==
  IF level > 0 THEN {f \in v[level] : Overlaps(f, lo, hi)}
  ELSE LET rs == Level0Ranges(v, lo, hi)
           r  == CHOOSE x \in rs : \A y \in rs : x[2] - x[1] <= y[2] - y[1]
       IN  {f \in v[0] : Overlaps(f, r[1], r[2])}

----------------------------------------------------------------------------
(* Reads: DBImpl::Get and Version::Get.                                    *)

(* The newest version of k at or below snapshot s, as a set of at most one *)
(* entry.                                                                  *)
Newest(ents, k, s) ==
  LET vis == {e \in ents : e.k = k /\ e.s <= s}
  IN  {e \in vis : \A x \in vis : x.s <= e.s}

(* Level 0: the files whose range holds the key, newest file first.        *)
FindLevel0(v, k, s) ==
  LET hits == {f \in v[0] : Lo(f) <= k /\ k <= Hi(f) /\ Newest(f.ents, k, s) # {}}
  IN  UNION {Newest(f.ents, k, s) : f \in {g \in hits : \A h \in hits : h.num <= g.num}}

(* A deeper level: FindFile picks the first file whose largest internal    *)
(* key is not before the key looked for, and only that file is read.       *)
FindLevel(v, level, k, s) ==
  LET after == {f \in v[level] : LET e == Largest(f)
                                 IN  e.k > k \/ (e.k = k /\ e.s <= s)}
      first == {f \in after : \A g \in after : f = g \/ Before(Largest(f), Largest(g))}
  IN  UNION {Newest(f.ents, k, s) : f \in {g \in first : Lo(g) <= k}}

(* The places a read looks at, in order; the first that has the key wins.  *)
Place(i, k, s) ==
  CASE i = 1 -> Newest(mem, k, s)
    [] i = 2 -> Newest(imm, k, s)
    [] i = 3 -> FindLevel0(levels, k, s)
    [] OTHER -> FindLevel(levels, i - 3, k, s)

Get(k, s) ==
  LET hits == {i \in 1..(NumLevels + 2) : Place(i, k, s) # {}}
  IN  IF hits = {} THEN {} ELSE {e \in Place(Min(hits), k, s) : ~e.del}

----------------------------------------------------------------------------
TypeOK ==
  /\ load \in Loads
  /\ mem \subseteq Entries /\ imm \subseteq Entries /\ hist \subseteq Entries
  /\ hasImm \in BOOLEAN
  /\ DOMAIN levels = Levels /\ \A l \in Levels : \A f \in levels[l] : f \in Files
  /\ lastSeq \in 0..MaxSeq
  /\ snaps \subseteq 0..MaxSeq
  /\ comp.pc \in {"idle", "work"} /\ comp.level \in Levels /\ comp.snap \in 0..MaxSeq
  /\ flushes \in Nat

Init ==
  /\ load \in Loads
  /\ mem = {} /\ imm = {} /\ hasImm = FALSE
  /\ levels = [l \in Levels |-> {}]
  /\ lastSeq = 0 /\ snaps = {}
  /\ comp = NoComp
  /\ flushes = 0 /\ hist = {}

----------------------------------------------------------------------------
(* Client operations.                                                      *)

(* Put and Delete, into the memtable.                                      *)
Write ==
  /\ lastSeq < load.writes
  /\ lastSeq' = lastSeq + 1
  /\ \E k \in 1..load.keys, del \in Deletes :
       LET e == [k |-> k, s |-> lastSeq + 1, del |-> del]
       IN  mem' = mem \cup {e} /\ hist' = hist \cup {e}
  /\ UNCHANGED <<load, imm, hasImm, levels, snaps, comp, flushes>>

(* MakeRoomForWrite makes the memtable immutable.                          *)
SwitchMemTable ==
  /\ ~hasImm /\ mem # {}
  /\ imm' = mem /\ hasImm' = TRUE /\ mem' = {}
  /\ UNCHANGED <<load, levels, lastSeq, snaps, comp, flushes, hist>>

GetSnapshot ==
  /\ lastSeq \notin snaps /\ Cardinality(snaps) < load.snapshots
  /\ snaps' = snaps \cup {lastSeq}
  /\ UNCHANGED <<load, mem, imm, hasImm, levels, lastSeq, comp, flushes, hist>>

ReleaseSnapshot ==
  /\ \E s \in snaps : snaps' = snaps \ {s}
  /\ UNCHANGED <<load, mem, imm, hasImm, levels, lastSeq, comp, flushes, hist>>

----------------------------------------------------------------------------
(* The background thread.                                                  *)

(* PickLevelForMemTableOutput: the deepest level reached without meeting   *)
(* an overlap; too much overlap with the level after next may stop it      *)
(* earlier.                                                                *)
MemTableLevels(lo, hi) ==
  {l \in 0..MaxMemLevel :
     /\ l > 0 => \A i \in 0..l : ~OverlapInLevel(levels, i, lo, hi)
     /\ \/ l = MaxMemLevel
        \/ OverlapInLevel(levels, 0, lo, hi)
        \/ OverlapInLevel(levels, l + 1, lo, hi)
        \/ TRUE \in TooLarge /\ l + 2 < NumLevels /\ OverlapInLevel(levels, l + 2, lo, hi)}

(* CompactMemTable, on its own or in the middle of a compaction.           *)
CompactMemTable ==
  /\ hasImm
  /\ LET f == [num |-> flushes + 1, ents |-> imm]
     IN  \E l \in MemTableLevels(Lo(f), Hi(f)) :
           levels' = [levels EXCEPT ![l] = @ \cup {f}]
  /\ flushes' = flushes + 1
  /\ imm' = {} /\ hasImm' = FALSE
  /\ UNCHANGED <<load, mem, lastSeq, snaps, comp, hist>>

(* Mutant: the files of the next level are not taken along.                *)
OtherInputsNone(level, in0) == {<<in0, {}>>}

(* SetupOtherInputs: the files of the next level, and perhaps more files   *)
(* of this level when that adds none of the next one.                      *)
OtherInputs(level, in0) ==
  LET overlap(l, fs) == GetOverlappingInputs(levels, l, RangeLo(fs), RangeHi(fs))
      in1 == overlap(level + 1, in0)
      more0 == overlap(level, in0 \cup in1)
      more1 == overlap(level + 1, more0)
      grow == /\ in1 # {}
              /\ Cardinality(more0) > Cardinality(in0)
              /\ Cardinality(more1) = Cardinality(in1)
  IN  {i \in {<<in0, in1>>, <<more0, more1>>} :
         IF grow THEN i = <<more0, more1>> \/ TRUE \in TooLarge ELSE i = <<in0, in1>>}

(* IsTrivialMove: one input, and not too much overlap with the grandparents.*)
OneFile(inputs) == Cardinality(inputs[1]) = 1 /\ inputs[2] = {}
ManyGrandparents(level, inputs) ==
  /\ TRUE \in TooLarge /\ level + 2 < NumLevels
  /\ OverlapInLevel(levels, level + 2, RangeLo(inputs[1]), RangeHi(inputs[1]))

(* Mutant: off by one.                                                     *)
SmallestSnapshotOff == (IF snaps = {} THEN lastSeq ELSE Min(snaps)) - 1

SmallestSnapshot == IF snaps = {} THEN lastSeq ELSE Min(snaps)

Begin(level, inputs) ==
  comp' = [pc |-> "work", level |-> level, in0 |-> inputs[1], in1 |-> inputs[2],
           snap |-> SmallestSnapshot, base |-> levels]

(* Mutant: at level 0 the files that overlap the seed are left behind.     *)
SeedInputsAlone(level, f) == {f}

(* PickCompaction: the seed is the file after compact_pointer_, or the     *)
(* file whose seeks are used up.                                           *)
SeedInputs(level, f) ==
  IF level > 0 THEN {f} ELSE GetOverlappingInputs(levels, 0, Lo(f), Hi(f))

PickCompaction ==
  /\ comp.pc = "idle" /\ ~hasImm
  /\ \E level \in 0..(NumLevels - 2) : \E f \in levels[level] :
       \E inputs \in OtherInputs(level, SeedInputs(level, f)) :
         \/ /\ ~OneFile(inputs) \/ ManyGrandparents(level, inputs)
            /\ Begin(level, inputs)
            /\ UNCHANGED levels
         \/ /\ OneFile(inputs)
            /\ levels' = [levels EXCEPT ![level] = @ \ inputs[1],
                                        ![level + 1] = @ \cup inputs[1]]
            /\ UNCHANGED comp
  /\ UNCHANGED <<load, mem, imm, hasImm, lastSeq, snaps, flushes, hist>>

(* VersionSet::CompactRange: the files of a level that overlap a range     *)
(* or, below level 0, the first few of them.                               *)
RangeInputs(level, lo, hi) ==
  LET fs == GetOverlappingInputs(levels, level, lo, hi)
  IN  IF level > 0 /\ TRUE \in TooLarge
      THEN {{g \in fs : g = f \/ Before(Largest(g), Largest(f))} : f \in fs}
      ELSE {fs} \ {{}}

ManualCompaction ==
  /\ load.manual
  /\ comp.pc = "idle" /\ ~hasImm
  /\ \E level \in 0..(NumLevels - 2), lo \in 1..load.keys, hi \in 1..load.keys :
       /\ lo <= hi
       /\ \E fs \in RangeInputs(level, lo, hi) :
            \E inputs \in OtherInputs(level, fs) : Begin(level, inputs)
  /\ UNCHANGED <<load, mem, imm, hasImm, levels, lastSeq, snaps, flushes, hist>>

(* IsBaseLevelForKey: no file below the output level may hold the key.     *)
IsBaseLevelForKey(k) ==
  \A l \in Levels : l >= comp.level + 2 =>
    \A f \in comp.base[l] : ~(Lo(f) <= k /\ k <= Hi(f))

Input == UNION {f.ents : f \in comp.in0 \cup comp.in1}

(* The loop of DoCompactionWork drops an entry that is hidden by a newer   *)
(* one no snapshot is older than (A), and a deletion that hides nothing.   *)
Hidden(e) == \E x \in Input : x.k = e.k /\ x.s > e.s /\ x.s <= comp.snap
(* Mutant: a deletion is dropped although a deeper level has the key.      *)
ObsoleteAnywhere(e) == e.del /\ e.s <= comp.snap

Obsolete(e) == e.del /\ e.s <= comp.snap /\ IsBaseLevelForKey(e.k)
Kept == {e \in Input : ~Hidden(e) /\ ~Obsolete(e)}

(* The kept entries in order, cut into tables: a table may end anywhere.   *)
Pieces(cuts) ==
  {{e \in Kept : /\ (c = e \/ Before(e, c))
                 /\ \A d \in cuts : Before(d, c) => Before(d, e)} : c \in cuts}

Outputs ==
  IF Kept = {} THEN {{}}
  ELSE {{[num |-> 0, ents |-> p] : p \in Pieces(cuts \cup {Largest([ents |-> Kept])})} :
          cuts \in {c \in SUBSET Kept : Cardinality(c) < load.outputs}}

(* The end of DoCompactionWork: InstallCompactionResults.                  *)
InstallCompactionResults ==
  /\ comp.pc = "work"
  /\ \E out \in Outputs :
       levels' = [levels EXCEPT ![comp.level] = @ \ comp.in0,
                                ![comp.level + 1] = (@ \ comp.in1) \cup out]
  /\ comp' = NoComp
  /\ UNCHANGED <<load, mem, imm, hasImm, lastSeq, snaps, flushes, hist>>

Next ==
  \/ Write \/ SwitchMemTable \/ GetSnapshot \/ ReleaseSnapshot
  \/ CompactMemTable \/ PickCompaction \/ ManualCompaction
  \/ InstallCompactionResults

Spec == Init /\ [][Next]_vars

----------------------------------------------------------------------------
(* Properties.                                                             *)

(* A read at the present state, or at any snapshot that is held, finds the *)
(* newest version written up to then, or nothing if that is a deletion or  *)
(* there is none.                                                          *)
ReadsCorrect ==
  \A k \in Keys, s \in snaps \cup {lastSeq} :
    Get(k, s) = {e \in Newest(hist, k, s) : ~e.del}

(* The files of a level other than 0 have disjoint key ranges ("Make sure  *)
(* there is no overlap in levels > 0", VersionSet::Builder::SaveTo).       *)
LevelsDisjoint ==
  \A l \in Levels \ {0} : \A f \in levels[l], g \in levels[l] :
    f # g => Before(Largest(f), Smallest(g)) \/ Before(Largest(g), Smallest(f))

(* The versions of a key get older with the level ("if we find data in an  *)
(* smaller level, later levels are irrelevant", Version::Get).             *)
NewerAbove ==
  \A i \in Levels, j \in Levels : i < j =>
    \A f \in levels[i], g \in levels[j] : \A x \in f.ents, y \in g.ents :
      x.k = y.k => x.s > y.s

=============================================================================
