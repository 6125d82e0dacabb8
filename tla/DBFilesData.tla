---------------------------- MODULE DBFilesData ----------------------------
(***************************************************************************)
(* No write is lost: the invariant about the writes in the files of a      *)
(* database, on top of the invariant FInv of the files themselves, and the *)
(* steps of an open database up to the edit in the MANIFEST. The logs are  *)
(* written and the tables are recovered without errors here; syncs,        *)
(* flushes, compactions and the MANIFEST may fail, and a crash may come at *)
(* any time.                                                               *)
(***************************************************************************)
EXTENDS DBFilesCore

----------------------------------------------------------------------------
(* The inductive invariant.                                                *)

(* Where a write is: in some of the tables, in a log, in the synced part   *)
(* of a log, and in what a recovery of n edits of the MANIFEST finds.      *)
InFiles(w, F) == \E f \in F : w \in tables[f].data
InLog(w, l) == \E i \in 1..Len(logs[l].recs) : logs[l].recs[i].w = w
InSynced(w, l) == \E i \in 1..logs[l].synced : logs[l].recs[i].w = w
LogsFrom(k) == {l \in DOMAIN logs : l >= k}
Logged(w, k) == \E l \in LogsFrom(k) : InLog(w, l)
LoggedSynced(w, k) == \E l \in LogsFrom(k) : InSynced(w, l)
FoundAll(w, n) == InFiles(w, V(n).files) \/ Logged(w, V(n).log)
FoundSynced(w, n) == InFiles(w, V(n).files) \/ LoggedSynced(w, V(n).log)
InData(w) == FoundAll(w, Len(Manifest.edits))
InSafe(w) == \A n \in ManifestLengths : FoundSynced(w, n)

(* Log files: all records are complete, and none is newer than the one in  *)
(* use, or the ones that are still to be read.                             *)
LogsInv ==
  /\ \A l \in DOMAIN logs : \A i \in 1..Len(logs[l].recs) : logs[l].recs[i].ok
  /\ up \in {"opening", "open"} => \A l \in DOMAIN logs : l <= logNum
  /\ up = "recovering" => \A l \in DOMAIN logs : l \in rc.todo \/ l < vs.next

(* The memtables and their logs.  The logs from the one that the version   *)
(* records up to the current one hold what is in the memtable that is      *)
(* being flushed.  A sync that fails leaves a record that is not in the    *)
(* memtable, and no memtable is switched any more.                         *)
MemInv ==
  /\ up # "open" => mem = {} /\ imm = {}
  /\ up = "open" =>
       /\ \A w : w \in imm <=> \E l \in LogsFrom(vs.log) : l < logNum /\ InLog(w, l)
       /\ ~hasImm => vs.log = logNum
       /\ \A w \in mem : InLog(w, logNum)
       /\ ~bgError => \A w : InLog(w, logNum) =>
                        w \in mem \/ (wr.pc \in {"sync", "insert"} /\ w = wr.w)
       /\ wr.pc \in {"sync", "insert"} => InLog(wr.w, logNum)
       /\ wr.pc = "insert" /\ wr.sync => InSynced(wr.w, logNum)

(* The edit of a flush or of a compaction in progress.                     *)
WorkInv ==
  /\ fl.pc # "idle" => hasImm
  /\ ap.kind = "flush" => /\ ap.edit.log = logNum
                          /\ \A w : w \in imm <=> InFiles(w, ap.edit.add)
  /\ cp.inputs \subseteq cur
  /\ ap.kind = "compact" => \A w : InFiles(w, ap.edit.add) <=> InFiles(w, ap.edit.del)
  /\ ap.kind \in {"compact", "move"} => ap.edit.log = vs.log

(* What the MANIFEST of an open database leads to, however much of it is   *)
(* left.                                                                   *)
OpenInv ==
  up = "open" =>
    /\ \A n \in ManifestLengths :
         /\ V(n).log \in {vs.log, logNum}
         /\ V(n).log = logNum => \A w \in imm : InFiles(w, V(n).files)
         /\ \A w : InFiles(w, cur) => InFiles(w, V(n).files)
         /\ \A m \in ManifestLengths : \A w :
              InFiles(w, V(n).files) => InFiles(w, V(m).files) \/ w \in imm
    /\ ap.pc \in {"sync", "install"} =>
         /\ V(Len(Manifest.edits)).log = ap.edit.log
         /\ ap.edit.add \subseteq V(Len(Manifest.edits)).files
    /\ ap.pc = "install" => Manifest.synced = Len(Manifest.edits)

(* A database that is not open yet.                                        *)
ClosedInv ==
  /\ up # "open" => Manifest.synced = Len(Manifest.edits)
  /\ up = "recovering" =>
       LET v == V(Len(Manifest.edits))
       IN  /\ cur = v.files
           /\ \A w : Logged(w, v.log) <=>
                     (InFiles(w, rc.add) \/ \E l \in rc.todo : InLog(w, l))
  /\ up = "opening" =>
       /\ ap.edit.log = logNum /\ \A w : ~InLog(w, logNum)
       /\ \A w : InData(w) <=> InFiles(w, cur) \/ InFiles(w, ap.edit.add)

(* Acknowledged writes.                                                    *)
Visible(w) == w \in mem \/ w \in imm \/ InFiles(w, cur)
AckedInv ==
  \A a \in acked : /\ a.sync => InSafe(a.w)
                   /\ up # "open" => InData(a.w)
                   /\ up = "open" => Visible(a.w)

DInv == LogsInv /\ MemInv /\ WorkInv /\ OpenInv /\ ClosedInv /\ AckedInv

(* A step that changes neither what a restart finds nor takes anything     *)
(* from what every crash leaves.                                           *)
Kept == \A w : (InData(w)' <=> InData(w)) /\ (InSafe(w) => InSafe(w)')

(* Which writes get lost, if any, depends on the faults there can be.      *)
NoLoss == Created /\ "append" \notin Faults /\ "torn" \notin Faults /\ "recover" \notin Faults

----------------------------------------------------------------------------
(* Frames: what a step leaves alone.                                       *)

LEMMA SameFiles ==
  ASSUME FInv, FInv', Next, Manifest' = Manifest
  PROVE  /\ ManifestLengths' = ManifestLengths
         /\ Len(Manifest.edits)' = Len(Manifest.edits)
         /\ \A n \in ManifestLengths :
              /\ V(n)' = V(n)
              /\ \A w : InFiles(w, V(n).files)' <=> InFiles(w, V(n).files)
<1>1. /\ ManifestLengths' = ManifestLengths /\ \A n : V(n)' = V(n)
      /\ Len(Manifest.edits)' = Len(Manifest.edits)
      /\ \A f : Recorded(f)' <=> Recorded(f)
  BY ManifestSame, Zenon
<1>2. ASSUME NEW n \in ManifestLengths, NEW w
      PROVE  InFiles(w, V(n).files)' <=> InFiles(w, V(n).files)
  <2>1. V(n)' = V(n)
    BY <1>1, Zenon
  <2>2. \A f \in V(n).files : Used(f) /\ Used(f)'
    BY <1>1, Zenon DEF Used, Recorded
  <2>3. \A f \in V(n).files : tables'[f] = tables[f]
    BY <2>2, TablesFrame, Zenon
  <2> QED
    BY <2>1, <2>3, Zenon DEF InFiles
<1> QED
  BY <1>1, <1>2, Zenon

LEMMA KeptIf ==
  ASSUME FInv, FInv', Next, Manifest' = Manifest,
         \A n \in ManifestLengths : \A w :
           /\ Logged(w, V(n).log)' <=> Logged(w, V(n).log)
           /\ LoggedSynced(w, V(n).log) => LoggedSynced(w, V(n).log)'
  PROVE  Kept
<1>1. /\ ManifestLengths' = ManifestLengths
      /\ Len(Manifest.edits)' = Len(Manifest.edits)
      /\ \A n \in ManifestLengths : \A w :
           InFiles(w, V(n).files)' <=> InFiles(w, V(n).files)
  BY SameFiles, Zenon
<1>2. \A n \in ManifestLengths : \A w : /\ FoundAll(w, n)' <=> FoundAll(w, n)
                                        /\ FoundSynced(w, n) => FoundSynced(w, n)'
  BY <1>1, Zenon DEF FoundAll, FoundSynced
<1>3. PICK L : L = Len(Manifest.edits)
  BY Zenon
<1>4. L \in ManifestLengths
  BY <1>3, ManifestTyped, Zenon DEF FInv, TInv, FileTypes
<1>5. Len(Manifest'.edits) = L
  BY <1>1, <1>3, Zenon
<1>6. \A w : (InData(w) <=> FoundAll(w, L)) /\ (InData(w)' <=> FoundAll(w, L)')
  BY <1>3, <1>5, Zenon DEF InData
<1>7. \A w : InSafe(w) => InSafe(w)'
  BY <1>1, <1>2, Zenon DEF InSafe
<1> QED
  BY <1>2, <1>4, <1>6, <1>7, Zenon DEF Kept

(* A step that leaves the logs and the memtables of an open database alone,*)
(* and its version.                                                        *)
LEMMA QuietData ==
  ASSUME FInv, FInv', DInv, Next, up = "open",
         UNCHANGED <<up, logs, mem, imm, hasImm, logNum, cur, acked>>, vs'.log = vs.log,
         Manifest' = Manifest,
         bgError => bgError',
         wr' = wr \/ (wr.pc = "idle" /\ wr'.pc = "append"),
         ap' = ap \/ ap'.pc \in {"idle", "append"}
  PROVE  LogsInv' /\ MemInv' /\ OpenInv' /\ ClosedInv' /\ AckedInv' /\ Kept
<1>1. LogsInv /\ MemInv /\ OpenInv /\ AckedInv
  BY Zenon DEF DInv
<1>2. \A w : /\ \A l : /\ InLog(w, l)' <=> InLog(w, l)
                       /\ InSynced(w, l)' <=> InSynced(w, l)
             /\ \A k : /\ LogsFrom(k)' = LogsFrom(k)
                       /\ Logged(w, k)' <=> Logged(w, k)
                       /\ LoggedSynced(w, k)' <=> LoggedSynced(w, k)
  BY Zenon DEF InLog, InSynced, LogsFrom, Logged, LoggedSynced
<1>3. /\ ManifestLengths' = ManifestLengths
      /\ Len(Manifest.edits)' = Len(Manifest.edits)
      /\ \A n \in ManifestLengths :
           /\ V(n)' = V(n)
           /\ \A w : InFiles(w, V(n).files)' <=> InFiles(w, V(n).files)
  BY SameFiles, Zenon
<1>4. \A w : InFiles(w, cur)' <=> InFiles(w, cur)
  <2>1. \A f \in cur : Used(f) /\ Used(f)'
    BY Zenon DEF Used, InUse
  <2>2. \A f \in cur : tables'[f] = tables[f]
    BY <2>1, TablesFrame, Zenon
  <2> QED
    BY <2>2, Zenon DEF InFiles
<1>5. Kept
  <2>1. \A n \in ManifestLengths : \A w :
           /\ Logged(w, V(n).log)' <=> Logged(w, V(n).log)
           /\ LoggedSynced(w, V(n).log) => LoggedSynced(w, V(n).log)'
    <3> SUFFICES ASSUME NEW n \in ManifestLengths, NEW w
                 PROVE  /\ Logged(w, V(n).log)' <=> Logged(w, V(n).log)
                        /\ LoggedSynced(w, V(n).log) => LoggedSynced(w, V(n).log)'
      BY Zenon
    <3>1. V(n)' = V(n)
      BY <1>3, Zenon
    <3> QED
      BY <3>1, Zenon DEF Logged, LoggedSynced, LogsFrom, InLog, InSynced
  <2> QED
    BY <2>1, KeptIf, Zenon
<1>6. LogsInv' /\ ClosedInv'
  BY <1>1, Zenon DEF LogsInv, ClosedInv
<1>7. MemInv'
  BY <1>1, <1>2 DEF MemInv, LogsFrom, InLog, InSynced
<1>8. OpenInv'
  <2>1. \A n \in ManifestLengths' :
         /\ V(n)'.log \in {vs'.log, logNum'}
         /\ V(n)'.log = logNum' => \A w \in imm' : InFiles(w, V(n).files)'
         /\ \A w : InFiles(w, cur)' => InFiles(w, V(n).files)'
         /\ \A m \in ManifestLengths' : \A w :
              InFiles(w, V(n).files)' => InFiles(w, V(m).files)' \/ w \in imm'
    BY <1>1, <1>3, <1>4, Zenon DEF OpenInv
  <2>2. ap'.pc \in {"sync", "install"} => ap' = ap
    BY Zenon
  <2>3. Len(Manifest.edits) \in ManifestLengths
    BY ManifestTyped, Zenon DEF FInv, TInv, FileTypes
  <2>4. V(Len(Manifest.edits))' = V(Len(Manifest.edits))
    BY Zenon DEF V
  <2> QED
    BY <1>1, <1>3, <2>1, <2>2, <2>3, <2>4, Zenon DEF OpenInv
<1>9. AckedInv'
  BY <1>1, <1>4, <1>5, Zenon DEF AckedInv, Kept, Visible
<1> QED
  BY <1>5, <1>6, <1>7, <1>8, <1>9, Zenon

----------------------------------------------------------------------------
(* Readers, the start of a write, and the background work that builds      *)
(* tables.                                                                 *)

LEMMA CalmData ==
  ASSUME FInv, FInv', DInv, Next,
         BeginWrite \/ \E r \in Readers : Pin(r) \/ Unpin(r)
  PROVE  DInv' /\ Kept
<1>1. Phases /\ WorkInv
  BY Zenon DEF FInv, TInv, DInv
<1>2. /\ UNCHANGED <<logs, tables, manifests, current, mem, imm, hasImm, logNum, vs, cur, up,
                     bgError, fl, cp, ap, acked>>
      /\ wr' = wr \/ (wr.pc = "idle" /\ wr'.pc = "append")
  <2>1. CASE BeginWrite
    BY <2>1 DEF BeginWrite, disk, memVars, verVars
  <2>2. CASE \E r \in Readers : Pin(r) \/ Unpin(r)
    BY <2>2, Zenon DEF Pin, Unpin, disk, memVars, procVars, hist
  <2> QED
    BY <2>1, <2>2, Zenon
<1>3. up = "open"
  BY <1>1, Zenon DEF BeginWrite, Pin, Unpin, Phases
<1>4. Manifest' = Manifest
  BY <1>2, ManifestUntouched, Zenon
<1>5. WorkInv'
  BY <1>1, <1>2, Zenon DEF WorkInv, InFiles
<1>6. LogsInv' /\ MemInv' /\ OpenInv' /\ ClosedInv' /\ AckedInv' /\ Kept
  BY <1>2, <1>3, <1>4, QuietData, Zenon
<1> QED
  BY <1>5, <1>6, Zenon DEF DInv

LEMMA AllocateData ==
  ASSUME FInv, FInv', DInv, Next, FlushStart \/ CompactOpenOutput
  PROVE  DInv' /\ Kept
<1>1. Phases /\ WorkInv /\ ApplyTypes /\ VerTypes /\ ProcTypes
  BY Zenon DEF FInv, TInv, DInv, StateTypes
<1>2. /\ UNCHANGED <<logs, manifests, current, mem, imm, hasImm, logNum, cur, up, bgError, wr,
                     ap, acked>>
      /\ vs'.log = vs.log
  <2>1. vs' = [vs EXCEPT !.next = @ + 1]
    BY Zenon DEF FlushStart, CompactOpenOutput
  <2>2. vs'.log = vs.log
    BY <1>1, <2>1, Zenon DEF VerTypes
  <2> QED
    BY <2>2, Zenon DEF FlushStart, CompactOpenOutput, memVars, hist
<1>3. up = "open" /\ ap.kind = "none"
  BY <1>1, Zenon DEF FlushStart, CompactOpenOutput, Phases, ApplyTypes
<1>4. Manifest' = Manifest
  BY <1>2, ManifestUntouched, Zenon
<1>5. WorkInv'
  <2>1. cp'.inputs = cp.inputs /\ (fl'.pc # "idle" => hasImm)
    BY <1>1, Zenon DEF FlushStart, CompactOpenOutput, ProcTypes, WorkInv
  <2> QED
    BY <1>1, <1>2, <1>3, <2>1, Zenon DEF WorkInv
<1>6. LogsInv' /\ MemInv' /\ OpenInv' /\ ClosedInv' /\ AckedInv' /\ Kept
  BY <1>2, <1>3, <1>4, QuietData, Zenon
<1> QED
  BY <1>5, <1>6, Zenon DEF DInv

LEMMA FlushBuiltData ==
  ASSUME FInv, FInv', DInv, Next, FlushBuilt
  PROVE  DInv' /\ Kept
<1>1. Phases /\ WorkInv /\ TablesInv
  BY Zenon DEF FInv, TInv, DInv
<1>2. /\ UNCHANGED <<logs, manifests, current, mem, imm, hasImm, logNum, cur, up, wr, vs, cp,
                     acked>>
      /\ fl.pc = "build"
      /\ bgError => bgError'
  <2>1. bgError => bgError'
    BY Zenon DEF FlushBuilt
  <2> QED
    BY <2>1, Zenon DEF FlushBuilt, memVars, hist
<1>3. up = "open" /\ ap.kind = "none" /\ ap.pc = "idle" /\ hasImm
  BY <1>1, Zenon DEF FlushBuilt, Phases, WorkInv
<1>4. Manifest' = Manifest
  BY <1>2, ManifestUntouched, Zenon
<1>5. \/ /\ BuildTable(fl.num, imm, TRUE) /\ ap'.pc = "append" /\ ap'.kind = "flush"
         /\ ap'.edit.add = IF imm = {} THEN {} ELSE {fl.num}
         /\ ap'.edit.log = logNum /\ bgError' = bgError
      \/ ap' = ap /\ bgError'
  <2>1. CASE /\ BuildTable(fl.num, imm, TRUE)
             /\ BeginApply("flush", IF imm = {} THEN {} ELSE {fl.num}, {}, logNum, vs)
             /\ UNCHANGED bgError
    BY <2>1, BeginApplyStarts, Zenon
  <2> QED
    BY <2>1, Zenon DEF FlushBuilt
<1>6. WorkInv'
  <2>1. CASE ap' = ap
    BY <1>1, <1>2, <1>3, <2>1, Zenon DEF WorkInv
  <2>2. CASE /\ BuildTable(fl.num, imm, TRUE) /\ ap'.pc = "append" /\ ap'.kind = "flush"
             /\ ap'.edit.add = IF imm = {} THEN {} ELSE {fl.num}
             /\ ap'.edit.log = logNum
    <3>1. \A w : w \in imm <=> InFiles(w, ap.edit.add)'
      <4>1. CASE imm = {}
        BY <2>2, <4>1, Zenon DEF InFiles
      <4>2. CASE imm # {}
        <5>1. fl.num \in DOMAIN tables
          BY <1>1, <1>2, Zenon DEF TablesInv, Building
        <5>2. tables'[fl.num].data = imm
          BY <2>2, <4>2, <5>1, Zenon DEF BuildTable
        <5> QED
          BY <2>2, <4>2, <5>2, Zenon DEF InFiles
      <4> QED
        BY <4>1, <4>2, Zenon
    <3> QED
      BY <1>1, <1>2, <1>3, <2>2, <3>1, Zenon DEF WorkInv
  <2> QED
    BY <1>5, <2>1, <2>2, Zenon
<1>7. LogsInv' /\ MemInv' /\ OpenInv' /\ ClosedInv' /\ AckedInv' /\ Kept
  BY <1>2, <1>3, <1>4, <1>5, QuietData, Zenon
<1> QED
  BY <1>6, <1>7, Zenon DEF DInv

LEMMA CompactData ==
  ASSUME FInv, FInv', DInv, Next, CompactStart \/ CompactFinish
  PROVE  DInv' /\ Kept
<1>1. Phases /\ WorkInv /\ TablesInv /\ ProcTypes /\ ApplyTypes
  BY Zenon DEF FInv, TInv, DInv, StateTypes
<1>2. /\ UNCHANGED <<logs, manifests, current, mem, imm, hasImm, logNum, cur, up, wr, vs, fl,
                     acked>>
      /\ bgError => bgError'
  <2>1. CASE CompactStart
    BY <2>1, Zenon DEF CompactStart, memVars, hist, disk, verVars
  <2>2. CASE CompactFinish
    BY <2>2 DEF CompactFinish, memVars, hist, DeleteObsoleteFiles
  <2> QED
    BY <2>1, <2>2, Zenon
<1>3. up = "open" /\ ap.kind = "none" /\ ap.pc = "idle"
  BY <1>1, Zenon DEF CompactStart, CompactFinish, Phases, ApplyTypes
<1>4. Manifest' = Manifest
  BY <1>2, ManifestUntouched, Zenon
<1>5. \/ /\ CompactStart /\ ap' = ap /\ cp'.inputs \subseteq cur
      \/ /\ CompactStart /\ ap'.pc = "append" /\ ap'.kind = "move" /\ ap'.edit.log = vs.log
         /\ cp'.inputs = {}
      \/ /\ CompactFinish /\ ap'.pc = "append" /\ ap'.kind = "compact" /\ ap'.edit.log = vs.log
         /\ ap'.edit.add = {cp.out} /\ ap'.edit.del = cp.inputs /\ cp'.inputs = cp.inputs
         /\ tables' = [tables EXCEPT ![cp.out] =
                        [data |-> UNION {tables[f].data : f \in cp.inputs},
                         ok |-> TRUE]]
      \/ /\ CompactFinish /\ ap' = ap /\ cp' = NoCp
  <2>1. CASE CompactStart
    <3>1. PICK inputs \in SUBSET cur :
            \/ /\ cp' = [pc |-> "work", out |-> 0, inputs |-> inputs, ver |-> cur]
               /\ UNCHANGED ap
            \/ /\ cp' = [NoCp EXCEPT !.pc = "apply"]
               /\ BeginApply("move", inputs, inputs, vs.log, vs)
      BY <2>1, Zenon DEF CompactStart
    <3>2. CASE BeginApply("move", inputs, inputs, vs.log, vs) /\ cp' = [NoCp EXCEPT !.pc = "apply"]
      BY <2>1, <3>2, BeginApplyStarts DEF NoCp
    <3> QED
      BY <2>1, <3>1, <3>2
  <2>2. CASE CompactFinish
    <3>1. CASE /\ tables' = [tables EXCEPT ![cp.out] =
                        [data |-> UNION {tables[f].data : f \in cp.inputs},
                         ok |-> TRUE]]
               /\ BeginApply("compact", {cp.out}, cp.inputs, vs.log, vs)
               /\ cp' = [cp EXCEPT !.pc = "apply"]
      BY <1>1, <2>2, <3>1, BeginApplyStarts DEF ProcTypes
    <3> QED
      BY <2>2, <3>1, Zenon DEF CompactFinish
  <2> QED
    BY <2>1, <2>2, Zenon
<1>6. WorkInv'
  <2>1. CASE ap' = ap
    BY <1>1, <1>2, <1>3, <1>5, <2>1 DEF WorkInv, NoCp
  <2>2. CASE ap'.kind = "move" /\ ap'.edit.log = vs.log /\ cp'.inputs = {}
    BY <1>1, <1>2, <1>3, <2>2, Zenon DEF WorkInv
  <2>3. CASE /\ CompactFinish /\ ap'.pc = "append" /\ ap'.kind = "compact" /\ ap'.edit.log = vs.log
             /\ ap'.edit.add = {cp.out} /\ ap'.edit.del = cp.inputs /\ cp'.inputs = cp.inputs
             /\ tables' = [tables EXCEPT ![cp.out] =
                            [data |-> UNION {tables[f].data : f \in cp.inputs},
                             ok |-> TRUE]]
    <3>1. Building(cp.out)
      BY <2>3, Zenon DEF CompactFinish, Building
    <3>2. cp.out \in DOMAIN tables /\ ~InUse(cp.out)
      BY <1>1, <3>1, Zenon DEF TablesInv
    <3>3. \A f \in cp.inputs : f # cp.out
      BY <1>1, <3>2, Zenon DEF WorkInv, InUse
    <3>4. /\ tables'[cp.out].data = UNION {tables[f].data : f \in cp.inputs}
          /\ \A f \in cp.inputs : tables'[f] = tables[f]
      BY <2>3, <3>2, <3>3
    <3>5. \A w : InFiles(w, ap.edit.add)' <=> InFiles(w, ap.edit.del)'
      BY <2>3, <3>4 DEF InFiles
    <3> QED
      BY <1>1, <1>2, <2>3, <3>5, Zenon DEF WorkInv
  <2> QED
    BY <1>5, <2>1, <2>2, <2>3, Zenon
<1>7. LogsInv' /\ MemInv' /\ OpenInv' /\ ClosedInv' /\ AckedInv' /\ Kept
  BY <1>2, <1>3, <1>4, <1>5, QuietData, Zenon
<1> QED
  BY <1>6, <1>7, Zenon DEF DInv

----------------------------------------------------------------------------
(* The writer.                                                             *)

LEMMA SameVersion ==
  ASSUME FInv, FInv', Next, UNCHANGED cur
  PROVE  \A w : InFiles(w, cur)' <=> InFiles(w, cur)
<1>1. \A f \in cur : Used(f) /\ Used(f)'
  BY Zenon DEF Used, InUse
<1>2. \A f \in cur : tables'[f] = tables[f]
  BY <1>1, TablesFrame, Zenon
<1> QED
  BY <1>2, Zenon DEF InFiles

(* A step of the writer: the files that the MANIFEST names are the same,   *)
(* and so is the log in use.                                               *)
LEMMA WriterData ==
  ASSUME FInv, FInv', DInv, Next, up = "open",
         UNCHANGED <<tables, manifests, current, up, cur, imm, hasImm, logNum, fl, cp, ap>>,
         vs'.log = vs.log,
         DOMAIN logs' = DOMAIN logs,
         \A l \in DOMAIN logs : l # logNum => logs'[l] = logs[l],
         NEW g, g = logNum,
         NEW new, \A w : InLog(w, g)' <=> InLog(w, g) \/ w \in new,
         \A w : InSynced(w, g) => InSynced(w, g)'
  PROVE  /\ OpenInv' /\ WorkInv' /\ ClosedInv'
         /\ \A w : w \in imm <=> \E l \in LogsFrom(vs.log)' : l < logNum /\ InLog(w, l)'
         /\ \A w : /\ InData(w)' <=> InData(w) \/ w \in new
                   /\ InSafe(w) => InSafe(w)'
<1>1. OpenInv /\ WorkInv /\ MemInv /\ Phases /\ LogOrder /\ VerTypes /\ MemTypes /\ LogTypes
  BY Zenon DEF DInv, FInv, TInv, StateTypes, FileTypes
<1>2. Manifest' = Manifest
  BY ManifestUntouched, Zenon
<1>3. /\ ManifestLengths' = ManifestLengths
      /\ Len(Manifest.edits)' = Len(Manifest.edits)
      /\ \A n \in ManifestLengths :
           /\ V(n)' = V(n)
           /\ \A w : InFiles(w, V(n).files)' <=> InFiles(w, V(n).files)
  BY <1>2, SameFiles, Zenon
<1>4. WorkInv'
  BY <1>1, Zenon DEF WorkInv, InFiles
<1>5. OpenInv'
  <2>1. \A w : InFiles(w, cur)' <=> InFiles(w, cur)
    BY SameVersion, Zenon
  <2>2. V(Len(Manifest.edits))' = V(Len(Manifest.edits))
    BY <1>2, Zenon DEF V
  <2> QED
    BY <1>1, <1>2, <1>3, <2>1, <2>2, Zenon DEF OpenInv
<1>6. ClosedInv'
  BY Zenon DEF ClosedInv
<1>7. \A w : \A l \in DOMAIN logs : l # g => /\ InLog(w, l)' <=> InLog(w, l)
                                            /\ InSynced(w, l)' <=> InSynced(w, l)
  BY Zenon DEF InLog, InSynced
<1>8. \A k : LogsFrom(k)' = LogsFrom(k)
  BY Zenon DEF LogsFrom
<1>9. \A w : w \in imm <=> \E l \in LogsFrom(vs.log)' : l < logNum /\ InLog(w, l)'
  <2>1. \A l \in LogsFrom(vs.log) : l < logNum => l \in DOMAIN logs /\ l # g
    BY <1>1 DEF LogsFrom, MemTypes, LogTypes
  <2>2. LogsFrom(vs.log)' = LogsFrom(vs.log)
    BY Zenon DEF LogsFrom
  <2>3. \A w : w \in imm <=> \E l \in LogsFrom(vs.log) : l < logNum /\ InLog(w, l)
    BY <1>1, Zenon DEF MemInv
  <2>4. \A w : \A l \in LogsFrom(vs.log) : l < logNum => (InLog(w, l)' <=> InLog(w, l))
    BY <1>7, <2>1, Zenon DEF InLog
  <2> QED
    BY <2>2, <2>3, <2>4, Zenon
<1>10. \A n \in ManifestLengths : \A w : /\ FoundAll(w, n)' <=> FoundAll(w, n) \/ w \in new
                                         /\ FoundSynced(w, n) => FoundSynced(w, n)'
  <2> SUFFICES ASSUME NEW n \in ManifestLengths, NEW w
               PROVE  /\ FoundAll(w, n)' <=> FoundAll(w, n) \/ w \in new
                      /\ FoundSynced(w, n) => FoundSynced(w, n)'
    BY Zenon
  <2>1. PICK k : k = V(n).log
    BY Zenon
  <2>2. V(n)'.log = k /\ (InFiles(w, V(n).files)' <=> InFiles(w, V(n).files))
    BY <1>3, <2>1, Zenon
  <2>3. k <= logNum /\ logNum \in DOMAIN logs
    BY <1>1, <2>1 DEF OpenInv, Phases, LogOrder, MemTypes
  <2>4. g \in LogsFrom(k)
    BY <2>3, Zenon DEF LogsFrom
  <2>5. \A l \in LogsFrom(k) : l \in DOMAIN logs
    BY Zenon DEF LogsFrom
  <2>6. Logged(w, k)' <=> Logged(w, k) \/ w \in new
    <3>1. Logged(w, k) <=> \E l \in LogsFrom(k) : InLog(w, l)
      BY Zenon DEF Logged
    <3>2. Logged(w, k)' <=> \E l \in LogsFrom(k) : InLog(w, l)'
      BY <1>8, Zenon DEF Logged
    <3>3. \A l \in LogsFrom(k) : l # g => (InLog(w, l)' <=> InLog(w, l))
      BY <1>7, <2>5 DEF InLog
    <3>4. InLog(w, g)' <=> InLog(w, g) \/ w \in new
      BY Zenon
    <3> QED
      BY <2>4, <3>1, <3>2, <3>3, <3>4, Zenon
  <2>7. LoggedSynced(w, k) => LoggedSynced(w, k)'
    <3>1. LoggedSynced(w, k) <=> \E l \in LogsFrom(k) : InSynced(w, l)
      BY Zenon DEF LoggedSynced
    <3>2. LoggedSynced(w, k)' <=> \E l \in LogsFrom(k) : InSynced(w, l)'
      BY <1>8, Zenon DEF LoggedSynced
    <3>3. \A l \in LogsFrom(k) : InSynced(w, l) => InSynced(w, l)'
      BY <1>7, <2>5, Zenon
    <3> QED
      BY <3>1, <3>2, <3>3, Zenon
  <2>8. FoundAll(w, n)' <=> InFiles(w, V(n).files)' \/ Logged(w, k)'
    BY <2>2, Zenon DEF FoundAll, Logged, LogsFrom, InLog
  <2>9. FoundSynced(w, n)' <=> InFiles(w, V(n).files)' \/ LoggedSynced(w, k)'
    BY <2>2, Zenon DEF FoundSynced, LoggedSynced, LogsFrom, InSynced
  <2> QED
    BY <2>1, <2>2, <2>6, <2>7, <2>8, <2>9, Zenon DEF FoundAll, FoundSynced
<1>11. PICK L : L = Len(Manifest.edits)
  BY Zenon
<1>12. L \in ManifestLengths
  BY <1>11, ManifestTyped, Zenon DEF FInv, TInv, FileTypes
<1>13. Len(Manifest'.edits) = L
  BY <1>3, <1>11, Zenon
<1>14. \A w : (InData(w) <=> FoundAll(w, L)) /\ (InData(w)' <=> FoundAll(w, L)')
  BY <1>11, <1>13, Zenon DEF InData
<1>15. \A w : InSafe(w) => InSafe(w)'
  BY <1>3, <1>10, Zenon DEF InSafe
<1> QED
  BY <1>4, <1>5, <1>6, <1>9, <1>10, <1>12, <1>14, <1>15, Zenon

(* The record is in the log: the write is there after a restart.           *)
LEMMA AddRecordData ==
  ASSUME FInv, FInv', DInv, Next, "append" \notin Faults, AddRecord
  PROVE  /\ DInv'
         /\ \A w : /\ InData(w)' <=> InData(w) \/ w \in {wr.w}
                   /\ InSafe(w) => InSafe(w)'
<1>1. /\ LogsInv /\ MemInv /\ AckedInv /\ Phases /\ ProcTypes /\ LogTypes /\ VerTypes
  BY Zenon DEF DInv, FInv, TInv, StateTypes, FileTypes
<1>2. up = "open" /\ wr.pc = "append" /\ logNum \in DOMAIN logs
  BY <1>1, Zenon DEF AddRecord, Phases
<1>3. PICK r, recs, g : r = [w |-> wr.w, ok |-> TRUE] /\ recs = logs[logNum].recs /\ g = logNum
  BY Zenon
<1>4. r \in Records /\ recs \in Seq(Records) /\ r.ok /\ r.w = wr.w
  BY <1>1, <1>2, <1>3, Zenon DEF LogTypes, Records, ProcTypes
<1>5. /\ logs' = With(logs, logNum, [logs[logNum] EXCEPT !.recs = Append(recs, r)])
      /\ wr'.pc = (IF wr.sync THEN "sync" ELSE "insert") /\ wr'.w = wr.w
      /\ UNCHANGED <<tables, manifests, current, mem, imm, hasImm, logNum, cur, up, fl, cp, ap,
                     vs, bgError, acked>>
  <2>1. /\ logs' = With(logs, logNum, [logs[logNum] EXCEPT !.recs = Append(recs, r)])
        /\ wr' = [wr EXCEPT !.pc = IF wr.sync THEN "sync" ELSE "insert"]
        /\ UNCHANGED vs
    BY <1>3, Zenon DEF AddRecord
  <2>2. wr'.pc = (IF wr.sync THEN "sync" ELSE "insert") /\ wr'.w = wr.w
    BY <1>1, <2>1, Zenon DEF ProcTypes
  <2> QED
    BY <2>1, <2>2, Zenon DEF AddRecord, memVars, hist
<1>6. /\ DOMAIN logs' = DOMAIN logs
      /\ \A l \in DOMAIN logs : l # logNum => logs'[l] = logs[l]
      /\ logs'[logNum] = [logs[logNum] EXCEPT !.recs = Append(recs, r)]
  BY <1>2, <1>5, Zenon DEF With
<1>7. /\ logs[logNum].synced \in Nat /\ logs[logNum].synced <= Len(recs)
      /\ logs'[logNum].recs = Append(recs, r) /\ logs'[logNum].synced = logs[logNum].synced
  BY <1>1, <1>2, <1>3, <1>6, Zenon DEF LogTypes
<1>8. PICK N : N = Len(recs)
  BY Zenon
<1>9. /\ N \in Nat /\ Len(Append(recs, r)) = N + 1 /\ Append(recs, r)[N + 1] = r
      /\ \A i \in 1..N : Append(recs, r)[i] = recs[i]
      /\ \A i \in 1..(N + 1) : i \in 1..N \/ i = N + 1
      /\ N + 1 \in 1..(N + 1) /\ \A i \in 1..N : i \in 1..(N + 1)
  BY <1>4, <1>8
<1>10. \A w : InLog(w, g)' <=> InLog(w, g) \/ w \in {wr.w}
  <2>1. \A w : InLog(w, g)' <=> \E i \in 1..(N + 1) : Append(recs, r)[i].w = w
    BY <1>3, <1>7, <1>9, Zenon DEF InLog
  <2>2. \A w : InLog(w, g) <=> \E i \in 1..N : recs[i].w = w
    BY <1>3, <1>8, Zenon DEF InLog
  <2> QED
    BY <1>4, <1>9, <2>1, <2>2
<1>11. \A w : InSynced(w, g) => InSynced(w, g)'
  <2>1. PICK s : s = logs[logNum].synced
    BY Zenon
  <2>2. \A i \in 1..s : Append(recs, r)[i] = recs[i]
    BY <1>7, <1>8, <1>9, <2>1
  <2>3. \A w : InSynced(w, g) <=> \E i \in 1..s : recs[i].w = w
    BY <1>3, <2>1, Zenon DEF InSynced
  <2>4. \A w : InSynced(w, g)' <=> \E i \in 1..s : Append(recs, r)[i].w = w
    BY <1>3, <1>7, <2>1, Zenon DEF InSynced
  <2> QED
    BY <2>2, <2>3, <2>4, Zenon
<1>12. /\ OpenInv' /\ WorkInv' /\ ClosedInv'
       /\ \A w : w \in imm <=> \E l \in LogsFrom(vs.log)' : l < logNum /\ InLog(w, l)'
       /\ \A w : /\ InData(w)' <=> InData(w) \/ w \in {wr.w}
                 /\ InSafe(w) => InSafe(w)'
  BY <1>2, <1>3, <1>5, <1>6, <1>10, <1>11, WriterData, Zenon
<1>13. LogsInv'
  <2>1. \A i \in 1..Len(logs'[logNum].recs) : logs'[logNum].recs[i].ok
    BY <1>1, <1>2, <1>3, <1>4, <1>7, <1>8, <1>9 DEF LogsInv
  <2>2. \A l \in DOMAIN logs' : \A i \in 1..Len(logs'[l].recs) : logs'[l].recs[i].ok
    <3> SUFFICES ASSUME NEW l \in DOMAIN logs
                 PROVE  \A i \in 1..Len(logs'[l].recs) : logs'[l].recs[i].ok
      BY <1>6, Zenon
    <3>1. CASE l = logNum
      BY <2>1, <3>1, Zenon
    <3>2. CASE l # logNum
      BY <1>1, <1>6, <3>2, Zenon DEF LogsInv
    <3> QED
      BY <3>1, <3>2, Zenon
  <2> QED
    BY <1>1, <1>2, <1>5, <1>6, <2>2, Zenon DEF LogsInv
<1>14. MemInv'
  <2>1. /\ \A w : InLog(w, logNum)' <=> InLog(w, g)'
        /\ \A w : InLog(w, logNum) <=> InLog(w, g)
    BY <1>3, <1>5, ZenonT(30) DEF InLog
  <2>2. wr'.pc \in {"sync", "insert"} /\ InLog(wr.w, logNum)'
    <3>1. PICK u : u = wr.w
      BY Zenon
    <3>2. InLog(u, g)'
      BY <1>10, <3>1, Zenon
    <3> QED
      BY <1>3, <1>5, <3>1, <3>2 DEF InLog
  <2>3. wr'.pc = "insert" /\ wr'.sync => FALSE
    BY <1>1, <1>5, Zenon DEF AddRecord, ProcTypes
  <2>4. \A w \in mem : InLog(w, logNum)'
    BY <1>1, <1>2, <1>10, <2>1, Zenon DEF MemInv
  <2>5. ~bgError => \A w : InLog(w, logNum)' => w \in mem \/ w = wr.w
    BY <1>1, <1>2, <1>10, <2>1 DEF MemInv
  <2> QED
    BY <1>1, <1>2, <1>5, <1>12, <2>2, <2>3, <2>4, <2>5, Zenon DEF MemInv
<1>15. AckedInv'
  <2>1. \A w : InFiles(w, cur)' <=> InFiles(w, cur)
    BY <1>5, Zenon DEF InFiles
  <2> QED
    BY <1>1, <1>2, <1>5, <1>12, <2>1, Zenon DEF AckedInv, Visible
<1> QED
  BY <1>12, <1>13, <1>14, <1>15, Zenon DEF DInv

(* The record is synced; or the sync fails, and the write with it.         *)
LEMMA SyncLogData ==
  ASSUME FInv, FInv', DInv, Next, SyncLog
  PROVE  DInv' /\ Kept
<1>1. /\ LogsInv /\ MemInv /\ AckedInv /\ Phases /\ ProcTypes /\ LogTypes /\ VerTypes
  BY Zenon DEF DInv, FInv, TInv, StateTypes, FileTypes
<1>2. up = "open" /\ wr.pc = "sync" /\ logNum \in DOMAIN logs
  BY <1>1, Zenon DEF SyncLog, Phases
<1>3. PICK g, none : g = logNum /\ none = {}
  BY Zenon
<1>4. /\ UNCHANGED <<tables, manifests, current, mem, imm, hasImm, logNum, cur, up, fl, cp, ap,
                     acked>>
      /\ vs'.log = vs.log
      /\ \/ /\ logs' = [logs EXCEPT ![logNum].synced = Len(logs[logNum].recs)]
            /\ wr'.pc = "insert" /\ wr'.w = wr.w
            /\ bgError' = bgError
         \/ logs' = logs /\ wr'.pc = "idle" /\ bgError'
  <2>1. CASE /\ logs' = [logs EXCEPT ![logNum].synced = Len(logs[logNum].recs)]
             /\ wr' = [wr EXCEPT !.pc = "insert"] /\ UNCHANGED <<vs, bgError>>
    BY <1>1, <2>1, Zenon DEF SyncLog, ProcTypes, memVars, hist
  <2>2. CASE EndWrite /\ bgError' = TRUE /\ UNCHANGED logs
    <3>1. vs'.log = vs.log /\ wr'.pc = "idle"
      BY <1>1, <2>2, Zenon DEF EndWrite, NoWr, VerTypes
    <3> QED
      BY <2>2, <3>1, Zenon DEF SyncLog, memVars, hist
  <2> QED
    BY <2>1, <2>2, Zenon DEF SyncLog
<1>5. PICK N : N = Len(logs[logNum].recs)
  BY Zenon
<1>6. N \in Nat /\ logs[logNum].synced \in Nat /\ logs[logNum].synced <= N
  BY <1>1, <1>2, <1>5 DEF LogTypes
<1>7. /\ DOMAIN logs' = DOMAIN logs
      /\ \A l \in DOMAIN logs : l # logNum => logs'[l] = logs[l]
      /\ logs'[logNum].recs = logs[logNum].recs
      /\ logs'[logNum].synced = logs[logNum].synced \/ logs'[logNum].synced = N
      /\ wr'.pc = "insert" => logs'[logNum].synced = N
  <2>1. logs[logNum] \in [recs : Seq(Records), synced : Nat]
    BY <1>1, <1>2, Zenon DEF LogTypes
  <2>2. CASE logs' = [logs EXCEPT ![logNum].synced = Len(logs[logNum].recs)]
    BY <1>2, <1>5, <2>1, <2>2, Zenon
  <2> QED
    BY <1>4, <2>2, Zenon
<1>8. \A l \in DOMAIN logs : logs'[l].recs = logs[l].recs
  BY <1>7, Zenon
<1>9. \A w : InLog(w, g)' <=> InLog(w, g) \/ w \in none
  BY <1>3, <1>7, Zenon DEF InLog
<1>10. \A w : InSynced(w, g) => InSynced(w, g)'
  <2>1. \A i \in 1..logs[logNum].synced : i \in 1..logs'[logNum].synced
    BY <1>6, <1>7
  <2> QED
    BY <1>3, <1>7, <2>1, Zenon DEF InSynced
<1>11. /\ OpenInv' /\ WorkInv' /\ ClosedInv'
       /\ \A w : w \in imm <=> \E l \in LogsFrom(vs.log)' : l < logNum /\ InLog(w, l)'
       /\ \A w : /\ InData(w)' <=> InData(w) \/ w \in none
                 /\ InSafe(w) => InSafe(w)'
  BY <1>2, <1>3, <1>4, <1>7, <1>9, <1>10, WriterData, Zenon
<1>12. LogsInv'
  BY <1>1, <1>2, <1>4, <1>7, <1>8, Zenon DEF LogsInv
<1>13. MemInv'
  <2>1. \A w : InLog(w, logNum)' <=> InLog(w, logNum)
    BY <1>4, <1>7, Zenon DEF InLog
  <2>2. ~bgError' => wr'.pc = "insert" /\ wr'.w = wr.w /\ bgError' = bgError
    BY <1>4, Zenon
  <2>3. ~bgError' => \A w : InLog(w, logNum)' => w \in mem \/ (wr'.pc = "insert" /\ w = wr'.w)
    BY <1>1, <1>2, <2>1, <2>2, Zenon DEF MemInv
  <2>4. wr'.pc \in {"sync", "insert"} => wr'.pc = "insert" /\ wr'.w = wr.w
    BY <1>4, Zenon
  <2>5. wr'.pc \in {"sync", "insert"} => InLog(wr.w, logNum)' /\ InSynced(wr.w, logNum)'
    <3> SUFFICES ASSUME wr'.pc = "insert", wr'.w = wr.w
                 PROVE  InLog(wr.w, logNum)' /\ InSynced(wr.w, logNum)'
      BY <2>4, Zenon
    <3>1. PICK i \in 1..N : logs[logNum].recs[i].w = wr.w
      BY <1>1, <1>2, <1>5, Zenon DEF MemInv, InLog
    <3>2. logs'[logNum'].recs[i].w = wr'.w /\ i \in 1..Len(logs'[logNum'].recs)
          /\ i \in 1..logs'[logNum'].synced
      BY <1>4, <1>5, <1>7, <3>1, Zenon
    <3> QED
      BY <3>2, Zenon DEF InLog, InSynced
  <2>6. \A w \in mem : InLog(w, logNum)'
    BY <1>1, <1>2, <2>1, Zenon DEF MemInv
  <2> QED
    BY <1>1, <1>2, <1>4, <1>11, <2>3, <2>5, <2>6, Zenon DEF MemInv
<1>14. AckedInv'
  <2>1. \A w : InFiles(w, cur)' <=> InFiles(w, cur)
    BY <1>4, Zenon DEF InFiles
  <2> QED
    BY <1>1, <1>2, <1>4, <1>11, <2>1, Zenon DEF AckedInv, Visible
<1> QED
  BY <1>3, <1>11, <1>12, <1>13, <1>14, Zenon DEF DInv, Kept

(* The write is applied and acknowledged.                                  *)
LEMMA InsertData ==
  ASSUME FInv, FInv', DInv, Next, Insert
  PROVE  DInv' /\ Kept
<1>1. /\ LogsInv /\ MemInv /\ OpenInv /\ AckedInv /\ Phases /\ LogOrder /\ MemTypes /\ ProcTypes
      /\ VerTypes
  BY Zenon DEF DInv, FInv, TInv, StateTypes
<1>2. up = "open" /\ wr.pc = "insert" /\ logNum \in DOMAIN logs
  BY <1>1, Zenon DEF Insert, Phases
<1>3. /\ UNCHANGED <<logs, tables, manifests, current, imm, hasImm, logNum, cur, up, fl, cp, ap,
                     bgError>>
      /\ mem' = mem \cup {wr.w}
      /\ acked' = acked \cup {[w |-> wr.w, sync |-> wr.sync]}
      /\ vs'.log = vs.log /\ wr'.pc = "idle"
  <2>1. vs'.log = vs.log /\ wr'.pc = "idle"
    BY <1>1, Zenon DEF Insert, EndWrite, NoWr, VerTypes
  <2> QED
    BY <2>1, Zenon DEF Insert, disk
<1>4. PICK g, none : g = logNum /\ none = {}
  BY Zenon
<1>5. /\ \A w : InLog(w, g)' <=> InLog(w, g) \/ w \in none
      /\ \A w : InSynced(w, g) => InSynced(w, g)'
  BY <1>3, <1>4, Zenon DEF InLog, InSynced
<1>6. /\ OpenInv' /\ WorkInv' /\ ClosedInv'
      /\ \A w : w \in imm <=> \E l \in LogsFrom(vs.log)' : l < logNum /\ InLog(w, l)'
      /\ \A w : /\ InData(w)' <=> InData(w) \/ w \in none
                /\ InSafe(w) => InSafe(w)'
  BY <1>2, <1>3, <1>4, <1>5, WriterData, Zenon
<1>7. LogsInv'
  BY <1>1, <1>2, <1>3, Zenon DEF LogsInv
<1>8. \A w : InLog(w, logNum)' <=> InLog(w, logNum)
  BY <1>3, Zenon DEF InLog
<1>9. MemInv'
  BY <1>1, <1>2, <1>3, <1>6, <1>8, Zenon DEF MemInv
<1>10. wr.sync => InSafe(wr.w)
  <2> SUFFICES ASSUME wr.sync, NEW n \in ManifestLengths PROVE FoundSynced(wr.w, n)
    BY Zenon DEF InSafe
  <2>1. InSynced(wr.w, logNum)
    BY <1>1, <1>2, Zenon DEF MemInv
  <2>2. V(n).log <= logNum
    BY <1>1, <1>2 DEF OpenInv, LogOrder, MemTypes
  <2> QED
    BY <1>2, <2>1, <2>2, Zenon DEF FoundSynced, LoggedSynced, LogsFrom
<1>11. AckedInv'
  <2>1. \A w : InFiles(w, cur)' <=> InFiles(w, cur)
    BY <1>3, Zenon DEF InFiles
  <2>2. PICK u : u = wr.w
    BY Zenon
  <2>3. wr.sync => InSafe(u)'
    BY <1>6, <1>10, <2>2, Zenon
  <2> SUFFICES ASSUME NEW a \in acked'
               PROVE  (a.sync => InSafe(a.w)') /\ Visible(a.w)'
    BY <1>2, <1>3, Zenon DEF AckedInv
  <2>4. CASE a \in acked
    BY <1>1, <1>2, <1>3, <1>6, <2>1, <2>4, Zenon DEF AckedInv, Visible
  <2>5. CASE a = [w |-> wr.w, sync |-> wr.sync]
    <3>1. a.w = u /\ a.sync = wr.sync
      BY <2>2, <2>5, Zenon
    <3> QED
      BY <1>3, <2>2, <2>3, <3>1, Zenon DEF Visible
  <2> QED
    BY <1>3, <2>4, <2>5, Zenon
<1> QED
  BY <1>4, <1>6, <1>7, <1>9, <1>11, Zenon DEF DInv, Kept

(* A new log and a new memtable.                                           *)
LEMMA SwitchLogData ==
  ASSUME FInv, FInv', DInv, Next, SwitchLog
  PROVE  DInv' /\ Kept
<1>1. /\ LogsInv /\ MemInv /\ WorkInv /\ OpenInv /\ AckedInv /\ Phases /\ LogOrder /\ MemTypes
      /\ LogTypes /\ VerTypes
  BY Zenon DEF DInv, FInv, TInv, StateTypes, FileTypes
<1>2. /\ up = "open" /\ ~bgError /\ wr.pc = "idle" /\ ~hasImm
      /\ logs' = With(logs, vs.next, [recs |-> <<>>, synced |-> 0])
      /\ logNum' = vs.next /\ imm' = mem /\ hasImm' /\ mem' = {} /\ vs'.log = vs.log
      /\ UNCHANGED <<tables, manifests, current, cur, up, bgError, wr, fl, cp, ap, acked>>
  BY <1>1, Zenon DEF SwitchLog, procVars, hist, VerTypes
<1>3. /\ vs.log = logNum /\ logNum \in Nat /\ vs.next \in Nat /\ logNum < vs.next
      /\ DOMAIN logs \subseteq Nat
      /\ \A l \in DOMAIN logs : l <= logNum
  BY <1>1, <1>2 DEF MemInv, LogOrder, MemTypes, VerTypes, LogsInv, LogTypes
<1>4. vs.next \notin DOMAIN logs
  BY <1>3
<1>5. /\ DOMAIN logs' = DOMAIN logs \cup {vs.next}
      /\ \A l \in DOMAIN logs : logs'[l] = logs[l]
      /\ logs'[vs.next].recs = <<>> /\ logs'[vs.next].synced = 0
  BY <1>2, <1>4, Zenon DEF With
<1>6. PICK g, h : g = logNum /\ h = vs.next
  BY Zenon
<1>7. \A w : /\ \A l \in DOMAIN logs : /\ InLog(w, l)' <=> InLog(w, l)
                                       /\ InSynced(w, l)' <=> InSynced(w, l)
             /\ ~InLog(w, h)'
  <2>1. \A w : ~InLog(w, h)'
    BY <1>5, <1>6 DEF InLog
  <2> QED
    BY <1>5, <2>1, Zenon DEF InLog, InSynced
<1>8. \A w : w \notin imm
  BY <1>1, <1>2, <1>3 DEF MemInv, LogsFrom
<1>9. \A w : InLog(w, g) <=> w \in mem
  BY <1>1, <1>2, <1>6, Zenon DEF MemInv
<1>10. \A l : l \in LogsFrom(vs.log)' <=> (l = g /\ g \in DOMAIN logs) \/ l = h
  <2>1. \A l : l \in LogsFrom(vs.log)' <=> l \in DOMAIN logs' /\ l >= g
    BY <1>2, <1>3, <1>6, Zenon DEF LogsFrom
  <2> QED
    BY <1>3, <1>5, <1>6, <2>1
<1>11. g \in DOMAIN logs
  BY <1>1, <1>2, <1>6, Zenon DEF Phases
<1>12. MemInv'
  <2>1. \A w : w \in mem <=> InLog(w, g)'
    BY <1>7, <1>9, <1>11, ZenonT(30) DEF InLog
  <2>2. \A w : w \in imm' <=> \E l \in LogsFrom(vs.log)' : l < logNum' /\ InLog(w, l)'
    <3>1. g \in LogsFrom(vs.log)' /\ g < logNum'
      BY <1>2, <1>3, <1>6, <1>10, <1>11, Zenon
    <3>2. \A l \in LogsFrom(vs.log)' : l < logNum' => l = g
      BY <1>2, <1>3, <1>6, <1>10
    <3> QED
      BY <1>2, <2>1, <3>1, <3>2, Zenon
  <2>3. \A w : ~InLog(w, logNum)'
    BY <1>2, <1>5 DEF InLog
  <2> QED
    BY <1>2, <2>2, <2>3, Zenon DEF MemInv
<1>13. LogsInv'
  <2>1. \A l \in DOMAIN logs' : l <= logNum'
    BY <1>2, <1>3, <1>5
  <2>2. \A l \in DOMAIN logs' : \A i \in 1..Len(logs'[l].recs) : logs'[l].recs[i].ok
    BY <1>1, <1>5 DEF LogsInv
  <2> QED
    BY <1>2, <2>1, <2>2, Zenon DEF LogsInv
<1>14. Manifest' = Manifest
  BY <1>2, ManifestUntouched, Zenon
<1>15. /\ ManifestLengths' = ManifestLengths
       /\ Len(Manifest.edits)' = Len(Manifest.edits)
       /\ V(Len(Manifest.edits))' = V(Len(Manifest.edits))
       /\ \A n \in ManifestLengths :
            /\ V(n)' = V(n)
            /\ \A w : InFiles(w, V(n).files)' <=> InFiles(w, V(n).files)
       /\ \A w : InFiles(w, cur)' <=> InFiles(w, cur)
  BY <1>2, <1>14, SameFiles, SameVersion, Zenon DEF V
<1>16. OpenInv'
  <2>0. \A n \in ManifestLengths' : V(n)'.log = vs'.log /\ V(n)'.log # logNum'
    <3>1. \A n \in ManifestLengths : V(n).log \in {vs.log, logNum}
      BY <1>1, <1>2, Zenon DEF OpenInv
    <3>2. vs'.log = vs.log /\ logNum = vs.log /\ vs.log # logNum'
      BY <1>2, <1>3
    <3> QED
      BY <1>15, <3>1, <3>2, Zenon
  <2>1. \A n \in ManifestLengths' :
         /\ \A w : InFiles(w, cur)' => InFiles(w, V(n).files)'
         /\ \A m \in ManifestLengths' : \A w :
              InFiles(w, V(n).files)' => InFiles(w, V(m).files)'
    <3>1. \A n \in ManifestLengths :
           /\ \A w : InFiles(w, cur) => InFiles(w, V(n).files)
           /\ \A m \in ManifestLengths : \A w :
                InFiles(w, V(n).files) => InFiles(w, V(m).files)
      BY <1>1, <1>2, <1>8, Zenon DEF OpenInv
    <3> QED
      BY <1>15, <3>1, Zenon
  <2>2. /\ ap'.pc \in {"sync", "install"} =>
             /\ V(Len(Manifest.edits))'.log = ap'.edit.log
             /\ ap'.edit.add \subseteq V(Len(Manifest.edits))'.files
        /\ ap'.pc = "install" => Manifest'.synced = Len(Manifest'.edits)
    BY <1>1, <1>2, <1>14, <1>15, Zenon DEF OpenInv
  <2> QED
    BY <2>0, <2>1, <2>2, Zenon DEF OpenInv
<1>17. WorkInv'
  <2>1. ap.kind # "flush"
    BY <1>1, <1>2, Zenon DEF WorkInv, Phases
  <2>2. \A w : InFiles(w, ap.edit.add)' <=> InFiles(w, ap.edit.add)
    BY <1>2, Zenon DEF InFiles
  <2>3. \A w : InFiles(w, ap.edit.del)' <=> InFiles(w, ap.edit.del)
    BY <1>2, Zenon DEF InFiles
  <2> QED
    BY <1>1, <1>2, <2>1, <2>2, <2>3, Zenon DEF WorkInv
<1>18. ClosedInv'
  BY <1>2, Zenon DEF ClosedInv
<1>19. Kept
  <2> SUFFICES ASSUME NEW n \in ManifestLengths, NEW w
               PROVE  /\ Logged(w, V(n).log)' <=> Logged(w, V(n).log)
                      /\ LoggedSynced(w, V(n).log) => LoggedSynced(w, V(n).log)'
    BY <1>14, KeptIf, Zenon
  <2>1. PICK k : k = V(n).log
    BY Zenon
  <2>2. V(n)'.log = k
    BY <1>15, <2>1, Zenon
  <2>3. /\ \A l \in LogsFrom(k) : l \in DOMAIN logs
        /\ \A l : l \in LogsFrom(k) => l \in LogsFrom(k)'
        /\ \A l : l \in LogsFrom(k)' => l \in LogsFrom(k) \/ l = h
    BY <1>5, <1>6, Zenon DEF LogsFrom
  <2>4. Logged(w, k)' <=> Logged(w, k)
    <3>1. \A l \in DOMAIN logs : InLog(w, l)' <=> InLog(w, l)
      BY <1>7, Zenon DEF InLog
    <3>2. ~InLog(w, h)'
      BY <1>7, Zenon
    <3> QED
      BY <2>3, <3>1, <3>2, Zenon DEF Logged
  <2>5. LoggedSynced(w, k) => LoggedSynced(w, k)'
    BY <1>7, <2>3, Zenon DEF LoggedSynced, InSynced
  <2> QED
    BY <2>1, <2>2, <2>4, <2>5, Zenon
       DEF Logged, LoggedSynced, LogsFrom, InLog, InSynced
<1>20. AckedInv'
  BY <1>1, <1>2, <1>8, <1>15, <1>19, Zenon DEF AckedInv, Visible, Kept
<1> QED
  BY <1>12, <1>13, <1>16, <1>17, <1>18, <1>19, <1>20, Zenon DEF DInv

----------------------------------------------------------------------------
(* LogAndApply.                                                            *)

(* However much of the MANIFEST is left, the writes in an open database    *)
(* are those in its tables, in the memtable that is being flushed and in   *)
(* the current log.                                                        *)
OpenMeaning ==
  up = "open" =>
    \A n \in ManifestLengths : \A w :
      FoundAll(w, n) <=> InFiles(w, V(n).files) \/ w \in imm \/ InLog(w, logNum)

LEMMA OpenFound == FInv /\ LogsInv /\ MemInv /\ OpenInv => OpenMeaning
<1> SUFFICES ASSUME FInv, LogsInv, MemInv, OpenInv, up = "open",
                    NEW n \in ManifestLengths, NEW w
             PROVE  FoundAll(w, n) <=> InFiles(w, V(n).files) \/ w \in imm \/ InLog(w, logNum)
  BY Zenon DEF OpenMeaning
<1>1. /\ logNum \in DOMAIN logs /\ vs.log <= logNum /\ logNum \in Nat /\ vs.log \in Nat
      /\ DOMAIN logs \subseteq Nat
  BY DEF FInv, TInv, FileTypes, StateTypes, Phases, LogOrder, MemTypes, VerTypes,
     LogTypes
<1>2. \A l \in DOMAIN logs : l <= logNum
  BY Zenon DEF LogsInv
<1>3. \A u : u \in imm <=> \E l \in LogsFrom(vs.log) : l < logNum /\ InLog(u, l)
  BY Zenon DEF MemInv
<1>4. CASE V(n).log = vs.log
  <2>1. logNum \in LogsFrom(vs.log) /\ \A l \in LogsFrom(vs.log) : l < logNum \/ l = logNum
    BY <1>1, <1>2 DEF LogsFrom
  <2>2. Logged(w, vs.log) <=> w \in imm \/ InLog(w, logNum)
    BY <1>3, <2>1, Zenon DEF Logged
  <2> QED
    BY <1>4, <2>2, Zenon DEF FoundAll
<1>5. CASE V(n).log = logNum
  <2>1. \A l : l \in LogsFrom(logNum) <=> l = logNum
    BY <1>1, <1>2 DEF LogsFrom
  <2>2. Logged(w, logNum) <=> InLog(w, logNum)
    BY <2>1, Zenon DEF Logged
  <2>3. w \in imm => InFiles(w, V(n).files)
    BY <1>5, Zenon DEF OpenInv
  <2> QED
    BY <1>5, <2>2, <2>3, Zenon DEF FoundAll
<1> QED
  BY <1>4, <1>5, Zenon DEF OpenInv

LEMMA OpenFoundAfter ==
  ASSUME FInv', LogsInv', MemInv', OpenInv'
  PROVE  OpenMeaning'
BY OpenFound, PTL

LEMMA QuietLogs ==
  ASSUME LogsInv, MemInv, up = "open",
         UNCHANGED <<up, logs, mem, imm, hasImm, logNum, wr>>, vs'.log = vs.log,
         bgError => bgError'
  PROVE  LogsInv' /\ MemInv'
<1>1. LogsInv'
  BY Zenon DEF LogsInv
<1>2. \A w : /\ \A l : /\ InLog(w, l)' <=> InLog(w, l)
                       /\ InSynced(w, l)' <=> InSynced(w, l)
             /\ \A k : LogsFrom(k)' = LogsFrom(k)
  BY Zenon DEF InLog, InSynced, LogsFrom
<1>3. MemInv'
  BY <1>2 DEF MemInv, LogsFrom, InLog, InSynced
<1> QED
  BY <1>1, <1>3, Zenon

(* The edit of an open database is in the MANIFEST: it stands for the same *)
(* writes.                                                                 *)
LEMMA EditData ==
  ASSUME FInv, FInv', DInv, Next, up = "open", ap.pc = "append",
         UNCHANGED <<current, tables, logs, mem, imm, hasImm, logNum, cur, up, acked, wr, vs>>,
         bgError => bgError', manifests' = WithEdit(ap.edit),
         ap'.pc = "idle" \/ (ap'.pc = "sync" /\ ap'.edit = ap.edit)
  PROVE  LogsInv' /\ MemInv' /\ OpenInv' /\ ClosedInv' /\ AckedInv' /\ Kept
<1>1. /\ LogsInv /\ MemInv /\ WorkInv /\ OpenInv /\ AckedInv /\ Phases /\ LogOrder /\ MemTypes
      /\ LogTypes /\ VerTypes /\ ApplyTypes /\ ManifestTypes /\ ManifestInv /\ EditInv /\ TablesInv
  BY Zenon DEF DInv, FInv, TInv, StateTypes, FileTypes
<1>2. PICK e : e = ap.edit
  BY Zenon
<1>3. /\ e \in Edits /\ e.ok /\ current = vs.man /\ current \in DOMAIN manifests
      /\ ap.kind \in {"flush", "compact", "move"}
  BY <1>1, <1>2, Zenon DEF ApplyTypes, EditInv, ManifestInv, Alive, Phases
<1>4. PICK L \in Nat : L = Len(Manifest.edits)
  BY <1>1, ManifestTyped, Zenon
<1>5. L \in ManifestLengths /\ ManifestLengths \subseteq 0..L /\ L + 1 \notin ManifestLengths
  BY <1>1, <1>4, ManifestTyped
<1>6. /\ Len(Manifest.edits)' = L + 1
      /\ ManifestLengths' = ManifestLengths \cup {L + 1}
      /\ \A n \in 0..L : V(n)' = V(n)
      /\ V(L + 1)'.files = (V(L).files \ e.del) \cup e.add
      /\ V(L + 1)'.log = e.log
  BY <1>1, <1>2, <1>3, <1>4, ManifestAppended, Zenon
<1>7. PICK F, N, k : F = V(L).files /\ N = V(L + 1)'.files /\ k = e.log
  BY Zenon
<1>8. /\ \A f \in F : f \in N \/ f \in e.del
      /\ \A f \in N : f \in F \/ f \in e.add
      /\ \A f \in e.add : f \in N
  BY <1>6, <1>7, Zenon
<1>9. vs.log \in Nat /\ logNum \in Nat /\ vs.log <= logNum /\ logNum \in DOMAIN logs
  BY <1>1, Zenon DEF VerTypes, MemTypes, LogOrder, Phases
<1>10. \A w : InFiles(w, cur) => InFiles(w, F)
  BY <1>1, <1>5, <1>7, Zenon DEF OpenInv
<1>11. /\ k \in {vs.log, logNum}
       /\ k = logNum => \A w \in imm : InFiles(w, N)
       /\ \A w : InFiles(w, F) => InFiles(w, N)
       /\ \A w : InFiles(w, N) => InFiles(w, F) \/ w \in imm
  <2>1. CASE ap.kind = "flush"
    <3>1. k = logNum /\ e.del = {} /\ \A w : w \in imm <=> InFiles(w, e.add)
      BY <1>1, <1>2, <1>7, <2>1, Zenon DEF WorkInv, EditInv
    <3> QED
      BY <1>8, <3>1, Zenon DEF InFiles
  <2>2. CASE ap.kind \in {"compact", "move"}
    <3>1. k = vs.log /\ e.del \subseteq cur /\ \A w : InFiles(w, e.add) <=> InFiles(w, e.del)
      BY <1>1, <1>2, <1>7, <2>2, Zenon DEF WorkInv, EditInv
    <3>2. k = logNum => imm = {}
      <4>1. k = logNum => \A w : w \notin imm
        BY <1>1, <1>9, <3>1 DEF MemInv, LogsFrom, LogTypes
      <4> QED
        BY <4>1, Zenon
    <3>3. \A w : InFiles(w, e.del) => InFiles(w, F)
      BY <1>10, <3>1, Zenon DEF InFiles
    <3>4. \A w : InFiles(w, N) <=> InFiles(w, F)
      <4>1. \A w : InFiles(w, N) => InFiles(w, F) \/ InFiles(w, e.add)
        BY <1>8, Zenon DEF InFiles
      <4>2. \A w : InFiles(w, F) => InFiles(w, N) \/ InFiles(w, e.del)
        BY <1>8, Zenon DEF InFiles
      <4>3. \A w : InFiles(w, e.add) => InFiles(w, N)
        BY <1>8, Zenon DEF InFiles
      <4> QED
        BY <3>1, <3>3, <4>1, <4>2, <4>3, Zenon
    <3> QED
      BY <3>1, <3>2, <3>4, Zenon
  <2> QED
    BY <1>3, <2>1, <2>2, Zenon
<1>12. /\ \A n \in ManifestLengths : \A w : InFiles(w, V(n).files)' <=> InFiles(w, V(n).files)
       /\ \A w : InFiles(w, V(L + 1).files)' <=> InFiles(w, N)
       /\ \A w : InFiles(w, cur)' <=> InFiles(w, cur)
  <2>1. \A n \in ManifestLengths : V(n)' = V(n)
    BY <1>5, <1>6, Zenon
  <2> QED
    BY <1>7, <2>1, Zenon DEF InFiles

<1>13. ASSUME NEW n \in ManifestLengths'
       PROVE  /\ V(n)'.log \in {vs.log, logNum}
              /\ V(n)'.log = logNum => \A w \in imm : InFiles(w, V(n).files)'
              /\ \A w : InFiles(w, F) => InFiles(w, V(n).files)' \/ w \in imm
              /\ \A w : InFiles(w, V(n).files)' => InFiles(w, F) \/ w \in imm
              /\ \A w : InFiles(w, cur)' => InFiles(w, V(n).files)'
  <2>1. CASE n \in ManifestLengths
    <3>1. /\ V(n).log \in {vs.log, logNum}
          /\ V(n).log = logNum => \A w \in imm : InFiles(w, V(n).files)
          /\ \A w : InFiles(w, F) => InFiles(w, V(n).files) \/ w \in imm
          /\ \A w : InFiles(w, V(n).files) => InFiles(w, F) \/ w \in imm
          /\ \A w : InFiles(w, cur) => InFiles(w, V(n).files)
      BY <1>1, <1>5, <1>7, <2>1, Zenon DEF OpenInv
    <3>2. V(n)' = V(n)
      BY <1>5, <1>6, <2>1, Zenon
    <3> QED
      BY <3>1, <3>2, Zenon DEF InFiles
  <2>2. CASE n = L + 1
    <3>1. V(n)'.log = k /\ V(n)'.files = N
      BY <1>6, <1>7, <2>2, Zenon
    <3>2. \A w : (InFiles(w, V(n).files)' <=> InFiles(w, N)) /\ (InFiles(w, cur)' <=> InFiles(w, cur))
      BY <3>1, Zenon DEF InFiles
    <3> QED
      BY <1>10, <1>11, <3>1, <3>2, Zenon
  <2> QED
    BY <1>6, <2>1, <2>2, Zenon
<1>14. OpenInv'
  <2>1. \A n \in ManifestLengths' :
         /\ V(n)'.log \in {vs'.log, logNum'}
         /\ V(n)'.log = logNum' => \A w \in imm' : InFiles(w, V(n).files)'
         /\ \A w : InFiles(w, cur)' => InFiles(w, V(n).files)'
    BY <1>13, Zenon
  <2>2. ASSUME NEW n \in ManifestLengths', NEW m \in ManifestLengths', NEW w,
               InFiles(w, V(n).files)'
        PROVE  InFiles(w, V(m).files)' \/ w \in imm'
    BY <1>13, <2>2, Zenon DEF InFiles
  <2>3. /\ V(Len(Manifest.edits))'.log = e.log
        /\ e.add \subseteq V(Len(Manifest.edits))'.files
    <3>1. V(Len(Manifest.edits))' = V(L + 1)'
      BY <1>6, Zenon DEF V
    <3> QED
      BY <1>6, <3>1, Zenon
  <2>4. /\ ap'.pc \in {"sync", "install"} => ap'.edit = e
        /\ ap'.pc # "install"
    BY <1>2, Zenon
  <2> QED
    BY <2>1, <2>2, <2>3, <2>4, Zenon DEF OpenInv
<1>15. LogsInv' /\ MemInv'
  BY <1>1, QuietLogs, Zenon
<1>16. \A w : InData(w)' <=> InData(w)
  <2>1. OpenMeaning /\ OpenMeaning'
    BY <1>1, <1>14, <1>15, OpenFound, OpenFoundAfter, Zenon
  <2>2. \A w : InData(w) <=> FoundAll(w, L)
    BY <1>4, Zenon DEF InData
  <2>3. \A w : InData(w) <=> InFiles(w, F) \/ w \in imm \/ InLog(w, logNum)
    BY <1>5, <1>7, <2>1, <2>2, Zenon DEF OpenMeaning
  <2>4. PICK M : M = L + 1
    BY Zenon
  <2>5. M \in ManifestLengths' /\ Len(Manifest'.edits) = M
    BY <1>6, <2>4, Zenon
  <2>6. \A w : InData(w)' <=> FoundAll(w, M)'
    BY <2>5, Zenon DEF InData
  <2>7. \A w : FoundAll(w, M)' <=> InFiles(w, V(M).files)' \/ w \in imm' \/ InLog(w, logNum)'
    BY <2>1, <2>5, Zenon DEF OpenMeaning
  <2>8. \A w : (InLog(w, logNum)' <=> InLog(w, logNum)) /\ (InFiles(w, V(M).files)' <=> InFiles(w, N))
    BY <1>7, <2>4, Zenon DEF InLog, InFiles
  <2> QED
    BY <1>11, <2>3, <2>6, <2>7, <2>8, Zenon
<1>17. ASSUME NEW w, InSafe(w) PROVE InSafe(w)'
  <2>1. FoundSynced(w, L)
    BY <1>5, <1>17, Zenon DEF InSafe
  <2>2. ASSUME NEW j \in {vs.log, logNum}, LoggedSynced(w, j) PROVE LoggedSynced(w, k) \/ InFiles(w, N)
    <3>1. PICK l \in LogsFrom(j) : InSynced(w, l)
      BY <2>2, Zenon DEF LoggedSynced
    <3>2. l \in DOMAIN logs /\ l \in Nat /\ l >= j /\ l <= logNum
      BY <1>1, <3>1 DEF LogsFrom, LogTypes, LogsInv
    <3>3. CASE l >= k
      BY <3>1, <3>2, <3>3, Zenon DEF LoggedSynced, LogsFrom
    <3>4. CASE ~(l >= k)
      <4>1. k = logNum /\ l < logNum /\ l >= vs.log
        <5>1. j # k /\ j \in {vs.log, logNum}
          BY <2>2, <3>2, <3>4, Zenon
        <5> QED
          BY <1>9, <1>11, <3>2, <3>4, <5>1
      <4>2. InLog(w, l)
        BY <1>1, <3>1, <3>2 DEF InLog, InSynced, LogTypes
      <4>3. w \in imm
        BY <1>1, <3>2, <4>1, <4>2, Zenon DEF MemInv, LogsFrom
      <4> QED
        BY <1>11, <4>1, <4>3, Zenon
    <3> QED
      BY <3>3, <3>4, Zenon
  <2>3. InFiles(w, N) \/ LoggedSynced(w, k)
    BY <1>1, <1>5, <1>7, <1>11, <2>1, <2>2, Zenon DEF FoundSynced, OpenInv
  <2> SUFFICES ASSUME NEW n \in ManifestLengths' PROVE FoundSynced(w, n)'
    BY Zenon DEF InSafe
  <2>4. CASE n \in ManifestLengths
    <3>1. V(n)' = V(n)
      BY <1>5, <1>6, <2>4, Zenon
    <3>2. FoundSynced(w, n)
      BY <1>17, <2>4, Zenon DEF InSafe
    <3> QED
      BY <3>1, <3>2, Zenon
         DEF FoundSynced, InFiles, LoggedSynced, LogsFrom, InSynced
  <2>5. CASE n = L + 1
    <3>1. V(n)'.files = N /\ V(n)'.log = k
      BY <1>6, <1>7, <2>5, Zenon
    <3> QED
      BY <2>3, <3>1, Zenon
         DEF FoundSynced, InFiles, LoggedSynced, LogsFrom, InSynced
  <2> QED
    BY <1>6, <2>4, <2>5, Zenon
<1>18. Kept
  BY <1>16, <1>17, Zenon DEF Kept
<1>19. ClosedInv'
  BY Zenon DEF ClosedInv
<1>20. AckedInv'
  BY <1>1, <1>12, <1>18, Zenon DEF AckedInv, Visible, Kept
<1> QED
  BY <1>14, <1>15, <1>18, <1>19, <1>20, Zenon

(* DB::Open writes its MANIFEST, which CURRENT does not name yet.          *)
LEMMA OpeningData ==
  ASSUME FInv, FInv', DInv, Next, up = "opening",
         UNCHANGED <<tables, logs, mem, imm, hasImm, logNum, cur, up, acked, fl, cp, vs>>,
         ap'.edit = ap.edit, ap'.kind = ap.kind, Manifest' = Manifest
  PROVE  DInv' /\ Kept
<1>1. LogsInv /\ MemInv /\ WorkInv /\ OpenInv /\ ClosedInv /\ AckedInv
  BY Zenon DEF DInv
<1>2. Kept
  <2> SUFFICES ASSUME NEW n \in ManifestLengths, NEW w
               PROVE  /\ Logged(w, V(n).log)' <=> Logged(w, V(n).log)
                      /\ LoggedSynced(w, V(n).log) => LoggedSynced(w, V(n).log)'
    BY KeptIf, Zenon
  <2>1. V(n)' = V(n)
    BY SameFiles, Zenon
  <2> QED
    BY <2>1, Zenon DEF Logged, LoggedSynced, LogsFrom, InLog, InSynced
<1>3. LogsInv' /\ MemInv' /\ OpenInv'
  BY <1>1, Zenon DEF LogsInv, MemInv, OpenInv
<1>4. WorkInv'
  <2>1. \A w : /\ InFiles(w, ap.edit.add)' <=> InFiles(w, ap.edit.add)
               /\ InFiles(w, ap.edit.del)' <=> InFiles(w, ap.edit.del)
    BY Zenon DEF InFiles
  <2> QED
    BY <1>1, <2>1, Zenon DEF WorkInv
<1>5. ClosedInv'
  <2>1. \A w : /\ InFiles(w, ap.edit.add)' <=> InFiles(w, ap.edit.add)
               /\ InFiles(w, cur)' <=> InFiles(w, cur)
               /\ InLog(w, logNum)' <=> InLog(w, logNum)
               /\ InData(w)' <=> InData(w)
    BY <1>2, Zenon DEF InFiles, InLog, Kept
  <2> QED
    BY <1>1, <2>1, Zenon DEF ClosedInv
<1>6. AckedInv'
  BY <1>1, <1>2, Zenon DEF AckedInv, Kept
<1> QED
  BY <1>2, <1>3, <1>4, <1>5, <1>6, Zenon DEF DInv

LEMMA ApplyAppendData ==
  ASSUME FInv, FInv', DInv, Next, ApplyAppend
  PROVE  DInv' /\ Kept
<1>1. Phases /\ WorkInv /\ ManifestInv /\ ApplyTypes /\ ManifestTypes /\ VerTypes
  BY Zenon DEF FInv, TInv, DInv, StateTypes, FileTypes
<1>2. /\ ap.pc = "append" /\ manifests' = WithEdit(ap.edit)
      /\ ap'.pc = "sync" /\ ap'.kind = ap.kind /\ ap'.edit = ap.edit
      /\ UNCHANGED <<current, tables, logs, mem, imm, hasImm, logNum, cur, up, acked, wr, vs,
                     bgError, fl, cp>>
  BY <1>1, Zenon DEF ApplyAppend, ApplyTypes, memVars, verVars, hist
<1>3. CASE up = "open"
  <2>1. LogsInv' /\ MemInv' /\ OpenInv' /\ ClosedInv' /\ AckedInv' /\ Kept
    BY <1>2, <1>3, EditData, Zenon
  <2>2. \A w : /\ InFiles(w, ap.edit.add)' <=> InFiles(w, ap.edit.add)
               /\ InFiles(w, ap.edit.del)' <=> InFiles(w, ap.edit.del)
    BY <1>2, Zenon DEF InFiles
  <2>3. WorkInv'
    BY <1>1, <1>2, <2>2, Zenon DEF WorkInv
  <2> QED
    BY <2>1, <2>3, Zenon DEF DInv
<1>4. CASE up = "opening"
  <2>1. ap.edit \in Edits /\ vs.man \in DOMAIN manifests /\ current # vs.man
    BY <1>1, <1>2, <1>4, Zenon DEF ApplyTypes, ManifestInv
  <2>2. /\ DOMAIN manifests' = DOMAIN manifests
        /\ current \in DOMAIN manifests => manifests'[current] = manifests[current]
    BY <1>1, <1>2, <2>1, WithEditTyped, Zenon
  <2>3. Manifest' = Manifest
    BY <1>2, <2>2, ManifestUntouched, Zenon
  <2> QED
    BY <1>2, <1>4, <2>3, OpeningData, Zenon
<1> QED
  BY <1>1, <1>2, <1>3, <1>4, Zenon DEF Phases

LEMMA ApplyFailData ==
  ASSUME FInv, FInv', DInv, Next, "torn" \notin Faults, FlushFail \/ CompactFail
  PROVE  DInv' /\ Kept
<1>1. Phases /\ WorkInv /\ ProcTypes
  BY Zenon DEF FInv, TInv, DInv, StateTypes
<1>2. /\ up = "open" /\ bgError' /\ ap' = NoAp
      /\ UNCHANGED <<current, tables, logs, mem, imm, hasImm, logNum, cur, up, acked, wr, vs>>
      /\ fl' \in {fl, NoFl} /\ cp' \in {cp, NoCp}
      /\ manifests' \in AfterFailedEdit
  <2>1. up = "open"
    BY <1>1, Zenon DEF FlushFail, CompactFail, ApplyCanFail, Phases
  <2>2. CASE FlushFail
    BY <2>1, <2>2, Zenon DEF FlushFail, memVars, verVars, hist
  <2>3. CASE CompactFail
    BY <2>1, <2>3, Zenon DEF CompactFail, DeleteObsoleteFiles, memVars, hist
  <2> QED
    BY <2>2, <2>3, Zenon
<1>3. ap'.pc = "idle" /\ ap'.kind = "none"
  BY <1>2, Zenon DEF NoAp
<1>4. WorkInv'
  <2>1. (fl'.pc # "idle" => fl.pc # "idle") /\ cp'.inputs \subseteq cp.inputs
    BY <1>2 DEF NoFl, NoCp
  <2> QED
    BY <1>1, <1>2, <1>3, <2>1, Zenon DEF WorkInv
<1>5. manifests' = manifests \/ (ap.pc = "append" /\ manifests' = WithEdit(ap.edit))
  BY <1>2, Zenon DEF AfterFailedEdit
<1>6. LogsInv' /\ MemInv' /\ OpenInv' /\ ClosedInv' /\ AckedInv' /\ Kept
  <2>1. CASE manifests' = manifests
    <3>1. Manifest' = Manifest
      BY <1>2, <2>1, ManifestUntouched, Zenon
    <3> QED
      BY <1>2, <1>3, <3>1, QuietData, Zenon
  <2>2. CASE ap.pc = "append" /\ manifests' = WithEdit(ap.edit)
    BY <1>2, <1>3, <2>2, EditData, Zenon
  <2> QED
    BY <1>5, <2>1, <2>2, Zenon
<1> QED
  BY <1>4, <1>6, Zenon DEF DInv

LEMMA ApplySyncData ==
  ASSUME FInv, FInv', DInv, Next, ApplySync
  PROVE  DInv' /\ Kept
<1>1. /\ Phases /\ LogsInv /\ MemInv /\ WorkInv /\ OpenInv /\ AckedInv /\ ManifestInv /\ ApplyTypes
      /\ ManifestTypes /\ VerTypes
  BY Zenon DEF FInv, TInv, DInv, StateTypes, FileTypes
<1>2. /\ ap.pc = "sync" /\ ap'.kind = ap.kind /\ ap'.edit = ap.edit
      /\ UNCHANGED <<current, tables, logs, mem, imm, hasImm, logNum, cur, up, acked, wr, vs,
                     bgError, fl, cp>>
  BY <1>1, Zenon DEF ApplySync, ApplyTypes, memVars, verVars, hist
<1>3. /\ DOMAIN manifests' = DOMAIN manifests
      /\ \A m \in DOMAIN manifests \ {vs.man} : manifests'[m] = manifests[m]
      /\ vs.man \in DOMAIN manifests =>
           /\ manifests'[vs.man].edits = manifests[vs.man].edits
           /\ manifests'[vs.man].synced = Len(manifests[vs.man].edits)
  <2>1. \A m \in DOMAIN manifests : manifests[m] \in [edits : Seq(Edits), synced : Nat]
    BY <1>1, Zenon DEF ManifestTypes
  <2> QED
    BY <2>1, Zenon DEF ApplySync
<1>4. CASE up = "opening"
  <2>1. vs.man \in DOMAIN manifests /\ current # vs.man
    BY <1>1, <1>2, <1>4, Zenon DEF ManifestInv
  <2>2. Manifest' = Manifest
    BY <1>2, <1>3, <2>1, ManifestUntouched, Zenon
  <2> QED
    BY <1>2, <1>4, <2>2, OpeningData, Zenon
<1>5. CASE up = "open"
  <2>1. current = vs.man /\ current \in DOMAIN manifests
    BY <1>1, <1>5, Zenon DEF ManifestInv, Alive
  <2>2. Manifest'.edits = Manifest.edits /\ Manifest'.synced = Len(Manifest.edits)
    BY <1>2, <1>3, <2>1, Zenon DEF Manifest
  <2>3. PICK L : L = Len(Manifest.edits)
    BY Zenon
  <2>4. L \in Nat /\ L \in ManifestLengths
    BY <1>1, <2>3, ManifestTyped, Zenon
  <2>5. /\ \A n : V(n)' = V(n)
        /\ V(Len(Manifest.edits))' = V(Len(Manifest.edits))
        /\ Len(Manifest'.edits) = L
    BY <2>2, <2>3, Zenon DEF V
  <2>6. \A n \in ManifestLengths' : n \in ManifestLengths
    BY <2>2, <2>3, <2>4 DEF ManifestLengths
  <2>7. \A w : /\ \A n : InFiles(w, V(n).files)' <=> InFiles(w, V(n).files)
               /\ InFiles(w, cur)' <=> InFiles(w, cur)
    BY <1>2, <2>5, Zenon DEF InFiles
  <2>8. LogsInv' /\ MemInv'
    BY <1>1, <1>2, <1>5, QuietLogs, Zenon
  <2>9. OpenInv'
    <3>1. \A n \in ManifestLengths' :
           /\ V(n)'.log \in {vs'.log, logNum'}
           /\ V(n)'.log = logNum' => \A w \in imm' : InFiles(w, V(n).files)'
           /\ \A w : InFiles(w, cur)' => InFiles(w, V(n).files)'
           /\ \A m \in ManifestLengths' : \A w :
                InFiles(w, V(n).files)' => InFiles(w, V(m).files)' \/ w \in imm'
      BY <1>1, <1>2, <1>5, <2>5, <2>6, <2>7, Zenon DEF OpenInv
    <3>2. /\ V(Len(Manifest.edits))'.log = ap'.edit.log
          /\ ap'.edit.add \subseteq V(Len(Manifest.edits))'.files
      BY <1>1, <1>2, <1>5, <2>5, Zenon DEF OpenInv
    <3> QED
      BY <2>2, <2>3, <2>5, <3>1, <3>2, Zenon DEF OpenInv
  <2>10. WorkInv'
    <3>1. \A w : /\ InFiles(w, ap.edit.add)' <=> InFiles(w, ap.edit.add)
                 /\ InFiles(w, ap.edit.del)' <=> InFiles(w, ap.edit.del)
      BY <1>2, Zenon DEF InFiles
    <3> QED
      BY <1>1, <1>2, <3>1, Zenon DEF WorkInv
  <2>11. Kept
    <3>1. \A n, w : /\ FoundAll(w, n)' <=> FoundAll(w, n)
                    /\ FoundSynced(w, n)' <=> FoundSynced(w, n)
      BY <1>2, <2>5, Zenon DEF FoundAll, FoundSynced, InFiles, Logged, LoggedSynced,
         LogsFrom, InLog,
                        InSynced
    <3>2. \A w : (InData(w) <=> FoundAll(w, L)) /\ (InData(w)' <=> FoundAll(w, L)')
      BY <2>3, <2>5, Zenon DEF InData
    <3>3. \A w : InSafe(w) => InSafe(w)'
      BY <2>6, <3>1, Zenon DEF InSafe
    <3> QED
      BY <3>1, <3>2, <3>3, Zenon DEF Kept
  <2>12. ClosedInv'
    BY <1>2, <1>5, Zenon DEF ClosedInv
  <2>13. AckedInv'
    BY <1>1, <1>2, <1>5, <2>7, <2>11, Zenon DEF AckedInv, Visible, Kept
  <2> QED
    BY <2>8, <2>9, <2>10, <2>11, <2>12, <2>13, Zenon DEF DInv
<1> QED
  BY <1>1, <1>2, <1>4, <1>5, Zenon DEF Phases

=============================================================================
