--------------------------- MODULE DBFilesStore ----------------------------
(***************************************************************************)
(* What DBFiles promises about the writes that it was given: they survive, *)
(* they are read, and the whole implements DurableStore. First the rest of *)
(* the steps that keep the invariant of DBFilesData: the new version takes *)
(* effect, a database is opened and recovered, and crashes.                *)
(***************************************************************************)
EXTENDS DBFilesProofs, DBFilesData

----------------------------------------------------------------------------
(* The new version takes effect.                                           *)

(* What every crash leaves is in the database.                             *)
LEMMA SyncedIsLogged ==
  ASSUME LogTypes, NEW w, NEW n, FoundSynced(w, n)
  PROVE  FoundAll(w, n)
<1>1. \A l \in DOMAIN logs : InSynced(w, l) => InLog(w, l)
  BY DEF LogTypes, InSynced, InLog
<1> QED
  BY <1>1, Zenon DEF FoundSynced, FoundAll, LoggedSynced, Logged, LogsFrom

LEMMA SafeIsData ==
  ASSUME FInv, NEW w, InSafe(w)
  PROVE  InData(w)
<1>1. Len(Manifest.edits) \in ManifestLengths /\ LogTypes
  BY ManifestTyped, Zenon DEF FInv, TInv, FileTypes
<1>2. FoundSynced(w, Len(Manifest.edits))
  BY <1>1, Zenon DEF InSafe
<1> QED
  BY <1>1, <1>2, SyncedIsLogged, Zenon DEF InData

(* CURRENT names the new MANIFEST: it records the version that was         *)
(* recovered, and the tables of what was in the logs.                      *)
LEMMA ApplyCurrentData ==
  ASSUME FInv, FInv', DInv, Next, ApplyCurrent
  PROVE  DInv' /\ Kept
<1>1. /\ Phases /\ LogsInv /\ MemInv /\ WorkInv /\ OpenInv /\ ClosedInv /\ AckedInv /\ ManifestInv
      /\ EditInv /\ ApplyTypes /\ MemTypes /\ LogTypes /\ TablesInv
  BY Zenon DEF FInv, TInv, DInv, StateTypes, FileTypes
<1>2. /\ ap.pc = "current" /\ ap'.kind = ap.kind /\ ap'.edit = ap.edit /\ current' = vs.man
      /\ UNCHANGED <<manifests, tables, logs, mem, imm, hasImm, logNum, cur, up, acked, wr, vs,
                     bgError, fl, cp>>
  BY <1>1, Zenon DEF ApplyCurrent, ApplyTypes, memVars, verVars, hist
<1>3. /\ up = "opening" /\ ap.kind = "open" /\ vs.man \in DOMAIN manifests
      /\ manifests[vs.man].edits = <<Snapshot, ap.edit>> /\ manifests[vs.man].synced = 2
      /\ ap.edit \in Edits /\ ap.edit.ok /\ ap.edit.del = {} /\ ap.edit.log = logNum
  BY <1>1, <1>2, Zenon DEF Phases, ManifestInv, ApplyTypes, EditInv, ClosedInv
<1>4. PICK F : F = cur \cup ap.edit.add
  BY Zenon
<1>5. Manifest'.edits = <<Snapshot, ap.edit>> /\ Manifest'.synced = 2
  BY <1>2, <1>3, Zenon DEF Manifest
<1>6. /\ Len(Manifest'.edits) = 2 /\ \A n \in ManifestLengths' : n = 2
      /\ V(2)'.files = F /\ V(2)'.log = logNum /\ 2 \in ManifestLengths'
  <2>1. Len(<<Snapshot, ap.edit>>) = 2
    BY Zenon
  <2>2. /\ Replay(<<Snapshot, ap.edit>>, 2).files = (cur \ ap.edit.del) \cup ap.edit.add
        /\ Replay(<<Snapshot, ap.edit>>, 2).log = ap.edit.log
    BY <1>3, SnapshotTyped, OpenVersion
  <2>3. V(2)' = Replay(<<Snapshot, ap.edit>>, 2)
    BY <1>5, Zenon DEF V
  <2>4. ManifestLengths' = 2..2
    BY <1>5, <2>1, Zenon DEF ManifestLengths
  <2> QED
    BY <1>3, <1>4, <1>5, <2>1, <2>2, <2>3, <2>4
<1>7. \A w : InFiles(w, F) <=> InFiles(w, cur) \/ InFiles(w, ap.edit.add)
  BY <1>4, Zenon DEF InFiles
<1>8. \A w : ~InLog(w, logNum)
  BY <1>1, <1>3, Zenon DEF ClosedInv
<1>9. \A l \in LogsFrom(logNum) : l = logNum
  BY <1>1, <1>3 DEF LogsFrom, LogsInv, MemTypes, LogTypes
<1>10. \A w : InFiles(w, V(2).files)' <=> InFiles(w, F)
  BY <1>2, <1>6, Zenon DEF InFiles
<1>11. \A w : InData(w) <=> InFiles(w, F)
  BY <1>1, <1>3, <1>7, Zenon DEF ClosedInv
<1>12. \A w : InData(w)' <=> InFiles(w, F)
  <2>1. \A w : ~Logged(w, logNum)
    BY <1>8, <1>9, Zenon DEF Logged
  <2>2. \A w : Logged(w, V(2).log)' <=> Logged(w, logNum)
    BY <1>2, <1>6, Zenon DEF Logged, LogsFrom, InLog
  <2>3. \A w : FoundAll(w, 2)' <=> InFiles(w, F)
    BY <1>10, <2>1, <2>2, Zenon DEF FoundAll
  <2>4. \A w : InData(w)' <=> FoundAll(w, 2)'
    BY <1>6, Zenon DEF InData
  <2> QED
    BY <2>3, <2>4, Zenon
<1>13. \A w : InSafe(w) => InSafe(w)'
  <2> SUFFICES ASSUME NEW w, InSafe(w) PROVE InSafe(w)'
    BY Zenon
  <2>1. InFiles(w, F)
    BY <1>11, SafeIsData, Zenon
  <2>2. InFiles(w, V(2).files)'
    BY <1>2, <1>6, <2>1, Zenon DEF InFiles
  <2>3. FoundSynced(w, 2)'
    BY <2>2, Zenon DEF FoundSynced
  <2> QED
    BY <1>6, <2>3, Zenon DEF InSafe
<1>14. Kept
  BY <1>11, <1>12, <1>13, Zenon DEF Kept
<1>15. LogsInv' /\ MemInv' /\ OpenInv'
  BY <1>1, <1>2, <1>3, Zenon DEF LogsInv, MemInv, OpenInv
<1>16. \A w : /\ InFiles(w, ap.edit.add)' <=> InFiles(w, ap.edit.add)
              /\ InFiles(w, cur)' <=> InFiles(w, cur)
              /\ InLog(w, logNum)' <=> InLog(w, logNum)
  BY <1>2, Zenon DEF InFiles, InLog
<1>17. WorkInv'
  BY <1>1, <1>2, <1>3, Zenon DEF WorkInv
<1>18. ClosedInv'
  BY <1>2, <1>3, <1>5, <1>6, <1>7, <1>8, <1>12, <1>16, Zenon DEF ClosedInv
<1>19. AckedInv'
  BY <1>1, <1>2, <1>3, <1>14, Zenon DEF AckedInv, Kept
<1> QED
  BY <1>14, <1>15, <1>17, <1>18, <1>19, Zenon DEF DInv

(* A new version is installed, and old logs may be deleted.                *)
LEMMA InstallData ==
  ASSUME FInv, FInv', DInv, Next, up = "open", ap.pc = "install", ap' = NoAp,
         cur' = NewVersion, vs'.log = ap.edit.log, Manifest' = Manifest,
         UNCHANGED <<up, logNum, mem, wr, bgError, acked>>,
         DOMAIN logs' \subseteq DOMAIN logs, \A l \in DOMAIN logs' : logs'[l] = logs[l],
         \A l \in DOMAIN logs : l >= ap.edit.log => l \in DOMAIN logs',
         \/ ap.kind = "flush" /\ imm' = {} /\ fl' = NoFl /\ cp' = cp
         \/ /\ ap.kind \in {"compact", "move"}
            /\ imm' = imm /\ hasImm' = hasImm /\ fl' = fl /\ cp' = NoCp
  PROVE  DInv' /\ Kept
<1>1. /\ Phases /\ LogsInv /\ MemInv /\ WorkInv /\ OpenInv /\ AckedInv /\ ManifestInv
      /\ EditInv /\ ApplyTypes /\ MemTypes /\ LogTypes /\ TablesInv /\ VerTypes /\ LogOrder
  BY Zenon DEF FInv, TInv, DInv, StateTypes, FileTypes
<1>2. PICK L, k, e : L = Len(Manifest.edits) /\ k = ap.edit.log /\ e = ap.edit
  BY Zenon
<1>3. /\ L \in ManifestLengths /\ \A n \in ManifestLengths : n = L
      /\ V(L).log = k /\ e.add \subseteq V(L).files
      /\ k \in Nat /\ logNum \in Nat /\ k <= logNum /\ vs.log \in Nat
  <2>1. Manifest.synced = L
    BY <1>1, <1>2, Zenon DEF OpenInv
  <2>2. L \in Nat
    BY <1>2, ManifestTyped, Zenon DEF FInv, TInv, FileTypes
  <2>3. L \in ManifestLengths /\ \A n \in ManifestLengths : n = L
    BY <1>2, <2>1, <2>2 DEF ManifestLengths
  <2> QED
    BY <1>1, <1>2, <2>3, Zenon DEF OpenInv, ApplyTypes, Edits, MemTypes, LogOrder,
       VerTypes
<1>4. ap'.pc = "idle" /\ ap'.kind = "none"
  BY Zenon DEF NoAp
<1>5. ap.kind = "flush" => k = logNum /\ e.del = {} /\ \A w : w \in imm <=> InFiles(w, e.add)
  BY <1>1, <1>2, Zenon DEF WorkInv, EditInv
<1>6. ap.kind \in {"compact", "move"} =>
        k = vs.log /\ \A w : InFiles(w, e.add) <=> InFiles(w, e.del)
  BY <1>1, <1>2, Zenon DEF WorkInv, EditInv
<1>7. /\ ManifestLengths' = ManifestLengths
      /\ Len(Manifest'.edits) = L
      /\ V(L)' = V(L)
      /\ \A w : InFiles(w, V(L).files)' <=> InFiles(w, V(L).files)
  BY <1>2, <1>3, SameFiles, Zenon
<1>8. \A w : InFiles(w, cur)' <=> InFiles(w, NewVersion)
  <2>1. \A f \in NewVersion : Used(f) /\ Used(f)'
    BY Zenon DEF NewVersion, Used, InUse
  <2>2. \A f \in NewVersion : tables'[f] = tables[f]
    BY <2>1, TablesFrame, Zenon
  <2> QED
    BY <2>2, Zenon DEF InFiles
<1>9. /\ \A w : InFiles(w, NewVersion) => InFiles(w, cur) \/ InFiles(w, e.add)
      /\ \A w : InFiles(w, cur) => InFiles(w, NewVersion) \/ InFiles(w, e.del)
      /\ \A w : InFiles(w, e.add) => InFiles(w, NewVersion)
  BY <1>2, Zenon DEF InFiles, NewVersion
<1>10. \A l : l >= k => /\ l \in DOMAIN logs' <=> l \in DOMAIN logs
                        /\ l \in DOMAIN logs => logs'[l] = logs[l]
  BY <1>2, Zenon
<1>11. LogsFrom(k)' = LogsFrom(k) /\ \A l \in LogsFrom(k) : logs'[l] = logs[l]
  BY <1>10, Zenon DEF LogsFrom
<1>12. Kept
  <2>1. \A n \in ManifestLengths : \A w :
          /\ Logged(w, V(n).log)' <=> Logged(w, V(n).log)
          /\ LoggedSynced(w, V(n).log) => LoggedSynced(w, V(n).log)'
    <3> SUFFICES ASSUME NEW n \in ManifestLengths, NEW w
                 PROVE  /\ Logged(w, V(n).log)' <=> Logged(w, V(n).log)
                        /\ LoggedSynced(w, V(n).log) => LoggedSynced(w, V(n).log)'
      BY Zenon
    <3>1. V(n)'.log = k /\ V(n).log = k
      BY <1>3, <1>7, Zenon
    <3>2. /\ Logged(w, V(n).log)' <=> \E l \in LogsFrom(k)' : InLog(w, l)'
          /\ LoggedSynced(w, V(n).log)' <=> \E l \in LogsFrom(k)' : InSynced(w, l)'
      BY <3>1, Zenon DEF Logged, LoggedSynced, LogsFrom
    <3>3. \A l \in LogsFrom(k) : /\ InLog(w, l)' <=> InLog(w, l)
                                 /\ InSynced(w, l)' <=> InSynced(w, l)
      BY <1>11, Zenon DEF InLog, InSynced
    <3> QED
      BY <1>11, <3>1, <3>2, <3>3, Zenon DEF Logged, LoggedSynced
  <2> QED
    BY <2>1, KeptIf, Zenon
<1>13. LogsInv'
  BY <1>1, Zenon DEF LogsInv
<1>14. logNum \in DOMAIN logs' /\ logs'[logNum] = logs[logNum]
  BY <1>1, <1>3, <1>10, Zenon DEF Phases
<1>15. MemInv'
  <2>1. \A w : /\ InLog(w, logNum)' <=> InLog(w, logNum)
               /\ InSynced(w, logNum)' <=> InSynced(w, logNum)
    BY <1>14, Zenon DEF InLog, InSynced
  <2>2. \A l : l \in LogsFrom(vs.log)' <=> l \in LogsFrom(k)
    BY <1>2, <1>11, Zenon DEF LogsFrom
  <2>3. \A w : w \in imm' <=> \E l \in LogsFrom(vs.log)' : l < logNum' /\ InLog(w, l)'
    <3>1. CASE ap.kind = "flush"
      <4>1. \A l \in LogsFrom(vs.log)' : ~(l < logNum')
        BY <1>1, <1>3, <1>5, <2>2, <3>1 DEF LogsFrom, LogTypes
      <4> QED
        BY <3>1, <4>1, Zenon
    <3>2. CASE ap.kind \in {"compact", "move"}
      <4>1. imm' = imm /\ k = vs.log
        BY <1>6, <3>2, Zenon
      <4>2. \A w : w \in imm <=> \E l \in LogsFrom(k) : l < logNum /\ InLog(w, l)
        BY <1>1, <4>1, Zenon DEF MemInv
      <4>3. \A w : \A l \in LogsFrom(k) : InLog(w, l)' <=> InLog(w, l)
        BY <1>11, Zenon DEF InLog
      <4> QED
        BY <2>2, <4>1, <4>2, <4>3, Zenon
    <3> QED
      BY <3>1, <3>2, Zenon
  <2>4. ~hasImm' => vs'.log = logNum'
    BY <1>1, <1>2, <1>5, <1>6, Zenon DEF MemInv
  <2>5. InLog(wr.w, logNum)' <=> InLog(wr.w, logNum)
    BY <1>14, Zenon DEF InLog
  <2>6. InSynced(wr.w, logNum)' <=> InSynced(wr.w, logNum)
    BY <1>14, Zenon DEF InSynced
  <2> QED
    BY <1>1, <2>1, <2>3, <2>4, <2>5, <2>6, Zenon DEF MemInv
<1>16. OpenInv'
  <2>1. \A n \in ManifestLengths' : n = L
    BY <1>3, <1>7, Zenon
  <2>2. /\ V(L)'.log = vs'.log
        /\ V(L)'.log = logNum' => \A w \in imm' : InFiles(w, V(L).files)'
    BY <1>1, <1>2, <1>3, <1>7, Zenon DEF OpenInv
  <2>3. \A w : InFiles(w, cur)' => InFiles(w, V(L).files)'
    <3>1. \A w : InFiles(w, e.add) => InFiles(w, V(L).files)
      BY <1>3, Zenon DEF InFiles
    <3>2. \A w : InFiles(w, cur) => InFiles(w, V(L).files)
      BY <1>1, <1>3, Zenon DEF OpenInv
    <3> QED
      BY <1>7, <1>8, <1>9, <3>1, <3>2, Zenon
  <2>4. \A n \in ManifestLengths' :
         /\ V(n)'.log \in {vs'.log, logNum'}
         /\ V(n)'.log = logNum' => \A w \in imm' : InFiles(w, V(n).files)'
         /\ \A w : InFiles(w, cur)' => InFiles(w, V(n).files)'
         /\ \A m \in ManifestLengths' : m = n
    BY <2>1, <2>2, <2>3, Zenon
  <2> QED
    BY <1>4, <2>4, Zenon DEF OpenInv
<1>17. WorkInv'
  <2>1. cp'.inputs \subseteq cur' /\ (fl'.pc # "idle" => hasImm')
    BY <1>1, <1>2, <1>5 DEF WorkInv, NewVersion, NoCp, NoFl
  <2> QED
    BY <1>4, <2>1, Zenon DEF WorkInv
<1>18. ClosedInv'
  BY Zenon DEF ClosedInv
<1>19. AckedInv'
  <2>1. \A w : w \in imm \/ InFiles(w, cur) => w \in imm' \/ InFiles(w, cur)'
    <3>1. CASE ap.kind = "flush"
      <4>1. \A w : ~InFiles(w, e.del)
        BY <1>5, <3>1, Zenon DEF InFiles
      <4> QED
        BY <1>5, <1>8, <1>9, <3>1, <4>1, Zenon
    <3>2. CASE ap.kind \in {"compact", "move"}
      BY <1>6, <1>8, <1>9, <3>2, Zenon
    <3> QED
      BY <3>1, <3>2, Zenon
  <2> QED
    BY <1>1, <1>12, <2>1, Zenon DEF AckedInv, Visible, Kept
<1> QED
  BY <1>12, <1>13, <1>15, <1>16, <1>17, <1>18, <1>19, Zenon DEF DInv

LEMMA InstallsData ==
  ASSUME FInv, FInv', DInv, Next, FlushInstall \/ CompactInstall \/ MoveInstall
  PROVE  DInv' /\ Kept
<1>1. /\ Phases /\ ManifestInv /\ VerTypes /\ LogTypes /\ ApplyTypes
  BY Zenon DEF FInv, TInv, FileTypes, StateTypes
<1>2. /\ up = "open" /\ ap.pc = "install" /\ ap' = NoAp /\ cur' = NewVersion
      /\ vs' = [vs EXCEPT !.log = ap.edit.log]
      /\ UNCHANGED <<up, current, logNum, mem, wr, bgError, acked>>
      /\ \/ ap.kind = "flush" /\ imm' = {} /\ fl' = NoFl /\ cp' = cp
         \/ /\ ap.kind \in {"compact", "move"}
            /\ imm' = imm /\ hasImm' = hasImm /\ fl' = fl /\ cp' = NoCp
  <2>1. CASE FlushInstall
    BY <1>1, <2>1, Zenon DEF FlushInstall, Phases, hist
  <2>2. CASE CompactInstall
    BY <1>1, <2>2, Zenon DEF CompactInstall, Phases, memVars, hist
  <2>3. CASE MoveInstall
    BY <1>1, <2>3, Zenon DEF MoveInstall, Phases, disk, memVars, hist
  <2> QED
    BY <2>1, <2>2, <2>3, Zenon
<1>3. vs'.log = ap.edit.log /\ current = vs.man /\ current \in DOMAIN manifests
      /\ current \in Nat /\ ap.edit.log \in Nat
  BY <1>1, <1>2, Zenon DEF VerTypes, ManifestInv, Alive, ApplyTypes, Edits
<1>4. /\ current \in DOMAIN manifests' /\ manifests'[current] = manifests[current]
      /\ DOMAIN logs' \subseteq DOMAIN logs /\ \A l \in DOMAIN logs' : logs'[l] = logs[l]
      /\ \A l \in DOMAIN logs : l >= ap.edit.log => l \in DOMAIN logs'
  <2>1. CASE MoveInstall
    BY <1>3, <2>1, Zenon DEF MoveInstall, disk
  <2>2. CASE FlushInstall \/ CompactInstall
    <3>1. PICK versions, outputs, error :
            DeleteObsoleteFiles(versions, outputs, ap.edit.log, manifests, error)
      BY <2>2, Zenon DEF FlushInstall, CompactInstall
    <3>2. current >= vs.man
      BY <1>3
    <3>3. current \in DOMAIN manifests' /\ manifests'[current] = manifests[current]
      BY <1>3, <3>1, <3>2, DeleteKeeps, Zenon
    <3>4. /\ DOMAIN logs' \subseteq DOMAIN logs /\ \A l \in DOMAIN logs' : logs'[l] = logs[l]
      BY <3>1, DeleteRemoves, Zenon
    <3>5. \A l \in DOMAIN logs : l >= ap.edit.log => l \in DOMAIN logs'
      <4>1. CASE error
        BY <3>1, <4>1, Zenon DEF DeleteObsoleteFiles
      <4>2. CASE ~error
        BY <3>1, <4>2, Zenon DEF DeleteObsoleteFiles, Restrict
      <4> QED
        BY <4>1, <4>2, Zenon
    <3> QED
      BY <3>3, <3>4, <3>5, Zenon
  <2> QED
    BY <2>1, <2>2, Zenon
<1>5. Manifest' = Manifest
  BY <1>2, <1>3, <1>4, ManifestUntouched, Zenon
<1> QED
  BY <1>2, <1>3, <1>4, <1>5, InstallData, Zenon

(* DB::Open is done: everything is in the tables of the new version, and   *)
(* only the new log is left.                                               *)
LEMMA OpenInstallData ==
  ASSUME FInv, FInv', DInv, Next, OpenInstall
  PROVE  DInv' /\ Kept
<1>1. /\ Phases /\ LogsInv /\ MemInv /\ WorkInv /\ ClosedInv /\ AckedInv /\ ManifestInv
      /\ EditInv /\ ApplyTypes /\ MemTypes /\ LogTypes /\ VerTypes
  BY Zenon DEF FInv, TInv, DInv, StateTypes, FileTypes
<1>2. /\ up = "opening" /\ ap.pc = "install" /\ ap.kind = "open" /\ ap' = NoAp
      /\ cur' = NewVersion /\ up' = "open" /\ vs' = [vs EXCEPT !.log = ap.edit.log]
      /\ UNCHANGED <<current, mem, imm, hasImm, logNum, wr, bgError, acked, fl, cp>>
      /\ DeleteObsoleteFiles({NewVersion}, pending, ap.edit.log, manifests, FALSE)
      /\ fl.pc = "idle" /\ cp.inputs = {} /\ wr.pc = "idle" /\ logNum \in DOMAIN logs
  BY <1>1, Zenon DEF OpenInstall, Phases, memVars, hist
<1>3. /\ vs'.log = logNum /\ ap.edit.log = logNum /\ ap'.pc = "idle" /\ ap'.kind = "none"
      /\ mem = {} /\ imm = {} /\ logNum \in Nat
      /\ \A l \in DOMAIN logs : l \in Nat /\ l <= logNum
      /\ \A w : ~InLog(w, logNum)
      /\ \A w : InData(w) <=> InFiles(w, cur) \/ InFiles(w, ap.edit.add)
  BY <1>1, <1>2 DEF VerTypes, ClosedInv, MemInv, NoAp, MemTypes, LogsInv, LogTypes
<1>4. /\ current = vs.man /\ vs.man \in DOMAIN manifests
      /\ manifests[vs.man].edits = <<Snapshot, ap.edit>> /\ manifests[vs.man].synced = 2
      /\ ap.edit \in Edits /\ ap.edit.ok /\ ap.edit.del = {} /\ vs.man \in Nat
  BY <1>1, <1>2, Zenon DEF ManifestInv, ApplyTypes, EditInv, VerTypes
<1>5. /\ current \in DOMAIN manifests' /\ manifests'[current] = manifests[current]
      /\ DOMAIN logs' = {logNum} /\ logs'[logNum] = logs[logNum]
  <2>1. PICK versions, outputs, error :
          /\ error = FALSE
          /\ DeleteObsoleteFiles(versions, outputs, logNum, manifests, error)
    BY <1>2, <1>3, Zenon
  <2>2. current >= vs.man
    BY <1>4
  <2>3. current \in DOMAIN manifests' /\ manifests'[current] = manifests[current]
    BY <1>4, <2>1, <2>2, DeleteKeeps, Zenon
  <2>4. logs' = Restrict(logs, {l \in DOMAIN logs : l >= logNum})
    BY <2>1, Zenon DEF DeleteObsoleteFiles
  <2>5. {l \in DOMAIN logs : l >= logNum} = {logNum}
    BY <1>2, <1>3
  <2> QED
    BY <2>3, <2>4, <2>5, Zenon DEF Restrict
<1>6. Manifest' = Manifest
  BY <1>2, <1>4, <1>5, ManifestUntouched, Zenon
<1>7. Manifest.edits = <<Snapshot, ap.edit>> /\ Manifest.synced = 2
  BY <1>4, Zenon DEF Manifest
<1>8. /\ Len(Manifest.edits) = 2 /\ V(2).files = NewVersion /\ V(2).log = logNum
      /\ \A n \in ManifestLengths : n = 2
  <2>1. Snapshot \in Edits /\ Snapshot.ok /\ Snapshot.add = cur
    BY SnapshotTyped, Zenon
  <2>2. V(2).files = NewVersion /\ V(2).log = logNum
    BY <1>3, <1>4, <1>7, <2>1, OpenVersion DEF V, NewVersion
  <2>3. Len(<<Snapshot, ap.edit>>) = 2
    BY Zenon
  <2>4. ManifestLengths = 2..2
    BY <1>7, <2>3, Zenon DEF ManifestLengths
  <2> QED
    BY <1>7, <2>2, <2>3, <2>4
<1>9. /\ ManifestLengths' = ManifestLengths
      /\ \A n \in ManifestLengths : V(n)' = V(n)
  BY <1>6, SameFiles, Zenon
<1>10. \A w : InFiles(w, cur)' <=> InFiles(w, cur) \/ InFiles(w, ap.edit.add)
  <2>1. \A f \in NewVersion : Used(f) /\ Used(f)'
    BY <1>2, Zenon DEF NewVersion, Used, InUse
  <2>2. \A f \in NewVersion : tables'[f] = tables[f]
    BY <2>1, TablesFrame, Zenon
  <2>3. \A w : InFiles(w, cur)' <=> InFiles(w, NewVersion)
    BY <1>2, <2>2, Zenon DEF InFiles
  <2>4. \A w : InFiles(w, NewVersion) <=> InFiles(w, cur) \/ InFiles(w, ap.edit.add)
    BY <1>4, Zenon DEF InFiles, NewVersion
  <2> QED
    BY <2>3, <2>4, Zenon
<1>11. LogsFrom(logNum)' = {logNum} /\ LogsFrom(logNum) = {logNum}
  BY <1>2, <1>3, <1>5 DEF LogsFrom
<1>12. Kept
  <2> SUFFICES ASSUME NEW n \in ManifestLengths, NEW w
               PROVE  /\ Logged(w, V(n).log)' <=> Logged(w, V(n).log)
                      /\ LoggedSynced(w, V(n).log) => LoggedSynced(w, V(n).log)'
    BY <1>6, KeptIf, Zenon
  <2>1. V(n)'.log = logNum /\ V(n).log = logNum
    BY <1>8, <1>9, Zenon
  <2> QED
    BY <1>2, <1>3, <1>5, <2>1 DEF Logged, LoggedSynced, LogsFrom, InLog, InSynced
<1>13. \A w : ~InLog(w, logNum)'
  BY <1>2, <1>3, <1>5, Zenon DEF InLog
<1>14. MemInv'
  <2>1. \A l \in LogsFrom(vs.log)' : ~(l < logNum')
    BY <1>2, <1>3, <1>5 DEF LogsFrom
  <2> QED
    BY <1>2, <1>3, <1>13, <2>1, Zenon DEF MemInv
<1>15. LogsInv'
  BY <1>1, <1>2, <1>3, <1>5, Zenon DEF LogsInv
<1>16. OpenInv'
  <2>1. \A n \in ManifestLengths' :
         /\ V(n)'.log = vs'.log /\ V(n)'.files = cur' /\ \A m \in ManifestLengths' : m = n
    BY <1>2, <1>3, <1>8, <1>9, Zenon
  <2>2. \A n \in ManifestLengths' : \A w : InFiles(w, V(n).files)' <=> InFiles(w, cur)'
    BY <2>1, Zenon DEF InFiles
  <2> QED
    BY <1>2, <1>3, <2>1, <2>2, Zenon DEF OpenInv
<1>17. WorkInv'
  BY <1>2, <1>3, Zenon DEF WorkInv
<1>18. ClosedInv'
  BY <1>2, Zenon DEF ClosedInv
<1>19. AckedInv'
  BY <1>1, <1>2, <1>3, <1>10, <1>12, Zenon DEF AckedInv, Visible, Kept
<1> QED
  BY <1>12, <1>14, <1>15, <1>16, <1>17, <1>18, <1>19, Zenon DEF DInv

LEMMA LogsUnchanged ==
  ASSUME FInv, FInv', Next, Manifest' = Manifest, UNCHANGED logs
  PROVE  Kept
<1> SUFFICES ASSUME NEW n \in ManifestLengths, NEW w
             PROVE  /\ Logged(w, V(n).log)' <=> Logged(w, V(n).log)
                    /\ LoggedSynced(w, V(n).log) => LoggedSynced(w, V(n).log)'
  BY KeptIf, Zenon
<1>1. V(n)' = V(n)
  BY SameFiles, Zenon
<1> QED
  BY <1>1, Zenon DEF Logged, LoggedSynced, LogsFrom, InLog, InSynced

(* The recovery reads the MANIFEST.                                        *)
LEMMA OpenRecoverData ==
  ASSUME FInv, FInv', DInv, Next, OpenRecover
  PROVE  DInv' /\ Kept
<1>1. /\ Phases /\ ManifestTypes /\ LogTypes
      /\ LogsInv /\ MemInv /\ WorkInv /\ ClosedInv /\ AckedInv
  BY Zenon DEF FInv, TInv, DInv, FileTypes
<1>2. /\ UNCHANGED <<logs, tables, manifests, current, mem, imm, hasImm, fl, cp, ap, acked>>
      /\ up = "down"
  BY Zenon DEF OpenRecover, disk, memVars, hist
<1>3. Manifest' = Manifest
  BY <1>2, ManifestUntouched, Zenon
<1>4. Kept
  BY <1>2, <1>3, LogsUnchanged, Zenon
<1>5. PICK L : L = Len(Manifest.edits)
  BY Zenon
<1>6. L \in ManifestLengths /\ V(L).log \in Nat
  BY <1>1, <1>5, ManifestTyped, Zenon DEF ManifestLengths
<1>7. V(L)' = V(L) /\ Len(Manifest.edits)' = L
  BY <1>3, <1>5, <1>6, SameFiles, Zenon
<1>8. \/ up' = "corrupt"
      \/ /\ up' = "recovering" /\ cur' = V(L).files
         /\ rc'.todo = {l \in DOMAIN logs : l >= V(L).log} /\ rc'.add = {}
         /\ vs'.next \in Nat /\ vs'.next > V(L).log
  BY <1>1, <1>5, OpenRecoverCases, Zenon
<1>9. ap.pc = "idle" /\ ap.kind = "none" /\ fl.pc = "idle" /\ cp.inputs = {}
  BY <1>1, <1>2, Zenon DEF Phases
<1>10. LogsInv'
  <2>1. \A l \in DOMAIN logs : l \in Nat
    BY <1>1 DEF LogTypes
  <2> QED
    BY <1>1, <1>2, <1>6, <1>8, <2>1 DEF LogsInv
<1>11. MemInv' /\ OpenInv' /\ WorkInv'
  BY <1>1, <1>2, <1>8, <1>9, Zenon DEF MemInv, OpenInv, WorkInv
<1>12. ClosedInv'
  <2>1. Manifest'.synced = Len(Manifest'.edits)
    BY <1>1, <1>2, <1>3, Zenon DEF ClosedInv
  <2>2. ASSUME up' = "recovering"
        PROVE  \A w : Logged(w, V(L).log)' <=>
                      (InFiles(w, rc.add)' \/ \E l \in rc'.todo : InLog(w, l)')
    BY <1>2, <1>7, <1>8, <2>2, Zenon DEF Logged, LogsFrom, InLog, InFiles
  <2>3. up' = "recovering" => cur' = V(L)'.files
    BY <1>7, <1>8, Zenon
  <2> QED
    BY <1>7, <1>8, <2>1, <2>2, <2>3, Zenon DEF ClosedInv
<1>13. AckedInv'
  BY <1>1, <1>2, <1>4, <1>8, Zenon DEF AckedInv, Kept
<1> QED
  BY <1>4, <1>10, <1>11, <1>12, <1>13, Zenon DEF DInv

(* The recovery writes what is in a log to a new table.                    *)
LEMMA RecoverLogFileData ==
  ASSUME FInv, FInv', DInv, Next, RecoverLogFile, "recover" \notin Faults
  PROVE  DInv' /\ Kept
<1>1. /\ Phases /\ ManifestTypes /\ LogTypes /\ VerTypes /\ TablesInv
      /\ LogsInv /\ MemInv /\ WorkInv /\ ClosedInv /\ AckedInv
  BY Zenon DEF FInv, TInv, DInv, FileTypes, StateTypes
<1>2. /\ UNCHANGED <<logs, manifests, current, mem, imm, hasImm, fl, cp, ap, acked, cur, up>>
      /\ up = "recovering"
  BY Zenon DEF RecoverLogFile, memVars, hist
<1>3. Manifest' = Manifest
  BY <1>2, ManifestUntouched, Zenon
<1>4. Kept
  BY <1>2, <1>3, LogsUnchanged, Zenon
<1>5. PICK l, data : l = Min(rc.todo) /\ data = Readable(logs[l].recs, AllRecords(l))
  BY Zenon
<1>6. /\ l \in rc.todo /\ l \in DOMAIN logs /\ l \in Nat /\ vs.next \in Nat
      /\ \A n \in Nat : /\ Max({n, l + 1}) \in Nat
                        /\ Max({n, l + 1}) >= n /\ Max({n, l + 1}) >= l + 1
  BY <1>1, <1>5, RecoverNumbers, Zenon DEF VerTypes
<1>7. \A w : w \in data <=> InLog(w, l)
  <2>1. Len(logs[l].recs) \in Nat
    BY <1>1, <1>6 DEF LogTypes
  <2>2. \A i \in 1..Len(logs[l].recs) : \A k \in 1..i : logs[l].recs[k].ok
    BY <1>1, <1>6, <2>1 DEF LogsInv
  <2> QED
    BY <1>5, <2>2, Zenon DEF Readable, AllRecords, InLog
<1>8. /\ rc'.todo = rc.todo \ {l} /\ vs'.next \in Nat /\ vs'.next >= vs.next /\ vs'.next >= l + 1
      /\ \/ /\ data # {} /\ tables' = With(tables, vs.next, [data |-> data, ok |-> TRUE])
            /\ rc'.add = rc.add \cup {vs.next}
         \/ data = {} /\ tables' = tables /\ rc'.add = rc.add
  <2>1. CASE /\ data # {}
             /\ tables' = With(tables, vs.next, [data |-> data, ok |-> TRUE])
             /\ rc' = [todo |-> rc.todo \ {l}, add |-> rc.add \cup {vs.next}, ok |-> TRUE,
                       max |-> Max({rc.max} \cup {w.seq : w \in data})]
             /\ vs' = [vs EXCEPT !.next = Max({vs.next + 1, l + 1})]
    <3>1. vs.next + 1 \in Nat
      BY <1>6
    <3>2. vs'.next = Max({vs.next + 1, l + 1})
      BY <1>1, <2>1, Zenon DEF VerTypes
    <3>3. rc'.todo = rc.todo \ {l} /\ rc'.add = rc.add \cup {vs.next}
      BY <2>1, Zenon
    <3>4. vs'.next \in Nat /\ vs'.next >= vs.next + 1 /\ vs'.next >= l + 1
      BY <1>6, <3>1, <3>2, Zenon
    <3> QED
      BY <1>6, <2>1, <3>3, <3>4
  <2>2. CASE /\ data = {}
             /\ rc' = [rc EXCEPT !.todo = @ \ {l}, !.ok = TRUE]
             /\ vs' = [vs EXCEPT !.next = Max({vs.next, l + 1})]
             /\ UNCHANGED tables
    <3>1. ApplyTypes
      BY Zenon DEF FInv, TInv, StateTypes
    <3>2. vs'.next = Max({vs.next, l + 1})
      BY <1>1, <2>2, Zenon DEF VerTypes
    <3>3. rc'.todo = rc.todo \ {l} /\ rc'.add = rc.add
      BY <2>2, <3>1, Zenon DEF ApplyTypes
    <3> QED
      BY <1>6, <2>2, <3>2, <3>3, Zenon
  <2> QED
    BY <1>5, <2>1, <2>2, Zenon DEF RecoverLogFile
<1>9. \A w : InFiles(w, rc.add)' <=> InFiles(w, rc.add) \/ InLog(w, l)
  <2>1. \A f \in rc.add : f # vs.next
    <3>1. \A f \in rc.add : f < vs.next
      BY <1>1, Zenon DEF TablesInv, InUse
    <3> QED
      BY <1>6, <3>1
  <2>2. \A f \in rc.add : f \in DOMAIN tables
    BY <1>1, Zenon DEF TablesInv, InUse
  <2>3. CASE data = {} /\ tables' = tables /\ rc'.add = rc.add
    BY <1>7, <2>3, Zenon DEF InFiles
  <2>4. CASE /\ tables' = With(tables, vs.next, [data |-> data, ok |-> TRUE])
             /\ rc'.add = rc.add \cup {vs.next}
    <3>1. /\ tables'[vs.next].data = data
          /\ \A f \in rc.add : tables'[f] = tables[f]
      BY <2>1, <2>2, <2>4, Zenon DEF With
    <3> QED
      BY <1>7, <2>4, <3>1, Zenon DEF InFiles
  <2> QED
    BY <1>8, <2>3, <2>4, Zenon
<1>10. PICK L : L = Len(Manifest.edits)
  BY Zenon
<1>11. L \in ManifestLengths
  BY <1>1, <1>10, ManifestTyped, Zenon DEF ManifestLengths
<1>12. V(L)' = V(L) /\ Len(Manifest.edits)' = L
  BY <1>3, <1>10, <1>11, SameFiles, Zenon
<1>13. ap.pc = "idle" /\ ap.kind = "none" /\ fl.pc = "idle" /\ cp.inputs = {}
  BY <1>1, <1>2, Zenon DEF Phases
<1>14. LogsInv'
  <2>1. \A k \in DOMAIN logs : k \in Nat
    BY <1>1 DEF LogTypes
  <2>2. \A k \in DOMAIN logs : k \in rc.todo \/ k < vs.next
    BY <1>1, <1>2, Zenon DEF LogsInv
  <2>3. \A k \in DOMAIN logs : k \in rc'.todo \/ k < vs'.next
    BY <1>6, <1>8, <2>1, <2>2
  <2> QED
    BY <1>1, <1>2, <2>3, Zenon DEF LogsInv
<1>15. MemInv' /\ OpenInv' /\ WorkInv'
  BY <1>1, <1>2, <1>13, Zenon DEF MemInv, OpenInv, WorkInv
<1>16. ClosedInv'
  <2>1. \A w : Logged(w, V(L).log)' <=> Logged(w, V(L).log)
    BY <1>2, <1>12, Zenon DEF Logged, LogsFrom, InLog
  <2>2. \A w : Logged(w, V(L).log) <=>
                 (InFiles(w, rc.add) \/ \E k \in rc.todo : InLog(w, k))
    BY <1>1, <1>2, <1>10, Zenon DEF ClosedInv
  <2>3. \A w : (\E k \in rc'.todo : InLog(w, k)') \/ InLog(w, l)
               <=> \E k \in rc.todo : InLog(w, k)
    BY <1>2, <1>6, <1>8, Zenon DEF InLog
  <2>4. \A w : Logged(w, V(L).log)' <=>
                 (InFiles(w, rc.add)' \/ \E k \in rc'.todo : InLog(w, k)')
    BY <1>9, <2>1, <2>2, <2>3, Zenon
  <2>5. cur' = V(L)'.files /\ Manifest'.synced = Len(Manifest'.edits)
    BY <1>1, <1>2, <1>3, <1>10, <1>12, Zenon DEF ClosedInv
  <2> QED
    BY <1>2, <1>12, <2>4, <2>5, Zenon DEF ClosedInv
<1>17. AckedInv'
  BY <1>1, <1>2, <1>4, Zenon DEF AckedInv, Kept
<1> QED
  BY <1>4, <1>14, <1>15, <1>16, <1>17, Zenon DEF DInv

(* The new log file is empty, and the edit has the tables of the old ones. *)
LEMMA OpenApplyData ==
  ASSUME FInv, FInv', DInv, Next, OpenApply
  PROVE  DInv' /\ Kept
<1>1. /\ Phases /\ ManifestInv /\ ManifestTypes /\ LogTypes /\ VerTypes
      /\ LogsInv /\ MemInv /\ WorkInv /\ ClosedInv /\ AckedInv
  BY Zenon DEF FInv, TInv, DInv, FileTypes, StateTypes
<1>2. /\ up = "recovering" /\ up' = "opening" /\ rc.todo = {} /\ logNum' = vs.next
      /\ logs' = With(logs, vs.next, [recs |-> <<>>, synced |-> 0])
      /\ UNCHANGED <<tables, current, mem, imm, hasImm, fl, cp, acked, cur>>
      /\ \E e : manifests' = With(manifests, vs.man, e)
      /\ \E v : BeginApply("open", rc.add, {}, vs.next, v)
  BY Zenon DEF OpenApply, hist
<1>3. /\ ap'.kind = "open" /\ ap'.pc = "append"
      /\ ap'.edit.add = rc.add /\ ap'.edit.log = logNum'
  BY <1>2, BeginApplyStarts, Zenon
<1>4. Manifest' = Manifest
  <2>1. current # vs.man
    BY <1>1, <1>2 DEF ManifestInv, VerTypes
  <2> QED
    BY <1>2, <2>1, ManifestUntouched, Zenon DEF With
<1>5. /\ \A l \in DOMAIN logs : l \in Nat /\ l < vs.next
      /\ vs.next \in Nat
  BY <1>1, <1>2 DEF LogsInv, LogTypes, VerTypes
<1>6. /\ DOMAIN logs' = DOMAIN logs \cup {vs.next}
      /\ \A l \in DOMAIN logs : logs'[l] = logs[l]
      /\ logs'[vs.next].recs = <<>> /\ logs'[vs.next].synced = 0
  BY <1>2, <1>5 DEF With
<1>7. \A w : ~InLog(w, logNum)'
  <2>1. Len(logs'[logNum'].recs) = 0
    BY <1>2, <1>6, Zenon
  <2> QED
    BY <2>1 DEF InLog
<1>8. Kept
  <2> SUFFICES ASSUME NEW n \in ManifestLengths, NEW w
               PROVE  /\ Logged(w, V(n).log)' <=> Logged(w, V(n).log)
                      /\ LoggedSynced(w, V(n).log) => LoggedSynced(w, V(n).log)'
    BY <1>4, KeptIf, Zenon
  <2>1. V(n)' = V(n)
    BY <1>4, SameFiles, Zenon
  <2>2. Len(logs'[vs.next].recs) = 0
    BY <1>6, Zenon
  <2> QED
    BY <1>6, <2>1, <2>2 DEF Logged, LoggedSynced, LogsFrom, InLog, InSynced
<1>9. LogsInv'
  <2>1. \A l \in DOMAIN logs' : \A i \in 1..Len(logs'[l].recs) : logs'[l].recs[i].ok
    <3>1. Len(logs'[vs.next].recs) = 0
      BY <1>6, Zenon
    <3> QED
      BY <1>1, <1>6, <3>1 DEF LogsInv
  <2>2. \A l \in DOMAIN logs' : l <= logNum'
    BY <1>2, <1>5, <1>6
  <2> QED
    BY <1>2, <2>1, <2>2, Zenon DEF LogsInv
<1>10. fl.pc = "idle" /\ cp.inputs = {}
  BY <1>1, <1>2, Zenon DEF Phases
<1>11. MemInv' /\ OpenInv' /\ WorkInv'
  BY <1>1, <1>2, <1>3, <1>10, Zenon DEF MemInv, OpenInv, WorkInv
<1>12. ClosedInv'
  <2>1. Manifest'.synced = Len(Manifest'.edits)
    BY <1>1, <1>2, <1>4, Zenon DEF ClosedInv
  <2>2. \A w : InData(w) <=> InFiles(w, cur) \/ InFiles(w, rc.add)
    BY <1>1, <1>2, Zenon DEF ClosedInv, InData, FoundAll
  <2>3. \A w : /\ InFiles(w, cur)' <=> InFiles(w, cur)
               /\ InFiles(w, ap.edit.add)' <=> InFiles(w, rc.add)
    BY <1>2, <1>3, Zenon DEF InFiles
  <2>4. \A w : InData(w)' <=> InFiles(w, cur)' \/ InFiles(w, ap.edit.add)'
    BY <1>8, <2>2, <2>3, Zenon DEF Kept
  <2> QED
    BY <1>2, <1>3, <1>7, <2>1, <2>4, Zenon DEF ClosedInv
<1>13. AckedInv'
  BY <1>1, <1>2, <1>8, Zenon DEF AckedInv, Kept
<1> QED
  BY <1>8, <1>9, <1>11, <1>12, <1>13, Zenon DEF DInv

(* DB::Open fails.                                                         *)
LEMMA GiveUpData ==
  ASSUME FInv, FInv', DInv, Next, OpenFail \/ OpenGiveUp
  PROVE  DInv' /\ Kept
<1>1. /\ Phases /\ ManifestInv /\ LogsInv /\ ClosedInv /\ AckedInv
  BY Zenon DEF FInv, TInv, DInv
<1>2. /\ Reset /\ UNCHANGED <<logs, tables, current, acked>> /\ up # "open"
  BY <1>1, Zenon DEF OpenFail, OpenGiveUp, disk, hist, Phases
<1>3. Manifest' = Manifest
  <2>1. CASE OpenGiveUp
    BY <2>1, ManifestUntouched, Zenon DEF OpenGiveUp, disk
  <2>2. CASE OpenFail
    <3>1. current # vs.man
      BY <1>1, <2>2, Zenon DEF OpenFail, ApplyCanFail, Phases, ManifestInv
    <3> QED
      BY <1>2, <2>2, <3>1, ManifestUntouched, Zenon DEF OpenFail, Restrict
  <2> QED
    BY <2>1, <2>2, Zenon
<1>4. Kept
  BY <1>2, <1>3, LogsUnchanged, Zenon
<1>5. /\ up' = "down" /\ mem' = {} /\ imm' = {} /\ fl'.pc = "idle" /\ cp'.inputs = {}
      /\ ap'.pc = "idle" /\ ap'.kind = "none"
  BY <1>2, Zenon DEF Reset, NoFl, NoCp, NoAp
<1>6. LogsInv'
  BY <1>1, <1>2, <1>5, Zenon DEF LogsInv
<1>7. MemInv' /\ OpenInv' /\ WorkInv'
  BY <1>5, Zenon DEF MemInv, OpenInv, WorkInv
<1>8. ClosedInv'
  BY <1>1, <1>2, <1>3, <1>5, Zenon DEF ClosedInv
<1>9. AckedInv'
  BY <1>1, <1>2, <1>4, <1>5, Zenon DEF AckedInv, Kept
<1> QED
  BY <1>4, <1>6, <1>7, <1>8, <1>9, Zenon DEF DInv

----------------------------------------------------------------------------
(* The specification's Data and Safe.                                      *)

DataMeans == \A w : w \in Data <=> InData(w)
SafeMeans == \A w : w \in Safe <=> InSafe(w)

LEMMA Meanings == FInv /\ LogsInv => DataMeans /\ SafeMeans
<1> SUFFICES ASSUME FInv, LogsInv PROVE DataMeans /\ SafeMeans
  BY Zenon
<1>1. ManifestTypes /\ LogTypes /\ TablesInv
  BY Zenon DEF FInv, TInv, FileTypes
<1>2. ASSUME NEW l \in DOMAIN logs
      PROVE  \A w : /\ w \in Readable(logs[l].recs, Len(logs[l].recs)) <=> InLog(w, l)
                    /\ w \in Readable(logs[l].recs, logs[l].synced) <=> InSynced(w, l)
  <2>1. Len(logs[l].recs) \in Nat /\ logs[l].synced \in Nat
        /\ logs[l].synced <= Len(logs[l].recs)
    BY <1>1 DEF LogTypes
  <2>2. /\ \A i \in 1..Len(logs[l].recs) : \A k \in 1..i : logs[l].recs[k].ok
        /\ \A i \in 1..logs[l].synced : \A k \in 1..i : logs[l].recs[k].ok
    BY <2>1 DEF LogsInv
  <2> QED
    BY <2>2, Zenon DEF Readable, InLog, InSynced
<1>3. ASSUME NEW n \in ManifestLengths
      PROVE  \A w : /\ w \in Found(n, AllRecords) <=> FoundAll(w, n)
                    /\ w \in Found(n, SyncedRecords) <=> FoundSynced(w, n)
  <2>1. \A f \in V(n).files : f \in DOMAIN tables
    BY <1>1, Zenon DEF TablesInv, Recorded
  <2>2. \A w : /\ w \in Found(n, AllRecords) <=>
                    \/ \E f \in V(n).files \cap DOMAIN tables : w \in tables[f].data
                    \/ \E l \in DOMAIN logs : /\ l >= V(n).log
                                              /\ w \in Readable(logs[l].recs, Len(logs[l].recs))
               /\ w \in Found(n, SyncedRecords) <=>
                    \/ \E f \in V(n).files \cap DOMAIN tables : w \in tables[f].data
                    \/ \E l \in DOMAIN logs : /\ l >= V(n).log
                                              /\ w \in Readable(logs[l].recs, logs[l].synced)
    BY DEF Found, Content, AllRecords, SyncedRecords, V
  <2> QED
    BY <1>2, <2>1, <2>2, Zenon DEF FoundAll, FoundSynced, InFiles, Logged,
       LoggedSynced, LogsFrom
<1>4. Len(Manifest.edits) \in ManifestLengths
  BY <1>1, ManifestTyped, Zenon
<1>5. DataMeans
  BY <1>3, <1>4, Zenon DEF DataMeans, Data, InData
<1>6. \A w : w \in Safe <=> \A n \in ManifestLengths : w \in Found(n, SyncedRecords)
  BY <1>4 DEF Safe
<1>7. SafeMeans
  BY <1>3, <1>6, Zenon DEF SafeMeans, InSafe
<1> QED
  BY <1>5, <1>7, Zenon

LEMMA MeaningsAfter == FInv' /\ LogsInv' => DataMeans' /\ SafeMeans'
BY Meanings, PTL

----------------------------------------------------------------------------
(* A crash leaves what is safe, and nothing that was not there.            *)

Lost == \A w : /\ InSafe(w) => InData(w)'
               /\ InData(w)' => InData(w)
               /\ InSafe(w)' <=> InData(w)'

(* Of a log, the synced records are left and perhaps more of them.         *)
LEMMA CrashLogs ==
  ASSUME FInv, LogsInv, Crash
  PROVE  /\ DOMAIN logs' = DOMAIN logs
         /\ \A l \in DOMAIN logs :
              /\ \A w : /\ InSynced(w, l) => InLog(w, l)'
                        /\ InLog(w, l)' => InLog(w, l)
                        /\ InSynced(w, l)' <=> InLog(w, l)'
              /\ \A i \in 1..Len(logs'[l].recs) : logs'[l].recs[i].ok
<1>1. LogTypes
  BY Zenon DEF FInv, TInv, FileTypes
<1>2. PICK keep \in [DOMAIN logs -> 0..MaxWrites] :
        /\ \A l \in DOMAIN logs : keep[l] \in logs[l].synced..Len(logs[l].recs)
        /\ logs' = [l \in DOMAIN logs |-> [recs |-> SubSeq(logs[l].recs, 1, keep[l]),
                                           synced |-> keep[l]]]
  BY Zenon DEF Crash
<1>3. DOMAIN logs' = DOMAIN logs
  BY <1>2, Zenon
<1>4. ASSUME NEW l \in DOMAIN logs
      PROVE  /\ \A w : /\ InSynced(w, l) => InLog(w, l)'
                       /\ InLog(w, l)' => InLog(w, l)
                       /\ InSynced(w, l)' <=> InLog(w, l)'
             /\ \A i \in 1..Len(logs'[l].recs) : logs'[l].recs[i].ok
  <2>1. PICK r, k, s : r = logs[l].recs /\ k = keep[l] /\ s = logs[l].synced
    BY Zenon
  <2>2. /\ r \in Seq(Records) /\ s \in Nat /\ Len(r) \in Nat
        /\ k \in Nat /\ s <= k /\ k <= Len(r)
    BY <1>1, <1>2, <2>1 DEF LogTypes
  <2>3. PICK q : q = SubSeq(r, 1, k)
    BY Zenon
  <2>4. Len(q) = k /\ \A i \in 1..k : q[i] = r[i]
    BY <2>2, <2>3
  <2>5. logs'[l].recs = q /\ logs'[l].synced = k
    BY <1>2, <2>1, <2>3, Zenon
  <2>6. \A w : /\ InLog(w, l) <=> \E i \in 1..Len(r) : r[i].w = w
               /\ InSynced(w, l) <=> \E i \in 1..s : r[i].w = w
    BY <2>1, Zenon DEF InLog, InSynced
  <2>7. \A w : /\ InLog(w, l)' <=> \E i \in 1..k : r[i].w = w
               /\ InSynced(w, l)' <=> \E i \in 1..k : r[i].w = w
    BY <2>4, <2>5, Zenon DEF InLog, InSynced
  <2>8. \A i \in 1..s : i \in 1..k
    BY <2>2
  <2>9. \A i \in 1..k : i \in 1..Len(r)
    BY <2>2
  <2>10. \A i \in 1..Len(logs'[l].recs) : logs'[l].recs[i].ok
    BY <2>1, <2>4, <2>5, <2>9, Zenon DEF LogsInv
  <2> QED
    BY <2>6, <2>7, <2>8, <2>9, <2>10, Zenon
<1> QED
  BY <1>3, <1>4, Zenon

LEMMA CrashData ==
  ASSUME FInv, FInv', Good, DInv, Next, "torn" \notin Faults, Crash
  PROVE  DInv' /\ Lost
<1>0. UNCHANGED <<tables, current>> /\ DOMAIN manifests' = DOMAIN manifests
  BY Zenon DEF Crash
<1>1. /\ ManifestInv /\ ManifestTypes /\ LogTypes
      /\ LogsInv /\ MemInv /\ OpenInv /\ ClosedInv /\ AckedInv
  BY Zenon DEF FInv, TInv, DInv, FileTypes
<1>2. PICK E, L : E = Manifest.edits /\ L = Len(E)
  BY Zenon
<1>3. E \in Seq(Edits) /\ L \in Nat /\ ManifestLengths \subseteq 0..L /\ L \in ManifestLengths
  BY <1>1, <1>2, ManifestTyped, Zenon
<1>4. PICK n \in ManifestLengths :
        Manifest'.edits = SubSeq(E, 1, n) /\ Manifest'.synced = Len(SubSeq(E, 1, n))
  <2>1. current \in DOMAIN manifests
    BY <1>1, Zenon DEF Good, ManifestInv
  <2>2. PICK n \in ManifestLengths :
          \E tail \in Tails(E, n) :
            manifests'[current] = [edits |-> tail, synced |-> Len(tail)]
    BY <1>2, <2>1, Zenon DEF Crash
  <2>3. PICK F : F = SubSeq(E, 1, n)
    BY Zenon
  <2>4. manifests'[current] = [edits |-> F, synced |-> Len(F)]
    BY <2>2, <2>3, Zenon DEF Tails
  <2>5. Manifest'.edits = F /\ Manifest'.synced = Len(F)
    BY <1>0, <2>1, <2>4 DEF Manifest
  <2> QED
    BY <2>3, <2>5, Zenon
<1>5. n \in Nat /\ n <= L
  BY <1>3, <1>4
<1>6. /\ Len(Manifest.edits)' = n /\ Manifest'.synced = n /\ V(n)' = V(n)
      /\ \A m : m \in ManifestLengths' <=> m = n
  <2>1. PICK F : F = SubSeq(E, 1, n)
    BY Zenon
  <2>2. Len(F) = n /\ \A i \in 1..n : F[i] = E[i]
    BY <1>2, <1>3, <1>5, <2>1
  <2>3. Replay(F, n) = Replay(E, n)
    BY <1>5, <2>2, ReplaySame, Zenon
  <2>4. Manifest'.edits = F /\ Manifest'.synced = n
    BY <1>4, <2>1, <2>2, Zenon
  <2>5. V(n)' = V(n)
    BY <1>2, <2>3, <2>4, Zenon DEF V
  <2>6. ManifestLengths' = n..n
    BY <2>2, <2>4, Zenon DEF ManifestLengths
  <2> QED
    BY <1>5, <2>2, <2>4, <2>5, <2>6
<1>7. UNCHANGED tables /\ Reset /\ acked' = {a \in acked : a.sync \/ a.w \in Data'}
  BY Zenon DEF Crash
<1>8. \A w : InFiles(w, V(n).files)' <=> InFiles(w, V(n).files)
  BY <1>6, <1>7, Zenon DEF InFiles
<1>9. \A w : /\ LoggedSynced(w, V(n).log) => Logged(w, V(n).log)'
             /\ Logged(w, V(n).log)' => Logged(w, V(n).log)
             /\ LoggedSynced(w, V(n).log)' <=> Logged(w, V(n).log)'
  <2>1. PICK k : k = V(n).log
    BY Zenon
  <2>2. /\ \A w : LoggedSynced(w, V(n).log) <=> \E l \in DOMAIN logs : l >= k /\ InSynced(w, l)
        /\ \A w : Logged(w, V(n).log) <=> \E l \in DOMAIN logs : l >= k /\ InLog(w, l)
    BY <2>1, Zenon DEF Logged, LoggedSynced, LogsFrom
  <2>3. /\ \A w : LoggedSynced(w, V(n).log)' <=> \E l \in DOMAIN logs' : l >= k /\ InSynced(w, l)'
        /\ \A w : Logged(w, V(n).log)' <=> \E l \in DOMAIN logs' : l >= k /\ InLog(w, l)'
    BY <1>6, <2>1, Zenon DEF Logged, LoggedSynced, LogsFrom, InLog, InSynced
  <2> QED
    BY <1>1, <2>2, <2>3, CrashLogs, Zenon
<1>10. \A w : /\ FoundSynced(w, n) => FoundAll(w, n)'
              /\ FoundAll(w, n)' => FoundAll(w, n)
              /\ FoundSynced(w, n)' <=> FoundAll(w, n)'
  BY <1>8, <1>9, Zenon DEF FoundAll, FoundSynced
<1>11. \A w : /\ InData(w)' <=> FoundAll(w, n)'
              /\ InSafe(w)' <=> FoundSynced(w, n)'
              /\ InSafe(w) => FoundSynced(w, n)
  BY <1>4, <1>6, Zenon DEF InData, InSafe
<1>12. \A w : FoundAll(w, n) => InData(w)
  <2>1. CASE up = "open"
    <3>1. OpenMeaning
      BY <1>1, OpenFound, Zenon
    <3>2. \A w : FoundAll(w, n) => FoundAll(w, L)
      BY <1>1, <1>3, <1>4, <2>1, <3>1, Zenon DEF OpenMeaning, OpenInv
    <3> QED
      BY <1>2, <3>2, Zenon DEF InData
  <2>2. CASE up # "open"
    <3>1. Manifest.synced = L
      BY <1>1, <1>2, <2>2, Zenon DEF ClosedInv
    <3>2. n = L
      BY <1>2, <1>3, <1>4, <1>5, <3>1 DEF ManifestLengths
    <3> QED
      BY <1>2, <3>2, Zenon DEF InData
  <2> QED
    BY <2>1, <2>2, Zenon
<1>13. Lost
  BY <1>10, <1>11, <1>12, Zenon DEF Lost
<1>14. /\ up' = "down" /\ mem' = {} /\ imm' = {} /\ fl'.pc = "idle" /\ cp'.inputs = {}
       /\ ap'.pc = "idle" /\ ap'.kind = "none"
  BY <1>7, Zenon DEF Reset, NoFl, NoCp, NoAp
<1>15. LogsInv'
  BY <1>1, <1>14, CrashLogs, Zenon DEF LogsInv
<1>16. MemInv' /\ OpenInv' /\ WorkInv'
  BY <1>14, Zenon DEF MemInv, OpenInv, WorkInv
<1>17. ClosedInv'
  BY <1>6, <1>14, Zenon DEF ClosedInv
<1>18. AckedInv'
  <2>1. DataMeans'
    BY <1>15, MeaningsAfter, Zenon
  <2>2. \A a \in acked' : InData(a.w)'
    <3>1. \A a \in acked : a.sync => InData(a.w)'
      BY <1>1, <1>13, Zenon DEF AckedInv, Lost
    <3>2. \A w : w \in Data' => InData(w)'
      BY <2>1, Zenon DEF DataMeans
    <3> QED
      BY <1>7, <3>1, <3>2, Zenon
  <2> QED
    BY <1>13, <1>14, <2>2, Zenon DEF AckedInv, Lost
<1> QED
  BY <1>13, <1>15, <1>16, <1>17, <1>18, Zenon DEF DInv

----------------------------------------------------------------------------
(* Every step keeps the invariant.  Only AddRecord adds to what a restart  *)
(* finds, and only a crash takes anything away.                            *)
LEMMA DataStep ==
  ASSUME NoLoss, FInv, FInv', Good, DInv, Next
  PROVE  /\ DInv'
         /\ \/ AddRecord \/ Insert \/ Crash
            \/ Kept /\ UNCHANGED <<acked, crashes>>
<1>1. Created /\ "append" \notin Faults /\ "torn" \notin Faults /\ "recover" \notin Faults
  BY Zenon DEF NoLoss
<1>2. CASE AddRecord
  BY <1>1, <1>2, AddRecordData, Zenon
<1>3. CASE Insert
  BY <1>3, InsertData, Zenon
<1>4. CASE Crash
  BY <1>1, <1>4, CrashData, Zenon
<1>5. CASE SwitchLog \/ SyncLog
  <2>1. DInv' /\ Kept
    BY <1>5, SwitchLogData, SyncLogData, Zenon
  <2>2. UNCHANGED <<acked, crashes>>
    BY <1>5, Zenon DEF SwitchLog, SyncLog, hist
  <2> QED
    BY <2>1, <2>2, Zenon
<1>6. CASE BeginWrite \/ \E r \in Readers : Pin(r) \/ Unpin(r)
  <2>1. DInv' /\ Kept
    BY <1>6, CalmData, Zenon
  <2>2. UNCHANGED <<acked, crashes>>
    BY <1>6, Zenon DEF BeginWrite, Pin, Unpin, hist
  <2> QED
    BY <2>1, <2>2, Zenon
<1>7. CASE ApplyAppend \/ ApplySync \/ ApplyCurrent
  <2>1. DInv' /\ Kept
    BY <1>7, ApplyAppendData, ApplySyncData, ApplyCurrentData, Zenon
  <2>2. UNCHANGED <<acked, crashes>>
    BY <1>7, Zenon DEF ApplyAppend, ApplySync, ApplyCurrent, hist
  <2> QED
    BY <2>1, <2>2, Zenon
<1>8. CASE FlushInstall \/ CompactInstall \/ MoveInstall \/ OpenInstall
  <2>1. DInv' /\ Kept
    BY <1>8, InstallsData, OpenInstallData, Zenon
  <2>2. UNCHANGED <<acked, crashes>>
    BY <1>8, Zenon DEF FlushInstall, CompactInstall, MoveInstall, OpenInstall, hist
  <2> QED
    BY <2>1, <2>2, Zenon
<1>9. CASE FlushFail \/ CompactFail \/ OpenFail \/ OpenGiveUp
  <2>1. DInv' /\ Kept
    BY <1>1, <1>9, ApplyFailData, GiveUpData, Zenon
  <2>2. UNCHANGED <<acked, crashes>>
    BY <1>9, Zenon DEF FlushFail, CompactFail, OpenFail, OpenGiveUp, hist
  <2> QED
    BY <2>1, <2>2, Zenon
<1>10. CASE FlushStart \/ FlushBuilt \/ CompactStart \/ CompactOpenOutput \/ CompactFinish
  <2>1. DInv' /\ Kept
    BY <1>10, AllocateData, FlushBuiltData, CompactData, Zenon
  <2>2. UNCHANGED <<acked, crashes>>
    BY <1>10, Zenon DEF FlushStart, FlushBuilt, CompactStart, CompactOpenOutput,
       CompactFinish, hist
  <2> QED
    BY <2>1, <2>2, Zenon
<1>11. CASE OpenRecover \/ RecoverLogFile \/ OpenApply
  <2>1. DInv' /\ Kept
    BY <1>1, <1>11, OpenRecoverData, RecoverLogFileData, OpenApplyData, Zenon
  <2>2. UNCHANGED <<acked, crashes>>
    BY <1>11, Zenon DEF OpenRecover, RecoverLogFile, OpenApply, hist
  <2> QED
    BY <2>1, <2>2, Zenon
<1>12. CASE NewDB \/ NewDBCurrent
  BY <1>12, Zenon DEF NewDB, NewDBCurrent, Good, FInv, ManifestInv
<1> QED
  BY <1>2, <1>3, <1>4, <1>5, <1>6, <1>7, <1>8, <1>9, <1>10, <1>11, <1>12, Zenon
     DEF Next

LEMMA DataInit ==
  ASSUME Init
  PROVE  DInv
<1>1. /\ DOMAIN logs = {} /\ up = "down" /\ mem = {} /\ imm = {} /\ acked = {}
      /\ fl.pc = "idle" /\ cp.inputs = {} /\ ap.kind = "none"
  BY Zenon DEF Init, NoFiles, NoFl, NoCp, NoAp
<1>2. Manifest.synced = Len(Manifest.edits)
  <2>1. CASE Created
    <3>1. current = 1 /\ manifests = [m \in {1} |-> [edits |-> <<FirstEdit>>, synced |-> 1]]
      BY <2>1, Zenon DEF Init
    <3>2. Manifest = [edits |-> <<FirstEdit>>, synced |-> 1]
      BY <3>1, Zenon DEF Manifest
    <3> QED
      BY <3>2, Zenon
  <2>2. CASE ~Created
    <3>1. DOMAIN manifests = {}
      BY <2>2, Zenon DEF Init, NoFiles
    <3>2. Manifest = [edits |-> <<>>, synced |-> 0]
      BY <3>1, Zenon DEF Manifest
    <3> QED
      BY <3>2, Zenon
  <2> QED
    BY <2>1, <2>2, Zenon
<1> QED
  BY <1>1, <1>2, Zenon
     DEF DInv, LogsInv, MemInv, WorkInv, OpenInv, ClosedInv, AckedInv

LEMMA DataStutter ==
  ASSUME DInv, UNCHANGED vars
  PROVE  DInv'
<1>1. UNCHANGED <<logs, tables, manifests, current, vs, cur, pins, pending, mem, imm, hasImm,
                  logNum, up, bgError, wr, fl, cp, ap, rc, acked>>
  BY Zenon DEF vars, disk, memVars, verVars, procVars, hist
<1>2. Manifest' = Manifest
  BY <1>1, Zenon DEF Manifest
<1>3. LogsInv'
  BY <1>1, Zenon DEF DInv, LogsInv
<1>4. MemInv'
  BY <1>1, ZenonT(30) DEF DInv, MemInv, LogsFrom, InLog, InSynced
<1>5. WorkInv'
  BY <1>1, Zenon DEF DInv, WorkInv, InFiles
<1>6. OpenInv'
  BY <1>1, <1>2 DEF DInv, OpenInv, ManifestLengths, V, InFiles
<1>7. ClosedInv'
  <2>1. ASSUME up = "opening"
        PROVE  /\ ap'.edit.log = logNum' /\ \A w : ~InLog(w, logNum)'
               /\ \A w : InData(w)' <=> InFiles(w, cur)' \/ InFiles(w, ap.edit.add)'
    <3>1. \A w : (InLog(w, logNum)' <=> InLog(w, logNum)) /\ (InData(w)' <=> InData(w))
      BY <1>1, <1>2, Zenon DEF InData, FoundAll, V, InFiles, Logged, LogsFrom, InLog
    <3>2. \A w : (InFiles(w, cur)' <=> InFiles(w, cur))
                 /\ (InFiles(w, ap.edit.add)' <=> InFiles(w, ap.edit.add))
      BY <1>1, Zenon DEF InFiles
    <3> QED
      BY <1>1, <2>1, <3>1, <3>2, Zenon DEF DInv, ClosedInv
  <2>2. ASSUME up = "recovering"
        PROVE  /\ cur' = V(Len(Manifest.edits))'.files
               /\ \A w : Logged(w, V(Len(Manifest.edits)).log)' <=>
                         (InFiles(w, rc.add)' \/ \E l \in rc'.todo : InLog(w, l)')
    <3>1. V(Len(Manifest.edits))' = V(Len(Manifest.edits))
      BY <1>2, Zenon DEF V
    <3>2. \A w : Logged(w, V(Len(Manifest.edits)).log)' <=> Logged(w, V(Len(Manifest.edits)).log)
      BY <1>1, <3>1, Zenon DEF Logged, LogsFrom, InLog
    <3>3. \A w : /\ InFiles(w, rc.add)' <=> InFiles(w, rc.add)
                 /\ (\E l \in rc'.todo : InLog(w, l)') <=> \E l \in rc.todo : InLog(w, l)
      BY <1>1, Zenon DEF InFiles, InLog
    <3>4. /\ cur = V(Len(Manifest.edits)).files
          /\ \A w : Logged(w, V(Len(Manifest.edits)).log) <=>
                     (InFiles(w, rc.add) \/ \E l \in rc.todo : InLog(w, l))
      BY <2>2, Zenon DEF DInv, ClosedInv
    <3> QED
      BY <1>1, <3>1, <3>2, <3>3, <3>4, Zenon
  <2>3. up # "open" => Manifest'.synced = Len(Manifest'.edits)
    BY <1>2, Zenon DEF DInv, ClosedInv
  <2> QED
    BY <1>1, <2>1, <2>2, <2>3, Zenon DEF ClosedInv
<1>8. AckedInv'
  BY <1>1, <1>2 DEF DInv, AckedInv, Visible, InSafe, ManifestLengths, V,
     InFiles, InData, FoundAll,
                    FoundSynced, Logged, LoggedSynced, LogsFrom, InLog, InSynced
<1> QED
  BY <1>3, <1>4, <1>5, <1>6, <1>7, <1>8, Zenon DEF DInv

----------------------------------------------------------------------------
LEMMA DataInvariant ==
  ASSUME NoLoss
  PROVE  Spec => []DInv
<1>1. Created /\ "torn" \notin Faults
  BY Zenon DEF NoLoss
<1>2. Init => DInv
  BY DataInit, Zenon
<1>3. FInv /\ FInv' /\ Good /\ DInv /\ [Next]_vars => DInv'
  BY DataStep, DataStutter, Zenon
<1>4. Spec => []Good
  BY <1>1, GoodInvariant, Zenon
<1> QED
  BY <1>2, <1>3, <1>4, FilesInvariant, PTL DEF Spec

----------------------------------------------------------------------------
(* The properties.                                                         *)

(* What a reader of an open database sees is in the files.                 *)
LEMMA VisibleIsData ==
  ASSUME FInv, DInv, up = "open", NEW w, Visible(w) \/ InLog(w, logNum)
  PROVE  InData(w)
<1>1. OpenMeaning /\ MemInv /\ OpenInv
  BY OpenFound, Zenon DEF DInv
<1>2. PICK L : L = Len(Manifest.edits)
  BY Zenon
<1>3. L \in ManifestLengths
  BY <1>2, ManifestTyped, Zenon DEF FInv, TInv, FileTypes
<1>4. FoundAll(w, L) <=> InFiles(w, V(L).files) \/ w \in imm \/ InLog(w, logNum)
  BY <1>1, <1>3, Zenon DEF OpenMeaning
<1>5. InFiles(w, cur) => InFiles(w, V(L).files)
  BY <1>1, <1>3, Zenon DEF OpenInv
<1>6. w \in mem => InLog(w, logNum)
  BY <1>1, Zenon DEF MemInv
<1> QED
  BY <1>2, <1>4, <1>5, <1>6, Zenon DEF InData, Visible

LEMMA ViewIsVisible ==
  ASSUME FInv, NEW w
  PROVE  w \in View <=> Visible(w)
<1>1. \A f \in cur : f \in DOMAIN tables
  BY Zenon DEF FInv, TablesInv, InUse
<1> QED
  BY <1>1, Zenon DEF View, Visible, InFiles

(* DBImpl::Write with sync set: once it has returned OK, every recovery    *)
(* finds the write, whatever a crash leaves of the unsynced files, at      *)
(* every moment of later flushes, compactions, deletions of obsolete files *)
(* and recoveries.  A recovery may crash half-way or fail to write the     *)
(* MANIFEST; one that fails to build a table is excluded (NoLoss).         *)
THEOREM SyncedWritesSurvive ==
  ASSUME NoLoss
  PROVE  Spec => []SyncedSurvives
<1>1. FInv /\ DInv => SyncedSurvives
  <2> SUFFICES ASSUME FInv, DInv, NEW a \in acked, a.sync
               PROVE  a.w \in Safe
    BY Zenon DEF SyncedSurvives
  <2>1. SafeMeans
    BY Meanings, Zenon DEF DInv
  <2>2. InSafe(a.w)
    BY Zenon DEF DInv, AckedInv
  <2> QED
    BY <2>1, <2>2, Zenon DEF SafeMeans
<1> QED
  BY <1>1, DataInvariant, FilesInvariant, PTL

(* What DBImpl::Get can find, in the memtables or in the tables of the     *)
(* current version, is found by a recovery when only the process stops.    *)
THEOREM ReadsAreRecoverable ==
  ASSUME NoLoss
  PROVE  Spec => []VisibleIsRecoverable
<1>1. FInv /\ DInv => VisibleIsRecoverable
  <2> SUFFICES ASSUME FInv, DInv, up = "open", NEW w \in View
               PROVE  w \in Data
    BY Zenon DEF VisibleIsRecoverable
  <2>1. DataMeans
    BY Meanings, Zenon DEF DInv
  <2>2. InData(w)
    BY VisibleIsData, ViewIsVisible, Zenon
  <2> QED
    BY <2>1, <2>2, Zenon DEF DataMeans
<1> QED
  BY <1>1, DataInvariant, FilesInvariant, PTL

(* A write that has returned OK and was not lost in a crash is seen by     *)
(* DBImpl::Get, before and after a restart: the switch of memtables, the   *)
(* installation of versions and DBImpl::Recover hide none.                 *)
THEOREM AckedIsRead ==
  ASSUME NoLoss
  PROVE  Spec => []ReadsSeeAcked
<1>1. FInv /\ DInv => ReadsSeeAcked
  <2> SUFFICES ASSUME FInv, DInv, up = "open", NEW a \in acked
               PROVE  a.w \in View
    BY Zenon DEF ReadsSeeAcked
  <2>1. Visible(a.w)
    BY Zenon DEF DInv, AckedInv
  <2> QED
    BY <2>1, ViewIsVisible, Zenon
<1> QED
  BY <1>1, DataInvariant, FilesInvariant, PTL

----------------------------------------------------------------------------
(* The abstract store.                                                     *)

(* The write in progress is one of those that the bounds allow.            *)
Bounded ==
  /\ issued <= MaxWrites
  /\ wr.pc # "idle" => wr.w \in [id : 1..MaxWrites, seq : 1..MaxWrites]

LEMMA BoundedStep ==
  ASSUME FInv, Bounded, Next
  PROVE  Bounded'
<1>1. /\ issued \in Nat /\ vs.last \in Nat /\ vs.last <= issued /\ MaxWrites \in Nat
      /\ wr \in [pc : {"idle", "append", "sync", "insert"}, w : Writes, sync : BOOLEAN]
  BY BoundAssumption, Zenon
     DEF FInv, TInv, StateTypes, HistTypes, VerTypes, SeqBound,
     ProcTypes
<1>2. CASE BeginWrite
  <2>1. issued < MaxWrites /\ issued' = issued + 1
    BY <1>2, Zenon DEF BeginWrite
  <2>2. wr'.w = [id |-> issued + 1, seq |-> vs.last + 1]
    BY <1>2 DEF BeginWrite
  <2>3. issued + 1 \in 1..MaxWrites /\ vs.last + 1 \in 1..MaxWrites
    BY <1>1, <2>1
  <2> QED
    BY <1>1, <2>1, <2>2, <2>3 DEF Bounded
<1>3. ASSUME UNCHANGED issued, wr' = wr \/ wr'.pc = "idle" \/ (wr.pc # "idle" /\ wr'.w = wr.w)
      PROVE  Bounded'
  BY <1>3, Zenon DEF Bounded
<1>4. CASE AddRecord \/ SyncLog \/ Insert
  <2>1. UNCHANGED issued
    BY <1>4, Zenon DEF AddRecord, SyncLog, Insert, hist
  <2>2. wr.pc # "idle" /\ (wr'.w = wr.w \/ wr' = NoWr)
    BY <1>1, <1>4, Zenon DEF AddRecord, SyncLog, Insert, EndWrite
  <2> QED
    BY <1>3, <2>1, <2>2 DEF NoWr
<1>5. CASE OpenFail \/ OpenGiveUp \/ Crash
  <2>1. UNCHANGED issued /\ wr' = NoWr
    BY <1>5, Zenon DEF OpenFail, OpenGiveUp, Crash, Reset, hist
  <2> QED
    BY <1>3, <2>1, Zenon DEF NoWr
<1>6. CASE \/ SwitchLog \/ ApplyAppend \/ ApplySync \/ ApplyCurrent
           \/ FlushInstall \/ CompactInstall \/ MoveInstall \/ OpenInstall
           \/ FlushFail \/ CompactFail
           \/ FlushStart \/ FlushBuilt \/ CompactStart \/ CompactOpenOutput \/ CompactFinish
           \/ NewDB \/ NewDBCurrent \/ OpenRecover \/ RecoverLogFile \/ OpenApply
           \/ \E r \in Readers : Pin(r) \/ Unpin(r)
  <2>1. UNCHANGED <<issued, wr>>
    BY <1>6, Zenon
       DEF SwitchLog, ApplyAppend, ApplySync, ApplyCurrent, FlushInstall,
       CompactInstall,
                MoveInstall, OpenInstall, FlushFail, CompactFail, FlushStart,
                FlushBuilt,
                CompactStart, CompactOpenOutput, CompactFinish, NewDB, NewDBCurrent,
                OpenRecover,
                RecoverLogFile, OpenApply, Pin, Unpin, procVars, hist
  <2> QED
    BY <1>3, <2>1, Zenon
<1> QED
  BY <1>2, <1>4, <1>5, <1>6, Zenon DEF Next

SafeInData == \A w : InSafe(w) => InData(w)
LEMMA SafeInDataHolds == FInv => SafeInData
BY SafeIsData, Zenon DEF SafeInData
LEMMA SafeInDataAfter == FInv' => SafeInData'
BY SafeInDataHolds, PTL

LEMMA StoreInit ==
  ASSUME Init, FInv, DInv
  PROVE  Store!Init
<1>1. DataMeans /\ SafeMeans /\ SafeInData
  BY Meanings, SafeInDataHolds, Zenon DEF DInv
<1>2. DOMAIN logs = {} /\ DOMAIN tables = {} /\ acked = {} /\ crashes = 0
  BY Zenon DEF Init, NoFiles
<1>3. \A w : ~InData(w)
  <2>1. Len(Manifest.edits) \in ManifestLengths
    BY ManifestTyped, Zenon DEF FInv, TInv, FileTypes
  <2>2. V(Len(Manifest.edits)).files = {}
    BY <1>2, <2>1, Zenon DEF FInv, TablesInv, Recorded
  <2> QED
    BY <1>2, <2>2, Zenon DEF InData, FoundAll, InFiles, Logged, LogsFrom
<1>4. Data = {} /\ Safe = {}
  BY <1>1, <1>3, Zenon DEF DataMeans, SafeMeans, SafeInData
<1> QED
  BY <1>2, <1>4, Zenon DEF Store!Init

(* A step of the database is a step of the store, or changes none of what  *)
(* the store has: AddRecord commits, Insert acknowledges.                  *)
LEMMA StoreStep ==
  ASSUME NoLoss, FInv, FInv', Good, DInv, Bounded, Next
  PROVE  Store!Next
<1>1. DInv' /\ (AddRecord \/ Insert \/ Crash \/ (Kept /\ UNCHANGED <<acked, crashes>>))
  BY DataStep, Zenon
<1>2. DataMeans /\ SafeMeans /\ SafeInData
  BY Meanings, SafeInDataHolds, Zenon DEF DInv
<1>3. DataMeans' /\ SafeMeans' /\ SafeInData'
  BY <1>1, MeaningsAfter, SafeInDataAfter, Zenon DEF DInv
<1>4. \A w : /\ w \in Data <=> InData(w)
             /\ w \in Safe <=> InSafe(w)
             /\ w \in Data' <=> InData(w)'
             /\ w \in Safe' <=> InSafe(w)'
  BY <1>2, <1>3, Zenon DEF DataMeans, SafeMeans
<1>5. Safe \subseteq Data /\ Safe' \subseteq Data'
  BY <1>2, <1>3, <1>4, Zenon DEF SafeInData
<1>6. CASE Kept /\ UNCHANGED <<acked, crashes>>
  <2>1. Data' = Data /\ Safe \subseteq Safe'
    BY <1>4, <1>6, Zenon DEF Kept
  <2> QED
    BY <1>5, <1>6, <2>1, Zenon DEF Store!Next, Store!Persist
<1>7. CASE AddRecord
  <2>1. \A w : /\ InData(w)' <=> InData(w) \/ w \in {wr.w}
               /\ InSafe(w) => InSafe(w)'
    BY <1>7, AddRecordData, Zenon DEF NoLoss
  <2>2. UNCHANGED <<acked, crashes>> /\ wr.pc # "idle"
    BY <1>7, Zenon DEF AddRecord, hist
  <2>3. Data' = Data \cup {wr.w} /\ Safe \subseteq Safe'
    BY <1>4, <2>1, Zenon
  <2>4. wr.w \in [id : 1..MaxWrites, seq : 1..MaxWrites]
    BY <2>2, Zenon DEF Bounded
  <2>5. CASE wr.w \in Data
    <3>1. Data' = Data
      BY <2>3, <2>5, Zenon
    <3> QED
      BY <1>5, <2>2, <2>3, <3>1, Zenon DEF Store!Next, Store!Persist
  <2>6. CASE wr.w \notin Data
    BY <1>5, <2>2, <2>3, <2>4, <2>6, Zenon DEF Store!Next, Store!Commit
  <2> QED
    BY <2>5, <2>6, Zenon
<1>8. CASE Insert
  <2>1. /\ UNCHANGED <<logs, tables, manifests, current, crashes>>
        /\ acked' = acked \cup {[w |-> wr.w, sync |-> wr.sync]}
        /\ wr.pc = "insert" /\ up = "open" /\ up' = up
    BY <1>8, Zenon DEF Insert, disk, FInv, TInv, Phases
  <2>2. Manifest' = Manifest
    BY <2>1, Zenon DEF Manifest
  <2>3. Data' = Data /\ Safe' = Safe
    BY <2>1, <2>2 DEF Data, Safe, Found, Content, AllRecords,
       SyncedRecords, ManifestLengths
  <2>4. PICK a : a = [w |-> wr.w, sync |-> wr.sync]
    BY Zenon
  <2>5. a.w \in Data
    <3>1. InLog(wr.w, logNum)
      BY <2>1, Zenon DEF DInv, MemInv
    <3>2. InData(wr.w)
      BY <2>1, <3>1, VisibleIsData, Zenon
    <3> QED
      BY <1>4, <2>4, <3>2, Zenon
  <2>6. a.sync => a.w \in Safe
    <3>1. a \in acked'
      BY <2>1, <2>4, Zenon
    <3>2. a.sync => InSafe(a.w)'
      BY <1>1, <3>1, Zenon DEF DInv, AckedInv
    <3> QED
      BY <1>4, <2>3, <3>2, Zenon
  <2>7. a \in [w : Data, sync : BOOLEAN]
    <3>1. wr.sync \in BOOLEAN
      BY Zenon DEF FInv, TInv, StateTypes, ProcTypes
    <3> QED
      BY <2>4, <2>5, <3>1, Zenon
  <2>8. acked' = acked \cup {a}
    BY <2>1, <2>4, Zenon
  <2> QED
    BY <2>1, <2>3, <2>6, <2>7, <2>8, Zenon DEF Store!Next, Store!Acknowledge
<1>9. CASE Crash
  <2>1. Lost
    BY <1>9, CrashData, Zenon DEF NoLoss
  <2>2. /\ Safe \subseteq Data' /\ Data' \subseteq Data /\ Safe' = Data' /\ Safe \subseteq Safe'
    BY <1>4, <2>1, Zenon DEF Lost
  <2>3. crashes' = crashes + 1 /\ acked' = {a \in acked : a.sync \/ a.w \in Data'}
    BY <1>9, Zenon DEF Crash
  <2>4. \A a \in acked : a.sync => a.w \in Data'
    BY <1>4, <2>2, Zenon DEF DInv, AckedInv
  <2>5. acked' = {a \in acked : a.w \in Data'}
    BY <2>3, <2>4, Zenon
  <2> QED
    BY <2>2, <2>3, <2>5, Zenon DEF Store!Next, Store!Crash
<1> QED
  BY <1>1, <1>6, <1>7, <1>8, <1>9, Zenon

(* LevelDB's logs, tables and MANIFESTs implement the durable store: a     *)
(* write takes effect at once when its record is in the log, is in the     *)
(* database when DBImpl::Write returns OK, safe if it was synced, and no   *)
(* flush, compaction, deletion of files or recovery takes it away.         *)
THEOREM ImplementsStore ==
  ASSUME NoLoss
  PROVE  Spec => StoreSpec
<1>1. Created /\ "torn" \notin Faults
  BY Zenon DEF NoLoss
<1>2. Init => Bounded
  BY BoundAssumption DEF Init, Bounded, NoWr
<1>3. FInv /\ Bounded /\ [Next]_vars => Bounded'
  <2>1. ASSUME Bounded, UNCHANGED vars PROVE Bounded'
    BY <2>1, Zenon DEF Bounded, vars, hist, procVars
  <2> QED
    BY <2>1, BoundedStep, Zenon
<1>4. Init /\ FInv /\ DInv => Store!Init
  BY StoreInit, Zenon
<1>5. FInv /\ FInv' /\ Good /\ DInv /\ Bounded /\ [Next]_vars => [Store!Next]_(Store!vars)
  <2>1. ASSUME UNCHANGED vars PROVE UNCHANGED Store!vars
    <3>1. UNCHANGED <<logs, tables, manifests, current, acked, crashes>>
      BY <2>1, Zenon DEF vars, disk, hist
    <3>2. Manifest' = Manifest
      BY <3>1, Zenon DEF Manifest
    <3>3. Data' = Data
      BY <3>1, <3>2 DEF Data, Found, Content, AllRecords
    <3>4. Safe' = Safe
      BY <3>1, <3>2 DEF Safe, Found, Content, SyncedRecords, ManifestLengths
    <3> QED
      BY <3>1, <3>3, <3>4, Zenon DEF Store!vars
  <2> QED
    BY <2>1, StoreStep, Zenon
<1>6. Spec => []Good
  BY <1>1, GoodInvariant, Zenon
<1> QED
  BY <1>2, <1>3, <1>4, <1>5, <1>6, DataInvariant, FilesInvariant, PTL
     DEF Spec, StoreSpec, Store!Spec

(* Inductive: the type says that what is safe is in the database.          *)
StoreInv == Store!TypeOK /\ Store!AckedKept

(* What every implementation of the durable store inherits from it.        *)
LEMMA StoreKeepsAcked == StoreSpec => []Store!AckedKept
<1>1. Store!Init => StoreInv
  BY DEF Store!Init, StoreInv, Store!TypeOK, Store!AckedKept
<1>2. StoreInv /\ [Store!Next]_(Store!vars) => StoreInv'
  <2> SUFFICES ASSUME StoreInv, [Store!Next]_(Store!vars) PROVE StoreInv'
    BY Zenon
  <2> USE DEF StoreInv, Store!TypeOK, Store!AckedKept
  <2>1. CASE Store!Commit
    BY <2>1, Zenon DEF Store!Commit
  <2>2. CASE Store!Persist
    BY <2>2, Zenon DEF Store!Persist
  <2>3. CASE Store!Acknowledge
    <3>1. PICK a \in [w : Data, sync : BOOLEAN] :
            /\ a.sync => a.w \in Safe
            /\ acked' = acked \cup {a}
      BY <2>3, Zenon DEF Store!Acknowledge
    <3>2. a \in [w : [id : 1..MaxWrites, seq : 1..MaxWrites], sync : BOOLEAN] /\ a.w \in Data
      BY <3>1, Zenon
    <3> QED
      BY <2>3, <3>1, <3>2, Zenon DEF Store!Acknowledge
  <2>4. CASE Store!Crash
    BY <2>4 DEF Store!Crash
  <2>5. CASE UNCHANGED Store!vars
    BY <2>5, Zenon DEF Store!vars
  <2> QED
    BY <2>1, <2>2, <2>3, <2>4, <2>5, Zenon DEF Store!Next
<1>3. StoreInv => Store!AckedKept
  BY Zenon DEF StoreInv
<1> QED
  BY <1>1, <1>2, <1>3, PTL DEF StoreSpec, Store!Spec

(* Between any two crashes, and through every crash if it was synced, a    *)
(* write that DBImpl::Write has returned OK for is in the logs and tables  *)
(* that the next recovery reads (include/leveldb/options.h,                *)
(* WriteOptions::sync).                                                    *)
THEOREM DatabaseKeepsAcked ==
  ASSUME NoLoss
  PROVE  Spec => []Store!AckedKept
BY ImplementsStore, StoreKeepsAcked, PTL

=============================================================================
