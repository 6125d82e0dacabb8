--------------------------- MODULE DBFilesProofs ---------------------------
(***************************************************************************)
(* Proofs about the files of a LevelDB database (module DBFiles): types,   *)
(* that no file in use is ever missing, and that the database can be       *)
(* opened after every crash.                                               *)
(***************************************************************************)
EXTENDS DBFilesCore

----------------------------------------------------------------------------
(* Sequence numbers, what can be under way together, and the logs.         *)

LEMMA SeqBoundStep ==
  ASSUME FInv, Next
  PROVE  SeqBound'
<1>1. /\ LogTypes /\ ManifestTypes /\ VerTypes /\ ProcTypes /\ ApplyTypes /\ HistTypes
      /\ SeqBound /\ Phases
  BY Zenon DEF FInv, TInv, FileTypes, StateTypes
<1>2. issued' \in Nat /\ issued <= issued' /\ issued \in Nat
  <2>1. issued \in Nat
    BY <1>1, Zenon DEF HistTypes
  <2>2. CASE BeginWrite
    BY <2>1, <2>2 DEF BeginWrite
  <2>3. CASE UNCHANGED issued
    BY <2>1, <2>3
  <2>4. CASE \/ SwitchLog \/ AddRecord \/ SyncLog \/ Insert \/ ApplyAppend \/ ApplySync
             \/ ApplyCurrent \/ FlushInstall \/ CompactInstall \/ MoveInstall
             \/ OpenInstall \/ FlushFail \/ CompactFail \/ OpenFail
    BY <2>1, <2>3, <2>4, Zenon
       DEF SwitchLog, AddRecord, SyncLog, Insert, ApplyAppend, ApplySync, ApplyCurrent,
           FlushInstall, CompactInstall, MoveInstall, OpenInstall, FlushFail, CompactFail,
           OpenFail, hist
  <2>5. CASE \/ FlushStart \/ FlushBuilt \/ CompactStart \/ CompactOpenOutput
             \/ CompactFinish \/ NewDB \/ NewDBCurrent \/ OpenRecover \/ RecoverLogFile
             \/ OpenGiveUp \/ OpenApply \/ Crash \/ \E r \in Readers : Pin(r) \/ Unpin(r)
    BY <2>1, <2>3, <2>5, Zenon
       DEF FlushStart, FlushBuilt, CompactStart, CompactOpenOutput, CompactFinish, NewDB,
           NewDBCurrent, OpenRecover, RecoverLogFile, OpenGiveUp, OpenApply, Crash, Pin,
           Unpin, hist
  <2> QED
    BY <2>2, <2>4, <2>5, Zenon DEF Next
<1>3. /\ vs.last \in Nat /\ vs.last <= issued /\ rc.max \in Nat /\ rc.max <= issued
      /\ wr.w.seq \in Nat /\ (wr.pc # "idle" => wr.w.seq <= issued)
      /\ ap.edit.last \in Nat /\ ap.edit.last <= issued
  BY <1>1, Zenon DEF SeqBound, VerTypes, ProcTypes, ApplyTypes, Edits, Writes
<1>4. /\ vs'.last <= issued' /\ rc'.max <= issued'
  <2>1. CASE vs'.last = vs.last /\ rc'.max = rc.max
    BY <1>2, <1>3, <2>1
  <2>2. CASE AddRecord \/ SyncLog \/ Insert
    <3>1. wr.pc # "idle" /\ rc' = rc
      BY <2>2, Zenon DEF AddRecord, SyncLog, Insert
    <3>2. vs' = vs \/ vs' = [vs EXCEPT !.last = wr.w.seq]
      BY <2>2, Zenon DEF AddRecord, SyncLog, Insert, EndWrite
    <3>3. vs'.last \in {vs.last, wr.w.seq}
      BY <1>1, <3>2, Zenon DEF VerTypes
    <3> QED
      BY <1>2, <1>3, <3>1, <3>3
  <2>3. CASE Reset
    BY <1>2, <2>3 DEF Reset, NoVs, NoRc
  <2>4. CASE OpenRecover
    <3>1. V(Len(Manifest.edits)).last <= issued
      <4>1. /\ Manifest.edits \in Seq(Edits)
            /\ \A i \in 1..Len(Manifest.edits) : Manifest.edits[i].last <= issued
        BY <1>1 DEF ManifestTypes, Manifest, SeqBound
      <4>2. Len(Manifest.edits) \in 0..Len(Manifest.edits)
        BY <4>1
      <4> QED
        BY <1>2, <4>1, <4>2, ReplayLast, Zenon DEF V
    <3>2. \/ vs' = vs /\ rc' = rc
          \/ vs'.last = V(Len(Manifest.edits)).last /\ rc'.max = 0
      BY <2>4 DEF OpenRecover, V, NoRc
    <3>3. V(Len(Manifest.edits)).last \in Nat
      BY <1>1, ManifestTyped, Zenon
    <3> QED
      BY <1>2, <1>3, <3>1, <3>2, <3>3
  <2>5. CASE RecoverLogFile
    <3>1. PICK max \in Nat :
            max = Max({rc.max} \cup {w.seq : w \in Readable(logs[Min(rc.todo)].recs,
                                                            AllRecords(Min(rc.todo)))})
      BY <2>5, RecoverNumbers, Zenon
    <3>2. max <= issued
      BY <2>5, <3>1, RecoverNumbers, Zenon
    <3>3. rc'.max = max \/ rc'.max = rc.max
      <4>1. \/ \E t, a, o : rc' = [todo |-> t, add |-> a, ok |-> o, max |-> max]
            \/ rc' = [rc EXCEPT !.todo = @ \ {Min(rc.todo)}, !.ok = TRUE]
        BY <2>5, <3>1, Zenon DEF RecoverLogFile
      <4>2. CASE \E t, a, o : rc' = [todo |-> t, add |-> a, ok |-> o, max |-> max]
        BY <4>2
      <4> QED
        BY <1>1, <4>1, <4>2, Zenon DEF ApplyTypes
    <3>4. vs'.last = vs.last
      BY <1>1, <2>5, Zenon DEF RecoverLogFile, VerTypes
    <3> QED
      BY <1>2, <1>3, <3>2, <3>3, <3>4
  <2>6. CASE OpenApply
    <3>1. Max({vs.last, rc.max}) \in {vs.last, rc.max}
      BY <1>3, MaxOfTwo, Zenon
    <3>2. vs'.last = Max({vs.last, rc.max}) /\ rc' = rc
      BY <1>1, <2>6, Zenon DEF OpenApply, VerTypes
    <3> QED
      BY <1>2, <1>3, <3>1, <3>2
  <2>7. CASE OpenInstall
    BY <1>1, <1>2, <1>3, <2>7 DEF OpenInstall, NoRc, VerTypes
  <2>8. CASE \/ SwitchLog \/ BeginWrite \/ ApplyAppend \/ ApplySync \/ ApplyCurrent
             \/ FlushInstall \/ CompactInstall \/ MoveInstall \/ FlushFail \/ CompactFail
             \/ FlushStart \/ FlushBuilt \/ CompactStart \/ CompactOpenOutput
             \/ CompactFinish \/ NewDB \/ NewDBCurrent
             \/ \E r \in Readers : Pin(r) \/ Unpin(r)
    BY <1>1, <2>1, <2>8, Zenon
       DEF SwitchLog, BeginWrite, ApplyAppend, ApplySync, ApplyCurrent, FlushInstall,
           CompactInstall, MoveInstall, FlushFail, CompactFail, FlushStart, FlushBuilt,
           CompactStart, CompactOpenOutput, CompactFinish, NewDB, NewDBCurrent, Pin, Unpin,
           verVars, procVars, VerTypes
  <2> QED
    BY <2>2, <2>3, <2>4, <2>5, <2>6, <2>7, <2>8, Zenon
       DEF Next, OpenFail, OpenGiveUp, Crash
<1>5. wr'.pc # "idle" => wr'.w.seq <= issued'
  <2>1. CASE UNCHANGED wr
    BY <1>2, <1>3, <2>1
  <2>2. CASE wr' = NoWr
    BY <2>2, Zenon DEF NoWr
  <2>3. CASE BeginWrite
    BY <1>1, <1>2, <1>3, <2>3 DEF BeginWrite
  <2>4. CASE \E pc \in {"sync", "insert"} : wr' = [wr EXCEPT !.pc = pc] /\ wr.pc # "idle"
    <3>1. wr'.w = wr.w
      BY <1>1, <2>4, Zenon DEF ProcTypes
    <3> QED
      BY <1>2, <1>3, <2>4, <3>1
  <2>5. CASE AddRecord \/ SyncLog \/ Insert
    BY <2>2, <2>4, <2>5, Zenon DEF AddRecord, SyncLog, Insert, EndWrite
  <2>6. CASE \/ SwitchLog \/ ApplyAppend \/ ApplySync \/ ApplyCurrent
             \/ FlushInstall \/ CompactInstall \/ MoveInstall \/ OpenInstall \/ FlushFail
             \/ CompactFail \/ FlushStart \/ FlushBuilt \/ CompactStart \/ CompactOpenOutput
             \/ CompactFinish \/ NewDB \/ NewDBCurrent \/ OpenRecover \/ RecoverLogFile
             \/ OpenApply \/ \E r \in Readers : Pin(r) \/ Unpin(r)
    BY <2>1, <2>6, Zenon
       DEF SwitchLog, ApplyAppend, ApplySync, ApplyCurrent, FlushInstall, CompactInstall,
           MoveInstall, OpenInstall, FlushFail, CompactFail, FlushStart, FlushBuilt,
           CompactStart, CompactOpenOutput, CompactFinish, NewDB, NewDBCurrent, OpenRecover,
           RecoverLogFile, OpenApply, Pin, Unpin, procVars
  <2> QED
    BY <2>2, <2>3, <2>5, <2>6, Zenon DEF Next, OpenFail, OpenGiveUp, Crash, Reset
<1>6. ap'.edit.last <= issued'
  <2>1. CASE ap'.edit = ap.edit
    BY <1>2, <1>3, <2>1
  <2>2. CASE ap' = NoAp
    BY <1>2, <2>2 DEF NoAp, NoEdit
  <2>3. ASSUME NEW kind, NEW add, NEW del, NEW log, NEW v, v.last <= issued,
               BeginApply(kind, add, del, log, v), UNCHANGED issued
        PROVE  ap'.edit.last <= issued'
    BY <2>3, Zenon DEF BeginApply
  <2>4. CASE FlushBuilt
    BY <1>3, <2>1, <2>3, <2>4, Zenon DEF FlushBuilt, hist
  <2>5. CASE CompactStart
    BY <1>3, <2>1, <2>3, <2>5, Zenon DEF CompactStart, hist
  <2>6. CASE CompactFinish
    BY <1>3, <2>1, <2>3, <2>6, Zenon DEF CompactFinish, hist
  <2>7. CASE OpenApply
    <3>1. PICK v : v = [vs EXCEPT !.next = @ + 1, !.last = Max({@, rc.max})]
      BY Zenon
    <3>2. v.last = Max({vs.last, rc.max})
      BY <1>1, <3>1, Zenon DEF VerTypes
    <3>3. Max({vs.last, rc.max}) \in {vs.last, rc.max}
      BY <1>3, MaxOfTwo, Zenon
    <3>4. BeginApply("open", rc.add, {}, vs.next, v) /\ UNCHANGED issued
      BY <2>7, <3>1, Zenon DEF OpenApply, hist
    <3> QED
      BY <1>3, <2>3, <3>2, <3>3, <3>4, Zenon
  <2>8. CASE ApplyAppend \/ ApplySync \/ ApplyCurrent
    BY <1>1, <2>1, <2>8, Zenon DEF ApplyAppend, ApplySync, ApplyCurrent, ApplyTypes
  <2>9. CASE \/ FlushInstall \/ CompactInstall \/ MoveInstall \/ OpenInstall \/ FlushFail
             \/ CompactFail
    BY <2>2, <2>9, Zenon DEF FlushInstall, CompactInstall, MoveInstall, OpenInstall,
       FlushFail,
                      CompactFail
  <2>10. CASE \/ SwitchLog \/ BeginWrite \/ AddRecord \/ SyncLog \/ Insert \/ FlushStart
              \/ CompactOpenOutput \/ NewDB \/ NewDBCurrent \/ OpenRecover \/ RecoverLogFile
              \/ \E r \in Readers : Pin(r) \/ Unpin(r)
    BY <2>1, <2>10, Zenon
       DEF SwitchLog, BeginWrite, AddRecord, SyncLog, Insert, FlushStart, CompactOpenOutput,
           NewDB, NewDBCurrent, OpenRecover, RecoverLogFile, Pin, Unpin, procVars
  <2> QED
    BY <2>2, <2>4, <2>5, <2>6, <2>7, <2>8, <2>9, <2>10, Zenon
       DEF Next, OpenFail, OpenGiveUp, Crash, Reset

<1>7. ASSUME NEW l \in DOMAIN logs'
      PROVE  \A i \in 1..Len(logs'[l].recs) : logs'[l].recs[i].w.seq <= issued'
  <2>0. \A k \in DOMAIN logs : /\ logs[k].recs \in Seq(Records)
                               /\ \A i \in 1..Len(logs[k].recs) :
                                    /\ logs[k].recs[i].w.seq \in Nat
                                    /\ logs[k].recs[i].w.seq <= issued'
    <3>1. ASSUME NEW k \in DOMAIN logs
          PROVE  /\ logs[k].recs \in Seq(Records)
                 /\ \A i \in 1..Len(logs[k].recs) : logs[k].recs[i] \in Records
      BY <1>1 DEF LogTypes
    <3> QED
      BY <1>1, <1>2, <3>1 DEF SeqBound, Records, Writes
  <2>1. CASE l \in DOMAIN logs /\ logs'[l].recs = logs[l].recs
    BY <2>0, <2>1, Zenon
  <2>2. CASE logs'[l].recs = <<>>
    BY <2>2
  <2>3. CASE \E x : logs' = With(logs, x, [recs |-> <<>>, synced |-> 0])
    <3>1. \/ l \in DOMAIN logs /\ logs'[l] = logs[l]
          \/ logs'[l] = [recs |-> <<>>, synced |-> 0]
      BY <2>3, Zenon DEF With
    <3> QED
      BY <2>1, <2>2, <3>1
  <2>4. CASE /\ DOMAIN logs' \subseteq DOMAIN logs
             /\ \A k \in DOMAIN logs' : logs'[k] = logs[k]
    BY <2>1, <2>4, Zenon
  <2>5. CASE AddRecord
    <3>1. logNum \in DOMAIN logs
      BY <1>1, <2>5, Zenon DEF Phases, AddRecord
    <3>2. wr.w.seq \in Nat /\ wr.w.seq <= issued'
      BY <1>2, <1>3, <2>5 DEF AddRecord
    <3>3. ASSUME NEW ok \in BOOLEAN,
                 logs' = With(logs, logNum, [logs[logNum] EXCEPT
                                               !.recs = Append(@, [w |-> wr.w, ok |-> ok])])
          PROVE  \A i \in 1..Len(logs'[l].recs) : logs'[l].recs[i].w.seq <= issued'
      <4>1. CASE l # logNum
        BY <2>1, <3>1, <3>3, <4>1, Zenon DEF With
      <4>2. CASE l = logNum
        <5>1. PICK s : s = logs[logNum].recs
          BY Zenon
        <5>2. s \in Seq(Records) /\ \A i \in 1..Len(s) : s[i].w.seq <= issued'
          BY <2>0, <3>1, <5>1, Zenon
        <5>3. logs[logNum] \in [recs : Seq(Records), synced : Nat]
          BY <1>1, <3>1, Zenon DEF LogTypes
        <5>4. logs'[l].recs = Append(s, [w |-> wr.w, ok |-> ok])
          BY <3>1, <3>3, <4>2, <5>1, <5>3, Zenon DEF With
        <5>5. [w |-> wr.w, ok |-> ok] \in Records
          BY <1>1, Zenon DEF ProcTypes, Records
        <5>6. PICK r \in Records : r = [w |-> wr.w, ok |-> ok]
          BY <5>5, Zenon
        <5>7. \A i \in 1..Len(Append(s, r)) : \/ i \in 1..Len(s) /\ Append(s, r)[i] = s[i]
                                             \/ Append(s, r)[i] = r
          BY <5>2
        <5>8. r.w.seq <= issued'
          BY <3>2, <5>6, Zenon
        <5> QED
          BY <5>2, <5>4, <5>6, <5>7, <5>8, Zenon
      <4> QED
        BY <4>1, <4>2, Zenon
    <3> QED
      BY <2>4, <2>5, <3>3, Zenon DEF AddRecord
  <2>6. CASE SyncLog
    <3>1. \A k \in DOMAIN logs : logs[k] \in [recs : Seq(Records), synced : Nat]
      BY <1>1, Zenon DEF LogTypes
    <3>2. l \in DOMAIN logs /\ logs'[l].recs = logs[l].recs
      BY <2>6, <3>1, ZenonT(30) DEF SyncLog
    <3> QED
      BY <2>1, <3>2, Zenon
  <2>7. CASE Crash
    <3>1. PICK keep \in [DOMAIN logs -> 0..MaxWrites] :
            /\ \A k \in DOMAIN logs : keep[k] \in logs[k].synced..Len(logs[k].recs)
            /\ logs' = [k \in DOMAIN logs |-> [recs |-> SubSeq(logs[k].recs, 1, keep[k]),
                                               synced |-> keep[k]]]
      BY <2>7, Zenon DEF Crash
    <3>2. l \in DOMAIN logs
      BY <3>1, Zenon
    <3>3. PICK s : s = logs[l].recs
      BY Zenon
    <3>4. s \in Seq(Records) /\ \A i \in 1..Len(s) : s[i].w.seq <= issued'
      BY <2>0, <3>2, <3>3, Zenon
    <3>5. keep[l] \in 0..Len(s)
      BY <1>1, <3>1, <3>2, <3>3 DEF LogTypes
    <3>6. \A i \in 1..Len(SubSeq(s, 1, keep[l])) : i \in 1..Len(s) /\ SubSeq(s, 1, keep[l])[i] = s[i]
      BY <3>4, <3>5
    <3>7. logs'[l].recs = SubSeq(s, 1, keep[l])
      BY <3>1, <3>2, <3>3, Zenon
    <3> QED
      BY <3>4, <3>6, <3>7, Zenon
  <2>8. CASE FlushInstall \/ CompactInstall \/ OpenInstall \/ CompactFail \/ CompactFinish
    BY <2>4, <2>8, DeleteRemoves, Zenon DEF FlushInstall, CompactInstall,
       OpenInstall, CompactFail,
                                     CompactFinish
  <2>9. CASE SwitchLog \/ OpenApply
    BY <2>3, <2>9, Zenon DEF SwitchLog, OpenApply
  <2>10. CASE \/ BeginWrite \/ Insert \/ ApplyAppend \/ ApplySync \/ ApplyCurrent
              \/ MoveInstall \/ FlushFail \/ OpenFail \/ FlushStart \/ FlushBuilt
              \/ CompactStart \/ CompactOpenOutput \/ NewDB \/ NewDBCurrent \/ OpenRecover
              \/ RecoverLogFile \/ OpenGiveUp \/ \E r \in Readers : Pin(r) \/ Unpin(r)
    BY <2>4, <2>10, Zenon
       DEF BeginWrite, Insert, ApplyAppend, ApplySync, ApplyCurrent, MoveInstall, FlushFail,
           OpenFail, FlushStart, FlushBuilt, CompactStart, CompactOpenOutput, NewDB,
           NewDBCurrent, OpenRecover, RecoverLogFile, OpenGiveUp, Pin, Unpin, disk
  <2> QED
    BY <2>5, <2>6, <2>7, <2>8, <2>9, <2>10, Zenon DEF Next
<1>8. ASSUME NEW m \in DOMAIN manifests'
      PROVE  \A i \in 1..Len(manifests'[m].edits) : manifests'[m].edits[i].last <= issued'
  <2>0. \A k \in DOMAIN manifests : /\ manifests[k].edits \in Seq(Edits)
                                    /\ \A i \in 1..Len(manifests[k].edits) :
                                         /\ manifests[k].edits[i] \in Edits
                                         /\ manifests[k].edits[i].last <= issued'
    <3>1. ASSUME NEW k \in DOMAIN manifests
          PROVE  /\ manifests[k].edits \in Seq(Edits)
                 /\ \A i \in 1..Len(manifests[k].edits) :
                      /\ manifests[k].edits[i] \in Edits
                      /\ manifests[k].edits[i].last \in Nat
      <4>1. manifests[k].edits \in Seq(Edits)
        BY <1>1, Zenon DEF ManifestTypes
      <4>2. \A i \in 1..Len(manifests[k].edits) : manifests[k].edits[i] \in Edits
        BY <4>1
      <4> QED
        BY <4>1, <4>2, Zenon DEF Edits
    <3> QED
      BY <1>1, <1>2, <3>1 DEF SeqBound
  <2>1. CASE m \in DOMAIN manifests /\ manifests'[m].edits = manifests[m].edits
    BY <2>0, <2>1, Zenon
  <2>2. CASE /\ DOMAIN manifests' \subseteq DOMAIN manifests
             /\ \A k \in DOMAIN manifests' : manifests'[k] = manifests[k]
    BY <2>1, <2>2, Zenon
  <2>3. ASSUME NEW x, NEW e, e.last = 0,
               manifests' = With(manifests, x, [edits |-> <<e>>, synced |-> 0])
        PROVE  \A i \in 1..Len(manifests'[m].edits) : manifests'[m].edits[i].last <= issued'
    <3>1. CASE m # x
      BY <2>1, <2>3, <3>1, Zenon DEF With
    <3>2. CASE m = x
      <4>1. manifests'[m].edits = <<e>>
        BY <2>3, <3>2, Zenon DEF With
      <4>2. \A i \in 1..Len(<<e>>) : <<e>>[i] = e
        OBVIOUS
      <4> QED
        BY <1>2, <2>3, <4>1, <4>2
    <3> QED
      BY <3>1, <3>2, Zenon
  <2>4. ASSUME NEW e \in Edits, e.last <= issued', manifests' = WithEdit(e)
        PROVE  \A i \in 1..Len(manifests'[m].edits) : manifests'[m].edits[i].last <= issued'
    <3>1. /\ DOMAIN manifests' = DOMAIN manifests
          /\ m # vs.man => manifests'[m] = manifests[m]
          /\ m = vs.man => manifests'[m].edits = Append(manifests[m].edits, e)
      BY <1>1, <2>4, WithEditTyped, Zenon
    <3>2. CASE m = vs.man
      <4>1. PICK s : s = manifests[m].edits
        BY Zenon
      <4>2. s \in Seq(Edits) /\ \A i \in 1..Len(s) : s[i].last <= issued'
        BY <2>0, <3>1, <4>1, Zenon
      <4>3. \A i \in 1..Len(Append(s, e)) : \/ i \in 1..Len(s) /\ Append(s, e)[i] = s[i]
                                            \/ Append(s, e)[i] = e
        BY <4>2
      <4> QED
        BY <2>4, <3>1, <3>2, <4>1, <4>2, <4>3, Zenon
    <3> QED
      BY <2>1, <3>1, <3>2, Zenon
  <2>5. /\ ap.edit \in Edits /\ ap.edit.last <= issued'
        /\ [ap.edit EXCEPT !.ok = FALSE] \in Edits
        /\ [ap.edit EXCEPT !.ok = FALSE].last <= issued'
    <3>1. PICK e : e = ap.edit
      BY Zenon
    <3>2. e \in Edits /\ e.last <= issued'
      BY <1>1, <1>2, <1>3, <3>1 DEF ApplyTypes
    <3>3. [e EXCEPT !.ok = FALSE] \in Edits /\ [e EXCEPT !.ok = FALSE].last = e.last
      BY <3>2, TornTyped, Zenon
    <3> QED
      BY <3>1, <3>2, <3>3, Zenon
  <2>6. \A mans \in AfterFailedEdit :
          \/ mans = manifests
          \/ \E e \in Edits : e.last <= issued' /\ mans = WithEdit(e)
    BY <2>5, Zenon DEF AfterFailedEdit
  <2>7. CASE ApplyAppend
    BY <2>4, <2>5, <2>7, Zenon DEF ApplyAppend
  <2>8. CASE ApplySync
    <3>1. \A k \in DOMAIN manifests : manifests[k] \in [edits : Seq(Edits), synced : Nat]
      BY <1>1, Zenon DEF ManifestTypes
    <3>2. m \in DOMAIN manifests /\ manifests'[m].edits = manifests[m].edits
      BY <2>8, <3>1, Zenon DEF ApplySync
    <3> QED
      BY <2>1, <3>2, Zenon
  <2>9. CASE FlushInstall \/ CompactInstall
    BY <2>2, <2>9, DeleteRemoves DEF FlushInstall, CompactInstall
  <2>10. CASE OpenInstall
    BY <2>2, <2>10, Zenon DEF OpenInstall, DeleteObsoleteFiles, Restrict
  <2>11. CASE FlushFail
    BY <2>2, <2>4, <2>6, <2>11, Zenon DEF FlushFail
  <2>12. CASE CompactFail
    BY <2>2, <2>4, <2>6, <2>12, Zenon DEF CompactFail, DeleteObsoleteFiles
  <2>13. CASE OpenFail
    BY <2>2, <2>13, Zenon DEF OpenFail, Restrict
  <2>14. CASE CompactFinish
    BY <2>2, <2>14, Zenon DEF CompactFinish, DeleteObsoleteFiles
  <2>15. CASE NewDB
    BY <2>3, <2>15 DEF NewDB, FirstEdit, NoEdit
  <2>16. CASE OpenApply
    BY <2>3, <2>16 DEF OpenApply, NoEdit
  <2>17. CASE Crash
    <3>1. m \in DOMAIN manifests
      BY <2>17, Zenon DEF Crash
    <3>2. PICK s : s = manifests[m].edits
      BY Zenon
    <3>3. s \in Seq(Edits) /\ \A i \in 1..Len(s) : s[i] \in Edits /\ s[i].last <= issued'
      BY <2>0, <3>1, <3>2, Zenon
    <3>4. ASSUME NEW n \in 0..Len(s)
          PROVE  \A i \in 1..Len(SubSeq(s, 1, n)) : SubSeq(s, 1, n)[i].last <= issued'
      BY <3>3
    <3>5. ASSUME NEW n \in 0..Len(s), n < Len(s)
          PROVE  \A i \in 1..Len(Append(SubSeq(s, 1, n), [s[n + 1] EXCEPT !.ok = FALSE])) :
                    Append(SubSeq(s, 1, n), [s[n + 1] EXCEPT !.ok = FALSE])[i].last <= issued'
      <4>1. s[n + 1] \in Edits /\ s[n + 1].last <= issued'
        BY <3>3, <3>5
      <4>2. PICK e : e = [s[n + 1] EXCEPT !.ok = FALSE]
        BY Zenon
      <4>3. e \in Edits /\ e.last <= issued'
        BY <4>1, <4>2, TornTyped, Zenon
      <4>4. PICK q : q = SubSeq(s, 1, n)
        BY Zenon
      <4>5. q \in Seq(Edits) /\ \A i \in 1..Len(q) : q[i].last <= issued'
        BY <3>3, <3>4, <4>4
      <4>6. \A i \in 1..Len(Append(q, e)) : \/ i \in 1..Len(q) /\ Append(q, e)[i] = q[i]
                                            \/ Append(q, e)[i] = e
        BY <4>5
      <4> QED
        BY <4>2, <4>3, <4>4, <4>5, <4>6, Zenon
    <3>6. CASE m # current
      <4>1. manifests'[m].edits = SubSeq(s, 1, manifests[m].synced)
        BY <2>17, <3>1, <3>2, <3>6 DEF Crash
      <4>2. manifests[m].synced \in 0..Len(s)
        BY <1>1, <3>1, <3>2 DEF ManifestTypes
      <4> QED
        BY <3>4, <4>1, <4>2, Zenon
    <3>7. CASE m = current
      <4>1. Manifest.edits = s
        BY <3>1, <3>2, <3>7, Zenon DEF Manifest
      <4>2. PICK n \in ManifestLengths : manifests'[m].edits \in Tails(s, n)
        BY <2>17, <3>1, <3>7, <4>1 DEF Crash
      <4>3. n \in 0..Len(s)
        BY <1>1, <4>1, ManifestTyped, Zenon
      <4> QED
        BY <3>4, <3>5, <4>2, <4>3, Zenon DEF Tails
    <3> QED
      BY <3>6, <3>7, Zenon
  <2>18. CASE \/ BeginWrite \/ Insert \/ MoveInstall \/ CompactStart \/ OpenRecover
              \/ OpenGiveUp \/ (\E r \in Readers : Pin(r) \/ Unpin(r)) \/ SwitchLog
              \/ AddRecord \/ SyncLog \/ ApplyCurrent \/ FlushStart \/ FlushBuilt
              \/ CompactOpenOutput \/ NewDBCurrent \/ RecoverLogFile
    BY <2>2, <2>18, Zenon
       DEF BeginWrite, Insert, MoveInstall, CompactStart, OpenRecover, OpenGiveUp, Pin,
           Unpin, disk, SwitchLog, AddRecord, SyncLog, ApplyCurrent, FlushStart, FlushBuilt,
           CompactOpenOutput, NewDBCurrent, RecoverLogFile
  <2> QED
    BY <2>7, <2>8, <2>9, <2>10, <2>11, <2>12, <2>13, <2>14, <2>15, <2>16, <2>17,
       <2>18, Zenon
       DEF Next
<1> QED
  BY <1>4, <1>5, <1>6, <1>7, <1>8, Zenon DEF SeqBound

LEMMA PhasesStep ==
  ASSUME FInv, Next
  PROVE  Phases'
<1>1. /\ LogTypes /\ VerTypes /\ MemTypes /\ ProcTypes /\ ApplyTypes /\ Phases /\ LogOrder
  BY Zenon DEF FInv, TInv, FileTypes, StateTypes
<1>2. CASE SwitchLog
  BY <1>1, <1>2, Zenon
     DEF SwitchLog, With, Phases, VerTypes, ProcTypes, ApplyTypes, verVars,
       memVars, procVars, disk
<1>3. CASE BeginWrite
  BY <1>1, <1>3, Zenon
     DEF BeginWrite, Phases, VerTypes, ProcTypes, ApplyTypes, verVars,
       memVars, procVars, disk
<1>4. CASE AddRecord
  BY <1>1, <1>4, Zenon
     DEF AddRecord, With, EndWrite, NoWr, Phases, VerTypes, ProcTypes,
       ApplyTypes, verVars, memVars, procVars, disk
<1>5. CASE SyncLog
  BY <1>1, <1>5, Zenon
     DEF SyncLog, EndWrite, NoWr, Phases, VerTypes, ProcTypes, ApplyTypes,
       verVars, memVars, procVars, disk
<1>6. CASE Insert
  BY <1>1, <1>6, Zenon
     DEF Insert, EndWrite, NoWr, Phases, VerTypes, ProcTypes, ApplyTypes,
       verVars, memVars, procVars, disk
<1>7. CASE ApplyAppend
  BY <1>1, <1>7, Zenon
     DEF ApplyAppend, Phases, VerTypes, ProcTypes, ApplyTypes, verVars,
       memVars, procVars, disk
<1>8. CASE ApplySync
  BY <1>1, <1>8, Zenon
     DEF ApplySync, Phases, VerTypes, ProcTypes, ApplyTypes, verVars,
       memVars, procVars, disk
<1>9. CASE ApplyCurrent
  BY <1>1, <1>9, Zenon
     DEF ApplyCurrent, Phases, VerTypes, ProcTypes, ApplyTypes, verVars,
       memVars, procVars, disk
<1>10. CASE FlushInstall
  <2>1. up \in {"opening", "open"} /\ ap.pc # "idle"
    BY <1>1, <1>10, Zenon DEF FlushInstall, Phases
  <2>2. logNum \in DOMAIN logs'
    BY <1>1, <1>10, <2>1, CurrentLogKept, Zenon DEF FlushInstall
  <2> QED
    BY <1>1, <1>10, <2>1, <2>2, Zenon
       DEF FlushInstall, NoFl, NoAp, NoEdit, Phases, ProcTypes,
       ApplyTypes, memVars
<1>11. CASE CompactInstall
  <2>1. up \in {"opening", "open"} /\ ap.pc # "idle"
    BY <1>1, <1>11, Zenon DEF CompactInstall, Phases
  <2>2. logNum \in DOMAIN logs'
    BY <1>1, <1>11, <2>1, CurrentLogKept, Zenon DEF CompactInstall
  <2> QED
    BY <1>1, <1>11, <2>1, <2>2, Zenon
       DEF CompactInstall, NoCp, NoAp, NoEdit, Phases,
       ProcTypes, ApplyTypes, memVars
<1>12. CASE MoveInstall
  BY <1>1, <1>12, Zenon
     DEF MoveInstall, NoCp, NoAp, NoEdit, Phases, VerTypes, ProcTypes,
       ApplyTypes, verVars, memVars, procVars, disk
<1>13. CASE OpenInstall
  <2>1. up \in {"opening", "open"} /\ ap.pc # "idle"
    BY <1>1, <1>13, Zenon DEF OpenInstall, Phases
  <2>2. logNum \in DOMAIN logs'
    BY <1>1, <1>13, <2>1, CurrentLogKept, Zenon DEF OpenInstall
  <2> QED
    BY <1>1, <1>13, <2>1, <2>2, Zenon
       DEF OpenInstall, NoRc, NoAp, NoEdit, Phases, ProcTypes,
       ApplyTypes, memVars
<1>14. CASE FlushFail
  <2>1. /\ up = "open" /\ UNCHANGED <<logs, up, wr, rc, logNum, hasImm, pins>>
        /\ ap'.pc = "idle" /\ ap'.kind = "none" /\ ap'.edit.add = {}
    BY <1>1, <1>14, Zenon
       DEF FlushFail, ApplyCanFail, NoAp, NoEdit, Phases, memVars, verVars
  <2>2. CASE ap.kind = "flush"
    <3>1. fl'.pc = "idle" /\ cp' = cp /\ cp.pc # "apply"
      BY <1>1, <1>14, <2>2 DEF FlushFail, NoFl, Phases
    <3> QED
      BY <1>1, <2>1, <3>1, Zenon DEF Phases
  <2>3. CASE ap.kind = "move"
    <3>1. /\ fl' = fl /\ fl.pc # "apply"
          /\ cp'.pc = "idle" /\ cp'.out = 0 /\ cp'.inputs = {} /\ cp'.ver = {}
      BY <1>1, <1>14, <2>3 DEF FlushFail, NoCp, Phases
    <3> QED
      BY <1>1, <2>1, <3>1, Zenon DEF Phases
  <2> QED
    BY <1>14, <2>2, <2>3, Zenon DEF FlushFail
<1>15. CASE CompactFail
  <2>1. up \in {"opening", "open"} /\ ap.pc # "idle"
    BY <1>1, <1>15, Zenon DEF CompactFail, ApplyCanFail, Phases
  <2>2. UNCHANGED logs
    BY <1>15, Zenon DEF CompactFail, DeleteObsoleteFiles
  <2> QED
    BY <1>1, <1>15, <2>1, <2>2, Zenon DEF CompactFail, ApplyCanFail, NoCp, NoAp,
       NoEdit, Phases,
                                   ProcTypes, ApplyTypes, memVars
<1>16. CASE OpenFail
  BY <1>1, <1>16, Zenon
     DEF OpenFail, Reset, NoVs, NoWr, NoFl, NoCp, NoAp, NoRc, NoEdit,
       Phases, VerTypes, ProcTypes, ApplyTypes, verVars, memVars, procVars, disk
<1>17. CASE FlushStart
  BY <1>1, <1>17, Zenon
     DEF FlushStart, Phases, VerTypes, ProcTypes, ApplyTypes, verVars,
       memVars, procVars, disk
<1>18. CASE FlushBuilt
  <2>1. up = "open" /\ ap.pc = "idle" /\ ap.kind = "none" /\ cp.pc # "apply"
    BY <1>1, <1>18, Zenon DEF FlushBuilt, Phases
  <2>2. CASE fl' = [fl EXCEPT !.pc = "apply"] /\ ap'.pc = "append" /\ ap'.kind = "flush"
    BY <1>1, <1>18, <2>1, <2>2, Zenon DEF FlushBuilt, Phases, ProcTypes, memVars
  <2>3. CASE fl' = NoFl /\ bgError' = TRUE /\ ap' = ap
    BY <1>1, <1>18, <2>1, <2>3, Zenon DEF FlushBuilt, NoFl, Phases, memVars
  <2> QED
    BY <1>18, <2>2, <2>3, BeginApplyStarts, Zenon DEF FlushBuilt
<1>19. CASE CompactStart
  BY <1>1, <1>19 DEF CompactStart, BeginApply, NoCp, Phases, VerTypes, ProcTypes,
       ApplyTypes, verVars, memVars, procVars, disk
<1>20. CASE CompactOpenOutput
  BY <1>1, <1>20, Zenon
     DEF CompactOpenOutput, Phases, VerTypes, ProcTypes, ApplyTypes,
       verVars, memVars, procVars, disk
<1>21. CASE CompactFinish
  <2>1. up = "open" /\ ap.kind \notin {"open", "flush"} /\ fl.pc = "idle"
    BY <1>1, <1>21, Zenon DEF CompactFinish, Phases
  <2>2. UNCHANGED logs
    BY <1>21, Zenon DEF CompactFinish, DeleteObsoleteFiles
  <2>3. CASE /\ cp' = [cp EXCEPT !.pc = "apply"] /\ ap'.pc = "append" /\ ap'.kind = "compact"
             /\ UNCHANGED bgError
    BY <1>1, <1>21, <2>1, <2>2, <2>3, Zenon
       DEF CompactFinish, Phases, ProcTypes, memVars
  <2>4. CASE cp' = NoCp /\ bgError' = TRUE /\ ap' = ap
    BY <1>1, <1>21, <2>1, <2>2, <2>4, Zenon DEF CompactFinish, NoCp, Phases, memVars
  <2> QED
    BY <1>21, <2>3, <2>4, BeginApplyStarts, Zenon DEF CompactFinish
<1>22. CASE NewDB
  BY <1>1, <1>22, Zenon DEF NewDB, Phases, VerTypes, ProcTypes, ApplyTypes, verVars,
     memVars,
       procVars, disk
<1>23. CASE NewDBCurrent
  BY <1>1, <1>23, Zenon DEF NewDBCurrent, Phases, VerTypes, ProcTypes, ApplyTypes,
     verVars,
       memVars, procVars, disk
<1>24. CASE OpenGiveUp
  BY <1>1, <1>24, Zenon DEF OpenGiveUp, Reset, NoVs, NoWr, NoFl, NoCp, NoAp, NoRc,
     NoEdit,
       Phases, VerTypes, ProcTypes, ApplyTypes, verVars, memVars, procVars, disk
<1>25. CASE OpenApply
  BY <1>1, <1>25, Zenon
     DEF OpenApply, BeginApply, With, Phases, VerTypes, ProcTypes,
       ApplyTypes, verVars, memVars, procVars, disk
<1>26. CASE Crash
  BY <1>1, <1>26, Zenon
     DEF Crash, Reset, NoVs, NoWr, NoFl, NoCp, NoAp, NoRc, NoEdit,
     Phases,
       VerTypes, ProcTypes, ApplyTypes, verVars, memVars, procVars, disk
<1>27. CASE OpenRecover
  <2>1. CASE UNCHANGED <<vs, cur, rc>> /\ up' = "corrupt"
    BY <1>1, <1>27, <2>1, Zenon DEF OpenRecover, Phases, memVars, disk
  <2>2. CASE /\ up' = "recovering"
             /\ \E n : rc' = [NoRc EXCEPT !.todo = {l \in DOMAIN logs : l >= n}]
    <3>1. rc'.todo \subseteq DOMAIN logs
      BY <2>2, Zenon DEF NoRc
    <3> QED
      BY <1>1, <1>27, <2>2, <3>1, Zenon DEF OpenRecover, Phases, memVars, disk
  <2> QED
    BY <1>27, <2>1, <2>2, Zenon DEF OpenRecover
<1>28. CASE RecoverLogFile
  <2>1. rc'.todo \subseteq rc.todo
    <3>1. \/ \E a, m, o : rc' = [todo |-> rc.todo \ {Min(rc.todo)}, add |-> a, ok |-> o, max |-> m]
          \/ rc' = [rc EXCEPT !.todo = @ \ {Min(rc.todo)}, !.ok = TRUE]
      BY <1>28, Zenon DEF RecoverLogFile
    <3>2. CASE \E a, m, o : rc' = [todo |-> rc.todo \ {Min(rc.todo)}, add |-> a, ok |-> o,
                                  max |-> m]
      BY <3>2
    <3> QED
      BY <1>1, <3>1, <3>2, Zenon DEF ApplyTypes
  <2> QED
    BY <1>1, <1>28, <2>1, Zenon DEF RecoverLogFile, Phases, memVars
<1>29. ASSUME NEW r \in Readers, Pin(r) \/ Unpin(r) PROVE Phases'
  BY <1>1, <1>29, Zenon DEF Pin, Unpin, Phases, VerTypes, memVars, procVars, disk
<1> QED
  BY <1>2, <1>3, <1>4, <1>5, <1>6, <1>7, <1>8, <1>9, <1>10, <1>11, <1>12, <1>13,
     <1>14,
     <1>15, <1>16, <1>17, <1>18, <1>19, <1>20, <1>21, <1>22, <1>23, <1>24, <1>25, <1>26,
     <1>27, <1>28, <1>29, Zenon DEF Next

LEMMA LogOrderStep ==
  ASSUME FInv, Next
  PROVE  LogOrder'
<1>1. /\ VerTypes /\ MemTypes /\ ProcTypes /\ ApplyTypes /\ Phases /\ LogOrder /\ ManifestTypes
  BY Zenon DEF FInv, TInv, FileTypes, StateTypes
<1>2. /\ vs.log \in Nat /\ vs.next \in Nat /\ logNum \in Nat /\ ap.edit.log \in Nat
      /\ vs \in [next : Nat, man : Nat, log : Nat, last : Nat]
  BY <1>1, Zenon DEF VerTypes, MemTypes, ApplyTypes, Edits
<1>3. ASSUME vs'.log = vs.log, vs'.next = vs.next, UNCHANGED <<up, logNum>>,
             ap'.pc # "idle" => ap.pc # "idle" /\ ap'.edit.log = ap.edit.log
      PROVE  LogOrder'
  BY <1>1, <1>3, Zenon DEF LogOrder
<1>4. CASE SwitchLog
  BY <1>1, <1>2, <1>4 DEF SwitchLog, LogOrder, procVars
<1>5. CASE AddRecord \/ SyncLog \/ Insert
  <2>1. vs' = vs \/ vs' = [vs EXCEPT !.last = wr.w.seq]
    BY <1>5, Zenon DEF AddRecord, SyncLog, Insert, EndWrite
  <2>2. vs'.log = vs.log /\ vs'.next = vs.next
    BY <1>2, <2>1, Zenon
  <2> QED
    BY <1>3, <1>5, <2>2, Zenon DEF AddRecord, SyncLog, Insert, memVars
<1>6. CASE ApplyAppend \/ ApplySync \/ ApplyCurrent
  BY <1>1, <1>3, <1>6, Zenon
     DEF ApplyAppend, ApplySync, ApplyCurrent, ApplyTypes, memVars,
     verVars
<1>7. CASE FlushInstall \/ CompactInstall \/ MoveInstall \/ OpenInstall
  <2>1. /\ vs' = [vs EXCEPT !.log = ap.edit.log] /\ logNum' = logNum /\ ap' = NoAp
        /\ up \in {"opening", "open"} /\ ap.pc # "idle" /\ up' = "open"
    BY <1>1, <1>7, Zenon DEF FlushInstall, CompactInstall, MoveInstall, OpenInstall,
       memVars, Phases
  <2>2. vs'.log = ap.edit.log /\ vs'.next = vs.next
    BY <1>2, <2>1, Zenon
  <2>3. ap'.pc = "idle"
    BY <2>1, Zenon DEF NoAp
  <2> QED
    BY <1>1, <2>1, <2>2, <2>3, Zenon DEF LogOrder
<1>8. CASE FlushFail \/ CompactFail
  <2>1. UNCHANGED <<vs, up, logNum>> /\ ap' = NoAp
    BY <1>8, Zenon DEF FlushFail, CompactFail, memVars, verVars
  <2>2. ap'.pc = "idle"
    BY <2>1, Zenon DEF NoAp
  <2> QED
    BY <1>3, <2>1, <2>2, Zenon
<1>9. CASE FlushStart \/ CompactOpenOutput
  <2>1. vs' = [vs EXCEPT !.next = @ + 1] /\ UNCHANGED <<up, logNum, ap>>
    BY <1>9, Zenon DEF FlushStart, CompactOpenOutput, memVars
  <2>2. vs'.log = vs.log /\ vs'.next = vs.next + 1
    BY <1>2, <2>1, Zenon
  <2> QED
    BY <1>1, <1>2, <2>1, <2>2 DEF LogOrder
<1>10. CASE FlushBuilt
  <2>1. /\ UNCHANGED <<vs, up, logNum>>
        /\ UNCHANGED ap \/ ap'.edit.log = logNum
    BY <1>10, BeginApplyStarts, Zenon DEF FlushBuilt, memVars
  <2> QED
    BY <1>1, <1>2, <2>1 DEF LogOrder
<1>11. CASE CompactStart \/ CompactFinish
  <2>1. /\ UNCHANGED <<vs, up, logNum>> /\ up = "open"
        /\ UNCHANGED ap \/ ap'.edit.log = vs.log
    <3>1. CASE CompactStart
      BY <3>1, BeginApplyStarts DEF CompactStart, memVars, verVars
    <3>2. CASE CompactFinish
      <4>1. up = "open"
        BY <1>1, <3>2, Zenon DEF CompactFinish, Phases
      <4>2. UNCHANGED ap \/ BeginApply("compact", {cp.out}, cp.inputs, vs.log, vs)
        BY <3>2, Zenon DEF CompactFinish
      <4>3. UNCHANGED ap \/ ap'.edit.log = vs.log
        BY <4>2, BeginApplyStarts, Zenon
      <4> QED
        BY <3>2, <4>1, <4>3, Zenon DEF CompactFinish, memVars
    <3> QED
      BY <1>11, <3>1, <3>2, Zenon
  <2> QED
    BY <1>1, <1>2, <2>1, Zenon DEF LogOrder
<1>12. CASE OpenRecover
  <2>1. UNCHANGED <<ap, logNum>> /\ ap.pc = "idle"
    BY <1>1, <1>12, Zenon DEF OpenRecover, Phases, memVars
  <2>2. V(Len(Manifest.edits)).log \in Nat
    BY <1>1, ManifestTyped, Zenon
  <2>3. up' = "recovering" => vs'.log <= vs'.next
    BY <1>1, <1>12, <2>2, OpenRecoverCases
  <2>4. up' \in {"corrupt", "recovering"}
    BY <1>12, Zenon DEF OpenRecover
  <2> QED
    BY <2>1, <2>3, <2>4, Zenon DEF LogOrder
<1>13. CASE RecoverLogFile
  <2>1. PICK l : l = Min(rc.todo)
    BY Zenon
  <2>2. l \in Nat /\ \A n \in Nat : Max({n, l + 1}) \in Nat /\ Max({n, l + 1}) >= n
    BY <1>13, <2>1, RecoverNumbers, Zenon
  <2>3. \E n \in {vs.next, vs.next + 1} : vs' = [vs EXCEPT !.next = Max({n, l + 1})]
    BY <1>13, <2>1, Zenon DEF RecoverLogFile
  <2>4. PICK n \in {vs.next, vs.next + 1} : vs'.next = Max({n, l + 1}) /\ vs'.log = vs.log
    BY <1>2, <2>3, Zenon
  <2>5. vs'.next \in Nat /\ vs'.next >= vs.next
    BY <1>2, <2>2, <2>4
  <2>6. UNCHANGED <<ap, logNum, up>> /\ up = "recovering" /\ ap.pc = "idle"
    BY <1>1, <1>13, Zenon DEF RecoverLogFile, memVars, Phases
  <2> QED
    BY <1>1, <1>2, <2>4, <2>5, <2>6 DEF LogOrder
<1>14. CASE OpenApply
  <2>1. PICK v : v = [vs EXCEPT !.next = @ + 1, !.last = Max({@, rc.max})]
    BY Zenon
  <2>2. v.log = vs.log /\ v.next = vs.next + 1
    BY <1>2, <2>1, Zenon
  <2>3. /\ vs' = v /\ logNum' = vs.next /\ up' = "opening" /\ vs.log <= vs.next
        /\ BeginApply("open", rc.add, {}, vs.next, v)
    BY <1>1, <1>14, <2>1, Zenon DEF OpenApply, LogOrder
  <2>4. ap'.edit.log = vs.next
    BY <2>3, BeginApplyStarts, Zenon
  <2> QED
    BY <1>2, <2>2, <2>3, <2>4 DEF LogOrder
<1>15. CASE Reset
  BY <1>15, Zenon DEF Reset, NoAp, LogOrder
<1>16. CASE BeginWrite \/ \E r \in Readers : Pin(r) \/ Unpin(r)
  BY <1>3, <1>16, Zenon DEF BeginWrite, Pin, Unpin, memVars, verVars, procVars
<1>17. CASE NewDB \/ NewDBCurrent
  BY <1>1, <1>17, Zenon DEF NewDB, NewDBCurrent, LogOrder, Phases, memVars, verVars
<1> QED
  BY <1>4, <1>5, <1>6, <1>7, <1>8, <1>9, <1>10, <1>11, <1>12, <1>13, <1>14, <1>15,
     <1>16,
     <1>17, Zenon DEF Next, OpenFail, OpenGiveUp, Crash

----------------------------------------------------------------------------
(* The files of a new database, and all steps together.                    *)

(* NewDB writes the first MANIFEST, then CURRENT.                          *)
LEMMA NewDBCore ==
  ASSUME FInv, NewDB \/ NewDBCurrent
  PROVE  CoreInv'
<1>1. TablesInv /\ EditInv /\ ManifestInv /\ ManifestTypes /\ VerTypes /\ Phases
  BY Zenon DEF FInv, TInv, FileTypes, StateTypes
<1>2. /\ up \in {"down", "newdb"} /\ up' \in {"down", "newdb"}
      /\ UNCHANGED <<tables, vs, cur, pins, pending, fl, cp, ap, rc, bgError>>
  BY Zenon DEF NewDB, NewDBCurrent, verVars
<1>3. current = 0
  BY <1>1, Zenon DEF NewDB, NewDBCurrent, ManifestInv
<1>4. \A f : (InUse(f)' <=> InUse(f)) /\ (Building(f)' <=> Building(f))
  BY <1>2, Zenon DEF InUse, Building
<1>5. EditInv' /\ ExactInv'
  BY <1>1, <1>2, Zenon DEF EditInv, ExactInv, Phases
<1>6. ASSUME \A f : Recorded(f)' => Recorded(f) PROVE TablesInv'
  BY <1>1, <1>2, <1>4, <1>6, Zenon DEF TablesInv
<1>7. CASE NewDB
  <2>1. /\ up' = "newdb" /\ current' = current
        /\ manifests' = With(manifests, 1, [edits |-> <<FirstEdit>>, synced |-> 0])
    BY <1>7, Zenon DEF NewDB
  <2>2. current \notin DOMAIN manifests /\ current \notin DOMAIN manifests'
    BY <1>1, <1>3, <2>1 DEF ManifestTypes, With
  <2>3. Manifest' = Manifest
    BY <2>1, <2>2, ManifestUntouched, Zenon
  <2>4. /\ Len(Manifest.edits)' = Len(Manifest.edits)
        /\ ManifestLengths' = ManifestLengths /\ \A n : V(n)' = V(n)
        /\ V(Len(Manifest.edits))' = V(Len(Manifest.edits))
        /\ \A f : Recorded(f)' <=> Recorded(f)
    BY <2>3, ManifestSame, Zenon DEF V
  <2>5. ASSUME NEW n \in ManifestLengths PROVE RecoveryInv(n)'
    <3>1. RecoveryInv(n)
      BY <1>1, Zenon DEF ManifestInv
    <3> QED
      BY <1>2, <2>1, <2>4, <3>1, Zenon DEF RecoveryInv, Alive
  <2>6. 1 \in DOMAIN manifests' /\ manifests'[1] = [edits |-> <<FirstEdit>>, synced |-> 0]
    BY <2>1, Zenon DEF With
  <2>7. ManifestInv'
    BY <1>3, <2>1, <2>4, <2>5, <2>6, Zenon DEF ManifestInv, Alive
  <2> QED
    BY <1>5, <1>6, <2>4, <2>7, Zenon DEF CoreInv
<1>8. CASE NewDBCurrent
  <2>1. /\ up' = "down" /\ current' = 1 /\ UNCHANGED manifests
        /\ 1 \in DOMAIN manifests /\ manifests[1] = [edits |-> <<FirstEdit>>, synced |-> 0]
    BY <1>1, <1>8, Zenon DEF NewDBCurrent, ManifestInv
  <2>2. PICK E : E = <<FirstEdit>>
    BY Zenon
  <2>3. FirstEdit \in Edits /\ FirstEdit.ok /\ FirstEdit.add = {} /\ FirstEdit.next = 2
    BY NoEditTyped, Zenon DEF FirstEdit, NoEdit
  <2>4. E \in Seq(Edits) /\ Len(E) = 1 /\ E[1] = FirstEdit
    BY <2>2, <2>3
  <2>5. Manifest'.edits = E /\ Manifest'.synced = 0
    BY <2>1, <2>2 DEF Manifest
  <2>6. /\ ManifestLengths' = {0, 1} /\ \A n : V(n)' = Replay(E, n)
        /\ V(Len(Manifest.edits))' = Replay(E, 1)
    <3>1. ManifestLengths' = 0..1
      BY <2>4, <2>5, Zenon DEF ManifestLengths
    <3>2. 0..1 = {0, 1}
      OBVIOUS
    <3>3. \A n : V(n)' = Replay(E, n)
      BY <2>5, Zenon DEF V
    <3>4. Len(Manifest.edits)' = 1
      BY <2>4, <2>5, Zenon
    <3>5. V(Len(Manifest.edits))' = Replay(E, 1)
      BY <2>5, <3>4, Zenon DEF V
    <3> QED
      BY <3>1, <3>2, <3>3, <3>5, Zenon
  <2>7. Replay(E, 0).files = {} /\ Replay(E, 0).bad /\ Replay(E, 0).next = 0
    BY ReplayNothing, Zenon
  <2>8. Replay(E, 1).files = {} /\ Replay(E, 1).next = 2
    <3>1. 1 \in 1..Len(E) /\ 1 - 1 = 0
      BY <2>4
    <3> QED
      BY <2>3, <2>4, <2>7, <3>1, ReplayMore, ZenonT(30)
  <2>9. \A f : ~Recorded(f)'
    BY <2>6, <2>7, <2>8, Zenon DEF Recorded
  <2>10. ASSUME NEW n \in ManifestLengths' PROVE RecoveryInv(n)'
    <3>1. /\ V(n)'.files = {} /\ V(n)'.next <= 2 /\ V(Len(Manifest.edits))'.next = 2
          /\ ~V(n)'.bad => 1 < V(n)'.next
      BY <2>6, <2>7, <2>8
    <3>2. ap.pc = "idle"
      BY <1>1, <1>2, Zenon DEF Phases
    <3> QED
      BY <1>2, <2>1, <3>1, <3>2, Zenon DEF RecoveryInv, Alive
  <2>11. ManifestInv'
    BY <2>1, <2>10, Zenon DEF ManifestInv, Alive
  <2> QED
    BY <1>5, <1>6, <2>9, <2>11, Zenon DEF CoreInv
<1> QED
  BY <1>7, <1>8, Zenon

(* A directory without files, or one that a database has left.             *)
LEMMA StartCore == Init => CoreInv
<1> SUFFICES ASSUME Init PROVE CoreInv
  BY Zenon
<1>1. /\ up = "down" /\ cur = {} /\ cp = NoCp /\ fl = NoFl /\ ap = NoAp /\ rc = NoRc
      /\ \A r \in Readers : pins[r] = {}
  BY Zenon DEF Init
<1>2. /\ ap.pc = "idle" /\ ap.edit.add = {} /\ rc.add = {} /\ cp.ver = {} /\ cp.inputs = {}
      /\ cp.pc = "idle" /\ fl.pc = "idle"
  BY <1>1, Zenon DEF NoCp, NoFl, NoAp, NoRc, NoEdit
<1>3. \A f : ~InUse(f) /\ ~Building(f)
  BY <1>1, <1>2, Zenon DEF InUse, Building
<1>4. FirstEdit \in Edits /\ FirstEdit.ok /\ FirstEdit.add = {} /\ FirstEdit.next = 2
  BY NoEditTyped, Zenon DEF FirstEdit, NoEdit
<1>5. \A n \in ManifestLengths : V(n).files = {} /\ (~V(n).bad => current < V(n).next)
                                 /\ V(n).next <= V(Len(Manifest.edits)).next
  <2>1. CASE ~Created
    <3>1. current \notin DOMAIN manifests
      BY <2>1, Zenon DEF Init, NoFiles
    <3>2. Manifest.edits = <<>> /\ Manifest.synced = 0
      BY <3>1, Zenon DEF Manifest
    <3>3. Len(Manifest.edits) = 0 /\ \A n \in ManifestLengths : n = 0
      BY <3>2 DEF ManifestLengths
    <3>4. V(0).files = {} /\ V(0).bad /\ V(0).next = 0
      BY ReplayNothing, Zenon DEF V
    <3> QED
      BY <3>3, <3>4
  <2>2. CASE Created
    <3>1. /\ current = 1 /\ 1 \in DOMAIN manifests
          /\ manifests[1] = [edits |-> <<FirstEdit>>, synced |-> 1]
      BY <2>2, Zenon DEF Init
    <3>2. PICK E : E = <<FirstEdit>>
      BY Zenon
    <3>3. E \in Seq(Edits) /\ Len(E) = 1 /\ E[1] = FirstEdit /\ 1 \in 1..Len(E) /\ 1 - 1 = 0
      BY <1>4, <3>2
    <3>4. Manifest.edits = E /\ Manifest.synced = 1
      BY <3>1, <3>2 DEF Manifest
    <3>5. Len(Manifest.edits) = 1 /\ \A n \in ManifestLengths : n = 1
      <4>1. Len(Manifest.edits) = 1
        BY <3>3, <3>4, Zenon
      <4>2. ManifestLengths = 1..1
        BY <3>4, <4>1, Zenon DEF ManifestLengths
      <4> QED
        BY <4>1, <4>2
    <3>6. Replay(E, 0).files = {}
      BY ReplayNothing, Zenon
    <3>7. Replay(E, 1).files = {} /\ Replay(E, 1).next = 2
      BY <1>4, <3>3, <3>6, ReplayMore, Zenon
    <3>8. V(1).files = {} /\ V(1).next = 2
      BY <3>4, <3>7, Zenon DEF V
    <3> QED
      BY <3>1, <3>5, <3>8
  <2> QED
    BY <2>1, <2>2, SettingAssumption, Zenon
<1>6. TablesInv /\ EditInv /\ ExactInv
  BY <1>1, <1>2, <1>3, <1>5, Zenon DEF TablesInv, EditInv, ExactInv, Recorded
<1>7. ManifestInv
  <2>1. \A n \in ManifestLengths : RecoveryInv(n)
    BY <1>1, <1>2, <1>5, Zenon DEF RecoveryInv, Alive
  <2>2. current # 0 => current \in DOMAIN manifests
    BY Zenon DEF Init
  <2> QED
    BY <1>1, <2>1, <2>2, Zenon DEF ManifestInv, Alive
<1> QED
  BY <1>6, <1>7, Zenon DEF CoreInv

(* No step of the database breaks the invariant.                           *)
LEMMA CoreStep ==
  ASSUME FInv, Next
  PROVE  CoreInv'
<1>1. CASE SwitchLog \/ BeginWrite \/ AddRecord \/ SyncLog \/ Insert
  BY <1>1, WriterCore, Zenon
<1>2. CASE \E r \in Readers : Pin(r) \/ Unpin(r)
  BY <1>2, ReaderCore, Zenon
<1>3. CASE ApplyAppend \/ ApplySync \/ ApplyCurrent
  BY <1>3, ApplyAppendCore, ApplySyncCore, ApplyCurrentCore, Zenon
<1>4. CASE FlushInstall \/ CompactInstall \/ MoveInstall \/ OpenInstall
  BY <1>4, InstallCore, MoveInstallCore, OpenInstallCore, Zenon
<1>5. CASE FlushFail \/ CompactFail \/ OpenFail \/ OpenGiveUp
  BY <1>5, ApplyFailCore, OpenFailCore, Zenon
<1>6. CASE FlushStart \/ FlushBuilt \/ CompactStart \/ CompactOpenOutput \/ CompactFinish
  BY <1>6, AllocateCore, FlushBuiltCore, CompactStartCore, CompactFinishCore, Zenon
<1>7. CASE NewDB \/ NewDBCurrent \/ OpenRecover \/ RecoverLogFile \/ OpenApply
  BY <1>7, NewDBCore, OpenRecoverCore, RecoverLogFileCore, OpenApplyCore, Zenon
<1>8. CASE Crash
  BY <1>8, CrashCore, Zenon
<1> QED
  BY <1>1, <1>2, <1>3, <1>4, <1>5, <1>6, <1>7, <1>8, Zenon DEF Next

(* What a step does to the MANIFEST that CURRENT names.                    *)
LEMMA ManifestStep ==
  ASSUME FInv, Next
  PROVE  \/ Manifest' = Manifest /\ UNCHANGED current
         \/ /\ up = "open" /\ ap.pc = "append" /\ UNCHANGED current
            /\ \/ manifests' = WithEdit(ap.edit)
               \/ /\ "torn" \in Faults
                  /\ manifests' = WithEdit([ap.edit EXCEPT !.ok = FALSE])
         \/ /\ ApplySync /\ up = "open" /\ UNCHANGED current
            /\ Manifest'.edits = Manifest.edits /\ Manifest'.synced = Len(Manifest.edits)
         \/ /\ ApplyCurrent /\ up = "opening" /\ current' # 0
            /\ Manifest'.edits = <<Snapshot, ap.edit>> /\ Manifest'.synced = 2
         \/ NewDBCurrent
         \/ /\ Crash /\ UNCHANGED current
            /\ \E n \in ManifestLengths : \E F \in Tails(Manifest.edits, n) :
                 Manifest'.edits = F /\ Manifest'.synced = Len(F)
<1>1. /\ ManifestInv /\ ManifestTypes /\ VerTypes /\ ApplyTypes /\ Phases
  BY Zenon DEF FInv, TInv, FileTypes, StateTypes
<1>2. ASSUME UNCHANGED current, NEW m, m # current, DOMAIN manifests' \cup {m} = DOMAIN manifests \cup {m},
             \A k \in DOMAIN manifests \ {m} : manifests'[k] = manifests[k]
      PROVE  Manifest' = Manifest
  <2>1. current \in DOMAIN manifests <=> current \in DOMAIN manifests'
    BY <1>2
  <2>2. current \in DOMAIN manifests => manifests'[current] = manifests[current]
    BY <1>2, Zenon
  <2> QED
    BY <1>2, <2>1, <2>2, ManifestUntouched, Zenon
<1>3. ASSUME UNCHANGED <<manifests, current>> PROVE Manifest' = Manifest /\ UNCHANGED current
  BY <1>3, ManifestUntouched, Zenon
<1>4. CASE \/ SwitchLog \/ BeginWrite \/ AddRecord \/ SyncLog \/ Insert
           \/ \E r \in Readers : Pin(r) \/ Unpin(r)
           \/ MoveInstall \/ OpenRecover \/ RecoverLogFile \/ OpenGiveUp
           \/ FlushStart \/ FlushBuilt \/ CompactStart \/ CompactOpenOutput \/ CompactFinish
  <2>1. UNCHANGED <<manifests, current>>
    <3>1. CASE SwitchLog \/ BeginWrite \/ AddRecord \/ SyncLog \/ Insert
      BY <3>1, Zenon
         DEF SwitchLog, BeginWrite, AddRecord, SyncLog, Insert, EndWrite, disk
    <3>2. CASE \E r \in Readers : Pin(r) \/ Unpin(r)
      BY <3>2, Zenon DEF Pin, Unpin, disk
    <3>3. CASE MoveInstall \/ OpenRecover \/ RecoverLogFile \/ OpenGiveUp
      BY <3>3, Zenon DEF MoveInstall, OpenRecover, RecoverLogFile, OpenGiveUp, disk
    <3>4. CASE FlushStart \/ FlushBuilt
      BY <3>4, Zenon DEF FlushStart, FlushBuilt, disk
    <3>5. CASE CompactStart \/ CompactOpenOutput \/ CompactFinish
      <4>1. CASE CompactFinish
        BY <4>1, Zenon DEF CompactFinish, DeleteObsoleteFiles, disk
      <4> QED
        BY <3>5, <4>1, Zenon DEF CompactStart, CompactOpenOutput, disk
    <3> QED
      BY <1>4, <3>1, <3>2, <3>3, <3>4, <3>5, Zenon
  <2> QED
    BY <1>3, <2>1, Zenon
<1>5. CASE FlushInstall \/ CompactInstall \/ OpenInstall
  <2>1. /\ UNCHANGED current /\ current = vs.man /\ vs.man \in Nat /\ current \in DOMAIN manifests
    BY <1>1, <1>5, Zenon DEF FlushInstall, CompactInstall, OpenInstall, ManifestInv,
       Phases, Alive, VerTypes
  <2>2. PICK versions, outputs, error :
          DeleteObsoleteFiles(versions, outputs, ap.edit.log, manifests, error)
    BY <1>5, Zenon DEF FlushInstall, CompactInstall, OpenInstall
  <2>3. current >= vs.man
    BY <2>1
  <2>4. current \in DOMAIN manifests' /\ manifests'[current] = manifests[current]
    BY <2>1, <2>2, <2>3, DeleteKeeps, Zenon
  <2> QED
    BY <2>1, <2>4, ManifestUntouched, Zenon
<1>6. CASE FlushFail \/ CompactFail
  <2>1. UNCHANGED current /\ manifests' \in AfterFailedEdit /\ up = "open"
    <3>1. up = "open"
      BY <1>1, <1>6, Zenon DEF FlushFail, CompactFail, ApplyCanFail, Phases
    <3>2. CASE FlushFail
      BY <3>1, <3>2, Zenon DEF FlushFail
    <3>3. CASE CompactFail
      BY <3>1, <3>3, Zenon DEF CompactFail, DeleteObsoleteFiles
    <3> QED
      BY <1>6, <3>2, <3>3, Zenon
  <2>2. \/ manifests' = manifests
        \/ ap.pc = "append" /\ manifests' = WithEdit(ap.edit)
        \/ /\ ap.pc = "append" /\ "torn" \in Faults
           /\ manifests' = WithEdit([ap.edit EXCEPT !.ok = FALSE])
    BY <2>1, Zenon DEF AfterFailedEdit
  <2> QED
    BY <1>3, <2>1, <2>2, Zenon
<1>7. CASE ApplyAppend
  <2>1. CASE up = "open"
    BY <1>7, <2>1, Zenon DEF ApplyAppend
  <2>2. CASE up # "open"
    <3>1. current # vs.man /\ UNCHANGED current /\ manifests' = WithEdit(ap.edit)
      BY <1>1, <1>7, <2>2, Zenon DEF ApplyAppend, ManifestInv, Phases
    <3>2. /\ DOMAIN manifests' = DOMAIN manifests
          /\ \A k \in DOMAIN manifests \ {vs.man} : manifests'[k] = manifests[k]
      BY <3>1, Zenon DEF WithEdit
    <3> QED
      BY <1>2, <3>1, <3>2, Zenon
  <2> QED
    BY <2>1, <2>2, Zenon
<1>8. CASE ApplySync
  <2>1. /\ UNCHANGED current /\ DOMAIN manifests' = DOMAIN manifests
        /\ \A m \in DOMAIN manifests \ {vs.man} : manifests'[m] = manifests[m]
    BY <1>8, Zenon DEF ApplySync
  <2>2. CASE up = "open"
    <3>1. current = vs.man /\ current \in DOMAIN manifests
      BY <1>1, <2>2, Zenon DEF ManifestInv, Alive
    <3>2. manifests[current] \in [edits : Seq(Edits), synced : Nat]
      BY <1>1, <3>1, Zenon DEF ManifestTypes
    <3>3. /\ manifests'[current].edits = manifests[current].edits
          /\ manifests'[current].synced = Len(manifests[current].edits)
      BY <1>8, <3>1, <3>2, Zenon DEF ApplySync
    <3> QED
      BY <1>8, <2>1, <2>2, <3>1, <3>3, Zenon DEF Manifest
  <2>3. CASE up # "open"
    <3>1. current # vs.man
      BY <1>1, <1>8, <2>3, Zenon DEF ApplySync, ManifestInv, Phases
    <3> QED
      BY <1>2, <2>1, <3>1, Zenon
  <2> QED
    BY <2>2, <2>3, Zenon
<1>9. CASE ApplyCurrent
  <2>1. up = "opening" /\ ap.pc = "current"
    BY <1>1, <1>9, Zenon DEF ApplyCurrent, Phases
  <2>2. /\ vs.man \in DOMAIN manifests /\ manifests[vs.man].edits = <<Snapshot, ap.edit>>
        /\ manifests[vs.man].synced = 2
    BY <1>1, <2>1, Zenon DEF ManifestInv
  <2>3. vs.man # 0
    BY <1>1, <2>2 DEF ManifestTypes
  <2>4. current' = vs.man /\ UNCHANGED manifests
    BY <1>9, Zenon DEF ApplyCurrent
  <2> QED
    BY <1>9, <2>1, <2>2, <2>3, <2>4, Zenon DEF Manifest
<1>10. CASE NewDB
  <2>1. /\ UNCHANGED current /\ current # 1
        /\ DOMAIN manifests' = DOMAIN manifests \cup {1}
        /\ \A k \in DOMAIN manifests \ {1} : manifests'[k] = manifests[k]
    BY <1>10 DEF NewDB, With
  <2> QED
    BY <1>2, <2>1, Zenon
<1>11. CASE OpenApply
  <2>1. current \in Nat /\ vs.man \in Nat /\ current < vs.man
    BY <1>1, <1>11, Zenon DEF OpenApply, ManifestInv, VerTypes
  <2>2. /\ UNCHANGED current /\ current # vs.man
        /\ DOMAIN manifests' = DOMAIN manifests \cup {vs.man}
        /\ \A k \in DOMAIN manifests \ {vs.man} : manifests'[k] = manifests[k]
    BY <1>11, <2>1 DEF OpenApply, With
  <2> QED
    BY <1>2, <2>2, Zenon
<1>12. CASE OpenFail
  <2>1. /\ ap.pc \in {"append", "sync", "current"} /\ up = "opening" /\ UNCHANGED current
    BY <1>1, <1>12, Zenon DEF OpenFail, ApplyCanFail, Phases
  <2>2. /\ current # vs.man
        /\ DOMAIN manifests' \cup {vs.man} = DOMAIN manifests \cup {vs.man}
        /\ \A k \in DOMAIN manifests \ {vs.man} : manifests'[k] = manifests[k]
    BY <1>1, <1>12, <2>1, Zenon DEF OpenFail, Restrict, ManifestInv
  <2> QED
    BY <1>2, <2>1, <2>2, Zenon
<1>13. CASE Crash
  <2>1. UNCHANGED current /\ DOMAIN manifests' = DOMAIN manifests
    BY <1>13, Zenon DEF Crash
  <2>2. CASE current \in DOMAIN manifests
    <3>1. PICK n \in ManifestLengths :
            \E tail \in Tails(Manifest.edits, n) :
              manifests'[current] = [edits |-> tail, synced |-> Len(tail)]
      BY <1>13, <2>2, Zenon DEF Crash
    <3>2. PICK tail \in Tails(Manifest.edits, n) :
            manifests'[current] = [edits |-> tail, synced |-> Len(tail)]
      BY <3>1, Zenon
    <3>3. Manifest'.edits = tail /\ Manifest'.synced = Len(tail)
      BY <2>1, <2>2, <3>2 DEF Manifest
    <3> QED
      BY <1>13, <2>1, <3>2, <3>3, Zenon
  <2>3. CASE current \notin DOMAIN manifests
    BY <2>1, <2>3, ManifestUntouched, Zenon
  <2> QED
    BY <2>2, <2>3, Zenon
<1>14. CASE NewDBCurrent
  BY <1>14, Zenon
<1> QED
  BY <1>4, <1>5, <1>6, <1>7, <1>8, <1>9, <1>10, <1>11, <1>12, <1>13, <1>14, Zenon
     DEF Next

----------------------------------------------------------------------------
(* The results.                                                            *)

LEMMA FilesStep == FInv /\ [Next]_vars => FInv'
<1> SUFFICES ASSUME FInv, [Next]_vars PROVE FInv'
  BY Zenon
<1>1. CASE Next
  <2>1. /\ FileTypes' /\ StateTypes' /\ SeqBound' /\ Phases' /\ LogOrder'
    BY <1>1, LogTypesStep, TableTypesStep, ManifestTypesStep, StateTypesStep,
       SeqBoundStep,
       PhasesStep, LogOrderStep, Zenon DEF FileTypes
  <2>2. CoreInv'
    BY <1>1, CoreStep, Zenon
  <2> QED
    BY <2>1, <2>2, Zenon DEF FInv, TInv, CoreInv
<1>2. CASE UNCHANGED vars
  <2>1. /\ UNCHANGED <<logs, tables, manifests, current>> /\ UNCHANGED memVars
        /\ UNCHANGED verVars /\ UNCHANGED procVars /\ UNCHANGED hist
    BY <1>2, Zenon DEF vars, disk
  <2>2. /\ UNCHANGED <<vs, cur, pins, pending>> /\ UNCHANGED <<mem, imm, hasImm, logNum>>
        /\ UNCHANGED <<up, bgError, wr, fl, cp, ap, rc>>
        /\ UNCHANGED <<issued, acked, crashes>>
    BY <2>1, Zenon DEF memVars, verVars, procVars, hist
  <2>3. FileTypes' /\ StateTypes'
    <3>1. LogTypes' /\ TableTypes' /\ ManifestTypes'
      BY <2>1, Zenon DEF FInv, TInv, FileTypes, LogTypes, TableTypes, ManifestTypes
    <3>2. VerTypes' /\ MemTypes' /\ HistTypes'
      BY <2>1, <2>2, Zenon DEF FInv, TInv, StateTypes, VerTypes, MemTypes, HistTypes
    <3>3. ProcTypes'
      BY <2>2 DEF FInv, TInv, StateTypes, ProcTypes
    <3>4. ApplyTypes'
      BY <2>2 DEF FInv, TInv, StateTypes, ApplyTypes
    <3> QED
      BY <3>1, <3>2, <3>3, <3>4, Zenon DEF FileTypes, StateTypes
  <2>4. SeqBound' /\ Phases' /\ LogOrder'
    BY <2>1, <2>2, Zenon DEF FInv, TInv, SeqBound, Phases, LogOrder
  <2>5. CoreInv'
    <3>1. vs'.next \in Nat /\ vs'.next >= vs.next
      BY <2>2 DEF FInv, TInv, StateTypes, VerTypes
    <3>2. \A f : InUse(f)' => InUse(f)
      BY <2>2, Zenon DEF InUse
    <3> QED
      BY <2>1, <2>2, <3>1, <3>2, CalmStep, Zenon
  <2> QED
    BY <2>3, <2>4, <2>5, Zenon DEF FInv, TInv, CoreInv
<1> QED
  BY <1>1, <1>2, Zenon

LEMMA FilesInvariant == Spec => []FInv
<1>1. Init => FInv
  BY StartTypes, StartCore, Zenon DEF FInv, CoreInv
<1> QED
  BY <1>1, FilesStep, PTL DEF Spec

(* Every file and every variable of the database has its type, whatever    *)
(* the writer, the readers, the background work, failed writes, crashes    *)
(* and recoveries do, for any number of each.                              *)
THEOREM TypeCorrect == Spec => []TypeOK
<1>1. FInv => TypeOK
  <2> SUFFICES ASSUME FInv PROVE TypeOK
    BY Zenon
  <2>1. /\ LogTypes /\ TableTypes /\ ManifestTypes /\ StateTypes
    BY Zenon DEF FInv, TInv, FileTypes
  <2>2. \A l \in DOMAIN logs : /\ logs[l].recs \in Seq([w : Writes, ok : BOOLEAN])
                               /\ logs[l].synced \in 0..Len(logs[l].recs)
    <3> SUFFICES ASSUME NEW l \in DOMAIN logs
                 PROVE  /\ logs[l].recs \in Seq([w : Writes, ok : BOOLEAN])
                        /\ logs[l].synced \in 0..Len(logs[l].recs)
      BY Zenon
    <3>1. logs[l].recs \in Seq(Records) /\ logs[l].synced \in Nat
          /\ logs[l].synced <= Len(logs[l].recs)
      BY <2>1, Zenon DEF LogTypes
    <3>2. Len(logs[l].recs) \in Nat
      BY <3>1
    <3>3. logs[l].recs \in Seq([w : Writes, ok : BOOLEAN])
      BY <3>1, Zenon DEF Records
    <3> QED
      BY <3>1, <3>2, <3>3
  <2>3. \A m \in DOMAIN manifests : /\ manifests[m].edits \in Seq(Edits)
                                    /\ manifests[m].synced \in 0..Len(manifests[m].edits)
    BY <2>1 DEF ManifestTypes
  <2>4. \A t \in DOMAIN tables : tables[t].data \subseteq Writes /\ tables[t].ok \in BOOLEAN
    BY <2>1, Zenon DEF TableTypes
  <2>5. /\ DOMAIN logs \subseteq 0..MaxFile /\ DOMAIN tables \subseteq 0..MaxFile
        /\ DOMAIN manifests \subseteq 0..MaxFile
    BY <2>1, BoundAssumption DEF LogTypes, TableTypes, ManifestTypes
  <2> QED
    BY <2>1, <2>2, <2>3, <2>4, <2>5, Zenon DEF TypeOK, StateTypes, VerTypes,
       MemTypes, ProcTypes,
         ApplyTypes, HistTypes
<1> QED
  BY <1>1, FilesInvariant, PTL

(* DeleteObsoleteFiles never deletes a table that the current version, the *)
(* version a compaction reads or one pinned by a reader needs, and none of *)
(* them is incomplete: with every kind of failed write, torn edits of the  *)
(* MANIFEST and recoveries that fail included.                             *)
THEOREM FilesKept == Spec => []LiveFilesExist
<1>1. FInv => LiveFilesExist
  <2> SUFFICES ASSUME FInv, NEW f \in cur \cup cp.ver \cup UNION Range(pins)
               PROVE  f \in DOMAIN tables /\ tables[f].ok
    BY Zenon DEF LiveFilesExist
  <2>1. InUse(f)
    <3>1. CASE f \in UNION Range(pins)
      BY <3>1, Zenon DEF InUse, Range, FInv, TInv, StateTypes, VerTypes
    <3> QED
      BY <3>1, Zenon DEF InUse
  <2> QED
    BY <2>1, Zenon DEF FInv, TablesInv
<1> QED
  BY <1>1, FilesInvariant, PTL

(* The MANIFEST of a new database.                                         *)
LEMMA FirstNumbered ==
  ASSUME NEW E, E = <<FirstEdit>>, NEW k \in Nat
  PROVE  /\ Len(E) = 1 /\ \A i \in 1..Len(E) : E[i].ok
         /\ \A n \in (k..Len(E)) \ {0} : E[n].next # 0
<1>1. Len(E) = 1 /\ E[1] = FirstEdit
  BY Zenon
<1>2. FirstEdit.next = 2 /\ FirstEdit.ok
  BY Zenon DEF FirstEdit, NoEdit
<1>3. /\ \A i \in 1..1 : i = 1
      /\ \A n \in (k..1) \ {0} : n = 1
  OBVIOUS
<1>4. FirstEdit.next # 0
  BY <1>2
<1> QED
  BY <1>1, <1>2, <1>3, <1>4, Zenon

LEMMA NumberedStep ==
  ASSUME FInv, Numbered, Next
  PROVE  Numbered'
<1>1. /\ ManifestInv /\ ManifestTypes /\ VerTypes /\ ApplyTypes /\ EditInv /\ Phases
  BY Zenon DEF FInv, TInv, FileTypes, StateTypes
<1>2. PICK E, L : E = Manifest.edits /\ L = Len(E)
  BY Zenon
<1>3. E \in Seq(Edits) /\ L \in Nat /\ ManifestLengths \subseteq 0..L
  BY <1>1, <1>2, ManifestTyped, Zenon
<1>4. ap.pc # "idle" => ap.edit \in Edits /\ ap.edit.next # 0
  <2>1. ap.pc # "idle" => vs.man \in Nat /\ ap.edit.next \in Nat /\ vs.man < ap.edit.next
    BY <1>1, Zenon DEF VerTypes, ApplyTypes, Edits, EditInv
  <2> QED
    BY <1>1, <2>1 DEF ApplyTypes
<1>5. CASE Manifest' = Manifest
  <2>1. ManifestLengths' = ManifestLengths
    BY <1>5, ManifestSame, Zenon
  <2> QED
    BY <1>5, <2>1, Zenon DEF Numbered
<1>6. ASSUME NEW e \in Edits, e.next # 0, up = "open", ap.pc = "append", UNCHANGED current,
             manifests' = WithEdit(e)
      PROVE  Numbered'
  <2>1. current = vs.man /\ current \in DOMAIN manifests
    BY <1>1, <1>6, Zenon DEF ManifestInv, Alive
  <2>2. ManifestLengths' = ManifestLengths \cup {L + 1}
    BY <1>1, <1>2, <1>3, <1>6, <2>1, ManifestAppended, Zenon
  <2>3. manifests[current] \in [edits : Seq(Edits), synced : Nat]
    BY <1>1, <2>1, Zenon DEF ManifestTypes
  <2>4. manifests'[current].edits = Append(E, e) /\ current \in DOMAIN manifests'
    BY <1>2, <1>6, <2>1, <2>3, Zenon DEF WithEdit, Manifest
  <2>5. Manifest'.edits = Append(E, e)
    BY <1>6, <2>4, Zenon DEF Manifest
  <2>6. Append(E, e)[L + 1] = e /\ \A i \in 1..L : Append(E, e)[i] = E[i]
    BY <1>2, <1>3
  <2>7. \A n \in ManifestLengths \ {0} : n \in 1..L
    BY <1>3
  <2> QED
    BY <1>2, <1>6, <2>2, <2>5, <2>6, <2>7, Zenon DEF Numbered
<1>7. CASE Manifest'.edits = Manifest.edits /\ Manifest'.synced = Len(Manifest.edits)
  <2>1. \A n \in ManifestLengths' : n \in ManifestLengths
    BY <1>1, <1>7, ManifestTyped DEF ManifestLengths
  <2> QED
    BY <1>7, <2>1, Zenon DEF Numbered
<1>8. CASE /\ ApplyCurrent
           /\ Manifest'.edits = <<Snapshot, ap.edit>> /\ Manifest'.synced = 2
  <2>1. ap.edit.next # 0
    BY <1>4, <1>8, Zenon DEF ApplyCurrent
  <2>2. PICK F : F = <<Snapshot, ap.edit>>
    BY Zenon
  <2>3. Len(F) = 2 /\ F[2] = ap.edit
    BY <2>2, Zenon
  <2>4. ManifestLengths' = 2..2
    BY <1>8, <2>2, <2>3, Zenon DEF ManifestLengths
  <2>5. \A n \in ManifestLengths' : n = 2
    BY <2>4
  <2> QED
    BY <1>8, <2>1, <2>2, <2>3, <2>5, Zenon DEF Numbered
<1>9. CASE NewDBCurrent
  <2>1. /\ current' = 1 /\ 1 \in DOMAIN manifests'
        /\ manifests'[1] = [edits |-> <<FirstEdit>>, synced |-> 0]
    BY <1>1, <1>9, Zenon DEF NewDBCurrent, ManifestInv
  <2>2. PICK F : F = <<FirstEdit>>
    BY Zenon
  <2>3. Manifest'.edits = F /\ Manifest'.synced = 0
    BY <2>1, <2>2 DEF Manifest
  <2>4. 0 \in Nat
    OBVIOUS
  <2> QED
    BY <2>2, <2>3, <2>4, FirstNumbered, Zenon DEF Numbered, ManifestLengths
<1>10. ASSUME NEW n \in ManifestLengths, NEW F \in Tails(Manifest.edits, n),
              Manifest'.edits = F, Manifest'.synced = Len(F)
       PROVE  Numbered'
  <2>1. n \in Nat /\ n \in 0..L
    BY <1>3
  <2>2. CASE F = SubSeq(E, 1, n)
    <3>1. Len(F) = n /\ \A i \in 1..n : F[i] = E[i]
      BY <1>2, <1>3, <2>1, <2>2
    <3>2. \A k \in ManifestLengths' : k = n
      BY <1>10, <2>1, <3>1 DEF ManifestLengths
    <3>3. n # 0 => n \in 1..n
      BY <2>1
    <3> QED
      BY <1>2, <1>10, <3>1, <3>2, <3>3, Zenon DEF Numbered
  <2>3. CASE n < L /\ F = Append(SubSeq(E, 1, n), [E[n + 1] EXCEPT !.ok = FALSE])
    <3>1. PICK e : e = [E[n + 1] EXCEPT !.ok = FALSE]
      BY Zenon
    <3>2. E[n + 1] \in Edits /\ n + 1 # 0 /\ n + 1 \in ManifestLengths
      BY <1>1, <1>2, <1>3, <2>1, <2>3, ManifestTyped DEF ManifestLengths
    <3>3. e.next = E[n + 1].next
      BY <3>1, <3>2, TornTyped, Zenon
    <3>4. e \in Edits
      BY <3>1, <3>2, TornTyped, Zenon
    <3>5. PICK S : S = SubSeq(E, 1, n)
      BY Zenon
    <3>6. S \in Seq(Edits) /\ Len(S) = n
      BY <1>2, <1>3, <2>1, <3>5
    <3>7. F = Append(S, e)
      BY <2>3, <3>1, <3>5, Zenon
    <3>8. Len(F) = n + 1 /\ F[n + 1] = e
      BY <2>1, <3>4, <3>6, <3>7
    <3>9. \A k \in ManifestLengths' : k = n + 1
      BY <1>10, <2>1, <3>8 DEF ManifestLengths
    <3> QED
      BY <1>2, <1>10, <3>2, <3>3, <3>8, <3>9, Zenon DEF Numbered
  <2> QED
    BY <1>2, <1>10, <2>2, <2>3, Zenon DEF Tails
<1>11. ASSUME "torn" \in Faults, up = "open", ap.pc = "append", UNCHANGED current,
              manifests' = WithEdit([ap.edit EXCEPT !.ok = FALSE])
       PROVE  Numbered'
  <2>1. PICK e : e = [ap.edit EXCEPT !.ok = FALSE]
    BY Zenon
  <2>2. e \in Edits /\ e.next = ap.edit.next /\ ap.edit.next # 0
    BY <1>4, <1>11, <2>1, TornTyped, Zenon
  <2> QED
    BY <1>6, <1>11, <2>1, <2>2, Zenon
<1>12. ASSUME up = "open", ap.pc = "append", UNCHANGED current, manifests' = WithEdit(ap.edit)
       PROVE  Numbered'
  BY <1>4, <1>6, <1>12, Zenon
<1> QED
  BY <1>5, <1>7, <1>8, <1>9, <1>10, <1>11, <1>12, ManifestStep, Zenon

LEMMA NumberedInvariant == Spec => []Numbered
<1>1. Init => Numbered
  <2> SUFFICES ASSUME Init PROVE Numbered
    BY Zenon
  <2>1. CASE Created
    <3>1. /\ current = 1 /\ 1 \in DOMAIN manifests
          /\ manifests[1] = [edits |-> <<FirstEdit>>, synced |-> 1]
      BY <2>1, Zenon DEF Init
    <3>2. PICK F : F = <<FirstEdit>>
      BY Zenon
    <3>3. Manifest.edits = F /\ Manifest.synced = 1
      BY <3>1, <3>2 DEF Manifest
    <3>4. 1 \in Nat
      OBVIOUS
    <3> QED
      BY <3>2, <3>3, <3>4, FirstNumbered, Zenon DEF Numbered, ManifestLengths
  <2>2. CASE ~Created
    <3>1. DOMAIN manifests = {}
      BY <2>2, Zenon DEF Init, NoFiles
    <3>2. Manifest.edits = <<>> /\ Manifest.synced = 0
      BY <3>1, Zenon DEF Manifest
    <3>3. Len(<<>>) = 0 /\ \A n \in 0..0 : n = 0
      OBVIOUS
    <3> QED
      BY <3>2, <3>3, Zenon DEF Numbered, ManifestLengths
  <2> QED
    BY <2>1, <2>2, Zenon
<1>2. FInv /\ Numbered /\ [Next]_vars => Numbered'
  <2>1. ASSUME FInv, Numbered, UNCHANGED vars PROVE Numbered'
    <3>1. UNCHANGED <<manifests, current>>
      BY <2>1, Zenon DEF vars, disk
    <3>2. Manifest' = Manifest
      BY <3>1, ManifestUntouched, Zenon
    <3>3. ManifestLengths' = ManifestLengths
      BY <3>2, ManifestSame, Zenon
    <3> QED
      BY <2>1, <3>2, <3>3, Zenon DEF Numbered
  <2> QED
    BY <2>1, NumberedStep, Zenon
<1> QED
  BY <1>1, <1>2, FilesInvariant, PTL DEF Spec

(* Whatever fails, whenever the machine crashes and also while a database  *)
(* is being created: when what is left of the MANIFEST is not empty and    *)
(* has no edit of which only a part was written, VersionSet::Recover can   *)
(* read it, and every table of the version that it finds is there and      *)
(* complete.                                                               *)
THEOREM WholeManifestOpens == Spec => []OpenableIfWhole
<1>1. FInv /\ Numbered => OpenableIfWhole
  <2> SUFFICES ASSUME FInv, Numbered, NEW n \in ManifestLengths \ {0},
                      \A i \in 1..n : Manifest.edits[i].ok
               PROVE  Opens(n)
    BY Zenon DEF OpenableIfWhole
  <2>1. PICK E : E = Manifest.edits
    BY Zenon
  <2>2. ManifestTypes
    BY Zenon DEF FInv, TInv, FileTypes
  <2>3. E \in Seq(Edits) /\ n \in 1..Len(E) /\ n \in Nat /\ n \in 1..n
    BY <2>1, <2>2, ManifestTyped
  <2>4. Replay(E, n).next = E[n].next
    <3>1. Applies(Replay(E, n), Replay(E, n - 1), E[n])
      BY <2>3, ReplayNext, Zenon
    <3> QED
      BY <2>1, <2>3, <3>1, Zenon DEF Applies
  <2>5. ~Replay(E, n).bad
    BY <2>1, <2>3, <2>4, ReplayGood, Zenon DEF Numbered
  <2>6. \A f \in Replay(E, n).files : Recorded(f)
    BY <2>1, Zenon DEF Recorded, V
  <2>7. \A f : Recorded(f) => f \in DOMAIN tables /\ tables[f].ok
    BY Zenon DEF FInv, TablesInv
  <2> QED
    BY <2>1, <2>5, <2>6, <2>7, Zenon DEF Opens
<1> QED
  BY <1>1, NumberedInvariant, FilesInvariant, PTL

LEMMA GoodStep ==
  ASSUME FInv, Good, "torn" \notin Faults, Next
  PROVE  Good'
<1>1. /\ ManifestInv /\ ManifestTypes /\ VerTypes /\ ApplyTypes /\ EditInv /\ Phases
  BY Zenon DEF FInv, TInv, FileTypes, StateTypes
<1>2. PICK E, L : E = Manifest.edits /\ L = Len(E)
  BY Zenon
<1>3. E \in Seq(Edits) /\ L \in Nat /\ ManifestLengths \subseteq 0..L
  BY <1>1, <1>2, ManifestTyped, Zenon
<1>4. CASE Manifest' = Manifest /\ UNCHANGED current
  <2>1. ManifestLengths' = ManifestLengths
    BY <1>4, ManifestSame, Zenon
  <2> QED
    BY <1>4, <2>1, Zenon DEF Good
<1>5. CASE up = "open" /\ ap.pc = "append" /\ UNCHANGED current /\ manifests' = WithEdit(ap.edit)
  <2>1. /\ current = vs.man /\ current \in DOMAIN manifests /\ ap.edit \in Edits /\ ap.edit.ok
    BY <1>1, <1>5, Zenon DEF ManifestInv, Alive, ApplyTypes, EditInv
  <2>2. PICK e : e = ap.edit
    BY Zenon
  <2>3. ManifestLengths' = ManifestLengths \cup {L + 1}
    BY <1>1, <1>2, <1>3, <1>5, <2>1, <2>2, ManifestAppended, Zenon
  <2>4. manifests[current] \in [edits : Seq(Edits), synced : Nat]
    BY <1>1, <2>1, Zenon DEF ManifestTypes
  <2>5. manifests'[current].edits = Append(E, e) /\ current \in DOMAIN manifests'
    BY <1>2, <1>5, <2>1, <2>2, <2>4, Zenon DEF WithEdit, Manifest
  <2>6. Manifest'.edits = Append(E, e)
    BY <1>5, <2>5, Zenon DEF Manifest
  <2>7. \A i \in 1..Len(Append(E, e)) : Append(E, e)[i].ok
    <3>1. Len(Append(E, e)) = L + 1 /\ Append(E, e)[L + 1] = e /\ \A i \in 1..L : Append(E, e)[i] = E[i]
      BY <1>2, <1>3, <2>1, <2>2
    <3>2. \A i \in 1..(L + 1) : i \in 1..L \/ i = L + 1
      BY <1>3
    <3> QED
      BY <1>2, <2>1, <2>2, <3>1, <3>2, Zenon DEF Good
  <2>8. L + 1 # 0
    BY <1>3
  <2> QED
    BY <1>5, <2>3, <2>6, <2>7, <2>8, Zenon DEF Good
<1>6. CASE /\ UNCHANGED current
           /\ Manifest'.edits = Manifest.edits /\ Manifest'.synced = Len(Manifest.edits)
  <2>1. \A n \in ManifestLengths' : n \in ManifestLengths
    BY <1>1, <1>6, ManifestTyped DEF ManifestLengths
  <2> QED
    BY <1>6, <2>1, Zenon DEF Good
<1>7. CASE /\ ApplyCurrent /\ up = "opening" /\ current' # 0
           /\ Manifest'.edits = <<Snapshot, ap.edit>> /\ Manifest'.synced = 2
  <2>1. ap.edit.ok
    BY <1>1, <1>7, Zenon DEF ApplyCurrent, EditInv
  <2>2. PICK F : F = <<Snapshot, ap.edit>>
    BY Zenon
  <2>3. Len(F) = 2 /\ F[1] = Snapshot /\ F[2] = ap.edit
    BY <2>2, Zenon
  <2>4. Snapshot.ok
    BY SnapshotTyped, Zenon
  <2>5. ManifestLengths' = 2..2
    BY <1>7, <2>2, <2>3, Zenon DEF ManifestLengths
  <2>6. 0 \notin ManifestLengths'
    BY <2>5
  <2>7. \A i \in 1..Len(F) : F[i].ok
    <3>1. \A i \in 1..2 : i = 1 \/ i = 2
      OBVIOUS
    <3> QED
      BY <2>1, <2>3, <2>4, <3>1, Zenon
  <2> QED
    BY <1>7, <2>2, <2>6, <2>7, Zenon DEF Good
<1>8. CASE NewDBCurrent
  BY <1>1, <1>8, Zenon DEF NewDBCurrent, ManifestInv, Good
<1>9. ASSUME UNCHANGED current, NEW n \in ManifestLengths, NEW F \in Tails(Manifest.edits, n),
             Manifest'.edits = F, Manifest'.synced = Len(F)
      PROVE  Good'
  <2>1. F = SubSeq(E, 1, n)
    BY <1>2, <1>9, Zenon DEF Tails
  <2>2. n \in Nat /\ n \in 0..L
    BY <1>3, <1>9
  <2>3. Len(F) = n /\ \A i \in 1..n : F[i] = E[i] /\ i \in 1..L
    BY <1>2, <1>3, <2>1, <2>2
  <2>4. \A k \in ManifestLengths' : k = n
    BY <1>9, <2>2, <2>3 DEF ManifestLengths
  <2> QED
    BY <1>2, <1>9, <2>3, <2>4, Zenon DEF Good
<1> QED
  BY <1>4, <1>5, <1>6, <1>7, <1>8, <1>9, ManifestStep, Zenon

LEMMA GoodInvariant ==
  ASSUME Created, "torn" \notin Faults
  PROVE  Spec => []Good
<1>1. Init => Good
  <2> SUFFICES ASSUME Init PROVE Good
    BY Zenon
  <2>1. /\ current = 1 /\ 1 \in DOMAIN manifests
        /\ manifests[1] = [edits |-> <<FirstEdit>>, synced |-> 1]
    BY Zenon DEF Init
  <2>2. PICK F : F = <<FirstEdit>>
    BY Zenon
  <2>3. Manifest.edits = F /\ Manifest.synced = 1
    BY <2>1, <2>2 DEF Manifest
  <2>4. 1 \in Nat /\ 1 # 0 /\ 0 \notin 1..1
    OBVIOUS
  <2>5. Len(F) = 1 /\ \A i \in 1..Len(F) : F[i].ok
    BY <2>2, <2>4, FirstNumbered, Zenon
  <2> QED
    BY <2>1, <2>3, <2>4, <2>5, Zenon DEF Good, ManifestLengths
<1>2. FInv /\ Good /\ [Next]_vars => Good'
  <2>1. ASSUME FInv, Good, UNCHANGED vars PROVE Good'
    <3>1. UNCHANGED <<manifests, current>>
      BY <2>1, Zenon DEF vars, disk
    <3>2. Manifest' = Manifest
      BY <3>1, ManifestUntouched, Zenon
    <3>3. ManifestLengths' = ManifestLengths
      BY <3>2, ManifestSame, Zenon
    <3> QED
      BY <2>1, <3>1, <3>2, <3>3, Zenon DEF Good
  <2> QED
    BY <2>1, GoodStep, Zenon
<1> QED
  BY <1>1, <1>2, FilesInvariant, PTL DEF Spec

(* After any crash at any moment, failed writes of logs, tables and of the *)
(* MANIFEST included, VersionSet::Recover can read the MANIFEST that       *)
(* CURRENT names, and every table of the version that it finds there is    *)
(* there and complete: for a database whose creation was completed, and a  *)
(* file system that never leaves half an edit.                             *)
THEOREM AlwaysOpenable ==
  ASSUME Created, "torn" \notin Faults
  PROVE  Spec => []Openable
<1>1. FInv /\ Good /\ OpenableIfWhole => Openable
  <2> SUFFICES ASSUME FInv, Good, OpenableIfWhole, NEW n \in ManifestLengths
               PROVE  Opens(n)
    BY Zenon DEF Openable
  <2>1. n # 0 /\ \A i \in 1..n : i \in 1..Len(Manifest.edits)
    BY ManifestTyped DEF FInv, TInv, FileTypes, Good
  <2> QED
    BY <2>1, Zenon DEF Good, OpenableIfWhole
<1> QED
  BY <1>1, GoodInvariant, WholeManifestOpens, FilesInvariant, PTL

=============================================================================
