--------------------------- MODULE DBFilesNumbers ---------------------------
(***************************************************************************)
(* Proof that no sequence number is used twice, whatever fails and however *)
(* often the database is reopened.  The invariant says which numbers the   *)
(* tables, the logs and the memtables hold: at most LastSequence while the *)
(* database is open, at most the number in an edit for what that edit      *)
(* makes the MANIFEST responsible for, and what a recovery has not reached *)
(* yet it will still read.                                                 *)
(***************************************************************************)
EXTENDS DBFilesProofs

----------------------------------------------------------------------------
(* Sequence numbers.                                                       *)

(* The writes in a file that is used, those that a process or a recovery   *)
(* may take up from anywhere but a log, those that can be read from a log, *)
(* and all of them.                                                        *)
Filed(w) == \E f : Used(f) /\ w \in tables[f].data
Stored(w) == w \in mem \/ w \in imm \/ Filed(w)
Read(w, l) == l \in DOMAIN logs /\ w \in Readable(logs[l].recs, Len(logs[l].recs))
Held(w) == Stored(w) \/ \E l : Read(w, l)

(* No number is used twice, and those of an open database are not above    *)
(* LastSequence, but for that of the write that is being logged.           *)
Distinct == \A v, w : Held(v) /\ Held(w) /\ v.seq = w.seq => v = w
OpenSeq ==
  up = "open" =>
    /\ \A w : Stored(w) => w.seq <= vs.last
    /\ \A w, l : Read(w, l) =>
         w.seq <= vs.last \/ (wr.pc # "idle" /\ l = logNum /\ w = wr.w)
    /\ wr.pc # "idle" => wr.w.seq = vs.last + 1
    /\ \A n \in ManifestLengths : V(n).log <= logNum

(* The number in an edit is not below those in the tables and in the logs  *)
(* that it makes obsolete, in the MANIFEST and on the way there.           *)
ManifestSeq ==
  \A n \in ManifestLengths :
    /\ \A f \in V(n).files : \A w \in tables[f].data : w.seq <= V(n).last
    /\ \A w, l : Read(w, l) /\ l < V(n).log => w.seq <= V(n).last
EditSeq ==
  up = "open" /\ ap.pc = "append" =>
    /\ \A w : Filed(w) => w.seq <= ap.edit.last
    /\ \A w, l : Read(w, l) /\ l < ap.edit.log => w.seq <= ap.edit.last

(* DB::Open finds all numbers, in the MANIFEST or in the logs it reads.    *)
RecoverSeq ==
  /\ up # "open" =>
       /\ mem = {} /\ imm = {}
       /\ \A n \in ManifestLengths : V(n).files \subseteq V(Len(Manifest.edits)).files
  /\ up = "recovering" =>
       \A w : Held(w) => w.seq <= vs.last \/ w.seq <= rc.max \/ \E l \in rc.todo : Read(w, l)
  /\ up = "opening" => ap.edit.last = vs.last /\ \A w : Held(w) => w.seq <= vs.last

SeqInv == Distinct /\ OpenSeq /\ ManifestSeq /\ EditSeq /\ RecoverSeq

LEMMA ReadablePrefix ==
  ASSUME NEW S \in Seq(Records), NEW n \in 0..Len(S)
  PROVE  Readable(SubSeq(S, 1, n), Len(SubSeq(S, 1, n))) \subseteq Readable(S, Len(S))
<1>1. PICK T : T = SubSeq(S, 1, n)
  BY Zenon
<1>2. Len(T) = n /\ \A i \in 1..n : i \in 1..Len(S) /\ T[i] = S[i] /\ \A k \in 1..i : k \in 1..n
  BY <1>1
<1> QED
  BY <1>1, <1>2, Zenon DEF Readable

LEMMA ReadableAppend ==
  ASSUME NEW S \in Seq(Records), NEW r \in Records
  PROVE  Readable(Append(S, r), Len(Append(S, r))) \subseteq Readable(S, Len(S)) \cup {r.w}
<1>1. PICK T : T = Append(S, r)
  BY Zenon
<1>2. Len(T) = Len(S) + 1 /\ T[Len(S) + 1] = r /\ \A i \in 1..Len(S) : T[i] = S[i]
  BY <1>1
<1>3. \A i \in 1..Len(T) : i = Len(S) + 1 \/ (i \in 1..Len(S) /\ \A k \in 1..i : k \in 1..Len(S))
  BY <1>2
<1> QED
  BY <1>1, <1>2, <1>3, Zenon DEF Readable

LEMMA ReadableNothing == Readable(<<>>, Len(<<>>)) = {}
<1>1. 1..Len(<<>>) = {}
  OBVIOUS
<1> QED
  BY <1>1, Zenon DEF Readable

(* What can be read from a log was there before, unless it is added now.   *)
LEMMA ReadStep ==
  ASSUME FInv, Next, NEW w, NEW l, Read(w, l)'
  PROVE  Read(w, l) \/ (AddRecord /\ l = logNum /\ w = wr.w)
<1>1. LogTypes /\ Phases /\ ProcTypes
  BY Zenon DEF FInv, TInv, FileTypes, StateTypes
<1>2. ASSUME NEW k \in DOMAIN logs
      PROVE  logs[k].recs \in Seq(Records) /\ logs[k].synced \in Nat
             /\ logs[k] \in [recs : Seq(Records), synced : Nat]
  BY <1>1, <1>2, Zenon DEF LogTypes
<1>3. l \in DOMAIN logs' /\ w \in Readable(logs'[l].recs, Len(logs'[l].recs))
  BY Zenon DEF Read
<1>4. ASSUME UNCHANGED logs PROVE Read(w, l)
  BY <1>3, <1>4, Zenon DEF Read
<1>5. ASSUME NEW S, logs' = Restrict(logs, S), S \subseteq DOMAIN logs PROVE Read(w, l)
  BY <1>3, <1>5, Zenon DEF Read, Restrict
<1>6. ASSUME NEW n, logs' = With(logs, n, [recs |-> <<>>, synced |-> 0]) PROVE Read(w, l)
  <2>1. CASE l = n
    <3>1. logs'[l].recs = <<>>
      BY <1>3, <1>6, <2>1 DEF With
    <3> QED
      BY <1>3, <3>1, ReadableNothing, Zenon
  <2>2. CASE l # n
    BY <1>3, <1>6, <2>2, Zenon DEF Read, With
  <2> QED
    BY <2>1, <2>2, Zenon
<1>7. ASSUME NEW versions, NEW outputs, NEW n, NEW mans, NEW error,
             DeleteObsoleteFiles(versions, outputs, n, mans, error)
      PROVE  Read(w, l)
  <2>1. {k \in DOMAIN logs : k >= n} \subseteq DOMAIN logs
    BY Zenon
  <2> QED
    BY <1>4, <1>5, <1>7, <2>1, Zenon DEF DeleteObsoleteFiles
<1>8. CASE BeginWrite \/ Insert \/ \E r \in Readers : Pin(r) \/ Unpin(r)
  BY <1>4, <1>8, Zenon DEF BeginWrite, Insert, Pin, Unpin, disk
<1>9. CASE SwitchLog \/ OpenApply
  BY <1>6, <1>9, Zenon DEF SwitchLog, OpenApply
<1>10. CASE AddRecord
  <2>1. logNum \in DOMAIN logs /\ wr.w \in Writes
    BY <1>1, <1>10, Zenon DEF AddRecord, Phases, ProcTypes
  <2>2. PICK ok \in BOOLEAN :
          \/ logs' = logs
          \/ logs' = With(logs, logNum, [logs[logNum] EXCEPT
                                           !.recs = Append(@, [w |-> wr.w, ok |-> ok])])
    BY <1>10, Zenon DEF AddRecord
  <2>3. PICK r : r = [w |-> wr.w, ok |-> ok]
    BY Zenon
  <2>4. r \in Records /\ r.w = wr.w
    BY <2>1, <2>3, Zenon DEF Records
  <2>5. CASE logs' # logs /\ l = logNum
    <3>1. PICK S : S = logs[logNum].recs
      BY Zenon
    <3>2. S \in Seq(Records)
      BY <1>2, <2>1, <3>1, Zenon
    <3>3. logs'[l].recs = Append(S, r)
      BY <1>2, <2>1, <2>2, <2>3, <2>5, <3>1 DEF With
    <3>4. w \in Readable(S, Len(S)) \cup {r.w}
      BY <1>3, <2>4, <3>2, <3>3, ReadableAppend, Zenon
    <3> QED
      BY <1>10, <2>1, <2>4, <2>5, <3>1, <3>4, Zenon DEF Read
  <2>6. CASE logs' # logs /\ l # logNum
    BY <1>3, <2>2, <2>6, Zenon DEF Read, With
  <2> QED
    BY <1>4, <2>5, <2>6, Zenon
<1>11. CASE SyncLog
  <2>1. logNum \in DOMAIN logs
    BY <1>1, <1>11, Zenon DEF SyncLog, Phases
  <2>2. CASE UNCHANGED logs
    BY <1>4, <2>2, Zenon
  <2>3. CASE logs' = [logs EXCEPT ![logNum].synced = Len(logs[logNum].recs)]
    <3>1. DOMAIN logs' = DOMAIN logs
      BY <2>3, Zenon
    <3>2. logs'[l].recs = logs[l].recs
      <4>1. CASE l = logNum
        BY <1>2, <2>1, <2>3, <4>1, Zenon
      <4>2. CASE l # logNum
        BY <1>3, <2>3, <3>1, <4>2, Zenon
      <4> QED
        BY <4>1, <4>2, Zenon
    <3> QED
      BY <1>3, <3>1, <3>2, Zenon DEF Read
  <2> QED
    BY <1>11, <2>2, <2>3, Zenon DEF SyncLog
<1>12. CASE ApplyAppend \/ ApplySync \/ ApplyCurrent \/ MoveInstall
  BY <1>4, <1>12, Zenon DEF ApplyAppend, ApplySync, ApplyCurrent, MoveInstall, disk
<1>13. CASE FlushInstall \/ CompactInstall \/ OpenInstall
  BY <1>7, <1>13, Zenon DEF FlushInstall, CompactInstall, OpenInstall
<1>14. CASE FlushFail \/ CompactFail \/ OpenFail \/ OpenGiveUp
  <2>1. CASE CompactFail
    BY <1>7, <2>1, Zenon DEF CompactFail
  <2> QED
    BY <1>4, <1>14, <2>1, Zenon DEF FlushFail, OpenFail, OpenGiveUp, disk
<1>15. CASE FlushStart \/ FlushBuilt \/ CompactStart \/ CompactOpenOutput \/ CompactFinish
  <2>1. CASE CompactFinish
    BY <1>4, <1>7, <2>1, Zenon DEF CompactFinish
  <2> QED
    BY <1>4, <1>15, <2>1, Zenon
       DEF FlushStart, FlushBuilt, CompactStart, CompactOpenOutput, disk
<1>16. CASE NewDB \/ NewDBCurrent \/ OpenRecover \/ RecoverLogFile
  BY <1>4, <1>16, Zenon DEF NewDB, NewDBCurrent, OpenRecover, RecoverLogFile, disk
<1>17. CASE Crash
  <2>1. PICK keep \in [DOMAIN logs -> 0..MaxWrites] :
          /\ \A k \in DOMAIN logs : keep[k] \in logs[k].synced..Len(logs[k].recs)
          /\ logs' = [k \in DOMAIN logs |-> [recs |-> SubSeq(logs[k].recs, 1, keep[k]),
                                             synced |-> keep[k]]]
    BY <1>17, Zenon DEF Crash
  <2>2. l \in DOMAIN logs /\ logs'[l].recs = SubSeq(logs[l].recs, 1, keep[l])
    BY <1>3, <2>1
  <2>3. PICK S, n : S = logs[l].recs /\ n = keep[l]
    BY Zenon
  <2>4. S \in Seq(Records) /\ n \in logs[l].synced..Len(S) /\ logs[l].synced \in Nat
    BY <1>2, <2>1, <2>2, <2>3, Zenon
  <2>5. n \in 0..Len(S)
    BY <2>4
  <2>6. w \in Readable(S, Len(S))
    BY <1>3, <2>2, <2>3, <2>4, <2>5, ReadablePrefix, Zenon
  <2> QED
    BY <2>2, <2>3, <2>6, Zenon DEF Read
<1> QED
  BY <1>8, <1>9, <1>10, <1>11, <1>12, <1>13, <1>14, <1>15, <1>16, <1>17, Zenon
     DEF Next

(* A version that a recovery may find after a step: one that it might have *)
(* found before, the one with the edit in progress, the one DB::Open       *)
(* writes, or an empty one.                                                *)
LEMMA VersionStep ==
  ASSUME FInv, Next, NEW k \in ManifestLengths'
  PROVE  \/ \E n \in ManifestLengths : /\ V(k)'.files = V(n).files /\ V(k)'.log = V(n).log
                                       /\ V(k)'.last = V(n).last
         \/ /\ up = "open" /\ ap.pc = "append"
            /\ V(k)'.files \subseteq V(Len(Manifest.edits)).files \cup ap.edit.add
            /\ V(k)'.log = ap.edit.log /\ V(k)'.last = ap.edit.last
         \/ /\ ApplyCurrent /\ up = "opening" /\ V(k)'.files \subseteq cur \cup ap.edit.add
            /\ V(k)'.log = ap.edit.log /\ V(k)'.last = ap.edit.last
         \/ NewDBCurrent /\ V(k)'.files = {} /\ V(k)'.log = 0 /\ V(k)'.last = 0
<1>1. /\ ManifestInv /\ ManifestTypes /\ VerTypes /\ ApplyTypes /\ EditInv /\ Phases
  BY Zenon DEF FInv, TInv, FileTypes, StateTypes
<1>2. PICK E, L : E = Manifest.edits /\ L = Len(E)
  BY Zenon
<1>3. E \in Seq(Edits) /\ L \in Nat /\ ManifestLengths \subseteq 0..L /\ L \in ManifestLengths
  BY <1>1, <1>2, ManifestTyped, Zenon
<1>4. CASE Manifest' = Manifest
  <2>1. ManifestLengths' = ManifestLengths /\ V(k)' = V(k)
    BY <1>4, ManifestSame, Zenon
  <2> QED
    BY <2>1, Zenon
<1>5. ASSUME up = "open", ap.pc = "append", UNCHANGED current,
             NEW e, e \in {ap.edit, [ap.edit EXCEPT !.ok = FALSE]}, manifests' = WithEdit(e)
      PROVE  \/ \E n \in ManifestLengths : /\ V(k)'.files = V(n).files /\ V(k)'.log = V(n).log
                                           /\ V(k)'.last = V(n).last
             \/ /\ V(k)'.files \subseteq V(L).files \cup ap.edit.add
                /\ V(k)'.log = ap.edit.log /\ V(k)'.last = ap.edit.last
  <2>1. current = vs.man /\ current \in DOMAIN manifests /\ ap.edit \in Edits /\ ap.edit.ok
    BY <1>1, <1>5, Zenon DEF ManifestInv, Alive, ApplyTypes, EditInv
  <2>2. PICK d : d = ap.edit
    BY Zenon
  <2>3. [d EXCEPT !.ok = FALSE] \in Edits /\ ~[d EXCEPT !.ok = FALSE].ok
    BY <2>1, <2>2, TornTyped, Zenon
  <2>4. e \in Edits /\ (e.ok => e = d)
    BY <1>5, <2>1, <2>2, <2>3, Zenon
  <2>5. /\ ManifestLengths' = ManifestLengths \cup {L + 1}
        /\ \A n \in 0..L : V(n)' = V(n)
        /\ e.ok => /\ V(L + 1)'.files = (V(L).files \ e.del) \cup e.add
                   /\ V(L + 1)'.log = e.log /\ V(L + 1)'.last = e.last
        /\ ~e.ok => /\ V(L + 1)'.files = V(L).files /\ V(L + 1)'.log = V(L).log
                    /\ V(L + 1)'.last = V(L).last
    BY <1>1, <1>2, <1>3, <1>5, <2>1, <2>4, ManifestAppended, Zenon
  <2>6. CASE k \in ManifestLengths
    BY <1>3, <2>5, <2>6, Zenon
  <2>7. CASE k = L + 1
    BY <1>3, <2>2, <2>4, <2>5, <2>7, Zenon
  <2> QED
    BY <2>5, <2>6, <2>7, Zenon
<1>6. CASE Manifest'.edits = Manifest.edits /\ Manifest'.synced = Len(Manifest.edits)
  <2>1. V(k)' = V(k)
    BY <1>6, Zenon DEF V
  <2>2. k \in ManifestLengths
    BY <1>2, <1>3, <1>6 DEF ManifestLengths
  <2> QED
    BY <2>1, <2>2, Zenon
<1>7. CASE /\ ApplyCurrent /\ up = "opening" /\ Manifest'.edits = <<Snapshot, ap.edit>>
           /\ Manifest'.synced = 2
  <2>1. ap.edit \in Edits /\ ap.edit.ok
    BY <1>1, <1>7, Zenon DEF ApplyCurrent, ApplyTypes, EditInv
  <2>2. Snapshot \in Edits /\ Snapshot.ok /\ Snapshot.add = cur
    BY SnapshotTyped, Zenon
  <2>3. PICK F : F = <<Snapshot, ap.edit>>
    BY Zenon
  <2>4. /\ Len(F) = 2 /\ Replay(F, 2).files \subseteq cur \cup ap.edit.add
        /\ Replay(F, 2).log = ap.edit.log /\ Replay(F, 2).last = ap.edit.last
    <3>1. PICK s, e : s = Snapshot /\ e = ap.edit
      BY Zenon
    <3>2. /\ Len(F) = 2 /\ Replay(F, 2).files = (s.add \ e.del) \cup e.add
          /\ Replay(F, 2).log = e.log /\ Replay(F, 2).last = e.last
      BY <2>1, <2>2, <2>3, <3>1, OpenVersion, Zenon
    <3> QED
      BY <2>2, <3>1, <3>2, Zenon
  <2>5. ManifestLengths' = 2..2
    BY <1>7, <2>3, <2>4, Zenon DEF ManifestLengths
  <2>6. k = 2
    BY <2>5
  <2>7. V(k)' = Replay(F, 2)
    BY <1>7, <2>3, <2>6, Zenon DEF V
  <2> QED
    BY <1>7, <2>4, <2>7, Zenon
<1>8. CASE NewDBCurrent
  <2>1. /\ current' = 1 /\ UNCHANGED manifests /\ 1 \in DOMAIN manifests
        /\ manifests[1] = [edits |-> <<FirstEdit>>, synced |-> 0]
    BY <1>1, <1>8, Zenon DEF NewDBCurrent, ManifestInv
  <2>2. PICK F : F = <<FirstEdit>>
    BY Zenon
  <2>3. /\ FirstEdit \in Edits /\ FirstEdit.ok /\ FirstEdit.add = {} /\ FirstEdit.log = 0
        /\ FirstEdit.last = 0
    BY NoEditTyped, Zenon DEF FirstEdit, NoEdit
  <2>4. F \in Seq(Edits) /\ Len(F) = 1 /\ F[1] = FirstEdit /\ 1 \in 1..Len(F) /\ 1 - 1 = 0
    BY <2>2, <2>3
  <2>5. Manifest'.edits = F /\ Manifest'.synced = 0
    BY <2>1, <2>2 DEF Manifest
  <2>6. ManifestLengths' = 0..1
    BY <2>4, <2>5, Zenon DEF ManifestLengths
  <2>7. /\ Replay(F, 0).files = {} /\ Replay(F, 0).log = 0 /\ Replay(F, 0).last = 0
    BY ReplayNothing, Zenon
  <2>8. Replay(F, 1).files = {} /\ Replay(F, 1).log = 0 /\ Replay(F, 1).last = 0
    <3>1. F[1].ok /\ F[1].add = {} /\ F[1].log = 0 /\ F[1].last = 0
      BY <2>3, <2>4, Zenon
    <3>2. PICK e : F[1] = e
      BY Zenon
    <3>3. F \in Seq(Edits) /\ 1 \in 1..Len(F) /\ 1 - 1 = 0
      BY <2>4
    <3>4. Applies(Replay(F, 1), Replay(F, 0), e)
      BY <3>2, <3>3, ReplayNext, Zenon
    <3> QED
      BY <2>7, <3>1, <3>2, <3>4, Zenon DEF Applies
  <2>9. k = 0 \/ k = 1
    BY <2>6
  <2>10. V(k)' = Replay(F, k)
    BY <2>5, Zenon DEF V
  <2> QED
    BY <1>8, <2>7, <2>8, <2>9, <2>10, Zenon
<1>9. ASSUME NEW n \in ManifestLengths, NEW F \in Tails(Manifest.edits, n),
             Manifest'.edits = F, Manifest'.synced = Len(F)
      PROVE  /\ V(k)'.files = V(n).files /\ V(k)'.log = V(n).log /\ V(k)'.last = V(n).last
  <2>1. n \in Nat /\ n \in 0..L
    BY <1>3, <1>9
  <2>2. PICK S : S = SubSeq(E, 1, n)
    BY Zenon
  <2>3. S \in Seq(Edits) /\ Len(S) = n /\ \A i \in 1..n : S[i] = E[i]
    BY <1>2, <1>3, <2>1, <2>2
  <2>4. V(n) = Replay(E, n) /\ V(k)' = Replay(F, k)
    BY <1>2, <1>9, Zenon DEF V
  <2>5. CASE F = S
    <3>1. k = n
      BY <1>9, <2>1, <2>3, <2>5 DEF ManifestLengths
    <3>2. Replay(F, n) = Replay(E, n)
      BY <2>1, <2>3, <2>5, ReplaySame, Zenon
    <3> QED
      BY <2>4, <3>1, <3>2, Zenon
  <2>6. CASE n < L /\ F = Append(S, [E[n + 1] EXCEPT !.ok = FALSE])
    <3>1. E[n + 1] \in Edits
      BY <1>2, <1>3, <2>1, <2>6
    <3>2. PICK e : e = [E[n + 1] EXCEPT !.ok = FALSE]
      BY Zenon
    <3>3. e \in Edits /\ ~e.ok
      BY <3>1, <3>2, TornTyped, Zenon
    <3>4. F = Append(S, e)
      BY <2>6, <3>2, Zenon
    <3>5. /\ F \in Seq(Edits) /\ Len(F) = n + 1 /\ F[n + 1] = e /\ \A i \in 1..n : F[i] = E[i]
          /\ n + 1 \in 1..Len(F) /\ (n + 1) - 1 = n
      BY <2>1, <2>3, <3>3, <3>4
    <3>6. Replay(F, n) = Replay(E, n)
      BY <2>1, <3>5, ReplaySame, Zenon
    <3>7. /\ Replay(F, n + 1).files = Replay(F, n).files
          /\ Replay(F, n + 1).log = Replay(F, n).log
          /\ Replay(F, n + 1).last = Replay(F, n).last
      <4>1. F \in Seq(Edits) /\ n + 1 \in 1..Len(F) /\ (n + 1) - 1 = n /\ F[n + 1] = e
        BY <3>5, Zenon
      <4>2. Applies(Replay(F, n + 1), Replay(F, n), e)
        BY <4>1, ReplayNext, Zenon
      <4> QED
        BY <3>3, <4>2, Zenon DEF Applies
    <3>8. k = n + 1
      BY <1>9, <2>1, <3>5 DEF ManifestLengths
    <3> QED
      BY <2>4, <3>6, <3>7, <3>8, Zenon
  <2>7. F = S \/ (n < L /\ F = Append(S, [E[n + 1] EXCEPT !.ok = FALSE]))
    BY <1>2, <1>9, <2>2, Zenon DEF Tails
  <2> QED
    BY <2>5, <2>6, <2>7, Zenon
<1> QED
  BY <1>2, <1>4, <1>5, <1>6, <1>7, <1>8, <1>9, ManifestStep, ZenonT(30)

(* A table that is used after a step was used before, or is one that has   *)
(* just been completed.                                                    *)
LEMMA UsedStep ==
  ASSUME FInv, Next, NEW f, Used(f)'
  PROVE  Used(f) \/ FlushBuilt \/ CompactFinish \/ RecoverLogFile
<1>1. /\ Phases /\ ApplyTypes /\ ProcTypes /\ VerTypes /\ EditInv /\ ManifestTypes
  BY Zenon DEF FInv, TInv, FileTypes, StateTypes
<1>2. Len(Manifest.edits) \in ManifestLengths
  BY <1>1, ManifestTyped, Zenon
<1>3. ASSUME Recorded(f)' PROVE Used(f)
  <2>1. PICK k \in ManifestLengths' : f \in V(k)'.files
    BY <1>3, Zenon DEF Recorded
  <2> QED
    BY <1>2, <2>1, VersionStep, Zenon DEF Used, InUse, Recorded
<1>4. ASSUME InUse(f)',
             cur' \subseteq cur \cup ap.edit.add \cup V(Len(Manifest.edits)).files,
             cp'.ver \subseteq cur \cup cp.ver, rc'.add \subseteq rc.add,
             ap'.edit.add \subseteq ap.edit.add \cup cur \cup rc.add,
             \A r \in Readers : pins'[r] \subseteq pins[r] \cup cur
      PROVE  Used(f)
  BY <1>2, <1>4, Zenon DEF Used, InUse, Recorded
<1>5. NoCp.ver = {} /\ NoRc.add = {} /\ NoAp.edit.add = {}
  BY Zenon DEF NoCp, NoRc, NoAp, NoEdit
<1>6. ASSUME InUse(f)', Reset PROVE Used(f)
  <2>1. \A r \in Readers : pins'[r] = {}
    BY <1>6, Zenon DEF Reset
  <2>2. cur' = {} /\ cp' = NoCp /\ rc' = NoRc /\ ap' = NoAp
    BY <1>6, Zenon DEF Reset
  <2> QED
    BY <1>4, <1>5, <1>6, <2>1, <2>2, Zenon
<1>7. ASSUME InUse(f)' PROVE Used(f) \/ FlushBuilt \/ CompactFinish \/ RecoverLogFile
  <2>1. CASE SwitchLog \/ BeginWrite \/ AddRecord \/ SyncLog \/ Insert
    <3>1. UNCHANGED <<cur, cp, rc, ap, pins>>
      BY <2>1, Zenon
         DEF SwitchLog, BeginWrite, AddRecord, SyncLog, Insert, verVars, procVars
    <3> QED
      BY <1>4, <1>7, <3>1, Zenon
  <2>2. CASE \E r \in Readers : Pin(r) \/ Unpin(r)
    <3>1. UNCHANGED <<cur, cp, rc, ap>> /\ \A s \in Readers : pins'[s] \in {pins[s], cur, {}}
      BY <1>1, <2>2, Zenon DEF Pin, Unpin, procVars, VerTypes
    <3> QED
      BY <1>4, <1>7, <3>1, Zenon
  <2>3. CASE ApplyAppend \/ ApplySync \/ ApplyCurrent
    <3>1. UNCHANGED <<cur, cp, rc, pins>> /\ ap'.edit = ap.edit
      BY <1>1, <2>3, Zenon
         DEF ApplyAppend, ApplySync, ApplyCurrent, verVars, ApplyTypes
    <3> QED
      BY <1>4, <1>7, <3>1, Zenon
  <2>4. CASE FlushInstall \/ CompactInstall \/ MoveInstall \/ OpenInstall
    <3>1. /\ cur' = NewVersion /\ cp' \in {cp, NoCp} /\ rc' \in {rc, NoRc} /\ ap' = NoAp
          /\ UNCHANGED pins
      BY <2>4, Zenon DEF FlushInstall, CompactInstall, MoveInstall, OpenInstall
    <3>2. cp'.ver \subseteq cp.ver /\ rc'.add \subseteq rc.add /\ ap'.edit.add = {}
      BY <1>5, <3>1, Zenon
    <3> QED
      BY <1>4, <1>7, <3>1, <3>2, Zenon DEF NewVersion
  <2>5. CASE FlushFail \/ CompactFail
    <3>1. UNCHANGED <<cur, pins, rc>> /\ cp' \in {cp, NoCp} /\ ap' = NoAp
      BY <2>5, Zenon DEF FlushFail, CompactFail, verVars
    <3>2. cp'.ver \subseteq cp.ver /\ ap'.edit.add = {}
      BY <1>5, <3>1, Zenon
    <3> QED
      BY <1>4, <1>7, <3>1, <3>2, Zenon
  <2>6. CASE FlushStart \/ CompactOpenOutput
    <3>1. UNCHANGED <<cur, pins, rc, ap>> /\ cp'.ver = cp.ver
      BY <1>1, <2>6, Zenon DEF FlushStart, CompactOpenOutput, ProcTypes
    <3> QED
      BY <1>4, <1>7, <3>1, Zenon
  <2>7. CASE CompactStart
    <3>1. UNCHANGED <<cur, pins, rc>>
      BY <2>7, Zenon DEF CompactStart, verVars
    <3>2. PICK inputs \in SUBSET cur :
            \/ /\ cp' = [pc |-> "work", out |-> 0, inputs |-> inputs, ver |-> cur]
               /\ UNCHANGED ap
            \/ /\ cp' = [NoCp EXCEPT !.pc = "apply"]
               /\ BeginApply("move", inputs, inputs, vs.log, vs)
      BY <2>7, Zenon DEF CompactStart
    <3>3. CASE /\ cp' = [pc |-> "work", out |-> 0, inputs |-> inputs, ver |-> cur]
               /\ UNCHANGED ap
      <4>1. cp'.ver = cur
        BY <3>3
      <4> QED
        BY <1>4, <1>7, <3>1, <3>3, <4>1, Zenon
    <3>4. CASE /\ cp' = [NoCp EXCEPT !.pc = "apply"]
               /\ BeginApply("move", inputs, inputs, vs.log, vs)
      <4>1. cp'.ver = {}
        BY <3>4 DEF NoCp
      <4>2. ap'.edit.add = inputs
        BY <3>4, BeginApplyStarts, Zenon
      <4> QED
        BY <1>4, <1>7, <3>1, <4>1, <4>2, Zenon
    <3> QED
      BY <3>2, <3>3, <3>4, Zenon
  <2>8. CASE NewDB \/ NewDBCurrent
    <3>1. UNCHANGED <<cur, cp, rc, ap, pins>>
      BY <2>8, Zenon DEF NewDB, NewDBCurrent, verVars
    <3> QED
      BY <1>4, <1>7, <3>1, Zenon
  <2>9. CASE OpenRecover
    <3>1. /\ UNCHANGED <<pins, cp, ap>>
          /\ \/ UNCHANGED <<cur, rc>>
             \/ cur' = V(Len(Manifest.edits)).files /\ rc'.add = {}
      BY <1>1, <2>9, OpenRecoverCases, Zenon DEF OpenRecover
    <3> QED
      BY <1>4, <1>7, <3>1, Zenon
  <2>10. CASE OpenApply
    <3>1. UNCHANGED <<cur, pins, cp, rc>> /\ ap'.edit.add = rc.add
      BY <2>10, BeginApplyStarts, Zenon DEF OpenApply
    <3> QED
      BY <1>4, <1>7, <3>1, Zenon
  <2>11. CASE OpenFail \/ OpenGiveUp \/ Crash
    BY <1>6, <1>7, <2>11, Zenon DEF OpenFail, OpenGiveUp, Crash
  <2> QED
    BY <2>1, <2>2, <2>3, <2>4, <2>5, <2>6, <2>7, <2>8, <2>9, <2>10, <2>11, Zenon
       DEF Next
<1> QED
  BY <1>3, <1>7, Zenon DEF Used

(* The writes in used tables: a flush adds those of the memtable, and a    *)
(* recovery those it reads from a log.                                     *)
LEMMA FiledStep ==
  ASSUME FInv, FInv', Next, NEW w, Filed(w)'
  PROVE  \/ Filed(w)
         \/ FlushBuilt /\ w \in imm
         \/ RecoverLogFile /\ Read(w, Min(rc.todo))
<1>1. TablesInv /\ TablesInv' /\ Phases /\ ProcTypes /\ ApplyTypes
  BY Zenon DEF FInv, TInv, StateTypes
<1>2. PICK f : Used(f)' /\ w \in tables'[f].data
  BY Zenon DEF Filed
<1>3. f \in DOMAIN tables' /\ tables'[f].ok
  BY <1>1, <1>2, Zenon DEF TablesInv, Used
<1>4. CASE Used(f)
  <2>1. tables'[f] = tables[f]
    BY <1>2, <1>4, TablesFrame, Zenon
  <2> QED
    BY <1>2, <1>4, <2>1, Zenon DEF Filed
<1>5. CASE ~Used(f) /\ FlushBuilt
  <2>1. CASE tables'[f] = [data |-> imm, ok |-> TRUE]
    <3>1. tables'[f].data = imm
      BY <2>1
    <3> QED
      BY <1>2, <1>5, <3>1, Zenon
  <2>2. ASSUME f # fl.num PROVE FALSE
    <3>1. cur' = cur /\ cp' = cp /\ rc' = rc /\ pins' = pins
      BY <1>5, Zenon DEF FlushBuilt
    <3>2. ap'.edit.add \subseteq ap.edit.add \cup {fl.num}
      <4>1. PICK add : add = IF imm = {} THEN {} ELSE {fl.num}
        BY Zenon
      <4>2. BeginApply("flush", add, {}, logNum, vs) \/ UNCHANGED ap
        BY <1>5, <4>1, Zenon DEF FlushBuilt
      <4>3. ap'.edit.add = add \/ UNCHANGED ap
        BY <4>2, BeginApplyStarts, Zenon
      <4> QED
        BY <4>1, <4>3, Zenon
    <3>3. Manifest' = Manifest
      BY <1>5, ManifestUntouched, Zenon DEF FlushBuilt
    <3>4. Recorded(f)' <=> Recorded(f)
      BY <3>3, ManifestSame, Zenon
    <3> QED
      BY <1>2, <1>5, <2>2, <3>1, <3>2, <3>4, Zenon DEF Used, InUse
  <2>3. CASE f = fl.num
    <3>1. f \in DOMAIN tables
      BY <1>1, <1>5, <2>3, Zenon DEF TablesInv, Building, FlushBuilt
    <3>2. CASE tables' = [tables EXCEPT ![fl.num] = [data |-> imm, ok |-> TRUE]]
      BY <2>1, <2>3, <3>1, <3>2, Zenon
    <3>3. CASE tables' = Restrict(tables, DOMAIN tables \ {fl.num})
      BY <1>3, <2>3, <3>3, Zenon DEF Restrict
    <3> QED
      BY <1>5, <3>2, <3>3, Zenon DEF FlushBuilt, BuildTable
  <2> QED
    BY <2>2, <2>3, Zenon
<1>6. CASE ~Used(f) /\ CompactFinish
  <2>1. cur' = cur /\ rc' = rc /\ pins' = pins /\ UNCHANGED <<manifests, current>>
    BY <1>6, Zenon DEF CompactFinish, DeleteObsoleteFiles
  <2>2. Recorded(f)' <=> Recorded(f)
    BY <2>1, ManifestUntouched, ManifestSame, Zenon
  <2>3. CASE /\ tables' = [tables EXCEPT ![cp.out] =
                             [data |-> UNION {tables[g].data : g \in cp.inputs},
                              ok |-> TRUE]]
             /\ BeginApply("compact", {cp.out}, cp.inputs, vs.log, vs)
             /\ cp' = [cp EXCEPT !.pc = "apply"]
    <3>1. ap'.edit.add = {cp.out}
      BY <2>3, BeginApplyStarts, Zenon
    <3>2. cp'.ver = cp.ver
      BY <1>1, <2>3, Zenon DEF ProcTypes
    <3>3. f = cp.out
      BY <1>2, <1>6, <2>1, <2>2, <3>1, <3>2, Zenon DEF Used, InUse
    <3>4. f \in DOMAIN tables
      BY <1>1, <1>6, <3>3, Zenon DEF TablesInv, Building, CompactFinish
    <3>5. tables'[f].data = UNION {tables[g].data : g \in cp.inputs}
      BY <2>3, <3>3, <3>4, Zenon
    <3>6. PICK g \in cp.inputs : w \in tables[g].data
      BY <1>2, <3>5, Zenon
    <3>7. Used(g)
      BY <1>1, <3>6, Zenon DEF TablesInv, Used, InUse
    <3> QED
      BY <3>6, <3>7, Zenon DEF Filed
  <2>4. CASE cp' = NoCp /\ UNCHANGED ap
    <3>1. cp'.ver = {}
      BY <2>4, Zenon DEF NoCp
    <3> QED
      BY <1>2, <1>6, <2>1, <2>2, <2>4, <3>1, Zenon DEF Used, InUse
  <2> QED
    BY <1>6, <2>3, <2>4, Zenon DEF CompactFinish
<1>7. CASE ~Used(f) /\ RecoverLogFile
  <2>1. PICK l : l = Min(rc.todo)
    BY Zenon
  <2>2. /\ l \in rc.todo /\ l \in DOMAIN logs
    <3>1. rc.todo \in SUBSET Nat /\ rc.todo # {} /\ rc.todo \subseteq DOMAIN logs
      BY <1>1, <1>7, Zenon DEF ApplyTypes, RecoverLogFile, Phases
    <3> QED
      BY <2>1, <3>1, MinIsLeast, Zenon
  <2>3. PICK data : data = Readable(logs[l].recs, Len(logs[l].recs))
    BY Zenon
  <2>4. cur' = cur /\ cp' = cp /\ pins' = pins /\ ap' = ap /\ UNCHANGED <<manifests, current>>
    BY <1>7, Zenon DEF RecoverLogFile
  <2>5. Recorded(f)' <=> Recorded(f)
    BY <2>4, ManifestUntouched, ManifestSame, Zenon
  <2>6. f \in rc'.add /\ f \notin rc.add
    BY <1>2, <1>7, <2>4, <2>5, Zenon DEF Used, InUse
  <2>7. \/ /\ tables' = With(tables, vs.next, [data |-> data, ok |-> TRUE])
           /\ rc'.add = rc.add \cup {vs.next}
        \/ rc'.add = rc.add
    <3>1. PICK max : max = Max({rc.max} \cup {x.seq : x \in data})
      BY Zenon
    <3>2. \/ /\ tables' = With(tables, vs.next, [data |-> data, ok |-> TRUE])
             /\ rc' = [todo |-> rc.todo \ {l}, add |-> rc.add \cup {vs.next}, ok |-> TRUE,
                       max |-> max]
          \/ rc' = [rc EXCEPT !.todo = @ \ {l}, !.ok = TRUE]
          \/ rc' = [todo |-> rc.todo \ {l}, add |-> rc.add, ok |-> FALSE, max |-> max]
      BY <1>7, <2>1, <2>3, <3>1, Zenon DEF RecoverLogFile, AllRecords
    <3>3. CASE rc' = [rc EXCEPT !.todo = @ \ {l}, !.ok = TRUE]
      <4>1. PICK r, s : r = rc /\ s = rc.todo \ {l}
        BY Zenon
      <4>2. r \in [todo : SUBSET Nat, add : SUBSET Nat, max : Nat, ok : BOOLEAN]
        BY <1>1, <4>1, Zenon DEF ApplyTypes
      <4>3. [r EXCEPT !.todo = s, !.ok = TRUE].add = r.add
        BY <4>2, Zenon
      <4> QED
        BY <3>3, <4>1, <4>3, Zenon
    <3>4. CASE rc' = [todo |-> rc.todo \ {l}, add |-> rc.add, ok |-> FALSE, max |-> max]
      BY <3>4, Zenon
    <3>5. CASE rc' = [todo |-> rc.todo \ {l}, add |-> rc.add \cup {vs.next}, ok |-> TRUE,
                      max |-> max]
      <4>1. rc'.add = rc.add \cup {vs.next}
        BY <3>5, Zenon
      <4>2. \/ tables' = With(tables, vs.next, [data |-> data, ok |-> TRUE])
            \/ rc' = [rc EXCEPT !.todo = @ \ {l}, !.ok = TRUE]
            \/ rc' = [todo |-> rc.todo \ {l}, add |-> rc.add, ok |-> FALSE, max |-> max]
        BY <3>2, Zenon
      <4> QED
        BY <3>3, <3>4, <4>1, <4>2, Zenon
    <3> QED
      BY <3>2, <3>3, <3>4, <3>5, Zenon
  <2>8. tables'[f].data = data
    <3>1. f = vs.next /\ tables' = With(tables, f, [data |-> data, ok |-> TRUE])
      BY <2>6, <2>7, Zenon
    <3>2. tables'[f] = [data |-> data, ok |-> TRUE]
      BY <3>1, Zenon DEF With
    <3> QED
      BY <3>2
  <2> QED
    BY <1>2, <1>7, <2>1, <2>2, <2>3, <2>8, Zenon DEF Read
<1> QED
  BY <1>2, <1>4, <1>5, <1>6, <1>7, UsedStep, Zenon

(* The memtables grow by the write that is inserted.                       *)
LEMMA MemStep ==
  ASSUME FInv, Next, NEW w, w \in mem' \/ w \in imm'
  PROVE  w \in mem \/ w \in imm \/ (Insert /\ w = wr.w)
<1>1. CASE UNCHANGED <<mem, imm>>
  BY <1>1, Zenon
<1>2. CASE SwitchLog \/ Insert \/ FlushInstall
  BY <1>2, Zenon DEF SwitchLog, Insert, FlushInstall
<1>3. CASE OpenFail \/ OpenGiveUp \/ Crash
  BY <1>3, Zenon DEF OpenFail, OpenGiveUp, Crash, Reset
<1>4. CASE BeginWrite \/ AddRecord \/ SyncLog \/ \E r \in Readers : Pin(r) \/ Unpin(r)
  BY <1>1, <1>4, Zenon DEF BeginWrite, AddRecord, SyncLog, Pin, Unpin, memVars
<1>5. CASE ApplyAppend \/ ApplySync \/ ApplyCurrent \/ CompactInstall \/ MoveInstall \/ OpenInstall
  BY <1>1, <1>5, Zenon
     DEF ApplyAppend, ApplySync, ApplyCurrent, CompactInstall, MoveInstall,
     OpenInstall, memVars
<1>6. CASE FlushFail \/ CompactFail \/ FlushStart \/ FlushBuilt \/ CompactStart
  BY <1>1, <1>6, Zenon
     DEF FlushFail, CompactFail, FlushStart, FlushBuilt, CompactStart, memVars
<1>7. CASE CompactOpenOutput \/ CompactFinish \/ NewDB \/ NewDBCurrent \/ OpenRecover
           \/ RecoverLogFile \/ OpenApply
  BY <1>1, <1>7, Zenon
     DEF CompactOpenOutput, CompactFinish, NewDB, NewDBCurrent, OpenRecover,
     RecoverLogFile, OpenApply, memVars
<1> QED
  BY <1>2, <1>3, <1>4, <1>5, <1>6, <1>7, Zenon DEF Next

LEMMA HeldStep ==
  ASSUME FInv, FInv', Next, NEW w
  PROVE  /\ Stored(w)' => \/ Stored(w) \/ (Insert /\ w = wr.w)
                          \/ RecoverLogFile /\ Read(w, Min(rc.todo))
         /\ Held(w)' => Held(w) \/ ((AddRecord \/ Insert) /\ w = wr.w)
<1>1. Stored(w)' => \/ Stored(w) \/ (Insert /\ w = wr.w)
                    \/ RecoverLogFile /\ Read(w, Min(rc.todo))
  BY FiledStep, MemStep, Zenon DEF Stored
<1>2. ASSUME NEW l, Read(w, l)' PROVE Held(w) \/ ((AddRecord \/ Insert) /\ w = wr.w)
  BY <1>2, ReadStep, Zenon DEF Held
<1> QED
  BY <1>1, <1>2, Zenon DEF Held

(* Which steps there are in which phase.                                   *)
LEMMA UpStep ==
  ASSUME FInv, Next
  PROVE  \/ up = "open" /\ up' = "open"
         \/ OpenInstall /\ up = "opening" /\ up' = "open"
         \/ OpenRecover /\ up = "down" /\ up' \in {"recovering", "corrupt"}
         \/ RecoverLogFile /\ up = "recovering" /\ up' = "recovering"
         \/ OpenApply /\ up = "recovering" /\ up' = "opening"
         \/ (ApplyAppend \/ ApplySync \/ ApplyCurrent) /\ up = "opening" /\ up' = "opening"
         \/ Crash /\ up' = "down"
         \/ (OpenFail \/ OpenGiveUp) /\ up # "open" /\ up' = "down"
         \/ (NewDB \/ NewDBCurrent) /\ up \in {"down", "newdb"} /\ up' \in {"down", "newdb"}
<1>1. Phases
  BY Zenon DEF FInv, TInv
<1>2. CASE SwitchLog \/ BeginWrite \/ AddRecord \/ SyncLog \/ Insert
  <2>1. UNCHANGED up
    BY <1>2, Zenon DEF SwitchLog, BeginWrite, AddRecord, SyncLog, Insert, procVars
  <2>2. up = "open"
    BY <1>1, <1>2 DEF SwitchLog, BeginWrite, AddRecord, SyncLog, Insert, Phases
  <2> QED
    BY <2>1, <2>2, Zenon
<1>3. CASE \E r \in Readers : Pin(r) \/ Unpin(r)
  <2>1. UNCHANGED up /\ up = "open"
    BY <1>1, <1>3, Zenon DEF Pin, Unpin, procVars, Phases
  <2> QED
    BY <2>1, Zenon
<1>4. CASE ApplyAppend \/ ApplySync \/ ApplyCurrent
  <2>1. UNCHANGED up /\ ap.pc # "idle"
    BY <1>4, Zenon DEF ApplyAppend, ApplySync, ApplyCurrent
  <2>2. up \in {"opening", "open"}
    BY <1>1, <2>1, Zenon DEF Phases
  <2> QED
    BY <1>4, <2>1, <2>2, Zenon
<1>5. CASE FlushInstall \/ CompactInstall \/ MoveInstall \/ FlushFail \/ CompactFail
  <2>1. UNCHANGED up /\ ap.kind \in {"flush", "compact", "move"}
    BY <1>5, Zenon
       DEF FlushInstall, CompactInstall, MoveInstall, FlushFail, CompactFail
  <2>2. ap.pc # "idle" /\ ap.kind # "open"
    BY <1>1, <2>1 DEF Phases
  <2> QED
    BY <1>1, <2>1, <2>2, Zenon DEF Phases
<1>6. CASE OpenInstall \/ OpenFail
  BY <1>1, <1>6, Zenon DEF OpenInstall, OpenFail, Reset, Phases
<1>7. CASE FlushStart \/ FlushBuilt \/ CompactStart \/ CompactOpenOutput \/ CompactFinish
  <2>1. UNCHANGED up
    BY <1>7, Zenon
       DEF FlushStart, FlushBuilt, CompactStart, CompactOpenOutput, CompactFinish
  <2>2. up = "open"
    BY <1>1, <1>7, ZenonT(30)
       DEF FlushStart, FlushBuilt, CompactStart, CompactOpenOutput, CompactFinish, Phases
  <2> QED
    BY <2>1, <2>2, Zenon
<1>8. CASE OpenRecover \/ RecoverLogFile \/ OpenApply \/ OpenGiveUp
  BY <1>8 DEF OpenRecover, RecoverLogFile, OpenApply, OpenGiveUp, Reset
<1>9. CASE NewDB \/ NewDBCurrent
  BY <1>9, Zenon DEF NewDB, NewDBCurrent
<1>10. CASE Crash
  BY <1>10, Zenon DEF Crash, Reset
<1> QED
  BY <1>2, <1>3, <1>4, <1>5, <1>6, <1>7, <1>8, <1>9, <1>10, Zenon DEF Next

(* The numbers in a version that a recovery finds are numbers.             *)
LEMMA VersionTyped ==
  ASSUME FInv, NEW n \in ManifestLengths
  PROVE  V(n).log \in Nat /\ V(n).last \in Nat
<1>1. PICK E, L : E = Manifest.edits /\ L = Len(E)
  BY Zenon
<1>2. E \in Seq(Edits) /\ L \in Nat /\ ManifestLengths \subseteq 0..L
  BY <1>1, ManifestTyped, Zenon DEF FInv, TInv, FileTypes
<1>3. n \in 0..L
  BY <1>2, Zenon
<1>4. V(n) = Replay(E, n)
  BY <1>1, Zenon DEF V
<1> QED
  BY <1>1, <1>2, <1>3, <1>4, ReplayTyped, Zenon

LEMMA HeldTyped ==
  ASSUME FInv, NEW w, Held(w)
  PROVE  w \in Writes /\ w.seq \in Nat
<1>1. TablesInv /\ TableTypes /\ LogTypes /\ MemTypes
  BY Zenon DEF FInv, TInv, FileTypes, StateTypes
<1>2. CASE Filed(w)
  <2>1. PICK f : Used(f) /\ w \in tables[f].data
    BY <1>2, Zenon DEF Filed
  <2>2. f \in DOMAIN tables
    BY <1>1, <2>1, Zenon DEF Used, TablesInv
  <2>3. tables[f].data \subseteq Writes
    BY <1>1, <2>2 DEF TableTypes
  <2> QED
    BY <2>1, <2>3, Zenon DEF Writes
<1>3. ASSUME NEW l, Read(w, l) PROVE w \in Writes
  <2>1. l \in DOMAIN logs /\ logs[l].recs \in Seq(Records)
    BY <1>1, <1>3, Zenon DEF Read, LogTypes
  <2>2. PICK i \in 1..Len(logs[l].recs) : w = logs[l].recs[i].w
    BY <1>3, Zenon DEF Read, Readable
  <2>3. logs[l].recs[i] \in Records
    BY <2>1, <2>2
  <2> QED
    BY <2>2, <2>3, Zenon DEF Records
<1>4. w \in Writes
  BY <1>1, <1>2, <1>3, Zenon DEF Held, Stored, MemTypes
<1> QED
  BY <1>4, Zenon DEF Writes

(* The writer of an open database: a step of others, the start of a write, *)
(* or its end.                                                             *)
LEMMA WriterStep ==
  ASSUME FInv, Next, up = "open", up' = "open"
  PROVE  /\ AddRecord \/ Insert => wr.pc # "idle"
         /\ logNum <= logNum'
         /\ \/ /\ vs'.last = vs.last /\ wr'.w = wr.w /\ (wr'.pc = "idle" <=> wr.pc = "idle")
               /\ wr.pc # "idle" => logNum' = logNum
               /\ ~Insert
            \/ /\ vs'.last = vs.last /\ wr.pc = "idle" /\ wr'.w.seq = vs.last + 1
               /\ wr'.pc # "idle" /\ ~Insert
            \/ vs'.last = wr.w.seq /\ wr.pc # "idle" /\ wr'.pc = "idle"
<1>1. VerTypes /\ ProcTypes /\ MemTypes /\ LogOrder /\ Phases
  BY Zenon DEF FInv, TInv, StateTypes
<1>2. /\ vs \in [next : Nat, man : Nat, log : Nat, last : Nat]
      /\ wr \in [pc : {"idle", "append", "sync", "insert"}, w : Writes, sync : BOOLEAN]
      /\ logNum \in Nat /\ logNum < vs.next
  BY <1>1, Zenon DEF VerTypes, ProcTypes, MemTypes, LogOrder
<1>3. AddRecord \/ Insert => wr.pc # "idle"
  BY Zenon DEF AddRecord, Insert
<1>4. logNum <= logNum /\ logNum <= vs.next
  BY <1>2
<1>5. CASE SwitchLog
  <2>1. vs'.last = vs.last /\ wr' = wr /\ wr.pc = "idle" /\ logNum' = vs.next
    BY <1>2, <1>5, Zenon DEF SwitchLog, procVars
  <2> QED
    BY <1>3, <1>4, <2>1, Zenon DEF Insert
<1>6. CASE BeginWrite
  <2>1. /\ vs' = vs /\ wr.pc = "idle" /\ wr'.w.seq = vs.last + 1 /\ wr'.pc = "append"
        /\ logNum' = logNum
    BY <1>6 DEF BeginWrite, verVars, memVars
  <2> QED
    BY <1>3, <1>4, <2>1, Zenon DEF Insert
<1>7. CASE Insert \/ ((AddRecord \/ SyncLog) /\ EndWrite)
  <2>1. logNum' = logNum /\ EndWrite /\ wr.pc # "idle"
    BY <1>7, Zenon DEF Insert, AddRecord, SyncLog, memVars
  <2>2. vs'.last = wr.w.seq /\ wr'.pc = "idle"
    BY <1>2, <2>1, Zenon DEF EndWrite, NoWr
  <2> QED
    BY <1>3, <1>4, <2>1, <2>2, Zenon
<1>8. CASE (AddRecord \/ SyncLog) /\ ~EndWrite
  <2>1. /\ logNum' = logNum /\ vs' = vs /\ wr.pc \in {"append", "sync"}
        /\ \E pc \in {"sync", "insert"} : wr' = [wr EXCEPT !.pc = pc]
    BY <1>8, Zenon DEF AddRecord, SyncLog, memVars
  <2>2. wr'.w = wr.w /\ wr'.pc # "idle" /\ wr.pc # "idle"
    BY <1>2, <2>1
  <2> QED
    BY <1>3, <1>4, <2>1, <2>2 DEF Insert
<1>9. ASSUME vs'.last = vs.last, wr' = wr, logNum' = logNum, ~Insert
      PROVE  /\ logNum <= logNum'
             /\ vs'.last = vs.last /\ wr'.w = wr.w /\ (wr'.pc = "idle" <=> wr.pc = "idle")
             /\ wr.pc # "idle" => logNum' = logNum
             /\ ~Insert
  BY <1>4, <1>9, Zenon
<1>10. CASE ~Insert /\ \E r \in Readers : Pin(r) \/ Unpin(r)
  BY <1>3, <1>9, <1>10, Zenon DEF Pin, Unpin, memVars, procVars
<1>11. CASE ~Insert /\ (ApplyAppend \/ ApplySync \/ ApplyCurrent \/ FlushFail \/ CompactFail)
  BY <1>3, <1>9, <1>11, Zenon
     DEF ApplyAppend, ApplySync, ApplyCurrent, FlushFail, CompactFail, memVars, verVars
<1>12. CASE ~Insert /\ (FlushInstall \/ CompactInstall \/ MoveInstall \/ OpenInstall)
  <2>1. vs'.last = vs.last
    BY <1>2, <1>12, Zenon DEF FlushInstall, CompactInstall, MoveInstall, OpenInstall
  <2> QED
    BY <1>3, <1>9, <1>12, <2>1, Zenon
       DEF FlushInstall, CompactInstall, MoveInstall, OpenInstall, memVars
<1>13. CASE /\ ~Insert
            /\ FlushStart \/ FlushBuilt \/ CompactStart \/ CompactOpenOutput \/ CompactFinish
  <2>1. vs'.last = vs.last
    BY <1>2, <1>13, Zenon
       DEF FlushStart, FlushBuilt, CompactStart, CompactOpenOutput, CompactFinish, verVars
  <2> QED
    BY <1>3, <1>9, <1>13, <2>1, Zenon
       DEF FlushStart, FlushBuilt, CompactStart, CompactOpenOutput, CompactFinish, memVars
<1>14. CASE NewDB \/ NewDBCurrent \/ OpenRecover \/ RecoverLogFile \/ OpenApply \/ OpenGiveUp
            \/ OpenFail \/ Crash
  BY <1>1, <1>14
     DEF NewDB, NewDBCurrent, OpenRecover, RecoverLogFile, OpenApply, OpenGiveUp,
     OpenFail, Crash, Reset
<1> QED
  BY <1>5, <1>6, <1>7, <1>8, <1>10, <1>11, <1>12, <1>13, <1>14, ZenonT(30) DEF Next

(* The write that is being logged is the only one with its number.         *)
LEMMA NewNumber ==
  ASSUME FInv, OpenSeq, up = "open", wr.pc # "idle", NEW v, Held(v)
  PROVE  v = wr.w \/ (v.seq <= vs.last /\ v.seq # wr.w.seq)
<1>1. v.seq \in Nat /\ vs.last \in Nat
  BY HeldTyped, Zenon DEF FInv, TInv, StateTypes, VerTypes
<1>2. v = wr.w \/ v.seq <= vs.last
  BY Zenon DEF OpenSeq, Held
<1>3. wr.w.seq = vs.last + 1
  BY Zenon DEF OpenSeq
<1> QED
  BY <1>1, <1>2, <1>3

LEMMA DistinctStep ==
  ASSUME FInv, FInv', Next, SeqInv
  PROVE  Distinct'
<1>1. Distinct /\ OpenSeq
  BY Zenon DEF SeqInv
<1>2. ASSUME AddRecord \/ Insert PROVE up = "open" /\ wr.pc # "idle"
  BY <1>2, Zenon DEF AddRecord, Insert, FInv, TInv, Phases
<1>3. ASSUME NEW v, NEW w, Held(v)', Held(w)', v.seq = w.seq PROVE v = w
  <2>1. CASE Held(v) /\ Held(w)
    BY <1>1, <1>3, <2>1, Zenon DEF Distinct
  <2>2. CASE Held(v) /\ (AddRecord \/ Insert) /\ w = wr.w
    BY <1>1, <1>2, <1>3, <2>2, NewNumber, Zenon
  <2>3. CASE Held(w) /\ (AddRecord \/ Insert) /\ v = wr.w
    BY <1>1, <1>2, <1>3, <2>3, NewNumber, Zenon
  <2>4. Held(v) \/ ((AddRecord \/ Insert) /\ v = wr.w)
    BY <1>3, HeldStep, Zenon
  <2>5. Held(w) \/ ((AddRecord \/ Insert) /\ w = wr.w)
    BY <1>3, HeldStep, Zenon
  <2> QED
    BY <2>1, <2>2, <2>3, <2>4, <2>5, Zenon
<1> QED
  BY <1>3, Zenon DEF Distinct

(* Between two steps: the numbers of the writes are numbers.               *)
LEMMA HeldTypedAfter ==
  ASSUME FInv, FInv', Next, NEW w, Held(w)'
  PROVE  w.seq \in Nat
<1>1. CASE Held(w)
  BY <1>1, HeldTyped, Zenon
<1>2. CASE w = wr.w
  BY <1>2, Zenon DEF FInv, TInv, StateTypes, ProcTypes, Writes
<1> QED
  BY <1>1, <1>2, HeldStep, Zenon

LEMMA OpenSeqStep ==
  ASSUME FInv, FInv', Next, SeqInv, up' = "open"
  PROVE  OpenSeq'
<1>1. /\ OpenSeq /\ RecoverSeq /\ VerTypes /\ MemTypes /\ Phases /\ LogOrder
      /\ VerTypes' /\ MemTypes' /\ LogOrder' /\ ProcTypes
  BY Zenon DEF SeqInv, FInv, TInv, StateTypes
<1>2. vs.last \in Nat /\ vs'.last \in Nat /\ logNum \in Nat /\ logNum' \in Nat
  BY <1>1, Zenon DEF VerTypes, MemTypes
<1>3. CASE up = "open"
  <2>1. PICK last, seq, pc : last = vs.last /\ seq = wr.w.seq /\ pc = wr.pc
    BY Zenon
  <2>2. pc # "idle" => seq = last + 1 /\ last <= seq
    BY <1>1, <1>2, <1>3, <2>1 DEF OpenSeq
  <2>3. ASSUME NEW w, Stored(w)' PROVE w.seq <= vs'.last
    <3>1. w.seq \in Nat
      BY <2>3, HeldTypedAfter, Zenon DEF Held
    <3>2. Stored(w) \/ (Insert /\ w = wr.w)
      BY <1>3, <2>3, HeldStep, Zenon DEF RecoverLogFile
    <3>3. Stored(w) => w.seq <= last
      BY <1>1, <1>3, <2>1, Zenon DEF OpenSeq
    <3>4. (vs'.last = last /\ ~Insert) \/ (vs'.last = seq /\ pc # "idle")
      BY <1>3, <2>1, WriterStep, Zenon
    <3>5. w = wr.w => w.seq = seq
      BY <2>1, Zenon
    <3> QED
      BY <1>2, <2>1, <2>2, <3>1, <3>2, <3>3, <3>4, <3>5
  <2>4. ASSUME NEW w, NEW l, Read(w, l)'
        PROVE  w.seq <= vs'.last \/ (wr'.pc # "idle" /\ l = logNum' /\ w = wr'.w)
    <3>1. w.seq \in Nat
      BY <2>4, HeldTypedAfter, Zenon DEF Held
    <3>2. w.seq <= last \/ (pc # "idle" /\ l = logNum /\ w = wr.w)
      <4>1. Read(w, l) \/ (AddRecord /\ l = logNum /\ w = wr.w)
        BY <2>4, ReadStep, Zenon
      <4>2. Read(w, l) => w.seq <= last \/ (pc # "idle" /\ l = logNum /\ w = wr.w)
        BY <1>1, <1>3, <2>1, Zenon DEF OpenSeq
      <4>3. AddRecord => pc # "idle"
        BY <2>1, Zenon DEF AddRecord
      <4> QED
        BY <4>1, <4>2, <4>3, Zenon
    <3>3. CASE /\ vs'.last = last /\ wr'.w = wr.w /\ (wr'.pc = "idle" <=> pc = "idle")
               /\ pc # "idle" => logNum' = logNum
      BY <3>2, <3>3, Zenon
    <3>4. CASE vs'.last = last /\ pc = "idle"
      BY <3>2, <3>4, Zenon
    <3>5. CASE vs'.last = seq /\ pc # "idle"
      <4>1. w = wr.w => w.seq = seq
        BY <2>1, Zenon
      <4> QED
        BY <1>2, <2>1, <2>2, <3>1, <3>2, <3>5, <4>1
    <3> QED
      BY <1>3, <2>1, <3>3, <3>4, <3>5, WriterStep, Zenon
  <2>5. wr'.pc # "idle" => wr'.w.seq = vs'.last + 1
    BY <1>3, <2>1, <2>2, WriterStep, Zenon
  <2>6. ASSUME NEW n \in ManifestLengths' PROVE V(n)'.log <= logNum'
    <3>1. PICK k : k = V(n)'.log
      BY Zenon
    <3>2. k \in Nat /\ k <= logNum
      <4>1. (\E m \in ManifestLengths : k = V(m).log) \/ (ap.pc # "idle" /\ k = ap.edit.log)
        BY <1>3, <2>6, <3>1, VersionStep, Zenon DEF NewDBCurrent
      <4>2. ASSUME NEW m \in ManifestLengths PROVE V(m).log \in Nat /\ V(m).log <= logNum
        BY <1>1, <1>3, <4>2, VersionTyped, Zenon DEF OpenSeq
      <4>3. ap.pc # "idle" => ap.edit.log \in Nat /\ ap.edit.log <= logNum
        BY <1>1, Zenon DEF LogOrder, FInv, TInv, StateTypes, ApplyTypes, Edits
      <4> QED
        BY <4>1, <4>2, <4>3, Zenon
    <3>3. logNum <= logNum'
      BY <1>3, WriterStep, Zenon
    <3> QED
      BY <1>2, <3>1, <3>2, <3>3
  <2> QED
    BY <2>3, <2>4, <2>5, <2>6, Zenon DEF OpenSeq
<1>4. CASE up = "opening" /\ OpenInstall
  <2>1. vs'.last = vs.last /\ wr' = wr /\ wr.pc = "idle" /\ logNum' = logNum
    BY <1>1, <1>4, Zenon DEF OpenInstall, VerTypes, Phases, memVars
  <2>2. ASSUME NEW w, Held(w)' PROVE w.seq <= vs'.last
    <3>1. Held(w)
      BY <2>1, <2>2, HeldStep, Zenon DEF AddRecord, Insert
    <3> QED
      BY <1>1, <1>4, <2>1, <3>1, Zenon DEF RecoverSeq
  <2>3. ASSUME NEW n \in ManifestLengths' PROVE V(n)'.log <= logNum'
    <3>1. /\ current = vs.man /\ manifests[vs.man].edits = <<Snapshot, ap.edit>>
          /\ manifests[vs.man].synced = 2 /\ vs.man \in DOMAIN manifests
      BY <1>4, Zenon DEF FInv, ManifestInv, OpenInstall
    <3>2. Manifest.edits = <<Snapshot, ap.edit>> /\ Manifest.synced = 2
      BY <3>1, Zenon DEF Manifest
    <3>3. Manifest' = Manifest
      BY <1>4, ManifestStep, Zenon
         DEF OpenInstall, ApplySync, ApplyCurrent, NewDBCurrent, Crash, Reset
    <3>4. ap.edit \in Edits /\ ap.edit.ok /\ Snapshot \in Edits /\ Snapshot.ok
      BY <1>4, SnapshotTyped, Zenon
         DEF OpenInstall, FInv, TInv, StateTypes, ApplyTypes, EditInv
    <3>5. Len(<<Snapshot, ap.edit>>) = 2
      OBVIOUS
    <3>6. ManifestLengths = 2..2
      BY <3>2, <3>5, Zenon DEF ManifestLengths
    <3>7. n \in ManifestLengths /\ V(n)' = V(n)
      BY <2>3, <3>3, ManifestSame, Zenon
    <3>8. n = 2
      BY <3>6, <3>7
    <3>9. PICK s, e : s = Snapshot /\ e = ap.edit
      BY Zenon
    <3>10. Replay(<<s, e>>, 2).log = e.log
      BY <3>4, <3>9, OpenVersion, Zenon
    <3>11. V(2).log = ap.edit.log
      BY <3>2, <3>9, <3>10, Zenon DEF V
    <3>12. ap.edit.log <= logNum
      BY <1>1, <1>4, Zenon DEF LogOrder, OpenInstall
    <3> QED
      BY <2>1, <3>7, <3>8, <3>11, <3>12, Zenon
  <2> QED
    BY <2>1, <2>2, <2>3, Zenon DEF OpenSeq, Held
<1> QED
  BY <1>3, <1>4, UpStep, Zenon

(* A write in a table that a recovery may read was in a used table.        *)
LEMMA RecordedFiled ==
  ASSUME FInv, FInv', Next, NEW k \in ManifestLengths', NEW f \in V(k)'.files, Used(f),
         NEW w \in tables'[f].data
  PROVE  Filed(w) /\ w \in tables[f].data
<1>1. Used(f)'
  BY Zenon DEF Used, Recorded
<1> QED
  BY <1>1, TablesFrame, Zenon DEF Filed

LEMMA ManifestSeqStep ==
  ASSUME FInv, FInv', Next, SeqInv
  PROVE  ManifestSeq'
<1>1. /\ OpenSeq /\ ManifestSeq /\ EditSeq /\ RecoverSeq /\ Phases /\ LogOrder /\ LogTypes
      /\ LogTypes' /\ MemTypes /\ ApplyTypes /\ ManifestTypes
  BY Zenon DEF SeqInv, FInv, TInv, FileTypes, StateTypes
<1>2. Len(Manifest.edits) \in ManifestLengths /\ logNum \in Nat
  BY <1>1, ManifestTyped, Zenon DEF MemTypes
<1>3. ASSUME NEW w, NEW l, Read(w, l)', NEW b \in Nat, l < b, up = "open" => b <= logNum
      PROVE  Read(w, l)
  <2>1. CASE AddRecord /\ l = logNum
    <3>1. up = "open"
      BY <1>1, <2>1, Zenon DEF AddRecord, Phases
    <3> QED
      BY <1>2, <1>3, <2>1, <3>1
  <2> QED
    BY <1>3, <2>1, ReadStep, Zenon
<1>4. ASSUME NEW k \in ManifestLengths'
      PROVE  /\ \A f \in V(k)'.files : \A w \in tables'[f].data : w.seq <= V(k)'.last
             /\ \A w, l : Read(w, l)' /\ l < V(k)'.log => w.seq <= V(k)'.last
  <2>1. PICK files, log, last : files = V(k)'.files /\ log = V(k)'.log /\ last = V(k)'.last
    BY Zenon
  <2>2. CASE \E n \in ManifestLengths : files = V(n).files /\ log = V(n).log /\ last = V(n).last
    <3>1. PICK n \in ManifestLengths : files = V(n).files /\ log = V(n).log /\ last = V(n).last
      BY <2>2, Zenon
    <3>2. log \in Nat /\ (up = "open" => log <= logNum)
      BY <1>1, <3>1, VersionTyped, Zenon DEF OpenSeq
    <3>3. ASSUME NEW f \in files, NEW w \in tables'[f].data PROVE w.seq <= last
      <4>1. Used(f)
        BY <3>1, <3>3, Zenon DEF Used, Recorded
      <4>2. w \in tables[f].data
        BY <1>4, <2>1, <3>3, <4>1, RecordedFiled, Zenon
      <4> QED
        BY <1>1, <3>1, <3>3, <4>2, Zenon DEF ManifestSeq
    <3>4. ASSUME NEW w, NEW l, Read(w, l)', l < log PROVE w.seq <= last
      <4>1. Read(w, l)
        BY <1>3, <3>2, <3>4, Zenon
      <4> QED
        BY <1>1, <3>1, <3>4, <4>1, Zenon DEF ManifestSeq
    <3> QED
      BY <2>1, <3>3, <3>4, Zenon
  <2>3. CASE /\ up = "open" /\ ap.pc = "append"
             /\ files \subseteq V(Len(Manifest.edits)).files \cup ap.edit.add
             /\ log = ap.edit.log /\ last = ap.edit.last
    <3>1. log \in Nat /\ log <= logNum
      BY <1>1, <2>3, Zenon DEF LogOrder, ApplyTypes, Edits
    <3>2. ASSUME NEW f \in files, NEW w \in tables'[f].data PROVE w.seq <= last
      <4>1. Used(f)
        BY <1>2, <2>3, <3>2, Zenon DEF Used, Recorded, InUse
      <4>2. Filed(w)
        BY <1>4, <2>1, <3>2, <4>1, RecordedFiled, Zenon
      <4> QED
        BY <1>1, <2>3, <4>2, Zenon DEF EditSeq
    <3>3. ASSUME NEW w, NEW l, Read(w, l)', l < log PROVE w.seq <= last
      <4>1. Read(w, l)
        BY <1>3, <3>1, <3>3, Zenon
      <4> QED
        BY <1>1, <2>3, <3>3, <4>1, Zenon DEF EditSeq
    <3> QED
      BY <2>1, <3>2, <3>3, Zenon
  <2>4. CASE /\ ApplyCurrent /\ up = "opening" /\ files \subseteq cur \cup ap.edit.add
             /\ log = ap.edit.log /\ last = ap.edit.last
    <3>1. ASSUME NEW w, Held(w) PROVE w.seq <= last
      BY <1>1, <2>4, <3>1, Zenon DEF RecoverSeq
    <3>2. ASSUME NEW f \in files, NEW w \in tables'[f].data PROVE w.seq <= last
      <4>1. Used(f)
        BY <2>4, <3>2, Zenon DEF Used, InUse
      <4>2. Filed(w)
        BY <1>4, <2>1, <3>2, <4>1, RecordedFiled, Zenon
      <4> QED
        BY <3>1, <4>2, Zenon DEF Held, Stored
    <3>3. ASSUME NEW w, NEW l, Read(w, l)' PROVE w.seq <= last
      <4>1. wr.pc = "idle"
        BY <1>1, <2>4, Zenon DEF Phases
      <4>2. Read(w, l)
        BY <3>3, <4>1, ReadStep, Zenon DEF AddRecord
      <4> QED
        BY <3>1, <4>2, Zenon DEF Held
    <3> QED
      BY <2>1, <3>2, <3>3, Zenon
  <2>5. CASE files = {} /\ log = 0
    <3>1. ASSUME NEW w, NEW l, Read(w, l)', l < log PROVE FALSE
      <4>1. l \in DOMAIN logs'
        BY <3>1, Zenon DEF Read
      <4>2. l \in Nat
        BY <1>1, <4>1, BoundAssumption DEF LogTypes
      <4> QED
        BY <2>5, <3>1, <4>2
    <3> QED
      BY <2>1, <2>5, <3>1, Zenon
  <2> QED
    BY <1>4, <2>1, <2>2, <2>3, <2>4, <2>5, VersionStep, Zenon
<1> QED
  BY <1>4, Zenon DEF ManifestSeq

(* The edit of an open database: it is left alone, or begun with the       *)
(* current LastSequence.                                                   *)
LEMMA EditStep ==
  ASSUME FInv, Next, up' = "open", ap'.pc = "append"
  PROVE  /\ up = "open"
         /\ \/ /\ UNCHANGED ap /\ ~FlushBuilt
            \/ /\ FlushBuilt \/ CompactStart \/ CompactFinish
               /\ ap'.edit.last = vs.last /\ ap'.edit.log \in Nat /\ ap'.edit.log <= logNum
<1>1. VerTypes /\ ApplyTypes /\ MemTypes /\ LogOrder /\ Phases
  BY Zenon DEF FInv, TInv, StateTypes
<1>2. logNum \in Nat /\ vs.log \in Nat
  BY <1>1, Zenon DEF VerTypes, MemTypes
<1>3. up = "open" => vs.log <= logNum /\ logNum <= logNum
  BY <1>1, <1>2 DEF LogOrder
<1>4. ASSUME NEW kind, NEW add, NEW del, NEW log, log \in {logNum, vs.log},
             BeginApply(kind, add, del, log, vs), up = "open"
      PROVE  ap'.edit.last = vs.last /\ ap'.edit.log \in Nat /\ ap'.edit.log <= logNum
  <2>1. ap'.edit.last = vs.last /\ ap'.edit.log = log
    BY <1>4, BeginApplyStarts, Zenon
  <2> QED
    BY <1>2, <1>3, <1>4, <2>1, Zenon
<1>5. CASE FlushBuilt
  <2>1. up = "open" /\ ap.pc = "idle"
    BY <1>1, <1>5, Zenon DEF FlushBuilt, Phases
  <2>2. PICK add : BeginApply("flush", add, {}, logNum, vs)
    BY <1>5, <2>1, Zenon DEF FlushBuilt
  <2> QED
    BY <1>4, <1>5, <2>1, <2>2, Zenon
<1>6. CASE CompactStart /\ ~FlushBuilt
  <2>1. up = "open"
    BY <1>6, Zenon DEF CompactStart
  <2>2. UNCHANGED ap \/ \E inputs : BeginApply("move", inputs, inputs, vs.log, vs)
    BY <1>6, Zenon DEF CompactStart
  <2> QED
    BY <1>4, <1>6, <2>1, <2>2, Zenon
<1>7. CASE CompactFinish /\ ~FlushBuilt
  <2>1. up = "open"
    BY <1>1, <1>7, Zenon DEF CompactFinish, Phases
  <2>2. UNCHANGED ap \/ BeginApply("compact", {cp.out}, cp.inputs, vs.log, vs)
    BY <1>7, Zenon DEF CompactFinish
  <2> QED
    BY <1>4, <1>7, <2>1, <2>2, Zenon
<1>8. NoAp.pc # "append"
  BY DEF NoAp
<1>9. CASE /\ ~FlushBuilt
           /\ \/ SwitchLog \/ BeginWrite \/ AddRecord \/ SyncLog \/ Insert
              \/ FlushStart \/ CompactOpenOutput
              \/ \E r \in Readers : Pin(r) \/ Unpin(r)
  <2>1. UNCHANGED <<ap, up>>
    BY <1>9, Zenon
       DEF SwitchLog, BeginWrite, AddRecord, SyncLog, Insert, FlushStart,
       CompactOpenOutput, Pin, Unpin, procVars
  <2> QED
    BY <1>9, <2>1, Zenon
<1>10. CASE ApplyAppend \/ ApplySync \/ ApplyCurrent
  BY <1>1, <1>10 DEF ApplyAppend, ApplySync, ApplyCurrent, ApplyTypes
<1>11. CASE FlushInstall \/ CompactInstall \/ MoveInstall \/ OpenInstall \/ FlushFail \/ CompactFail
  BY <1>8, <1>11, Zenon
     DEF FlushInstall, CompactInstall, MoveInstall, OpenInstall, FlushFail, CompactFail
<1>12. CASE OpenFail \/ OpenGiveUp \/ Crash
  BY <1>12, Zenon DEF OpenFail, OpenGiveUp, Crash, Reset
<1>13. CASE NewDB \/ NewDBCurrent \/ OpenRecover \/ RecoverLogFile \/ OpenApply
  BY <1>13, Zenon DEF NewDB, NewDBCurrent, OpenRecover, RecoverLogFile, OpenApply
<1> QED
  BY <1>5, <1>6, <1>7, <1>9, <1>10, <1>11, <1>12, <1>13, Zenon DEF Next

LEMMA EditSeqStep ==
  ASSUME FInv, FInv', Next, SeqInv, up' = "open", ap'.pc = "append"
  PROVE  EditSeq'
<1>1. OpenSeq /\ EditSeq /\ Phases /\ LogOrder /\ MemTypes /\ ApplyTypes /\ up = "open"
  BY EditStep, Zenon DEF SeqInv, FInv, TInv, StateTypes
<1>2. ASSUME NEW w, Filed(w)' PROVE Filed(w) \/ (FlushBuilt /\ w \in imm)
  BY <1>1, <1>2, FiledStep, Zenon DEF RecoverLogFile
<1>3. logNum \in Nat
  BY <1>1, Zenon DEF MemTypes
<1>4. CASE UNCHANGED ap /\ ~FlushBuilt
  <2>1. ap.pc = "append" /\ ap'.edit = ap.edit
    BY <1>4, Zenon
  <2>2. ap.edit.log \in Nat /\ ap.edit.log <= logNum
    BY <1>1, <2>1, Zenon DEF LogOrder, ApplyTypes, Edits
  <2>3. ASSUME NEW w, NEW l, Read(w, l)', l < ap.edit.log PROVE w.seq <= ap.edit.last
    <3>1. l # logNum
      BY <1>3, <2>2, <2>3
    <3>2. Read(w, l)
      BY <2>3, <3>1, ReadStep, Zenon
    <3> QED
      BY <1>1, <2>1, <2>3, <3>2, Zenon DEF EditSeq
  <2>4. ASSUME NEW w, Filed(w)' PROVE w.seq <= ap.edit.last
    BY <1>1, <1>2, <1>4, <2>1, <2>4, Zenon DEF EditSeq
  <2> QED
    BY <2>1, <2>3, <2>4, Zenon DEF EditSeq
<1>5. CASE /\ FlushBuilt \/ CompactStart \/ CompactFinish
           /\ ap'.edit.last = vs.last /\ ap'.edit.log \in Nat /\ ap'.edit.log <= logNum
  <2>1. PICK log : log = ap'.edit.log
    BY Zenon
  <2>2. ASSUME NEW w, NEW l, Read(w, l)', l < log PROVE w.seq <= vs.last
    <3>1. l # logNum
      BY <1>3, <1>5, <2>1, <2>2
    <3>2. Read(w, l)
      BY <2>2, <3>1, ReadStep, Zenon
    <3> QED
      BY <1>1, <3>1, <3>2, Zenon DEF OpenSeq
  <2>3. ASSUME NEW w, Filed(w)' PROVE w.seq <= vs.last
    BY <1>1, <1>2, <2>3, Zenon DEF OpenSeq, Stored
  <2> QED
    BY <1>5, <2>1, <2>2, <2>3, Zenon DEF EditSeq
<1> QED
  BY <1>4, <1>5, EditStep, Zenon

(* A database that is not open has no memtable, and the prefixes of its    *)
(* MANIFEST name no tables that the whole does not name.                   *)
LEMMA ClosedStep ==
  ASSUME FInv, FInv', Next, SeqInv, up' # "open"
  PROVE  /\ mem' = {} /\ imm' = {}
         /\ \A n \in ManifestLengths' : V(n)'.files \subseteq V(Len(Manifest.edits))'.files
<1>1. /\ RecoverSeq /\ Phases /\ ManifestInv /\ ManifestTypes' /\ ManifestTypes
  BY Zenon DEF SeqInv, FInv, TInv, FileTypes
<1>2. up = "open" => Crash
  BY UpStep, Zenon
<1>3. mem' = {} /\ imm' = {}
  <2>1. CASE Crash
    BY <2>1, Zenon DEF Crash, Reset
  <2>2. CASE ~Crash
    <3>1. up # "open" /\ wr.pc = "idle"
      BY <1>1, <1>2, <2>2, Zenon DEF Phases
    <3>2. ASSUME NEW w, w \in mem' \/ w \in imm' PROVE FALSE
      BY <1>1, <3>1, <3>2, MemStep, Zenon DEF RecoverSeq, Insert
    <3> QED
      BY <3>2, Zenon
  <2> QED
    BY <2>1, <2>2, Zenon
<1>4. ASSUME NEW n \in ManifestLengths' PROVE V(n)'.files \subseteq V(Len(Manifest.edits))'.files
  <2>1. PICK L : L = Len(Manifest'.edits)
    BY Zenon
  <2>2. L \in ManifestLengths' /\ L \in Nat
    <3>1. CASE current' \in DOMAIN manifests'
      <4>1. PICK m : m = manifests'[current']
        BY Zenon
      <4>2. m \in [edits : Seq(Edits), synced : Nat] /\ m.synced <= Len(m.edits)
        BY <1>1, <3>1, <4>1, Zenon DEF ManifestTypes
      <4>3. Manifest' = m
        BY <3>1, <4>1, Zenon DEF Manifest
      <4>4. Manifest'.synced \in 0..L /\ L \in Nat
        BY <2>1, <4>2, <4>3
      <4> QED
        BY <2>1, <4>4 DEF ManifestLengths
    <3>2. CASE current' \notin DOMAIN manifests'
      <4>1. Manifest' = [edits |-> <<>>, synced |-> 0]
        BY <3>2, Zenon DEF Manifest
      <4>2. Manifest'.synced = 0 /\ L = 0
        BY <2>1, <4>1
      <4> QED
        BY <2>1, <4>2 DEF ManifestLengths
    <3> QED
      BY <3>1, <3>2, Zenon
  <2>3. CASE Manifest'.synced = L
    <3>1. n = L
      BY <1>4, <2>1, <2>2, <2>3 DEF ManifestLengths
    <3> QED
      BY <2>1, <3>1, Zenon
  <2>4. CASE Manifest' = Manifest /\ up # "open"
    <3>1. /\ n \in ManifestLengths /\ V(n)' = V(n) /\ V(L)' = V(L)
          /\ L = Len(Manifest.edits)
      BY <1>4, <2>1, <2>4, ManifestSame, Zenon
    <3>2. V(n).files \subseteq V(L).files
      BY <1>1, <2>4, <3>1, Zenon DEF RecoverSeq
    <3> QED
      BY <2>1, <3>1, <3>2, Zenon
  <2>5. CASE Crash /\ current \in DOMAIN manifests
    <3>1. PICK tail : manifests'[current] = [edits |-> tail, synced |-> Len(tail)]
      BY <2>5, Zenon DEF Crash
    <3>2. current' = current /\ DOMAIN manifests' = DOMAIN manifests
      BY <2>5, Zenon DEF Crash
    <3>3. Manifest' = [edits |-> tail, synced |-> Len(tail)]
      BY <2>5, <3>1, <3>2, Zenon DEF Manifest
    <3>4. Manifest'.synced = Len(Manifest'.edits)
      BY <3>3
    <3> QED
      BY <2>1, <2>3, <3>4, Zenon
  <2>6. CASE ApplyCurrent /\ Manifest'.edits = <<Snapshot, ap.edit>> /\ Manifest'.synced = 2
    <3>1. L = 2
      BY <2>1, <2>6
    <3> QED
      BY <2>3, <2>6, <3>1, Zenon
  <2>7. CASE NewDBCurrent
    <3>1. current = 0 /\ up = "newdb"
      BY <1>1, <2>7, Zenon DEF NewDBCurrent, ManifestInv
    <3>2. current \notin DOMAIN manifests
      BY <1>1, <3>1 DEF ManifestTypes
    <3>3. Manifest = [edits |-> <<>>, synced |-> 0]
      BY <3>2, Zenon DEF Manifest
    <3>4. Manifest.synced = 0 /\ Len(Manifest.edits) = 0
      BY <3>3
    <3>5. ManifestLengths = 0..0
      BY <3>4, Zenon DEF ManifestLengths
    <3>6. ASSUME NEW m \in ManifestLengths PROVE V(m).files = {}
      <4>1. m = 0
        BY <3>5, <3>6
      <4> QED
        BY <4>1, ReplayNothing, Zenon DEF V
    <3>7. V(n)'.files = {}
      BY <1>4, <2>7, <3>1, <3>6, VersionStep, Zenon
    <3> QED
      BY <3>7, Zenon
  <2>8. CASE Crash /\ current \notin DOMAIN manifests
    <3>1. current = 0
      BY <1>1, <2>8, Zenon DEF ManifestInv
    <3>2. up # "open"
      BY <1>1, <3>1, Zenon DEF ManifestInv, Alive
    <3>3. Manifest' = Manifest
      BY <2>8, ManifestUntouched, Zenon DEF Crash
    <3> QED
      BY <2>4, <3>2, <3>3, Zenon
  <2>9. CASE ~Crash /\ ~NewDBCurrent
    <3>1. up # "open"
      BY <1>2, <2>9, Zenon
    <3> QED
      BY <2>4, <2>6, <2>9, <3>1, ManifestStep, Zenon
  <2> QED
    BY <2>5, <2>7, <2>8, <2>9, Zenon
<1> QED
  BY <1>3, <1>4, Zenon

LEMMA RecoverSeqStep ==
  ASSUME FInv, FInv', Next, SeqInv
  PROVE  RecoverSeq'
<1>1. /\ ManifestSeq /\ RecoverSeq /\ Phases /\ Phases' /\ ManifestTypes /\ LogTypes
      /\ VerTypes /\ ApplyTypes
  BY Zenon DEF SeqInv, FInv, TInv, FileTypes, StateTypes
<1>2. Len(Manifest.edits) \in ManifestLengths
  BY <1>1, ManifestTyped, Zenon
<1>3. ASSUME up # "open", NEW w, Held(w)' PROVE Held(w) /\ w.seq \in Nat
  <2>1. wr.pc = "idle"
    BY <1>1, <1>3, Zenon DEF Phases
  <2> QED
    BY <1>3, <2>1, HeldStep, HeldTypedAfter, Zenon DEF AddRecord, Insert
<1>4. ASSUME OpenRecover, up' = "recovering", NEW w, Held(w)'
      PROVE  w.seq <= vs'.last \/ \E l \in rc'.todo : Read(w, l)'
  <2>1. PICK v : v = V(Len(Manifest.edits))
    BY Zenon
  <2>2. /\ up = "down" /\ vs'.last = v.last /\ cur' = v.files /\ rc'.add = {}
        /\ rc'.todo = {l \in DOMAIN logs : l >= v.log}
    BY <1>1, <1>4, <2>1, OpenRecoverCases, Zenon
  <2>3. UNCHANGED <<logs, tables, mem, imm, cp, ap, pins>> /\ Manifest' = Manifest
    BY <1>4, ManifestUntouched, Zenon DEF OpenRecover, disk, memVars
  <2>4. v.log \in Nat
    BY <1>2, <2>1, VersionTyped, Zenon
  <2>5. CASE Filed(w)'
    <3>1. PICK f : Used(f)' /\ w \in tables[f].data
      BY <2>3, <2>5, Zenon DEF Filed
    <3>2. cp.ver = {} /\ ap.edit.add = {} /\ \A r \in Readers : pins[r] = {}
      BY <1>1, <2>2, Zenon DEF Phases
    <3>3. f \in v.files
      <4>1. CASE InUse(f)'
        BY <2>2, <2>3, <3>2, <4>1, Zenon DEF InUse
      <4>2. CASE Recorded(f)'
        <5>1. Recorded(f)
          BY <2>3, <4>2, ManifestSame, Zenon
        <5> QED
          BY <1>1, <2>1, <2>2, <5>1, Zenon DEF Recorded, RecoverSeq
      <4> QED
        BY <3>1, <4>1, <4>2, Zenon DEF Used
    <3> QED
      BY <1>1, <1>2, <2>1, <2>2, <3>1, <3>3, Zenon DEF ManifestSeq
  <2>6. CASE w \in mem' \/ w \in imm'
    BY <1>1, <2>2, <2>3, <2>6, Zenon DEF RecoverSeq
  <2>7. ASSUME NEW l, Read(w, l)' PROVE w.seq <= vs'.last \/ \E k \in rc'.todo : Read(w, k)'
    <3>1. Read(w, l) /\ l \in DOMAIN logs
      BY <2>3, <2>7, Zenon DEF Read
    <3>2. l \in Nat
      BY <1>1, <3>1, BoundAssumption DEF LogTypes
    <3>3. l < v.log \/ l >= v.log
      BY <2>4, <3>2
    <3>4. l < v.log => w.seq <= v.last
      BY <1>1, <1>2, <2>1, <3>1, Zenon DEF ManifestSeq
    <3> QED
      BY <2>2, <2>7, <3>1, <3>3, <3>4, Zenon
  <2> QED
    BY <1>4, <2>5, <2>6, <2>7, Zenon DEF Held, Stored
<1>5. ASSUME RecoverLogFile, up = "recovering", NEW w, Held(w)'
      PROVE  w.seq <= vs'.last \/ w.seq <= rc'.max \/ \E l \in rc'.todo : Read(w, l)'
  <2>1. PICK l, data, max : /\ l = Min(rc.todo) /\ data = Readable(logs[l].recs, AllRecords(l))
                            /\ max = Max({rc.max} \cup {x.seq : x \in data})
    BY Zenon
  <2>2. l \in DOMAIN logs /\ max \in Nat /\ rc.max <= max /\ \A x \in data : x.seq <= max
    BY <1>5, <2>1, RecoverNumbers, Zenon
  <2>3. /\ UNCHANGED logs /\ \E n : vs' = [vs EXCEPT !.next = n]
        /\ \/ /\ data = {} /\ rc' = [rc EXCEPT !.todo = @ \ {l}, !.ok = TRUE]
           \/ \E add, ok : rc' = [todo |-> rc.todo \ {l}, add |-> add, ok |-> ok, max |-> max]
    BY <1>5, <2>1, Zenon DEF RecoverLogFile
  <2>4. vs'.last = vs.last
    BY <1>1, <2>3, Zenon DEF VerTypes
  <2>5. rc'.todo = rc.todo \ {l} /\ ((data = {} /\ rc'.max = rc.max) \/ rc'.max = max)
    <3>1. CASE data = {} /\ rc' = [rc EXCEPT !.todo = @ \ {l}, !.ok = TRUE]
      <4>1. PICK r, s : r = rc /\ s = rc.todo \ {l}
        BY Zenon
      <4>2. r \in [todo : SUBSET Nat, add : SUBSET Nat, max : Nat, ok : BOOLEAN]
        BY <1>1, <4>1, Zenon DEF ApplyTypes
      <4>3. /\ [r EXCEPT !.todo = s, !.ok = TRUE].todo = s
            /\ [r EXCEPT !.todo = s, !.ok = TRUE].max = r.max
        BY <4>2, Zenon
      <4> QED
        BY <3>1, <4>1, <4>3, Zenon
    <3>2. ASSUME NEW add, NEW ok, rc' = [todo |-> rc.todo \ {l}, add |-> add, ok |-> ok, max |-> max]
          PROVE  rc'.todo = rc.todo \ {l} /\ rc'.max = max
      BY <3>2, Zenon
    <3> QED
      BY <2>3, <3>1, <3>2, Zenon
  <2>6. Held(w) /\ w.seq \in Nat
    BY <1>3, <1>5, Zenon
  <2>7. CASE w.seq <= vs.last
    BY <2>4, <2>7, Zenon
  <2>8. CASE w.seq <= rc.max
    <3>1. rc.max \in Nat
      BY <1>1, Zenon DEF ApplyTypes
    <3>2. w.seq <= max
      BY <2>2, <2>6, <2>8, <3>1
    <3> QED
      BY <2>5, <2>8, <3>2, Zenon
  <2>9. CASE \E k \in rc.todo : Read(w, k)
    <3>1. PICK k \in rc.todo : Read(w, k)
      BY <2>9, Zenon
    <3>2. CASE k = l
      <4>1. w \in data
        BY <2>1, <3>1, <3>2, Zenon DEF Read, AllRecords
      <4> QED
        BY <2>2, <2>5, <4>1, Zenon
    <3>3. CASE k # l
      BY <2>3, <2>5, <3>1, <3>3, Zenon DEF Read
    <3> QED
      BY <3>2, <3>3, Zenon
  <2> QED
    BY <1>1, <1>5, <2>6, <2>7, <2>8, <2>9, Zenon DEF RecoverSeq
<1>6. CASE up' = "opening"
  <2>1. ASSUME OpenApply, up = "recovering"
        PROVE  ap'.edit.last = vs'.last /\ \A w : Held(w)' => w.seq <= vs'.last
    <3>1. PICK last : last = Max({vs.last, rc.max})
      BY Zenon
    <3>2. vs.last \in Nat /\ rc.max \in Nat
      BY <1>1, Zenon DEF VerTypes, ApplyTypes
    <3>3. last \in Nat /\ last >= vs.last /\ last >= rc.max
      <4>1. last \in {vs.last, rc.max} /\ last >= vs.last /\ last >= rc.max
        BY <3>1, <3>2, MaxOfTwo, Zenon
      <4> QED
        BY <3>2, <4>1, Zenon
    <3>4. /\ rc.todo = {} /\ vs' = [vs EXCEPT !.next = @ + 1, !.last = last]
          /\ BeginApply("open", rc.add, {}, vs.next, vs')
      BY <2>1, <3>1, Zenon DEF OpenApply
    <3>5. ap'.edit.last = vs'.last
      <4>1. PICK v : v = vs'
        BY Zenon
      <4>2. BeginApply("open", rc.add, {}, vs.next, v)
        BY <3>4, <4>1, Zenon
      <4>3. ap'.edit.last = v.last
        BY <4>2, BeginApplyStarts, Zenon
      <4> QED
        BY <4>1, <4>3, Zenon
    <3>6. vs'.last = last
      BY <1>1, <3>4 DEF VerTypes
    <3>7. ASSUME NEW w, Held(w)' PROVE w.seq <= vs'.last
      <4>1. Held(w) /\ w.seq \in Nat
        BY <1>3, <2>1, <3>7, Zenon
      <4>2. w.seq <= vs.last \/ w.seq <= rc.max
        BY <1>1, <2>1, <3>4, <4>1, Zenon DEF RecoverSeq
      <4> QED
        BY <3>2, <3>3, <3>6, <4>1, <4>2
    <3> QED
      BY <1>6, <3>5, <3>7, Zenon
  <2>2. ASSUME ApplyAppend \/ ApplySync \/ ApplyCurrent, up = "opening"
        PROVE  ap'.edit.last = vs'.last /\ \A w : Held(w)' => w.seq <= vs'.last
    <3>1. vs' = vs /\ ap'.edit = ap.edit
      BY <1>1, <2>2, Zenon
         DEF ApplyAppend, ApplySync, ApplyCurrent, verVars, ApplyTypes
    <3>2. ASSUME NEW w, Held(w)' PROVE w.seq <= vs'.last
      BY <1>1, <1>3, <2>2, <3>1, <3>2, Zenon DEF RecoverSeq
    <3>3. ap.edit.last = vs.last
      BY <1>1, <2>2, Zenon DEF RecoverSeq
    <3> QED
      BY <3>1, <3>2, <3>3, Zenon
  <2>3. ap'.edit.last = vs'.last /\ \A w : Held(w)' => w.seq <= vs'.last
    BY <1>6, <2>1, <2>2, UpStep, Zenon
  <2> QED
    BY <1>6, <2>3, ClosedStep, Zenon DEF RecoverSeq
<1>7. CASE up' = "recovering"
  <2>1. \/ OpenRecover \/ (RecoverLogFile /\ up = "recovering")
    BY <1>7, UpStep, Zenon
  <2>2. ASSUME NEW w, Held(w)'
        PROVE  w.seq <= vs'.last \/ w.seq <= rc'.max \/ \E l \in rc'.todo : Read(w, l)'
    BY <1>4, <1>5, <1>7, <2>1, <2>2, Zenon
  <2> QED
    BY <1>7, <2>2, ClosedStep, Zenon DEF RecoverSeq
<1>8. CASE up' \notin {"recovering", "opening"}
  BY <1>8, ClosedStep, Zenon DEF RecoverSeq
<1> QED
  BY <1>6, <1>7, <1>8, Zenon

LEMMA SeqStep == FInv /\ FInv' /\ SeqInv /\ [Next]_vars => SeqInv'
<1>1. ASSUME FInv, FInv', SeqInv, Next PROVE SeqInv'
  <2>1. Distinct' /\ ManifestSeq' /\ RecoverSeq'
    BY <1>1, DistinctStep, ManifestSeqStep, RecoverSeqStep, Zenon
  <2>2. OpenSeq'
    <3>1. CASE up' = "open"
      BY <1>1, <3>1, OpenSeqStep, Zenon
    <3>2. CASE up' # "open"
      BY <3>2, Zenon DEF OpenSeq
    <3> QED
      BY <3>1, <3>2, Zenon
  <2>3. EditSeq'
    <3>1. CASE up' = "open" /\ ap'.pc = "append"
      BY <1>1, <3>1, EditSeqStep, Zenon
    <3>2. CASE ~(up' = "open" /\ ap'.pc = "append")
      BY <3>2, Zenon DEF EditSeq
    <3> QED
      BY <3>1, <3>2, Zenon
  <2> QED
    BY <2>1, <2>2, <2>3, Zenon DEF SeqInv
<1>2. ASSUME SeqInv, UNCHANGED vars PROVE SeqInv'
  <2>1. /\ UNCHANGED <<logs, tables, manifests, current, mem, imm, logNum, vs, cur, pins>>
        /\ UNCHANGED <<up, wr, cp, ap, rc>>
    BY <1>2, Zenon DEF vars, disk, memVars, verVars, procVars
  <2>2. Manifest' = Manifest
    BY <2>1, ManifestUntouched, Zenon
  <2>3. /\ ManifestLengths' = ManifestLengths /\ Len(Manifest.edits)' = Len(Manifest.edits)
        /\ \A n : V(n)' = V(n)
        /\ \A f : Recorded(f)' <=> Recorded(f)
    BY <2>2, ManifestSame, Zenon
  <2>4. \A f : Used(f)' <=> Used(f)
    BY <2>1, <2>3, Zenon DEF Used, InUse
  <2>5. \A w : Filed(w)' <=> Filed(w)
    BY <2>1, <2>4, Zenon DEF Filed
  <2>6. \A w : Stored(w)' <=> Stored(w)
    BY <2>1, <2>5, Zenon DEF Stored
  <2>7. \A w, l : Read(w, l)' <=> Read(w, l)
    BY <2>1, Zenon DEF Read
  <2>8. \A w : Held(w)' <=> Held(w)
    BY <2>6, <2>7, Zenon DEF Held
  <2>9. Distinct' /\ EditSeq'
    BY <1>2, <2>1, <2>5, <2>7, <2>8, Zenon DEF SeqInv, Distinct, EditSeq
  <2>10. OpenSeq'
    BY <1>2, <2>1, <2>3, <2>6, <2>7, Zenon DEF SeqInv, OpenSeq
  <2>11. ManifestSeq'
    BY <1>2, <2>1, <2>3, <2>7, Zenon DEF SeqInv, ManifestSeq
  <2>12. RecoverSeq'
    BY <1>2, <2>1, <2>3, <2>7, <2>8, Zenon DEF SeqInv, RecoverSeq
  <2> QED
    BY <2>9, <2>10, <2>11, <2>12, Zenon DEF SeqInv
<1> QED
  BY <1>1, <1>2, Zenon

LEMMA StartSeq == Init /\ FInv => SeqInv
<1> SUFFICES ASSUME Init, FInv PROVE SeqInv
  BY Zenon
<1>1. /\ up = "down" /\ mem = {} /\ imm = {} /\ DOMAIN logs = {} /\ DOMAIN tables = {}
  BY Zenon DEF Init, NoFiles
<1>2. ~ \E f : Used(f)
  BY <1>1, Zenon DEF FInv, TablesInv, Used
<1>3. ASSUME NEW w PROVE ~Filed(w) /\ ~Held(w) /\ \A l : ~Read(w, l)
  BY <1>1, <1>2, Zenon DEF Filed, Stored, Read, Held
<1>4. ASSUME NEW n \in ManifestLengths PROVE V(n).files = {}
  BY <1>2, <1>4, Zenon DEF Used, Recorded
<1>5. Distinct /\ OpenSeq /\ EditSeq
  BY <1>1, <1>3, Zenon DEF Distinct, OpenSeq, EditSeq
<1>6. ManifestSeq /\ RecoverSeq
  BY <1>1, <1>3, <1>4, Zenon DEF ManifestSeq, RecoverSeq
<1> QED
  BY <1>5, <1>6, Zenon DEF SeqInv

(* What a restart finds is among what is held.                             *)
LEMMA DataHeld ==
  ASSUME FInv, NEW w \in Data
  PROVE  (\E f : Used(f) /\ w \in tables[f].data) \/ \E l : Read(w, l)
<1>1. PICK L : L = Len(Manifest.edits)
  BY Zenon
<1>2. L \in ManifestLengths
  BY <1>1, ManifestTyped, Zenon DEF FInv, TInv, FileTypes
<1>3. w \in Content(V(L), AllRecords)
  BY <1>1, Zenon DEF Data, Found, V
<1>4. CASE \E f \in V(L).files : w \in tables[f].data
  BY <1>2, <1>4, Zenon DEF Used, Recorded
<1>5. CASE \E l \in DOMAIN logs : w \in Readable(logs[l].recs, Len(logs[l].recs))
  BY <1>5, Zenon DEF Read
<1> QED
  BY <1>3, <1>4, <1>5, Zenon DEF Content, AllRecords

(* No sequence number is used twice: of two different writes that a        *)
(* restart finds, in tables or in logs, one has the smaller number, and    *)
(* the next number that DBImpl::Write gives out is new.  It holds whatever *)
(* fails, and however many times the machine crashes: a recovery takes the *)
(* largest number from the MANIFEST and from the logs it reads, and an     *)
(* edit that makes a log obsolete carries the numbers that were in it.     *)
THEOREM NumbersUnique == Spec => []SequenceUnique
<1>1. Init /\ FInv => SeqInv
  BY StartSeq
<1>2. FInv /\ FInv' /\ SeqInv /\ [Next]_vars => SeqInv'
  BY SeqStep
<1>3. FInv /\ SeqInv => SequenceUnique
  <2>1. SUFFICES ASSUME FInv, SeqInv PROVE SequenceUnique
    BY Zenon
  <2>2. ASSUME NEW w \in Data PROVE Held(w)
    BY <2>1, <2>2, DataHeld, Zenon DEF Held, Stored, Filed
  <2>3. ASSUME NEW v \in Data, NEW w \in Data, v.seq = w.seq PROVE v = w
    BY <2>1, <2>2, <2>3, Zenon DEF SeqInv, Distinct
  <2>4. ASSUME up = "open", NEW w \in Data PROVE w = wr.w \/ w.seq <= vs.last
    BY <2>1, <2>2, <2>4, Zenon DEF SeqInv, OpenSeq, Held
  <2> QED
    BY <2>3, <2>4, Zenon DEF SequenceUnique
<1> QED
  BY <1>1, <1>2, <1>3, FilesInvariant, PTL DEF Spec

=============================================================================
