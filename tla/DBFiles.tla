------------------------------ MODULE DBFiles ------------------------------
(***************************************************************************)
(* The files of a LevelDB database and their life: log files, table files, *)
(* MANIFEST files and CURRENT, written by DBImpl and VersionSet, removed   *)
(* by DeleteObsoleteFiles, and read again by DB::Open after a crash.       *)
(*                                                                         *)
(* Two things run concurrently: the writer at the front of the queue (see  *)
(* DBWrite, which shows that there is only one) and the background thread, *)
(* which flushes and compacts.  Readers hold on to versions.  A crash may  *)
(* come between any two steps.                                             *)
(*                                                                         *)
(* A write is its identity and its sequence number.  A table is the set of *)
(* writes in it; the levels, which only matter for which keys are where,   *)
(* are in the module Compaction.  Log files fit into one 32KB block.       *)
(***************************************************************************)
EXTENDS Integers, Sequences, FiniteSets, FiniteSetsExt, Functions

CONSTANTS
  Readers,       \* reads and iterators that may be under way
  MaxWrites,     \* bound: writes in a behaviour
  MaxFile,       \* bound: file numbers allocated
  MaxEdits,      \* bound: edits in a MANIFEST beyond which no file is moved
  MaxCrashes,    \* bound: crashes
  Created,       \* the database exists already in the initial state
  Faults         \* which I/O calls may fail

FaultKinds == {"append", "sync", "build", "manifest", "torn", "recover"}

ASSUME BoundAssumption ==
  MaxWrites \in Nat /\ MaxFile \in Nat \ {0} /\ MaxEdits \in Nat /\ MaxCrashes \in Nat
ASSUME SettingAssumption == Created \in BOOLEAN /\ Faults \subseteq FaultKinds

VARIABLES
  logs,       \* log files: number -> records, and how many are synced
  tables,     \* table files: number -> contents, and whether complete
  manifests,  \* MANIFEST files: number -> edits, and how many are synced
  current,    \* the number in CURRENT; zero when there is no such file
  up,         \* what the process is doing
  vs,         \* VersionSet: file number counter and recorded numbers
  cur,        \* current_: the tables of the current version
  pins,       \* versions that reads hold a reference to
  pending,    \* pending_outputs_
  mem, imm,   \* mem_ and imm_
  hasImm,     \* imm_ # NULL
  logNum,     \* logfile_number_
  bgError,    \* ~bg_error_.ok()
  wr,         \* the writer at the front of the queue
  fl,         \* the flush in progress: CompactMemTable
  cp,         \* the compaction in progress: DoCompactionWork
  ap,         \* the LogAndApply in progress
  rc,         \* the recovery in progress: Recover
  issued,     \* history: writes begun
  acked,      \* history: acknowledged writes that must still be there
  crashes     \* history: crashes so far

disk    == <<logs, tables, manifests, current>>
memVars == <<mem, imm, hasImm, logNum>>
verVars == <<vs, cur, pins, pending>>
procVars == <<up, bgError, wr, fl, cp, ap, rc>>
hist    == <<issued, acked, crashes>>
vars    == <<disk, memVars, verVars, procVars, hist>>

Writes == [id : Nat, seq : Nat]
(* An edit that names a log also says that the log's number is used up.    *)
Edits == {e \in [add : SUBSET Nat, del : SUBSET Nat, log : Nat, next : Nat, last : Nat,
                 ok : BOOLEAN] : e.log = 0 \/ e.log < e.next}

NoEdit == [add |-> {}, del |-> {}, log |-> 0, next |-> 0, last |-> 0, ok |-> TRUE]
NoVs == [next |-> 0, man |-> 0, log |-> 0, last |-> 0]
NoWr == [pc |-> "idle", w |-> [id |-> 0, seq |-> 0], sync |-> FALSE]
NoFl == [pc |-> "idle", num |-> 0]
NoCp == [pc |-> "idle", out |-> 0, inputs |-> {}, ver |-> {}]
NoAp == [pc |-> "idle", kind |-> "none", edit |-> NoEdit]
NoRc == [todo |-> {}, add |-> {}, max |-> 0, ok |-> TRUE]

----------------------------------------------------------------------------
(* What a file says.                                                       *)

(* log::Reader over the first n records: a record that was not written in  *)
(* full hides the rest of its block.                                       *)
Readable(recs, n) ==
  {recs[i].w : i \in {j \in 1..n : \A k \in 1..j : recs[k].ok}}

(* The last of the first n edits of a MANIFEST that can be read.           *)
LastEdit(edits, n) ==
  IF \A i \in 1..n : ~edits[i].ok THEN NoEdit
  ELSE edits[CHOOSE i \in 1..n : edits[i].ok /\ \A j \in (i + 1)..n : ~edits[j].ok]

(* VersionSet::Recover over the first n edits of a MANIFEST.  Unlike the   *)
(* recovery of a log, it fails when the reader reports an edit that was    *)
(* not written in full, be it the last one.                                *)
Replay(edits, n) ==
  LET last == LastEdit(edits, n)
  IN  [files |-> {f \in UNION {edits[i].add : i \in 1..n} :
                    \E i \in 1..n :
                      /\ edits[i].ok /\ f \in edits[i].add
                      /\ \A j \in (i + 1)..n : edits[j].ok => f \notin edits[j].del},
       bad |-> last.next = 0 \/ \E i \in 1..n : ~edits[i].ok,
       log |-> last.log, next |-> last.next, last |-> last.last]

(* The MANIFEST that CURRENT names.                                        *)
Manifest == IF current \in DOMAIN manifests THEN manifests[current]
            ELSE [edits |-> <<>>, synced |-> 0]

(* The writes in the tables of a recovered version and in the logs it asks *)
(* for, when keep(l) records of log file l are left.                       *)
Content(v, keep(_)) ==
  (UNION {tables[f].data : f \in v.files \cap DOMAIN tables}) \cup
  (UNION {Readable(logs[l].recs, keep(l)) : l \in {l \in DOMAIN logs : l >= v.log}})

(* What a recovery finds when a crash leaves n edits of the MANIFEST.      *)
(* (TLC computes the member of a singleton once, a LET at every use.)      *)
Found(n, keep(_)) ==
  UNION {Content(v, keep) : v \in {Replay(edits, n) : edits \in {Manifest.edits}}}

AllRecords(l) == Len(logs[l].recs)
SyncedRecords(l) == logs[l].synced

(* How much of the MANIFEST may be left after a crash of the machine.      *)
ManifestLengths == Manifest.synced .. Len(Manifest.edits)

(* What a restart finds when only the process stops; and what is in the    *)
(* database for sure, whatever a crash of the machine leaves.              *)
Data == Found(Len(Manifest.edits), AllRecords)
Safe ==
  UNION {{w \in UNION kept : \A found \in kept : w \in found} :
           kept \in {{Found(n, SyncedRecords) : n \in ManifestLengths}}}

----------------------------------------------------------------------------
TypeOK ==
  /\ DOMAIN logs \subseteq 0..MaxFile
  /\ \A l \in DOMAIN logs :
       /\ logs[l].recs \in Seq([w : Writes, ok : BOOLEAN])
       /\ logs[l].synced \in 0..Len(logs[l].recs)
  /\ DOMAIN tables \subseteq 0..MaxFile
  /\ \A t \in DOMAIN tables :
       tables[t].data \subseteq Writes /\ tables[t].ok \in BOOLEAN
  /\ DOMAIN manifests \subseteq 0..MaxFile
  /\ \A m \in DOMAIN manifests :
       /\ manifests[m].edits \in Seq(Edits)
       /\ manifests[m].synced \in 0..Len(manifests[m].edits)
  /\ current \in Nat
  /\ up \in {"down", "newdb", "recovering", "opening", "open", "corrupt"}
  /\ vs \in [next : Nat, man : Nat, log : Nat, last : Nat]
  /\ cur \subseteq Nat /\ pins \in [Readers -> SUBSET Nat] /\ pending \subseteq Nat
  /\ mem \subseteq Writes /\ imm \subseteq Writes /\ hasImm \in BOOLEAN
  /\ logNum \in Nat /\ bgError \in BOOLEAN
  /\ wr \in [pc : {"idle", "append", "sync", "insert"}, w : Writes, sync : BOOLEAN]
  /\ fl \in [pc : {"idle", "build", "apply"}, num : Nat]
  /\ cp \in [pc : {"idle", "work", "apply"}, out : Nat, inputs : SUBSET Nat,
             ver : SUBSET Nat]
  /\ ap \in [pc : {"idle", "append", "sync", "current", "install"},
             kind : {"none", "flush", "compact", "move", "open"}, edit : Edits]
  /\ rc \in [todo : SUBSET Nat, add : SUBSET Nat, max : Nat, ok : BOOLEAN]
  /\ issued \in Nat /\ crashes \in Nat
  /\ acked \subseteq [w : Writes, sync : BOOLEAN]

FirstEdit == [NoEdit EXCEPT !.next = 2]
NoFiles == [x \in {} |-> {}]

(* A database as a successful NewDB leaves it, all of it on disk; or an    *)
(* empty directory.                                                        *)
Init ==
  /\ logs = NoFiles /\ tables = NoFiles
  /\ manifests = IF Created
                 THEN [m \in {1} |-> [edits |-> <<FirstEdit>>, synced |-> 1]]
                 ELSE NoFiles
  /\ current = IF Created THEN 1 ELSE 0
  /\ up = "down"
  /\ vs = NoVs /\ cur = {} /\ pins = [r \in Readers |-> {}] /\ pending = {}
  /\ mem = {} /\ imm = {} /\ hasImm = FALSE /\ logNum = 0
  /\ bgError = FALSE
  /\ wr = NoWr /\ fl = NoFl /\ cp = NoCp /\ ap = NoAp /\ rc = NoRc
  /\ issued = 0 /\ acked = {} /\ crashes = 0

----------------------------------------------------------------------------
(* Small helpers of the actions.                                           *)

With(f, x, v) == [y \in DOMAIN f \cup {x} |-> IF y = x THEN v ELSE f[y]]

(* The view a read has: memtables, then the tables of the current version. *)
View == mem \cup imm \cup UNION {tables[f].data : f \in cur \cap DOMAIN tables}

----------------------------------------------------------------------------
(* Mutant: versions that only readers hold do not count.                   *)
LiveUnpinned(versions, outputs) == outputs \cup UNION versions

(* DeleteObsoleteFiles, with the versions that are in use at that point    *)
(* besides those of the readers.  After a background error it is not known *)
(* whether a new version has been committed, so nothing is deleted.        *)
Live(versions, outputs) == outputs \cup (UNION versions) \cup (UNION Range(pins))

(* Mutants: all logs but the current one are deleted; files are deleted    *)
(* after an error too.                                                     *)
DeleteOldLogs(versions, outputs, logNumber, mans, error) ==
  IF error THEN manifests' = mans /\ UNCHANGED <<logs, tables>>
  ELSE /\ logs' = Restrict(logs, {l \in DOMAIN logs : l >= logNum})
       /\ tables' = Restrict(tables, DOMAIN tables \cap Live(versions, outputs))
       /\ manifests' = Restrict(mans, {m \in DOMAIN mans : m >= vs.man})
DeleteAlways(versions, outputs, logNumber, mans, error) ==
  /\ logs' = Restrict(logs, {l \in DOMAIN logs : l >= logNumber})
  /\ tables' = Restrict(tables, DOMAIN tables \cap Live(versions, outputs))
  /\ manifests' = Restrict(mans, {m \in DOMAIN mans : m >= vs.man})

DeleteObsoleteFiles(versions, outputs, logNumber, mans, error) ==
  IF error THEN manifests' = mans /\ UNCHANGED <<logs, tables>>
  ELSE /\ logs' = Restrict(logs, {l \in DOMAIN logs : l >= logNumber})
       /\ tables' = Restrict(tables, DOMAIN tables \cap Live(versions, outputs))
       /\ manifests' = Restrict(mans, {m \in DOMAIN mans : m >= vs.man})

----------------------------------------------------------------------------
(* DBImpl::Write, by the writer at the front of the queue.                 *)

(* MakeRoomForWrite switches to a new log file and memtable.               *)
SwitchLog ==
  /\ up = "open" /\ ~bgError /\ wr.pc = "idle" /\ ~hasImm
  /\ vs.next <= MaxFile
  /\ logs' = With(logs, vs.next, [recs |-> <<>>, synced |-> 0])
  /\ logNum' = vs.next
  /\ vs' = [vs EXCEPT !.next = @ + 1]
  /\ imm' = mem /\ hasImm' = TRUE /\ mem' = {}
  /\ UNCHANGED <<tables, manifests, current, cur, pins, pending, procVars, hist>>

(* Mutant: a write that need not be synced is not logged.                  *)
BeginWriteUnlogged ==
  /\ up = "open" /\ ~bgError /\ wr.pc = "idle"
  /\ issued < MaxWrites
  /\ issued' = issued + 1
  /\ \E sync \in BOOLEAN :
       wr' = [pc |-> IF sync THEN "append" ELSE "insert", sync |-> sync,
              w |-> [id |-> issued + 1, seq |-> vs.last + 1]]
  /\ UNCHANGED <<disk, memVars, verVars, up, bgError, fl, cp, ap, rc, acked, crashes>>

(* There is room: the write gets its sequence number.                      *)
BeginWrite ==
  /\ up = "open" /\ ~bgError /\ wr.pc = "idle"
  /\ issued < MaxWrites
  /\ issued' = issued + 1
  /\ \E sync \in BOOLEAN :
       wr' = [pc |-> "append", sync |-> sync,
              w |-> [id |-> issued + 1, seq |-> vs.last + 1]]
  /\ UNCHANGED <<disk, memVars, verVars, up, bgError, fl, cp, ap, rc, acked, crashes>>

(* Mutant: a failed write gives its sequence number back.                  *)
EndWriteReuse ==
  /\ vs' = [vs EXCEPT !.last = IF wr.pc = "insert" THEN wr.w.seq ELSE @]
  /\ wr' = NoWr

(* The end of Write, after the mutex is taken again.                       *)
EndWrite == vs' = [vs EXCEPT !.last = wr.w.seq] /\ wr' = NoWr

(* log_->AddRecord.  When it fails, part of the record may be in the file: *)
(* the write fails, and the next one goes on in the same file.             *)
AddRecord ==
  LET file(ok) == With(logs, logNum, [logs[logNum] EXCEPT
                                        !.recs = Append(@, [w |-> wr.w, ok |-> ok])])
  IN  /\ wr.pc = "append"
      /\ \/ /\ logs' = file(TRUE)
            /\ wr' = [wr EXCEPT !.pc = IF wr.sync THEN "sync" ELSE "insert"]
            /\ UNCHANGED vs
         \/ /\ "append" \in Faults
            /\ logs' \in {logs, file(FALSE), file(TRUE)}
            /\ EndWrite
      /\ UNCHANGED <<tables, manifests, current, memVars, cur, pins, pending, up,
                     bgError, fl, cp, ap, rc, hist>>

(* logfile_->Sync.  When it fails the write is not applied, and no further *)
(* write is accepted.                                                      *)
SyncLog ==
  /\ wr.pc = "sync"
  /\ \/ /\ logs' = [logs EXCEPT ![logNum].synced = Len(logs[logNum].recs)]
        /\ wr' = [wr EXCEPT !.pc = "insert"]
        /\ UNCHANGED <<vs, bgError>>
     \/ /\ "sync" \in Faults
        /\ EndWrite
        /\ bgError' = TRUE
        /\ UNCHANGED logs
  /\ UNCHANGED <<tables, manifests, current, memVars, cur, pins, pending, up, fl,
                 cp, ap, rc, hist>>

(* InsertInto, then publish the sequence number and return OK.             *)
Insert ==
  /\ wr.pc = "insert"
  /\ mem' = mem \cup {wr.w}
  /\ EndWrite
  /\ acked' = acked \cup {[w |-> wr.w, sync |-> wr.sync]}
  /\ UNCHANGED <<disk, imm, hasImm, logNum, cur, pins, pending, up, bgError, fl, cp,
                 ap, rc, issued, crashes>>

----------------------------------------------------------------------------
(* VersionSet::LogAndApply.                                                *)

(* With the mutex held: complete the edit, then write it.                  *)
BeginApply(kind, add, del, log, v) ==
  ap' = [pc |-> "append", kind |-> kind,
         edit |-> [add |-> add, del |-> del, log |-> log, next |-> v.next,
                   last |-> v.last, ok |-> TRUE]]

WithEdit(e) == [manifests EXCEPT ![vs.man].edits = Append(@, e)]

(* Mutant: a new MANIFEST is not synced before CURRENT names it.           *)
ApplyAppendNoSync ==
  /\ ap.pc = "append"
  /\ manifests' = WithEdit(ap.edit)
  /\ ap' = [ap EXCEPT !.pc = IF ap.kind = "open" THEN "current" ELSE "sync"]
  /\ UNCHANGED <<logs, tables, current, memVars, verVars, up, bgError, wr, fl, cp,
                 rc, hist>>

(* AddRecord to the MANIFEST, Sync, and, for a new MANIFEST, SetCurrentFile;*)
(* all without the mutex.                                                  *)
ApplyAppend ==
  /\ ap.pc = "append"
  /\ manifests' = WithEdit(ap.edit)
  /\ ap' = [ap EXCEPT !.pc = "sync"]
  /\ UNCHANGED <<logs, tables, current, memVars, verVars, up, bgError, wr, fl, cp,
                 rc, hist>>

ApplySync ==
  /\ ap.pc = "sync"
  /\ manifests' = [manifests EXCEPT ![vs.man].synced = Len(manifests[vs.man].edits)]
  /\ ap' = [ap EXCEPT !.pc = IF ap.kind = "open" THEN "current" ELSE "install"]
  /\ UNCHANGED <<logs, tables, current, memVars, verVars, up, bgError, wr, fl, cp,
                 rc, hist>>

ApplyCurrent ==
  /\ ap.pc = "current"
  /\ current' = vs.man
  /\ ap' = [ap EXCEPT !.pc = "install"]
  /\ UNCHANGED <<logs, tables, manifests, memVars, verVars, up, bgError, wr, fl, cp,
                 rc, hist>>

NewVersion == (cur \ ap.edit.del) \cup ap.edit.add

(* LogAndApply installs the version; CompactMemTable then drops imm_, and  *)
(* deletes obsolete files.                                                 *)
FlushInstall ==
  /\ ap.pc = "install" /\ ap.kind = "flush"
  /\ cur' = NewVersion
  /\ vs' = [vs EXCEPT !.log = ap.edit.log]
  /\ imm' = {} /\ hasImm' = FALSE
  /\ DeleteObsoleteFiles({NewVersion, cp.ver}, pending, ap.edit.log, manifests, bgError)
  /\ fl' = NoFl /\ ap' = NoAp
  /\ UNCHANGED <<current, mem, logNum, pins, pending, up, bgError, wr, cp, rc, hist>>

(* InstallCompactionResults; then CleanupCompaction gives up the outputs,  *)
(* ReleaseInputs the input version, and obsolete files are deleted.        *)
CompactInstall ==
  /\ ap.pc = "install" /\ ap.kind = "compact"
  /\ cur' = NewVersion
  /\ vs' = [vs EXCEPT !.log = ap.edit.log]
  /\ pending' = pending \ {cp.out}
  /\ DeleteObsoleteFiles({NewVersion}, pending \ {cp.out}, ap.edit.log, manifests, bgError)
  /\ cp' = NoCp /\ ap' = NoAp
  /\ UNCHANGED <<current, memVars, pins, up, bgError, wr, fl, rc, hist>>

(* A trivial move: the file changes its level, nothing is deleted.         *)
MoveInstall ==
  /\ ap.pc = "install" /\ ap.kind = "move"
  /\ cur' = NewVersion
  /\ vs' = [vs EXCEPT !.log = ap.edit.log]
  /\ cp' = NoCp /\ ap' = NoAp
  /\ UNCHANGED <<disk, memVars, pins, pending, up, bgError, wr, fl, rc, hist>>

(* DB::Open is done.                                                       *)
OpenInstall ==
  /\ ap.pc = "install" /\ ap.kind = "open"
  /\ cur' = NewVersion
  /\ vs' = [vs EXCEPT !.log = ap.edit.log]
  /\ DeleteObsoleteFiles({NewVersion}, pending, ap.edit.log, manifests, FALSE)
  /\ up' = "open" /\ rc' = NoRc /\ ap' = NoAp
  /\ UNCHANGED <<current, memVars, pins, pending, bgError, wr, fl, cp, hist>>

(* The process's state is gone: it has crashed, or DB::Open has given up.  *)
Reset ==
  /\ vs' = NoVs /\ cur' = {} /\ pins' = [r \in Readers |-> {}] /\ pending' = {}
  /\ mem' = {} /\ imm' = {} /\ hasImm' = FALSE /\ logNum' = 0
  /\ up' = "down" /\ bgError' = FALSE
  /\ wr' = NoWr /\ fl' = NoFl /\ cp' = NoCp /\ ap' = NoAp /\ rc' = NoRc

(* LogAndApply fails: the edit may be in the file or not, in full or in    *)
(* part, and the version is dropped.                                       *)
ApplyCanFail == "manifest" \in Faults /\ ap.pc \in {"append", "sync", "current"}
AfterFailedEdit ==
  {manifests} \cup
  (IF ap.pc = "append" THEN {WithEdit(ap.edit)} ELSE {}) \cup
  (IF ap.pc = "append" /\ "torn" \in Faults
   THEN {WithEdit([ap.edit EXCEPT !.ok = FALSE])} ELSE {})

(* CompactMemTable, and a trivial move, record the error.                  *)
FlushFail ==
  /\ ApplyCanFail /\ ap.kind \in {"flush", "move"}
  /\ manifests' \in AfterFailedEdit
  /\ bgError' = TRUE
  /\ ap' = NoAp
  /\ IF ap.kind = "flush" THEN fl' = NoFl /\ UNCHANGED cp
                          ELSE cp' = NoCp /\ UNCHANGED fl
  /\ UNCHANGED <<logs, tables, current, memVars, verVars, up, wr, rc, hist>>

(* A failed compaction gives up its outputs and deletes obsolete files.    *)
CompactFail ==
  /\ ApplyCanFail /\ ap.kind = "compact"
  /\ bgError' = TRUE
  /\ pending' = pending \ {cp.out}
  /\ \E mans \in AfterFailedEdit :
       DeleteObsoleteFiles({cur}, pending \ {cp.out}, vs.log, mans, TRUE)
  /\ cp' = NoCp /\ ap' = NoAp
  /\ UNCHANGED <<current, memVars, vs, cur, pins, up, wr, fl, rc, hist>>

(* DB::Open removes the new MANIFEST and gives up.                         *)
OpenFail ==
  /\ ApplyCanFail /\ ap.kind = "open"
  /\ manifests' = Restrict(manifests, DOMAIN manifests \ {vs.man})
  /\ Reset
  /\ UNCHANGED <<logs, tables, current, hist>>

----------------------------------------------------------------------------
(* The background thread.                                                  *)

(* CompactMemTable, from BackgroundCompaction or, whether or not there has *)
(* been an error, from inside DoCompactionWork.                            *)
FlushStart ==
  /\ up = "open" /\ hasImm /\ fl.pc = "idle" /\ ap.pc = "idle"
  /\ \/ cp.pc = "idle" /\ ~bgError
     \/ cp.pc = "work"
  /\ vs.next <= MaxFile
  /\ fl' = [pc |-> "build", num |-> vs.next]
  /\ pending' = pending \cup {vs.next}
  /\ tables' = With(tables, vs.next, [data |-> {}, ok |-> FALSE])
  /\ vs' = [vs EXCEPT !.next = @ + 1]
  /\ UNCHANGED <<logs, manifests, current, memVars, cur, pins, up, bgError, wr, cp,
                 ap, rc, hist>>

(* BuildTable writes and syncs the table, and removes the file when that   *)
(* failed or there was nothing to write.                                   *)
BuildTable(num, data, ok) ==
  tables' = IF ok /\ data # {} THEN [tables EXCEPT ![num] = [data |-> data, ok |-> TRUE]]
            ELSE Restrict(tables, DOMAIN tables \ {num})

(* The end of WriteLevel0Table.  The logs older than the current one will  *)
(* not be needed any more.                                                 *)
FlushBuilt ==
  /\ fl.pc = "build"
  /\ pending' = pending \ {fl.num}
  /\ \/ /\ BuildTable(fl.num, imm, TRUE)
        /\ BeginApply("flush", IF imm = {} THEN {} ELSE {fl.num}, {}, logNum, vs)
        /\ fl' = [fl EXCEPT !.pc = "apply"]
        /\ UNCHANGED bgError
     \/ /\ "build" \in Faults
        /\ BuildTable(fl.num, imm, FALSE)
        /\ fl' = NoFl
        /\ bgError' = TRUE
        /\ UNCHANGED ap
  /\ UNCHANGED <<logs, manifests, current, memVars, vs, cur, pins, up, wr, cp, rc,
                 hist>>

(* BackgroundCompaction picks some files of the current version.           *)
CompactStart ==
  /\ up = "open" /\ ~bgError /\ ~hasImm
  /\ fl.pc = "idle" /\ ap.pc = "idle" /\ cp.pc = "idle"
  /\ \E inputs \in (SUBSET cur) \ {{}} :
       \/ /\ cp' = [pc |-> "work", out |-> 0, inputs |-> inputs, ver |-> cur]
          /\ UNCHANGED ap
       \/ /\ Cardinality(inputs) = 1 /\ Len(Manifest.edits) < MaxEdits
          /\ cp' = [NoCp EXCEPT !.pc = "apply"]
          /\ BeginApply("move", inputs, inputs, vs.log, vs)
  /\ UNCHANGED <<disk, memVars, verVars, up, bgError, wr, fl, rc, hist>>

(* OpenCompactionOutputFile.                                               *)
CompactOpenOutput ==
  /\ cp.pc = "work" /\ cp.out = 0 /\ fl.pc = "idle"
  /\ vs.next <= MaxFile
  /\ cp' = [cp EXCEPT !.out = vs.next]
  /\ pending' = pending \cup {vs.next}
  /\ tables' = With(tables, vs.next, [data |-> {}, ok |-> FALSE])
  /\ vs' = [vs EXCEPT !.next = @ + 1]
  /\ UNCHANGED <<logs, manifests, current, memVars, cur, pins, up, bgError, wr, fl,
                 ap, rc, hist>>

(* The output is written and synced, and goes to LogAndApply; or an I/O    *)
(* error ends the compaction.                                              *)
CompactFinish ==
  /\ cp.pc = "work" /\ cp.out # 0 /\ fl.pc = "idle"
  /\ \/ /\ tables' = [tables EXCEPT ![cp.out] =
                        [data |-> UNION {tables[f].data : f \in cp.inputs},
                         ok |-> TRUE]]
        /\ BeginApply("compact", {cp.out}, cp.inputs, vs.log, vs)
        /\ cp' = [cp EXCEPT !.pc = "apply"]
        /\ UNCHANGED <<logs, manifests, pending, bgError>>
     \/ /\ "build" \in Faults
        /\ bgError' = TRUE
        /\ pending' = pending \ {cp.out}
        /\ DeleteObsoleteFiles({cur}, pending \ {cp.out}, vs.log, manifests, TRUE)
        /\ cp' = NoCp
        /\ UNCHANGED ap
  /\ UNCHANGED <<current, memVars, vs, cur, pins, up, wr, fl, rc, hist>>

----------------------------------------------------------------------------
(* Reads: Get and iterators hold a reference to the current version.       *)

Pin(r) ==
  /\ up = "open" /\ pins[r] = {} /\ cur # {}
  /\ pins' = [pins EXCEPT ![r] = cur]
  /\ UNCHANGED <<disk, memVars, vs, cur, pending, procVars, hist>>

Unpin(r) ==
  /\ pins[r] # {}
  /\ pins' = [pins EXCEPT ![r] = {}]
  /\ UNCHANGED <<disk, memVars, vs, cur, pending, procVars, hist>>

----------------------------------------------------------------------------
(* DB::Open.                                                               *)

(* NewDB: write MANIFEST-1, which is closed but not synced, and then point *)
(* CURRENT to it.                                                          *)
NewDB ==
  /\ up = "down" /\ current = 0
  /\ manifests' = With(manifests, 1, [edits |-> <<FirstEdit>>, synced |-> 0])
  /\ up' = "newdb"
  /\ UNCHANGED <<logs, tables, current, memVars, verVars, bgError, wr, fl, cp, ap,
                 rc, hist>>

NewDBCurrent ==
  /\ up = "newdb"
  /\ current' = 1
  /\ up' = "down"
  /\ UNCHANGED <<logs, tables, manifests, memVars, verVars, bgError, wr, fl, cp, ap,
                 rc, hist>>

AnyFile == DOMAIN tables \cup DOMAIN logs \cup DOMAIN manifests

(* Mutant: off by one, the log the MANIFEST names is not replayed.         *)
OpenRecoverLater ==
  LET v == Replay(Manifest.edits, Len(Manifest.edits))
  IN  /\ up = "down" /\ current # 0
      /\ IF v.bad \/ ~(v.files \subseteq AnyFile)
         THEN up' = "corrupt" /\ UNCHANGED <<vs, cur, rc>>
         ELSE /\ up' = "recovering"
              /\ vs' = [next |-> v.next + 1, man |-> v.next, log |-> v.log, last |-> v.last]
              /\ cur' = v.files
              /\ rc' = [NoRc EXCEPT !.todo = {l \in DOMAIN logs : l > v.log}]
      /\ UNCHANGED <<disk, memVars, pins, pending, bgError, wr, fl, cp, ap, hist>>

(* VersionSet::Recover, and the start of DBImpl::Recover: a table that the *)
(* MANIFEST names must be there (any file with its number will do).        *)
OpenRecover ==
  LET v == Replay(Manifest.edits, Len(Manifest.edits))
  IN  /\ up = "down" /\ current # 0
      /\ IF v.bad \/ ~(v.files \subseteq AnyFile)
         THEN up' = "corrupt" /\ UNCHANGED <<vs, cur, rc>>
         ELSE /\ up' = "recovering"
              /\ vs' = [next |-> v.next + 1, man |-> v.next, log |-> v.log, last |-> v.last]
              /\ cur' = v.files
              /\ rc' = [NoRc EXCEPT !.todo = {l \in DOMAIN logs : l >= v.log}]
      /\ UNCHANGED <<disk, memVars, pins, pending, bgError, wr, fl, cp, ap, hist>>

(* RecoverLogFile on the oldest log left: its records become a level-0     *)
(* table.  An error in writing the table stays unless a later log succeeds.*)
RecoverLogFile ==
  LET l    == Min(rc.todo)
      data == Readable(logs[l].recs, AllRecords(l))
      used(n) == Max({n, l + 1})
  IN  /\ up = "recovering" /\ rc.todo # {}
      /\ vs.next <= MaxFile
      /\ \/ /\ data # {}
            /\ tables' = With(tables, vs.next, [data |-> data, ok |-> TRUE])
            /\ rc' = [todo |-> rc.todo \ {l}, add |-> rc.add \cup {vs.next}, ok |-> TRUE,
                      max |-> Max({rc.max} \cup {w.seq : w \in data})]
            /\ vs' = [vs EXCEPT !.next = used(vs.next + 1)]
         \/ /\ data = {}
            /\ rc' = [rc EXCEPT !.todo = @ \ {l}, !.ok = TRUE]
            /\ vs' = [vs EXCEPT !.next = used(vs.next)]
            /\ UNCHANGED tables
         \/ /\ data # {} /\ "recover" \in Faults
            /\ rc' = [todo |-> rc.todo \ {l}, add |-> rc.add, ok |-> FALSE,
                      max |-> Max({rc.max} \cup {w.seq : w \in data})]
            /\ vs' = [vs EXCEPT !.next = used(vs.next + 1)]
            /\ UNCHANGED tables
      /\ UNCHANGED <<logs, manifests, current, memVars, cur, pins, pending, up,
                     bgError, wr, fl, cp, ap, hist>>

(* All logs are read: with an error Open gives up, otherwise it makes a    *)
(* new log file and, in LogAndApply, a new MANIFEST.                       *)
OpenGiveUp ==
  /\ up = "recovering" /\ rc.todo = {} /\ ~rc.ok
  /\ Reset
  /\ UNCHANGED <<disk, hist>>

(* Mutant: the sequence numbers found in the logs are not taken over.      *)
OpenApplyOldSequence ==
  LET v == [vs EXCEPT !.next = @ + 1]
      snapshot == [NoEdit EXCEPT !.add = cur]
  IN  /\ up = "recovering" /\ rc.todo = {} /\ rc.ok
      /\ vs.next <= MaxFile
      /\ logs' = With(logs, vs.next, [recs |-> <<>>, synced |-> 0])
      /\ logNum' = vs.next
      /\ vs' = v
      /\ manifests' = With(manifests, vs.man, [edits |-> <<snapshot>>, synced |-> 0])
      /\ BeginApply("open", rc.add, {}, vs.next, v)
      /\ up' = "opening"
      /\ UNCHANGED <<tables, current, mem, imm, hasImm, cur, pins, pending, bgError,
                     wr, fl, cp, rc, hist>>

(* Mutant: the number of the new log is taken without counting it as used. *)
OpenApplyUncounted ==
  LET v == [vs EXCEPT !.last = Max({@, rc.max})]
      snapshot == [NoEdit EXCEPT !.add = cur]
  IN  /\ up = "recovering" /\ rc.todo = {} /\ rc.ok
      /\ vs.next <= MaxFile
      /\ logs' = With(logs, vs.next, [recs |-> <<>>, synced |-> 0])
      /\ logNum' = vs.next
      /\ vs' = v
      /\ manifests' = With(manifests, vs.man, [edits |-> <<snapshot>>, synced |-> 0])
      /\ BeginApply("open", rc.add, {}, vs.next, v)
      /\ up' = "opening"
      /\ UNCHANGED <<tables, current, mem, imm, hasImm, cur, pins, pending, bgError,
                     wr, fl, cp, rc, hist>>

OpenApply ==
  LET v == [vs EXCEPT !.next = @ + 1, !.last = Max({@, rc.max})]
      snapshot == [NoEdit EXCEPT !.add = cur]
  IN  /\ up = "recovering" /\ rc.todo = {} /\ rc.ok
      /\ vs.next <= MaxFile
      /\ logs' = With(logs, vs.next, [recs |-> <<>>, synced |-> 0])
      /\ logNum' = vs.next
      /\ vs' = v
      /\ manifests' = With(manifests, vs.man, [edits |-> <<snapshot>>, synced |-> 0])
      /\ BeginApply("open", rc.add, {}, vs.next, v)
      /\ up' = "opening"
      /\ UNCHANGED <<tables, current, mem, imm, hasImm, cur, pins, pending, bgError,
                     wr, fl, cp, rc, hist>>

----------------------------------------------------------------------------
(* What a crash leaves of an unsynced tail: some of the edits, and perhaps *)
(* a part of the next one.                                                 *)
Tails(edits, n) ==
  {SubSeq(edits, 1, n)} \cup
  (IF "torn" \in Faults /\ n < Len(edits)
   THEN {Append(SubSeq(edits, 1, n), [edits[n + 1] EXCEPT !.ok = FALSE])} ELSE {})

(* A crash of the machine, or only of the process: what has been synced is *)
(* still there, and a part of the rest.  In a log, a record of which only  *)
(* a part is left reads as if it were not there.                           *)
Crash ==
  /\ crashes < MaxCrashes
  /\ crashes' = crashes + 1
  /\ \E keep \in [DOMAIN logs -> 0..MaxWrites] :
       /\ \A l \in DOMAIN logs : keep[l] \in logs[l].synced..Len(logs[l].recs)
       /\ logs' = [l \in DOMAIN logs |-> [recs |-> SubSeq(logs[l].recs, 1, keep[l]),
                                          synced |-> keep[l]]]
  /\ \E n \in ManifestLengths : \E tail \in Tails(Manifest.edits, n) :
       LET left(m) == IF m = current THEN tail
                      ELSE SubSeq(manifests[m].edits, 1, manifests[m].synced)
       IN  manifests' = [m \in DOMAIN manifests |->
                           [edits |-> left(m), synced |-> Len(left(m))]]
  /\ Reset
  /\ UNCHANGED <<tables, current, issued>>
  /\ acked' = {a \in acked : a.sync \/ a.w \in Data'}

Next ==
  \/ SwitchLog \/ BeginWrite \/ AddRecord \/ SyncLog \/ Insert
  \/ ApplyAppend \/ ApplySync \/ ApplyCurrent
  \/ FlushInstall \/ CompactInstall \/ MoveInstall \/ OpenInstall
  \/ FlushFail \/ CompactFail \/ OpenFail
  \/ FlushStart \/ FlushBuilt \/ CompactStart \/ CompactOpenOutput \/ CompactFinish
  \/ \E r \in Readers : Pin(r) \/ Unpin(r)
  \/ NewDB \/ NewDBCurrent \/ OpenRecover \/ RecoverLogFile \/ OpenGiveUp \/ OpenApply
  \/ Crash

Spec == Init /\ [][Next]_vars

----------------------------------------------------------------------------
(* Properties.                                                             *)

(* VersionSet::Recover accepts the first n edits, and every table that     *)
(* they lead to is there and complete.                                     *)
Opens(n) ==
  LET v == Replay(Manifest.edits, n)
  IN  ~v.bad /\ \A f \in v.files : f \in DOMAIN tables /\ tables[f].ok

(* Whatever a crash leaves of the MANIFEST, DB::Open succeeds: the         *)
(* MANIFEST that CURRENT names is readable, and every table it names is    *)
(* there and complete.                                                     *)
Openable == current # 0 => \A n \in ManifestLengths : Opens(n)

(* Only two things can keep a database from being opened, whatever fails   *)
(* and whenever the machine crashes: an edit of which a part was written,  *)
(* and an empty MANIFEST, which NewDB may leave because it does not sync   *)
(* it before CURRENT.  In all other cases what is left of the MANIFEST     *)
(* opens, also after a failed LogAndApply of which nothing was written.    *)
OpenableIfWhole ==
  \A n \in ManifestLengths \ {0} :
    (\A i \in 1..n : Manifest.edits[i].ok) => Opens(n)

(* A sync write that was acknowledged is found by every recovery, whatever *)
(* crash comes, at every moment: before, during and after the flush of its *)
(* memtable, compactions, garbage collection and earlier recoveries.       *)
SyncedSurvives == \A a \in acked : a.sync => a.w \in Safe

(* What a read can see is not lost when the process stops (options.h: "if  *)
(* it is just the process that crashes, no writes will be lost even if     *)
(* sync==false").                                                          *)
VisibleIsRecoverable == up = "open" => View \subseteq Data

(* An open database shows every acknowledged write that has not been lost  *)
(* in a crash, those from before a restart included.                       *)
ReadsSeeAcked == up = "open" => \A a \in acked : a.w \in View

(* DeleteObsoleteFiles takes no file from a version that the database, a   *)
(* reader or a running compaction uses.                                    *)
LiveFilesExist ==
  \A f \in cur \cup cp.ver \cup UNION Range(pins) : f \in DOMAIN tables /\ tables[f].ok

(* Sequence numbers are not used twice: no two writes that a recovery can  *)
(* find have the same number, and an idle writer's next number is new.     *)
SequenceUnique ==
  \A found \in {Data} :
    /\ \A v, w \in found : v.seq = w.seq => v = w
    /\ up = "open" => \A w \in found : w = wr.w \/ w.seq <= vs.last

(* The database implements the abstract store: the record in the log is    *)
(* what makes a write take effect, and the switch of logs, flushes,        *)
(* compactions, file deletions and the steps of a recovery change neither  *)
(* what a restart finds nor take anything out of the safe part of it.      *)
Store == INSTANCE DurableStore WITH
           Write <- [id : 1..MaxWrites, seq : 1..MaxWrites],
           data <- Data, safe <- Safe
StoreSpec == Store!Spec

=============================================================================
