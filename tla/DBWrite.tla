------------------------------ MODULE DBWrite ------------------------------
(***************************************************************************)
(* The write path of LevelDB's DBImpl: the queue of writers with its group *)
(* commit, MakeRoomForWrite, the switch of log file and memtable, and the  *)
(* background thread that flushes the immutable memtable and compacts.     *)
(*                                                                         *)
(* The threads are the client threads and one background thread (BG).      *)
(* The variable mutex is DBImpl::mutex_.  An action that needs the mutex   *)
(* either holds it already (mutex = c) or takes it (mutex = Free), and an  *)
(* action between an Unlock and the next Lock does not look at it.         *)
(*                                                                         *)
(* A write batch is one entry: only its identity, its sequence number and  *)
(* whether it must be synced matter here.  A batch with several entries    *)
(* behaves as a group of several writers does.                             *)
(***************************************************************************)
EXTENDS Integers, Sequences, FiniteSets

CONSTANTS
  Clients,        \* threads that call the DB interface
  BG, Free,       \* the background thread; "nobody" for mutex and manual
  MaxCalls,       \* bound: calls of Write and CompactRange in a behaviour
  WriteBuffer,    \* write_buffer_size, in entries
  L0Trigger, L0Slowdown, L0Stop,   \* config::kL0_*Trigger
  MaxInitL0,      \* bound: level-0 files of the database when it is opened
  MaxDeep,        \* bound: pending compactions below level 0
  MaxPasses,      \* bound: compactions one manual compaction is cut into
  Faults          \* which I/O calls may fail

FaultKinds == {"append", "sync", "newlog", "build", "manifest"}

ASSUME ThreadAssumption == BG \notin Clients /\ Free \notin Clients /\ BG # Free
ASSUME BoundAssumption ==
  /\ MaxCalls \in Nat /\ MaxInitL0 \in Nat /\ MaxDeep \in Nat
  /\ MaxPasses \in Nat
  /\ WriteBuffer \in Nat \ {0}
  /\ L0Trigger \in Nat \ {0}
ASSUME StopAssumption ==
  L0Slowdown \in Nat /\ L0Stop \in Nat /\ L0Trigger <= L0Stop
ASSUME FaultAssumption == Faults \subseteq FaultKinds

VARIABLES
  mutex,        \* mutex_
  writers,      \* writers_, a sequence of clients
  pc,           \* where each client is
  call,         \* the Writer record of each client's current call
  res,          \* Writer::status of a writer completed by its leader
  sig,          \* clients whose Writer::cv has been signalled
  loc,          \* each client's local variables in Write and CompactRange
  log,          \* all log records ever written, in order, each with its file
  durable,      \* positions of log that an fdatasync has covered
  logfile,      \* logfile_number_
  mem, imm,     \* mem_ and imm_, as sets of entries
  hasImm,       \* imm_ # NULL (and has_imm_)
  tables,       \* entries in installed, synced table files
  lastSeq,      \* versions_->LastSequence()
  bgError,      \* ~bg_error_.ok()
  bgScheduled,  \* bg_compaction_scheduled_
  bgCv,         \* clients waiting on bg_cv_
  bg,           \* the background thread's control state and locals
  l0,           \* NumLevelFiles(0) of the current version
  deep,         \* compactions pending below level 0 (score >= 1)
  seek,         \* file_to_compact_ # NULL in the current version
  manual,       \* manual_compaction_: its owner, or Free
  shut,         \* shutting_down_
  issued,       \* history: calls made so far
  answers       \* history: what the finished calls of Write returned

queueVars == <<writers, call, res, sig>>
logVars   == <<log, durable, logfile>>
memVars   == <<mem, imm, hasImm, tables>>
bgVars    == <<bgScheduled, bg, l0, deep, seek>>
ctlVars   == <<manual, shut>>
histVars  == <<issued, answers>>
vars == <<mutex, pc, loc, queueVars, logVars, memVars, lastSeq, bgError, bgCv,
          bgVars, ctlVars, histVars>>

----------------------------------------------------------------------------
(* State shared by the actions.                                            *)

Leading == {"room", "delay", "roomwait", "append", "sync", "insert", "relock",
            "pop"}
PCs == Leading \cup {"idle", "wait", "cm", "mr", "closing", "closed"}
BgPCs == {"idle", "build", "flush", "compact", "finish", "install", "epilogue",
          "tail", "crashed"}

Entries == [seq : Nat, id : Nat]
Calls == [batch : BOOLEAN, sync : BOOLEAN, id : Nat, after : Nat]
Locals == [force : BOOLEAN, delay : BOOLEAN, ok : BOOLEAN, syncErr : BOOLEAN,
           group : Nat, upd : SUBSET Entries, last : Nat, levels : Nat,
           passes : Nat, done : BOOLEAN]
Bgs == [pc : BgPCs, nested : BOOLEAN, manual : BOOLEAN, inputs : Nat, ok : BOOLEAN]
Records == [file : Nat, upd : SUBSET Entries]
Answers == [id : Nat, sync : BOOLEAN, after : Nat, ok : BOOLEAN]

NoCall == [batch |-> FALSE, sync |-> FALSE, id |-> 0, after |-> 0]
NoLoc  == [force |-> FALSE, delay |-> FALSE, ok |-> TRUE, syncErr |-> FALSE,
           group |-> 1, upd |-> {}, last |-> 0,
           levels |-> 0, passes |-> 0, done |-> FALSE]
NoBg   == [pc |-> "idle", nested |-> FALSE, manual |-> FALSE, inputs |-> 0,
           ok |-> TRUE]

Store == mem \cup imm \cup tables
MemHasRoom == Cardinality(mem) < WriteBuffer

(* Version::NeedsCompaction: a level's score has reached 1, or a seek      *)
(* budget is used up.                                                      *)
NeedsCompaction(l, d, s) == l >= L0Trigger \/ d > 0 \/ s

(* MaybeScheduleCompaction: the value bg_compaction_scheduled_ is left with.*)
Scheduled(sched, im, man, needs) ==
  sched \/ (~shut /\ ~bgError /\ (im \/ man # Free \/ needs))

(* RecordBackgroundError: the first error sticks and wakes every waiter.   *)
RecordBackgroundError ==
  /\ bgError' = TRUE
  /\ bgCv' = IF bgError THEN bgCv ELSE {}

NoBackgroundError == UNCHANGED <<bgError, bgCv>>

Goto(c, label) == pc' = [pc EXCEPT ![c] = label]
Acquire(t) == mutex = Free /\ mutex' = t
AcquireRelease == mutex = Free /\ mutex' = Free
Holds(t) == mutex = t
Release == mutex' = Free

TypeOK ==
  /\ mutex \in Clients \cup {BG, Free}
  /\ writers \in Seq(Clients)
  /\ pc \in [Clients -> PCs]
  /\ call \in [Clients -> Calls]
  /\ res \in [Clients -> {"none", "ok", "err"}]
  /\ sig \subseteq Clients
  /\ loc \in [Clients -> Locals]
  /\ log \in Seq(Records)
  /\ durable \subseteq Nat
  /\ logfile \in Nat
  /\ mem \subseteq Entries /\ imm \subseteq Entries /\ tables \subseteq Entries
  /\ hasImm \in BOOLEAN
  /\ lastSeq \in Nat
  /\ bgError \in BOOLEAN /\ bgScheduled \in BOOLEAN
  /\ bgCv \subseteq Clients
  /\ bg \in Bgs
  /\ l0 \in Nat /\ deep \in Nat /\ seek \in BOOLEAN
  /\ manual \in Clients \cup {Free}
  /\ shut \in BOOLEAN
  /\ issued \in Nat
  /\ answers \subseteq Answers

(* The state in which DB::Open hands out the database: an empty memtable,  *)
(* a fresh log file, and the background thread scheduled if the files of   *)
(* an existing database call for a compaction.                             *)
Init ==
  /\ mutex = Free
  /\ writers = <<>>
  /\ pc = [c \in Clients |-> "idle"]
  /\ call = [c \in Clients |-> NoCall]
  /\ res = [c \in Clients |-> "none"]
  /\ sig = {}
  /\ loc = [c \in Clients |-> NoLoc]
  /\ log = <<>> /\ durable = {} /\ logfile = 1
  /\ mem = {} /\ imm = {} /\ hasImm = FALSE /\ tables = {}
  /\ lastSeq = 0
  /\ bgError = FALSE /\ bgCv = {}
  /\ manual = Free /\ shut = FALSE
  /\ l0 \in 0..MaxInitL0 /\ deep = 0 /\ seek = FALSE
  /\ bgScheduled = NeedsCompaction(l0, deep, seek)
  /\ bg = NoBg
  /\ issued = 0 /\ answers = {}

----------------------------------------------------------------------------
(* DBImpl::Write and DBImpl::CompactRange, entry.                          *)

(* Write: queue a Writer; the front of the queue goes on with the mutex    *)
(* held, every other one waits on its condition variable.                  *)
Enqueue(c, batch, sync, levels) ==
  /\ pc[c] = "idle" /\ ~shut
  /\ issued < MaxCalls
  /\ issued' = issued + 1
  /\ mutex = Free
  /\ mutex' = IF writers = <<>> THEN c ELSE Free
  /\ writers' = Append(writers, c)
  /\ Goto(c, IF writers = <<>> THEN "room" ELSE "wait")
  /\ call' = [call EXCEPT ![c] = [batch |-> batch, sync |-> sync,
                                  id |-> issued + 1, after |-> lastSeq]]
  /\ res' = [res EXCEPT ![c] = "none"]
  /\ loc' = [loc EXCEPT ![c] = [NoLoc EXCEPT !.force = ~batch, !.delay = batch,
                                             !.levels = levels]]
  /\ UNCHANGED <<sig, logVars, memVars, lastSeq, bgError, bgCv, bgVars, ctlVars,
                 answers>>

Write(c) == \E sync \in BOOLEAN : Enqueue(c, TRUE, sync, 0)

(* CompactRange first runs TEST_CompactMemTable, which is a Write of a     *)
(* NULL batch, and then TEST_CompactRange on one or more levels.           *)
CompactRange(c) == \E levels \in 1..MaxPasses : Enqueue(c, FALSE, FALSE, levels)

----------------------------------------------------------------------------
(* DBImpl::MakeRoomForWrite, one action per branch of its loop.            *)

InRoom(c) == pc[c] = "room" /\ Holds(c)
MustDelay(c) == loc[c].delay /\ l0 >= L0Slowdown
HasRoom(c) == ~loc[c].force /\ MemHasRoom

(* The loop is left with an error, on to the end of Write.                 *)
LeaveRoom(c, ok) ==
  /\ Goto(c, "pop")
  /\ loc' = [loc EXCEPT ![c].ok = ok]
  /\ UNCHANGED mutex

RoomError(c) ==
  /\ InRoom(c) /\ bgError
  /\ LeaveRoom(c, FALSE)
  /\ UNCHANGED <<queueVars, logVars, memVars, lastSeq, bgError, bgCv, bgVars,
                 ctlVars, histVars>>

(* Level 0 is getting full: sleep 1ms without the mutex, once per write.   *)
RoomDelay(c) ==
  /\ InRoom(c) /\ ~bgError /\ MustDelay(c)
  /\ Release
  /\ Goto(c, "delay")
  /\ loc' = [loc EXCEPT ![c].delay = FALSE]
  /\ UNCHANGED <<queueVars, logVars, memVars, lastSeq, bgError, bgCv, bgVars,
                 ctlVars, histVars>>

DelayOver(c) ==
  /\ pc[c] = "delay"
  /\ Acquire(c)
  /\ Goto(c, "room")
  /\ UNCHANGED <<loc, queueVars, logVars, memVars, lastSeq, bgError, bgCv, bgVars,
                 ctlVars, histVars>>

(* Wait on bg_cv_ for the previous memtable's flush, or for level 0 to     *)
(* shrink.                                                                 *)
RoomWait(c) ==
  /\ InRoom(c) /\ ~bgError /\ ~MustDelay(c) /\ ~HasRoom(c)
  /\ hasImm \/ l0 >= L0Stop
  /\ Release
  /\ Goto(c, "roomwait")
  /\ bgCv' = bgCv \cup {c}
  /\ UNCHANGED <<loc, queueVars, logVars, memVars, lastSeq, bgError, bgVars,
                 ctlVars, histVars>>

RoomWake(c) ==
  /\ pc[c] = "roomwait" /\ c \notin bgCv
  /\ Acquire(c)
  /\ Goto(c, "room")
  /\ UNCHANGED <<loc, queueVars, logVars, memVars, lastSeq, bgError, bgCv, bgVars,
                 ctlVars, histVars>>

(* Switch to a new memtable and log file.  When the file cannot be created *)
(* the write fails, and nothing else changes.                              *)
RoomSwitch(c) ==
  /\ InRoom(c) /\ ~bgError /\ ~MustDelay(c) /\ ~HasRoom(c)
  /\ ~hasImm /\ l0 < L0Stop
  /\ \/ /\ logfile' = logfile + 1
        /\ imm' = mem /\ hasImm' = TRUE /\ mem' = {}
        /\ loc' = [loc EXCEPT ![c].force = FALSE]
        /\ bgScheduled' = Scheduled(bgScheduled, TRUE, manual,
                                    NeedsCompaction(l0, deep, seek))
        /\ UNCHANGED <<mutex, pc>>
     \/ /\ "newlog" \in Faults
        /\ LeaveRoom(c, FALSE)
        /\ UNCHANGED <<logfile, imm, hasImm, mem, bgScheduled>>
  /\ UNCHANGED <<queueVars, log, durable, tables, lastSeq, bgError, bgCv, bg, l0,
                 deep, seek, ctlVars, histVars>>

(* Mutant: a non-sync leader takes sync writers into its group.            *)
GroupEndsAnySync ==
  {k \in 1..Len(writers) : k = Len(writers) \/ call[writers[k + 1]].batch}

(* BuildBatchGroup: the positions of writers_ the group may end at.  A     *)
(* non-sync leader stops before a sync writer; the size limit may stop the *)
(* group before any writer that has a batch; a NULL batch is taken along.  *)
GroupEnds ==
  {k \in 1..Len(writers) :
     LET leads(j) == call[writers[j]].sync => call[writers[1]].sync
     IN  /\ \A j \in 2..k : leads(j)
         /\ k = Len(writers) \/ ~leads(k + 1) \/ call[writers[k + 1]].batch}

(* The batches of the first k writers, NULL ones left out, numbered from   *)
(* the last sequence number on; and the number of batches among them.      *)
Count(k) == Cardinality({j \in 1..k : call[writers[j]].batch})
Updates(k) ==
  {[seq |-> lastSeq + Count(i), id |-> call[writers[i]].id] :
     i \in {j \in 1..k : call[writers[j]].batch}}

(* Mutant: the sequence numbers are published before the group is written. *)
RoomBuildPublish(c) ==
  /\ InRoom(c) /\ ~bgError /\ ~MustDelay(c) /\ HasRoom(c)
  /\ \/ /\ call[c].batch
        /\ \E k \in GroupEnds :
             /\ loc' = [loc EXCEPT ![c].group = k, ![c].upd = Updates(k),
                                   ![c].last = lastSeq + Count(k)]
             /\ lastSeq' = lastSeq + Count(k)
        /\ Goto(c, "append")
        /\ Release
     \/ /\ ~call[c].batch
        /\ LeaveRoom(c, TRUE)
        /\ UNCHANGED lastSeq
  /\ UNCHANGED <<queueVars, logVars, memVars, bgError, bgCv, bgVars, ctlVars,
                 histVars>>

(* There is room.  A writer with a batch forms its group, fixes its        *)
(* sequence numbers and gives up the mutex; a NULL batch is finished.      *)
RoomBuild(c) ==
  /\ InRoom(c) /\ ~bgError /\ ~MustDelay(c) /\ HasRoom(c)
  /\ \/ /\ call[c].batch
        /\ \E k \in GroupEnds :
             loc' = [loc EXCEPT ![c].group = k, ![c].upd = Updates(k),
                                ![c].last = lastSeq + Count(k)]
        /\ Goto(c, "append")
        /\ Release
     \/ /\ ~call[c].batch
        /\ LeaveRoom(c, TRUE)
  /\ UNCHANGED <<queueVars, logVars, memVars, lastSeq, bgError, bgCv, bgVars,
                 ctlVars, histVars>>

----------------------------------------------------------------------------
(* The part of DBImpl::Write that runs without the mutex.                  *)

GroupRecord(c) == [file |-> logfile, upd |-> loc[c].upd]

(* log_->AddRecord.  When it fails the record may be in the file or not.   *)
AddRecord(c) ==
  /\ pc[c] = "append"
  /\ \/ /\ log' = Append(log, GroupRecord(c))
        /\ Goto(c, IF call[c].sync THEN "sync" ELSE "insert")
        /\ UNCHANGED loc
     \/ /\ "append" \in Faults
        /\ log' \in {log, Append(log, GroupRecord(c))}
        /\ Goto(c, "relock")
        /\ loc' = [loc EXCEPT ![c].ok = FALSE]
  /\ UNCHANGED <<mutex, queueVars, durable, logfile, memVars, lastSeq, bgError,
                 bgCv, bgVars, ctlVars, histVars>>

(* logfile_->Sync, which covers the records of the current log file only.  *)
SyncLog(c) ==
  /\ pc[c] = "sync"
  /\ \/ /\ durable' = durable \cup {i \in 1..Len(log) : log[i].file = logfile}
        /\ Goto(c, "insert")
        /\ UNCHANGED loc
     \/ /\ "sync" \in Faults
        /\ Goto(c, "relock")
        /\ loc' = [loc EXCEPT ![c].ok = FALSE, ![c].syncErr = TRUE]
        /\ UNCHANGED durable
  /\ UNCHANGED <<mutex, queueVars, log, logfile, memVars, lastSeq, bgError, bgCv,
                 bgVars, ctlVars, histVars>>

(* WriteBatchInternal::InsertInto, entry by entry.                         *)
InsertInto(c) ==
  /\ pc[c] = "insert"
  /\ \/ \E e \in loc[c].upd :
          /\ \A f \in loc[c].upd : e.seq <= f.seq
          /\ mem' = mem \cup {e}
          /\ loc' = [loc EXCEPT ![c].upd = @ \ {e}]
          /\ UNCHANGED pc
     \/ /\ loc[c].upd = {}
        /\ Goto(c, "relock")
        /\ UNCHANGED <<mem, loc>>
  /\ UNCHANGED <<mutex, queueVars, logVars, imm, hasImm, tables, lastSeq, bgError,
                 bgCv, bgVars, ctlVars, histVars>>

----------------------------------------------------------------------------
(* The end of DBImpl::Write.                                               *)

(* Mutant: the group counts as one entry.                                  *)
RelockOne(c) ==
  /\ pc[c] = "relock"
  /\ Acquire(c)
  /\ IF loc[c].syncErr THEN RecordBackgroundError ELSE NoBackgroundError
  /\ lastSeq' = lastSeq + 1
  /\ Goto(c, "pop")
  /\ UNCHANGED <<loc, queueVars, logVars, memVars, bgVars, ctlVars, histVars>>

(* Take the mutex again.  A failed sync makes all later writes fail; the   *)
(* sequence numbers are used up even when the write failed.                *)
Relock(c) ==
  /\ pc[c] = "relock"
  /\ Acquire(c)
  /\ IF loc[c].syncErr THEN RecordBackgroundError ELSE NoBackgroundError
  /\ lastSeq' = loc[c].last
  /\ Goto(c, "pop")
  /\ UNCHANGED <<loc, queueVars, logVars, memVars, bgVars, ctlVars, histVars>>

Answer(c, ok) ==
  [id |-> call[c].id, sync |-> call[c].sync, after |-> call[c].after, ok |-> ok]

(* What the caller of Write does next: a Put or Delete returns, and        *)
(* TEST_CompactMemTable goes on to wait for the flush, or, when its Write  *)
(* failed, gives up and lets CompactRange go on.                           *)
Return(c, ok) ==
  IF call[c].batch THEN "idle" ELSE IF ok THEN "cm" ELSE "mr"

Answered(c, ok) ==
  answers' = IF call[c].batch THEN answers \cup {Answer(c, ok)} ELSE answers

(* Mutant: the new front of the queue is not signalled.                    *)
PopSilent(c) ==
  /\ pc[c] = "pop" /\ Holds(c)
  /\ Release
  /\ LET k     == loc[c].group
         group == {writers[i] : i \in 2..k}
     IN  /\ writers' = SubSeq(writers, k + 1, Len(writers))
         /\ res' = [w \in Clients |-> IF w \in group
                                      THEN IF loc[c].ok THEN "ok" ELSE "err"
                                      ELSE res[w]]
         /\ sig' = sig \cup group
  /\ Goto(c, Return(c, loc[c].ok))
  /\ Answered(c, loc[c].ok)
  /\ UNCHANGED <<call, loc, logVars, memVars, lastSeq, bgError, bgCv, bgVars,
                 ctlVars, issued>>

(* Hand the leader's status to the whole group, wake its members and the   *)
(* new front of the queue.                                                 *)
Pop(c) ==
  /\ pc[c] = "pop" /\ Holds(c)
  /\ Release
  /\ LET k     == loc[c].group
         group == {writers[i] : i \in 2..k}
     IN  /\ writers' = SubSeq(writers, k + 1, Len(writers))
         /\ res' = [w \in Clients |-> IF w \in group
                                      THEN IF loc[c].ok THEN "ok" ELSE "err"
                                      ELSE res[w]]
         /\ sig' = sig \cup group \cup
                   (IF k < Len(writers) THEN {writers[k + 1]} ELSE {})
  /\ Goto(c, Return(c, loc[c].ok))
  /\ Answered(c, loc[c].ok)
  /\ UNCHANGED <<call, loc, logVars, memVars, lastSeq, bgError, bgCv, bgVars,
                 ctlVars, issued>>

(* Mutant: "if" in place of "while" around w.cv.Wait().                    *)
WakeOnce(c) ==
  /\ pc[c] = "wait" /\ c \in sig
  /\ mutex = Free
  /\ sig' = sig \ {c}
  /\ \/ /\ res[c] # "none"
        /\ Goto(c, Return(c, res[c] = "ok"))
        /\ Answered(c, res[c] = "ok")
        /\ UNCHANGED mutex
     \/ /\ res[c] = "none"
        /\ Goto(c, "room")
        /\ mutex' = c
        /\ UNCHANGED answers
  /\ UNCHANGED <<writers, call, res, loc, logVars, memVars, lastSeq, bgError, bgCv,
                 bgVars, ctlVars, issued>>

(* The loop around w.cv.Wait(): a completed writer returns its status, the *)
(* front of the queue becomes the leader, any other one waits again.       *)
Wake(c) ==
  /\ pc[c] = "wait" /\ c \in sig
  /\ mutex = Free
  /\ sig' = sig \ {c}
  /\ \/ /\ res[c] # "none"
        /\ Goto(c, Return(c, res[c] = "ok"))
        /\ Answered(c, res[c] = "ok")
        /\ UNCHANGED mutex
     \/ /\ res[c] = "none" /\ c = Head(writers)
        /\ Goto(c, "room")
        /\ mutex' = c
        /\ UNCHANGED answers
     \/ /\ res[c] = "none" /\ c # Head(writers)
        /\ UNCHANGED <<pc, mutex, answers>>
  /\ UNCHANGED <<writers, call, res, loc, logVars, memVars, lastSeq, bgError, bgCv,
                 bgVars, ctlVars, issued>>

(* A condition variable may wake a waiter without a signal.                *)
SpuriousWakeup(c) ==
  /\ \/ /\ pc[c] = "wait" /\ c \notin sig
        /\ sig' = sig \cup {c}
        /\ UNCHANGED bgCv
     \/ /\ c \in bgCv
        /\ bgCv' = bgCv \ {c}
        /\ UNCHANGED sig
  /\ UNCHANGED <<mutex, pc, loc, writers, call, res, logVars, memVars, lastSeq,
                 bgError, bgVars, ctlVars, histVars>>

----------------------------------------------------------------------------
(* The other client operations.                                            *)

(* TEST_CompactMemTable, after its Write: wait for the flush to finish.    *)
CompactMemTableWait(c) ==
  /\ pc[c] = "cm" /\ c \notin bgCv
  /\ AcquireRelease
  /\ IF hasImm /\ ~bgError
     THEN bgCv' = bgCv \cup {c} /\ UNCHANGED pc
     ELSE Goto(c, "mr") /\ UNCHANGED bgCv
  /\ UNCHANGED <<loc, queueVars, logVars, memVars, lastSeq, bgError, bgVars,
                 ctlVars, histVars>>

(* Mutant: the posted compaction is not scheduled.                         *)
ManualWaitUnscheduled(c) ==
  /\ pc[c] = "mr" /\ c \notin bgCv
  /\ AcquireRelease
  /\ ~loc[c].done /\ ~shut /\ ~bgError
  /\ manual' = IF manual = Free THEN c ELSE manual
  /\ bgCv' = bgCv \cup {c}
  /\ UNCHANGED <<pc, loc, queueVars, logVars, memVars, lastSeq, bgError, bgVars,
                 shut, histVars>>

(* TEST_CompactRange: post the manual compaction when no other is posted,  *)
(* and wait, until it is done or background work has stopped.              *)
ManualWait(c) ==
  /\ pc[c] = "mr" /\ c \notin bgCv
  /\ AcquireRelease
  /\ ~loc[c].done /\ ~shut /\ ~bgError
  /\ manual' = IF manual = Free THEN c ELSE manual
  /\ bgScheduled' = IF manual = Free
                    THEN Scheduled(bgScheduled, hasImm, c,
                                   NeedsCompaction(l0, deep, seek))
                    ELSE bgScheduled
  /\ bgCv' = bgCv \cup {c}
  /\ UNCHANGED <<pc, loc, queueVars, logVars, memVars, lastSeq, bgError, bg, l0,
                 deep, seek, shut, histVars>>

(* The loop of TEST_CompactRange ends; a compaction still posted is        *)
(* cancelled.  CompactRange goes on with its next level.                   *)
ManualReturn(c) ==
  /\ pc[c] = "mr" /\ c \notin bgCv
  /\ AcquireRelease
  /\ loc[c].done \/ shut \/ bgError
  /\ manual' = IF manual = c THEN Free ELSE manual
  /\ loc' = [loc EXCEPT ![c].levels = IF @ = 0 THEN 0 ELSE @ - 1,
                        ![c].done = FALSE, ![c].passes = 0]
  /\ Goto(c, IF loc[c].levels <= 1 THEN "idle" ELSE "mr")
  /\ UNCHANGED <<queueVars, logVars, memVars, lastSeq, bgError, bgCv, bgVars, shut,
                 histVars>>

(* A read uses up a file's seek budget (Version::UpdateStats, from Get and *)
(* RecordReadSample) and asks for a compaction.                            *)
ReadSample ==
  /\ ~shut /\ issued < MaxCalls
  /\ issued' = issued + 1
  /\ AcquireRelease
  /\ ~seek /\ seek' = TRUE
  /\ bgScheduled' = Scheduled(bgScheduled, hasImm, manual, TRUE)
  /\ UNCHANGED <<pc, loc, queueVars, logVars, memVars, lastSeq, bgError, bgCv, bg,
                 l0, deep, ctlVars, answers>>

(* ~DBImpl, called when no other call is under way: stop background work   *)
(* and wait for it.                                                        *)
Close(c) ==
  /\ \A d \in Clients : pc[d] = "idle"
  /\ AcquireRelease
  /\ shut' = TRUE
  /\ Goto(c, "closing")
  /\ UNCHANGED <<loc, queueVars, logVars, memVars, lastSeq, bgError, bgCv, bgVars,
                 manual, histVars>>

CloseWait(c) ==
  /\ pc[c] = "closing" /\ c \notin bgCv
  /\ AcquireRelease
  /\ IF bgScheduled
     THEN bgCv' = bgCv \cup {c} /\ UNCHANGED pc
     ELSE Goto(c, "closed") /\ UNCHANGED bgCv
  /\ UNCHANGED <<loc, queueVars, logVars, memVars, lastSeq, bgError, bgVars,
                 ctlVars, histVars>>

----------------------------------------------------------------------------
(* The background thread: BackgroundCall and what it calls.                *)

BgAt(label) == bg.pc = label
BgGoto(label) == bg' = [bg EXCEPT !.pc = label]

(* BackgroundCall when the DB is closing or broken: no work is done.       *)
BgSkip ==
  /\ bgScheduled /\ BgAt("idle")
  /\ Acquire(BG)
  /\ shut \/ bgError
  /\ BgGoto("tail")
  /\ UNCHANGED <<pc, loc, queueVars, logVars, memVars, lastSeq, bgError, bgCv,
                 bgScheduled, l0, deep, seek, ctlVars, histVars>>

BgWork == bgScheduled /\ BgAt("idle") /\ ~shut /\ ~bgError

(* BackgroundCompaction flushes the immutable memtable before all else.    *)
BgFlush ==
  /\ BgWork /\ hasImm
  /\ AcquireRelease
  /\ BgGoto("build")
  /\ UNCHANGED <<pc, loc, queueVars, logVars, memVars, lastSeq, bgError, bgCv,
                 bgScheduled, l0, deep, seek, ctlVars, histVars>>

(* Mutant: a manual compaction with nothing left to do is not marked done. *)
BgManualUndone ==
  /\ BgWork /\ ~hasImm /\ manual # Free
  /\ \/ /\ Acquire(BG)
        /\ manual' = Free
        /\ BgGoto("tail")
        /\ UNCHANGED loc
     \/ /\ loc[manual].passes < MaxPasses
        /\ AcquireRelease
        /\ loc' = [loc EXCEPT ![manual].passes = @ + 1]
        /\ \E n \in 0..l0 : bg' = [bg EXCEPT !.pc = "compact", !.manual = TRUE,
                                             !.inputs = n]
        /\ UNCHANGED manual
  /\ UNCHANGED <<pc, queueVars, logVars, memVars, lastSeq, bgError, bgCv,
                 bgScheduled, l0, deep, seek, shut, histVars>>

(* A manual compaction.  VersionSet::CompactRange finds nothing left to do,*)
(* which completes it, or gives the next compaction of the range.          *)
BgManual ==
  /\ BgWork /\ ~hasImm /\ manual # Free
  /\ \/ /\ Acquire(BG)
        /\ loc' = [loc EXCEPT ![manual].done = TRUE]
        /\ manual' = Free
        /\ BgGoto("tail")
     \/ /\ loc[manual].passes < MaxPasses
        /\ AcquireRelease
        /\ loc' = [loc EXCEPT ![manual].passes = @ + 1]
        /\ \E n \in 0..l0 : bg' = [bg EXCEPT !.pc = "compact", !.manual = TRUE,
                                             !.inputs = n]
        /\ UNCHANGED manual
  /\ UNCHANGED <<pc, queueVars, logVars, memVars, lastSeq, bgError, bgCv,
                 bgScheduled, l0, deep, seek, shut, histVars>>

(* Mutant: off by one, more inputs than level 0 has files.                 *)
PickedInputsOff ==
  {n \in 0..(l0 + 1) : \/ n = 0 /\ deep > 0
                       \/ n > 0 /\ l0 >= L0Trigger
                       \/ deep = 0 /\ l0 < L0Trigger}

(* PickCompaction.  A level whose score reached 1 comes before a file that *)
(* used up its seeks; n is the number of level-0 inputs, zero when the     *)
(* level is a deeper one.  A trivial move goes straight to LogAndApply.    *)
PickedInputs ==
  {n \in 0..l0 : \/ n = 0 /\ deep > 0
                 \/ n > 0 /\ l0 >= L0Trigger
                 \/ deep = 0 /\ l0 < L0Trigger}

BgPick ==
  /\ BgWork /\ ~hasImm /\ manual = Free
  /\ IF NeedsCompaction(l0, deep, seek)
     THEN /\ AcquireRelease
          /\ \E n \in PickedInputs :
               \/ bg' = [bg EXCEPT !.pc = "compact", !.inputs = n]
               \/ n <= 1 /\ bg' = [bg EXCEPT !.pc = "install", !.inputs = n]
     ELSE Acquire(BG) /\ BgGoto("tail")
  /\ UNCHANGED <<pc, loc, queueVars, logVars, memVars, lastSeq, bgError, bgCv,
                 bgScheduled, l0, deep, seek, ctlVars, histVars>>

(* CompactMemTable returns: into DoCompactionWork, which wakes the waiters *)
(* and goes on without the mutex, or to the end of BackgroundCall.         *)
FlushReturn ==
  /\ BgGoto(IF bg.nested THEN "compact" ELSE "tail")
  /\ mutex' = IF bg.nested THEN Free ELSE BG

(* WriteLevel0Table has built the table, or failed, and holds the mutex.   *)
BgBuilt ==
  /\ BgAt("build")
  /\ mutex = Free
  /\ \/ /\ ~shut
        /\ BgGoto("flush")
        /\ NoBackgroundError
        /\ UNCHANGED mutex
     \/ /\ shut \/ "build" \in Faults
        /\ bgError' = TRUE
        /\ bgCv' = IF bgError /\ ~bg.nested THEN bgCv ELSE {}
        /\ FlushReturn
  /\ UNCHANGED <<pc, loc, queueVars, logVars, memVars, lastSeq, bgScheduled, l0,
                 deep, seek, ctlVars, histVars>>

(* LogAndApply of the flush: the table becomes part of the current version *)
(* at level 0 or, when PickLevelForMemTableOutput allows it, below.  An    *)
(* empty memtable adds no file.                                            *)
BgFlushed ==
  /\ BgAt("flush")
  /\ mutex = Free
  /\ \/ /\ tables' = tables \cup imm
        /\ imm' = {} /\ hasImm' = FALSE
        /\ \/ /\ l0' = IF imm = {} THEN l0 ELSE l0 + 1
              /\ UNCHANGED deep
           \/ /\ imm # {}
              /\ \E d \in deep..MaxDeep : deep' = d
              /\ UNCHANGED l0
        /\ seek' = FALSE
        /\ bgCv' = IF bg.nested THEN {} ELSE bgCv
        /\ UNCHANGED bgError
     \/ /\ "manifest" \in Faults
        /\ bgError' = TRUE
        /\ bgCv' = IF bgError /\ ~bg.nested THEN bgCv ELSE {}
        /\ UNCHANGED <<tables, imm, hasImm, l0, deep, seek>>
  /\ FlushReturn
  /\ UNCHANGED <<pc, loc, queueVars, logVars, mem, lastSeq, bgScheduled, ctlVars,
                 histVars>>

(* DoCompactionWork looks for an immutable memtable before every key.      *)
BgCompactFlush ==
  /\ BgAt("compact") /\ hasImm
  /\ AcquireRelease
  /\ bg' = [bg EXCEPT !.pc = "build", !.nested = TRUE]
  /\ UNCHANGED <<pc, loc, queueVars, logVars, memVars, lastSeq, bgError, bgCv,
                 bgScheduled, l0, deep, seek, ctlVars, histVars>>

(* The loop over the input ends, at its end or early.                      *)
BgCompactEnd ==
  /\ BgAt("compact")
  /\ \E ok \in BOOLEAN :
       /\ ok => ~shut
       /\ ~ok => shut \/ "build" \in Faults
       /\ bg' = [bg EXCEPT !.pc = "finish", !.ok = ok, !.nested = FALSE]
  /\ UNCHANGED <<mutex, pc, loc, queueVars, logVars, memVars, lastSeq, bgError,
                 bgCv, bgScheduled, l0, deep, seek, ctlVars, histVars>>

(* The end of DoCompactionWork: install the results, or record the error.  *)
BgCompactFinish ==
  /\ BgAt("finish")
  /\ mutex = Free
  /\ IF bg.ok
     THEN BgGoto("install") /\ NoBackgroundError /\ UNCHANGED mutex
     ELSE BgGoto("epilogue") /\ RecordBackgroundError /\ mutex' = BG
  /\ UNCHANGED <<pc, loc, queueVars, logVars, memVars, lastSeq, bgScheduled, l0,
                 deep, seek, ctlVars, histVars>>

(* LogAndApply of a compaction or a trivial move.                          *)
BgInstall ==
  /\ BgAt("install")
  /\ Acquire(BG)
  /\ \/ /\ l0' = l0 - bg.inputs
        /\ \E d \in 0..MaxDeep :
             /\ (bg.inputs = 0 /\ ~bg.manual /\ deep > 0) => d < deep
             /\ deep' = d
        /\ seek' = FALSE
        /\ BgGoto("epilogue")
        /\ NoBackgroundError
     \/ /\ "manifest" \in Faults
        /\ bg' = [bg EXCEPT !.pc = "epilogue", !.ok = FALSE]
        /\ RecordBackgroundError
        /\ UNCHANGED <<l0, deep, seek>>
  /\ UNCHANGED <<pc, loc, queueVars, logVars, memVars, lastSeq, bgScheduled,
                 ctlVars, histVars>>

(* The end of BackgroundCompaction.  For a manual compaction it follows    *)
(* manual_compaction_ again, whatever that has become by now.              *)
BgEpilogue ==
  /\ BgAt("epilogue") /\ Holds(BG)
  /\ IF bg.manual
     THEN IF manual = Free
          THEN BgGoto("crashed") /\ UNCHANGED <<loc, manual>>
          ELSE /\ loc' = [loc EXCEPT ![manual].done = ~bg.ok]
               /\ manual' = Free
               /\ BgGoto("tail")
     ELSE BgGoto("tail") /\ UNCHANGED <<loc, manual>>
  /\ UNCHANGED <<mutex, pc, queueVars, logVars, memVars, lastSeq, bgError, bgCv,
                 bgScheduled, l0, deep, seek, shut, histVars>>

(* Mutant of the end of BackgroundCall: the waiters are not woken.         *)
BgTailSilent ==
  /\ BgAt("tail") /\ Holds(BG)
  /\ Release
  /\ bg' = NoBg
  /\ bgScheduled' = Scheduled(FALSE, hasImm, manual, NeedsCompaction(l0, deep, seek))
  /\ UNCHANGED <<pc, loc, queueVars, logVars, memVars, lastSeq, bgError, bgCv, l0,
                 deep, seek, ctlVars, histVars>>

(* The end of BackgroundCall: reschedule if needed and wake all waiters.   *)
BgTail ==
  /\ BgAt("tail") /\ Holds(BG)
  /\ Release
  /\ bg' = NoBg
  /\ bgScheduled' = Scheduled(FALSE, hasImm, manual, NeedsCompaction(l0, deep, seek))
  /\ bgCv' = {}
  /\ UNCHANGED <<pc, loc, queueVars, logVars, memVars, lastSeq, bgError, l0, deep,
                 seek, ctlVars, histVars>>

----------------------------------------------------------------------------
ClientStep(c) ==
  \/ RoomError(c) \/ RoomDelay(c) \/ DelayOver(c) \/ RoomWait(c) \/ RoomWake(c)
  \/ RoomSwitch(c) \/ RoomBuild(c)
  \/ AddRecord(c) \/ SyncLog(c) \/ InsertInto(c) \/ Relock(c) \/ Pop(c) \/ Wake(c)
  \/ CompactMemTableWait(c) \/ ManualWait(c) \/ ManualReturn(c) \/ CloseWait(c)

Environment ==
  \/ \E c \in Clients : Write(c) \/ CompactRange(c) \/ Close(c) \/ SpuriousWakeup(c)
  \/ ReadSample

Background ==
  \/ BgSkip \/ BgFlush \/ BgManual \/ BgPick \/ BgBuilt \/ BgFlushed
  \/ BgCompactFlush \/ BgCompactEnd \/ BgCompactFinish \/ BgInstall
  \/ BgEpilogue \/ BgTail

(* A closed database stays closed, and a process that followed a NULL      *)
(* manual_compaction_ is gone.                                             *)
Closed ==
  /\ bg.pc = "crashed" \/ \E c \in Clients : pc[c] = "closed"
  /\ UNCHANGED vars

Next == Environment \/ (\E c \in Clients : ClientStep(c)) \/ Background \/ Closed

(* Every thread goes on: the operating system runs it, and a thread that   *)
(* finds the mutex free again and again gets it in the end (strong         *)
(* fairness, since another thread may take the mutex in between).  The     *)
(* loop over a compaction's input is finite even when it stops for         *)
(* memtables again and again, so it ends.                                  *)
Fairness ==
  /\ \A c \in Clients : SF_vars(ClientStep(c))
  /\ SF_vars(Background)
  /\ SF_vars(BgCompactEnd)

Spec == Init /\ [][Next]_vars
FairSpec == Spec /\ Fairness

----------------------------------------------------------------------------
(* Properties.                                                             *)

(* Only the front of the writer queue runs MakeRoomForWrite or uses log_   *)
(* and mem_ without the mutex ("&w is currently responsible for logging    *)
(* and protects against concurrent loggers and concurrent writes into      *)
(* mem_", DBImpl::Write).                                                  *)
LeaderIsFront ==
  \A c \in Clients : pc[c] \in Leading => writers # <<>> /\ writers[1] = c

(* A call of Write that returned OK is in the database exactly once, with  *)
(* a sequence number that is visible to every later read and that is       *)
(* larger than every number visible when it was called; a call that        *)
(* returned an error is not in the database.                               *)
ExactlyOnce ==
  \A a \in answers :
    LET mine == {e \in Store : e.id = a.id}
    IN  IF a.ok THEN /\ Cardinality(mine) = 1
                     /\ \A e \in mine : a.after < e.seq /\ e.seq <= lastSeq
                ELSE mine = {}

(* What a read at a snapshot sees never changes: no entry appears in, or   *)
(* leaves, the part of the database that has become visible, although the  *)
(* memtable is filled without the mutex (DBImpl::Write publishes a         *)
(* sequence number only after InsertInto).                                 *)
SnapshotStable ==
  [][{e \in Store : e.seq <= lastSeq} = {e \in Store' : e.seq <= lastSeq}]_vars

(* An acknowledged sync write is in a log record that has been synced, or  *)
(* has been flushed to a table.                                            *)
Durable(i) ==
  \/ \E e \in tables : e.id = i
  \/ \E r \in durable : \E e \in log[r].upd : e.id = i

SyncedIsDurable == \A a \in answers : a.ok /\ a.sync => Durable(a.id)

(* Nobody waits on bg_cv_ unless the background thread is scheduled, so    *)
(* the end of BackgroundCall will wake the waiters.                        *)
NoOrphanWaiter == bgCv # {} => bgScheduled

(* A writer whose turn has come is awake: the front of a non-empty queue   *)
(* is leading or has been signalled, and so has every completed writer.    *)
NoLostSignal ==
  /\ writers # <<>> => \/ pc[Head(writers)] \in Leading
                       \/ Head(writers) \in sig
  /\ \A c \in Clients : pc[c] = "wait" /\ res[c] # "none" => c \in sig

(* Every call of Write, CompactRange and the destructor returns, although  *)
(* writers stall on full memtables and on level 0, overlapping manual      *)
(* compactions wait for each other and a log may fail to sync, unless the  *)
(* process ends by following a manual_compaction_ that was set to NULL     *)
(* while its compaction ran (BackgroundCompaction reads it once more).     *)
CallsReturn ==
  \A c \in Clients :
    pc[c] # "idle" ~> pc[c] \in {"idle", "closed"} \/ bg.pc = "crashed"

=============================================================================
