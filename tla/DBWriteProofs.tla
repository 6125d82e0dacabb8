--------------------------- MODULE DBWriteProofs ---------------------------
(***************************************************************************)
(* Proofs about DBWrite, for any number of clients and calls, any set of   *)
(* faults and any thresholds.                                              *)
(*                                                                         *)
(* First the types of the variables, and that only the front of the writer *)
(* queue leads.  Neither is inductive as it stands.  A writer that wakes   *)
(* up compares itself with the front of the queue, so it must be known     *)
(* that a waiting writer without an answer is still in the queue; the      *)
(* leader takes as many writers off the queue as its group has, so the     *)
(* group must end in the queue; and the level-0 inputs of a compaction     *)
(* must still be there when it is installed, although a memtable may have  *)
(* been flushed in the middle of it.                                       *)
(*                                                                         *)
(* Then what builds on that invariant: nobody waits on bg_cv_ for a        *)
(* background thread that is not coming, what a snapshot sees never        *)
(* changes, a writer whose turn has come is never left asleep, and an      *)
(* acknowledged sync write is durable.                                     *)
(*                                                                         *)
(* Last, that every answer of DBImpl::Write tells the truth: a write that  *)
(* returned OK is in the database exactly once and visible, one that       *)
(* returned an error is not there.  The theorems are at the end.           *)
(***************************************************************************)
EXTENDS DBWrite, FiniteSetTheorems, TLAPS

(* The queue: the leader is the front, its group ends in the queue, and a  *)
(* writer that waits for an answer is in the queue and has no group yet.   *)
QueueInv ==
  /\ LeaderIsFront
  /\ \A c \in Clients : pc[c] \in Leading => loc[c].group <= Len(writers)
  /\ \A c \in Clients : pc[c] = "wait" /\ res[c] = "none" =>
       \E i \in 1..Len(writers) : writers[i] = c
  /\ \A c \in Clients : pc[c] = "wait" => loc[c].group = 1

(* A compaction has no more level-0 inputs than there are files.           *)
InputsInv == bg.pc \notin {"epilogue", "tail", "crashed"} => bg.inputs <= l0

(* What the steps need to know of the size of a set of positions in the    *)
(* queue: a constant formula, proved below (CountingHolds).                *)
Counting ==
  \A n \in Nat : \A S \in SUBSET (1..n) :
    /\ Cardinality(S) \in Nat
    /\ S # {} => Cardinality(S) >= 1
    /\ \A T \in SUBSET S : Cardinality(T) <= Cardinality(S)

(* The inductive invariant.                                                *)
TInv == Counting /\ TypeOK /\ QueueInv /\ InputsInv

(* A group has a whole number of batches, at least one if a batch ends it. *)
LEMMA CountPositive ==
  ASSUME Counting, TypeOK, NEW i \in 1..Len(writers)
  PROVE  /\ Count(i) \in Nat
         /\ call[writers[i]].batch => Count(i) >= 1
         /\ \A j \in 1..i : Count(j) <= Count(i)
<1> DEFINE S(k) == {j \in 1..k : call[writers[j]].batch}
<1>1. i \in Nat
  BY DEF TypeOK
<1>2. S(i) \in SUBSET (1..i) /\ \A j \in 1..i : S(j) \in SUBSET S(i)
  BY <1>1
<1>3. /\ Cardinality(S(i)) \in Nat
      /\ S(i) # {} => Cardinality(S(i)) >= 1
      /\ \A T \in SUBSET S(i) : Cardinality(T) <= Cardinality(S(i))
  BY <1>1, <1>2, Zenon DEF Counting
<1>4. call[writers[i]].batch => S(i) # {}
  BY <1>1
<1> HIDE DEF S
<1>5. Count(i) = Cardinality(S(i)) /\ \A j \in 1..i : Count(j) = Cardinality(S(j))
  BY Zenon DEF Count, S
<1>6. \A j \in 1..i : Cardinality(S(j)) <= Cardinality(S(i))
  BY <1>2, <1>3, Zenon
<1> QED
  BY <1>3, <1>4, <1>5, <1>6, Zenon

(* The database as DB::Open hands it out.                                  *)
LEMMA TInvInit ==
  ASSUME Counting, Init
  PROVE  TInv
<1>1. bgScheduled \in BOOLEAN
  BY Zenon DEF Init, NeedsCompaction
<1>2. loc \in [Clients -> Locals] /\ call \in [Clients -> Calls]
  BY Zenon DEF Init, NoLoc, NoCall, Locals, Calls
<1>3. bg \in Bgs /\ bg.inputs = 0
  BY Zenon DEF Init, NoBg, Bgs, BgPCs
<1>4. l0 \in Nat
  BY BoundAssumption DEF Init
<1>5. TypeOK
  <2>1. writers \in Seq(Clients) /\ log \in Seq(Records)
    BY DEF Init
  <2>2. mutex \in Clients \cup {BG, Free} /\ manual \in Clients \cup {Free}
    BY Zenon DEF Init
  <2>3. /\ pc \in [Clients -> PCs] /\ res \in [Clients -> {"none", "ok", "err"}]
        /\ sig \subseteq Clients /\ bgCv \subseteq Clients
        /\ durable \subseteq Nat /\ answers \subseteq Answers
        /\ mem \subseteq Entries /\ imm \subseteq Entries /\ tables \subseteq Entries
    BY Zenon DEF Init, PCs
  <2>4. /\ logfile \in Nat /\ lastSeq \in Nat /\ deep \in Nat /\ issued \in Nat
    BY Zenon DEF Init
  <2>5. hasImm \in BOOLEAN /\ bgError \in BOOLEAN /\ seek \in BOOLEAN /\ shut \in BOOLEAN
    BY Zenon DEF Init
  <2> QED
    BY <1>1, <1>2, <1>3, <1>4, <2>1, <2>2, <2>3, <2>4, <2>5, Zenon DEF TypeOK
<1>6. QueueInv
  BY Zenon DEF Init, QueueInv, LeaderIsFront, Leading
<1>7. InputsInv
  BY <1>3, <1>4 DEF InputsInv
<1> QED
  BY <1>5, <1>6, <1>7, Zenon DEF TInv

(* A record of local variables keeps its type when a field is assigned.    *)
LEMMA LocalsUpdate ==
  ASSUME NEW l \in [Clients -> Locals], NEW c \in Clients,
         NEW b \in BOOLEAN, NEW n \in Nat, NEW u \in SUBSET Entries
  PROVE  /\ [l EXCEPT ![c].force = b] \in [Clients -> Locals]
         /\ [l EXCEPT ![c].delay = b] \in [Clients -> Locals]
         /\ [l EXCEPT ![c].ok = b] \in [Clients -> Locals]
         /\ [l EXCEPT ![c].syncErr = b] \in [Clients -> Locals]
         /\ [l EXCEPT ![c].done = b] \in [Clients -> Locals]
         /\ [l EXCEPT ![c].group = n] \in [Clients -> Locals]
         /\ [l EXCEPT ![c].last = n] \in [Clients -> Locals]
         /\ [l EXCEPT ![c].levels = n] \in [Clients -> Locals]
         /\ [l EXCEPT ![c].passes = n] \in [Clients -> Locals]
         /\ [l EXCEPT ![c].upd = u] \in [Clients -> Locals]
  BY DEF Locals

(* The updates of a group are numbered entries, all above the last         *)
(* sequence number.                                                        *)
LEMMA UpdatesType ==
  ASSUME Counting, TypeOK, NEW k \in 1..Len(writers)
  PROVE  /\ Updates(k) \in SUBSET Entries
         /\ \A e \in Updates(k) : e.seq > lastSeq
<1> SUFFICES ASSUME NEW i \in 1..k, call[writers[i]].batch
             PROVE  /\ lastSeq + Count(i) \in Nat /\ lastSeq + Count(i) > lastSeq
                    /\ call[writers[i]].id \in Nat
  BY DEF Updates, Entries
<1>1. i \in 1..Len(writers)
  BY DEF TypeOK
<1>2. Count(i) \in Nat /\ Count(i) >= 1
  BY <1>1, CountPositive, Zenon
<1>3. writers[i] \in Clients
  BY <1>1 DEF TypeOK
<1>4. call[writers[i]] \in Calls /\ lastSeq \in Nat
  BY <1>3, Zenon DEF TypeOK
<1>5. call[writers[i]].id \in Nat
  BY <1>4, Zenon DEF Calls
<1> QED
  BY <1>2, <1>4, <1>5

(* The record of a finished call.                                          *)
LEMMA AnsweredType ==
  ASSUME TypeOK, NEW c \in Clients, NEW ok \in BOOLEAN, Answered(c, ok)
  PROVE  answers' \subseteq Answers
<1>1. Answer(c, ok) \in Answers
  BY Zenon DEF TypeOK, Answer, Answers, Calls
<1> QED
  BY <1>1, Zenon DEF Answered, TypeOK

(* Queueing a Writer keeps the variables in their types.                   *)
LEMMA EnqueueType ==
  ASSUME TypeOK, NEW c \in Clients, NEW batch \in BOOLEAN, NEW sync \in BOOLEAN,
         NEW n \in Nat, Enqueue(c, batch, sync, n)
  PROVE  TypeOK'
<1> USE DEF Enqueue
<1>1. loc' \in [Clients -> Locals]
  <2>1. [NoLoc EXCEPT !.force = ~batch, !.delay = batch, !.levels = n] \in Locals
    BY Zenon DEF NoLoc, Locals
  <2> QED
    BY <2>1, Zenon DEF TypeOK
<1>2. call' \in [Clients -> Calls]
  BY DEF TypeOK, Calls
<1>3. writers' \in Seq(Clients) /\ issued' \in Nat
  BY DEF TypeOK
<1>4. pc' \in [Clients -> PCs] /\ res' \in [Clients -> {"none", "ok", "err"}]
  BY Zenon DEF TypeOK, Goto, PCs, Leading
<1>5. mutex' \in Clients \cup {BG, Free}
  BY Zenon DEF TypeOK
<1> QED
  BY <1>1, <1>2, <1>3, <1>4, <1>5, Zenon
  DEF TypeOK, logVars, memVars, bgVars, ctlVars

(* Every step keeps the variables in their types.                          *)
LEMMA TypeNext ==
  ASSUME TInv, [Next]_vars
  PROVE  TypeOK'
<1> USE DEF queueVars, logVars, memVars, bgVars, ctlVars, histVars, Goto, Acquire,
            AcquireRelease, Holds, Release, BgAt, BgGoto, NoBackgroundError,
            RecordBackgroundError
<1>0. Counting /\ TypeOK /\ loc \in [Clients -> Locals]
  BY Zenon DEF TInv, TypeOK
<1>1. ASSUME NEW c \in Clients, Write(c) PROVE TypeOK'
  BY <1>0, <1>1, EnqueueType, Zenon DEF Write
<1>2. ASSUME NEW c \in Clients, CompactRange(c) PROVE TypeOK'
  <2>1. PICK n \in 1..MaxPasses : Enqueue(c, FALSE, FALSE, n)
    BY <1>2, Zenon DEF CompactRange
  <2>2. n \in Nat
    BY BoundAssumption
  <2> QED
    BY <1>0, <2>1, <2>2, EnqueueType, Zenon
<1>3. ASSUME NEW c \in Clients, Close(c) PROVE TypeOK'
  BY <1>0, <1>3, Zenon DEF Close, TypeOK, PCs
<1>4. ASSUME NEW c \in Clients, SpuriousWakeup(c) PROVE TypeOK'
  BY <1>0, <1>4, Zenon DEF SpuriousWakeup, TypeOK
<1>5. ASSUME NEW c \in Clients, RoomError(c) PROVE TypeOK'
  <2>1. loc' \in [Clients -> Locals]
    BY <1>0, <1>5, LocalsUpdate, Zenon DEF RoomError, LeaveRoom
  <2>2. pc' \in [Clients -> PCs]
    BY <1>0, <1>5, Zenon DEF RoomError, LeaveRoom, TypeOK, PCs, Leading
  <2> QED
    BY <1>0, <1>5, <2>1, <2>2, Zenon DEF RoomError, LeaveRoom, TypeOK
<1>6. ASSUME NEW c \in Clients, RoomDelay(c) PROVE TypeOK'
  <2>1. loc' \in [Clients -> Locals]
    BY <1>0, <1>6, LocalsUpdate, Zenon DEF RoomDelay
  <2>2. pc' \in [Clients -> PCs]
    BY <1>0, <1>6, Zenon DEF RoomDelay, TypeOK, PCs, Leading
  <2> QED
    BY <1>0, <1>6, <2>1, <2>2, Zenon DEF RoomDelay, TypeOK
<1>7. ASSUME NEW c \in Clients, DelayOver(c) PROVE TypeOK'
  BY <1>0, <1>7, Zenon DEF DelayOver, TypeOK, PCs, Leading
<1>8. ASSUME NEW c \in Clients, RoomWait(c) PROVE TypeOK'
  BY <1>0, <1>8, Zenon DEF RoomWait, TypeOK, PCs, Leading
<1>9. ASSUME NEW c \in Clients, RoomWake(c) PROVE TypeOK'
  BY <1>0, <1>9, Zenon DEF RoomWake, TypeOK, PCs, Leading
<1>10. ASSUME NEW c \in Clients, RoomSwitch(c) PROVE TypeOK'
  <2>1. loc' \in [Clients -> Locals]
    <3>1. /\ [loc EXCEPT ![c].force = FALSE] \in [Clients -> Locals]
          /\ [loc EXCEPT ![c].ok = FALSE] \in [Clients -> Locals]
      BY <1>0, LocalsUpdate, Zenon
    <3> QED
      BY <1>10, <3>1, Zenon DEF RoomSwitch, LeaveRoom
  <2>2. pc' \in [Clients -> PCs]
    BY <1>0, <1>10, Zenon DEF RoomSwitch, LeaveRoom, TypeOK, PCs, Leading
  <2>3. bgScheduled' \in BOOLEAN /\ hasImm' \in BOOLEAN
    BY <1>0, <1>10, Zenon DEF RoomSwitch, Scheduled, TypeOK
  <2>4. mem' \subseteq Entries /\ imm' \subseteq Entries
    BY <1>0, <1>10, Zenon DEF RoomSwitch, TypeOK
  <2>5. logfile' = logfile + 1 \/ logfile' = logfile
    BY <1>10, Zenon DEF RoomSwitch
  <2>6. logfile' \in Nat
    BY <1>0, <2>5 DEF TypeOK
  <2>7. mutex' = mutex
    BY <1>10, Zenon DEF RoomSwitch, LeaveRoom
  <2> QED
    BY <1>0, <1>10, <2>1, <2>2, <2>3, <2>4, <2>6, <2>7, Zenon DEF RoomSwitch, TypeOK
<1>11. ASSUME NEW c \in Clients, RoomBuild(c) PROVE TypeOK'
  <2>1. loc' \in [Clients -> Locals]
    <3>1. CASE loc' = [loc EXCEPT ![c].ok = TRUE]
      BY <1>0, <3>1, LocalsUpdate, Zenon
    <3>2. ASSUME NEW k \in GroupEnds,
                 loc' = [loc EXCEPT ![c].group = k, ![c].upd = Updates(k),
                                    ![c].last = lastSeq + Count(k)]
          PROVE  loc' \in [Clients -> Locals]
      <4>1. k \in 1..Len(writers) /\ k \in Nat
        BY <1>0 DEF GroupEnds, TypeOK
      <4>2. Updates(k) \in SUBSET Entries /\ lastSeq + Count(k) \in Nat
        BY <1>0, <4>1, UpdatesType, CountPositive DEF TypeOK
      <4>3. [loc EXCEPT ![c].group = k] \in [Clients -> Locals]
        BY <1>0, <4>1, LocalsUpdate, Zenon
      <4>4. [loc EXCEPT ![c].group = k, ![c].upd = Updates(k)] \in [Clients -> Locals]
        BY <4>2, <4>3, LocalsUpdate, Zenon
      <4> QED
        BY <3>2, <4>2, <4>4, LocalsUpdate, Zenon
    <3> QED
      BY <1>11, <3>1, <3>2, Zenon DEF RoomBuild, LeaveRoom
  <2>2. pc' \in [Clients -> PCs] /\ mutex' \in Clients \cup {BG, Free}
    BY <1>0, <1>11, Zenon DEF RoomBuild, LeaveRoom, TypeOK, PCs, Leading
  <2> QED
    BY <1>0, <1>11, <2>1, <2>2, Zenon DEF RoomBuild, TypeOK
<1>12. ASSUME NEW c \in Clients, AddRecord(c) PROVE TypeOK'
  <2>1. loc' \in [Clients -> Locals]
    <3>1. [loc EXCEPT ![c].ok = FALSE] \in [Clients -> Locals]
      BY <1>0, LocalsUpdate, Zenon
    <3> QED
      BY <1>0, <1>12, <3>1, Zenon DEF AddRecord
  <2>2. pc' \in [Clients -> PCs]
    BY <1>0, <1>12, Zenon DEF AddRecord, TypeOK, PCs, Leading
  <2>3. log' \in Seq(Records)
    <3>1. GroupRecord(c) \in Records
      BY <1>0, Zenon DEF GroupRecord, Records, TypeOK, Locals
    <3>2. log \in Seq(Records) /\ Append(log, GroupRecord(c)) \in Seq(Records)
      BY <1>0, <3>1 DEF TypeOK
    <3> QED
      BY <1>12, <3>2, Zenon DEF AddRecord
  <2> QED
    BY <1>0, <1>12, <2>1, <2>2, <2>3, Zenon DEF AddRecord, TypeOK
<1>13. ASSUME NEW c \in Clients, SyncLog(c) PROVE TypeOK'
  <2>1. loc' \in [Clients -> Locals]
    <3>1. [loc EXCEPT ![c].ok = FALSE] \in [Clients -> Locals]
      BY <1>0, LocalsUpdate, Zenon
    <3>2. [loc EXCEPT ![c].ok = FALSE, ![c].syncErr = TRUE] \in [Clients -> Locals]
      BY <3>1, LocalsUpdate, Zenon
    <3> QED
      BY <1>0, <1>13, <3>2, Zenon DEF SyncLog
  <2>2. pc' \in [Clients -> PCs]
    BY <1>0, <1>13, Zenon DEF SyncLog, TypeOK, PCs, Leading
  <2>3. durable' \subseteq Nat
    BY <1>0, <1>13 DEF SyncLog, TypeOK
  <2> QED
    BY <1>0, <1>13, <2>1, <2>2, <2>3, Zenon DEF SyncLog, TypeOK
<1>14. ASSUME NEW c \in Clients, InsertInto(c) PROVE TypeOK'
  <2>1. loc[c].upd \in SUBSET Entries
    BY <1>0, Zenon DEF Locals
  <2>2. loc' \in [Clients -> Locals]
    <3>1. \A e : [loc EXCEPT ![c].upd = loc[c].upd \ {e}] \in [Clients -> Locals]
      <4> TAKE e
      <4>1. loc[c].upd \ {e} \in SUBSET Entries
        BY <2>1, Zenon
      <4> QED
        BY <1>0, <4>1, LocalsUpdate, Zenon
    <3> QED
      BY <1>0, <1>14, <3>1, ZenonT(30) DEF InsertInto
  <2>3. mem' \subseteq Entries
    BY <1>0, <1>14, <2>1, Zenon DEF InsertInto, TypeOK
  <2>4. pc' \in [Clients -> PCs]
    BY <1>0, <1>14, Zenon DEF InsertInto, TypeOK, PCs, Leading
  <2> QED
    BY <1>0, <1>14, <2>2, <2>3, <2>4, Zenon DEF InsertInto, TypeOK
<1>15. ASSUME NEW c \in Clients, Relock(c) PROVE TypeOK'
  <2>1. lastSeq' \in Nat
    BY <1>0, <1>15, Zenon DEF Relock, Locals
  <2> QED
    BY <1>0, <1>15, <2>1, Zenon DEF Relock, TypeOK, PCs, Leading
<1>16. ASSUME NEW c \in Clients, Pop(c) PROVE TypeOK'
  <2>1. pc[c] = "pop" /\ loc[c].group \in Nat /\ loc[c].group <= Len(writers)
    BY <1>0, <1>16, Zenon DEF Pop, TInv, QueueInv, Leading, Locals
  <2>2. writers' \in Seq(Clients)
    BY <1>0, <1>16, <2>1 DEF Pop, TypeOK
  <2>3. sig' \subseteq Clients
    BY <1>0, <1>16, <2>1 DEF Pop, TypeOK
  <2>4. res' \in [Clients -> {"none", "ok", "err"}]
    BY <1>0, <1>16, Zenon DEF Pop, TypeOK
  <2>5. pc' \in [Clients -> PCs]
    BY <1>0, <1>16, Zenon DEF Pop, Return, TypeOK, PCs, Leading
  <2>6. answers' \subseteq Answers
    BY <1>0, <1>16, AnsweredType, Zenon DEF Pop, Locals
  <2> QED
    BY <1>0, <1>16, <2>2, <2>3, <2>4, <2>5, <2>6, Zenon DEF Pop, TypeOK
<1>17. ASSUME NEW c \in Clients, Wake(c) PROVE TypeOK'
  <2>1. pc' \in [Clients -> PCs]
    BY <1>0, <1>17, Zenon DEF Wake, Return, TypeOK, PCs, Leading
  <2>2. answers' \subseteq Answers
    BY <1>0, <1>17, AnsweredType, Zenon DEF Wake, TypeOK
  <2>3. sig' \subseteq Clients /\ mutex' \in Clients \cup {BG, Free}
    BY <1>0, <1>17, Zenon DEF Wake, TypeOK
  <2> QED
    BY <1>0, <1>17, <2>1, <2>2, <2>3, Zenon DEF Wake, TypeOK
<1>18. ASSUME NEW c \in Clients, CompactMemTableWait(c) PROVE TypeOK'
  BY <1>0, <1>18, Zenon DEF CompactMemTableWait, TypeOK, PCs
<1>19. ASSUME NEW c \in Clients, ManualWait(c) PROVE TypeOK'
  <2>1. bgScheduled' \in BOOLEAN
    BY <1>0, <1>19, Zenon DEF ManualWait, Scheduled, TypeOK
  <2>2. manual' \in Clients \cup {Free} /\ bgCv' \subseteq Clients
    BY <1>0, <1>19, Zenon DEF ManualWait, TypeOK
  <2> QED
    BY <1>0, <1>19, <2>1, <2>2, Zenon DEF ManualWait, TypeOK
<1>20. ASSUME NEW c \in Clients, ManualReturn(c) PROVE TypeOK'
  <2>1. loc' \in [Clients -> Locals]
    <3> DEFINE n == IF loc[c].levels = 0 THEN 0 ELSE loc[c].levels - 1
               l1 == [loc EXCEPT ![c].levels = n]
               l2 == [l1 EXCEPT ![c].done = FALSE]
    <3>1. n \in Nat
      BY <1>0 DEF Locals
    <3> HIDE DEF n
    <3>2. l1 \in [Clients -> Locals]
      BY <1>0, <3>1, LocalsUpdate, Zenon
    <3> HIDE DEF l1
    <3>3. l2 \in [Clients -> Locals]
      BY <3>2, LocalsUpdate, Zenon
    <3> HIDE DEF l2
    <3>4. [l2 EXCEPT ![c].passes = 0] \in [Clients -> Locals]
      BY <3>3, LocalsUpdate, Zenon
    <3> QED
      BY <1>0, <1>20, <3>4, Zenon DEF ManualReturn, n, l1, l2
  <2>2. pc' \in [Clients -> PCs] /\ manual' \in Clients \cup {Free}
    BY <1>0, <1>20, Zenon DEF ManualReturn, TypeOK, PCs
  <2> QED
    BY <1>0, <1>20, <2>1, <2>2, Zenon DEF ManualReturn, TypeOK
<1>21. ASSUME NEW c \in Clients, CloseWait(c) PROVE TypeOK'
  BY <1>0, <1>21, Zenon DEF CloseWait, TypeOK, PCs
<1>22. CASE ReadSample
  BY <1>0, <1>22 DEF ReadSample, Scheduled, TypeOK
<1>23. CASE BgSkip
  BY <1>0, <1>23, Zenon DEF BgSkip, TypeOK, Bgs, BgPCs
<1>24. CASE BgFlush
  BY <1>0, <1>24, Zenon DEF BgFlush, TypeOK, Bgs, BgPCs
<1>25. CASE BgManual
  <2>1. manual \in Clients /\ manual' \in Clients \cup {Free}
    BY <1>0, <1>25, Zenon DEF BgManual, TypeOK
  <2>2. loc' \in [Clients -> Locals]
    <3>1. loc[manual].passes + 1 \in Nat
      BY <1>0, <2>1 DEF Locals
    <3>2. /\ [loc EXCEPT ![manual].done = TRUE] \in [Clients -> Locals]
          /\ [loc EXCEPT ![manual].passes = loc[manual].passes + 1] \in [Clients -> Locals]
      BY <1>0, <2>1, <3>1, LocalsUpdate, Zenon
    <3> QED
      BY <1>25, <3>2, Zenon DEF BgManual
  <2>3. bg' \in Bgs
    <3>1. bg \in Bgs /\ \A n \in 0..l0 : n \in Nat
      BY <1>0 DEF TypeOK
    <3>2. /\ [bg EXCEPT !.pc = "tail"] \in Bgs
          /\ \A n \in 0..l0 :
               [bg EXCEPT !.pc = "compact", !.manual = TRUE, !.inputs = n] \in Bgs
      BY <3>1, Zenon DEF Bgs, BgPCs
    <3> QED
      BY <1>25, <3>2, Zenon DEF BgManual
  <2> QED
    BY <1>0, <1>25, <2>1, <2>2, <2>3, Zenon DEF BgManual, TypeOK
<1>26. CASE BgPick
  <2>1. bg' \in Bgs
    <3>1. bg \in Bgs /\ \A n \in PickedInputs : n \in Nat
      BY <1>0 DEF TypeOK, PickedInputs
    <3>2. /\ [bg EXCEPT !.pc = "tail"] \in Bgs
          /\ \A n \in PickedInputs :
               /\ [bg EXCEPT !.pc = "compact", !.inputs = n] \in Bgs
               /\ [bg EXCEPT !.pc = "install", !.inputs = n] \in Bgs
      BY <3>1, Zenon DEF Bgs, BgPCs
    <3> QED
      BY <1>26, <3>2, Zenon DEF BgPick
  <2>2. mutex' \in Clients \cup {BG, Free}
    BY <1>26, Zenon DEF BgPick
  <2> QED
    BY <1>0, <1>26, <2>1, <2>2, Zenon DEF BgPick, TypeOK
<1>27. CASE BgBuilt
  <2>1. bg' \in Bgs
    BY <1>0, <1>27, Zenon DEF BgBuilt, FlushReturn, TypeOK, Bgs, BgPCs
  <2>2. /\ mutex' \in Clients \cup {BG, Free} /\ bgError' \in BOOLEAN
        /\ bgCv' \subseteq Clients
    BY <1>0, <1>27, Zenon DEF BgBuilt, FlushReturn, TypeOK
  <2> QED
    BY <1>0, <1>27, <2>1, <2>2, Zenon DEF BgBuilt, TypeOK
<1>28. CASE BgFlushed
  <2>1. bg' \in Bgs
    BY <1>0, <1>28, Zenon DEF BgFlushed, FlushReturn, TypeOK, Bgs, BgPCs
  <2>2. /\ mutex' \in Clients \cup {BG, Free} /\ bgError' \in BOOLEAN
        /\ bgCv' \subseteq Clients
    BY <1>0, <1>28, Zenon DEF BgFlushed, FlushReturn, TypeOK
  <2>3. /\ tables' \subseteq Entries /\ imm' \subseteq Entries
        /\ hasImm' \in BOOLEAN /\ seek' \in BOOLEAN
    BY <1>0, <1>28, Zenon DEF BgFlushed, TypeOK
  <2>4. l0' \in Nat /\ deep' \in Nat
    BY <1>0, <1>28, BoundAssumption DEF BgFlushed, TypeOK
  <2> QED
    BY <1>0, <1>28, <2>1, <2>2, <2>3, <2>4, Zenon DEF BgFlushed, TypeOK
<1>29. CASE BgCompactFlush
  BY <1>0, <1>29, Zenon DEF BgCompactFlush, TypeOK, Bgs, BgPCs
<1>30. CASE BgCompactEnd
  <2>1. bg' \in Bgs
    BY <1>0, <1>30, Zenon DEF BgCompactEnd, TypeOK, Bgs, BgPCs
  <2> QED
    BY <1>0, <1>30, <2>1, Zenon DEF BgCompactEnd, TypeOK
<1>31. CASE BgCompactFinish
  <2>1. bg' \in Bgs
    BY <1>0, <1>31, Zenon DEF BgCompactFinish, TypeOK, Bgs, BgPCs
  <2>2. /\ mutex' \in Clients \cup {BG, Free} /\ bgError' \in BOOLEAN
        /\ bgCv' \subseteq Clients
    BY <1>0, <1>31, Zenon DEF BgCompactFinish, TypeOK
  <2> QED
    BY <1>0, <1>31, <2>1, <2>2, Zenon DEF BgCompactFinish, TypeOK
<1>32. CASE BgInstall
  <2>1. bg' \in Bgs
    BY <1>0, <1>32, Zenon DEF BgInstall, TypeOK, Bgs, BgPCs
  <2>2. /\ mutex' \in Clients \cup {BG, Free} /\ bgError' \in BOOLEAN
        /\ bgCv' \subseteq Clients /\ seek' \in BOOLEAN
    BY <1>0, <1>32, Zenon DEF BgInstall, TypeOK
  <2>3. bg.inputs \in Nat /\ bg.inputs <= l0
    BY <1>0, <1>32, Zenon DEF BgInstall, TInv, InputsInv, TypeOK, Bgs
  <2>4. l0' \in Nat /\ deep' \in Nat
    BY <1>0, <1>32, <2>3 DEF BgInstall, TypeOK
  <2> QED
    BY <1>0, <1>32, <2>1, <2>2, <2>4, Zenon DEF BgInstall, TypeOK
<1>33. CASE BgEpilogue
  <2>1. bg' \in Bgs
    BY <1>0, <1>33, Zenon DEF BgEpilogue, TypeOK, Bgs, BgPCs
  <2>2. loc' \in [Clients -> Locals] /\ manual' \in Clients \cup {Free}
    <3>1. manual # Free => manual \in Clients
      BY <1>0, Zenon DEF TypeOK
    <3>2. (~bg.ok) \in BOOLEAN
      BY Zenon
    <3>3. manual # Free => [loc EXCEPT ![manual].done = ~bg.ok] \in [Clients -> Locals]
      BY <1>0, <3>1, <3>2, LocalsUpdate, Zenon
    <3>4. manual \in Clients \cup {Free}
      BY <1>0, Zenon DEF TypeOK
    <3> QED
      BY <1>0, <1>33, <3>3, <3>4, Zenon DEF BgEpilogue
  <2> QED
    BY <1>0, <1>33, <2>1, <2>2, Zenon DEF BgEpilogue, TypeOK
<1>34. CASE BgTail
  <2>1. bg' \in Bgs
    BY <1>34, Zenon DEF BgTail, NoBg, Bgs, BgPCs
  <2>2. bgScheduled' \in BOOLEAN
    BY <1>34, Zenon DEF BgTail, Scheduled
  <2> QED
    BY <1>0, <1>34, <2>1, <2>2, Zenon DEF BgTail, TypeOK
<1>35. CASE UNCHANGED vars
  BY <1>0, <1>35, Zenon DEF vars, TypeOK
<1> QED
  BY <1>1, <1>2, <1>3, <1>4, <1>5, <1>6, <1>7, <1>8, <1>9, <1>10, <1>11, <1>12,
     <1>13, <1>14, <1>15, <1>16, <1>17, <1>18, <1>19, <1>20, <1>21, <1>22, <1>23,
     <1>24, <1>25, <1>26, <1>27, <1>28, <1>29, <1>30, <1>31, <1>32, <1>33, <1>34,
     <1>35, Zenon
  DEF Next, Environment, ClientStep, Background, Closed

(* QueueInv depends on the queue, on who leads or waits, and on the size   *)
(* of the leader's group.                                                  *)
LEMMA QueueFrame ==
  ASSUME QueueInv, writers' = writers, res' = res,
         \A d \in Clients : /\ pc'[d] \in Leading => pc[d] \in Leading
                            /\ pc'[d] = "wait" => pc[d] = "wait"
                            /\ loc'[d].group = loc[d].group
  PROVE  QueueInv'
  BY Zenon DEF QueueInv, LeaderIsFront

(* A new writer goes to the end of the queue, and leads only if it was     *)
(* empty.                                                                  *)
LEMMA QueueEnqueue ==
  ASSUME TInv, NEW c \in Clients, NEW batch, NEW sync, NEW n,
         Enqueue(c, batch, sync, n)
  PROVE  QueueInv'
<1>1. /\ pc[c] = "idle" /\ pc \in [Clients -> PCs] /\ res \in [Clients -> {"none", "ok", "err"}]
      /\ writers \in Seq(Clients) /\ loc \in [Clients -> Locals]
      /\ writers' = Append(writers, c)
      /\ pc' = [pc EXCEPT ![c] = IF writers = <<>> THEN "room" ELSE "wait"]
      /\ res' = [res EXCEPT ![c] = "none"]
      /\ loc' = [loc EXCEPT ![c] = [NoLoc EXCEPT !.force = ~batch, !.delay = batch,
                                                 !.levels = n]]
  BY Zenon DEF Enqueue, Goto, TInv, TypeOK
<1>2. QueueInv
  BY Zenon DEF TInv
<1>3. /\ Len(writers') = Len(writers) + 1 /\ Len(writers) \in Nat
      /\ writers'[Len(writers) + 1] = c
      /\ \A i \in 1..Len(writers) : writers'[i] = writers[i]
      /\ writers # <<>> => Len(writers) >= 1
      /\ writers = <<>> => Len(writers) = 0
      /\ writers' # <<>>
  BY <1>1
<1>4. loc'[c].group = 1 /\ \A d \in Clients \ {c} : loc'[d] = loc[d]
  BY <1>1, Zenon DEF NoLoc
<1>5. \A d \in Clients \ {c} : pc'[d] = pc[d] /\ res'[d] = res[d]
  BY <1>1, Zenon
<1>6. pc'[c] \in Leading => writers = <<>>
  BY <1>1, Zenon DEF Leading
<1>7. LeaderIsFront'
  BY <1>2, <1>3, <1>5, <1>6 DEF QueueInv, LeaderIsFront
<1>8. ASSUME NEW d \in Clients, pc'[d] \in Leading PROVE loc'[d].group <= Len(writers')
  <2>1. CASE d = c
    BY <1>3, <1>4, <2>1
  <2>2. CASE d # c
    <3>1. loc[d].group <= Len(writers) /\ loc[d].group \in Nat
      BY <1>1, <1>2, <1>5, <1>8, <2>2, Zenon DEF QueueInv, Locals
    <3> QED
      BY <1>3, <1>4, <2>2, <3>1
  <2> QED
    BY <2>1, <2>2, Zenon
<1>9. ASSUME NEW d \in Clients, pc'[d] = "wait", res'[d] = "none"
      PROVE  \E i \in 1..Len(writers') : writers'[i] = d
  <2>1. CASE d = c
    BY <1>3, <2>1
  <2>2. CASE d # c
    <3>1. PICK i \in 1..Len(writers) : writers[i] = d
      BY <1>2, <1>5, <1>9, <2>2, Zenon DEF QueueInv
    <3> QED
      BY <1>3, <3>1
  <2> QED
    BY <2>1, <2>2, Zenon
<1>10. \A d \in Clients : pc'[d] = "wait" => loc'[d].group = 1
  BY <1>2, <1>4, <1>5, Zenon DEF QueueInv
<1> QED
  BY <1>7, <1>8, <1>9, <1>10, Zenon DEF QueueInv

(* A leader that has its group still is the front, and the group ends in   *)
(* the queue.                                                              *)
LEMMA QueueBuild ==
  ASSUME TInv, NEW c \in Clients, RoomBuild(c)
  PROVE  QueueInv'
<1>1. /\ pc \in [Clients -> PCs] /\ loc \in [Clients -> Locals]
      /\ pc[c] = "room" /\ writers' = writers /\ res' = res
  BY Zenon DEF TInv, TypeOK, RoomBuild, InRoom, queueVars
<1>2. /\ \A d \in Clients \ {c} : pc'[d] = pc[d]
      /\ pc'[c] \in {"append", "pop"}
  BY <1>1, Zenon DEF RoomBuild, LeaveRoom, Goto
<1>3. /\ \A d \in Clients \ {c} : loc'[d] = loc[d]
      /\ loc'[c].group \in GroupEnds \cup {loc[c].group}
  <2>1. CASE loc' = [loc EXCEPT ![c].ok = TRUE]
    BY <1>1, <2>1, Zenon DEF Locals
  <2>2. ASSUME NEW k \in GroupEnds,
               loc' = [loc EXCEPT ![c].group = k, ![c].upd = Updates(k),
                                  ![c].last = lastSeq + Count(k)]
        PROVE  /\ \A d \in Clients \ {c} : loc'[d] = loc[d]
               /\ loc'[c].group = k
    BY <1>1, <2>2, Zenon DEF Locals
  <2> QED
    BY <2>1, <2>2, Zenon DEF RoomBuild, LeaveRoom
<1>4. QueueInv /\ pc[c] \in Leading /\ pc'[c] # "wait"
  BY <1>1, <1>2, Zenon DEF TInv, Leading
<1>5. loc'[c].group <= Len(writers)
  BY <1>1, <1>3, <1>4, SMTT(60) DEF QueueInv, GroupEnds
<1> QED
  BY <1>1, <1>2, <1>3, <1>4, <1>5, ZenonT(30) DEF QueueInv, LeaderIsFront

(* The leader takes its group off the queue.  No other client leads, and   *)
(* the clients that still wait keep their place behind the group.          *)
LEMMA QueuePop ==
  ASSUME TInv, NEW c \in Clients, Pop(c)
  PROVE  QueueInv'
<1> DEFINE k == loc[c].group
<1>1. /\ pc \in [Clients -> PCs] /\ res \in [Clients -> {"none", "ok", "err"}]
      /\ writers \in Seq(Clients) /\ QueueInv /\ pc[c] = "pop"
      /\ writers' = SubSeq(writers, k + 1, Len(writers))
      /\ pc' = [pc EXCEPT ![c] = Return(c, loc[c].ok)]
  BY Zenon DEF TInv, TypeOK, Pop, Goto
<1>2. k \in Nat
  BY Zenon DEF TInv, TypeOK, Locals
<1>3. writers[1] = c /\ k <= Len(writers) /\ writers # <<>>
  BY <1>1, Zenon DEF QueueInv, LeaderIsFront, Leading
<1>4. \A d \in Clients : pc'[d] \notin Leading
  <2>1. pc'[c] \notin Leading
    BY <1>1, Zenon DEF Return, Leading
  <2>2. \A d \in Clients \ {c} : pc[d] \notin Leading
    BY <1>1, <1>3, Zenon DEF QueueInv, LeaderIsFront
  <2> QED
    BY <1>1, <2>1, <2>2, Zenon
<1>5. ASSUME NEW d \in Clients, pc'[d] = "wait", res'[d] = "none"
      PROVE  \E i \in 1..Len(writers') : writers'[i] = d
  <2>1. d # c /\ pc[d] = "wait"
    BY <1>1, <1>5, Zenon DEF Return
  <2>2. res[d] = "none" /\ \A j \in 2..k : writers[j] # d
    BY <1>5, Zenon DEF Pop
  <2>3. PICK i \in 1..Len(writers) : writers[i] = d
    BY <1>1, <2>1, <2>2, Zenon DEF QueueInv
  <2>4. i # 1 /\ i \notin 2..k
    BY <1>3, <2>1, <2>2, <2>3, Zenon
  <2>5. i - k \in 1..(Len(writers) - k)
    BY <1>1, <1>2, <2>4
  <2>6. Len(writers') = Len(writers) - k /\ writers'[i - k] = writers[i]
    <3>1. k + 1 \in 1..Len(writers) /\ i - k \in Nat
      BY <1>1, <1>2, <2>5
    <3>2. /\ Len(writers') = Len(writers) - (k + 1) + 1
          /\ \A j \in 1..(Len(writers) - (k + 1) + 1) : writers'[j] = writers[(k + 1) + j - 1]
      BY <1>1, <3>1
    <3>3. Len(writers) \in Nat
      BY <1>1
    <3> HIDE DEF k
    <3>4. /\ i - k \in 1..(Len(writers) - (k + 1) + 1)
          /\ (k + 1) + (i - k) - 1 = i
          /\ Len(writers) - (k + 1) + 1 = Len(writers) - k
      BY <1>2, <2>5, <3>3
    <3> QED
      BY <3>2, <3>4, Zenon
  <2> QED
    BY <2>3, <2>5, <2>6, Zenon
<1>6. \A d \in Clients : pc'[d] = "wait" => pc[d] = "wait" /\ loc'[d] = loc[d]
  BY <1>1, Zenon DEF Return, Pop
<1>7. \A d \in Clients : pc'[d] = "wait" => loc'[d].group = 1
  BY <1>1, <1>6, Zenon DEF QueueInv
<1>8. LeaderIsFront'
  BY <1>4, Zenon DEF LeaderIsFront
<1> QED
  BY <1>4, <1>5, <1>7, <1>8, Zenon DEF QueueInv

(* A waiting client becomes the leader only at the front of the queue.     *)
LEMMA QueueWake ==
  ASSUME TInv, NEW c \in Clients, Wake(c)
  PROVE  QueueInv'
<1>1. /\ pc \in [Clients -> PCs] /\ writers \in Seq(Clients) /\ QueueInv
      /\ pc[c] = "wait" /\ writers' = writers /\ res' = res /\ loc' = loc
      /\ \A d \in Clients \ {c} : pc'[d] = pc[d]
      /\ loc[c].group \in Nat
  BY Zenon DEF TInv, TypeOK, Wake, Goto, Locals
<1>2. pc'[c] \in Leading => res[c] = "none" /\ c = Head(writers)
  BY <1>1, Zenon DEF Wake, Goto, Return, Leading
<1>3. pc'[c] = "wait" => pc[c] = "wait"
  BY <1>1, Zenon
<1>4. pc'[c] \in Leading => writers # <<>> /\ writers[1] = c
  BY <1>1, <1>2 DEF QueueInv
<1>5. pc'[c] \in Leading => loc[c].group <= Len(writers)
  BY <1>1, <1>4 DEF QueueInv
<1> QED
  BY <1>1, <1>3, <1>4, <1>5, Zenon DEF QueueInv, LeaderIsFront

(* Every step keeps the queue in order.                                    *)
LEMMA QueueNext ==
  ASSUME TInv, [Next]_vars
  PROVE  QueueInv'
<1> USE DEF queueVars, Goto
<1>0. /\ QueueInv /\ pc \in [Clients -> PCs] /\ loc \in [Clients -> Locals]
      /\ manual \in Clients \cup {Free}
  BY Zenon DEF TInv, TypeOK
<1>1. ASSUME NEW c \in Clients, Write(c) PROVE QueueInv'
  BY <1>1, QueueEnqueue, Zenon DEF Write
<1>2. ASSUME NEW c \in Clients, CompactRange(c) PROVE QueueInv'
  BY <1>2, QueueEnqueue, Zenon DEF CompactRange
<1>3. ASSUME NEW c \in Clients, RoomBuild(c) PROVE QueueInv'
  BY <1>3, QueueBuild, Zenon
<1>4. ASSUME NEW c \in Clients, Pop(c) PROVE QueueInv'
  BY <1>4, QueuePop, Zenon
<1>5. ASSUME NEW c \in Clients, Wake(c) PROVE QueueInv'
  BY <1>5, QueueWake, Zenon
<1>6. ASSUME NEW c \in Clients, Close(c) PROVE QueueInv'
  BY <1>0, <1>6, QueueFrame, Zenon DEF Close, Leading
<1>7. ASSUME NEW c \in Clients, SpuriousWakeup(c) PROVE QueueInv'
  BY <1>0, <1>7, QueueFrame, Zenon DEF SpuriousWakeup
<1>8. ASSUME NEW c \in Clients, RoomError(c) PROVE QueueInv'
  BY <1>0, <1>8, QueueFrame, Zenon DEF RoomError, LeaveRoom, InRoom, Leading, Locals
<1>9. ASSUME NEW c \in Clients, RoomDelay(c) PROVE QueueInv'
  BY <1>0, <1>9, QueueFrame, Zenon DEF RoomDelay, InRoom, Leading, Locals
<1>10. ASSUME NEW c \in Clients, DelayOver(c) PROVE QueueInv'
  BY <1>0, <1>10, QueueFrame, Zenon DEF DelayOver, Leading
<1>11. ASSUME NEW c \in Clients, RoomWait(c) PROVE QueueInv'
  BY <1>0, <1>11, QueueFrame, Zenon DEF RoomWait, InRoom, Leading
<1>12. ASSUME NEW c \in Clients, RoomWake(c) PROVE QueueInv'
  BY <1>0, <1>12, QueueFrame, Zenon DEF RoomWake, InRoom, Leading
<1>13. ASSUME NEW c \in Clients, RoomSwitch(c) PROVE QueueInv'
  <2>1. loc' = [loc EXCEPT ![c].force = FALSE] \/ loc' = [loc EXCEPT ![c].ok = FALSE]
    BY <1>13, Zenon DEF RoomSwitch, LeaveRoom
  <2>2. \A d \in Clients : loc'[d].group = loc[d].group
    BY <1>0, <2>1 DEF Locals
  <2>3. \A d \in Clients : /\ pc'[d] \in Leading => pc[d] \in Leading
                           /\ pc'[d] = "wait" => pc[d] = "wait"
    BY <1>0, <1>13, Zenon DEF RoomSwitch, LeaveRoom, InRoom, Leading
  <2>4. writers' = writers /\ res' = res
    BY <1>13, Zenon DEF RoomSwitch
  <2> QED
    BY <1>0, <2>2, <2>3, <2>4, QueueFrame, Zenon
<1>14. ASSUME NEW c \in Clients, AddRecord(c) PROVE QueueInv'
  <2>1. loc' = loc \/ loc' = [loc EXCEPT ![c].ok = FALSE]
    BY <1>14, Zenon DEF AddRecord
  <2>2. \A d \in Clients : loc'[d].group = loc[d].group
    BY <1>0, <2>1 DEF Locals
  <2>3. \A d \in Clients : /\ pc'[d] \in Leading => pc[d] \in Leading
                           /\ pc'[d] = "wait" => pc[d] = "wait"
    BY <1>0, <1>14, Zenon DEF AddRecord, Leading
  <2>4. writers' = writers /\ res' = res
    BY <1>14, Zenon DEF AddRecord
  <2> QED
    BY <1>0, <2>2, <2>3, <2>4, QueueFrame, Zenon
<1>15. ASSUME NEW c \in Clients, SyncLog(c) PROVE QueueInv'
  BY <1>0, <1>15, QueueFrame DEF SyncLog, Leading, Locals
<1>16. ASSUME NEW c \in Clients, InsertInto(c) PROVE QueueInv'
  BY <1>0, <1>16, QueueFrame DEF InsertInto, Leading, Locals
<1>17. ASSUME NEW c \in Clients, Relock(c) PROVE QueueInv'
  BY <1>0, <1>17, QueueFrame, Zenon DEF Relock, Leading
<1>18. ASSUME NEW c \in Clients, CompactMemTableWait(c) PROVE QueueInv'
  BY <1>0, <1>18, QueueFrame, Zenon DEF CompactMemTableWait, Leading
<1>19. ASSUME NEW c \in Clients, ManualWait(c) PROVE QueueInv'
  BY <1>0, <1>19, QueueFrame, Zenon DEF ManualWait, Leading
<1>20. ASSUME NEW c \in Clients, ManualReturn(c) PROVE QueueInv'
  BY <1>0, <1>20, QueueFrame, Zenon DEF ManualReturn, Leading, Locals
<1>21. ASSUME NEW c \in Clients, CloseWait(c) PROVE QueueInv'
  BY <1>0, <1>21, QueueFrame, Zenon DEF CloseWait, Leading
<1>22. CASE ReadSample
  BY <1>0, <1>22, QueueFrame, Zenon DEF ReadSample
<1>23. CASE BgSkip
  BY <1>0, <1>23, QueueFrame, Zenon DEF BgSkip
<1>24. CASE BgFlush
  BY <1>0, <1>24, QueueFrame, Zenon DEF BgFlush
<1>25. CASE BgManual
  <2>1. /\ manual \in Clients
        /\ \/ loc' = [loc EXCEPT ![manual].done = TRUE]
           \/ loc' = [loc EXCEPT ![manual].passes = loc[manual].passes + 1]
    BY <1>0, <1>25, Zenon DEF BgManual
  <2>2. \A d \in Clients : loc'[d].group = loc[d].group
    BY <1>0, <2>1 DEF Locals
  <2> QED
    BY <1>0, <1>25, <2>2, QueueFrame, Zenon DEF BgManual
<1>26. CASE BgPick
  BY <1>0, <1>26, QueueFrame, Zenon DEF BgPick
<1>27. CASE BgBuilt
  BY <1>0, <1>27, QueueFrame, Zenon DEF BgBuilt
<1>28. CASE BgFlushed
  BY <1>0, <1>28, QueueFrame, Zenon DEF BgFlushed
<1>29. CASE BgCompactFlush
  BY <1>0, <1>29, QueueFrame, Zenon DEF BgCompactFlush
<1>30. CASE BgCompactEnd
  BY <1>0, <1>30, QueueFrame, Zenon DEF BgCompactEnd
<1>31. CASE BgCompactFinish
  BY <1>0, <1>31, QueueFrame, Zenon DEF BgCompactFinish
<1>32. CASE BgInstall
  BY <1>0, <1>32, QueueFrame, Zenon DEF BgInstall
<1>33. CASE BgEpilogue
  BY <1>0, <1>33, QueueFrame DEF BgEpilogue, Locals
<1>34. CASE BgTail
  BY <1>0, <1>34, QueueFrame, Zenon DEF BgTail
<1>35. CASE UNCHANGED vars
  BY <1>0, <1>35, QueueFrame, Zenon DEF vars
<1> QED
  BY <1>1, <1>2, <1>3, <1>4, <1>5, <1>6, <1>7, <1>8, <1>9, <1>10, <1>11, <1>12,
     <1>13, <1>14, <1>15, <1>16, <1>17, <1>18, <1>19, <1>20, <1>21, <1>22,
     <1>23, <1>24, <1>25, <1>26, <1>27, <1>28, <1>29, <1>30, <1>31, <1>32,
     <1>33, <1>34, <1>35, Zenon
  DEF Next, Environment, ClientStep, Background, Closed

(* Level 0 keeps the inputs of the compaction that is running: until it is *)
(* installed, only flushes change level 0.                                 *)
LEMMA InputsNext ==
  ASSUME TInv, [Next]_vars
  PROVE  InputsInv'
<1> USE DEF bgVars
<1>0. InputsInv /\ bg \in Bgs /\ l0 \in Nat
  BY Zenon DEF TInv, TypeOK
<1>1. CASE UNCHANGED <<bg, l0>>
  BY <1>0, <1>1, Zenon DEF InputsInv
<1>2. CASE BgSkip
  BY <1>0, <1>2, Zenon DEF InputsInv, Bgs, BgSkip, BgGoto, BgAt, BgWork
<1>3. CASE BgFlush
  BY <1>0, <1>3, Zenon DEF InputsInv, Bgs, BgFlush, BgGoto, BgAt, BgWork
<1>4. CASE BgManual
  <2>1. /\ l0' = l0
        /\ \/ bg' = [bg EXCEPT !.pc = "tail"]
           \/ \E n \in 0..l0 :
                bg' = [bg EXCEPT !.pc = "compact", !.manual = TRUE, !.inputs = n]
    BY <1>4, Zenon DEF BgManual, BgGoto
  <2>2. bg'.pc = "tail" \/ bg'.inputs \in 0..l0
    BY <1>0, <2>1, Zenon DEF Bgs
  <2>3. l0' = l0
    BY <2>1, Zenon
  <2> QED
    BY <1>0, <2>2, <2>3 DEF InputsInv
<1>5. CASE BgPick
  <2>1. /\ l0' = l0
        /\ \/ bg' = [bg EXCEPT !.pc = "tail"]
           \/ \E n \in 0..l0, label \in {"compact", "install"} :
                bg' = [bg EXCEPT !.pc = label, !.inputs = n]
    BY <1>5, Zenon DEF BgPick, BgGoto, PickedInputs
  <2>2. bg'.pc = "tail" \/ bg'.inputs \in 0..l0
    BY <1>0, <2>1, Zenon DEF Bgs
  <2>3. l0' = l0
    BY <2>1, Zenon
  <2> QED
    BY <1>0, <2>2, <2>3 DEF InputsInv
<1>6. CASE BgBuilt
  BY <1>0, <1>6, Zenon
     DEF InputsInv, Bgs, BgBuilt, FlushReturn, BgGoto, BgAt, BgWork
<1>7. CASE BgFlushed
  BY <1>0, <1>7 DEF InputsInv, Bgs, BgFlushed, FlushReturn, BgGoto, BgAt, BgWork
<1>8. CASE BgCompactFlush
  BY <1>0, <1>8, Zenon DEF InputsInv, Bgs, BgCompactFlush, BgGoto, BgAt, BgWork
<1>9. CASE BgCompactEnd
  BY <1>0, <1>9, Zenon DEF InputsInv, Bgs, BgCompactEnd, BgGoto, BgAt, BgWork
<1>10. CASE BgCompactFinish
  BY <1>0, <1>10, Zenon DEF InputsInv, Bgs, BgCompactFinish, BgGoto, BgAt, BgWork
<1>11. CASE BgInstall
  BY <1>0, <1>11, Zenon DEF InputsInv, Bgs, BgInstall, BgGoto, BgAt, BgWork
<1>12. CASE BgEpilogue
  BY <1>0, <1>12, Zenon DEF InputsInv, Bgs, BgEpilogue, BgGoto, BgAt, BgWork
<1>13. CASE BgTail
  BY <1>0, <1>13 DEF InputsInv, Bgs, BgTail, NoBg, BgGoto, BgAt, BgWork
<1>14. ASSUME NEW c \in Clients, ClientStep(c) PROVE UNCHANGED <<bg, l0>>
  BY <1>14, Zenon
     DEF ClientStep, RoomError, RoomDelay, DelayOver, RoomWait, RoomWake,
     RoomSwitch, RoomBuild, AddRecord, SyncLog, InsertInto, Relock, Pop, Wake,
     CompactMemTableWait, ManualWait, ManualReturn, CloseWait
<1>15. CASE Environment
  BY <1>15, <1>1, Zenon DEF Environment, Write, CompactRange, Enqueue, Close,
     SpuriousWakeup, ReadSample
<1>16. CASE UNCHANGED vars
  BY <1>16, <1>1, Zenon DEF vars
<1> QED
  BY <1>1, <1>2, <1>3, <1>4, <1>5, <1>6, <1>7, <1>8, <1>9, <1>10, <1>11, <1>12,
     <1>13, <1>14, <1>15, <1>16, Zenon DEF Next, Background, Closed

-----------------------------------------------------------------------------
(* Waiting for the background thread, and snapshots.                       *)

(* Whenever there is background work to do and it may be done, the         *)
(* background thread is scheduled; it is while it works; and a DB that is  *)
(* being closed has no other call under way.                               *)
SchedInv ==
  /\ shut => \A c \in Clients : pc[c] \in {"idle", "closing", "closed"}
  /\ ~shut /\ ~bgError /\ (hasImm \/ manual # Free \/ NeedsCompaction(l0, deep, seek))
       => bgScheduled
  /\ bg.pc # "idle" => bgScheduled
  /\ NoOrphanWaiter

(* The entries that a leader has still to insert are not visible yet, and  *)
(* there is nothing in imm_ when it is NULL.                               *)
SnapInv ==
  /\ ~hasImm => imm = {}
  /\ \A c \in Clients : pc[c] \in {"append", "sync", "insert"} =>
       \A e \in loc[c].upd : e.seq > lastSeq

(* Every step keeps SchedInv.                                              *)
LEMMA SchedNext ==
  ASSUME TypeOK, SchedInv, [Next]_vars
  PROVE  SchedInv'
<1> USE DEF queueVars, logVars, memVars, bgVars, ctlVars, histVars, Goto, Acquire,
            AcquireRelease, Holds, Release, BgAt, BgGoto, NoBackgroundError,
            RecordBackgroundError, SchedInv, NoOrphanWaiter
<1>0. pc \in [Clients -> PCs] /\ l0 \in Nat /\ bg \in Bgs /\ bgCv \subseteq Clients
  BY Zenon DEF TypeOK
<1>1. ASSUME NEW c \in Clients, Write(c) PROVE SchedInv'
  BY <1>0, <1>1 DEF Write, Enqueue
<1>2. ASSUME NEW c \in Clients, CompactRange(c) PROVE SchedInv'
  BY <1>0, <1>2 DEF CompactRange, Enqueue
<1>3. ASSUME NEW c \in Clients, Close(c) PROVE SchedInv'
  BY <1>0, <1>3, Zenon DEF Close
<1>4. ASSUME NEW c \in Clients, SpuriousWakeup(c) PROVE SchedInv'
  BY <1>0, <1>4, Zenon DEF SpuriousWakeup
<1>5. ASSUME NEW c \in Clients, RoomError(c) PROVE SchedInv'
  BY <1>0, <1>5, Zenon DEF RoomError, InRoom, LeaveRoom
<1>6. ASSUME NEW c \in Clients, RoomDelay(c) PROVE SchedInv'
  BY <1>0, <1>6, Zenon DEF RoomDelay, InRoom, LeaveRoom
<1>7. ASSUME NEW c \in Clients, DelayOver(c) PROVE SchedInv'
  BY <1>0, <1>7, Zenon DEF DelayOver
<1>8. ASSUME NEW c \in Clients, RoomWait(c) PROVE SchedInv'
  BY <1>0, <1>8, StopAssumption, BoundAssumption, ThreadAssumption DEF RoomWait,
     InRoom, LeaveRoom, NeedsCompaction
<1>9. ASSUME NEW c \in Clients, RoomWake(c) PROVE SchedInv'
  BY <1>0, <1>9, Zenon DEF RoomWake
<1>10. ASSUME NEW c \in Clients, RoomSwitch(c) PROVE SchedInv'
  <2>1. ~shut /\ ~bgError
    BY <1>0, <1>10, Zenon DEF RoomSwitch, InRoom
  <2>2. bgScheduled' \/ UNCHANGED <<hasImm, bgScheduled>>
    BY <1>10, <2>1, Zenon DEF RoomSwitch, Scheduled
  <2>3. UNCHANGED <<shut, bgError, manual, l0, deep, seek, bg, bgCv>>
    BY <1>10, Zenon DEF RoomSwitch
  <2> QED
    BY <2>1, <2>2, <2>3 DEF NeedsCompaction
<1>11. ASSUME NEW c \in Clients, RoomBuild(c) PROVE SchedInv'
  BY <1>0, <1>11, Zenon DEF RoomBuild, InRoom, LeaveRoom
<1>12. ASSUME NEW c \in Clients, AddRecord(c) PROVE SchedInv'
  BY <1>0, <1>12, Zenon DEF AddRecord
<1>13. ASSUME NEW c \in Clients, SyncLog(c) PROVE SchedInv'
  BY <1>0, <1>13, Zenon DEF SyncLog
<1>14. ASSUME NEW c \in Clients, InsertInto(c) PROVE SchedInv'
  BY <1>0, <1>14, Zenon DEF InsertInto
<1>15. ASSUME NEW c \in Clients, Relock(c) PROVE SchedInv'
  BY <1>0, <1>15, Zenon DEF Relock
<1>16. ASSUME NEW c \in Clients, Pop(c) PROVE SchedInv'
  BY <1>0, <1>16, Zenon DEF Pop
<1>17. ASSUME NEW c \in Clients, Wake(c) PROVE SchedInv'
  BY <1>0, <1>17, Zenon DEF Wake
<1>18. ASSUME NEW c \in Clients, CompactMemTableWait(c) PROVE SchedInv'
  BY <1>0, <1>18, Zenon DEF CompactMemTableWait
<1>19. ASSUME NEW c \in Clients, ManualWait(c) PROVE SchedInv'
  BY <1>0, <1>19, StopAssumption, BoundAssumption, ThreadAssumption, Zenon DEF
     ManualWait, Scheduled
<1>20. ASSUME NEW c \in Clients, ManualReturn(c) PROVE SchedInv'
  BY <1>0, <1>20, Zenon DEF ManualReturn
<1>21. ASSUME NEW c \in Clients, CloseWait(c) PROVE SchedInv'
  BY <1>0, <1>21, Zenon DEF CloseWait
<1>22. CASE ReadSample
  BY <1>0, <1>22, Zenon DEF ReadSample, Scheduled, NeedsCompaction
<1>23. CASE BgSkip
  BY <1>0, <1>23, Zenon DEF BgSkip, BgWork, Bgs
<1>24. CASE BgFlush
  BY <1>0, <1>24, Zenon DEF BgFlush, BgWork, Bgs
<1>25. CASE BgManual
  BY <1>0, <1>25, Zenon DEF BgManual, BgWork, Bgs
<1>26. CASE BgPick
  BY <1>0, <1>26, Zenon DEF BgPick, BgWork, Bgs
<1>27. CASE BgBuilt
  BY <1>0, <1>27, Zenon DEF BgBuilt, FlushReturn, BgWork, Bgs
<1>28. CASE BgFlushed
  BY <1>0, <1>28, Zenon DEF BgFlushed, FlushReturn, BgWork, Bgs
<1>29. CASE BgCompactFlush
  BY <1>0, <1>29, Zenon DEF BgCompactFlush, BgWork, Bgs
<1>30. CASE BgCompactEnd
  BY <1>0, <1>30, Zenon DEF BgCompactEnd, BgWork, Bgs
<1>31. CASE BgCompactFinish
  BY <1>0, <1>31, Zenon DEF BgCompactFinish, BgWork, Bgs
<1>32. CASE BgInstall
  BY <1>0, <1>32, Zenon DEF BgInstall, BgWork, Bgs
<1>33. CASE BgEpilogue
  BY <1>0, <1>33, Zenon DEF BgEpilogue, BgWork, Bgs
<1>34. CASE BgTail
  BY <1>0, <1>34, Zenon DEF BgTail, Scheduled, NeedsCompaction, NoBg
<1>35. CASE UNCHANGED vars
  BY <1>0, <1>35, Zenon DEF vars
<1> QED
  BY <1>1, <1>2, <1>3, <1>4, <1>5, <1>6, <1>7, <1>8, <1>9, <1>10, <1>11, <1>12,
     <1>13, <1>14, <1>15, <1>16, <1>17, <1>18, <1>19, <1>20, <1>21, <1>22,
     <1>23, <1>24, <1>25, <1>26, <1>27, <1>28, <1>29, <1>30, <1>31, <1>32,
     <1>33, <1>34, <1>35, Zenon
  DEF Next, Environment, ClientStep, Background, Closed

(* Every step keeps SnapInv; only the leader publishes sequence numbers.   *)
LEMMA SnapNext ==
  ASSUME TInv, SnapInv, [Next]_vars
  PROVE  SnapInv'
<1> USE DEF memVars, Goto, SnapInv
<1>0. /\ Counting /\ TypeOK /\ LeaderIsFront
      /\ pc \in [Clients -> PCs] /\ loc \in [Clients -> Locals]
      /\ manual \in Clients \cup {Free}
  BY Zenon DEF TInv, TypeOK, QueueInv
<1>1. ASSUME NEW c \in Clients, Write(c) PROVE SnapInv'
  BY <1>0, <1>1 DEF Write, Enqueue
<1>2. ASSUME NEW c \in Clients, CompactRange(c) PROVE SnapInv'
  BY <1>0, <1>2 DEF CompactRange, Enqueue
<1>3. ASSUME NEW c \in Clients, Close(c) PROVE SnapInv'
  BY <1>0, <1>3, Zenon DEF Close
<1>4. ASSUME NEW c \in Clients, SpuriousWakeup(c) PROVE SnapInv'
  BY <1>0, <1>4, Zenon DEF SpuriousWakeup
<1>5. ASSUME NEW c \in Clients, RoomError(c) PROVE SnapInv'
  BY <1>0, <1>5, Zenon DEF RoomError, InRoom, LeaveRoom, Locals
<1>6. ASSUME NEW c \in Clients, RoomDelay(c) PROVE SnapInv'
  BY <1>0, <1>6, Zenon DEF RoomDelay, InRoom, LeaveRoom, Locals
<1>7. ASSUME NEW c \in Clients, DelayOver(c) PROVE SnapInv'
  BY <1>0, <1>7, Zenon DEF DelayOver
<1>8. ASSUME NEW c \in Clients, RoomWait(c) PROVE SnapInv'
  BY <1>0, <1>8, Zenon DEF RoomWait, InRoom, LeaveRoom
<1>9. ASSUME NEW c \in Clients, RoomWake(c) PROVE SnapInv'
  BY <1>0, <1>9, Zenon DEF RoomWake
<1>10. ASSUME NEW c \in Clients, RoomSwitch(c) PROVE SnapInv'
  BY <1>0, <1>10, Zenon DEF RoomSwitch, InRoom, LeaveRoom, Locals
<1>11. ASSUME NEW c \in Clients, RoomBuild(c) PROVE SnapInv'
  <2>1. /\ \A d \in Clients \ {c} : pc'[d] = pc[d] /\ pc'[c] \in {"append", "pop"}
        /\ UNCHANGED <<hasImm, imm, lastSeq>>
    BY <1>0, <1>11, Zenon DEF RoomBuild, LeaveRoom
  <2>2. CASE pc'[c] = "pop" /\ loc' = [loc EXCEPT ![c].ok = TRUE]
    <3>1. \A d \in Clients \ {c} : loc'[d] = loc[d]
      BY <1>0, <2>2, Zenon
    <3> QED
      BY <2>1, <2>2, <3>1, Zenon
  <2>3. ASSUME NEW k \in GroupEnds,
               loc' = [loc EXCEPT ![c].group = k, ![c].upd = Updates(k),
                                  ![c].last = lastSeq + Count(k)]
        PROVE  SnapInv'
    <3>1. loc'[c].upd = Updates(k) /\ \A d \in Clients \ {c} : loc'[d] = loc[d]
      BY <1>0, <2>3, Zenon DEF Locals
    <3>2. \A e \in Updates(k) : e.seq > lastSeq
      BY <1>0, UpdatesType, Zenon DEF GroupEnds
    <3> QED
      BY <2>1, <3>1, <3>2, Zenon
  <2> QED
    BY <1>0, <1>11, <2>2, <2>3, Zenon DEF RoomBuild, LeaveRoom
<1>12. ASSUME NEW c \in Clients, AddRecord(c) PROVE SnapInv'
  BY <1>0, <1>12, Zenon DEF AddRecord, Locals
<1>13. ASSUME NEW c \in Clients, SyncLog(c) PROVE SnapInv'
  BY <1>0, <1>13, Zenon DEF SyncLog, Locals
<1>14. ASSUME NEW c \in Clients, InsertInto(c) PROVE SnapInv'
  BY <1>0, <1>14 DEF InsertInto, Locals
<1>15. ASSUME NEW c \in Clients, Relock(c) PROVE SnapInv'
  BY <1>0, <1>15, Zenon DEF Relock, LeaderIsFront, Leading
<1>16. ASSUME NEW c \in Clients, Pop(c) PROVE SnapInv'
  BY <1>0, <1>16, Zenon DEF Pop, Return
<1>17. ASSUME NEW c \in Clients, Wake(c) PROVE SnapInv'
  BY <1>0, <1>17, Zenon DEF Wake, Return
<1>18. ASSUME NEW c \in Clients, CompactMemTableWait(c) PROVE SnapInv'
  BY <1>0, <1>18, Zenon DEF CompactMemTableWait
<1>19. ASSUME NEW c \in Clients, ManualWait(c) PROVE SnapInv'
  BY <1>0, <1>19, Zenon DEF ManualWait
<1>20. ASSUME NEW c \in Clients, ManualReturn(c) PROVE SnapInv'
  BY <1>0, <1>20, Zenon DEF ManualReturn, Locals
<1>21. ASSUME NEW c \in Clients, CloseWait(c) PROVE SnapInv'
  BY <1>0, <1>21, Zenon DEF CloseWait
<1>22. CASE ReadSample
  BY <1>0, <1>22, Zenon DEF ReadSample
<1>23. CASE BgSkip
  BY <1>0, <1>23, Zenon DEF BgSkip
<1>24. CASE BgFlush
  BY <1>0, <1>24, Zenon DEF BgFlush
<1>25. CASE BgManual
  <2>1. /\ manual \in Clients
        /\ \/ loc' = [loc EXCEPT ![manual].done = TRUE]
           \/ loc' = [loc EXCEPT ![manual].passes = loc[manual].passes + 1]
    BY <1>0, <1>25, Zenon DEF BgManual
  <2>2. \A d \in Clients : loc'[d].upd = loc[d].upd
    BY <1>0, <2>1 DEF Locals
  <2> QED
    BY <1>25, <2>2, Zenon DEF BgManual
<1>26. CASE BgPick
  BY <1>0, <1>26, Zenon DEF BgPick
<1>27. CASE BgBuilt
  BY <1>0, <1>27, Zenon DEF BgBuilt
<1>28. CASE BgFlushed
  BY <1>0, <1>28 DEF BgFlushed
<1>29. CASE BgCompactFlush
  BY <1>0, <1>29, Zenon DEF BgCompactFlush
<1>30. CASE BgCompactEnd
  BY <1>0, <1>30, Zenon DEF BgCompactEnd
<1>31. CASE BgCompactFinish
  BY <1>0, <1>31, Zenon DEF BgCompactFinish
<1>32. CASE BgInstall
  BY <1>0, <1>32, Zenon DEF BgInstall
<1>33. CASE BgEpilogue
  BY <1>0, <1>33, Zenon DEF BgEpilogue, Locals
<1>34. CASE BgTail
  BY <1>0, <1>34, Zenon DEF BgTail
<1>35. CASE UNCHANGED vars
  BY <1>0, <1>35, Zenon DEF vars
<1> QED
  BY <1>1, <1>2, <1>3, <1>4, <1>5, <1>6, <1>7, <1>8, <1>9, <1>10, <1>11, <1>12,
     <1>13, <1>14, <1>15, <1>16, <1>17, <1>18, <1>19, <1>20, <1>21, <1>22,
     <1>23, <1>24, <1>25, <1>26, <1>27, <1>28, <1>29, <1>30, <1>31, <1>32,
     <1>33, <1>34, <1>35, Zenon
  DEF Next, Environment, ClientStep, Background, Closed

(* A step does not change what is visible.                                 *)
LEMMA StableNext ==
  ASSUME TInv, SnapInv, [Next]_vars
  PROVE  {e \in Store : e.seq <= lastSeq} = {e \in Store' : e.seq <= lastSeq}
<1> DEFINE Stable == {e \in Store : e.seq <= lastSeq} = {e \in Store' : e.seq <= lastSeq}
<1> USE DEF memVars
<1>1. CASE UNCHANGED <<mem, imm, tables>>
  BY <1>1, Zenon DEF Store
<1>2. ASSUME NEW c \in Clients, RoomSwitch(c) PROVE Stable
  <2>1. \/ UNCHANGED <<mem, imm, tables>>
        \/ imm = {} /\ imm' = mem /\ mem' = {} /\ tables' = tables
    BY <1>2, Zenon DEF RoomSwitch, SnapInv
  <2> QED
    BY <2>1, Zenon DEF Store
<1>3. ASSUME NEW c \in Clients, InsertInto(c) PROVE Stable
  <2>1. CASE UNCHANGED mem
    BY <1>3, <2>1, Zenon DEF InsertInto, Store
  <2>2. CASE \E e \in loc[c].upd : mem' = mem \cup {e}
    <3>1. PICK e \in loc[c].upd : mem' = mem \cup {e}
      BY <2>2, Zenon
    <3>2. e.seq > lastSeq /\ UNCHANGED <<imm, tables>>
      BY <1>3, Zenon DEF InsertInto, SnapInv
    <3>3. e.seq \in Nat /\ lastSeq \in Nat
      BY DEF TInv, TypeOK, Locals, Entries
    <3> QED
      BY <3>1, <3>2, <3>3 DEF Store
  <2> QED
    BY <1>3, <2>1, <2>2, Zenon DEF InsertInto
<1>4. CASE BgFlushed
  <2>1. \/ UNCHANGED <<mem, imm, tables>>
        \/ tables' = tables \cup imm /\ imm' = {} /\ mem' = mem
    BY <1>4, Zenon DEF BgFlushed
  <2> QED
    BY <2>1, Zenon DEF Store
<1>5. ASSUME NEW c \in Clients, ClientStep(c)
      PROVE  RoomSwitch(c) \/ InsertInto(c) \/ UNCHANGED <<mem, imm, tables>>
  BY <1>5, Zenon
     DEF ClientStep, RoomError, RoomDelay, DelayOver, RoomWait, RoomWake,
     RoomBuild, AddRecord, SyncLog, Relock, Pop, Wake, CompactMemTableWait,
     ManualWait, ManualReturn, CloseWait
<1>6. Environment => UNCHANGED <<mem, imm, tables>>
  BY Zenon
     DEF Environment, Write, CompactRange, Enqueue, Close, SpuriousWakeup,
         ReadSample
<1>7. Background => BgFlushed \/ UNCHANGED <<mem, imm, tables>>
  BY Zenon
     DEF Background, BgSkip, BgFlush, BgManual, BgPick, BgBuilt, BgCompactFlush,
     BgCompactEnd, BgCompactFinish, BgInstall, BgEpilogue, BgTail
<1>8. Closed \/ UNCHANGED vars => UNCHANGED <<mem, imm, tables>>
  BY Zenon DEF Closed, vars
<1> QED
  BY <1>1, <1>2, <1>3, <1>4, <1>5, <1>6, <1>7, <1>8, Zenon DEF Next

-----------------------------------------------------------------------------
(* Signals and durability.  Both need to know who is in the queue: a       *)
(* client at most once, and only while it leads or waits without an        *)
(* answer.  For the second, the promise is followed from the group that    *)
(* the leader formed, through the record it logged and synced, to the      *)
(* status it hands to the group's members.                                 *)

(* Where a client can be: a leader before it has formed its group, with    *)
(* the group to be logged, and with the log behind it; and not in Write.   *)
Before == {"room", "delay", "roomwait"}
Grouped == {"append", "sync"}
After == {"insert", "relock", "pop"}
Outside == {"idle", "cm", "mr", "closing", "closed"}

(* A client is in the queue at most once, and only while it leads or waits *)
(* for an answer; a group is never empty; and nobody is left asleep.       *)
SigInv ==
  /\ \A i, j \in 1..Len(writers) : writers[i] = writers[j] => i = j
  /\ \A i \in 1..Len(writers) :
       \/ pc[writers[i]] \in Leading
       \/ pc[writers[i]] = "wait" /\ res[writers[i]] = "none"
  /\ \A c \in Clients : loc[c].group >= 1
  /\ NoLostSignal

(* The group of a leader: alone at first, then led by a sync writer if one *)
(* of its members asked for a sync, and with all its batches.              *)
Formed(c) ==
  /\ pc[c] \in Before => loc[c].group = 1
  /\ pc[c] \in Grouped => \A i \in 1..loc[c].group :
       /\ call[writers[i]].sync => call[c].sync
       /\ call[writers[i]].batch => \E e \in loc[c].upd : e.id = call[writers[i]].id

(* A leader about to sync wrote the last record, to the current log file.  *)
Recorded(c) ==
  pc[c] = "sync" => /\ Len(log) >= 1
                    /\ log[Len(log)].file = logfile
                    /\ log[Len(log)].upd = loc[c].upd

(* A leader whose write went well so far has made its sync writers' durable.*)
Promised(c) ==
  pc[c] \in After /\ loc[c].ok => \A i \in 1..loc[c].group :
    call[writers[i]].batch /\ call[writers[i]].sync => Durable(call[writers[i]].id)

(* So has the leader of a completed writer that has yet to wake up.        *)
Told(c) ==
  pc[c] = "wait" /\ res[c] = "ok" /\ call[c].batch /\ call[c].sync =>
    Durable(call[c].id)

DurInv ==
  /\ durable \subseteq 1..Len(log)
  /\ \A c \in Clients : Formed(c) /\ Recorded(c) /\ Promised(c) /\ Told(c)
  /\ SyncedIsDurable

(* The inductive invariant.                                                *)
AInv == TInv /\ SigInv /\ DurInv

LEMMA AnswersInit == Init => SigInv /\ DurInv
<1> SUFFICES ASSUME Init PROVE SigInv /\ DurInv
  BY Zenon
<1>1. /\ writers = <<>> /\ Len(writers) = 0 /\ log = <<>> /\ durable = {}
      /\ answers = {} /\ \A c \in Clients : pc[c] = "idle" /\ loc[c].group = 1
  BY Zenon DEF Init, NoLoc
<1>2. SigInv
  BY <1>1 DEF SigInv, NoLostSignal
<1>3. DurInv
  BY <1>1, Zenon
     DEF DurInv, Formed, Recorded, Promised, Told, SyncedIsDurable, Before,
              Grouped, After
<1> QED
  BY <1>2, <1>3, Zenon

(* SigInv depends on the queue, its answers and signals, and on who leads  *)
(* or waits.                                                               *)
LEMMA SigFrame ==
  ASSUME AInv, writers' = writers, res' = res, sig \subseteq sig',
         \A d \in Clients : /\ pc'[d] \in Leading <=> pc[d] \in Leading
                            /\ pc'[d] = "wait" <=> pc[d] = "wait"
                            /\ loc'[d].group >= 1
  PROVE  SigInv'
<1>1. SigInv /\ writers \in Seq(Clients)
  BY Zenon DEF AInv, TInv, TypeOK
<1>2. \A i \in 1..Len(writers) : writers[i] \in Clients
  BY <1>1
<1>3. writers # <<>> => Head(writers) = writers[1] /\ 1 \in 1..Len(writers)
  BY <1>1
<1>4. NoLostSignal'
  BY <1>1, <1>2, <1>3, Zenon DEF SigInv, NoLostSignal
<1> QED
  BY <1>1, <1>2, <1>4, Zenon DEF SigInv

(* What is durable stays durable: records and tables are only added.       *)
LEMMA DurableGrows ==
  ASSUME AInv, tables \subseteq tables', durable \subseteq durable',
         log' = log \/ \E r \in Records : log' = Append(log, r)
  PROVE  \A n \in Nat : Durable(n) => Durable(n)'
<1>1. log \in Seq(Records) /\ durable \subseteq 1..Len(log)
  BY Zenon DEF AInv, TInv, TypeOK, DurInv
<1>2. \A i \in 1..Len(log) : log'[i] = log[i]
  BY <1>1
<1> QED
  BY <1>1, <1>2, Zenon DEF Durable

(* A step that adds no record and changes no call, in which each client    *)
(* stays in its part of Write, or fails.                                   *)
LEMMA DurFrame ==
  ASSUME AInv, writers' = writers, call' = call, res' = res, answers' = answers,
         log' = log, durable' = durable, tables \subseteq tables',
         logfile' = logfile \/ \A d \in Clients : pc'[d] # "sync",
         \A d \in Clients :
           /\ loc'[d].group = loc[d].group
           /\ loc'[d].ok = loc[d].ok \/ ~loc'[d].ok
           /\ pc[d] \in Grouped => loc'[d].upd = loc[d].upd
           /\ \/ pc'[d] = pc[d]
              \/ pc[d] \in Before /\ pc'[d] \in Before
              \/ pc[d] \in After /\ pc'[d] \in After
              \/ pc'[d] \in After /\ ~loc'[d].ok
              \/ pc'[d] \in Outside
  PROVE  DurInv'
<1>1. /\ DurInv /\ writers \in Seq(Clients) /\ call \in [Clients -> Calls]
      /\ answers \subseteq Answers /\ SigInv /\ QueueInv
      /\ pc \in [Clients -> PCs] /\ loc \in [Clients -> Locals]
  BY Zenon DEF AInv, TInv, TypeOK
<1>2. \A n \in Nat : Durable(n) => Durable(n)'
  BY DurableGrows, Zenon
<1>3. ASSUME NEW c \in Clients PROVE Formed(c)'
  BY <1>1 DEF DurInv, Formed, Before, Grouped, After, Outside
<1>4. ASSUME NEW c \in Clients PROVE Recorded(c)'
  BY <1>1, Zenon DEF DurInv, Recorded, Before, After, Grouped, Outside
<1>5. ASSUME NEW c \in Clients PROVE Promised(c)'
  <2>1. SUFFICES ASSUME pc'[c] \in After, loc'[c].ok, NEW i \in 1..loc[c].group,
                        call[writers[i]].batch, call[writers[i]].sync
                 PROVE  Durable(call[writers[i]].id)'
    BY Zenon DEF Promised
  <2>2. pc[c] \in After /\ loc[c].ok
    BY <2>1, Zenon DEF After, Before, Outside
  <2>3. Durable(call[writers[i]].id)
    BY <1>1, <2>1, <2>2, Zenon DEF DurInv, Promised
  <2> QED
    BY <2>3, Zenon DEF Durable
<1>6. ASSUME NEW c \in Clients PROVE Told(c)'
  <2>1. pc'[c] = "wait" => pc[c] = "wait"
    BY Zenon DEF After, Before, Outside
  <2> QED
    BY <1>1, <2>1, Zenon DEF DurInv, Told, Durable
<1>7. SyncedIsDurable'
  BY <1>1, Zenon DEF DurInv, SyncedIsDurable, Durable
<1>8. durable' \subseteq 1..Len(log')
  BY <1>1, Zenon DEF DurInv
<1> QED
  BY <1>3, <1>4, <1>5, <1>6, <1>7, <1>8, Zenon DEF DurInv

(* Every position of the queue holds a client, with its call.              *)
LEMMA InQueue ==
  ASSUME AInv
  PROVE  /\ SigInv /\ DurInv /\ QueueInv
         /\ writers \in Seq(Clients) /\ Len(writers) \in Nat
         /\ pc \in [Clients -> PCs] /\ loc \in [Clients -> Locals]
         /\ call \in [Clients -> Calls] /\ log \in Seq(Records)
         /\ res \in [Clients -> {"none", "ok", "err"}] /\ logfile \in Nat
         /\ answers \subseteq Answers /\ sig \subseteq Clients
         /\ \A i \in 1..Len(writers) : writers[i] \in Clients
         /\ \A c \in Clients : loc[c].group \in Nat
         /\ \A c, d \in Clients : pc[c] \in Leading /\ pc[d] \in Leading => c = d
<1>1. /\ SigInv /\ DurInv /\ QueueInv /\ TypeOK
  BY Zenon DEF AInv, TInv
<1>2. /\ writers \in Seq(Clients) /\ loc \in [Clients -> Locals]
      /\ pc \in [Clients -> PCs] /\ call \in [Clients -> Calls] /\ log \in Seq(Records)
      /\ res \in [Clients -> {"none", "ok", "err"}] /\ logfile \in Nat
      /\ answers \subseteq Answers /\ sig \subseteq Clients
  BY <1>1, Zenon DEF TypeOK
<1>3. Len(writers) \in Nat /\ \A i \in 1..Len(writers) : writers[i] \in Clients
  BY <1>2
<1>4. \A c \in Clients : loc[c].group \in Nat
  BY <1>2, Zenon DEF Locals
<1>5. \A c, d \in Clients : pc[c] \in Leading /\ pc[d] \in Leading => c = d
  BY <1>1, Zenon DEF QueueInv, LeaderIsFront
<1> QED
  BY <1>1, <1>2, <1>3, <1>4, <1>5, Zenon

(* A client that a step leaves alone.                                      *)
LEMMA DurStay ==
  ASSUME AInv, NEW d \in Clients, writers' = writers, call' = call, res' = res,
         log' = log, durable' = durable, logfile' = logfile, tables' = tables,
         pc'[d] = pc[d], loc'[d] = loc[d]
  PROVE  Formed(d)' /\ Recorded(d)' /\ Promised(d)' /\ Told(d)'
<1>1. Formed(d) /\ Recorded(d) /\ Promised(d) /\ Told(d)
  BY InQueue, Zenon DEF DurInv
<1>2. Formed(d)'
  BY <1>1, Zenon DEF Formed
<1>3. Recorded(d)'
  BY <1>1, Zenon DEF Recorded
<1>4. Promised(d)'
  BY <1>1, Zenon DEF Promised, Durable
<1>5. Told(d)'
  BY <1>1, Zenon DEF Told, Durable
<1> QED
  BY <1>2, <1>3, <1>4, <1>5, Zenon

(* A new writer joins the queue once, at its end.  If it is the front it   *)
(* leads; otherwise the front is as awake as it was.                       *)
LEMMA SigEnqueue ==
  ASSUME AInv, NEW c \in Clients, NEW batch, NEW sync, NEW n,
         Enqueue(c, batch, sync, n)
  PROVE  SigInv'
<1>1. /\ pc[c] = "idle" /\ writers' = Append(writers, c)
      /\ pc' = [pc EXCEPT ![c] = IF writers = <<>> THEN "room" ELSE "wait"]
      /\ res' = [res EXCEPT ![c] = "none"] /\ sig' = sig
      /\ loc' = [loc EXCEPT ![c] = [NoLoc EXCEPT !.force = ~batch, !.delay = batch,
                                                 !.levels = n]]
  BY Zenon DEF Enqueue, Goto
<1>2. /\ Len(writers') = Len(writers) + 1
      /\ writers'[Len(writers) + 1] = c
      /\ \A i \in 1..Len(writers) : writers'[i] = writers[i]
      /\ writers' # <<>> /\ Head(writers') = writers'[1]
      /\ writers # <<>> => Len(writers) >= 1 /\ Head(writers) = writers[1]
      /\ writers = <<>> => Len(writers) = 0
  BY <1>1, InQueue
<1>3. \A i \in 1..Len(writers) : writers[i] # c
  BY <1>1, InQueue, Zenon DEF SigInv, Leading
<1>4. /\ pc'[c] = IF writers = <<>> THEN "room" ELSE "wait"
      /\ res'[c] = "none" /\ loc'[c].group = 1
      /\ \A d \in Clients \ {c} : pc'[d] = pc[d] /\ res'[d] = res[d] /\ loc'[d] = loc[d]
  BY <1>1, InQueue, Zenon DEF NoLoc
<1>5. \A i \in 1..Len(writers') : i \in 1..Len(writers) \/ i = Len(writers) + 1
  BY <1>2, InQueue
<1>6. \A i, j \in 1..Len(writers') : writers'[i] = writers'[j] => i = j
  BY <1>2, <1>3, <1>5, InQueue DEF SigInv
<1>7. \A i \in 1..Len(writers') :
        \/ pc'[writers'[i]] \in Leading
        \/ pc'[writers'[i]] = "wait" /\ res'[writers'[i]] = "none"
  BY <1>2, <1>3, <1>4, <1>5, InQueue DEF SigInv, Leading
<1>8. \A d \in Clients : loc'[d].group >= 1
  BY <1>4, InQueue DEF SigInv
<1>9. NoLostSignal'
  <2>1. CASE writers = <<>>
    <3>1. Head(writers') = c /\ pc'[c] \in Leading
      BY <1>2, <1>4, <2>1 DEF Leading
    <3> QED
      BY <1>1, <1>4, <3>1, InQueue, Zenon DEF SigInv, NoLostSignal, Leading
  <2>2. CASE writers # <<>>
    <3>1. Head(writers') = Head(writers) /\ Head(writers) \in Clients \ {c}
      BY <1>2, <1>3, <2>2, InQueue
    <3> QED
      BY <1>1, <1>4, <2>2, <3>1, InQueue, Zenon DEF SigInv, NoLostSignal
  <2> QED
    BY <2>1, <2>2, Zenon
<1> QED
  BY <1>6, <1>7, <1>8, <1>9, Zenon DEF SigInv

(* The new writer is in nobody's group.                                    *)
LEMMA DurEnqueue ==
  ASSUME AInv, NEW c \in Clients, NEW batch, NEW sync, NEW n,
         Enqueue(c, batch, sync, n)
  PROVE  DurInv'
<1>1. /\ pc[c] = "idle" /\ writers' = Append(writers, c)
      /\ pc' = [pc EXCEPT ![c] = IF writers = <<>> THEN "room" ELSE "wait"]
      /\ res' = [res EXCEPT ![c] = "none"] /\ answers' = answers
      /\ call' = [call EXCEPT ![c] = [batch |-> batch, sync |-> sync,
                                      id |-> issued + 1, after |-> lastSeq]]
      /\ loc' = [loc EXCEPT ![c] = [NoLoc EXCEPT !.force = ~batch, !.delay = batch,
                                                 !.levels = n]]
      /\ log' = log /\ durable' = durable /\ logfile' = logfile /\ tables' = tables
  BY Zenon DEF Enqueue, Goto, logVars, memVars
<1>2. \A i \in 1..Len(writers) :
        writers'[i] = writers[i] /\ call'[writers'[i]] = call[writers[i]]
  <2>1. \A i \in 1..Len(writers) : writers[i] # c
    BY <1>1, InQueue, Zenon DEF SigInv, Leading
  <2>2. \A i \in 1..Len(writers) : writers'[i] = writers[i]
    BY <1>1, InQueue
  <2>3. \A d \in Clients \ {c} : call'[d] = call[d]
    BY <1>1, InQueue, Zenon
  <2> QED
    BY <2>1, <2>2, <2>3, InQueue, Zenon
<1>3. \A d \in Clients \ {c} : /\ pc'[d] = pc[d] /\ res'[d] = res[d]
                              /\ loc'[d] = loc[d] /\ call'[d] = call[d]
  BY <1>1, InQueue, Zenon
<1>4. /\ pc'[c] \in {"room", "wait"} /\ res'[c] = "none" /\ loc'[c].group = 1
  BY <1>1, InQueue, Zenon DEF NoLoc
<1>5. \A d \in Clients : pc[d] \in Leading =>
        \A i \in 1..loc[d].group : i \in 1..Len(writers)
  BY InQueue DEF QueueInv
<1>6. ASSUME NEW d \in Clients \ {c}
      PROVE  Formed(d)' /\ Recorded(d)' /\ Promised(d)' /\ Told(d)'
  <2>1. Formed(d) /\ Recorded(d) /\ Promised(d) /\ Told(d)
    BY InQueue, Zenon DEF DurInv
  <2>2. Formed(d)'
    BY <1>2, <1>3, <1>5, <2>1 DEF Formed, Leading, Grouped
  <2>3. Recorded(d)'
    BY <1>1, <1>3, <2>1, Zenon DEF Recorded
  <2>4. Promised(d)'
    BY <1>1, <1>2, <1>3, <1>5, <2>1 DEF Promised, Leading, After, Durable
  <2>5. Told(d)'
    BY <1>1, <1>3, <2>1, ZenonT(30) DEF Told, Durable
  <2> QED
    BY <2>2, <2>3, <2>4, <2>5, Zenon
<1>7. Formed(c)' /\ Recorded(c)' /\ Promised(c)' /\ Told(c)'
  BY <1>4, Zenon DEF Formed, Recorded, Promised, Told, Grouped, After
<1>8. SyncedIsDurable' /\ durable' \subseteq 1..Len(log')
  BY <1>1, InQueue, Zenon DEF DurInv, SyncedIsDurable, Durable
<1> QED
  BY <1>6, <1>7, <1>8, Zenon DEF DurInv

(* The leader forms its group at the front of the queue: a leader that     *)
(* does not sync takes no sync writer along, and every batch of the group  *)
(* is among the updates.  A NULL batch has nothing to make durable.        *)
LEMMA DurBuild ==
  ASSUME AInv, NEW c \in Clients, RoomBuild(c)
  PROVE  SigInv' /\ DurInv'
<1>1. /\ pc[c] = "room" /\ writers' = writers /\ res' = res /\ sig' = sig
      /\ call' = call /\ answers' = answers /\ log' = log /\ durable' = durable
      /\ logfile' = logfile /\ tables' = tables
  BY Zenon DEF RoomBuild, InRoom, queueVars, logVars, memVars, histVars
<1>2. writers[1] = c /\ loc[c].group = 1
  BY <1>1, InQueue, Zenon
     DEF QueueInv, LeaderIsFront, Leading, DurInv, Formed, Before
<1>3. CASE call[c].batch
  <2>1. PICK k \in GroupEnds :
          loc' = [loc EXCEPT ![c].group = k, ![c].upd = Updates(k),
                             ![c].last = lastSeq + Count(k)]
    BY <1>3, Zenon DEF RoomBuild
  <2>2. pc' = [pc EXCEPT ![c] = "append"]
    BY <1>3, Zenon DEF RoomBuild, Goto
  <2>3. /\ loc'[c].group = k /\ loc'[c].upd = Updates(k)
        /\ \A d \in Clients \ {c} : loc'[d] = loc[d] /\ pc'[d] = pc[d]
        /\ pc'[c] = "append"
    BY <2>1, <2>2, InQueue, Zenon DEF Locals
  <2>4. k \in 1..Len(writers) /\ \A j \in 2..k : call[writers[j]].sync => call[c].sync
    BY <1>2, Zenon DEF GroupEnds
  <2>5. \A i \in 1..k : call[writers[i]].sync => call[c].sync
    BY <1>2, <2>4, InQueue
  <2>6. \A i \in 1..k : call[writers[i]].batch =>
          \E e \in Updates(k) : e.id = call[writers[i]].id
    <3>1. SUFFICES ASSUME NEW i \in 1..k, call[writers[i]].batch
                   PROVE  \E e \in Updates(k) : e.id = call[writers[i]].id
      BY Zenon
    <3>2. i \in {j \in 1..k : call[writers[j]].batch}
      BY <3>1, Zenon
    <3>3. [seq |-> lastSeq + Count(i), id |-> call[writers[i]].id] \in Updates(k)
      BY <3>2, Zenon DEF Updates
    <3> QED
      BY <3>3, Zenon
  <2>7. Formed(c)'
    BY <1>1, <2>3, <2>5, <2>6, Zenon DEF Formed, Before
  <2>8. Recorded(c)' /\ Promised(c)' /\ Told(c)'
    BY <2>3, Zenon DEF Recorded, Promised, Told, After
  <2>9. ASSUME NEW d \in Clients \ {c}
        PROVE  Formed(d)' /\ Recorded(d)' /\ Promised(d)' /\ Told(d)'
    BY <1>1, <2>3, DurStay, Zenon
  <2>10. SyncedIsDurable' /\ durable' \subseteq 1..Len(log')
    BY <1>1, InQueue, Zenon DEF DurInv, SyncedIsDurable, Durable
  <2>11. \A d \in Clients : /\ pc'[d] \in Leading <=> pc[d] \in Leading
                            /\ pc'[d] = "wait" <=> pc[d] = "wait"
                            /\ loc'[d].group >= 1
    BY <1>1, <2>3, <2>4, InQueue DEF SigInv, Leading
  <2> QED
    BY <1>1, <2>7, <2>8, <2>9, <2>10, <2>11, SigFrame, Zenon DEF DurInv
<1>4. CASE ~call[c].batch
  <2>1. pc' = [pc EXCEPT ![c] = "pop"] /\ loc' = [loc EXCEPT ![c].ok = TRUE]
    BY <1>4, Zenon DEF RoomBuild, LeaveRoom, Goto
  <2>2. /\ pc'[c] = "pop" /\ loc'[c].group = 1
        /\ \A d \in Clients \ {c} : loc'[d] = loc[d] /\ pc'[d] = pc[d]
    BY <1>2, <2>1, InQueue, Zenon DEF Locals
  <2>3. Promised(c)'
    BY <1>1, <1>2, <1>4, <2>2 DEF Promised
  <2>4. Formed(c)' /\ Recorded(c)' /\ Told(c)'
    BY <2>2, Zenon DEF Formed, Recorded, Told, Before, Grouped
  <2>5. ASSUME NEW d \in Clients \ {c}
        PROVE  Formed(d)' /\ Recorded(d)' /\ Promised(d)' /\ Told(d)'
    BY <1>1, <2>2, DurStay, Zenon
  <2>6. SyncedIsDurable' /\ durable' \subseteq 1..Len(log')
    BY <1>1, InQueue, Zenon DEF DurInv, SyncedIsDurable, Durable
  <2>7. \A d \in Clients : /\ pc'[d] \in Leading <=> pc[d] \in Leading
                           /\ pc'[d] = "wait" <=> pc[d] = "wait"
                           /\ loc'[d].group >= 1
    BY <1>1, <2>2, InQueue DEF SigInv, Leading
  <2> QED
    BY <1>1, <2>3, <2>4, <2>5, <2>6, <2>7, SigFrame, Zenon DEF DurInv
<1> QED
  BY <1>3, <1>4, Zenon

(* The leader's record is the last one of the log.  A leader that does not *)
(* sync goes on at once: no member of its group asked for a sync.          *)
LEMMA DurAddRecord ==
  ASSUME AInv, NEW c \in Clients, AddRecord(c)
  PROVE  DurInv'
<1>1. /\ pc[c] = "append" /\ writers' = writers /\ res' = res /\ call' = call
      /\ answers' = answers /\ durable' = durable /\ logfile' = logfile
      /\ tables' = tables
  BY Zenon DEF AddRecord, queueVars, memVars, histVars
<1>2. GroupRecord(c) \in Records /\ log' \in {log, Append(log, GroupRecord(c))}
  <2>1. loc[c].upd \in SUBSET Entries
    BY InQueue, Zenon DEF Locals
  <2> QED
    BY <2>1, InQueue, Zenon DEF GroupRecord, Records, AddRecord
<1>3. \A n \in Nat : Durable(n) => Durable(n)'
  BY <1>1, <1>2, DurableGrows, Zenon
<1>4. /\ \A d \in Clients \ {c} : pc'[d] = pc[d] /\ loc'[d] = loc[d] /\ pc[d] \notin Leading
      /\ loc'[c].group = loc[c].group /\ loc'[c].upd = loc[c].upd
      /\ \/ pc'[c] = "sync" /\ log' = Append(log, GroupRecord(c))
         \/ pc'[c] = "insert" /\ ~call[c].sync
         \/ pc'[c] = "relock" /\ ~loc'[c].ok
  <2>1. \A d \in Clients \ {c} : pc[d] \notin Leading
    BY <1>1, InQueue, Zenon DEF Leading
  <2>2. CASE /\ log' = Append(log, GroupRecord(c)) /\ loc' = loc
             /\ pc' = [pc EXCEPT ![c] = IF call[c].sync THEN "sync" ELSE "insert"]
    BY <2>1, <2>2, InQueue, Zenon
  <2>3. CASE pc' = [pc EXCEPT ![c] = "relock"] /\ loc' = [loc EXCEPT ![c].ok = FALSE]
    BY <2>1, <2>3, InQueue, ZenonT(30) DEF Locals
  <2> QED
    BY <2>2, <2>3, Zenon DEF AddRecord, Goto
<1>5. Formed(c) /\ loc[c].group <= Len(writers)
  BY <1>1, InQueue, Zenon DEF DurInv, QueueInv, Leading
<1>6. Formed(c)'
  BY <1>1, <1>4, <1>5, Zenon DEF Formed, Grouped, Before
<1>7. Recorded(c)'
  <2>1. SUFFICES ASSUME pc'[c] = "sync" PROVE Recorded(c)'
    BY Zenon DEF Recorded
  <2>2. log' = Append(log, GroupRecord(c))
    BY <1>4, <2>1, Zenon
  <2>3. Len(log') = Len(log) + 1 /\ Len(log) \in Nat /\ log'[Len(log')] = GroupRecord(c)
    BY <1>2, <2>2, InQueue
  <2> QED
    BY <1>1, <1>4, <2>3 DEF Recorded, GroupRecord
<1>8. Promised(c)'
  BY <1>1, <1>4, <1>5, Zenon DEF Promised, Formed, Grouped, After
<1>9. Told(c)'
  BY <1>4, Zenon DEF Told
<1>10. ASSUME NEW d \in Clients \ {c}
       PROVE  Formed(d)' /\ Recorded(d)' /\ Promised(d)' /\ Told(d)'
  <2>1. Formed(d)' /\ Recorded(d)' /\ Promised(d)'
    BY <1>4, Zenon DEF Formed, Recorded, Promised, Leading, Before, Grouped, After
  <2>2. Told(d) /\ call[d].id \in Nat
    BY InQueue, Zenon DEF DurInv, Calls
  <2>3. Told(d)'
    BY <1>1, <1>3, <1>4, <2>2 DEF Told, Durable
  <2> QED
    BY <2>1, <2>3, Zenon
<1>11. SyncedIsDurable'
  BY <1>1, <1>3, InQueue, Zenon DEF DurInv, SyncedIsDurable, Answers, Durable
<1>12. durable' \subseteq 1..Len(log')
  BY <1>1, <1>2, InQueue DEF DurInv
<1> QED
  BY <1>6, <1>7, <1>8, <1>9, <1>10, <1>11, <1>12, Zenon DEF DurInv

(* A sync covers the leader's record, and with it the whole group.         *)
LEMMA DurSyncLog ==
  ASSUME AInv, NEW c \in Clients, SyncLog(c)
  PROVE  DurInv'
<1>1. /\ pc[c] = "sync" /\ writers' = writers /\ res' = res /\ call' = call
      /\ answers' = answers /\ log' = log /\ logfile' = logfile
      /\ tables' = tables
  BY Zenon DEF SyncLog, queueVars, memVars, histVars
<1>2. CASE /\ durable' = durable \cup {i \in 1..Len(log) : log[i].file = logfile}
           /\ pc' = [pc EXCEPT ![c] = "insert"] /\ loc' = loc
  <2>1. \A n \in Nat : Durable(n) => Durable(n)'
    BY <1>1, <1>2, DurableGrows, Zenon
  <2>2. /\ \A d \in Clients \ {c} : pc'[d] = pc[d] /\ pc[d] \notin Leading
        /\ pc'[c] = "insert"
    BY <1>1, <1>2, InQueue, Zenon DEF Leading
  <2>3. Len(log) \in durable' /\ log[Len(log)].upd = loc[c].upd
    BY <1>1, <1>2, InQueue DEF DurInv, Recorded
  <2>4. \A i \in 1..loc[c].group :
          call[writers[i]].batch => \E e \in loc[c].upd : e.id = call[writers[i]].id
    BY <1>1, InQueue, Zenon DEF DurInv, Formed, Grouped
  <2>5. Promised(c)'
    BY <1>1, <1>2, <2>3, <2>4, Zenon DEF Promised, Durable
  <2>6. Formed(c)' /\ Recorded(c)' /\ Told(c)'
    BY <2>2, Zenon DEF Formed, Recorded, Told, Before, Grouped
  <2>7. ASSUME NEW d \in Clients \ {c}
        PROVE  Formed(d)' /\ Recorded(d)' /\ Promised(d)' /\ Told(d)'
    <3>1. Formed(d)' /\ Recorded(d)' /\ Promised(d)'
      BY <2>2, Zenon DEF Formed, Recorded, Promised, Leading, Before, Grouped, After
    <3>2. Told(d) /\ call[d].id \in Nat
      BY InQueue, Zenon DEF DurInv, Calls
    <3>3. Told(d)'
      BY <1>1, <2>1, <2>2, <3>2 DEF Told, Durable
    <3> QED
      BY <3>1, <3>3, Zenon
  <2>8. SyncedIsDurable'
    BY <1>1, <2>1, InQueue, Zenon DEF DurInv, SyncedIsDurable, Answers, Durable
  <2>9. durable' \subseteq 1..Len(log')
    BY <1>1, <1>2, InQueue, Zenon DEF DurInv
  <2> QED
    BY <2>5, <2>6, <2>7, <2>8, <2>9, Zenon DEF DurInv
<1>3. CASE /\ pc' = [pc EXCEPT ![c] = "relock"] /\ durable' = durable
           /\ loc' = [loc EXCEPT ![c].ok = FALSE, ![c].syncErr = TRUE]
  <2>1. /\ \A d \in Clients \ {c} : pc'[d] = pc[d] /\ loc'[d] = loc[d]
        /\ pc'[c] = "relock" /\ ~loc'[c].ok
        /\ loc'[c].group = loc[c].group /\ loc'[c].upd = loc[c].upd
    BY <1>3, InQueue, ZenonT(30) DEF Locals
  <2> QED
    BY <1>1, <1>3, <2>1, DurFrame, Zenon DEF After
<1> QED
  BY <1>2, <1>3, Zenon DEF SyncLog, Goto

(* The group leaves the queue with its answers.  The new front is          *)
(* signalled, as is every member; the writers behind the group still wait. *)
LEMMA SigPop ==
  ASSUME AInv, NEW c \in Clients, Pop(c)
  PROVE  SigInv'
<1>1. PICK k \in Nat : k = loc[c].group
  BY InQueue, Zenon
<1>2. /\ pc[c] = "pop" /\ writers[1] = c /\ k >= 1 /\ k <= Len(writers)
  BY <1>1, InQueue, Zenon DEF Pop, QueueInv, LeaderIsFront, Leading, SigInv
<1>3. /\ writers' = SubSeq(writers, k + 1, Len(writers)) /\ loc' = loc
      /\ \A d \in Clients : (\A i \in 2..k : writers[i] # d) => res'[d] = res[d]
      /\ \A i \in 2..k : writers[i] \in sig'
      /\ sig \subseteq sig' /\ (k < Len(writers) => writers[k + 1] \in sig')
      /\ pc' = [pc EXCEPT ![c] = Return(c, loc[c].ok)]
  BY <1>1, Zenon DEF Pop, Goto
<1>4. /\ Len(writers') = Len(writers) - k
      /\ \A i \in 1..Len(writers') : i + k \in 1..Len(writers) /\ writers'[i] = writers[i + k]
  <2>1. CASE k = Len(writers)
    <3>1. writers' = <<>>
      BY <1>3, <2>1, InQueue, SMTT(60)
    <3> QED
      BY <2>1, <3>1, InQueue
  <2>2. CASE k < Len(writers)
    <3>1. writers \in Seq(Clients) /\ Len(writers) \in Nat
      BY InQueue, Zenon
    <3>2. k + 1 \in 1..Len(writers)
      BY <2>2, <3>1
    <3>3. /\ Len(writers') = Len(writers) - (k + 1) + 1
          /\ \A j \in 1..(Len(writers) - (k + 1) + 1) : writers'[j] = writers[(k + 1) + j - 1]
      BY <1>3, <3>1, <3>2
    <3>4. /\ Len(writers) - (k + 1) + 1 = Len(writers) - k
          /\ \A j \in 1..(Len(writers) - k) :
               (k + 1) + j - 1 = j + k /\ j + k \in 1..Len(writers)
      BY <3>1
    <3> QED
      BY <3>3, <3>4, Zenon
  <2>3. Len(writers) \in Nat /\ k <= Len(writers)
    BY <1>2, InQueue, Zenon
  <2>4. k = Len(writers) \/ k < Len(writers)
    BY <2>3
  <2> QED
    BY <2>1, <2>2, <2>4, Zenon
<1>5. /\ \A d \in Clients \ {c} : pc'[d] = pc[d] /\ pc[d] \notin Leading
      /\ pc'[c] \notin Leading \cup {"wait"}
  BY <1>2, <1>3, InQueue, Zenon DEF Return, Leading
<1>6. \A i, j \in 1..Len(writers') : writers'[i] = writers'[j] => i = j
  <2>1. SUFFICES ASSUME NEW i \in 1..Len(writers'), NEW j \in 1..Len(writers'),
                        writers'[i] = writers'[j]
                 PROVE  i = j
    BY Zenon
  <2>2. i + k = j + k
    BY <1>4, <2>1, InQueue DEF SigInv
  <2>3. i \in Int /\ j \in Int
    BY <2>1
  <2> QED
    BY <2>2, <2>3
<1>7. ASSUME NEW i \in 1..Len(writers')
      PROVE  pc'[writers'[i]] = "wait" /\ res'[writers'[i]] = "none"
  <2>1. i + k \in 1..Len(writers) /\ i >= 1 /\ writers'[i] = writers[i + k]
    BY <1>4, InQueue
  <2>2. writers[i + k] \in Clients \ {c}
    BY <1>2, <2>1, InQueue DEF SigInv
  <2>3. pc[writers[i + k]] = "wait" /\ res[writers[i + k]] = "none"
    BY <1>5, <2>1, <2>2, InQueue, Zenon DEF SigInv
  <2>4. \A j \in 2..k : writers[j] # writers[i + k]
    <3>1. \A j \in 2..k : j \in 1..Len(writers) /\ j # i + k
      BY <1>2, <2>1, InQueue
    <3> QED
      BY <2>1, <3>1, InQueue, Zenon DEF SigInv
  <2> QED
    BY <1>3, <1>5, <2>1, <2>2, <2>3, <2>4, Zenon
<1>8. NoLostSignal'
  <2>1. writers' # <<>> => Head(writers') \in sig'
    <3>1. SUFFICES ASSUME writers' # <<>> PROVE Head(writers') \in sig'
      BY Zenon
    <3>2. writers' \in Seq(Clients)
      BY <1>2, <1>3, InQueue
    <3>3. 1 \in 1..Len(writers') /\ Head(writers') = writers'[1]
      BY <3>1, <3>2
    <3>4. k < Len(writers) /\ writers'[1] = writers[k + 1]
      BY <1>1, <1>4, <3>3, InQueue
    <3> QED
      BY <1>3, <3>3, <3>4, Zenon
  <2>2. ASSUME NEW d \in Clients, pc'[d] = "wait", res'[d] # "none" PROVE d \in sig'
    <3>1. d # c /\ pc[d] = "wait"
      BY <1>5, <2>2, Zenon
    <3>2. CASE \E i \in 2..k : writers[i] = d
      BY <1>3, <3>2, Zenon
    <3>3. CASE \A i \in 2..k : writers[i] # d
      <4>1. res[d] # "none"
        BY <1>3, <2>2, <3>3, Zenon
      <4> QED
        BY <1>3, <3>1, <4>1, InQueue, Zenon DEF SigInv, NoLostSignal
    <3> QED
      BY <3>2, <3>3, Zenon
  <2> QED
    BY <2>1, <2>2, Zenon DEF NoLostSignal
<1> QED
  BY <1>3, <1>6, <1>7, <1>8, InQueue, Zenon DEF SigInv

(* The leader's own answer, and the answers it hands out, are true.        *)
LEMMA DurPop ==
  ASSUME AInv, NEW c \in Clients, Pop(c)
  PROVE  DurInv'
<1>1. PICK k \in Nat : k = loc[c].group
  BY InQueue, Zenon
<1>2. /\ pc[c] = "pop" /\ writers[1] = c /\ k >= 1 /\ k <= Len(writers)
  BY <1>1, InQueue, Zenon DEF Pop, QueueInv, LeaderIsFront, Leading, SigInv
<1>3. /\ call' = call /\ log' = log /\ durable' = durable /\ tables' = tables
      /\ pc' = [pc EXCEPT ![c] = Return(c, loc[c].ok)]
      /\ Answered(c, loc[c].ok)
  BY Zenon DEF Pop, Goto, logVars, memVars
<1>4. ASSUME NEW d \in Clients, res'[d] # res[d], res'[d] # "err"
      PROVE  loc[c].ok /\ \E i \in 2..k : writers[i] = d
  <2> DEFINE group == {writers[i] : i \in 2..k}
  <2>1. res' = [w \in Clients |-> IF w \in group
                                  THEN IF loc[c].ok THEN "ok" ELSE "err"
                                  ELSE res[w]]
    BY <1>1, Zenon DEF Pop
  <2>2. \A e \in group : \E i \in 2..k : writers[i] = e
    BY Zenon
  <2> HIDE DEF group
  <2>3. \A e \in Clients : /\ e \notin group => res'[e] = res[e]
                           /\ ~loc[c].ok /\ e \in group => res'[e] = "err"
    BY <2>1, Zenon
  <2>4. d \in group
    BY <1>4, <2>3, Zenon
  <2>5. loc[c].ok
    BY <1>4, <2>3, <2>4, Zenon
  <2> QED
    BY <2>2, <2>4, <2>5, Zenon
<1>5. /\ \A d \in Clients \ {c} : pc'[d] = pc[d] /\ pc[d] \notin Leading
      /\ pc'[c] \in Outside
  BY <1>2, <1>3, InQueue, Zenon DEF Return, Leading, Outside
<1>6. \A d \in Clients : Formed(d)' /\ Recorded(d)' /\ Promised(d)'
  BY <1>5, Zenon
     DEF Formed, Recorded, Promised, Before, Grouped, After, Leading, Outside
<1>7. loc[c].ok => \A i \in 1..k : call[writers[i]].batch /\ call[writers[i]].sync =>
                                    Durable(call[writers[i]].id)
  BY <1>1, <1>2, InQueue, Zenon DEF DurInv, Promised, After
<1>8. ASSUME NEW d \in Clients PROVE Told(d)'
  <2>1. SUFFICES ASSUME pc'[d] = "wait", res'[d] = "ok", call[d].batch, call[d].sync
                 PROVE  Durable(call[d].id)
    BY <1>3, Zenon DEF Told, Durable
  <2>2. pc[d] = "wait"
    BY <1>5, <2>1, Zenon DEF Outside
  <2>3. CASE res'[d] = res[d]
    BY <2>1, <2>2, <2>3, InQueue, Zenon DEF DurInv, Told
  <2>4. CASE loc[c].ok /\ \E i \in 2..k : writers[i] = d
    <3>1. PICK i \in 1..k : writers[i] = d
      BY <2>4
    <3> QED
      BY <1>7, <2>1, <2>4, <3>1, Zenon
  <2> QED
    BY <1>4, <2>1, <2>3, <2>4, Zenon
<1>9. ASSUME NEW a \in answers', a.ok, a.sync PROVE Durable(a.id)
  <2>1. CASE a \in answers
    BY <1>9, <2>1, InQueue, Zenon DEF DurInv, SyncedIsDurable
  <2>2. CASE a \notin answers
    <3>1. call[c].batch /\ a = Answer(c, loc[c].ok)
      BY <1>3, <1>9, <2>2, Zenon DEF Answered
    <3>2. loc[c].ok /\ call[c].sync /\ a.id = call[c].id
      BY <1>9, <3>1, Zenon DEF Answer
    <3>3. 1 \in 1..k
      BY <1>2
    <3> QED
      BY <1>2, <1>7, <3>1, <3>2, <3>3, Zenon
  <2> QED
    BY <2>1, <2>2, Zenon
<1>10. SyncedIsDurable' /\ durable' \subseteq 1..Len(log')
  BY <1>3, <1>9, InQueue, Zenon DEF DurInv, SyncedIsDurable, Durable
<1> QED
  BY <1>6, <1>8, <1>10, Zenon DEF DurInv

(* A writer that wakes up with an answer was in no queue any more; the     *)
(* front leads; any other one was not to be woken.                         *)
LEMMA AnswersWake ==
  ASSUME AInv, NEW c \in Clients, Wake(c)
  PROVE  SigInv' /\ DurInv'
<1>1. /\ pc[c] = "wait" /\ sig' = sig \ {c} /\ writers' = writers /\ call' = call
      /\ res' = res /\ loc' = loc /\ log' = log /\ durable' = durable
      /\ logfile' = logfile /\ tables' = tables
      /\ \A d \in Clients \ {c} : pc'[d] = pc[d]
  BY InQueue, Zenon DEF Wake, Goto, logVars, memVars
<1>2. \/ /\ res[c] # "none" /\ pc'[c] \in Outside /\ Answered(c, res[c] = "ok")
      \/ /\ res[c] = "none" /\ c = Head(writers) /\ pc'[c] = "room" /\ answers' = answers
      \/ /\ res[c] = "none" /\ c # Head(writers) /\ pc'[c] = "wait" /\ answers' = answers
  BY <1>1, InQueue, Zenon DEF Wake, Goto, Return, Outside
<1>3. writers # <<>> => 1 \in 1..Len(writers) /\ Head(writers) = writers[1]
  BY InQueue
<1>4. res[c] # "none" => \A i \in 1..Len(writers) : writers[i] # c
  BY <1>1, InQueue, Zenon DEF SigInv, Leading
<1>5. \A i \in 1..Len(writers) :
        \/ pc'[writers[i]] \in Leading
        \/ pc'[writers[i]] = "wait" /\ res[writers[i]] = "none"
  BY <1>1, <1>2, <1>4, InQueue, Zenon DEF SigInv, Leading
<1>6. writers # <<>> => pc'[Head(writers)] \in Leading \/ Head(writers) \in sig'
  BY <1>1, <1>2, <1>3, <1>4, InQueue, Zenon DEF SigInv, NoLostSignal, Leading
<1>7. \A d \in Clients : pc'[d] = "wait" /\ res[d] # "none" => d \in sig'
  BY <1>1, <1>2, InQueue, Zenon DEF SigInv, NoLostSignal, Outside
<1>8. SigInv'
  BY <1>1, <1>5, <1>6, <1>7, InQueue, Zenon DEF SigInv, NoLostSignal
<1>9. ASSUME NEW d \in Clients \ {c}
      PROVE  Formed(d)' /\ Recorded(d)' /\ Promised(d)' /\ Told(d)'
  BY <1>1, DurStay, Zenon
<1>10. loc[c].group = 1
  BY <1>1, InQueue, Zenon DEF QueueInv
<1>11. Formed(c)' /\ Recorded(c)' /\ Promised(c)' /\ Told(c)'
  BY <1>1, <1>2, <1>10, Zenon
     DEF Formed, Recorded, Promised, Told, Grouped, After, Outside
<1>12. ASSUME NEW a \in answers', a.ok, a.sync PROVE Durable(a.id)
  <2>1. CASE a \in answers
    BY <1>12, <2>1, InQueue, Zenon DEF DurInv, SyncedIsDurable
  <2>2. CASE a \notin answers
    <3>1. call[c].batch /\ a = Answer(c, res[c] = "ok")
      BY <1>2, <1>12, <2>2, Zenon DEF Answered
    <3>2. res[c] = "ok" /\ call[c].sync /\ a.id = call[c].id
      BY <1>12, <3>1, Zenon DEF Answer
    <3> QED
      BY <1>1, <3>1, <3>2, InQueue, Zenon DEF DurInv, Told
  <2> QED
    BY <2>1, <2>2, Zenon
<1>13. SyncedIsDurable' /\ durable' \subseteq 1..Len(log')
  BY <1>1, <1>12, InQueue, Zenon DEF DurInv, SyncedIsDurable, Durable
<1> QED
  BY <1>8, <1>9, <1>11, <1>13, Zenon DEF DurInv

(* What the steps that neither queue, log nor answer have in common.       *)
Quiet ==
  /\ writers' = writers /\ call' = call /\ res' = res /\ sig \subseteq sig'
  /\ answers' = answers /\ log' = log /\ durable' = durable
  /\ tables \subseteq tables'
  /\ logfile' = logfile \/ \A d \in Clients : pc'[d] # "sync"
  /\ \A d \in Clients :
       /\ pc'[d] \in Leading <=> pc[d] \in Leading
       /\ pc'[d] = "wait" <=> pc[d] = "wait"
       /\ loc'[d].group = loc[d].group
       /\ loc'[d].ok = loc[d].ok \/ ~loc'[d].ok
       /\ pc[d] \in Grouped => loc'[d].upd = loc[d].upd
       /\ \/ pc'[d] = pc[d]
          \/ pc[d] \in Before /\ pc'[d] \in Before
          \/ pc[d] \in After /\ pc'[d] \in After
          \/ pc'[d] \in After /\ ~loc'[d].ok
          \/ pc'[d] \in Outside

LEMMA QuietStep ==
  ASSUME AInv, Quiet
  PROVE  SigInv' /\ DurInv'
<1>1. \A d \in Clients : loc'[d].group >= 1
  BY InQueue, Zenon DEF Quiet, SigInv
<1>2. SigInv'
  BY <1>1, SigFrame, Zenon DEF Quiet
<1>3. DurInv'
  BY DurFrame, Zenon DEF Quiet
<1> QED
  BY <1>2, <1>3, Zenon

(* Every step keeps the promise on its way.                                *)
LEMMA AnswersNext ==
  ASSUME AInv, [Next]_vars
  PROVE  SigInv' /\ DurInv'
<1> DEFINE Good == SigInv' /\ DurInv'
<1> USE DEF queueVars, logVars, memVars, histVars, Goto
<1>0. /\ pc \in [Clients -> PCs] /\ loc \in [Clients -> Locals]
      /\ manual \in Clients \cup {Free}
  BY Zenon DEF AInv, TInv, TypeOK
<1>1. ASSUME NEW c \in Clients, Write(c) PROVE Good
  BY <1>1, SigEnqueue, DurEnqueue, Zenon DEF Write
<1>2. ASSUME NEW c \in Clients, CompactRange(c) PROVE Good
  BY <1>2, SigEnqueue, DurEnqueue, Zenon DEF CompactRange
<1>3. ASSUME NEW c \in Clients, RoomBuild(c) PROVE Good
  BY <1>3, DurBuild, Zenon
<1>4. ASSUME NEW c \in Clients, Pop(c) PROVE Good
  BY <1>4, SigPop, DurPop, Zenon
<1>5. ASSUME NEW c \in Clients, Wake(c) PROVE Good
  BY <1>5, AnswersWake, Zenon
<1>6. ASSUME NEW c \in Clients, AddRecord(c) PROVE Good
  <2>1. /\ writers' = writers /\ res' = res /\ sig' = sig
        /\ pc[c] = "append" /\ pc'[c] \in {"sync", "insert", "relock"}
        /\ \A d \in Clients \ {c} : pc'[d] = pc[d]
    BY <1>0, <1>6, Zenon DEF AddRecord
  <2>2. loc' = loc \/ loc' = [loc EXCEPT ![c].ok = FALSE]
    BY <1>6, Zenon DEF AddRecord
  <2>3. \A d \in Clients : loc'[d].group >= 1
    <3>1. \A d \in Clients : loc'[d].group = loc[d].group
      BY <1>0, <2>2 DEF Locals
    <3> QED
      BY <3>1, InQueue, Zenon DEF SigInv
  <2> QED
    BY <1>6, <2>1, <2>3, SigFrame, DurAddRecord, Zenon DEF Leading
<1>7. ASSUME NEW c \in Clients, SyncLog(c) PROVE Good
  <2>1. /\ writers' = writers /\ res' = res /\ sig' = sig
        /\ pc[c] = "sync" /\ pc'[c] \in {"insert", "relock"}
        /\ \A d \in Clients \ {c} : pc'[d] = pc[d]
    BY <1>0, <1>7, Zenon DEF SyncLog
  <2>2. loc' = loc \/ loc' = [loc EXCEPT ![c].ok = FALSE, ![c].syncErr = TRUE]
    BY <1>7, Zenon DEF SyncLog
  <2>3. \A d \in Clients : loc'[d].group >= 1
    <3>1. \A d \in Clients : loc'[d].group = loc[d].group
      BY <1>0, <2>2 DEF Locals
    <3> QED
      BY <3>1, InQueue, Zenon DEF SigInv
  <2> QED
    BY <1>7, <2>1, <2>3, SigFrame, DurSyncLog, Zenon DEF Leading
<1>8. ASSUME NEW c \in Clients, RoomSwitch(c) PROVE Good
  <2>1. /\ pc[c] = "room" /\ writers' = writers /\ call' = call /\ res' = res
        /\ sig' = sig /\ answers' = answers /\ log' = log /\ durable' = durable
        /\ tables' = tables
    BY <1>8, Zenon DEF RoomSwitch, InRoom
  <2>2. \/ pc' = pc /\ loc' = [loc EXCEPT ![c].force = FALSE]
        \/ pc' = [pc EXCEPT ![c] = "pop"] /\ loc' = [loc EXCEPT ![c].ok = FALSE]
    BY <1>8, Zenon DEF RoomSwitch, LeaveRoom
  <2>3. /\ \A d \in Clients \ {c} : pc'[d] = pc[d] /\ loc'[d] = loc[d]
        /\ loc'[c].group = loc[c].group /\ loc'[c].upd = loc[c].upd
        /\ \/ pc'[c] = "room" /\ loc'[c].ok = loc[c].ok
           \/ pc'[c] = "pop" /\ ~loc'[c].ok
    BY <1>0, <2>1, <2>2 DEF Locals
  <2>4. \A d \in Clients \ {c} : pc[d] \notin Leading
    BY <2>1, InQueue, Zenon DEF Leading
  <2>5. \A d \in Clients : pc'[d] # "sync"
    BY <2>3, <2>4, Zenon DEF Leading
  <2>6. Quiet
    BY <2>1, <2>3, <2>5, Zenon DEF Quiet, Leading, Before, After
  <2> QED
    BY <2>6, QuietStep, Zenon
<1>9. ASSUME NEW c \in Clients, RoomError(c) PROVE Good
  <2>1. Quiet
    BY <1>0, <1>9, Zenon
       DEF RoomError, LeaveRoom, InRoom, Quiet, Leading, Before, Grouped, After,
           Outside, Locals
  <2> QED
    BY <2>1, QuietStep, Zenon
<1>10. ASSUME NEW c \in Clients, RoomDelay(c) PROVE Good
  <2>1. Quiet
    BY <1>0, <1>10, Zenon
       DEF RoomDelay, InRoom, Quiet, Leading, Before, Grouped, After, Outside,
           Locals
  <2> QED
    BY <2>1, QuietStep, Zenon
<1>11. ASSUME NEW c \in Clients, DelayOver(c) PROVE Good
  <2>1. Quiet
    BY <1>0, <1>11, Zenon
       DEF DelayOver, Quiet, Leading, Before, Grouped, After, Outside, Locals
  <2> QED
    BY <2>1, QuietStep, Zenon
<1>12. ASSUME NEW c \in Clients, RoomWait(c) PROVE Good
  <2>1. Quiet
    BY <1>0, <1>12, Zenon
       DEF RoomWait, InRoom, Quiet, Leading, Before, Grouped, After, Outside,
           Locals
  <2> QED
    BY <2>1, QuietStep, Zenon
<1>13. ASSUME NEW c \in Clients, RoomWake(c) PROVE Good
  <2>1. Quiet
    BY <1>0, <1>13, Zenon
       DEF RoomWake, Quiet, Leading, Before, Grouped, After, Outside, Locals
  <2> QED
    BY <2>1, QuietStep, Zenon
<1>14. ASSUME NEW c \in Clients, InsertInto(c) PROVE Good
  <2>1. Quiet
    BY <1>0, <1>14
       DEF InsertInto, Quiet, Leading, Before, Grouped, After, Outside, Locals
  <2> QED
    BY <2>1, QuietStep, Zenon
<1>15. ASSUME NEW c \in Clients, Relock(c) PROVE Good
  <2>1. Quiet
    BY <1>0, <1>15, Zenon
       DEF Relock, Quiet, Leading, Before, Grouped, After, Outside, Locals
  <2> QED
    BY <2>1, QuietStep, Zenon
<1>16. ASSUME NEW c \in Clients, CompactMemTableWait(c) PROVE Good
  <2>1. Quiet
    BY <1>0, <1>16, Zenon
       DEF CompactMemTableWait, Quiet, Leading, Before, Grouped, After, Outside,
           Locals
  <2> QED
    BY <2>1, QuietStep, Zenon
<1>17. ASSUME NEW c \in Clients, ManualWait(c) PROVE Good
  <2>1. Quiet
    BY <1>0, <1>17, Zenon
       DEF ManualWait, Quiet, Leading, Before, Grouped, After, Outside, Locals
  <2> QED
    BY <2>1, QuietStep, Zenon
<1>18. ASSUME NEW c \in Clients, ManualReturn(c) PROVE Good
  <2>1. Quiet
    BY <1>0, <1>18, ZenonT(30)
       DEF ManualReturn, Quiet, Leading, Before, Grouped, After, Outside, Locals
  <2> QED
    BY <2>1, QuietStep, Zenon
<1>19. ASSUME NEW c \in Clients, CloseWait(c) PROVE Good
  <2>1. Quiet
    BY <1>0, <1>19, Zenon
       DEF CloseWait, Quiet, Leading, Before, Grouped, After, Outside, Locals
  <2> QED
    BY <2>1, QuietStep, Zenon
<1>20. ASSUME NEW c \in Clients, Close(c) PROVE Good
  <2>1. Quiet
    BY <1>0, <1>20, Zenon
       DEF Close, Quiet, Leading, Before, Grouped, After, Outside, Locals
  <2> QED
    BY <2>1, QuietStep, Zenon
<1>21. ASSUME NEW c \in Clients, SpuriousWakeup(c) PROVE Good
  <2>1. Quiet
    BY <1>0, <1>21, Zenon
       DEF SpuriousWakeup, Quiet, Leading, Before, Grouped, After, Outside, Locals
  <2> QED
    BY <2>1, QuietStep, Zenon
<1>22. CASE ReadSample
  <2>1. Quiet
    BY <1>0, <1>22, Zenon DEF ReadSample, Quiet
  <2> QED
    BY <2>1, QuietStep, Zenon
<1>23. CASE BgSkip
  <2>1. Quiet
    BY <1>0, <1>23, Zenon DEF BgSkip, Quiet
  <2> QED
    BY <2>1, QuietStep, Zenon
<1>24. CASE BgFlush
  <2>1. Quiet
    BY <1>0, <1>24, Zenon DEF BgFlush, Quiet
  <2> QED
    BY <2>1, QuietStep, Zenon
<1>25. CASE BgManual
  <2>1. /\ manual \in Clients
        /\ \/ loc' = [loc EXCEPT ![manual].done = TRUE]
           \/ loc' = [loc EXCEPT ![manual].passes = loc[manual].passes + 1]
    BY <1>0, <1>25, Zenon DEF BgManual
  <2>2. \A d \in Clients : /\ loc'[d].group = loc[d].group /\ loc'[d].ok = loc[d].ok
                           /\ loc'[d].upd = loc[d].upd
    BY <1>0, <2>1 DEF Locals
  <2>3. Quiet
    BY <1>25, <2>2, Zenon DEF BgManual, Quiet
  <2> QED
    BY <2>3, QuietStep, Zenon
<1>26. CASE BgPick
  <2>1. Quiet
    BY <1>0, <1>26, Zenon DEF BgPick, Quiet
  <2> QED
    BY <2>1, QuietStep, Zenon
<1>27. CASE BgBuilt
  <2>1. Quiet
    BY <1>0, <1>27, Zenon DEF BgBuilt, Quiet
  <2> QED
    BY <2>1, QuietStep, Zenon
<1>28. CASE BgFlushed
  <2>1. Quiet
    BY <1>0, <1>28, Zenon DEF BgFlushed, Quiet
  <2> QED
    BY <2>1, QuietStep, Zenon
<1>29. CASE BgCompactFlush
  <2>1. Quiet
    BY <1>0, <1>29, Zenon DEF BgCompactFlush, Quiet
  <2> QED
    BY <2>1, QuietStep, Zenon
<1>30. CASE BgCompactEnd
  <2>1. Quiet
    BY <1>0, <1>30, Zenon DEF BgCompactEnd, Quiet
  <2> QED
    BY <2>1, QuietStep, Zenon
<1>31. CASE BgCompactFinish
  <2>1. Quiet
    BY <1>0, <1>31, Zenon DEF BgCompactFinish, Quiet
  <2> QED
    BY <2>1, QuietStep, Zenon
<1>32. CASE BgInstall
  <2>1. Quiet
    BY <1>0, <1>32, Zenon DEF BgInstall, Quiet
  <2> QED
    BY <2>1, QuietStep, Zenon
<1>33. CASE BgEpilogue
  <2>1. Quiet
    BY <1>0, <1>33 DEF BgEpilogue, Quiet, Locals
  <2> QED
    BY <2>1, QuietStep, Zenon
<1>34. CASE BgTail
  <2>1. Quiet
    BY <1>0, <1>34, Zenon DEF BgTail, Quiet
  <2> QED
    BY <2>1, QuietStep, Zenon
<1>35. CASE UNCHANGED vars
  <2>1. Quiet
    BY <1>35, Zenon DEF vars, Quiet
  <2> QED
    BY <2>1, QuietStep, Zenon
<1> QED
  BY <1>1, <1>2, <1>3, <1>4, <1>5, <1>6, <1>7, <1>8, <1>9, <1>10, <1>11, <1>12,
     <1>13, <1>14, <1>15, <1>16, <1>17, <1>18, <1>19, <1>20, <1>21, <1>22, <1>23,
     <1>24, <1>25, <1>26, <1>27, <1>28, <1>29, <1>30, <1>31, <1>32, <1>33, <1>34,
     <1>35, Zenon
  DEF Next, Environment, ClientStep, Background, Closed

----------------------------------------------------------------------------
(* The answers.  The invariant follows an entry from the call to the       *)
(* answer.  While a writer is queued nothing of it is in the database;     *)
(* once its leader has numbered the group, its entry is in exactly one     *)
(* place, among the leader's updates or in the database; after the leader  *)
(* has published the numbers, it is in the database and visible.           *)

(* A call of Write that has not been answered.                             *)
Active(c) == pc[c] \in Leading \cup {"wait"}

(* The entries S hold one of call n, with a number above lo and up to hi.  *)
Once(n, lo, hi, S) ==
  /\ \E e \in S : e.id = n /\ lo < e.seq /\ e.seq <= hi
  /\ \A e, f \in S : e.id = n /\ f.id = n => e = f

Absent(n) == \A e \in Store : e.id # n

(* Identities are handed out once.                                         *)
IdsInv ==
  /\ \A c \in Clients : call[c].id <= issued /\ call[c].after <= lastSeq
  /\ \A a \in answers : a.id <= issued
  /\ \A e \in Store : e.id <= issued
  /\ \A c, d \in Clients : Active(c) /\ Active(d) /\ call[c].id = call[d].id => c = d
  /\ \A c \in Clients, a \in answers : Active(c) => a.id # call[c].id

(* A queued writer has nothing in the database, unless its leader is at    *)
(* work on the group it is in.                                             *)
Pending(i) ==
  (\A c \in Clients : pc[c] \in After => i > loc[c].group \/ ~loc[c].ok)
    => Absent(call[writers[i]].id)

(* A leader's updates, and its status while nothing has failed.            *)
Numbered(c) ==
  /\ pc[c] \in Before \cup Grouped \cup {"insert", "wait"} => loc[c].ok
  /\ pc[c] \in Before \cup {"wait"} => loc[c].upd = {} /\ loc[c].last <= lastSeq
  /\ pc[c] \in Grouped \cup {"insert", "relock"} => loc[c].last >= lastSeq
  /\ pc[c] \in Grouped \cup After /\ loc[c].ok =>
       /\ \A i \in 1..loc[c].group : call[writers[i]].batch =>
            Once(call[writers[i]].id, call[writers[i]].after, loc[c].last,
                 loc[c].upd \cup Store)
       /\ \A e \in loc[c].upd :
            \E i \in 1..loc[c].group : e.id = call[writers[i]].id
       /\ pc[c] \in {"relock", "pop"} => loc[c].upd = {}
       /\ pc[c] = "pop" => loc[c].last <= lastSeq

(* A writer with its leader's answer, and an answer that was given.        *)
Completed(c) ==
  pc[c] = "wait" /\ call[c].batch =>
    /\ res[c] = "ok" => Once(call[c].id, call[c].after, lastSeq, Store)
    /\ res[c] = "err" => Absent(call[c].id)

Truthful(a) == IF a.ok THEN Once(a.id, a.after, lastSeq, Store) ELSE Absent(a.id)

OnceInv ==
  /\ ~hasImm => imm = {}
  /\ IdsInv
  /\ \A i \in 1..Len(writers) : Pending(i)
  /\ \A c \in Clients : Numbered(c) /\ Completed(c)
  /\ \A a \in answers : Truthful(a)

(* The inductive invariant.                                                *)
OInv == AInv /\ OnceInv

LEMMA OnceInit == Init => OnceInv
<1> SUFFICES ASSUME Init PROVE OnceInv
  BY Zenon
<1>1. /\ Store = {} /\ imm = {} /\ answers = {} /\ issued = 0 /\ lastSeq = 0
      /\ Len(writers) = 0
      /\ \A c \in Clients : pc[c] = "idle" /\ call[c] = NoCall
  BY Zenon DEF Init, Store
<1>2. IdsInv
  BY <1>1 DEF IdsInv, NoCall, Active, Leading
<1>3. \A c \in Clients : Numbered(c) /\ Completed(c)
  BY <1>1, Zenon DEF Numbered, Completed, Before, Grouped, After
<1> QED
  BY <1>1, <1>2, <1>3 DEF OnceInv

(* Types of what the invariant speaks of.                                  *)
LEMMA OnceTypes ==
  ASSUME OInv
  PROVE  /\ AInv /\ OnceInv /\ lastSeq \in Nat /\ issued \in Nat
         /\ Store \subseteq Entries /\ answers \subseteq Answers
         /\ \A c \in Clients : /\ loc[c].upd \subseteq Entries /\ loc[c].last \in Nat
                               /\ loc[c].ok \in BOOLEAN /\ call[c].batch \in BOOLEAN
                               /\ call[c].id \in Nat /\ call[c].after \in Nat
<1>1. AInv /\ OnceInv /\ TypeOK
  BY Zenon DEF OInv, AInv, TInv
<1>2. /\ lastSeq \in Nat /\ issued \in Nat /\ answers \subseteq Answers
      /\ loc \in [Clients -> Locals] /\ call \in [Clients -> Calls]
  BY <1>1, Zenon DEF TypeOK
<1>3. Store \subseteq Entries
  BY <1>1, Zenon DEF TypeOK, Store
<1>4. \A c \in Clients : loc[c] \in Locals /\ call[c] \in Calls
  BY <1>2, Zenon
<1> QED
  BY <1>1, <1>2, <1>3, <1>4, Zenon DEF Locals, Calls

(* A step that neither queues, numbers, inserts, publishes nor answers.    *)
LEMMA OnceFrame ==
  ASSUME OInv, writers' = writers, call' = call, res' = res, answers' = answers,
         issued' \in {issued, issued + 1}, lastSeq' = lastSeq, Store' = Store,
         ~hasImm' => imm' = {},
         \A d \in Clients :
           /\ loc'[d].group = loc[d].group /\ loc'[d].upd = loc[d].upd
           /\ loc'[d].last = loc[d].last
           /\ \/ /\ loc'[d].ok = loc[d].ok
                 /\ \/ pc'[d] = pc[d]
                    \/ pc[d] \in Before /\ pc'[d] \in Before
                    \/ pc[d] \in Grouped /\ pc'[d] \in {"sync", "insert"}
                    \/ pc[d] = "insert" /\ pc'[d] = "relock" /\ loc[d].upd = {}
              \/ pc[d] \in Before /\ pc'[d] = "pop" /\ ~loc'[d].ok
              \/ pc[d] \in Grouped /\ pc'[d] = "relock" /\ ~loc'[d].ok
              \/ pc[d] \in Outside /\ pc'[d] \in Outside
  PROVE  OnceInv'
<1>1. OnceInv /\ AInv
  BY OnceTypes, Zenon
<1>2. \A d \in Clients : (Active(d))' => Active(d)
  BY Zenon DEF Active, Leading, Before, Grouped, Outside
<1>3. IdsInv'
  <2>1. IdsInv /\ \A k \in Nat : k <= issued => k <= issued'
    BY <1>1, OnceTypes DEF OnceInv
  <2>2. /\ \A d \in Clients : call[d].id \in Nat
        /\ \A a \in answers : a.id \in Nat
        /\ \A e \in Store : e.id \in Nat
    BY OnceTypes, Zenon DEF Answers, Entries
  <2>3. /\ \A d \in Clients : call[d].id <= issued'
        /\ \A a \in answers : a.id <= issued'
        /\ \A e \in Store : e.id <= issued'
    BY <2>1, <2>2, Zenon DEF IdsInv
  <2> QED
    BY <1>2, <2>1, <2>3, Zenon DEF IdsInv
<1>4. ASSUME NEW i \in 1..Len(writers) PROVE Pending(i)'
  <2>1. SUFFICES ASSUME \A c \in Clients : pc'[c] \in After =>
                                i > loc[c].group \/ ~loc'[c].ok
                 PROVE  \A e \in Store : e.id # call[writers[i]].id
    BY Zenon DEF Pending, Absent
  <2>2. ASSUME NEW c \in Clients, pc[c] \in After PROVE i > loc[c].group \/ ~loc[c].ok
    <3>1. pc'[c] \in After
      BY <2>2, Zenon DEF After, Before, Grouped, Outside
    <3>2. CASE loc'[c].ok = loc[c].ok
      BY <2>1, <3>1, <3>2, Zenon
    <3>3. CASE loc'[c].ok # loc[c].ok
      BY <2>1, <2>2, <3>3, ZenonT(30) DEF After, Before, Grouped, Outside
    <3> QED
      BY <3>2, <3>3, Zenon
  <2> QED
    BY <1>1, <2>2, Zenon DEF OnceInv, Pending, Absent
<1>5. ASSUME NEW c \in Clients PROVE Numbered(c)'
  <2>1. Numbered(c)
    BY <1>1, Zenon DEF OnceInv
  <2>2. /\ pc'[c] \in Before \cup {"wait"} => pc[c] \in Before \cup {"wait"}
        /\ pc'[c] \in Grouped \cup {"insert", "relock"} =>
             pc[c] \in Grouped \cup {"insert", "relock"}
        /\ pc'[c] \in Grouped \cup After /\ loc'[c].ok =>
             /\ pc[c] \in Grouped \cup After /\ loc[c].ok
             /\ pc'[c] = "pop" => pc[c] = "pop"
             /\ pc'[c] = "relock" => pc[c] = "relock" \/ loc[c].upd = {}
    BY Zenon DEF After, Before, Grouped, Outside
  <2>3. /\ pc'[c] \in Before \cup {"wait"} => loc'[c].upd = {} /\ loc'[c].last <= lastSeq'
        /\ pc'[c] \in Grouped \cup {"insert", "relock"} => loc'[c].last >= lastSeq'
        /\ pc'[c] \in Before \cup Grouped \cup {"insert", "wait"} => loc'[c].ok
    BY <2>1, <2>2, Zenon DEF Numbered, Before, Grouped, After, Outside
  <2>4. SUFFICES ASSUME pc'[c] \in Grouped \cup After, loc'[c].ok
                 PROVE  Numbered(c)'
    BY <2>3, Zenon DEF Numbered
  <2>5. /\ \A i \in 1..loc[c].group : call[writers[i]].batch =>
             Once(call[writers[i]].id, call[writers[i]].after, loc[c].last,
                  loc[c].upd \cup Store)
        /\ \A e \in loc[c].upd : \E i \in 1..loc[c].group : e.id = call[writers[i]].id
        /\ pc'[c] \in {"relock", "pop"} => loc[c].upd = {}
        /\ pc'[c] = "pop" => loc[c].last <= lastSeq
    BY <2>1, <2>2, <2>4, Zenon DEF Numbered
  <2> QED
    BY <2>3, <2>5 DEF Numbered, Once
<1>6. ASSUME NEW c \in Clients PROVE Completed(c)'
  <2>1. Completed(c) /\ (pc'[c] = "wait" => pc[c] = "wait")
    BY <1>1, Zenon DEF OnceInv, After, Before, Grouped, Outside
  <2> QED
    BY <2>1, Zenon DEF Completed, Once, Absent
<1>7. ASSUME NEW a \in answers PROVE Truthful(a)'
  <2>1. Truthful(a)
    BY <1>1, Zenon DEF OnceInv
  <2> QED
    BY <2>1, Zenon DEF Truthful, Once, Absent
<1> QED
  BY <1>3, <1>4, <1>5, <1>6, <1>7, Zenon DEF OnceInv

(* What is in the database stays right when nothing is added and the last  *)
(* sequence number grows.                                                  *)
LEMMA OnceKept ==
  ASSUME OInv, Store' = Store, lastSeq' \in Nat, lastSeq' >= lastSeq
  PROVE  /\ \A a \in answers : Truthful(a)'
         /\ \A d \in Clients :
              pc'[d] = pc[d] /\ res'[d] = res[d] /\ call'[d] = call[d] => Completed(d)'
<1>1. /\ OnceInv /\ lastSeq \in Nat /\ Store \subseteq Entries
  BY OnceTypes, Zenon
<1>2. \A e \in Store : e.seq \in Nat
  BY <1>1, Zenon DEF Entries
<1>3. \A n, lo : Once(n, lo, lastSeq, Store) => Once(n, lo, lastSeq', Store)
  BY <1>1, <1>2 DEF Once
<1>4. ASSUME NEW a \in answers PROVE Truthful(a)'
  <2>1. Truthful(a)
    BY <1>1, Zenon DEF OnceInv
  <2>2. CASE a.ok
    <3>1. Once(a.id, a.after, lastSeq', Store)
      BY <1>3, <2>1, <2>2, Zenon DEF Truthful
    <3> QED
      BY <2>2, <3>1, Zenon DEF Truthful, Once
  <2>3. CASE ~a.ok
    BY <2>1, <2>3, Zenon DEF Truthful, Absent
  <2> QED
    BY <2>2, <2>3, Zenon
<1>5. ASSUME NEW d \in Clients, pc'[d] = pc[d], res'[d] = res[d], call'[d] = call[d]
      PROVE  Completed(d)'
  <2>1. Completed(d)
    BY <1>1, Zenon DEF OnceInv
  <2>2. CASE pc[d] = "wait" /\ call[d].batch /\ res[d] = "ok"
    <3>1. Once(call[d].id, call[d].after, lastSeq', Store)
      BY <1>3, <2>1, <2>2, Zenon DEF Completed
    <3> QED
      BY <1>5, <2>2, <3>1 DEF Completed, Once
  <2>3. CASE ~(pc[d] = "wait" /\ call[d].batch /\ res[d] = "ok")
    BY <1>5, <2>1, <2>3, ZenonT(30) DEF Completed, Absent
  <2> QED
    BY <2>2, <2>3, Zenon
<1> QED
  BY <1>4, <1>5, Zenon

(* A client that does not lead and is left alone.                          *)
LEMMA OnceOthers ==
  ASSUME OInv, NEW d \in Clients, pc[d] \notin Leading, pc'[d] = pc[d],
         loc'[d] = loc[d], lastSeq' \in Nat, lastSeq' >= lastSeq
  PROVE  Numbered(d)'
<1>1. Numbered(d) /\ lastSeq \in Nat /\ loc[d].last \in Nat
  BY OnceTypes, Zenon DEF OnceInv
<1> QED
  BY <1>1 DEF Numbered, Leading, Before, Grouped, After

(* A client left alone by a step that changes nothing its updates depend   *)
(* on.                                                                     *)
LEMMA NumberedSame ==
  ASSUME NEW d \in Clients, Numbered(d), pc'[d] = pc[d], loc'[d] = loc[d],
         writers' = writers, call' = call, lastSeq' = lastSeq, Store' = Store
  PROVE  Numbered(d)'
<1>1. /\ pc'[d] \in Before \cup Grouped \cup {"insert", "wait"} => loc'[d].ok
      /\ pc'[d] \in Before \cup {"wait"} => loc'[d].upd = {} /\ loc'[d].last <= lastSeq'
      /\ pc'[d] \in Grouped \cup {"insert", "relock"} => loc'[d].last >= lastSeq'
  BY Zenon DEF Numbered
<1>2. SUFFICES ASSUME pc[d] \in Grouped \cup After, loc[d].ok PROVE Numbered(d)'
  BY <1>1, Zenon DEF Numbered
<1>3. /\ \A i \in 1..loc[d].group : call[writers[i]].batch =>
           Once(call[writers[i]].id, call[writers[i]].after, loc[d].last,
                loc[d].upd \cup Store)
      /\ \A e \in loc[d].upd : \E i \in 1..loc[d].group : e.id = call[writers[i]].id
      /\ pc[d] \in {"relock", "pop"} => loc[d].upd = {}
      /\ pc[d] = "pop" => loc[d].last <= lastSeq
  BY <1>2, Zenon DEF Numbered
<1>4. /\ \A i \in 1..loc'[d].group : call'[writers'[i]].batch =>
           Once(call'[writers'[i]].id, call'[writers'[i]].after, loc'[d].last,
                loc'[d].upd \cup Store')
      /\ \A e \in loc'[d].upd : \E i \in 1..loc'[d].group : e.id = call'[writers'[i]].id
      /\ pc'[d] \in {"relock", "pop"} => loc'[d].upd = {}
      /\ pc'[d] = "pop" => loc'[d].last <= lastSeq'
  BY <1>3, Zenon
<1> QED
  BY <1>1, <1>4, Zenon DEF Numbered, Once

(* The writers in the queue have calls of their own.                       *)
LEMMA QueueIds ==
  ASSUME OInv
  PROVE  /\ \A i \in 1..Len(writers) : Active(writers[i])
         /\ \A i, j \in 1..Len(writers) :
              call[writers[i]].id = call[writers[j]].id => i = j
<1>1. AInv /\ OnceInv
  BY OnceTypes, Zenon
<1>2. \A i \in 1..Len(writers) : Active(writers[i]) /\ writers[i] \in Clients
  BY <1>1, InQueue, Zenon DEF SigInv, Active
<1>3. ASSUME NEW i \in 1..Len(writers), NEW j \in 1..Len(writers),
             call[writers[i]].id = call[writers[j]].id
      PROVE  i = j
  <2>1. writers[i] = writers[j]
    BY <1>1, <1>2, <1>3, Zenon DEF OnceInv, IdsInv
  <2> QED
    BY <1>1, <2>1, InQueue, Zenon DEF SigInv
<1> QED
  BY <1>2, <1>3, Zenon

(* A group that is being formed has nothing in the database yet; numbered, *)
(* each of its batches is there once.                                      *)
LEMMA UpdatesOnce ==
  ASSUME OInv, NEW k \in 1..Len(writers),
         \A i \in 1..Len(writers) : Absent(call[writers[i]].id)
  PROVE  /\ Count(k) \in Nat
         /\ \A i \in 1..k : call[writers[i]].batch =>
              Once(call[writers[i]].id, call[writers[i]].after, lastSeq + Count(k),
                   Updates(k) \cup Store)
         /\ \A e \in Updates(k) : \E i \in 1..k : e.id = call[writers[i]].id
<1>1. /\ AInv /\ OnceInv /\ Counting /\ TypeOK /\ lastSeq \in Nat
      /\ Len(writers) \in Nat
  BY OnceTypes, InQueue, Zenon DEF OInv, AInv, TInv
<1>2. ASSUME NEW i \in 1..k
      PROVE  /\ i \in 1..Len(writers) /\ Count(i) \in Nat /\ Count(i) <= Count(k)
             /\ call[writers[i]].batch => Count(i) >= 1
  <2>1. i \in 1..Len(writers) /\ k \in Nat /\ i \in Nat
    BY <1>1
  <2> QED
    BY <1>1, <2>1, CountPositive, Zenon
<1>3. Count(k) \in Nat
  BY <1>1, CountPositive, Zenon
<1>4. \A e \in Updates(k) : \E i \in 1..k : e.id = call[writers[i]].id
  BY DEF Updates
<1>5. ASSUME NEW e \in Updates(k), NEW f \in Updates(k), e.id = f.id PROVE e = f
  <2>1. PICK i \in 1..k : e = [seq |-> lastSeq + Count(i), id |-> call[writers[i]].id]
    BY Zenon DEF Updates
  <2>2. PICK j \in 1..k : f = [seq |-> lastSeq + Count(j), id |-> call[writers[j]].id]
    BY Zenon DEF Updates
  <2>3. i \in 1..Len(writers) /\ j \in 1..Len(writers)
    BY <1>2, Zenon
  <2>4. i = j
    BY <1>5, <2>1, <2>2, <2>3, QueueIds, Zenon
  <2> QED
    BY <2>1, <2>2, <2>4, Zenon
<1>6. ASSUME NEW i \in 1..k, call[writers[i]].batch
      PROVE  Once(call[writers[i]].id, call[writers[i]].after, lastSeq + Count(k),
                  Updates(k) \cup Store)
  <2>1. PICK e : e = [seq |-> lastSeq + Count(i), id |-> call[writers[i]].id]
    BY Zenon
  <2>2. e \in Updates(k)
    BY <1>6, <2>1, Zenon DEF Updates
  <2>3. writers[i] \in Clients /\ Absent(call[writers[i]].id)
    BY <1>1, <1>2, InQueue, Zenon
  <2>4. call[writers[i]].after \in Nat /\ call[writers[i]].after <= lastSeq
    BY <1>1, <2>3, OnceTypes, Zenon DEF OnceInv, IdsInv
  <2>5. call[writers[i]].after < e.seq /\ e.seq <= lastSeq + Count(k)
    BY <1>1, <1>2, <1>3, <1>6, <2>1, <2>4
  <2> QED
    BY <1>5, <2>1, <2>2, <2>3, <2>5, Zenon DEF Once, Absent
<1> QED
  BY <1>3, <1>4, <1>6, Zenon

(* The leader numbers its group, or has only a NULL batch to finish.       *)
LEMMA OnceBuild ==
  ASSUME OInv, NEW c \in Clients, RoomBuild(c)
  PROVE  OnceInv'
<1>1. /\ pc[c] = "room" /\ writers' = writers /\ res' = res /\ call' = call
      /\ answers' = answers /\ issued' = issued /\ lastSeq' = lastSeq
      /\ Store' = Store /\ imm' = imm /\ hasImm' = hasImm
  BY Zenon DEF RoomBuild, InRoom, queueVars, memVars, histVars, Store
<1>2. AInv /\ OnceInv /\ lastSeq \in Nat
  BY OnceTypes, Zenon
<1>3. /\ writers[1] = c /\ loc[c].group = 1
      /\ \A d \in Clients \ {c} : pc[d] \notin Leading
      /\ \A d \in Clients : pc[d] \notin After
  BY <1>1, <1>2, InQueue, Zenon
     DEF QueueInv, LeaderIsFront, Leading, DurInv, Formed, Before, After
<1>4. \A i \in 1..Len(writers) : Absent(call[writers[i]].id)
  BY <1>2, <1>3, Zenon DEF OnceInv, Pending
<1>5. pc'[c] \in {"append", "pop"} /\ \A d \in Clients \ {c} : pc'[d] = pc[d] /\ loc'[d] = loc[d]
  <2>1. /\ pc' = [pc EXCEPT ![c] = "append"] \/ pc' = [pc EXCEPT ![c] = "pop"]
    BY Zenon DEF RoomBuild, LeaveRoom, Goto
  <2>2. \/ loc' = [loc EXCEPT ![c].ok = TRUE]
        \/ \E k \in GroupEnds : loc' = [loc EXCEPT ![c].group = k, ![c].upd = Updates(k),
                                                     ![c].last = lastSeq + Count(k)]
    BY Zenon DEF RoomBuild, LeaveRoom
  <2> QED
    BY <1>2, <2>1, <2>2, InQueue, Zenon
<1>6. IdsInv'
  <2>1. \A d \in Clients : (Active(d))' => Active(d)
    BY <1>1, <1>5, Zenon DEF Active, Leading
  <2> QED
    BY <1>1, <1>2, <2>1, Zenon DEF OnceInv, IdsInv
<1>7. \A i \in 1..Len(writers) : Pending(i)'
  BY <1>1, <1>4, Zenon DEF Pending, Absent
<1>8. /\ \A d \in Clients \ {c} : Numbered(d)' /\ Completed(d)'
      /\ \A a \in answers : Truthful(a)'
  <2>1. lastSeq' \in Nat /\ lastSeq' >= lastSeq /\ Store' = Store
    BY <1>1, <1>2, <1>5
  <2>2. /\ \A a \in answers : Truthful(a)'
        /\ \A d \in Clients :
             pc'[d] = pc[d] /\ res'[d] = res[d] /\ call'[d] = call[d] => Completed(d)'
    BY <2>1, OnceKept, Zenon
  <2>3. ASSUME NEW d \in Clients \ {c} PROVE Numbered(d)' /\ Completed(d)'
    <3>1. /\ pc[d] \notin Leading /\ pc'[d] = pc[d] /\ loc'[d] = loc[d]
          /\ res'[d] = res[d] /\ call'[d] = call[d]
      BY <1>1, <1>2, <1>3, <1>5, Zenon
    <3>2. Numbered(d)'
      BY <2>1, <3>1, OnceOthers, Zenon
    <3> QED
      BY <2>2, <3>1, <3>2, Zenon
  <2> QED
    BY <2>2, <2>3, Zenon
<1>9. Completed(c)'
  BY <1>5, Zenon DEF Completed
<1>10. Numbered(c)'
  <2>1. CASE call[c].batch
    <3>1. PICK k \in GroupEnds :
            loc' = [loc EXCEPT ![c].group = k, ![c].upd = Updates(k),
                               ![c].last = lastSeq + Count(k)]
      BY <2>1, Zenon DEF RoomBuild
    <3>2. pc'[c] = "append"
      BY <1>2, <2>1, InQueue, Zenon DEF RoomBuild, Goto
    <3>3. /\ loc'[c].group = k /\ loc'[c].upd = Updates(k)
          /\ loc'[c].last = lastSeq + Count(k) /\ loc'[c].ok = loc[c].ok
      BY <1>2, <3>1, InQueue DEF Locals
    <3>4. k \in 1..Len(writers)
      BY Zenon DEF GroupEnds
    <3>5. /\ Count(k) \in Nat
          /\ \A i \in 1..k : call[writers[i]].batch =>
               Once(call[writers[i]].id, call[writers[i]].after, lastSeq + Count(k),
                    Updates(k) \cup Store)
          /\ \A e \in Updates(k) : \E i \in 1..k : e.id = call[writers[i]].id
      BY <1>4, <3>4, UpdatesOnce, Zenon
    <3>6. lastSeq + Count(k) >= lastSeq
      BY <1>2, <3>5
    <3>7. loc[c].ok
      BY <1>1, <1>2, Zenon DEF OnceInv, Numbered, Before
    <3> QED
      <4>1. /\ loc'[c].ok /\ loc'[c].last >= lastSeq' /\ pc'[c] = "append"
        BY <1>1, <3>2, <3>3, <3>6, <3>7, Zenon
      <4>2. /\ \A i \in 1..loc'[c].group : call'[writers'[i]].batch =>
                 Once(call'[writers'[i]].id, call'[writers'[i]].after, loc'[c].last,
                      loc'[c].upd \cup Store')
            /\ \A e \in loc'[c].upd :
                 \E i \in 1..loc'[c].group : e.id = call'[writers'[i]].id
        BY <1>1, <3>3, <3>5, Zenon
      <4> QED
        BY <4>1, <4>2, Zenon DEF Numbered, Once, Before
  <2>2. CASE ~call[c].batch
    <3>1. pc'[c] = "pop" /\ loc' = [loc EXCEPT ![c].ok = TRUE]
      BY <1>2, <2>2, InQueue, Zenon DEF RoomBuild, LeaveRoom, Goto
    <3>2. /\ loc'[c].group = 1 /\ loc'[c].upd = loc[c].upd /\ loc'[c].last = loc[c].last
      BY <1>2, <1>3, <3>1, InQueue DEF Locals
    <3>3. loc[c].upd = {} /\ loc[c].last <= lastSeq
      BY <1>1, <1>2, Zenon DEF OnceInv, Numbered, Before
    <3>4. \A i \in 1..loc'[c].group : ~call[writers[i]].batch
      <4>1. loc'[c].group = 1 /\ writers[1] = c
        BY <1>3, <3>2, Zenon
      <4>2. \A i \in 1..1 : i = 1
        OBVIOUS
      <4> QED
        BY <2>2, <4>1, <4>2, Zenon
    <3> QED
      BY <1>1, <3>1, <3>2, <3>3, <3>4, Zenon DEF Numbered, Before, Grouped
  <2> QED
    BY <2>1, <2>2, Zenon
<1> QED
  BY <1>1, <1>2, <1>6, <1>7, <1>8, <1>9, <1>10, Zenon DEF OnceInv

(* An update goes from the leader to the memtable.  It belongs to a member *)
(* of the group and to nobody else.                                        *)
LEMMA OnceInsert ==
  ASSUME OInv, NEW c \in Clients, InsertInto(c), NEW u \in loc[c].upd,
         mem' = mem \cup {u}, loc' = [loc EXCEPT ![c].upd = @ \ {u}], pc' = pc
  PROVE  OnceInv'
<1>1. /\ pc[c] = "insert" /\ writers' = writers /\ res' = res /\ call' = call
      /\ answers' = answers /\ issued' = issued /\ lastSeq' = lastSeq
      /\ Store' = Store \cup {u} /\ imm' = imm /\ hasImm' = hasImm
  BY Zenon DEF InsertInto, queueVars, histVars, Store
<1>2. /\ AInv /\ OnceInv /\ lastSeq \in Nat
  BY OnceTypes, Zenon
<1>3. /\ \A d \in Clients \ {c} : pc[d] \notin Leading /\ loc'[d] = loc[d]
      /\ loc'[c].upd = loc[c].upd \ {u} /\ loc'[c].group = loc[c].group
      /\ loc'[c].last = loc[c].last /\ loc'[c].ok = loc[c].ok
      /\ loc[c].group <= Len(writers) /\ loc[c].group \in Nat /\ Len(writers) \in Nat
  <2>1. \A d \in Clients \ {c} : pc[d] \notin Leading
    BY <1>1, <1>2, InQueue, Zenon DEF Leading
  <2>2. loc[c].group <= Len(writers)
    BY <1>1, <1>2, InQueue, Zenon DEF QueueInv, Leading
  <2>3. /\ \A d \in Clients \ {c} : loc'[d] = loc[d]
        /\ loc'[c].upd = loc[c].upd \ {u} /\ loc'[c].group = loc[c].group
        /\ loc'[c].last = loc[c].last /\ loc'[c].ok = loc[c].ok
    BY <1>2, InQueue DEF Locals
  <2> QED
    BY <1>2, <2>1, <2>2, <2>3, InQueue, Zenon
<1>4. Numbered(c) /\ loc[c].ok
  BY <1>1, <1>2, Zenon DEF OnceInv, Numbered
<1>5. PICK m \in 1..loc[c].group : u.id = call[writers[m]].id
  BY <1>1, <1>4, Zenon DEF Numbered, After
<1>6. m \in 1..Len(writers) /\ writers[m] \in Clients
  BY <1>2, <1>3, <1>5, InQueue
<1>7. IdsInv'
  <2>1. \A d \in Clients : (Active(d))' <=> Active(d)
    BY Zenon DEF Active
  <2> QED
    BY <1>1, <1>2, <1>5, <1>6, <2>1, Zenon DEF OnceInv, IdsInv
<1>8. ASSUME NEW i \in 1..Len(writers) PROVE Pending(i)'
  <2>1. CASE i <= loc[c].group
    <3>1. ~(i > loc[c].group) /\ loc'[c].ok
      BY <1>3, <1>4, <2>1
    <3> QED
      BY <1>1, <1>3, <3>1, Zenon DEF Pending, After
  <2>2. CASE i > loc[c].group
    <3>1. u.id # call[writers[i]].id
      BY <1>3, <1>5, <1>6, <2>2, QueueIds
    <3>2. \A d \in Clients : pc[d] \in After => i > loc[d].group
      BY <1>3, <2>2, Zenon DEF After, Leading
    <3>3. Absent(call[writers[i]].id)
      BY <1>2, <3>2 DEF OnceInv, Pending
    <3> QED
      BY <1>1, <3>1, <3>3, Zenon DEF Pending, Absent
  <2> QED
    BY <1>3, <2>1, <2>2
<1>9. Numbered(c)'
  <2>1. loc'[c].upd \cup Store' = loc[c].upd \cup Store
    BY <1>1, <1>3, Zenon
  <2>2. \A i \in 1..loc[c].group : call[writers[i]].batch =>
          Once(call[writers[i]].id, call[writers[i]].after, loc[c].last,
               loc[c].upd \cup Store)
    BY <1>1, <1>4, Zenon DEF Numbered, After
  <2>3. \A e \in loc'[c].upd : \E i \in 1..loc[c].group : e.id = call[writers[i]].id
    BY <1>1, <1>3, <1>4, Zenon DEF Numbered, After
  <2>4. loc[c].last >= lastSeq
    BY <1>1, <1>4, Zenon DEF Numbered
  <2> QED
    BY <1>1, <1>3, <1>4, <2>1, <2>2, <2>3, <2>4 DEF Numbered, Once, Before
<1>10. \A d \in Clients \ {c} : Numbered(d)'
  BY <1>1, <1>2, <1>3, OnceOthers
<1>11. ASSUME NEW d \in Clients PROVE Completed(d)'
  <2>1. SUFFICES ASSUME pc[d] = "wait", call[d].batch, res[d] # "none"
                 PROVE  Completed(d)'
    BY <1>1, <1>2, InQueue, Zenon DEF Completed
  <2>2. Active(d) /\ Active(writers[m])
    BY <1>6, <2>1, QueueIds, Zenon DEF Active
  <2>3. d # writers[m]
    BY <1>2, <1>6, <2>1, InQueue, Zenon DEF SigInv, Leading
  <2>4. u.id # call[d].id
    BY <1>2, <1>5, <1>6, <2>2, <2>3, Zenon DEF OnceInv, IdsInv
  <2>5. Completed(d)
    BY <1>2, Zenon DEF OnceInv
  <2> QED
    BY <1>1, <2>4, <2>5 DEF Completed, Once, Absent
<1>12. ASSUME NEW a \in answers PROVE Truthful(a)'
  <2>1. u.id # a.id
    BY <1>2, <1>5, <1>6, QueueIds, Zenon DEF OnceInv, IdsInv
  <2>2. Truthful(a)
    BY <1>2, Zenon DEF OnceInv
  <2>3. CASE a.ok
    BY <1>1, <2>1, <2>2, <2>3, Zenon DEF Truthful, Once
  <2>4. CASE ~a.ok
    BY <1>1, <2>1, <2>2, <2>4 DEF Truthful, Absent
  <2> QED
    BY <2>3, <2>4, Zenon
<1> QED
  BY <1>1, <1>2, <1>7, <1>8, <1>9, <1>10, <1>11, <1>12, Zenon DEF OnceInv

(* The sequence numbers of the group are published.                        *)
LEMMA OnceRelock ==
  ASSUME OInv, NEW c \in Clients, Relock(c)
  PROVE  OnceInv'
<1>1. /\ pc[c] = "relock" /\ pc' = [pc EXCEPT ![c] = "pop"] /\ loc' = loc
      /\ writers' = writers /\ res' = res /\ call' = call
      /\ answers' = answers /\ issued' = issued /\ lastSeq' = loc[c].last
      /\ Store' = Store /\ imm' = imm /\ hasImm' = hasImm
  BY Zenon DEF Relock, Goto, queueVars, memVars, histVars, Store
<1>2. AInv /\ OnceInv /\ lastSeq \in Nat /\ loc[c].last \in Nat /\ Numbered(c)
  BY OnceTypes, Zenon DEF OnceInv
<1>3. /\ pc'[c] = "pop"
      /\ \A d \in Clients \ {c} : pc[d] \notin Leading /\ pc'[d] = pc[d]
  BY <1>1, <1>2, InQueue, Zenon DEF Leading
<1>4. lastSeq' >= lastSeq /\ lastSeq' \in Nat
  BY <1>1, <1>2, Zenon DEF Numbered
<1>5. IdsInv'
  <2>1. \A d \in Clients : (Active(d))' => Active(d)
    BY <1>1, <1>3, Zenon DEF Active, Leading
  <2>2. \A d \in Clients : call[d].after <= lastSeq'
    <3>1. \A d \in Clients : call[d].after \in Nat /\ call[d].after <= lastSeq
      BY <1>2, OnceTypes, Zenon DEF OnceInv, IdsInv
    <3> QED
      BY <1>2, <1>4, <3>1
  <2> QED
    BY <1>1, <1>2, <2>1, <2>2, Zenon DEF OnceInv, IdsInv
<1>6. \A i \in 1..Len(writers) : Pending(i)'
  BY <1>1, <1>2, <1>3, Zenon DEF OnceInv, Pending, Absent, After
<1>7. /\ \A d \in Clients \ {c} : Numbered(d)' /\ Completed(d)'
      /\ \A a \in answers : Truthful(a)'
  BY <1>1, <1>3, <1>4, OnceKept, OnceOthers, Zenon
<1>8. Completed(c)'
  BY <1>3, Zenon DEF Completed
<1>9. Numbered(c)'
  <2>1. loc[c].ok =>
          /\ \A i \in 1..loc[c].group : call[writers[i]].batch =>
               Once(call[writers[i]].id, call[writers[i]].after, loc[c].last,
                    loc[c].upd \cup Store)
          /\ loc[c].upd = {}
    BY <1>1, <1>2, Zenon DEF Numbered, After
  <2>2. lastSeq' >= loc[c].last
    <3>1. lastSeq' = loc[c].last /\ loc[c].last \in Nat
      BY <1>1, <1>2, Zenon
    <3> QED
      BY <3>1
  <2>3. loc[c].ok => \A i \in 1..loc'[c].group : call'[writers'[i]].batch =>
          Once(call'[writers'[i]].id, call'[writers'[i]].after, loc'[c].last,
               loc'[c].upd \cup Store')
    BY <1>1, <2>1, Zenon
  <2>4. /\ pc'[c] = "pop" /\ loc' = loc /\ loc'[c].last <= lastSeq'
    BY <1>1, <1>2, <1>3, <2>2, Zenon
  <2> QED
    BY <2>1, <2>3, <2>4, Zenon DEF Numbered, Once, Before, Grouped
<1> QED
  BY <1>1, <1>2, <1>5, <1>6, <1>7, <1>8, <1>9, Zenon DEF OnceInv

(* A leader's status is the truth about every member of its group.         *)
LEMMA GroupAnswer ==
  ASSUME OInv, NEW c \in Clients, pc[c] = "pop", NEW i \in 1..loc[c].group,
         call[writers[i]].batch
  PROVE  IF loc[c].ok
         THEN Once(call[writers[i]].id, call[writers[i]].after, lastSeq, Store)
         ELSE Absent(call[writers[i]].id)
<1>1. /\ AInv /\ OnceInv /\ Numbered(c) /\ lastSeq \in Nat /\ loc[c].last \in Nat
      /\ Store \subseteq Entries
  BY OnceTypes, Zenon DEF OnceInv
<1>2. CASE loc[c].ok
  <2>1. /\ Once(call[writers[i]].id, call[writers[i]].after, loc[c].last,
                loc[c].upd \cup Store)
        /\ loc[c].upd = {} /\ loc[c].last <= lastSeq
    BY <1>1, <1>2, Zenon DEF Numbered, After
  <2>2. Once(call[writers[i]].id, call[writers[i]].after, loc[c].last, Store)
    BY <2>1, Zenon DEF Once
  <2>3. \A e \in Store : e.seq \in Nat
    BY <1>1, Zenon DEF Entries
  <2>4. ASSUME NEW e \in Store, e.seq <= loc[c].last PROVE e.seq <= lastSeq
    BY <1>1, <2>1, <2>3, <2>4
  <2>5. Once(call[writers[i]].id, call[writers[i]].after, lastSeq, Store)
    BY <2>2, <2>4, Zenon DEF Once
  <2> QED
    BY <1>2, <2>5, Zenon
<1>3. CASE ~loc[c].ok
  <2>1. i \in 1..Len(writers)
    <3>1. loc[c].group <= Len(writers) /\ loc[c].group \in Nat /\ Len(writers) \in Nat
      BY <1>1, InQueue, Zenon DEF QueueInv, Leading
    <3> QED
      BY <3>1
  <2>2. \A d \in Clients : pc[d] \in After => d = c
    BY <1>1, InQueue, Zenon DEF Leading, After
  <2> QED
    BY <1>1, <1>3, <2>1, <2>2, Zenon DEF OnceInv, Pending
<1> QED
  BY <1>2, <1>3, Zenon

(* An answer ends a call.                                                  *)
LEMMA IdsAnswered ==
  ASSUME OInv, NEW c \in Clients, Active(c), NEW ok \in BOOLEAN, Answered(c, ok),
         call' = call, issued' = issued, lastSeq' = lastSeq, Store' = Store,
         \A d \in Clients : (Active(d))' => Active(d) /\ d # c
  PROVE  IdsInv'
<1>1. OnceInv
  BY OnceTypes, Zenon
<1>2. \A a \in answers' : a \in answers \/ a.id = call[c].id
  BY DEF Answered, Answer
<1>3. \A d \in Clients, a \in answers' : (Active(d))' => a.id # call[d].id
  BY <1>1, <1>2, Zenon DEF OnceInv, IdsInv
<1> QED
  BY <1>1, <1>2, <1>3, Zenon DEF OnceInv, IdsInv

(* The queue that is left when the group is gone.                          *)
LEMMA QueueAfterPop ==
  ASSUME AInv, NEW k \in Nat, k <= Len(writers),
         writers' = SubSeq(writers, k + 1, Len(writers)), NEW i \in 1..Len(writers')
  PROVE  i + k \in 1..Len(writers) /\ writers'[i] = writers[i + k] /\ i + k > k
<1>1. writers \in Seq(Clients) /\ Len(writers) \in Nat
  BY InQueue, Zenon
<1>2. CASE k = Len(writers)
  <2>1. writers' = <<>>
    BY <1>1, <1>2
  <2> QED
    BY <2>1
<1>3. CASE k < Len(writers)
  <2>1. k + 1 \in 1..Len(writers)
    BY <1>1, <1>3
  <2>2. /\ Len(writers') = Len(writers) - (k + 1) + 1
        /\ \A j \in 1..(Len(writers) - (k + 1) + 1) : writers'[j] = writers[(k + 1) + j - 1]
    BY <1>1, <2>1
  <2>3. (k + 1) + i - 1 = i + k /\ i + k \in 1..Len(writers) /\ i + k > k
    BY <1>1, <2>2
  <2> QED
    BY <2>2, <2>3, Zenon
<1> QED
  BY <1>1, <1>2, <1>3

(* The group leaves the queue with its leader's status.                    *)
LEMMA OncePop ==
  ASSUME OInv, NEW c \in Clients, Pop(c)
  PROVE  OnceInv'
<1>1. /\ AInv /\ OnceInv /\ lastSeq \in Nat /\ loc[c].ok \in BOOLEAN
  BY OnceTypes, Zenon
<1>2. PICK k \in Nat : k = loc[c].group
  BY <1>1, InQueue, Zenon
<1>3. /\ pc[c] = "pop" /\ writers[1] = c /\ k >= 1 /\ k <= Len(writers)
  BY <1>1, <1>2, InQueue, Zenon DEF Pop, QueueInv, LeaderIsFront, Leading, SigInv
<1>4. /\ call' = call /\ loc' = loc /\ issued' = issued /\ lastSeq' = lastSeq
      /\ Store' = Store /\ imm' = imm /\ hasImm' = hasImm
      /\ pc' = [pc EXCEPT ![c] = Return(c, loc[c].ok)]
      /\ Answered(c, loc[c].ok)
      /\ writers' = SubSeq(writers, k + 1, Len(writers))
  BY <1>2, Zenon DEF Pop, Goto, memVars, Store
<1>5. /\ \A d \in Clients \ {c} : pc'[d] = pc[d] /\ pc[d] \notin Leading
      /\ pc'[c] \in Outside
  BY <1>1, <1>3, <1>4, InQueue, Zenon DEF Return, Leading, Outside
<1>6. IdsInv'
  <2>1. \A d \in Clients : (Active(d))' => Active(d) /\ d # c
    BY <1>5, Zenon DEF Active, Leading, Outside
  <2>2. Active(c)
    BY <1>3, Zenon DEF Active, Leading
  <2> QED
    BY <1>1, <1>4, <2>1, <2>2, IdsAnswered, Zenon
<1>7. ASSUME NEW i \in 1..Len(writers') PROVE Pending(i)'
  <2>1. i + k \in 1..Len(writers) /\ writers'[i] = writers[i + k] /\ i + k > k
    BY <1>1, <1>2, <1>3, <1>4, InQueue, QueueAfterPop, Zenon
  <2>2. \A d \in Clients : pc[d] \in After => i + k > loc[d].group
    BY <1>2, <1>5, <2>1, Zenon DEF After, Leading
  <2>3. Absent(call[writers[i + k]].id)
    BY <1>1, <2>1, <2>2, Zenon DEF OnceInv, Pending
  <2> QED
    BY <1>4, <2>1, <2>3, Zenon DEF Pending, Absent
<1>8. \A d \in Clients \ {c} : Numbered(d)'
  <2>1. lastSeq' \in Nat /\ lastSeq' >= lastSeq
    BY <1>1, <1>4
  <2>2. \A d \in Clients \ {c} :
          pc[d] \notin Leading /\ pc'[d] = pc[d] /\ loc'[d] = loc[d]
    BY <1>4, <1>5, Zenon
  <2> QED
    BY <2>1, <2>2, OnceOthers, Zenon
<1>9. Numbered(c)' /\ Completed(c)'
  BY <1>5, Zenon DEF Numbered, Completed, Before, Grouped, After, Outside
<1>10. ASSUME NEW d \in Clients \ {c} PROVE Completed(d)'
  <2>1. CASE res'[d] = res[d]
    <3>1. lastSeq' \in Nat /\ lastSeq' >= lastSeq /\ Store' = Store
      BY <1>1, <1>4
    <3>2. pc'[d] = pc[d] /\ res'[d] = res[d] /\ call'[d] = call[d]
      BY <1>4, <1>5, <2>1, Zenon
    <3>3. \A e \in Clients :
            pc'[e] = pc[e] /\ res'[e] = res[e] /\ call'[e] = call[e] => Completed(e)'
      BY <3>1, OnceKept, Zenon
    <3> QED
      BY <3>2, <3>3, Zenon
  <2>2. CASE res'[d] # res[d]
    <3> DEFINE group == {writers[i] : i \in 2..k}
    <3>1. res' = [w \in Clients |-> IF w \in group
                                    THEN IF loc[c].ok THEN "ok" ELSE "err"
                                    ELSE res[w]]
      BY <1>2, Zenon DEF Pop
    <3>2. d \in group => \E i \in 2..k : writers[i] = d
      BY Zenon
    <3> HIDE DEF group
    <3>3. d \in group /\ res'[d] = IF loc[c].ok THEN "ok" ELSE "err"
      BY <2>2, <3>1, Zenon
    <3>4. PICK i \in 1..loc[c].group : writers[i] = d
      BY <1>2, <3>2, <3>3
    <3>5. CASE call[d].batch
      <4>1. IF loc[c].ok THEN Once(call[d].id, call[d].after, lastSeq, Store)
                         ELSE Absent(call[d].id)
        BY <1>3, <3>4, <3>5, GroupAnswer, Zenon
      <4>2. CASE loc[c].ok
        BY <1>4, <3>3, <4>1, <4>2, Zenon DEF Completed, Once
      <4>3. CASE ~loc[c].ok
        BY <1>4, <3>3, <4>1, <4>3, Zenon DEF Completed, Absent
      <4> QED
        BY <4>2, <4>3, Zenon
    <3>6. CASE ~call[d].batch
      BY <1>4, <3>6, Zenon DEF Completed
    <3> QED
      BY <3>5, <3>6, Zenon
  <2> QED
    BY <2>1, <2>2, Zenon
<1>11. ASSUME NEW a \in answers' PROVE Truthful(a)'
  <2>1. CASE a \in answers
    <3>1. lastSeq' \in Nat /\ lastSeq' >= lastSeq
      BY <1>1, <1>4
    <3>2. \A b \in answers : Truthful(b)'
      BY <1>4, <3>1, OnceKept, Zenon
    <3> QED
      BY <2>1, <3>2, Zenon
  <2>2. CASE a \notin answers
    <3>1. call[c].batch /\ a = Answer(c, loc[c].ok)
      BY <1>4, <1>11, <2>2, Zenon DEF Answered
    <3>2. a.id = call[c].id /\ a.after = call[c].after /\ a.ok = loc[c].ok
      BY <3>1, Zenon DEF Answer
    <3>3. 1 \in 1..loc[c].group
      BY <1>2, <1>3
    <3>4. IF loc[c].ok THEN Once(call[c].id, call[c].after, lastSeq, Store)
                       ELSE Absent(call[c].id)
      BY <1>3, <3>1, <3>3, GroupAnswer, Zenon
    <3>5. CASE loc[c].ok
      <4>1. Once(a.id, a.after, lastSeq', Store') /\ a.ok
        BY <1>4, <3>2, <3>4, <3>5, Zenon
      <4> QED
        BY <4>1, Zenon DEF Truthful, Once
    <3>6. CASE ~loc[c].ok
      BY <1>4, <3>2, <3>4, <3>6, Zenon DEF Truthful, Absent
    <3> QED
      BY <3>5, <3>6, Zenon
  <2> QED
    BY <2>1, <2>2, Zenon
<1> QED
  BY <1>1, <1>4, <1>6, <1>7, <1>8, <1>9, <1>10, <1>11, Zenon DEF OnceInv

(* A completed writer returns its status; the front of the queue leads.    *)
LEMMA OnceWake ==
  ASSUME OInv, NEW c \in Clients, Wake(c)
  PROVE  OnceInv'
<1>1. /\ AInv /\ OnceInv /\ lastSeq \in Nat /\ Numbered(c) /\ Completed(c)
  BY OnceTypes, Zenon DEF OnceInv
<1>2. /\ pc[c] = "wait" /\ writers' = writers /\ call' = call /\ res' = res
      /\ loc' = loc /\ issued' = issued /\ lastSeq' = lastSeq
      /\ Store' = Store /\ imm' = imm /\ hasImm' = hasImm
      /\ \A d \in Clients \ {c} : pc'[d] = pc[d]
  BY <1>1, InQueue, Zenon DEF Wake, Goto, memVars, Store
<1>kept. lastSeq' \in Nat /\ lastSeq' >= lastSeq /\ Store' = Store
  BY <1>1, <1>2
<1>3. \/ /\ res[c] \in {"ok", "err"} /\ pc'[c] \in Outside /\ Answered(c, res[c] = "ok")
      \/ pc'[c] \in {"room", "wait"} /\ answers' = answers
  BY <1>1, <1>2, InQueue, Zenon DEF Wake, Goto, Return, Outside
<1>4. IdsInv'
  <2>1. CASE pc'[c] \in Outside /\ Answered(c, res[c] = "ok")
    <3>1. \A d \in Clients : (Active(d))' => Active(d) /\ d # c
      BY <1>2, <2>1, Zenon DEF Active, Leading, Outside
    <3>2. Active(c) /\ (res[c] = "ok") \in BOOLEAN
      BY <1>2, Zenon DEF Active
    <3> QED
      BY <1>2, <2>1, <3>1, <3>2, IdsAnswered, Zenon
  <2>2. CASE pc'[c] \in {"room", "wait"} /\ answers' = answers
    <3>1. \A d \in Clients : (Active(d))' => Active(d)
      BY <1>2, <2>2, Zenon DEF Active
    <3> QED
      BY <1>1, <1>2, <2>2, <3>1, Zenon DEF OnceInv, IdsInv
  <2> QED
    BY <1>3, <2>1, <2>2, Zenon
<1>5. \A i \in 1..Len(writers) : Pending(i)'
  <2>1. \A d \in Clients : pc'[d] \in After <=> pc[d] \in After
    BY <1>2, <1>3, Zenon DEF After, Outside
  <2> QED
    BY <1>1, <1>2, <2>1, Zenon DEF OnceInv, Pending, Absent
<1>6. ASSUME NEW d \in Clients \ {c} PROVE Numbered(d)'
  <2>1. Numbered(d)
    BY <1>1, Zenon DEF OnceInv
  <2> QED
    BY <1>2, <2>1, NumberedSame, Zenon
<1>7. Numbered(c)'
  BY <1>1, <1>2, <1>3, Zenon DEF Numbered, Before, Grouped, After, Outside
<1>8. \A d \in Clients : Completed(d)'
  <2>1. \A d \in Clients :
          pc'[d] = pc[d] /\ res'[d] = res[d] /\ call'[d] = call[d] => Completed(d)'
    BY <1>kept, OnceKept, Zenon
  <2>2. ASSUME NEW d \in Clients, pc'[d] = pc[d] PROVE Completed(d)'
    BY <1>2, <2>1, <2>2, Zenon
  <2>3. ASSUME pc'[c] # "wait" PROVE Completed(c)'
    BY <2>3, Zenon DEF Completed
  <2> QED
    BY <1>2, <2>2, <2>3, Zenon
<1>9. ASSUME NEW a \in answers' PROVE Truthful(a)'
  <2>1. CASE a \in answers
    BY <1>kept, <2>1, OnceKept, Zenon
  <2>2. CASE a \notin answers
    <3>1. call[c].batch /\ a = Answer(c, res[c] = "ok") /\ res[c] \in {"ok", "err"}
      BY <1>3, <1>9, <2>2, Zenon DEF Answered
    <3>2. a.id = call[c].id /\ a.after = call[c].after /\ a.ok = (res[c] = "ok")
      BY <3>1, Zenon DEF Answer
    <3>3. CASE res[c] = "ok"
      <4>1. Once(a.id, a.after, lastSeq, Store) /\ a.ok
        BY <1>1, <1>2, <3>1, <3>2, <3>3, Zenon DEF Completed
      <4> QED
        BY <1>2, <4>1, Zenon DEF Truthful, Once
    <3>4. CASE res[c] = "err"
      BY <1>1, <1>2, <3>1, <3>2, <3>4, Zenon DEF Completed, Truthful, Absent
    <3> QED
      BY <3>1, <3>3, <3>4, Zenon
  <2> QED
    BY <2>1, <2>2, Zenon
<1> QED
  BY <1>1, <1>2, <1>4, <1>5, <1>6, <1>7, <1>8, <1>9, Zenon DEF OnceInv

(* A new call has an identity of its own, and joins nobody's group.        *)
LEMMA OnceEnqueue ==
  ASSUME OInv, NEW c \in Clients, NEW batch, NEW sync, NEW n,
         Enqueue(c, batch, sync, n)
  PROVE  OnceInv'
<1>1. /\ AInv /\ OnceInv /\ IdsInv /\ lastSeq \in Nat /\ issued \in Nat
      /\ Store \subseteq Entries /\ answers \subseteq Answers
  BY OnceTypes, Zenon DEF OnceInv
<1>2. /\ pc[c] = "idle" /\ writers' = Append(writers, c)
      /\ pc' = [pc EXCEPT ![c] = IF writers = <<>> THEN "room" ELSE "wait"]
      /\ res' = [res EXCEPT ![c] = "none"] /\ answers' = answers
      /\ call' = [call EXCEPT ![c] = [batch |-> batch, sync |-> sync,
                                      id |-> issued + 1, after |-> lastSeq]]
      /\ loc' = [loc EXCEPT ![c] = [NoLoc EXCEPT !.force = ~batch, !.delay = batch,
                                                 !.levels = n]]
      /\ issued' = issued + 1 /\ lastSeq' = lastSeq
      /\ Store' = Store /\ imm' = imm /\ hasImm' = hasImm
  BY Zenon DEF Enqueue, Goto, memVars, Store
<1>3. /\ pc'[c] \in {"room", "wait"} /\ res'[c] = "none"
      /\ call'[c].id = issued + 1 /\ call'[c].after = lastSeq
      /\ loc'[c].ok /\ loc'[c].upd = {} /\ loc'[c].last = 0
      /\ \A d \in Clients \ {c} : /\ pc'[d] = pc[d] /\ res'[d] = res[d]
                                 /\ loc'[d] = loc[d] /\ call'[d] = call[d]
  BY <1>1, <1>2, InQueue, Zenon DEF NoLoc
<1>own. call'[c].id = issued + 1 /\ call'[c].after = lastSeq
  BY <1>3, Zenon
<1>oth. \A d \in Clients \ {c} : call'[d] = call[d]
  BY <1>3, Zenon
<1>4. /\ Len(writers') = Len(writers) + 1 /\ writers'[Len(writers) + 1] = c
      /\ \A i \in 1..Len(writers) : writers'[i] = writers[i] /\ writers[i] \in Clients \ {c}
      /\ Len(writers) \in Nat
  <2>1. \A i \in 1..Len(writers) : writers[i] # c
    BY <1>1, <1>2, InQueue, Zenon DEF SigInv, Leading
  <2> QED
    BY <1>1, <1>2, <2>1, InQueue
<1>5. \A i \in 1..Len(writers) : call'[writers'[i]] = call[writers[i]]
  BY <1>oth, <1>4, Zenon
<1>num. issued \in Nat /\ lastSeq \in Nat
  BY <1>1, Zenon
<1>ent. \A e \in Store : e.id \in Nat /\ e.id <= issued
  BY <1>1, Zenon DEF IdsInv, Entries
<1>6. IdsInv'
  <2>1. \A d \in Clients : /\ call[d].id \in Nat /\ call[d].id <= issued
                           /\ call[d].after <= lastSeq
    BY <1>1, OnceTypes, Zenon DEF IdsInv
  <2>2. ASSUME NEW d \in Clients
        PROVE  call'[d].id <= issued + 1 /\ call'[d].after <= lastSeq
    <3>1. CASE d = c
      BY <1>num, <1>own, <3>1
    <3>2. CASE d # c
      <4>1. call'[d] = call[d]
        BY <1>oth, <3>2, Zenon
      <4> QED
        BY <1>num, <2>1, <4>1
    <3> QED
      BY <3>1, <3>2, Zenon
  <2>3. \A a \in answers : a.id \in Nat /\ a.id <= issued
    BY <1>1, Zenon DEF IdsInv, Answers
  <2>4. /\ \A d, f \in Clients : Active(d) /\ Active(f) /\ call[d].id = call[f].id => d = f
        /\ \A d \in Clients, a \in answers : Active(d) => a.id # call[d].id
    BY <1>1, Zenon DEF IdsInv
  <2>5. \A d \in Clients \ {c} : (Active(d))' => Active(d)
    BY <1>3, Zenon DEF Active
  <2>6. ASSUME NEW d \in Clients, NEW f \in Clients, (Active(d))', (Active(f))',
               call'[d].id = call'[f].id
        PROVE  d = f
    <3>1. ASSUME NEW g \in Clients \ {c} PROVE call'[g].id # issued + 1
      <4>1. call'[g] = call[g] /\ call[g].id \in Nat /\ call[g].id <= issued
        BY <1>oth, <2>1, Zenon
      <4> QED
        BY <1>num, <4>1
    <3>2. CASE d = c \/ f = c
      BY <1>own, <2>6, <3>1, <3>2, Zenon
    <3>3. CASE d # c /\ f # c
      <4>1. call'[d] = call[d] /\ call'[f] = call[f] /\ Active(d) /\ Active(f)
        BY <1>oth, <2>5, <2>6, <3>3, Zenon
      <4> QED
        BY <2>4, <2>6, <4>1, Zenon
    <3> QED
      BY <3>2, <3>3, Zenon
  <2>7. ASSUME NEW d \in Clients, NEW a \in answers, (Active(d))' PROVE a.id # call'[d].id
    <3>1. CASE d = c
      BY <1>num, <1>own, <2>3, <3>1
    <3>2. CASE d # c
      BY <1>oth, <2>4, <2>5, <2>7, <3>2, Zenon
    <3> QED
      BY <3>1, <3>2, Zenon
  <2>8. /\ \A a \in answers : a.id <= issued + 1
        /\ \A e \in Store : e.id <= issued + 1
    BY <1>num, <1>ent, <2>3
  <2> QED
    BY <1>2, <2>2, <2>6, <2>7, <2>8, Zenon DEF IdsInv
<1>7. ASSUME NEW i \in 1..Len(writers') PROVE Pending(i)'
  <2>1. \A d \in Clients : pc'[d] \in After <=> pc[d] \in After
    BY <1>2, <1>3, Zenon DEF After
  <2>2. CASE i \in 1..Len(writers)
    <3>1. Pending(i)
      BY <1>1, <2>2, Zenon DEF OnceInv
    <3>2. \A d \in Clients : pc[d] \in After => loc'[d] = loc[d] /\ d # c
      BY <1>2, <1>3, Zenon DEF After
    <3> QED
      BY <1>2, <1>5, <2>1, <2>2, <3>1, <3>2, Zenon DEF Pending, Absent
  <2>3. CASE i = Len(writers) + 1
    <3>1. \A e \in Store : e.id # issued + 1
      BY <1>num, <1>ent
    <3> QED
      BY <1>2, <1>3, <1>4, <2>3, <3>1 DEF Pending, Absent
  <2> QED
    BY <1>4, <2>2, <2>3
<1>8. ASSUME NEW d \in Clients \ {c} PROVE Numbered(d)'
  <2>1. Numbered(d) /\ loc'[d] = loc[d] /\ pc'[d] = pc[d]
    BY <1>1, <1>3, Zenon DEF OnceInv
  <2>2. pc[d] \in Leading => \A i \in 1..loc[d].group : i \in 1..Len(writers)
    <3>1. loc[d].group \in Nat /\ Len(writers) \in Nat /\ QueueInv
      BY <1>1, InQueue, Zenon
    <3>2. pc[d] \in Leading => loc[d].group <= Len(writers)
      BY <3>1, Zenon DEF QueueInv
    <3> QED
      BY <3>1, <3>2
  <2>3. pc[d] \in Grouped \cup After => pc[d] \in Leading
    BY Zenon DEF Grouped, After, Leading
  <2> QED
    <3>1. lastSeq' = lastSeq /\ Store' = Store
      BY <1>2, Zenon
    <3>2. \A i \in 1..loc[d].group :
            pc[d] \in Leading => call'[writers'[i]] = call[writers[i]]
      BY <1>5, <2>2, Zenon
    <3>3. SUFFICES ASSUME pc[d] \in Grouped \cup After, loc[d].ok PROVE Numbered(d)'
      BY <2>1, <3>1, Zenon DEF Numbered
    <3>4. /\ \A i \in 1..loc[d].group : call[writers[i]].batch =>
               Once(call[writers[i]].id, call[writers[i]].after, loc[d].last,
                    loc[d].upd \cup Store)
          /\ \A e \in loc[d].upd : \E i \in 1..loc[d].group : e.id = call[writers[i]].id
      BY <2>1, <3>3, Zenon DEF Numbered
    <3>5. /\ \A i \in 1..loc'[d].group : call'[writers'[i]].batch =>
               Once(call'[writers'[i]].id, call'[writers'[i]].after, loc'[d].last,
                    loc'[d].upd \cup Store')
          /\ \A e \in loc'[d].upd :
               \E i \in 1..loc'[d].group : e.id = call'[writers'[i]].id
      <4>1. \A i \in 1..loc[d].group : call'[writers'[i]] = call[writers[i]]
        BY <2>3, <3>2, <3>3, Zenon
      <4>2. \A i \in 1..loc[d].group : call'[writers'[i]].batch =>
              Once(call'[writers'[i]].id, call'[writers'[i]].after, loc[d].last,
                   loc[d].upd \cup Store)
        BY <3>4, <4>1, Zenon
      <4>3. \A e \in loc[d].upd :
              \E i \in 1..loc[d].group : e.id = call'[writers'[i]].id
        BY <3>4, <4>1
      <4> QED
        BY <2>1, <3>1, <4>2, <4>3, Zenon
    <3> QED
      BY <2>1, <3>1, <3>3, <3>5, Zenon DEF Numbered, Once
<1>9. Numbered(c)'
  BY <1>1, <1>2, <1>3 DEF Numbered, Grouped, After
<1>10. Completed(c)'
  BY <1>3, Zenon DEF Completed
<1>11. /\ \A d \in Clients \ {c} : Completed(d)'
       /\ \A a \in answers : Truthful(a)'
  BY <1>1, <1>2, <1>3, OnceKept
<1> QED
  BY <1>1, <1>2, <1>6, <1>7, <1>8, <1>9, <1>10, <1>11, Zenon DEF OnceInv

(* Every step keeps the answers true.                                      *)
LEMMA OnceNext ==
  ASSUME OInv, [Next]_vars
  PROVE  OnceInv'
<1> USE DEF queueVars, memVars, histVars, Goto
<1>0. /\ AInv /\ OnceInv /\ pc \in [Clients -> PCs] /\ loc \in [Clients -> Locals]
      /\ manual \in Clients \cup {Free} /\ (~hasImm => imm = {})
  BY OnceTypes, Zenon DEF AInv, TInv, TypeOK, OnceInv
<1>1. ASSUME NEW c \in Clients, Write(c) PROVE OnceInv'
  BY <1>1, OnceEnqueue, Zenon DEF Write
<1>2. ASSUME NEW c \in Clients, CompactRange(c) PROVE OnceInv'
  BY <1>2, OnceEnqueue, Zenon DEF CompactRange
<1>3. ASSUME NEW c \in Clients, RoomBuild(c) PROVE OnceInv'
  BY <1>3, OnceBuild, Zenon
<1>4. ASSUME NEW c \in Clients, Relock(c) PROVE OnceInv'
  BY <1>4, OnceRelock, Zenon
<1>5. ASSUME NEW c \in Clients, Pop(c) PROVE OnceInv'
  BY <1>5, OncePop, Zenon
<1>6. ASSUME NEW c \in Clients, Wake(c) PROVE OnceInv'
  BY <1>6, OnceWake, Zenon
<1>7. ASSUME NEW c \in Clients, InsertInto(c) PROVE OnceInv'
  <2>1. CASE loc[c].upd = {} /\ pc' = [pc EXCEPT ![c] = "relock"] /\ mem' = mem /\ loc' = loc
    BY <1>0, <1>7, <2>1, OnceFrame, Zenon DEF InsertInto, Store
  <2>2. ASSUME NEW u \in loc[c].upd, mem' = mem \cup {u}, pc' = pc,
               loc' = [loc EXCEPT ![c].upd = @ \ {u}]
        PROVE  OnceInv'
    BY <1>7, <2>2, OnceInsert, Zenon
  <2> QED
    BY <1>7, <2>1, <2>2, Zenon DEF InsertInto
<1>8. ASSUME NEW c \in Clients, AddRecord(c) PROVE OnceInv'
  <2>1. /\ pc[c] = "append" /\ writers' = writers /\ call' = call /\ res' = res
        /\ answers' = answers /\ issued' = issued /\ lastSeq' = lastSeq
        /\ Store' = Store /\ imm' = imm /\ hasImm' = hasImm
    BY <1>8, Zenon DEF AddRecord, Store
  <2>2. \/ /\ loc' = loc
           /\ pc' = [pc EXCEPT ![c] = IF call[c].sync THEN "sync" ELSE "insert"]
        \/ loc' = [loc EXCEPT ![c].ok = FALSE] /\ pc' = [pc EXCEPT ![c] = "relock"]
    BY <1>8, Zenon DEF AddRecord
  <2>3. /\ \A d \in Clients \ {c} : pc'[d] = pc[d] /\ loc'[d] = loc[d]
        /\ loc'[c].group = loc[c].group /\ loc'[c].upd = loc[c].upd
        /\ loc'[c].last = loc[c].last
        /\ \/ pc'[c] \in {"sync", "insert"} /\ loc'[c].ok = loc[c].ok
           \/ pc'[c] = "relock" /\ ~loc'[c].ok
    BY <1>0, <2>2 DEF Locals
  <2> QED
    BY <1>0, <2>1, <2>3, OnceFrame, Zenon DEF Grouped
<1>9. ASSUME NEW c \in Clients, SyncLog(c) PROVE OnceInv'
  <2>1. /\ pc[c] = "sync" /\ writers' = writers /\ call' = call /\ res' = res
        /\ answers' = answers /\ issued' = issued /\ lastSeq' = lastSeq
        /\ Store' = Store /\ imm' = imm /\ hasImm' = hasImm
    BY <1>9, Zenon DEF SyncLog, Store
  <2>2. \/ loc' = loc /\ pc' = [pc EXCEPT ![c] = "insert"]
        \/ /\ loc' = [loc EXCEPT ![c].ok = FALSE, ![c].syncErr = TRUE]
           /\ pc' = [pc EXCEPT ![c] = "relock"]
    BY <1>9, Zenon DEF SyncLog
  <2>3. /\ \A d \in Clients \ {c} : pc'[d] = pc[d] /\ loc'[d] = loc[d]
        /\ loc'[c].group = loc[c].group /\ loc'[c].upd = loc[c].upd
        /\ loc'[c].last = loc[c].last
        /\ \/ pc'[c] = "insert" /\ loc'[c].ok = loc[c].ok
           \/ pc'[c] = "relock" /\ ~loc'[c].ok
    BY <1>0, <2>2 DEF Locals
  <2> QED
    BY <1>0, <2>1, <2>3, OnceFrame, Zenon DEF Grouped
<1>10. ASSUME NEW c \in Clients, RoomSwitch(c) PROVE OnceInv'
  <2>1. /\ pc[c] = "room" /\ writers' = writers /\ call' = call /\ res' = res
        /\ answers' = answers /\ issued' = issued /\ lastSeq' = lastSeq
        /\ Store' = Store /\ (~hasImm' => imm' = {})
    BY <1>0, <1>10, Zenon DEF RoomSwitch, InRoom, Store
  <2>2. \/ pc' = pc /\ loc' = [loc EXCEPT ![c].force = FALSE]
        \/ pc' = [pc EXCEPT ![c] = "pop"] /\ loc' = [loc EXCEPT ![c].ok = FALSE]
    BY <1>10, Zenon DEF RoomSwitch, LeaveRoom
  <2>3. /\ \A d \in Clients \ {c} : pc'[d] = pc[d] /\ loc'[d] = loc[d]
        /\ loc'[c].group = loc[c].group /\ loc'[c].upd = loc[c].upd
        /\ loc'[c].last = loc[c].last
        /\ \/ pc'[c] = "room" /\ loc'[c].ok = loc[c].ok
           \/ pc'[c] = "pop" /\ ~loc'[c].ok
    BY <1>0, <2>1, <2>2 DEF Locals
  <2> QED
    BY <1>0, <2>1, <2>3, OnceFrame, Zenon DEF Before
<1>11. CASE BgFlushed
  <2>1. /\ writers' = writers /\ call' = call /\ res' = res /\ answers' = answers
        /\ issued' = issued /\ lastSeq' = lastSeq /\ pc' = pc /\ loc' = loc
    BY <1>11, Zenon DEF BgFlushed
  <2>2. Store' = Store
    BY <1>11, Zenon DEF BgFlushed, Store
  <2>3. ~hasImm' => imm' = {}
    BY <1>0, <1>11 DEF BgFlushed
  <2> QED
    BY <2>1, <2>2, <2>3, OnceFrame, Zenon
<1>12. CASE BgManual
  <2>1. /\ manual \in Clients
        /\ \/ loc' = [loc EXCEPT ![manual].done = TRUE]
           \/ loc' = [loc EXCEPT ![manual].passes = loc[manual].passes + 1]
    BY <1>0, <1>12, Zenon DEF BgManual
  <2>2. \A d \in Clients : /\ loc'[d].group = loc[d].group /\ loc'[d].ok = loc[d].ok
                           /\ loc'[d].upd = loc[d].upd /\ loc'[d].last = loc[d].last
    BY <1>0, <2>1 DEF Locals
  <2> QED
    BY <1>0, <1>12, <2>2, OnceFrame, Zenon DEF BgManual, Store
<1>13. ASSUME NEW c \in Clients, RoomError(c) PROVE OnceInv'
  BY <1>0, <1>13, OnceFrame, Zenon
     DEF RoomError, LeaveRoom, InRoom, Store, Before, Outside, Locals
<1>14. ASSUME NEW c \in Clients, RoomDelay(c) PROVE OnceInv'
  BY <1>0, <1>14, OnceFrame DEF RoomDelay, InRoom, Store, Before, Outside, Locals
<1>15. ASSUME NEW c \in Clients, DelayOver(c) PROVE OnceInv'
  BY <1>0, <1>15, OnceFrame, Zenon DEF DelayOver, Store, Before, Outside, Locals
<1>16. ASSUME NEW c \in Clients, RoomWait(c) PROVE OnceInv'
  BY <1>0, <1>16, OnceFrame, Zenon
     DEF RoomWait, InRoom, Store, Before, Outside, Locals
<1>17. ASSUME NEW c \in Clients, RoomWake(c) PROVE OnceInv'
  BY <1>0, <1>17, OnceFrame, Zenon DEF RoomWake, Store, Before, Outside, Locals
<1>18. ASSUME NEW c \in Clients, CompactMemTableWait(c) PROVE OnceInv'
  BY <1>0, <1>18, OnceFrame, Zenon
     DEF CompactMemTableWait, Store, Before, Outside, Locals
<1>19. ASSUME NEW c \in Clients, ManualWait(c) PROVE OnceInv'
  BY <1>0, <1>19, OnceFrame, Zenon DEF ManualWait, Store, Before, Outside, Locals
<1>20. ASSUME NEW c \in Clients, ManualReturn(c) PROVE OnceInv'
  BY <1>0, <1>20, OnceFrame DEF ManualReturn, Store, Before, Outside, Locals
<1>21. ASSUME NEW c \in Clients, CloseWait(c) PROVE OnceInv'
  BY <1>0, <1>21, OnceFrame, Zenon DEF CloseWait, Store, Before, Outside, Locals
<1>22. ASSUME NEW c \in Clients, Close(c) PROVE OnceInv'
  BY <1>0, <1>22, OnceFrame, Zenon DEF Close, Store, Before, Outside, Locals
<1>23. ASSUME NEW c \in Clients, SpuriousWakeup(c) PROVE OnceInv'
  BY <1>0, <1>23, OnceFrame, Zenon
     DEF SpuriousWakeup, Store, Before, Outside, Locals
<1>24. CASE ReadSample
  BY <1>0, <1>24, OnceFrame, Zenon DEF ReadSample, Store
<1>25. CASE BgSkip
  BY <1>0, <1>25, OnceFrame, Zenon DEF BgSkip, Store
<1>26. CASE BgFlush
  BY <1>0, <1>26, OnceFrame, Zenon DEF BgFlush, Store
<1>27. CASE BgPick
  BY <1>0, <1>27, OnceFrame, Zenon DEF BgPick, Store
<1>28. CASE BgBuilt
  BY <1>0, <1>28, OnceFrame, Zenon DEF BgBuilt, Store
<1>29. CASE BgCompactFlush
  BY <1>0, <1>29, OnceFrame, Zenon DEF BgCompactFlush, Store
<1>30. CASE BgCompactEnd
  BY <1>0, <1>30, OnceFrame, Zenon DEF BgCompactEnd, Store
<1>31. CASE BgCompactFinish
  BY <1>0, <1>31, OnceFrame, Zenon DEF BgCompactFinish, Store
<1>32. CASE BgInstall
  BY <1>0, <1>32, OnceFrame, Zenon DEF BgInstall, Store
<1>33. CASE BgEpilogue
  BY <1>0, <1>33, OnceFrame DEF BgEpilogue, Store, Locals
<1>34. CASE BgTail
  BY <1>0, <1>34, OnceFrame, Zenon DEF BgTail, Store
<1>35. CASE UNCHANGED vars
  BY <1>0, <1>35, OnceFrame, Zenon DEF vars, Store
<1> QED
  BY <1>1, <1>2, <1>3, <1>4, <1>5, <1>6, <1>7, <1>8, <1>9, <1>10, <1>11, <1>12,
     <1>13, <1>14, <1>15, <1>16, <1>17, <1>18, <1>19, <1>20, <1>21, <1>22, <1>23,
     <1>24, <1>25, <1>26, <1>27, <1>28, <1>29, <1>30, <1>31, <1>32, <1>33, <1>34,
     <1>35, Zenon
  DEF Next, Environment, ClientStep, Background, Closed

-----------------------------------------------------------------------------
(* The theorems.                                                           *)

(* A set of positions in the queue is finite, and has the size of one.     *)
LEMMA CountingHolds == Counting
<1> SUFFICES ASSUME NEW n \in Nat, NEW S \in SUBSET (1..n)
             PROVE  /\ Cardinality(S) \in Nat
                    /\ S # {} => Cardinality(S) >= 1
                    /\ \A T \in SUBSET S : Cardinality(T) <= Cardinality(S)
  BY Zenon DEF Counting
<1>1. IsFiniteSet(1..n)
  BY FS_Interval
<1>2. IsFiniteSet(S)
  BY <1>1, FS_Subset, Zenon
<1>3. Cardinality(S) \in Nat
  BY <1>2, FS_CardinalityType, Zenon
<1>4. S # {} => Cardinality(S) # 0
  BY <1>2, FS_EmptySet, Zenon
<1>5. \A T \in SUBSET S : Cardinality(T) <= Cardinality(S)
  BY <1>2, FS_Subset, Zenon
<1> QED
  BY <1>3, <1>4, <1>5

(* TInv is an invariant.                                                   *)
LEMMA Invariance == Spec => []TInv
<1>1. TInv /\ [Next]_vars => TInv'
  BY TypeNext, QueueNext, InputsNext, Zenon DEF TInv
<1>2. Init => TInv
  BY CountingHolds, TInvInit, Zenon
<1> QED
  BY <1>1, <1>2, PTL DEF Spec

(* Every variable of the write path keeps its type, whatever the threads   *)
(* do: in particular level 0 never has fewer files than none.              *)
THEOREM TypeCorrect == Spec => []TypeOK
<1>1. TInv => TypeOK
  BY Zenon DEF TInv
<1> QED
  BY Invariance, <1>1, PTL

(* Only the front of the writer queue makes room, appends to the log,      *)
(* syncs it or inserts into the memtable (DBImpl::Write).                  *)
THEOREM OneLeader == Spec => []LeaderIsFront
<1>1. TInv => LeaderIsFront
  BY Zenon DEF TInv, QueueInv
<1> QED
  BY Invariance, <1>1, PTL

(* Nobody waits on bg_cv_ unless the background thread is scheduled, for   *)
(* every mixture of stalled writers, manual compactions, errors and a      *)
(* closing database (MaybeScheduleCompaction and RecordBackgroundError).   *)
THEOREM WaitersAreWoken == Spec => []NoOrphanWaiter
<1>1. Init => SchedInv
  BY DEF Init, SchedInv, NoOrphanWaiter, NoBg
<1>2. TypeOK /\ SchedInv /\ [Next]_vars => SchedInv'
  BY SchedNext, Zenon
<1>3. SchedInv => NoOrphanWaiter
  BY Zenon DEF SchedInv
<1> QED
  BY TypeCorrect, <1>1, <1>2, <1>3, PTL DEF Spec

(* What a read at a snapshot sees never changes: entries become visible    *)
(* only when the leader publishes the last sequence number of its group,   *)
(* and switching and flushing a memtable lose nothing (DBImpl::Write).     *)
THEOREM SnapshotsAreStable == Spec => SnapshotStable
<1>1. Init => SnapInv
  BY Zenon DEF Init, SnapInv
<1>2. TInv /\ SnapInv /\ [Next]_vars => SnapInv'
  BY SnapNext, Zenon
<1>3. TInv /\ SnapInv /\ [Next]_vars =>
        [{e \in Store : e.seq <= lastSeq} = {e \in Store' : e.seq <= lastSeq}]_vars
  BY StableNext, Zenon
<1> QED
  BY Invariance, <1>1, <1>2, <1>3, PTL DEF Spec, SnapshotStable

LEMMA AnswersInvariance == Spec => []AInv
<1>1. Init => AInv
  BY CountingHolds, TInvInit, AnswersInit, Zenon DEF AInv
<1>2. AInv /\ [Next]_vars => AInv'
  BY AnswersNext, TypeNext, QueueNext, InputsNext, Zenon DEF AInv, TInv
<1> QED
  BY <1>1, <1>2, PTL DEF Spec

(* A writer whose turn has come is never left asleep: the front of the     *)
(* queue leads or has been signalled, and so has every writer that its     *)
(* leader completed (the signals at the end of DBImpl::Write).             *)
THEOREM FrontIsAwake == Spec => []NoLostSignal
<1>1. AInv => NoLostSignal
  BY Zenon DEF AInv, SigInv
<1> QED
  BY AnswersInvariance, <1>1, PTL

(* A sync write that DBImpl::Write answered OK, for the leader or through  *)
(* its leader, is in a synced log record or in a table, whatever is        *)
(* grouped, whatever fails and whenever the log file is switched.          *)
THEOREM SyncWritesDurable == Spec => []SyncedIsDurable
<1>1. AInv => SyncedIsDurable
  BY Zenon DEF AInv, DurInv
<1> QED
  BY AnswersInvariance, <1>1, PTL

(* A call of Write that returned OK is in the database exactly once, with  *)
(* a number that is visible and above all that was visible when it was     *)
(* called; a call that returned an error has left nothing there.           *)
THEOREM AnswersAreTrue == Spec => []ExactlyOnce
<1>1. Init => OInv
  BY CountingHolds, TInvInit, AnswersInit, OnceInit, Zenon DEF OInv, AInv
<1>2. OInv /\ [Next]_vars => OInv'
  <2>1. OInv /\ [Next]_vars => AInv'
    BY AnswersNext, TypeNext, QueueNext, InputsNext, Zenon DEF OInv, AInv, TInv
  <2> QED
    BY <2>1, OnceNext, Zenon DEF OInv
<1>3. OInv => ExactlyOnce
  <2>1. SUFFICES ASSUME OInv, NEW a \in answers
                 PROVE  LET mine == {e \in Store : e.id = a.id}
                        IN  IF a.ok THEN /\ Cardinality(mine) = 1
                                         /\ \A e \in mine : a.after < e.seq /\ e.seq <= lastSeq
                                    ELSE mine = {}
    BY Zenon DEF ExactlyOnce
  <2>2. Truthful(a)
    BY <2>1, OnceTypes, Zenon DEF OnceInv
  <2>3. CASE a.ok
    <3>1. PICK x \in Store : x.id = a.id /\ a.after < x.seq /\ x.seq <= lastSeq
      BY <2>2, <2>3, Zenon DEF Truthful, Once
    <3>2. {e \in Store : e.id = a.id} = {x}
      BY <2>2, <2>3, <3>1, Zenon DEF Truthful, Once
    <3>3. Cardinality({x}) = 1
      BY FS_Singleton, Zenon
    <3> QED
      BY <2>3, <3>1, <3>2, <3>3, Zenon
  <2>4. CASE ~a.ok
    BY <2>2, <2>4, Zenon DEF Truthful, Absent
  <2> QED
    BY <2>3, <2>4, Zenon
<1> QED
  BY <1>1, <1>2, <1>3, PTL DEF Spec

=============================================================================
