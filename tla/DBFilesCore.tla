---------------------------- MODULE DBFilesCore ----------------------------
(***************************************************************************)
(* The invariant of the files of a LevelDB database (module DBFiles), the  *)
(* lemmas that the proofs about it share, and its first two parts.         *)
(*                                                                         *)
(* The lemmas say what a recovery of a MANIFEST finds, what an edit more   *)
(* changes, which numbers a recovery takes from a log file and what a      *)
(* deletion of obsolete files leaves.  The parts: every variable keeps its *)
(* type, and no step takes away a table that is in use or that a recovery  *)
(* may find, nor the MANIFEST that CURRENT names.                          *)
(***************************************************************************)
EXTENDS DBFiles, WellFoundedInduction, TLAPS

----------------------------------------------------------------------------
(* Least and greatest elements of sets of natural numbers.                 *)

LEMMA LeastExists ==
  ASSUME NEW S \in SUBSET Nat, S # {}
  PROVE  \E x \in S : \A y \in S : x <= y
<1>1. PICK x \in S : \A y \in S : ~(<<y, x>> \in OpToRel(<, Nat))
  BY NatLessThanWellFounded, WFMin, Zenon
<1>2. \A y \in S : y \in Nat /\ x \in Nat /\ ~(y < x)
  BY <1>1, Zenon DEF OpToRel
<1> QED
  BY <1>2

LEMMA MinIsLeast ==
  ASSUME NEW S \in SUBSET Nat, S # {}
  PROVE  Min(S) \in S /\ \A y \in S : Min(S) <= y
<1>1. \E x \in S : \A y \in S : x <= y
  BY LeastExists, Zenon
<1> QED
  BY <1>1, Zenon DEF Min

LEMMA MaxIsGreatest ==
  ASSUME NEW S \in SUBSET Nat, S # {}, NEW b \in Nat, \A x \in S : x <= b
  PROVE  Max(S) \in S /\ \A y \in S : Max(S) >= y
<1> DEFINE Bounds == {k \in Nat : \A x \in S : x <= k}
<1>1. Bounds \in SUBSET Nat /\ Bounds # {}
  BY Zenon
<1>2. PICK m \in Bounds : \A y \in Bounds : m <= y
  BY <1>1, LeastExists, Zenon
<1>3. m \in S
  <2>1. SUFFICES ASSUME m \notin S PROVE FALSE
    BY Zenon
  <2>2. \A x \in S : x \in Nat /\ m \in Nat /\ x <= m /\ x # m
    BY <2>1, Zenon
  <2>3. \A x \in S : x <= m - 1 /\ m - 1 \in Nat
    BY <2>2
  <2>4. m - 1 \in Bounds
    BY <2>3, Zenon
  <2> QED
    BY <1>2, <2>4
<1>4. \A y \in S : m >= y
  BY Zenon
<1> QED
  BY <1>3, <1>4, Zenon DEF Max

LEMMA MaxOfTwo ==
  ASSUME NEW x \in Nat, NEW y \in Nat
  PROVE  Max({x, y}) \in {x, y} /\ Max({x, y}) >= x /\ Max({x, y}) >= y
<1>1. {x, y} \in SUBSET Nat /\ {x, y} # {} /\ x + y \in Nat /\ \A z \in {x, y} : z <= x + y
  OBVIOUS
<1> QED
  BY <1>1, MaxIsGreatest, Zenon

----------------------------------------------------------------------------
(* What VersionSet::Recover reads from a MANIFEST.                         *)

(* The last edit that can be read, and that there is only one.             *)
LEMMA LastEditIs ==
  ASSUME NEW E, NEW n \in Nat, NEW i \in 1..n, E[i].ok, \A j \in (i + 1)..n : ~E[j].ok
  PROVE  LastEdit(E, n) = E[i]
<1> DEFINE Last(k) == E[k].ok /\ \A j \in (k + 1)..n : ~E[j].ok
<1>1. \A k \in 1..n : Last(k) => k = i
  <2> SUFFICES ASSUME NEW k \in 1..n, Last(k), k # i PROVE FALSE
    BY Zenon
  <2>1. k \in (i + 1)..n \/ i \in (k + 1)..n
    OBVIOUS
  <2> QED
    BY <2>1, Zenon
<1>2. Last(i)
  BY Zenon
<1>3. (CHOOSE k \in 1..n : Last(k)) = i
  BY <1>1, <1>2, Zenon
<1> QED
  BY <1>3, Zenon DEF LastEdit

LEMMA LastEditExists ==
  ASSUME NEW E, NEW n \in Nat
  PROVE  \/ LastEdit(E, n) = NoEdit /\ \A i \in 1..n : ~E[i].ok
         \/ \E i \in 1..n : /\ E[i].ok /\ \A j \in (i + 1)..n : ~E[j].ok
                            /\ LastEdit(E, n) = E[i]
<1>1. CASE \A i \in 1..n : ~E[i].ok
  BY <1>1, Zenon DEF LastEdit
<1>2. CASE \E i \in 1..n : E[i].ok
  <2> DEFINE oks == {i \in 1..n : E[i].ok}
  <2>1. oks \in SUBSET Nat /\ oks # {} /\ \A i \in oks : i <= n
    BY <1>2
  <2>2. PICK m : m = Max(oks)
    BY Zenon
  <2>3. m \in oks /\ \A i \in oks : m >= i
    BY <2>1, <2>2, MaxIsGreatest, Zenon
  <2>4. \A j \in (m + 1)..n : j \in 1..n /\ ~(m >= j)
    BY <2>3
  <2>5. m \in 1..n /\ E[m].ok /\ \A j \in (m + 1)..n : ~E[j].ok
    BY <2>3, <2>4, Zenon
  <2> QED
    BY <2>5, LastEditIs, Zenon
<1> QED
  BY <1>1, <1>2, Zenon

(* Only the edits it reads matter.                                         *)
LEMMA ReplaySame ==
  ASSUME NEW E, NEW F, NEW n \in Nat, \A i \in 1..n : E[i] = F[i]
  PROVE  Replay(E, n) = Replay(F, n)
<1>1. LastEdit(E, n) = LastEdit(F, n)
  <2>1. CASE \A i \in 1..n : ~E[i].ok
    BY <2>1, Zenon DEF LastEdit
  <2>2. CASE \E i \in 1..n : /\ E[i].ok /\ \A j \in (i + 1)..n : ~E[j].ok
                             /\ LastEdit(E, n) = E[i]
    <3>1. PICK i \in 1..n : /\ E[i].ok /\ \A j \in (i + 1)..n : ~E[j].ok
                            /\ LastEdit(E, n) = E[i]
      BY <2>2, Zenon
    <3>2. \A j \in (i + 1)..n : j \in 1..n
      OBVIOUS
    <3>3. LastEdit(F, n) = F[i]
      BY <3>1, <3>2, LastEditIs, Zenon
    <3> QED
      BY <3>1, <3>3, Zenon
  <2> QED
    BY <2>1, <2>2, LastEditExists, Zenon
<1>2. UNION {E[i].add : i \in 1..n} = UNION {F[i].add : i \in 1..n}
  BY Zenon
<1>3. Replay(E, n).files = Replay(F, n).files
  BY <1>2 DEF Replay
<1> QED
  BY <1>1, <1>3, Zenon DEF Replay

(* The edits that the program makes.                                       *)
LEMMA NoEditTyped ==
  /\ NoEdit \in Edits /\ FirstEdit \in Edits
  /\ \A s \in SUBSET Nat : [NoEdit EXCEPT !.add = s] \in Edits
<1>1. \A s \in SUBSET Nat :
        /\ [NoEdit EXCEPT !.add = s].log = 0
        /\ [NoEdit EXCEPT !.add = s] \in [add : SUBSET Nat, del : SUBSET Nat, log : Nat,
                                          next : Nat, last : Nat, ok : BOOLEAN]
  BY Zenon DEF NoEdit
<1>2. NoEdit \in Edits /\ FirstEdit \in Edits
  BY Zenon DEF NoEdit, FirstEdit, Edits
<1> QED
  BY <1>1, <1>2, Zenon DEF Edits

(* An edit of which a part was written.                                    *)
LEMMA TornTyped ==
  ASSUME NEW e \in Edits
  PROVE  /\ [e EXCEPT !.ok = FALSE] \in Edits /\ ~[e EXCEPT !.ok = FALSE].ok
         /\ [e EXCEPT !.ok = FALSE].last = e.last /\ [e EXCEPT !.ok = FALSE].next = e.next
<1>1. /\ e \in [add : SUBSET Nat, del : SUBSET Nat, log : Nat, next : Nat, last : Nat,
                ok : BOOLEAN]
      /\ e.log = 0 \/ e.log < e.next
  BY Zenon DEF Edits
<1>2. PICK t : t = [e EXCEPT !.ok = FALSE]
  BY Zenon
<1>3. /\ t \in [add : SUBSET Nat, del : SUBSET Nat, log : Nat, next : Nat, last : Nat,
                ok : BOOLEAN]
      /\ t.log = e.log /\ t.next = e.next /\ t.last = e.last /\ ~t.ok
  BY <1>1, <1>2, Zenon
<1>4. t \in Edits
  BY <1>1, <1>3, Zenon DEF Edits
<1> QED
  BY <1>2, <1>3, <1>4, Zenon

LEMMA ReplayTyped ==
  ASSUME NEW E \in Seq(Edits), NEW n \in 0..Len(E)
  PROVE  /\ Replay(E, n).files \subseteq Nat /\ Replay(E, n).bad \in BOOLEAN
         /\ Replay(E, n).log \in Nat /\ Replay(E, n).next \in Nat
         /\ Replay(E, n).last \in Nat
         /\ Replay(E, n).log = 0 \/ Replay(E, n).log < Replay(E, n).next
<1>1. \A i \in 1..n : E[i] \in Edits
  OBVIOUS
<1>2. LastEdit(E, n) \in Edits
  <2>1. NoEdit \in Edits /\ n \in Nat
    BY NoEditTyped
  <2> QED
    BY <1>1, <2>1, LastEditExists, Zenon
<1>3. \A i \in 1..n : E[i].add \subseteq Nat
  BY <1>1, Zenon DEF Edits
<1> QED
  BY <1>2, <1>3, Zenon DEF Replay, Edits

LEMMA ReplayNothing ==
  ASSUME NEW E
  PROVE  /\ Replay(E, 0).files = {} /\ Replay(E, 0).bad
         /\ Replay(E, 0).log = 0 /\ Replay(E, 0).next = 0 /\ Replay(E, 0).last = 0
<1>1. LastEdit(E, 0) = NoEdit
  BY DEF LastEdit
<1>2. 1..0 = {}
  OBVIOUS
<1>3. Replay(E, 0).files = {}
  BY <1>2, Zenon DEF Replay
<1>4. Replay(E, 0).bad = (LastEdit(E, 0).next = 0 \/ \E i \in 1..0 : ~E[i].ok)
  BY Zenon DEF Replay
<1>5. LastEdit(E, 0).next = 0
  BY <1>1 DEF NoEdit
<1>6. Replay(E, 0).bad
  BY <1>4, <1>5, Zenon
<1> QED
  BY <1>1, <1>3, <1>6 DEF Replay, NoEdit

(* An edit more.                                                           *)
LEMMA ReplayMore ==
  ASSUME NEW E \in Seq(Edits), NEW n \in 1..Len(E)
  PROVE  /\ E[n].ok => /\ Replay(E, n).files = (Replay(E, n - 1).files \ E[n].del)
                                                 \cup E[n].add
                       /\ Replay(E, n).log = E[n].log /\ Replay(E, n).next = E[n].next
                       /\ Replay(E, n).last = E[n].last
         /\ ~E[n].ok => /\ Replay(E, n).files = Replay(E, n - 1).files
                        /\ Replay(E, n).log = Replay(E, n - 1).log
                        /\ Replay(E, n).next = Replay(E, n - 1).next
                        /\ Replay(E, n).last = Replay(E, n - 1).last
                        /\ Replay(E, n).bad
<1>1. n \in Nat /\ n - 1 \in Nat /\ n - 1 < n
  OBVIOUS
<1>2. \A f, m : f \in Replay(E, m).files <=>
         \E i \in 1..m : /\ E[i].ok /\ f \in E[i].add
                         /\ \A j \in (i + 1)..m : E[j].ok => f \notin E[j].del
  BY Zenon DEF Replay
<1>3. CASE E[n].ok
  <2>1. n \in 1..n /\ \A j \in (n + 1)..n : ~E[j].ok
    BY <1>1
  <2>2. LastEdit(E, n) = E[n]
    BY <1>1, <1>3, <2>1, LastEditIs, Zenon
  <2>3. ASSUME NEW f, f \in Replay(E, n).files, f \notin E[n].add
        PROVE  f \in Replay(E, n - 1).files /\ f \notin E[n].del
    <3>1. PICK i \in 1..n : /\ E[i].ok /\ f \in E[i].add
                            /\ \A j \in (i + 1)..n : E[j].ok => f \notin E[j].del
      BY <1>2, <2>3, Zenon
    <3>2. i \in 1..(n - 1) /\ n \in (i + 1)..n
      BY <1>1, <2>3, <3>1
    <3>3. \A j \in (i + 1)..(n - 1) : j \in (i + 1)..n
      BY <1>1
    <3> QED
      BY <1>2, <1>3, <3>1, <3>2, <3>3, Zenon
  <2>4. ASSUME NEW f, f \in Replay(E, n - 1).files, f \notin E[n].del
        PROVE  f \in Replay(E, n).files
    <3>1. PICK i \in 1..(n - 1) :
            /\ E[i].ok /\ f \in E[i].add
            /\ \A j \in (i + 1)..(n - 1) : E[j].ok => f \notin E[j].del
      BY <1>2, <2>4, Zenon
    <3>2. i \in 1..n /\ \A j \in (i + 1)..n : j = n \/ j \in (i + 1)..(n - 1)
      BY <1>1
    <3> QED
      BY <1>2, <2>4, <3>1, <3>2, Zenon
  <2>5. ASSUME NEW f \in E[n].add PROVE f \in Replay(E, n).files
    <3>1. (n + 1)..n = {}
      BY <1>1
    <3> QED
      BY <1>2, <1>3, <3>1
  <2>6. Replay(E, n).files = (Replay(E, n - 1).files \ E[n].del) \cup E[n].add
    BY <2>3, <2>4, <2>5, Zenon
  <2> QED
    BY <1>3, <2>2, <2>6, Zenon DEF Replay
<1>4. CASE ~E[n].ok
  <2>1. \A i \in 1..n : i = n \/ i \in 1..(n - 1)
    BY <1>1
  <2>2. LastEdit(E, n) = LastEdit(E, n - 1)
    <3>1. CASE LastEdit(E, n - 1) = NoEdit /\ \A i \in 1..(n - 1) : ~E[i].ok
      BY <1>4, <2>1, <3>1, Zenon DEF LastEdit
    <3>2. ASSUME NEW i \in 1..(n - 1), E[i].ok, \A j \in (i + 1)..(n - 1) : ~E[j].ok,
                 LastEdit(E, n - 1) = E[i]
          PROVE  LastEdit(E, n) = LastEdit(E, n - 1)
      <4>1. i \in 1..n /\ \A j \in (i + 1)..n : j = n \/ j \in (i + 1)..(n - 1)
        BY <1>1
      <4> QED
        BY <1>1, <1>4, <3>2, <4>1, LastEditIs, Zenon
    <3> QED
      BY <1>1, <3>1, <3>2, LastEditExists, Zenon
  <2>3. ASSUME NEW f, f \in Replay(E, n).files PROVE f \in Replay(E, n - 1).files
    <3>1. PICK i \in 1..n : /\ E[i].ok /\ f \in E[i].add
                            /\ \A j \in (i + 1)..n : E[j].ok => f \notin E[j].del
      BY <1>2, <2>3, Zenon
    <3>2. i \in 1..(n - 1) /\ \A j \in (i + 1)..(n - 1) : j \in (i + 1)..n
      BY <1>1, <1>4, <3>1
    <3> QED
      BY <1>2, <3>1, <3>2, Zenon
  <2>4. ASSUME NEW f, f \in Replay(E, n - 1).files PROVE f \in Replay(E, n).files
    <3>1. PICK i \in 1..(n - 1) :
            /\ E[i].ok /\ f \in E[i].add
            /\ \A j \in (i + 1)..(n - 1) : E[j].ok => f \notin E[j].del
      BY <1>2, <2>4, Zenon
    <3>2. i \in 1..n /\ \A j \in (i + 1)..n : j = n \/ j \in (i + 1)..(n - 1)
      BY <1>1
    <3> QED
      BY <1>2, <1>4, <3>1, <3>2, Zenon
  <2>5. Replay(E, n).files = Replay(E, n - 1).files
    BY <2>3, <2>4, Zenon
  <2>6. Replay(E, n).bad
    <3>1. Replay(E, n).bad = (LastEdit(E, n).next = 0 \/ \E i \in 1..n : ~E[i].ok)
      BY Zenon DEF Replay
    <3>2. \E i \in 1..n : ~E[i].ok
      BY <1>1, <1>4
    <3> QED
      BY <3>1, <3>2, Zenon
  <2> QED
    BY <1>4, <2>2, <2>5, <2>6, Zenon DEF Replay
<1> QED
  BY <1>3, <1>4, Zenon

(* The same, for a position and an edit that are known by other names.     *)
Applies(v, u, e) ==
  /\ e.ok => /\ v.files = (u.files \ e.del) \cup e.add
             /\ v.log = e.log /\ v.next = e.next /\ v.last = e.last
  /\ ~e.ok => /\ v.files = u.files /\ v.log = u.log /\ v.next = u.next /\ v.last = u.last
              /\ v.bad
LEMMA ReplayNext ==
  ASSUME NEW E \in Seq(Edits), NEW n \in 1..Len(E), NEW m, n - 1 = m, NEW e, E[n] = e
  PROVE  Applies(Replay(E, n), Replay(E, m), e)
  BY ReplayMore, Zenon DEF Applies

(* When every edit is readable, only an empty MANIFEST and one that ends   *)
(* with the snapshot of a version are refused.                             *)
LEMMA ReplayGood ==
  ASSUME NEW E, NEW n \in Nat, \A i \in 1..n : E[i].ok
  PROVE  Replay(E, n).bad <=> Replay(E, n).next = 0
<1>1. Replay(E, n).bad = (LastEdit(E, n).next = 0 \/ \E i \in 1..n : ~E[i].ok)
  BY Zenon DEF Replay
<1>2. Replay(E, n).next = LastEdit(E, n).next
  BY Zenon DEF Replay
<1> QED
  BY <1>1, <1>2, Zenon

----------------------------------------------------------------------------
(* The inductive invariant.                                                *)

Records == [w : Writes, ok : BOOLEAN]

(* Types of the files.                                                     *)
LogTypes ==
  /\ DOMAIN logs \subseteq 0..MaxFile
  /\ \A l \in DOMAIN logs : /\ logs[l] \in [recs : Seq(Records), synced : Nat]
                            /\ logs[l].synced <= Len(logs[l].recs)
TableTypes ==
  /\ DOMAIN tables \subseteq 0..MaxFile
  /\ \A t \in DOMAIN tables : tables[t] \in [data : SUBSET Writes, ok : BOOLEAN]
ManifestTypes ==
  /\ DOMAIN manifests \subseteq 1..MaxFile
  /\ \A m \in DOMAIN manifests :
       /\ manifests[m] \in [edits : Seq(Edits), synced : Nat]
       /\ manifests[m].synced <= Len(manifests[m].edits)
FileTypes == LogTypes /\ TableTypes /\ ManifestTypes

(* Types of the state of the process, and of the history.                  *)
VerTypes ==
  /\ current \in Nat
  /\ vs \in [next : Nat, man : Nat, log : Nat, last : Nat]
  /\ cur \subseteq Nat /\ pins \in [Readers -> SUBSET Nat] /\ pending \subseteq Nat
MemTypes ==
  /\ mem \subseteq Writes /\ imm \subseteq Writes /\ hasImm \in BOOLEAN /\ logNum \in Nat
ProcTypes ==
  /\ up \in {"down", "newdb", "recovering", "opening", "open", "corrupt"}
  /\ bgError \in BOOLEAN
  /\ wr \in [pc : {"idle", "append", "sync", "insert"}, w : Writes, sync : BOOLEAN]
  /\ fl \in [pc : {"idle", "build", "apply"}, num : Nat]
  /\ cp \in [pc : {"idle", "work", "apply"}, out : Nat, inputs : SUBSET Nat,
             ver : SUBSET Nat]
ApplyTypes ==
  /\ ap \in [pc : {"idle", "append", "sync", "current", "install"},
             kind : {"none", "flush", "compact", "move", "open"}, edit : Edits]
  /\ rc \in [todo : SUBSET Nat, add : SUBSET Nat, max : Nat, ok : BOOLEAN]
HistTypes ==
  /\ issued \in Nat /\ crashes \in Nat
  /\ acked \subseteq [w : Writes, sync : BOOLEAN]
StateTypes == VerTypes /\ MemTypes /\ ProcTypes /\ ApplyTypes /\ HistTypes

(* No sequence number is larger than the number of writes.                 *)
SeqBound ==
  /\ vs.last <= issued /\ rc.max <= issued
  /\ wr.pc # "idle" => wr.w.seq <= issued
  /\ ap.edit.last <= issued
  /\ \A l \in DOMAIN logs : \A i \in 1..Len(logs[l].recs) : logs[l].recs[i].w.seq <= issued
  /\ \A m \in DOMAIN manifests :
       \A i \in 1..Len(manifests[m].edits) : manifests[m].edits[i].last <= issued

(* What may go on at the same time.                                        *)
Alive == up \in {"recovering", "opening", "open"}
Phases ==
  /\ up # "open" => /\ ~hasImm /\ ~bgError /\ wr.pc = "idle" /\ fl.pc = "idle"
                    /\ cp.pc = "idle" /\ \A r \in Readers : pins[r] = {}
  /\ up \notin {"recovering", "opening"} => rc.add = {} /\ rc.todo = {}
  /\ up \in {"opening", "open"} => logNum \in DOMAIN logs
  /\ up = "opening" <=> ap.kind = "open"
  /\ ap.pc # "idle" => up \in {"opening", "open"}
  /\ ap.pc = "idle" <=> ap.kind = "none"
  /\ ap.pc = "idle" => ap.edit.add = {}
  /\ ap.pc = "current" => ap.kind = "open"
  /\ fl.pc = "apply" <=> ap.kind = "flush"
  /\ cp.pc = "apply" <=> ap.kind \in {"compact", "move"}
  /\ cp.pc = "idle" => cp.out = 0 /\ cp.inputs = {} /\ cp.ver = {}
  /\ fl.pc = "build" => ap.pc = "idle"
  /\ rc.todo \subseteq DOMAIN logs

(* The log being written is not older than the one the version records,    *)
(* nor than the one that the edit in progress will record.                 *)
LogOrder ==
  /\ up = "recovering" => vs.log <= vs.next
  /\ up \in {"opening", "open"} => vs.log <= logNum /\ logNum < vs.next
  /\ ap.pc # "idle" => ap.edit.log <= logNum

(* The files that are in use; those that a recovery may read, whatever a   *)
(* crash leaves of the MANIFEST; and those that are being written.         *)
V(n) == Replay(Manifest.edits, n)
InUse(f) == \/ f \in cur \/ f \in cp.ver \/ f \in rc.add \/ f \in ap.edit.add
            \/ \E r \in Readers : f \in pins[r]
Recorded(f) == \E n \in ManifestLengths : f \in V(n).files
Building(f) == \/ fl.pc = "build" /\ f = fl.num
               \/ cp.pc = "work" /\ cp.out # 0 /\ f = cp.out

(* A file in use is there and complete; one being written is protected.    *)
TablesInv ==
  /\ \A f : InUse(f) \/ Recorded(f) => f \in DOMAIN tables /\ tables[f].ok
  /\ \A f : InUse(f) => f < vs.next
  /\ \A f : Building(f) => /\ f \in DOMAIN tables /\ f \in pending /\ f < vs.next
                           /\ ~InUse(f) /\ ~Recorded(f)
  /\ fl.pc # "idle" /\ cp.out # 0 => fl.num # cp.out
  /\ cp.inputs \subseteq cp.ver

(* The edit of the LogAndApply in progress.                                *)
EditInv ==
  ap.pc # "idle" =>
    /\ ap.edit.ok /\ vs.man < ap.edit.next /\ ap.edit.next <= vs.next
    /\ \A f \in ap.edit.add : f < ap.edit.next
    /\ ap.kind = "open" => /\ ap.edit.add = rc.add /\ ap.edit.del = {}
                           /\ ap.edit.next = vs.next
    /\ ap.kind = "flush" => ap.edit.add \subseteq {fl.num} /\ ap.edit.del = {}
    /\ ap.kind = "compact" => /\ ap.edit.add = {cp.out} /\ ap.edit.del = cp.inputs
                              /\ cp.out # 0
    /\ ap.kind = "move" => ap.edit.add \subseteq cur /\ ap.edit.del = ap.edit.add

(* A recovery of the first n edits of the MANIFEST CURRENT names.          *)
RecoveryInv(n) ==
  /\ \A f \in V(n).files : f < V(n).next
  /\ ~V(n).bad => current < V(n).next
  /\ up # "open" => V(n).next <= V(Len(Manifest.edits)).next
  /\ Alive => V(n).next <= vs.next
  /\ ap.pc = "append" /\ ap.kind # "open" => V(n).next <= ap.edit.next

(* The MANIFEST CURRENT names, and the one that DB::Open writes.           *)
Snapshot == [NoEdit EXCEPT !.add = cur]
ManifestInv ==
  /\ current # 0 => current \in DOMAIN manifests
  /\ Alive => current # 0 /\ vs.man < vs.next
  /\ up = "newdb" => /\ current = 0 /\ 1 \in DOMAIN manifests
                     /\ manifests[1] = [edits |-> <<FirstEdit>>, synced |-> 0]
  /\ up = "recovering" => current < vs.man
  /\ up = "opening" =>
       /\ vs.man \in DOMAIN manifests /\ (current = vs.man <=> ap.pc = "install")
       /\ manifests[vs.man].edits =
            IF ap.pc = "append" THEN <<Snapshot>> ELSE <<Snapshot, ap.edit>>
       /\ ap.pc \notin {"append", "sync"} => manifests[vs.man].synced = 2
  /\ up = "open" => current = vs.man
  /\ \A n \in ManifestLengths : RecoveryInv(n)

(* As long as nothing has failed, the MANIFEST tells what the current      *)
(* version is; DeleteObsoleteFiles relies on it.                           *)
ExactInv ==
  up = "open" /\ ~bgError =>
    /\ ap.pc # "sync" => Manifest.synced = Len(Manifest.edits)
    /\ V(Len(Manifest.edits)).files =
         IF ap.pc \in {"idle", "append"} THEN cur ELSE NewVersion

TInv == FileTypes /\ StateTypes /\ SeqBound /\ Phases /\ LogOrder
FInv == TInv /\ TablesInv /\ EditInv /\ ManifestInv /\ ExactInv

(* What a crash leaves of the MANIFEST ends with an edit that has the next *)
(* file number, which the snapshot at its beginning lacks.                 *)
Numbered == \A n \in ManifestLengths \ {0} : Manifest.edits[n].next # 0

(* A database stays created, and its MANIFEST whole, when no edit is torn. *)
Good ==
  /\ current # 0 /\ 0 \notin ManifestLengths
  /\ \A i \in 1..Len(Manifest.edits) : Manifest.edits[i].ok

----------------------------------------------------------------------------
(* Types.                                                                  *)

LEMMA StartTypes == Init => TInv
<1> SUFFICES ASSUME Init PROVE TInv
  BY Zenon
<1>1. FirstEdit \in Edits /\ NoEdit \in Edits
  BY NoEditTyped, Zenon
<1>2. LogTypes /\ TableTypes
  BY Zenon DEF Init, NoFiles, LogTypes, TableTypes
<1>3. ManifestTypes
  <2>1. <<FirstEdit>> \in Seq(Edits) /\ Len(<<FirstEdit>>) = 1
    BY <1>1
  <2> QED
    BY <2>1, BoundAssumption DEF Init, NoFiles, ManifestTypes
<1>4. StateTypes
  BY <1>1, Zenon DEF Init, StateTypes, VerTypes, MemTypes, ProcTypes, ApplyTypes,
     HistTypes,
              NoVs, NoWr, NoFl, NoCp, NoAp, NoRc, Writes
<1>5. SeqBound
  BY <1>1 DEF Init, SeqBound, NoFiles, NoVs, NoRc, NoWr, NoAp, NoEdit, FirstEdit
<1>6. Phases
  BY Zenon DEF Init, Phases, NoWr, NoFl, NoCp, NoAp, NoRc, NoEdit
<1>7. LogOrder
  BY Zenon DEF Init, LogOrder, NoAp
<1> QED
  BY <1>2, <1>3, <1>4, <1>5, <1>6, <1>7, Zenon DEF TInv, FileTypes

(* What DeleteObsoleteFiles does: it only removes files.                   *)
LEMMA DeleteRemoves ==
  ASSUME NEW versions, NEW outputs, NEW logNumber, NEW mans, NEW error,
         DeleteObsoleteFiles(versions, outputs, logNumber, mans, error)
  PROVE  /\ DOMAIN logs' \subseteq DOMAIN logs /\ \A l \in DOMAIN logs' : logs'[l] = logs[l]
         /\ DOMAIN tables' \subseteq DOMAIN tables
         /\ \A t \in DOMAIN tables' : tables'[t] = tables[t]
         /\ DOMAIN manifests' \subseteq DOMAIN mans
         /\ \A m \in DOMAIN manifests' : manifests'[m] = mans[m]
<1>1. CASE error
  BY <1>1, Zenon DEF DeleteObsoleteFiles
<1>2. CASE ~error
  BY <1>2, Zenon DEF DeleteObsoleteFiles, Restrict
<1> QED
  BY <1>1, <1>2, Zenon

LEMMA LogTypesStep ==
  ASSUME FInv, Next
  PROVE  LogTypes'
<1>1. /\ LogTypes /\ Phases /\ VerTypes /\ ProcTypes
  BY Zenon DEF FInv, TInv, FileTypes, StateTypes
<1>2. \A k \in Nat : vs.next <= k => vs.next \in 0..k
  BY <1>1 DEF VerTypes
<1>3. [recs |-> <<>>, synced |-> 0] \in [recs : Seq(Records), synced : Nat]
  OBVIOUS
<1>4. CASE UNCHANGED logs
  BY <1>1, <1>4, Zenon DEF LogTypes
<1>5. ASSUME vs.next <= MaxFile,
             logs' = With(logs, vs.next, [recs |-> <<>>, synced |-> 0])
      PROVE  LogTypes'
  BY <1>1, <1>2, <1>3, <1>5, BoundAssumption DEF LogTypes, With
<1>6. ASSUME DOMAIN logs' \subseteq DOMAIN logs, \A l \in DOMAIN logs' : logs'[l] = logs[l]
      PROVE  LogTypes'
  BY <1>1, <1>6, Zenon DEF LogTypes
<1>7. CASE SwitchLog
  BY <1>5, <1>7, Zenon DEF SwitchLog
<1>8. CASE AddRecord
  <2>1. logNum \in DOMAIN logs
    BY <1>1, <1>8, Zenon DEF Phases, AddRecord
  <2>2. PICK r : r = logs[logNum]
    BY Zenon
  <2>3. /\ r \in [recs : Seq(Records), synced : Nat] /\ r.synced <= Len(r.recs)
    BY <1>1, <2>1, <2>2, Zenon DEF LogTypes
  <2>4. ASSUME NEW ok \in BOOLEAN,
               logs' = With(logs, logNum, [r EXCEPT !.recs = Append(@, [w |-> wr.w, ok |-> ok])])
        PROVE  LogTypes'
    <3>1. [w |-> wr.w, ok |-> ok] \in Records
      BY <1>1, Zenon DEF ProcTypes, Records
    <3>2. PICK s : s = Append(r.recs, [w |-> wr.w, ok |-> ok])
      BY Zenon
    <3>3. s \in Seq(Records) /\ Len(s) = Len(r.recs) + 1 /\ Len(r.recs) \in Nat
      BY <2>3, <3>1, <3>2
    <3>4. [r EXCEPT !.recs = s] \in [recs : Seq(Records), synced : Nat]
      BY <2>3, <3>3, Zenon
    <3>5. [r EXCEPT !.recs = s].synced <= Len([r EXCEPT !.recs = s].recs)
      BY <2>3, <3>3
    <3>6. logs' = With(logs, logNum, [r EXCEPT !.recs = s])
      BY <2>4, <3>2, Zenon
    <3> QED
      BY <1>1, <2>1, <3>4, <3>5, <3>6, Zenon DEF LogTypes, With
  <2> QED
    BY <1>4, <1>8, <2>2, <2>4, Zenon DEF AddRecord
<1>9. CASE SyncLog
  <2>1. CASE logs' = [logs EXCEPT ![logNum].synced = Len(logs[logNum].recs)]
    <3>1. \A l \in DOMAIN logs : /\ logs[l] \in [recs : Seq(Records), synced : Nat]
                                 /\ Len(logs[l].recs) \in Nat
      BY <1>1 DEF LogTypes
    <3> QED
      BY <1>1, <2>1, <3>1 DEF LogTypes
  <2> QED
    BY <1>4, <1>9, <2>1, Zenon DEF SyncLog
<1>10. CASE FlushInstall
  BY <1>6, <1>10, DeleteRemoves, Zenon DEF FlushInstall
<1>11. CASE CompactInstall
  BY <1>6, <1>11, DeleteRemoves, Zenon DEF CompactInstall
<1>12. CASE OpenInstall
  BY <1>6, <1>12, DeleteRemoves, Zenon DEF OpenInstall
<1>13. CASE CompactFail
  BY <1>6, <1>13, DeleteRemoves, Zenon DEF CompactFail
<1>14. CASE CompactFinish
  BY <1>4, <1>6, <1>14, DeleteRemoves, Zenon DEF CompactFinish
<1>15. CASE OpenApply
  BY <1>5, <1>15, Zenon DEF OpenApply
<1>16. CASE Crash
  <2>1. PICK keep \in [DOMAIN logs -> 0..MaxWrites] :
          /\ \A l \in DOMAIN logs : keep[l] \in logs[l].synced..Len(logs[l].recs)
          /\ logs' = [l \in DOMAIN logs |-> [recs |-> SubSeq(logs[l].recs, 1, keep[l]),
                                             synced |-> keep[l]]]
    BY <1>16, Zenon DEF Crash
  <2>2. ASSUME NEW l \in DOMAIN logs
        PROVE  /\ logs'[l] \in [recs : Seq(Records), synced : Nat]
               /\ logs'[l].synced <= Len(logs'[l].recs)
    <3>1. logs[l].recs \in Seq(Records) /\ logs[l].synced \in Nat
      BY <1>1, Zenon DEF LogTypes
    <3>2. keep[l] \in Nat /\ keep[l] <= Len(logs[l].recs)
      BY <2>1, <3>1
    <3>3. PICK s : s = SubSeq(logs[l].recs, 1, keep[l])
      BY Zenon
    <3>4. s \in Seq(Records) /\ Len(s) = keep[l]
      BY <3>1, <3>2, <3>3
    <3>5. logs'[l] = [recs |-> s, synced |-> keep[l]]
      BY <2>1, <3>3, Zenon
    <3> QED
      BY <3>2, <3>4, <3>5
  <2> QED
    BY <1>1, <2>1, <2>2, Zenon DEF LogTypes
<1>17. CASE BeginWrite \/ Insert \/ MoveInstall \/ CompactStart \/ OpenRecover \/ OpenGiveUp
            \/ (\E r \in Readers : Pin(r) \/ Unpin(r))
  BY <1>4, <1>17, Zenon
     DEF BeginWrite, Insert, MoveInstall, CompactStart, OpenRecover,
     OpenGiveUp,
                     Pin, Unpin, disk
<1>18. CASE \/ ApplyAppend \/ ApplySync \/ ApplyCurrent \/ FlushFail \/ OpenFail \/ FlushStart
            \/ FlushBuilt \/ CompactOpenOutput \/ NewDB \/ NewDBCurrent \/ RecoverLogFile
  BY <1>4, <1>18, Zenon DEF ApplyAppend, ApplySync, ApplyCurrent, FlushFail,
     OpenFail, FlushStart,
                     FlushBuilt, CompactOpenOutput, NewDB, NewDBCurrent, RecoverLogFile
<1> QED
  BY <1>7, <1>8, <1>9, <1>10, <1>11, <1>12, <1>13, <1>14, <1>15, <1>16, <1>17,
     <1>18, Zenon DEF Next

LEMMA TableTypesStep ==
  ASSUME FInv, Next
  PROVE  TableTypes'
<1>1. /\ LogTypes /\ TableTypes /\ MemTypes /\ VerTypes /\ ProcTypes /\ Phases /\ TablesInv
  BY Zenon DEF FInv, TInv, FileTypes, StateTypes
<1>2. CASE UNCHANGED tables
  BY <1>1, <1>2, Zenon DEF TableTypes
<1>3. ASSUME NEW d \in SUBSET Writes, NEW ok \in BOOLEAN, vs.next <= MaxFile,
             tables' = With(tables, vs.next, [data |-> d, ok |-> ok])
      PROVE  TableTypes'
  <2>1. vs.next \in 0..MaxFile
    BY <1>1, <1>3, BoundAssumption DEF VerTypes
  <2> QED
    BY <1>1, <1>3, <2>1, Zenon DEF TableTypes, With
<1>4. ASSUME DOMAIN tables' \subseteq DOMAIN tables,
             \A t \in DOMAIN tables' : tables'[t] = tables[t]
      PROVE  TableTypes'
  BY <1>1, <1>4, Zenon DEF TableTypes
<1>5. CASE FlushInstall
  BY <1>4, <1>5, DeleteRemoves, Zenon DEF FlushInstall
<1>6. CASE CompactInstall
  BY <1>4, <1>6, DeleteRemoves, Zenon DEF CompactInstall
<1>7. CASE OpenInstall
  BY <1>4, <1>7, DeleteRemoves, Zenon DEF OpenInstall
<1>8. CASE CompactFail
  BY <1>4, <1>8, DeleteRemoves, Zenon DEF CompactFail
<1>9. CASE FlushStart
  BY <1>3, <1>9, Zenon DEF FlushStart
<1>10. CASE CompactOpenOutput
  BY <1>3, <1>10, Zenon DEF CompactOpenOutput
<1>11. CASE FlushBuilt
  <2>1. ASSUME tables' = [tables EXCEPT ![fl.num] = [data |-> imm, ok |-> TRUE]]
        PROVE  TableTypes'
    BY <1>1, <2>1, Zenon DEF TableTypes, MemTypes
  <2>2. ASSUME tables' = Restrict(tables, DOMAIN tables \ {fl.num})
        PROVE  TableTypes'
    BY <1>4, <2>2, Zenon DEF Restrict
  <2> QED
    BY <1>11, <2>1, <2>2, Zenon DEF FlushBuilt, BuildTable
<1>12. CASE CompactFinish
  <2> DEFINE d == UNION {tables[f].data : f \in cp.inputs}
  <2>1. ASSUME tables' = [tables EXCEPT ![cp.out] = [data |-> d, ok |-> TRUE]]
        PROVE  TableTypes'
    <3>1. \A f \in cp.inputs : f \in DOMAIN tables
      BY <1>1, Zenon DEF TablesInv, InUse
    <3>2. d \in SUBSET Writes
      BY <1>1, <3>1, Zenon DEF TableTypes
    <3> HIDE DEF d
    <3> QED
      BY <1>1, <2>1, <3>2, Zenon DEF TableTypes
  <2> QED
    BY <1>4, <1>12, <2>1, DeleteRemoves, Zenon DEF CompactFinish
<1>13. CASE RecoverLogFile
  <2>1. rc.todo # {} /\ rc.todo \in SUBSET Nat
    BY <1>1, <1>13 DEF RecoverLogFile, Phases, LogTypes
  <2>2. PICK l \in rc.todo : l = Min(rc.todo)
    BY <2>1, MinIsLeast, Zenon
  <2>3. logs[l].recs \in Seq(Records)
    BY <1>1, Zenon DEF Phases, LogTypes
  <2>4. \A i \in 1..Len(logs[l].recs) : logs[l].recs[i].w \in Writes
    <3>1. \A i \in 1..Len(logs[l].recs) : logs[l].recs[i] \in Records
      BY <2>3
    <3> QED
      BY <3>1, Zenon DEF Records
  <2>5. Readable(logs[l].recs, AllRecords(l)) \in SUBSET Writes
    BY <2>4, Zenon DEF Readable, AllRecords
  <2>6. \/ UNCHANGED tables
        \/ /\ vs.next <= MaxFile
           /\ tables' = With(tables, vs.next,
                             [data |-> Readable(logs[l].recs, AllRecords(l)), ok |-> TRUE])
    BY <1>13, <2>2, Zenon DEF RecoverLogFile
  <2> QED
    BY <1>2, <1>3, <2>5, <2>6, Zenon
<1>14. CASE BeginWrite \/ Insert \/ MoveInstall \/ CompactStart \/ OpenRecover \/ OpenGiveUp
            \/ (\E r \in Readers : Pin(r) \/ Unpin(r))
  BY <1>2, <1>14, Zenon
     DEF BeginWrite, Insert, MoveInstall, CompactStart, OpenRecover,
     OpenGiveUp,
                     Pin, Unpin, disk
<1>15. CASE \/ SwitchLog \/ AddRecord \/ SyncLog \/ ApplyAppend \/ ApplySync \/ ApplyCurrent
            \/ FlushFail \/ OpenFail \/ NewDB \/ NewDBCurrent \/ OpenApply \/ Crash
  BY <1>2, <1>15, Zenon DEF SwitchLog, AddRecord, SyncLog, ApplyAppend, ApplySync,
     ApplyCurrent,
                     FlushFail, OpenFail, NewDB, NewDBCurrent, OpenApply, Crash
<1> QED
  BY <1>5, <1>6, <1>7, <1>8, <1>9, <1>10, <1>11, <1>12, <1>13, <1>14, <1>15, Zenon
     DEF Next

(* A MANIFEST with an edit more.                                           *)
LEMMA WithEditTyped ==
  ASSUME ManifestTypes, VerTypes, NEW e \in Edits
  PROVE  /\ DOMAIN WithEdit(e) = DOMAIN manifests
         /\ \A m \in DOMAIN manifests \ {vs.man} : WithEdit(e)[m] = manifests[m]
         /\ vs.man \in DOMAIN manifests =>
              /\ WithEdit(e)[vs.man].edits = Append(manifests[vs.man].edits, e)
              /\ WithEdit(e)[vs.man].synced = manifests[vs.man].synced
         /\ \A m \in DOMAIN manifests :
              /\ WithEdit(e)[m] \in [edits : Seq(Edits), synced : Nat]
              /\ WithEdit(e)[m].synced <= Len(WithEdit(e)[m].edits)
<1>1. \A m \in DOMAIN manifests : /\ manifests[m] \in [edits : Seq(Edits), synced : Nat]
                                  /\ manifests[m].synced <= Len(manifests[m].edits)
  BY Zenon DEF ManifestTypes
<1>2. /\ DOMAIN WithEdit(e) = DOMAIN manifests
      /\ \A m \in DOMAIN manifests \ {vs.man} : WithEdit(e)[m] = manifests[m]
  BY Zenon DEF WithEdit
<1>3. ASSUME vs.man \in DOMAIN manifests
      PROVE  /\ WithEdit(e)[vs.man].edits = Append(manifests[vs.man].edits, e)
             /\ WithEdit(e)[vs.man].synced = manifests[vs.man].synced
             /\ WithEdit(e)[vs.man] \in [edits : Seq(Edits), synced : Nat]
             /\ WithEdit(e)[vs.man].synced <= Len(WithEdit(e)[vs.man].edits)
  <2>1. PICK r : r = manifests[vs.man]
    BY Zenon
  <2>2. r \in [edits : Seq(Edits), synced : Nat] /\ r.synced <= Len(r.edits)
    BY <1>1, <1>3, <2>1, Zenon
  <2>3. PICK s : s = Append(r.edits, e)
    BY Zenon
  <2>4. s \in Seq(Edits) /\ Len(s) = Len(r.edits) + 1 /\ Len(r.edits) \in Nat
    BY <2>2, <2>3
  <2>5. WithEdit(e)[vs.man] = [r EXCEPT !.edits = s]
    BY <1>3, <2>1, <2>3, Zenon DEF WithEdit
  <2>6. /\ [r EXCEPT !.edits = s].edits = s /\ [r EXCEPT !.edits = s].synced = r.synced
        /\ [r EXCEPT !.edits = s] \in [edits : Seq(Edits), synced : Nat]
    BY <2>2, <2>4, Zenon
  <2>7. r.synced <= Len(s)
    BY <2>2, <2>4
  <2> QED
    BY <2>1, <2>3, <2>5, <2>6, <2>7, Zenon
<1> QED
  BY <1>1, <1>2, <1>3, Zenon

LEMMA ManifestTypesStep ==
  ASSUME FInv, Next
  PROVE  ManifestTypes'
<1>1. /\ ManifestTypes /\ VerTypes /\ ApplyTypes /\ ManifestInv
  BY Zenon DEF FInv, TInv, FileTypes, StateTypes
<1>2. CASE UNCHANGED manifests
  BY <1>1, <1>2, Zenon DEF ManifestTypes
<1>3. ASSUME NEW e \in Edits, manifests' = WithEdit(e) PROVE ManifestTypes'
  BY <1>1, <1>3, WithEditTyped, Zenon DEF ManifestTypes
<1>4. ASSUME DOMAIN manifests' \subseteq DOMAIN manifests,
             \A m \in DOMAIN manifests' : manifests'[m] = manifests[m]
      PROVE  ManifestTypes'
  BY <1>1, <1>4, Zenon DEF ManifestTypes
<1>5. ASSUME NEW m \in 1..MaxFile, NEW e \in Edits,
             manifests' = With(manifests, m, [edits |-> <<e>>, synced |-> 0])
      PROVE  ManifestTypes'
  <2>1. PICK s : s = <<e>>
    BY Zenon
  <2>2. s \in Seq(Edits) /\ 0 <= Len(s)
    BY <2>1
  <2> QED
    BY <1>1, <1>5, <2>1, <2>2, Zenon DEF ManifestTypes, With
<1>6. ap.edit \in Edits /\ [ap.edit EXCEPT !.ok = FALSE] \in Edits
  <2>1. ap.edit \in Edits
    BY <1>1, Zenon DEF ApplyTypes
  <2> QED
    BY <2>1, TornTyped, Zenon
<1>7. \A mans \in AfterFailedEdit :
        \/ mans = manifests
        \/ \E e \in Edits : mans = WithEdit(e)
  BY <1>6, Zenon DEF AfterFailedEdit
<1>8. CASE ApplyAppend
  BY <1>3, <1>6, <1>8, Zenon DEF ApplyAppend
<1>9. CASE ApplySync
  <2>1. \A m \in DOMAIN manifests : /\ manifests[m] \in [edits : Seq(Edits), synced : Nat]
                                    /\ Len(manifests[m].edits) \in Nat
    BY <1>1 DEF ManifestTypes
  <2> QED
    BY <1>1, <1>9, <2>1 DEF ApplySync, ManifestTypes
<1>10. CASE FlushInstall
  BY <1>4, <1>10, DeleteRemoves DEF FlushInstall
<1>11. CASE CompactInstall
  BY <1>4, <1>11, DeleteRemoves DEF CompactInstall
<1>12. CASE OpenInstall
  BY <1>4, <1>12, Zenon DEF OpenInstall, DeleteObsoleteFiles, Restrict
<1>13. CASE FlushFail
  BY <1>2, <1>3, <1>7, <1>13, Zenon DEF FlushFail
<1>14. CASE CompactFail
  BY <1>2, <1>3, <1>7, <1>14, Zenon DEF CompactFail, DeleteObsoleteFiles
<1>15. CASE OpenFail
  BY <1>4, <1>15, Zenon DEF OpenFail, Restrict
<1>16. CASE CompactFinish
  BY <1>2, <1>16, Zenon DEF CompactFinish, DeleteObsoleteFiles
<1>17. CASE NewDB
  <2>1. FirstEdit \in Edits
    BY NoEditTyped, Zenon
  <2>2. 1 \in 1..MaxFile
    BY BoundAssumption
  <2> QED
    BY <1>5, <1>17, <2>1, <2>2, Zenon DEF NewDB
<1>18. CASE OpenApply
  <2>1. [NoEdit EXCEPT !.add = cur] \in Edits
    BY <1>1, NoEditTyped, Zenon DEF VerTypes
  <2>2. vs.man \in 1..MaxFile
    <3>1. up = "recovering" /\ vs.next <= MaxFile
      BY <1>18, Zenon DEF OpenApply
    <3>2. current < vs.man /\ vs.man < vs.next
      BY <1>1, <3>1, Zenon DEF ManifestInv, Alive
    <3> QED
      BY <1>1, <3>1, <3>2, BoundAssumption DEF VerTypes
  <2> QED
    BY <1>5, <1>18, <2>1, <2>2, Zenon DEF OpenApply
<1>19. CASE Crash
  <2>1. current \in DOMAIN manifests => Manifest = manifests[current]
    BY Zenon DEF Manifest
  <2>0. PICK n \in ManifestLengths : \E tail \in Tails(Manifest.edits, n) :
          manifests' = [m \in DOMAIN manifests |->
            [edits |-> IF m = current THEN tail
                       ELSE SubSeq(manifests[m].edits, 1, manifests[m].synced),
             synced |-> Len(IF m = current THEN tail
                            ELSE SubSeq(manifests[m].edits, 1, manifests[m].synced))]]
    BY <1>19, Zenon DEF Crash
  <2>2. PICK tail \in Tails(Manifest.edits, n) :
          manifests' = [m \in DOMAIN manifests |->
            [edits |-> IF m = current THEN tail
                       ELSE SubSeq(manifests[m].edits, 1, manifests[m].synced),
             synced |-> Len(IF m = current THEN tail
                            ELSE SubSeq(manifests[m].edits, 1, manifests[m].synced))]]
    BY <2>0, Zenon
  <2>3. ASSUME NEW m \in DOMAIN manifests, NEW s \in Seq(Edits),
               manifests'[m] = [edits |-> s, synced |-> Len(s)]
        PROVE  /\ manifests'[m] \in [edits : Seq(Edits), synced : Nat]
               /\ manifests'[m].synced <= Len(manifests'[m].edits)
    <3>1. Len(s) \in Nat
      OBVIOUS
    <3> QED
      BY <2>3, <3>1
  <2>4. \A m \in DOMAIN manifests :
          /\ manifests[m].edits \in Seq(Edits) /\ manifests[m].synced \in Nat
          /\ manifests[m].synced <= Len(manifests[m].edits)
    BY <1>1, Zenon DEF ManifestTypes
  <2>5. ASSUME NEW m \in DOMAIN manifests, m # current
        PROVE  SubSeq(manifests[m].edits, 1, manifests[m].synced) \in Seq(Edits)
    BY <2>4
  <2>6. ASSUME current \in DOMAIN manifests PROVE tail \in Seq(Edits)
    <3>1. PICK E : E = Manifest.edits
      BY Zenon
    <3>2. E \in Seq(Edits) /\ n \in 0..Len(E)
      BY <2>1, <2>2, <2>4, <2>6, <3>1 DEF ManifestLengths
    <3>3. SubSeq(E, 1, n) \in Seq(Edits)
      BY <3>2
    <3>4. ASSUME n < Len(E)
          PROVE  Append(SubSeq(E, 1, n), [E[n + 1] EXCEPT !.ok = FALSE]) \in Seq(Edits)
      <4>1. E[n + 1] \in Edits
        BY <3>2, <3>4
      <4>2. [E[n + 1] EXCEPT !.ok = FALSE] \in Edits
        BY <4>1, TornTyped, Zenon
      <4> QED
        BY <3>3, <4>2
    <3> QED
      BY <2>2, <3>1, <3>3, <3>4, Zenon DEF Tails
  <2> QED
    BY <1>1, <2>2, <2>3, <2>5, <2>6, Zenon DEF ManifestTypes
<1>20. CASE BeginWrite \/ Insert \/ MoveInstall \/ CompactStart \/ OpenRecover \/ OpenGiveUp
            \/ (\E r \in Readers : Pin(r) \/ Unpin(r))
  BY <1>2, <1>20, Zenon
     DEF BeginWrite, Insert, MoveInstall, CompactStart, OpenRecover,
     OpenGiveUp,
                     Pin, Unpin, disk
<1>21. CASE \/ SwitchLog \/ AddRecord \/ SyncLog \/ ApplyCurrent \/ FlushStart \/ FlushBuilt
            \/ CompactOpenOutput \/ NewDBCurrent \/ RecoverLogFile
  BY <1>2, <1>21, Zenon DEF SwitchLog, AddRecord, SyncLog, ApplyCurrent, FlushStart,
     FlushBuilt,
                     CompactOpenOutput, NewDBCurrent, RecoverLogFile
<1> QED
  BY <1>8, <1>9, <1>10, <1>11, <1>12, <1>13, <1>14, <1>15, <1>16, <1>17, <1>18,
     <1>19, <1>20,
     <1>21, Zenon DEF Next

(* The numbers that a recovery takes from a log file.                      *)
LEMMA RecoverNumbers ==
  ASSUME FInv, RecoverLogFile
  PROVE  LET l == Min(rc.todo)
             data == Readable(logs[l].recs, AllRecords(l))
             max == Max({rc.max} \cup {w.seq : w \in data})
         IN  /\ l \in rc.todo /\ l \in DOMAIN logs /\ l \in Nat
             /\ \A k \in rc.todo : l <= k
             /\ data \subseteq Writes
             /\ max \in Nat /\ max <= issued /\ rc.max <= max
             /\ \A w \in data : w.seq <= max
             /\ \A n \in Nat : /\ Max({n, l + 1}) \in Nat
                               /\ Max({n, l + 1}) >= n /\ Max({n, l + 1}) >= l + 1
<1>1. /\ LogTypes /\ ApplyTypes /\ HistTypes /\ SeqBound /\ Phases
  BY Zenon DEF FInv, TInv, FileTypes, StateTypes
<1>2. rc.todo # {} /\ rc.todo \in SUBSET Nat
  BY <1>1 DEF RecoverLogFile, Phases, LogTypes
<1>3. PICK l \in rc.todo : l = Min(rc.todo) /\ \A k \in rc.todo : l <= k
  BY <1>2, MinIsLeast, Zenon
<1>4. l \in DOMAIN logs /\ l \in Nat
  BY <1>1, <1>2, Zenon DEF Phases
<1>5. PICK data : data = Readable(logs[l].recs, AllRecords(l))
  BY Zenon
<1>6. \A i \in 1..Len(logs[l].recs) :
        logs[l].recs[i].w \in Writes /\ logs[l].recs[i].w.seq <= issued
  <2>1. logs[l].recs \in Seq(Records)
    BY <1>1, <1>4, Zenon DEF LogTypes
  <2>2. \A i \in 1..Len(logs[l].recs) : logs[l].recs[i] \in Records
    BY <2>1
  <2> QED
    BY <1>1, <1>4, <2>2, Zenon DEF Records, SeqBound
<1>7. \A w \in data : w \in Writes /\ w.seq <= issued
  BY <1>5, <1>6, Zenon DEF Readable, AllRecords
<1>8. PICK S : S = {rc.max} \cup {w.seq : w \in data}
  BY Zenon
<1>9. S \in SUBSET Nat /\ S # {} /\ issued \in Nat /\ \A x \in S : x <= issued
  BY <1>1, <1>7, <1>8 DEF Writes, SeqBound, ApplyTypes, HistTypes
<1>10. Max(S) \in S /\ \A y \in S : Max(S) >= y
  BY <1>9, MaxIsGreatest, Zenon
<1>11. /\ Max(S) \in Nat /\ Max(S) <= issued /\ rc.max <= Max(S)
       /\ \A w \in data : w.seq <= Max(S)
  BY <1>8, <1>9, <1>10, Zenon
<1>12. ASSUME NEW n \in Nat
       PROVE  /\ Max({n, l + 1}) \in Nat
              /\ Max({n, l + 1}) >= n /\ Max({n, l + 1}) >= l + 1
  <2>1. l + 1 \in Nat
    BY <1>4
  <2>2. Max({n, l + 1}) \in {n, l + 1} /\ Max({n, l + 1}) >= n /\ Max({n, l + 1}) >= l + 1
    BY <2>1, MaxOfTwo, Zenon
  <2> QED
    BY <2>1, <2>2, Zenon
<1> QED
  BY <1>3, <1>4, <1>5, <1>7, <1>8, <1>11, <1>12, Zenon

LEMMA ManifestTyped ==
  ASSUME ManifestTypes
  PROVE  /\ Manifest.edits \in Seq(Edits) /\ Manifest.synced \in Nat
         /\ Len(Manifest.edits) \in Nat /\ Manifest.synced <= Len(Manifest.edits)
         /\ Len(Manifest.edits) \in ManifestLengths
         /\ ManifestLengths \subseteq 0..Len(Manifest.edits)
         /\ \A n \in 0..Len(Manifest.edits) :
              /\ V(n).files \subseteq Nat /\ V(n).bad \in BOOLEAN /\ V(n).log \in Nat
              /\ V(n).next \in Nat /\ V(n).last \in Nat
              /\ V(n).log = 0 \/ V(n).log < V(n).next
<1>1. /\ Manifest.edits \in Seq(Edits) /\ Manifest.synced \in Nat
      /\ Manifest.synced <= Len(Manifest.edits)
  BY DEF Manifest, ManifestTypes
<1>2. Len(Manifest.edits) \in Nat
  BY <1>1
<1>3. /\ Len(Manifest.edits) \in ManifestLengths
      /\ ManifestLengths \subseteq 0..Len(Manifest.edits)
  BY <1>1, <1>2 DEF ManifestLengths
<1> QED
  BY <1>1, <1>2, <1>3, ReplayTyped, Zenon DEF V

(* The edit that LogAndApply completes.                                    *)
LEMMA BeginApplyTyped ==
  ASSUME NEW kind \in {"flush", "compact", "move", "open"}, NEW add \in SUBSET Nat,
         NEW del \in SUBSET Nat, NEW log \in Nat,
         NEW v \in [next : Nat, man : Nat, log : Nat, last : Nat],
         log = 0 \/ log < v.next, BeginApply(kind, add, del, log, v)
  PROVE  ap' \in [pc : {"idle", "append", "sync", "current", "install"},
                  kind : {"none", "flush", "compact", "move", "open"}, edit : Edits]
<1>1. PICK e : e = [add |-> add, del |-> del, log |-> log, next |-> v.next, last |-> v.last,
                    ok |-> TRUE]
  BY Zenon
<1>2. e \in Edits
  BY <1>1, Zenon DEF Edits
<1>3. ap' = [pc |-> "append", kind |-> kind, edit |-> e]
  BY <1>1, Zenon DEF BeginApply
<1> QED
  BY <1>2, <1>3, Zenon

LEMMA StateTypesStep ==
  ASSUME FInv, Next
  PROVE  StateTypes'
<1>1. /\ ManifestTypes /\ LogTypes /\ VerTypes /\ MemTypes /\ ProcTypes /\ ApplyTypes
      /\ HistTypes /\ Phases /\ LogOrder
  BY Zenon DEF FInv, TInv, FileTypes, StateTypes
<1>2. CASE SwitchLog
  <2>1. ProcTypes' /\ ApplyTypes' /\ HistTypes'
    BY <1>1, <1>2 DEF SwitchLog, procVars, ProcTypes, ApplyTypes, hist, HistTypes
  <2>2. VerTypes'
    BY <1>1, <1>2 DEF SwitchLog, verVars, disk, VerTypes
  <2>3. MemTypes'
    BY <1>1, <1>2, Zenon DEF SwitchLog, memVars, MemTypes, VerTypes
  <2> QED
    BY <2>1, <2>2, <2>3, Zenon DEF StateTypes
<1>3. CASE BeginWrite
  <2>1. VerTypes' /\ MemTypes' /\ ApplyTypes'
    BY <1>1, <1>3, Zenon
       DEF BeginWrite, verVars, disk, VerTypes, memVars, MemTypes, procVars,
       ApplyTypes
  <2>2. ProcTypes'
    BY <1>1, <1>3 DEF BeginWrite, Writes, procVars, ProcTypes, VerTypes, HistTypes
  <2>3. HistTypes'
    BY <1>1, <1>3 DEF BeginWrite, hist, HistTypes
  <2> QED
    BY <2>1, <2>2, <2>3, Zenon DEF StateTypes
<1>4. CASE AddRecord
  <2>1. MemTypes' /\ ApplyTypes' /\ HistTypes'
    BY <1>1, <1>4, Zenon
       DEF AddRecord, memVars, MemTypes, procVars, ApplyTypes, hist,
       HistTypes
  <2>2. VerTypes'
    BY <1>1, <1>4, Zenon
       DEF AddRecord, EndWrite, Writes, verVars, disk, VerTypes, ProcTypes
  <2>3. ProcTypes'
    <3>1. wr' = NoWr \/ \E pc \in {"sync", "insert"} : wr' = [wr EXCEPT !.pc = pc]
      BY <1>4, Zenon DEF AddRecord, EndWrite
    <3>2. NoWr \in [pc : {"idle", "append", "sync", "insert"}, w : Writes, sync : BOOLEAN]
      BY Zenon DEF NoWr, Writes
    <3>3. wr' \in [pc : {"idle", "append", "sync", "insert"}, w : Writes, sync : BOOLEAN]
      BY <1>1, <3>1, <3>2 DEF ProcTypes
    <3> QED
      BY <1>1, <1>4, <3>3, Zenon DEF AddRecord, ProcTypes
  <2> QED
    BY <2>1, <2>2, <2>3, Zenon DEF StateTypes
<1>5. CASE SyncLog
  <2>1. MemTypes' /\ ApplyTypes' /\ HistTypes'
    BY <1>1, <1>5, Zenon
       DEF SyncLog, memVars, MemTypes, procVars, ApplyTypes, hist, HistTypes
  <2>2. VerTypes'
    BY <1>1, <1>5 DEF SyncLog, EndWrite, Writes, verVars, disk, VerTypes, ProcTypes
  <2>3. ProcTypes'
    <3>1. wr' = NoWr \/ \E pc \in {"sync", "insert"} : wr' = [wr EXCEPT !.pc = pc]
      BY <1>5, Zenon DEF SyncLog, EndWrite
    <3>2. NoWr \in [pc : {"idle", "append", "sync", "insert"}, w : Writes, sync : BOOLEAN]
      BY Zenon DEF NoWr, Writes
    <3>3. wr' \in [pc : {"idle", "append", "sync", "insert"}, w : Writes, sync : BOOLEAN]
      BY <1>1, <3>1, <3>2, Zenon DEF ProcTypes
    <3> QED
      BY <1>1, <1>5, <3>3, Zenon DEF SyncLog, ProcTypes
  <2> QED
    BY <2>1, <2>2, <2>3, Zenon DEF StateTypes
<1>6. CASE Insert
  <2>1. ApplyTypes'
    BY <1>1, <1>6, Zenon DEF Insert, procVars, ApplyTypes
  <2>2. VerTypes'
    BY <1>1, <1>6, Zenon
       DEF Insert, EndWrite, Writes, verVars, disk, VerTypes, ProcTypes
  <2>3. MemTypes'
    BY <1>1, <1>6, Zenon DEF Insert, memVars, MemTypes, ProcTypes
  <2>4. ProcTypes'
    BY <1>1, <1>6, Zenon DEF Insert, EndWrite, NoWr, Writes, procVars, ProcTypes
  <2>5. HistTypes'
    BY <1>1, <1>6 DEF Insert, hist, HistTypes, ProcTypes
  <2> QED
    BY <2>1, <2>2, <2>3, <2>4, <2>5, Zenon DEF StateTypes
<1>7. CASE ApplyAppend
  <2>1. VerTypes' /\ MemTypes' /\ ProcTypes' /\ HistTypes'
    BY <1>1, <1>7
       DEF ApplyAppend, verVars, disk, VerTypes, memVars, MemTypes, procVars,
       ProcTypes, hist, HistTypes
  <2>2. ApplyTypes'
    BY <1>1, <1>7, Zenon DEF ApplyAppend, procVars, ApplyTypes
  <2> QED
    BY <2>1, <2>2, Zenon DEF StateTypes
<1>8. CASE ApplySync
  <2>1. VerTypes' /\ MemTypes' /\ ProcTypes' /\ HistTypes'
    BY <1>1, <1>8
       DEF ApplySync, verVars, disk, VerTypes, memVars, MemTypes, procVars,
       ProcTypes, hist, HistTypes
  <2>2. ApplyTypes'
    BY <1>1, <1>8, Zenon DEF ApplySync, procVars, ApplyTypes
  <2> QED
    BY <2>1, <2>2, Zenon DEF StateTypes
<1>9. CASE ApplyCurrent
  <2>1. MemTypes' /\ ProcTypes' /\ HistTypes'
    BY <1>1, <1>9 DEF ApplyCurrent, memVars, MemTypes, procVars, ProcTypes, hist,
       HistTypes
  <2>2. VerTypes'
    BY <1>1, <1>9, Zenon DEF ApplyCurrent, verVars, disk, VerTypes
  <2>3. ApplyTypes'
    BY <1>1, <1>9, Zenon DEF ApplyCurrent, procVars, ApplyTypes
  <2> QED
    BY <2>1, <2>2, <2>3, Zenon DEF StateTypes
<1>10. CASE FlushInstall
  <2>1. HistTypes'
    BY <1>1, <1>10, Zenon DEF FlushInstall, hist, HistTypes
  <2>2. VerTypes'
    BY <1>1, <1>10, Zenon
       DEF FlushInstall, NewVersion, Edits, verVars, disk, VerTypes,
       ApplyTypes
  <2>3. MemTypes'
    BY <1>1, <1>10, Zenon DEF FlushInstall, memVars, MemTypes
  <2>4. ProcTypes'
    BY <1>1, <1>10, Zenon DEF FlushInstall, NoFl, procVars, ProcTypes
  <2>5. ApplyTypes'
    BY <1>1, <1>10, Zenon
       DEF FlushInstall, NoAp, NoEdit, Edits, procVars, ApplyTypes
  <2> QED
    BY <2>1, <2>2, <2>3, <2>4, <2>5, Zenon DEF StateTypes
<1>11. CASE CompactInstall
  <2>1. MemTypes' /\ HistTypes'
    BY <1>1, <1>11, Zenon DEF CompactInstall, memVars, MemTypes, hist, HistTypes
  <2>2. VerTypes'
    BY <1>1, <1>11, Zenon
       DEF CompactInstall, NewVersion, Edits, verVars, disk, VerTypes,
       ApplyTypes
  <2>3. ProcTypes'
    BY <1>1, <1>11, Zenon DEF CompactInstall, NoCp, procVars, ProcTypes
  <2>4. ApplyTypes'
    BY <1>1, <1>11, Zenon
       DEF CompactInstall, NoAp, NoEdit, Edits, procVars, ApplyTypes
  <2> QED
    BY <2>1, <2>2, <2>3, <2>4, Zenon DEF StateTypes
<1>12. CASE MoveInstall
  <2>1. MemTypes' /\ HistTypes'
    BY <1>1, <1>12, Zenon DEF MoveInstall, memVars, MemTypes, hist, HistTypes
  <2>2. VerTypes'
    BY <1>1, <1>12, Zenon
       DEF MoveInstall, NewVersion, Edits, verVars, disk, VerTypes,
       ApplyTypes
  <2>3. ProcTypes'
    BY <1>1, <1>12, Zenon DEF MoveInstall, NoCp, procVars, ProcTypes
  <2>4. ApplyTypes'
    BY <1>1, <1>12, Zenon DEF MoveInstall, NoAp, NoEdit, Edits, procVars, ApplyTypes
  <2> QED
    BY <2>1, <2>2, <2>3, <2>4, Zenon DEF StateTypes
<1>13. CASE OpenInstall
  <2>1. MemTypes' /\ HistTypes'
    BY <1>1, <1>13, Zenon DEF OpenInstall, memVars, MemTypes, hist, HistTypes
  <2>2. VerTypes'
    BY <1>1, <1>13, Zenon
       DEF OpenInstall, NewVersion, Edits, verVars, disk, VerTypes,
       ApplyTypes
  <2>3. ProcTypes'
    BY <1>1, <1>13, Zenon DEF OpenInstall, procVars, ProcTypes
  <2>4. ApplyTypes'
    BY <1>1, <1>13, Zenon
       DEF OpenInstall, NoAp, NoRc, NoEdit, Edits, procVars, ApplyTypes
  <2> QED
    BY <2>1, <2>2, <2>3, <2>4, Zenon DEF StateTypes
<1>14. CASE FlushFail
  <2>1. VerTypes' /\ MemTypes' /\ HistTypes'
    BY <1>1, <1>14, Zenon
       DEF FlushFail, verVars, disk, VerTypes, memVars, MemTypes, hist,
       HistTypes
  <2>2. ProcTypes'
    BY <1>1, <1>14 DEF FlushFail, NoFl, NoCp, procVars, ProcTypes
  <2>3. ApplyTypes'
    BY <1>1, <1>14, Zenon DEF FlushFail, NoAp, NoEdit, Edits, procVars, ApplyTypes
  <2> QED
    BY <2>1, <2>2, <2>3, Zenon DEF StateTypes
<1>15. CASE CompactFail
  <2>1. MemTypes' /\ HistTypes'
    BY <1>1, <1>15, Zenon DEF CompactFail, memVars, MemTypes, hist, HistTypes
  <2>2. VerTypes'
    BY <1>1, <1>15, Zenon DEF CompactFail, verVars, disk, VerTypes
  <2>3. ProcTypes'
    BY <1>1, <1>15, Zenon DEF CompactFail, NoCp, procVars, ProcTypes
  <2>4. ApplyTypes'
    BY <1>1, <1>15, Zenon DEF CompactFail, NoAp, NoEdit, Edits, procVars, ApplyTypes
  <2> QED
    BY <2>1, <2>2, <2>3, <2>4, Zenon DEF StateTypes
<1>16. CASE OpenFail
  <2>1. HistTypes'
    BY <1>1, <1>16, Zenon DEF OpenFail, hist, HistTypes
  <2>2. VerTypes'
    BY <1>1, <1>16, Zenon DEF OpenFail, Reset, NoVs, verVars, disk, VerTypes
  <2>3. MemTypes'
    BY <1>1, <1>16, Zenon DEF OpenFail, Reset, memVars, MemTypes
  <2>4. ProcTypes'
    BY <1>1, <1>16, Zenon DEF OpenFail, Reset, NoWr, NoFl, NoCp, Writes, procVars,
       ProcTypes
  <2>5. ApplyTypes'
    BY <1>1, <1>16, Zenon
       DEF OpenFail, Reset, NoAp, NoRc, NoEdit, Edits, procVars, ApplyTypes
  <2> QED
    BY <2>1, <2>2, <2>3, <2>4, <2>5, Zenon DEF StateTypes
<1>17. CASE FlushStart
  <2>1. MemTypes' /\ ApplyTypes' /\ HistTypes'
    BY <1>1, <1>17, Zenon
       DEF FlushStart, memVars, MemTypes, procVars, ApplyTypes, hist,
       HistTypes
  <2>2. VerTypes'
    BY <1>1, <1>17 DEF FlushStart, verVars, disk, VerTypes
  <2>3. ProcTypes'
    BY <1>1, <1>17, Zenon DEF FlushStart, procVars, ProcTypes, VerTypes
  <2> QED
    BY <2>1, <2>2, <2>3, Zenon DEF StateTypes
<1>18. CASE FlushBuilt
  <2>1. MemTypes' /\ HistTypes'
    BY <1>1, <1>18, Zenon DEF FlushBuilt, memVars, MemTypes, hist, HistTypes
  <2>2. VerTypes'
    BY <1>1, <1>18, Zenon DEF FlushBuilt, verVars, disk, VerTypes
  <2>3. ProcTypes'
    <3>1. fl' = [fl EXCEPT !.pc = "apply"] \/ fl' = NoFl
      BY <1>18, Zenon DEF FlushBuilt
    <3>2. fl' \in [pc : {"idle", "build", "apply"}, num : Nat]
      BY <1>1, <3>1 DEF ProcTypes, NoFl
    <3> QED
      BY <1>1, <1>18, <3>2, Zenon DEF FlushBuilt, ProcTypes
  <2>4. ApplyTypes'
    <3>0. logNum < vs.next
      BY <1>1, <1>18, Zenon DEF FlushBuilt, Phases, LogOrder
    <3>1. PICK add : add = IF imm = {} THEN {} ELSE {fl.num}
      BY Zenon
    <3>2. add \in SUBSET Nat /\ logNum \in Nat
          /\ vs \in [next : Nat, man : Nat, log : Nat, last : Nat]
      BY <1>1, <3>1, Zenon DEF ProcTypes, MemTypes, VerTypes
    <3>3. BeginApply("flush", add, {}, logNum, vs) \/ UNCHANGED ap
      BY <1>18, <3>1, Zenon DEF FlushBuilt
    <3> QED
      BY <1>1, <1>18, <3>0, <3>2, <3>3, BeginApplyTyped, Zenon DEF FlushBuilt, ApplyTypes
  <2> QED
    BY <2>1, <2>2, <2>3, <2>4, Zenon DEF StateTypes
<1>19. CASE CompactStart
  <2>1. VerTypes' /\ MemTypes' /\ HistTypes'
    BY <1>1, <1>19, Zenon
       DEF CompactStart, verVars, disk, VerTypes, memVars, MemTypes, hist,
       HistTypes
  <2>2. ProcTypes'
    BY <1>1, <1>19 DEF CompactStart, NoCp, procVars, ProcTypes, VerTypes
  <2>3. ApplyTypes'
    <3>1. \/ UNCHANGED ap
          \/ \E inputs \in SUBSET cur : BeginApply("move", inputs, inputs, vs.log, vs)
      BY <1>19, Zenon DEF CompactStart
    <3>2. /\ cur \in SUBSET Nat /\ vs.log \in Nat
          /\ vs \in [next : Nat, man : Nat, log : Nat, last : Nat]
      BY <1>1, Zenon DEF VerTypes
    <3>3. vs.log < vs.next
      <4>1. vs.log <= logNum /\ logNum < vs.next
        BY <1>1, <1>19, Zenon DEF CompactStart, LogOrder
      <4> QED
        BY <1>1, <4>1 DEF VerTypes, MemTypes
    <3> QED
      BY <1>1, <1>19, <3>1, <3>2, <3>3, BeginApplyTyped, Zenon
         DEF CompactStart, ApplyTypes
  <2> QED
    BY <2>1, <2>2, <2>3, Zenon DEF StateTypes
<1>20. CASE CompactOpenOutput
  <2>1. MemTypes' /\ ApplyTypes' /\ HistTypes'
    BY <1>1, <1>20, Zenon
       DEF CompactOpenOutput, memVars, MemTypes, procVars, ApplyTypes, hist,
       HistTypes
  <2>2. VerTypes'
    BY <1>1, <1>20 DEF CompactOpenOutput, verVars, disk, VerTypes
  <2>3. ProcTypes'
    BY <1>1, <1>20, Zenon DEF CompactOpenOutput, procVars, ProcTypes, VerTypes
  <2> QED
    BY <2>1, <2>2, <2>3, Zenon DEF StateTypes
<1>21. CASE CompactFinish
  <2>1. MemTypes' /\ HistTypes'
    BY <1>1, <1>21, Zenon DEF CompactFinish, memVars, MemTypes, hist, HistTypes
  <2>2. VerTypes'
    BY <1>1, <1>21, Zenon DEF CompactFinish, verVars, disk, VerTypes
  <2>3. ProcTypes'
    <3>1. cp' = [cp EXCEPT !.pc = "apply"] \/ cp' = NoCp
      BY <1>21, Zenon DEF CompactFinish
    <3>2. cp' \in [pc : {"idle", "work", "apply"}, out : Nat, inputs : SUBSET Nat,
                   ver : SUBSET Nat]
      BY <1>1, <3>1 DEF ProcTypes, NoCp
    <3> QED
      BY <1>1, <1>21, <3>2, Zenon DEF CompactFinish, ProcTypes
  <2>4. ApplyTypes'
    <3>1. UNCHANGED ap \/ BeginApply("compact", {cp.out}, cp.inputs, vs.log, vs)
      BY <1>21, Zenon DEF CompactFinish
    <3>2. /\ {cp.out} \in SUBSET Nat /\ cp.inputs \in SUBSET Nat /\ vs.log \in Nat
          /\ vs \in [next : Nat, man : Nat, log : Nat, last : Nat]
      BY <1>1, Zenon DEF VerTypes, ProcTypes
    <3>3. vs.log < vs.next
      <4>1. vs.log <= logNum /\ logNum < vs.next
        BY <1>1, <1>21, Zenon DEF CompactFinish, Phases, LogOrder
      <4> QED
        BY <1>1, <4>1 DEF VerTypes, MemTypes
    <3> QED
      BY <1>1, <1>21, <3>1, <3>2, <3>3, BeginApplyTyped, Zenon
         DEF CompactFinish, ApplyTypes
  <2> QED
    BY <2>1, <2>2, <2>3, <2>4, Zenon DEF StateTypes
<1>22. CASE NewDB
  <2>1. VerTypes' /\ MemTypes' /\ ApplyTypes' /\ HistTypes'
    BY <1>1, <1>22, Zenon
       DEF NewDB, verVars, disk, VerTypes, memVars, MemTypes, procVars,
       ApplyTypes, hist, HistTypes
  <2>2. ProcTypes'
    BY <1>1, <1>22, Zenon DEF NewDB, procVars, ProcTypes
  <2> QED
    BY <2>1, <2>2, Zenon DEF StateTypes
<1>23. CASE NewDBCurrent
  <2>1. MemTypes' /\ ApplyTypes' /\ HistTypes'
    BY <1>1, <1>23, Zenon
       DEF NewDBCurrent, memVars, MemTypes, procVars, ApplyTypes, hist,
       HistTypes
  <2>2. VerTypes'
    BY <1>1, <1>23, Zenon DEF NewDBCurrent, verVars, disk, VerTypes
  <2>3. ProcTypes'
    BY <1>1, <1>23, Zenon DEF NewDBCurrent, procVars, ProcTypes
  <2> QED
    BY <2>1, <2>2, <2>3, Zenon DEF StateTypes
<1>24. CASE OpenGiveUp
  <2>1. HistTypes'
    BY <1>1, <1>24, Zenon DEF OpenGiveUp, hist, HistTypes
  <2>2. VerTypes'
    BY <1>1, <1>24, Zenon DEF OpenGiveUp, Reset, NoVs, verVars, disk, VerTypes
  <2>3. MemTypes'
    BY <1>1, <1>24, Zenon DEF OpenGiveUp, Reset, memVars, MemTypes
  <2>4. ProcTypes'
    BY <1>1, <1>24, Zenon DEF OpenGiveUp, Reset, NoWr, NoFl, NoCp, Writes, procVars,
       ProcTypes
  <2>5. ApplyTypes'
    BY <1>1, <1>24, Zenon
       DEF OpenGiveUp, Reset, NoAp, NoRc, NoEdit, Edits, procVars,
       ApplyTypes
  <2> QED
    BY <2>1, <2>2, <2>3, <2>4, <2>5, Zenon DEF StateTypes
<1>25. CASE OpenApply
  <2> DEFINE v == [vs EXCEPT !.next = @ + 1, !.last = Max({@, rc.max})]
  <2>0. v \in [next : Nat, man : Nat, log : Nat, last : Nat]
    <3>1. Max({vs.last, rc.max}) \in Nat
      BY <1>1, MaxOfTwo DEF VerTypes, ApplyTypes
    <3>2. vs \in [next : Nat, man : Nat, log : Nat, last : Nat] /\ vs.next + 1 \in Nat
      BY <1>1 DEF VerTypes
    <3> QED
      BY <3>1, <3>2, Zenon
  <2>1. HistTypes'
    BY <1>1, <1>25, Zenon DEF OpenApply, hist, HistTypes
  <2>2. VerTypes'
    BY <1>1, <1>25, <2>0, Zenon DEF OpenApply, VerTypes
  <2>3. MemTypes'
    BY <1>1, <1>25, Zenon DEF OpenApply, memVars, MemTypes, VerTypes
  <2>4. ProcTypes'
    BY <1>1, <1>25, Zenon DEF OpenApply, procVars, ProcTypes
  <2>5. ApplyTypes'
    <3>1. BeginApply("open", rc.add, {}, vs.next, v)
      BY <1>25, Zenon DEF OpenApply
    <3>2. rc.add \in SUBSET Nat /\ vs.next \in Nat
      BY <1>1, Zenon DEF VerTypes, ApplyTypes
    <3>3. UNCHANGED rc
      BY <1>25, Zenon DEF OpenApply
    <3>4. vs.next < v.next
      <4>1. v.next = vs.next + 1
        BY <1>1, Zenon DEF VerTypes
      <4> HIDE DEF v
      <4> QED
        BY <3>2, <4>1
    <3> HIDE DEF v
    <3> QED
      BY <1>1, <2>0, <3>1, <3>2, <3>3, <3>4, BeginApplyTyped, Zenon DEF ApplyTypes
  <2> QED
    BY <2>1, <2>2, <2>3, <2>4, <2>5, Zenon DEF StateTypes
<1>26. CASE Crash
  <2>1. VerTypes'
    BY <1>1, <1>26, Zenon DEF Crash, Reset, NoVs, verVars, disk, VerTypes
  <2>2. MemTypes'
    BY <1>1, <1>26, Zenon DEF Crash, Reset, memVars, MemTypes
  <2>3. ProcTypes'
    BY <1>1, <1>26, Zenon DEF Crash, Reset, NoWr, NoFl, NoCp, Writes, procVars,
       ProcTypes
  <2>4. ApplyTypes'
    BY <1>1, <1>26, Zenon DEF Crash, Reset, NoAp, NoRc, NoEdit, Edits, procVars,
       ApplyTypes
  <2>5. HistTypes'
    BY <1>1, <1>26 DEF Crash, hist, HistTypes
  <2> QED
    BY <2>1, <2>2, <2>3, <2>4, <2>5, Zenon DEF StateTypes
<1>27. ASSUME NEW r \in Readers, Pin(r) \/ Unpin(r) PROVE StateTypes'
  <2>1. VerTypes'
    BY <1>1, <1>27, Zenon DEF Pin, Unpin, disk, VerTypes
  <2>2. MemTypes' /\ ProcTypes' /\ ApplyTypes' /\ HistTypes'
    BY <1>1, <1>27 DEF Pin, Unpin, memVars, procVars, hist, MemTypes, ProcTypes,
       ApplyTypes,
                      HistTypes
  <2> QED
    BY <2>1, <2>2, Zenon DEF StateTypes
<1>28. CASE OpenRecover
  <2>1. MemTypes' /\ HistTypes' /\ ProcTypes'
    BY <1>1, <1>28 DEF OpenRecover, memVars, hist, MemTypes, HistTypes, ProcTypes
  <2>2. CASE UNCHANGED <<vs, cur, rc>>
    BY <1>1, <1>28, <2>1, <2>2, Zenon
       DEF OpenRecover, disk, VerTypes, ApplyTypes, StateTypes
  <2>3. CASE ~UNCHANGED <<vs, cur, rc>>
    <3>1. PICK v : v = V(Len(Manifest.edits))
      BY Zenon
    <3>2. /\ v.files \subseteq Nat /\ v.log \in Nat /\ v.next \in Nat /\ v.last \in Nat
      BY <1>1, <3>1, ManifestTyped, Zenon
    <3>4. /\ vs' = [next |-> v.next + 1, man |-> v.next, log |-> v.log, last |-> v.last]
          /\ cur' = v.files /\ rc' = [NoRc EXCEPT !.todo = {l \in DOMAIN logs : l >= v.log}]
      BY <1>28, <2>3, <3>1, Zenon DEF OpenRecover, V
    <3>5. VerTypes'
      BY <1>1, <1>28, <3>2, <3>4 DEF OpenRecover, disk, VerTypes
    <3>6. ApplyTypes'
      <4>1. {l \in DOMAIN logs : l >= v.log} \in SUBSET Nat
        BY <1>1 DEF LogTypes
      <4>2. rc' \in [todo : SUBSET Nat, add : SUBSET Nat, max : Nat, ok : BOOLEAN]
        BY <3>4, <4>1, Zenon DEF NoRc
      <4> QED
        BY <1>1, <1>28, <4>2, Zenon DEF OpenRecover, ApplyTypes
    <3> QED
      BY <2>1, <3>5, <3>6, Zenon DEF StateTypes
  <2> QED
    BY <2>2, <2>3, Zenon
<1>29. CASE RecoverLogFile
  <2>1. MemTypes' /\ HistTypes' /\ ProcTypes'
    BY <1>1, <1>29 DEF RecoverLogFile, memVars, hist, MemTypes, HistTypes, ProcTypes
  <2>2. PICK l, data, max :
          /\ l = Min(rc.todo) /\ data = Readable(logs[l].recs, AllRecords(l))
          /\ max = Max({rc.max} \cup {w.seq : w \in data})
    BY Zenon
  <2>3. /\ max \in Nat
        /\ \A n \in Nat : Max({n, l + 1}) \in Nat
    BY <1>29, <2>2, RecoverNumbers, Zenon
  <2>4. \E n \in {vs.next, vs.next + 1} : vs' = [vs EXCEPT !.next = Max({n, l + 1})]
    BY <1>29, <2>2, Zenon DEF RecoverLogFile
  <2>5. vs.next \in Nat /\ vs.next + 1 \in Nat
    BY <1>1 DEF VerTypes
  <2>6. PICK k \in Nat : vs' = [vs EXCEPT !.next = k]
    BY <2>3, <2>4, <2>5, Zenon
  <2>7. VerTypes'
    BY <1>1, <1>29, <2>6, Zenon DEF RecoverLogFile, VerTypes
  <2>8. rc' \in [todo : SUBSET Nat, add : SUBSET Nat, max : Nat, ok : BOOLEAN]
    <3>1. \/ \E add \in {rc.add, rc.add \cup {vs.next}} : \E ok \in BOOLEAN :
               rc' = [todo |-> rc.todo \ {l}, add |-> add, ok |-> ok, max |-> max]
          \/ rc' = [rc EXCEPT !.todo = @ \ {l}, !.ok = TRUE]
      BY <1>29, <2>2, Zenon DEF RecoverLogFile
    <3>2. rc \in [todo : SUBSET Nat, add : SUBSET Nat, max : Nat, ok : BOOLEAN]
      BY <1>1, Zenon DEF ApplyTypes
    <3>3. CASE rc' = [rc EXCEPT !.todo = @ \ {l}, !.ok = TRUE]
      BY <3>2, <3>3, Zenon
    <3>4. ASSUME NEW add \in SUBSET Nat, NEW ok \in BOOLEAN,
                 rc' = [todo |-> rc.todo \ {l}, add |-> add, ok |-> ok, max |-> max]
          PROVE  rc' \in [todo : SUBSET Nat, add : SUBSET Nat, max : Nat, ok : BOOLEAN]
      <4>1. rc.todo \ {l} \in SUBSET Nat
        BY <3>2, Zenon
      <4> QED
        BY <2>3, <3>4, <4>1, Zenon
    <3>5. rc.add \in SUBSET Nat /\ rc.add \cup {vs.next} \in SUBSET Nat
      BY <2>5, <3>2, Zenon
    <3> QED
      BY <3>1, <3>3, <3>4, <3>5, Zenon
  <2>9. ApplyTypes'
    BY <1>1, <1>29, <2>8, Zenon DEF RecoverLogFile, ApplyTypes
  <2> QED
    BY <2>1, <2>7, <2>9, Zenon DEF StateTypes
<1> QED
  BY <1>2, <1>3, <1>4, <1>5, <1>6, <1>7, <1>8, <1>9, <1>10, <1>11, <1>12, <1>13,
     <1>14,
     <1>15, <1>16, <1>17, <1>18, <1>19, <1>20, <1>21, <1>22, <1>23, <1>24, <1>25, <1>26,
     <1>27, <1>28, <1>29, Zenon DEF Next

(* The last sequence number of a MANIFEST is that of one of its edits.     *)
LEMMA ReplayLast ==
  ASSUME NEW E \in Seq(Edits), NEW n \in 0..Len(E), NEW b \in Nat,
         \A i \in 1..Len(E) : E[i].last <= b
  PROVE  Replay(E, n).last <= b
<1>1. Replay(E, n).last = LastEdit(E, n).last
  BY Zenon DEF Replay
<1>2. CASE LastEdit(E, n) = NoEdit
  BY <1>1, <1>2 DEF NoEdit
<1>3. ASSUME NEW i \in 1..n, LastEdit(E, n) = E[i] PROVE Replay(E, n).last <= b
  <2>1. i \in 1..Len(E)
    OBVIOUS
  <2> QED
    BY <1>1, <1>3, <2>1, Zenon
<1>4. n \in Nat
  OBVIOUS
<1> QED
  BY <1>2, <1>3, <1>4, LastEditExists, Zenon

(* DeleteObsoleteFiles keeps the log that is being written.                *)
LEMMA CurrentLogKept ==
  ASSUME MemTypes, Phases, LogOrder, up \in {"opening", "open"},
         NEW versions, NEW outputs, NEW mans, NEW error,
         \/ ap.pc # "idle" /\ DeleteObsoleteFiles(versions, outputs, ap.edit.log, mans, error)
         \/ DeleteObsoleteFiles(versions, outputs, vs.log, mans, error)
  PROVE  logNum \in DOMAIN logs'
<1>1. logNum \in DOMAIN logs /\ logNum >= vs.log /\ (ap.pc # "idle" => logNum >= ap.edit.log)
  BY Zenon DEF Phases, LogOrder
<1>2. ASSUME NEW n, logNum >= n, DeleteObsoleteFiles(versions, outputs, n, mans, error)
      PROVE  logNum \in DOMAIN logs'
  BY <1>1, <1>2, Zenon DEF DeleteObsoleteFiles, Restrict
<1> QED
  BY <1>1, <1>2, Zenon

LEMMA BeginApplyStarts ==
  ASSUME NEW kind, NEW add, NEW del, NEW log, NEW v, BeginApply(kind, add, del, log, v)
  PROVE  /\ ap'.pc = "append" /\ ap'.kind = kind
         /\ ap'.edit.add = add /\ ap'.edit.del = del /\ ap'.edit.log = log
         /\ ap'.edit.next = v.next /\ ap'.edit.last = v.last /\ ap'.edit.ok
<1>1. ap' = [pc |-> "append", kind |-> kind,
             edit |-> [add |-> add, del |-> del, log |-> log, next |-> v.next,
                       last |-> v.last, ok |-> TRUE]]
  BY Zenon DEF BeginApply
<1> QED
  BY <1>1, Zenon

(* How DB::Open begins: it refuses the MANIFEST, or takes over its version *)
(* and numbers.                                                            *)
LEMMA OpenRecoverCases ==
  ASSUME ManifestTypes, OpenRecover
  PROVE  LET v == V(Len(Manifest.edits))
         IN  /\ up = "down" /\ current # 0
             /\ \/ /\ up' = "corrupt" /\ UNCHANGED <<vs, cur, rc>>
                   /\ v.bad \/ ~(v.files \subseteq AnyFile)
                \/ /\ up' = "recovering" /\ ~v.bad /\ v.files \subseteq AnyFile
                   /\ vs'.next \in Nat /\ vs'.next > v.next /\ vs'.next > v.log
                   /\ vs'.man = v.next /\ vs'.log = v.log /\ vs'.last = v.last
                   /\ cur' = v.files
                   /\ rc'.todo = {l \in DOMAIN logs : l >= v.log}
                   /\ rc'.add = {} /\ rc'.max = 0 /\ rc'.ok
<1>1. PICK v : v = V(Len(Manifest.edits))
  BY Zenon
<1>2. v.log \in Nat /\ v.next \in Nat /\ (v.log = 0 \/ v.log < v.next)
  BY <1>1, ManifestTyped, Zenon
<1>4. /\ up = "down" /\ current # 0
      /\ IF v.bad \/ ~(v.files \subseteq AnyFile)
         THEN up' = "corrupt" /\ UNCHANGED <<vs, cur, rc>>
         ELSE /\ up' = "recovering"
              /\ vs' = [next |-> v.next + 1, man |-> v.next, log |-> v.log, last |-> v.last]
              /\ cur' = v.files
              /\ rc' = [NoRc EXCEPT !.todo = {l \in DOMAIN logs : l >= v.log}]
  BY <1>1, Zenon DEF OpenRecover, V
<1>5. CASE v.bad \/ ~(v.files \subseteq AnyFile)
  BY <1>1, <1>4, <1>5, Zenon
<1>6. CASE ~(v.bad \/ ~(v.files \subseteq AnyFile))
  <2>1. /\ vs' = [next |-> v.next + 1, man |-> v.next, log |-> v.log, last |-> v.last]
        /\ rc' = [NoRc EXCEPT !.todo = {l \in DOMAIN logs : l >= v.log}]
    BY <1>4, <1>6, Zenon
  <2>2. /\ vs'.next = v.next + 1 /\ vs'.man = v.next /\ vs'.log = v.log /\ vs'.last = v.last
    BY <2>1, Zenon
  <2>3. /\ rc'.todo = {l \in DOMAIN logs : l >= v.log}
        /\ rc'.add = {} /\ rc'.max = 0 /\ rc'.ok
    BY <2>1, Zenon DEF NoRc
  <2>4. vs'.next \in Nat /\ vs'.next > v.next /\ vs'.next > v.log
    BY <1>2, <2>2
  <2> QED
    BY <1>1, <1>4, <1>6, <2>2, <2>3, <2>4, Zenon
<1> QED
  BY <1>5, <1>6, Zenon

----------------------------------------------------------------------------
(* The MANIFEST that CURRENT names, before and after a step.               *)

LEMMA ManifestSame ==
  ASSUME Manifest' = Manifest
  PROVE  /\ Len(Manifest.edits)' = Len(Manifest.edits) /\ Manifest'.synced = Manifest.synced
         /\ ManifestLengths' = ManifestLengths
         /\ \A n : V(n)' = V(n)
         /\ \A f : Recorded(f)' <=> Recorded(f)
<1>1. /\ ManifestLengths' = ManifestLengths
      /\ \A n : V(n)' = V(n)
  BY Zenon DEF ManifestLengths, V
<1> QED
  BY <1>1, Zenon DEF Recorded

LEMMA ManifestUntouched ==
  ASSUME UNCHANGED current,
         current \in DOMAIN manifests <=> current \in DOMAIN manifests',
         current \in DOMAIN manifests => manifests'[current] = manifests[current]
  PROVE  Manifest' = Manifest
BY Zenon DEF Manifest

(* An edit more, readable or not.                                          *)
LEMMA ManifestAppended ==
  ASSUME ManifestTypes, VerTypes, current = vs.man, current \in DOMAIN manifests,
         UNCHANGED current, NEW e \in Edits, manifests' = WithEdit(e),
         NEW L \in Nat, L = Len(Manifest.edits)
  PROVE  /\ Len(Manifest.edits)' = L + 1 /\ Manifest'.synced = Manifest.synced
         /\ ManifestLengths' = ManifestLengths \cup {L + 1}
         /\ current \in DOMAIN manifests'
         /\ \A n \in 0..L : V(n)' = V(n)
         /\ e.ok => /\ V(L + 1)'.files = (V(L).files \ e.del) \cup e.add
                    /\ V(L + 1)'.log = e.log /\ V(L + 1)'.next = e.next
                    /\ V(L + 1)'.last = e.last
         /\ ~e.ok => /\ V(L + 1)'.files = V(L).files /\ V(L + 1)'.log = V(L).log
                     /\ V(L + 1)'.next = V(L).next /\ V(L + 1)'.last = V(L).last
                     /\ V(L + 1)'.bad
<1>1. PICK E, F : E = Manifest.edits /\ F = Manifest'.edits
  BY Zenon
<1>2. /\ E \in Seq(Edits) /\ Manifest.synced \in Nat /\ Manifest.synced <= L /\ Len(E) = L
  BY <1>1, ManifestTyped, Zenon
<1>3. current \in DOMAIN manifests' /\ F = Append(E, e) /\ Manifest'.synced = Manifest.synced
  BY <1>1, WithEditTyped, Zenon DEF Manifest
<1>4. /\ F \in Seq(Edits) /\ Len(F) = L + 1 /\ F[L + 1] = e
      /\ \A i \in 1..L : F[i] = E[i]
  BY <1>2, <1>3
<1>5. /\ \A n : V(n) = Replay(E, n)
      /\ \A n : V(n)' = Replay(F, n)
  BY <1>1, Zenon DEF V
<1>6. \A n \in 0..L : V(n)' = V(n)
  <2> SUFFICES ASSUME NEW n \in 0..L PROVE V(n)' = V(n)
    BY Zenon
  <2>1. n \in Nat /\ \A i \in 1..n : F[i] = E[i]
    BY <1>4
  <2>2. Replay(F, n) = Replay(E, n)
    BY <2>1, ReplaySame, Zenon
  <2> QED
    BY <1>5, <2>2, Zenon
<1>7. ManifestLengths' = ManifestLengths \cup {L + 1}
  BY <1>1, <1>2, <1>3, <1>4 DEF ManifestLengths
<1>8. L + 1 \in 1..Len(F) /\ (L + 1) - 1 = L /\ L \in 0..L
  BY <1>4
<1>9. V(L + 1)' = Replay(F, L + 1) /\ V(L) = Replay(F, L)
  BY <1>5, <1>6, <1>8, Zenon
<1>10. Len(Manifest.edits)' = L + 1
  BY <1>1, <1>4, Zenon
<1> HIDE DEF V
<1>11. /\ e.ok => /\ Replay(F, L + 1).files = (Replay(F, L).files \ e.del) \cup e.add
                  /\ Replay(F, L + 1).log = e.log /\ Replay(F, L + 1).next = e.next
                  /\ Replay(F, L + 1).last = e.last
       /\ ~e.ok => /\ Replay(F, L + 1).files = Replay(F, L).files
                   /\ Replay(F, L + 1).log = Replay(F, L).log
                   /\ Replay(F, L + 1).next = Replay(F, L).next
                   /\ Replay(F, L + 1).last = Replay(F, L).last
                   /\ Replay(F, L + 1).bad
  <2>1. F \in Seq(Edits) /\ L + 1 \in 1..Len(F) /\ (L + 1) - 1 = L /\ F[L + 1] = e
    BY <1>4, <1>8, Zenon
  <2>2. Applies(Replay(F, L + 1), Replay(F, L), e)
    BY <2>1, ReplayNext, Zenon
  <2> QED
    BY <2>2, Zenon DEF Applies
<1> QED
  BY <1>3, <1>6, <1>7, <1>9, <1>10, <1>11, Zenon

(* The MANIFEST that DB::Open writes: a snapshot, and the edit.            *)
LEMMA OpenVersion ==
  ASSUME NEW s \in Edits, NEW e \in Edits, s.ok, e.ok
  PROVE  /\ <<s, e>> \in Seq(Edits) /\ Len(<<s, e>>) = 2
         /\ Replay(<<s, e>>, 2).files = (s.add \ e.del) \cup e.add
         /\ Replay(<<s, e>>, 2).log = e.log /\ Replay(<<s, e>>, 2).next = e.next
         /\ Replay(<<s, e>>, 2).last = e.last
<1>1. PICK E : E = <<s, e>>
  BY Zenon
<1>2. E \in Seq(Edits) /\ Len(E) = 2 /\ E[1] = s /\ E[2] = e
  BY <1>1
<1>3. 1 \in 1..Len(E) /\ 2 \in 1..Len(E) /\ 1 - 1 = 0 /\ 2 - 1 = 1
  BY <1>2
<1>4. Replay(E, 1).files = (Replay(E, 0).files \ s.del) \cup s.add
  <2>1. E \in Seq(Edits) /\ 1 \in 1..Len(E) /\ 1 - 1 = 0 /\ E[1] = s
    BY <1>2, <1>3, Zenon
  <2>2. Applies(Replay(E, 1), Replay(E, 0), s)
    BY <2>1, ReplayNext, Zenon
  <2> QED
    BY <2>2, Zenon DEF Applies
<1>5. Replay(E, 0).files = {}
  BY ReplayNothing, Zenon
<1>6. Replay(E, 1).files = s.add
  BY <1>4, <1>5, Zenon
<1>7. /\ Replay(E, 2).files = (Replay(E, 1).files \ e.del) \cup e.add
      /\ Replay(E, 2).log = e.log /\ Replay(E, 2).next = e.next /\ Replay(E, 2).last = e.last
  <2>1. E \in Seq(Edits) /\ 2 \in 1..Len(E) /\ 2 - 1 = 1 /\ E[2] = e
    BY <1>2, <1>3, Zenon
  <2>2. Applies(Replay(E, 2), Replay(E, 1), e)
    BY <2>1, ReplayNext, Zenon
  <2> QED
    BY <2>2, Zenon DEF Applies
<1> QED
  BY <1>1, <1>2, <1>6, <1>7, Zenon

LEMMA SnapshotTyped ==
  ASSUME FInv
  PROVE  Snapshot \in Edits /\ Snapshot.ok /\ Snapshot.add = cur
<1>1. cur \subseteq Nat
  BY Zenon DEF FInv, TInv, StateTypes, VerTypes
<1>2. Snapshot \in Edits
  BY <1>1, NoEditTyped, Zenon DEF Snapshot
<1> QED
  BY <1>2, Zenon DEF Snapshot, NoEdit

(* The numbers of the files in use, and of those a recovery may find, are  *)
(* older than the next file number.                                        *)
LEMMA UsedOld ==
  ASSUME FInv, Alive, NEW f, InUse(f) \/ Recorded(f)
  PROVE  f \in Nat /\ f < vs.next
<1>1. TablesInv /\ ManifestInv /\ TableTypes /\ ManifestTypes /\ VerTypes
  BY Zenon DEF FInv, TInv, FileTypes, StateTypes
<1>2. f \in DOMAIN tables
  BY <1>1, Zenon DEF TablesInv
<1>3. f \in Nat
  BY <1>1, <1>2 DEF TableTypes
<1>4. CASE InUse(f)
  BY <1>1, <1>3, <1>4, Zenon DEF TablesInv
<1>5. CASE Recorded(f)
  <2>1. PICK n \in ManifestLengths : f \in V(n).files
    BY <1>5, Zenon DEF Recorded
  <2>2. f < V(n).next /\ V(n).next <= vs.next
    BY <1>1, <2>1, Zenon DEF ManifestInv, RecoveryInv
  <2>3. V(n).next \in Nat /\ vs.next \in Nat
    BY <1>1, ManifestTyped, Zenon DEF VerTypes
  <2> QED
    BY <1>3, <2>2, <2>3
<1> QED
  BY <1>4, <1>5, Zenon

(* What DeleteObsoleteFiles keeps.                                         *)
LEMMA DeleteKeeps ==
  ASSUME NEW versions, NEW outputs, NEW logNumber, NEW error,
         DeleteObsoleteFiles(versions, outputs, logNumber, manifests, error)
  PROVE  /\ \A f \in DOMAIN tables : f \in Live(versions, outputs) \/ error =>
              f \in DOMAIN tables' /\ tables'[f] = tables[f]
         /\ \A m \in DOMAIN manifests : m >= vs.man =>
              m \in DOMAIN manifests' /\ manifests'[m] = manifests[m]
         /\ DOMAIN manifests' \subseteq DOMAIN manifests
<1>1. CASE error
  BY <1>1, Zenon DEF DeleteObsoleteFiles
<1>2. CASE ~error
  BY <1>2, Zenon DEF DeleteObsoleteFiles, Restrict
<1> QED
  BY <1>1, <1>2, Zenon

----------------------------------------------------------------------------
(* The invariant of the files, step by step.                               *)

CoreInv == TablesInv /\ EditInv /\ ManifestInv /\ ExactInv

(* Steps of the writer and of the readers: no file but a log is touched,   *)
(* and no table comes into use that was not in use.                        *)
LEMMA CalmStep ==
  ASSUME FInv,
         UNCHANGED <<tables, manifests, current, up, cur, pending, fl, cp, ap, rc>>,
         vs'.man = vs.man, vs'.next \in Nat, vs'.next >= vs.next,
         ap.kind = "open" => vs'.next = vs.next,
         bgError => bgError',
         \A f : InUse(f)' => InUse(f)
  PROVE  CoreInv'
<1>1. /\ TablesInv /\ EditInv /\ ManifestInv /\ ExactInv /\ VerTypes /\ ApplyTypes
      /\ ManifestTypes
  BY Zenon DEF FInv, TInv, FileTypes, StateTypes
<1>2. vs.next \in Nat /\ vs.man \in Nat /\ current \in Nat /\ ap.edit.next \in Nat
  BY <1>1, Zenon DEF VerTypes, ApplyTypes, Edits
<1>3. Manifest' = Manifest
  BY ManifestUntouched, Zenon
<1>4. /\ Len(Manifest.edits)' = Len(Manifest.edits) /\ Manifest'.synced = Manifest.synced
      /\ ManifestLengths' = ManifestLengths /\ \A n : V(n)' = V(n)
      /\ \A f : Recorded(f)' <=> Recorded(f)
  BY <1>3, ManifestSame, Zenon
<1>5. \A f : Building(f)' <=> Building(f)
  BY Zenon DEF Building
<1>6. TablesInv'
  <2>1. ASSUME NEW f, InUse(f)' \/ Recorded(f)' PROVE f \in DOMAIN tables' /\ tables'[f].ok
    BY <1>1, <1>4, <2>1, Zenon DEF TablesInv
  <2>2. ASSUME NEW f, InUse(f)' PROVE f < vs'.next
    <3>1. f \in Nat /\ f < vs.next
      <4>1. f \in DOMAIN tables /\ f < vs.next
        BY <1>1, <2>2, Zenon DEF TablesInv
      <4> QED
        BY <4>1 DEF FInv, TInv, FileTypes, TableTypes
    <3> QED
      BY <1>2, <3>1
  <2>3. ASSUME NEW f, Building(f)'
        PROVE  f \in DOMAIN tables' /\ f \in pending' /\ f < vs'.next /\ ~InUse(f)' /\ ~Recorded(f)'
    <3>1. f \in DOMAIN tables /\ f \in pending /\ f < vs.next /\ ~InUse(f) /\ ~Recorded(f)
      BY <1>1, <1>5, <2>3, Zenon DEF TablesInv
    <3>2. f \in Nat
      BY <1>1, <3>1, Zenon DEF VerTypes
    <3>3. f < vs'.next
      BY <1>2, <3>1, <3>2
    <3> QED
      BY <1>4, <3>1, <3>3, Zenon
  <2> QED
    BY <1>1, <2>1, <2>2, <2>3, Zenon DEF TablesInv
<1>7. EditInv'
  BY <1>1, <1>2 DEF EditInv
<1>8. ManifestInv'
  <2>1. ASSUME NEW n \in ManifestLengths PROVE RecoveryInv(n)'
    <3>1. RecoveryInv(n) /\ V(n).next \in Nat
      BY <1>1, ManifestTyped, Zenon DEF ManifestInv
    <3> QED
      BY <1>2, <1>4, <3>1 DEF RecoveryInv, Alive
  <2>2. Snapshot' = Snapshot
    BY Zenon DEF Snapshot
  <2> QED
    BY <1>1, <1>2, <1>4, <2>1, <2>2 DEF ManifestInv, Alive
<1>9. ExactInv'
  BY <1>1, <1>4, Zenon DEF ExactInv, NewVersion
<1> QED
  BY <1>6, <1>7, <1>8, <1>9, Zenon DEF CoreInv

LEMMA WriterCore ==
  ASSUME FInv, SwitchLog \/ BeginWrite \/ AddRecord \/ SyncLog \/ Insert
  PROVE  CoreInv'
<1>1. VerTypes /\ ProcTypes /\ Phases
  BY Zenon DEF FInv, TInv, StateTypes
<1>2. vs \in [next : Nat, man : Nat, log : Nat, last : Nat]
  BY <1>1, Zenon DEF VerTypes
<1>3. /\ UNCHANGED <<tables, manifests, current, up, cur, pins, pending, fl, cp, ap, rc>>
      /\ bgError => bgError'
  BY DEF SwitchLog, BeginWrite, AddRecord, SyncLog, Insert, disk, memVars, verVars,
     procVars
<1>4. \/ SwitchLog /\ vs' = [vs EXCEPT !.next = @ + 1]
      \/ vs' = vs
      \/ vs' = [vs EXCEPT !.last = wr.w.seq]
  BY Zenon DEF SwitchLog, BeginWrite, AddRecord, SyncLog, Insert, EndWrite, verVars
<1>5. vs'.man = vs.man /\ vs'.next \in Nat /\ vs'.next >= vs.next
  BY <1>2, <1>4
<1>6. ap.kind = "open" => vs'.next = vs.next
  <2>1. ap.kind = "open" => ~SwitchLog
    BY <1>1, Zenon DEF SwitchLog, Phases
  <2> QED
    BY <1>2, <1>4, <2>1, Zenon
<1>7. \A f : InUse(f)' => InUse(f)
  BY <1>3, Zenon DEF InUse
<1> QED
  BY <1>3, <1>5, <1>6, <1>7, CalmStep, Zenon

LEMMA ReaderCore ==
  ASSUME FInv, NEW r \in Readers, Pin(r) \/ Unpin(r)
  PROVE  CoreInv'
<1>1. VerTypes
  BY Zenon DEF FInv, TInv, StateTypes
<1>2. /\ UNCHANGED <<tables, manifests, current, up, cur, pending, fl, cp, ap, rc, vs, bgError>>
      /\ vs.next \in Nat
  BY <1>1, Zenon DEF Pin, Unpin, disk, procVars, VerTypes
<1>3. \A s \in Readers : pins'[s] \in {pins[s], cur, {}}
  BY <1>1, Zenon DEF Pin, Unpin, VerTypes
<1>4. \A f : InUse(f)' => InUse(f)
  BY <1>2, <1>3, Zenon DEF InUse
<1>5. vs'.man = vs.man /\ vs'.next \in Nat /\ vs'.next >= vs.next
  BY <1>2
<1> QED
  BY <1>2, <1>4, <1>5, CalmStep, Zenon

(* A step of an open database that leaves the MANIFEST alone.              *)
LEMMA ManifestKept ==
  ASSUME FInv, up = "open", UNCHANGED <<manifests, current, up>>,
         vs'.man = vs.man, vs'.next \in Nat, vs'.next >= vs.next,
         ap'.pc = "append" /\ ap'.kind # "open" =>
           \/ UNCHANGED ap
           \/ \A n \in ManifestLengths : V(n).next <= ap'.edit.next
  PROVE  /\ Manifest' = Manifest /\ Len(Manifest.edits)' = Len(Manifest.edits)
         /\ ManifestLengths' = ManifestLengths /\ \A n : V(n)' = V(n)
         /\ \A f : Recorded(f)' <=> Recorded(f)
         /\ ManifestInv'
<1>1. ManifestInv /\ VerTypes /\ ManifestTypes
  BY Zenon DEF FInv, TInv, FileTypes, StateTypes
<1>2. Manifest' = Manifest
  BY ManifestUntouched, Zenon
<1>3. /\ Len(Manifest.edits)' = Len(Manifest.edits)
      /\ ManifestLengths' = ManifestLengths /\ \A n : V(n)' = V(n)
      /\ \A f : Recorded(f)' <=> Recorded(f)
  BY <1>2, ManifestSame, Zenon
<1>4. vs.next \in Nat /\ vs.man \in Nat /\ current = vs.man /\ vs.man < vs.next
  BY <1>1, Zenon DEF VerTypes, ManifestInv, Alive
<1>5. ASSUME NEW n \in ManifestLengths PROVE RecoveryInv(n)'
  <2>1. RecoveryInv(n) /\ V(n).next \in Nat
    BY <1>1, ManifestTyped, Zenon DEF ManifestInv
  <2> QED
    BY <1>3, <1>4, <2>1 DEF RecoveryInv, Alive
<1>6. ManifestInv'
  BY <1>1, <1>3, <1>4, <1>5 DEF ManifestInv, Alive
<1> QED
  BY <1>2, <1>3, <1>6, Zenon

(* A new file number for a table that will be written.                     *)
LEMMA AllocateCore ==
  ASSUME FInv, FlushStart \/ CompactOpenOutput
  PROVE  CoreInv'
<1>1. /\ TablesInv /\ EditInv /\ ExactInv /\ VerTypes /\ ProcTypes /\ ApplyTypes /\ Phases
      /\ TableTypes
  BY Zenon DEF FInv, TInv, FileTypes, StateTypes
<1>2. /\ up = "open" /\ UNCHANGED <<manifests, current, up, cur, pins, ap, rc, bgError>>
      /\ vs' = [vs EXCEPT !.next = @ + 1] /\ pending' = pending \cup {vs.next}
      /\ tables' = With(tables, vs.next, [data |-> {}, ok |-> FALSE])
      /\ cp'.ver = cp.ver /\ cp'.inputs = cp.inputs /\ ap.pc = "idle"
  <2>1. up = "open" /\ ap.pc = "idle"
    BY <1>1, Zenon DEF FlushStart, CompactOpenOutput, Phases, ApplyTypes
  <2>2. cp'.ver = cp.ver /\ cp'.inputs = cp.inputs
    BY <1>1, Zenon DEF FlushStart, CompactOpenOutput, ProcTypes
  <2> QED
    BY <2>1, <2>2, Zenon DEF FlushStart, CompactOpenOutput
<1>3. /\ vs.next \in Nat /\ vs'.next = vs.next + 1 /\ vs'.man = vs.man /\ vs.man \in Nat
      /\ ap.edit.next \in Nat
  BY <1>1, <1>2, Zenon DEF VerTypes, ApplyTypes, Edits
<1>4. /\ \A n : V(n)' = V(n)
      /\ Manifest' = Manifest /\ \A f : Recorded(f)' <=> Recorded(f)
      /\ ManifestInv'
  BY <1>2, <1>3, ManifestKept
<1>5. \A f : InUse(f)' <=> InUse(f)
  BY <1>2, Zenon DEF InUse
<1>6. \A f : InUse(f) \/ Recorded(f) => f \in Nat /\ f < vs.next
  BY <1>2, UsedOld, Zenon DEF Alive
<1>7. \A f : f # vs.next => /\ f \in DOMAIN tables' <=> f \in DOMAIN tables
                            /\ f \in DOMAIN tables => tables'[f] = tables[f]
  BY <1>2, Zenon DEF With
<1>8. vs.next \in DOMAIN tables'
  BY <1>2, Zenon DEF With
<1>9. \A f : Building(f)' => Building(f) \/ f = vs.next
  BY <1>1 DEF Building, FlushStart, CompactOpenOutput, ProcTypes
<1>10. fl.pc # "idle" => Building(fl.num) \/ fl.pc = "apply"
  BY <1>1, Zenon DEF Building, ProcTypes
<1>11. TablesInv'
  <2>1. ASSUME NEW f, InUse(f)' \/ Recorded(f)'
        PROVE  f \in DOMAIN tables' /\ tables'[f].ok /\ f \in Nat /\ f < vs'.next
    <3>1. f \in Nat /\ f < vs.next /\ f \in DOMAIN tables /\ tables[f].ok
      BY <1>1, <1>4, <1>5, <1>6, <2>1, Zenon DEF TablesInv
    <3> QED
      BY <1>3, <1>7, <3>1
  <2>2. ASSUME NEW f, Building(f)'
        PROVE  f \in DOMAIN tables' /\ f \in pending' /\ f < vs'.next /\ ~InUse(f)' /\ ~Recorded(f)'
    <3>1. CASE f = vs.next
      BY <1>2, <1>3, <1>4, <1>5, <1>6, <1>8, <3>1
    <3>2. CASE f # vs.next
      <4>1. f \in DOMAIN tables /\ f \in pending /\ f < vs.next /\ ~InUse(f) /\ ~Recorded(f)
        BY <1>1, <1>9, <2>2, <3>2, Zenon DEF TablesInv
      <4>2. f \in Nat
        BY <1>1, <4>1, Zenon DEF VerTypes
      <4> QED
        BY <1>2, <1>3, <1>4, <1>5, <1>7, <3>2, <4>1, <4>2
    <3> QED
      BY <3>1, <3>2, Zenon
  <2>3. fl'.pc # "idle" /\ cp'.out # 0 => fl'.num # cp'.out
    <3>1. CASE FlushStart
      <4>1. CASE cp.out # 0
        <5>1. Building(cp.out)
          BY <1>1, <3>1, <4>1, Zenon DEF FlushStart, Building, Phases
        <5>2. cp.out < vs.next /\ cp.out \in Nat
          BY <1>1, <5>1, Zenon DEF TablesInv, ProcTypes
        <5> QED
          BY <1>3, <3>1, <5>2 DEF FlushStart
      <4> QED
        BY <3>1, <4>1, Zenon DEF FlushStart
    <3>2. CASE CompactOpenOutput
      BY <3>2, Zenon DEF CompactOpenOutput
    <3> QED
      BY <3>1, <3>2, Zenon
  <2> QED
    BY <1>1, <1>2, <2>1, <2>2, <2>3, Zenon DEF TablesInv
<1>12. EditInv'
  BY <1>1, <1>2, <1>3, Zenon DEF EditInv
<1>13. ExactInv'
  BY <1>1, <1>2, <1>4, Zenon DEF ExactInv, NewVersion
<1> QED
  BY <1>4, <1>11, <1>12, <1>13, Zenon DEF CoreInv

(* The end of WriteLevel0Table.                                            *)
LEMMA FlushBuiltCore ==
  ASSUME FInv, FlushBuilt
  PROVE  CoreInv'
<1>1. /\ TablesInv /\ EditInv /\ ExactInv /\ ManifestInv /\ VerTypes /\ ProcTypes /\ ApplyTypes
      /\ Phases /\ TableTypes
  BY Zenon DEF FInv, TInv, FileTypes, StateTypes
<1>2. /\ up = "open" /\ ap.pc = "idle" /\ ap.edit.add = {} /\ fl.pc = "build"
      /\ UNCHANGED <<manifests, current, up, cur, pins, cp, rc, vs>>
      /\ pending' = pending \ {fl.num}
      /\ bgError => bgError'
  <2>1. up = "open" /\ ap.pc = "idle" /\ ap.edit.add = {}
    BY <1>1, Zenon DEF FlushBuilt, Phases
  <2>2. bgError => bgError'
    BY Zenon DEF FlushBuilt
  <2>3. /\ UNCHANGED <<manifests, current, up, cur, pins, cp, rc, vs>>
        /\ fl.pc = "build" /\ pending' = pending \ {fl.num}
    BY Zenon DEF FlushBuilt
  <2> QED
    BY <2>1, <2>2, <2>3, Zenon
<1>3. vs.next \in Nat /\ vs.man \in Nat /\ fl.num \in Nat
  BY <1>1, Zenon DEF VerTypes, ProcTypes
<1>4. (fl'.num = fl.num /\ fl'.pc = "apply" /\ UNCHANGED bgError) \/ (fl' = NoFl /\ UNCHANGED ap)
  <2>1. \/ fl' = [fl EXCEPT !.pc = "apply"] /\ UNCHANGED bgError
        \/ fl' = NoFl /\ UNCHANGED ap
    BY Zenon DEF FlushBuilt
  <2> QED
    BY <1>1, <2>1, Zenon DEF ProcTypes
<1>5. /\ fl.num \in DOMAIN tables /\ fl.num < vs.next /\ ~InUse(fl.num) /\ ~Recorded(fl.num)
  BY <1>1, <1>2, Zenon DEF TablesInv, Building
<1>6. \A f : f # fl.num => /\ f \in DOMAIN tables' <=> f \in DOMAIN tables
                           /\ f \in DOMAIN tables => tables'[f] = tables[f]
  BY Zenon DEF FlushBuilt, BuildTable, Restrict
<1>7. \/ UNCHANGED ap
      \/ /\ ap'.pc = "append" /\ ap'.kind = "flush" /\ ap'.edit.del = {} /\ ap'.edit.ok
         /\ ap'.edit.next = vs.next /\ UNCHANGED bgError
         /\ \/ ap'.edit.add = {}
            \/ ap'.edit.add = {fl.num} /\ fl.num \in DOMAIN tables' /\ tables'[fl.num].ok
  <2>1. CASE /\ BuildTable(fl.num, imm, TRUE) /\ UNCHANGED bgError
             /\ BeginApply("flush", IF imm = {} THEN {} ELSE {fl.num}, {}, logNum, vs)
    <3>1. /\ ap'.pc = "append" /\ ap'.kind = "flush" /\ ap'.edit.del = {} /\ ap'.edit.ok
          /\ ap'.edit.next = vs.next /\ ap'.edit.add = IF imm = {} THEN {} ELSE {fl.num}
      BY <2>1, BeginApplyStarts
    <3>2. imm # {} => fl.num \in DOMAIN tables' /\ tables'[fl.num].ok
      BY <1>5, <2>1, Zenon DEF BuildTable
    <3> QED
      BY <2>1, <3>1, <3>2, Zenon
  <2> QED
    BY <2>1, Zenon DEF FlushBuilt
<1>8. /\ \A n : V(n)' = V(n)
      /\ Manifest' = Manifest /\ \A f : Recorded(f)' <=> Recorded(f)
      /\ ManifestInv'
  <2>1. \A n \in ManifestLengths : V(n).next <= vs.next
    BY <1>1, <1>2, Zenon DEF ManifestInv, RecoveryInv, Alive
  <2>2. ap'.pc = "append" => UNCHANGED ap \/ \A n \in ManifestLengths : V(n).next <= ap'.edit.next
    BY <1>7, <2>1, Zenon
  <2>3. vs'.man = vs.man /\ vs'.next \in Nat /\ vs'.next >= vs.next
    BY <1>2, <1>3
  <2> QED
    BY <1>2, <2>2, <2>3, ManifestKept, Zenon
<1>9. \A f : InUse(f)' => InUse(f) \/ (f = fl.num /\ f \in ap'.edit.add)
  BY <1>2, <1>7, ZenonT(30) DEF InUse
<1>10. \A f : Building(f)' => Building(f) /\ f # fl.num
  BY <1>1, <1>2, <1>4 DEF Building, TablesInv, NoFl
<1>11. TablesInv'
  <2>1. ASSUME NEW f, InUse(f)' \/ Recorded(f)'
        PROVE  f \in DOMAIN tables' /\ tables'[f].ok
    <3>1. CASE f = fl.num
      BY <1>2, <1>5, <1>7, <1>8, <1>9, <2>1, <3>1, Zenon
    <3>2. CASE f # fl.num
      BY <1>1, <1>6, <1>8, <1>9, <2>1, <3>2, Zenon DEF TablesInv
    <3> QED
      BY <3>1, <3>2, Zenon
  <2>2. ASSUME NEW f, InUse(f)' PROVE f < vs'.next
    BY <1>1, <1>2, <1>5, <1>9, <2>2, Zenon DEF TablesInv
  <2>3. ASSUME NEW f, Building(f)'
        PROVE  f \in DOMAIN tables' /\ f \in pending' /\ f < vs'.next /\ ~InUse(f)' /\ ~Recorded(f)'
    <3>1. /\ f \in DOMAIN tables /\ f \in pending /\ f < vs.next /\ ~InUse(f) /\ ~Recorded(f)
          /\ f # fl.num
      BY <1>1, <1>10, <2>3, Zenon DEF TablesInv
    <3> QED
      BY <1>2, <1>6, <1>8, <1>9, <3>1, Zenon
  <2>4. fl'.pc # "idle" /\ cp'.out # 0 => fl'.num # cp'.out
    BY <1>1, <1>2, <1>4 DEF TablesInv, NoFl
  <2> QED
    BY <1>1, <1>2, <2>1, <2>2, <2>3, <2>4, Zenon DEF TablesInv
<1>12. EditInv'
  <2>1. CASE UNCHANGED ap
    BY <1>2, <2>1, Zenon DEF EditInv
  <2>2. CASE ap'.pc = "append" /\ ap'.kind = "flush" /\ ap'.edit.del = {} /\ ap'.edit.ok
    <3>1. vs.man < vs.next
      BY <1>1, <1>2, Zenon DEF ManifestInv, Alive
    <3>2. ap' # ap /\ ap'.edit.next = vs.next /\ ap'.edit.add \subseteq {fl.num}
      BY <1>2, <1>7, <2>2, Zenon
    <3>3. fl'.num = fl.num
      BY <1>4, <3>2, Zenon
    <3> QED
      BY <1>2, <1>3, <1>5, <2>2, <3>1, <3>2, <3>3 DEF EditInv
  <2> QED
    BY <1>7, <2>1, <2>2, Zenon
<1>13. ExactInv'
  BY <1>1, <1>2, <1>7, <1>8, Zenon DEF ExactInv, NewVersion
<1> QED
  BY <1>8, <1>11, <1>12, <1>13, Zenon DEF CoreInv

(* A compaction picks its inputs, or moves a file.                         *)
LEMMA CompactStartCore ==
  ASSUME FInv, CompactStart
  PROVE  CoreInv'
<1>1. /\ TablesInv /\ EditInv /\ ExactInv /\ ManifestInv /\ VerTypes /\ Phases
  BY Zenon DEF FInv, TInv, StateTypes
<1>2. /\ up = "open" /\ ap.pc = "idle" /\ ap.edit.add = {} /\ fl.pc = "idle"
      /\ UNCHANGED <<tables, manifests, current, up, cur, pins, pending, fl, rc, vs, bgError>>
  BY <1>1, Zenon DEF CompactStart, Phases, disk, verVars
<1>3. vs.next \in Nat /\ vs.man \in Nat /\ vs.man < vs.next
  BY <1>1, <1>2, Zenon DEF VerTypes, ManifestInv, Alive
<1>4. cp'.ver \subseteq cur /\ cp'.inputs \subseteq cp'.ver /\ cp'.out = 0
  BY DEF CompactStart, NoCp
<1>5. \/ UNCHANGED ap
      \/ /\ ap'.pc = "append" /\ ap'.kind = "move" /\ ap'.edit.ok /\ ap'.edit.next = vs.next
         /\ ap'.edit.add \subseteq cur /\ ap'.edit.del = ap'.edit.add
  <2>1. \/ UNCHANGED ap
        \/ \E inputs \in SUBSET cur : BeginApply("move", inputs, inputs, vs.log, vs)
    BY Zenon DEF CompactStart
  <2> QED
    BY <2>1, BeginApplyStarts
<1>6. /\ \A n : V(n)' = V(n)
      /\ Manifest' = Manifest /\ \A f : Recorded(f)' <=> Recorded(f)
      /\ ManifestInv'
  <2>1. \A n \in ManifestLengths : V(n).next <= vs.next
    BY <1>1, <1>2, Zenon DEF ManifestInv, RecoveryInv, Alive
  <2>2. ap'.pc = "append" => UNCHANGED ap \/ \A n \in ManifestLengths : V(n).next <= ap'.edit.next
    BY <1>5, <2>1, Zenon
  <2>3. vs'.man = vs.man /\ vs'.next \in Nat /\ vs'.next >= vs.next
    BY <1>2, <1>3
  <2> QED
    BY <1>2, <2>2, <2>3, ManifestKept
<1>7. \A f : InUse(f)' => InUse(f)
  BY <1>2, <1>4, <1>5, Zenon DEF InUse
<1>8. \A f : ~Building(f)'
  BY <1>2, <1>4, Zenon DEF Building
<1>9. TablesInv'
  BY <1>1, <1>2, <1>4, <1>6, <1>7, <1>8, Zenon DEF TablesInv
<1>10. EditInv'
  <2>1. CASE UNCHANGED ap
    BY <1>2, <2>1 DEF EditInv
  <2>2. CASE /\ ap'.pc = "append" /\ ap'.kind = "move" /\ ap'.edit.ok
             /\ ap'.edit.next = vs.next
             /\ ap'.edit.add \subseteq cur /\ ap'.edit.del = ap'.edit.add
    <3>1. \A f \in cur : f < vs.next
      BY <1>1 DEF TablesInv, InUse
    <3> QED
      BY <1>2, <1>3, <2>2, <3>1 DEF EditInv
  <2> QED
    BY <1>5, <2>1, <2>2, Zenon
<1>11. ExactInv'
  BY <1>1, <1>2, <1>5, <1>6, Zenon DEF ExactInv, NewVersion
<1> QED
  BY <1>6, <1>9, <1>10, <1>11, Zenon DEF CoreInv

(* The output of a compaction is complete, or could not be written.        *)
LEMMA CompactFinishCore ==
  ASSUME FInv, CompactFinish
  PROVE  CoreInv'
<1>1. /\ TablesInv /\ EditInv /\ ExactInv /\ ManifestInv /\ VerTypes /\ ProcTypes /\ ApplyTypes
      /\ Phases
  BY Zenon DEF FInv, TInv, StateTypes
<1>2. /\ up = "open" /\ ap.pc = "idle" /\ ap.edit.add = {} /\ fl.pc = "idle"
      /\ cp.pc = "work" /\ cp.out # 0
      /\ UNCHANGED <<manifests, current, up, cur, pins, fl, rc, vs>>
      /\ bgError => bgError'
  <2>1. up = "open" /\ ap.pc = "idle" /\ ap.edit.add = {}
    BY <1>1, Zenon DEF CompactFinish, Phases, ApplyTypes
  <2> QED
    BY <2>1 DEF CompactFinish, DeleteObsoleteFiles
<1>3. vs.next \in Nat /\ vs.man \in Nat /\ vs.man < vs.next
  BY <1>1, <1>2, Zenon DEF VerTypes, ManifestInv, Alive
<1>4. /\ cp.out \in DOMAIN tables /\ cp.out < vs.next /\ ~InUse(cp.out) /\ ~Recorded(cp.out)
  BY <1>1, <1>2, Zenon DEF TablesInv, Building
<1>5. \A f : f # cp.out => /\ f \in DOMAIN tables' <=> f \in DOMAIN tables
                           /\ f \in DOMAIN tables => tables'[f] = tables[f]
  BY Zenon DEF CompactFinish, DeleteObsoleteFiles
<1>6. \/ /\ UNCHANGED ap /\ cp'.ver = {} /\ cp'.inputs = {} /\ cp'.pc = "idle" /\ bgError'
      \/ /\ ap'.pc = "append" /\ ap'.kind = "compact" /\ ap'.edit.ok
         /\ ap'.edit.next = vs.next /\ ap'.edit.add = {cp.out} /\ ap'.edit.del = cp.inputs
         /\ cp'.ver = cp.ver /\ cp'.inputs = cp.inputs /\ cp'.pc = "apply" /\ cp'.out = cp.out
         /\ cp.out \in DOMAIN tables' /\ tables'[cp.out].ok /\ UNCHANGED bgError
  <2>1. CASE /\ tables' = [tables EXCEPT ![cp.out] =
                             [data |-> UNION {tables[f].data : f \in cp.inputs}, ok |-> TRUE]]
             /\ BeginApply("compact", {cp.out}, cp.inputs, vs.log, vs)
             /\ cp' = [cp EXCEPT !.pc = "apply"] /\ UNCHANGED bgError
    <3>1. /\ ap'.pc = "append" /\ ap'.kind = "compact" /\ ap'.edit.del = cp.inputs
          /\ ap'.edit.ok /\ ap'.edit.next = vs.next /\ ap'.edit.add = {cp.out}
      BY <2>1, BeginApplyStarts
    <3>2. cp.out \in DOMAIN tables' /\ tables'[cp.out].ok
      BY <1>4, <2>1, Zenon
    <3>3. /\ cp'.ver = cp.ver /\ cp'.inputs = cp.inputs /\ cp'.pc = "apply"
          /\ cp'.out = cp.out
      BY <1>1, <2>1, Zenon DEF ProcTypes
    <3> QED
      BY <2>1, <3>1, <3>2, <3>3, Zenon
  <2>2. CASE UNCHANGED ap /\ cp' = NoCp /\ bgError' = TRUE
    BY <2>2, Zenon DEF NoCp
  <2> QED
    BY <2>1, <2>2, Zenon DEF CompactFinish
<1>7. /\ \A n : V(n)' = V(n)
      /\ Manifest' = Manifest /\ \A f : Recorded(f)' <=> Recorded(f)
      /\ ManifestInv'
  <2>1. \A n \in ManifestLengths : V(n).next <= vs.next
    BY <1>1, <1>2, Zenon DEF ManifestInv, RecoveryInv, Alive
  <2>2. ap'.pc = "append" => UNCHANGED ap \/ \A n \in ManifestLengths : V(n).next <= ap'.edit.next
    BY <1>6, <2>1, Zenon
  <2>3. vs'.man = vs.man /\ vs'.next \in Nat /\ vs'.next >= vs.next
    BY <1>2, <1>3
  <2> QED
    BY <1>2, <2>2, <2>3, ManifestKept, Zenon
<1>8. \A f : InUse(f)' => InUse(f) \/ (f = cp.out /\ f \in ap'.edit.add)
  BY <1>2, <1>6, Zenon DEF InUse
<1>9. \A f : ~Building(f)'
  BY <1>2, <1>6, Zenon DEF Building
<1>10. TablesInv'
  <2>1. ASSUME NEW f, InUse(f)' \/ Recorded(f)'
        PROVE  f \in DOMAIN tables' /\ tables'[f].ok
    <3>1. CASE f = cp.out
      BY <1>2, <1>4, <1>6, <1>7, <1>8, <2>1, <3>1, Zenon
    <3>2. CASE f # cp.out
      BY <1>1, <1>5, <1>7, <1>8, <2>1, <3>2, Zenon DEF TablesInv
    <3> QED
      BY <3>1, <3>2, Zenon
  <2>2. ASSUME NEW f, InUse(f)' PROVE f < vs'.next
    BY <1>1, <1>2, <1>4, <1>8, <2>2 DEF TablesInv
  <2>3. cp'.inputs \subseteq cp'.ver
    BY <1>1, <1>6, Zenon DEF TablesInv
  <2> QED
    BY <1>2, <1>9, <2>1, <2>2, <2>3, Zenon DEF TablesInv
<1>11. EditInv'
  BY <1>2, <1>3, <1>4, <1>6 DEF EditInv
<1>12. ExactInv'
  BY <1>1, <1>2, <1>6, <1>7, Zenon DEF ExactInv, NewVersion
<1> QED
  BY <1>7, <1>10, <1>11, <1>12, Zenon DEF CoreInv

(* The edit of an open database goes to the MANIFEST, in full or in part.  *)
LEMMA EditWritten ==
  ASSUME FInv, up = "open", ap.pc = "append", UNCHANGED <<current, up, vs>>,
         ap'.pc # "append",
         NEW e, e \in {ap.edit, [ap.edit EXCEPT !.ok = FALSE]}, manifests' = WithEdit(e)
  PROVE  /\ \A f : Recorded(f)' => Recorded(f) \/ f \in ap.edit.add
         /\ ManifestInv'
         /\ e = ap.edit =>
              V(Len(Manifest.edits))'.files =
                (V(Len(Manifest.edits)).files \ ap.edit.del) \cup ap.edit.add
<1>1. /\ ManifestInv /\ EditInv /\ VerTypes /\ ApplyTypes /\ Phases /\ ManifestTypes
  BY Zenon DEF FInv, TInv, FileTypes, StateTypes
<1>2. /\ ap.edit \in Edits /\ ap.edit.ok /\ ap.kind # "open" /\ ap.edit.next \in Nat
      /\ ap.edit.next <= vs.next /\ vs.man < ap.edit.next
      /\ \A f \in ap.edit.add : f < ap.edit.next
      /\ vs.next \in Nat /\ vs.man \in Nat
  BY <1>1, Zenon DEF ApplyTypes, EditInv, Phases, VerTypes, Edits
<1>3. /\ e \in Edits
      /\ e.ok => e = ap.edit
  <2>1. PICK d : d = ap.edit
    BY Zenon
  <2>2. [d EXCEPT !.ok = FALSE] \in Edits /\ ~[d EXCEPT !.ok = FALSE].ok
    BY <1>2, <2>1, TornTyped, Zenon
  <2> QED
    BY <1>2, <2>1, <2>2, Zenon
<1>4. current = vs.man /\ current \in DOMAIN manifests /\ current # 0 /\ vs.man < vs.next
  BY <1>1, Zenon DEF ManifestInv, Alive
<1>5. PICK L \in Nat : L = Len(Manifest.edits)
  BY <1>1, ManifestTyped, Zenon
<1>6. L \in ManifestLengths /\ ManifestLengths \subseteq 0..L
  BY <1>1, <1>5, ManifestTyped, Zenon
<1>7. /\ Len(Manifest.edits)' = L + 1
      /\ ManifestLengths' = ManifestLengths \cup {L + 1}
      /\ current \in DOMAIN manifests'
      /\ \A n \in 0..L : V(n)' = V(n)
      /\ e.ok => /\ V(L + 1)'.files = (V(L).files \ e.del) \cup e.add
                 /\ V(L + 1)'.next = e.next
      /\ ~e.ok => /\ V(L + 1)'.files = V(L).files
                  /\ V(L + 1)'.next = V(L).next /\ V(L + 1)'.bad
  BY <1>1, <1>3, <1>4, <1>5, ManifestAppended, Zenon
<1>8. /\ V(L).next \in Nat /\ V(L).files \subseteq Nat /\ V(L).next <= ap.edit.next
      /\ \A f \in V(L).files : f < V(L).next
      /\ V(L).next <= vs.next
  BY <1>1, <1>2, <1>5, <1>6, ManifestTyped, Zenon
     DEF ManifestInv, RecoveryInv, Alive
<1>9. V(L + 1)'.files \subseteq V(L).files \cup ap.edit.add
  BY <1>3, <1>7, Zenon
<1>10. \A f : Recorded(f)' => Recorded(f) \/ f \in ap.edit.add
  <2> SUFFICES ASSUME NEW f, Recorded(f)' PROVE Recorded(f) \/ f \in ap.edit.add
    BY Zenon
  <2>1. PICK n \in ManifestLengths' : f \in V(n)'.files
    BY Zenon DEF Recorded
  <2>2. CASE n = L + 1
    BY <1>6, <1>9, <2>1, <2>2, Zenon DEF Recorded
  <2>3. CASE n # L + 1
    <3>1. n \in ManifestLengths /\ n \in 0..L
      BY <1>6, <1>7, <2>1, <2>3, Zenon
    <3> QED
      BY <1>7, <2>1, <3>1, Zenon DEF Recorded
  <2> QED
    BY <2>2, <2>3, Zenon
<1>11. ASSUME NEW n \in ManifestLengths' PROVE RecoveryInv(n)'
  <2>1. CASE n = L + 1
    <3>1. V(n)'.next \in Nat /\ V(n)'.next <= vs'.next
      BY <1>2, <1>3, <1>7, <1>8, <2>1, Zenon
    <3>2. \A f \in V(n)'.files : f < V(n)'.next
      <4>1. CASE e.ok
        <5>1. V(n)'.next = ap.edit.next /\ V(n)'.files \subseteq V(L).files \cup ap.edit.add
          BY <1>3, <1>7, <1>9, <2>1, <4>1, Zenon
        <5>2. \A f \in V(L).files : f < ap.edit.next
          BY <1>2, <1>8
        <5> QED
          BY <1>2, <5>1, <5>2, Zenon
      <4>2. CASE ~e.ok
        BY <1>7, <1>8, <2>1, <4>2, Zenon
      <4> QED
        BY <4>1, <4>2, Zenon
    <3>3. ~V(n)'.bad => current' < V(n)'.next
      BY <1>2, <1>3, <1>4, <1>7, <2>1, Zenon
    <3> QED
      BY <3>1, <3>2, <3>3, Zenon DEF RecoveryInv
  <2>2. CASE n # L + 1
    <3>1. n \in ManifestLengths /\ V(n)' = V(n)
      BY <1>6, <1>7, <2>2, Zenon
    <3>2. RecoveryInv(n)
      BY <1>1, <3>1, Zenon DEF ManifestInv
    <3> QED
      BY <3>1, <3>2, Zenon DEF RecoveryInv, Alive
  <2> QED
    BY <2>1, <2>2, Zenon
<1>12. ManifestInv'
  BY <1>4, <1>7, <1>11, Zenon DEF ManifestInv, Alive
<1>13. e = ap.edit =>
         V(Len(Manifest.edits))'.files =
           (V(Len(Manifest.edits)).files \ ap.edit.del) \cup ap.edit.add
  <2>1. V(Len(Manifest.edits))' = V(L + 1)'
    BY <1>7, Zenon DEF V
  <2> QED
    BY <1>2, <1>5, <1>7, <2>1, Zenon
<1> QED
  BY <1>10, <1>12, <1>13, Zenon

LEMMA AppendTwo ==
  ASSUME NEW s \in Edits, NEW e \in Edits
  PROVE  Append(<<s>>, e) = <<s, e>>
<1>1. PICK a : a = Append(<<s>>, e)
  BY Zenon
<1>2. a \in Seq(Edits) /\ Len(a) = 2 /\ a[1] = s /\ a[2] = e
  BY <1>1
<1>3. PICK b : b = <<s, e>>
  BY Zenon
<1>4. b \in Seq(Edits) /\ Len(b) = 2 /\ b[1] = s /\ b[2] = e
  BY <1>3
<1>5. a \in [1..2 -> Edits] /\ b \in [1..2 -> Edits]
  BY <1>2, <1>4
<1>6. \A i \in 1..2 : a[i] = b[i]
  BY <1>2, <1>4
<1>7. a = b
  BY <1>5, <1>6
<1> QED
  BY <1>1, <1>3, <1>7, Zenon

LEMMA ApplyAppendCore ==
  ASSUME FInv, ApplyAppend
  PROVE  CoreInv'
<1>1. /\ TablesInv /\ EditInv /\ ExactInv /\ ManifestInv /\ VerTypes /\ ApplyTypes /\ Phases
      /\ ManifestTypes
  BY Zenon DEF FInv, TInv, FileTypes, StateTypes
<1>2. /\ ap.pc = "append" /\ manifests' = WithEdit(ap.edit)
      /\ ap'.pc = "sync" /\ ap'.kind = ap.kind /\ ap'.edit = ap.edit
      /\ UNCHANGED <<tables, current, up, cur, pins, pending, fl, cp, rc, vs, bgError>>
  BY <1>1, Zenon DEF ApplyAppend, verVars, ApplyTypes
<1>3. \A f : (InUse(f)' <=> InUse(f)) /\ (Building(f)' <=> Building(f))
  BY <1>2, Zenon DEF InUse, Building
<1>4. EditInv'
  BY <1>1, <1>2, Zenon DEF EditInv
<1>5. CASE up = "open"
  <2>1. /\ \A f : Recorded(f)' => Recorded(f) \/ f \in ap.edit.add
        /\ ManifestInv'
        /\ V(Len(Manifest.edits))'.files =
             (V(Len(Manifest.edits)).files \ ap.edit.del) \cup ap.edit.add
    BY <1>2, <1>5, EditWritten, Zenon
  <2>2. \A f \in ap.edit.add : InUse(f)
    BY Zenon DEF InUse
  <2>3. TablesInv'
    BY <1>1, <1>2, <1>3, <2>1, <2>2, Zenon DEF TablesInv
  <2>4. ExactInv'
    BY <1>1, <1>2, <1>5, <2>1, Zenon DEF ExactInv, NewVersion
  <2> QED
    BY <1>4, <2>1, <2>3, <2>4, Zenon DEF CoreInv
<1>6. CASE up = "opening"
  <2>1. /\ ap.edit \in Edits /\ vs.man \in DOMAIN manifests /\ current # vs.man
        /\ manifests[vs.man].edits = <<Snapshot>>
    BY <1>1, <1>2, <1>6, Zenon DEF ApplyTypes, ManifestInv
  <2>2. /\ DOMAIN manifests' = DOMAIN manifests
        /\ current \in DOMAIN manifests => manifests'[current] = manifests[current]
        /\ manifests'[vs.man].edits = Append(<<Snapshot>>, ap.edit)
    BY <1>1, <1>2, <2>1, WithEditTyped, Zenon
  <2>3. Append(<<Snapshot>>, ap.edit) = <<Snapshot, ap.edit>>
    BY <2>1, AppendTwo, SnapshotTyped, Zenon
  <2>4. Manifest' = Manifest
    BY <1>2, <2>2, ManifestUntouched, Zenon
  <2>5. /\ Len(Manifest.edits)' = Len(Manifest.edits)
        /\ ManifestLengths' = ManifestLengths /\ \A n : V(n)' = V(n)
        /\ \A f : Recorded(f)' <=> Recorded(f)
    BY <2>4, ManifestSame, Zenon
  <2>6. TablesInv'
    BY <1>1, <1>2, <1>3, <2>5, Zenon DEF TablesInv
  <2>7. ASSUME NEW n \in ManifestLengths PROVE RecoveryInv(n)'
    <3>1. RecoveryInv(n)
      BY <1>1, Zenon DEF ManifestInv
    <3> QED
      BY <1>2, <2>5, <3>1, Zenon DEF RecoveryInv, Alive
  <2>8. Snapshot' = Snapshot
    BY <1>2, Zenon DEF Snapshot
  <2>9. manifests'[vs.man].edits = <<Snapshot', ap'.edit>>
    BY <1>2, <2>2, <2>3, <2>8, Zenon
  <2>10. ManifestInv'
    BY <1>1, <1>2, <1>6, <2>1, <2>2, <2>5, <2>7, <2>9, Zenon DEF ManifestInv, Alive
  <2>11. ExactInv'
    BY <1>2, <1>6, Zenon DEF ExactInv
  <2> QED
    BY <1>4, <2>6, <2>10, <2>11, Zenon DEF CoreInv
<1> QED
  BY <1>1, <1>2, <1>5, <1>6, Zenon DEF Phases

(* LogAndApply fails in an open database.                                  *)
LEMMA ApplyFailCore ==
  ASSUME FInv, FlushFail \/ CompactFail
  PROVE  CoreInv'
<1>1. /\ TablesInv /\ EditInv /\ ExactInv /\ ManifestInv /\ VerTypes /\ ProcTypes /\ ApplyTypes
      /\ Phases
  BY Zenon DEF FInv, TInv, StateTypes
<1>2. /\ up = "open" /\ fl.pc # "build" /\ UNCHANGED <<tables, current, up, cur, pins, rc, vs>>
      /\ bgError' /\ ap' = NoAp /\ manifests' \in AfterFailedEdit
      /\ fl' \in {fl, NoFl} /\ cp' \in {cp, NoCp}
      /\ FlushFail => pending' = pending
      /\ CompactFail => cp' = NoCp
  <2>1. up = "open" /\ fl.pc # "build"
    BY <1>1, Zenon DEF FlushFail, CompactFail, ApplyCanFail, Phases
  <2>2. CASE FlushFail
    BY <2>1, <2>2, Zenon DEF FlushFail, CompactFail, verVars
  <2>3. CASE CompactFail
    BY <2>1, <2>3, Zenon DEF FlushFail, CompactFail, DeleteObsoleteFiles
  <2> QED
    BY <2>2, <2>3, Zenon
<1>3. /\ ap'.pc = "idle" /\ ap'.edit.add = {} /\ vs.next \in Nat
  BY <1>1, <1>2, Zenon DEF NoAp, NoEdit, VerTypes
<1>4. /\ \A f : Recorded(f)' => Recorded(f) \/ f \in ap.edit.add
      /\ ManifestInv'
  <2>1. CASE manifests' = manifests
    <3>1. vs'.man = vs.man /\ vs'.next \in Nat /\ vs'.next >= vs.next
      BY <1>2, <1>3
    <3> QED
      BY <1>2, <1>3, <2>1, <3>1, ManifestKept, Zenon
  <2>2. CASE manifests' # manifests
    <3>1. /\ ap.pc = "append"
          /\ \E e \in {ap.edit, [ap.edit EXCEPT !.ok = FALSE]} : manifests' = WithEdit(e)
      BY <1>2, <2>2, Zenon DEF AfterFailedEdit
    <3>2. PICK e : /\ e \in {ap.edit, [ap.edit EXCEPT !.ok = FALSE]}
                   /\ manifests' = WithEdit(e)
      BY <3>1, Zenon
    <3> QED
      BY <1>2, <1>3, <3>1, <3>2, EditWritten, Zenon
  <2> QED
    BY <2>1, <2>2, Zenon
<1>5. \A f : InUse(f)' => InUse(f)
  BY <1>2, <1>3 DEF InUse, NoCp
<1>6. \A f : Building(f)' => FlushFail /\ Building(f)
  BY <1>2 DEF Building, NoFl, NoCp
<1>7. \A f \in ap.edit.add : InUse(f)
  BY Zenon DEF InUse
<1>8. TablesInv'
  <2>1. \A f : InUse(f)' \/ Recorded(f)' => f \in DOMAIN tables' /\ tables'[f].ok
    BY <1>1, <1>2, <1>4, <1>5, <1>7, Zenon DEF TablesInv
  <2>2. \A f : InUse(f)' => f < vs'.next
    BY <1>1, <1>2, <1>5, Zenon DEF TablesInv
  <2>3. \A f : Building(f)' => /\ f \in DOMAIN tables' /\ f \in pending' /\ f < vs'.next
                               /\ ~InUse(f)' /\ ~Recorded(f)'
    BY <1>1, <1>2, <1>4, <1>5, <1>6, <1>7, Zenon DEF TablesInv
  <2>4. fl'.pc # "idle" /\ cp'.out # 0 => fl'.num # cp'.out
    BY <1>1, <1>2 DEF TablesInv, NoFl, NoCp
  <2>5. cp'.inputs \subseteq cp'.ver
    BY <1>1, <1>2 DEF TablesInv, NoCp
  <2> QED
    BY <2>1, <2>2, <2>3, <2>4, <2>5, Zenon DEF TablesInv
<1>9. EditInv' /\ ExactInv'
  BY <1>2, <1>3, Zenon DEF EditInv, ExactInv
<1> QED
  BY <1>4, <1>8, <1>9, Zenon DEF CoreInv

(* The MANIFEST is synced.                                                 *)
LEMMA ApplySyncCore ==
  ASSUME FInv, ApplySync
  PROVE  CoreInv'
<1>1. /\ TablesInv /\ EditInv /\ ExactInv /\ ManifestInv /\ VerTypes /\ ApplyTypes /\ Phases
      /\ ManifestTypes
  BY Zenon DEF FInv, TInv, FileTypes, StateTypes
<1>2. /\ ap.pc = "sync" /\ ap'.kind = ap.kind /\ ap'.edit = ap.edit
      /\ ap'.pc = IF ap.kind = "open" THEN "current" ELSE "install"
      /\ UNCHANGED <<tables, current, up, cur, pins, pending, fl, cp, rc, vs, bgError>>
  BY <1>1, Zenon DEF ApplySync, verVars, ApplyTypes
<1>3. /\ DOMAIN manifests' = DOMAIN manifests
      /\ \A m \in DOMAIN manifests \ {vs.man} : manifests'[m] = manifests[m]
      /\ vs.man \in DOMAIN manifests =>
           /\ manifests'[vs.man].edits = manifests[vs.man].edits
           /\ manifests'[vs.man].synced = Len(manifests[vs.man].edits)
  <2>1. \A m \in DOMAIN manifests : manifests[m] \in [edits : Seq(Edits), synced : Nat]
    BY <1>1, Zenon DEF ManifestTypes
  <2> QED
    BY <2>1, Zenon DEF ApplySync
<1>4. \A f : (InUse(f)' <=> InUse(f)) /\ (Building(f)' <=> Building(f))
  BY <1>2, Zenon DEF InUse, Building
<1>5. EditInv'
  BY <1>1, <1>2, Zenon DEF EditInv
<1>6. CASE up = "open"
  <2>1. current = vs.man /\ current \in DOMAIN manifests /\ ap.kind # "open"
    BY <1>1, <1>6, Zenon DEF ManifestInv, Alive, Phases
  <2>2. Manifest'.edits = Manifest.edits /\ Manifest'.synced = Len(Manifest.edits)
    BY <1>2, <1>3, <2>1, Zenon DEF Manifest
  <2>3. Len(Manifest.edits) \in Nat /\ Len(Manifest.edits) \in ManifestLengths
    BY <1>1, ManifestTyped, Zenon
  <2>4. /\ \A n : V(n)' = V(n)
        /\ V(Len(Manifest.edits))' = V(Len(Manifest.edits))
    BY <2>2, Zenon DEF V
  <2>5. \A n \in ManifestLengths' : n \in ManifestLengths
    BY <2>2, <2>3 DEF ManifestLengths
  <2>6. \A f : Recorded(f)' => Recorded(f)
    BY <2>4, <2>5, Zenon DEF Recorded
  <2>7. TablesInv'
    BY <1>1, <1>2, <1>4, <2>6, Zenon DEF TablesInv
  <2>8. ASSUME NEW n \in ManifestLengths' PROVE RecoveryInv(n)'
    <3>1. RecoveryInv(n)
      BY <1>1, <2>5, Zenon DEF ManifestInv
    <3> QED
      BY <1>2, <1>6, <2>4, <3>1, Zenon DEF RecoveryInv, Alive
  <2>9. ManifestInv'
    BY <1>1, <1>2, <1>3, <1>6, <2>1, <2>8, Zenon DEF ManifestInv, Alive
  <2>10. ExactInv'
    BY <1>1, <1>2, <1>6, <2>1, <2>2, <2>4, Zenon DEF ExactInv, NewVersion
  <2> QED
    BY <1>5, <2>7, <2>9, <2>10, Zenon DEF CoreInv
<1>7. CASE up = "opening"
  <2>1. /\ vs.man \in DOMAIN manifests /\ current # vs.man /\ ap.kind = "open"
        /\ manifests[vs.man].edits = <<Snapshot, ap.edit>>
    BY <1>1, <1>2, <1>7, Zenon DEF ManifestInv, Phases
  <2>2. Manifest' = Manifest
    BY <1>2, <1>3, <2>1, ManifestUntouched, Zenon
  <2>3. /\ Len(Manifest.edits)' = Len(Manifest.edits)
        /\ ManifestLengths' = ManifestLengths /\ \A n : V(n)' = V(n)
        /\ \A f : Recorded(f)' <=> Recorded(f)
    BY <2>2, ManifestSame, Zenon
  <2>4. TablesInv'
    BY <1>1, <1>2, <1>4, <2>3, Zenon DEF TablesInv
  <2>5. ASSUME NEW n \in ManifestLengths PROVE RecoveryInv(n)'
    <3>1. RecoveryInv(n)
      BY <1>1, Zenon DEF ManifestInv
    <3> QED
      BY <1>2, <2>3, <3>1, Zenon DEF RecoveryInv, Alive
  <2>6. manifests'[vs.man].edits = <<Snapshot', ap'.edit>> /\ manifests'[vs.man].synced = 2
    <3>1. Snapshot' = Snapshot
      BY <1>2, Zenon DEF Snapshot
    <3>2. Len(<<Snapshot, ap.edit>>) = 2
      BY Zenon
    <3> QED
      BY <1>2, <1>3, <2>1, <3>1, <3>2, Zenon
  <2>7. ManifestInv'
    BY <1>1, <1>2, <1>3, <1>7, <2>1, <2>3, <2>5, <2>6, Zenon DEF ManifestInv, Alive
  <2>8. ExactInv'
    BY <1>2, <1>7, Zenon DEF ExactInv
  <2> QED
    BY <1>5, <2>4, <2>7, <2>8, Zenon DEF CoreInv
<1> QED
  BY <1>1, <1>2, <1>6, <1>7, Zenon DEF Phases

(* CURRENT is pointed to the new MANIFEST.                                 *)
LEMMA ApplyCurrentCore ==
  ASSUME FInv, ApplyCurrent
  PROVE  CoreInv'
<1>1. /\ TablesInv /\ EditInv /\ ManifestInv /\ VerTypes /\ ApplyTypes /\ Phases
  BY Zenon DEF FInv, TInv, FileTypes, StateTypes
<1>2. /\ ap.pc = "current" /\ ap'.kind = ap.kind /\ ap'.edit = ap.edit /\ ap'.pc = "install"
      /\ current' = vs.man
      /\ UNCHANGED <<manifests, tables, up, cur, pins, pending, fl, cp, rc, vs, bgError>>
  BY <1>1, Zenon DEF ApplyCurrent, verVars, ApplyTypes
<1>3. /\ up = "opening" /\ ap.kind = "open" /\ fl.pc = "idle" /\ cp.pc = "idle"
  BY <1>1, <1>2, Zenon DEF Phases
<1>4. /\ vs.man \in DOMAIN manifests /\ manifests[vs.man].edits = <<Snapshot, ap.edit>>
      /\ manifests[vs.man].synced = 2 /\ current # 0 /\ vs.man < vs.next
  BY <1>1, <1>2, <1>3, Zenon DEF ManifestInv, Alive
<1>5. /\ ap.edit \in Edits /\ ap.edit.ok /\ ap.edit.next = vs.next /\ ap.edit.del = {}
      /\ vs.next \in Nat /\ vs.man \in Nat
  BY <1>1, <1>2, <1>3, Zenon DEF ApplyTypes, EditInv, VerTypes
<1>6. Manifest'.edits = <<Snapshot, ap.edit>> /\ Manifest'.synced = 2
  BY <1>2, <1>4, Zenon DEF Manifest
<1>7. /\ Len(Manifest.edits)' = 2 /\ ManifestLengths' = {2}
      /\ V(2)'.files = cur \cup ap.edit.add /\ V(2)'.next = vs.next
  <2>1. Len(<<Snapshot, ap.edit>>) = 2 /\ 2..2 = {2}
    OBVIOUS
  <2>2. /\ Replay(<<Snapshot, ap.edit>>, 2).files = (cur \ ap.edit.del) \cup ap.edit.add
        /\ Replay(<<Snapshot, ap.edit>>, 2).next = ap.edit.next
    BY <1>5, SnapshotTyped, OpenVersion
  <2>3. V(2)' = Replay(<<Snapshot, ap.edit>>, 2)
    BY <1>6, Zenon DEF V
  <2>4. ManifestLengths' = {2}
    BY <1>6, <2>1, Zenon DEF ManifestLengths
  <2> QED
    BY <1>5, <1>6, <2>1, <2>2, <2>3, <2>4, Zenon
<1>8. \A f : (InUse(f)' <=> InUse(f)) /\ ~Building(f)'
  BY <1>2, <1>3, Zenon DEF InUse, Building
<1>9. \A f : Recorded(f)' => InUse(f)
  BY <1>7, Zenon DEF Recorded, InUse
<1>10. TablesInv'
  BY <1>1, <1>2, <1>3, <1>8, <1>9, Zenon DEF TablesInv
<1>11. EditInv'
  BY <1>1, <1>2, Zenon DEF EditInv
<1>12. RecoveryInv(2)'
  <2>1. \A f \in cur \cup ap.edit.add : f < vs.next
    BY <1>1, Zenon DEF TablesInv, InUse
  <2>2. V(Len(Manifest.edits))' = V(2)'
    BY <1>7, Zenon DEF V
  <2> QED
    BY <1>2, <1>3, <1>4, <1>5, <1>7, <2>1, <2>2 DEF RecoveryInv
<1>13. vs.man # 0
  BY <1>1, <1>2, <1>3, <1>4 DEF ManifestInv, ManifestTypes, FInv, TInv,
     FileTypes
<1>14. ManifestInv'
  <2>1. Snapshot' = Snapshot
    BY <1>2, Zenon DEF Snapshot
  <2> QED
    BY <1>2, <1>3, <1>4, <1>7, <1>12, <1>13, <2>1, Zenon DEF ManifestInv, Alive
<1>15. ExactInv'
  BY <1>2, <1>3, Zenon DEF ExactInv
<1> QED
  BY <1>10, <1>11, <1>14, <1>15, Zenon DEF CoreInv

LEMMA LiveHas ==
  ASSUME VerTypes, NEW versions, NEW outputs, NEW f,
         \/ f \in outputs \/ f \in UNION versions \/ \E r \in Readers : f \in pins[r]
  PROVE  f \in Live(versions, outputs)
<1>1. CASE f \in outputs \/ f \in UNION versions
  BY <1>1, Zenon DEF Live
<1>2. ASSUME NEW r \in Readers, f \in pins[r] PROVE f \in Live(versions, outputs)
  <2>1. pins[r] \in Range(pins)
    BY Zenon DEF VerTypes, Range
  <2>2. f \in UNION Range(pins)
    BY <1>2, <2>1, Zenon
  <2> QED
    BY <2>2, Zenon DEF Live
<1> QED
  BY <1>1, <1>2, Zenon

(* The version of a flush or a compaction is installed, and files that are *)
(* not needed any more are deleted.                                        *)
LEMMA InstallCore ==
  ASSUME FInv, FlushInstall \/ CompactInstall
  PROVE  CoreInv'
<1>1. /\ TablesInv /\ EditInv /\ ExactInv /\ ManifestInv /\ VerTypes /\ ProcTypes /\ ApplyTypes
      /\ Phases /\ ManifestTypes
  BY Zenon DEF FInv, TInv, FileTypes, StateTypes
<1>2. /\ up = "open" /\ ap.pc = "install" /\ ap' = NoAp /\ cur' = NewVersion
      /\ UNCHANGED <<current, pins, up, bgError, rc>>
      /\ vs' = [vs EXCEPT !.log = ap.edit.log]
      /\ fl.pc # "build" /\ rc.add = {}
      /\ fl' \in {fl, NoFl} /\ cp' \in {cp, NoCp}
      /\ pending' = pending \/ cp' = NoCp
  <2>1. up = "open" /\ fl.pc # "build" /\ rc.add = {}
    BY <1>1, Zenon DEF FlushInstall, CompactInstall, Phases
  <2> QED
    BY <2>1, Zenon DEF FlushInstall, CompactInstall, memVars
<1>3. PICK versions, outputs :
        /\ DeleteObsoleteFiles(versions, outputs, ap.edit.log, manifests, bgError)
        /\ NewVersion \in versions /\ outputs = pending'
        /\ cp' = NoCp \/ cp'.ver \in versions
  BY ZenonT(30) DEF FlushInstall, CompactInstall
<1>4. /\ vs'.next = vs.next /\ vs'.man = vs.man /\ vs.next \in Nat /\ vs.man \in Nat
      /\ ap'.pc = "idle" /\ ap'.edit.add = {} /\ current = vs.man /\ current \in DOMAIN manifests
      /\ vs.man < vs.next /\ current # 0
  BY <1>1, <1>2, Zenon DEF VerTypes, NoAp, NoEdit, ManifestInv, Alive
<1>5. /\ \A f \in DOMAIN tables : f \in Live(versions, outputs) \/ bgError =>
              f \in DOMAIN tables' /\ tables'[f] = tables[f]
      /\ current \in DOMAIN manifests' /\ manifests'[current] = manifests[current]
  <2>1. current >= vs.man
    BY <1>4
  <2> QED
    BY <1>3, <1>4, <2>1, DeleteKeeps, ZenonT(30)
<1>6. Manifest' = Manifest
  BY <1>2, <1>4, <1>5, ManifestUntouched, Zenon
<1>7. /\ Len(Manifest.edits)' = Len(Manifest.edits) /\ Manifest'.synced = Manifest.synced
      /\ ManifestLengths' = ManifestLengths /\ \A n : V(n)' = V(n)
      /\ V(Len(Manifest.edits))' = V(Len(Manifest.edits))
      /\ \A f : Recorded(f)' <=> Recorded(f)
  BY <1>6, ManifestSame, Zenon DEF V
<1>8. \A f : InUse(f)' => /\ InUse(f)
                          /\ f \in NewVersion \/ f \in cp'.ver \/ \E r \in Readers : f \in pins[r]
  BY <1>2, <1>4 DEF InUse, NewVersion, NoCp
<1>9. \A f : InUse(f)' => f \in Live(versions, outputs)
  <2> SUFFICES ASSUME NEW f, InUse(f)' PROVE f \in Live(versions, outputs)
    BY Zenon
  <2>1. f \in NewVersion \/ f \in cp'.ver \/ \E r \in Readers : f \in pins[r]
    BY <1>8, Zenon
  <2>2. f \in UNION versions \/ \E r \in Readers : f \in pins[r]
    BY <1>3, <2>1 DEF NoCp
  <2> QED
    BY <1>1, <2>2, LiveHas, Zenon
<1>10. ASSUME ~bgError, NEW f, Recorded(f) PROVE f \in Live(versions, outputs)
  <2>1. /\ Manifest.synced = Len(Manifest.edits)
        /\ V(Len(Manifest.edits)).files = NewVersion
    BY <1>1, <1>2, <1>10, Zenon DEF ExactInv
  <2>2. \A n \in ManifestLengths : n = Len(Manifest.edits)
    BY <1>1, <2>1, ManifestTyped DEF ManifestLengths
  <2>3. f \in NewVersion
    BY <1>10, <2>1, <2>2, Zenon DEF Recorded
  <2> QED
    BY <1>1, <1>3, <2>3, LiveHas, Zenon
<1>11. \A f : Building(f)' => Building(f) /\ pending' = pending
  BY <1>2 DEF Building, NoFl, NoCp
<1>12. TablesInv'
  <2>1. ASSUME NEW f, InUse(f)' \/ Recorded(f)' PROVE f \in DOMAIN tables' /\ tables'[f].ok
    <3>1. f \in DOMAIN tables /\ tables[f].ok
      BY <1>1, <1>7, <1>8, <2>1, Zenon DEF TablesInv
    <3>2. f \in Live(versions, outputs) \/ bgError
      BY <1>7, <1>9, <1>10, <2>1, Zenon
    <3> QED
      BY <1>5, <3>1, <3>2, Zenon
  <2>2. \A f : InUse(f)' => f < vs'.next
    BY <1>1, <1>4, <1>8, Zenon DEF TablesInv
  <2>3. ASSUME NEW f, Building(f)'
        PROVE  f \in DOMAIN tables' /\ f \in pending' /\ f < vs'.next /\ ~InUse(f)' /\ ~Recorded(f)'
    <3>1. f \in DOMAIN tables /\ f \in pending' /\ f < vs.next /\ ~InUse(f) /\ ~Recorded(f)
      BY <1>1, <1>11, <2>3, Zenon DEF TablesInv
    <3>2. f \in Live(versions, outputs)
      BY <1>1, <1>3, <3>1, LiveHas, Zenon
    <3> QED
      BY <1>4, <1>5, <1>7, <1>8, <3>1, <3>2, Zenon
  <2>4. fl'.pc # "idle" /\ cp'.out # 0 => fl'.num # cp'.out
    BY <1>1, <1>2 DEF TablesInv, NoFl, NoCp
  <2>5. cp'.inputs \subseteq cp'.ver
    BY <1>1, <1>2 DEF TablesInv, NoCp
  <2> QED
    BY <2>1, <2>2, <2>3, <2>4, <2>5, Zenon DEF TablesInv
<1>13. EditInv'
  BY <1>4, Zenon DEF EditInv
<1>14. ManifestInv'
  <2>1. ASSUME NEW n \in ManifestLengths PROVE RecoveryInv(n)'
    <3>1. RecoveryInv(n)
      BY <1>1, Zenon DEF ManifestInv
    <3> QED
      BY <1>2, <1>4, <1>7, <3>1, Zenon DEF RecoveryInv, Alive
  <2> QED
    BY <1>2, <1>4, <1>5, <1>7, <2>1, Zenon DEF ManifestInv, Alive
<1>15. ExactInv'
  BY <1>1, <1>2, <1>4, <1>7, Zenon DEF ExactInv
<1> QED
  BY <1>12, <1>13, <1>14, <1>15, Zenon DEF CoreInv

(* The version of a trivial move has the same files.                       *)
LEMMA MoveInstallCore ==
  ASSUME FInv, MoveInstall
  PROVE  CoreInv'
<1>1. /\ TablesInv /\ EditInv /\ ExactInv /\ VerTypes /\ Phases
  BY Zenon DEF FInv, TInv, StateTypes
<1>2. /\ up = "open" /\ ap.pc = "install" /\ ap.kind = "move" /\ ap' = NoAp /\ cur' = NewVersion
      /\ UNCHANGED <<tables, manifests, current, pins, pending, up, bgError, rc, fl>>
      /\ vs' = [vs EXCEPT !.log = ap.edit.log] /\ cp' = NoCp
  BY <1>1, Zenon DEF MoveInstall, disk, Phases
<1>3. /\ vs'.next = vs.next /\ vs'.man = vs.man /\ vs.next \in Nat
      /\ ap'.pc = "idle" /\ ap'.edit.add = {}
  BY <1>1, <1>2, Zenon DEF VerTypes, NoAp, NoEdit
<1>4. NewVersion = cur
  BY <1>1, <1>2, Zenon DEF EditInv, NewVersion
<1>5. vs'.next \in Nat /\ vs'.next >= vs.next
  BY <1>3
<1>6. /\ Manifest' = Manifest /\ \A n : V(n)' = V(n)
      /\ V(Len(Manifest.edits))' = V(Len(Manifest.edits))
      /\ \A f : Recorded(f)' <=> Recorded(f)
      /\ ManifestInv'
  BY <1>2, <1>3, <1>5, ManifestKept, Zenon DEF V
<1>7. \A f : (InUse(f)' => InUse(f)) /\ (Building(f)' => Building(f))
  BY <1>2, <1>3, <1>4, Zenon DEF InUse, Building, NoCp
<1>8. TablesInv'
  BY <1>1, <1>2, <1>3, <1>6, <1>7, Zenon DEF TablesInv, NoCp
<1>9. EditInv'
  BY <1>3, Zenon DEF EditInv
<1>10. ExactInv'
  BY <1>1, <1>2, <1>3, <1>4, <1>6, Zenon DEF ExactInv
<1> QED
  BY <1>6, <1>8, <1>9, <1>10, Zenon DEF CoreInv

(* The files CURRENT leads to, after the state of the process is gone.     *)
LEMMA ResetCore ==
  ASSUME FInv, Reset, UNCHANGED <<tables, current>>,
         current # 0 => current \in DOMAIN manifests',
         \A f : Recorded(f)' => Recorded(f),
         \A n \in ManifestLengths' :
           /\ \A f \in V(n)'.files : f < V(n)'.next
           /\ ~V(n)'.bad => current < V(n)'.next
           /\ V(n)'.next <= V(Len(Manifest.edits))'.next
  PROVE  CoreInv'
<1>1. TablesInv
  BY Zenon DEF FInv
<1>2. /\ up' = "down" /\ cur' = {} /\ fl'.pc = "idle" /\ cp'.pc = "idle" /\ ap'.pc = "idle"
      /\ cp'.ver = {} /\ cp'.inputs = {} /\ rc'.add = {} /\ ap'.edit.add = {}
      /\ \A r \in Readers : pins'[r] = {}
  BY Zenon DEF Reset, NoFl, NoCp, NoAp, NoRc, NoEdit
<1>3. \A f : ~InUse(f)' /\ ~Building(f)'
  BY <1>2, Zenon DEF InUse, Building
<1>4. TablesInv'
  BY <1>1, <1>2, <1>3, Zenon DEF TablesInv
<1>5. EditInv' /\ ExactInv'
  BY <1>2, Zenon DEF EditInv, ExactInv
<1>6. ASSUME NEW n \in ManifestLengths' PROVE RecoveryInv(n)'
  BY <1>2, Zenon DEF RecoveryInv, Alive
<1>7. ManifestInv'
  BY <1>2, <1>6, Zenon DEF ManifestInv, Alive
<1> QED
  BY <1>4, <1>5, <1>7, Zenon DEF CoreInv

(* DB::Open gives up.                                                      *)
LEMMA OpenFailCore ==
  ASSUME FInv, OpenFail \/ OpenGiveUp
  PROVE  CoreInv'
<1>1. ManifestInv /\ Phases /\ ManifestTypes /\ VerTypes
  BY Zenon DEF FInv, TInv, FileTypes, StateTypes
<1>2. up # "open" /\ Reset /\ UNCHANGED <<tables, current>> /\ Alive
  BY <1>1, Zenon DEF OpenFail, OpenGiveUp, ApplyCanFail, Phases, disk, Alive
<1>3. current # 0 /\ current \in DOMAIN manifests
  BY <1>1, <1>2, Zenon DEF ManifestInv
<1>4. current \in DOMAIN manifests' /\ manifests'[current] = manifests[current]
  <2>1. CASE OpenFail
    <3>1. current # vs.man /\ manifests' = Restrict(manifests, DOMAIN manifests \ {vs.man})
      BY <1>1, <2>1, Zenon DEF OpenFail, ApplyCanFail, Phases, ManifestInv
    <3> QED
      BY <1>3, <3>1, Zenon DEF Restrict
  <2>2. CASE OpenGiveUp
    BY <1>3, <2>2, Zenon DEF OpenGiveUp, disk
  <2> QED
    BY <2>1, <2>2, Zenon
<1>5. Manifest' = Manifest
  BY <1>2, <1>3, <1>4, ManifestUntouched, Zenon
<1>6. /\ Len(Manifest.edits)' = Len(Manifest.edits)
      /\ ManifestLengths' = ManifestLengths /\ \A n : V(n)' = V(n)
      /\ V(Len(Manifest.edits))' = V(Len(Manifest.edits))
      /\ \A f : Recorded(f)' <=> Recorded(f)
  BY <1>5, ManifestSame, Zenon DEF V
<1>7. \A n \in ManifestLengths : RecoveryInv(n)
  BY <1>1, Zenon DEF ManifestInv
<1>8. \A n \in ManifestLengths' :
        /\ \A f \in V(n)'.files : f < V(n)'.next
        /\ ~V(n)'.bad => current < V(n)'.next
        /\ V(n)'.next <= V(Len(Manifest.edits))'.next
  BY <1>2, <1>6, <1>7, Zenon DEF RecoveryInv
<1> QED
  BY <1>2, <1>4, <1>6, <1>8, ResetCore, Zenon

(* A crash leaves what has been synced, and a part of the rest.            *)
LEMMA CrashCore ==
  ASSUME FInv, Crash
  PROVE  CoreInv'
<1>1. ManifestInv /\ ManifestTypes /\ VerTypes
  BY Zenon DEF FInv, TInv, FileTypes, StateTypes
<1>2. Reset /\ UNCHANGED <<tables, current>> /\ DOMAIN manifests' = DOMAIN manifests
  BY Zenon DEF Crash
<1>3. PICK E : E = Manifest.edits
  BY Zenon
<1>4. E \in Seq(Edits)
  BY <1>1, <1>3, ManifestTyped, Zenon
<1>5. PICK n, F :
        /\ n \in ManifestLengths /\ Manifest'.edits = F /\ Manifest'.synced = Len(F)
        /\ \/ F = SubSeq(E, 1, n)
           \/ /\ n < Len(E) /\ F = Append(SubSeq(E, 1, n), [E[n + 1] EXCEPT !.ok = FALSE])
  <2>1. CASE current \in DOMAIN manifests
    <3>1. PICK n \in ManifestLengths :
            \E tail \in Tails(E, n) :
              manifests'[current] = [edits |-> tail, synced |-> Len(tail)]
      BY <1>3, <2>1, Zenon DEF Crash
    <3>2. PICK tail \in Tails(E, n) :
            manifests'[current] = [edits |-> tail, synced |-> Len(tail)]
      BY <3>1, Zenon
    <3>3. Manifest'.edits = tail /\ Manifest'.synced = Len(tail)
      BY <1>2, <2>1, <3>2 DEF Manifest
    <3> QED
      BY <3>2, <3>3, Zenon DEF Tails
  <2>2. CASE current \notin DOMAIN manifests
    <3>1. E = <<>> /\ ManifestLengths = 0..0 /\ Manifest'.edits = <<>> /\ Manifest'.synced = 0
      BY <1>2, <1>3, <2>2, Zenon DEF Manifest, ManifestLengths
    <3>2. SubSeq(<<>>, 1, 0) = <<>> /\ Len(<<>>) = 0 /\ 0 \in 0..0
      OBVIOUS
    <3> QED
      BY <3>1, <3>2, Zenon
  <2> QED
    BY <2>1, <2>2, Zenon
<1>6. n \in 0..Len(E) /\ n \in Nat
  BY <1>1, <1>3, <1>5, ManifestTyped
<1>7. PICK S : S = SubSeq(E, 1, n)
  BY Zenon
<1>8. S \in Seq(Edits) /\ Len(S) = n /\ \A i \in 1..n : S[i] = E[i]
  BY <1>4, <1>6, <1>7
<1>9. RecoveryInv(n) /\ V(n) = Replay(E, n)
  BY <1>1, <1>3, <1>5, Zenon DEF ManifestInv, V
<1>10. V(Len(Manifest.edits))' = Replay(F, Len(F)) /\ \A k : V(k)' = Replay(F, k)
  BY <1>5, Zenon DEF V
<1>11. /\ F \in Seq(Edits)
       /\ Replay(F, Len(F)).files = V(n).files /\ Replay(F, Len(F)).next = V(n).next
       /\ Replay(F, Len(F)).bad = V(n).bad \/ Replay(F, Len(F)).bad
  <2>1. CASE F = SubSeq(E, 1, n)
    <3>1. Replay(F, n) = Replay(E, n)
      BY <1>6, <1>7, <1>8, <2>1, ReplaySame, Zenon
    <3> QED
      BY <1>7, <1>8, <1>9, <2>1, <3>1, Zenon
  <2>2. CASE n < Len(E) /\ F = Append(SubSeq(E, 1, n), [E[n + 1] EXCEPT !.ok = FALSE])
    <3>1. E[n + 1] \in Edits
      BY <1>4, <1>6, <2>2
    <3>2. PICK e : e = [E[n + 1] EXCEPT !.ok = FALSE]
      BY Zenon
    <3>3. e \in Edits /\ ~e.ok
      BY <3>1, <3>2, TornTyped, Zenon
    <3>4. F = Append(S, e)
      BY <1>7, <2>2, <3>2, Zenon
    <3>5. /\ F \in Seq(Edits) /\ Len(F) = n + 1 /\ F[n + 1] = e /\ \A i \in 1..n : F[i] = E[i]
      BY <1>6, <1>8, <3>3, <3>4
    <3>6. Replay(F, n) = Replay(E, n)
      BY <1>6, <3>5, ReplaySame, Zenon
    <3>7. n + 1 \in 1..Len(F) /\ (n + 1) - 1 = n
      BY <1>6, <3>5
    <3>8. /\ Replay(F, n + 1).files = Replay(F, n).files
          /\ Replay(F, n + 1).next = Replay(F, n).next /\ Replay(F, n + 1).bad
      <4>1. F \in Seq(Edits) /\ n + 1 \in 1..Len(F) /\ (n + 1) - 1 = n /\ F[n + 1] = e
        BY <3>5, <3>7, Zenon
      <4>2. Applies(Replay(F, n + 1), Replay(F, n), e)
        BY <4>1, ReplayNext, Zenon
      <4> QED
        BY <3>3, <4>2, Zenon DEF Applies
    <3> QED
      BY <1>9, <3>5, <3>6, <3>8, Zenon
  <2> QED
    BY <1>5, <2>1, <2>2, Zenon
<1>12. \A k \in ManifestLengths' : k = Len(F)
  BY <1>5, <1>11 DEF ManifestLengths
<1>13. /\ \A f : Recorded(f)' => Recorded(f)
  BY <1>5, <1>10, <1>11, <1>12, Zenon DEF Recorded
<1>14. \A k \in ManifestLengths' :
         /\ \A f \in V(k)'.files : f < V(k)'.next
         /\ ~V(k)'.bad => current < V(k)'.next
         /\ V(k)'.next <= V(Len(Manifest.edits))'.next
  <2>1. V(n).next \in Nat
    BY <1>1, <1>3, <1>6, ManifestTyped, Zenon
  <2>2. /\ \A f \in V(n).files : f < V(n).next
        /\ ~V(n).bad => current < V(n).next
    BY <1>9, Zenon DEF RecoveryInv
  <2> QED
    BY <1>10, <1>11, <1>12, <2>1, <2>2
<1>15. current # 0 => current \in DOMAIN manifests'
  BY <1>1, <1>2, Zenon DEF ManifestInv
<1> QED
  BY <1>2, <1>13, <1>14, <1>15, ResetCore, Zenon

(* VersionSet::Recover.                                                    *)
LEMMA OpenRecoverCore ==
  ASSUME FInv, OpenRecover
  PROVE  CoreInv'
<1>1. /\ TablesInv /\ EditInv /\ ManifestInv /\ ManifestTypes /\ TableTypes /\ VerTypes
      /\ Phases
  BY Zenon DEF FInv, TInv, FileTypes, StateTypes
<1>2. /\ up = "down" /\ current # 0 /\ up' \in {"corrupt", "recovering"}
      /\ UNCHANGED <<tables, manifests, current, pins, pending, fl, cp, ap, bgError>>
      /\ ap.pc = "idle" /\ ap.edit.add = {} /\ fl.pc = "idle" /\ cp.pc = "idle"
  BY <1>1, Zenon DEF OpenRecover, disk, Phases
<1>3. PICK L : L = Len(Manifest.edits)
  BY Zenon
<1>4. L \in ManifestLengths /\ V(L).next \in Nat /\ V(L).files \subseteq Nat /\ current \in Nat
  BY <1>1, <1>3, ManifestTyped, Zenon DEF VerTypes
<1>5. Manifest' = Manifest
  BY <1>2, ManifestUntouched, Zenon
<1>6. /\ ManifestLengths' = ManifestLengths /\ \A n : V(n)' = V(n)
      /\ V(Len(Manifest.edits))' = V(L)
      /\ \A f : Recorded(f)' <=> Recorded(f)
  BY <1>3, <1>5, ManifestSame, Zenon DEF V
<1>7. EditInv' /\ ExactInv'
  BY <1>2, Zenon DEF EditInv, ExactInv
<1>8. \A f : ~Building(f)'
  BY <1>2, Zenon DEF Building
<1>9. \A n \in ManifestLengths : RecoveryInv(n) /\ V(n).next \in Nat
  BY <1>1, ManifestTyped, Zenon DEF ManifestInv
<1>10. CASE up' = "corrupt" /\ UNCHANGED <<vs, cur, rc>>
  <2>1. \A f : InUse(f)' <=> InUse(f)
    BY <1>2, <1>10, Zenon DEF InUse
  <2>2. TablesInv'
    BY <1>1, <1>2, <1>6, <1>8, <1>10, <2>1, Zenon DEF TablesInv
  <2>3. ASSUME NEW n \in ManifestLengths PROVE RecoveryInv(n)'
    BY <1>2, <1>3, <1>6, <1>9, <1>10, Zenon DEF RecoveryInv, Alive
  <2>4. ManifestInv'
    BY <1>1, <1>2, <1>6, <1>10, <2>3, Zenon DEF ManifestInv, Alive
  <2> QED
    BY <1>7, <2>2, <2>4, Zenon DEF CoreInv
<1>11. CASE /\ up' = "recovering" /\ ~V(L).bad /\ vs'.next \in Nat /\ vs'.next > V(L).next
            /\ vs'.man = V(L).next /\ cur' = V(L).files /\ rc'.add = {}
  <2>1. /\ current < V(L).next /\ \A f \in V(L).files : f < V(L).next
        /\ \A n \in ManifestLengths : V(n).next <= V(L).next
    BY <1>2, <1>3, <1>4, <1>9, <1>11, Zenon DEF RecoveryInv
  <2>2. \A f : InUse(f)' => f \in V(L).files
    BY <1>1, <1>2, <1>11, Zenon DEF InUse, Phases
  <2>3. \A f : InUse(f)' => f \in Nat /\ f < vs'.next /\ Recorded(f)
    BY <1>4, <1>11, <2>1, <2>2 DEF Recorded
  <2>4. TablesInv'
    BY <1>1, <1>2, <1>6, <1>8, <2>3, Zenon DEF TablesInv
  <2>5. ASSUME NEW n \in ManifestLengths PROVE RecoveryInv(n)'
    <3>1. V(n).next <= vs'.next
      BY <1>4, <1>9, <1>11, <2>1
    <3> QED
      BY <1>2, <1>3, <1>6, <1>9, <1>11, <3>1, Zenon DEF RecoveryInv
  <2>6. vs'.man < vs'.next /\ current' < vs'.man
    BY <1>2, <1>4, <1>11, <2>1, Zenon
  <2>7. ManifestInv'
    BY <1>1, <1>2, <1>6, <1>11, <2>5, <2>6, Zenon DEF ManifestInv, Alive
  <2> QED
    BY <1>7, <2>4, <2>7, Zenon DEF CoreInv
<1> QED
  BY <1>1, <1>3, <1>10, <1>11, OpenRecoverCases, Zenon

(* RecoverLogFile gives the writes of a log a table with a new number.     *)
LEMMA RecoverLogFileCore ==
  ASSUME FInv, RecoverLogFile
  PROVE  CoreInv'
<1>1. /\ TablesInv /\ EditInv /\ ManifestInv /\ ManifestTypes /\ TableTypes /\ VerTypes
      /\ ApplyTypes /\ Phases
  BY Zenon DEF FInv, TInv, FileTypes, StateTypes
<1>2. /\ up = "recovering"
      /\ UNCHANGED <<manifests, current, cur, pins, pending, up, bgError, fl, cp, ap>>
      /\ ap.pc = "idle" /\ ap.edit.add = {} /\ fl.pc = "idle" /\ cp.pc = "idle"
  BY <1>1, Zenon DEF RecoverLogFile, Phases
<1>3. PICK l, data :
        /\ \A n \in Nat : Max({n, l + 1}) \in Nat /\ Max({n, l + 1}) >= n
        /\ \/ /\ tables' = With(tables, vs.next, [data |-> data, ok |-> TRUE])
              /\ rc'.add = rc.add \cup {vs.next}
              /\ vs' = [vs EXCEPT !.next = Max({vs.next + 1, l + 1})]
           \/ /\ UNCHANGED tables /\ rc'.add = rc.add
              /\ \E n \in {vs.next, vs.next + 1} : vs' = [vs EXCEPT !.next = Max({n, l + 1})]
  <2>1. PICK l, data : l = Min(rc.todo) /\ data = Readable(logs[l].recs, AllRecords(l))
    BY Zenon
  <2>2. \A n \in Nat : Max({n, l + 1}) \in Nat /\ Max({n, l + 1}) >= n
    BY <2>1, RecoverNumbers, Zenon
  <2>3. \/ /\ tables' = With(tables, vs.next, [data |-> data, ok |-> TRUE])
           /\ rc'.add = rc.add \cup {vs.next}
           /\ vs' = [vs EXCEPT !.next = Max({vs.next + 1, l + 1})]
        \/ /\ UNCHANGED tables /\ rc'.add = rc.add
           /\ vs' = [vs EXCEPT !.next = Max({vs.next, l + 1})]
        \/ /\ UNCHANGED tables /\ rc'.add = rc.add
           /\ vs' = [vs EXCEPT !.next = Max({vs.next + 1, l + 1})]
    <3>1. PICK max : max = Max({rc.max} \cup {w.seq : w \in data})
      BY Zenon
    <3>2. CASE /\ tables' = With(tables, vs.next, [data |-> data, ok |-> TRUE])
               /\ rc' = [todo |-> rc.todo \ {l}, add |-> rc.add \cup {vs.next}, ok |-> TRUE,
                         max |-> max]
               /\ vs' = [vs EXCEPT !.next = Max({vs.next + 1, l + 1})]
      BY <3>2, Zenon
    <3>3. CASE /\ rc' = [rc EXCEPT !.todo = @ \ {l}, !.ok = TRUE]
               /\ vs' = [vs EXCEPT !.next = Max({vs.next, l + 1})]
               /\ UNCHANGED tables
      BY <1>1, <3>3, Zenon DEF ApplyTypes
    <3>4. CASE /\ rc' = [todo |-> rc.todo \ {l}, add |-> rc.add, ok |-> FALSE, max |-> max]
               /\ vs' = [vs EXCEPT !.next = Max({vs.next + 1, l + 1})]
               /\ UNCHANGED tables
      BY <3>4, Zenon
    <3> QED
      BY <2>1, <3>1, <3>2, <3>3, <3>4, Zenon DEF RecoverLogFile
  <2> QED
    BY <2>2, <2>3, Zenon
<1>4. /\ vs.next \in Nat /\ vs.man \in Nat
      /\ vs'.man = vs.man /\ vs'.next \in Nat /\ vs.next <= vs'.next
  <2>1. vs.next \in Nat /\ vs.next + 1 \in Nat
    BY <1>1 DEF VerTypes
  <2>2. PICK n \in {vs.next, vs.next + 1} : vs' = [vs EXCEPT !.next = Max({n, l + 1})]
    BY <1>3, Zenon
  <2>3. vs'.man = vs.man /\ vs'.next = Max({n, l + 1})
    BY <1>1, <2>2, Zenon DEF VerTypes
  <2>4. vs'.next \in Nat /\ vs'.next >= n
    BY <1>3, <2>1, <2>2, <2>3, Zenon
  <2> QED
    BY <1>1, <2>1, <2>2, <2>3, <2>4 DEF VerTypes
<1>5. \/ /\ tables' = With(tables, vs.next, [data |-> data, ok |-> TRUE])
         /\ rc'.add = rc.add \cup {vs.next} /\ vs.next < vs'.next
      \/ UNCHANGED tables /\ rc'.add = rc.add
  <2>1. CASE /\ tables' = With(tables, vs.next, [data |-> data, ok |-> TRUE])
             /\ rc'.add = rc.add \cup {vs.next}
             /\ vs' = [vs EXCEPT !.next = Max({vs.next + 1, l + 1})]
    <3>1. vs'.next = Max({vs.next + 1, l + 1}) /\ vs.next + 1 \in Nat
      BY <1>1, <2>1 DEF VerTypes
    <3>2. vs'.next >= vs.next + 1
      BY <1>3, <3>1, Zenon
    <3> QED
      BY <1>4, <2>1, <3>2
  <2> QED
    BY <1>3, <2>1, Zenon
<1>6. Manifest' = Manifest
  BY <1>2, ManifestUntouched, Zenon
<1>7. /\ Len(Manifest.edits)' = Len(Manifest.edits)
      /\ ManifestLengths' = ManifestLengths /\ \A n : V(n)' = V(n)
      /\ V(Len(Manifest.edits))' = V(Len(Manifest.edits))
      /\ \A f : Recorded(f)' <=> Recorded(f)
  BY <1>6, ManifestSame, Zenon DEF V
<1>8. \A f : InUse(f)' => InUse(f) \/ (f = vs.next /\ f \in rc'.add)
  BY <1>2, <1>5, Zenon DEF InUse
<1>9. \A f : InUse(f) \/ Recorded(f) => /\ f \in Nat /\ f < vs.next
                                        /\ f \in DOMAIN tables /\ tables[f].ok
  BY <1>1, <1>2, UsedOld, Zenon DEF Alive, TablesInv
<1>10. ASSUME NEW f, InUse(f) \/ Recorded(f)
       PROVE  f \in DOMAIN tables' /\ tables'[f].ok /\ f < vs'.next
  <2>1. f \in Nat /\ f < vs.next /\ f \in DOMAIN tables /\ tables[f].ok
    BY <1>9, <1>10, Zenon
  <2>2. f # vs.next /\ f < vs'.next
    BY <1>4, <2>1
  <2>3. f \in DOMAIN tables' /\ tables'[f] = tables[f]
    BY <1>5, <2>1, <2>2, Zenon DEF With
  <2> QED
    BY <2>1, <2>2, <2>3, Zenon
<1>11. ASSUME NEW f, InUse(f)', ~InUse(f)
       PROVE  f \in DOMAIN tables' /\ tables'[f].ok /\ f < vs'.next
  <2>1. /\ f = vs.next /\ tables' = With(tables, vs.next, [data |-> data, ok |-> TRUE])
        /\ vs.next < vs'.next
    BY <1>5, <1>8, <1>11, Zenon DEF InUse
  <2> QED
    BY <2>1, Zenon DEF With
<1>12. TablesInv'
  <2>1. \A f : ~Building(f)'
    BY <1>2, Zenon DEF Building
  <2> QED
    BY <1>1, <1>2, <1>7, <1>8, <1>10, <1>11, <2>1, Zenon DEF TablesInv
<1>13. EditInv' /\ ExactInv'
  BY <1>2, Zenon DEF EditInv, ExactInv
<1>14. ManifestInv'
  <2>1. ASSUME NEW n \in ManifestLengths PROVE RecoveryInv(n)'
    <3>1. RecoveryInv(n) /\ V(n).next \in Nat
      BY <1>1, ManifestTyped, Zenon DEF ManifestInv
    <3>2. vs.next <= vs'.next /\ (Alive <=> Alive') /\ (ap'.pc = "append" <=> ap.pc = "append")
      BY <1>2, <1>4, Zenon DEF Alive
    <3>3. Alive => V(n).next <= vs'.next
      BY <1>4, <3>1, <3>2 DEF RecoveryInv
    <3> QED
      BY <1>2, <1>7, <3>1, <3>2, <3>3, Zenon DEF RecoveryInv
  <2> QED
    BY <1>1, <1>2, <1>4, <1>7, <2>1 DEF ManifestInv, Alive
<1> QED
  BY <1>12, <1>13, <1>14, Zenon DEF CoreInv

(* DB::Open starts a new MANIFEST, and a new log.                          *)
LEMMA OpenApplyCore ==
  ASSUME FInv, OpenApply
  PROVE  CoreInv'
<1>1. /\ TablesInv /\ EditInv /\ ManifestInv /\ ManifestTypes /\ TableTypes /\ VerTypes
      /\ ApplyTypes /\ Phases
  BY Zenon DEF FInv, TInv, FileTypes, StateTypes
<1>2. PICK v : v = [vs EXCEPT !.next = @ + 1, !.last = Max({@, rc.max})]
  BY Zenon
<1>3. /\ up = "recovering" /\ up' = "opening" /\ vs' = v
      /\ manifests' = With(manifests, vs.man, [edits |-> <<Snapshot>>, synced |-> 0])
      /\ BeginApply("open", rc.add, {}, vs.next, v)
      /\ UNCHANGED <<tables, current, cur, pins, pending, bgError, fl, cp, rc>>
      /\ fl.pc = "idle" /\ cp.pc = "idle"
  BY <1>1, <1>2, Zenon DEF OpenApply, Snapshot, Phases
<1>4. /\ vs.next \in Nat /\ vs'.next = vs.next + 1 /\ vs'.man = vs.man /\ vs.man \in Nat
      /\ current \in Nat /\ current # 0 /\ current < vs.man /\ vs.man < vs.next /\ v.next = vs'.next
  BY <1>1, <1>2, <1>3, Zenon DEF VerTypes, ManifestInv, Alive
<1>5. /\ ap'.pc = "append" /\ ap'.kind = "open" /\ ap'.edit.add = rc.add /\ ap'.edit.del = {}
      /\ ap'.edit.next = vs'.next /\ ap'.edit.ok
  <2>1. BeginApply("open", rc.add, {}, vs.next, v)
    BY <1>3, Zenon
  <2>2. /\ ap'.pc = "append" /\ ap'.kind = "open" /\ ap'.edit.add = rc.add /\ ap'.edit.del = {}
        /\ ap'.edit.next = v.next /\ ap'.edit.ok
    BY <2>1, BeginApplyStarts, Zenon
  <2> QED
    BY <1>4, <2>2, Zenon
<1>6. current # vs.man
  BY <1>4
<1>7. Manifest' = Manifest
  BY <1>3, <1>6, ManifestUntouched, Zenon DEF With
<1>8. /\ Len(Manifest.edits)' = Len(Manifest.edits)
      /\ ManifestLengths' = ManifestLengths /\ \A n : V(n)' = V(n)
      /\ V(Len(Manifest.edits))' = V(Len(Manifest.edits))
      /\ \A f : Recorded(f)' <=> Recorded(f)
  BY <1>7, ManifestSame, Zenon DEF V
<1>9. \A f : InUse(f)' => InUse(f)
  BY <1>3, <1>5, Zenon DEF InUse
<1>10. \A f : InUse(f) => f \in Nat /\ f < vs'.next
  <2>1. \A f : InUse(f) => f \in Nat /\ f < vs.next
    BY <1>3, UsedOld, Zenon DEF Alive
  <2> QED
    BY <1>4, <2>1
<1>11. TablesInv'
  <2>1. \A f : ~Building(f)'
    BY <1>3, Zenon DEF Building
  <2> QED
    BY <1>1, <1>3, <1>8, <1>9, <1>10, <2>1, Zenon DEF TablesInv
<1>12. EditInv'
  <2>1. \A f \in rc.add : InUse(f)
    BY Zenon DEF InUse
  <2>2. vs'.man < vs'.next /\ vs'.next <= vs'.next
    BY <1>4
  <2> QED
    BY <1>3, <1>5, <1>10, <2>1, <2>2, Zenon DEF EditInv
<1>13. ExactInv'
  BY <1>3, Zenon DEF ExactInv
<1>14. ManifestInv'
  <2>1. ASSUME NEW n \in ManifestLengths PROVE RecoveryInv(n)'
    <3>1. RecoveryInv(n) /\ V(n).next \in Nat
      BY <1>1, ManifestTyped, Zenon DEF ManifestInv
    <3>2. V(n).next <= vs.next
      BY <1>3, <3>1, Zenon DEF RecoveryInv, Alive
    <3>3. V(n).next <= vs'.next
      BY <1>4, <3>1, <3>2
    <3> QED
      BY <1>3, <1>5, <1>8, <3>1, <3>3, Zenon DEF RecoveryInv
  <2>2. Snapshot' = Snapshot
    BY <1>3, Zenon DEF Snapshot
  <2>3. /\ DOMAIN manifests' = DOMAIN manifests \cup {vs.man}
        /\ manifests'[vs.man] = [edits |-> <<Snapshot>>, synced |-> 0]
    BY <1>3, Zenon DEF With
  <2>4. vs'.man < vs'.next
    BY <1>4
  <2>5. vs'.man \in DOMAIN manifests' /\ manifests'[vs'.man].edits = <<Snapshot'>>
    BY <1>4, <2>2, <2>3
  <2>6. current' # 0 /\ current' \in DOMAIN manifests' /\ current' # vs'.man
    BY <1>1, <1>3, <1>4, <1>6, <2>3, Zenon DEF ManifestInv
  <2> QED
    BY <1>3, <1>5, <1>8, <2>1, <2>4, <2>5, <2>6, Zenon DEF ManifestInv
<1> QED
  BY <1>11, <1>12, <1>13, <1>14, Zenon DEF CoreInv

(* DB::Open installs the version that it recovered.                        *)
LEMMA OpenInstallCore ==
  ASSUME FInv, OpenInstall
  PROVE  CoreInv'
<1>1. /\ TablesInv /\ EditInv /\ ManifestInv /\ ManifestTypes /\ VerTypes /\ ApplyTypes /\ Phases
  BY Zenon DEF FInv, TInv, FileTypes, StateTypes
<1>2. /\ up = "opening" /\ ap.pc = "install" /\ ap.kind = "open" /\ ap' = NoAp /\ rc' = NoRc
      /\ cur' = NewVersion /\ up' = "open" /\ vs' = [vs EXCEPT !.log = ap.edit.log]
      /\ UNCHANGED <<current, pins, pending, bgError, fl, cp>>
      /\ DeleteObsoleteFiles({NewVersion}, pending, ap.edit.log, manifests, FALSE)
      /\ fl.pc = "idle" /\ cp.pc = "idle" /\ cp.ver = {} /\ cp.inputs = {}
      /\ \A r \in Readers : pins[r] = {}
  BY <1>1, Zenon DEF OpenInstall, Phases
<1>3. /\ vs'.next = vs.next /\ vs'.man = vs.man /\ vs.next \in Nat /\ vs.man \in Nat
      /\ ap'.pc = "idle" /\ ap'.edit.add = {} /\ rc'.add = {}
      /\ current = vs.man /\ vs.man \in DOMAIN manifests /\ vs.man < vs.next /\ current # 0
      /\ manifests[vs.man].edits = <<Snapshot, ap.edit>> /\ manifests[vs.man].synced = 2
  BY <1>1, <1>2, Zenon DEF VerTypes, NoAp, NoRc, NoEdit, ManifestInv, Alive
<1>4. current \in DOMAIN manifests' /\ manifests'[current] = manifests[current]
  <2>1. current >= vs.man
    BY <1>3
  <2> QED
    BY <1>2, <1>3, <2>1, DeleteKeeps, Zenon
<1>5. \A f \in DOMAIN tables : f \in NewVersion => f \in DOMAIN tables' /\ tables'[f] = tables[f]
  <2>1. PICK versions, outputs, error :
          /\ versions = {NewVersion} /\ outputs = pending /\ error = FALSE
          /\ DeleteObsoleteFiles(versions, outputs, ap.edit.log, manifests, error)
    BY <1>2, Zenon
  <2>2. \A f \in NewVersion : f \in Live(versions, outputs)
    BY <1>1, <2>1, LiveHas, Zenon
  <2>3. \A f \in DOMAIN tables : f \in Live(versions, outputs) =>
          f \in DOMAIN tables' /\ tables'[f] = tables[f]
    BY <2>1, DeleteKeeps, Zenon
  <2> QED
    BY <2>2, <2>3, Zenon
<1>6. Manifest' = Manifest
  BY <1>2, <1>3, <1>4, ManifestUntouched, Zenon
<1>7. /\ Len(Manifest.edits)' = Len(Manifest.edits) /\ Manifest'.synced = Manifest.synced
      /\ ManifestLengths' = ManifestLengths /\ \A n : V(n)' = V(n)
      /\ V(Len(Manifest.edits))' = V(Len(Manifest.edits))
      /\ \A f : Recorded(f)' <=> Recorded(f)
  BY <1>6, ManifestSame, Zenon DEF V
<1>8. Manifest.edits = <<Snapshot, ap.edit>> /\ Manifest.synced = 2
  BY <1>3, Zenon DEF Manifest
<1>9. /\ Len(Manifest.edits) = 2 /\ V(2).files = NewVersion
  <2>1. Snapshot \in Edits /\ Snapshot.ok /\ Snapshot.add = cur
    BY SnapshotTyped, Zenon
  <2>2. ap.edit \in Edits /\ ap.edit.ok /\ ap.edit.del = {}
    BY <1>1, <1>2, Zenon DEF ApplyTypes, EditInv
  <2> QED
    BY <1>8, <2>1, <2>2, OpenVersion DEF V, NewVersion
<1>10. \A n \in ManifestLengths : n = 2
  BY <1>8, <1>9 DEF ManifestLengths
<1>11. \A f : InUse(f)' \/ Recorded(f)' => f \in NewVersion
  BY <1>2, <1>3, <1>7, <1>9, <1>10, Zenon DEF InUse, Recorded
<1>12. \A f \in NewVersion : InUse(f)
  BY Zenon DEF NewVersion, InUse
<1>13. TablesInv'
  <2>1. \A f : ~Building(f)'
    BY <1>2, Zenon DEF Building
  <2>2. ASSUME NEW f, InUse(f)' \/ Recorded(f)'
        PROVE  f \in DOMAIN tables' /\ tables'[f].ok /\ f < vs'.next
    <3>1. f \in NewVersion
      BY <1>11, <2>2, Zenon
    <3>2. f \in DOMAIN tables /\ tables[f].ok /\ f < vs.next
      BY <1>1, <1>12, <3>1, Zenon DEF TablesInv
    <3> QED
      BY <1>3, <1>5, <3>1, <3>2, Zenon
  <2> QED
    BY <1>2, <2>1, <2>2, Zenon DEF TablesInv
<1>14. EditInv'
  BY <1>3, Zenon DEF EditInv
<1>15. ManifestInv'
  <2>1. ASSUME NEW n \in ManifestLengths PROVE RecoveryInv(n)'
    <3>1. RecoveryInv(n)
      BY <1>1, Zenon DEF ManifestInv
    <3> QED
      BY <1>2, <1>3, <1>7, <3>1, Zenon DEF RecoveryInv, Alive
  <2> QED
    BY <1>2, <1>3, <1>4, <1>7, <2>1, Zenon DEF ManifestInv, Alive
<1>16. ExactInv'
  BY <1>2, <1>3, <1>7, <1>8, <1>9, Zenon DEF ExactInv
<1> QED
  BY <1>13, <1>14, <1>15, <1>16, Zenon DEF CoreInv

----------------------------------------------------------------------------
(* The tables in use, and those that a recovery may read.                  *)
Used(f) == InUse(f) \/ Recorded(f)

(* A table that is used before and after a step does not change.           *)
LEMMA TablesFrame ==
  ASSUME FInv, FInv', Next, NEW f, Used(f), Used(f)'
  PROVE  tables'[f] = tables[f]
<1>1. TablesInv /\ TablesInv' /\ VerTypes /\ Phases
  BY Zenon DEF FInv, TInv, StateTypes
<1>2. f \in DOMAIN tables /\ f \in DOMAIN tables'
  BY <1>1, Zenon DEF TablesInv, Used
<1>3. ~Building(f)
  BY <1>1, Zenon DEF TablesInv, Used
<1>4. ASSUME Alive PROVE f # vs.next
  <2>1. f \in Nat /\ f < vs.next /\ vs.next \in Nat
    BY <1>1, <1>4, UsedOld, Zenon DEF Used, VerTypes
  <2> QED
    BY <2>1
<1>5. CASE SwitchLog \/ BeginWrite \/ AddRecord \/ SyncLog \/ Insert
  BY <1>5, Zenon
     DEF SwitchLog, BeginWrite, AddRecord, SyncLog, Insert, EndWrite, disk
<1>6. CASE \E r \in Readers : Pin(r) \/ Unpin(r)
  BY <1>6, Zenon DEF Pin, Unpin, disk
<1>7. CASE ApplyAppend \/ ApplySync \/ ApplyCurrent \/ MoveInstall \/ FlushFail
  BY <1>7, Zenon
     DEF ApplyAppend, ApplySync, ApplyCurrent, MoveInstall, FlushFail, disk
<1>8. CASE FlushInstall \/ CompactInstall \/ OpenInstall
  <2>1. PICK versions, outputs, error :
          DeleteObsoleteFiles(versions, outputs, ap.edit.log, manifests, error)
    BY <1>8, Zenon DEF FlushInstall, CompactInstall, OpenInstall
  <2>2. CASE error
    BY <2>1, <2>2, Zenon DEF DeleteObsoleteFiles
  <2>3. CASE ~error
    BY <1>2, <2>1, <2>3, Zenon DEF DeleteObsoleteFiles, Restrict
  <2> QED
    BY <2>2, <2>3, Zenon
<1>9. CASE CompactFail
  BY <1>9, Zenon DEF CompactFail, DeleteObsoleteFiles
<1>10. CASE OpenFail \/ OpenGiveUp \/ NewDB \/ NewDBCurrent \/ OpenRecover \/ OpenApply \/ Crash
  BY <1>10, Zenon
     DEF OpenFail, OpenGiveUp, NewDB, NewDBCurrent, OpenRecover, OpenApply,
     Crash, disk
<1>11. CASE FlushStart \/ CompactOpenOutput
  <2>1. Alive
    BY <1>1, <1>11, Zenon DEF FlushStart, CompactOpenOutput, Phases, Alive
  <2> QED
    BY <1>2, <1>4, <1>11, <2>1, Zenon DEF FlushStart, CompactOpenOutput, With
<1>12. CASE FlushBuilt
  <2>1. f # fl.num
    BY <1>3, <1>12, Zenon DEF FlushBuilt, Building
  <2> QED
    BY <1>2, <1>12, <2>1, Zenon DEF FlushBuilt, BuildTable, Restrict
<1>13. CASE CompactStart
  BY <1>13, Zenon DEF CompactStart, disk
<1>14. CASE CompactFinish
  <2>1. f # cp.out
    BY <1>3, <1>14, Zenon DEF CompactFinish, Building
  <2> QED
    BY <1>2, <1>14, <2>1, Zenon DEF CompactFinish, DeleteObsoleteFiles
<1>15. CASE RecoverLogFile
  <2>1. f # vs.next
    BY <1>4, <1>15, Zenon DEF RecoverLogFile, Alive
  <2> QED
    BY <1>2, <1>15, <2>1, Zenon DEF RecoverLogFile, With
<1> QED
  BY <1>5, <1>6, <1>7, <1>8, <1>9, <1>10, <1>11, <1>12, <1>13, <1>14, <1>15, Zenon
     DEF Next

=============================================================================
