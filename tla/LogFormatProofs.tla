-------------------------- MODULE LogFormatProofs --------------------------
(***************************************************************************)
(* Proofs about LogFormat, for every block size, any records and any       *)
(* faults: the types, that the reader returns only records as they were    *)
(* written and in order, and that it skips to the initial offset once.     *)
(*                                                                         *)
(* The invariant follows the bytes.  A physical record that goes on with a *)
(* record is only emitted when the one before it was written in full, so   *)
(* between the two there is nothing but a trailer.  A reader that holds    *)
(* the first part of a record has passed no more than a trailer since, so  *)
(* the next good physical record, if it is not the first of another        *)
(* record, is the one that was written next.                               *)
(***************************************************************************)
EXTENDS LogFormat, TLAPS

(* A physical record with its header, and the number and the place in it   *)
(* that a byte of the file has; the number is 0 for a zero byte and -1 for *)
(* a damaged one.                                                          *)
End(p) == HeaderSize + phys[p].len
Num(i) == file[i][1]
Off(i) == file[i][2]

Bytes == Int \X Nat
PhysRecords == [type : RecordTypes, rec : Nat, from : Nat, len : Nat]
RecordPlaces == [size : Nat, start : Int, end : Int]
Readers ==
  [pc : {"off", "read", "done"}, initial : Nat, from : Nat, end : Nat, eof : BOOLEAN,
   inFrag : BOOLEAN, scratch : Seq(Bytes), top : Nat, start : Nat, last : Nat,
   dropped : BOOLEAN]
Types ==
  /\ file \in Seq(Bytes) /\ phys \in Seq(PhysRecords)
  /\ recs \in Seq(RecordPlaces)
  /\ w \in [pc : {"idle", "emit", "closed"}, offset : 0..BlockSize, left : Nat,
            begin : BOOLEAN]
  /\ rd \in Readers /\ rd.from <= rd.end
  /\ out \in Seq(Seq(Bytes))

(* The physical records: each is a part of its record, and the parts of a  *)
(* record follow each other, one of them the last.                         *)
PhysInv ==
  /\ \A p \in DOMAIN phys :
       /\ phys[p].rec \in DOMAIN recs /\ phys[p].len <= BlockSize - HeaderSize
       /\ phys[p].type \in {"full", "first"} => phys[p].from = 0
       /\ phys[p].type \in {"full", "last"} =>
            phys[p].from + phys[p].len = recs[phys[p].rec].size
       /\ phys[p].type \in {"middle", "last"} =>
            /\ p - 1 \in DOMAIN phys /\ phys[p - 1].type \in {"first", "middle"}
            /\ phys[p].rec = phys[p - 1].rec
            /\ phys[p].from = phys[p - 1].from + phys[p - 1].len
  /\ \A p, q \in DOMAIN phys : p < q =>
       /\ phys[p].rec <= phys[q].rec
       /\ phys[p].type \in {"full", "last"} => phys[p].rec < phys[q].rec

(* All bytes of physical record p were written, after those of earlier     *)
(* ones and before those of later ones; the disk may have damaged some.    *)
Slot(p, s) ==
  /\ s + End(p) <= Len(file)
  /\ \A k \in 1..End(p) : file[s + k] \in {<<p, k - 1>>, Damaged}
  /\ \A i \in DOMAIN file : Num(i) > p => i > s + End(p)
  /\ \A i \in DOMAIN file : 1 <= Num(i) /\ Num(i) < p => i <= s
Written(p) == \E s \in 0..Len(file) : Slot(p, s)

(* The bytes come in order, and a physical record that goes on with a      *)
(* record comes after one that was written in full, which is there while   *)
(* the file is written, and later unless both were lost.                   *)
FileInv ==
  /\ \A i \in DOMAIN file :
       IF Num(i) >= 1 THEN Num(i) \in DOMAIN phys /\ Off(i) < End(Num(i)) ELSE Off(i) = 0
  /\ \A i, j \in DOMAIN file : i < j /\ Num(i) >= 1 /\ Num(j) >= 1 =>
       Num(i) < Num(j) \/ (Num(i) = Num(j) /\ Off(i) < Off(j))
  /\ \A p \in DOMAIN phys : phys[p].type \in {"middle", "last"} =>
       \/ Written(p - 1)
       \/ w.pc = "closed" /\ \A i \in DOMAIN file : Num(i) < p

(* A writer in the middle of a record wrote the last physical record.      *)
WriterInv ==
  LET l == phys[Len(phys)]
      r == recs[Len(recs)]
  IN  w.pc = "emit" =>
        /\ recs # <<>> /\ w.left <= r.size
        /\ w.begin => w.left = r.size /\ \A p \in DOMAIN phys : phys[p].rec < Len(recs)
        /\ ~w.begin => /\ phys # <<>> /\ l.rec = Len(recs) /\ l.type \in {"first", "middle"}
                       /\ l.from + l.len = r.size - w.left /\ Written(Len(phys))

(* What the reader has of a record, up to the physical record q that ends  *)
(* at e: since then it has at most left a trailer behind.                  *)
Partly(q, e) ==
  /\ phys[q].type \in {"first", "middle"}
  /\ rd.scratch = Data(phys[q].rec, 0, phys[q].from + phys[q].len)
  /\ file[e] = <<q, End(q) - 1>>
  /\ \/ rd.from = e
     \/ e < rd.from /\ rd.from < e + HeaderSize /\ (Size >= HeaderSize \/ rd.eof)

(* The records that were returned; what is left of the file has only       *)
(* bytes of later ones.                                                    *)
Returned(which) ==
  /\ \A i, j \in DOMAIN out : i < j => which[i] < which[j]
  /\ \A i \in DOMAIN out : out[i] = Record(which[i])
  /\ out # <<>> => \A j \in DOMAIN file : j > rd.from /\ Num(j) >= 1 =>
                     which[Len(out)] < phys[Num(j)].rec

ReaderInv ==
  /\ rd.pc = "off" => out = <<>> /\ ~rd.inFrag /\ rd.from = 0 /\ rd.end = 0
  /\ rd.pc # "off" => w.pc = "closed"
  /\ rd.from < rd.end => rd.end <= Len(file)
  /\ rd.pc = "read" /\ rd.inFrag => \E q \in DOMAIN phys : \E e \in DOMAIN file : Partly(q, e)
  /\ \E which \in [DOMAIN out -> DOMAIN recs] : Returned(which)

(* Where the offsets are.  A reader that has left the block it started in  *)
(* has passed the initial offset, but for the trailer of the block.        *)
OffsetInv ==
  LET b == SkipToInitialBlock(rd.initial)
  IN  /\ rd.pc = "read" =>
           /\ rd.from >= rd.initial => rd.top >= rd.initial
           /\ rd.top = rd.from \/ Size >= HeaderSize \/ rd.eof
           /\ \/ rd.from = b /\ rd.end = b /\ rd.top = b
              \/ rd.end >= b + BlockSize \/ rd.eof
      /\ rd.inFrag => rd.start >= rd.initial
      /\ SkippedOnce

LInv == Types /\ PhysInv /\ FileInv /\ WriterInv /\ ReaderInv /\ OffsetInv

----------------------------------------------------------------------------
(* The operators.                                                          *)

(* The lesser and the greater of two numbers.                              *)
LEMMA MinOfTwo ==
  ASSUME NEW x \in Int, NEW y \in Int
  PROVE  Min({x, y}) \in {x, y} /\ Min({x, y}) <= x /\ Min({x, y}) <= y
<1>1. \E z \in {x, y} : \A u \in {x, y} : z <= u
  OBVIOUS
<1>2. Min({x, y}) \in {x, y} /\ \A u \in {x, y} : Min({x, y}) <= u
  BY <1>1, Zenon DEF Min
<1> QED
  BY <1>2, Zenon

LEMMA MaxOfTwo ==
  ASSUME NEW x \in Int, NEW y \in Int
  PROVE  Max({x, y}) \in {x, y} /\ Max({x, y}) >= x /\ Max({x, y}) >= y
<1>1. \E z \in {x, y} : \A u \in {x, y} : z >= u
  OBVIOUS
<1>2. Max({x, y}) \in {x, y} /\ \A u \in {x, y} : Max({x, y}) >= u
  BY <1>1, Zenon DEF Max
<1> QED
  BY <1>2, Zenon

(* What a file is after an append.                                         *)
LEMMA Joined ==
  ASSUME NEW S, NEW s \in Seq(S), NEW t \in Seq(S)
  PROVE  /\ s \o t \in Seq(S) /\ Len(s \o t) = Len(s) + Len(t)
         /\ \A i \in DOMAIN s : i \in DOMAIN (s \o t) /\ (s \o t)[i] = s[i]
         /\ \A i \in DOMAIN (s \o t) : i > Len(s) =>
              i - Len(s) \in DOMAIN t /\ (s \o t)[i] = t[i - Len(s)]
  OBVIOUS

LEMMA IsASequence ==
  ASSUME NEW S, NEW n \in Nat, NEW f \in [1..n -> S]
  PROVE  f \in Seq(S)
<1>1. f = [i \in 1..n |-> f[i]] /\ \A i \in 1..n : f[i] \in S
  BY Zenon
<1>2. [i \in 1..n |-> f[i]] \in Seq(S)
  BY <1>1
<1> QED
  BY <1>1, <1>2, Zenon

(* The parts of a record put together are a longer part.                   *)
LEMMA DataJoin ==
  ASSUME NEW r, NEW m \in Nat, NEW n \in Nat
  PROVE  Data(r, 0, m) \o Data(r, m, n) = Data(r, 0, m + n)
  BY DEF Data

LEMMA DataType ==
  ASSUME NEW r \in Nat, NEW f \in Nat, NEW n \in Nat
  PROVE  Data(r, f, n) \in Seq(Bytes)
  BY DEF Data, Bytes

(* A reader starts at most 6 bytes before the end of the block that holds  *)
(* the initial offset, or after it.                                        *)
LEMMA SkipFacts ==
  ASSUME NEW initial \in Nat
  PROVE  /\ SkipToInitialBlock(initial) \in Nat
         /\ \/ SkipToInitialBlock(initial) > initial
            \/ initial <= SkipToInitialBlock(initial) + BlockSize - 6
<1>1. BlockSize \in Nat /\ BlockSize > 7
  BY LogAssumption, Zenon DEF HeaderSize
<1>2. initial % BlockSize \in 0..(BlockSize - 1) /\ initial % BlockSize <= initial
  BY <1>1
<1> QED
  BY <1>1, <1>2 DEF SkipToInitialBlock

(* A physical record that is there stays there while the bytes up to its   *)
(* end do, damaged or not, and what follows is zeros or of later ones.     *)
LEMMA SlotKept ==
  ASSUME Types, Types', NEW p \in DOMAIN phys, p \in DOMAIN phys', phys'[p] = phys[p],
         NEW s \in 0..Len(file), Slot(p, s),
         NEW n \in 0..Len(file), n <= Len(file'), s + End(p) <= n,
         \A i \in 1..n : file'[i] = file[i] \/ file'[i] = Damaged,
         \A i \in DOMAIN file' : i > n => Num(i)' = 0 \/ Num(i)' > p
  PROVE  Written(p)'
<1>0. /\ file \in Seq(Bytes) /\ file' \in Seq(Bytes)
      /\ p \in Nat /\ p >= 1 /\ phys[p] \in PhysRecords
  <2>1. file \in Seq(Bytes) /\ file' \in Seq(Bytes) /\ phys \in Seq(PhysRecords)
    BY Zenon DEF Types
  <2> QED
    BY <2>1
<1>1. /\ p \in Nat /\ p >= 1 /\ End(p) \in Nat /\ End(p)' = End(p)
      /\ Len(file) \in Nat /\ Len(file') \in Nat
      /\ DOMAIN file = 1..Len(file) /\ DOMAIN file' = 1..Len(file')
  BY <1>0 DEF End, HeaderSize, PhysRecords
<1>2. s \in 0..Len(file') /\ s + End(p) <= Len(file')
  BY <1>1
<1>3. \A k \in 1..End(p) : file'[s + k] \in {<<p, k - 1>>, Damaged}
  <2> TAKE k \in 1..End(p)
  <2>1. s + k \in 1..n
    BY <1>1
  <2>2. file[s + k] \in {<<p, k - 1>>, Damaged}
    BY Zenon DEF Slot
  <2> QED
    BY <2>1, <2>2, Zenon
<1>4. \A i \in 1..n : Num(i)' = Num(i) \/ Num(i)' = -1
  BY DEF Num, Damaged
<1>5. ASSUME NEW i \in DOMAIN file', Num(i)' > p PROVE i > s + End(p)
  <2>1. CASE i \in 1..n
    <3>1. Num(i) > p /\ i \in DOMAIN file
      BY <1>1, <1>4, <1>5, <2>1
    <3> QED
      BY <3>1, Zenon DEF Slot
  <2> QED
    BY <1>1, <2>1
<1>6. ASSUME NEW i \in DOMAIN file', 1 <= Num(i)', Num(i)' < p PROVE i <= s
  <2>1. i \in 1..n
    <3>1. Num(i)' \in Int
      BY <1>0 DEF Num, Bytes
    <3> QED
      BY <1>1, <1>6, <3>1
  <2>2. 1 <= Num(i) /\ Num(i) < p /\ i \in DOMAIN file
    BY <1>1, <1>4, <1>6, <2>1
  <2> QED
    BY <2>2, Zenon DEF Slot
<1>7. Slot(p, s)'
  BY <1>1, <1>2, <1>3, <1>5, <1>6, Zenon DEF Slot
<1> QED
  BY <1>2, <1>7, Zenon DEF Written

----------------------------------------------------------------------------
(* The writer.  Nobody reads the file yet, so the reader's part of the     *)
(* invariant is about a reader that has not begun.                         *)

(* Types of the parts.                                                     *)
LEMMA Parts ==
  ASSUME Types
  PROVE  /\ file \in Seq(Bytes) /\ Len(file) \in Nat /\ DOMAIN file = 1..Len(file)
         /\ \A i \in DOMAIN file : Num(i) \in Int /\ Off(i) \in Nat
         /\ phys \in Seq(PhysRecords) /\ Len(phys) \in Nat /\ DOMAIN phys = 1..Len(phys)
         /\ \A p \in DOMAIN phys :
              /\ phys[p].type \in RecordTypes /\ phys[p].rec \in Nat /\ phys[p].from \in Nat
              /\ phys[p].len \in Nat /\ End(p) \in Nat /\ End(p) = 7 + phys[p].len
         /\ recs \in Seq(RecordPlaces)
         /\ Len(recs) \in Nat /\ DOMAIN recs = 1..Len(recs)
         /\ \A r \in DOMAIN recs : recs[r].size \in Nat
         /\ w.pc \in {"idle", "emit", "closed"} /\ w.offset \in 0..BlockSize
         /\ w.left \in Nat /\ w.begin \in BOOLEAN
         /\ BlockSize \in Nat /\ BlockSize > 7
<1>1. file \in Seq(Bytes) /\ Len(file) \in Nat /\ DOMAIN file = 1..Len(file)
  BY DEF Types
<1>2. \A i \in DOMAIN file : Num(i) \in Int /\ Off(i) \in Nat
  BY <1>1 DEF Num, Off, Bytes
<1>3. phys \in Seq(PhysRecords) /\ Len(phys) \in Nat /\ DOMAIN phys = 1..Len(phys)
  BY DEF Types
<1>4. \A p \in DOMAIN phys : phys[p] \in PhysRecords
  BY <1>3
<1>5. \A p \in DOMAIN phys :
        /\ phys[p].type \in RecordTypes /\ phys[p].rec \in Nat /\ phys[p].from \in Nat
        /\ phys[p].len \in Nat /\ End(p) \in Nat /\ End(p) = 7 + phys[p].len
  BY <1>4 DEF PhysRecords, End, HeaderSize
<1>6. recs \in Seq(RecordPlaces)
  BY Zenon DEF Types
<1>7. /\ Len(recs) \in Nat /\ DOMAIN recs = 1..Len(recs)
      /\ \A r \in DOMAIN recs : recs[r] \in RecordPlaces
  BY <1>6
<1>8. \A r \in DOMAIN recs : recs[r].size \in Nat
  BY <1>7, Zenon DEF RecordPlaces
<1>9. /\ w.pc \in {"idle", "emit", "closed"} /\ w.offset \in 0..BlockSize
      /\ w.left \in Nat /\ w.begin \in BOOLEAN
  BY Zenon DEF Types
<1>10. BlockSize \in Nat /\ BlockSize > 7
  BY LogAssumption, Zenon DEF HeaderSize
<1> QED
  BY <1>1, <1>2, <1>3, <1>5, <1>6, <1>7, <1>8, <1>9, <1>10, Zenon

(* PhysInv depends on the physical records and on the sizes of the records.*)
LEMMA PhysKept ==
  ASSUME Types, PhysInv, phys' = phys, DOMAIN recs \subseteq DOMAIN recs',
         \A r \in DOMAIN recs : recs'[r].size = recs[r].size
  PROVE  PhysInv'
  BY Parts, Zenon DEF PhysInv

(* A reader that has not begun is not disturbed by the writer.             *)
LEMMA ReaderOff ==
  ASSUME ReaderInv, OffsetInv, rd.pc = "off", rd' = rd, out' = out
  PROVE  ReaderInv' /\ OffsetInv'
<1>1. out' = <<>> /\ rd'.pc = "off" /\ ~rd'.inFrag /\ rd'.from = 0 /\ rd'.end = 0
  BY Zenon DEF ReaderInv
<1>2. \E which \in [DOMAIN out' -> DOMAIN recs'] : Returned(which)'
  <2> DEFINE f == [i \in {} |-> 0]
  <2>1. f \in [DOMAIN out' -> DOMAIN recs']
    BY <1>1
  <2>2. Returned(f)'
    BY <1>1 DEF Returned
  <2> QED
    BY <2>1, <2>2, Zenon
<1>3. ~(rd'.from < rd'.end)
  BY <1>1
<1>4. ReaderInv'
  BY <1>1, <1>2, <1>3, Zenon DEF ReaderInv
<1> QED
  BY <1>1, <1>4, Zenon DEF OffsetInv, SkippedOnce

LEMMA LogInit ==
  ASSUME Init
  PROVE  LInv
<1>1. /\ file = <<>> /\ phys = <<>> /\ recs = <<>> /\ out = <<>>
      /\ w.pc = "idle" /\ rd.pc = "off" /\ rd.from = 0 /\ rd.end = 0 /\ ~rd.inFrag
  BY Zenon DEF Init
<1>2. Types
  BY <1>1, LogAssumption DEF Init, Types, Readers
<1>3. PhysInv /\ FileInv /\ WriterInv
  BY <1>1 DEF PhysInv, FileInv, WriterInv
<1>4. \E which \in [DOMAIN out -> DOMAIN recs] : Returned(which)
  <2> DEFINE f == [i \in {} |-> 0]
  <2>1. f \in [DOMAIN out -> DOMAIN recs] /\ Returned(f)
    BY <1>1 DEF Returned
  <2> QED
    BY <2>1, Zenon
<1>5. ReaderInv
  <2>1. ~(rd.from < rd.end)
    BY <1>1
  <2> QED
    BY <1>1, <1>4, <2>1, Zenon DEF ReaderInv
<1>6. OffsetInv
  BY <1>1, Zenon DEF OffsetInv, SkippedOnce
<1> QED
  BY <1>2, <1>3, <1>5, <1>6, Zenon DEF LInv

(* A record is given to the writer.                                        *)
LEMMA AddRecordKeeps ==
  ASSUME LInv, NEW size \in Sizes, AddRecord(size)
  PROVE  LInv'
<1>1. /\ Types /\ PhysInv /\ FileInv /\ ReaderInv /\ OffsetInv
      /\ rd' = rd /\ out' = out /\ file' = file /\ phys' = phys /\ size \in Nat
      /\ w' = [w EXCEPT !.pc = "emit", !.left = size, !.begin = TRUE]
      /\ recs' = Append(recs, [size |-> size, start |-> -1, end |-> -1])
      /\ w.pc = "idle" /\ rd.pc = "off"
  BY LogAssumption, Zenon DEF LInv, AddRecord, ReaderInv
<1>2. Types'
  <2>1. recs' \in Seq(RecordPlaces)
    BY <1>1, Parts DEF RecordPlaces
  <2>2. w' \in [pc : {"idle", "emit", "closed"}, offset : 0..BlockSize, left : Nat,
                begin : BOOLEAN]
    BY <1>1, Zenon DEF Types
  <2> QED
    BY <1>1, <2>1, <2>2, Zenon DEF Types
<1>3. /\ Len(recs') = Len(recs) + 1 /\ DOMAIN recs' = 1..(Len(recs) + 1)
      /\ \A r \in DOMAIN recs : r \in DOMAIN recs' /\ recs'[r] = recs[r]
      /\ recs'[Len(recs')].size = size
  BY <1>1, Parts
<1>4. PhysInv'
  BY <1>1, <1>3, PhysKept, Zenon
<1>5. FileInv'
  <2>1. \A p : Written(p)' = Written(p)
    BY <1>1, Zenon DEF Written, Slot, End, Num
  <2> QED
    BY <1>1, <2>1 DEF FileInv, Num, Off, End
<1>6. WriterInv'
  <2>1. w'.begin /\ w'.left = size
    BY <1>1, Zenon DEF Types
  <2>2. \A p \in DOMAIN phys : phys[p].rec < Len(recs')
    BY <1>1, <1>3, Parts DEF PhysInv
  <2> QED
    BY <1>1, <1>3, <2>1, <2>2, Parts DEF WriterInv
<1>7. ReaderInv' /\ OffsetInv'
  BY <1>1, ReaderOff, Zenon
<1> QED
  BY <1>2, <1>4, <1>5, <1>6, <1>7, Zenon DEF LInv

(* The file grows by n bytes: zeros, or the first bytes of the physical    *)
(* record N, which is the next one.                                        *)
Grown(N, n) ==
  /\ n \in Nat /\ N \in Nat
  /\ Len(file') = Len(file) + n
  /\ \A i \in DOMAIN file : file'[i] = file[i]
  /\ \A i \in DOMAIN file' : i > Len(file) =>
       file'[i] = IF N = 0 THEN Zero ELSE <<N, i - Len(file) - 1>>
  /\ \A p \in DOMAIN phys : p \in DOMAIN phys' /\ phys'[p] = phys[p]
  /\ N # 0 => N = Len(phys) + 1 /\ N \in DOMAIN phys' /\ n <= End(N)'

LEMMA GrownBytes ==
  ASSUME Types, Types', NEW N, NEW n, Grown(N, n)
  PROVE  /\ n \in Nat /\ N \in Nat /\ Len(file) \in Nat /\ Len(file') = Len(file) + n
         /\ DOMAIN file = 1..Len(file) /\ DOMAIN file' = 1..(Len(file) + n)
         /\ \A i \in DOMAIN file : Num(i)' = Num(i) /\ Off(i)' = Off(i)
         /\ \A i \in DOMAIN file' : i \notin DOMAIN file =>
              Num(i)' = N /\ Off(i)' = IF N = 0 THEN 0 ELSE i - Len(file) - 1
         /\ \A p \in DOMAIN phys : End(p)' = End(p)
<1>1. /\ n \in Nat /\ N \in Nat /\ Len(file) \in Nat /\ Len(file') = Len(file) + n
      /\ DOMAIN file = 1..Len(file) /\ DOMAIN file' = 1..(Len(file) + n)
  <2>1. file' \in Seq(Bytes)
    BY Zenon DEF Types
  <2> QED
    BY <2>1, Parts DEF Grown
<1>2. \A i \in DOMAIN file : Num(i)' = Num(i) /\ Off(i)' = Off(i)
  BY Zenon DEF Grown, Num, Off
<1>3. ASSUME NEW i \in DOMAIN file', i \notin DOMAIN file
      PROVE  Num(i)' = N /\ Off(i)' = IF N = 0 THEN 0 ELSE i - Len(file) - 1
  <2>1. i > Len(file)
    BY <1>1, <1>3
  <2>2. file'[i] = IF N = 0 THEN Zero ELSE <<N, i - Len(file) - 1>>
    BY <2>1, Zenon DEF Grown
  <2> QED
    BY <1>1, <2>2 DEF Num, Off, Zero
<1>4. \A p \in DOMAIN phys : End(p)' = End(p)
  BY Zenon DEF Grown, End
<1> QED
  BY <1>1, <1>2, <1>3, <1>4, Zenon

LEMMA GrownInRange ==
  ASSUME Types, Types', FileInv, NEW N, NEW n, Grown(N, n), NEW i \in DOMAIN file'
  PROVE  IF Num(i)' >= 1 THEN Num(i)' \in DOMAIN phys' /\ Off(i)' < End(Num(i))'
                         ELSE Off(i)' = 0
<1>1. CASE i \in DOMAIN file
  <2>1. Num(i)' = Num(i) /\ Off(i)' = Off(i)
    BY <1>1, GrownBytes, Zenon
  <2>2. IF Num(i) >= 1 THEN Num(i) \in DOMAIN phys /\ Off(i) < End(Num(i)) ELSE Off(i) = 0
    BY <1>1, Zenon DEF FileInv
  <2>3. Num(i) \in DOMAIN phys => /\ Num(i) \in DOMAIN phys'
                                  /\ End(Num(i))' = End(Num(i))
    <3>1. Num(i) \in DOMAIN phys => phys'[Num(i)] = phys[Num(i)] /\ Num(i) \in DOMAIN phys'
      BY Zenon DEF Grown
    <3> QED
      BY <2>1, <3>1, Zenon DEF End
  <2> QED
    BY <2>1, <2>2, <2>3, Zenon
<1>2. CASE i \notin DOMAIN file /\ N = 0
  <2>1. Num(i)' = 0 /\ Off(i)' = 0
    BY <1>2, GrownBytes, Zenon
  <2> QED
    BY <2>1
<1>3. CASE i \notin DOMAIN file /\ N # 0
  <2>1. /\ Num(i)' = N /\ Off(i)' = i - Len(file) - 1 /\ i <= Len(file) + n
        /\ Len(file) \in Nat /\ n \in Nat /\ i \in Nat
    BY <1>3, GrownBytes
  <2>2. N \in DOMAIN phys' /\ n <= End(N)' /\ N >= 1
    BY <1>3 DEF Grown
  <2>3. phys'[N] \in PhysRecords
    <3>1. phys' \in Seq(PhysRecords)
      BY Zenon DEF Types
    <3> QED
      BY <2>2, <3>1
  <2>4. End(N)' \in Nat /\ End(Num(i))' = End(N)'
    BY <2>1, <2>3 DEF End, HeaderSize, PhysRecords
  <2>5. Off(i)' < End(Num(i))'
    BY <2>1, <2>2, <2>4
  <2> QED
    BY <2>1, <2>2, <2>5, Zenon
<1> QED
  BY <1>1, <1>2, <1>3, Zenon

LEMMA GrownInOrder ==
  ASSUME Types, Types', FileInv, NEW N, NEW n, Grown(N, n),
         NEW i \in DOMAIN file', NEW j \in DOMAIN file', i < j, Num(i)' >= 1, Num(j)' >= 1
  PROVE  Num(i)' < Num(j)' \/ (Num(i)' = Num(j)' /\ Off(i)' < Off(j)')
<1>1. CASE j \in DOMAIN file
  <2>1. i \in DOMAIN file
    BY <1>1, GrownBytes
  <2>2. Num(i)' = Num(i) /\ Off(i)' = Off(i) /\ Num(j)' = Num(j) /\ Off(j)' = Off(j)
    BY <1>1, <2>1, GrownBytes, Zenon
  <2> QED
    BY <1>1, <2>1, <2>2 DEF FileInv
<1>2. CASE j \notin DOMAIN file
  <2>1. Num(j)' = N /\ Off(j)' = IF N = 0 THEN 0 ELSE j - Len(file) - 1
    BY <1>2, GrownBytes, Zenon
  <2>2. N # 0 /\ N = Len(phys) + 1 /\ Off(j)' = j - Len(file) - 1
    BY <2>1 DEF Grown
  <2>3. CASE i \in DOMAIN file
    <3>1. Num(i)' = Num(i)
      BY <2>3, GrownBytes, Zenon
    <3>2. Num(i) \in DOMAIN phys
      BY <2>3, <3>1, Zenon DEF FileInv
    <3> QED
      BY <2>1, <2>2, <3>1, <3>2, Parts
  <2>4. CASE i \notin DOMAIN file
    BY <2>1, <2>2, <2>4, GrownBytes
  <2> QED
    BY <2>3, <2>4, Zenon
<1> QED
  BY <1>1, <1>2, Zenon

LEMMA GrownWritten ==
  ASSUME Types, Types', NEW N, NEW n, Grown(N, n), NEW p \in DOMAIN phys, Written(p)
  PROVE  Written(p)'
<1>1. PICK s \in 0..Len(file) : Slot(p, s)
  BY Zenon DEF Written
<1>2. \A i \in DOMAIN file' : i > Len(file) => Num(i)' = 0 \/ Num(i)' > p
  <2>1. N = 0 \/ N > p
    BY Parts DEF Grown
  <2> QED
    BY <2>1, GrownBytes
<1>3. /\ s + End(p) <= Len(file) /\ Len(file) \in 0..Len(file) /\ Len(file) <= Len(file')
  BY <1>1, GrownBytes DEF Slot
<1>4. /\ \A i \in 1..Len(file) : file'[i] = file[i] \/ file'[i] = Damaged
      /\ p \in DOMAIN phys' /\ phys'[p] = phys[p]
  BY GrownBytes, Zenon DEF Grown
<1> QED
  BY <1>1, <1>2, <1>3, <1>4, SlotKept, Zenon

(* The trailer of a block.                                                 *)
LEMMA TrailerKeeps ==
  ASSUME LInv, Trailer
  PROVE  LInv'
<1>1. /\ Types /\ PhysInv /\ FileInv /\ WriterInv /\ ReaderInv /\ OffsetInv
      /\ rd' = rd /\ out' = out /\ recs' = recs /\ phys' = phys
      /\ w' = [w EXCEPT !.offset = 0] /\ w.pc = "emit" /\ rd.pc = "off"
  BY Zenon DEF LInv, Trailer, ReaderInv
<1>2. PICK n \in Nat : file' = file \o Zeros(n)
  <2>1. BlockSize - w.offset \in Nat
    BY <1>1, Parts
  <2>2. CASE file' = file \o Zeros(BlockSize - w.offset)
    BY <2>1, <2>2, Zenon
  <2>3. CASE \E n \in 0..(BlockSize - w.offset - 1) : file' = file \o Zeros(n)
    <3>1. PICK n \in 0..(BlockSize - w.offset - 1) : file' = file \o Zeros(n)
      BY <2>3, Zenon
    <3>2. n \in Nat
      BY <2>1
    <3> QED
      BY <3>1, <3>2, Zenon
  <2> QED
    BY <2>2, <2>3, Zenon DEF Trailer
<1>3. /\ file' \in Seq(Bytes) /\ Len(file') = Len(file) + n
      /\ \A i \in DOMAIN file : file'[i] = file[i]
      /\ \A i \in DOMAIN file' : i > Len(file) => file'[i] = Zero
  <2>1. Zeros(n) \in Seq(Bytes) /\ Len(Zeros(n)) = n
    BY DEF Zeros, Zero, Bytes
  <2>2. file \in Seq(Bytes)
    BY <1>1, Parts, Zenon
  <2>3. \A i \in DOMAIN Zeros(n) : Zeros(n)[i] = Zero
    BY Zenon DEF Zeros
  <2>4. /\ file' \in Seq(Bytes) /\ Len(file') = Len(file) + Len(Zeros(n))
        /\ \A i \in DOMAIN file : file'[i] = file[i]
        /\ \A i \in DOMAIN file' : i > Len(file) =>
             i - Len(file) \in DOMAIN Zeros(n) /\ file'[i] = Zeros(n)[i - Len(file)]
    BY <1>2, <2>1, <2>2, Joined, Zenon
  <2> QED
    BY <2>1, <2>3, <2>4, Zenon
<1>4. Types'
  <2>1. w' \in [pc : {"idle", "emit", "closed"}, offset : 0..BlockSize, left : Nat,
                begin : BOOLEAN]
    <3>1. 0 \in 0..BlockSize
      BY LogAssumption
    <3> QED
      BY <1>1, <3>1, Zenon DEF Types
  <2> QED
    BY <1>1, <1>3, <2>1, Zenon DEF Types
<1>5. Grown(0, n)
  BY <1>1, <1>3, Zenon DEF Grown
<1>6. \A p \in DOMAIN phys : Written(p) => Written(p)'
  BY <1>1, <1>4, <1>5, GrownWritten, Zenon
<1>7. FileInv'
  <2>1. \A i \in DOMAIN file' :
          IF Num(i)' >= 1 THEN Num(i)' \in DOMAIN phys' /\ Off(i)' < End(Num(i))'
                          ELSE Off(i)' = 0
    BY <1>1, <1>4, <1>5, GrownInRange, Zenon
  <2>2. \A i, j \in DOMAIN file' : i < j /\ Num(i)' >= 1 /\ Num(j)' >= 1 =>
          Num(i)' < Num(j)' \/ (Num(i)' = Num(j)' /\ Off(i)' < Off(j)')
    BY <1>1, <1>4, <1>5, GrownInOrder, Zenon
  <2>3. \A p \in DOMAIN phys : phys[p].type \in {"middle", "last"} => Written(p - 1)'
    BY <1>1, <1>6, Zenon DEF FileInv, PhysInv
  <2> QED
    BY <1>1, <2>1, <2>2, <2>3, Zenon DEF FileInv
<1>8. WriterInv'
  <2>1. w'.pc = w.pc /\ w'.left = w.left /\ w'.begin = w.begin
    BY <1>1, Zenon DEF Types
  <2>2. phys # <<>> => Len(phys) \in DOMAIN phys
    BY <1>1, Parts
  <2> QED
    BY <1>1, <1>6, <2>1, <2>2, Zenon DEF WriterInv
<1>9. PhysInv' /\ ReaderInv' /\ OffsetInv'
  BY <1>1, PhysKept, ReaderOff, Zenon
<1> QED
  BY <1>4, <1>7, <1>8, <1>9, Zenon DEF LInv

(* What Emit does: physical record N, of which n bytes get into the file,  *)
(* all of them if the writer goes on.                                      *)
LEMMA EmitFacts ==
  ASSUME Types, WriterInv, Emit
  PROVE  \E N, n, len \in Nat, p \in PhysRecords :
           /\ N = Len(phys) + 1 /\ phys' = Append(phys, p) /\ p.len = len
           /\ n <= HeaderSize + len /\ len <= Avail(w.offset) /\ len <= w.left
           /\ file' = file \o [i \in 1..n |-> <<N, i - 1>>]
           /\ p.type = Type(w.begin, len = w.left) /\ p.rec = Len(recs)
           /\ p.from = recs[Len(recs)].size - w.left
           /\ w'.pc = "emit" => n = HeaderSize + len /\ len < w.left
           /\ w' \in [pc : {"idle", "emit", "closed"}, offset : 0..BlockSize, left : Nat,
                      begin : BOOLEAN]
           /\ w'.pc # "closed" /\ w'.left = w.left - len /\ ~w'.begin
<1> DEFINE len == Min({w.left, Avail(w.offset)})
           r == Len(recs)
           N == Len(phys) + 1
           p == [type |-> Type(w.begin, len = w.left), rec |-> r,
                 from |-> recs[r].size - w.left, len |-> len]
           bytes == [i \in 1..(HeaderSize + len) |-> <<N, i - 1>>]
           next(ok) == [pc |-> IF ok /\ w.left > len THEN "emit" ELSE "idle",
                        offset |-> w.offset + HeaderSize + len,
                        left |-> w.left - len, begin |-> FALSE]
<1>1. /\ w.left \in Nat /\ w.offset \in 0..BlockSize /\ w.begin \in BOOLEAN
      /\ BlockSize \in Nat /\ Len(phys) \in Nat /\ Len(recs) \in Nat
      /\ recs # <<>> => recs[Len(recs)].size \in Nat
  BY Parts
<1>2. /\ w.pc = "emit" /\ Avail(w.offset) >= 0
      /\ recs # <<>> /\ w.left <= recs[Len(recs)].size
  BY Zenon DEF Emit, WriterInv
<1>3. /\ len \in {w.left, Avail(w.offset)} /\ len <= w.left /\ len <= Avail(w.offset)
      /\ Avail(w.offset) = BlockSize - w.offset - 7
  <2>1. /\ Avail(w.offset) \in Int /\ Avail(w.offset) = BlockSize - w.offset - 7
        /\ w.left \in Int
    BY <1>1 DEF Avail, HeaderSize
  <2> QED
    BY <2>1, MinOfTwo, Zenon
<1> HIDE DEF len
<1>3a. /\ len \in Nat /\ len <= w.left /\ len <= Avail(w.offset)
       /\ w.offset + HeaderSize + len \in 0..BlockSize /\ w.left - len \in Nat
  <2>1. len \in Nat /\ w.left - len \in Nat
    BY <1>1, <1>2, <1>3
  <2> QED
    BY <1>1, <1>3, <2>1 DEF HeaderSize
<1>4. p \in PhysRecords
  BY <1>1, <1>2, <1>3a DEF PhysRecords, RecordTypes, Type
<1>5. /\ phys' = Append(phys, p)
      /\ \/ file' = file \o bytes /\ w' = next(TRUE)
         \/ /\ \E n \in 0..Len(bytes) : file' = file \o SubSeq(bytes, 1, n)
            /\ w' = next(FALSE)
  BY Zenon DEF Emit, len
<1>6. \A ok \in BOOLEAN :
        /\ next(ok) \in [pc : {"idle", "emit", "closed"}, offset : 0..BlockSize, left : Nat,
                         begin : BOOLEAN]
        /\ next(ok).pc # "closed" /\ next(ok).left = w.left - len /\ ~next(ok).begin
        /\ next(ok).pc = "emit" => ok /\ len < w.left
  BY <1>1, <1>3a, Zenon
<1>7. PICK n \in Nat : /\ n <= HeaderSize + len
                       /\ file' = file \o [i \in 1..n |-> <<N, i - 1>>]
                       /\ \E ok \in BOOLEAN : w' = next(ok) /\ (ok => n = HeaderSize + len)
  <2>1. /\ HeaderSize + len \in Nat /\ Len(bytes) = HeaderSize + len
        /\ HeaderSize + len <= HeaderSize + len
    BY <1>3a DEF HeaderSize
  <2>2. CASE file' = file \o bytes /\ w' = next(TRUE)
    BY <2>1, <2>2, Zenon
  <2>3. CASE (\E n \in 0..Len(bytes) : file' = file \o SubSeq(bytes, 1, n)) /\ w' = next(FALSE)
    <3>1. PICK n \in 0..Len(bytes) : file' = file \o SubSeq(bytes, 1, n)
      BY <2>3, Zenon
    <3>2. n \in Nat /\ n <= HeaderSize + len
      BY <2>1
    <3>3. SubSeq(bytes, 1, n) = [i \in 1..n |-> <<N, i - 1>>]
      BY <2>1, <3>2
    <3> QED
      BY <2>3, <3>1, <3>2, <3>3, Zenon
  <2> QED
    BY <1>5, <2>2, <2>3, Zenon
<1>8. /\ w'.pc = "emit" => n = HeaderSize + len /\ len < w.left
      /\ w' \in [pc : {"idle", "emit", "closed"}, offset : 0..BlockSize, left : Nat,
                 begin : BOOLEAN]
      /\ w'.pc # "closed" /\ w'.left = w.left - len /\ ~w'.begin
  <2> HIDE DEF next
  <2> QED
    BY <1>6, <1>7, Zenon
<1>9. N \in Nat /\ p.len = len /\ p.type = Type(w.begin, len = w.left) /\ p.rec = Len(recs)
      /\ p.from = recs[Len(recs)].size - w.left
  BY <1>1
<1> HIDE DEF p, N
<1>10. /\ N = Len(phys) + 1 /\ phys' = Append(phys, p) /\ p.len = len
       /\ n <= HeaderSize + len /\ len <= Avail(w.offset) /\ len <= w.left
       /\ file' = file \o [i \in 1..n |-> <<N, i - 1>>]
       /\ p.type = Type(w.begin, len = w.left) /\ p.rec = Len(recs)
       /\ p.from = recs[Len(recs)].size - w.left
       /\ w'.pc = "emit" => n = HeaderSize + len /\ len < w.left
       /\ w' \in [pc : {"idle", "emit", "closed"}, offset : 0..BlockSize, left : Nat,
                  begin : BOOLEAN]
       /\ w'.pc # "closed" /\ w'.left = w.left - len /\ ~w'.begin
  BY <1>3a, <1>5, <1>7, <1>8, <1>9, Zenon DEF N
<1> QED
  BY <1>3a, <1>4, <1>9, <1>10, Zenon

(* One round of AddRecord.                                                 *)
LEMMA EmitKeeps ==
  ASSUME LInv, Emit
  PROVE  LInv'
<1>1. /\ Types /\ PhysInv /\ FileInv /\ WriterInv /\ ReaderInv /\ OffsetInv
      /\ rd' = rd /\ out' = out /\ w.pc = "emit"
  BY Zenon DEF LInv, Emit
<1>2. rd.pc = "off"
  BY <1>1, Zenon DEF ReaderInv
<1>3. PICK N \in Nat, n \in Nat, len \in Nat, p \in PhysRecords :
           /\ N = Len(phys) + 1 /\ phys' = Append(phys, p) /\ p.len = len
           /\ n <= HeaderSize + len /\ len <= Avail(w.offset) /\ len <= w.left
           /\ file' = file \o [i \in 1..n |-> <<N, i - 1>>]
           /\ p.type = Type(w.begin, len = w.left) /\ p.rec = Len(recs)
           /\ p.from = recs[Len(recs)].size - w.left
           /\ w'.pc = "emit" => n = HeaderSize + len /\ len < w.left
           /\ w' \in [pc : {"idle", "emit", "closed"}, offset : 0..BlockSize, left : Nat,
                      begin : BOOLEAN]
           /\ w'.pc # "closed" /\ w'.left = w.left - len /\ ~w'.begin
  BY <1>1, EmitFacts, Zenon
<1>4. /\ recs # <<>> /\ w.left <= recs[Len(recs)].size
      /\ w.begin => w.left = recs[Len(recs)].size /\ \A q \in DOMAIN phys : phys[q].rec < Len(recs)
      /\ ~w.begin => /\ phys # <<>> /\ phys[Len(phys)].rec = Len(recs)
                     /\ phys[Len(phys)].type \in {"first", "middle"}
                     /\ phys[Len(phys)].from + phys[Len(phys)].len = recs[Len(recs)].size - w.left
                     /\ Written(Len(phys))
  BY <1>1, Zenon DEF WriterInv
<1>5. /\ Len(phys) \in Nat /\ phys' \in Seq(PhysRecords) /\ Len(phys') = N
      /\ DOMAIN phys = 1..Len(phys) /\ DOMAIN phys' = 1..N /\ phys'[N] = p
      /\ \A q \in DOMAIN phys : q \in DOMAIN phys' /\ phys'[q] = phys[q]
  <2>1. phys \in Seq(PhysRecords) /\ Len(phys) \in Nat /\ DOMAIN phys = 1..Len(phys)
    BY <1>1, Parts, Zenon
  <2>2. phys' = Append(phys, p) /\ N = Len(phys) + 1
    BY <1>3, Zenon
  <2> QED
    BY <2>1, <2>2
<1>6. /\ file' \in Seq(Bytes) /\ Len(file') = Len(file) + n
      /\ \A i \in DOMAIN file : file'[i] = file[i]
      /\ \A i \in DOMAIN file' : i > Len(file) => file'[i] = <<N, i - Len(file) - 1>>
  <2> DEFINE b == [i \in 1..n |-> <<N, i - 1>>]
  <2>1. b \in Seq(Bytes) /\ Len(b) = n /\ \A i \in DOMAIN b : b[i] = <<N, i - 1>>
    BY DEF Bytes
  <2>2. file \in Seq(Bytes) /\ file' = file \o b
    BY <1>1, <1>3, Parts, Zenon
  <2> HIDE DEF b
  <2>3. /\ file' \in Seq(Bytes) /\ Len(file') = Len(file) + Len(b)
        /\ \A i \in DOMAIN file : file'[i] = file[i]
        /\ \A i \in DOMAIN file' : i > Len(file) =>
             i - Len(file) \in DOMAIN b /\ file'[i] = b[i - Len(file)]
    BY <2>1, <2>2, Joined, Zenon
  <2> QED
    BY <2>1, <2>3, Zenon
<1>7. /\ recs' \in Seq(RecordPlaces) /\ DOMAIN recs' = DOMAIN recs /\ Len(recs') = Len(recs)
      /\ \A r \in DOMAIN recs : recs'[r].size = recs[r].size
  <2>1. \/ recs' = recs
        \/ \E x, y \in Int : recs' = [recs EXCEPT ![Len(recs)].start = x, ![Len(recs)].end = y]
    <3>1. Len(file) \in Int /\ Len(file') \in Int
      BY <1>1, <1>6, Parts
    <3>2. /\ Len(recs) \in DOMAIN recs
          /\ recs[Len(recs)].start \in Int /\ recs[Len(recs)].end \in Int
      <4>1. recs \in Seq(RecordPlaces) /\ Len(recs) \in DOMAIN recs
        BY <1>1, <1>4, Parts
      <4>2. recs[Len(recs)] \in RecordPlaces
        BY <4>1
      <4> QED
        BY <4>1, <4>2, Zenon DEF RecordPlaces
    <3> QED
      BY <3>1, <3>2, Zenon DEF Emit
  <2>2. recs \in Seq(RecordPlaces) /\ Len(recs) \in Nat /\ DOMAIN recs = 1..Len(recs)
    BY <1>1, Parts, Zenon
  <2>3. CASE recs' = recs
    BY <2>2, <2>3, Zenon
  <2>4. ASSUME NEW x \in Int, NEW y \in Int,
               recs' = [recs EXCEPT ![Len(recs)].start = x, ![Len(recs)].end = y]
        PROVE  /\ recs' \in Seq(RecordPlaces) /\ DOMAIN recs' = DOMAIN recs
               /\ Len(recs') = Len(recs)
               /\ \A r \in DOMAIN recs : recs'[r].size = recs[r].size
    <3>1. \A r \in DOMAIN recs : recs[r] \in RecordPlaces
      BY <2>2
    <3>2. DOMAIN recs' = DOMAIN recs /\ recs' = [i \in 1..Len(recs) |-> recs'[i]]
      BY <2>2, <2>4, Zenon
    <3>3. \A r \in DOMAIN recs : recs'[r] \in RecordPlaces /\ recs'[r].size = recs[r].size
      BY <2>2, <2>4, <3>1, Zenon DEF RecordPlaces
    <3>4. recs' \in [1..Len(recs) -> RecordPlaces]
      BY <2>2, <3>2, <3>3, Zenon
    <3> HIDE <2>4
    <3>5. recs' \in Seq(RecordPlaces) /\ Len(recs') = Len(recs)
      BY <2>2, <3>4
    <3> QED
      BY <3>2, <3>3, <3>5, Zenon
  <2> QED
    BY <2>1, <2>3, <2>4, Zenon
<1>8. Types'
  BY <1>1, <1>3, <1>5, <1>6, <1>7, Zenon DEF Types
<1>9. Grown(N, n)
  <2>1. N # 0 /\ N = Len(phys) + 1 /\ N \in DOMAIN phys' /\ n <= End(N)'
    BY <1>3, <1>5 DEF End
  <2> QED
    BY <1>5, <1>6, <2>1, Zenon DEF Grown
<1>10. PhysInv'
  <2>1. /\ p.rec = Len(recs) /\ Len(recs) \in DOMAIN recs /\ p.len = len
        /\ len <= BlockSize - HeaderSize /\ Len(recs) \in Nat
        /\ recs[Len(recs)].size \in Nat /\ w.left \in Nat /\ w.begin \in BOOLEAN
        /\ p.from = recs[Len(recs)].size - w.left /\ p.type = Type(w.begin, len = w.left)
    <3>1. /\ p.rec = Len(recs) /\ p.len = len /\ len <= Avail(w.offset)
          /\ p.from = recs[Len(recs)].size - w.left /\ p.type = Type(w.begin, len = w.left)
      BY <1>3, Zenon
    <3>2. /\ Len(recs) \in DOMAIN recs /\ Len(recs) \in Nat /\ recs[Len(recs)].size \in Nat
          /\ w.left \in Nat /\ w.begin \in BOOLEAN /\ w.offset \in Nat /\ BlockSize \in Nat
      BY <1>1, <1>4, Parts
    <3>3. len <= BlockSize - HeaderSize
      BY <3>1, <3>2 DEF Avail, HeaderSize
    <3> QED
      BY <3>1, <3>2, <3>3, Zenon
  <2>2. p.type \in {"full", "first"} => p.from = 0
    BY <1>4, <2>1 DEF Type
  <2>3. p.type \in {"full", "last"} => p.from + p.len = recs[Len(recs)].size
    BY <2>1 DEF Type
  <2>4. p.type \in {"middle", "last"} =>
          /\ N - 1 \in DOMAIN phys' /\ phys'[N - 1].type \in {"first", "middle"}
          /\ p.rec = phys'[N - 1].rec /\ p.from = phys'[N - 1].from + phys'[N - 1].len
    <3> SUFFICES ASSUME p.type \in {"middle", "last"}
                 PROVE  /\ N - 1 \in DOMAIN phys' /\ phys'[N - 1].type \in {"first", "middle"}
                        /\ p.rec = phys'[N - 1].rec
                        /\ p.from = phys'[N - 1].from + phys'[N - 1].len
      BY Zenon
    <3>1. ~w.begin
      BY <2>1, Zenon DEF Type
    <3>2. N - 1 = Len(phys) /\ Len(phys) \in DOMAIN phys
      BY <1>1, <1>3, <1>4, <3>1, Parts
    <3> QED
      BY <1>4, <1>5, <2>1, <3>1, <3>2, Zenon
  <2>5. ASSUME NEW q \in DOMAIN phys
        PROVE  phys[q].rec <= Len(recs) /\ (phys[q].type \in {"full", "last"} => phys[q].rec < Len(recs))
    <3>1. phys[q].rec \in 1..Len(recs)
      BY <1>1, Parts, Zenon DEF PhysInv
    <3>2. CASE w.begin
      BY <1>4, <3>1, <3>2
    <3>3. CASE ~w.begin /\ q = Len(phys)
      BY <1>4, <3>1, <3>3
    <3>4. CASE ~w.begin /\ q # Len(phys)
      <4>1. Len(phys) \in DOMAIN phys /\ q < Len(phys)
        BY <1>1, <3>4, Parts
      <4> QED
        BY <1>1, <1>4, <3>1, <3>4, <4>1, Zenon DEF PhysInv
    <3> QED
      BY <2>1, <3>2, <3>3, <3>4, Zenon
  <2>6. \A q \in DOMAIN phys' : q \in DOMAIN phys \/ q = N
    BY <1>3, <1>5
  <2>7. N \notin DOMAIN phys /\ \A q \in DOMAIN phys' : q \in Nat /\ q <= N
    BY <1>3, <1>5
  <2>8. ASSUME NEW q \in DOMAIN phys'
        PROVE  /\ phys'[q].rec \in DOMAIN recs' /\ phys'[q].len <= BlockSize - HeaderSize
               /\ phys'[q].type \in {"full", "first"} => phys'[q].from = 0
               /\ phys'[q].type \in {"full", "last"} =>
                    phys'[q].from + phys'[q].len = recs'[phys'[q].rec].size
               /\ phys'[q].type \in {"middle", "last"} =>
                    /\ q - 1 \in DOMAIN phys' /\ phys'[q - 1].type \in {"first", "middle"}
                    /\ phys'[q].rec = phys'[q - 1].rec
                    /\ phys'[q].from = phys'[q - 1].from + phys'[q - 1].len
    <3>1. CASE q \in DOMAIN phys
      BY <1>1, <1>5, <1>7, <3>1 DEF PhysInv
    <3>2. CASE q = N
      BY <1>5, <1>7, <2>1, <2>2, <2>3, <2>4, <3>2, Zenon
    <3> QED
      BY <2>6, <3>1, <3>2, Zenon
  <2>9. ASSUME NEW q \in DOMAIN phys', NEW r \in DOMAIN phys', q < r
        PROVE  /\ phys'[q].rec <= phys'[r].rec
               /\ phys'[q].type \in {"full", "last"} => phys'[q].rec < phys'[r].rec
    <3>1. q \in DOMAIN phys
      BY <1>3, <1>5, <2>6, <2>7, <2>9
    <3>2. CASE r \in DOMAIN phys
      BY <1>1, <1>5, <2>9, <3>1, <3>2, Zenon DEF PhysInv
    <3>3. CASE r = N
      BY <1>5, <2>1, <2>5, <3>1, <3>3, Zenon
    <3> QED
      BY <2>6, <3>2, <3>3, Zenon
  <2> QED
    BY <2>8, <2>9, Zenon DEF PhysInv
<1>11. \A q \in DOMAIN phys : Written(q) => Written(q)'
  BY <1>1, <1>8, <1>9, GrownWritten, Zenon
<1>12. FileInv'
  <2>1. \A i \in DOMAIN file' :
          IF Num(i)' >= 1 THEN Num(i)' \in DOMAIN phys' /\ Off(i)' < End(Num(i))'
                          ELSE Off(i)' = 0
    BY <1>1, <1>8, <1>9, GrownInRange, Zenon
  <2>2. \A i, j \in DOMAIN file' : i < j /\ Num(i)' >= 1 /\ Num(j)' >= 1 =>
          Num(i)' < Num(j)' \/ (Num(i)' = Num(j)' /\ Off(i)' < Off(j)')
    BY <1>1, <1>8, <1>9, GrownInOrder, Zenon
  <2>3. ASSUME NEW q \in DOMAIN phys', phys'[q].type \in {"middle", "last"}
        PROVE  Written(q - 1)'
    <3>1. CASE q \in DOMAIN phys
      <4>1. q - 1 \in DOMAIN phys /\ Written(q - 1)
        BY <1>1, <1>5, <2>3, <3>1, Zenon DEF FileInv, PhysInv
      <4> QED
        BY <1>11, <4>1, Zenon
    <3>2. CASE q = N
      <4>1. ~w.begin
        BY <1>3, <1>5, <2>3, <3>2, Zenon DEF Type
      <4>2. q - 1 = Len(phys) /\ Len(phys) \in DOMAIN phys /\ Written(Len(phys))
        BY <1>1, <1>3, <1>4, <3>2, <4>1, Parts
      <4> QED
        BY <1>11, <4>2, Zenon
    <3> QED
      BY <1>3, <1>5, <3>1, <3>2
  <2> QED
    BY <2>1, <2>2, <2>3, Zenon DEF FileInv
<1>13. WriterInv'
  <2> SUFFICES ASSUME w'.pc = "emit" PROVE WriterInv'
    BY Zenon DEF WriterInv
  <2>1. n = HeaderSize + len /\ len < w.left /\ w'.left = w.left - len /\ ~w'.begin
    BY <1>3, Zenon
  <2>2. Written(N)'
    <3>1. PICK s \in Nat : s = Len(file)
      BY <1>1, Parts, Zenon
    <3>2. /\ End(N)' = n /\ Len(file') = s + n /\ DOMAIN file' = 1..(s + n)
          /\ \A i \in DOMAIN file' : Num(i)' \in Int
      <4>1. End(N)' = n
        BY <1>3, <1>5, <2>1, Zenon DEF End
      <4>2. \A i \in DOMAIN file' : Num(i)' \in Int
        BY <1>6 DEF Num, Bytes
      <4> QED
        BY <1>6, <3>1, <4>1, <4>2
    <3>3. ASSUME NEW k \in 1..End(N)' PROVE file'[s + k] = <<N, k - 1>>
      <4>1. /\ s + k \in DOMAIN file' /\ s + k > Len(file)
            /\ (s + k) - Len(file) - 1 = k - 1
        BY <3>1, <3>2
      <4>2. file'[s + k] = <<N, (s + k) - Len(file) - 1>>
        BY <1>6, <4>1, Zenon
      <4> QED
        BY <4>1, <4>2, Zenon
    <3>4. \A i \in DOMAIN file' : Num(i)' > N => i > s + End(N)'
      <4>1. \A i \in DOMAIN file' : Num(i)' >= 1 => Num(i)' \in 1..N
        BY <1>1, <1>5, <1>8, <1>9, GrownInRange, Zenon
      <4> QED
        BY <3>2, <4>1
    <3>5. \A i \in DOMAIN file' : 1 <= Num(i)' /\ Num(i)' < N => i <= s
      BY <1>1, <1>8, <1>9, <3>1, GrownBytes
    <3>6. Slot(N, s)'
      <4>1. s + End(N)' <= Len(file')
        BY <3>2
      <4> QED
        BY <3>3, <3>4, <3>5, <4>1, Zenon DEF Slot
    <3>7. s \in 0..Len(file')
      BY <3>2
    <3> QED
      BY <3>6, <3>7, Zenon DEF Written
  <2>3. /\ phys' # <<>> /\ Len(phys') = N /\ phys'[N] = p
        /\ Len(recs') = Len(recs) /\ recs'[Len(recs)].size = recs[Len(recs)].size
        /\ recs' # <<>>
    <3>1. Len(recs) \in DOMAIN recs
      BY <1>1, <1>4, Parts
    <3>2. phys' # <<>> /\ Len(phys') = N /\ phys'[N] = p
      BY <1>3, <1>5
    <3> QED
      BY <1>7, <3>1, <3>2
  <2>4. /\ w'.left <= recs[Len(recs)].size /\ p.rec = Len(recs)
        /\ p.type \in {"first", "middle"}
        /\ p.from + p.len = recs[Len(recs)].size - w'.left
    <3>1. /\ w.left \in Nat /\ recs[Len(recs)].size \in Nat /\ p.len = len
          /\ p.from = recs[Len(recs)].size - w.left /\ p.rec = Len(recs)
      BY <1>1, <1>3, <1>4, Parts
    <3>2. p.type = Type(w.begin, len = w.left) /\ len # w.left
      BY <1>3, <2>1, <3>1
    <3>3. p.type \in {"first", "middle"}
      BY <3>2, Zenon DEF Type
    <3> QED
      BY <1>4, <2>1, <3>1, <3>3
  <2> QED
    BY <2>1, <2>2, <2>3, <2>4, Zenon DEF WriterInv
<1>14. ReaderInv' /\ OffsetInv'
  BY <1>1, <1>2, ReaderOff, Zenon
<1> QED
  BY <1>8, <1>10, <1>12, <1>13, <1>14, Zenon DEF LInv

(* The file is cut after n bytes, or some of its bytes are damaged, and    *)
(* nothing but zeros is added: what is there stays in order, and a         *)
(* physical record that is followed by a later one is still whole.         *)
Spoilt(n) ==
  /\ n \in 0..Len(file) /\ n <= Len(file') /\ w'.pc = "closed" /\ phys' = phys
  /\ \A i \in 1..n : file'[i] = file[i] \/ file'[i] = Damaged
  /\ \A i \in DOMAIN file' : i > n => file'[i] = Zero

LEMMA SpoiltKeeps ==
  ASSUME Types, Types', PhysInv, FileInv, NEW n, Spoilt(n)
  PROVE  FileInv'
<1>1. /\ file \in Seq(Bytes) /\ Len(file) \in Nat /\ DOMAIN file = 1..Len(file)
      /\ file' \in Seq(Bytes) /\ n \in 0..Len(file) /\ n <= Len(file') /\ phys' = phys
  <2>1. file' \in Seq(Bytes)
    BY Zenon DEF Types
  <2> QED
    BY <2>1, Parts, Zenon DEF Spoilt
<1>2. /\ Len(file') \in Nat /\ DOMAIN file' = 1..Len(file')
      /\ \A i \in DOMAIN file' : Num(i)' \in Int /\ Off(i)' \in Nat
  BY <1>1 DEF Num, Off, Bytes
<1>3. ASSUME NEW i \in DOMAIN file', Num(i)' >= 1
      PROVE  i \in DOMAIN file /\ i <= n /\ Num(i)' = Num(i) /\ Off(i)' = Off(i)
  <2>1. i <= n
    <3>1. i > n => Num(i)' = 0
      BY DEF Spoilt, Num, Zero
    <3> QED
      BY <1>1, <1>2, <1>3, <3>1
  <2>2. file'[i] = file[i]
    <3>1. file'[i] # Damaged
      BY <1>3 DEF Num, Damaged
    <3>2. i \in 1..n
      BY <1>1, <1>2, <2>1
    <3> QED
      BY <3>1, <3>2, Zenon DEF Spoilt
  <2> QED
    BY <1>1, <1>2, <2>1, <2>2 DEF Num, Off
<1>4. ASSUME NEW i \in DOMAIN file', ~(Num(i)' >= 1)
      PROVE  Off(i)' = 0
  <2>1. CASE i > n
    BY <2>1 DEF Spoilt, Off, Zero
  <2>2. CASE ~(i > n)
    <3>1. i \in 1..n /\ i \in DOMAIN file
      BY <1>1, <1>2, <2>2
    <3>2. CASE file'[i] = Damaged
      BY <3>2 DEF Off, Damaged
    <3>3. CASE file'[i] = file[i]
      BY <1>4, <3>1, <3>3, Zenon DEF FileInv, Num, Off
    <3> QED
      BY <3>1, <3>2, <3>3, Zenon DEF Spoilt
  <2> QED
    BY <2>1, <2>2, Zenon
<1>5. ASSUME NEW i \in DOMAIN file'
      PROVE  IF Num(i)' >= 1 THEN Num(i)' \in DOMAIN phys' /\ Off(i)' < End(Num(i))'
                             ELSE Off(i)' = 0
  <2>1. CASE Num(i)' >= 1
    <3>1. i \in DOMAIN file /\ Num(i)' = Num(i) /\ Off(i)' = Off(i)
      BY <1>3, <2>1, Zenon
    <3>2. End(Num(i))' = End(Num(i))
      BY <1>1, <3>1, Zenon DEF End
    <3> QED
      BY <1>1, <2>1, <3>1, <3>2, Zenon DEF FileInv
  <2> QED
    BY <1>4, <2>1, Zenon
<1>6. ASSUME NEW i \in DOMAIN file', NEW j \in DOMAIN file', i < j, Num(i)' >= 1, Num(j)' >= 1
      PROVE  Num(i)' < Num(j)' \/ (Num(i)' = Num(j)' /\ Off(i)' < Off(j)')
  BY <1>3, <1>6 DEF FileInv
<1>7. ASSUME NEW p \in DOMAIN phys', phys'[p].type \in {"middle", "last"},
             NEW i \in DOMAIN file', Num(i)' >= p
      PROVE  Written(p - 1)'
  <2>1. p \in Nat /\ p >= 1 /\ p - 1 \in DOMAIN phys /\ p \in DOMAIN phys
    BY <1>1, <1>7, Parts DEF PhysInv
  <2>2. i \in DOMAIN file /\ i <= n /\ Num(i) >= p /\ Num(i) \in Int
    BY <1>2, <1>3, <1>7, <2>1
  <2>3. Written(p - 1)
    BY <1>1, <1>7, <2>1, <2>2 DEF FileInv
  <2>4. PICK s \in 0..Len(file) : Slot(p - 1, s)
    BY <2>3, Zenon DEF Written
  <2>5. s + End(p - 1) < i
    BY <2>1, <2>2, <2>4 DEF Slot
  <2>6. s + End(p - 1) <= n
    BY <1>1, <2>1, <2>2, <2>5, Parts
  <2>7. \A j \in DOMAIN file' : j > n => Num(j)' = 0
    BY DEF Spoilt, Num, Zero
  <2>8. \A j \in 1..n : file'[j] = file[j] \/ file'[j] = Damaged
    BY Zenon DEF Spoilt
  <2> QED
    BY <1>1, <2>1, <2>4, <2>6, <2>7, <2>8, SlotKept, Zenon
<1>8. w'.pc = "closed"
  BY Zenon DEF Spoilt
<1>9. ASSUME NEW p \in DOMAIN phys', phys'[p].type \in {"middle", "last"}
      PROVE  \/ Written(p - 1)'
             \/ w'.pc = "closed" /\ \A i \in DOMAIN file' : Num(i)' < p
  <2>1. p \in Nat
    BY <1>1, Parts
  <2> QED
    BY <1>2, <1>7, <1>8, <1>9, <2>1
<1> QED
  BY <1>5, <1>6, <1>9, Zenon DEF FileInv

(* A crash cuts the file and leaves zeros.                                 *)
LEMMA CrashKeeps ==
  ASSUME LInv, Crash
  PROVE  LInv'
<1>1. /\ Types /\ PhysInv /\ FileInv /\ ReaderInv /\ OffsetInv
      /\ rd' = rd /\ out' = out /\ phys' = phys
      /\ w' = [w EXCEPT !.pc = "closed"] /\ w.pc # "closed"
  BY Zenon DEF LInv, Crash
<1>2. PICK n \in 0..Len(file), z \in Tails :
        /\ file' = SubSeq(file, 1, n) \o Zeros(z)
        /\ recs' = [r \in DOMAIN recs |->
                      IF recs[r].end > n THEN [recs[r] EXCEPT !.end = -1] ELSE recs[r]]
  BY Zenon DEF Crash
<1>3. rd.pc = "off"
  BY <1>1, Zenon DEF ReaderInv
<1>4. z \in Nat /\ n \in Nat /\ n <= Len(file)
  BY <1>1, LogAssumption, Parts
<1>5. /\ file' \in Seq(Bytes) /\ Len(file') = n + z
      /\ \A i \in 1..n : file'[i] = file[i]
      /\ \A i \in DOMAIN file' : i > n => file'[i] = Zero
  <2>1. /\ SubSeq(file, 1, n) \in Seq(Bytes) /\ Len(SubSeq(file, 1, n)) = n
        /\ \A i \in 1..n : SubSeq(file, 1, n)[i] = file[i]
    BY <1>1, <1>4, Parts
  <2>2. /\ Zeros(z) \in Seq(Bytes) /\ Len(Zeros(z)) = z /\ DOMAIN Zeros(z) = 1..z
        /\ \A i \in 1..z : Zeros(z)[i] = Zero
    BY <1>4 DEF Zeros, Zero, Bytes
  <2>3. DOMAIN SubSeq(file, 1, n) = 1..n
    BY <1>4, <2>1
  <2> QED
    BY <1>2, <1>4, <2>1, <2>2, <2>3, Joined
<1>6. /\ DOMAIN recs' = DOMAIN recs /\ recs' \in Seq(RecordPlaces)
      /\ \A r \in DOMAIN recs : recs'[r].size = recs[r].size
  <2>1. ASSUME NEW r \in DOMAIN recs
        PROVE  recs'[r] \in RecordPlaces /\ recs'[r].size = recs[r].size
    <3>1. recs[r] \in RecordPlaces
      BY <1>1, Parts
    <3>2. recs'[r] = IF recs[r].end > n THEN [recs[r] EXCEPT !.end = -1] ELSE recs[r]
      BY <1>2, Zenon
    <3>3. /\ [recs[r] EXCEPT !.end = -1] \in RecordPlaces
          /\ [recs[r] EXCEPT !.end = -1].size = recs[r].size
      BY <3>1 DEF RecordPlaces
    <3> QED
      BY <3>1, <3>2, <3>3, Zenon
  <2>2. DOMAIN recs' = DOMAIN recs
    BY <1>2, Zenon
  <2>3. recs' \in [1..Len(recs) -> RecordPlaces]
    BY <1>1, <1>2, <2>1, <2>2, Parts, Zenon
  <2>4. recs' \in Seq(RecordPlaces)
    <3>1. Len(recs) \in Nat
      BY <1>1, Parts, Zenon
    <3> QED
      BY <2>3, <3>1, IsASequence, Zenon
  <2> QED
    BY <2>1, <2>2, <2>4, Zenon
<1>7. Types'
  <2>1. w' \in [pc : {"idle", "emit", "closed"}, offset : 0..BlockSize, left : Nat,
                begin : BOOLEAN]
    BY <1>1, Zenon DEF Types
  <2> QED
    BY <1>1, <1>5, <1>6, <2>1, Zenon DEF Types
<1>8. w'.pc = "closed"
  BY <1>1, Zenon DEF Types
<1>9. FileInv'
  <2>1. Spoilt(n)
    BY <1>1, <1>4, <1>5, <1>8 DEF Spoilt
  <2> QED
    BY <1>1, <1>7, <2>1, SpoiltKeeps, Zenon
<1>10. PhysInv' /\ WriterInv'
  BY <1>1, <1>6, <1>8, PhysKept, Zenon DEF WriterInv
<1>11. ReaderInv' /\ OffsetInv'
  BY <1>1, <1>3, ReaderOff, Zenon
<1> QED
  BY <1>7, <1>9, <1>10, <1>11, Zenon DEF LInv

(* The writer is done.                                                     *)
LEMMA CloseKeeps ==
  ASSUME LInv, Close
  PROVE  LInv'
<1>1. /\ Types /\ PhysInv /\ FileInv /\ ReaderInv /\ OffsetInv
      /\ rd' = rd /\ out' = out /\ phys' = phys /\ file' = file /\ recs' = recs
      /\ w' = [w EXCEPT !.pc = "closed"] /\ w.pc = "idle"
  BY Zenon DEF LInv, Close
<1>2. Types' /\ w'.pc = "closed"
  BY <1>1, Zenon DEF Types
<1>3. PhysInv' /\ WriterInv'
  BY <1>1, <1>2, PhysKept, Zenon DEF WriterInv
<1>4. FileInv'
  <2>1. \A p : Written(p)' = Written(p)
    BY <1>1, Zenon DEF Written, Slot, End, Num
  <2> QED
    BY <1>1, <2>1, Zenon DEF FileInv, Num, Off, End
<1>5. ReaderInv' /\ OffsetInv'
  <2>1. rd.pc = "off"
    BY <1>1, Zenon DEF ReaderInv
  <2> QED
    BY <1>1, <2>1, ReaderOff, Zenon
<1> QED
  BY <1>2, <1>3, <1>4, <1>5, Zenon DEF LInv

(* A byte is damaged.                                                      *)
LEMMA CorruptKeeps ==
  ASSUME LInv, Corrupt
  PROVE  LInv'
<1>1. /\ Types /\ PhysInv /\ FileInv /\ ReaderInv /\ OffsetInv
      /\ rd' = rd /\ out' = out /\ phys' = phys /\ recs' = recs /\ w' = w
      /\ w.pc = "closed" /\ rd.pc = "off"
  BY Zenon DEF LInv, Corrupt
<1>2. PICK i \in DOMAIN file : file' = [file EXCEPT ![i] = Damaged]
  BY Zenon DEF Corrupt
<1>3. /\ file' \in Seq(Bytes) /\ Len(file') = Len(file) /\ Len(file) \in Nat
      /\ DOMAIN file' = 1..Len(file)
      /\ \A j \in 1..Len(file) : file'[j] = file[j] \/ file'[j] = Damaged
  <2>1. Damaged \in Bytes
    BY DEF Damaged, Bytes
  <2> QED
    BY <1>1, <1>2, <2>1, Parts
<1>4. Types'
  BY <1>1, <1>3, Zenon DEF Types
<1>5. PhysInv' /\ WriterInv'
  BY <1>1, PhysKept, Zenon DEF WriterInv
<1>6. FileInv'
  <2>1. Spoilt(Len(file))
    BY <1>1, <1>3 DEF Spoilt
  <2> QED
    BY <1>1, <1>4, <2>1, SpoiltKeeps, Zenon
<1>7. ReaderInv' /\ OffsetInv'
  BY <1>1, ReaderOff, Zenon
<1> QED
  BY <1>4, <1>5, <1>6, <1>7, Zenon DEF LInv

----------------------------------------------------------------------------
(* The reader.                                                             *)

(* What the parts of a step do to the reader.                              *)
LEMMA DropFacts ==
  ASSUME NEW r \in Readers, NEW n \in Int
  PROVE  /\ Drop(r, n) \in Readers /\ Drop(r, n).pc = r.pc /\ Drop(r, n).initial = r.initial
         /\ Drop(r, n).from = r.from /\ Drop(r, n).end = r.end /\ Drop(r, n).eof = r.eof
         /\ Drop(r, n).inFrag = r.inFrag /\ Drop(r, n).scratch = r.scratch
         /\ Drop(r, n).start = r.start /\ Drop(r, n).last = r.last
  BY Zenon DEF Drop, Readers

LEMMA ClearFacts ==
  ASSUME NEW r \in Readers
  PROVE  /\ Clear(r) \in Readers /\ Clear(r).pc = r.pc /\ Clear(r).initial = r.initial
         /\ Clear(r).from = r.end /\ Clear(r).end = r.end /\ Clear(r).eof = r.eof
         /\ Clear(r).inFrag = r.inFrag /\ Clear(r).scratch = r.scratch
         /\ Clear(r).start = r.start /\ Clear(r).last = r.last
  BY Zenon DEF Clear, Readers

LEMMA DropBufferFacts ==
  ASSUME NEW r \in Readers, NEW n \in Int
  PROVE  LET d == Drop(Clear(r), n)
         IN  /\ d \in Readers /\ d.pc = r.pc /\ d.initial = r.initial /\ d.from = r.end
             /\ d.end = r.end /\ d.eof = r.eof /\ d.inFrag = r.inFrag
             /\ d.start = r.start /\ d.last = r.last
<1> DEFINE c == Clear(r)
<1>1. /\ c \in Readers /\ c.pc = r.pc /\ c.initial = r.initial /\ c.from = r.end
      /\ c.end = r.end /\ c.eof = r.eof /\ c.inFrag = r.inFrag
      /\ c.start = r.start /\ c.last = r.last
  BY ClearFacts, Zenon
<1> HIDE DEF c
<1>2. /\ Drop(c, n) \in Readers /\ Drop(c, n).pc = c.pc /\ Drop(c, n).initial = c.initial
      /\ Drop(c, n).from = c.from /\ Drop(c, n).end = c.end /\ Drop(c, n).eof = c.eof
      /\ Drop(c, n).inFrag = c.inFrag
      /\ Drop(c, n).start = c.start /\ Drop(c, n).last = c.last
  BY <1>1, DropFacts, Zenon
<1> QED
  BY <1>1, <1>2, Zenon DEF c

LEMMA EofFacts ==
  ASSUME NEW r \in Readers
  PROVE  /\ Eof(r) \in Readers /\ Eof(r).pc = "done" /\ Eof(r).initial = r.initial
         /\ Eof(r).from = r.from /\ Eof(r).end = r.end /\ Eof(r).inFrag = r.inFrag
         /\ Eof(r).start = r.start /\ Eof(r).last = r.last
<1> DEFINE d == IF r.inFrag THEN Drop(r, Len(r.scratch)) ELSE r
<1>1. Len(r.scratch) \in Int /\ r.from \in Nat /\ <<>> \in Seq(Bytes)
  BY DEF Readers
<1>2. /\ d \in Readers /\ d.initial = r.initial
      /\ d.from = r.from /\ d.end = r.end /\ d.inFrag = r.inFrag
      /\ d.start = r.start /\ d.last = r.last
  <2>1. CASE r.inFrag
    BY <1>1, <2>1, DropFacts, Zenon
  <2>2. CASE ~r.inFrag
    BY <2>2, Zenon
  <2> QED
    BY <2>1, <2>2, Zenon
<1>3. Eof(r) = [d EXCEPT !.pc = "done", !.scratch = <<>>]
  BY Zenon DEF Eof
<1> HIDE DEF d
<1> QED
  BY <1>1, <1>2, <1>3, Zenon DEF Readers

LEMMA BadRecordFacts ==
  ASSUME NEW r \in Readers
  PROVE  /\ BadRecord(r) \in Readers /\ BadRecord(r).pc = r.pc
         /\ BadRecord(r).initial = r.initial /\ BadRecord(r).from = r.from
         /\ BadRecord(r).end = r.end /\ BadRecord(r).eof = r.eof
         /\ ~BadRecord(r).inFrag /\ BadRecord(r).top = r.from
         /\ BadRecord(r).start = r.start /\ BadRecord(r).last = r.last
<1> DEFINE d == IF r.inFrag THEN Drop(r, Len(r.scratch)) ELSE r
<1>1. Len(r.scratch) \in Int /\ r.from \in Nat /\ <<>> \in Seq(Bytes)
  BY DEF Readers
<1>2. /\ d \in Readers /\ d.pc = r.pc /\ d.initial = r.initial
      /\ d.from = r.from /\ d.end = r.end /\ d.eof = r.eof
      /\ d.start = r.start /\ d.last = r.last
  <2>1. CASE r.inFrag
    BY <1>1, <2>1, DropFacts, Zenon
  <2>2. CASE ~r.inFrag
    BY <2>2, Zenon
  <2> QED
    BY <2>1, <2>2, Zenon
<1>3. BadRecord(r) = [d EXCEPT !.inFrag = FALSE, !.scratch = <<>>, !.top = r.from]
  BY Zenon DEF BadRecord
<1> HIDE DEF d
<1> QED
  BY <1>1, <1>2, <1>3, Zenon DEF Readers

(* A step of the reader leaves the file alone.  It keeps the invariant if  *)
(* it goes forward and leaves the offsets and what it has of a record as   *)
(* they have to be.                                                        *)
LEMMA ReaderStep ==
  ASSUME LInv, UNCHANGED <<file, phys, recs, w>>, w.pc = "closed",
         rd' \in Readers, rd'.pc # "off", rd'.from <= rd'.end,
         rd'.from < rd'.end => rd'.end <= Len(file),
         rd'.pc = "read" /\ rd'.inFrag =>
           \E q \in DOMAIN phys : \E e \in DOMAIN file : Partly(q, e)',
         out' \in Seq(Seq(Bytes)),
         \E which \in [DOMAIN out' -> DOMAIN recs] : Returned(which)', OffsetInv'
  PROVE  LInv'
<1>1. /\ Types /\ PhysInv /\ FileInv
      /\ file' = file /\ phys' = phys /\ recs' = recs /\ w' = w
  BY Zenon DEF LInv
<1>2. Types'
  BY <1>1, Zenon DEF Types
<1>3. PhysInv' /\ WriterInv'
  BY <1>1, PhysKept, Zenon DEF WriterInv
<1>4. FileInv'
  <2>1. \A p : Written(p)' = Written(p)
    BY <1>1, Zenon DEF Written, Slot, End, Num
  <2> QED
    BY <1>1, <2>1 DEF FileInv, Num, Off, End
<1>5. ReaderInv'
  BY <1>1, Zenon DEF ReaderInv
<1> QED
  BY <1>2, <1>3, <1>4, <1>5, Zenon DEF LInv

(* The same for a step that returns no record.                             *)
LEMMA ReaderGoesOn ==
  ASSUME LInv, UNCHANGED <<file, phys, recs, w, out>>, w.pc = "closed",
         rd' \in Readers, rd'.pc # "off", rd.from <= rd'.from, rd'.from <= rd'.end,
         rd'.from < rd'.end => rd'.end <= Len(file),
         rd'.pc = "read" /\ rd'.inFrag =>
           \E q \in DOMAIN phys : \E e \in DOMAIN file : Partly(q, e)',
         OffsetInv'
  PROVE  LInv'
<1>1. PICK which \in [DOMAIN out -> DOMAIN recs] : Returned(which)
  BY Zenon DEF LInv, ReaderInv
<1>2. Returned(which)'
  <2>1. rd.from \in Nat /\ rd'.from \in Nat
    BY Zenon DEF LInv, Types, Readers
  <2>2. \A j \in DOMAIN file : j > rd'.from => j > rd.from
    <3>1. \A j \in DOMAIN file : j \in Nat
      BY Parts DEF LInv
    <3> QED
      BY <2>1, <3>1
  <2> QED
    BY <1>1, <2>2, Zenon DEF Returned, Record, Num
<1>3. out' \in Seq(Seq(Bytes)) /\ out' = out
  BY Zenon DEF LInv, Types
<1>4. \E u \in [DOMAIN out' -> DOMAIN recs] : Returned(u)'
  BY <1>1, <1>2, <1>3, Zenon
<1> QED
  BY <1>3, <1>4, ReaderStep, Zenon

(* The types of the reader's parts.                                        *)
LEMMA ReaderParts ==
  ASSUME Types
  PROVE  /\ rd \in Readers /\ rd.from \in Nat /\ rd.end \in Nat /\ rd.from <= rd.end
         /\ rd.initial \in Nat /\ rd.top \in Nat /\ rd.start \in Nat /\ rd.last \in Nat
         /\ rd.eof \in BOOLEAN /\ rd.inFrag \in BOOLEAN
         /\ rd.scratch \in Seq(Bytes) /\ Len(rd.scratch) \in Nat
         /\ Size \in Nat /\ Size = rd.end - rd.from
<1>1. /\ rd \in Readers /\ rd.from \in Nat /\ rd.end \in Nat /\ rd.from <= rd.end
      /\ rd.initial \in Nat /\ rd.top \in Nat /\ rd.start \in Nat /\ rd.last \in Nat
      /\ rd.eof \in BOOLEAN /\ rd.inFrag \in BOOLEAN
      /\ rd.scratch \in Seq(Bytes)
  BY Zenon DEF Types, Readers
<1>2. Size \in Nat /\ Size = rd.end - rd.from
  BY <1>1 DEF Size
<1>3. Len(rd.scratch) \in Nat
  BY <1>1
<1> QED
  BY <1>1, <1>2, <1>3, Zenon

(* The first call of ReadRecord skips to the block of the offset.          *)
LEMMA OpenKeeps ==
  ASSUME LInv, NEW initial \in Offsets, Open(initial)
  PROVE  LInv'
<1> DEFINE b == SkipToInitialBlock(initial)
<1>1. /\ Types /\ ReaderInv /\ OffsetInv /\ w.pc = "closed" /\ rd.pc = "off"
      /\ UNCHANGED <<file, phys, recs, w, out>>
  BY Zenon DEF LInv, Open
<1>2. initial \in Nat /\ b \in Nat
  BY LogAssumption, SkipFacts, Zenon
<1>3. out = <<>> /\ ~rd.inFrag /\ rd.from = 0
  BY <1>1, Zenon DEF ReaderInv
<1>4. PICK r : r = [rd EXCEPT !.initial = initial, !.from = b, !.end = b, !.top = b]
  BY Zenon
<1>5. rd' = [r EXCEPT !.pc = "read"] \/ rd' = [Drop(r, b) EXCEPT !.pc = "done"]
  BY <1>4, Zenon DEF Open
<1> HIDE DEF b
<1>6. /\ r \in Readers /\ r.initial = initial /\ r.from = b /\ r.end = b /\ r.top = b
       /\ r.inFrag = rd.inFrag
  BY <1>4, <1>1, <1>2, ReaderParts, Zenon DEF Readers
<1>7. PICK d : d = Drop(r, b)
  BY Zenon
<1>8. /\ d \in Readers /\ d.initial = initial /\ d.from = b /\ d.end = b /\ d.top = b
       /\ d.inFrag = rd.inFrag
  <2>1. b \in Int
    BY <1>2
  <2>2. d.top = r.top
    BY <1>6, <1>7, Zenon DEF Drop, Readers
  <2> QED
    BY <1>6, <1>7, <2>1, <2>2, DropFacts, Zenon
<1>9. /\ rd' \in Readers /\ rd'.pc \in {"read", "done"} /\ rd'.initial = initial
      /\ rd'.from = b /\ rd'.end = b /\ rd'.top = b /\ rd'.inFrag = rd.inFrag
  <2>1. CASE rd' = [r EXCEPT !.pc = "read"]
    BY <1>6, <2>1, Zenon DEF Readers
  <2>2. CASE rd' = [d EXCEPT !.pc = "done"]
    BY <1>8, <2>2, Zenon DEF Readers
  <2> QED
    BY <1>5, <1>7, <2>1, <2>2, Zenon
<1>10. OffsetInv'
  <2>1. out' = <<>> /\ ~rd'.inFrag
    BY <1>1, <1>3, <1>9, Zenon
  <2>2. SkipToInitialBlock(initial) = b
    BY Zenon DEF b
  <2> QED
    BY <1>9, <2>1, <2>2, Zenon DEF OffsetInv, SkippedOnce
<1>11. rd.from <= rd'.from /\ rd'.from <= rd'.end /\ ~(rd'.from < rd'.end)
  BY <1>2, <1>3, <1>9
<1>12. ~rd'.inFrag
  BY <1>3, <1>9, Zenon
<1>13. rd'.pc # "off"
  BY <1>9, Zenon
<1> QED
  BY <1>1, <1>9, <1>10, <1>11, <1>12, <1>13, ReaderGoesOn, Zenon

(* A step after which nothing more is read.                                *)
LEMMA EndKeeps ==
  ASSUME LInv, rd.pc = "read", UNCHANGED <<file, phys, recs, w, out>>,
         NEW r \in Readers, rd' = Eof(r), rd.from <= r.from, r.from <= r.end,
         r.from < r.end => r.end <= Len(file),
         r.initial = rd.initial, r.inFrag = rd.inFrag, r.start = rd.start, r.last = rd.last
  PROVE  LInv'
<1>1. /\ rd' \in Readers /\ rd'.pc = "done" /\ rd'.initial = rd.initial
      /\ rd'.from = r.from /\ rd'.end = r.end /\ rd'.inFrag = rd.inFrag
      /\ rd'.start = rd.start /\ rd'.last = rd.last
  BY EofFacts, Zenon
<1>2. Types /\ ReaderInv /\ OffsetInv
  BY Zenon DEF LInv
<1>3. OffsetInv'
  <2>1. rd'.pc # "read"
    BY <1>1, Zenon
  <2> QED
    BY <1>1, <1>2, <2>1, Zenon DEF OffsetInv, SkippedOnce
<1>4. /\ rd.from <= rd'.from /\ rd'.from <= rd'.end
      /\ rd'.from < rd'.end => rd'.end <= Len(file)
  BY <1>1, Zenon
<1>5. w.pc = "closed"
  <2>1. rd.pc # "off"
    BY Zenon
  <2> QED
    BY <1>2, <2>1, Zenon DEF ReaderInv
<1>6. rd'.pc # "off" /\ rd'.pc # "read"
  BY <1>1, Zenon
<1> QED
  BY <1>1, <1>3, <1>4, <1>5, <1>6, ReaderGoesOn, Zenon

LEMMA ReadEofKeeps ==
  ASSUME LInv, ReadEof
  PROVE  LInv'
<1> DEFINE r == IF Size = 0 THEN rd ELSE Drop(Clear(rd), Size)
<1>1. /\ rd.pc = "read" /\ UNCHANGED <<file, phys, recs, w, out>> /\ rd' = Eof(r)
  BY Zenon DEF ReadEof
<1>2. rd \in Readers /\ Size \in Int
  BY ReaderParts DEF LInv
<1>3. /\ r \in Readers /\ r.from \in {rd.from, rd.end} /\ r.end = rd.end
      /\ r.initial = rd.initial /\ r.inFrag = rd.inFrag /\ r.start = rd.start
      /\ r.last = rd.last
  <2>1. CASE Size = 0
    BY <1>2, <2>1, Zenon
  <2>2. CASE Size # 0
    BY <1>2, <2>2, DropBufferFacts, Zenon
  <2> QED
    BY <2>1, <2>2, Zenon
<1> HIDE DEF r
<1>4. /\ rd.from <= r.from /\ r.from <= r.end
      /\ r.from < r.end => r.end <= Len(file)
  <2>1. rd.from < rd.end => rd.end <= Len(file)
    BY Zenon DEF LInv, ReaderInv
  <2>2. rd.from \in Nat /\ rd.end \in Nat /\ rd.from <= rd.end
    BY ReaderParts, Zenon DEF LInv
  <2> QED
    BY <1>3, <2>1, <2>2
<1> QED
  BY <1>1, <1>3, <1>4, EndKeeps, Zenon

(* A bad physical record, or a header of zeros: the buffer is dropped, and *)
(* with it what the reader had of a record.                                *)
LEMMA ReadBadKeeps ==
  ASSUME LInv, ReadBad
  PROVE  LInv'
<1>1. /\ Types /\ ReaderInv /\ OffsetInv /\ rd.pc = "read" /\ Size >= HeaderSize
      /\ UNCHANGED <<file, phys, recs, w, out>>
  BY Zenon DEF LInv, ReadBad
<1>2. rd \in Readers /\ Size \in Int
  BY <1>1, ReaderParts
<1>3. PICK r \in {Clear(rd), Drop(Clear(rd), Size)} : rd' = BadRecord(r)
  BY Zenon DEF ReadBad
<1>4. /\ r \in Readers /\ r.pc = rd.pc /\ r.initial = rd.initial /\ r.from = rd.end
      /\ r.end = rd.end /\ r.eof = rd.eof /\ r.start = rd.start /\ r.last = rd.last
  <2>1. CASE r = Clear(rd)
    BY <1>2, <2>1, ClearFacts, Zenon
  <2>2. CASE r = Drop(Clear(rd), Size)
    BY <1>2, <2>2, DropBufferFacts, Zenon
  <2> QED
    BY <2>1, <2>2, Zenon
<1>5. /\ rd' \in Readers /\ rd'.pc = "read" /\ rd'.initial = rd.initial
      /\ rd'.from = rd.end /\ rd'.end = rd.end /\ rd'.eof = rd.eof
      /\ ~rd'.inFrag /\ rd'.top = rd.end /\ rd'.start = rd.start /\ rd'.last = rd.last
  BY <1>1, <1>3, <1>4, BadRecordFacts, Zenon
<1>6. OffsetInv'
  <2> DEFINE b == SkipToInitialBlock(rd.initial)
  <2>1. ~(rd.from = b /\ rd.end = b)
    BY <1>1, ReaderParts DEF HeaderSize
  <2>2. rd.end >= b + BlockSize \/ rd.eof
    BY <1>1, <2>1, Zenon DEF OffsetInv
  <2>3. rd'.top = rd'.from
    BY <1>5, Zenon
  <2>4. SkippedOnce'
    BY <1>1, <1>5, Zenon DEF OffsetInv, SkippedOnce
  <2> QED
    BY <1>5, <2>2, <2>3, <2>4, Zenon DEF OffsetInv
<1>7. rd.from <= rd'.from /\ rd'.from <= rd'.end /\ ~(rd'.from < rd'.end)
  BY <1>1, <1>5, ReaderParts
<1>8. rd'.pc # "off" /\ rd.pc # "off"
  BY <1>1, <1>5, Zenon
<1>9. w.pc = "closed"
  BY <1>1, <1>8, Zenon DEF ReaderInv
<1> QED
  BY <1>1, <1>5, <1>6, <1>7, <1>8, <1>9, ReaderGoesOn, Zenon

(* The next block is read, or reading it fails.                            *)
LEMMA RefillKeeps ==
  ASSUME LInv, Refill
  PROVE  LInv'
<1> DEFINE n == Min({BlockSize, Max({0, Len(file) - rd.end})})
           b == SkipToInitialBlock(rd.initial)
<1>1. /\ Types /\ ReaderInv /\ OffsetInv /\ rd.pc = "read" /\ Size < HeaderSize /\ ~rd.eof
      /\ UNCHANGED <<file, phys, recs, w, out>>
  BY Zenon DEF LInv, Refill
<1>2. BlockSize \in Nat /\ BlockSize > 7 /\ Len(file) \in Nat
  BY <1>1, Parts, Zenon
<1>3. /\ rd \in Readers /\ rd.from \in Nat /\ rd.end \in Nat /\ rd.from <= rd.end
      /\ rd.initial \in Nat /\ rd.top \in Nat
      /\ rd.end - rd.from < 7
  BY <1>1, ReaderParts, Zenon DEF HeaderSize
<1>4. n \in Nat /\ n <= BlockSize /\ (n > 0 => rd.end + n <= Len(file))
  <2> DEFINE m == Max({0, Len(file) - rd.end})
  <2>0. 0 \in Int /\ BlockSize \in Int /\ Len(file) - rd.end \in Int
    BY <1>2, <1>3
  <2>1. m \in {0, Len(file) - rd.end} /\ m >= 0
    BY <2>0, MaxOfTwo, Zenon
  <2>2. m \in Int
    BY <2>0, <2>1, Zenon
  <2> HIDE DEF m
  <2>3. Min({BlockSize, m}) \in {BlockSize, m} /\ Min({BlockSize, m}) <= BlockSize
        /\ Min({BlockSize, m}) <= m
    BY <2>0, <2>2, MinOfTwo, Zenon
  <2> QED
    BY <1>2, <1>3, <2>1, <2>2, <2>3 DEF m
<1>5. b \in Nat /\ (b > rd.initial \/ rd.initial <= b + BlockSize - 6)
  BY <1>3, SkipFacts, Zenon
<1>6. ASSUME NEW got \in 0..n,
             rd' = Eof(Drop([rd EXCEPT !.from = rd.end + got, !.end = @ + got, !.eof = TRUE],
                            BlockSize))
      PROVE  LInv'
  <2>1. BlockSize \in Int
    BY <1>2
  <2>2. PICK to : to = rd.end + got
    BY Zenon
  <2>3. to \in Nat /\ rd.from <= to /\ to <= to /\ ~(to < to)
    BY <1>3, <1>4, <2>2
  <2>4. PICK r : r = [rd EXCEPT !.from = to, !.end = to, !.eof = TRUE]
    BY Zenon
  <2>5. PICK d : d = Drop(r, BlockSize)
    BY Zenon
  <2>6. rd' = Eof(d)
    BY <1>6, <2>2, <2>4, <2>5, Zenon
  <2>7. /\ r \in Readers /\ r.initial = rd.initial /\ r.from = to /\ r.end = to
        /\ r.inFrag = rd.inFrag /\ r.start = rd.start /\ r.last = rd.last
    BY <1>3, <2>3, <2>4, Zenon DEF Readers
  <2>8. /\ d \in Readers /\ d.initial = rd.initial /\ d.from = to /\ d.end = to
        /\ d.inFrag = rd.inFrag /\ d.start = rd.start /\ d.last = rd.last
    BY <2>1, <2>5, <2>7, DropFacts, Zenon
  <2> QED
    BY <1>1, <2>3, <2>6, <2>8, EndKeeps, Zenon
<1>7. CASE rd' = [rd EXCEPT !.from = rd.end, !.end = @ + n, !.eof = n < BlockSize]
  <2> HIDE DEF n
  <2>1. rd.end + n \in Nat /\ (n < BlockSize) \in BOOLEAN
    BY <1>3, <1>4
  <2>2. /\ rd' \in Readers /\ rd'.pc = "read" /\ rd'.from = rd.end /\ rd'.end = rd.end + n
        /\ rd'.eof = (n < BlockSize) /\ rd'.initial = rd.initial /\ rd'.top = rd.top
        /\ rd'.inFrag = rd.inFrag /\ rd'.start = rd.start /\ rd'.last = rd.last
        /\ rd'.scratch = rd.scratch
    BY <1>1, <1>3, <1>7, <2>1, Zenon DEF Readers
  <2>3. /\ rd.top = rd.from
        /\ rd.from >= rd.initial => rd.top >= rd.initial
        /\ \/ rd.from = b /\ rd.end = b /\ rd.top = b
           \/ rd.end >= b + BlockSize
    <3>1. ~(Size >= HeaderSize)
      BY <1>1, ReaderParts DEF HeaderSize
    <3> QED
      BY <1>1, <3>1, Zenon DEF OffsetInv
  <2>4. Size' = n /\ (n < BlockSize \/ n >= 7)
    BY <1>2, <1>3, <1>4, <2>2 DEF Size
  <2> HIDE DEF b
  <2>5. rd.end >= rd.initial => rd.top >= rd.initial
    <3>1. CASE rd.end = b /\ rd.top = b
      BY <3>1, Zenon
    <3>2. CASE rd.end >= b + BlockSize
      BY <1>2, <1>3, <1>5, <2>3, <3>2
    <3> QED
      BY <2>3, <3>1, <3>2, Zenon
  <2>6. rd.end + n >= b + BlockSize \/ n < BlockSize
    BY <1>2, <1>3, <1>4, <1>5, <2>3
  <2>7. OffsetInv'
    <3>1. rd'.from >= rd'.initial => rd'.top >= rd'.initial
      BY <2>2, <2>5, Zenon
    <3>2. Size' >= HeaderSize \/ rd'.eof
      BY <2>2, <2>4, Zenon DEF HeaderSize
    <3>3. rd'.end >= SkipToInitialBlock(rd'.initial) + BlockSize \/ rd'.eof
      BY <2>2, <2>6, Zenon DEF b
    <3>4. rd'.inFrag => rd'.start >= rd'.initial
      BY <1>1, <2>2, Zenon DEF OffsetInv
    <3>5. SkippedOnce'
      BY <1>1, <2>2, Zenon DEF OffsetInv, SkippedOnce
    <3> QED
      BY <3>1, <3>2, <3>3, <3>4, <3>5, Zenon DEF OffsetInv
  <2>8. ASSUME rd'.inFrag
        PROVE  \E q \in DOMAIN phys : \E e \in DOMAIN file : Partly(q, e)'
    <3>1. PICK q \in DOMAIN phys, e \in DOMAIN file : Partly(q, e)
      BY <1>1, <2>2, <2>8, Zenon DEF ReaderInv
    <3>2. ~(Size >= HeaderSize)
      BY <1>1, ReaderParts DEF HeaderSize
    <3>3. /\ phys[q].type \in {"first", "middle"} /\ rd.from = e
          /\ rd.scratch = Data(phys[q].rec, 0, phys[q].from + phys[q].len)
          /\ file[e] = <<q, End(q) - 1>>
      BY <1>1, <3>1, <3>2, Zenon DEF Partly
    <3>4. Size' >= HeaderSize \/ rd'.eof
      BY <2>2, <2>4, Zenon DEF HeaderSize
    <3>5. rd'.from = e \/ (e < rd'.from /\ rd'.from < e + HeaderSize)
      BY <1>3, <2>2, <3>3 DEF HeaderSize
    <3>6. Partly(q, e)'
      BY <1>1, <2>2, <3>3, <3>4, <3>5, Zenon DEF Partly, End
    <3> QED
      BY <3>6, Zenon
  <2>9. /\ rd.from <= rd'.from /\ rd'.from <= rd'.end
        /\ rd'.from < rd'.end => rd'.end <= Len(file)
    BY <1>2, <1>3, <1>4, <2>2
  <2>10. rd'.pc # "off" /\ rd.pc # "off"
    BY <1>1, <2>2, Zenon
  <2>11. w.pc = "closed"
    BY <1>1, <2>10, Zenon DEF ReaderInv
  <2> QED
    BY <1>1, <2>2, <2>7, <2>8, <2>9, <2>10, <2>11, ReaderGoesOn, Zenon
<1> QED
  BY <1>6, <1>7, Zenon DEF Refill

(* A header that is good, with the bytes after it: they are all the bytes  *)
(* of one physical record.                                                 *)
LEMMA GoodFragment ==
  ASSUME Types, FileInv, ReaderInv, Size >= HeaderSize, Header # 0, Fits, Checksum
  PROVE  /\ Header \in DOMAIN phys /\ End(Header) <= Size
         /\ rd.from + End(Header) <= rd.end /\ rd.end <= Len(file)
         /\ \A k \in 1..End(Header) :
              /\ rd.from + k \in DOMAIN file
              /\ Num(rd.from + k) = Header /\ Off(rd.from + k) = k - 1
<1> DEFINE p == Header
           h == HeaderBytes
<1>1. /\ rd.from \in Nat /\ rd.end \in Nat /\ rd.end - rd.from >= 7
      /\ Size = rd.end - rd.from /\ Len(file) \in Nat /\ DOMAIN file = 1..Len(file)
      /\ file \in Seq(Bytes)
  BY ReaderParts, Parts, Zenon DEF HeaderSize
<1>2. rd.end <= Len(file)
  <2>1. rd.from < rd.end
    BY <1>1
  <2> QED
    BY <2>1, Zenon DEF ReaderInv
<1>3. \A k \in 1..7 : h[k] = file[rd.from + k]
  BY <1>1, <1>2 DEF HeaderBytes, HeaderSize
<1>4. h = [i \in 1..HeaderSize |-> <<p, i - 1>>]
  BY Zenon DEF Header
<1> HIDE DEF p, h
<1>5. \A k \in 1..7 : file[rd.from + k] = <<p, k - 1>>
  BY <1>3, <1>4, Zenon DEF HeaderSize
<1>6. p \in DOMAIN phys
  <2>1. rd.from + 2 \in DOMAIN file
    BY <1>1, <1>2
  <2>2. Num(rd.from + 2) = p /\ Off(rd.from + 2) = 1
    BY <1>5 DEF Num, Off
  <2>3. Off(rd.from + 2) # 0
    BY <2>2
  <2> QED
    BY <2>1, <2>2, <2>3, Zenon DEF FileInv
<1>7. phys[p].len \in Nat /\ End(p) = 7 + phys[p].len /\ End(p) \in Nat
  BY <1>6, Parts, Zenon
<1>8. End(p) <= Size
  BY Zenon DEF p, Fits, End
<1>9. \A k \in 1..End(p) : file[rd.from + k] = <<p, k - 1>>
  <2> TAKE k \in 1..End(p)
  <2>1. CASE k \in 1..7
    BY <1>5, <2>1, Zenon
  <2>2. CASE k \notin 1..7
    <3>1. k - 7 \in 1..phys[p].len
      BY <1>7, <2>2
    <3>2. \A i \in 1..phys[p].len : file[rd.from + 7 + i] = <<p, 7 + i - 1>>
      BY Zenon DEF p, Checksum, HeaderSize
    <3>3. file[rd.from + 7 + (k - 7)] = <<p, 7 + (k - 7) - 1>>
      BY <3>1, <3>2, Zenon
    <3>4. rd.from + 7 + (k - 7) = rd.from + k /\ 7 + (k - 7) - 1 = k - 1
      <4>1. \A f, n \in Nat : \A j \in 1..n : f + 7 + (j - 7) = f + j /\ 7 + (j - 7) - 1 = j - 1
        OBVIOUS
      <4> QED
        BY <1>1, <1>7, <4>1, Zenon
    <3> QED
      BY <3>3, <3>4, Zenon
  <2> QED
    BY <2>1, <2>2, Zenon
<1>10. \A k \in 1..End(p) : rd.from + k \in DOMAIN file
  <2>1. \A f, n, e, l \in Nat : n <= e - f /\ e <= l => \A k \in 1..n : f + k \in 1..l
    OBVIOUS
  <2>2. End(p) <= rd.end - rd.from
    BY <1>1, <1>8, Zenon
  <2> QED
    BY <1>1, <1>2, <1>7, <2>1, <2>2, Zenon
<1>11. \A k \in 1..End(p) : Num(rd.from + k) = p /\ Off(rd.from + k) = k - 1
  BY <1>9 DEF Num, Off
<1>12. rd.from + End(p) <= rd.end
  BY <1>1, <1>7, <1>8
<1> QED
  BY <1>2, <1>6, <1>8, <1>10, <1>11, <1>12, Zenon DEF p

(* The heart of the matter: when a good fragment says that it goes on with *)
(* a record, the fragment the reader has before it is the one written      *)
(* before it.  That one is in the file as a whole, damaged or not, and the *)
(* reader did not step over anything longer than a trailer.                *)
LEMMA FragmentFollows ==
  ASSUME Types, PhysInv, FileInv, ReaderInv,
         Size >= HeaderSize, Header # 0, Fits, Checksum,
         phys[Header].type \in {"middle", "last"},
         NEW q \in DOMAIN phys, NEW e \in DOMAIN file, Partly(q, e)
  PROVE  q = Header - 1
<1> DEFINE p == Header
           i == rd.from + 1
<1>0. Len(file) \in Nat /\ \A u \in DOMAIN phys : End(u) \in Nat /\ End(u) >= 7
  <2>1. /\ Len(file) \in Nat
        /\ \A u \in DOMAIN phys :
             phys[u].len \in Nat /\ End(u) \in Nat /\ End(u) = 7 + phys[u].len
    BY Parts, Zenon
  <2> QED
    BY <2>1
<1>1. /\ p \in DOMAIN phys /\ p \in Nat /\ p >= 1 /\ q \in Nat /\ q >= 1 /\ e \in Nat /\ e >= 1
      /\ End(p) \in Nat /\ End(p) >= 7 /\ End(q) \in Nat /\ End(q) >= 7 /\ rd.from \in Nat
  <2>1. p \in DOMAIN phys
    BY GoodFragment, Zenon
  <2>2. /\ DOMAIN phys = 1..Len(phys) /\ Len(phys) \in Nat
        /\ DOMAIN file = 1..Len(file) /\ Len(file) \in Nat /\ rd.from \in Nat
    BY Parts, ReaderParts, Zenon
  <2> HIDE DEF p
  <2> QED
    BY <1>0, <2>1, <2>2
<1>2. i \in DOMAIN file /\ Num(i) = p /\ Off(i) = 0
  <2>1. 1 \in 1..End(p)
    BY <1>1
  <2>2. i \in DOMAIN file /\ Num(i) = p /\ Off(i) = 1 - 1
    BY <2>1, GoodFragment, Zenon
  <2> QED
    BY <2>2
<1>3. Num(e) = q /\ Off(e) = End(q) - 1 /\ e <= rd.from /\ rd.from < e + 7
  <2>1. file[e] = <<q, End(q) - 1>>
    BY Zenon DEF Partly
  <2>2. rd.from = e \/ (e < rd.from /\ rd.from < e + 7)
    BY Zenon DEF Partly, HeaderSize
  <2> QED
    BY <1>1, <2>1, <2>2 DEF Num, Off
<1>4. phys[p].type \in {"middle", "last"}
  BY Zenon
<1> HIDE DEF p
<1>5. q < p
  <2>1. e < i /\ Num(e) >= 1 /\ Num(i) >= 1
    BY <1>1, <1>2, <1>3
  <2>2. Num(e) < Num(i) \/ (Num(e) = Num(i) /\ Off(e) < Off(i))
    BY <1>2, <2>1, Zenon DEF FileInv
  <2> QED
    BY <1>1, <1>2, <1>3, <2>2
<1>6. Written(p - 1)
  <2>1. ~(Num(i) < p)
    BY <1>1, <1>2
  <2> QED
    BY <1>1, <1>2, <1>4, <2>1, Zenon DEF FileInv
<1>7. PICK s \in 0..Len(file) : Slot(p - 1, s)
  BY <1>6, Zenon DEF Written
<1>8. p - 1 \in DOMAIN phys /\ End(p - 1) \in Nat /\ End(p - 1) >= 7
  <2>1. p - 1 \in DOMAIN phys
    BY <1>1, <1>4, Zenon DEF PhysInv
  <2> QED
    BY <1>0, <2>1, Zenon
<1>9. i > s + End(p - 1)
  <2>1. Num(i) > p - 1
    BY <1>1, <1>2
  <2> QED
    BY <1>2, <1>7, <2>1, Zenon DEF Slot
<1>10. ~(q < p - 1)
  <2>1. SUFFICES ASSUME q < p - 1 PROVE FALSE
    BY Zenon
  <2>2. e <= s
    <3>1. 1 <= Num(e) /\ Num(e) < p - 1
      BY <1>1, <1>3, <2>1, Zenon
    <3> QED
      BY <1>7, <3>1, Zenon DEF Slot
  <2> QED
    BY <1>0, <1>1, <1>3, <1>8, <1>9, <2>2
<1> QED
  BY <1>1, <1>5, <1>10 DEF p

(* Returning the record of a fragment that ends it.                        *)
LEMMA ReturnKeeps ==
  ASSUME Types, PhysInv, FileInv, ReaderInv, UNCHANGED <<file, phys, recs>>,
         Size >= HeaderSize, Header # 0, Fits, Checksum,
         phys[Header].type \in {"full", "last"},
         out' = Append(out, Record(phys[Header].rec)), rd'.from = rd.from + End(Header)
  PROVE  \E which \in [DOMAIN out' -> DOMAIN recs] : Returned(which)'
<1> DEFINE p == Header
           r == phys[p].rec
<1>1. PICK which \in [DOMAIN out -> DOMAIN recs] : Returned(which)
  BY Zenon DEF ReaderInv
<1> DEFINE f == [i \in 1..(Len(out) + 1) |-> IF i = Len(out) + 1 THEN r ELSE which[i]]
<1>2. /\ out \in Seq(Seq(Bytes)) /\ Len(recs) \in Nat /\ DOMAIN recs = 1..Len(recs)
      /\ rd.from \in Nat /\ DOMAIN file = 1..Len(file) /\ Len(file) \in Nat
  <2>1. out \in Seq(Seq(Bytes))
    BY Zenon DEF Types
  <2> QED
    BY <2>1, Parts, ReaderParts, Zenon
<1>3. /\ p \in DOMAIN phys /\ rd.from + End(p) \in DOMAIN file
      /\ Num(rd.from + End(p)) = p /\ Off(rd.from + End(p)) = End(p) - 1
      /\ rd.from + 1 \in DOMAIN file /\ Num(rd.from + 1) = p
      /\ p \in Nat /\ p >= 1 /\ End(p) \in Nat /\ End(p) >= 7
  <2>1. p \in DOMAIN phys
    BY GoodFragment, Zenon
  <2>2. End(p) \in Nat /\ End(p) = 7 + phys[p].len /\ phys[p].len \in Nat
        /\ DOMAIN phys = 1..Len(phys) /\ Len(phys) \in Nat
    BY <2>1, Parts, Zenon
  <2>3. \A k \in 1..End(p) : /\ rd.from + k \in DOMAIN file
                             /\ Num(rd.from + k) = p /\ Off(rd.from + k) = k - 1
    BY GoodFragment, Zenon
  <2> HIDE DEF p
  <2>4. 1 \in 1..End(p) /\ End(p) \in 1..End(p) /\ p \in Nat /\ p >= 1 /\ End(p) >= 7
    BY <2>1, <2>2
  <2> QED
    BY <2>1, <2>2, <2>3, <2>4, Zenon
<1>4. r \in DOMAIN recs
  BY <1>3, Zenon DEF PhysInv
<1>5. /\ \A i, j \in DOMAIN out : i < j => which[i] < which[j]
      /\ \A i \in DOMAIN out : out[i] = Record(which[i])
      /\ out # <<>> => which[Len(out)] < r
  <2>1. rd.from + 1 > rd.from /\ Num(rd.from + 1) >= 1
    BY <1>2, <1>3
  <2> QED
    BY <1>1, <1>3, <2>1, Zenon DEF Returned
<1>6. /\ Len(out) \in Nat /\ DOMAIN out = 1..Len(out) /\ DOMAIN out' = 1..(Len(out) + 1)
      /\ Len(out') = Len(out) + 1 /\ out' # <<>>
      /\ \A i \in DOMAIN out : out'[i] = out[i]
      /\ out'[Len(out) + 1] = Record(r)
  BY <1>2
<1>7. ASSUME NEW j \in DOMAIN file, j > rd.from + End(p), Num(j) >= 1
      PROVE  r < phys[Num(j)].rec
  <2>1. Num(j) \in DOMAIN phys /\ Off(j) < End(Num(j))
    BY <1>7, Zenon DEF FileInv
  <2>2. Num(j) \in Int /\ Off(j) \in Nat
    BY Parts, Zenon
  <2>3. rd.from + End(p) < j /\ Num(rd.from + End(p)) >= 1
    BY <1>2, <1>3, <1>7, Zenon
  <2> DEFINE e == rd.from + End(p)
  <2>4. e \in DOMAIN file /\ e < j /\ Num(e) >= 1 /\ Num(e) = p /\ Off(e) = End(p) - 1
    BY <1>3, <2>3, Zenon
  <2> HIDE DEF e
  <2>5. Num(e) < Num(j) \/ (Num(e) = Num(j) /\ Off(e) < Off(j))
    BY <1>7, <2>4, Zenon DEF FileInv
  <2>6. p < Num(j)
    BY <1>3, <2>1, <2>2, <2>4, <2>5
  <2> QED
    BY <1>3, <2>1, <2>6, Zenon DEF PhysInv
<1> HIDE DEF p, r
<1>8. f \in [DOMAIN out' -> DOMAIN recs]
  BY <1>4, <1>6
<1>9. \A i, j \in DOMAIN out' : i < j => f[i] < f[j]
  <2> SUFFICES ASSUME NEW i \in DOMAIN out', NEW j \in DOMAIN out', i < j
               PROVE  f[i] < f[j]
    BY Zenon
  <2>1. i \in DOMAIN out /\ f[i] = which[i] /\ which[i] \in Int
    BY <1>2, <1>6
  <2>2. CASE j \in DOMAIN out
    BY <1>5, <1>6, <2>1, <2>2
  <2>3. CASE j = Len(out) + 1
    <3>1. f[j] = r /\ r \in Int
      BY <1>2, <1>4, <1>6, <2>3
    <3>2. Len(out) \in DOMAIN out /\ (i = Len(out) \/ i < Len(out))
      BY <1>6, <2>1
    <3>3. which[Len(out)] \in Int /\ which[Len(out)] < r
      <4>1. which[Len(out)] \in DOMAIN recs /\ \A u \in DOMAIN recs : u \in Int
        BY <1>2, <3>2
      <4>2. out # <<>>
        BY <2>1
      <4> QED
        BY <1>5, <4>1, <4>2, Zenon
    <3>4. which[i] = which[Len(out)] \/ which[i] < which[Len(out)]
      BY <1>5, <2>1, <3>2, Zenon
    <3> QED
      BY <2>1, <3>1, <3>3, <3>4
  <2> QED
    BY <1>6, <2>2, <2>3
<1>10. \A i \in DOMAIN out' : out'[i] = Record(f[i])
  BY <1>5, <1>6
<1>11. f[Len(out')] = r
  BY <1>6
<1> HIDE DEF f
<1>12. PICK g : g = f
  BY Zenon
<1>13. Returned(g)'
  <2>1. \A j \in DOMAIN file' : j > rd'.from /\ Num(j)' >= 1 =>
          g[Len(out')] < phys'[Num(j)'].rec
    BY <1>7, <1>11, <1>12, Zenon DEF p, Num
  <2>2. \A u : Record(u)' = Record(u)
    BY Zenon DEF Record
  <2>3. \A i \in DOMAIN out' : out'[i] = Record(g[i])'
    BY <1>10, <1>12, <2>2, Zenon
  <2>4. \A i, j \in DOMAIN out' : i < j => g[i] < g[j]
    BY <1>9, <1>12, Zenon
  <2> QED
    BY <2>1, <2>3, <2>4, Zenon DEF Returned
<1> QED
  BY <1>8, <1>12, <1>13, Zenon

(* A good physical record: all cases of ReadRecord.                        *)
LEMMA ReadFragmentKeeps ==
  ASSUME LInv, ReadFragment
  PROVE  LInv'
<1> DEFINE p == phys[Header]
           r == [rd EXCEPT !.from = @ + HeaderSize + p.len]
           q == IF rd.inFrag /\ rd.scratch # <<>> THEN Drop(r, Len(rd.scratch)) ELSE r
           data == Data(p.rec, p.from, p.len)
           next == rd.from + End(Header)
<1>1. /\ Types /\ PhysInv /\ FileInv /\ ReaderInv /\ OffsetInv /\ rd.pc = "read"
      /\ Size >= HeaderSize /\ Header # 0 /\ Fits /\ Checksum
      /\ UNCHANGED <<file, phys, recs, w>>
  BY Zenon DEF LInv, ReadFragment
<1>2. /\ Header \in DOMAIN phys /\ next <= rd.end /\ rd.end <= Len(file)
      /\ \A k \in 1..End(Header) : /\ rd.from + k \in DOMAIN file
                                   /\ Num(rd.from + k) = Header /\ Off(rd.from + k) = k - 1
  BY <1>1, GoodFragment, Zenon
<1>3. /\ p.rec \in Nat /\ p.from \in Nat /\ p.len \in Nat /\ p.type \in RecordTypes
      /\ End(Header) \in Nat /\ End(Header) = 7 + p.len
  BY <1>1, <1>2, Parts, Zenon
<1>4. /\ rd \in Readers /\ rd.from \in Nat /\ rd.end \in Nat /\ rd.initial \in Nat
      /\ rd.top \in Nat /\ rd.start \in Nat /\ rd.scratch \in Seq(Bytes)
      /\ Len(rd.scratch) \in Nat /\ Size = rd.end - rd.from
  BY <1>1, ReaderParts, Zenon
<1>5. w.pc = "closed"
  <2>1. rd.pc # "off"
    BY <1>1, Zenon
  <2> QED
    BY <1>1, <2>1, Zenon DEF ReaderInv
<1>6. data \in Seq(Bytes)
  BY <1>3, DataType, Zenon
<1>7. next \in Nat /\ rd.from + HeaderSize + p.len = next /\ rd.from <= next
  <2> DEFINE l == p.len
             f == rd.from
             h == End(Header)
  <2>1. l \in Nat /\ f \in Nat /\ h \in Nat /\ h = 7 + l
    BY <1>3, <1>4, Zenon
  <2> HIDE DEF l, f, h
  <2>2. f + h \in Nat /\ f + HeaderSize + l = f + h /\ f <= f + h
    BY <2>1 DEF HeaderSize
  <2> QED
    BY <2>2, Zenon DEF l, f, h
<1>8. /\ next \in DOMAIN file /\ file[next] = <<Header, End(Header) - 1>>
      /\ End(Header) \in 1..End(Header)
  <2>1. End(Header) \in 1..End(Header)
    BY <1>3
  <2>2. next \in DOMAIN file /\ Num(next) = Header /\ Off(next) = End(Header) - 1
    BY <1>2, <2>1, Zenon
  <2>3. file[next] \in Bytes
    BY <1>1, <2>2, Parts
  <2> QED
    BY <2>1, <2>2, <2>3 DEF Num, Off, Bytes
<1> HIDE DEF p, data, next
<1>9. /\ r \in Readers /\ r.pc = "read" /\ r.initial = rd.initial /\ r.from = next
      /\ r.end = rd.end /\ r.eof = rd.eof /\ r.inFrag = rd.inFrag
      /\ r.scratch = rd.scratch /\ r.start = rd.start /\ r.last = rd.last
  BY <1>1, <1>4, <1>7, Zenon DEF Readers
<1> HIDE DEF r
<1>10. /\ q \in Readers /\ q.pc = "read" /\ q.initial = rd.initial /\ q.from = next
       /\ q.end = rd.end /\ q.eof = rd.eof /\ q.start = rd.start /\ q.last = rd.last
  <2>1. Len(rd.scratch) \in Int
    BY <1>4
  <2>2. CASE rd.inFrag /\ rd.scratch # <<>>
    BY <1>9, <2>1, <2>2, DropFacts, Zenon
  <2>3. CASE ~(rd.inFrag /\ rd.scratch # <<>>)
    BY <1>9, <2>3, Zenon
  <2> QED
    BY <2>2, <2>3, Zenon
<1> HIDE DEF q
<1> DEFINE Moved == /\ rd' \in Readers /\ rd'.pc = "read" /\ rd'.initial = rd.initial
                    /\ rd'.from = next /\ rd'.end = rd.end /\ rd'.eof = rd.eof
                    /\ rd'.top = next
<1>11. ASSUME Moved, rd'.inFrag => rd'.start >= rd.initial,
              out' # <<>> => rd'.last >= rd.initial
       PROVE  OffsetInv'
  <2> DEFINE b == SkipToInitialBlock(rd.initial)
  <2>1. ~(rd.from = b /\ rd.end = b)
    BY <1>1, <1>4 DEF HeaderSize
  <2>2. rd.end >= b + BlockSize \/ rd.eof
    BY <1>1, <2>1, Zenon DEF OffsetInv
  <2>3. rd'.top = rd'.from
    BY <1>11, Zenon
  <2>4. rd'.from >= rd'.initial => rd'.top >= rd'.initial
    BY <2>3, Zenon
  <2> HIDE DEF b
  <2>5. /\ rd'.end >= SkipToInitialBlock(rd'.initial) + BlockSize \/ rd'.eof
        /\ rd'.inFrag => rd'.start >= rd'.initial
    BY <1>11, <2>2, Zenon DEF b
  <2>6. SkippedOnce'
    BY <1>11, Zenon DEF SkippedOnce
  <2> QED
    BY <2>3, <2>4, <2>5, <2>6, Zenon DEF OffsetInv
<1>12. ASSUME Moved
       PROVE  /\ rd'.pc # "off" /\ rd.from <= rd'.from /\ rd'.from <= rd'.end
              /\ rd'.from < rd'.end => rd'.end <= Len(file)
  BY <1>2, <1>7, <1>12, Zenon
<1>13. /\ out # <<>> => rd.last >= rd.initial
       /\ rd.inFrag => rd.start >= rd.initial
       /\ ~(rd.from < rd.initial) => rd.top >= rd.initial
  <2>1. ~(rd.from < rd.initial) => rd.from >= rd.initial
    BY <1>4
  <2> QED
    BY <1>1, <2>1, Zenon DEF OffsetInv, SkippedOnce
(* A step that returns no record.                                          *)
<1>14. ASSUME Moved, out' = out, rd'.last = rd.last, rd'.inFrag => rd'.start >= rd.initial,
              rd'.inFrag => \E u \in DOMAIN phys : \E e \in DOMAIN file : Partly(u, e)'
       PROVE  LInv'
  <2>1. OffsetInv'
    BY <1>11, <1>13, <1>14, Zenon
  <2>2. UNCHANGED <<file, phys, recs, w, out>>
    BY <1>1, <1>14, Zenon
  <2> QED
    BY <1>5, <1>12, <1>14, <2>1, <2>2, ReaderGoesOn, Zenon
(* A step that returns one.                                                *)
<1>15. ASSUME Moved, NEW x, out' = Append(out, x), x = Record(p.rec), x \in Seq(Bytes),
              p.type \in {"full", "last"}, ~rd'.inFrag, rd'.last >= rd.initial
       PROVE  LInv'
  <2>1. OffsetInv'
    BY <1>11, <1>15, Zenon
  <2>2. \E which \in [DOMAIN out' -> DOMAIN recs] : Returned(which)'
    <3>1. /\ UNCHANGED <<file, phys, recs>> /\ phys[Header].type \in {"full", "last"}
          /\ out' = Append(out, Record(phys[Header].rec)) /\ rd'.from = rd.from + End(Header)
      BY <1>1, <1>15, Zenon DEF p, next
    <3> QED
      BY <1>1, <3>1, ReturnKeeps, Zenon
  <2>3. out' \in Seq(Seq(Bytes))
    <3>1. out \in Seq(Seq(Bytes))
      BY <1>1, Zenon DEF Types
    <3> QED
      BY <1>15, <3>1
  <2> QED
    BY <1>1, <1>5, <1>12, <1>15, <2>1, <2>2, <2>3, ReaderStep, Zenon
<1>16. CASE rd' = BadRecord(r) /\ UNCHANGED out
  <2>1. Moved /\ out' = out /\ rd'.last = rd.last /\ ~rd'.inFrag
    BY <1>9, <1>16, BadRecordFacts, Zenon
  <2> QED
    BY <1>14, <2>1, Zenon
<1>17. CASE /\ ~(rd.from < rd.initial) /\ p.type = "full"
            /\ Return(q, data, rd.top)
  <2>1. Moved /\ ~rd'.inFrag /\ rd'.last = rd.top /\ out' = Append(out, data)
    <3>1. <<>> \in Seq(Bytes)
      OBVIOUS
    <3>2. rd' = [q EXCEPT !.scratch = <<>>, !.inFrag = FALSE, !.last = rd.top, !.top = q.from]
      BY <1>17, Zenon DEF Return
    <3>3. out' = Append(out, data)
      BY <1>17, Zenon DEF Return
    <3> QED
      BY <1>4, <1>7, <1>10, <3>1, <3>2, <3>3, Zenon DEF Readers
  <2>2. data = Record(p.rec)
    <3>1. p.from = 0 /\ p.from + p.len = recs[p.rec].size
      BY <1>1, <1>2, <1>17, Zenon DEF p, PhysInv
    <3>2. p.len = recs[p.rec].size
      BY <1>3, <3>1
    <3> QED
      BY <3>1, <3>2, Zenon DEF data, Record
  <2>3. p.type \in {"full", "last"}
    BY <1>17, Zenon
  <2> QED
    BY <1>6, <1>13, <1>15, <1>17, <2>1, <2>2, <2>3, Zenon
<1>18. CASE /\ ~(rd.from < rd.initial) /\ p.type = "first" /\ UNCHANGED out
            /\ rd' = [q EXCEPT !.scratch = data, !.inFrag = TRUE, !.start = rd.top,
                               !.top = r.from]
  <2>1. /\ Moved /\ rd'.inFrag /\ rd'.start = rd.top /\ rd'.last = rd.last /\ rd'.scratch = data
    BY <1>4, <1>6, <1>7, <1>9, <1>10, <1>18, Zenon DEF Readers
  <2>2. \E u \in DOMAIN phys : \E e \in DOMAIN file : Partly(u, e)'
    <3>1. p.from = 0 /\ p.from + p.len = p.len /\ phys[Header].type \in {"first", "middle"}
      <4>1. p.from = 0
        BY <1>1, <1>2, <1>18, Zenon DEF p, PhysInv
      <4> QED
        BY <1>3, <1>18, <4>1 DEF p
    <3>2. rd'.scratch = Data(p.rec, 0, p.from + p.len)
      BY <2>1, <3>1, Zenon DEF data
    <3>3. PICK h, n : h = Header /\ n = next
      BY Zenon
    <3>4. Partly(h, n)'
      BY <1>1, <1>8, <2>1, <3>1, <3>2, <3>3, Zenon DEF Partly, p, End
    <3> QED
      BY <1>2, <1>8, <3>3, <3>4, Zenon
  <2> QED
    BY <1>13, <1>14, <1>18, <2>1, <2>2, Zenon
<1>19. CASE /\ p.type \in {"middle", "last"} /\ ~rd.inFrag /\ UNCHANGED out
            /\ rd' = [Drop(r, p.len) EXCEPT !.top = r.from]
  <2> DEFINE d == Drop(r, p.len)
  <2>1. p.len \in Int
    BY <1>3
  <2>2. /\ d \in Readers /\ d.pc = "read" /\ d.initial = rd.initial /\ d.from = next
        /\ d.end = rd.end /\ d.eof = rd.eof /\ d.inFrag = rd.inFrag /\ d.last = rd.last
    BY <1>9, <2>1, DropFacts, Zenon
  <2> HIDE DEF d
  <2>3. Moved /\ ~rd'.inFrag /\ rd'.last = rd.last /\ out' = out
    <3>1. rd' = [d EXCEPT !.top = next] /\ out' = out
      BY <1>9, <1>19, Zenon DEF d
    <3> QED
      BY <1>7, <1>19, <2>2, <3>1, Zenon DEF Readers
  <2> QED
    BY <1>14, <2>3, Zenon
(* The fragments so far and this one are the beginning of its record.      *)
<1>20. ASSUME p.type \in {"middle", "last"}, rd.inFrag
       PROVE  rd.scratch \o data = Data(p.rec, 0, p.from + p.len)
  <2>1. PICK u \in DOMAIN phys, e \in DOMAIN file : Partly(u, e)
    BY <1>1, <1>20, Zenon DEF ReaderInv
  <2>2. phys[Header].type \in {"middle", "last"}
    BY <1>20, Zenon DEF p
  <2>3. u = Header - 1
    BY <1>1, <2>1, <2>2, FragmentFollows, Zenon
  <2>4. p.rec = phys[u].rec /\ p.from = phys[u].from + phys[u].len
    BY <1>1, <1>2, <2>2, <2>3, Zenon DEF p, PhysInv
  <2>5. rd.scratch = Data(p.rec, 0, p.from)
    BY <2>1, <2>4, Zenon DEF Partly
  <2> QED
    BY <1>3, <2>5, DataJoin, Zenon DEF data
<1>21. CASE /\ p.type = "middle" /\ rd.inFrag /\ UNCHANGED out
            /\ rd' = [r EXCEPT !.scratch = @ \o data, !.top = r.from]
  <2>1. r.scratch \o data \in Seq(Bytes) /\ p.type \in {"middle", "last"}
    BY <1>4, <1>6, <1>9, <1>21
  <2>2. /\ Moved /\ rd'.inFrag /\ rd'.start = rd.start /\ rd'.last = rd.last
        /\ rd'.scratch = rd.scratch \o data
    BY <1>7, <1>9, <1>21, <2>1, Zenon DEF Readers
  <2>3. \E u \in DOMAIN phys : \E e \in DOMAIN file : Partly(u, e)'
    <3>1. rd'.scratch = Data(p.rec, 0, p.from + p.len)
      BY <1>20, <1>21, <2>1, <2>2, Zenon
    <3>2. phys[Header].type \in {"first", "middle"}
      BY <1>21, Zenon DEF p
    <3>3. PICK h, n : h = Header /\ n = next
      BY Zenon
    <3>4. Partly(h, n)'
      BY <1>1, <1>8, <2>2, <3>1, <3>2, <3>3, Zenon DEF Partly, p, End
    <3> QED
      BY <1>2, <1>8, <3>3, <3>4, Zenon
  <2> QED
    BY <1>13, <1>14, <1>21, <2>2, <2>3, Zenon
<1>22. CASE p.type = "last" /\ rd.inFrag /\ Return(r, rd.scratch \o data, rd.start)
  <2> DEFINE x == rd.scratch \o data
  <2>1. x \in Seq(Bytes) /\ <<>> \in Seq(Bytes)
    BY <1>4, <1>6
  <2>2. p.type \in {"middle", "last"} /\ p.type \in {"full", "last"}
    BY <1>22, Zenon
  <2>3. x = Record(p.rec)
    <3>1. x = Data(p.rec, 0, p.from + p.len)
      BY <1>20, <1>22, <2>2, Zenon
    <3>2. p.from + p.len = recs[p.rec].size
      BY <1>1, <1>2, <2>2, Zenon DEF p, PhysInv
    <3> QED
      BY <3>1, <3>2, Zenon DEF Record
  <2>4. out' = Append(out, x)
    BY <1>22, Zenon DEF Return
  <2> HIDE DEF x
  <2>5. Moved /\ ~rd'.inFrag /\ rd'.last = rd.start
    <3>1. rd' = [r EXCEPT !.scratch = <<>>, !.inFrag = FALSE, !.last = rd.start, !.top = next]
      BY <1>9, <1>22, Zenon DEF Return
    <3> QED
      BY <1>4, <1>7, <1>9, <2>1, <3>1, Zenon DEF Readers
  <2> QED
    BY <1>13, <1>15, <1>22, <2>1, <2>2, <2>3, <2>4, <2>5, Zenon
<1> QED
  BY <1>16, <1>17, <1>18, <1>19, <1>21, <1>22, Zenon DEF ReadFragment, p, r, q, data

----------------------------------------------------------------------------
(* The theorems.                                                           *)

LEMMA LogNext ==
  LInv /\ [Next]_vars => LInv'
<1>1. ASSUME LInv, UNCHANGED vars PROVE LInv'
  <2>1. /\ Types /\ PhysInv /\ FileInv /\ WriterInv /\ ReaderInv /\ OffsetInv
        /\ file' = file /\ phys' = phys /\ recs' = recs /\ w' = w /\ rd' = rd /\ out' = out
    BY <1>1, Zenon DEF LInv, vars
  <2>2. Types' /\ PhysInv'
    BY <2>1, Zenon DEF Types, PhysInv
  <2>3. \A p : Written(p)' = Written(p)
    BY <2>1, Zenon DEF Written, Slot, End, Num
  <2>4. FileInv' /\ WriterInv'
    BY <2>1, <2>3 DEF FileInv, WriterInv, Num, Off, End
  <2>5. /\ \A q, e : Partly(q, e)' = Partly(q, e)
        /\ \A which : Returned(which)' = Returned(which)
    BY <2>1, Zenon DEF Partly, Returned, Record, Num, End, Size
  <2>6. ReaderInv' /\ OffsetInv'
    BY <2>1, <2>5, Zenon DEF ReaderInv, OffsetInv, SkippedOnce, Size
  <2> QED
    BY <2>2, <2>4, <2>6, Zenon DEF LInv
<1>2. ASSUME LInv, Next PROVE LInv'
  BY <1>2, AddRecordKeeps, TrailerKeeps, EmitKeeps, CrashKeeps, CloseKeeps,
     CorruptKeeps,
     OpenKeeps, RefillKeeps, ReadEofKeeps, ReadBadKeeps, ReadFragmentKeeps, Zenon
     DEF Next, ReadStep
<1> QED
  BY <1>1, <1>2, Zenon

(* The files and the program counters of log::Writer and log::Reader have  *)
(* the values they should; no fragment is longer than a block, and the     *)
(* reader's buffer never ends before it begins.                            *)
THEOREM TypeCorrect == Spec => []TypeOK
<1>1. LInv => TypeOK
  <2> SUFFICES ASSUME LInv PROVE TypeOK
    BY Zenon
  <2>1. Types /\ PhysInv
    BY Zenon DEF LInv
  <2>2. \A i \in DOMAIN phys : /\ phys[i].type \in RecordTypes
                               /\ phys[i].len <= BlockSize - HeaderSize
    BY <2>1, Parts, Zenon DEF PhysInv
  <2>3. /\ rd.pc \in {"off", "read", "done"} /\ rd.inFrag \in BOOLEAN
        /\ rd.dropped \in BOOLEAN
    BY <2>1, Zenon DEF Types, Readers
  <2>4. rd.from \in 0..rd.end
    BY <2>1, ReaderParts
  <2> QED
    BY <2>1, <2>2, <2>3, <2>4, Parts, Zenon DEF TypeOK
<1> QED
  BY <1>1, LogInit, LogNext, PTL DEF Spec

(* For every block size, every number of records and of faults: whatever   *)
(* failed appends, crashes, damaged bytes and failed reads did to a log,   *)
(* log::Reader::ReadRecord returns only records that AddRecord was given,  *)
(* each as it was and in the order they were written.                      *)
THEOREM RecordsNeverGlued == Spec => []NeverGlued
<1>1. LInv => NeverGlued
  BY Zenon DEF LInv, ReaderInv, Returned, NeverGlued
<1> QED
  BY <1>1, LogInit, LogNext, PTL DEF Spec

(* log::Reader skips to its initial offset on the first call of ReadRecord *)
(* only: the record it returned last begins at or after initial_offset_.   *)
THEOREM OffsetSkippedOnce == Spec => []SkippedOnce
<1>1. LInv => SkippedOnce
  BY Zenon DEF LInv, OffsetInv
<1> QED
  BY <1>1, LogInit, LogNext, PTL DEF Spec

=============================================================================
