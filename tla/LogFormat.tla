----------------------------- MODULE LogFormat ------------------------------
(***************************************************************************)
(* The format of log and MANIFEST files: log::Writer (db/log_writer.cc)    *)
(* cuts records into physical records that do not cross blocks, and        *)
(* log::Reader (db/log_reader.cc) puts them together again.                *)
(*                                                                         *)
(* A file is a sequence of bytes; byte <<p, o>> is the o-th byte of the    *)
(* p-th physical record that was emitted and Zero a zero byte.  A checksum *)
(* matches exactly when the bytes of a physical record are all there.      *)
(* An append may fail with part of its bytes written, after which the      *)
(* writer goes on; a crash cuts the file and may leave zero bytes that     *)
(* were allocated ahead; a byte may change on disk; a read or skip may     *)
(* fail.                                                                   *)
(***************************************************************************)
EXTENDS Integers, Sequences, FiniteSets, FiniteSetsExt, Functions

CONSTANTS
  BlockSize,   \* kBlockSize
  Sizes,       \* sizes of records
  MaxRecords,  \* bound: records written
  MaxFaults,   \* bound: failed appends, reads and skips, crashes, damaged bytes
  Tails,       \* bound: how many zero bytes a crash may leave
  Offsets      \* initial_offset_ of a reader; the database uses 0 only

HeaderSize == 7   \* kHeaderSize

ASSUME LogAssumption ==
  /\ BlockSize \in Nat /\ BlockSize > HeaderSize
  /\ Sizes \subseteq Nat /\ Tails \subseteq Nat /\ Offsets \subseteq Nat
  /\ MaxRecords \in Nat /\ MaxFaults \in Nat

VARIABLES
  file,        \* the bytes of the file
  phys,        \* physical records emitted: [type, rec, from, len]
  recs,        \* history: records given to AddRecord: [size, start, end]
  w,           \* the writer
  rd,          \* the reader
  out,         \* history: records the reader returned
  faults       \* history: kinds of faults so far

vars == <<file, phys, recs, w, rd, out, faults>>

RecordTypes == {"full", "first", "middle", "last"}
Zero == <<0, 0>>
Damaged == <<-1, 0>>
Zeros(n) == [i \in 1..n |-> Zero]

(* The data of a record, and of one of its fragments.                      *)
Data(r, from, len) == [i \in 1..len |-> <<r, from + i>>]
Record(r) == Data(r, 0, recs[r].size)

Init ==
  /\ file = <<>> /\ phys = <<>> /\ recs = <<>>
  /\ w = [pc |-> "idle", offset |-> 0, left |-> 0, begin |-> FALSE]
  /\ rd = [pc |-> "off", initial |-> 0, from |-> 0, end |-> 0, eof |-> FALSE, inFrag |-> FALSE,
           scratch |-> <<>>, top |-> 0, start |-> 0, last |-> 0, dropped |-> FALSE]
  /\ out = <<>> /\ faults = <<>>

CanFail == Len(faults) < MaxFaults
Fault(kind) == CanFail /\ faults' = Append(faults, kind)

----------------------------------------------------------------------------
(* log::Writer.                                                            *)

AddRecord(size) ==
  /\ w.pc = "idle" /\ Len(recs) < MaxRecords
  /\ w' = [w EXCEPT !.pc = "emit", !.left = size, !.begin = TRUE]
  /\ recs' = Append(recs, [size |-> size, start |-> -1, end |-> -1])
  /\ UNCHANGED <<file, phys, rd, out, faults>>

(* Too little is left of the block for a header: it is filled with zeros,  *)
(* and whether that worked is not looked at.                               *)
Trailer ==
  LET leftover == BlockSize - w.offset
  IN  /\ w.pc = "emit" /\ leftover < HeaderSize
      /\ w' = [w EXCEPT !.offset = 0]
      /\ \/ file' = file \o Zeros(leftover) /\ UNCHANGED faults
         \/ /\ leftover > 0 /\ Fault("append")
            /\ \E n \in 0..(leftover - 1) : file' = file \o Zeros(n)
      /\ UNCHANGED <<phys, recs, rd, out>>

(* Mutant: one byte of the header is forgotten.                            *)
AvailOver(offset) == BlockSize - offset - HeaderSize + 1

(* What is left of the block for data.                                     *)
Avail(offset) == BlockSize - offset - HeaderSize

(* Mutant: a fragment that fills the block is always followed by another.  *)
TypeOpen(begin, end) == IF begin THEN "first" ELSE IF end THEN "last" ELSE "middle"

Type(begin, end) ==
  IF begin THEN IF end THEN "full" ELSE "first" ELSE IF end THEN "last" ELSE "middle"

(* One round of AddRecord and EmitPhysicalRecord.  The offset moves on     *)
(* whether or not the append succeeds.                                     *)
Emit ==
  LET len == Min({w.left, Avail(w.offset)})
      r == Len(recs)
      p == [type |-> Type(w.begin, len = w.left), rec |-> r,
            from |-> recs[r].size - w.left, len |-> len]
      bytes == [i \in 1..(HeaderSize + len) |-> <<Len(phys) + 1, i - 1>>]
      next(ok) == [pc |-> IF ok /\ w.left > len THEN "emit" ELSE "idle",
                   offset |-> w.offset + HeaderSize + len,
                   left |-> w.left - len, begin |-> FALSE]
  IN  /\ w.pc = "emit" /\ Avail(w.offset) >= 0
      /\ phys' = Append(phys, p)
      /\ \/ /\ file' = file \o bytes
            /\ w' = next(TRUE)
            /\ recs' = [recs EXCEPT ![r].start = IF w.begin THEN Len(file) ELSE @,
                                    ![r].end = IF len = w.left THEN Len(file') ELSE @]
            /\ UNCHANGED faults
         \/ /\ Fault("append")
            /\ \E n \in 0..Len(bytes) : file' = file \o SubSeq(bytes, 1, n)
            /\ w' = next(FALSE)
            /\ UNCHANGED recs
      /\ UNCHANGED <<rd, out>>

(* The machine crashes: the end of the file is lost, or only allocated.    *)
Crash ==
  /\ w.pc # "closed" /\ Fault("crash")
  /\ \E n \in 0..Len(file), z \in Tails :
       /\ file' = SubSeq(file, 1, n) \o Zeros(z)
       /\ recs' = [r \in DOMAIN recs |->
                     IF recs[r].end > n THEN [recs[r] EXCEPT !.end = -1] ELSE recs[r]]
  /\ w' = [w EXCEPT !.pc = "closed"]
  /\ UNCHANGED <<phys, rd, out>>

Close ==
  /\ w.pc = "idle"
  /\ w' = [w EXCEPT !.pc = "closed"]
  /\ UNCHANGED <<file, phys, recs, rd, out, faults>>

(* The disk returns another byte than was written.                         *)
Corrupt ==
  /\ w.pc = "closed" /\ rd.pc = "off" /\ Fault("corrupt")
  /\ \E i \in DOMAIN file : file' = [file EXCEPT ![i] = Damaged]
  /\ UNCHANGED <<phys, recs, w, rd, out>>

----------------------------------------------------------------------------
(* log::Reader.  from and end are the offsets of the two ends of buffer_   *)
(* (end is end_of_buffer_offset_), top is physical_record_offset, start    *)
(* prospective_record_offset and last last_record_offset_.                 *)

(* Mutant: an offset in the trailer of a block is looked for in the block. *)
SkipToInitialBlockNear(initial) == initial - (initial % BlockSize)

SkipToInitialBlock(initial) ==
  LET inBlock == initial % BlockSize
  IN  initial - inBlock + (IF inBlock > BlockSize - 6 THEN BlockSize ELSE 0)

(* ReportDrop with n bytes, in unsigned arithmetic.                        *)
Drop(r, n) == [r EXCEPT !.dropped = @ \/ r.from - n < 0 \/ r.from - n >= r.initial]

(* The first call of ReadRecord on a file nobody writes any more.  When    *)
(* the initial block cannot be skipped to, it returns false.               *)
Open(initial) ==
  /\ w.pc = "closed" /\ rd.pc = "off"
  /\ LET b == SkipToInitialBlock(initial)
         r == [rd EXCEPT !.initial = initial, !.from = b, !.end = b, !.top = b]
     IN  \/ /\ rd' = [r EXCEPT !.pc = "read"]
            /\ UNCHANGED faults
         \/ /\ b > 0 /\ Fault("skip")
            /\ rd' = [Drop(r, b) EXCEPT !.pc = "done"]
  /\ UNCHANGED <<file, phys, recs, w, out>>

Size == rd.end - rd.from

Clear(r) == [r EXCEPT !.from = r.end]

(* The cases kEof and kBadRecord of ReadRecord.                            *)
Eof(r) == [(IF r.inFrag THEN Drop(r, Len(r.scratch)) ELSE r)
             EXCEPT !.pc = "done", !.scratch = <<>>]

(* Mutant: a bad physical record leaves the fragments before it.           *)
BadRecordKeep(r) == [r EXCEPT !.top = r.from]

BadRecord(r) == [(IF r.inFrag THEN Drop(r, Len(r.scratch)) ELSE r)
                   EXCEPT !.inFrag = FALSE, !.scratch = <<>>, !.top = r.from]

(* ReadPhysicalRecord reads the next block when no header is left.  A read *)
(* that fails may have got a part of it.                                   *)
Refill ==
  LET n == Min({BlockSize, Max({0, Len(file) - rd.end})})
  IN  /\ rd.pc = "read" /\ Size < HeaderSize /\ ~rd.eof
      /\ \/ /\ rd' = [rd EXCEPT !.from = rd.end, !.end = @ + n, !.eof = n < BlockSize]
            /\ UNCHANGED faults
         \/ /\ Fault("read")
            /\ \E got \in 0..n :
                 /\ got < BlockSize
                 /\ rd' = Eof(Drop([rd EXCEPT !.from = rd.end + got, !.end = @ + got, !.eof = TRUE],
                                  BlockSize))
      /\ UNCHANGED <<file, phys, recs, w, out>>

ReadEof ==
  /\ rd.pc = "read" /\ Size < HeaderSize /\ rd.eof
  /\ rd' = Eof(IF Size = 0 THEN rd ELSE Drop(Clear(rd), Size))
  /\ UNCHANGED <<file, phys, recs, w, out, faults>>

(* The seven bytes at the front of the buffer: the header of a physical    *)
(* record (its number), or one with type and length zero, or whatever the  *)
(* bytes there happen to say.                                              *)
HeaderBytes == SubSeq(file, rd.from + 1, rd.from + HeaderSize)
Header == LET p == HeaderBytes[1][1]
          IN  IF HeaderBytes = [i \in 1..HeaderSize |-> <<p, i - 1>>] /\ p # 0 THEN p ELSE 0
ZeroHeader == \A i \in 5..HeaderSize : HeaderBytes[i] = Zero
Fits == HeaderSize + phys[Header].len <= Size
Checksum == \A i \in 1..phys[Header].len :
              file[rd.from + HeaderSize + i] = <<Header, HeaderSize + i - 1>>

(* Mutant: a header of zeros does not end the block.                       *)
ReadBadStay ==
  /\ rd.pc = "read" /\ Size >= HeaderSize
  /\ \/ /\ Header # 0 /\ ~(Fits /\ Checksum)
        /\ rd' = BadRecord(Drop(Clear(rd), Size))
     \/ /\ Header = 0
        /\ \/ rd' = BadRecord(rd)
           \/ ~ZeroHeader /\ rd' = BadRecord(Drop(Clear(rd), Size))
  /\ UNCHANGED <<file, phys, recs, w, out, faults>>

(* Mutant: the first bad physical record ends the file.                    *)
ReadBadEnds ==
  /\ rd.pc = "read" /\ Size >= HeaderSize
  /\ ~(Header # 0 /\ Fits /\ Checksum)
  /\ rd' = Eof(Drop(Clear(rd), Size))
  /\ UNCHANGED <<file, phys, recs, w, out, faults>>

(* Bad length or checksum, or type and length zero, which is not reported: *)
(* the rest of the block is dropped.                                       *)
ReadBad ==
  /\ rd.pc = "read" /\ Size >= HeaderSize
  /\ \/ /\ Header # 0 /\ ~(Fits /\ Checksum)
        /\ rd' = BadRecord(Drop(Clear(rd), Size))
     \/ /\ Header = 0
        /\ \/ rd' = BadRecord(Clear(rd))
           \/ ~ZeroHeader /\ rd' = BadRecord(Drop(Clear(rd), Size))
  /\ UNCHANGED <<file, phys, recs, w, out, faults>>

(* ReadRecord returns a record, and is called again.                       *)
Return(r, record, start) ==
  /\ out' = Append(out, record)
  /\ rd' = [r EXCEPT !.scratch = <<>>, !.inFrag = FALSE, !.last = start, !.top = r.from]

(* A good physical record, one that begins before initial_offset_          *)
(* included, and the cases of ReadRecord.                                  *)
ReadFragment ==
  /\ rd.pc = "read" /\ Size >= HeaderSize
  /\ Header # 0 /\ Fits /\ Checksum
  /\ LET p == phys[Header]
         data == Data(p.rec, p.from, p.len)
         r == [rd EXCEPT !.from = @ + HeaderSize + p.len]
         \* "partial record without end", unless the part is empty
         q == IF rd.inFrag /\ rd.scratch # <<>> THEN Drop(r, Len(rd.scratch)) ELSE r
         early == rd.from < rd.initial
     IN  \/ /\ early
            /\ rd' = BadRecord(r) /\ UNCHANGED out
         \/ /\ ~early /\ p.type = "full"
            /\ Return(q, data, rd.top)
         \/ /\ ~early /\ p.type = "first"
            /\ rd' = [q EXCEPT !.scratch = data, !.inFrag = TRUE, !.start = rd.top,
                               !.top = r.from]
            /\ UNCHANGED out
         \/ /\ ~early /\ p.type \in {"middle", "last"} /\ ~rd.inFrag
            /\ rd' = [Drop(r, p.len) EXCEPT !.top = r.from] /\ UNCHANGED out
         \/ /\ ~early /\ p.type = "middle" /\ rd.inFrag
            /\ rd' = [r EXCEPT !.scratch = @ \o data, !.top = r.from] /\ UNCHANGED out
         \/ /\ ~early /\ p.type = "last" /\ rd.inFrag
            /\ Return(r, rd.scratch \o data, rd.start)
  /\ UNCHANGED <<file, phys, recs, w, faults>>

ReadStep == Refill \/ ReadEof \/ ReadBad \/ ReadFragment

(* Offsets other than zero are tried on files without faults.              *)
Next ==
  \/ \E size \in Sizes : AddRecord(size)
  \/ Trailer \/ Emit \/ Crash \/ Close \/ Corrupt
  \/ \E initial \in Offsets : (initial = 0 \/ faults = <<>>) /\ Open(initial)
  \/ ReadStep

(* A reader is a loop of its caller's thread.                              *)
Spec == Init /\ [][Next]_vars /\ WF_vars(ReadStep)

----------------------------------------------------------------------------
(* Properties.                                                             *)

TypeOK ==
  /\ w.pc \in {"idle", "emit", "closed"} /\ w.offset \in 0..BlockSize /\ w.left \in Nat
  /\ \A i \in DOMAIN phys : phys[i].type \in RecordTypes /\ phys[i].len <= BlockSize - HeaderSize
  /\ rd.pc \in {"off", "read", "done"} /\ rd.from \in 0..rd.end
  /\ rd.inFrag \in BOOLEAN /\ rd.dropped \in BOOLEAN

Faulty(kind) == kind \in Range(faults)

(* The data of some of the records, in the order they were written.        *)
Records(S) ==
  LET ith(i) == CHOOSE r \in S : Cardinality({s \in S : s < r}) = i - 1
  IN  [i \in 1..Cardinality(S) |-> Record(ith(i))]
Whole == {r \in DOMAIN recs : recs[r].end # -1 /\ recs[r].start >= rd.initial}

(* While no append has failed, a reader returns exactly the records that   *)
(* are whole in the file and begin at or after its initial offset, however *)
(* the file was cut by a crash; without a fault it reports nothing, and    *)
(* what a failed read loses is reported, both for a reader that begins at  *)
(* offset zero, as the database's do.                                      *)
WholeRecordsRead ==
  rd.pc = "done" /\ ~Faulty("append") /\ ~Faulty("corrupt") =>
    IF Faulty("read") \/ Faulty("skip")
    THEN /\ Len(out) <= Cardinality(Whole)
         /\ out = SubSeq(Records(Whole), 1, Len(out))
         /\ rd.initial = 0 => rd.dropped
    ELSE out = Records(Whole) /\ (faults = <<>> /\ rd.initial = 0 => ~rd.dropped)

(* A damaged byte costs no record that has nothing in the byte's block:    *)
(* the reader goes on at the next block.                                   *)
DamageContained ==
  LET blocks == {(i - 1) \div BlockSize : i \in {i \in DOMAIN file : file[i] = Damaged}}
      spared == {r \in Whole : \A b \in blocks :
                   recs[r].start >= (b + 1) * BlockSize \/ recs[r].end <= b * BlockSize}
  IN  rd.pc = "done" /\ Range(faults) \subseteq {"corrupt", "crash"} =>
        \E S \in SUBSET DOMAIN recs : spared \subseteq S /\ out = Records(S)

(* Whatever failed, a record that is returned was given to AddRecord as it *)
(* is, and the records come in the order they were written: fragments of   *)
(* different records are never put together, nor is one left out.          *)
NeverGlued ==
  \E which \in [DOMAIN out -> DOMAIN recs] :
    /\ \A i, j \in DOMAIN out : i < j => which[i] < which[j]
    /\ \A i \in DOMAIN out : out[i] = Record(which[i])

(* The initial offset is skipped to once: after the first record was       *)
(* returned, ReadRecord never finds last_record_offset_ < initial_offset_. *)
SkippedOnce == out # <<>> => rd.last >= rd.initial

(* A reader comes to the end of every file, whatever is in it.             *)
ReaderEnds == rd.pc = "read" ~> rd.pc = "done"

=============================================================================
