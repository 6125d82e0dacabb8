----------------------------- MODULE Iterators ------------------------------
(***************************************************************************)
(* Reading a database in key order: DBIter (db/db_iter.cc) over a merging  *)
(* iterator (table/merger.cc) whose children are the iterator of the       *)
(* memtable and one two-level iterator (table/two_level_iterator.cc) for   *)
(* each table, over the table's index block and data blocks                *)
(* (table/block.cc).                                                       *)
(*                                                                         *)
(* The caller moves the iterator as it likes while the writer inserts into *)
(* the memtable between any two movements of the memtable's iterator.      *)
(* Some data blocks cannot be read.                                        *)
(***************************************************************************)
EXTENDS Integers, SequencesExt

CONSTANTS
  UserKeys,    \* even numbers, with room between them for separators
  Layouts,     \* databases an iterator may be created on:
               \* [mem, tabs, last, bad, snap, short]
  Interval,    \* block_restart_interval of data blocks
  MaxSeq       \* bound: sequence numbers given out

VARIABLES
  db,          \* the layout; mem grows
  ch,          \* the children: 0 is the memtable's
  mi,          \* the merging iterator
  it,          \* DBIter
  pos          \* the user key a cursor over the snapshot would be at; 0: none

vars == <<db, ch, mi, it, pos>>

(* An entry is [k, s, t]: user key, sequence number (also its value), type. *)
Types == {"value", "deletion"}
None == [k |-> 0, s |-> 0, t |-> "value"]

(* InternalKeyComparator: newer entries of a user key come first.          *)
Less(a, b) == a.k < b.k \/ (a.k = b.k /\ a.s > b.s)
First(S) == IF S = {} THEN None ELSE CHOOSE e \in S : \A f \in S : ~Less(f, e)
Last_(S) == IF S = {} THEN None ELSE CHOOSE e \in S : \A f \in S : ~Less(e, f)

----------------------------------------------------------------------------
(* Block::Iter over the keys of a block, with a restart point at every     *)
(* r-th: current_ and the offset of the next entry count entries, and the  *)
(* length of the block stands for restarts_.                               *)

NumRestarts(b) == Max({1, (Len(b.keys) + b.r - 1) \div b.r})
Invalid(b) == [cur |-> Len(b.keys), next |-> Len(b.keys), ri |-> NumRestarts(b)]
AtRestart(b, i) == [cur |-> Len(b.keys), next |-> i * b.r, ri |-> i]
BValid(b, i) == i.cur < Len(b.keys)
BKey(b, i) == b.keys[i.cur + 1]

(* ParseNextKey.                                                           *)
ParseNextKey(b, i) ==
  IF i.next >= Len(b.keys) THEN [i EXCEPT !.cur = Len(b.keys), !.ri = NumRestarts(b)]
  ELSE [cur |-> i.next, next |-> i.next + 1,
        ri |-> Max({i.ri} \cup {j \in i.ri..(NumRestarts(b) - 1) : j * b.r < i.next})]

(* while (ParseNextKey() && NextEntryOffset() < limit)                     *)
RECURSIVE ParseTo(_, _, _)
ParseTo(b, i, limit) ==
  LET j == ParseNextKey(b, i)
  IN  IF BValid(b, j) /\ j.next < limit THEN ParseTo(b, j, limit) ELSE j

RECURSIVE ParseFrom(_, _, _)
ParseFrom(b, i, target) ==
  LET j == ParseNextKey(b, i)
  IN  IF BValid(b, j) /\ Less(BKey(b, j), target) THEN ParseFrom(b, j, target) ELSE j

(* The last restart point with a key < target, by bisection.               *)
RECURSIVE Bisect(_, _, _, _)
Bisect(b, target, left, right) ==
  LET mid == (left + right + 1) \div 2
  IN  IF left >= right THEN left
      ELSE IF Less(b.keys[mid * b.r + 1], target) THEN Bisect(b, target, mid, right)
      ELSE Bisect(b, target, left, mid - 1)

BSeek(b, target) == ParseFrom(b, AtRestart(b, Bisect(b, target, 0, NumRestarts(b) - 1)), target)
BSeekToFirst(b) == ParseNextKey(b, AtRestart(b, 0))
BSeekToLast(b) == ParseTo(b, AtRestart(b, NumRestarts(b) - 1), Len(b.keys))

(* Prev: back to a restart point before current_, then forward again.      *)
BPrev(b, i) ==
  LET before == {j \in 0..i.ri : j * b.r < i.cur}
  IN  IF before = {} THEN Invalid(b)
      ELSE ParseTo(b, AtRestart(b, Max(before)), i.cur)

----------------------------------------------------------------------------
(* TwoLevelIterator over table n: ix is the index iterator, blk the data   *)
(* block that d iterates over (0: no data iterator), ok whether status_ is.*)

DataBlock(n, j) == [keys |-> db.tabs[n][j], r |-> Interval]

(* The index key of a block: its last key, or a separator shorter than it  *)
(* and below the next block.                                               *)
IndexBlock(n) ==
  LET tab == db.tabs[n]
      key(j) == IF db.short /\ (j = Len(tab) \/ Last(tab[j]).k < Head(tab[j + 1]).k)
                THEN [k |-> Last(tab[j]).k + 1, s |-> MaxSeq + 1]
                ELSE [k |-> Last(tab[j]).k, s |-> Last(tab[j]).s]
  IN  [keys |-> [j \in 1..Len(tab) |-> key(j)], r |-> 1]

(* BlockReader gives an iterator with an error for an unreadable block.    *)
Unreadable(n, x) == x.blk # 0 /\ <<n, x.blk>> \in db.bad
TValid(n, x) == x.blk # 0 /\ ~Unreadable(n, x) /\ BValid(DataBlock(n, x.blk), x.d)
TStatus(n, x) == x.ok /\ ~Unreadable(n, x)

(* Mutant: the error of a data iterator that is dropped is not kept.       *)
SetDataIteratorForget(n, x, j) ==
  [x EXCEPT !.blk = j, !.d = IF j = 0 THEN 0 ELSE Invalid(DataBlock(n, j))]

SetDataIterator(n, x, j) ==
  [x EXCEPT !.ok = TStatus(n, x), !.blk = j,
            !.d = IF j = 0 THEN 0 ELSE Invalid(DataBlock(n, j))]

InitDataBlock(n, x) ==
  LET ib == IndexBlock(n)
      j == IF BValid(ib, x.ix) THEN x.ix.cur + 1 ELSE 0
  IN  IF j # 0 /\ x.blk = j THEN x ELSE SetDataIterator(n, x, j)

(* The data iterator, if there is one, is moved.                           *)
Move(n, x, op(_)) ==
  IF x.blk = 0 \/ Unreadable(n, x) THEN x ELSE [x EXCEPT !.d = op(DataBlock(n, x.blk))]

RECURSIVE SkipForward(_, _)
SkipForward(n, x) ==
  IF TValid(n, x) THEN x
  ELSE IF ~BValid(IndexBlock(n), x.ix) THEN SetDataIterator(n, x, 0)
  ELSE LET y == [x EXCEPT !.ix = ParseNextKey(IndexBlock(n), x.ix)]
       IN  SkipForward(n, Move(n, InitDataBlock(n, y), BSeekToFirst))

RECURSIVE SkipBackward(_, _)
SkipBackward(n, x) ==
  IF TValid(n, x) THEN x
  ELSE IF ~BValid(IndexBlock(n), x.ix) THEN SetDataIterator(n, x, 0)
  ELSE LET y == [x EXCEPT !.ix = BPrev(IndexBlock(n), x.ix)]
       IN  SkipBackward(n, Move(n, InitDataBlock(n, y), BSeekToLast))

TSeek(n, x, target) ==
  LET y == InitDataBlock(n, [x EXCEPT !.ix = BSeek(IndexBlock(n), target)])
  IN  SkipForward(n, Move(n, y, LAMBDA b : BSeek(b, target)))
TSeekToFirst(n, x) ==
  LET y == InitDataBlock(n, [x EXCEPT !.ix = BSeekToFirst(IndexBlock(n))])
  IN  SkipForward(n, Move(n, y, BSeekToFirst))
TSeekToLast(n, x) ==
  LET y == InitDataBlock(n, [x EXCEPT !.ix = BSeekToLast(IndexBlock(n))])
  IN  SkipBackward(n, Move(n, y, BSeekToLast))
TNext(n, x) == SkipForward(n, Move(n, x, LAMBDA b : ParseNextKey(b, x.d)))
TPrev(n, x) == SkipBackward(n, Move(n, x, LAMBDA b : BPrev(b, x.d)))

----------------------------------------------------------------------------
(* A child: the memtable's iterator is the entry it is at (SkipList), the  *)
(* others are two-level iterators.                                         *)

Valid(i, x) == IF i = 0 THEN x # None ELSE TValid(i, x)
Key(i, x) == IF i = 0 THEN x ELSE BKey(DataBlock(i, x.blk), x.d)
Seek(i, x, target) ==
  IF i = 0 THEN First({e \in db.mem : ~Less(e, target)}) ELSE TSeek(i, x, target)
SeekToFirst(i, x) == IF i = 0 THEN First(db.mem) ELSE TSeekToFirst(i, x)
SeekToLast(i, x) == IF i = 0 THEN Last_(db.mem) ELSE TSeekToLast(i, x)
Next_(i, x) == IF i = 0 THEN First({e \in db.mem : Less(x, e)}) ELSE TNext(i, x)
Prev_(i, x) == IF i = 0 THEN Last_({e \in db.mem : Less(e, x)}) ELSE TPrev(i, x)

(* MergingIterator: current_ (-1: NULL), direction_, and the second half   *)
(* of a change of direction that is still to be done.                      *)
Children == 0..Len(db.tabs)
Ready(c) == {i \in Children : Valid(i, c[i])}
Smallest(c) == IF Ready(c) = {} THEN -1
               ELSE CHOOSE i \in Ready(c) : \A j \in Ready(c) : ~Less(Key(j, c[j]), Key(i, c[i]))
Largest(c) == IF Ready(c) = {} THEN -1
              ELSE CHOOSE i \in Ready(c) : \A j \in Ready(c) : ~Less(Key(i, c[i]), Key(j, c[j]))
Current == Key(mi.cur, ch[mi.cur])
MValid == mi.cur # -1
Status == \A i \in Children \ {0} : TStatus(i, ch[i])

MForward(c) == ch' = c /\ mi' = [cur |-> Smallest(c), dir |-> "forward", turn |-> FALSE]
MReverse(c) == ch' = c /\ mi' = [cur |-> Largest(c), dir |-> "reverse", turn |-> FALSE]

MSeek(target) == MForward([i \in Children |-> Seek(i, ch[i], target)])
MSeekToFirst == MForward([i \in Children |-> SeekToFirst(i, ch[i])])
MSeekToLast == MReverse([i \in Children |-> SeekToLast(i, ch[i])])

(* The first half of a turn: all other children seek the current key.      *)
Turn(dir) ==
  /\ ch' = [i \in Children |-> IF i = mi.cur THEN ch[i] ELSE Seek(i, ch[i], Current)]
  /\ mi' = [mi EXCEPT !.dir = dir, !.turn = TRUE]

(* Mutant: current_ is not chosen again.                                   *)
MNextKeep == IF mi.dir = "forward"
             THEN ch' = [ch EXCEPT ![mi.cur] = Next_(mi.cur, @)] /\ UNCHANGED mi
             ELSE Turn("forward")

MNext == IF mi.dir = "forward"
         THEN MForward([ch EXCEPT ![mi.cur] = Next_(mi.cur, @)])
         ELSE Turn("forward")
MPrev == IF mi.dir = "reverse"
         THEN MReverse([ch EXCEPT ![mi.cur] = Prev_(mi.cur, @)])
         ELSE Turn("reverse")

(* The second half of a turn, and the movement it was made for.            *)
Turned ==
  /\ mi.turn
  /\ IF mi.dir = "forward"
     THEN MForward([i \in Children |->
            IF i = mi.cur \/ (Valid(i, ch[i]) /\ Key(i, ch[i]) = Current)
            THEN Next_(i, ch[i]) ELSE ch[i]])
     ELSE MReverse([i \in Children |->
            IF i = mi.cur \/ Valid(i, ch[i]) THEN Prev_(i, ch[i]) ELSE SeekToLast(i, ch[i])])
  /\ UNCHANGED <<db, it, pos>>

----------------------------------------------------------------------------
(* What a cursor over the snapshot sees.                                   *)
Entries == db.mem \cup UNION {ToSet(FlattenSeq(tab)) : tab \in ToSet(db.tabs)}
Newest(k) == First({e \in Entries : e.k = k /\ e.s <= db.snap})
Visible == {k \in UserKeys : Newest(k) # None /\ Newest(k).t = "value"}
From(S) == IF S = {} THEN 0 ELSE Min(S)
To(S) == IF S = {} THEN 0 ELSE Max(S)

(* DBIter: pc is the loop it is in; key is saved_key_ (0: cleared) and val *)
(* saved_value_; skip and type are locals of the loops.                    *)
Init ==
  /\ db \in Layouts
  /\ ch = [i \in Children |->
             IF i = 0 THEN None
             ELSE [ix |-> Invalid(IndexBlock(i)), blk |-> 0, d |-> 0, ok |-> TRUE]]
  /\ mi = [cur |-> -1, dir |-> "forward", turn |-> FALSE]
  /\ it = [pc |-> "idle", dir |-> "forward", valid |-> FALSE, key |-> 0, val |-> 0,
           skip |-> FALSE, type |-> "deletion"]
  /\ pos = 0

(* The writer inserts an entry newer than everything there is.             *)
Insert ==
  /\ db.last < MaxSeq
  /\ \E k \in UserKeys, t \in Types :
       db' = [db EXCEPT !.mem = @ \cup {[k |-> k, s |-> db.last + 1, t |-> t]},
                        !.last = @ + 1]
  /\ UNCHANGED <<ch, mi, it, pos>>

Call == it.pc = "idle" /\ UNCHANGED db

(* The loops test for a valid internal iterator before they begin.         *)
SeekCall(k) ==
  /\ Call
  /\ MSeek([k |-> k, s |-> db.snap])
  /\ it' = [it EXCEPT !.pc = "fwd", !.dir = "forward", !.val = 0, !.key = 0, !.skip = FALSE]
  /\ pos' = From({v \in Visible : v >= k})

SeekToFirstCall ==
  /\ Call
  /\ MSeekToFirst
  /\ it' = [it EXCEPT !.pc = "fwd", !.dir = "forward", !.val = 0, !.skip = FALSE]
  /\ pos' = From(Visible)

SeekToLastCall ==
  /\ Call
  /\ MSeekToLast
  /\ it' = [it EXCEPT !.pc = "rev", !.dir = "reverse", !.val = 0, !.type = "deletion"]
  /\ pos' = To(Visible)

NextCall ==
  /\ Call /\ it.valid
  /\ \/ /\ it.dir = "reverse"
        /\ IF MValid THEN MNext ELSE MSeekToFirst
        /\ it' = [it EXCEPT !.pc = "fwd", !.dir = "forward", !.skip = TRUE]
     \/ /\ it.dir = "forward"
        /\ it' = [it EXCEPT !.pc = "fwd", !.skip = TRUE, !.key = Current.k]
        /\ UNCHANGED <<ch, mi>>
  /\ pos' = From({v \in Visible : v > pos})

PrevCall ==
  /\ Call /\ it.valid
  /\ \/ /\ it.dir = "forward"
        /\ MPrev
        /\ it' = [it EXCEPT !.pc = "scan", !.key = Current.k]
     \/ /\ it.dir = "reverse"
        /\ it' = [it EXCEPT !.pc = "rev", !.type = "deletion"]
        /\ UNCHANGED <<ch, mi>>
  /\ pos' = To({v \in Visible : v < pos})

Loop(pc) == it.pc = pc /\ ~mi.turn /\ UNCHANGED <<db, pos>>
Stay == UNCHANGED <<ch, mi>>

(* One round of FindNextUserEntry.                                         *)
FindNextUserEntry ==
  /\ Loop("fwd")
  /\ LET seen == MValid /\ Current.s <= db.snap
         deleted == seen /\ Current.t = "deletion"
         hidden == it.skip /\ Current.k <= it.key
         found == seen /\ ~deleted /\ ~hidden
     IN  \/ /\ ~MValid
            /\ it' = [it EXCEPT !.pc = "idle", !.valid = FALSE, !.key = 0] /\ Stay
         \/ /\ found
            /\ it' = [it EXCEPT !.pc = "idle", !.valid = TRUE, !.key = 0] /\ Stay
         \/ /\ MValid /\ ~found
            /\ it' = IF deleted THEN [it EXCEPT !.key = Current.k, !.skip = TRUE] ELSE it
            /\ MNext

(* One round of the loop in Prev that leaves the current user key.         *)
PrevScan ==
  /\ Loop("scan")
  /\ \/ /\ ~MValid
        /\ it' = [it EXCEPT !.pc = "idle", !.valid = FALSE, !.key = 0, !.val = 0] /\ Stay
     \/ /\ MValid /\ Current.k < it.key
        /\ it' = [it EXCEPT !.pc = "rev", !.dir = "reverse", !.type = "deletion"] /\ Stay
     \/ /\ MValid /\ Current.k >= it.key
        /\ it' = it /\ MPrev

(* Mutant: the first value that is seen is taken for the newest.           *)
FindPrevUserEntryEager ==
  /\ Loop("rev")
  /\ LET seen == MValid /\ Current.s <= db.snap
     IN  \/ /\ ~MValid
            /\ it' = [it EXCEPT !.pc = "idle", !.valid = FALSE, !.key = 0, !.val = 0,
                                !.dir = "forward"] /\ Stay
         \/ /\ seen /\ Current.t = "value"
            /\ it' = [it EXCEPT !.pc = "idle", !.valid = TRUE, !.key = Current.k,
                                !.val = Current.s] /\ Stay
         \/ /\ MValid /\ ~(seen /\ Current.t = "value")
            /\ it' = it /\ MPrev

(* One round of FindPrevUserEntry.                                         *)
FindPrevUserEntry ==
  /\ Loop("rev")
  /\ LET seen == MValid /\ Current.s <= db.snap
         done == ~MValid \/ (seen /\ it.type = "value" /\ Current.k < it.key)
     IN  \/ /\ done /\ it.type = "deletion"
            /\ it' = [it EXCEPT !.pc = "idle", !.valid = FALSE, !.key = 0, !.val = 0,
                                !.dir = "forward"] /\ Stay
         \/ /\ done /\ it.type = "value"
            /\ it' = [it EXCEPT !.pc = "idle", !.valid = TRUE] /\ Stay
         \/ /\ ~done
            /\ it' = IF ~seen THEN it
                     ELSE IF Current.t = "deletion"
                     THEN [it EXCEPT !.type = "deletion", !.key = 0, !.val = 0]
                     ELSE [it EXCEPT !.type = "value", !.key = Current.k, !.val = Current.s]
            /\ MPrev

Next ==
  \/ Insert \/ Turned
  \/ \E k \in UserKeys : SeekCall(k)
  \/ SeekToFirstCall \/ SeekToLastCall \/ NextCall \/ PrevCall
  \/ FindNextUserEntry \/ PrevScan \/ FindPrevUserEntry

Spec == Init /\ [][Next]_vars

----------------------------------------------------------------------------
(* Properties.                                                             *)

TypeOK ==
  /\ ch[0] \in db.mem \cup {None}
  /\ mi \in [cur : Children \cup {-1}, dir : {"forward", "reverse"}, turn : BOOLEAN]
  /\ MValid => Valid(mi.cur, ch[mi.cur])
  /\ it.pc \in {"idle", "fwd", "scan", "rev"} /\ it.valid \in BOOLEAN
  /\ pos \in UserKeys \cup {0}

Idle == it.pc = "idle"
ItKey == IF it.dir = "forward" THEN Current.k ELSE it.key
ItValue == IF it.dir = "forward" THEN Current.s ELSE it.val

(* Whatever calls were made, in either direction, and whatever was written *)
(* meanwhile, an iterator with status OK is where a cursor over the sorted *)
(* keys of its snapshot would be, with that key's value: no key is missed, *)
(* repeated or resurrected, and an unreadable block that may hide one is   *)
(* reported by status().                                                   *)
CursorCorrect ==
  Idle /\ Status => /\ it.valid = (pos # 0)
                    /\ it.valid => ItKey = pos /\ ItValue = Newest(pos).s

(* The positions the comment on DBIter::Direction promises: forward, the   *)
(* internal iterator is at the entry of key(); backwards, it is before all *)
(* entries of key().                                                       *)
Positioned ==
  Idle /\ it.valid =>
    IF it.dir = "forward" THEN MValid /\ mi.dir = "forward"
    ELSE mi.dir = "reverse" /\ (MValid => Current.k < it.key)

=============================================================================
