------------------------------ MODULE SkipList ------------------------------
(***************************************************************************)
(* The memtable of LevelDB (db/skiplist.h, db/memtable.cc): a skip list    *)
(* that one thread at a time fills while others read it without a lock.    *)
(*                                                                         *)
(* A node is named by the sequence number of the entry it holds, so that   *)
(* nodes are allocated in the order 1, 2, ...; 0 is head_.  The writer is  *)
(* the leader of the writer queue (module DBWrite): it adds the entries of *)
(* a batch and publishes their sequence numbers when all are in.  A load   *)
(* or a store of a link that another thread can see is a step of its own.  *)
(***************************************************************************)
EXTENDS Integers, FiniteSets

CONSTANTS
  Keys,        \* user keys
  Readers,     \* threads that read the memtable
  MaxHeight,   \* kMaxHeight
  MaxNode,     \* bound: entries added to the memtable
  MaxBatch     \* bound: entries in a batch

ASSUME KeysAssumption == Keys \subseteq Nat \ {0}
ASSUME SizeAssumption == MaxHeight \in Nat \ {0} /\ MaxNode \in Nat /\ MaxBatch \in Nat

VARIABLES
  ukey,        \* the user key of a node; 0 when the node is not allocated
  next,        \* next_: the link of each node at each level
  maxHeight,   \* max_height_
  heights,     \* the values max_height_ has had, which a reader may still see
  lastSeq,     \* the published sequence number
  wr,          \* the insertion in progress
  rd           \* the iterator of each reader and its call in progress

vars == <<ukey, next, maxHeight, heights, lastSeq, wr, rd>>

Head == 0
Nil  == -1     \* NULL
Junk == -2     \* the content of memory that has not been initialised

Nodes == 1..MaxNode
Places == {Head} \cup Nodes
Levels == 0..(MaxHeight - 1)

Insertions ==
  [pc : {"idle", "find", "height", "link", "publish", "added"},
   node : 0..MaxNode, x : Places, level : 0..MaxHeight,
   height : 0..MaxHeight, prev : [Levels -> Places \cup {Junk}]]

Calls ==
  [op : {"none", "first", "seek", "last", "next", "prev"},
   busy : BOOLEAN, x : Places, level : Levels, key : Keys \cup {0}, seq : 0..MaxNode,
   base : SUBSET Nodes, published : BOOLEAN, node : Nodes \cup {Nil}]

(* Every link and every position is one the code may hold: no thread has   *)
(* loaded a link that was never initialised and gone on from there.        *)
TypeOK ==
  /\ ukey \in [Nodes -> Keys \cup {0}]
  /\ next \in [Places -> [Levels -> Nodes \cup {Nil, Junk}]]
  /\ maxHeight \in 1..MaxHeight
  /\ heights \subseteq 1..maxHeight
  /\ lastSeq \in 0..MaxNode
  /\ wr \in Insertions
  /\ rd \in [Readers -> Calls]

----------------------------------------------------------------------------
(* InternalKeyComparator: by user key, then by decreasing sequence number. *)
Less(k1, s1, k2, s2) == k1 < k2 \/ (k1 = k2 /\ s1 > s2)

Before(m, n) == Less(ukey[m], m, ukey[n], n)

(* KeyIsAfterNode: NULL n is considered infinite.                          *)
KeyIsAfterNode(k, s, n) == n # Nil /\ Less(ukey[n], n, k, s)

(* The nodes inserted so far: those whose lowest link has been published.  *)
Inserted ==
  {n \in Nodes : \/ n < wr.node
                 \/ n = wr.node /\ wr.pc \in {"idle", "added"}
                 \/ n = wr.node /\ wr.pc \in {"link", "publish"} /\ wr.level > 0}

Init ==
  /\ ukey = [n \in Nodes |-> 0]
  /\ next = [n \in Places |-> [level \in Levels |-> IF n = Head THEN Nil ELSE Junk]]
  /\ maxHeight = 1 /\ heights = {1}
  /\ lastSeq = 0
  /\ wr = [pc |-> "idle", node |-> 0, x |-> Head, level |-> 0, height |-> 0,
           prev |-> [level \in Levels |-> Junk]]
  /\ rd = [r \in Readers |->
             [op |-> "none", busy |-> FALSE, x |-> Head, level |-> 0, key |-> 0, seq |-> 0,
              base |-> {}, published |-> FALSE, node |-> Nil]]

----------------------------------------------------------------------------
(* The writer.                                                             *)

(* MemTable::Add, for the next entry of a batch: the entry gets the next   *)
(* sequence number, and Insert starts to look for its place.               *)
Add(k) ==
  LET n == wr.node + 1
  IN  /\ wr.pc \in {"idle", "added"} /\ n <= MaxNode /\ n - lastSeq <= MaxBatch
      /\ ukey' = [ukey EXCEPT ![n] = k]
      /\ wr' = [wr EXCEPT !.pc = "find", !.node = n, !.x = Head, !.level = maxHeight - 1,
                          !.prev = [level \in Levels |-> Junk]]
      /\ UNCHANGED <<next, maxHeight, heights, lastSeq, rd>>

(* Mutant: the new entry goes after the older ones of its user key.        *)
FindAfterEqual ==
  LET n  == next[wr.x][wr.level]
      on == n # Nil /\ ukey[n] <= ukey[wr.node]
  IN  /\ wr.pc = "find"
      /\ \/ /\ on
            /\ wr' = [wr EXCEPT !.x = n]
         \/ /\ ~on /\ wr.level > 0
            /\ wr' = [wr EXCEPT !.prev[wr.level] = wr.x, !.level = @ - 1]
         \/ /\ ~on /\ wr.level = 0
            /\ wr' = [wr EXCEPT !.prev[wr.level] = wr.x, !.pc = "height"]
      /\ UNCHANGED <<ukey, next, maxHeight, heights, lastSeq, rd>>

(* One round of FindGreaterOrEqual, called to fill prev[].                 *)
Find ==
  LET n  == next[wr.x][wr.level]
      on == KeyIsAfterNode(ukey[wr.node], wr.node, n)
  IN  /\ wr.pc = "find"
      /\ \/ /\ on
            /\ wr' = [wr EXCEPT !.x = n]
         \/ /\ ~on /\ wr.level > 0
            /\ wr' = [wr EXCEPT !.prev[wr.level] = wr.x, !.level = @ - 1]
         \/ /\ ~on /\ wr.level = 0
            /\ wr' = [wr EXCEPT !.prev[wr.level] = wr.x, !.pc = "height"]
      /\ UNCHANGED <<ukey, next, maxHeight, heights, lastSeq, rd>>

(* RandomHeight; the list grows when the node is the tallest so far.       *)
(* NewNode leaves the node's links uninitialised.                          *)
PickHeight(height) ==
  /\ wr.pc = "height"
  /\ IF height > maxHeight
       THEN /\ maxHeight' = height /\ heights' = heights \cup {height}
            /\ wr' = [wr EXCEPT !.pc = "link", !.height = height, !.level = 0,
                                !.prev = [level \in Levels |->
                                  IF level \in maxHeight..(height - 1) THEN Head ELSE @[level]]]
       ELSE /\ wr' = [wr EXCEPT !.pc = "link", !.height = height, !.level = 0]
            /\ UNCHANGED <<maxHeight, heights>>
  /\ UNCHANGED <<ukey, next, lastSeq, rd>>

(* Mutant: the node is published before its link is set.                   *)
LinkLate ==
  /\ wr.pc = "link"
  /\ wr' = [wr EXCEPT !.pc = "publish"]
  /\ UNCHANGED <<ukey, next, maxHeight, heights, lastSeq, rd>>

(* x->NoBarrier_SetNext: the new node's own link.                          *)
Link ==
  /\ wr.pc = "link"
  /\ next' = [next EXCEPT ![wr.node][wr.level] = next[wr.prev[wr.level]][wr.level]]
  /\ wr' = [wr EXCEPT !.pc = "publish"]
  /\ UNCHANGED <<ukey, maxHeight, heights, lastSeq, rd>>

(* prev[i]->SetNext: readers can reach the node at this level from now on. *)
Publish ==
  /\ wr.pc = "publish"
  /\ next' = [next EXCEPT ![wr.prev[wr.level]][wr.level] = wr.node]
  /\ wr' = [wr EXCEPT !.level = @ + 1,
                      !.pc = IF wr.level + 1 < wr.height THEN "link" ELSE "added"]
  /\ UNCHANGED <<ukey, maxHeight, heights, lastSeq, rd>>

(* Mutant: the sequence number is published while the batch goes in.       *)
SetLastSequenceEarly ==
  /\ wr.pc \in {"find", "added"}
  /\ lastSeq' = wr.node
  /\ wr' = IF wr.pc = "added" THEN [wr EXCEPT !.pc = "idle"] ELSE wr
  /\ UNCHANGED <<ukey, next, maxHeight, heights, rd>>

(* DBImpl::Write, when InsertInto is done: SetLastSequence.                *)
SetLastSequence ==
  /\ wr.pc = "added"
  /\ lastSeq' = wr.node
  /\ wr' = [wr EXCEPT !.pc = "idle"]
  /\ UNCHANGED <<ukey, next, maxHeight, heights, rd>>

----------------------------------------------------------------------------
(* The readers.  base and published are history: the nodes in the list     *)
(* when the call began, and whether the sequence number sought was out     *)
(* then.                                                                   *)

Start(r, op, k, s, height) ==
  rd' = [rd EXCEPT ![r] = [op |-> op, busy |-> TRUE, x |-> Head, level |-> height - 1,
                           key |-> k, seq |-> s, base |-> Inserted,
                           published |-> s <= lastSeq, node |-> @.node]]

(* Seek, and with it MemTable::Get: the first node at or after a key.      *)
(* max_height_ is loaded without a barrier, so an old value may be seen.   *)
Seek(r, k, s) ==
  /\ ~rd[r].busy
  /\ \E height \in heights : Start(r, "seek", k, s, height)
  /\ UNCHANGED <<ukey, next, maxHeight, heights, lastSeq, wr>>

(* SeekToLast begins with FindLast.                                        *)
SeekToLast(r) ==
  /\ ~rd[r].busy
  /\ \E height \in heights : Start(r, "last", 0, 0, height)
  /\ UNCHANGED <<ukey, next, maxHeight, heights, lastSeq, wr>>

(* Prev has no link to follow: it begins with FindLessThan.                *)
Prev(r) ==
  /\ ~rd[r].busy /\ rd[r].node # Nil
  /\ \E height \in heights : Start(r, "prev", ukey[rd[r].node], rd[r].node, height)
  /\ UNCHANGED <<ukey, next, maxHeight, heights, lastSeq, wr>>

(* SeekToFirst and Next load one link.                                     *)
SeekToFirst(r) ==
  /\ ~rd[r].busy
  /\ rd' = [rd EXCEPT ![r].op = "first", ![r].base = Inserted, ![r].node = next[Head][0]]
  /\ UNCHANGED <<ukey, next, maxHeight, heights, lastSeq, wr>>

Next_(r) ==
  /\ ~rd[r].busy /\ rd[r].node # Nil
  /\ rd' = [rd EXCEPT ![r].op = "next", ![r].base = Inserted,
                      ![r].key = ukey[rd[r].node], ![r].seq = rd[r].node,
                      ![r].node = next[rd[r].node][0]]
  /\ UNCHANGED <<ukey, next, maxHeight, heights, lastSeq, wr>>

(* One round of the loop of FindGreaterOrEqual, FindLessThan and FindLast: *)
(* load a link, and go on, go down, or return.  Seek returns the next      *)
(* node, the others the last one passed; head_ stands for no node.         *)
Search(r) ==
  LET me == rd[r]
      n  == next[me.x][me.level]
      on == IF me.op = "last" THEN n # Nil ELSE KeyIsAfterNode(me.key, me.seq, n)
      found == IF me.op = "seek" THEN n ELSE IF me.x = Head THEN Nil ELSE me.x
  IN  /\ me.busy
      /\ \/ /\ on
            /\ rd' = [rd EXCEPT ![r].x = n]
         \/ /\ ~on /\ me.level > 0
            /\ rd' = [rd EXCEPT ![r].level = @ - 1]
         \/ /\ ~on /\ me.level = 0
            /\ rd' = [rd EXCEPT ![r].busy = FALSE, ![r].node = found]
      /\ UNCHANGED <<ukey, next, maxHeight, heights, lastSeq, wr>>

----------------------------------------------------------------------------
Writer ==
  \/ \E k \in Keys : Add(k)
  \/ \E height \in 1..MaxHeight : PickHeight(height)
  \/ Find \/ Link \/ Publish \/ SetLastSequence

Reader(r) ==
  \/ \E k \in Keys, s \in Nodes : Seek(r, k, s)
  \/ SeekToLast(r) \/ Prev(r) \/ SeekToFirst(r) \/ Next_(r) \/ Search(r)

Next == Writer \/ \E r \in Readers : Reader(r)

Spec == Init /\ [][Next]_vars

----------------------------------------------------------------------------
(* Where a call that returned must have ended: on the right side of the    *)
(* position or key it started from.                                        *)
RightSide(c) ==
  c.node # Nil =>
    /\ c.op = "seek" => ~Less(ukey[c.node], c.node, c.key, c.seq)
    /\ c.op = "next" => Less(c.key, c.seq, ukey[c.node], c.node)
    /\ c.op = "prev" => Less(ukey[c.node], c.node, c.key, c.seq)

(* A node the call should have stopped at before the one it returned.      *)
Missed(c, n) ==
  \/ /\ c.node = Nil \/ Before(n, c.node)
     /\ \/ c.op = "first"
        \/ c.op = "seek" /\ ~Less(ukey[n], n, c.key, c.seq)
        \/ c.op = "next" /\ Less(c.key, c.seq, ukey[n], n)
  \/ /\ c.node = Nil \/ Before(c.node, n)
     /\ \/ c.op = "last"
        \/ c.op = "prev" /\ Less(ukey[n], n, c.key, c.seq)

(* A call that runs while entries are being inserted, whatever height it   *)
(* saw, returns a node inserted by then, on the right side of its target,  *)
(* and skips none of the entries that were in the list when it began.      *)
NoneSkipped ==
  \A r \in Readers : ~rd[r].busy =>
    /\ rd[r].node = Nil \/ rd[r].node \in Inserted
    /\ RightSide(rd[r])
    /\ \A n \in rd[r].base : ~Missed(rd[r], n)

(* MemTable::Get at a published sequence number finds the newest entry of  *)
(* its key not newer than that number, however many newer entries, of its  *)
(* own key or others, are half way into the list.                          *)
SnapshotRead ==
  \A r \in Readers :
    LET me == rd[r]
        versions == {n \in 1..me.seq : ukey[n] = me.key}
    IN  ~me.busy /\ me.op = "seek" /\ me.published =>
          IF versions = {} THEN me.node # Nil => ukey[me.node] # me.key
          ELSE me.node \in versions /\ \A n \in versions : n <= me.node
=============================================================================
