----------------------------- MODULE MCIterators -----------------------------
(* Small databases for TLC.  Three entries were written, to two user keys  *)
(* in every way, or to three different ones.  The newest are still in the  *)
(* memtable, the others in one table, cut into blocks in every way, or in  *)
(* two tables; at most one block is unreadable.                            *)
EXTENDS Iterators

Written == {w \in [1..3 -> UserKeys \X Types] :
              LET keys == {w[s][1] : s \in 1..3}
              IN  Cardinality(keys) = 3 \/ keys \subseteq {2, 4}}
EntriesOf(w, S) == {[k |-> w[s][1], s |-> s, t |-> w[s][2]] : s \in S}

(* A sorted sequence cut before each of the given places.                  *)
Cut(seq, places) ==
  LET ends == SetToSortSeq(places \cup {Len(seq) + 1}, <)
  IN  [j \in 1..Len(ends) |-> SubSeq(seq, IF j = 1 THEN 1 ELSE ends[j - 1], ends[j] - 1)]
Tables(w, S) ==
  LET seq == SetToSortSeq(EntriesOf(w, S), Less)
  IN  {Cut(seq, places) : places \in SUBSET (2..Len(seq))}

(* Bad blocks and snapshots for given contents.                            *)
Read(mem, tabs) ==
  {[mem |-> mem, tabs |-> tabs, last |-> 3, bad |-> {}, snap |-> snap, short |-> snap = 2] :
     snap \in 2..3}
  \cup {[mem |-> mem, tabs |-> tabs, last |-> 3, bad |-> {b}, snap |-> 3, short |-> TRUE] :
          b \in UNION {{n} \X DOMAIN tabs[n] : n \in DOMAIN tabs}}

SmallLayouts ==
  UNION {UNION {Read(EntriesOf(w, (n + 1)..3), <<tab>>) : tab \in Tables(w, 1..n)} :
           w \in Written, n \in 1..3}
  \cup UNION {Read(EntriesOf(w, {3}),
                   << <<SetToSeq(EntriesOf(w, {2}))>>, <<SetToSeq(EntriesOf(w, {1}))>> >>) :
                w \in Written}

=============================================================================
