--------------------------- MODULE SkipListProofs ---------------------------
(***************************************************************************)
(* Proofs about SkipList, for any keys, readers, heights and sizes: what a *)
(* reader finds while an entry is being inserted.                          *)
(*                                                                         *)
(* The invariant says what the list looks like from a place a thread may   *)
(* stand at.  At(m, i) are the places linked at level i; from each of them *)
(* the link of the level leads to a later place of the level (Sorted), and *)
(* at the lowest level no inserted node is jumped over (Adjacent).         *)
(***************************************************************************)
EXTENDS SkipList, TLAPS

(* Node m is linked at level i: a search that comes to it may follow its   *)
(* link there.                                                             *)
At(m, i) ==
  \/ m = Head
  \/ /\ m \in Inserted /\ next[m][i] # Junk
     /\ ~(m = wr.node /\ wr.pc = "publish" /\ i = wr.level)

(* Place m comes before a key; n, which may be NULL, does not.             *)
Ahead(m, k, s) == m = Head \/ Less(ukey[m], m, k, s)
NotAhead(n, k, s) == n = Nil \/ (n \in Nodes /\ ~Less(ukey[n], n, k, s))

(* Nodes are allocated in order, and their links are set from the lowest   *)
(* level up.                                                               *)
Alloc ==
  /\ \A n \in Nodes : n <= wr.node => ukey[n] \in Keys
  /\ \A n \in Nodes, i \in Levels : n > wr.node => next[n][i] = Junk
  /\ lastSeq <= wr.node
  /\ wr.pc \in {"find", "height", "link", "publish"} =>
       wr.node \in Nodes /\ lastSeq < wr.node
  /\ wr.pc \in {"find", "height"} => \A i \in Levels : next[wr.node][i] = Junk
  /\ wr.pc = "link" => \A i \in Levels : i >= wr.level => next[wr.node][i] = Junk
  /\ wr.pc = "publish" => \A i \in Levels : i > wr.level => next[wr.node][i] = Junk

Sorted ==
  \A m \in Places, i \in Levels : At(m, i) =>
    LET n == next[m][i]
    IN  n = Nil \/ (n \in Nodes /\ At(n, i) /\ Ahead(m, ukey[n], n))

Nested == \A m \in Places, i \in Levels, j \in Levels : At(m, i) /\ j < i => At(m, j)

AllAtBottom == \A n \in Inserted : At(n, 0)

Adjacent ==
  \A m \in Places, p \in Inserted :
    At(m, 0) /\ Ahead(m, ukey[p], p) => next[m][0] \in Nodes /\ ~Before(p, next[m][0])

EmptyAbove == \A i \in Levels : i >= maxHeight => next[Head][i] = Nil

(* The place prev[i] is the one the new node goes after.                   *)
PrevOk(i) ==
  /\ wr.prev[i] \in Places /\ At(wr.prev[i], i)
  /\ Ahead(wr.prev[i], ukey[wr.node], wr.node)
  /\ NotAhead(next[wr.prev[i]][i], ukey[wr.node], wr.node)

WriterOk ==
  /\ wr.pc = "find" =>
       /\ wr.level < maxHeight /\ At(wr.x, wr.level)
       /\ Ahead(wr.x, ukey[wr.node], wr.node)
       /\ \A i \in Levels : wr.level < i /\ i < maxHeight => PrevOk(i)
  /\ wr.pc = "height" => \A i \in Levels : i < maxHeight => PrevOk(i)
  /\ wr.pc \in {"link", "publish"} =>
       /\ wr.level < wr.height /\ wr.height <= maxHeight
       /\ \A i \in Levels : wr.level <= i /\ i < wr.height => PrevOk(i)
       /\ \A i \in Levels : i < wr.level => next[wr.node][i] # Junk
  /\ wr.pc = "publish" => next[wr.node][wr.level] = next[wr.prev[wr.level]][wr.level]

SearchOk(c) ==
  c.busy => /\ c.op \in {"seek", "last", "prev"}
            /\ At(c.x, c.level)
            /\ c.op # "last" => Ahead(c.x, c.key, c.seq)

ReturnOk(c) ==
  ~c.busy => RightSide(c) /\ \A n \in c.base : ~Missed(c, n)

ReaderOk(c) ==
  /\ c.base \subseteq Inserted
  /\ c.node = Nil \/ c.node \in Inserted
  /\ c.op = "seek" /\ c.published => 1..c.seq \subseteq c.base
  /\ SearchOk(c) /\ ReturnOk(c)

ListInv == Alloc /\ Sorted /\ Nested /\ AllAtBottom /\ Adjacent /\ EmptyAbove /\ WriterOk
IInv == TypeOK /\ ListInv /\ \A r \in Readers : ReaderOk(rd[r])

----------------------------------------------------------------------------
LEMMA KeyTypes ==
  ASSUME TypeOK
  PROVE  /\ \A n \in Nodes : ukey[n] \in Nat
         /\ \A r \in Readers : rd[r].key \in Nat /\ rd[r].seq \in Nat
<1>1. \A n \in Nodes : ukey[n] \in Nat
  <2>1. ukey \in [Nodes -> Keys \cup {0}]
    BY Zenon DEF TypeOK
  <2>2. \A k \in Keys \cup {0} : k \in Nat
    BY KeysAssumption
  <2> QED
    BY <2>1, <2>2, Zenon
<1>2. ASSUME NEW r \in Readers PROVE rd[r].key \in Nat /\ rd[r].seq \in Nat
  <2>1. rd[r].key \in Keys \cup {0} /\ rd[r].seq \in 0..MaxNode
    BY Zenon DEF TypeOK, Calls
  <2>2. \A k \in Keys \cup {0} : k \in Nat
    BY KeysAssumption
  <2>3. \A n \in 0..MaxNode : n \in Nat
    BY SizeAssumption
  <2> QED
    BY <2>1, <2>2, <2>3, Zenon
<1> QED
  BY <1>1, <1>2, Zenon

LEMMA InitInv == Init => IInv
<1> SUFFICES ASSUME Init PROVE IInv
  BY Zenon
<1> USE SizeAssumption, KeysAssumption DEF Head, Nil, Junk, Nodes, Places, Levels
<1>1. TypeOK
  <2>1. ukey \in [Nodes -> Keys \cup {0}] /\ lastSeq \in 0..MaxNode
    BY DEF Init
  <2>2. next \in [Places -> [Levels -> Nodes \cup {Nil, Junk}]]
    BY Zenon DEF Init
  <2>3. maxHeight \in 1..MaxHeight /\ heights \subseteq 1..maxHeight
    BY DEF Init
  <2>4. wr \in Insertions
    BY DEF Init, Insertions
  <2>5. rd \in [Readers -> Calls]
    BY DEF Init, Calls
  <2> QED
    BY <2>1, <2>2, <2>3, <2>4, <2>5, Zenon DEF TypeOK
<1>2. Inserted = {}
  BY DEF Init, Inserted
<1>3. ListInv
  <2>1. /\ \A m \in Places, i \in Levels : At(m, i) <=> m = Head
        /\ \A i \in Levels : next[Head][i] = Nil
        /\ wr.pc = "idle" /\ wr.node = 0 /\ lastSeq = 0
    BY <1>2, Zenon DEF Init, At
  <2>2. Alloc
    BY <2>1 DEF Alloc, Init
  <2>3. Sorted /\ Nested /\ EmptyAbove
    BY <2>1, Zenon DEF Sorted, Nested, EmptyAbove
  <2>4. AllAtBottom /\ Adjacent /\ WriterOk
    BY <1>2, <2>1, Zenon DEF AllAtBottom, Adjacent, WriterOk
  <2> QED
    BY <2>2, <2>3, <2>4, Zenon DEF ListInv
<1>4. \A r \in Readers : ReaderOk(rd[r])
  BY <1>2, Zenon DEF Init, ReaderOk, SearchOk, ReturnOk, RightSide
<1> QED
  BY <1>1, <1>3, <1>4, Zenon DEF IInv

(* What a reader knows stays true when a step of the writer takes no node  *)
(* and no link out of the list.                                            *)
LEMMA ReadersStay ==
  ASSUME IInv, rd' = rd,
         Inserted \subseteq Inserted',
         \A m \in Places, i \in Levels : At(m, i) => At(m, i)',
         \A n \in Inserted : ukey'[n] = ukey[n]
  PROVE  \A r \in Readers : ReaderOk(rd[r])'
<1> SUFFICES ASSUME NEW r \in Readers PROVE ReaderOk(rd[r])'
  BY Zenon
<1> DEFINE c == rd[r]
<1>1. /\ c.x \in Places /\ c.level \in Levels /\ c' = c
      /\ c.base \subseteq Inserted /\ (c.node = Nil \/ c.node \in Inserted)
      /\ SearchOk(c) /\ ReturnOk(c) /\ ReaderOk(c)
  BY Zenon DEF IInv, TypeOK, Calls, ReaderOk
<1>2. (c.x # Head /\ At(c.x, c.level)) => c.x \in Inserted
  BY Zenon DEF At
<1>3. SearchOk(c)'
  BY <1>1, <1>2, Zenon DEF SearchOk, Ahead
<1>4. ReturnOk(c)'
  <2>1. RightSide(c) => RightSide(c)'
    BY <1>1, Zenon DEF RightSide
  <2>2. \A n \in c.base : Missed(c, n)' <=> Missed(c, n)
    BY <1>1, Zenon DEF Missed, Before
  <2> QED
    BY <1>1, <2>1, <2>2, Zenon DEF ReturnOk
<1> QED
  BY <1>1, <1>3, <1>4, Zenon DEF ReaderOk

(* A step that neither adds a link nor takes a node in or out leaves the   *)
(* shape of the list as it is.                                             *)
LEMMA ShapeStays ==
  ASSUME IInv,
         Inserted' = Inserted,
         \A m \in Places, i \in Levels : At(m, i)' <=> At(m, i),
         \A m \in Places, i \in Levels : At(m, i) => next'[m][i] = next[m][i],
         \A n \in Inserted : ukey'[n] = ukey[n]
  PROVE  Sorted' /\ Nested' /\ AllAtBottom' /\ Adjacent'
<1> USE DEF IInv, ListInv
<1>1. \A m \in Places, i \in Levels : At(m, i) => m = Head \/ m \in Inserted
  BY Zenon DEF At
<1>2. Inserted \subseteq Nodes /\ 0 \in Levels /\ Nodes \subseteq Places
  BY SizeAssumption DEF Inserted, Levels, Places
<1>3. Sorted'
  <2> SUFFICES ASSUME NEW m \in Places, NEW i \in Levels, At(m, i)'
               PROVE  \/ next'[m][i] = Nil
                      \/ /\ next'[m][i] \in Nodes /\ At(next[m][i], i)'
                         /\ Ahead(m, ukey[next[m][i]], next[m][i])'
    BY Zenon DEF Sorted
  <2>1. At(m, i) /\ next'[m][i] = next[m][i]
    BY Zenon
  <2>2. next[m][i] = Nil \/ /\ next[m][i] \in Nodes /\ At(next[m][i], i)
                            /\ Ahead(m, ukey[next[m][i]], next[m][i])
    BY <2>1, Zenon DEF Sorted
  <2>3. next[m][i] \in Nodes /\ At(next[m][i], i) => next[m][i] \in Inserted
    BY DEF At, Head, Nodes
  <2> QED
    BY <1>1, <1>2, <2>1, <2>2, <2>3 DEF Ahead
<1>4. Nested'
  BY Zenon DEF Nested
<1>5. AllAtBottom'
  BY <1>2, Zenon DEF AllAtBottom
<1>6. Adjacent'
  <2> SUFFICES ASSUME NEW m \in Places, NEW p \in Inserted, At(m, 0)',
                      Ahead(m, ukey[p], p)'
               PROVE  next'[m][0] \in Nodes /\ ~Before(p, next[m][0])'
    BY Zenon DEF Adjacent
  <2>1. At(m, 0) /\ next'[m][0] = next[m][0] /\ ukey'[p] = ukey[p]
    BY <1>2, Zenon
  <2>2. next[m][0] \in Nodes /\ ~Before(p, next[m][0])
    BY <1>1, <1>2, <2>1, Zenon DEF Adjacent, Ahead
  <2>3. At(next[m][0], 0) /\ next[m][0] \in Inserted
    BY <1>2, <2>1, <2>2 DEF Sorted, At, Head, Nodes, Nil
  <2> QED
    BY <2>1, <2>2, <2>3 DEF Before
<1> QED
  BY <1>3, <1>4, <1>5, <1>6, Zenon

----------------------------------------------------------------------------
(* One lemma for each step of the writer.                                  *)

LEMMA AddStep == ASSUME IInv, NEW k \in Keys, Add(k) PROVE IInv'
<1> USE SizeAssumption DEF IInv, ListInv
<1> DEFINE n == wr.node + 1
<1>1. /\ wr.pc \in {"idle", "added"} /\ n \in Nodes /\ wr.node \in 0..MaxNode
      /\ ukey' = [ukey EXCEPT ![n] = k] /\ ukey \in [Nodes -> Keys \cup {0}]
      /\ wr' = [wr EXCEPT !.pc = "find", !.node = n, !.x = Head, !.level = maxHeight - 1,
                          !.prev = [level \in Levels |-> Junk]]
      /\ next' = next /\ maxHeight' = maxHeight /\ heights' = heights
      /\ lastSeq' = lastSeq /\ rd' = rd /\ maxHeight \in 1..MaxHeight
  BY DEF Add, TypeOK, Insertions, Nodes
<1>2. /\ wr'.pc = "find" /\ wr'.node = n /\ wr'.x = Head /\ wr'.level = maxHeight - 1
      /\ wr' \in Insertions
  <2>1. /\ [level \in Levels |-> Junk] \in [Levels -> Places \cup {Junk}]
        /\ n \in 0..MaxNode /\ Head \in Places /\ maxHeight - 1 \in 0..MaxHeight
    BY <1>1 DEF Places, Nodes
  <2> QED
    BY <1>1, <2>1, Zenon DEF TypeOK, Insertions
<1>3. TypeOK'
  BY <1>1, <1>2, Zenon DEF TypeOK
<1>4. Inserted' = Inserted /\ Inserted = 1..wr.node
  BY <1>1, <1>2 DEF Inserted, Nodes
<1>5. \A m \in Places, i \in Levels : At(m, i)' <=> At(m, i)
  BY <1>1, <1>2, <1>4, Zenon DEF At
<1>6. \A p \in Inserted : ukey'[p] = ukey[p]
  BY <1>1, <1>4 DEF Nodes
<1>7. Alloc'
  <2>1. \A p \in Nodes : p <= n => ukey'[p] \in Keys
    BY <1>1 DEF Alloc, Nodes
  <2>2. \A p \in Nodes, i \in Levels : p >= n => next'[p][i] = Junk
    BY <1>1 DEF Alloc, Nodes
  <2>3. lastSeq' < n
    BY <1>1 DEF Alloc, TypeOK
  <2> QED
    BY <1>1, <1>2, <2>1, <2>2, <2>3 DEF Alloc, TypeOK, Nodes
<1>8. Sorted' /\ Nested' /\ AllAtBottom' /\ Adjacent'
  BY <1>1, <1>4, <1>5, <1>6, ShapeStays, Zenon
<1>9. EmptyAbove'
  BY <1>1, Zenon DEF EmptyAbove
<1>10. WriterOk'
  BY <1>1, <1>2 DEF WriterOk, At, Ahead, Levels
<1>11. \A r \in Readers : ReaderOk(rd[r])'
  BY <1>1, <1>4, <1>5, <1>6, ReadersStay, Zenon
<1> QED
  BY <1>3, <1>7, <1>8, <1>9, <1>10, <1>11, Zenon

LEMMA FindStep == ASSUME IInv, Find PROVE IInv'
<1> USE SizeAssumption DEF IInv, ListInv
<1>1. /\ wr.pc = "find" /\ wr.node \in Nodes /\ wr.x \in Places /\ wr.level \in Levels
      /\ ukey' = ukey /\ next' = next /\ maxHeight' = maxHeight /\ heights' = heights
      /\ lastSeq' = lastSeq /\ rd' = rd
      /\ wr \in Insertions /\ maxHeight \in 1..MaxHeight
  BY DEF Find, TypeOK, Insertions, Alloc, WriterOk, Levels
<1> PICK L \in Levels, X \in Places, K \in Nodes :
      L = wr.level /\ X = wr.x /\ K = wr.node
  BY <1>1, Zenon
<1> PICK n : n = next[X][L]
  BY Zenon
<1> DEFINE on == n # Nil /\ Less(ukey[n], n, ukey[K], K)
<1>2. /\ At(X, L) /\ Ahead(X, ukey[K], K)
      /\ \A i \in Levels : L < i /\ i < maxHeight => PrevOk(i)
  BY <1>1, Zenon DEF WriterOk
<1>3. n = Nil \/ (n \in Nodes /\ At(n, L))
  BY <1>2, Zenon DEF Sorted
<1>4. \/ on /\ wr' = [wr EXCEPT !.x = n]
      \/ ~on /\ L > 0 /\ wr' = [wr EXCEPT !.prev[L] = X, !.level = @ - 1]
      \/ ~on /\ L = 0 /\ wr' = [wr EXCEPT !.prev[L] = X, !.pc = "height"]
  BY Zenon DEF Find, KeyIsAfterNode
<1>5. /\ wr' \in Insertions /\ wr'.node = K /\ wr'.pc \in {"find", "height"}
      /\ wr'.prev = IF on THEN wr.prev ELSE [wr.prev EXCEPT ![L] = X]
  <2>1. CASE on /\ wr' = [wr EXCEPT !.x = n]
    <3>1. n \in Places
      BY <1>3, <2>1, Zenon DEF Places
    <3> QED
      BY <1>1, <2>1, <3>1, Zenon DEF Insertions
  <2>2. CASE ~on /\ L > 0 /\ wr' = [wr EXCEPT !.prev[L] = X, !.level = @ - 1]
    <3>1. L - 1 \in 0..MaxHeight /\ [wr.prev EXCEPT ![L] = X] \in [Levels -> Places \cup {Junk}]
      BY <1>1, <2>2 DEF Levels, Insertions
    <3> QED
      BY <1>1, <2>2, <3>1, Zenon DEF Insertions
  <2>3. CASE ~on /\ L = 0 /\ wr' = [wr EXCEPT !.prev[L] = X, !.pc = "height"]
    <3>1. [wr.prev EXCEPT ![L] = X] \in [Levels -> Places \cup {Junk}]
      BY <1>1, Zenon DEF Insertions
    <3> QED
      BY <1>1, <2>3, <3>1, Zenon DEF Insertions
  <2> QED
    BY <1>4, <2>1, <2>2, <2>3, Zenon
<1>6. TypeOK'
  BY <1>1, <1>5, Zenon DEF TypeOK
<1>7. Inserted' = Inserted
  BY <1>1, <1>5, Zenon DEF Inserted
<1>8. \A m \in Places, i \in Levels : At(m, i)' <=> At(m, i)
  BY <1>1, <1>5, <1>7, Zenon DEF At
<1>9. Alloc'
  BY <1>1, <1>5 DEF Alloc
<1>10. Sorted' /\ Nested' /\ AllAtBottom' /\ Adjacent'
  BY <1>1, <1>7, <1>8, ShapeStays, Zenon
<1>11. EmptyAbove'
  BY <1>1, Zenon DEF EmptyAbove
<1>12. \A i \in Levels : (PrevOk(i) /\ wr'.prev[i] = wr.prev[i]) => PrevOk(i)'
  BY <1>1, <1>5, <1>8, Zenon DEF PrevOk, Ahead, NotAhead
<1>13. WriterOk'
  <2>1. CASE on /\ wr' = [wr EXCEPT !.x = n]
    <3>1. /\ n \in Nodes /\ wr'.x = n /\ wr'.level = L /\ wr'.pc = "find"
          /\ wr'.prev = wr.prev
      BY <1>1, <1>3, <2>1, Zenon DEF Insertions
    <3>2. At(n, L)' /\ Ahead(n, ukey[K], K)'
      BY <1>1, <1>3, <1>8, <2>1, <3>1, Zenon DEF Ahead, Places
    <3>3. \A i \in Levels : L < i /\ i < maxHeight => PrevOk(i)'
      BY <1>2, <1>12, <3>1, Zenon
    <3>4. L < maxHeight'
      BY <1>1, Zenon DEF WriterOk
    <3> QED
      BY <1>1, <1>5, <3>1, <3>2, <3>3, <3>4, Zenon DEF WriterOk
  <2>2. CASE ~on
    <3>1. PrevOk(L)'
      <4>1. wr'.prev[L] = X
        BY <1>1, <1>5, <2>2, Zenon DEF Insertions
      <4>2. At(X, L)' /\ Ahead(X, ukey[K], K)' /\ NotAhead(n, ukey[K], K)'
        BY <1>1, <1>2, <1>3, <1>8, <2>2, Zenon DEF Ahead, NotAhead
      <4> QED
        BY <1>1, <1>5, <4>1, <4>2, Zenon DEF PrevOk
    <3>2. \A i \in Levels : L <= i /\ i < maxHeight => PrevOk(i)'
      <4> SUFFICES ASSUME NEW i \in Levels, L < i, i < maxHeight PROVE PrevOk(i)'
        BY <3>1 DEF Levels
      <4>1. wr'.prev[i] = wr.prev[i]
        BY <1>1, <1>5, <2>2 DEF Insertions, Levels
      <4> QED
        BY <1>2, <1>12, <4>1, Zenon
    <3>3. CASE L > 0 /\ wr' = [wr EXCEPT !.prev[L] = X, !.level = @ - 1]
      <4>1. /\ wr'.level = L - 1 /\ L - 1 \in Levels /\ wr'.x = X
            /\ wr'.pc = "find" /\ L < maxHeight
        BY <1>1, <3>3 DEF Insertions, Levels, WriterOk
      <4>2. PICK M \in Levels : M = L - 1
        BY <4>1, Zenon
      <4>3. At(X, M)'
        BY <1>2, <1>8, <4>2 DEF Nested, Levels
      <4>4. Ahead(X, ukey[K], K)'
        BY <1>1, <1>2, Zenon DEF Ahead
      <4>5. \A i \in Levels : M < i /\ i < maxHeight' => PrevOk(i)'
        BY <1>1, <3>2, <4>2 DEF Levels
      <4>6. M < maxHeight'
        BY <1>1, <4>1, <4>2 DEF Levels
      <4> QED
        BY <1>5, <4>1, <4>2, <4>3, <4>4, <4>5, <4>6, Zenon DEF WriterOk
    <3>4. CASE L = 0 /\ wr' = [wr EXCEPT !.prev[L] = X, !.pc = "height"]
      <4>1. wr'.pc = "height"
        BY <1>1, <3>4, Zenon DEF Insertions
      <4>2. \A i \in Levels : i < maxHeight' => PrevOk(i)'
        BY <1>1, <3>2, <3>4 DEF Levels
      <4> QED
        BY <4>1, <4>2, Zenon DEF WriterOk
    <3> QED
      BY <1>4, <2>2, <3>3, <3>4, Zenon
  <2> QED
    BY <1>4, <2>1, <2>2, Zenon
<1>14. \A r \in Readers : ReaderOk(rd[r])'
  BY <1>1, <1>7, <1>8, ReadersStay, Zenon
<1> QED
  BY <1>6, <1>9, <1>10, <1>11, <1>13, <1>14, Zenon

LEMMA PickHeightStep ==
  ASSUME IInv, NEW height \in 1..MaxHeight, PickHeight(height)
  PROVE  IInv'
<1> USE SizeAssumption DEF IInv, ListInv
<1>1. /\ wr.pc = "height" /\ wr.node \in Nodes /\ wr \in Insertions
      /\ ukey' = ukey /\ next' = next /\ lastSeq' = lastSeq /\ rd' = rd
      /\ maxHeight \in 1..MaxHeight
  BY Zenon DEF PickHeight, TypeOK, Alloc
<1>2. maxHeight' = (IF height > maxHeight THEN height ELSE maxHeight)
      /\ heights' \subseteq 1..maxHeight'
  BY <1>1 DEF PickHeight, TypeOK
<1>3. /\ wr'.pc = "link" /\ wr'.node = wr.node /\ wr'.level = 0 /\ wr'.height = height
      /\ wr' \in Insertions
      /\ \A i \in Levels : wr'.prev[i] = IF i >= maxHeight /\ i < height THEN Head
                                          ELSE wr.prev[i]
  <2>1. CASE height > maxHeight
    <3> PICK q : q = [level \in Levels |->
                        IF level \in maxHeight..(height - 1) THEN Head ELSE wr.prev[level]]
      BY Zenon
    <3>1. wr' = [wr EXCEPT !.pc = "link", !.height = height, !.level = 0, !.prev = q]
      BY <1>1, <2>1, Zenon DEF PickHeight, Insertions
    <3>2. q \in [Levels -> Places \cup {Junk}]
      BY <1>1, Zenon DEF Insertions, Places
    <3>3. \A i \in Levels : q[i] = IF i >= maxHeight /\ i < height THEN Head ELSE wr.prev[i]
      BY <1>1 DEF Levels
    <3>4. height \in 0..MaxHeight /\ 0 \in 0..MaxHeight
      OBVIOUS
    <3>5. /\ wr'.pc = "link" /\ wr'.node = wr.node /\ wr'.level = 0 /\ wr'.height = height
          /\ wr'.prev = q
      BY <1>1, <3>1, Zenon DEF Insertions
    <3>6. wr' \in Insertions
      BY <1>1, <3>1, <3>2, <3>4, Zenon DEF Insertions
    <3> QED
      BY <3>3, <3>5, <3>6, Zenon
  <2>2. CASE height <= maxHeight
    <3>1. wr' = [wr EXCEPT !.pc = "link", !.height = height, !.level = 0]
      BY <1>1, <2>2 DEF PickHeight
    <3>2. \A i \in Levels : ~(i >= maxHeight /\ i < height)
      BY <1>1, <2>2 DEF Levels
    <3>3. height \in 0..MaxHeight /\ 0 \in 0..MaxHeight
      OBVIOUS
    <3>4. /\ wr'.pc = "link" /\ wr'.node = wr.node /\ wr'.level = 0 /\ wr'.height = height
          /\ wr'.prev = wr.prev
      BY <1>1, <3>1, Zenon DEF Insertions
    <3>5. wr' \in Insertions
      BY <1>1, <3>1, <3>3, Zenon DEF Insertions
    <3> QED
      BY <3>2, <3>4, <3>5, Zenon
  <2> QED
    BY <1>1, <2>1, <2>2
<1>4. TypeOK'
  BY <1>1, <1>2, <1>3, Zenon DEF TypeOK
<1>5. Inserted' = Inserted
  BY <1>1, <1>3 DEF Inserted
<1>6. \A m \in Places, i \in Levels : At(m, i)' <=> At(m, i)
  BY <1>1, <1>3, <1>5, Zenon DEF At
<1>7. Alloc'
  BY <1>1, <1>3, Zenon DEF Alloc
<1>8. Sorted' /\ Nested' /\ AllAtBottom' /\ Adjacent'
  BY <1>1, <1>5, <1>6, ShapeStays, Zenon
<1>9. EmptyAbove'
  BY <1>1, <1>2 DEF EmptyAbove, Levels
<1>10. WriterOk'
  <2>1. ASSUME NEW i \in Levels, i < height PROVE PrevOk(i)'
    <3>1. CASE i < maxHeight
      <4>1. PrevOk(i) /\ wr'.prev[i] = wr.prev[i]
        BY <1>1, <1>3, <3>1 DEF WriterOk, Levels
      <4> QED
        BY <1>1, <1>3, <1>6, <4>1, Zenon DEF PrevOk, Ahead, NotAhead
    <3>2. CASE i >= maxHeight
      <4>1. wr'.prev[i] = Head /\ next'[Head][i] = Nil
        BY <1>1, <1>3, <2>1, <3>2, Zenon DEF EmptyAbove
      <4> QED
        BY <4>1, Zenon DEF PrevOk, At, Ahead, NotAhead, Places
    <3> QED
      BY <1>1, <3>1, <3>2 DEF Levels
  <2> QED
    BY <1>1, <1>2, <1>3, <2>1 DEF WriterOk, Levels
<1>11. \A r \in Readers : ReaderOk(rd[r])'
  BY <1>1, <1>5, <1>6, ReadersStay, Zenon
<1> QED
  BY <1>4, <1>7, <1>8, <1>9, <1>10, <1>11, Zenon

LEMMA LinkStep == ASSUME IInv, Link PROVE IInv'
<1> USE SizeAssumption DEF IInv, ListInv
<1>1. /\ wr.pc = "link" /\ wr.node \in Nodes /\ wr \in Insertions
      /\ ukey' = ukey /\ maxHeight' = maxHeight /\ heights' = heights
      /\ lastSeq' = lastSeq /\ rd' = rd
      /\ maxHeight \in 1..MaxHeight /\ wr.level \in Levels
      /\ next \in [Places -> [Levels -> Nodes \cup {Nil, Junk}]]
  BY DEF Link, TypeOK, Alloc, WriterOk, Insertions, Levels
<1> PICK L \in Levels, K \in Nodes : L = wr.level /\ K = wr.node
  BY <1>1, Zenon
<1> PICK X : X = wr.prev[L]
  BY Zenon
<1>2. /\ PrevOk(L) /\ X \in Places /\ At(X, L) /\ Ahead(X, ukey[K], K)
      /\ NotAhead(next[X][L], ukey[K], K)
  BY <1>1 DEF WriterOk, PrevOk, Levels
<1>3. /\ next' = [next EXCEPT ![K][L] = next[X][L]]
      /\ wr' = [wr EXCEPT !.pc = "publish"]
  BY Zenon DEF Link
<1>4. /\ wr'.pc = "publish" /\ wr'.node = K /\ wr'.level = L /\ wr'.height = wr.height
      /\ wr'.prev = wr.prev /\ wr' \in Insertions
  BY <1>1, <1>3, Zenon DEF Insertions
<1>5. TypeOK'
  <2>1. next' \in [Places -> [Levels -> Nodes \cup {Nil, Junk}]]
    BY <1>1, <1>2, <1>3, Zenon DEF NotAhead, Places
  <2> QED
    BY <1>1, <1>4, <2>1, Zenon DEF TypeOK
<1>6. Inserted' = Inserted
  BY <1>1, <1>4, Zenon DEF Inserted
<1>7. /\ \A m \in Places, i \in Levels : m # K \/ i # L => next'[m][i] = next[m][i]
      /\ next'[K][L] = next[X][L] /\ next[K][L] = Junk
  BY <1>1, <1>3 DEF Alloc, Places, Levels
<1>8. \A m \in Places, i \in Levels : At(m, i)' <=> At(m, i)
  BY <1>1, <1>4, <1>6, <1>7 DEF At
<1>9. K # Head /\ ~At(K, L) /\ K \in Places
  BY <1>7 DEF At, Head, Nodes, Places
<1>10. \A m \in Places, i \in Levels : At(m, i) => next'[m][i] = next[m][i]
  BY <1>7, <1>9, Zenon
<1>11. Alloc'
  <2>1. \A p \in Nodes, i \in Levels : p > K => next'[p][i] = Junk
    BY <1>1, <1>7 DEF Alloc, Nodes, Places
  <2>2. \A i \in Levels : i > L => next'[K][i] = Junk
    BY <1>1, <1>7, <1>9 DEF Alloc, Levels
  <2> QED
    BY <1>1, <1>4, <2>1, <2>2 DEF Alloc
<1>12. Sorted' /\ Nested' /\ AllAtBottom' /\ Adjacent'
  BY <1>1, <1>6, <1>8, <1>10, ShapeStays, Zenon
<1>13. EmptyAbove'
  BY <1>1, <1>7, <1>9 DEF EmptyAbove, Places
<1>14. WriterOk'
  <2>1. ASSUME NEW i \in Levels, L <= i, i < wr.height PROVE PrevOk(i)'
    <3>1. PrevOk(i)
      BY <1>1, <2>1, Zenon DEF WriterOk
    <3> QED
      BY <1>1, <1>4, <1>8, <1>10, <3>1 DEF PrevOk, Ahead, NotAhead
  <2>2. next'[K][L] = next'[X][L]
    BY <1>2, <1>7, <1>10, Zenon
  <2>3. \A i \in Levels : i < L => next'[K][i] # Junk
    BY <1>1, <1>7, <1>9, Zenon DEF WriterOk, Levels
  <2> QED
    BY <1>1, <1>4, <2>1, <2>2, <2>3, Zenon DEF WriterOk
<1>15. \A r \in Readers : ReaderOk(rd[r])'
  BY <1>1, <1>6, <1>8, ReadersStay, Zenon
<1> QED
  BY <1>5, <1>11, <1>12, <1>13, <1>14, <1>15, Zenon

(* The step that puts the node into the list of a level.  At the lowest    *)
(* level the node lands between its place in prev[] and what was after it. *)
LEMMA PublishStep == ASSUME IInv, Publish PROVE IInv'
<1> USE SizeAssumption DEF IInv, ListInv
<1>1. /\ wr.pc = "publish" /\ wr.node \in Nodes /\ wr \in Insertions
      /\ ukey' = ukey /\ maxHeight' = maxHeight /\ heights' = heights
      /\ lastSeq' = lastSeq /\ rd' = rd
      /\ maxHeight \in 1..MaxHeight /\ wr.level \in Levels
      /\ next \in [Places -> [Levels -> Nodes \cup {Nil, Junk}]]
      /\ wr.level < wr.height /\ wr.height <= maxHeight /\ wr.height \in Nat
  BY DEF Publish, TypeOK, Alloc, WriterOk, Insertions, Levels
<1> PICK L \in Levels, K \in Nodes : L = wr.level /\ K = wr.node
  BY <1>1, Zenon
<1> PICK X : X = wr.prev[L]
  BY Zenon
<1> PICK N : N = next[X][L]
  BY Zenon
<1>2. /\ X \in Places /\ At(X, L) /\ Ahead(X, ukey[K], K) /\ NotAhead(N, ukey[K], K)
      /\ next[K][L] = N
  BY <1>1, SMTT(60) DEF WriterOk, PrevOk, Levels
<1>3. /\ next' = [next EXCEPT ![X][L] = K]
      /\ wr' = [wr EXCEPT !.level = L + 1,
                          !.pc = IF L + 1 < wr.height THEN "link" ELSE "added"]
  BY Zenon DEF Publish
<1>4. /\ wr'.pc = (IF L + 1 < wr.height THEN "link" ELSE "added")
      /\ wr'.node = K /\ wr'.level = L + 1 /\ wr'.height = wr.height
      /\ wr'.prev = wr.prev /\ wr' \in Insertions
  <2>1. L + 1 \in 0..MaxHeight
    BY <1>1 DEF Levels
  <2> QED
    BY <1>1, <1>3, <2>1, Zenon DEF Insertions
<1>5. TypeOK'
  <2>1. next' \in [Places -> [Levels -> Nodes \cup {Nil, Junk}]]
    BY <1>1, <1>2, <1>3, Zenon
  <2> QED
    BY <1>1, <1>4, <2>1, Zenon DEF TypeOK
<1>6. Inserted' = Inserted \cup {K} /\ (L > 0 => K \in Inserted) /\ Inserted \subseteq Nodes
  BY <1>1, <1>4 DEF Inserted, Levels, Nodes
<1>7. K \in Places /\ K # Head /\ ~At(K, L) /\ X # K
  BY <1>1, <1>2, SMTT(60) DEF At, Head, Places, Nodes
<1>8. /\ \A m \in Places, i \in Levels : m # X \/ i # L => next'[m][i] = next[m][i]
      /\ next'[X][L] = K
  BY <1>1, <1>2, <1>3, Zenon
<1>9. \A m \in Places, i \in Levels : At(m, i)' <=> At(m, i) \/ (m = K /\ i = L)
  <2> SUFFICES ASSUME NEW m \in Places, NEW i \in Levels
               PROVE  At(m, i)' <=> At(m, i) \/ (m = K /\ i = L)
    BY Zenon
  <2>1. wr'.pc # "publish"
    BY <1>4, Zenon
  <2>2. CASE m = K
    <3>1. At(K, i)' <=> next[K][i] # Junk
      BY <1>6, <1>7, <1>8, <2>1, Zenon DEF At
    <3>2. next[K][L] # Junk
      BY <1>2 DEF NotAhead, Nil, Junk, Nodes
    <3>3. next[K][i] # Junk => i <= L
      BY <1>1 DEF Alloc, Levels
    <3>4. i < L => next[K][i] # Junk /\ At(K, i)
      BY <1>1, <1>6 DEF WriterOk, At, Levels
    <3>5. At(K, i) => next[K][i] # Junk
      BY <1>7, Zenon DEF At
    <3>6. i < L \/ i = L \/ ~(i <= L)
      BY DEF Levels
    <3> QED
      BY <1>7, <2>2, <3>1, <3>2, <3>3, <3>4, <3>5, <3>6
  <2>3. CASE m # K
    <3>1. next'[m][i] = Junk <=> next[m][i] = Junk
      <4>1. CASE m = X /\ i = L
        BY <1>2, <1>8, <4>1, SMTT(60) DEF NotAhead, Nil, Junk, Nodes
      <4> QED
        BY <1>8, <4>1, Zenon
    <3> QED
      BY <1>1, <1>6, <2>1, <2>3, <3>1, Zenon DEF At
  <2> QED
    BY <2>2, <2>3, Zenon
<1>10. N = Nil \/ (N \in Nodes /\ At(N, L) /\ N # K /\ Before(K, N))
  <2>1. N = Nil \/ (N \in Nodes /\ At(N, L))
    BY <1>2, Zenon DEF Sorted
  <2>2. \A n \in Nodes : ukey[n] \in Nat
    BY KeyTypes, Zenon
  <2> QED
    <3>1. N \in Nodes => N # K
      BY <1>7, <2>1 DEF Nil, Nodes
    <3>2. N \in Nodes => ~Less(ukey[N], N, ukey[K], K)
      BY <1>2 DEF NotAhead, Nil, Nodes
    <3>3. \A n \in Nodes : n # K /\ ~Less(ukey[n], n, ukey[K], K) => Before(K, n)
      BY <2>2 DEF Before, Less, Nodes
    <3> QED
      BY <2>1, <3>1, <3>2, <3>3, Zenon
<1>11. Alloc'
  <2>1. \A p \in Nodes, i \in Levels : p > K => next'[p][i] = Junk
    <3>1. \A p \in Nodes : p > K => p # X
      BY <1>1, <1>6, <1>2 DEF At, Head, Nodes, Inserted
    <3> QED
      BY <1>1, <1>8, <3>1 DEF Alloc, Places
  <2>2. \A i \in Levels : i > L => next'[K][i] = Junk
    BY <1>1, <1>7, <1>8 DEF Alloc
  <2> QED
    BY <1>1, <1>4, <2>1, <2>2 DEF Alloc, Levels
<1>12. Sorted'
  <2> SUFFICES ASSUME NEW m \in Places, NEW i \in Levels, At(m, i)'
               PROVE  \/ next'[m][i] = Nil
                      \/ /\ next'[m][i] \in Nodes /\ At(next[m][i], i)'
                         /\ Ahead(m, ukey[next[m][i]], next[m][i])'
    BY Zenon DEF Sorted
  <2>1. CASE m = X /\ i = L
    <3>1. At(K, L)' /\ Ahead(X, ukey[K], K)'
      BY <1>1, <1>2, <1>7, <1>9, Zenon DEF Ahead
    <3> QED
      BY <1>8, <2>1, <3>1, Zenon
  <2>2. CASE m = K /\ i = L
    <3>1. next'[m][i] = N
      BY <1>2, <1>7, <1>8, <2>2, Zenon
    <3>2. N \in Nodes => At(N, L)' /\ Ahead(K, ukey[N], N)'
      <4>1. N \in Nodes => N \in Places /\ N # Nil
        BY DEF Places, Nil, Nodes
      <4>2. N \in Nodes => At(N, L)'
        BY <1>9, <1>10, <4>1, Zenon
      <4>3. N \in Nodes => Less(ukey[K], K, ukey[N], N)
        BY <1>10, <4>1, Zenon DEF Before
      <4> QED
        BY <1>1, <4>2, <4>3, Zenon DEF Ahead
    <3> QED
      BY <1>10, <2>2, <3>1, <3>2, Zenon
  <2>3. CASE (m # X \/ i # L) /\ (m # K \/ i # L)
    <3> PICK n : n = next[m][i]
      BY Zenon
    <3>1. At(m, i) /\ next'[m][i] = n
      BY <1>8, <1>9, <2>3, Zenon
    <3>2. n = Nil \/ (n \in Nodes /\ At(n, i) /\ Ahead(m, ukey[n], n))
      BY <3>1, Zenon DEF Sorted
    <3>3. n \in Nodes => At(n, i)' /\ Ahead(m, ukey[n], n)'
      BY <1>1, <1>9, <3>2 DEF Ahead, Places, Nil, Nodes
    <3> QED
      BY <3>1, <3>2, <3>3, Zenon
  <2> QED
    BY <2>1, <2>2, <2>3, Zenon
<1>13. Nested'
  <2> SUFFICES ASSUME NEW m \in Places, NEW i \in Levels, NEW j \in Levels, At(m, i)', j < i
               PROVE  At(m, j)'
    BY Zenon DEF Nested
  <2>1. CASE m = K /\ i = L
    <3>1. At(K, j)
      BY <1>1, <1>6, <2>1 DEF WriterOk, At, Levels
    <3> QED
      BY <1>9, <2>1, <3>1, Zenon
  <2> QED
    BY <1>9, <2>1 DEF Nested
<1>14. AllAtBottom'
  <2>1. 0 \in Levels
    BY DEF Levels
  <2>2. ASSUME NEW n \in Inserted PROVE At(n, 0)'
    BY <1>6, <1>9, <2>1, Zenon DEF AllAtBottom, Places
  <2>3. At(K, 0)'
    <3>1. CASE L = 0
      BY <1>7, <1>9, <3>1, Zenon
    <3>2. CASE L > 0
      BY <1>6, <2>2, <3>2, Zenon
    <3> QED
      BY <3>1, <3>2 DEF Levels
  <2> QED
    BY <1>6, <2>2, <2>3, Zenon DEF AllAtBottom
<1>15. Adjacent'
  <2> SUFFICES ASSUME NEW m \in Places, NEW p \in Inserted \cup {K}, At(m, 0)',
                      Ahead(m, ukey[p], p)'
               PROVE  next'[m][0] \in Nodes /\ ~Before(p, next[m][0])'
    BY <1>6, Zenon DEF Adjacent
  <2>1. 0 \in Levels /\ (\A n \in Nodes : ukey[n] \in Nat) /\ p \in Nodes
    BY <1>6, KeyTypes, SMTT(60) DEF Levels
  <2>2. /\ Ahead(m, ukey[p], p)
        /\ \A n : n = next'[m][0] => (Before(p, next[m][0])' <=> Before(p, n))
    BY <1>1 DEF Ahead, Before
  <2>3. \A n \in Nodes, q \in Nodes : Before(n, q) \/ Before(q, n) \/ n = q
    BY <2>1, SMTT(60) DEF Before, Less, Nodes
  <2>4. \A n \in Nodes, q \in Nodes, t \in Nodes : Before(n, q) /\ Before(q, t) => Before(n, t)
    BY <2>1 DEF Before, Less, Nodes
  <2>5. \A n \in Nodes, q \in Nodes : Before(n, q) => ~Before(q, n) /\ n # q
    BY <2>1 DEF Before, Less, Nodes
  <2>6. \A n \in Nodes, q \in Inserted :
          At(n, 0) /\ Before(n, q) => next[n][0] \in Nodes /\ ~Before(q, next[n][0])
    BY Zenon DEF Adjacent, Ahead, Before, Places
  <2>7. \A q \in Inserted : next[Head][0] \in Nodes /\ ~Before(q, next[Head][0])
    BY <2>1, Zenon DEF Adjacent, Ahead, At, Places
  <2>8. CASE L > 0
    <3>1. p \in Inserted /\ At(m, 0) /\ next'[m][0] = next[m][0]
      BY <1>6, <1>8, <1>9, <2>1, <2>8
    <3> QED
      BY <2>2, <3>1, Zenon DEF Adjacent
  <2>9. CASE L = 0 /\ m = X
    <3>1. next'[m][0] = K
      BY <1>8, <2>9, Zenon
    <3>2. p # K => ~Before(p, K)
      <4> SUFFICES ASSUME p # K, Before(p, K) PROVE FALSE
        BY Zenon
      <4>1. p \in Inserted
        BY Zenon
      <4>2. N \in Nodes /\ ~Before(p, N)
        BY <1>2, <2>2, <2>9, <4>1, Zenon DEF Adjacent
      <4>3. Before(K, N)
        BY <1>10, <4>2 DEF Nil, Nodes
      <4> QED
        BY <2>4, <2>1, <4>2, <4>3, Zenon
    <3> QED
      BY <2>2, <2>1, <2>5, <3>1, <3>2, Zenon
  <2>10. CASE L = 0 /\ m = K
    <3>1. next'[m][0] = N /\ p # K /\ Before(K, p) /\ p \in Inserted
      BY <1>2, <1>7, <1>8, <2>1, <2>2, <2>5, <2>10, SMTT(60) DEF Ahead, Before
    <3>2. Ahead(X, ukey[p], p)
      BY <1>2, <2>1, <2>4, <3>1 DEF Ahead, Before, Places
    <3>3. N \in Nodes /\ ~Before(p, N)
      BY <1>2, <2>10, <3>1, <3>2, Zenon DEF Adjacent
    <3> QED
      BY <2>2, <3>1, <3>3
  <2>11. CASE L = 0 /\ m # X /\ m # K
    <3>1. At(m, 0) /\ next'[m][0] = next[m][0]
      BY <1>8, <1>9, <2>1, <2>11, Zenon
    <3>2. CASE p \in Inserted
      BY <2>2, <3>1, <3>2, Zenon DEF Adjacent
    <3>3. CASE p = K
      <4>1. m # Head => m \in Inserted /\ m \in Nodes /\ Before(m, K)
        BY <1>6, <2>2, <3>1, <3>3, Zenon DEF At, Ahead, Before
      <4>2. X # Head => X \in Inserted /\ X \in Nodes /\ Before(X, K)
        BY <1>2, <1>6, Zenon DEF At, Ahead, Before
      <4>3. CASE m # Head /\ Ahead(X, ukey[m], m)
        <5>1. N \in Nodes /\ ~Before(m, N)
          BY <1>2, <2>11, <4>1, <4>3, Zenon DEF Adjacent
        <5>2. Before(K, N)
          BY <1>10, <5>1 DEF Nil, Nodes
        <5> QED
          BY <2>4, <4>1, <4>3, <5>1, <5>2, Zenon
      <4>4. CASE X # Head /\ Ahead(m, ukey[X], X)
        <5> PICK n : n = next[m][0]
          BY Zenon
        <5>1. n \in Nodes /\ ~Before(X, n)
          BY <3>1, <4>2, <4>4, Zenon DEF Adjacent
        <5>2. ~Before(K, n)
          BY <2>4, <4>2, <4>4, <5>1, Zenon
        <5> QED
          BY <2>2, <3>1, <3>3, <5>1, <5>2, Zenon
      <4> QED
        BY <2>3, <2>11, <4>1, <4>2, <4>3, <4>4, Zenon DEF Ahead, Before
    <3> QED
      BY <3>2, <3>3, Zenon
  <2> QED
    BY <2>8, <2>9, <2>10, <2>11 DEF Levels
<1>16. EmptyAbove'
  <2>1. L < maxHeight
    BY <1>1 DEF Levels
  <2> QED
    BY <1>1, <1>8, <2>1, SMTT(60) DEF EmptyAbove, Places, Levels
<1>17. WriterOk'
  <2>1. ASSUME NEW i \in Levels, L < i, i < wr.height PROVE PrevOk(i)'
    <3>1. PrevOk(i) /\ i # L
      BY <1>1, <2>1 DEF WriterOk, Levels
    <3> QED
      BY <1>1, <1>4, <1>8, <1>9, <3>1, SMTT(60) DEF PrevOk, Ahead, NotAhead
  <2>2. \A i \in Levels : i <= L => next'[K][i] # Junk
    <3>1. \A i \in Levels : next'[K][i] = next[K][i]
      BY <1>7, <1>8, Zenon
    <3>2. next[K][L] # Junk
      BY <1>2 DEF NotAhead, Nil, Junk, Nodes
    <3>3. \A i \in Levels : i < L => next[K][i] # Junk
      BY <1>1, Zenon DEF WriterOk
    <3>4. \A i \in Levels : i <= L => i < L \/ i = L
      BY DEF Levels
    <3> QED
      BY <3>1, <3>2, <3>3, <3>4, Zenon
  <2>3. \A i \in Levels : (L + 1 <= i => L < i) /\ (i < L + 1 => i <= L)
    BY DEF Levels
  <2> QED
    BY <1>1, <1>4, <2>1, <2>2, <2>3, Zenon DEF WriterOk
<1>18. \A r \in Readers : ReaderOk(rd[r])'
  BY <1>1, <1>6, <1>9, ReadersStay, Zenon
<1> QED
  BY <1>5, <1>11, <1>12, <1>13, <1>14, <1>15, <1>16, <1>17, <1>18, Zenon

LEMMA SetLastSequenceStep == ASSUME IInv, SetLastSequence PROVE IInv'
<1> USE SizeAssumption DEF IInv, ListInv
<1>1. /\ wr.pc = "added" /\ wr \in Insertions /\ lastSeq' = wr.node
      /\ ukey' = ukey /\ next' = next /\ maxHeight' = maxHeight /\ heights' = heights
      /\ rd' = rd /\ wr' = [wr EXCEPT !.pc = "idle"]
  BY Zenon DEF SetLastSequence, TypeOK
<1>2. wr'.pc = "idle" /\ wr'.node = wr.node /\ wr' \in Insertions /\ wr.node \in 0..MaxNode
  BY <1>1, Zenon DEF Insertions
<1>3. TypeOK'
  BY <1>1, <1>2, Zenon DEF TypeOK
<1>4. Inserted' = Inserted
  BY <1>1, <1>2, Zenon DEF Inserted
<1>5. \A m \in Places, i \in Levels : At(m, i)' <=> At(m, i)
  BY <1>1, <1>2, <1>4, Zenon DEF At
<1>6. Alloc'
  BY <1>1, <1>2 DEF Alloc
<1>7. Sorted' /\ Nested' /\ AllAtBottom' /\ Adjacent'
  BY <1>1, <1>4, <1>5, ShapeStays, Zenon
<1>8. EmptyAbove' /\ WriterOk'
  BY <1>1, <1>2, Zenon DEF EmptyAbove, WriterOk
<1>9. \A r \in Readers : ReaderOk(rd[r])'
  BY <1>1, <1>4, <1>5, ReadersStay, Zenon
<1> QED
  BY <1>3, <1>6, <1>7, <1>8, <1>9, Zenon

----------------------------------------------------------------------------
(* The steps of a reader leave the list alone.                             *)

LEMMA ListStays ==
  ASSUME IInv, UNCHANGED <<ukey, next, maxHeight, heights, lastSeq, wr>>
  PROVE  /\ ListInv' /\ Inserted' = Inserted
         /\ \A m, i : At(m, i)' <=> At(m, i)
         /\ \A c \in Calls : ReaderOk(c)' <=> ReaderOk(c)
<1>1. Inserted' = Inserted
  BY Zenon DEF Inserted
<1>2. \A m, i : At(m, i)' <=> At(m, i)
  BY <1>1, Zenon DEF At
<1>3. Alloc' /\ EmptyAbove'
  BY Zenon DEF IInv, ListInv, Alloc, EmptyAbove
<1>4. Sorted' /\ Nested' /\ AllAtBottom' /\ Adjacent'
  BY <1>1, <1>2, ShapeStays, Zenon
<1>5. \A i : PrevOk(i)' <=> PrevOk(i)
  BY <1>2, Zenon DEF PrevOk, Ahead, NotAhead
<1>6. WriterOk'
  BY <1>2, <1>5, Zenon DEF IInv, ListInv, WriterOk, Ahead
<1>7. \A c \in Calls : ReaderOk(c)' <=> ReaderOk(c)
  BY <1>1, <1>2, SMTT(60)
     DEF ReaderOk, SearchOk, ReturnOk, RightSide, Missed, Ahead, Before
<1> QED
  BY <1>1, <1>2, <1>3, <1>4, <1>6, <1>7, Zenon DEF ListInv

(* So it is enough to look at the reader itself.                           *)
LEMMA OneReader ==
  ASSUME IInv, UNCHANGED <<ukey, next, maxHeight, heights, lastSeq, wr>>,
         NEW r \in Readers, NEW c \in Calls, rd' = [rd EXCEPT ![r] = c], ReaderOk(c)
  PROVE  IInv'
<1>1. rd \in [Readers -> Calls] /\ rd' \in [Readers -> Calls]
  BY Zenon DEF IInv, TypeOK
<1>2. \A q \in Readers : rd'[q] \in Calls /\ ReaderOk(rd'[q])
  BY <1>1, Zenon DEF IInv
<1>3. \A q \in Readers : ReaderOk(rd[q])'
  BY <1>2, ListStays, Zenon
<1>4. TypeOK'
  BY <1>1, Zenon DEF IInv, TypeOK
<1> QED
  BY <1>3, <1>4, ListStays, Zenon DEF IInv

(* Everything up to the published sequence number is in the list.          *)
LEMMA PublishedInserted == IInv => 1..lastSeq \subseteq Inserted
BY SizeAssumption DEF IInv, ListInv, Alloc, TypeOK, Insertions, Inserted, Nodes

LEMMA StartStep ==
  ASSUME IInv, NEW r \in Readers, NEW op \in {"seek", "last", "prev"},
         NEW k \in Keys \cup {0}, NEW s \in 0..MaxNode, NEW height \in heights,
         Start(r, op, k, s, height),
         UNCHANGED <<ukey, next, maxHeight, heights, lastSeq, wr>>
  PROVE  IInv'
<1> USE SizeAssumption
<1> PICK c : c = [op |-> op, busy |-> TRUE, x |-> Head, level |-> height - 1,
                  key |-> k, seq |-> s, base |-> Inserted,
                  published |-> s <= lastSeq, node |-> rd[r].node]
  BY Zenon
<1>1. rd' = [rd EXCEPT ![r] = c]
  BY Zenon DEF Start
<1>2. rd[r] \in Calls /\ rd[r].node \in Nodes \cup {Nil} /\ lastSeq \in Nat
      /\ height - 1 \in Levels /\ Head \in Places /\ Inserted \subseteq Nodes
  BY DEF IInv, TypeOK, Calls, Levels, Places, Inserted
<1>3. c \in Calls
  <2>1. (s <= lastSeq) \in BOOLEAN
    BY <1>2
  <2> QED
    BY <1>2, <2>1, Zenon DEF Calls
<1>4. ReaderOk(c)
  <2>1. c.base = Inserted /\ c.busy /\ c.x = Head /\ c.node = rd[r].node
        /\ c.op \in {"seek", "last", "prev"} /\ c.seq = s /\ (c.published <=> s <= lastSeq)
    BY Zenon
  <2>2. c.node = Nil \/ c.node \in Inserted
    BY <2>1, Zenon DEF IInv, ReaderOk
  <2>3. s <= lastSeq => 1..s \subseteq Inserted
    BY <1>2, PublishedInserted
  <2>4. SearchOk(c) /\ ReturnOk(c)
    BY <2>1, Zenon DEF SearchOk, ReturnOk, At, Ahead
  <2> QED
    BY <2>1, <2>2, <2>3, <2>4, Zenon DEF ReaderOk
<1> QED
  BY <1>1, <1>3, <1>4, OneReader, Zenon

LEMMA Orders ==
  ASSUME TypeOK
  PROVE  /\ \A n \in Nodes, q \in Nodes : Before(n, q) \/ Before(q, n) \/ n = q
         /\ \A n \in Nodes, q \in Nodes, t \in Nodes :
              Before(n, q) /\ Before(q, t) => Before(n, t)
         /\ \A n \in Nodes, q \in Nodes : Before(n, q) => ~Before(q, n)
         /\ \A n \in Nodes, q \in Nodes, k \in Nat, s \in Nat :
              Less(ukey[n], n, k, s) /\ ~Less(ukey[q], q, k, s) => Before(n, q)
BY KeyTypes DEF Before, Less, Nodes

LEMMA SeekToFirstStep == ASSUME IInv, NEW r \in Readers, SeekToFirst(r) PROVE IInv'
<1> USE SizeAssumption DEF IInv, ListInv
<1> PICK n : n = next[Head][0]
  BY Zenon
<1> PICK c : c = [rd[r] EXCEPT !.op = "first", !.base = Inserted, !.node = n]
  BY Zenon
<1>1. /\ rd' = [rd EXCEPT ![r] = c] /\ ~rd[r].busy /\ rd[r] \in Calls
      /\ UNCHANGED <<ukey, next, maxHeight, heights, lastSeq, wr>>
  BY Zenon DEF SeekToFirst, TypeOK
<1>2. n = Nil \/ (n \in Nodes /\ At(n, 0))
  BY DEF Sorted, At, Places, Levels
<1>3. c \in Calls /\ ~c.busy /\ c.op = "first" /\ c.base = Inserted /\ c.node = n
  BY <1>1, <1>2, Zenon DEF Calls, Inserted
<1>4. n \in Nodes => n \in Inserted
  BY <1>2 DEF At, Head, Nodes, Nil
<1>5. \A p \in Inserted : n \in Nodes /\ ~Before(p, n)
  BY Zenon DEF Adjacent, At, Ahead, Places
<1>6. ReaderOk(c)
  BY <1>2, <1>3, <1>4, <1>5
     DEF ReaderOk, SearchOk, ReturnOk, RightSide, Missed, Nodes, Nil
<1> QED
  BY <1>1, <1>3, <1>6, OneReader, Zenon

LEMMA NextStep == ASSUME IInv, NEW r \in Readers, Next_(r) PROVE IInv'
<1> USE SizeAssumption DEF IInv, ListInv
<1>1. /\ rd[r] \in Calls /\ ~rd[r].busy /\ rd[r].node \in Inserted
      /\ UNCHANGED <<ukey, next, maxHeight, heights, lastSeq, wr>>
      /\ Inserted \subseteq Nodes
  BY Zenon DEF Next_, TypeOK, ReaderOk, Inserted
<1> PICK m \in Nodes : m = rd[r].node
  BY <1>1, Zenon
<1> PICK n : n = next[m][0]
  BY Zenon
<1> PICK c : c = [rd[r] EXCEPT !.op = "next", !.base = Inserted, !.key = ukey[m],
                               !.seq = m, !.node = n]
  BY Zenon
<1>2. rd' = [rd EXCEPT ![r] = c]
  BY Zenon DEF Next_, TypeOK
<1>3. m \in Inserted /\ At(m, 0) /\ m \in Places /\ 0 \in Levels
  BY <1>1 DEF AllAtBottom, Places, Levels
<1>4. n = Nil \/ (n \in Nodes /\ At(n, 0) /\ Before(m, n))
  BY <1>3 DEF Sorted, Ahead, Before, Nodes, Head
<1>5. /\ c \in Calls /\ ~c.busy /\ c.op = "next" /\ c.base = Inserted /\ c.node = n
      /\ c.key = ukey[m] /\ c.seq = m
  <2>1. ukey[m] \in Keys \cup {0} /\ m \in 0..MaxNode
    BY DEF TypeOK, Nodes
  <2> QED
    BY <1>1, <1>4, <2>1, Zenon DEF Calls
<1>6. n \in Nodes => n \in Inserted
  BY <1>4 DEF At, Head, Nodes, Nil
<1>7. \A p \in Inserted : Before(m, p) => n \in Nodes /\ ~Before(p, n)
  BY <1>3, Zenon DEF Adjacent, Ahead, Before
<1>8. ReaderOk(c)
  <2>1. n = Nil \/ n \in Inserted
    BY <1>4, <1>6, Zenon
  <2>2. RightSide(c)
    BY <1>4, <1>5, Zenon DEF RightSide, Before
  <2>3. \A p \in Inserted : ~Missed(c, p)
    BY <1>5, <1>7 DEF Missed, Before, Nodes, Nil
  <2> QED
    BY <1>5, <2>1, <2>2, <2>3, Zenon DEF ReaderOk, SearchOk, ReturnOk
<1> QED
  BY <1>1, <1>2, <1>5, <1>8, OneReader, Zenon

(* A search goes on to a place that is still before its target, goes down, *)
(* or returns; then nothing that was in the list lies between the place    *)
(* and the next one.                                                       *)
LEMMA SearchStep == ASSUME IInv, NEW r \in Readers, Search(r) PROVE IInv'
<1> USE SizeAssumption DEF IInv, ListInv
<1>1. /\ rd[r] \in Calls /\ rd[r].busy /\ ReaderOk(rd[r])
      /\ UNCHANGED <<ukey, next, maxHeight, heights, lastSeq, wr>>
      /\ rd \in [Readers -> Calls] /\ Inserted \subseteq Nodes
  BY Zenon DEF Search, TypeOK, Inserted
<1> PICK me \in Calls : me = rd[r]
  BY <1>1, Zenon
<1> PICK X \in Places, L \in Levels, k \in Keys \cup {0}, s \in 0..MaxNode :
      X = me.x /\ L = me.level /\ k = me.key /\ s = me.seq
  BY Zenon DEF Calls
<1> PICK n : n = next[X][L]
  BY Zenon
<1> DEFINE on == IF me.op = "last" THEN n # Nil ELSE n # Nil /\ Less(ukey[n], n, k, s)
           found == IF me.op = "seek" THEN n ELSE IF X = Head THEN Nil ELSE X
<1>2. /\ me.op \in {"seek", "last", "prev"} /\ At(X, L)
      /\ me.op # "last" => Ahead(X, k, s)
      /\ me.base \subseteq Inserted /\ (me.node = Nil \/ me.node \in Inserted)
      /\ me.op = "seek" /\ me.published => 1..s \subseteq me.base
  BY <1>1, Zenon DEF ReaderOk, SearchOk
<1>3. n = Nil \/ (n \in Nodes /\ At(n, L) /\ Ahead(X, ukey[n], n))
  BY <1>2, Zenon DEF Sorted
<1>4. \/ on /\ rd' = [rd EXCEPT ![r].x = n]
      \/ ~on /\ L > 0 /\ rd' = [rd EXCEPT ![r].level = @ - 1]
      \/ ~on /\ L = 0 /\ rd' = [rd EXCEPT ![r].busy = FALSE, ![r].node = found]
  BY Zenon DEF Search, KeyIsAfterNode
<1>5. CASE on /\ rd' = [rd EXCEPT ![r].x = n]
  <2> PICK c : c = [me EXCEPT !.x = n]
    BY Zenon
  <2>1. rd' = [rd EXCEPT ![r] = c]
    BY <1>1, <1>5, Zenon
  <2>2. n \in Nodes /\ n \in Places
    BY <1>3, <1>5, Zenon DEF Places
  <2>3. /\ c \in Calls /\ c.busy /\ c.op = me.op /\ c.x = n /\ c.level = L /\ c.key = k
        /\ c.seq = s /\ c.base = me.base /\ c.node = me.node /\ c.published = me.published
    BY <1>1, <2>2, Zenon DEF Calls
  <2>4. SearchOk(c) /\ ReturnOk(c)
    BY <1>2, <1>3, <1>5, <2>2, <2>3, Zenon DEF SearchOk, ReturnOk, Ahead, Nil, Nodes
  <2>5. ReaderOk(c)
    BY <1>2, <2>3, <2>4, Zenon DEF ReaderOk
  <2> QED
    BY <1>1, <2>1, <2>3, <2>5, OneReader, Zenon
<1>6. CASE ~on /\ L > 0 /\ rd' = [rd EXCEPT ![r].level = @ - 1]
  <2> PICK c : c = [me EXCEPT !.level = L - 1]
    BY Zenon
  <2>1. rd' = [rd EXCEPT ![r] = c]
    BY <1>1, <1>6, Zenon
  <2>2. L - 1 \in Levels /\ L - 1 < L
    BY <1>6 DEF Levels
  <2>3. /\ c \in Calls /\ c.busy /\ c.op = me.op /\ c.x = X /\ c.level = L - 1 /\ c.key = k
        /\ c.seq = s /\ c.base = me.base /\ c.node = me.node /\ c.published = me.published
    BY <1>1, <2>2, Zenon DEF Calls
  <2>4. At(X, L - 1)
    BY <1>2, <2>2, Zenon DEF Nested
  <2>5. SearchOk(c) /\ ReturnOk(c)
    BY <1>2, <2>3, <2>4, Zenon DEF SearchOk, ReturnOk
  <2>6. ReaderOk(c)
    BY <1>2, <2>3, <2>5, Zenon DEF ReaderOk
  <2> QED
    BY <1>1, <2>1, <2>3, <2>6, OneReader, Zenon
<1>7. CASE ~on /\ L = 0 /\ rd' = [rd EXCEPT ![r].busy = FALSE, ![r].node = found]
  <2> PICK f : f = found
    BY Zenon
  <2> PICK c : c = [me EXCEPT !.busy = FALSE, !.node = f]
    BY Zenon
  <2>1. rd' = [rd EXCEPT ![r] = c]
    BY <1>1, <1>7, Zenon
  <2>2. f = Nil \/ (f \in Nodes /\ f \in Inserted)
    <3>1. \A m \in Nodes : At(m, L) => m \in Inserted
      BY DEF At, Head, Nodes
    <3>2. X # Head => X \in Nodes
      BY Zenon DEF Places
    <3> QED
      BY <1>2, <1>3, <3>1, <3>2, Zenon
  <2>3. /\ c \in Calls /\ ~c.busy /\ c.op = me.op /\ c.key = k /\ c.seq = s
        /\ c.base = me.base /\ c.node = f /\ c.published = me.published
    BY <1>1, <2>2, ZenonT(60) DEF Calls
  <2>4. k \in Nat /\ s \in Nat
    BY <1>1, KeyTypes, Zenon
  <2>5. RightSide(c)
    BY <1>2, <1>3, <1>7, <2>2, <2>3, Zenon DEF RightSide, Ahead, Nil, Nodes
  <2>6. ASSUME NEW p \in me.base PROVE ~Missed(c, p)
    <3>1. p \in Inserted /\ p \in Nodes
      BY <1>1, <1>2, Zenon
    <3>2. Ahead(X, ukey[p], p) => n \in Nodes /\ ~Before(p, n)
      BY <1>2, <1>7, <3>1, Zenon DEF Adjacent
    <3>3. CASE me.op = "seek"
      <4>1. ~Less(ukey[p], p, k, s) => Ahead(X, ukey[p], p)
        BY <1>2, <2>4, <3>1, <3>3, Orders, Zenon DEF Ahead, Before, Places
      <4> QED
        BY <2>3, <3>2, <3>3, <4>1 DEF Missed, Nil, Nodes
    <3>4. CASE me.op = "last"
      <4>1. f = Nil \/ Before(f, p) => Ahead(X, ukey[p], p)
        BY <3>4 DEF Ahead, Before, Nil, Head, Nodes, Places
      <4>2. n = Nil
        BY <1>7, <3>4, Zenon
      <4> QED
        BY <2>3, <3>2, <3>4, <4>1, <4>2 DEF Missed, Nil, Nodes
    <3>5. CASE me.op = "prev"
      <4> SUFFICES ASSUME Less(ukey[p], p, k, s), f = Nil \/ Before(f, p) PROVE FALSE
        BY <2>3, <3>5, Zenon DEF Missed
      <4>1. Ahead(X, ukey[p], p)
        BY <3>5 DEF Ahead, Before, Nil, Head, Nodes, Places
      <4>2. n \in Nodes /\ ~Before(p, n)
        BY <3>2, <4>1, Zenon
      <4>3. ~Less(ukey[n], n, k, s)
        BY <1>7, <3>5, <4>2 DEF Nil, Nodes
      <4> QED
        BY <2>4, <3>1, <4>2, <4>3, Orders
    <3> QED
      BY <1>2, <3>3, <3>4, <3>5, Zenon
  <2>7. ReaderOk(c)
    BY <1>2, <2>2, <2>3, <2>5, <2>6, Zenon DEF ReaderOk, SearchOk, ReturnOk
  <2> QED
    BY <1>1, <2>1, <2>3, <2>7, OneReader, Zenon
<1> QED
  BY <1>4, <1>5, <1>6, <1>7, Zenon

----------------------------------------------------------------------------
LEMMA StutterStep == ASSUME IInv, UNCHANGED vars PROVE IInv'
<1>1. TypeOK' /\ rd' = rd /\ UNCHANGED <<ukey, next, maxHeight, heights, lastSeq, wr>>
  BY Zenon DEF IInv, TypeOK, vars
<1>2. \A r \in Readers : rd[r] \in Calls /\ ReaderOk(rd[r])
  BY Zenon DEF IInv, TypeOK
<1> QED
  BY <1>1, <1>2, ListStays, Zenon DEF IInv

LEMMA StepInv == IInv /\ [Next]_vars => IInv'
<1> SUFFICES ASSUME IInv, [Next]_vars PROVE IInv'
  BY Zenon
<1>1. CASE Writer
  BY <1>1, AddStep, FindStep, PickHeightStep, LinkStep, PublishStep,
     SetLastSequenceStep, Zenon
     DEF Writer
<1>2. ASSUME NEW r \in Readers, Reader(r) PROVE IInv'
  <2>1. rd[r].node \in Nodes \cup {Nil} /\ Nodes \subseteq 0..MaxNode
    BY DEF IInv, TypeOK, Calls, Nodes
  <2>2. \A n \in Nodes : ukey[n] \in Keys \cup {0}
    BY Zenon DEF IInv, TypeOK
  <2>3. CASE \E k \in Keys, s \in Nodes : Seek(r, k, s)
    BY <2>1, <2>3, StartStep, Zenon DEF Seek
  <2>4. CASE SeekToLast(r)
    BY <2>4, StartStep, SizeAssumption DEF SeekToLast
  <2>5. CASE Prev(r)
    BY <2>1, <2>2, <2>5, StartStep, Zenon DEF Prev
  <2> QED
    BY <1>2, <2>3, <2>4, <2>5, SeekToFirstStep, NextStep, SearchStep, Zenon
       DEF Reader
<1>3. CASE UNCHANGED vars
  BY <1>3, StutterStep, Zenon
<1> QED
  BY <1>1, <1>2, <1>3, Zenon DEF Next

LEMMA InvImplies == IInv => TypeOK /\ NoneSkipped /\ SnapshotRead
<1> SUFFICES ASSUME IInv PROVE NoneSkipped /\ SnapshotRead
  BY Zenon DEF IInv
<1>1. NoneSkipped
  BY Zenon DEF IInv, NoneSkipped, ReaderOk, ReturnOk
<1>2. SnapshotRead
  <2> SUFFICES ASSUME NEW r \in Readers, ~rd[r].busy, rd[r].op = "seek", rd[r].published
               PROVE  LET me == rd[r]
                          versions == {n \in 1..me.seq : ukey[n] = me.key}
                      IN  IF versions = {} THEN me.node # Nil => ukey[me.node] # me.key
                          ELSE me.node \in versions /\ \A n \in versions : n <= me.node
    BY Zenon DEF SnapshotRead
  <2> PICK c \in Calls : c = rd[r]
    BY Zenon DEF IInv, TypeOK
  <2> DEFINE versions == {n \in 1..c.seq : ukey[n] = c.key}
  <2>1. /\ c.node = Nil \/ (c.node \in Nodes /\ ~Less(ukey[c.node], c.node, c.key, c.seq))
        /\ 1..c.seq \subseteq Nodes /\ c.key \in Nat /\ c.seq \in Nat
        /\ \A n \in Nodes : ukey[n] \in Nat
    BY KeyTypes, SizeAssumption, Zenon
       DEF IInv, ReaderOk, ReturnOk, RightSide, Inserted, Calls, Nodes
  <2>2. ASSUME NEW n \in versions PROVE c.node # Nil /\ ~Before(n, c.node)
    <3>1. n \in c.base /\ n \in Nodes /\ n <= c.seq /\ ukey[n] = c.key
      BY <2>1, SMTT(60) DEF IInv, ReaderOk
    <3>2. ~Missed(c, n)
      BY <3>1, Zenon DEF IInv, ReaderOk, ReturnOk
    <3>3. ~Less(ukey[n], n, c.key, c.seq)
      BY <2>1, <3>1 DEF Less, Nodes
    <3> QED
      BY <3>2, <3>3, Zenon DEF Missed
  <2>3. c.node # Nil /\ ukey[c.node] = c.key => c.node \in versions
    BY <2>1, SizeAssumption DEF Less, Nodes
  <2>4. ASSUME NEW n \in versions PROVE c.node \in versions /\ n <= c.node
    <3>1. c.node \in Nodes /\ n \in Nodes /\ ukey[n] = c.key
      BY <2>1, <2>2, Zenon
    <3>2. ukey[c.node] = c.key /\ n <= c.node
      BY <2>1, <2>2, <3>1, SizeAssumption DEF Before, Less, Nodes
    <3> QED
      BY <2>2, <2>3, <3>2, Zenon
  <2> QED
    BY <2>3, <2>4, Zenon
<1> QED
  BY <1>1, <1>2, Zenon

(* The invariant holds in every behaviour.                                 *)
LEMMA Invariance == Spec => []IInv
BY InitInv, StepInv, PTL DEF Spec

(* No thread follows a link that was not initialised, although a node is   *)
(* published level by level (skiplist.h, Insert).                          *)
THEOREM LinksInitialised == Spec => []TypeOK
BY Invariance, InvImplies, PTL

(* An iterator call that runs beside an insertion skips no entry that was  *)
(* in the memtable when it began (skiplist.h, FindGreaterOrEqual,          *)
(* FindLessThan, FindLast and Iterator).                                   *)
THEOREM IteratorsComplete == Spec => []NoneSkipped
BY Invariance, InvImplies, PTL

(* MemTable::Get at a published sequence number returns the entry that was *)
(* current at that number (memtable.cc, Get; db_impl.cc, Write).           *)
THEOREM GetAtSnapshot == Spec => []SnapshotRead
BY Invariance, InvImplies, PTL

=============================================================================
