----------------------------- MODULE TableCache -----------------------------
(***************************************************************************)
(* The cache of open tables (db/table_cache.cc) over a shard of the LRU    *)
(* cache (util/cache.cc), the threads that read tables through it, and the *)
(* deletion of obsolete tables (DBImpl::DeleteObsoleteFiles).              *)
(*                                                                         *)
(* An operation of the cache runs under the shard's mutex and is one step; *)
(* between a lookup that misses and the insertion of the table that was    *)
(* opened anything may happen.  The block cache is the same class used in  *)
(* the same way, with blocks of different charge and without Erase.        *)
(***************************************************************************)
EXTENDS Integers, SequencesExt

CONSTANTS
  Keys,        \* file numbers of tables
  Threads,     \* readers and compactions
  Hash,        \* the hash of a key
  Charge,      \* what an entry counts against the capacity: 1 for a table
  Capacity,    \* capacity_
  MinLength,   \* the length of the first hash table: 4 in the code
  MaxHandles   \* bound: entries allocated at a time

ASSUME CacheAssumption ==
  /\ Keys \subseteq Nat \ {0}
  /\ Hash \in [Keys -> Nat] /\ Charge \in [Keys -> Nat \ {0}]
  /\ Capacity \in Nat /\ MinLength \in Nat \ {0} /\ MaxHandles \in Nat

VARIABLES
  c,           \* the shard
  th,          \* the thread's call, the file it needs and its handle
  current,     \* tables in the current version
  exists,      \* tables on disk
  gc           \* the table DeleteObsoleteFiles is deleting; 0 when none

vars == <<c, th, current, exists, gc>>

Handles == 1..MaxHandles
NoHandle == [key |-> 0, refs |-> 0]

(* lru: the list from lru_.next, oldest entry first.                       *)
NoCache == [h |-> [e \in Handles |-> NoHandle], lru |-> <<>>, usage |-> 0,
            elems |-> 0, length |-> MinLength,
            list |-> [i \in 0..(MinLength - 1) |-> <<>>]]

Allocated == {e \in Handles : c.h[e] # NoHandle}
Idle == [pc |-> "idle", key |-> 0, h |-> 0]

TypeOK ==
  /\ c.h \in [Handles -> [key : Keys \cup {0}, refs : Nat]]
  /\ c.usage \in Nat /\ c.elems \in Nat /\ c.length \in Nat \ {0}
  /\ DOMAIN c.list = 0..(c.length - 1)
  /\ th \in [Threads -> [pc : {"idle", "pinned", "open", "hold", "done"}, key : Keys \cup {0},
                         h : 0..MaxHandles]]
  /\ current \subseteq exists /\ exists \subseteq Keys /\ gc \in Keys \cup {0}

----------------------------------------------------------------------------
(* HandleTable: a bucket is the chain of its entries.                      *)

Bucket(length, key) == Hash[key] % length

(* FindPointer: the place of the entry for a key, or the trailing slot.    *)
FindPointer(s, key) ==
  LET chain == s.list[Bucket(s.length, key)]
      hits == {i \in DOMAIN chain : s.h[chain[i]].key = key}
  IN  IF hits = {} THEN Len(chain) + 1 ELSE Min(hits)

(* The entry for a key; 0 for NULL.                                        *)
TableLookup(s, key) ==
  LET chain == s.list[Bucket(s.length, key)]
      i == FindPointer(s, key)
  IN  IF i <= Len(chain) THEN chain[i] ELSE 0

(* The smallest of the doubled lengths that is not below n.                *)
NewLength(n) ==
  LET double[l \in Nat] == IF l < n THEN double[2 * l] ELSE l
  IN  double[MinLength]

(* Mutant: the chains are copied as they are.                              *)
ResizeKeep(s) ==
  LET new == NewLength(s.elems)
  IN  [s EXCEPT !.length = new,
                !.list = [i \in 0..(new - 1) |-> IF i < s.length THEN s.list[i] ELSE <<>>]]

(* Mutant: length_ is not set to the new length.                           *)
ResizeNoLength(s) == [ResizeKeep(s) EXCEPT !.length = s.length]

(* Resize: every entry, bucket by bucket, goes to the front of its chain.  *)
Resize(s) ==
  LET new == NewLength(s.elems)
      all == FlattenSeq([i \in 1..s.length |-> s.list[i - 1]])
      put(list, e) == [list EXCEPT ![Bucket(new, s.h[e].key)] = <<e>> \o @]
  IN  [s EXCEPT !.length = new,
                !.list = FoldLeft(put, [i \in 0..(new - 1) |-> <<>>], all)]

(* HandleTable::Insert: an entry for the same key is replaced in place.    *)
TableInsert(s, e) ==
  LET b == Bucket(s.length, s.h[e].key)
      i == FindPointer(s, s.h[e].key)
      new == i = Len(s.list[b]) + 1
      t == [s EXCEPT !.list[b] = IF new THEN Append(@, e) ELSE [@ EXCEPT ![i] = e],
                     !.elems = IF new THEN @ + 1 ELSE @]
  IN  IF new /\ t.elems > t.length THEN Resize(t) ELSE t

TableRemove(s, key) ==
  LET b == Bucket(s.length, key)
      i == FindPointer(s, key)
  IN  IF i > Len(s.list[b]) THEN s
      ELSE [s EXCEPT !.list[b] = RemoveAt(@, i), !.elems = @ - 1]

----------------------------------------------------------------------------
(* LRUCache.                                                               *)

LRU_Remove(s, e) == [s EXCEPT !.lru = Remove(@, e)]
LRU_Append(s, e) == [s EXCEPT !.lru = Append(@, e)]

(* The deleter closes the table and its file, and the entry is freed.      *)
Unref(s, e) ==
  IF s.h[e].refs > 1 THEN [s EXCEPT !.h[e].refs = @ - 1]
  ELSE [s EXCEPT !.h[e] = NoHandle, !.usage = @ - Charge[s.h[e].key]]

(* Mutant: a hit does not count the caller.                                *)
LookupUncounted(s, e) == LRU_Append(LRU_Remove(s, e), e)

(* LRUCache::Lookup, for an entry that was found.                          *)
Lookup(s, e) == LRU_Append(LRU_Remove([s EXCEPT !.h[e].refs = @ + 1], e), e)

(* The oldest entry leaves the cache.                                      *)
EvictOldest(s) ==
  LET old == Head(s.lru)
  IN  Unref(TableRemove(LRU_Remove(s, old), s.h[old].key), old)

(* The loop that makes room; it may take the entry just inserted too.      *)
MakeRoom(s) ==
  LET round(t, e) == IF t.usage > Capacity /\ t.lru # <<>> THEN EvictOldest(t) ELSE t
  IN  FoldLeft(round, s, s.lru)

(* Mutant: room is made before the entry is charged.                       *)
InsertLate(s, e, key) ==
  LET t == LRU_Append([s EXCEPT !.h[e] = [key |-> key, refs |-> 2]], e)
      old == TableLookup(t, key)
      u == TableInsert(t, e)
      v == MakeRoom(IF old = 0 THEN u ELSE Unref(LRU_Remove(u, old), old))
  IN  [v EXCEPT !.usage = @ + Charge[key]]

(* LRUCache::Insert.                                                       *)
Insert(s, e, key) ==
  LET t == LRU_Append([s EXCEPT !.h[e] = [key |-> key, refs |-> 2],
                                !.usage = @ + Charge[key]], e)
      old == TableLookup(t, key)
      u == TableInsert(t, e)
  IN  MakeRoom(IF old = 0 THEN u ELSE Unref(LRU_Remove(u, old), old))

(* LRUCache::Erase.                                                        *)
Erase(s, key) ==
  LET e == TableLookup(s, key)
  IN  IF e = 0 THEN s ELSE Unref(LRU_Remove(TableRemove(s, key), e), e)

Init ==
  /\ c = NoCache
  /\ th = [t \in Threads |-> Idle]
  /\ current = Keys /\ exists = Keys /\ gc = 0

----------------------------------------------------------------------------
(* A read takes the current version; the table is one of those in it.      *)
Pin(t, key) ==
  /\ th[t].pc = "idle" /\ key \in current
  /\ th' = [th EXCEPT ![t] = [Idle EXCEPT !.pc = "pinned", !.key = key]]
  /\ UNCHANGED <<c, current, exists, gc>>

Unpin(t) ==
  /\ th[t].pc = "pinned"
  /\ th' = [th EXCEPT ![t] = Idle]
  /\ UNCHANGED <<c, current, exists, gc>>

(* FindTable begins with a lookup.                                         *)
FindTable(t) ==
  LET e == TableLookup(c, th[t].key)
  IN  /\ th[t].pc = "pinned"
      /\ \/ /\ e # 0
            /\ c' = Lookup(c, e)
            /\ th' = [th EXCEPT ![t].pc = "hold", ![t].h = e]
         \/ /\ e = 0
            /\ th' = [th EXCEPT ![t].pc = "open"]
            /\ UNCHANGED c
      /\ UNCHANGED <<current, exists, gc>>

(* The table was opened; whether another thread did the same meanwhile is  *)
(* not looked at again.                                                    *)
InsertTable(t) ==
  LET e == Min(Handles \ Allocated)
  IN  /\ th[t].pc = "open" /\ th[t].key \in exists /\ Allocated # Handles
      /\ c' = Insert(c, e, th[t].key)
      /\ th' = [th EXCEPT ![t].pc = "hold", ![t].h = e]
      /\ UNCHANGED <<current, exists, gc>>

(* The table cannot be opened or read; errors are not cached.              *)
OpenFail(t) ==
  /\ th[t].pc = "open"
  /\ th' = [th EXCEPT ![t].pc = "pinned"]
  /\ UNCHANGED <<c, current, exists, gc>>

(* TableCache::Get at its end, or the cleanup of an iterator.              *)
Release(t) ==
  /\ th[t].pc = "hold"
  /\ c' = Unref(c, th[t].h)
  /\ th' = [th EXCEPT ![t].pc = "pinned", ![t].h = 0]
  /\ UNCHANGED <<current, exists, gc>>

(* A compaction takes a table out of the current version (DBFiles).        *)
Obsolete(key) ==
  /\ key \in current
  /\ current' = current \ {key}
  /\ UNCHANGED <<c, th, exists, gc>>

(* Mutant: only the current version is looked at.                          *)
EvictPinned(key) ==
  /\ gc = 0 /\ key \in exists \ current
  /\ c' = Erase(c, key)
  /\ gc' = key
  /\ UNCHANGED <<th, current, exists>>

(* DeleteObsoleteFiles takes a table that no version anybody holds names:  *)
(* out of the cache first, then off the disk.                              *)
Evict(key) ==
  /\ gc = 0 /\ key \in exists \ current
  /\ \A t \in Threads : th[t].key # key
  /\ c' = Erase(c, key)
  /\ gc' = key
  /\ UNCHANGED <<th, current, exists>>

DeleteFile ==
  /\ gc # 0
  /\ exists' = exists \ {gc} /\ gc' = 0
  /\ UNCHANGED <<c, th, current>>

(* ~LRUCache, when the database is closed and no handle is out.            *)
Destroy ==
  /\ gc = 0 /\ \A t \in Threads : th[t] = Idle
  /\ c' = FoldLeft(LAMBDA s, e : Unref(LRU_Remove(s, e), e), c, c.lru)
  /\ th' = [t \in Threads |-> [Idle EXCEPT !.pc = "done"]]
  /\ UNCHANGED <<current, exists, gc>>

Next ==
  \/ \E t \in Threads : \/ \E key \in Keys : Pin(t, key)
                        \/ Unpin(t) \/ FindTable(t) \/ InsertTable(t)
                        \/ OpenFail(t) \/ Release(t)
  \/ \E key \in Keys : Obsolete(key) \/ Evict(key)
  \/ DeleteFile \/ Destroy

Spec == Init /\ [][Next]_vars

----------------------------------------------------------------------------
(* Properties.                                                             *)

Cached == ToSet(c.lru)
Holders(e) == {t \in Threads : th[t].h = e}

(* An entry is referenced once by the cache and once by each thread that   *)
(* has its handle, so nobody uses an entry that was freed, with evictions, *)
(* replacements and erasures of held entries at any time, and none leaks:  *)
(* nothing is left when the cache is destroyed.                            *)
RefsExact ==
  /\ \A e \in Handles :
       c.h[e].refs = Cardinality(Holders(e)) + (IF e \in Cached THEN 1 ELSE 0)
  /\ \A t \in Threads : th[t].pc = "hold" => c.h[th[t].h].key = th[t].key
  /\ \A t \in Threads : th[t].pc = "done" => Allocated = {}

(* The hash table and the LRU list hold the same entries, one for a key,   *)
(* each where a lookup finds it, also after the table has grown and after  *)
(* an entry was replaced by that of a thread that opened the same table.   *)
TableMatchesList ==
  \A t \in Threads : th[t].pc # "done" =>
    /\ IsInjective(c.lru) /\ c.elems = Len(c.lru)
    /\ \A e \in Cached : TableLookup(c, c.h[e].key) = e
    /\ UNION {ToSet(c.list[i]) : i \in DOMAIN c.list} = Cached

(* usage_ is what is allocated, held entries that were evicted included,   *)
(* and the cache keeps nothing of its own above its capacity.              *)
UsageExact ==
  /\ c.usage = MapThenSumSet(LAMBDA e : Charge[c.h[e].key], Allocated)
  /\ c.usage > Capacity => c.lru = <<>>

(* A table that was deleted, or is about to be, is neither cached nor in   *)
(* use, and no thread is about to open it.                                 *)
NoDeletedTable ==
  \A key \in Keys : key \notin exists \/ key = gc =>
    /\ \A e \in Allocated : c.h[e].key # key
    /\ \A t \in Threads : th[t].key # key

=============================================================================
