---------------------------- MODULE DurableStore ----------------------------
(***************************************************************************)
(* What a LevelDB database promises about durability, without its files:   *)
(* include/leveldb/options.h (WriteOptions::sync) and doc/index.html       *)
(* ("Synchronous Writes").                                                 *)
(*                                                                         *)
(* data is what a restart of the process would find, safe the part of it   *)
(* that no crash of the machine can take away.  Flushes, compactions, the  *)
(* deletion of obsolete files and recoveries are not visible here: they    *)
(* may make more data safe, and change nothing else.                       *)
(***************************************************************************)
EXTENDS Naturals

CONSTANT Write      \* the writes there can be

VARIABLES
  data,     \* the writes in the database
  safe,     \* those that survive every crash
  acked,    \* acknowledged writes that have not been lost in a crash
  crashes   \* how many crashes there have been

vars == <<data, safe, acked, crashes>>

TypeOK ==
  /\ safe \subseteq data /\ data \subseteq Write
  /\ acked \subseteq [w : Write, sync : BOOLEAN]
  /\ crashes \in Nat

Init == data = {} /\ safe = {} /\ acked = {} /\ crashes = 0

(* A write takes effect, all of it at once; it is not acknowledged yet.    *)
Commit ==
  /\ UNCHANGED <<acked, crashes>>
  /\ \E w \in Write \ data : data' = data \cup {w}
  /\ safe \subseteq safe' /\ safe' \subseteq data'

(* More of the data reaches the disk.                                      *)
Persist ==
  /\ UNCHANGED <<acked, crashes, data>>
  /\ safe \subseteq safe' /\ safe' \subseteq data

(* A write returns OK: it has taken effect, and if it was a sync write it  *)
(* is safe.                                                                *)
Acknowledge ==
  /\ UNCHANGED <<crashes, data, safe>>
  /\ \E a \in [w : data, sync : BOOLEAN] :
       /\ a.sync => a.w \in safe
       /\ acked' = acked \cup {a}

(* A crash leaves the safe data, and perhaps more.                         *)
Crash ==
  /\ crashes' = crashes + 1
  /\ safe \subseteq data' /\ data' \subseteq data
  /\ safe \subseteq safe' /\ safe' \subseteq data'
  /\ acked' = {a \in acked : a.w \in data'}

Next == Persist \/ Acknowledge \/ Commit \/ Crash

Spec == Init /\ [][Next]_vars

(* An acknowledged write is in the database, and safe if it was synced.    *)
AckedKept == \A a \in acked : a.w \in data /\ (a.sync => a.w \in safe)

=============================================================================
