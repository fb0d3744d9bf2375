-------------------------------- MODULE MemTable --------------------------------
(***************************************************************************)
(* The concurrent MemTable of src/src/memtable.rs.  put and delete are one *)
(* apply of several atomic steps on a lock-free SkipMap (external):        *)
(* compare_insert removes the entry it replaces before it inserts the new  *)
(* one, and searches again when another thread got in between.             *)
(*                                                                         *)
(* Engine runs one apply at a time, under its WAL mutex, and takes it for  *)
(* one step.  What only holds without two applies of one key at a time is  *)
(* stated for the keys that are not in `raced`.  ReadPath puts the steps   *)
(* together with the rest of Engine::get.                                  *)
(***************************************************************************)
EXTENDS Naturals, FiniteSets, FiniteSetsExt

CONSTANTS
    Keys,
    Writers,     \* threads that call put and delete
    Readers,     \* threads that call get
    MaxSeq,      \* bound: the sequence numbers put and delete are called with
    KeyLen,      \* bytes of a key
    ValueLens    \* bytes of the values that are put

Threads == Writers \cup Readers

ASSUME MemTableAssumption ==
    /\ MaxSeq \in Nat /\ KeyLen \in Nat /\ ValueLens \subseteq Nat /\ IsFiniteSet(ValueLens)
    /\ Keys # {} /\ IsFiniteSet(Keys) /\ Writers \cap Readers = {}

VARIABLES
    map,       \* MemTable.map: the entry get finds for each key
    bytes,     \* MemTable.approx_bytes
    pc, op,    \* where each thread is in its call, and what the call knows
    called,    \* sequence numbers some put or delete was called with
    done,      \* the newest record of every key whose apply has returned, swapped out or not
    raced      \* keys two applies of which ran at the same time

vars == <<map, bytes, pc, op, called, done, raced>>
-------------------------------------------------------------------------------
Overhead == 16
Absent == [seq |-> 0, tombstone |-> FALSE, len |-> 0]
Entries == {Absent} \cup [seq : 1..MaxSeq, tombstone : BOOLEAN, len : ValueLens \cup {0}]
Present(e) == e # Absent

\* Record::encoded_size; unwrap_or(0) for an entry that is not there.
EncodedSize(e) ==
    IF ~Present(e) THEN 0 ELSE KeyLen + (IF e.tombstone THEN 0 ELSE e.len) + Overhead

\* saturating_sub
Minus(a, b) == IF a > b THEN a - b ELSE 0

Newer(a, b) == IF a.seq >= b.seq THEN a ELSE b

Ops == [key : Keys, rec : Entries, node : Entries, old : Nat]
At(t, l) == pc[t] = l
Goto(t, l) == pc' = [pc EXCEPT ![t] = l]
Key(t) == op[t].key
Rec(t) == op[t].rec

\* The predicate that apply gives to compare_insert.
ReplacesAll(rec, old) == TRUE
Replaces(rec, old) == rec.seq >= old.seq

Idle(t) == [key |-> CHOOSE k \in Keys : TRUE, rec |-> Absent, node |-> Absent, old |-> 0]
Return(t) == Goto(t, "idle") /\ op' = [op EXCEPT ![t] = Idle(t)]

Busy == {"size", "search", "remove", "insert", "account"}
Applying(t, k) == t \in Writers /\ pc[t] \in Busy /\ Key(t) = k
-------------------------------------------------------------------------------
\* put or delete: the record is built with a number that no other call has.
ApplyBegin(t) ==
    /\ t \in Writers /\ At(t, "idle")
    /\ \E k \in Keys, n \in (1..MaxSeq) \ called, dead \in BOOLEAN, len \in ValueLens :
          /\ op' = [op EXCEPT ![t].key = k,
                              ![t].rec = [seq |-> n, tombstone |-> dead,
                                          len |-> IF dead THEN 0 ELSE len]]
          /\ called' = called \cup {n}
          /\ raced' = IF \E u \in Writers : Applying(u, k) THEN raced \cup {k} ELSE raced
    /\ Goto(t, "size")
    /\ UNCHANGED <<map, bytes, done>>

\* The size of the entry found now is what apply will subtract.
ReadOldSize(t) ==
    /\ At(t, "size")
    /\ op' = [op EXCEPT ![t].old = EncodedSize(map[Key(t)])]
    /\ Goto(t, "search")
    /\ UNCHANGED <<map, bytes, called, done, raced>>

\* compare_insert: nothing there, an entry to replace, or a newer entry, which is
\* returned and makes apply false.
SearchFree(t) ==
    /\ At(t, "search") /\ ~Present(map[Key(t)])
    /\ Goto(t, "insert")
    /\ UNCHANGED <<map, bytes, op, called, done, raced>>

SearchReplace(t) ==
    /\ At(t, "search") /\ Present(map[Key(t)]) /\ Replaces(Rec(t), map[Key(t)])
    /\ op' = [op EXCEPT ![t].node = map[Key(t)]]
    /\ Goto(t, "remove")
    /\ UNCHANGED <<map, bytes, called, done, raced>>

SearchObsoleteRetries(t) ==
    /\ At(t, "search") /\ Present(map[Key(t)]) /\ ~Replaces(Rec(t), map[Key(t)])
    /\ Goto(t, "size")
    /\ UNCHANGED <<map, bytes, op, called, done, raced>>
SearchObsolete(t) ==
    /\ At(t, "search") /\ Present(map[Key(t)]) /\ ~Replaces(Rec(t), map[Key(t)])
    /\ done' = [done EXCEPT ![Key(t)] = Newer(Rec(t), @)]
    /\ Return(t)
    /\ UNCHANGED <<map, bytes, called, raced>>

\* The node found is marked as removed, unless another thread has done so.
Remove(t) ==
    /\ At(t, "remove")
    /\ map' = [map EXCEPT ![Key(t)] = IF @ = op[t].node THEN Absent ELSE @]
    /\ Goto(t, "search")
    /\ UNCHANGED <<bytes, op, called, done, raced>>

\* The new node is linked if the key is still free; if not, the search starts again.
Insert(t) ==
    /\ At(t, "insert")
    /\ IF Present(map[Key(t)])
       THEN Goto(t, "search") /\ UNCHANGED map
       ELSE Goto(t, "account") /\ map' = [map EXCEPT ![Key(t)] = Rec(t)]
    /\ UNCHANGED <<bytes, op, called, done, raced>>

\* fetch_update of approx_bytes; apply returns true.
AccountUnsaturated(t) ==
    /\ At(t, "account")
    /\ bytes' = (bytes - op[t].old) + EncodedSize(Rec(t))
    /\ done' = [done EXCEPT ![Key(t)] = Newer(Rec(t), @)]
    /\ Return(t)
    /\ UNCHANGED <<map, called, raced>>
AccountNew(t) ==
    /\ At(t, "account")
    /\ bytes' = bytes + EncodedSize(Rec(t))
    /\ done' = [done EXCEPT ![Key(t)] = Newer(Rec(t), @)]
    /\ Return(t)
    /\ UNCHANGED <<map, called, raced>>
Account(t) ==
    /\ At(t, "account")
    /\ bytes' = Minus(bytes, op[t].old) + EncodedSize(Rec(t))
    /\ done' = [done EXCEPT ![Key(t)] = Newer(Rec(t), @)]
    /\ Return(t)
    /\ UNCHANGED <<map, called, raced>>

\* get: one lookup in the map.  `rec` is the answer, `node` what had been applied when
\* the call began.
GetBegin(t) ==
    /\ t \in Readers /\ At(t, "idle")
    /\ \E k \in Keys : op' = [op EXCEPT ![t].key = k, ![t].node = done[k]]
    /\ Goto(t, "get")
    /\ UNCHANGED <<map, bytes, called, done, raced>>

Get(t) ==
    /\ At(t, "get")
    /\ op' = [op EXCEPT ![t].rec = map[Key(t)]]
    /\ Goto(t, "got")
    /\ UNCHANGED <<map, bytes, called, done, raced>>

-------------------------------------------------------------------------------
Init ==
    /\ map = [k \in Keys |-> Absent] /\ bytes = 0
    /\ pc = [t \in Threads |-> "idle"] /\ op = [t \in Threads |-> Idle(t)]
    /\ called = {} /\ done = [k \in Keys |-> Absent] /\ raced = {}

Apply(t) == \/ ReadOldSize(t) \/ SearchFree(t) \/ SearchReplace(t) \/ SearchObsolete(t)
            \/ Remove(t) \/ Insert(t) \/ Account(t)
-------------------------------------------------------------------------------
(***************************************************************************)
(* Properties.                                                             *)
(***************************************************************************)
\* Applies of different keys may run at the same time: once they have returned,
\* approx_bytes is the size of the entries, tombstones and overwritten values included,
\* so is_full never drifts (memtable.rs:331-349).
SizeExact ==
    raced = {} /\ (\A t \in Writers : At(t, "idle")) =>
        bytes = MapThenSumSet(LAMBDA k : EncodedSize(map[k]), Keys)

\* Every apply returns, whoever else writes the same key.
ApplyReturns == \A t \in Writers : At(t, "search") ~> At(t, "idle")
===============================================================================
