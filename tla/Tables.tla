-------------------------------- MODULE Tables --------------------------------
(***************************************************************************)
(* The data the engine moves between its layers.  A MemTable, an SSTable   *)
(* and a write-ahead log are all seen as the table they stand for: per key *)
(* the newest entry, which is a put, a tombstone, or nothing.  A value is  *)
(* identified by the sequence number of the put that wrote it.             *)
(***************************************************************************)
EXTENDS Naturals

CONSTANT Keys

\* memtable.rs Lookup: the three answers of a lookup.  A tombstone is an answer.
Missing == [seq |-> 0, kind |-> "Missing"]
Cells == {Missing} \cup [seq : Nat \ {0}, kind : {"Put", "Tombstone"}]
IsHit(c) == c.kind # "Missing"

Tables == [Keys -> Cells]
EmptyTable == [k \in Keys |-> Missing]

\* is_empty() is len() = 0, and len() counts the entries that are linked: it is 0 as well
\* while the only entry is being overwritten.
IsEmpty(t) == t = EmptyTable

\* MemTable::apply installs a record unless the entry it finds is strictly newer.
Supersedes(new, old) == new.seq >= old.seq

\* SkipMap::compare_insert overwrites in two steps, each of which other threads can see:
\* the old entry is removed, and len() counts one less; then the new one is linked.
Overwrites(t, k, c) == IsHit(t[k]) /\ Supersedes(c, t[k])
MemRemove(t, k) == [t EXCEPT ![k] = Missing]

\* apply as a whole: what it does to a table that no other thread looks at, and the
\* second step of an overwrite.
MemPut(t, k, c) == IF Supersedes(c, t[k]) THEN [t EXCEPT ![k] = c] ELSE t

\* Replaying the records of `new` on top of `old`, each one by MemTable::apply.
Replay(old, new) == [k \in Keys |-> IF Supersedes(new[k], old[k]) THEN new[k] ELSE old[k]]

\* Every entry of `newer` is at least as new as the entry of `older` under it.
Shadows(newer, older) == \A k \in Keys : IsHit(newer[k]) => newer[k].seq >= older[k].seq
===============================================================================
