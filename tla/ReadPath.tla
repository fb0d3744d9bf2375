-------------------------------- MODULE ReadPath --------------------------------
(***************************************************************************)
(* Engine::get over the steps of MemTable::apply: the composition of       *)
(* MemTable with the layers below the active table.  A get that does not   *)
(* find its key in the active table goes on to the frozen table and the    *)
(* SSTables, which are one table here: an installation changes no answer   *)
(* (InstallKeeps in ReadProofs).                                           *)
(*                                                                         *)
(* put, delete and get hold the read lock of the snapshot from their first *)
(* to their last step, so that the tables are only swapped when none runs. *)
(***************************************************************************)
EXTENDS MemTable

VARIABLES
    below,     \* what the frozen table and the SSTables answer for each key
    overlapped \* readers that looked for a key in the active table during an apply of it

pathVars == <<below, overlapped>>
readVars == <<vars, pathVars>>
-------------------------------------------------------------------------------
Over(new, old) == IF Present(new) THEN new ELSE old

\* write_op: numbers are taken in the order of the writes, so that one taken after a
\* swap is above all that were swapped out.
Write(t) ==
    /\ ApplyBegin(t)
    /\ \A k \in Keys : op'[t].rec.seq > below[k].seq
    /\ UNCHANGED pathVars

WriteStep(t) == Apply(t) /\ UNCHANGED pathVars

\* schedule_flush under the write lock: the active table becomes the frozen one, and an
\* empty one takes its place.
SwapHides ==
    /\ \A t \in Threads : At(t, "idle")
    /\ \E k \in Keys : Present(map[k])
    /\ below' = map
    /\ map' = [k \in Keys |-> Absent] /\ bytes' = 0 /\ raced' = {}
    /\ UNCHANGED <<pc, op, called, done, overlapped>>
Swap ==
    /\ \A t \in Threads : At(t, "idle")
    /\ \E k \in Keys : Present(map[k])
    /\ below' = [k \in Keys |-> Over(map[k], below[k])]
    /\ map' = [k \in Keys |-> Absent] /\ bytes' = 0 /\ raced' = {}
    /\ UNCHANGED <<pc, op, called, done, overlapped>>

Read(t) == GetBegin(t) /\ UNCHANGED pathVars

\* lookup_mem in the active table.
LookActive(t) ==
    /\ Get(t)
    /\ overlapped' = IF \E u \in Writers : Applying(u, Key(t)) THEN overlapped \cup {t}
                                                               ELSE overlapped
    /\ UNCHANGED below

\* A tombstone in the active table is an answer; a missing key is looked for below.
LookBelowPastTombstone(t) ==
    /\ At(t, "got") /\ (Present(Rec(t)) => Rec(t).tombstone)
    /\ op' = [op EXCEPT ![t].rec = below[Key(t)]]
    /\ Goto(t, "answered")
    /\ UNCHANGED <<map, bytes, called, done, raced, pathVars>>
LookBelow(t) ==
    /\ At(t, "got") /\ ~Present(Rec(t))
    /\ op' = [op EXCEPT ![t].rec = below[Key(t)]]
    /\ Goto(t, "answered")
    /\ UNCHANGED <<map, bytes, called, done, raced, pathVars>>

Answered(t) == At(t, "answered") \/ (At(t, "got") /\ Present(Rec(t)))
ReadReturn(t) ==
    /\ Answered(t)
    /\ Return(t)
    /\ overlapped' = overlapped \ {t}
    /\ UNCHANGED <<map, bytes, called, done, raced, below>>
-------------------------------------------------------------------------------
ReadInit ==
    /\ Init
    /\ below = [k \in Keys |-> Absent] /\ overlapped = {}

ReadNext ==
    \/ Swap
    \/ \E t \in Threads : \/ Write(t) \/ WriteStep(t)
                          \/ Read(t) \/ LookActive(t) \/ LookBelow(t) \/ ReadReturn(t)

ReadSpec == ReadInit /\ [][ReadNext]_readVars

\* A put or delete that has begun keeps running.
FairReadSpec == ReadSpec /\ \A t \in Writers : WF_readVars(WriteStep(t))
-------------------------------------------------------------------------------
(***************************************************************************)
(* Properties.                                                             *)
(***************************************************************************)
\* Every variable keeps its shape; the byte counter saturates at zero instead of
\* wrapping when writers subtract the same old entry twice.
ReadTypeOK ==
    /\ map \in [Keys -> Entries] /\ done \in [Keys -> Entries] /\ below \in [Keys -> Entries]
    /\ bytes \in 0..MaxSeq * (KeyLen + Overhead + Max(ValueLens \cup {0}))
    /\ pc \in [Threads -> Busy \cup {"idle", "get", "got", "answered"}]
    /\ op \in [Threads -> Ops]
    /\ called \subseteq 1..MaxSeq /\ raced \subseteq Keys /\ overlapped \subseteq Readers

\* Whatever the order in which concurrent puts and deletes remove and insert, and
\* wherever swaps fall between them: once they have returned each key has the newest of
\* them, in the active table or, if it was swapped out since, below (memtable.rs:339).
NewestWins ==
    \A k \in Keys : (\A t \in Threads : ~Applying(t, k)) => Over(map[k], below[k]) = done[k]

\* What a get may answer while its key is written: the newest entry at its call or a
\* newer one; or else its look at the active table fell into an apply of that key, and it
\* answers with exactly what the layers below hold, never with an older entry of the
\* active table and never with another key's.
CurrentOrBelow ==
    \A t \in Readers : Answered(t) /\ Key(t) \notin raced =>
        \/ Rec(t).seq >= op[t].node.seq
        \/ t \in overlapped /\ Rec(t) = below[Key(t)]

\* A tombstone stops the lookup: a value that was deleted, or overwritten, before the
\* get began is not answered, "resucitaria un valor ya borrado" (memtable.rs:7-9).
NeverResurrected ==
    \A t \in Readers : Answered(t) /\ ~Rec(t).tombstone /\ Present(Rec(t)) =>
        Rec(t).seq >= op[t].node.seq
===============================================================================
