------------------------------ MODULE DurableInv ------------------------------
(***************************************************************************)
(* What Durable, the refinement of StateStore and the flags of the flush   *)
(* rest on, beyond IInv: where the only copies of a record are at every    *)
(* step.  The parts need more and more of the clients: none, one thread    *)
(* that flushes, and one thread that writes and flushes.                   *)
(***************************************************************************)
EXTENDS EngineInv

\* The engine implements the one-table store, which holds what was acknowledged and shows
\* what get finds through the layers.
Abstract == INSTANCE StateStore
    WITH up <- Serving, store <- committed, shown <- (IF Serving THEN Visible ELSE EmptyTable)
ImplementsStore == Abstract!Spec

\* The two restrictions under which the code keeps its promises (see Durable).
OneFlusher == \A t, u \in Flushers : t = u
SoleClient == ~CrashInRecovery /\ \A t, u \in Writers \cup Flushers : t = u
-------------------------------------------------------------------------------
\* A record that is d, or a newer one.
Reaches(c, d) == c = d \/ c.seq > d.seq
Covers(t, u) == \A k \in Keys : Reaches(t[k], u[k])

\* A number belongs to one record, whatever copies of it are around.
InWrite(k) == {op[t].cell : t \in {u \in Threads : pc[u] \in Applying /\ op[u].key = k}}
AllCells(k) ==
    {wal.log[k], wal.tail[k], flushWal.log[k], flushWal.tail[k], active[k], frozen.tab[k]}
    \cup {s.tab[k] : s \in sstFiles} \cup InWrite(k)
InvUnique == \A k \in Keys : \A c, d \in AllCells(k) : c.seq = d.seq => c = d

\* The leftover of a failed append is newer than what the log has.
TailNewer(w) == \A k \in Keys : IsHit(w.tail[k]) => w.tail[k].seq > w.log[k].seq
InvTails == TailNewer(wal) /\ TailNewer(flushWal)

\* A write under the mutex is in the log, and newer than everything in memory.
InvWriting ==
    \A t \in Threads : pc[t] \in Applying =>
        LET n == op[t].cell.seq IN
        /\ wal.log[op[t].key] = op[t].cell
        /\ AllBelow(active, n) /\ AllBelow(frozen.tab, n)
        /\ \A s \in sstFiles : AllBelow(s.tab, n)

InvNumbers == InvUnique /\ InvTails /\ InvWriting

\* put and delete are called by writers, the flush calls by flushers.
Writing == {"write_wal"} \cup Applying
Flushing == Waiting \cup Owning \cup {"check", "flushed", "sched_swap"}
InvRoles ==
    \A t \in Threads : /\ pc[t] \in Writing => t \in Writers
                       /\ pc[t] \in Flushing => t \in Flushers

\* With one flusher: between its wait and its send the channel and the worker are empty,
\* so no unlink of an earlier job can meet the log of a later one.
InvSerial ==
    /\ InFlightTracksJob
    /\ \A t \in Threads : pc[t] \in Owning \cup {"sched_swap"} => jobs = <<>> /\ worker.pc = "recv"
    /\ \A t \in Threads : pc[t] = "send" => inFlight
    /\ jobs # <<>> => worker.pc = "recv"
    /\ \A t \in Threads : pc[t] = "rot_remove" => Exists(flushWal)
    /\ Rotated => Exists(flushWal)
    /\ worker.pc \in {"unlink_check", "unlink"} => ~frozen.some

\* With one client: where the records of the active and of the frozen table are on disk,
\* and what an open that has read the files has kept.
BeforeRename == {"rot_lock", "rot_remove", "rot_rename"}
ActiveKept ==
    /\ \A t \in Threads : pc[t] \in Owning => active = EmptyTable
    /\ mode \in {"open_create", "open_header"} => active = EmptyTable
    /\ mode = "spawn" \/ Serving => Covers(wal.log, active)
    /\ mode = "checkpoint" => \A k \in Keys \ unwritten : Reaches(wal.log[k], active[k])
FrozenKept ==
    /\ \A t \in Threads : pc[t] \in BeforeRename => Covers(wal.log, frozen.tab)
    /\ Rotated => Covers(Records(flushWal), frozen.tab)
    /\ frozen.some => \/ Covers(wal.log, frozen.tab)
                      \/ Covers(Records(flushWal), frozen.tab)
                      \/ \E s \in sstFiles : s.tab = frozen.tab
AckedOnDisk ==
    /\ Loaded /\ ~Serving => Covers(Visible, committed)
    /\ ~Loaded => \A k \in Keys : \E c \in DiskCells(k) : Reaches(c, committed[k])

\* A get finds what was acknowledged; where an overwrite hides it, something older.
Shown ==
    Serving => \A k \in Keys : IF k \in Hidden THEN Reaches(committed[k], Visible[k])
                                               ELSE Visible[k] = committed[k]
AckedBelow ==
    /\ Loaded => AllBelow(committed, nextSeq)
    /\ \A t \in Threads : pc[t] \in Applying => AllBelow(committed, op[t].cell.seq)
InvKept == ActiveKept /\ FrozenKept /\ AckedOnDisk /\ Shown /\ AckedBelow

DurableInv == InvNumbers /\ (OneFlusher => InvRoles /\ InvSerial) /\ (SoleClient => InvKept)
===============================================================================
