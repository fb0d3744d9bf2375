------------------------------- MODULE EngineInv -------------------------------
(***************************************************************************)
(* The inductive invariant of Engine.  NewestFirst is not inductive: what  *)
(* a swap, an installation or a recovery stacks on the SSTables is right   *)
(* only because of where the locks, the one pending flush job, the two     *)
(* logs and the sequence counter are at that moment.                       *)
(***************************************************************************)
EXTENDS Engine

Loaded == mode \notin {"down", "refused"}
AllBelow(t, n) == \A k \in Keys : t[k].seq < n

\* A thread between its swap and its send owns the job of the frozen table (Owning); so
\* does the channel, then the worker until it has installed it (WorkerOwns).
RotationDone == {"rot_create", "rot_header", "mark", "send"}

\* Locks: a write is under the read lock, an append or a rotation under the mutex.
\* Past its first step a get has a key, and so has a write past its append.
Keyed == Applying \cup {"get_active", "get_below", "reply"}
InvLocks ==
    \A t \in Threads : /\ pc[t] \in {"write_wal"} \cup Applying => t \in readers
                       /\ pc[t] \in Applying \cup Rotating => walHolder = t
                       /\ pc[t] \in Keyed => op[t].key \in Keys

\* Nothing runs in a process that does not serve.
InvQuiet ==
    /\ mode # "up" => \A t \in Threads : pc[t] = "idle"
    /\ ~Serving => frozen = NoFrozen /\ jobs = <<>> /\ worker.pc = "stopped"
    /\ ~Loaded => active = EmptyTable /\ sstables = <<>>
    /\ ~frozen.some => frozen.tab = EmptyTable

\* A Wal in the slot is a Wal of a file that exists; a missing file has no records.
InvSlot ==
    /\ walOpen => Exists(wal)
    /\ \A t \in Threads : pc[t] \in Rotating => ~walOpen
    /\ mode = "drop_wal" => ~walOpen
    /\ mode \in {"checkpoint", "spawn"} => walOpen
    /\ ~Exists(flushWal) => flushWal = NoWal
    /\ ~Exists(wal) => wal = NoWal

\* While the process serves, the slot is only empty during a rotation, or after one that
\* did not come to its end.
InvEmptySlot == Serving => walOpen \/ Abandoned \/ \E t \in Threads : pc[t] \in Rotating

\* The frozen table has at most one owner, who carries exactly that table under an
\* id that is still unpublished (published, once the worker is about to install).
OwnedJob(j) == frozen.some /\ j.tab = frozen.tab /\ j.id < nextSst
Unpublished(j) == \A s \in sstFiles : s.id < j.id
InvOwner ==
    /\ \A t \in Threads : pc[t] \in Owning =>
          /\ OwnedJob(op[t].job) /\ Unpublished(op[t].job)
          /\ jobs = <<>> /\ ~WorkerOwns
          /\ \A u \in Threads : pc[u] \in Owning => u = t
    /\ jobs # <<>> => /\ Len(jobs) = 1 /\ ~WorkerOwns
                      /\ OwnedJob(jobs[1]) /\ Unpublished(jobs[1])
    /\ WorkerOwns => OwnedJob(worker.job)
    /\ worker.pc = "write" => Unpublished(worker.job)
    /\ worker.pc = "install" => /\ worker.job \in sstFiles
                                /\ \A i \in 1..Len(sstables) : sstables[i].id < worker.job.id

\* The order of the tables: active over frozen over the published files by their ids.
InvLayers ==
    /\ Shadows(active, frozen.tab)
    /\ \A s \in sstFiles : Shadows(active, s.tab) /\ Shadows(frozen.tab, s.tab)
    /\ \A s, u \in sstFiles : s.id < u.id => Shadows(u.tab, s.tab)
    /\ \A i \in 1..Len(sstables) : sstables[i] \in sstFiles
    /\ \A i, j \in 1..Len(sstables) : i < j => sstables[i].id < sstables[j].id
    /\ Loaded => \A s \in sstFiles : s.id < nextSst

\* Whatever the log in use holds for a key is the newest there is.
Newest(t) ==
    /\ mode # "drop_wal" => Shadows(t, active)
    /\ Shadows(t, frozen.tab)
    /\ \A s \in sstFiles : Shadows(t, s.tab)
InvWal == Newest(wal.log) /\ Newest(wal.tail)

\* The rotated log is not older than a published file, nor than the frozen table once
\* that table's rotation is done.
Rotated == \/ jobs # <<>> \/ worker.pc = "write"
           \/ \E t \in Threads : pc[t] \in RotationDone
InvFlushWal ==
    /\ \A s \in sstFiles : Shadows(Records(flushWal), s.tab)
    /\ Rotated => Shadows(Records(flushWal), frozen.tab)

\* Numbers: everything in memory or on disk is below the counter, and the write that
\* is between its append and its put is the newest for its key everywhere.
InvFresh ==
    Loaded => /\ AllBelow(active, nextSeq) /\ AllBelow(frozen.tab, nextSeq)
              /\ \A s \in sstFiles : AllBelow(s.tab, nextSeq)
              /\ AllBelow(wal.log, nextSeq) /\ AllBelow(wal.tail, nextSeq)
              /\ AllBelow(Records(flushWal), nextSeq)
InvInWrite ==
    \A t \in Threads : pc[t] \in Applying =>
        LET k == op[t].key  n == op[t].cell.seq IN
        /\ k \in Keys /\ IsHit(op[t].cell) /\ n < nextSeq
        /\ wal.log[k].seq >= n /\ wal.tail = EmptyTable
        /\ active[k].seq <= n /\ frozen.tab[k].seq <= n
        /\ \A s \in sstFiles : s.tab[k].seq <= n

\* The inductive invariant.
IInv == /\ TypeOK /\ InvLocks /\ InvQuiet /\ InvSlot /\ InvEmptySlot /\ InvOwner
        /\ InvLayers /\ InvWal /\ InvFlushWal /\ InvFresh /\ InvInWrite
===============================================================================
