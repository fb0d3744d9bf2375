-------------------------------- MODULE Engine --------------------------------
(***************************************************************************)
(* The engine of src/src/engine.rs: client threads that put, delete, get   *)
(* and flush, the flush worker, the files they share, process crashes, and *)
(* the recovery that Engine::open runs over those files.                   *)
(*                                                                         *)
(* One action is one step between two synchronisation points.  The write   *)
(* lock of the snapshot is only ever held inside one step, so it needs no  *)
(* variable: those steps are guarded by `readers = {}`.  A read lock and   *)
(* the WAL mutex are held across steps and are variables.                  *)
(***************************************************************************)
EXTENDS Tables, Integers, Sequences, FiniteSets

CONSTANTS
    Writers,          \* threads that call put and delete
    Readers,          \* threads that call get
    Flushers,         \* threads that call flush, schedule_flush and wait_flush
    None,             \* no thread, no key
    MaxSeq,           \* bound: no write begins once nextSeq is above it
    MaxCrashes,       \* bound on the number of process crashes
    MaxFaults,        \* bound on the number of I/O calls that fail
    CrashInRecovery   \* whether a crash may also hit the rewrite of the WAL

Threads == Writers \cup Readers \cup Flushers

ASSUME NoneAssumption == None \notin Keys /\ None \notin Threads
ASSUME BoundsAssumption ==
    MaxSeq \in Nat /\ MaxCrashes \in Nat /\ MaxFaults \in Nat /\ CrashInRecovery \in BOOLEAN

VARIABLES
    \* the data directory
    wal,         \* the file "wal"
    flushWal,    \* the file "wal.flush"
    sstFiles,    \* the published *.sst files: their id and their table
    \* Inner
    active,      \* Snapshot.active
    frozen,      \* Snapshot.frozen, an Option
    sstables,    \* Snapshot.sstables, the oldest first
    readers,     \* threads that hold the snapshot's read lock across steps
    walHolder,   \* the thread that holds the WAL mutex across steps
    walOpen,     \* whether the slot Mutex<Option<Wal>> holds a Wal
    nextSeq,     \* Inner.next_seq
    nextSst,     \* Inner.next_sst
    inFlight,    \* FlushCtl.in_flight
    lastErr,     \* whether FlushCtl.last_err holds an error
    jobs,        \* the channel job_tx -> run_worker
    \* control
    mode,        \* what the process is doing as a whole
    pc,          \* where each client thread is inside its call
    op,          \* what that call knows
    worker,      \* the flush worker
    unwritten,   \* keys checkpoint_mem has not yet appended
    \* bookkeeping of the model
    crashes, faults,
    committed    \* the newest acknowledged write of every key; a record that was never
                 \* acknowledged counts from the open that finds and shows it

files   == <<wal, flushWal, sstFiles>>
snap    == <<active, frozen, sstables>>
locks   == <<readers, walHolder, walOpen>>
ctl     == <<nextSeq, nextSst, inFlight, lastErr, jobs>>
threads == <<pc, op>>
ghosts  == <<crashes, faults, committed>>
vars    == <<files, snap, locks, ctl, mode, threads, worker, unwritten, ghosts>>
-------------------------------------------------------------------------------
\* A log: no file, a file without a valid header, or a header and records.
\* `log` is the table its acknowledged records stand for; `tail` the record of
\* a failed append that may have reached the disk: the next append overwrites it.
Wals == [st : {"absent", "blank", "ready"}, log : Tables, tail : Tables]
NoWal    == [st |-> "absent", log |-> EmptyTable, tail |-> EmptyTable]
BlankWal == [st |-> "blank",  log |-> EmptyTable, tail |-> EmptyTable]
NewWal   == [st |-> "ready",  log |-> EmptyTable, tail |-> EmptyTable]
Exists(w) == w.st # "absent"
Valid(w)  == w.st # "blank"

\* What scan_end and replay find in the file: a tail that is whole is a record.
Records(w) == Replay(w.log, w.tail)
AppendPastTail(w, k, c) == [w EXCEPT !.log = MemPut(w.log, k, c)]
AppendWal(w, k, c) == [w EXCEPT !.log = MemPut(w.log, k, c), !.tail = EmptyTable]

SSTs == [id : Nat, tab : Tables]
NoJob == [id |-> 0, tab |-> EmptyTable]

Frozen == [some : BOOLEAN, tab : Tables]
NoFrozen == [some |-> FALSE, tab |-> EmptyTable]

\* What a call knows: the key and the record of a write or of an answer, whether it is a
\* flush, and its job.  For the properties it remembers what was visible at its call
\* (`floor`) and below the active table (`under`), and the keys it met in the middle of an
\* overwrite (`met`).
Ops == [key : Keys \cup {None}, cell : Cells, flushing : BOOLEAN, job : SSTs,
        floor : Tables, under : Cells, met : SUBSET Keys]
NoOp == [key |-> None, cell |-> Missing, flushing |-> FALSE, job |-> NoJob,
         floor |-> EmptyTable, under |-> Missing, met |-> {}]

Idle == [pc |-> "recv", job |-> NoJob, err |-> FALSE]
Stopped == [Idle EXCEPT !.pc = "stopped"]

Recovering == {"drop_wal", "drop_flush", "rec_create", "rec_header", "checkpoint"}
Serving == mode \in {"up", "closing"}

Waiting == {"wait_only", "flush_wait", "sched_wait", "wait_again"}
Rotating == {"rot_remove", "rot_rename", "rot_create", "rot_header"}

\* A write past its append; between the two steps of an overwrite its key is hidden.
Applying == {"write_mem", "write_insert"}
Hidden == {op[t].key : t \in {u \in Threads : pc[u] = "write_insert"}}
-------------------------------------------------------------------------------
\* Engine::get: active, then frozen, then the SSTables from the newest to the oldest.
SstHits(k) == {i \in 1..Len(sstables) : IsHit(sstables[i].tab[k])}
OldestFirst(i, j) == i <= j
ProbeOrder(i, j) == i >= j
LookupSst(k) ==
    IF SstHits(k) = {} THEN Missing
    ELSE sstables[CHOOSE i \in SstHits(k) : \A j \in SstHits(k) : ProbeOrder(i, j)].tab[k]
LookupDisk(k) == LookupSst(k)
LookupBelow(k) == IF frozen.some /\ IsHit(frozen.tab[k]) THEN frozen.tab[k] ELSE LookupSst(k)
Lookup(k) == IF IsHit(active[k]) THEN active[k] ELSE LookupBelow(k)
Visible == [k \in Keys |-> Lookup(k)]

\* The sequence numbers of every record on disk.
DiskCells(k) == {Records(wal)[k], Records(flushWal)[k]} \cup {s.tab[k] : s \in sstFiles}
DiskSeqs == {0} \cup UNION {{c.seq : c \in DiskCells(k)} : k \in Keys}
-------------------------------------------------------------------------------
At(t, l) == mode = "up" /\ pc[t] = l
Goto(t, l) == pc' = [pc EXCEPT ![t] = l]
Return(t) == Goto(t, "idle") /\ op' = [op EXCEPT ![t] = NoOp]

\* --- put and delete -----------------------------------------------------------
\* put and delete call write_op, which takes the read lock, then waits for the WAL mutex.
WriteBegin(t) ==
    /\ t \in Writers /\ At(t, "idle") /\ nextSeq <= MaxSeq
    /\ readers' = readers \cup {t}
    /\ Goto(t, "write_wal")
    /\ UNCHANGED <<files, snap, walHolder, walOpen, ctl, mode, op, worker, unwritten, ghosts>>

\* The slot is None: Error::WalCorrupt("WAL no inicializado").
WriteNoWal(t) ==
    /\ At(t, "write_wal") /\ walHolder = None /\ ~walOpen
    /\ readers' = readers \ {t}
    /\ Return(t)
    /\ UNCHANGED <<files, snap, walHolder, walOpen, ctl, mode, worker, unwritten, ghosts>>

\* fetch_add on next_seq and Wal::append, both under the mutex.
WriteAppend(t) ==
    /\ At(t, "write_wal") /\ walHolder = None /\ walOpen
    /\ walHolder' = t
    /\ nextSeq' = nextSeq + 1
    /\ \E k \in Keys, kind \in {"Put", "Tombstone"} :
          LET c == [seq |-> nextSeq, kind |-> kind] IN
          /\ wal' = AppendWal(wal, k, c)
          /\ op' = [op EXCEPT ![t].key = k, ![t].cell = c]
    /\ Goto(t, "write_mem")
    /\ UNCHANGED <<flushWal, sstFiles, snap, readers, walOpen, nextSst, inFlight, lastErr, jobs,
                   mode, worker, unwritten, ghosts>>

\* Wal::append returns an error: the number is used up, the offset did not move,
\* and the record is on disk, or not a page of it, or some pages of it are.
WriteAppendFails(t) ==
    /\ At(t, "write_wal") /\ walHolder = None /\ walOpen
    /\ faults < MaxFaults /\ faults' = faults + 1
    /\ nextSeq' = nextSeq + 1
    /\ \/ UNCHANGED wal
       \/ wal' = [wal EXCEPT !.tail = EmptyTable]
       \/ \E k \in Keys, kind \in {"Put", "Tombstone"} :
             wal' = [wal EXCEPT !.tail =
                         MemPut(EmptyTable, k, [seq |-> nextSeq, kind |-> kind])]
    /\ readers' = readers \ {t}
    /\ Return(t)
    /\ UNCHANGED <<flushWal, sstFiles, snap, walHolder, walOpen, nextSst, inFlight, lastErr, jobs,
                   mode, worker, unwritten, crashes, committed>>

\* MemTable::put or delete on the active table, which gets and flushes read meanwhile.
\* The first step of an overwrite:
WriteRemove(t) ==
    /\ At(t, "write_mem") /\ Overwrites(active, op[t].key, op[t].cell)
    /\ active' = MemRemove(active, op[t].key)
    /\ Goto(t, "write_insert")
    /\ UNCHANGED <<files, frozen, sstables, locks, ctl, mode, op, worker, unwritten, ghosts>>

\* Then the record is linked, both locks are released and put returns Ok.
WriteApply(t) ==
    /\ mode = "up" /\ pc[t] \in Applying
    /\ ~Overwrites(active, op[t].key, op[t].cell)
    /\ active' = MemPut(active, op[t].key, op[t].cell)
    /\ committed' = [committed EXCEPT ![op[t].key] = op[t].cell]
    /\ readers' = readers \ {t}
    /\ walHolder' = None
    /\ Return(t)
    /\ UNCHANGED <<files, frozen, sstables, walOpen, ctl, mode, worker, unwritten, crashes, faults>>

\* --- get ----------------------------------------------------------------------
GetBegin(t) ==
    /\ t \in Readers /\ At(t, "idle")
    /\ \E k \in Keys :
          op' = [op EXCEPT ![t].key = k, ![t].floor[k] = Lookup(k), ![t].under = LookupBelow(k)]
    /\ Goto(t, "get_active")
    /\ UNCHANGED <<files, snap, locks, ctl, mode, worker, unwritten, ghosts>>

\* The read lock is taken and the active table is read; a hit is the answer.
GetActive(t) ==
    /\ At(t, "get_active")
    /\ LET c == active[op[t].key] IN
       IF IsHit(c)
       THEN /\ op' = [op EXCEPT ![t].cell = c]
            /\ Goto(t, "reply")
            /\ UNCHANGED readers
       ELSE /\ op' = [op EXCEPT ![t].met = Hidden]
            /\ Goto(t, "get_below")
            /\ readers' = readers \cup {t}
    /\ UNCHANGED <<files, snap, walHolder, walOpen, ctl, mode, worker, unwritten, ghosts>>

GetBelow(t) ==
    /\ At(t, "get_below")
    /\ op' = [op EXCEPT ![t].cell = LookupBelow(op[t].key)]
    /\ readers' = readers \ {t}
    /\ Goto(t, "reply")
    /\ UNCHANGED <<files, snap, walHolder, walOpen, ctl, mode, worker, unwritten, ghosts>>

GetReturn(t) ==
    /\ At(t, "reply")
    /\ Return(t)
    /\ UNCHANGED <<files, snap, locks, ctl, mode, worker, unwritten, ghosts>>

\* --- flush, schedule_flush and wait_flush --------------------------------------
FlushBegin(t) ==
    /\ t \in Flushers /\ At(t, "idle")
    /\ op' = [op EXCEPT ![t].flushing = TRUE, ![t].floor = Visible]
    /\ Goto(t, "flush_wait")
    /\ UNCHANGED <<files, snap, locks, ctl, mode, worker, unwritten, ghosts>>

ScheduleBegin(t) ==
    /\ t \in Flushers /\ At(t, "idle")
    /\ Goto(t, "sched_wait")
    /\ UNCHANGED <<files, snap, locks, ctl, mode, op, worker, unwritten, ghosts>>

WaitBegin(t) ==
    /\ t \in Flushers /\ At(t, "idle")
    /\ Goto(t, "wait_only")
    /\ UNCHANGED <<files, snap, locks, ctl, mode, op, worker, unwritten, ghosts>>

AfterWait == [wait_only |-> "idle", flush_wait |-> "check",
              sched_wait |-> "sched_swap", wait_again |-> "flush_wait"]

\* wait_flush: the condition variable lets a waiter through once nothing is in flight.
WaitOk(t) ==
    /\ mode = "up" /\ pc[t] \in Waiting /\ ~inFlight /\ ~lastErr
    /\ Goto(t, AfterWait[pc[t]])
    /\ UNCHANGED <<files, snap, locks, ctl, mode, op, worker, unwritten, ghosts>>

\* The first waiter takes the error of the last job and returns it to its caller.
WaitErr(t) ==
    /\ mode = "up" /\ pc[t] \in Waiting /\ ~inFlight /\ lastErr
    /\ lastErr' = FALSE
    /\ Return(t)
    /\ UNCHANGED <<files, snap, locks, nextSeq, nextSst, inFlight, jobs, mode, worker, unwritten,
                   ghosts>>

NothingActive == IsEmpty(active)
NothingToFlush == IsEmpty(active) /\ ~frozen.some

FlushCheck(t) ==
    /\ At(t, "check")
    /\ IF NothingToFlush
       THEN Goto(t, "flushed") /\ op' = [op EXCEPT ![t].met = Hidden]
       ELSE Goto(t, "sched_wait") /\ UNCHANGED op
    /\ UNCHANGED <<files, snap, locks, ctl, mode, worker, unwritten, ghosts>>

FlushReturn(t) ==
    /\ At(t, "flushed")
    /\ Return(t)
    /\ UNCHANGED <<files, snap, locks, ctl, mode, worker, unwritten, ghosts>>

\* schedule_flush leaves an older frozen table to its job, and an empty table alone.
NothingToSwapUnchecked == IsEmpty(active)
NothingToSwap == frozen.some \/ IsEmpty(active)

\* schedule_flush returns Ok without a job; flush goes on to its second wait.
AfterSchedule(t) == IF op[t].flushing THEN Goto(t, "wait_again") /\ UNCHANGED op ELSE Return(t)

SchedSkip(t) ==
    /\ At(t, "sched_swap") /\ readers = {}
    /\ NothingToSwap
    /\ AfterSchedule(t)
    /\ UNCHANGED <<files, snap, locks, ctl, mode, worker, unwritten, ghosts>>

\* Under the write lock: the active table is frozen and the SSTable's id is taken.
\* The lock is released before the log is rotated.
SchedSwap(t) ==
    /\ At(t, "sched_swap") /\ readers = {}
    /\ ~NothingToSwap
    /\ frozen' = [some |-> TRUE, tab |-> active]
    /\ active' = EmptyTable
    /\ nextSst' = nextSst + 1
    /\ op' = [op EXCEPT ![t].job = [id |-> nextSst, tab |-> active]]
    /\ Goto(t, "rot_lock")
    /\ UNCHANGED <<files, sstables, locks, nextSeq, inFlight, lastErr, jobs, mode, worker,
                   unwritten, ghosts>>

\* rotate_wal: the Wal in the slot is dropped, then wal.flush is looked for.
RotLock(t) ==
    /\ At(t, "rot_lock") /\ walHolder = None
    /\ walHolder' = t
    /\ walOpen' = FALSE
    /\ Goto(t, IF Exists(flushWal) THEN "rot_remove" ELSE "rot_rename")
    /\ UNCHANGED <<files, snap, readers, ctl, mode, op, worker, unwritten, ghosts>>

RotRemove(t) ==
    /\ At(t, "rot_remove") /\ Exists(flushWal)
    /\ flushWal' = NoWal
    /\ Goto(t, "rot_rename")
    /\ UNCHANGED <<wal, sstFiles, snap, locks, ctl, mode, op, worker, unwritten, ghosts>>

\* The worker removed wal.flush after exists() saw it: remove_file fails and the
\* slot stays None.
RotRemoveLost(t) ==
    /\ At(t, "rot_remove") /\ ~Exists(flushWal)
    /\ walHolder' = None
    /\ Return(t)
    /\ UNCHANGED <<files, snap, readers, walOpen, ctl, mode, worker, unwritten, ghosts>>

\* The file is there: a rotation that took it away and failed leaves its table frozen,
\* and then there is no other rotation.
RotRenameRemoves(t) ==
    /\ At(t, "rot_rename") /\ Exists(wal)
    /\ wal' = NoWal
    /\ Goto(t, "rot_create")
    /\ UNCHANGED <<flushWal, sstFiles, snap, locks, ctl, mode, op, worker, unwritten, ghosts>>
RotRename(t) ==
    /\ At(t, "rot_rename") /\ Exists(wal)
    /\ flushWal' = wal
    /\ wal' = NoWal
    /\ Goto(t, "rot_create")
    /\ UNCHANGED <<sstFiles, snap, locks, ctl, mode, op, worker, unwritten, ghosts>>

\* Wal::create: open(2) with O_TRUNC, then the header page.
RotCreate(t) ==
    /\ At(t, "rot_create")
    /\ wal' = BlankWal
    /\ Goto(t, "rot_header")
    /\ UNCHANGED <<flushWal, sstFiles, snap, locks, ctl, mode, op, worker, unwritten, ghosts>>

RotHeaderKeepsSlot(t) ==
    /\ At(t, "rot_header")
    /\ wal' = NewWal
    /\ walHolder' = None
    /\ Goto(t, "mark")
    /\ UNCHANGED <<flushWal, sstFiles, snap, readers, walOpen, ctl, mode, op, worker, unwritten,
                   ghosts>>
RotHeader(t) ==
    /\ At(t, "rot_header")
    /\ wal' = NewWal
    /\ walOpen' = TRUE
    /\ walHolder' = None
    /\ Goto(t, "mark")
    /\ UNCHANGED <<flushWal, sstFiles, snap, readers, ctl, mode, op, worker, unwritten, ghosts>>

\* A call of rotate_wal fails: schedule_flush returns the error, the slot stays None.
RotFails(t) ==
    /\ mode = "up" /\ pc[t] \in Rotating
    /\ faults < MaxFaults /\ faults' = faults + 1
    /\ walHolder' = None
    /\ Return(t)
    /\ UNCHANGED <<files, snap, readers, walOpen, ctl, mode, worker, unwritten, crashes, committed>>

MarkErrorOnly(t) ==
    /\ At(t, "mark")
    /\ lastErr' = FALSE
    /\ Goto(t, "send")
    /\ UNCHANGED <<files, snap, locks, nextSeq, nextSst, inFlight, jobs, mode, op, worker,
                   unwritten, ghosts>>
MarkInFlight(t) ==
    /\ At(t, "mark")
    /\ inFlight' = TRUE
    /\ lastErr' = FALSE
    /\ Goto(t, "send")
    /\ UNCHANGED <<files, snap, locks, nextSeq, nextSst, jobs, mode, op, worker, unwritten, ghosts>>

SendJob(t) ==
    /\ At(t, "send")
    /\ jobs' = Append(jobs, op[t].job)
    /\ AfterSchedule(t)
    /\ UNCHANGED <<files, snap, locks, nextSeq, nextSst, inFlight, lastErr, mode, worker,
                   unwritten, ghosts>>
-------------------------------------------------------------------------------
\* --- the flush worker -----------------------------------------------------------
WorkerAt(l) == Serving /\ worker.pc = l

WorkerRecv ==
    /\ WorkerAt("recv") /\ jobs # <<>>
    /\ worker' = [pc |-> "write", job |-> Head(jobs), err |-> FALSE]
    /\ jobs' = Tail(jobs)
    /\ UNCHANGED <<files, snap, locks, nextSeq, nextSst, inFlight, lastErr, mode, threads,
                   unwritten, ghosts>>

\* flush_memtable to the temporary file and its rename: the SSTable is published,
\* over a file of the same name if there is one.
WorkerWrite ==
    /\ WorkerAt("write")
    /\ sstFiles' = {s \in sstFiles : s.id # worker.job.id} \cup {worker.job}
    /\ worker' = [worker EXCEPT !.pc = "install"]
    /\ UNCHANGED <<wal, flushWal, snap, locks, ctl, mode, threads, unwritten, ghosts>>

\* Under the write lock: the reader is pushed and the frozen table released.
WorkerInstallKeepsFrozen ==
    /\ WorkerAt("install") /\ readers = {}
    /\ sstables' = Append(sstables, worker.job)
    /\ worker' = [worker EXCEPT !.pc = "unlink_check"]
    /\ UNCHANGED <<files, active, frozen, locks, ctl, mode, threads, unwritten, ghosts>>
WorkerInstall ==
    /\ WorkerAt("install") /\ readers = {}
    /\ sstables' = Append(sstables, worker.job)
    /\ frozen' = NoFrozen
    /\ worker' = [worker EXCEPT !.pc = "unlink_check"]
    /\ UNCHANGED <<files, active, locks, ctl, mode, threads, unwritten, ghosts>>

WorkerUnlinkCheck ==
    /\ WorkerAt("unlink_check")
    /\ worker' = [worker EXCEPT !.pc = IF Exists(flushWal) THEN "unlink" ELSE "report"]
    /\ UNCHANGED <<files, snap, locks, ctl, mode, threads, unwritten, ghosts>>

WorkerUnlink ==
    /\ WorkerAt("unlink") /\ Exists(flushWal)
    /\ flushWal' = NoWal
    /\ worker' = [worker EXCEPT !.pc = "report"]
    /\ UNCHANGED <<wal, sstFiles, snap, locks, ctl, mode, threads, unwritten, ghosts>>

\* A rotation removed wal.flush after exists() saw it: the job reports an error.
WorkerUnlinkLost ==
    /\ WorkerAt("unlink") /\ ~Exists(flushWal)
    /\ worker' = [worker EXCEPT !.pc = "report", !.err = TRUE]
    /\ UNCHANGED <<files, snap, locks, ctl, mode, threads, unwritten, ghosts>>

\* A call of install_sst fails: the rest of it is skipped.
WorkerFails ==
    /\ Serving /\ worker.pc \in {"write", "install", "unlink"}
    /\ faults < MaxFaults /\ faults' = faults + 1
    /\ worker' = [worker EXCEPT !.pc = "report", !.err = TRUE]
    /\ UNCHANGED <<files, snap, locks, ctl, mode, threads, unwritten, crashes, committed>>

WorkerReportUnnoticed ==
    /\ WorkerAt("report")
    /\ lastErr' = worker.err
    /\ worker' = Idle
    /\ UNCHANGED <<files, snap, locks, nextSeq, nextSst, inFlight, jobs, mode, threads, unwritten,
                   ghosts>>
WorkerReport ==
    /\ WorkerAt("report")
    /\ inFlight' = FALSE
    /\ lastErr' = worker.err
    /\ worker' = Idle
    /\ UNCHANGED <<files, snap, locks, nextSeq, nextSst, jobs, mode, threads, unwritten, ghosts>>
-------------------------------------------------------------------------------
\* --- the process: close, crash, open --------------------------------------------
\* What a process that ends leaves of its memory.
ForgetMemory ==
    /\ active' = EmptyTable /\ frozen' = NoFrozen /\ sstables' = <<>>
    /\ readers' = {} /\ walHolder' = None /\ walOpen' = FALSE
    /\ nextSeq' = 1 /\ nextSst' = 1 /\ inFlight' = FALSE /\ lastErr' = FALSE /\ jobs' = <<>>
    /\ pc' = [t \in Threads |-> "idle"] /\ op' = [t \in Threads |-> NoOp]
    /\ worker' = Stopped /\ unwritten' = {}

\* Drop for Engine: no call is running; Job::Stop follows the queued jobs and the
\* worker is joined.
CloseBegin ==
    /\ mode = "up" /\ \A t \in Threads : pc[t] = "idle"
    /\ mode' = "closing"
    /\ UNCHANGED <<files, snap, locks, ctl, threads, worker, unwritten, ghosts>>

CloseEnd ==
    /\ mode = "closing" /\ worker.pc = "recv" /\ jobs = <<>>
    /\ mode' = "down"
    /\ ForgetMemory
    /\ UNCHANGED <<files, ghosts>>

\* The process dies between two system calls; completed calls are on disk.
Crash ==
    /\ mode \notin {"down", "refused"}
    /\ mode \in Recovering => CrashInRecovery
    /\ crashes < MaxCrashes /\ crashes' = crashes + 1
    /\ mode' = "down"
    /\ ForgetMemory
    /\ UNCHANGED <<files, faults, committed>>

\* list_sst_files and the readers: every published file, ascending by id.
ListedInAnyOrder(s) == {s[i] : i \in DOMAIN s} = sstFiles
Listed(s) ==
    /\ {s[i] : i \in DOMAIN s} = sstFiles
    /\ \A i, j \in DOMAIN s : i < j => s[i].id < s[j].id
Greatest(n, S) == n \in S /\ \A m \in S : m <= n
SeqOfLast(m) == m
SeqAfter(m) == m + 1
IdOfLast(id) == id
IdAfter(id) == id + 1
RecoveredWithoutFlushWal == Records(wal)
Recovered == Replay(Records(flushWal), Records(wal))

\* Engine::open_with up to the first change on disk: SSTables listed, logs replayed.
OpenReplay ==
    /\ mode = "down" /\ Valid(flushWal) /\ Valid(wal)
    /\ active' = Recovered
    /\ \E s \in [1..Cardinality(sstFiles) -> sstFiles] : Listed(s) /\ sstables' = s
    /\ \E m \in DiskSeqs : Greatest(m, DiskSeqs) /\ nextSeq' = SeqAfter(m)
    /\ \E id \in {0} \cup {s.id : s \in sstFiles} :
          Greatest(id, {0} \cup {s.id : s \in sstFiles}) /\ nextSst' = IdAfter(id)
    /\ mode' = IF Exists(flushWal) THEN "drop_wal"
               ELSE IF Exists(wal) THEN "spawn" ELSE "open_create"
    /\ wal' = IF Exists(flushWal) THEN wal
              ELSE [wal EXCEPT !.log = Records(wal), !.tail = EmptyTable]
    /\ walOpen' = (Exists(wal) /\ ~Exists(flushWal))
    /\ UNCHANGED <<flushWal, sstFiles, frozen, readers, walHolder, inFlight, lastErr, jobs,
                   threads, worker, unwritten, ghosts>>

\* Wal::open of a file without a whole header page: open returns WalCorrupt, and
\* would again.
OpenRefused ==
    /\ mode \in {"down", "refused"}
    /\ ~(Valid(flushWal) /\ Valid(wal))
    /\ mode' = "refused"
    /\ UNCHANGED <<files, snap, locks, ctl, threads, worker, unwritten, ghosts>>

\* drop_wal_files: wal first, wal.flush second.
DropWal ==
    /\ mode = "drop_wal"
    /\ wal' = NoWal
    /\ mode' = "drop_flush"
    /\ UNCHANGED <<flushWal, sstFiles, snap, locks, ctl, threads, worker, unwritten, ghosts>>

DropFlushWal ==
    /\ mode = "drop_flush"
    /\ flushWal' = NoWal
    /\ mode' = "rec_create"
    /\ UNCHANGED <<wal, sstFiles, snap, locks, ctl, threads, worker, unwritten, ghosts>>

\* Wal::create, in recover_wals or in open_with.
CreateWal ==
    /\ mode \in {"rec_create", "open_create"}
    /\ wal' = BlankWal
    /\ mode' = IF mode = "rec_create" THEN "rec_header" ELSE "open_header"
    /\ UNCHANGED <<flushWal, sstFiles, snap, locks, ctl, threads, worker, unwritten, ghosts>>

WriteHeader ==
    /\ mode \in {"rec_header", "open_header"}
    /\ wal' = NewWal
    /\ walOpen' = TRUE
    /\ IF mode = "rec_header"
       THEN mode' = "checkpoint" /\ unwritten' = {k \in Keys : IsHit(active[k])}
       ELSE mode' = "spawn" /\ UNCHANGED unwritten
    /\ UNCHANGED <<flushWal, sstFiles, snap, readers, walHolder, ctl, threads, worker, ghosts>>

\* checkpoint_mem: one append per entry of the recovered MemTable.
CheckpointAgain ==
    /\ mode = "checkpoint"
    /\ \E k \in unwritten : wal' = AppendWal(wal, k, active[k])
    /\ UNCHANGED <<flushWal, sstFiles, snap, locks, ctl, mode, threads, worker, unwritten, ghosts>>
Checkpoint ==
    /\ mode = "checkpoint"
    /\ \E k \in unwritten :
          /\ wal' = AppendWal(wal, k, active[k])
          /\ unwritten' = unwritten \ {k}
    /\ UNCHANGED <<flushWal, sstFiles, snap, locks, ctl, mode, threads, worker, ghosts>>

CheckpointDone ==
    /\ mode = "checkpoint" /\ unwritten = {}
    /\ mode' = "spawn"
    /\ UNCHANGED <<files, snap, locks, ctl, threads, worker, unwritten, ghosts>>

\* The worker is spawned and open returns the engine.
Spawn ==
    /\ mode = "spawn"
    /\ mode' = "up"
    /\ worker' = Idle
    /\ committed' = Replay(committed, Visible)
    /\ UNCHANGED <<files, snap, locks, ctl, threads, unwritten, crashes, faults>>
-------------------------------------------------------------------------------
Init ==
    /\ wal = NoWal /\ flushWal = NoWal /\ sstFiles = {}
    /\ active = EmptyTable /\ frozen = NoFrozen /\ sstables = <<>>
    /\ readers = {} /\ walHolder = None /\ walOpen = FALSE
    /\ nextSeq = 1 /\ nextSst = 1 /\ inFlight = FALSE /\ lastErr = FALSE /\ jobs = <<>>
    /\ mode = "down"
    /\ pc = [t \in Threads |-> "idle"] /\ op = [t \in Threads |-> NoOp]
    /\ worker = Stopped /\ unwritten = {}
    /\ crashes = 0 /\ faults = 0 /\ committed = EmptyTable

Write(t) == WriteAppend(t) \/ WriteNoWal(t) \/ WriteRemove(t) \/ WriteApply(t)
Get(t) == GetActive(t) \/ GetBelow(t) \/ GetReturn(t)
Flush(t) == \/ WaitOk(t) \/ WaitErr(t) \/ FlushCheck(t) \/ FlushReturn(t)
            \/ SchedSkip(t) \/ SchedSwap(t)
            \/ RotLock(t) \/ RotRemove(t) \/ RotRemoveLost(t) \/ RotRename(t)
            \/ RotCreate(t) \/ RotHeader(t) \/ MarkInFlight(t) \/ SendJob(t)
Begin(t) == WriteBegin(t) \/ GetBegin(t) \/ FlushBegin(t) \/ ScheduleBegin(t) \/ WaitBegin(t)
Thread(t) == Begin(t) \/ Write(t) \/ Get(t) \/ Flush(t) \/ WriteAppendFails(t) \/ RotFails(t)

Worker == \/ WorkerRecv \/ WorkerWrite \/ WorkerInstall \/ WorkerUnlinkCheck
          \/ WorkerUnlink \/ WorkerUnlinkLost \/ WorkerReport

Recovery == \/ OpenReplay \/ DropWal \/ DropFlushWal \/ CreateWal \/ WriteHeader
            \/ Checkpoint \/ CheckpointDone \/ Spawn

Next == \/ \E t \in Threads : Thread(t)
        \/ Worker \/ WorkerFails
        \/ CloseBegin \/ CloseEnd \/ Crash
        \/ Recovery \/ OpenRefused

Spec == Init /\ [][Next]_vars

\* A started call, the worker and an open that has begun keep running.  The write
\* lock goes to a waiting writer again and again (std's RwLock prefers writers), so
\* the two steps that need it are strongly fair.  No call has to begin, no I/O call
\* has to fail and no process has to crash.
Fairness ==
    /\ \A t \in Threads : /\ WF_vars(Write(t) \/ Get(t) \/ Flush(t))
                          /\ SF_vars(SchedSwap(t) \/ SchedSkip(t))
    /\ WF_vars(Worker) /\ SF_vars(WorkerInstall)
    /\ WF_vars(Recovery) /\ WF_vars(CloseEnd)
FairSpec == Spec /\ Fairness
-------------------------------------------------------------------------------
(***************************************************************************)
(* Properties.                                                             *)
(***************************************************************************)
ThreadPcs == {"idle", "write_wal", "write_mem", "write_insert", "get_active", "get_below",
              "reply", "check", "flushed", "sched_swap", "rot_lock", "mark", "send"}
             \cup Waiting \cup Rotating
WorkerPcs == {"stopped", "recv", "write", "install", "unlink_check", "unlink", "report"}
Modes == {"down", "refused", "open_create", "open_header", "spawn", "up", "closing"}
         \cup Recovering

\* Every variable keeps the shape its declaration in engine.rs gives it.
TypeOK ==
    /\ wal \in Wals /\ flushWal \in Wals
    /\ sstFiles \subseteq SSTs /\ IsFiniteSet(sstFiles)
    /\ active \in Tables /\ frozen \in Frozen /\ sstables \in Seq(SSTs)
    /\ readers \subseteq Threads /\ walHolder \in Threads \cup {None} /\ walOpen \in BOOLEAN
    /\ nextSeq \in Nat \ {0} /\ nextSst \in Nat \ {0}
    /\ inFlight \in BOOLEAN /\ lastErr \in BOOLEAN /\ jobs \in Seq(SSTs)
    /\ mode \in Modes
    /\ pc \in [Threads -> ThreadPcs] /\ op \in [Threads -> Ops]
    /\ worker \in [pc : WorkerPcs, job : SSTs, err : BOOLEAN]
    /\ unwritten \subseteq Keys
    /\ crashes \in Nat /\ faults \in Nat /\ committed \in Tables

\* Engine::get stops at the first layer that answers (engine.rs:356-382), so what it
\* finds must be at least as new as what every layer below still holds, through
\* swaps, installations, recoveries from overlapping files and failed jobs.
NewestFirst ==
    \A k \in Keys : /\ Lookup(k).seq >= active[k].seq
                   /\ Lookup(k).seq >= frozen.tab[k].seq
                   /\ \A i \in 1..Len(sstables) : Lookup(k).seq >= sstables[i].tab[k].seq

\* While a process serves, what a get finds for a key only changes in a write of that key:
\* to what lies below, while an overwrite has removed the old entry, and to its record.
\* A write that returns has put it there.  No swap, installation or failed call shows an
\* older record or none, and MemTable::apply never drops one (write_op ignores its result,
\* engine.rs:478).
WritesKey(t, k) == pc[t] \in Applying /\ op[t].key = k
VisibleKept ==
    [][Serving /\ Serving' =>
         /\ \A k \in Keys :
               \/ Visible'[k] = Visible[k]
               \/ \E t \in Threads : WritesKey(t, k) /\ Visible'[k] = op[t].cell
               \/ /\ \E t \in Threads : WritesKey(t, k) /\ pc'[t] = "write_insert"
                  /\ Visible'[k] = LookupBelow(k)
         /\ \A t \in Threads, k \in Keys :
               WritesKey(t, k) /\ pc'[t] = "idle" => Visible'[k] = op[t].cell]_vars

\* The answer of a get is no older than what lay below the active table at its call, and
\* no older than what was visible then unless it met its key in the middle of an
\* overwrite.  It is no newer than what is visible when it returns, unless an overwrite by
\* a newer record has hidden that by then.  Layers may move during the call (engine.rs:356-382).
Settled(k, n) ==
    n <= Lookup(k).seq \/ \E t \in Threads : /\ pc[t] = "write_insert" /\ op[t].key = k
                                            /\ n <= op[t].cell.seq
GetCurrent ==
    \A t \in Threads : pc[t] = "reply" =>
        LET k == op[t].key  n == op[t].cell.seq IN
        /\ n >= op[t].under.seq
        /\ k \in op[t].met \/ n >= op[t].floor[k].seq
        /\ Settled(k, n)

\* The number write_op takes next was never given to a record in any layer or file,
\* a failed append's leftover included, also after a restart (engine.rs:229-243).
FreshSeq ==
    mode = "up" => /\ \A m \in DiskSeqs : m < nextSeq
                   /\ \A k \in Keys : Lookup(k).seq < nextSeq

\* The frozen table leaves the snapshot only in the step that adds an SSTable with its
\* content (install_sst, engine.rs:550-554), or with the process.
FrozenHandoff ==
    [][frozen.some /\ ~frozen'.some /\ Serving' =>
          \E i \in 1..Len(sstables') : sstables'[i].tab = frozen.tab]_vars

\* A published .sst file is never replaced or removed, by no flush of this process or
\* of one that opened the directory later (ids come from next_sst).
SstImmutable == [][sstFiles \subseteq sstFiles']_vars

\* When flush returns Ok, everything that was visible when it was called is in a published
\* SSTable ("Ok cuando no queda nada en activa ni inmutable").  One exception: is_empty()
\* is true while the only entry of the active table is being overwritten (engine.rs:394,
\* memtable.rs:255-257); of a key that was hidden at that moment flush may have left the
\* newest record in memory and in the log.
FlushLeavesOnDisk ==
    \A t \in Threads : pc[t] = "flushed" =>
        \A k \in Keys \ op[t].met : IsHit(op[t].floor[k]) =>
            \E s \in sstFiles : s.tab[k].seq >= op[t].floor[k].seq

\* Every acknowledged write is in a file: a crash now would not lose it.  Not asked
\* while open rewrites the log.
Durable ==
    mode \notin Recovering =>
        \A k \in Keys : \E c \in DiskCells(k) : c.seq >= committed[k].seq

\* in_flight is set for as long as a job is queued or running: wait_flush and
\* schedule_flush rely on it (engine.rs:444-462).  With two threads that flush it is not
\* so: the report of one job clears the flag that the other thread has set.
InFlightTracksJob ==
    mode = "up" /\ (jobs # <<>> \/ worker.pc # "recv") => inFlight

\* The rotated log is kept until the SSTable of the table it belongs to is written.  With
\* two threads that flush it is not so: the worker looks for wal.flush after it has let
\* go of the frozen table (engine.rs:553-557), and may find the log of the next job.
RotatedLogKept == jobs # <<>> \/ WorkerAt("write") => Exists(flushWal)

\* Between rotations the slot is only empty ("WAL no inicializado" for every write) when a
\* rotation failed, or lost wal.flush to the worker's unlink (engine.rs:490-498); then the
\* frozen table has no job and no thread that would make one: only a restart helps.
Owning == {"rot_lock", "mark", "send"} \cup Rotating
WorkerOwns == worker.pc \in {"write", "install"}
Abandoned == /\ frozen.some /\ jobs = <<>> /\ ~WorkerOwns
             /\ \A t \in Threads : pc[t] \notin Owning
EmptySlotStuck == Serving /\ walHolder = None /\ ~walOpen => Abandoned

\* flush, schedule_flush and wait_flush return.
FlushReturns ==
    \A t \in Flushers :
        pc[t] \in Waiting \cup {"check", "sched_swap", "rot_lock"} ~> pc[t] = "idle"

\* A frozen table is eventually installed, without a further call.
FrozenDrains == frozen.some ~> ~frozen.some

\* An open that rewrites the log finishes, or the process dies.
OpenFinishes == mode \in Recovering ~> mode \in {"up", "down"}
===============================================================================
