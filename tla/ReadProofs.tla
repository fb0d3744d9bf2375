------------------------------ MODULE ReadProofs ------------------------------
(***************************************************************************)
(* What a client sees of the engine, from the inductive invariant: only a  *)
(* write changes what a get finds, a get answers within the bounds that    *)
(* the two steps of an overwrite leave it, and flush leaves on disk what   *)
(* it found nowhere else.                                                  *)
(***************************************************************************)
EXTENDS EngineProofs

(***************************************************************************)
(* What the steps that move layers do to a lookup.                         *)
(***************************************************************************)
\* While the process serves, only four kinds of steps touch the snapshot.
LEMMA SnapStep ==
    ASSUME Next, Serving, Serving'
    PROVE  \/ UNCHANGED snap
           \/ \E t \in Threads : WriteRemove(t) \/ WriteApply(t) \/ SchedSwap(t)
           \/ WorkerInstall
  <1>1. ~Reset
    BY ResetFacts DEF Serving
  <1>2. ~OpenReplay /\ ~RewriteWal
    BY DEF Serving, OpenReplay, RewriteWal, DropWal, DropFlushWal, CreateWal, WriteHeader, Checkpoint
  <1> QED
    BY <1>1, <1>2, DataFrame
    DEF DataStep, SameData, WriteData, WriteAppend, WriteAppendFails, RotateData, RotRemove,
        RotRename, RotCreate, RotHeader, WorkerData, WorkerWrite, WorkerUnlink, snap

\* The position a get stops at among the SSTables.
StopsAt(k, i) == /\ i \in 1..Len(sstables)
                 /\ LookupSst(k) = sstables[i].tab[k] /\ IsHit(sstables[i].tab[k])
                 /\ \A j \in 1..Len(sstables) : IsHit(sstables[j].tab[k]) => j <= i
FallsThrough(k) == /\ LookupSst(k) = Missing
                   /\ \A i \in 1..Len(sstables) : ~IsHit(sstables[i].tab[k])

\* LookupSstFacts, in a form that also holds of the next state.
Outcomes == \A k \in Keys : FallsThrough(k) \/ \E i \in Nat : StopsAt(k, i)
LEMMA SstOutcome == TypeOK => Outcomes
  <1> SUFFICES ASSUME TypeOK, NEW k \in Keys PROVE FallsThrough(k) \/ \E i \in Nat : StopsAt(k, i)
    BY DEF Outcomes
  <1> QED  BY LookupSstFacts DEF FallsThrough, StopsAt
LEMMA SstOutcomeNext == TypeOK' => Outcomes'
  BY SstOutcome, PTL

\* A table appended to the SSTables answers first, and only for its own keys.
LEMMA SstAppended ==
    ASSUME TypeOK, TypeOK', NEW j \in SSTs, sstables' = Append(sstables, j), NEW k \in Keys
    PROVE  LookupSst(k)' = IF IsHit(j.tab[k]) THEN j.tab[k] ELSE LookupSst(k)
  <1>1. FallsThrough(k) \/ \E i \in Nat : StopsAt(k, i)
    BY SstOutcome DEF Outcomes
  <1>2. FallsThrough(k)' \/ \E i \in Nat : StopsAt(k, i)'
    BY SstOutcomeNext DEF Outcomes
  <1> DEFINE n == Len(sstables)
  <1>3. /\ n \in Nat /\ Len(sstables') = n + 1 /\ sstables'[n + 1] = j
        /\ \A i \in 1..n : sstables'[i] = sstables[i]
    BY DEF TypeOK
  <1>4. CASE IsHit(j.tab[k])
    <2>1. PICK i \in Nat : StopsAt(k, i)'
      BY <1>2, <1>3, <1>4 DEF FallsThrough
    <2>2. i = n + 1
      BY <1>3, <1>4, <2>1 DEF StopsAt
    <2> QED  BY <1>3, <1>4, <2>1, <2>2 DEF StopsAt
  <1>5. CASE ~IsHit(j.tab[k])
    <2>1. CASE FallsThrough(k)
      <3>1. \A i \in 1..n + 1 : ~IsHit(sstables'[i].tab[k])
        BY <1>3, <1>5, <2>1 DEF FallsThrough
      <3>2. FallsThrough(k)'
        BY <1>2, <1>3, <3>1 DEF StopsAt
      <3> QED  BY <1>5, <2>1, <3>2 DEF FallsThrough
    <2>2. ASSUME NEW i \in Nat, StopsAt(k, i)
          PROVE  LookupSst(k)' = LookupSst(k)
      <3>1. i \in 1..n /\ IsHit(sstables'[i].tab[k])
        BY <1>3, <2>2 DEF StopsAt
      <3>2. PICK m \in Nat : StopsAt(k, m)'
        BY <1>2, <1>3, <3>1 DEF FallsThrough
      <3>3. m \in 1..n /\ IsHit(sstables[m].tab[k])
        BY <1>3, <1>5, <3>2 DEF StopsAt
      <3>4. m = i
        BY <1>3, <2>2, <3>1, <3>2, <3>3 DEF StopsAt
      <3> QED  BY <1>3, <2>2, <3>1, <3>2, <3>4 DEF StopsAt
    <2> QED  BY <1>1, <1>5, <2>1, <2>2
  <1> QED  BY <1>4, <1>5

\* Lookups depend on the snapshot alone.
LEMMA SameSnap ==
    ASSUME UNCHANGED snap, NEW k \in Keys
    PROVE  Lookup(k)' = Lookup(k) /\ LookupBelow(k)' = LookupBelow(k)
  BY DEF snap, Lookup, LookupBelow, LookupSst, SstHits

\* schedule_flush moves a table one layer down: no lookup changes, and all of it is
\* below the active table then.
LEMMA SwapKeeps ==
    ASSUME TypeOK, NEW t \in Threads, SchedSwap(t), NEW k \in Keys
    PROVE  Lookup(k)' = Lookup(k) /\ LookupBelow(k)' = Lookup(k)
  <1>1. /\ ~frozen.some /\ UNCHANGED sstables
        /\ frozen'.some /\ frozen'.tab = active /\ active' = EmptyTable
    BY DEF SchedSwap, NothingToSwap
  <1>2. ~IsHit(active'[k])
    BY <1>1, EmptyFacts DEF EmptyTable, IsHit, Missing
  <1>3. LookupSst(k)' = LookupSst(k)
    BY <1>1 DEF LookupSst, SstHits
  <1> QED  BY <1>1, <1>2, <1>3 DEF Lookup, LookupBelow

\* install_sst replaces the frozen table by an SSTable with its content.
LEMMA InstallKeeps ==
    ASSUME IInv, TypeOK', WorkerInstall, NEW k \in Keys
    PROVE  Lookup(k)' = Lookup(k) /\ LookupBelow(k)' = LookupBelow(k)
  <1>1. TypeOK /\ worker.job \in SSTs
    BY DEF IInv, TypeOK
  <1>2. frozen.some /\ worker.job.tab = frozen.tab
    BY DEF IInv, InvOwner, WorkerOwns, OwnedJob, WorkerInstall, WorkerAt
  <1>3. sstables' = Append(sstables, worker.job) /\ frozen' = NoFrozen /\ UNCHANGED active
    BY DEF WorkerInstall
  <1>4. LookupSst(k)' = IF IsHit(frozen.tab[k]) THEN frozen.tab[k] ELSE LookupSst(k)
    BY <1>1, <1>2, <1>3, SstAppended
  <1> QED  BY <1>2, <1>3, <1>4 DEF Lookup, LookupBelow, NoFrozen

\* A put is what the next get finds; the other keys and the layers below stay.
LEMMA ApplyShows ==
    ASSUME IInv, NEW t \in Threads, WriteApply(t), NEW k \in Keys
    PROVE  /\ Lookup(k)' = IF k = op[t].key THEN op[t].cell ELSE Lookup(k)
           /\ LookupBelow(k)' = LookupBelow(k)
  <1>1. /\ pc[t] \in Applying /\ active' = MemPut(active, op[t].key, op[t].cell)
        /\ UNCHANGED <<frozen, sstables>>
    BY DEF WriteApply
  <1>2. /\ op[t].key \in Keys /\ IsHit(op[t].cell) /\ op[t].cell \in Cells
        /\ active[op[t].key].seq <= op[t].cell.seq /\ active \in Tables
    BY <1>1, ThreadTypes DEF IInv, InvInWrite, TypeOK
  <1>3. LookupBelow(k)' = LookupBelow(k)
    BY <1>1 DEF LookupBelow, LookupSst, SstHits
  <1>4. active'[k] = IF k = op[t].key THEN op[t].cell ELSE active[k]
    <2>1. active[op[t].key].seq \in Nat /\ op[t].cell.seq \in Nat
      BY <1>2, TableFacts, CellFacts
    <2> QED  BY <1>1, <1>2, <2>1, MemPutAt
  <1> QED  BY <1>2, <1>3, <1>4 DEF Lookup

\* An overwrite begins by showing what lies below the active table.
LEMMA RemoveShows ==
    ASSUME TypeOK, NEW t \in Threads, WriteRemove(t), NEW k \in Keys
    PROVE  /\ Lookup(k)' = IF k = op[t].key THEN LookupBelow(k) ELSE Lookup(k)
           /\ LookupBelow(k)' = LookupBelow(k)
           /\ pc'[t] = "write_insert" /\ UNCHANGED op
  <1>1. /\ active' = MemRemove(active, op[t].key) /\ UNCHANGED <<frozen, sstables, op>>
        /\ pc'[t] = "write_insert"
    BY ThreadTypes DEF WriteRemove, Goto
  <1>2. LookupBelow(k)' = LookupBelow(k)
    BY <1>1 DEF LookupBelow, LookupSst, SstHits
  <1>3. active'[k] = IF k = op[t].key THEN Missing ELSE active[k]
    BY <1>1, MemRemoveAt DEF TypeOK
  <1> QED  BY <1>1, <1>2, <1>3 DEF Lookup, IsHit, Missing
-------------------------------------------------------------------------------
(***************************************************************************)
(* Only a write changes what a get finds.                                  *)
(***************************************************************************)
\* A step of anything else leaves a thread where it is, unless the process ends.
LEMMA OthersFrame ==
    ASSUME TypeOK, InvLocks, Next, NEW t \in Threads, ~Thread(t)
    PROVE  \/ Reset
           \/ /\ pc'[t] = pc[t] /\ op'[t] = op[t]
              /\ t \in readers => t \in readers'
  <1>1. ASSUME NEW u \in Threads, Thread(u)
        PROVE  /\ pc'[t] = pc[t] /\ op'[t] = op[t]
               /\ t \in readers => t \in readers'
    <2>1. u # t
      BY <1>1
    <2> QED  BY <1>1, <2>1, ThreadFrame
  <1>2. CASE Worker \/ WorkerFails
    BY <1>2 DEF Worker, WorkerFails, WorkerRecv, WorkerWrite, WorkerInstall, WorkerUnlinkCheck,
       WorkerUnlink, WorkerUnlinkLost, WorkerReport, threads, locks
  <1>3. CASE CloseBegin \/ Recovery \/ OpenRefused
    BY <1>3 DEF CloseBegin, OpenRefused, Recovery, OpenReplay, DropWal, DropFlushWal, CreateWal,
       WriteHeader, Checkpoint, CheckpointDone, Spawn, threads, locks
  <1> QED  BY <1>1, <1>2, <1>3 DEF Next, Reset

\* A thread that is putting its record into the MemTable stays there, removes the entry
\* it overwrites, or ends its call.
LEMMA PuttingStep ==
    ASSUME TypeOK, InvLocks, Next, Serving', NEW t \in Threads, pc[t] \in Applying
    PROVE  \/ pc'[t] = pc[t] /\ op'[t] = op[t]
           \/ WriteRemove(t)
           \/ WriteApply(t) /\ pc'[t] = "idle"
  <1>1. CASE ~Thread(t)
    BY <1>1, OthersFrame, ResetFacts DEF Serving
  <1>2. CASE Thread(t)
    <2> USE ThreadTypes DEF At, Goto, Return, Applying
    <2>1. CASE Begin(t) \/ Get(t)
      BY <2>1 DEF Begin, WriteBegin, GetBegin, FlushBegin, ScheduleBegin, WaitBegin,
         Get, GetActive, GetBelow, GetReturn
    <2>2. CASE Write(t) \/ WriteAppendFails(t)
      BY <2>2 DEF Write, WriteNoWal, WriteAppend, WriteApply, WriteAppendFails
    <2>3. CASE Scheduling(t) \/ SchedSwap(t) \/ SendJob(t)
      BY <2>3 DEF Scheduling, WaitOk, WaitErr, FlushCheck, FlushReturn, SchedSkip, SchedSwap,
                  Waiting, MarkInFlight, SendJob
    <2>4. CASE Rotation(t)
      BY <2>4 DEF Rotation, RotLock, RotRemove, RotRemoveLost, RotRename, RotCreate, RotHeader,
         RotFails, Rotating
    <2> QED  BY <1>2, <2>1, <2>2, <2>3, <2>4, FlushGroups DEF Thread
  <1> QED  BY <1>1, <1>2

\* While a process serves, what a get finds for a key only changes in a write of that key,
\* and a write that returns has put its record there: no swap, installation or failed job
\* shows an older record or none, and apply never ignores one (engine.rs:356-382, 478).
THEOREM VisibleKeptHolds == Spec => VisibleKept
  <1> DEFINE Kept ==
         /\ \A k \in Keys :
               \/ Visible'[k] = Visible[k]
               \/ \E t \in Threads : WritesKey(t, k) /\ Visible'[k] = op[t].cell
               \/ /\ \E t \in Threads : WritesKey(t, k) /\ pc'[t] = "write_insert"
                  /\ Visible'[k] = LookupBelow(k)
         /\ \A t \in Threads, k \in Keys :
               WritesKey(t, k) /\ pc'[t] = "idle" => Visible'[k] = op[t].cell
  <1>1. ASSUME IInv, IInv', Next, Serving, Serving' PROVE Kept
    <2>1. TypeOK /\ InvLocks /\ TypeOK'
      BY <1>1 DEF IInv
    <2>2. ASSUME NEW k \in Keys
          PROVE  \/ Visible'[k] = Visible[k]
                 \/ \E t \in Threads : WritesKey(t, k) /\ Visible'[k] = op[t].cell
                 \/ /\ \E t \in Threads : WritesKey(t, k) /\ pc'[t] = "write_insert"
                    /\ Visible'[k] = LookupBelow(k)
      <3>1. Visible'[k] = Lookup(k)' /\ Visible[k] = Lookup(k)
        BY DEF Visible
      <3>2. ASSUME NEW t \in Threads, WriteRemove(t)
            PROVE  \/ Visible'[k] = Visible[k]
                   \/ WritesKey(t, k) /\ pc'[t] = "write_insert" /\ Visible'[k] = LookupBelow(k)
        BY <2>1, <3>1, <3>2, RemoveShows DEF WritesKey, WriteRemove, At, Applying
      <3>3. ASSUME NEW t \in Threads, WriteApply(t)
            PROVE  Visible'[k] = Visible[k] \/ (WritesKey(t, k) /\ Visible'[k] = op[t].cell)
        BY <1>1, <3>1, <3>3, ApplyShows DEF WritesKey, WriteApply
      <3>4. CASE UNCHANGED snap \/ WorkerInstall \/ \E t \in Threads : SchedSwap(t)
        BY <1>1, <2>1, <3>1, <3>4, SameSnap, InstallKeeps, SwapKeeps
      <3> QED  BY <1>1, <3>2, <3>3, <3>4, SnapStep
    <2>3. ASSUME NEW t \in Threads, NEW k \in Keys, WritesKey(t, k), pc'[t] = "idle"
          PROVE  Visible'[k] = op[t].cell
      <3>1. pc[t] \in Applying /\ op[t].key = k
        BY <2>3 DEF WritesKey
      <3>2. WriteApply(t)
        BY <1>1, <2>1, <2>3, <3>1, PuttingStep, RemoveShows DEF Applying
      <3> QED  BY <1>1, <3>1, <3>2, ApplyShows DEF Visible
    <2> QED  BY <2>2, <2>3
  <1>2. IInv /\ IInv' /\ [Next]_vars => [Serving /\ Serving' => Kept]_vars
    BY <1>1
  <1>3. [Serving /\ Serving' => Kept]_vars => [Serving /\ Serving' =>
         /\ \A k \in Keys :
               \/ Visible'[k] = Visible[k]
               \/ \E t \in Threads : WritesKey(t, k) /\ Visible'[k] = op[t].cell
               \/ /\ \E t \in Threads : WritesKey(t, k) /\ pc'[t] = "write_insert"
                  /\ Visible'[k] = LookupBelow(k)
         /\ \A t \in Threads, k \in Keys :
               WritesKey(t, k) /\ pc'[t] = "idle" => Visible'[k] = op[t].cell]_vars
    OBVIOUS
  <1> QED  BY <1>2, <1>3, InvHolds, PTL DEF Spec, VisibleKept
-------------------------------------------------------------------------------
(***************************************************************************)
(* What a get answers.                                                     *)
(***************************************************************************)
\* What a lookup finds is one layer's entry, or nothing.
LEMMA LookupIn ==
    ASSUME TypeOK, NEW k \in Keys
    PROVE  /\ LookupBelow(k) = Missing \/ LookupBelow(k) = frozen.tab[k]
              \/ \E i \in 1..Len(sstables) : LookupBelow(k) = sstables[i].tab[k]
           /\ Lookup(k) = active[k] \/ Lookup(k) = LookupBelow(k)
  BY LookupSstFacts DEF Lookup, LookupBelow

\* The layers below the active table hold nothing newer than what a lookup finds.
LEMMA BelowIsOlder ==
    ASSUME IInv, NEW k \in Keys
    PROVE  LookupBelow(k).seq <= Lookup(k).seq
  <1>1. TypeOK /\ NewestFirst
    BY LayersGiveNewest DEF IInv
  <1>2. Lookup(k).seq \in Nat
    BY <1>1, LookupType, CellFacts
  <1> QED  BY <1>1, <1>2, LookupIn DEF NewestFirst, Missing

\* The record of a write is not older than anything a lookup finds for its key.
LEMMA WrittenIsNewest ==
    ASSUME IInv, NEW t \in Threads, pc[t] \in Applying
    PROVE  op[t].key \in Keys /\ Lookup(op[t].key).seq <= op[t].cell.seq
  <1> DEFINE k == op[t].key
  <1>1. /\ k \in Keys
        /\ active[k].seq <= op[t].cell.seq /\ frozen.tab[k].seq <= op[t].cell.seq
        /\ \A s \in sstFiles : s.tab[k].seq <= op[t].cell.seq
    BY DEF IInv, InvInWrite
  <1>2. \A i \in 1..Len(sstables) : sstables[i] \in sstFiles
    BY DEF IInv, InvLayers
  <1>3. TypeOK /\ op[t].cell.seq \in Nat
    BY ThreadTypes, CellFacts DEF IInv
  <1> QED  BY <1>1, <1>2, <1>3, LookupIn DEF Missing

\* While the process serves, what is settled for a key stays settled.
LEMMA SettledStep ==
    ASSUME IInv, TypeOK', Next, Serving, Serving', NEW k \in Keys, NEW n \in Nat, Settled(k, n)
    PROVE  Settled(k, n)'
  <1>1. TypeOK /\ InvLocks /\ Lookup(k).seq \in Nat
    BY LookupType, CellFacts DEF IInv
  <1>2. ASSUME NEW t \in Threads, WriteApply(t), op[t].key = k, n <= op[t].cell.seq
        PROVE  Settled(k, n)'
    BY <1>2, ApplyShows DEF Settled
  <1>3. CASE n <= Lookup(k).seq
    <2>1. ASSUME NEW t \in Threads, WriteApply(t), op[t].key = k PROVE Settled(k, n)'
      <3>1. Lookup(k).seq <= op[t].cell.seq /\ op[t].cell.seq \in Nat
        BY <1>1, <2>1, WrittenIsNewest, ThreadTypes, CellFacts DEF WriteApply
      <3> QED  BY <1>1, <1>2, <1>3, <2>1, <3>1
    <2>2. ASSUME NEW t \in Threads, WriteRemove(t), op[t].key = k PROVE Settled(k, n)'
      <3>1. Lookup(k).seq <= op[t].cell.seq /\ op[t].cell.seq \in Nat
        BY <1>1, <2>2, WrittenIsNewest, ThreadTypes, CellFacts DEF WriteRemove, At, Applying
      <3>2. pc'[t] = "write_insert" /\ op'[t] = op[t]
        BY <1>1, <2>2, RemoveShows
      <3> QED  BY <1>1, <1>3, <2>2, <3>1, <3>2 DEF Settled
    <2>3. Lookup(k)' = Lookup(k) => Settled(k, n)'
      BY <1>3 DEF Settled
    <2> QED  BY <1>1, <2>1, <2>2, <2>3, SnapStep, SameSnap, SwapKeeps, InstallKeeps, ApplyShows,
                RemoveShows
  <1>4. ASSUME NEW t \in Threads, pc[t] = "write_insert", op[t].key = k, n <= op[t].cell.seq
        PROVE  Settled(k, n)'
    <2>1. ~WriteRemove(t) /\ pc[t] \in Applying
      BY <1>4 DEF WriteRemove, At, Applying
    <2>2. CASE pc'[t] = pc[t] /\ op'[t] = op[t]
      BY <1>4, <2>2 DEF Settled
    <2> QED  BY <1>1, <1>2, <1>4, <2>1, <2>2, PuttingStep
  <1> QED  BY <1>3, <1>4 DEF Settled

\* What lies below the active table only gets newer.
LEMMA BelowGrows ==
    ASSUME IInv, TypeOK', Next, Serving, Serving', NEW k \in Keys
    PROVE  LookupBelow(k).seq <= LookupBelow(k)'.seq
  <1>1. TypeOK /\ LookupBelow(k).seq \in Nat
    BY LookupType, CellFacts DEF IInv
  <1>2. ASSUME NEW t \in Threads, SchedSwap(t) PROVE LookupBelow(k).seq <= LookupBelow(k)'.seq
    BY <1>1, <1>2, SwapKeeps, BelowIsOlder
  <1>3. LookupBelow(k)' = LookupBelow(k) \/ \E t \in Threads : SchedSwap(t)
    BY <1>1, SnapStep, SameSnap, InstallKeeps, ApplyShows, RemoveShows
  <1> QED  BY <1>1, <1>2, <1>3

\* The read lock keeps the layers below the active table where they are.
LEMMA ReadLockHolds ==
    ASSUME IInv, Next, Serving, Serving', readers # {}, NEW k \in Keys
    PROVE  LookupBelow(k)' = LookupBelow(k)
  <1>1. ~WorkerInstall /\ \A t \in Threads : ~SchedSwap(t)
    BY DEF WorkerInstall, SchedSwap
  <1>2. TypeOK
    BY DEF IInv
  <1> QED  BY <1>1, <1>2, SnapStep, SameSnap, ApplyShows, RemoveShows

LookupTyped == \A k \in Keys : Lookup(k) \in Cells /\ LookupBelow(k) \in Cells
LEMMA LookupTypeNext == TypeOK' => LookupTyped'
  <1>1. TypeOK => LookupTyped
    BY LookupType DEF LookupTyped
  <1> QED  BY <1>1, PTL

\* An entry that is being overwritten is not in the active table.
HiddenGone == \A t \in Threads : pc[t] = "write_insert" => ~IsHit(active[op[t].key])

\* Where a get stands: its answer will not be older than what lay below at its call, and,
\* unless it has met its key in an overwrite, not older than what was visible then.
Floor(t) == op[t].floor[op[t].key].seq
GetOk(t) ==
    LET k == op[t].key IN
    /\ pc[t] = "get_active" => op[t].under.seq <= LookupBelow(k).seq /\ Settled(k, Floor(t))
    /\ pc[t] = "get_below" => /\ t \in readers /\ op[t].under.seq <= LookupBelow(k).seq
                              /\ k \in op[t].met \/ Floor(t) <= LookupBelow(k).seq
    /\ pc[t] = "reply" => /\ op[t].under.seq <= op[t].cell.seq
                          /\ k \in op[t].met \/ Floor(t) <= op[t].cell.seq
                          /\ Settled(k, op[t].cell.seq)
GetInv == HiddenGone /\ \A t \in Threads : GetOk(t)

Getting == {"get_active", "get_below", "reply"}

\* Only the steps of get lead a thread into one.
LEMMA IntoGet ==
    ASSUME TypeOK, NEW t \in Threads, Thread(t), pc'[t] \in Getting
    PROVE  GetBegin(t) \/ GetActive(t) \/ GetBelow(t)
  <1> USE ThreadTypes DEF At, Goto, Return, Getting
  <1>1. CASE Begin(t)
    BY <1>1 DEF Begin, WriteBegin, GetBegin, FlushBegin, ScheduleBegin, WaitBegin
  <1>2. CASE Write(t) \/ WriteAppendFails(t)
    BY <1>2 DEF Write, WriteNoWal, WriteAppend, WriteRemove, WriteApply, WriteAppendFails
  <1>3. CASE Get(t)
    BY <1>3 DEF Get, GetActive, GetBelow, GetReturn
  <1>4. CASE Scheduling(t) \/ SchedSwap(t) \/ SendJob(t)
    BY <1>4 DEF Scheduling, WaitOk, WaitErr, FlushCheck, FlushReturn, SchedSkip, SchedSwap,
                AfterSchedule, AfterWait, Waiting, MarkInFlight, SendJob
  <1>5. CASE Rotation(t)
    BY <1>5
    DEF Rotation, RotLock, RotRemove, RotRemoveLost, RotRename, RotCreate, RotHeader, RotFails
  <1> QED  BY <1>1, <1>2, <1>3, <1>4, <1>5, FlushGroups DEF Thread

\* Only the first step of an overwrite hides an entry, and nothing shows it but the second.
LEMMA HiddenGoneStep ==
    ASSUME IInv, IInv', Next, HiddenGone
    PROVE  HiddenGone'
  <1> SUFFICES ASSUME NEW t \in Threads, pc'[t] = "write_insert" PROVE ~IsHit(active'[op'[t].key])
    BY DEF HiddenGone
  <1>1. /\ TypeOK /\ InvLocks /\ active \in Tables
        /\ Serving' /\ ~IsHit(Missing)
    BY DEF IInv, TypeOK, InvQuiet, Serving, IsHit, Missing
  <1>2. CASE pc[t] \in Applying
    <2>1. op'[t] = op[t] /\ op[t].key \in Keys
      BY <1>1, <1>2, KeepsWrite DEF Applying, InvLocks, Keyed
    <2>2. CASE WriteRemove(t)
      BY <1>1, <2>1, <2>2, MemRemoveAt DEF WriteRemove
    <2>3. CASE ~WriteRemove(t)
      <3>1. pc[t] = "write_insert" /\ ~IsHit(active[op[t].key])
        BY <1>1, <1>2, <2>3, PuttingStep DEF HiddenGone
      <3>2. UNCHANGED active \/ active' = MemRemove(active, op[t].key)
        BY <1>2, WriteIsAlone DEF Applying
      <3> QED  BY <1>1, <2>1, <3>1, <3>2, MemRemoveAt
    <2> QED  BY <2>2, <2>3
  <1>3. CASE pc[t] \notin Applying
    <2>1. WriteAppend(t)
      BY <1>1, <1>3, EntersWrite DEF Applying
    <2> QED  BY <1>1, <2>1, ThreadTypes DEF WriteAppend, Goto
  <1> QED  BY <1>2, <1>3

\* What is settled for a key that nobody is overwriting is visible.
LEMMA SettledUnhidden ==
    ASSUME TypeOK, NEW k \in Keys, NEW n, Settled(k, n), k \notin Hidden
    PROVE  n <= Lookup(k).seq
  BY DEF Settled, Hidden

\* A step of the get itself; the layers do not move in it.
LEMMA GetStepOfThread ==
    ASSUME IInv, IInv', Next, HiddenGone, NEW t \in Threads, GetOk(t), Thread(t)
    PROVE  GetOk(t)'
  <1> SUFFICES ASSUME pc'[t] \in Getting PROVE GetOk(t)'
    BY DEF GetOk, Getting
  <1>1. TypeOK /\ InvLocks /\ TypeOK'
    BY DEF IInv
  <1>2. /\ op \in [Threads -> Ops] /\ pc \in [Threads -> ThreadPcs]
        /\ op[t].floor \in [Keys -> Cells] /\ op[t].under.seq \in Nat
        /\ \A k \in Keys : op[t].floor[k].seq \in Nat
    BY <1>1, ThreadTypes, TableFacts, CellFacts DEF Ops, Tables
  <1>3. UNCHANGED snap /\ Serving /\ Serving'
    BY <1>1, IntoGet, ThreadFrame DEF GetBegin, GetActive, GetBelow, Serving
  <1>4. \A k \in Keys : /\ Lookup(k)' = Lookup(k) /\ LookupBelow(k)' = LookupBelow(k)
                        /\ Lookup(k).seq \in Nat /\ LookupBelow(k).seq \in Nat
                        /\ LookupBelow(k).seq <= Lookup(k).seq
    BY <1>1, <1>3, SameSnap, LookupType, CellFacts, BelowIsOlder
  <1>5. CASE GetBegin(t)
    <2>1. PICK k \in Keys :
             op' = [op EXCEPT ![t].key = k, ![t].floor[k] = Lookup(k), ![t].under = LookupBelow(k)]
      BY <1>5 DEF GetBegin
    <2>2. /\ op'[t].key = k /\ op'[t].floor[k] = Lookup(k) /\ op'[t].under = LookupBelow(k)
      BY <1>2, <2>1 DEF Ops
    <2>3. pc'[t] = "get_active"
      BY <1>2, <1>5 DEF GetBegin, Goto
    <2> QED  BY <1>4, <2>2, <2>3 DEF GetOk, Floor, Settled
  <1>6. CASE GetActive(t)
    <2>1. PICK k \in Keys : k = op[t].key
      BY <1>1, <1>6 DEF GetActive, At, InvLocks, Keyed
    <2>2. op[t].under.seq <= LookupBelow(k).seq /\ Settled(k, Floor(t))
      BY <1>6, <2>1 DEF GetActive, At, GetOk
    <2>3. CASE IsHit(active[k])
      <3>1. /\ op' = [op EXCEPT ![t].cell = active[k]] /\ pc'[t] = "reply"
            /\ Lookup(k) = active[k]
        BY <1>2, <1>6, <2>1, <2>3 DEF GetActive, Goto, Lookup
      <3>2. /\ op'[t].cell = Lookup(k) /\ op'[t].key = k
            /\ op'[t].floor = op[t].floor /\ op'[t].under = op[t].under
        BY <1>2, <2>1, <3>1 DEF Ops
      <3>3. Floor(t) <= Lookup(k).seq
        BY <1>1, <2>2, <2>3, SettledUnhidden DEF Hidden, HiddenGone
      <3>4. Settled(k, Lookup(k).seq)'
        BY <1>4 DEF Settled
      <3> QED  BY <1>2, <1>4, <2>1, <2>2, <3>1, <3>2, <3>3, <3>4 DEF GetOk, Floor, Settled
    <2>4. CASE ~IsHit(active[k])
      <3>1. /\ op' = [op EXCEPT ![t].met = Hidden] /\ pc'[t] = "get_below" /\ t \in readers'
            /\ Lookup(k) = LookupBelow(k)
        BY <1>2, <1>6, <2>1, <2>4 DEF GetActive, Goto, Lookup
      <3>2. /\ op'[t].met = Hidden /\ op'[t].key = k
            /\ op'[t].floor = op[t].floor /\ op'[t].under = op[t].under
        BY <1>2, <2>1, <3>1 DEF Ops
      <3>3. k \in Hidden \/ Floor(t) <= LookupBelow(k).seq
        BY <1>1, <2>2, <3>1, SettledUnhidden
      <3> QED  BY <1>4, <2>1, <2>2, <3>1, <3>2, <3>3 DEF GetOk, Floor
    <2> QED  BY <2>3, <2>4
  <1>7. CASE GetBelow(t)
    <2>1. PICK k \in Keys : k = op[t].key
      BY <1>1, <1>7 DEF GetBelow, At, InvLocks, Keyed
    <2>2. /\ pc[t] = "get_below" /\ op[t].under.seq <= LookupBelow(k).seq
          /\ k \in op[t].met \/ Floor(t) <= LookupBelow(k).seq
      BY <1>7, <2>1 DEF GetBelow, At, GetOk
    <2>3. /\ op'[t].cell = LookupBelow(k) /\ pc'[t] = "reply" /\ op'[t].met = op[t].met
          /\ op'[t].key = k /\ op'[t].floor = op[t].floor /\ op'[t].under = op[t].under
      BY <1>2, <1>7, <2>1 DEF GetBelow, Goto, Ops
    <2>4. Settled(k, LookupBelow(k).seq)'
      BY <1>4 DEF Settled
    <2> QED  BY <1>4, <2>1, <2>2, <2>3, <2>4 DEF GetOk, Floor, Settled
  <1> QED  BY <1>1, <1>5, <1>6, <1>7, IntoGet

\* In a step of anything else the layers below get newer, and the read lock holds them.
LEMMA GetStepOfOthers ==
    ASSUME IInv, IInv', Next, NEW t \in Threads, GetOk(t), ~Thread(t)
    PROVE  GetOk(t)'
  <1> SUFFICES ASSUME pc'[t] \in Getting PROVE GetOk(t)'
    BY DEF GetOk, Getting
  <1>1. TypeOK /\ InvLocks /\ InvQuiet /\ TypeOK' /\ InvQuiet'
    BY DEF IInv
  <1>2. /\ pc'[t] = pc[t] /\ op'[t] = op[t]
        /\ t \in readers => t \in readers'
    BY <1>1, OthersFrame, ResetFacts DEF Getting
  <1>3. pc[t] # "idle" /\ pc'[t] # "idle"
    BY <1>2 DEF Getting
  <1>4. Serving /\ Serving'
    BY <1>1, <1>3 DEF InvQuiet, Serving
  <1>5. PICK k \in Keys : k = op[t].key
    BY <1>1, <1>2 DEF InvLocks, Getting, Keyed
  <1>6. LookupBelow(k).seq <= LookupBelow(k)'.seq
    BY <1>1, <1>4, <1>5, BelowGrows
  <1>7. readers # {} => LookupBelow(k)' = LookupBelow(k)
    BY <1>4, <1>5, ReadLockHolds
  <1>8. \A n \in Nat : Settled(k, n) => Settled(k, n)'
    BY <1>1, <1>4, <1>5, SettledStep
  <1>9. LookupBelow(k).seq \in Nat /\ LookupBelow(k)'.seq \in Nat
    BY <1>1, <1>5, LookupType, LookupTypeNext, CellFacts DEF LookupTyped
  <1>10. op[t].cell.seq \in Nat /\ op[t].under.seq \in Nat /\ Floor(t) \in Nat
    BY <1>1, <1>5, ThreadTypes, TableFacts, CellFacts DEF Ops, Floor
  <1>11. \A n \in Nat : Settled(op[t].key, n) => Settled(op[t].key, n)'
    BY <1>2, <1>5, <1>8 DEF Settled
  <1> QED  BY <1>2, <1>5, <1>6, <1>7, <1>9, <1>10, <1>11 DEF GetOk, Floor, Settled

\* The answer of a get is no older than what lay below the active table at its call, nor,
\* unless it met its key in the middle of an overwrite, than what was visible then; and it
\* is no newer than what is visible at its return, or about to be.  Layers may move between
\* its look at the active table and its look below (engine.rs:356-382).
THEOREM GetCurrentHolds == Spec => []GetCurrent
  <1>1. Init => GetInv
    BY DEF Init, GetInv, GetOk, HiddenGone
  <1>2. IInv /\ IInv' /\ GetInv /\ [Next]_vars => GetInv'
    <2>1. ASSUME IInv, IInv', GetInv, Next PROVE GetInv'
      BY <2>1, HiddenGoneStep, GetStepOfThread, GetStepOfOthers DEF GetInv
    <2>2. ASSUME IInv, GetInv, UNCHANGED vars PROVE GetInv'
      <3>1. UNCHANGED <<snap, pc, op, readers, active>>
        BY <2>2 DEF vars, threads, locks, snap
      <3>2. ASSUME NEW t \in Threads PROVE GetOk(t)'
        <4>1. op[t].key \in Keys \/ pc[t] \notin Getting
          BY <2>2 DEF IInv, InvLocks, Keyed, Getting
        <4> QED  BY <2>2, <3>1, <4>1, SameSnap DEF GetInv, GetOk, Getting, Floor, Settled
      <3> QED  BY <2>2, <3>1, <3>2 DEF GetInv, HiddenGone
    <2> QED  BY <2>1, <2>2
  <1>3. IInv /\ GetInv => GetCurrent
    <2> SUFFICES ASSUME IInv, GetInv, NEW t \in Threads, pc[t] = "reply"
                 PROVE  /\ op[t].cell.seq >= op[t].under.seq
                        /\ op[t].key \in op[t].met
                           \/ op[t].cell.seq >= op[t].floor[op[t].key].seq
                        /\ Settled(op[t].key, op[t].cell.seq)
      BY DEF GetCurrent
    <2>1. /\ op[t].cell.seq \in Nat /\ op[t].under.seq \in Nat
          /\ op[t].floor[op[t].key].seq \in Nat
      BY ThreadTypes, TableFacts, CellFacts DEF IInv, InvLocks, Keyed, Ops
    <2> QED  BY <2>1 DEF GetInv, GetOk, Floor
  <1> QED  BY <1>1, <1>2, <1>3, InvHolds, PTL DEF Spec
-------------------------------------------------------------------------------
(***************************************************************************)
(* A flush that returns Ok has left on disk what was visible at its call,  *)
(* except for a key it found hidden by an overwrite.                       *)
(***************************************************************************)
\* Inside flush, whose op is marked: what was visible at the call still is, or newer is, or
\* is on its way in an overwrite.
OutsideFlush == {"idle", "wait_only"}
InsideFlush == {"flush_wait", "check", "wait_again", "flushed"}
OnDisk(c, k) == IsHit(c) => \E s \in sstFiles : s.tab[k].seq >= c.seq
FlushOk(t) ==
    /\ pc[t] \in OutsideFlush => ~op[t].flushing
    /\ pc[t] \in InsideFlush => op[t].flushing
    /\ op[t].flushing => \A k \in Keys : Settled(k, op[t].floor[k].seq)
    /\ pc[t] = "flushed" => \A k \in Keys \ op[t].met : OnDisk(op[t].floor[k], k)
FlushInv == \A t \in Threads : FlushOk(t)

\* Only FlushBegin marks an op, a return clears it, and only FlushCheck ends the loop.
FlushFrame(t) ==
    /\ \/ op'[t] = NoOp
       \/ /\ op'[t].flushing = op[t].flushing
          /\ pc[t] = "idle" \/ op'[t].floor = op[t].floor
    /\ pc'[t] \in OutsideFlush => op'[t] = NoOp \/ pc[t] \in OutsideFlush
    /\ pc'[t] \in InsideFlush => /\ op'[t].flushing = op[t].flushing
                                 /\ op[t].flushing \/ pc[t] \in InsideFlush
    /\ pc'[t] = "flushed" => FlushCheck(t)
LEMMA FlushFrameHolds ==
    ASSUME TypeOK, NEW t \in Threads, Thread(t)
    PROVE  FlushBegin(t) \/ FlushFrame(t)
  <1>1. /\ op \in [Threads -> Ops] /\ pc \in [Threads -> ThreadPcs]
    BY ThreadTypes
  <1> USE <1>1 DEF At, Goto, Return, FlushFrame, OutsideFlush, InsideFlush, Ops
  <1>2. CASE Begin(t)
    <2>1. CASE GetBegin(t)
      <3>1. PICK k \in Keys :
               op' = [op EXCEPT ![t].key = k, ![t].floor[k] = Lookup(k), ![t].under = LookupBelow(k)]
        BY <2>1 DEF GetBegin
      <3>2. op'[t].flushing = op[t].flushing
        BY <3>1
      <3> QED  BY <2>1, <3>2 DEF GetBegin
    <2> QED  BY <1>2, <2>1 DEF Begin, WriteBegin, ScheduleBegin, WaitBegin
  <1>3. CASE Write(t) \/ WriteAppendFails(t)
    <2>1. CASE WriteRemove(t) \/ WriteApply(t)
      BY <2>1 DEF WriteRemove, WriteApply
    <2>2. CASE WriteNoWal(t) \/ WriteAppendFails(t)
      BY <2>2 DEF WriteNoWal, WriteAppendFails
    <2>3. CASE WriteAppend(t)
      <3>1. \E k, c : op' = [op EXCEPT ![t].key = k, ![t].cell = c]
        BY <2>3 DEF WriteAppend
      <3>2. op'[t].flushing = op[t].flushing /\ op'[t].floor = op[t].floor
        BY <3>1
      <3> QED  BY <2>3, <3>2 DEF WriteAppend
    <2> QED  BY <1>3, <2>1, <2>2, <2>3 DEF Write
  <1>4. CASE Get(t)
    BY <1>4 DEF Get, GetActive, GetBelow, GetReturn
  <1>5. CASE WaitOk(t)
    BY <1>5 DEF WaitOk, AfterWait, Waiting
  <1>6. CASE SchedSkip(t) \/ SendJob(t)
    BY <1>6 DEF SchedSkip, SendJob, AfterSchedule
  <1>7. CASE WaitErr(t) \/ FlushReturn(t) \/ MarkInFlight(t) \/ SchedSwap(t)
    BY <1>7 DEF WaitErr, FlushReturn, MarkInFlight, SchedSwap
  <1>8. CASE FlushCheck(t)
    BY <1>8 DEF FlushCheck
  <1>9. CASE Rotation(t)
    BY <1>9
    DEF Rotation, RotLock, RotRemove, RotRemoveLost, RotRename, RotCreate, RotHeader, RotFails
  <1> QED  BY <1>2, <1>3, <1>4, <1>5, <1>6, <1>7, <1>9, <1>8, FlushGroups DEF Thread, Scheduling

\* With nothing active and nothing frozen, everything visible is in a published file.
LEMMA NothingLeft ==
    ASSUME IInv, NothingToFlush, NEW k \in Keys, NEW c \in Cells, c.seq <= Lookup(k).seq
    PROVE  OnDisk(c, k)
  <1>1. TypeOK
    BY DEF IInv
  <1>2. Lookup(k) = LookupSst(k)
    BY EmptyFacts DEF NothingToFlush, IsEmpty, EmptyTable, IsHit, Missing, Lookup, LookupBelow
  <1>3. \A i \in 1..Len(sstables) : sstables[i] \in sstFiles
    BY DEF IInv, InvLayers
  <1>4. c.seq \in Nat /\ (IsHit(c) => c.seq > 0) /\ Lookup(k).seq \in Nat
    BY <1>1, LookupType, CellFacts
  <1>5. CASE LookupSst(k) = Missing
    BY <1>2, <1>4, <1>5 DEF Missing, OnDisk
  <1>6. CASE \E i \in 1..Len(sstables) : LookupSst(k) = sstables[i].tab[k]
    BY <1>2, <1>3, <1>4, <1>6 DEF OnDisk
  <1> QED  BY <1>1, <1>5, <1>6, LookupSstFacts

LEMMA FlushStepOfThread ==
    ASSUME IInv, IInv', Next, NEW t \in Threads, FlushOk(t), Thread(t)
    PROVE  FlushOk(t)'
  <1>1. TypeOK /\ InvLocks /\ TypeOK'
    BY DEF IInv
  <1>2. Serving /\ Serving'
    BY <1>1, ThreadFrame DEF Serving
  <1>3. \A k \in Keys, n \in Nat : Settled(k, n) => Settled(k, n)'
    BY <1>1, <1>2, SettledStep
  <1>4. /\ op \in [Threads -> Ops] /\ pc \in [Threads -> ThreadPcs]
        /\ \A k \in Keys : op[t].floor[k] \in Cells /\ op[t].floor[k].seq \in Nat
    BY <1>1, ThreadTypes, TableFacts DEF Ops
  <1>5. \A k \in Keys : Lookup(k).seq \in Nat
    BY <1>1, LookupType, CellFacts
  <1>6. CASE FlushBegin(t)
    <2>1. op'[t].flushing /\ op'[t].floor = Visible /\ pc'[t] = "flush_wait" /\ UNCHANGED snap
      BY <1>4, <1>6 DEF FlushBegin, Goto, Ops
    <2>2. \A k \in Keys : op'[t].floor[k] = Lookup(k)'
      BY <2>1, SameSnap DEF Visible
    <2>3. \A k \in Keys : Lookup(k)'.seq \in Nat
      BY <1>5, <2>1, SameSnap
    <2>4. \A k \in Keys : Settled(k, op[t].floor[k].seq)'
      BY <2>2, <2>3 DEF Settled
    <2> QED  BY <2>1, <2>4 DEF FlushOk, OutsideFlush, InsideFlush
  <1>7. CASE FlushFrame(t)
    <2>1. NoOp.flushing = FALSE
      BY DEF NoOp
    <2>2. /\ pc'[t] \in OutsideFlush => ~op'[t].flushing
          /\ pc'[t] \in InsideFlush => op'[t].flushing
      BY <1>7, <2>1 DEF FlushOk, FlushFrame
    <2>3. ASSUME op'[t].flushing, NEW k \in Keys PROVE Settled(k, op[t].floor[k].seq)'
      <3>1. op[t].flushing /\ op'[t].floor = op[t].floor
        BY <1>7, <2>1, <2>3 DEF FlushOk, FlushFrame, OutsideFlush
      <3>2. PICK n \in Nat : n = op[t].floor[k].seq
        BY <1>4
      <3>3. Settled(k, n)'
        BY <1>3, <3>1, <3>2 DEF FlushOk
      <3> QED  BY <3>1, <3>2, <3>3 DEF Settled
    <2>4. ASSUME pc'[t] = "flushed", NEW k \in Keys \ op'[t].met PROVE OnDisk(op[t].floor[k], k)'
      <3>1. FlushCheck(t)
        BY <1>7, <2>4 DEF FlushFrame
      <3>2. /\ pc[t] = "check" /\ UNCHANGED sstFiles /\ NothingToFlush
            /\ op' = [op EXCEPT ![t].met = Hidden]
        BY <1>4, <2>4, <3>1 DEF FlushCheck, At, Goto, files
      <3>3. op'[t].floor = op[t].floor /\ op'[t].met = Hidden
        BY <1>4, <3>2 DEF Ops
      <3>4. Settled(k, op[t].floor[k].seq)
        BY <3>2 DEF FlushOk, InsideFlush
      <3>5. op[t].floor[k].seq <= Lookup(k).seq
        BY <1>1, <2>4, <3>3, <3>4, SettledUnhidden
      <3>6. OnDisk(op[t].floor[k], k)
        BY <1>4, <3>2, <3>5, NothingLeft
      <3> QED  BY <3>2, <3>3, <3>6 DEF OnDisk
    <2> QED  BY <2>2, <2>3, <2>4 DEF FlushOk
  <1> QED  BY <1>1, <1>6, <1>7, FlushFrameHolds

LEMMA FlushStepOfOthers ==
    ASSUME IInv, IInv', Next, sstFiles \subseteq sstFiles', NEW t \in Threads, FlushOk(t), ~Thread(t)
    PROVE  FlushOk(t)'
  <1>1. TypeOK /\ InvLocks /\ InvQuiet /\ TypeOK' /\ InvQuiet'
    BY DEF IInv
  <1>2. CASE Reset
    <2>1. op'[t] = NoOp /\ pc'[t] = "idle"
      BY <1>2 DEF Reset, CloseEnd, Crash, ForgetMemory
    <2> QED  BY <2>1 DEF FlushOk, NoOp, InsideFlush
  <1>3. CASE pc'[t] = pc[t] /\ op'[t] = op[t]
    <2>1. ASSUME op[t].flushing, NEW k \in Keys PROVE Settled(k, op[t].floor[k].seq)'
      <3>1. pc[t] # "idle" /\ Settled(k, op[t].floor[k].seq)
        BY <2>1 DEF FlushOk, OutsideFlush
      <3>2. Serving /\ Serving'
        BY <1>1, <1>3, <3>1 DEF InvQuiet, Serving
      <3>3. PICK n \in Nat : n = op[t].floor[k].seq
        BY <1>1, ThreadTypes, TableFacts DEF Ops
      <3>4. Settled(k, n)'
        BY <1>1, <3>1, <3>2, <3>3, SettledStep
      <3> QED  BY <1>3, <3>3, <3>4 DEF Settled
    <2>2. ASSUME NEW k \in Keys, OnDisk(op[t].floor[k], k) PROVE OnDisk(op[t].floor[k], k)'
      BY <1>3, <2>2 DEF OnDisk
    <2> QED  BY <1>3, <2>1, <2>2 DEF FlushOk
  <1> QED  BY <1>1, <1>2, <1>3, OthersFrame

\* flush returns Ok only when everything that was visible at its call, or something newer
\* for the same key, is in a published SSTable ("Ok cuando no queda nada en activa ni
\* inmutable"), whatever other threads write, schedule and flush meanwhile: only a key that
\* an overwrite hid when flush saw the active table empty is excepted (memtable.rs:255-257).
THEOREM FlushLeavesOnDiskHolds == Spec => []FlushLeavesOnDisk
  <1>1. Init => FlushInv
    BY DEF Init, FlushInv, FlushOk, NoOp, InsideFlush
  <1>2. IInv /\ IInv' /\ FlushInv /\ [Next]_vars /\ [sstFiles \subseteq sstFiles']_vars => FlushInv'
    <2>1. ASSUME IInv, IInv', FlushInv, Next, [sstFiles \subseteq sstFiles']_vars,
                 NEW t \in Threads
          PROVE  FlushOk(t)'
      <3>1. sstFiles \subseteq sstFiles'
        BY <2>1 DEF vars, files
      <3> QED  BY <2>1, <3>1, FlushStepOfThread, FlushStepOfOthers DEF FlushInv
    <2>2. ASSUME FlushInv, UNCHANGED vars, NEW t \in Threads PROVE FlushOk(t)'
      <3>1. UNCHANGED <<snap, pc, op, sstFiles>>
        BY <2>2 DEF vars, threads, files
      <3> QED  BY <2>2, <3>1, SameSnap DEF FlushInv, FlushOk, OnDisk, Settled
    <2> QED  BY <2>1, <2>2 DEF FlushInv
  <1>3. FlushInv => FlushLeavesOnDisk
    BY DEF FlushInv, FlushOk, OnDisk, FlushLeavesOnDisk
  <1> QED  BY <1>1, <1>2, <1>3, InvHolds, SstImmutableHolds, PTL DEF Spec, SstImmutable
===============================================================================
