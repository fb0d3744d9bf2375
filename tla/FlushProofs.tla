------------------------------ MODULE FlushProofs ------------------------------
(***************************************************************************)
(* What holds when one thread flushes: the flush calls, the channel and    *)
(* the worker take turns.  InvRoles holds for any clients, InvSerial needs *)
(* OneFlusher.                                                             *)
(***************************************************************************)
EXTENDS DurableInv, ReadProofs

\* The steps of a thread that change what the threads and the worker share.
LEMMA CtlOfThread ==
    ASSUME NEW t \in Threads, Thread(t)
    PROVE  /\ UNCHANGED worker
           /\ UNCHANGED inFlight \/ MarkInFlight(t)
           /\ UNCHANGED jobs \/ SendJob(t)
           /\ UNCHANGED frozen \/ SchedSwap(t)
           /\ UNCHANGED flushWal \/ RotRemove(t) \/ RotRename(t)
           /\ UNCHANGED walOpen \/ RotLock(t) \/ RotHeader(t)
  <1> USE DEF files, snap, locks, ctl
  <1>1. CASE Begin(t) \/ Get(t)
    BY <1>1 DEF Begin, WriteBegin, GetBegin, FlushBegin, ScheduleBegin, WaitBegin,
       Get, GetActive, GetBelow, GetReturn
  <1>2. CASE Write(t) \/ WriteAppendFails(t)
    BY <1>2 DEF Write, WriteNoWal, WriteAppend, WriteRemove, WriteApply, WriteAppendFails
  <1>3. CASE Scheduling(t) \/ SchedSwap(t) \/ SendJob(t)
    BY <1>3 DEF Scheduling, WaitOk, WaitErr, FlushCheck, FlushReturn, SchedSkip, MarkInFlight,
       SchedSwap, SendJob
  <1>4. CASE Rotation(t)
    BY <1>4 DEF Rotation, RotLock, RotRemove, RotRemoveLost, RotRename, RotCreate, RotHeader,
       RotFails
  <1> QED  BY <1>1, <1>2, <1>3, <1>4, FlushGroups DEF Thread

\* The steps that lead a thread to where it is.
LEMMA PcOfThread ==
    ASSUME TypeOK, NEW t \in Threads, Thread(t)
    PROVE  /\ pc'[t] \in Writing => pc[t] \in Writing \/ t \in Writers
           /\ pc'[t] \in Flushing => pc[t] \in Flushing \/ t \in Flushers
           /\ pc'[t] = "sched_swap" => WaitOk(t)
           /\ pc'[t] \in Owning => pc[t] \in Owning \cup {"sched_swap"}
           /\ pc'[t] \in Owning => pc[t] \in Owning \/ SchedSwap(t)
           /\ pc'[t] \in BeforeRename => pc[t] \in BeforeRename \/ SchedSwap(t)
           /\ pc'[t] = "rot_remove" => RotLock(t)
           /\ pc'[t] \in RotationDone => pc[t] \in RotationDone \/ RotRename(t)
           /\ pc'[t] = "send" => MarkInFlight(t)
           /\ pc[t] \in Rotating =>
                 pc'[t] \in Rotating \/ RotRemoveLost(t) \/ RotFails(t) \/ RotHeader(t)
  <1> USE ThreadTypes DEF At, Goto, Return, Writing, Applying, Flushing, Waiting, Owning, Rotating,
                           RotationDone, BeforeRename
  <1>1. CASE Begin(t) \/ Get(t)
    BY <1>1 DEF Begin, WriteBegin, GetBegin, FlushBegin, ScheduleBegin, WaitBegin,
       Get, GetActive, GetBelow, GetReturn
  <1>2. CASE Write(t) \/ WriteAppendFails(t)
    BY <1>2 DEF Write, WriteNoWal, WriteAppend, WriteRemove, WriteApply, WriteAppendFails, Applying
  <1>3. CASE WaitOk(t)
    BY <1>3 DEF WaitOk, AfterWait
  <1>4. CASE WaitErr(t) \/ FlushCheck(t) \/ FlushReturn(t) \/ SchedSkip(t) \/ MarkInFlight(t)
             \/ SchedSwap(t) \/ SendJob(t)
    BY <1>4 DEF WaitErr, FlushCheck, FlushReturn, SchedSkip, MarkInFlight, SchedSwap, SendJob,
       AfterSchedule
  <1>5. CASE Rotation(t)
    BY <1>5 DEF Rotation, RotLock, RotRemove, RotRemoveLost, RotRename, RotCreate, RotHeader,
       RotFails
  <1> QED  BY <1>1, <1>2, <1>3, <1>4, <1>5, FlushGroups DEF Thread, Scheduling

\* What the steps of the process as a whole change of it.
LEMMA CtlOfProcess ==
    ASSUME CloseBegin \/ Recovery \/ OpenRefused
    PROVE  /\ UNCHANGED <<pc, op, jobs, inFlight, frozen>>
           /\ UNCHANGED worker \/ (Spawn /\ worker' = Idle)
           /\ UNCHANGED flushWal \/ DropFlushWal
           /\ UNCHANGED walOpen \/ OpenReplay \/ WriteHeader
  BY DEF CloseBegin, OpenRefused, Recovery, OpenReplay, DropWal, DropFlushWal, CreateWal,
     WriteHeader, Checkpoint, CheckpointDone, Spawn, files, snap, locks, ctl, threads

\* What the steps of the worker change of it.
LEMMA CtlOfWorker ==
    ASSUME TypeOK, Worker \/ WorkerFails
    PROVE  /\ UNCHANGED <<pc, op, mode, walOpen>> /\ Serving /\ worker.pc \in WorkerPcs
           /\ UNCHANGED jobs \/ WorkerRecv
           /\ UNCHANGED inFlight \/ WorkerReport
           /\ UNCHANGED frozen \/ WorkerInstall
           /\ UNCHANGED flushWal \/ WorkerUnlink
           /\ worker.pc = "recv" => WorkerRecv
           /\ WorkerRecv => worker.pc = "recv" /\ jobs # <<>> /\ worker'.pc = "write"
           /\ WorkerWrite => worker'.pc = "install"
           /\ WorkerInstall => worker'.pc = "unlink_check"
           /\ WorkerUnlink => worker.pc = "unlink" /\ worker'.pc = "report"
           /\ WorkerReport => worker.pc = "report" /\ worker'.pc = "recv"
           /\ worker'.pc = "recv" => WorkerReport
           /\ worker'.pc = "write" => WorkerRecv
           /\ worker'.pc = "unlink_check" => WorkerInstall
           /\ worker'.pc = "unlink" => worker.pc = "unlink_check"
  <1>1. worker \in [pc : WorkerPcs, job : SSTs, err : BOOLEAN]
    BY DEF TypeOK
  <1> USE <1>1 DEF WorkerAt, files, snap, locks, ctl, threads
  <1>2. CASE WorkerRecv
    BY <1>2 DEF WorkerRecv, WorkerWrite, WorkerInstall, WorkerUnlink, WorkerReport
  <1>3. CASE WorkerWrite
    BY <1>3 DEF WorkerRecv, WorkerWrite, WorkerInstall, WorkerUnlink, WorkerReport
  <1>4. CASE WorkerInstall
    BY <1>4 DEF WorkerRecv, WorkerWrite, WorkerInstall, WorkerUnlink, WorkerReport
  <1>5. CASE WorkerUnlinkCheck \/ WorkerUnlink \/ WorkerUnlinkLost
    BY <1>5 DEF WorkerRecv, WorkerWrite, WorkerInstall, WorkerUnlinkCheck, WorkerUnlink,
       WorkerUnlinkLost, WorkerReport
  <1>6. CASE WorkerReport
    BY <1>6 DEF WorkerRecv, WorkerWrite, WorkerInstall, WorkerUnlink, WorkerReport, Idle
  <1>7. CASE WorkerFails
    BY <1>7 DEF WorkerFails, WorkerRecv, WorkerWrite, WorkerInstall, WorkerUnlink, WorkerReport
  <1> QED  BY <1>2, <1>3, <1>4, <1>5, <1>6, <1>7 DEF Worker
-------------------------------------------------------------------------------
(***************************************************************************)
(* Who writes, who flushes.                                                *)
(***************************************************************************)
\* InvRoles is kept by every step.
LEMMA RolesStep == ASSUME IInv, InvRoles, Next PROVE InvRoles'
  <1> SUFFICES ASSUME NEW t \in Threads
               PROVE  /\ pc'[t] \in Writing => t \in Writers
                      /\ pc'[t] \in Flushing => t \in Flushers
    BY DEF InvRoles
  <1>1. TypeOK /\ InvLocks
    BY DEF IInv
  <1>2. CASE Thread(t)
    BY <1>1, <1>2, PcOfThread DEF InvRoles
  <1>3. CASE ~Thread(t)
    <2>1. CASE Reset
      BY <2>1, ResetFacts DEF Writing, Applying, Flushing, Waiting, Owning, Rotating
    <2> QED  BY <1>1, <1>3, <2>1, OthersFrame DEF InvRoles
  <1> QED  BY <1>2, <1>3

\* With one thread that flushes, no other is inside a flush call.
LEMMA OnlyFlusher ==
    ASSUME OneFlusher, InvRoles, NEW t \in Threads, NEW u \in Threads,
           pc[t] \in Flushing, pc[u] \in Flushing
    PROVE  t = u
  BY DEF OneFlusher, InvRoles

\* A thread's step keeps the turns of flush calls, channel and worker.
LEMMA SerialOfThread ==
    ASSUME IInv, OneFlusher, InvRoles, InvSerial, NEW t \in Threads, Thread(t)
    PROVE  InvSerial'
  <1>1. TypeOK /\ InvLocks /\ InvOwner /\ InvSlot
    BY DEF IInv
  <1>2. /\ mode = "up" /\ mode' = "up" /\ UNCHANGED worker
        /\ \A u \in Threads : u # t => pc'[u] = pc[u]
        /\ pc \in [Threads -> ThreadPcs]
    BY <1>1, ThreadFrame, CtlOfThread, ThreadTypes
  <1> USE DEF At, Goto, Return, Owning, Rotating, RotationDone, Flushing
  <1>3. ASSUME SendJob(t) PROVE InvSerial'
    <2>1. /\ jobs = <<>> /\ worker.pc = "recv" /\ inFlight /\ pc[t] = "send"
      BY <1>3 DEF SendJob, InvSerial
    <2>2. /\ UNCHANGED <<inFlight, flushWal, frozen>>
          /\ pc'[t] \in {"idle", "wait_again"}
      BY <1>2, <1>3 DEF SendJob, AfterSchedule, files, snap
    <2>3. \A u \in Threads : u # t => pc[u] \notin Flushing
      BY <2>1, OnlyFlusher
    <2>4. \A u \in Threads : pc'[u] \notin Owning \cup {"sched_swap"}
      BY <1>2, <2>2, <2>3
    <2>5. Exists(flushWal)
      BY <2>1 DEF InvSerial, Rotated
    <2> QED  BY <1>2, <2>1, <2>2, <2>4, <2>5 DEF InvSerial, InFlightTracksJob, Exists
  <1>4. ASSUME ~SendJob(t) PROVE InvSerial'
    <2>1. UNCHANGED jobs /\ (inFlight => inFlight')
      BY <1>4, CtlOfThread DEF MarkInFlight
    <2>2. InFlightTracksJob' /\ (jobs' # <<>> => worker'.pc = "recv")
      BY <1>2, <2>1 DEF InvSerial, InFlightTracksJob
    <2>3. ASSUME NEW u \in Threads, pc'[u] \in Owning \cup {"sched_swap"}
          PROVE  jobs = <<>> /\ worker.pc = "recv"
      <3>1. CASE pc[u] \in Owning \cup {"sched_swap"}
        BY <3>1 DEF InvSerial
      <3>2. CASE u = t /\ pc[t] \notin Owning \cup {"sched_swap"}
        <4>1. WaitOk(t)
          BY <1>1, <2>3, <3>2, PcOfThread
        <4> QED  BY <1>2, <4>1 DEF WaitOk, InvSerial, InFlightTracksJob
      <3> QED  BY <1>2, <2>3, <3>1, <3>2
    <2>4. ASSUME NEW u \in Threads, pc'[u] = "send" PROVE inFlight'
      <3>1. CASE u = t
        <4>1. MarkInFlight(t)
          BY <1>1, <2>4, <3>1, PcOfThread
        <4> QED  BY <4>1 DEF MarkInFlight
      <3>2. CASE u # t
        BY <1>2, <2>1, <2>4, <3>2 DEF InvSerial
      <3> QED  BY <3>1, <3>2
    <2>5. frozen'.some /\ worker.pc \in {"unlink_check", "unlink"} => frozen.some
      <3>1. SchedSwap(t) => worker.pc = "recv"
        BY DEF SchedSwap, InvSerial
      <3> QED  BY <3>1, CtlOfThread
    <2>6. ASSUME NEW u \in Threads, pc'[u] = "rot_remove" PROVE Exists(flushWal)'
      <3>1. CASE u = t
        <4>1. RotLock(t)
          BY <1>1, <2>6, <3>1, PcOfThread
        <4> QED  BY <1>2, <2>6, <3>1, <4>1 DEF RotLock, files, Exists
      <3>2. CASE u # t
        <4>1. pc[u] = "rot_remove" /\ Exists(flushWal)
          BY <1>2, <2>6, <3>2 DEF InvSerial
        <4>2. pc[t] \notin Flushing
          BY <3>2, <4>1, OnlyFlusher
        <4>3. ~RotRemove(t) /\ ~RotRename(t)
          BY <4>2 DEF RotRemove, RotRename
        <4> QED  BY <4>1, <4>3, CtlOfThread DEF Exists
      <3> QED  BY <3>1, <3>2
    <2>7. ASSUME Rotated' PROVE Exists(flushWal)'
      <3>1. CASE RotRename(t)
        BY <3>1 DEF RotRename, Exists
      <3>2. CASE ~RotRename(t)
        <4>1. Rotated
          <5>1. \A u \in Threads : pc'[u] \in RotationDone => pc[u] \in RotationDone
            BY <1>1, <1>2, <3>2, PcOfThread
          <5> QED  BY <1>2, <2>1, <2>7, <5>1 DEF Rotated
        <4>2. ~RotRemove(t)
          <5> SUFFICES ASSUME RotRemove(t) PROVE FALSE
            OBVIOUS
          <5>1. pc[t] = "rot_remove" /\ jobs = <<>> /\ worker.pc = "recv"
            BY DEF RotRemove, InvSerial
          <5>2. PICK u \in Threads : pc[u] \in RotationDone
            BY <4>1, <5>1 DEF Rotated
          <5> QED  BY <5>1, <5>2, OnlyFlusher
        <4> QED  BY <3>2, <4>1, <4>2, CtlOfThread DEF InvSerial, Exists
      <3> QED  BY <3>1, <3>2
    <2> QED  BY <1>2, <2>1, <2>2, <2>3, <2>4, <2>5, <2>6, <2>7 DEF InvSerial
  <1> QED  BY <1>3, <1>4

\* So does a step of the worker.
LEMMA SerialOfWorker ==
    ASSUME IInv, InvSerial, Worker \/ WorkerFails
    PROVE  InvSerial'
  <1>1. TypeOK /\ InvOwner
    BY DEF IInv
  <1>2. UNCHANGED <<pc, mode>> /\ worker.pc \in WorkerPcs
    BY <1>1, CtlOfWorker
  <1>3. ASSUME worker.pc = "recv" PROVE InvSerial'
    <2>1. /\ WorkerRecv /\ jobs # <<>> /\ worker'.pc = "write"
          /\ UNCHANGED <<inFlight, frozen, flushWal>>
      BY <1>1, <1>3, CtlOfWorker DEF WorkerReport, WorkerInstall, WorkerUnlink, WorkerAt
    <2>2. jobs' = <<>>
      BY <1>1, <2>1 DEF WorkerRecv, InvOwner, TypeOK
    <2>3. Exists(flushWal) /\ \A t \in Threads : pc[t] \notin Owning \cup {"sched_swap"}
      BY <2>1 DEF InvSerial, Rotated
    <2> QED  BY <1>2, <2>1, <2>2, <2>3
             DEF InvSerial, InFlightTracksJob, Exists, Owning, Rotating
  <1>4. ASSUME worker.pc # "recv" PROVE InvSerial'
    <2>1. /\ jobs = <<>> /\ UNCHANGED jobs
          /\ \A t \in Threads : pc[t] \notin Owning \cup {"sched_swap"}
      BY <1>1, <1>4, CtlOfWorker DEF InvSerial
    <2>2. ~Rotated'
      BY <1>1, <1>2, <1>4, <2>1, CtlOfWorker DEF Rotated, RotationDone, Owning, Rotating
    <2>3. InFlightTracksJob'
      BY <1>1, <1>2, <1>4, <2>1, CtlOfWorker DEF InvSerial, InFlightTracksJob
    <2>4. worker'.pc \in {"unlink_check", "unlink"} => ~frozen'.some
      <3>1. CASE WorkerInstall
        BY <3>1 DEF WorkerInstall, NoFrozen
      <3>2. CASE ~WorkerInstall
        BY <1>1, <1>4, <3>2, CtlOfWorker DEF InvSerial
      <3> QED  BY <3>1, <3>2
    <2> QED  BY <1>2, <2>1, <2>2, <2>3, <2>4 DEF InvSerial, Owning, Rotating
  <1> QED  BY <1>3, <1>4

\* InvSerial is kept by every step, with one thread that flushes.
LEMMA SerialStep == ASSUME IInv, OneFlusher, InvRoles, InvSerial, Next PROVE InvSerial'
  <1>1. InvQuiet /\ InvOwner
    BY DEF IInv
  <1>2. CASE \E t \in Threads : Thread(t)
    BY <1>2, SerialOfThread
  <1>3. CASE Worker \/ WorkerFails
    BY <1>3, SerialOfWorker
  <1>4. CASE CloseBegin
    BY <1>4 DEF CloseBegin, InvSerial, InFlightTracksJob, Rotated, Exists, files, snap, ctl, threads
  <1>5. CASE Recovery \/ OpenRefused
    <2>1. ~Serving /\ mode # "up"
      BY <1>5 DEF Recovery, OpenReplay, DropWal, DropFlushWal, CreateWal, WriteHeader, Checkpoint,
         CheckpointDone, Spawn, OpenRefused, Serving
    <2>2. /\ \A t \in Threads : pc'[t] = "idle"
          /\ jobs' = <<>> /\ worker'.pc \in {"stopped", "recv"}
          /\ mode' = "up" => worker'.pc = "recv"
      <3>1. mode' = "up" => Spawn
        BY <1>5, <2>1 DEF Recovery, OpenReplay, DropWal, DropFlushWal, CreateWal, WriteHeader,
           Checkpoint, CheckpointDone, OpenRefused
      <3>2. Spawn => worker' = Idle
        BY DEF Spawn
      <3> QED  BY <1>1, <1>5, <2>1, <3>1, <3>2, CtlOfProcess DEF InvQuiet, Stopped, Idle
    <2> QED  BY <2>2 DEF InvSerial, InFlightTracksJob, Rotated, RotationDone, Owning, Rotating
  <1>6. CASE Reset
    <2>1. /\ \A t \in Threads : pc'[t] = "idle"
          /\ jobs' = <<>> /\ worker'.pc = "stopped" /\ mode' = "down"
      BY <1>6, ResetFacts DEF Stopped, Idle
    <2> QED  BY <2>1 DEF InvSerial, InFlightTracksJob, Rotated, RotationDone, Owning, Rotating
  <1> QED  BY <1>2, <1>3, <1>4, <1>5, <1>6 DEF Next, Reset

\* A step that does nothing keeps both.
LEMMA SerialStutter == ASSUME InvRoles, InvSerial, UNCHANGED vars PROVE InvRoles' /\ InvSerial'
  BY DEF InvRoles, InvSerial, InFlightTracksJob, Rotated, Exists, vars, files, snap, locks, ctl,
     threads

\* With one thread that flushes, InvRoles and InvSerial always hold.
LEMMA SerialHolds == ASSUME OneFlusher PROVE Spec => [](InvRoles /\ InvSerial)
  <1>1. Init => InvRoles /\ InvSerial
    BY DEF Init, InvRoles, InvSerial, InFlightTracksJob, Rotated, RotationDone, Stopped, Idle,
       Writing, Applying, Flushing, Waiting, Owning, Rotating
  <1>2. IInv /\ InvRoles /\ InvSerial /\ [Next]_vars => (InvRoles /\ InvSerial)'
    BY RolesStep, SerialStep, SerialStutter
  <1> QED  BY <1>1, <1>2, InvHolds, PTL DEF Spec

\* With one thread that flushes, in_flight is set for as long as a job is queued or running,
\* as wait_flush and schedule_flush assume (engine.rs:444-462).
THEOREM InFlightTracksJobHolds == ASSUME OneFlusher PROVE Spec => []InFlightTracksJob
  <1>1. InvSerial => InFlightTracksJob
    BY DEF InvSerial
  <1> QED  BY <1>1, SerialHolds, PTL

\* With one thread that flushes, wal.flush is there until the SSTable of the table it
\* belongs to is written: the worker's unlink (engine.rs:555-557) only ever meets the log
\* of its own job.
THEOREM RotatedLogKeptHolds == ASSUME OneFlusher PROVE Spec => []RotatedLogKept
  <1>1. InvSerial => RotatedLogKept
    BY DEF InvSerial, Rotated, RotatedLogKept, WorkerAt
  <1> QED  BY <1>1, SerialHolds, PTL
===============================================================================
