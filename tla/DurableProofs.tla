----------------------------- MODULE DurableProofs -----------------------------
(***************************************************************************)
(* No acknowledged write is lost, and the engine implements StateStore.    *)
(* InvNumbers holds for any clients; InvKept, on which Durable and the     *)
(* refinement rest, for a client that writes and flushes from one thread   *)
(* and does not crash inside the rewrite of the log.                       *)
(***************************************************************************)
EXTENDS FlushProofs

(***************************************************************************)
(* A number belongs to one record.                                         *)
(***************************************************************************)
\* Every copy of a record is an entry.
CellsTyped == \A k \in Keys : AllCells(k) \subseteq Cells
LEMMA CellsAreTyped == TypeOK => CellsTyped
  <1> SUFFICES ASSUME TypeOK, NEW k \in Keys, NEW c \in AllCells(k) PROVE c \in Cells
    BY DEF CellsTyped
  <1>1. /\ wal.log \in Tables /\ wal.tail \in Tables /\ flushWal.log \in Tables
        /\ flushWal.tail \in Tables /\ active \in Tables /\ frozen.tab \in Tables
        /\ \A s \in sstFiles : s.tab \in Tables
    BY DEF TypeOK, Wals, Frozen, SSTs
  <1>2. \A t \in Threads : op[t].cell \in Cells
    BY ThreadTypes
  <1> QED  BY <1>1, <1>2, TableFacts DEF AllCells, InWrite

\* Numbers stay unique when nothing but copies of records appears,
LEMMA UniqueKept ==
    ASSUME TypeOK, InvUnique, \A k \in Keys : AllCells(k)' \subseteq AllCells(k) \cup {Missing}
    PROVE  InvUnique'
  <1> SUFFICES ASSUME NEW k \in Keys, NEW c \in AllCells(k)', NEW d \in AllCells(k)', c.seq = d.seq
               PROVE  c = d
    BY DEF InvUnique
  <1>1. \A e \in Cells : e.seq = 0 => e = Missing
    BY DEF Cells, Missing
  <1>2. AllCells(k) \subseteq Cells /\ Missing.seq = 0
    BY CellsAreTyped DEF CellsTyped, Missing
  <1> QED  BY <1>1, <1>2 DEF InvUnique

\* or a record that is newer than all of them.
LEMMA UniqueNew ==
    ASSUME TypeOK, InvUnique, NEW c \in Cells,
           \A k \in Keys : AllCells(k)' \subseteq AllCells(k) \cup {Missing, c},
           \A k \in Keys : \A d \in AllCells(k) : d.seq < c.seq
    PROVE  InvUnique'
  <1> SUFFICES ASSUME NEW k \in Keys, NEW d \in AllCells(k)', NEW e \in AllCells(k)', d.seq = e.seq
               PROVE  d = e
    BY DEF InvUnique
  <1>1. \A b \in Cells : b.seq \in Nat /\ (b.seq = 0 => b = Missing)
    BY DEF Cells, Missing
  <1>2. AllCells(k) \subseteq Cells /\ Missing.seq = 0 /\ Missing \in Cells
    BY CellsAreTyped, EmptyFacts DEF CellsTyped, Missing
  <1>3. \A b \in AllCells(k) : b.seq # c.seq
    BY <1>1, <1>2
  <1> QED  BY <1>1, <1>2, <1>3 DEF InvUnique

\* While the engine is up, the next number is above every record there is a copy of.
LEMMA AllBelowNext ==
    ASSUME IInv, mode = "up", NEW k \in Keys, NEW c \in AllCells(k)
    PROVE  c.seq < nextSeq
  <1>1. TypeOK /\ InvInWrite /\ nextSeq \in Nat
    BY DEF IInv, TypeOK
  <1>2. /\ AllBelow(active, nextSeq) /\ AllBelow(frozen.tab, nextSeq)
        /\ \A s \in sstFiles : AllBelow(s.tab, nextSeq)
        /\ AllBelow(wal.log, nextSeq) /\ AllBelow(wal.tail, nextSeq)
        /\ AllBelow(Records(flushWal), nextSeq)
    BY DEF IInv, InvFresh, Loaded
  <1>3. flushWal.log[k].seq < nextSeq /\ flushWal.tail[k].seq < nextSeq
    <2>1. flushWal.log \in Tables /\ flushWal.tail \in Tables /\ Records(flushWal) \in Tables
      BY <1>1, RecordsType DEF TypeOK
    <2>2. /\ Records(flushWal)[k].seq >= flushWal.log[k].seq
          /\ Records(flushWal)[k].seq >= flushWal.tail[k].seq
      BY <2>1, ReplayFacts DEF Records
    <2>3. Records(flushWal)[k].seq < nextSeq
      BY <1>2 DEF AllBelow
    <2> QED  BY <1>1, <2>1, <2>2, <2>3, TableFacts
  <1>4. \A d \in InWrite(k) : d.seq < nextSeq
    BY <1>1 DEF InWrite, InvInWrite
  <1> QED  BY <1>2, <1>3, <1>4 DEF AllCells, AllBelow

\* What the logs, the tables and the files hold for a key.
StoredCells(k) ==
    {wal.log[k], wal.tail[k], flushWal.log[k], flushWal.tail[k], active[k], frozen.tab[k]}
    \cup {s.tab[k] : s \in sstFiles}

\* Between append and put are the threads that were, and one that appends.
LEMMA InWriteGrows ==
    ASSUME IInv, Next, NEW k \in Keys, NEW c \in InWrite(k)'
    PROVE  \/ c \in InWrite(k)
           \/ \E t \in Threads : WriteAppend(t) /\ c = op'[t].cell
  <1>1. TypeOK /\ InvLocks
    BY DEF IInv
  <1>2. PICK t \in Threads : pc'[t] \in Applying /\ op'[t].key = k /\ c = op'[t].cell
    BY DEF InWrite
  <1>3. CASE pc[t] \in Applying
    <2>1. op'[t] = op[t]
      BY <1>1, <1>2, <1>3, KeepsWrite
    <2> QED  BY <1>2, <1>3, <2>1 DEF InWrite
  <1>4. CASE pc[t] \notin Applying
    BY <1>1, <1>2, <1>4, EntersWrite
  <1> QED  BY <1>3, <1>4

\* What a log's records are copies of.
LEMMA RecordsAreCopies ==
    ASSUME NEW w \in Wals, NEW k \in Keys
    PROVE  Records(w)[k] \in {w.log[k], w.tail[k]}
  BY RecordsType, ReplayFacts DEF Records

\* Steps that append nothing only copy and forget records.
LEMMA StoredIsCopy ==
    ASSUME IInv, Next, \A t \in Threads : ~WriteAppend(t) /\ ~WriteAppendFails(t), NEW k \in Keys
    PROVE  StoredCells(k)' \subseteq AllCells(k) \cup {Missing}
  <1>1. /\ TypeOK /\ wal \in Wals /\ flushWal \in Wals /\ active \in Tables
        /\ wal.log \in Tables /\ EmptyTable[k] = Missing
    BY LayerTypes DEF IInv, TypeOK, EmptyTable
  <1>2. /\ NoWal.log = EmptyTable /\ NoWal.tail = EmptyTable
        /\ BlankWal.log = EmptyTable /\ BlankWal.tail = EmptyTable
        /\ NewWal.log = EmptyTable /\ NewWal.tail = EmptyTable /\ NoFrozen.tab = EmptyTable
    BY DEF NoWal, BlankWal, NewWal, NoFrozen
  <1> USE DEF StoredCells, AllCells, files, snap
  <1>3. CASE SameData
    BY <1>3 DEF SameData
  <1>4. ASSUME NEW t \in Threads, WriteApply(t) PROVE StoredCells(k)' \subseteq AllCells(k)
    <2>1. op[t].key \in Keys /\ op[t].cell \in Cells /\ pc[t] \in Applying
      BY <1>1, <1>4, ThreadTypes DEF WriteApply, IInv, InvInWrite
    <2>2. active'[k] = active[k] \/ (k = op[t].key /\ active'[k] = op[t].cell)
      BY <1>1, <1>4, <2>1, MemPutAt DEF WriteApply
    <2>3. active'[k] \in AllCells(k)
      BY <2>1, <2>2 DEF InWrite
    <2> QED  BY <1>4, <2>3 DEF WriteApply
  <1>5. ASSUME NEW t \in Threads, SchedSwap(t) \/ RotateData(t)
        PROVE  StoredCells(k)' \subseteq AllCells(k) \cup {Missing}
    BY <1>1, <1>2, <1>5 DEF SchedSwap, RotateData, RotRemove, RotRename, RotCreate, RotHeader
  <1>6. CASE WorkerWrite
    <2>1. sstFiles' = sstFiles \cup {worker.job} /\ worker.job.tab = frozen.tab
      BY <1>6, PublishAdds
    <2> QED  BY <1>6, <2>1 DEF WorkerWrite
  <1>7. CASE WorkerInstall \/ WorkerUnlink
    BY <1>1, <1>2, <1>7 DEF WorkerInstall, WorkerUnlink
  <1>8. CASE DropWal \/ DropFlushWal \/ CreateWal \/ WriteHeader
    BY <1>1, <1>2, <1>8 DEF DropWal, DropFlushWal, CreateWal, WriteHeader
  <1>9. CASE Checkpoint
    <2>1. PICK j \in unwritten : wal' = AppendWal(wal, j, active[j])
      BY <1>9 DEF Checkpoint
    <2>2. j \in Keys /\ active[j] \in Cells
      BY <1>1, TableFacts DEF TypeOK
    <2>3. wal'.log = MemPut(wal.log, j, active[j]) /\ wal'.tail = EmptyTable
      BY <1>1, <2>1 DEF AppendWal, Wals
    <2>4. wal'.log[k] \in {wal.log[k], active[k]}
      BY <1>1, <2>2, <2>3, MemPutAt
    <2> QED  BY <1>1, <1>9, <2>3, <2>4 DEF Checkpoint
  <1>10. CASE Reset
    BY <1>1, <1>2, <1>10, ResetFacts
  <1>11. CASE OpenReplay
    <2>1. Records(wal)[k] \in {wal.log[k], wal.tail[k]}
      BY <1>1, RecordsAreCopies
    <2>2. Records(flushWal)[k] \in {flushWal.log[k], flushWal.tail[k]}
      BY <1>1, RecordsAreCopies
    <2>3. active'[k] \in {Records(flushWal)[k], Records(wal)[k]}
      BY <1>1, <1>11, RecordsType, ReplayFacts DEF OpenReplay, Recovered
    <2>4. wal' = wal \/ (wal'.log = Records(wal) /\ wal'.tail = EmptyTable)
      BY <1>1, <1>11 DEF OpenReplay, Wals
    <2> QED  BY <1>1, <1>11, <2>1, <2>2, <2>3, <2>4 DEF OpenReplay
  <1>12. ASSUME NEW t \in Threads, WriteRemove(t)
         PROVE  StoredCells(k)' \subseteq AllCells(k) \cup {Missing}
    <2>1. active'[k] \in {active[k], Missing}
      BY <1>1, <1>12, MemRemoveAt DEF WriteRemove
    <2> QED  BY <1>12, <2>1 DEF WriteRemove
  <1> QED  BY <1>3, <1>4, <1>5, <1>6, <1>7, <1>8, <1>9, <1>10, <1>11, <1>12, DataFrame
           DEF DataStep, WriteData, WorkerData, RewriteWal

\* An append brings in one record, under the number it has taken.
LEMMA AppendAdds ==
    ASSUME IInv, NEW t \in Threads, WriteAppend(t) \/ WriteAppendFails(t)
    PROVE  \E c \in Cells :
             /\ c.seq = nextSeq
             /\ \A k \in Keys : StoredCells(k)' \subseteq StoredCells(k) \cup {Missing, c}
             /\ WriteAppend(t) => /\ op'[t].cell = c /\ op'[t].key \in Keys
                                  /\ wal'.log = MemPut(wal.log, op'[t].key, c)
                                  /\ wal'.tail = EmptyTable
             /\ WriteAppendFails(t) =>
                   /\ wal'.log = wal.log
                   /\ \A k \in Keys : wal'.tail[k] \in {wal.tail[k], Missing, c}
  <1>1. /\ TypeOK /\ wal \in Wals /\ wal.log \in Tables /\ nextSeq \in Nat \ {0}
        /\ \A k \in Keys : EmptyTable[k] = Missing
    BY LayerTypes DEF IInv, TypeOK, EmptyTable
  <1>2. /\ UNCHANGED <<flushWal, active, frozen, sstFiles>> /\ op \in [Threads -> Ops]
        /\ pc[t] = "write_wal" /\ pc \in [Threads -> ThreadPcs]
    BY <1>1, ThreadTypes DEF WriteAppend, WriteAppendFails, At, snap
  <1>3. CASE WriteAppend(t)
    <2>1. PICK j \in Keys, kind \in {"Put", "Tombstone"} :
             LET c == [seq |-> nextSeq, kind |-> kind] IN
             wal' = AppendWal(wal, j, c) /\ op' = [op EXCEPT ![t].key = j, ![t].cell = c]
      BY <1>3 DEF WriteAppend
    <2> DEFINE c == [seq |-> nextSeq, kind |-> kind]
    <2>2. c \in Cells /\ c.seq = nextSeq
      BY <1>1, NewCell
    <2>3. op'[t].cell = c /\ op'[t].key = j
      BY <1>2, <2>1 DEF Ops
    <2> HIDE DEF c
    <2>4. wal'.log = MemPut(wal.log, j, c) /\ wal'.tail = EmptyTable
      BY <1>1, <2>1 DEF AppendWal, Wals, c
    <2>5. \A k \in Keys : StoredCells(k)' \subseteq StoredCells(k) \cup {Missing, c}
      BY <1>1, <1>2, <2>2, <2>4, MemPutAt DEF StoredCells
    <2>6. ~WriteAppendFails(t)
      <3>1. pc'[t] = "write_mem"
        BY <1>2, <1>3 DEF WriteAppend, Goto
      <3> QED  BY <1>2, <3>1 DEF WriteAppendFails, Return, Goto
    <2> QED  BY <2>2, <2>3, <2>4, <2>5, <2>6
  <1>4. CASE WriteAppendFails(t)
    <2>1. ~WriteAppend(t)
      <3>1. pc'[t] = "idle"
        BY <1>2, <1>4 DEF WriteAppendFails, Return, Goto
      <3> QED  BY <1>2, <3>1 DEF WriteAppend, Goto
    <2>2. \E c \in Cells : /\ c.seq = nextSeq /\ wal'.log = wal.log
                           /\ \A k \in Keys : wal'.tail[k] \in {wal.tail[k], Missing, c}
      <3>1. CASE wal' = wal \/ wal' = [wal EXCEPT !.tail = EmptyTable]
        <4>1. [seq |-> nextSeq, kind |-> "Put"] \in Cells
          BY <1>1, NewCell
        <4>2. wal'.log = wal.log /\ (wal'.tail = wal.tail \/ wal'.tail = EmptyTable)
          BY <1>1, <3>1 DEF Wals
        <4> QED  BY <1>1, <4>1, <4>2
      <3>2. ASSUME NEW j \in Keys, NEW kind \in {"Put", "Tombstone"},
                   wal' = [wal EXCEPT !.tail =
                              MemPut(EmptyTable, j, [seq |-> nextSeq, kind |-> kind])]
            PROVE  \E c \in Cells : /\ c.seq = nextSeq /\ wal'.log = wal.log
                                   /\ \A k \in Keys : wal'.tail[k] \in {wal.tail[k], Missing, c}
        <4> DEFINE c == [seq |-> nextSeq, kind |-> kind]
        <4>1. c \in Cells /\ c.seq = nextSeq
          BY <1>1, NewCell
        <4>2. wal'.log = wal.log /\ wal'.tail = MemPut(EmptyTable, j, c)
          BY <1>1, <3>2 DEF Wals
        <4> HIDE DEF c
        <4>3. \A k \in Keys : wal'.tail[k] \in {Missing, c}
          BY <1>1, <4>1, <4>2, EmptyFacts, MemPutAt
        <4> QED  BY <4>1, <4>2, <4>3
      <3> QED  BY <1>4, <3>1, <3>2 DEF WriteAppendFails
    <2> QED  BY <1>2, <2>1, <2>2 DEF StoredCells
  <1> QED  BY <1>3, <1>4

\* InvUnique is kept by every step.
LEMMA UniqueStep == ASSUME IInv, InvUnique, Next PROVE InvUnique'
  <1>1. TypeOK
    BY DEF IInv
  <1>2. \A k \in Keys : /\ AllCells(k)' = StoredCells(k)' \cup InWrite(k)'
                        /\ StoredCells(k) \subseteq AllCells(k) /\ InWrite(k) \subseteq AllCells(k)
    BY DEF AllCells, StoredCells
  <1>3. CASE \A t \in Threads : ~WriteAppend(t) /\ ~WriteAppendFails(t)
    <2>1. \A k \in Keys : AllCells(k)' \subseteq AllCells(k) \cup {Missing}
      BY <1>2, <1>3, StoredIsCopy, InWriteGrows
    <2> QED  BY <1>1, <2>1, UniqueKept
  <1>4. ASSUME NEW t \in Threads, WriteAppend(t) \/ WriteAppendFails(t) PROVE InvUnique'
    <2>1. PICK c \in Cells :
             /\ c.seq = nextSeq
             /\ \A k \in Keys : StoredCells(k)' \subseteq StoredCells(k) \cup {Missing, c}
             /\ WriteAppend(t) => op'[t].cell = c
      BY <1>4, AppendAdds
    <2>2. mode = "up"
      BY <1>4 DEF WriteAppend, WriteAppendFails, At
    <2>3. \A u \in Threads : WriteAppend(u) => u = t
      <3> SUFFICES ASSUME NEW u \in Threads, WriteAppend(u), u # t PROVE FALSE
        OBVIOUS
      <3>1. pc[u] = "write_wal" /\ pc'[u] = "write_mem"
        BY <1>1, ThreadTypes DEF WriteAppend, At, Goto
      <3>2. Thread(t)
        BY <1>4 DEF Thread, Write
      <3> QED  BY <1>1, <3>1, <3>2, ThreadFrame DEF IInv
    <2>4. \A k \in Keys : InWrite(k)' \subseteq InWrite(k) \cup {c}
      BY <2>1, <2>3, InWriteGrows
    <2>5. \A k \in Keys : AllCells(k)' \subseteq AllCells(k) \cup {Missing, c}
      BY <1>2, <2>1, <2>4
    <2>6. \A k \in Keys : \A d \in AllCells(k) : d.seq < c.seq
      BY <2>1, <2>2, AllBelowNext
    <2> QED  BY <1>1, <2>5, <2>6, UniqueNew
  <1> QED  BY <1>3, <1>4

\* InvTails is kept by every step: a failed append leaves a number above the whole log.
LEMMA TailsStep == ASSUME IInv, InvTails, Next PROVE InvTails'
  <1>1. /\ TypeOK /\ wal \in Wals /\ flushWal \in Wals /\ wal.log \in Tables
        /\ nextSeq \in Nat /\ \A k \in Keys : ~IsHit(EmptyTable[k])
    BY LayerTypes DEF IInv, TypeOK, EmptyTable, IsHit, Missing
  <1>2. \A w : w.tail = EmptyTable => TailNewer(w)
    BY <1>1 DEF TailNewer
  <1>3. NoWal.tail = EmptyTable /\ BlankWal.tail = EmptyTable /\ NewWal.tail = EmptyTable
    BY DEF NoWal, BlankWal, NewWal
  <1>4. ASSUME NEW t \in Threads, WriteAppend(t) \/ WriteAppendFails(t) PROVE InvTails'
    <2>1. PICK c \in Cells :
             /\ c.seq = nextSeq
             /\ WriteAppend(t) => wal'.tail = EmptyTable
             /\ WriteAppendFails(t) =>
                   /\ wal'.log = wal.log
                   /\ \A k \in Keys : wal'.tail[k] \in {wal.tail[k], Missing, c}
      BY <1>4, AppendAdds
    <2>2. AllBelow(wal.log, nextSeq) /\ UNCHANGED flushWal
      BY <1>4 DEF WriteAppend, WriteAppendFails, At, IInv, InvFresh, Loaded
    <2>3. TailNewer(wal')
      <3>1. CASE WriteAppend(t)
        BY <1>2, <2>1, <3>1
      <3>2. CASE WriteAppendFails(t)
        <4> SUFFICES ASSUME NEW k \in Keys, IsHit(wal'.tail[k])
                     PROVE  wal'.tail[k].seq > wal'.log[k].seq
          BY DEF TailNewer
        <4>1. wal'.tail[k] \in {wal.tail[k], c} /\ wal'.log[k] = wal.log[k]
          BY <2>1, <3>2 DEF IsHit, Missing
        <4>2. wal.log[k].seq < nextSeq /\ wal.log[k].seq \in Nat
          BY <1>1, <2>2, TableFacts DEF AllBelow
        <4> QED  BY <1>1, <2>1, <4>1, <4>2 DEF InvTails, TailNewer
      <3> QED  BY <1>4, <3>1, <3>2
    <2> QED  BY <2>2, <2>3 DEF InvTails, TailNewer
  <1>5. CASE \A t \in Threads : ~WriteAppend(t) /\ ~WriteAppendFails(t)
    <2>1. wal' = wal \/ wal'.tail = EmptyTable
      <3>1. CASE Checkpoint
        BY <1>1, <3>1 DEF Checkpoint, AppendWal, Wals
      <3>2. CASE OpenReplay
        BY <1>1, <3>2 DEF OpenReplay, Wals
      <3> QED  BY <1>3, <1>5, <3>1, <3>2, DataFrame, ResetFacts
               DEF DataStep, SameData, WriteData, WriteRemove, WriteApply, SchedSwap, RotateData, RotRemove,
                   RotRename, RotCreate, RotHeader, WorkerData, WorkerWrite, WorkerInstall,
                   WorkerUnlink, RewriteWal, DropWal, DropFlushWal, CreateWal, WriteHeader, files
    <2>2. flushWal' = flushWal \/ flushWal' = wal \/ flushWal'.tail = EmptyTable
      BY <1>3, <1>5, DataFrame, ResetFacts
      DEF DataStep, SameData, WriteData, WriteRemove, WriteApply, SchedSwap, RotateData, RotRemove, RotRename,
          RotCreate, RotHeader, WorkerData, WorkerWrite, WorkerInstall, WorkerUnlink, RewriteWal,
          DropWal, DropFlushWal, CreateWal, WriteHeader, Checkpoint, OpenReplay, files
    <2> QED  BY <1>2, <2>1, <2>2 DEF InvTails, TailNewer
  <1> QED  BY <1>4, <1>5

\* InvWriting is kept by every step: what an append has put into the log stays the newest
\* until its put, because nothing else that writes a table can run (WriteIsAlone).
LEMMA WritingStep == ASSUME IInv, IInv', InvWriting, Next PROVE InvWriting'
  <1> DEFINE Alone(t) ==
         /\ wal.log[op[t].key] = op[t].cell
         /\ AllBelow(active, op[t].cell.seq) /\ AllBelow(frozen.tab, op[t].cell.seq)
         /\ \A s \in sstFiles : AllBelow(s.tab, op[t].cell.seq)
  <1> SUFFICES ASSUME NEW t \in Threads, pc'[t] \in Applying PROVE Alone(t)'
    BY DEF InvWriting
  <1>1. TypeOK /\ InvLocks
    BY DEF IInv
  <1>2. CASE pc[t] \in Applying
    <2>1. Alone(t) /\ op'[t] = op[t]
      BY <1>1, <1>2, KeepsWrite DEF InvWriting
    <2>2. op[t].cell.seq \in Nat \ {0} /\ active \in Tables
      BY <1>1, <1>2, ThreadTypes, CellFacts DEF TypeOK, IInv, InvInWrite
    <2>3. AllBelow(active', op[t].cell.seq)
      BY <1>2, <2>1, <2>2, WriteIsAlone, BelowRemove DEF AllBelow
    <2> QED  BY <1>2, <2>1, <2>3, WriteIsAlone
  <1>3. CASE pc[t] \notin Applying
    <2>1. WriteAppend(t)
      BY <1>1, <1>3, EntersWrite
    <2>2. PICK c \in Cells : /\ c.seq = nextSeq /\ op'[t].cell = c /\ op'[t].key \in Keys
                            /\ wal'.log = MemPut(wal.log, op'[t].key, c)
      BY <2>1, AppendAdds
    <2>3. /\ UNCHANGED <<active, frozen, sstFiles>>
          /\ AllBelow(active, nextSeq) /\ AllBelow(frozen.tab, nextSeq)
          /\ AllBelow(wal.log, nextSeq) /\ \A s \in sstFiles : AllBelow(s.tab, nextSeq)
      BY <2>1 DEF WriteAppend, At, snap, IInv, InvFresh, Loaded
    <2>4. wal'.log[op'[t].key] = c
      <3>1. wal.log \in Tables /\ nextSeq \in Nat
        BY <1>1, LayerTypes
      <3>2. nextSeq >= wal.log[op'[t].key].seq
        BY <2>2, <2>3, <3>1, FreshShadows
      <3> QED  BY <2>2, <3>1, <3>2, MemPutAt
    <2> QED  BY <2>2, <2>3, <2>4
  <1> QED  BY <1>2, <1>3

\* Records keep their numbers, whatever threads write and flush.
LEMMA NumbersHold == Spec => []InvNumbers
  <1>1. Init => InvNumbers
    <2> SUFFICES ASSUME Init PROVE InvNumbers
      OBVIOUS
    <2>1. /\ wal = NoWal /\ flushWal = NoWal /\ active = EmptyTable /\ frozen.tab = EmptyTable
          /\ sstFiles = {} /\ \A t \in Threads : pc[t] = "idle"
      BY DEF Init, NoFrozen
    <2>2. \A k \in Keys : EmptyTable[k] = Missing /\ ~IsHit(EmptyTable[k])
      BY DEF EmptyTable, IsHit, Missing
    <2>3. \A k \in Keys : AllCells(k) = {Missing}
      BY <2>1, <2>2 DEF AllCells, InWrite, NoWal, Applying
    <2>4. InvTails /\ InvWriting
      BY <2>1, <2>2 DEF InvTails, TailNewer, NoWal, InvWriting, Applying
    <2> QED  BY <2>3, <2>4 DEF InvNumbers, InvUnique
  <1>2. IInv /\ IInv' /\ InvNumbers /\ [Next]_vars => InvNumbers'
    <2>1. InvNumbers /\ UNCHANGED vars => InvNumbers'
      BY DEF InvNumbers, InvUnique, AllCells, InWrite, InvTails, TailNewer, InvWriting,
         vars, files, snap, threads, ghosts
    <2> QED  BY <2>1, UniqueStep, TailsStep, WritingStep DEF InvNumbers
  <1> QED  BY <1>1, <1>2, InvHolds, PTL DEF Spec
-------------------------------------------------------------------------------
(***************************************************************************)
(* Which record reaches which.                                             *)
(***************************************************************************)
\* Every record reaches itself and nothing at all.
LEMMA ReachesFacts ==
    ASSUME NEW c \in Cells
    PROVE  Reaches(c, c) /\ Reaches(c, Missing) /\ (~IsHit(c) => c = Missing)
  BY DEF Reaches, Cells, Missing, IsHit

\* What reaches a record that reaches a third reaches the third.
LEMMA ReachesTrans ==
    ASSUME NEW c \in Cells, NEW d \in Cells, NEW e \in Cells, Reaches(c, d), Reaches(d, e)
    PROVE  Reaches(c, e)
  BY CellFacts DEF Reaches

\* The same of tables.
LEMMA CoversFacts ==
    ASSUME NEW t \in Tables
    PROVE  Covers(t, t) /\ Covers(t, EmptyTable)
  <1>1. \A k \in Keys : t[k] \in Cells /\ EmptyTable[k] = Missing
    BY TableFacts DEF EmptyTable
  <1> QED  BY <1>1, ReachesFacts DEF Covers

LEMMA CoversTrans ==
    ASSUME NEW t \in Tables, NEW u \in Tables, NEW v \in Tables, Covers(t, u), Covers(u, v)
    PROVE  Covers(t, v)
  <1> SUFFICES ASSUME NEW k \in Keys PROVE Reaches(t[k], v[k])
    BY DEF Covers
  <1> QED  BY TableFacts, ReachesTrans DEF Covers

\* A put reaches what it finds, and the record it puts.
LEMMA PutReaches ==
    ASSUME NEW t \in Tables, NEW k \in Keys, NEW c \in Cells
    PROVE  (c.seq > t[k].seq => Covers(MemPut(t, k, c), t)) /\ Reaches(MemPut(t, k, c)[k], c)
  <1>1. \A j \in Keys : t[j] \in Cells /\ MemPut(t, k, c)[j] = IF j = k /\ c.seq >= t[k].seq
                                                               THEN c ELSE t[j]
    BY TableFacts, MemPutAt
  <1>2. c.seq \in Nat /\ t[k].seq \in Nat
    BY <1>1, CellFacts
  <1> QED  BY <1>1, <1>2, ReachesFacts DEF Covers, Reaches

\* What scan_end and replay find in a log covers its acknowledged records.
LEMMA RecordsCover ==
    ASSUME NEW w \in Wals, TailNewer(w)
    PROVE  Covers(Records(w), w.log)
  <1> SUFFICES ASSUME NEW k \in Keys PROVE Reaches(Records(w)[k], w.log[k])
    BY DEF Covers
  <1>1. w.log \in Tables /\ w.tail \in Tables
    BY RecordsType
  <1>2. w.log[k] \in Cells /\ w.tail[k] \in Cells
    BY <1>1, TableFacts
  <1>3. IsHit(w.tail[k]) => w.tail[k].seq > w.log[k].seq
    BY DEF TailNewer
  <1>4. Records(w)[k] = IF w.tail[k].seq >= w.log[k].seq THEN w.tail[k] ELSE w.log[k]
    BY DEF Records, Replay, Supersedes
  <1>5. CASE IsHit(w.tail[k])
    BY <1>2, <1>3, <1>4, <1>5, CellFacts DEF Reaches
  <1>6. CASE ~IsHit(w.tail[k])
    <2>1. w.tail[k] = Missing
      BY <1>2, <1>6, ReachesFacts
    <2>2. w.log[k].seq = 0 => w.log[k] = Missing
      BY <1>2, CellFacts, ReachesFacts
    <2> QED  BY <1>2, <1>4, <2>1, <2>2, CellFacts, ReachesFacts DEF Missing
  <1> QED  BY <1>5, <1>6
-------------------------------------------------------------------------------
(***************************************************************************)
(* One client: no thread writes while the client flushes.                  *)
(***************************************************************************)
\* All that the proof of InvKept has at hand in a state.
Held == /\ IInv /\ InvNumbers /\ InvRoles /\ InvSerial /\ InvKept

LEMMA SoleIsOneFlusher == SoleClient => OneFlusher
  BY DEF SoleClient, OneFlusher

\* The client is in one call.
LEMMA OneCall ==
    ASSUME SoleClient, InvRoles, NEW t \in Threads, NEW u \in Threads,
           pc[t] \in Writing \cup Flushing, pc[u] \in Writing \cup Flushing
    PROVE  t = u
  BY DEF SoleClient, InvRoles

\* Which steps change the active table, the frozen table, the rotated log and the mode;
\* files are only added.
LEMMA StateFrame ==
    ASSUME Next
    PROVE  /\ \/ UNCHANGED active \/ OpenReplay \/ Reset
              \/ \E t \in Threads : WriteRemove(t) \/ WriteApply(t) \/ SchedSwap(t)
           /\ UNCHANGED frozen \/ WorkerInstall \/ Reset \/ \E t \in Threads : SchedSwap(t)
           /\ \/ UNCHANGED flushWal \/ WorkerUnlink \/ DropFlushWal
              \/ \E t \in Threads : RotRemove(t) \/ RotRename(t)
  BY DataFrame, ResetFacts DEF DataStep, SameData, WriteData, WriteAppend,
     WriteAppendFails, WriteRemove, WriteApply, SchedSwap, RotateData, RotRemove, RotRename, RotCreate,
     RotHeader, WorkerData, WorkerWrite, WorkerInstall, WorkerUnlink, RewriteWal, DropWal,
     DropFlushWal, CreateWal, WriteHeader, Checkpoint, OpenReplay, files, snap

LEMMA FilesGrow == ASSUME IInv, Next PROVE sstFiles \subseteq sstFiles'
  <1>1. CASE WorkerWrite
    BY <1>1, PublishAdds
  <1>2. CASE ~WorkerWrite
    BY <1>2, DataFrame, ResetFacts DEF DataStep, SameData, WriteData, WriteAppend,
       WriteAppendFails, WriteRemove, WriteApply, SchedSwap, RotateData, RotRemove, RotRename, RotCreate,
       RotHeader, WorkerData, WorkerInstall, WorkerUnlink, RewriteWal, DropWal, DropFlushWal,
       CreateWal, WriteHeader, Checkpoint, OpenReplay, files
  <1> QED  BY <1>1, <1>2

\* The log in use only gains records, except in a rotation and in an open.
LEMMA LogFrame ==
    ASSUME IInv, Next
    PROVE  \/ Covers(wal'.log, wal.log)
           \/ RewriteWal \/ OpenReplay
           \/ \E t \in Threads : RotRename(t) \/ RotCreate(t) \/ RotHeader(t)
  <1>1. TypeOK /\ wal.log \in Tables /\ nextSeq \in Nat
    BY LayerTypes DEF IInv
  <1>2. Covers(wal.log, wal.log)
    BY <1>1, CoversFacts
  <1>3. ASSUME NEW t \in Threads, WriteAppend(t) PROVE Covers(wal'.log, wal.log)
    <2>1. PICK c \in Cells : /\ c.seq = nextSeq /\ op'[t].key \in Keys
                            /\ wal'.log = MemPut(wal.log, op'[t].key, c)
      BY <1>3, AppendAdds
    <2>2. AllBelow(wal.log, nextSeq)
      BY <1>3 DEF WriteAppend, At, IInv, InvFresh, Loaded
    <2>3. nextSeq > wal.log[op'[t].key].seq
      BY <1>1, <2>1, <2>2, TableFacts DEF AllBelow
    <2> QED  BY <1>1, <2>1, <2>3, PutReaches
  <1>4. ASSUME NEW t \in Threads, WriteAppendFails(t) PROVE wal'.log = wal.log
    BY <1>4, AppendAdds
  <1> QED
    BY <1>2, <1>3, <1>4, DataFrame, ResetFacts
    DEF DataStep, SameData, WriteData, WriteRemove, WriteApply, SchedSwap, RotateData, RotRemove, WorkerData,
        WorkerWrite, WorkerInstall, WorkerUnlink, files

\* Only the end of a write and an open acknowledge anything.
LEMMA CommittedFrame ==
    ASSUME Next
    PROVE  \/ UNCHANGED committed
           \/ \E t \in Threads : WriteApply(t)
           \/ Spawn
  <1> USE DEF ghosts
  <1>1. ASSUME NEW t \in Threads, Thread(t)
        PROVE  UNCHANGED committed \/ WriteApply(t)
    BY <1>1, FlushGroups
    DEF Thread, Begin, WriteBegin, GetBegin, FlushBegin, ScheduleBegin, WaitBegin,
        Write, WriteAppend, WriteNoWal, WriteRemove, WriteAppendFails,
        Get, GetActive, GetBelow, GetReturn,
        Scheduling, WaitOk, WaitErr, FlushCheck, FlushReturn, SchedSkip, MarkInFlight, SchedSwap,
        SendJob, Rotation, RotLock, RotRemove, RotRemoveLost, RotRename, RotCreate, RotHeader,
        RotFails
  <1>2. CASE Worker \/ WorkerFails
    BY <1>2 DEF Worker, WorkerFails, WorkerRecv, WorkerWrite, WorkerInstall, WorkerUnlinkCheck,
        WorkerUnlink, WorkerUnlinkLost, WorkerReport
  <1>3. CASE CloseBegin \/ CloseEnd \/ Crash \/ Recovery \/ OpenRefused
    BY <1>3 DEF CloseBegin, CloseEnd, Crash, OpenRefused, Recovery, OpenReplay, DropWal,
        DropFlushWal, CreateWal, WriteHeader, Checkpoint, CheckpointDone
  <1> QED  BY <1>1, <1>2, <1>3 DEF Next

\* A process begins to serve at the end of its open.
LEMMA ServingBegins ==
    ASSUME IInv, Next, ~Serving, Serving'
    PROVE  Spawn
  <1>1. ASSUME NEW t \in Threads, Thread(t) PROVE FALSE
    BY <1>1, ThreadFrame DEF IInv, Serving
  <1>2. CASE Worker \/ WorkerFails
    BY <1>2 DEF Serving, WorkerAt, Worker, WorkerFails, WorkerRecv, WorkerWrite, WorkerInstall,
       WorkerUnlinkCheck, WorkerUnlink, WorkerUnlinkLost, WorkerReport
  <1>3. CASE CloseBegin \/ CloseEnd \/ Crash \/ Recovery \/ OpenRefused
    BY <1>3 DEF Serving, CloseBegin, CloseEnd, Crash, OpenRefused, Recovery, OpenReplay, DropWal,
       DropFlushWal, CreateWal, WriteHeader, Checkpoint, CheckpointDone
  <1> QED  BY <1>1, <1>2, <1>3 DEF Next

\* While nothing is served, the process opens the directory, refuses to, or dies.
LEMMA StepOfOpen ==
    ASSUME IInv, Next, ~Serving
    PROVE  Recovery \/ OpenRefused \/ Crash
  <1>1. \A t \in Threads : ~Thread(t)
    BY ThreadFrame DEF IInv, Serving
  <1>2. ~Worker /\ ~WorkerFails
    BY CtlOfWorker DEF IInv
  <1> QED  BY <1>1, <1>2 DEF Next, CloseBegin, CloseEnd, Serving

\* While it serves, a step is a thread's, the worker's or the beginning of a close.
LEMMA StepOfServing ==
    ASSUME IInv, Next, Serving, Serving'
    PROVE  (\E t \in Threads : Thread(t)) \/ Worker \/ WorkerFails \/ CloseBegin
  <1>1. ~CloseEnd /\ ~Crash
    BY ResetFacts DEF Reset, Serving
  <1>2. ~Recovery /\ ~OpenRefused
    BY DEF Recovery, OpenReplay, DropWal, DropFlushWal, CreateWal, WriteHeader, Checkpoint,
       CheckpointDone, Spawn, OpenRefused, Serving
  <1> QED  BY <1>1, <1>2 DEF Next

\* A thread that will own the frozen table owns it now, or swaps.
LEMMA OwningFrame ==
    ASSUME IInv, Next, NEW t \in Threads, pc'[t] \in Owning
    PROVE  (pc[t] \in Owning \/ SchedSwap(t)) /\ mode = "up" /\ ~Reset
  <1>1. TypeOK /\ InvLocks /\ InvQuiet
    BY DEF IInv
  <1>2. ~Reset
    BY ResetFacts DEF Owning, Rotating
  <1>3. pc[t] \in Owning \/ SchedSwap(t)
    BY <1>1, <1>2, PcOfThread, OthersFrame
  <1>4. pc[t] \in Owning => pc[t] # "idle"
    BY DEF Owning, Rotating
  <1> QED  BY <1>1, <1>2, <1>3, <1>4 DEF InvQuiet, SchedSwap, At

\* The active table during an open: empty where there was nothing to replay, and in the
\* log again, record by record, where there was.
LEMMA ActiveOfOpen == ASSUME Held, Next, ~Serving PROVE ActiveKept'
  <1>1. IInv /\ TypeOK /\ InvQuiet /\ InvSlot /\ ActiveKept /\ wal \in Wals /\ TypeOK'
    BY TypeStep DEF Held, IInv, InvKept, TypeOK
  <1>2. active \in Tables /\ wal.log \in Tables /\ active' \in Tables /\ wal'.log \in Tables
    BY <1>1 DEF TypeOK, Wals
  <1>3. \A t \in Threads : pc'[t] \notin Owning
    BY <1>1, OwningFrame DEF Serving
  <1>4. Covers(wal'.log, EmptyTable)
    BY <1>2, CoversFacts
  <1> USE DEF ActiveKept, Serving, Recovering, files, snap
  <1>5. CASE OpenReplay
    <2>1. CASE mode' = "open_create"
      <3>1. wal = NoWal /\ flushWal = NoWal
        BY <1>1, <1>5, <2>1 DEF OpenReplay, InvSlot
      <3>2. active' = Replay(EmptyTable, EmptyTable)
        BY <1>5, <3>1, NoRecords DEF OpenReplay, Recovered
      <3>3. Replay(EmptyTable, EmptyTable) = EmptyTable
        BY NoRecords DEF Records, NoWal
      <3> QED  BY <1>3, <2>1, <3>2, <3>3
    <2>2. CASE mode' = "spawn"
      <3>1. flushWal = NoWal /\ wal'.log = Records(wal)
        BY <1>1, <1>5, <2>2 DEF OpenReplay, InvSlot, Wals
      <3>2. active' = Replay(EmptyTable, Records(wal)) /\ Records(wal) \in Tables
        BY <1>1, <1>5, <3>1, NoRecords, RecordsType DEF OpenReplay, Recovered
      <3>3. \A k \in Keys : active'[k] = Records(wal)[k]
        BY <3>2, TableFacts, EmptyFacts DEF Replay, Supersedes
      <3>4. Covers(Records(wal), active')
        BY <3>2, <3>3, TableFacts, ReachesFacts DEF Covers
      <3> QED  BY <1>3, <2>2, <3>1, <3>4
    <2>3. mode' \in {"open_create", "spawn", "drop_wal"}
      BY <1>5 DEF OpenReplay
    <2> QED  BY <1>3, <2>1, <2>2, <2>3
  <1>6. CASE WriteHeader
    <2>1. UNCHANGED active
      BY <1>6 DEF WriteHeader
    <2>2. CASE mode = "rec_header"
      <3>1. mode' = "checkpoint" /\ unwritten' = {k \in Keys : IsHit(active[k])}
        BY <1>6, <2>2 DEF WriteHeader
      <3>2. \A k \in Keys : ~IsHit(active[k]) => Reaches(wal'.log[k], active[k])
        BY <1>2, TableFacts, ReachesFacts
      <3> QED  BY <1>3, <2>1, <3>1, <3>2
    <2>3. CASE mode = "open_header"
      <3>1. mode' = "spawn" /\ active = EmptyTable
        BY <1>1, <1>6, <2>3 DEF WriteHeader
      <3> QED  BY <1>3, <1>4, <2>1, <3>1
    <2> QED  BY <1>6, <2>2, <2>3 DEF WriteHeader
  <1>7. CASE Checkpoint
    <2>1. PICK k \in unwritten : /\ wal' = AppendWal(wal, k, active[k])
                                /\ unwritten' = unwritten \ {k}
      BY <1>7 DEF Checkpoint
    <2>2. mode = "checkpoint" /\ UNCHANGED <<mode, active>> /\ k \in Keys /\ active[k] \in Cells
      BY <1>1, <1>2, <1>7, TableFacts DEF Checkpoint, TypeOK
    <2>3. wal'.log = MemPut(wal.log, k, active[k])
      BY <1>1, <2>1 DEF AppendWal, Wals
    <2>4. Reaches(wal'.log[k], active[k])
      BY <1>2, <2>2, <2>3, PutReaches
    <2>5. \A j \in Keys : j # k => wal'.log[j] = wal.log[j]
      BY <1>2, <2>2, <2>3, MemPutAt
    <2> QED  BY <1>1, <1>3, <2>1, <2>2, <2>4, <2>5
  <1>8. CASE DropWal \/ DropFlushWal \/ CreateWal \/ CheckpointDone \/ Spawn \/ OpenRefused
    <2>1. UNCHANGED active
      BY <1>8 DEF DropWal, DropFlushWal, CreateWal, CheckpointDone, Spawn, OpenRefused
    <2>2. mode' = "open_header" => active = EmptyTable
      BY <1>1, <1>8 DEF DropWal, DropFlushWal, CreateWal, CheckpointDone, Spawn, OpenRefused
    <2>3. mode' \notin {"open_create", "checkpoint", "closing"}
      BY <1>8 DEF DropWal, DropFlushWal, CreateWal, CheckpointDone, Spawn, OpenRefused
    <2>4. mode' \in {"spawn", "up"} => Covers(wal'.log, active)
      BY <1>1, <1>8 DEF DropWal, DropFlushWal, CreateWal, CheckpointDone, Spawn, OpenRefused, Covers
    <2> QED  BY <1>3, <2>1, <2>2, <2>3, <2>4
  <1>9. CASE Crash
    BY <1>3, <1>9 DEF Crash
  <1> QED  BY <1>1, <1>5, <1>6, <1>7, <1>8, <1>9, StepOfOpen DEF Recovery

\* While the engine serves, the log has what the active table has, and the active table
\* is empty from the swap to the send.
LEMMA ActiveOfServing == ASSUME SoleClient, Held, Next, Serving, Serving' PROVE ActiveKept'
  <1>1. /\ IInv /\ TypeOK /\ ActiveKept /\ InvRoles /\ InvWriting /\ TypeOK'
    BY TypeStep DEF Held, IInv, InvKept, InvNumbers
  <1>2. active \in Tables /\ wal.log \in Tables /\ active' \in Tables /\ wal'.log \in Tables
    BY <1>1 DEF TypeOK, Wals
  <1>3. ~Reset /\ ~RewriteWal /\ ~OpenReplay
    BY ResetFacts DEF Serving, RewriteWal, DropWal, DropFlushWal, CreateWal, WriteHeader,
       Checkpoint, OpenReplay
  <1>4. ASSUME NEW t \in Threads, pc'[t] \in Owning PROVE active' = EmptyTable
    <2>1. CASE SchedSwap(t)
      BY <2>1 DEF SchedSwap
    <2>2. CASE pc[t] \in Owning
      <3>1. active = EmptyTable
        BY <1>1, <2>2 DEF ActiveKept
      <3>2. \A u \in Threads : ~WriteApply(u) /\ ~WriteRemove(u)
        BY <1>1, <2>2, OneCall
        DEF WriteApply, WriteRemove, At, Writing, Applying, Flushing, Owning, Rotating
      <3>3. \A u \in Threads : SchedSwap(u) => active' = EmptyTable
        BY DEF SchedSwap
      <3> QED  BY <1>3, <3>1, <3>2, <3>3, StateFrame
    <2> QED  BY <1>1, <1>4, <2>1, <2>2, OwningFrame
  <1>5. Covers(wal.log, active)
    BY <1>1 DEF ActiveKept
  <1>6. Covers(wal'.log, active')
    <2>1. ASSUME NEW t \in Threads, WriteApply(t) PROVE Covers(wal'.log, active')
      <3>1. /\ UNCHANGED wal /\ active' = MemPut(active, op[t].key, op[t].cell)
            /\ wal.log[op[t].key] = op[t].cell /\ op[t].key \in Keys /\ op[t].cell \in Cells
        BY <1>1, <2>1, ThreadTypes DEF WriteApply, InvWriting, IInv, InvInWrite, files
      <3>2. \A k \in Keys : active'[k] = active[k] \/ active'[k] = wal.log[k]
        BY <1>2, <3>1, MemPutAt
      <3> QED  BY <1>2, <1>5, <3>1, <3>2, TableFacts, ReachesFacts DEF Covers
    <2>2. ASSUME NEW t \in Threads, RotRename(t) \/ RotCreate(t) \/ RotHeader(t) \/ SchedSwap(t)
          PROVE  active' = EmptyTable
      <3>1. CASE SchedSwap(t)
        BY <3>1 DEF SchedSwap
      <3>2. CASE ~SchedSwap(t)
        <4>1. pc[t] \in Owning /\ UNCHANGED active
          BY <2>2, <3>2 DEF RotRename, RotCreate, RotHeader, At, Owning, Rotating, snap
        <4> QED  BY <1>1, <4>1 DEF ActiveKept
      <3> QED  BY <3>1, <3>2
    <2>3. CASE UNCHANGED active /\ Covers(wal'.log, wal.log)
      BY <1>2, <1>5, <2>3, CoversTrans
    <2>4. ASSUME NEW t \in Threads, WriteRemove(t) PROVE Covers(wal'.log, active')
      <3>1. UNCHANGED wal /\ \A k \in Keys : active'[k] \in {active[k], Missing}
        BY <1>2, <2>4, MemRemoveAt DEF WriteRemove, files
      <3> QED  BY <1>2, <1>5, <3>1, TableFacts, ReachesFacts DEF Covers
    <2> QED  BY <1>1, <1>2, <1>3, <2>1, <2>2, <2>3, <2>4, CoversFacts, StateFrame, LogFrame
  <1> QED  BY <1>4, <1>6 DEF ActiveKept, Serving

\* Only the rename of a rotation makes the rotated log the frozen table's.
LEMMA RotatedFrame ==
    ASSUME IInv, Next, Rotated'
    PROVE  Rotated \/ \E t \in Threads : RotRename(t)
  <1>1. TypeOK /\ InvLocks /\ InvQuiet
    BY DEF IInv
  <1>2. ASSUME NEW t \in Threads, Thread(t), ~RotRename(t) PROVE Rotated
    <2>1. /\ UNCHANGED worker
          /\ \A u \in Threads : pc'[u] \in RotationDone => pc[u] \in RotationDone
      BY <1>1, <1>2, ThreadFrame, CtlOfThread, PcOfThread
    <2>2. SendJob(t) => Rotated
      BY DEF SendJob, At, Rotated, RotationDone
    <2> QED  BY <1>2, <2>1, <2>2, CtlOfThread DEF Rotated
  <1>3. CASE Worker \/ WorkerFails
    BY <1>1, <1>3, CtlOfWorker DEF Rotated, WorkerRecv
  <1>4. CASE CloseBegin \/ Recovery \/ OpenRefused
    BY <1>4, CtlOfProcess DEF Rotated, Idle, CloseBegin
  <1>5. CASE Reset
    BY <1>5, ResetFacts DEF Rotated, RotationDone, Stopped, Idle
  <1> QED  BY <1>2, <1>3, <1>4, <1>5 DEF Next, Reset

\* While the rotated log is the frozen table's, both stay as they are.
LEMMA RotatedStays ==
    ASSUME SoleClient, Held, Next, Serving', Rotated, \A t \in Threads : ~RotRename(t)
    PROVE  UNCHANGED <<flushWal, frozen>>
  <1>1. InvOwner /\ InvQuiet /\ InvSerial /\ InvRoles
    BY DEF Held, IInv
  <1>2. frozen.some /\ worker.pc \notin {"install", "unlink"}
    BY <1>1 DEF Rotated, RotationDone, Owning, Rotating, InvOwner, OwnedJob, WorkerOwns, InvSerial
  <1>3. ASSUME NEW t \in Threads, RotRemove(t) PROVE FALSE
    <2>1. pc[t] = "rot_remove" /\ jobs = <<>> /\ worker.pc = "recv"
      BY <1>1, <1>3 DEF RotRemove, At, InvSerial, Owning, Rotating
    <2>2. PICK u \in Threads : pc[u] \in RotationDone
      BY <2>1 DEF Rotated
    <2> QED  BY <1>1, <2>1, <2>2 DEF InvOwner, RotationDone, Owning, Rotating
  <1>4. ~Reset /\ ~DropFlushWal /\ ~WorkerInstall /\ ~WorkerUnlink
    BY <1>2, ResetFacts DEF DropFlushWal, WorkerInstall, WorkerUnlink, WorkerAt, Serving
  <1>5. \A t \in Threads : ~SchedSwap(t)
    BY <1>2 DEF SchedSwap, NothingToSwap
  <1> QED  BY <1>3, <1>4, <1>5, StateFrame

\* At the swap and up to the rename, the log in use has what the frozen table has.
LEMMA FrozenOfServing == ASSUME SoleClient, Held, Next, Serving, Serving' PROVE FrozenKept'
  <1>1. /\ IInv /\ TypeOK /\ InvOwner /\ ActiveKept /\ FrozenKept /\ InvSerial /\ TypeOK'
        /\ InvTails /\ InvLocks /\ InvRoles
    BY TypeStep DEF Held, IInv, InvKept, InvNumbers
  <1>2. /\ wal \in Wals /\ wal.log \in Tables /\ wal'.log \in Tables /\ frozen.tab \in Tables
        /\ Records(wal) \in Tables
    BY <1>1, LayerTypes DEF TypeOK, Wals
  <1>3. ~Reset /\ ~RewriteWal /\ ~OpenReplay
    BY ResetFacts DEF Serving, RewriteWal, DropWal, DropFlushWal, CreateWal, WriteHeader,
       Checkpoint, OpenReplay
  <1>4. ASSUME NEW t \in Threads, SchedSwap(t) PROVE Covers(wal'.log, frozen'.tab)
    BY <1>1, <1>4 DEF SchedSwap, ActiveKept, files, Covers
  <1>5. ASSUME NEW t \in Threads, pc[t] \in Owning PROVE UNCHANGED frozen /\ frozen.some
    <2>1. frozen.some /\ ~WorkerOwns
      BY <1>1, <1>5 DEF InvOwner, OwnedJob
    <2>2. ~WorkerInstall /\ \A u \in Threads : ~SchedSwap(u)
      BY <2>1 DEF WorkerInstall, WorkerAt, WorkerOwns, SchedSwap, NothingToSwap
    <2> QED  BY <1>3, <2>1, <2>2, StateFrame
  <1>6. ASSUME NEW t \in Threads, pc'[t] \in BeforeRename PROVE Covers(wal'.log, frozen'.tab)
    <2>1. CASE SchedSwap(t)
      BY <1>4, <2>1
    <2>2. CASE ~SchedSwap(t)
      <3>1. pc[t] \in BeforeRename
        BY <1>1, <1>3, <1>6, <2>2, PcOfThread, OthersFrame
      <3>2. Covers(wal.log, frozen.tab) /\ UNCHANGED frozen
        BY <1>1, <1>5, <3>1 DEF FrozenKept, BeforeRename, Owning, Rotating
      <3>3. ASSUME NEW u \in Threads, RotRename(u) \/ RotCreate(u) \/ RotHeader(u) PROVE FALSE
        <4>1. pc[u] \in Owning /\ pc[t] \in Owning
          BY <3>1, <3>3 DEF RotRename, RotCreate, RotHeader, At, BeforeRename, Owning, Rotating
        <4>2. u = t
          BY <1>1, <4>1 DEF InvOwner
        <4> QED  BY <1>1, <1>6, <3>3, <4>2, ThreadTypes
                 DEF RotRename, RotCreate, RotHeader, Goto, BeforeRename
      <3>4. Covers(wal'.log, wal.log)
        BY <1>1, <1>3, <3>3, LogFrame
      <3> QED  BY <1>2, <3>2, <3>4, CoversTrans
    <2> QED  BY <2>1, <2>2
  <1>7. ASSUME NEW t \in Threads, RotRename(t) PROVE Covers(Records(flushWal'), frozen'.tab)
    <2>1. pc[t] = "rot_rename" /\ flushWal' = wal /\ UNCHANGED frozen
      BY <1>7 DEF RotRename, At, snap
    <2>2. Covers(wal.log, frozen.tab)
      BY <1>1, <2>1 DEF FrozenKept, BeforeRename
    <2> QED  BY <1>1, <1>2, <2>1, <2>2, RecordsCover, CoversTrans DEF InvTails
  <1>8. ASSUME Rotated' PROVE Covers(Records(flushWal'), frozen'.tab)
    <2>1. CASE \E t \in Threads : RotRename(t)
      BY <1>7, <2>1
    <2>2. CASE \A t \in Threads : ~RotRename(t)
      <3>1. Rotated
        BY <1>1, <1>8, <2>2, RotatedFrame
      <3> QED  BY <1>1, <2>2, <3>1, RotatedStays DEF FrozenKept, Covers
    <2> QED  BY <2>1, <2>2
  <1>9. ASSUME frozen'.some
        PROVE  \/ Covers(wal'.log, frozen'.tab)
               \/ Covers(Records(flushWal'), frozen'.tab)
               \/ \E s \in sstFiles' : s.tab = frozen'.tab
    <2>1. CASE \E t \in Threads : SchedSwap(t)
      BY <1>4, <2>1
    <2>2. CASE \A t \in Threads : ~SchedSwap(t)
      <3>1. UNCHANGED frozen /\ frozen.some
        BY <1>3, <1>9, <2>2, StateFrame DEF WorkerInstall, NoFrozen
      <3>2. CASE \E t \in Threads : RotRename(t)
        BY <1>7, <3>2
      <3>3. ASSUME NEW t \in Threads, RotCreate(t) \/ RotHeader(t)
            PROVE  Covers(Records(flushWal'), frozen'.tab)
        <4>1. Rotated /\ UNCHANGED flushWal
          BY <3>3 DEF RotCreate, RotHeader, At, Rotated, RotationDone
        <4> QED  BY <1>1, <3>1, <4>1 DEF FrozenKept
      <3>4. ASSUME NEW t \in Threads, RotRemove(t) PROVE Covers(wal'.log, frozen'.tab)
        BY <1>1, <3>1, <3>4 DEF RotRemove, At, FrozenKept, BeforeRename
      <3>5. CASE \A t \in Threads : ~RotRename(t) /\ ~RotCreate(t) /\ ~RotHeader(t) /\ ~RotRemove(t)
        <4>1. Covers(wal'.log, wal.log)
          BY <1>1, <1>3, <3>5, LogFrame
        <4>2. UNCHANGED flushWal
          <5>1. ~WorkerUnlink
            BY <1>1, <3>1 DEF WorkerUnlink, WorkerAt, InvSerial
          <5> QED  BY <1>3, <3>5, <5>1, StateFrame DEF RewriteWal
        <4> QED  BY <1>1, <1>2, <3>1, <4>1, <4>2, FilesGrow, CoversTrans DEF FrozenKept
      <3> QED  BY <3>2, <3>3, <3>4, <3>5
    <2> QED  BY <2>1, <2>2
  <1> QED  BY <1>6, <1>8, <1>9 DEF FrozenKept

\* A process that does not serve has no frozen table, and none of its threads or jobs is
\* between a swap and an installation.
LEMMA FrozenOfOthers == ASSUME Held, Next, ~Serving \/ ~Serving' PROVE FrozenKept'
  <1>1. IInv /\ InvQuiet /\ IInv'
    BY InvStep DEF Held, IInv
  <1>2. InvQuiet'
    BY <1>1 DEF IInv
  <1>3. /\ \A t \in Threads : pc'[t] = "idle"
        /\ ~frozen'.some /\ jobs' = <<>> /\ worker'.pc # "write"
    <2>1. CASE ~Serving'
      BY <1>2, <2>1 DEF InvQuiet, NoFrozen, Serving
    <2>2. CASE ~Serving /\ Serving'
      <3>1. Spawn
        BY <1>1, <2>2, ServingBegins
      <3> QED  BY <1>1, <2>2, <3>1, CtlOfProcess
               DEF Recovery, InvQuiet, NoFrozen, Serving, Idle
    <2> QED  BY <2>1, <2>2
  <1> QED  BY <1>3 DEF FrozenKept, Rotated, RotationDone, BeforeRename
-------------------------------------------------------------------------------
(***************************************************************************)
(* What a get finds is on disk, and an open finds it there.                *)
(***************************************************************************)
\* Outside the rewrite of the log, what a get finds has reached a file.
LEMMA LookupOnDisk ==
    ASSUME Held, Loaded, mode \notin Recovering, NEW k \in Keys
    PROVE  \E c \in DiskCells(k) : c \in Cells /\ Reaches(c, Lookup(k))
  <1>1. /\ TypeOK /\ InvQuiet /\ InvLayers /\ InvTails /\ ActiveKept /\ FrozenKept
        /\ wal \in Wals /\ flushWal \in Wals /\ active \in Tables /\ frozen.tab \in Tables
    BY LayerTypes DEF Held, IInv, InvNumbers, InvKept, TypeOK
  <1>2. /\ wal.log \in Tables /\ Records(wal) \in Tables /\ Records(flushWal) \in Tables
        /\ Records(wal)[k] \in DiskCells(k) /\ Records(flushWal)[k] \in DiskCells(k)
    BY <1>1, RecordsType DEF DiskCells
  <1>3. Covers(wal.log, frozen.tab) => Covers(Records(wal), frozen.tab)
    BY <1>1, <1>2, RecordsCover, CoversTrans DEF InvTails
  <1>4. CASE Lookup(k) = active[k]
    <2>1. CASE mode \in {"open_create", "open_header"}
      <3>1. Lookup(k) = Missing
        BY <1>1, <1>4, <2>1 DEF ActiveKept, EmptyTable
      <3> QED  BY <1>2, <3>1, TableFacts, ReachesFacts
    <2>2. CASE mode \in {"spawn", "up", "closing"}
      <3>1. Covers(wal.log, active)
        BY <1>1, <2>2 DEF ActiveKept, Serving
      <3>2. Covers(Records(wal), active)
        BY <1>1, <1>2, <3>1, RecordsCover, CoversTrans DEF InvTails
      <3> QED  BY <1>2, <1>4, <3>2, TableFacts DEF Covers
    <2>3. mode \in Modes
      BY <1>1 DEF TypeOK
    <2> QED  BY <2>1, <2>2, <2>3 DEF Modes, Loaded
  <1>5. CASE Lookup(k) = frozen.tab[k]
    <2>1. CASE frozen.some
      <3>1. \A s \in sstFiles : s.tab[k] \in DiskCells(k) /\ s.tab \in Tables
        BY <1>1 DEF DiskCells, TypeOK, SSTs
      <3>2. \/ Covers(Records(wal), frozen.tab) \/ Covers(Records(flushWal), frozen.tab)
            \/ \E s \in sstFiles : s.tab = frozen.tab
        BY <1>1, <1>3, <2>1 DEF FrozenKept
      <3> QED  BY <1>1, <1>2, <1>5, <3>1, <3>2, TableFacts, ReachesFacts DEF Covers
    <2>2. CASE ~frozen.some
      <3>1. Lookup(k) = Missing
        BY <1>1, <1>5, <2>2 DEF InvQuiet, EmptyTable
      <3> QED  BY <1>2, <3>1, TableFacts, ReachesFacts
    <2> QED  BY <2>1, <2>2
  <1>6. CASE Lookup(k) = Missing
    BY <1>2, <1>6, TableFacts, ReachesFacts
  <1>7. ASSUME NEW i \in 1..Len(sstables), Lookup(k) = sstables[i].tab[k]
        PROVE  \E c \in DiskCells(k) : c \in Cells /\ Reaches(c, Lookup(k))
    <2>1. sstables[i] \in sstFiles /\ sstables[i].tab[k] \in Cells
      BY <1>1, SstTableType DEF InvLayers
    <2> QED  BY <1>7, <2>1, ReachesFacts DEF DiskCells
  <1> QED  BY <1>1, <1>4, <1>5, <1>6, <1>7, LookupIn

\* So has what was acknowledged: a process that ends there loses nothing.  What an overwrite
\* hides is in the log in a newer version.
LEMMA CommittedOnDisk ==
    ASSUME Held, Loaded, mode \notin Recovering, NEW k \in Keys
    PROVE  \E c \in DiskCells(k) : c \in Cells /\ Reaches(c, committed[k])
  <1>1. /\ TypeOK /\ Lookup(k) \in Cells /\ committed[k] \in Cells
        /\ wal \in Wals /\ wal.log[k] \in Cells /\ Records(wal)[k] \in Cells
    <2>1. TypeOK /\ committed \in Tables /\ wal \in Wals
      BY DEF Held, IInv, TypeOK
    <2> QED  BY <2>1, LookupType, RecordsType, TableFacts
  <1>2. CASE ~Serving \/ k \notin Hidden
    <2>1. Reaches(Lookup(k), committed[k])
      BY <1>1, <1>2, ReachesFacts DEF Held, InvKept, AckedOnDisk, Shown, Covers, Visible
    <2>2. PICK c \in DiskCells(k) : c \in Cells /\ Reaches(c, Lookup(k))
      BY LookupOnDisk
    <2> QED  BY <1>1, <2>1, <2>2, ReachesTrans
  <1>3. CASE k \in Hidden
    <2>1. PICK t \in Threads : pc[t] \in Applying /\ op[t].key = k
      BY <1>3 DEF Hidden, Applying
    <2>2. wal.log[k] = op[t].cell /\ committed[k].seq < op[t].cell.seq
      BY <2>1 DEF Held, InvNumbers, InvWriting, InvKept, AckedBelow, AllBelow
    <2>3. Reaches(wal.log[k], committed[k])
      BY <1>1, <2>2, CellFacts DEF Reaches
    <2>4. Reaches(Records(wal)[k], wal.log[k])
      BY <1>1, RecordsCover DEF Held, InvNumbers, InvTails, Covers
    <2> QED  BY <1>1, <2>3, <2>4, ReachesTrans DEF DiskCells
  <1> QED  BY <1>2, <1>3

\* LookupIn, in a form that also holds of the next state.
LookupsStored ==
    \A k \in Keys : \/ Lookup(k) \in {Missing, active[k], frozen.tab[k]}
                    \/ \E s \in sstFiles : Lookup(k) = s.tab[k]
LEMMA LookupsAreStored == IInv => LookupsStored
  <1> SUFFICES ASSUME IInv, NEW k \in Keys
               PROVE  \/ Lookup(k) \in {Missing, active[k], frozen.tab[k]}
                      \/ \E s \in sstFiles : Lookup(k) = s.tab[k]
    BY DEF LookupsStored
  <1>1. TypeOK /\ \A i \in 1..Len(sstables) : sstables[i] \in sstFiles
    BY DEF IInv, InvLayers
  <1> QED  BY <1>1, LookupIn
LEMMA LookupsAreStoredNext == IInv' => LookupsStored'
  BY LookupsAreStored, PTL
LEMMA NewestNext == IInv' => NewestFirst'
  BY LayersGiveNewest, PTL

\* What an open lays out covers every record the files have.
LEMMA OpenFindsAll ==
    ASSUME IInv, OpenReplay, Next, NEW k \in Keys, NEW c \in DiskCells(k)
    PROVE  Lookup(k)'.seq >= c.seq
  <1>1. TypeOK /\ TypeOK' /\ NewestFirst' /\ LookupTyped'
    BY InvStep, NewestNext, LookupTypeNext DEF IInv
  <1>2. Lookup(k)'.seq \in Nat
    BY <1>1, CellFacts DEF LookupTyped
  <1>3. /\ Lookup(k)'.seq >= active'[k].seq
        /\ \A i \in 1..Len(sstables') : Lookup(k)'.seq >= sstables'[i].tab[k].seq
    BY <1>1 DEF NewestFirst
  <1>4. wal \in Wals /\ flushWal \in Wals
    BY <1>1 DEF TypeOK
  <1>5. Records(wal) \in Tables /\ Records(flushWal) \in Tables /\ active' \in Tables
    BY <1>1, <1>4, RecordsType DEF TypeOK
  <1>6. active'[k].seq >= Records(wal)[k].seq /\ active'[k].seq >= Records(flushWal)[k].seq
    BY <1>5, ReplayFacts DEF OpenReplay, Recovered
  <1>7. CASE c \in {Records(wal)[k], Records(flushWal)[k]}
    BY <1>2, <1>3, <1>5, <1>6, <1>7, TableFacts
  <1>8. ASSUME NEW s \in sstFiles, c = s.tab[k] PROVE Lookup(k)'.seq >= c.seq
    <2>1. PICK z \in [1..Cardinality(sstFiles) -> sstFiles] : Listed(z) /\ sstables' = z
      BY DEF OpenReplay
    <2>2. Cardinality(sstFiles) \in Nat
      BY <1>1, FS_CardinalityType DEF TypeOK
    <2>3. DOMAIN sstables' = 1..Len(sstables')
      BY <1>1 DEF TypeOK
    <2>4. PICK i \in DOMAIN sstables' : sstables'[i] = s
      BY <2>1 DEF Listed
    <2> QED  BY <1>3, <1>8, <2>3, <2>4
  <1> QED  BY <1>7, <1>8 DEF DiskCells

\* What an open finds is what was acknowledged, or a newer record that never was.
LEMMA OpenKeeps == ASSUME Held, Next, OpenReplay PROVE Covers(Visible', committed')
  <1> SUFFICES ASSUME NEW k \in Keys PROVE Reaches(Lookup(k)', committed[k])
    <2>1. UNCHANGED committed
      BY DEF OpenReplay, ghosts
    <2> QED  BY <2>1 DEF Covers, Visible
  <1>1. /\ IInv /\ TypeOK /\ InvUnique /\ IInv' /\ TypeOK'
        /\ wal \in Wals /\ flushWal \in Wals
    BY InvStep DEF Held, IInv, InvNumbers, TypeOK
  <1> DEFINE d == Lookup(k)'
  <1>2. d \in AllCells(k) \cup {Missing}
    <2>1. \A t \in Threads : ~WriteAppend(t) /\ ~WriteAppendFails(t)
      BY DEF OpenReplay, WriteAppend, WriteAppendFails, At
    <2>2. StoredCells(k)' \subseteq AllCells(k) \cup {Missing}
      BY <1>1, <2>1, StoredIsCopy
    <2>3. d \in StoredCells(k)' \cup {Missing}
      BY <1>1, LookupsAreStoredNext DEF LookupsStored, StoredCells
    <2> QED  BY <2>2, <2>3
  <1>3. PICK c \in DiskCells(k) : Reaches(c, committed[k])
    <2>1. mode = "down"
      BY DEF OpenReplay
    <2> QED  BY <2>1 DEF Held, InvKept, AckedOnDisk, Loaded
  <1>4. c \in AllCells(k) /\ committed[k] \in Cells
    BY <1>1, RecordsAreCopies, TableFacts DEF DiskCells, AllCells, TypeOK
  <1>5. AllCells(k) \subseteq Cells /\ Missing \in Cells
    BY <1>1, CellsAreTyped, EmptyFacts DEF CellsTyped
  <1>6. d.seq >= c.seq
    BY <1>1, <1>3, OpenFindsAll
  <1> HIDE DEF d
  <1>7. d \in Cells /\ c \in Cells /\ committed[k] \in Cells
    BY <1>2, <1>4, <1>5
  <1>8. d.seq \in Nat /\ c.seq \in Nat /\ committed[k].seq \in Nat
    BY <1>7, CellFacts
  <1>9. d.seq = c.seq => d = c
    <2>1. CASE d = Missing
      BY <1>7, <2>1, CellFacts, ReachesFacts DEF Missing, Cells
    <2>2. CASE d \in AllCells(k)
      BY <1>1, <1>4, <2>2 DEF InvUnique
    <2> QED  BY <1>2, <2>1, <2>2
  <1>10. Reaches(d, committed[k])
    BY <1>3, <1>6, <1>8, <1>9 DEF Reaches
  <1> QED  BY <1>10 DEF d

\* AckedOnDisk is kept by every step: an open keeps what the files have, and the files
\* keep what a process that ends had.
LEMMA AckedOnDiskStep == ASSUME SoleClient, Held, Next PROVE AckedOnDisk'
  <1>1. IInv /\ TypeOK /\ AckedOnDisk
    BY DEF Held, IInv, InvKept
  <1>2. ASSUME Loaded', ~Serving' PROVE Covers(Visible', committed')
    <2>1. ~Serving
      <3>1. ~Reset
        BY <1>2, ResetFacts DEF Loaded
      <3>2. \A t \in Threads : Thread(t) => mode' = "up"
        BY <1>1, ThreadFrame DEF IInv
      <3>3. Worker \/ WorkerFails => UNCHANGED mode
        BY <1>1, CtlOfWorker
      <3>4. SUFFICES ASSUME Recovery \/ OpenRefused PROVE ~Serving
        BY <1>2, <3>1, <3>2, <3>3 DEF Next, Serving, CloseBegin, Reset
      <3> QED  BY <3>4 DEF Recovery, OpenReplay, DropWal, DropFlushWal, CreateWal, WriteHeader,
                  Checkpoint, CheckpointDone, Spawn, OpenRefused, Serving
    <2>2. Recovery /\ ~Spawn
      BY <1>1, <1>2, <2>1, StepOfOpen DEF OpenRefused, Crash, Loaded, Spawn, Serving
    <2>3. CASE OpenReplay
      BY <2>3, OpenKeeps
    <2>4. CASE ~OpenReplay
      <3>1. Loaded /\ UNCHANGED snap /\ UNCHANGED committed
        BY <2>2, <2>4 DEF Recovery, DropWal, DropFlushWal, CreateWal, WriteHeader, Checkpoint,
           CheckpointDone, Loaded, snap, ghosts
      <3>2. Covers(Visible, committed)
        BY <1>1, <2>1, <3>1 DEF AckedOnDisk
      <3> QED  BY <3>1, <3>2, SameSnap DEF Covers, Visible
    <2> QED  BY <2>3, <2>4
  <1>3. ASSUME ~Loaded', NEW k \in Keys PROVE \E c \in DiskCells(k)' : Reaches(c, committed'[k])
    <2>1. CASE Loaded
      <3>1. Reset
        <4>1. \A t \in Threads : Thread(t) => mode' = "up"
          BY <1>1, ThreadFrame DEF IInv
        <4>2. Worker \/ WorkerFails => UNCHANGED mode
          BY <1>1, CtlOfWorker
        <4>3. ~Recovery /\ ~CloseBegin /\ ~OpenRefused
          BY <1>3, <2>1 DEF Recovery, OpenReplay, DropWal, DropFlushWal, CreateWal, WriteHeader,
             Checkpoint, CheckpointDone, Spawn, OpenRefused, CloseBegin, Loaded
        <4> QED  BY <1>3, <2>1, <4>1, <4>2, <4>3 DEF Next, Reset, Loaded
      <3>2. mode \notin Recovering
        BY <3>1 DEF Reset, CloseEnd, Crash, SoleClient, Recovering
      <3>3. UNCHANGED <<wal, flushWal, sstFiles, committed>>
        BY <3>1 DEF Reset, CloseEnd, Crash, files, ghosts
      <3>4. \E c \in DiskCells(k) : Reaches(c, committed[k])
        BY <2>1, <3>2, CommittedOnDisk
      <3> QED  BY <3>3, <3>4 DEF DiskCells
    <2>2. CASE ~Loaded
      <3>1. OpenRefused
        BY <1>1, <1>3, <2>2, StepOfOpen
        DEF Recovery, OpenReplay, DropWal, DropFlushWal, CreateWal, WriteHeader, Checkpoint,
            CheckpointDone, Spawn, Crash, Loaded, Serving, Recovering
      <3>2. UNCHANGED <<wal, flushWal, sstFiles, committed>>
        BY <3>1 DEF OpenRefused, files, ghosts
      <3> QED  BY <1>1, <2>2, <3>2 DEF AckedOnDisk, DiskCells
    <2> QED  BY <2>1, <2>2
  <1> QED  BY <1>2, <1>3 DEF AckedOnDisk

\* What a get finds reaches what lies below the active table.
LEMMA LookupReaches ==
    ASSUME IInv, InvUnique, NEW k \in Keys
    PROVE  Reaches(Lookup(k), LookupBelow(k))
  <1>1. TypeOK /\ \A i \in 1..Len(sstables) : sstables[i] \in sstFiles
    BY DEF IInv, InvLayers
  <1>2. /\ Lookup(k) \in AllCells(k) \cup {Missing}
        /\ LookupBelow(k) \in AllCells(k) \cup {Missing}
    BY <1>1, LookupIn DEF AllCells
  <1>3. Lookup(k) \in Cells /\ LookupBelow(k) \in Cells /\ Missing \in Cells
    BY <1>1, LookupType, EmptyFacts
  <1>4. Lookup(k).seq = LookupBelow(k).seq => Lookup(k) = LookupBelow(k)
    <2>1. \A c \in Cells : c.seq = 0 => c = Missing
      BY DEF Cells, Missing
    <2> QED  BY <1>2, <1>3, <2>1 DEF InvUnique, Missing
  <1>5. LookupBelow(k).seq <= Lookup(k).seq
    BY BelowIsOlder
  <1> QED  BY <1>3, <1>4, <1>5, CellFacts DEF Reaches

\* What is hidden is the key of the one client's write.
LEMMA HiddenIsWritten ==
    ASSUME SoleClient, InvRoles, NEW t \in Threads, pc[t] \in Applying
    PROVE  /\ Hidden \subseteq {op[t].key}
           /\ pc[t] = "write_mem" => Hidden = {}
  <1>1. \A u \in Threads : pc[u] = "write_insert" => u = t
    BY OneCall DEF Writing, Applying
  <1> QED  BY <1>1 DEF Hidden

\* Where no write takes a step in the MemTable, the same keys stay hidden;
LEMMA HiddenFrame ==
    ASSUME IInv, Next, Serving', \A t \in Threads : ~WriteRemove(t) /\ ~WriteApply(t)
    PROVE  Hidden' = Hidden
  <1>1. TypeOK /\ InvLocks
    BY DEF IInv
  <1>2. ASSUME NEW t \in Threads, pc[t] \in Applying PROVE pc'[t] = pc[t] /\ op'[t] = op[t]
    BY <1>1, <1>2, PuttingStep
  <1>3. ASSUME NEW t \in Threads, pc[t] \notin Applying PROVE pc'[t] # "write_insert"
    <2>1. WriteAppend(t) => pc'[t] = "write_mem"
      BY <1>1, ThreadTypes DEF WriteAppend, Goto
    <2> QED  BY <1>1, <1>3, <2>1, EntersWrite DEF Applying
  <1>4. \A t \in Threads : /\ pc'[t] = "write_insert" <=> pc[t] = "write_insert"
                           /\ pc[t] = "write_insert" => op'[t] = op[t]
    BY <1>2, <1>3 DEF Applying
  <1> QED  BY <1>4 DEF Hidden

\* at the end of the one client's write nothing is.
LEMMA ApplyUnhides ==
    ASSUME SoleClient, IInv, InvRoles, NEW t \in Threads, WriteApply(t)
    PROVE  Hidden' = {}
  <1>1. TypeOK /\ InvLocks /\ pc[t] \in Applying /\ Thread(t)
    BY DEF IInv, WriteApply, Thread, Write
  <1>2. pc'[t] = "idle"
    BY <1>1, ThreadTypes DEF WriteApply, Return, Goto
  <1>3. ASSUME NEW u \in Threads, pc'[u] = "write_insert" PROVE FALSE
    <2>1. u # t
      BY <1>2, <1>3
    <2>2. pc[u] = "write_insert"
      BY <1>1, <1>3, <2>1, ThreadFrame
    <2> QED  BY <1>1, <2>1, <2>2, OneCall DEF Writing, Applying
  <1> QED  BY <1>3 DEF Hidden

\* What was acknowledged is shown, whatever the process does while it serves.
LEMMA ShownStep == ASSUME SoleClient, Held, Next PROVE Shown'
  <1>1. IInv /\ IInv' /\ TypeOK /\ TypeOK' /\ InvUnique /\ InvRoles /\ Shown
    BY InvStep DEF Held, IInv, InvNumbers, InvKept
  <1> SUFFICES ASSUME Serving', NEW k \in Keys
               PROVE  IF k \in Hidden' THEN Reaches(committed'[k], Lookup(k)')
                                       ELSE Lookup(k)' = committed'[k]
    BY DEF Shown, Visible
  <1>2. committed \in Tables /\ committed[k] \in Cells /\ Lookup(k) \in Cells
    BY <1>1, TableFacts, LookupType DEF TypeOK
  <1>3. CASE ~Serving
    <2>1. Spawn /\ mode = "spawn"
      BY <1>1, <1>3, ServingBegins DEF Spawn
    <2>2. Hidden' = {}
      BY <1>1, <2>1 DEF Hidden, Spawn, IInv, InvQuiet, threads
    <2>3. Reaches(Lookup(k), committed[k]) /\ Lookup(k)' = Lookup(k)
      BY <1>3, <2>1, SameSnap DEF Held, InvKept, AckedOnDisk, Loaded, Covers, Visible, Spawn
    <2>4. committed'[k] = Lookup(k)
      BY <1>2, <2>1, <2>3, CellFacts DEF Spawn, Replay, Supersedes, Reaches, Visible
    <2> QED  BY <2>2, <2>3, <2>4
  <1>4. ASSUME Serving, NEW t \in Threads, WriteApply(t) PROVE Lookup(k)' = committed'[k]
    <2>1. /\ pc[t] \in Applying
          /\ committed' = [committed EXCEPT ![op[t].key] = op[t].cell]
      BY <1>4 DEF WriteApply
    <2>2. Lookup(k)' = IF k = op[t].key THEN op[t].cell ELSE Lookup(k)
      BY <1>1, <1>4, ApplyShows
    <2>3. k # op[t].key => Lookup(k) = committed[k]
      BY <1>1, <1>4, <2>1, HiddenIsWritten DEF Shown, Visible
    <2> QED  BY <1>2, <2>1, <2>2, <2>3 DEF Tables
  <1>5. ASSUME Serving, NEW t \in Threads, WriteRemove(t)
        PROVE  IF k \in Hidden' THEN Reaches(committed'[k], Lookup(k)')
                                ELSE Lookup(k)' = committed'[k]
    <2>1. /\ pc[t] = "write_mem" /\ UNCHANGED committed /\ Thread(t)
          /\ op[t].key \in Keys
      BY <1>1, <1>5 DEF WriteRemove, At, ghosts, IInv, InvInWrite, Applying, Thread, Write
    <2>2. Lookup(k) = committed[k]
      BY <1>1, <1>5, <2>1, HiddenIsWritten DEF Shown, Visible, Applying
    <2>3. /\ Lookup(k)' = IF k = op[t].key THEN LookupBelow(k) ELSE Lookup(k)
          /\ pc'[t] = "write_insert" /\ UNCHANGED op
      BY <1>1, <1>5, RemoveShows
    <2>4. op[t].key \in Hidden'
      BY <2>3 DEF Hidden
    <2>5. Reaches(committed[k], Lookup(k)')
      BY <1>1, <1>2, <2>2, <2>3, LookupReaches, ReachesFacts
    <2> QED  BY <2>1, <2>2, <2>3, <2>4, <2>5
  <1>6. CASE Serving /\ \A t \in Threads : ~WriteApply(t) /\ ~WriteRemove(t)
    <2>1. Hidden' = Hidden
      BY <1>1, <1>6, HiddenFrame
    <2>2. UNCHANGED committed
      BY <1>6, CommittedFrame DEF Spawn, Serving
    <2>3. Lookup(k)' = Lookup(k)
      BY <1>1, <1>6, SnapStep, SameSnap, SwapKeeps, InstallKeeps
    <2> QED  BY <1>1, <1>6, <2>1, <2>2, <2>3 DEF Shown, Visible
  <1> QED  BY <1>3, <1>4, <1>5, <1>6, ApplyUnhides, <1>1

\* Numbers are only given out upwards, until the process ends.
LEMMA SeqGrows == ASSUME IInv, Next, Loaded, Loaded' PROVE nextSeq' >= nextSeq
  <1>1. nextSeq \in Nat
    BY DEF IInv, TypeOK
  <1>2. ~Reset /\ ~OpenReplay
    BY ResetFacts DEF Loaded, OpenReplay
  <1>3. nextSeq' \in {nextSeq, nextSeq + 1}
    BY <1>2, DataFrame
    DEF DataStep, SameData, WriteData, WriteAppend, WriteAppendFails, WriteRemove, WriteApply,
        SchedSwap, RotateData, RotRemove, RotRename, RotCreate, RotHeader, WorkerData,
        WorkerWrite, WorkerInstall, WorkerUnlink, RewriteWal, DropWal, DropFlushWal, CreateWal,
        WriteHeader, Checkpoint, ctl
  <1> QED  BY <1>1, <1>3

\* The next number, and the number of a write that is not done, are above everything that
\* was acknowledged.
LEMMA AckedBelowStep == ASSUME Held, Next PROVE AckedBelow'
  <1>1. IInv /\ TypeOK /\ TypeOK' /\ InvLocks /\ AckedBelow /\ nextSeq \in Nat /\ nextSeq' \in Nat
    BY TypeStep DEF Held, IInv, InvKept, TypeOK
  <1>2. /\ \A k \in Keys : committed[k] \in Cells /\ committed[k].seq \in Nat
        /\ committed \in Tables
    BY <1>1, TableFacts, CellFacts DEF TypeOK
  <1>3. ASSUME Loaded', NEW k \in Keys PROVE committed'[k].seq < nextSeq'
    <2>1. CASE Loaded
      <3>1. nextSeq' >= nextSeq /\ committed[k].seq < nextSeq
        BY <1>1, <1>3, <2>1, SeqGrows DEF AckedBelow, AllBelow
      <3>2. ASSUME NEW t \in Threads, WriteApply(t)
            PROVE  committed'[k].seq < nextSeq /\ committed'[k].seq \in Nat
        <4>1. /\ committed' = [committed EXCEPT ![op[t].key] = op[t].cell]
              /\ op[t].cell.seq < nextSeq /\ op[t].cell.seq \in Nat
          BY <1>1, <3>2, ThreadTypes, CellFacts DEF WriteApply, IInv, InvInWrite
        <4> QED  BY <1>2, <3>1, <4>1 DEF Tables
      <3>3. CASE Spawn
        <4>1. committed'[k] \in {committed[k], Lookup(k)}
          BY <3>3 DEF Spawn, Replay, Visible
        <4>2. Lookup(k).seq \in Nat /\ Missing.seq = 0 /\ nextSeq # 0
          BY <1>1, LookupType, CellFacts DEF Missing, TypeOK
        <4>3. /\ AllBelow(active, nextSeq) /\ AllBelow(frozen.tab, nextSeq)
              /\ \A s \in sstFiles : AllBelow(s.tab, nextSeq)
          BY <1>1, <2>1 DEF IInv, InvFresh
        <4>4. Lookup(k).seq < nextSeq
          BY <1>1, <4>2, <4>3, LookupsAreStored DEF LookupsStored, AllBelow
        <4> QED  BY <1>1, <1>2, <3>1, <4>1, <4>2, <4>4
      <3> QED  BY <1>1, <1>2, <3>1, <3>2, <3>3, CommittedFrame
    <2>2. CASE ~Loaded
      <3>1. OpenReplay
        BY <1>1, <1>3, <2>2, StepOfOpen
        DEF Recovery, DropWal, DropFlushWal, CreateWal, WriteHeader, Checkpoint, CheckpointDone,
            Spawn, OpenRefused, Crash, Loaded, Serving
      <3>2. PICK c \in DiskCells(k) : Reaches(c, committed[k])
        BY <2>2 DEF Held, InvKept, AckedOnDisk
      <3>3. PICK m \in DiskSeqs : Greatest(m, DiskSeqs) /\ nextSeq' = m + 1
        BY <3>1 DEF OpenReplay, SeqAfter
      <3>4. c.seq \in DiskSeqs /\ c \in Cells
        <4>1. wal \in Wals /\ flushWal \in Wals
          BY <1>1 DEF TypeOK
        <4>2. DiskCells(k) \subseteq AllCells(k)
          BY <4>1, RecordsAreCopies DEF DiskCells, AllCells
        <4> QED  BY <1>1, <4>2, CellsAreTyped DEF CellsTyped, DiskSeqs
      <3>5. c.seq <= m /\ m \in Nat
        <4>1. DiskSeqs \subseteq Nat
          <5>1. wal \in Wals /\ flushWal \in Wals
            BY <1>1 DEF TypeOK
          <5>2. \A j \in Keys : DiskCells(j) \subseteq AllCells(j)
            BY <5>1, RecordsAreCopies DEF DiskCells, AllCells
          <5> QED  BY <1>1, <5>2, CellsAreTyped, CellFacts DEF CellsTyped, DiskSeqs
        <4> QED  BY <3>3, <3>4, <4>1 DEF Greatest
      <3> QED  BY <1>2, <3>1, <3>2, <3>3, <3>4, <3>5, CellFacts DEF Reaches, OpenReplay, ghosts
    <2> QED  BY <2>1, <2>2
  <1>4. ASSUME NEW t \in Threads, pc'[t] \in Applying PROVE AllBelow(committed', op'[t].cell.seq)
    <2>1. CASE pc[t] \in Applying
      <3>1. op'[t] = op[t]
        BY <1>1, <1>4, <2>1, KeepsWrite
      <3>2. mode = "up" /\ walHolder = t
        BY <1>1, <2>1 DEF IInv, InvQuiet, InvLocks, Applying
      <3>3. ASSUME NEW u \in Threads, WriteApply(u) PROVE FALSE
        <4>1. u = t
          BY <1>1, <3>2, <3>3 DEF WriteApply, InvLocks
        <4> QED  BY <1>1, <1>4, <3>3, <4>1, ThreadTypes DEF WriteApply, Return, Goto, Applying
      <3>4. UNCHANGED committed
        BY <3>2, <3>3, CommittedFrame DEF Spawn
      <3> QED  BY <1>1, <2>1, <3>1, <3>4 DEF AckedBelow, AllBelow
    <2>2. CASE pc[t] \notin Applying
      <3>1. WriteAppend(t)
        BY <1>1, <1>4, <2>2, EntersWrite
      <3>2. PICK c \in Cells : c.seq = nextSeq /\ op'[t].cell = c
        BY <1>1, <3>1, AppendAdds
      <3>3. UNCHANGED committed /\ AllBelow(committed, nextSeq)
        BY <1>1, <3>1 DEF WriteAppend, At, ghosts, AckedBelow, Loaded
      <3> QED  BY <3>2, <3>3 DEF AllBelow
    <2> QED  BY <2>1, <2>2
  <1> QED  BY <1>3, <1>4 DEF AckedBelow, AllBelow

\* InvKept is kept by every step,
LEMMA KeptStep == ASSUME SoleClient, Held, Next PROVE InvKept'
  <1>1. ActiveKept'
    <2>1. CASE Serving /\ ~Serving'
      <3>1. IInv
        BY DEF Held
      <3>2. Reset
        BY <2>1, <3>1, ThreadFrame, CtlOfWorker
        DEF IInv, Next, Reset, CloseBegin, Recovery, OpenReplay, DropWal, DropFlushWal, CreateWal,
            WriteHeader, Checkpoint, CheckpointDone, Spawn, OpenRefused, Serving, Recovering
      <3> QED  BY <2>1, <3>2, ResetFacts DEF ActiveKept, Owning, Rotating, Serving
    <2> QED  BY <2>1, ActiveOfOpen, ActiveOfServing
  <1>2. FrozenKept'
    BY FrozenOfServing, FrozenOfOthers
  <1> QED  BY <1>1, <1>2, AckedOnDiskStep, ShownStep, AckedBelowStep DEF InvKept

\* and by none at all.
LEMMA KeptStutter == ASSUME InvKept, UNCHANGED vars PROVE InvKept'
  <1>1. UNCHANGED <<wal, flushWal, sstFiles, active, frozen, snap, jobs, worker, mode, pc, op,
                    nextSeq, unwritten, committed>>
    BY DEF vars, files, snap, ctl, threads, ghosts
  <1>2. ActiveKept' /\ FrozenKept' /\ AckedBelow'
    BY <1>1 DEF InvKept, ActiveKept, FrozenKept, AckedBelow, AllBelow, Loaded, Rotated, Serving,
                Covers
  <1>3. AckedOnDisk' /\ Shown'
    BY <1>1, SameSnap
    DEF InvKept, AckedOnDisk, Shown, Hidden, Visible, Covers, Loaded, Serving, DiskCells
  <1> QED  BY <1>2, <1>3 DEF InvKept

\* A client of one thread finds its records where InvKept says.
LEMMA KeptHolds == ASSUME SoleClient PROVE Spec => []Held
  <1>1. Init => InvKept
    <2> SUFFICES ASSUME Init PROVE InvKept
      OBVIOUS
    <2>1. /\ mode = "down" /\ jobs = <<>> /\ worker.pc # "write" /\ ~frozen.some
          /\ \A t \in Threads : pc[t] = "idle"
      BY DEF Init, NoFrozen, Stopped, Idle
    <2>2. wal = NoWal /\ committed = EmptyTable
      BY DEF Init
    <2>3. \A k \in Keys : Records(wal)[k] \in DiskCells(k)
      BY DEF DiskCells
    <2>4. \A k \in Keys : Reaches(Records(wal)[k], committed[k])
      BY <2>2, NoRecords DEF Reaches
    <2> QED  BY <2>1, <2>3, <2>4
             DEF InvKept, ActiveKept, FrozenKept, AckedOnDisk, Shown, AckedBelow, Applying,
                 Rotated, Owning, Rotating, RotationDone, BeforeRename, Serving, Loaded
  <1>2. Held /\ [Next]_vars => InvKept'
    BY KeptStep, KeptStutter DEF Held
  <1>3. OneFlusher
    BY SoleIsOneFlusher
  <1>4. Spec => [](InvRoles /\ InvSerial)
    BY <1>3, SerialHolds
  <1> QED  BY <1>1, <1>2, <1>4, InvHolds, NumbersHold, PTL DEF Spec, Held

\* A put or delete that returned Ok is in the log, in the rotated log or in a published
\* SSTable whatever the process does next (engine.rs:465-480, 500-560): a crash at any step
\* of a write, of a flush or of an open that finds no rotated log, any number of times,
\* loses none.  The hypothesis is the code's own: with two clients a put can be overtaken
\* by a swap (run lost_write), and a crash between drop_wal_files and the end of
\* checkpoint_mem loses the logs (run lost_recovery).
THEOREM DurableHolds == ASSUME SoleClient PROVE Spec => []Durable
  <1>1. Held => Durable
    <2> SUFFICES ASSUME Held, mode \notin Recovering, NEW k \in Keys
                 PROVE  \E c \in DiskCells(k) : c.seq >= committed[k].seq
      BY DEF Durable
    <2>1. \E c \in DiskCells(k) : Reaches(c, committed[k])
      BY CommittedOnDisk DEF Held, InvKept, AckedOnDisk
    <2>2. committed[k].seq \in Nat
      BY TableFacts DEF Held, IInv, TypeOK
    <2>3. \A c \in DiskCells(k) : c.seq \in Nat
      <3>1. TypeOK /\ wal \in Wals /\ flushWal \in Wals
        BY DEF Held, IInv, TypeOK
      <3>2. DiskCells(k) \subseteq AllCells(k)
        BY <3>1, RecordsAreCopies DEF DiskCells, AllCells
      <3> QED  BY <3>1, <3>2, CellsAreTyped, CellFacts DEF CellsTyped
    <2> QED  BY <2>1, <2>2, <2>3 DEF Reaches
  <1> QED  BY <1>1, KeptHolds, PTL
-------------------------------------------------------------------------------
(***************************************************************************)
(* The engine implements the store of one table.                           *)
(***************************************************************************)
\* What the clients are shown.
ShownTable == IF Serving THEN Visible ELSE EmptyTable

\* A put's last step is a Write of the store: its number is above every acknowledged one.
LEMMA ApplyIsWrite ==
    ASSUME SoleClient, Held, Shown', NEW t \in Threads, WriteApply(t)
    PROVE  Abstract!Write
  <1>1. /\ IInv /\ TypeOK /\ pc[t] \in Applying /\ Serving /\ Serving' /\ committed \in Tables
        /\ InvRoles /\ Shown /\ AckedBelow
    BY DEF Held, IInv, TypeOK, InvKept, WriteApply, Serving
  <1>2. op[t].key \in Keys /\ committed' = [committed EXCEPT ![op[t].key] = op[t].cell]
    BY <1>1 DEF IInv, InvInWrite, WriteApply
  <1> DEFINE k == op[t].key
  <1>3. committed'[k] = op[t].cell
    BY <1>1, <1>2 DEF Tables
  <1>4. \A j \in Keys : committed'[k].seq > committed[j].seq
    <2>1. \A j \in Keys : committed[j].seq < op[t].cell.seq
      BY <1>1 DEF AckedBelow, AllBelow
    <2>2. \A j \in Keys : committed[j].seq \in Nat
      BY <1>1, TableFacts, CellFacts
    <2>3. op[t].cell.seq \in Nat
      BY <1>1, ThreadTypes, CellFacts
    <2> QED  BY <1>3, <2>1, <2>2, <2>3
  <1>5. \A j \in Keys : j # k => ShownTable[j] = committed[j]
    BY <1>1, HiddenIsWritten DEF Shown, ShownTable
  <1>6. ShownTable' = committed'
    <2>1. \A j \in Keys : Visible'[j] = committed'[j]
      BY <1>1, ApplyUnhides DEF Shown
    <2>2. Visible' = [j \in Keys |-> Visible'[j]]
      BY DEF Visible
    <2>3. committed' = [j \in Keys |-> committed'[j]]
      BY <1>1, <1>2 DEF Tables
    <2>4. ShownTable' = Visible'
      BY <1>1 DEF ShownTable
    <2> QED  BY <2>1, <2>2, <2>3, <2>4
  <1>7. committed' = [committed EXCEPT ![k] = committed'[k]]
    BY <1>2, <1>3
  <1> HIDE DEF k
  <1>8. k \in Keys
    BY <1>2 DEF k
  <1> QED  BY <1>1, <1>4, <1>5, <1>6, <1>7, <1>8 DEF Abstract!Write, ShownTable

\* The first step of an overwrite is a Hide, or shows the same record from further below.
LEMMA RemoveIsHide ==
    ASSUME SoleClient, Held, NEW t \in Threads, WriteRemove(t)
    PROVE  Abstract!Hide \/ UNCHANGED <<Serving, committed, ShownTable>>
  <1>1. /\ IInv /\ TypeOK /\ pc[t] = "write_mem" /\ Serving /\ Serving' /\ UNCHANGED committed
        /\ InvRoles /\ Shown /\ committed \in Tables /\ InvUnique
    BY DEF Held, IInv, TypeOK, InvKept, InvNumbers, WriteRemove, At, Serving, ghosts
  <1>2. op[t].key \in Keys
    BY <1>1 DEF IInv, InvInWrite, Applying
  <1> DEFINE k == op[t].key
  <1>3. \A j \in Keys : Visible'[j] = IF j = k THEN LookupBelow(j) ELSE Visible[j]
    BY <1>1, RemoveShows DEF Visible
  <1>4. Visible = [j \in Keys |-> Visible[j]] /\ Visible' = [j \in Keys |-> Visible'[j]]
    BY DEF Visible
  <1>5. ShownTable = Visible /\ ShownTable' = Visible'
    BY <1>1 DEF ShownTable
  <1>6. Visible = committed
    <2>1. \A j \in Keys : Visible[j] = committed[j]
      BY <1>1, HiddenIsWritten DEF Shown, Applying
    <2>2. committed = [j \in Keys |-> committed[j]]
      BY <1>1 DEF Tables
    <2> QED  BY <1>4, <2>1, <2>2
  <1> HIDE DEF k
  <1>7. Visible' = [Visible EXCEPT ![k] = Visible'[k]]
    BY <1>3, <1>4
  <1>8. k \in Keys /\ Visible'[k] = LookupBelow(k) /\ Visible[k] = Lookup(k)
    BY <1>2, <1>3 DEF k, Visible
  <1>9. CASE LookupBelow(k) = Lookup(k)
    <2>1. Visible' = Visible
      BY <1>4, <1>7, <1>8, <1>9
    <2> QED  BY <1>1, <1>5, <2>1
  <1>10. CASE LookupBelow(k) # Lookup(k)
    <2>1. Visible'[k].seq < Visible[k].seq
      <3>1. Lookup(k).seq \in Nat /\ LookupBelow(k).seq \in Nat
        BY <1>1, <1>8, LookupType, CellFacts
      <3> QED  BY <1>1, <1>8, <1>10, <3>1, LookupReaches DEF Reaches
    <2> QED  BY <1>1, <1>5, <1>6, <1>7, <1>8, <2>1 DEF Abstract!Hide, ShownTable
  <1> QED  BY <1>9, <1>10

\* Every other step starts or stops the store, or leaves it as it is.
LEMMA StoreStep ==
    ASSUME SoleClient, Held, Shown', Next
    PROVE  Abstract!Next \/ UNCHANGED <<Serving, committed, ShownTable>>
  <1>1. IInv /\ TypeOK /\ TypeOK'
    BY TypeStep DEF Held, IInv
  <1>2. CASE \E t \in Threads : WriteApply(t)
    BY <1>2, ApplyIsWrite DEF Abstract!Next
  <1>3. CASE \E t \in Threads : WriteRemove(t)
    BY <1>3, RemoveIsHide DEF Abstract!Next
  <1>4. CASE Spawn
    <2>1. ~Serving /\ Serving' /\ mode = "spawn" /\ committed' = Replay(committed, Visible)
      BY <1>4 DEF Spawn, Serving
    <2>2. \A k \in Keys : committed'[k] = committed[k] \/ committed'[k].seq > committed[k].seq
      <3>1. \A k \in Keys : Reaches(Visible[k], committed[k])
        BY <2>1 DEF Held, InvKept, AckedOnDisk, Loaded, Covers
      <3> QED  BY <2>1, <3>1 DEF Replay, Reaches
    <2>3. ShownTable' = committed'
      <3>1. Hidden' = {}
        BY <1>1, <1>4, <2>1 DEF Hidden, Spawn, IInv, InvQuiet, threads
      <3>2. \A k \in Keys : Visible'[k] = committed'[k]
        BY <2>1, <3>1 DEF Shown
      <3>3. Visible' = [k \in Keys |-> Visible'[k]] /\ committed' = [k \in Keys |-> committed'[k]]
        BY <2>1 DEF Visible, Replay
      <3>4. ShownTable' = Visible'
        BY <2>1 DEF ShownTable
      <3> QED  BY <3>2, <3>3, <3>4
    <2> QED  BY <2>1, <2>2, <2>3 DEF Abstract!Next, Abstract!Start, ShownTable
  <1>5. CASE ~Spawn /\ \A t \in Threads : ~WriteApply(t) /\ ~WriteRemove(t)
    <2>1. UNCHANGED committed
      BY <1>5, CommittedFrame
    <2>2. CASE Serving /\ ~Serving'
      BY <2>1, <2>2 DEF Abstract!Next, Abstract!Stop, Abstract!EmptyTable, Abstract!Missing,
                        EmptyTable, Missing
    <2>3. CASE ~Serving /\ Serving'
      BY <1>1, <1>5, <2>3, ServingBegins
    <2>4. CASE Serving /\ Serving'
      <3>1. \A k \in Keys : Lookup(k)' = Lookup(k)
        BY <1>1, <1>5, <2>4, SnapStep, SameSnap, SwapKeeps, InstallKeeps
      <3>2. Visible' = Visible
        BY <3>1 DEF Visible
      <3> QED  BY <2>1, <2>4, <3>2 DEF ShownTable, Serving
    <2>5. CASE ~Serving /\ ~Serving'
      BY <2>1, <2>5 DEF ShownTable, Serving
    <2> QED  BY <2>2, <2>3, <2>4, <2>5
  <1> QED  BY <1>2, <1>3, <1>4, <1>5

\* Whatever layers, logs, jobs, crashes and failed calls there are underneath, the clients
\* see one table: a put or delete (engine.rs:464-480) changes it at its end, and while it
\* overwrites an entry shows at worst an older record of its own key (memtable.rs:333-345);
\* a restart keeps every acknowledged write, and no swap, flush, close or recovery shows.
\* For one client that does not crash inside the rewrite of the log, as for Durable.
THEOREM ImplementsStoreHolds == ASSUME SoleClient PROVE Spec => ImplementsStore
  <1>1. Init => Abstract!Init
    BY DEF Init, Abstract!Init, Abstract!EmptyTable, Abstract!Missing, EmptyTable, Missing, Serving
  <1>2. Held /\ Held' /\ [Next]_vars
           => [Abstract!Next]_<<Serving, committed, IF Serving THEN Visible ELSE EmptyTable>>
    <2>1. UNCHANGED vars => UNCHANGED <<Serving, committed, ShownTable>>
      <3> SUFFICES ASSUME UNCHANGED vars PROVE UNCHANGED <<Serving, committed, ShownTable>>
        OBVIOUS
      <3>1. UNCHANGED <<snap, mode, committed>>
        BY DEF vars, ghosts
      <3> QED  BY <3>1, SameSnap DEF Serving, ShownTable, Visible
    <2>2. Held' => Shown'
      BY DEF Held, InvKept
    <2> QED  BY <2>1, <2>2, StoreStep DEF ShownTable
  <1> QED  BY <1>1, <1>2, KeptHolds, PTL DEF Spec, ImplementsStore, Abstract!Spec
===============================================================================
