------------------------------ MODULE EngineProofs ------------------------------
(***************************************************************************)
(* Proofs about Engine.  IInv (EngineInv) is inductive: each of its parts  *)
(* has a lemma of its own, <part>Step, with one case per group of actions. *)
(* The theorems at the end follow from it.                                 *)
(***************************************************************************)
EXTENDS EngineInv, FiniteSetTheorems, NaturalsInduction, WellFoundedInduction, TLAPS

-------------------------------------------------------------------------------
(***************************************************************************)
(* Tables.                                                                 *)
(***************************************************************************)
\* An entry is an answer exactly when it has a number.
LEMMA CellFacts ==
    ASSUME NEW c \in Cells
    PROVE  c.seq \in Nat /\ (IsHit(c) <=> c.seq > 0)
  BY DEF Cells, Missing, IsHit

\* A put or a delete with a number of its own is an entry.
LEMMA NewCell ==
    ASSUME NEW n \in Nat \ {0}, NEW kind \in {"Put", "Tombstone"}
    PROVE  [seq |-> n, kind |-> kind] \in Cells
  BY DEF Cells

\* The empty table answers nothing.
LEMMA EmptyFacts ==
    /\ Missing \in Cells /\ EmptyTable \in Tables
    /\ \A k \in Keys : EmptyTable[k].seq = 0
  BY DEF Cells, Missing, EmptyTable, Tables

\* What a table holds under a key is an entry.
LEMMA TableFacts ==
    ASSUME NEW t \in Tables, NEW k \in Keys
    PROVE  t[k] \in Cells /\ t[k].seq \in Nat
  BY CellFacts DEF Tables

\* An overwrite begins by taking one entry away.
LEMMA MemRemoveAt ==
    ASSUME NEW t \in Tables, NEW k
    PROVE  /\ MemRemove(t, k) \in Tables
           /\ \A j \in Keys : MemRemove(t, k)[j] = IF j = k THEN Missing ELSE t[j]
  BY EmptyFacts DEF MemRemove, Tables

LEMMA MemPutType ==
    ASSUME NEW t \in Tables, NEW k, NEW c \in Cells
    PROVE  MemPut(t, k, c) \in Tables
  BY DEF MemPut, Tables

\* MemTable::apply changes one key, and only if the record is not older.
LEMMA MemPutAt ==
    ASSUME NEW t \in Tables, NEW k \in Keys, NEW c \in Cells, NEW j \in Keys
    PROVE  MemPut(t, k, c)[j] = IF j = k /\ c.seq >= t[k].seq THEN c ELSE t[j]
  BY DEF MemPut, Supersedes, Tables

\* Replaying keeps, per key, one of the two entries, and the newer.
LEMMA ReplayFacts ==
    ASSUME NEW old \in Tables, NEW new \in Tables
    PROVE  /\ Replay(old, new) \in Tables
           /\ \A k \in Keys : /\ Replay(old, new)[k].seq >= old[k].seq
                              /\ Replay(old, new)[k].seq >= new[k].seq
                              /\ Replay(old, new)[k] \in {old[k], new[k]}
  BY CellFacts DEF Replay, Supersedes, Tables
-------------------------------------------------------------------------------
(***************************************************************************)
(* Lookups.                                                                *)
(***************************************************************************)
\* A non-empty set of positions has a last one.
LEMMA LastPosition ==
    ASSUME NEW n \in Nat, NEW S \in SUBSET (1..n), S # {}
    PROVE  \E i \in S : \A j \in S : i >= j
  <1> DEFINE R == OpToRel(<, Nat)
             T == {n - i : i \in S}
  <1>1. IsWellFoundedOn(R, Nat)
    BY NatLessThanWellFounded
  <1>2. T \subseteq Nat /\ T # {}
    <2>1. \A i \in S : n - i \in Nat
      OBVIOUS
    <2> QED  BY <2>1
  <1>3. PICK x \in T : \A y \in T : ~ (<<y, x>> \in R)
    <2> HIDE DEF R, T
    <2> QED  BY <1>1, <1>2, WFMin
  <1>4. PICK i \in S : x = n - i
    OBVIOUS
  <1>5. ASSUME NEW j \in S PROVE i >= j
    <2>1. n - j \in T /\ n - j \in Nat /\ n - i \in Nat
      OBVIOUS
    <2>2. ~ (n - j < n - i)
      BY <2>1, <1>3, <1>4 DEF OpToRel
    <2> QED  BY <2>2
  <1> QED  BY <1>5

\* The SSTable a get stops at is the last one that has an answer.
LEMMA LookupSstFacts ==
    ASSUME TypeOK, NEW k \in Keys
    PROVE  \/ /\ LookupSst(k) = Missing
              /\ \A i \in 1..Len(sstables) : ~IsHit(sstables[i].tab[k])
           \/ \E i \in 1..Len(sstables) :
                /\ LookupSst(k) = sstables[i].tab[k] /\ IsHit(sstables[i].tab[k])
                /\ \A j \in 1..Len(sstables) : IsHit(sstables[j].tab[k]) => j <= i
  <1>1. CASE SstHits(k) = {}
    BY <1>1 DEF LookupSst, SstHits
  <1>2. CASE SstHits(k) # {}
    <2>1. Len(sstables) \in Nat /\ SstHits(k) \in SUBSET (1..Len(sstables))
      BY DEF TypeOK, SstHits
    <2>2. \E i \in SstHits(k) : \A j \in SstHits(k) : ProbeOrder(i, j)
      BY <1>2, <2>1, LastPosition DEF ProbeOrder
    <2> DEFINE i == CHOOSE i \in SstHits(k) : \A j \in SstHits(k) : ProbeOrder(i, j)
    <2>3. i \in SstHits(k) /\ \A j \in SstHits(k) : i >= j
      BY <2>2 DEF ProbeOrder
    <2>4. LookupSst(k) = sstables[i].tab[k]
      BY <1>2 DEF LookupSst
    <2> HIDE DEF i
    <2> QED  BY <2>1, <2>3, <2>4 DEF SstHits
  <1> QED  BY <1>1, <1>2

\* The elements of a sequence over S are in S.
LEMMA SeqElement ==
    ASSUME NEW S, NEW s \in Seq(S)
    PROVE  Len(s) \in Nat /\ \A i \in 1..Len(s) : s[i] \in S
  OBVIOUS

\* The SSTables of the snapshot are SSTables, and answer with entries.
LEMMA SstTableType ==
    ASSUME TypeOK, NEW k \in Keys
    PROVE  \A i \in 1..Len(sstables) : sstables[i] \in SSTs /\ sstables[i].tab[k] \in Cells
  <1>1. \A i \in 1..Len(sstables) : sstables[i] \in SSTs
    BY SeqElement DEF TypeOK
  <1> QED  BY <1>1 DEF SSTs, Tables

\* A lookup through the layers answers with an entry.
LEMMA LookupType ==
    ASSUME TypeOK, NEW k \in Keys
    PROVE  Lookup(k) \in Cells /\ LookupBelow(k) \in Cells
  <1>1. LookupSst(k) \in Cells
    BY SstTableType, LookupSstFacts, EmptyFacts
  <1>2. active[k] \in Cells /\ frozen.tab[k] \in Cells
    BY TableFacts DEF TypeOK, Frozen
  <1> QED  BY <1>1, <1>2 DEF Lookup, LookupBelow

\* What is visible is a table.
LEMMA VisibleType == TypeOK => Visible \in Tables
  BY LookupType DEF Visible, Tables

\* With its layers in order, a get finds the newest entry.
LEMMA LayersGiveNewest == IInv => NewestFirst
  <1> SUFFICES ASSUME IInv, NEW k \in Keys
               PROVE  /\ Lookup(k).seq >= active[k].seq
                      /\ Lookup(k).seq >= frozen.tab[k].seq
                      /\ \A i \in 1..Len(sstables) : Lookup(k).seq >= sstables[i].tab[k].seq
    BY DEF NewestFirst
  <1> DEFINE a == active[k]  f == frozen.tab[k]
  <1>1. TypeOK /\ InvLayers /\ InvQuiet
    BY DEF IInv
  <1>2. a \in Cells /\ f \in Cells /\ \A i \in 1..Len(sstables) : sstables[i].tab[k] \in Cells
    BY <1>1, SstTableType, TableFacts DEF TypeOK, Frozen
  <1>3. /\ IsHit(a) => a.seq >= f.seq
        /\ \A i \in 1..Len(sstables) :
              /\ IsHit(a) => a.seq >= sstables[i].tab[k].seq
              /\ IsHit(f) => f.seq >= sstables[i].tab[k].seq
    BY <1>1 DEF InvLayers, Shadows
  <1>4. \A i, j \in 1..Len(sstables) :
           j < i /\ IsHit(sstables[i].tab[k]) => sstables[i].tab[k].seq >= sstables[j].tab[k].seq
    BY <1>1 DEF InvLayers, Shadows
  <1>5. ~frozen.some => f.seq = 0
    BY <1>1, EmptyFacts DEF InvQuiet
  <1>6. CASE IsHit(a)
    BY <1>2, <1>3, <1>6, CellFacts DEF Lookup
  <1>7. CASE ~IsHit(a) /\ frozen.some /\ IsHit(f)
    <2>1. Lookup(k) = f /\ a.seq = 0
      BY <1>2, <1>7, CellFacts DEF Lookup, LookupBelow
    <2> QED  BY <1>2, <1>3, <1>7, <2>1, CellFacts
  <1>8. CASE ~IsHit(a) /\ ~(frozen.some /\ IsHit(f))
    <2>1. Lookup(k) = LookupSst(k) /\ a.seq = 0 /\ f.seq = 0
      BY <1>2, <1>5, <1>8, CellFacts DEF Lookup, LookupBelow
    <2>2. \A j \in 1..Len(sstables) : ~IsHit(sstables[j].tab[k]) => sstables[j].tab[k].seq = 0
      BY <1>2, CellFacts
    <2>3. CASE /\ LookupSst(k) = Missing
               /\ \A i \in 1..Len(sstables) : ~IsHit(sstables[i].tab[k])
      BY <2>1, <2>2, <2>3 DEF Missing
    <2>4. ASSUME NEW i \in 1..Len(sstables),
                 LookupSst(k) = sstables[i].tab[k] /\ IsHit(sstables[i].tab[k]),
                 \A j \in 1..Len(sstables) : IsHit(sstables[j].tab[k]) => j <= i
          PROVE  /\ Lookup(k).seq >= 0
                 /\ \A j \in 1..Len(sstables) : Lookup(k).seq >= sstables[j].tab[k].seq
      <3>1. sstables[i].tab[k].seq \in Nat
        BY <1>2, CellFacts
      <3>2. ASSUME NEW j \in 1..Len(sstables) PROVE Lookup(k).seq >= sstables[j].tab[k].seq
        <4>1. CASE IsHit(sstables[j].tab[k]) /\ j # i
          BY <1>4, <2>1, <2>4, <4>1
        <4>2. CASE ~IsHit(sstables[j].tab[k])
          BY <2>1, <2>2, <2>4, <3>1, <4>2
        <4>3. CASE j = i
          BY <2>1, <2>4, <3>1, <4>3
        <4> QED  BY <4>1, <4>2, <4>3
      <3> QED  BY <2>1, <2>4, <3>1, <3>2
    <2> QED  BY <1>1, <2>1, <2>3, <2>4, LookupSstFacts
  <1> QED  BY <1>6, <1>7, <1>8
-------------------------------------------------------------------------------
(***************************************************************************)
(* Type correctness.                                                       *)
(***************************************************************************)
\* The constant logs, jobs, calls and worker states have their types.
LEMMA ConstantTypes ==
    /\ NoWal \in Wals /\ BlankWal \in Wals /\ NewWal \in Wals
    /\ NoJob \in SSTs /\ NoOp \in Ops /\ NoFrozen \in Frozen
    /\ Idle \in [pc : WorkerPcs, job : SSTs, err : BOOLEAN]
    /\ Stopped \in [pc : WorkerPcs, job : SSTs, err : BOOLEAN]
  <1>1. NoWal \in Wals /\ BlankWal \in Wals /\ NewWal \in Wals
    BY EmptyFacts DEF Wals, NoWal, BlankWal, NewWal
  <1>2. NoJob \in SSTs
    BY EmptyFacts DEF SSTs, NoJob
  <1>3. NoOp \in Ops
    BY <1>2, EmptyFacts DEF Ops, NoOp
  <1>4. NoFrozen \in Frozen
    BY EmptyFacts DEF Frozen, NoFrozen
  <1> QED  BY <1>1, <1>2, <1>3, <1>4 DEF Idle, Stopped, WorkerPcs

\* A log stands for tables.
LEMMA RecordsType ==
    ASSUME NEW w \in Wals
    PROVE  w.log \in Tables /\ w.tail \in Tables /\ Records(w) \in Tables
  BY ReplayFacts DEF Wals, Records

\* Appending to a log gives a log.
LEMMA AppendWalType ==
    ASSUME NEW w \in Wals, NEW k, NEW c \in Cells
    PROVE  AppendWal(w, k, c) \in Wals
  BY MemPutType, EmptyFacts DEF Wals, AppendWal

\* The initial state is type correct.
LEMMA InitType == Init => TypeOK
  <1> SUFFICES ASSUME Init PROVE TypeOK
    OBVIOUS
  <1>1. /\ sstFiles \subseteq SSTs /\ IsFiniteSet(sstFiles)
        /\ sstables \in Seq(SSTs) /\ jobs \in Seq(SSTs)
    BY FS_EmptySet DEF Init
  <1>2. pc \in [Threads -> ThreadPcs] /\ op \in [Threads -> Ops]
    BY ConstantTypes DEF Init, ThreadPcs
  <1>3. wal \in Wals /\ flushWal \in Wals /\ worker \in [pc : WorkerPcs, job : SSTs, err : BOOLEAN]
    BY ConstantTypes DEF Init
  <1>4. active \in Tables /\ frozen \in Frozen /\ committed \in Tables
    BY ConstantTypes, EmptyFacts DEF Init
  <1>5. walOpen \in BOOLEAN /\ inFlight \in BOOLEAN /\ lastErr \in BOOLEAN
    BY DEF Init
  <1>6. /\ readers \subseteq Threads /\ walHolder \in Threads \cup {None}
        /\ mode \in Modes /\ unwritten \subseteq Keys
    BY DEF Init, Modes
  <1>7. nextSeq \in Nat \ {0} /\ nextSst \in Nat \ {0} /\ crashes \in Nat /\ faults \in Nat
    BY DEF Init
  <1> QED  BY <1>1, <1>2, <1>3, <1>4, <1>5, <1>6, <1>7 DEF TypeOK

\* The end of a process keeps every variable in its type.
LEMMA ForgetMemoryType ==
    ASSUME TypeOK, ForgetMemory, UNCHANGED files, mode' \in Modes,
           crashes' \in Nat, faults' \in Nat, UNCHANGED committed
    PROVE  TypeOK'
  <1>1. sstables' \in Seq(SSTs) /\ jobs' \in Seq(SSTs)
    BY DEF ForgetMemory
  <1>2. pc' \in [Threads -> ThreadPcs] /\ op' \in [Threads -> Ops]
    BY ConstantTypes DEF ForgetMemory, ThreadPcs
  <1>3. active' \in Tables /\ frozen' \in Frozen /\ worker' \in [pc : WorkerPcs, job : SSTs, err : BOOLEAN]
    BY ConstantTypes, EmptyFacts DEF ForgetMemory
  <1>4. walOpen' \in BOOLEAN /\ inFlight' \in BOOLEAN /\ lastErr' \in BOOLEAN
    BY DEF ForgetMemory
  <1>6. /\ readers' \subseteq Threads /\ walHolder' \in Threads \cup {None}
        /\ nextSeq' \in Nat \ {0} /\ nextSst' \in Nat \ {0} /\ unwritten' \subseteq Keys
    BY DEF ForgetMemory
  <1>5. /\ wal' \in Wals /\ flushWal' \in Wals /\ committed' \in Tables
        /\ sstFiles' \subseteq SSTs /\ IsFiniteSet(sstFiles')
    BY DEF TypeOK, files
  <1> QED  BY <1>1, <1>2, <1>3, <1>4, <1>5, <1>6 DEF TypeOK

\* The updates of what one call knows.
LEMMA OpUpdates ==
    ASSUME TypeOK, NEW t \in Threads
    PROVE  /\ \A k \in Keys, c \in Cells :
                 [op EXCEPT ![t] = [op[t] EXCEPT !.key = k, !.cell = c]] \in [Threads -> Ops]
           /\ \A c \in Cells : [op EXCEPT ![t] = [op[t] EXCEPT !.cell = c]] \in [Threads -> Ops]
           /\ \A k \in Keys, c \in Cells, d \in Cells :
                 [op EXCEPT ![t] = [op[t] EXCEPT !.key = k, !.floor[k] = c, !.under = d]]
                    \in [Threads -> Ops]
           /\ \A f \in Tables : [op EXCEPT ![t] = [op[t] EXCEPT !.flushing = TRUE, !.floor = f]]
                                    \in [Threads -> Ops]
           /\ \A m \in SUBSET Keys : [op EXCEPT ![t] = [op[t] EXCEPT !.met = m]]
                                         \in [Threads -> Ops]
  <1>1. op \in [Threads -> Ops] /\ op[t] \in Ops /\ op[t].floor \in Tables
    BY DEF TypeOK, Ops
  <1>2. ASSUME NEW k \in Keys, NEW c \in Cells, NEW d \in Cells
        PROVE  [op[t] EXCEPT !.key = k, !.floor[k] = c, !.under = d] \in Ops
    <2>1. [op[t].floor EXCEPT ![k] = c] \in Tables
      BY <1>1 DEF Tables
    <2> QED  BY <1>1, <2>1 DEF Ops
  <1>3. ASSUME NEW k \in Keys, NEW c \in Cells
        PROVE  [op[t] EXCEPT !.key = k, !.cell = c] \in Ops
    BY <1>1 DEF Ops
  <1>4. \A c \in Cells : [op[t] EXCEPT !.cell = c] \in Ops
    BY <1>1 DEF Ops
  <1>5. ASSUME NEW f \in Tables PROVE [op[t] EXCEPT !.flushing = TRUE, !.floor = f] \in Ops
    BY <1>1 DEF Ops
  <1>6. ASSUME NEW m \in SUBSET Keys PROVE [op[t] EXCEPT !.met = m] \in Ops
    BY <1>1 DEF Ops
  <1>7. \A o \in Ops : [op EXCEPT ![t] = o] \in [Threads -> Ops]
    BY <1>1
  <1> QED  BY <1>2, <1>3, <1>4, <1>5, <1>6, <1>7

\* What an overwrite hides is a key.
LEMMA HiddenKeys == InvLocks => Hidden \subseteq Keys
  BY DEF InvLocks, Hidden, Keyed, Applying

\* Every step keeps every variable in its type.
LEMMA TypeStep == IInv /\ [Next]_vars => TypeOK'
  <1> SUFFICES ASSUME IInv, [Next]_vars PROVE TypeOK'
    OBVIOUS
  <1> USE DEF files, snap, locks, ctl, threads, ghosts
  <1>0. TypeOK /\ InvLocks
    BY DEF IInv
  <1>1. CASE UNCHANGED vars
    BY <1>0, <1>1 DEF vars, TypeOK
  <1>2. ASSUME NEW t \in Threads, WriteBegin(t) PROVE TypeOK'
    BY <1>0, <1>2
    DEF WriteBegin, TypeOK, ThreadPcs, At, Goto, Return
  <1>3. ASSUME NEW t \in Threads, WriteNoWal(t) PROVE TypeOK'
    BY <1>0, <1>3, ConstantTypes
    DEF WriteNoWal, TypeOK, ThreadPcs, At, Goto, Return
  <1>4. ASSUME NEW t \in Threads, WriteAppend(t) PROVE TypeOK'
    <2>1. PICK k \in Keys, kind \in {"Put", "Tombstone"} :
             LET c == [seq |-> nextSeq, kind |-> kind] IN
             wal' = AppendWal(wal, k, c) /\ op' = [op EXCEPT ![t].key = k, ![t].cell = c]
      BY <1>4 DEF WriteAppend
    <2> DEFINE c == [seq |-> nextSeq, kind |-> kind]
    <2>2. c \in Cells
      BY <1>0, NewCell DEF TypeOK
    <2> HIDE DEF c
    <2>3. wal' \in Wals
      BY <1>0, <2>1, <2>2, AppendWalType DEF TypeOK, c
    <2>4. op' \in [Threads -> Ops]
      <3>1. op' = [op EXCEPT ![t] = [op[t] EXCEPT !.key = k, !.cell = c]]
        BY <1>0, <2>1 DEF TypeOK, c
      <3> QED  BY <1>0, <2>2, <3>1, OpUpdates
    <2> QED  BY <1>0, <1>4, <2>3, <2>4 DEF WriteAppend, TypeOK, ThreadPcs, At, Goto
  <1>5. ASSUME NEW t \in Threads, WriteAppendFails(t) PROVE TypeOK'
    <2>1. wal' \in Wals
      <3>1. CASE wal' = [wal EXCEPT !.tail = EmptyTable]
        BY <1>0, <3>1, EmptyFacts DEF TypeOK, Wals
      <3>2. ASSUME NEW k \in Keys, NEW kind \in {"Put", "Tombstone"},
                   wal' = [wal EXCEPT !.tail =
                              MemPut(EmptyTable, k, [seq |-> nextSeq, kind |-> kind])]
            PROVE  wal' \in Wals
        <4>1. [seq |-> nextSeq, kind |-> kind] \in Cells
          BY <1>0, NewCell DEF TypeOK
        <4>2. MemPut(EmptyTable, k, [seq |-> nextSeq, kind |-> kind]) \in Tables
          BY <4>1, EmptyFacts, MemPutType
        <4> QED  BY <1>0, <3>2, <4>2 DEF TypeOK, Wals
      <3>3. CASE UNCHANGED wal
        BY <1>0, <3>3 DEF TypeOK
      <3> QED  BY <1>5, <3>1, <3>2, <3>3 DEF WriteAppendFails
    <2> QED  BY <1>0, <1>5, <2>1, ConstantTypes
             DEF WriteAppendFails, TypeOK, ThreadPcs, At, Goto, Return
  <1>6. ASSUME NEW t \in Threads, WriteRemove(t) PROVE TypeOK'
    <2>1. active' \in Tables
      BY <1>0, <1>6, MemRemoveAt DEF WriteRemove, TypeOK
    <2> QED  BY <1>0, <1>6, <2>1 DEF WriteRemove, TypeOK, ThreadPcs, At, Goto
  <1>7. ASSUME NEW t \in Threads, WriteApply(t) PROVE TypeOK'
    <2>1. op[t].key \in Keys /\ op[t].cell \in Cells
      BY <1>0, <1>7 DEF WriteApply, TypeOK, Ops, InvLocks, Keyed
    <2>2. active' \in Tables /\ committed' \in Tables
      BY <1>0, <1>7, <2>1, MemPutType DEF WriteApply, TypeOK, Tables
    <2> QED  BY <1>0, <1>7, <2>2, ConstantTypes
             DEF WriteApply, TypeOK, ThreadPcs, Goto, Return
  <1>8. ASSUME NEW t \in Threads, GetBegin(t) PROVE TypeOK'
    <2>1. PICK k \in Keys :
             op' = [op EXCEPT ![t].key = k, ![t].floor[k] = Lookup(k), ![t].under = LookupBelow(k)]
      BY <1>8 DEF GetBegin
    <2>2. Lookup(k) \in Cells /\ LookupBelow(k) \in Cells
      BY <1>0, LookupType
    <2>3. op' \in [Threads -> Ops]
      <3>1. op' = [op EXCEPT ![t] = [op[t] EXCEPT !.key = k, !.floor[k] = Lookup(k),
                                                  !.under = LookupBelow(k)]]
        BY <1>0, <2>1 DEF TypeOK
      <3> QED  BY <1>0, <2>2, <3>1, OpUpdates
    <2> QED  BY <1>0, <1>8, <2>3 DEF GetBegin, TypeOK, ThreadPcs, At, Goto
  <1>9. ASSUME NEW t \in Threads, GetActive(t) PROVE TypeOK'
    <2>1. op[t].key \in Keys
      BY <1>0, <1>9 DEF GetActive, At, InvLocks, Keyed
    <2>2. active[op[t].key] \in Cells
      BY <1>0, <2>1, TableFacts DEF TypeOK
    <2>3. op' \in [Threads -> Ops]
      <3>1. \/ op' = [op EXCEPT ![t].met = Hidden]
            \/ op' = [op EXCEPT ![t].cell = active[op[t].key]]
        BY <1>9 DEF GetActive
      <3>2. CASE op' = [op EXCEPT ![t].met = Hidden]
        <4>1. op' = [op EXCEPT ![t] = [op[t] EXCEPT !.met = Hidden]]
          BY <1>0, <3>2 DEF TypeOK
        <4> QED  BY <1>0, <4>1, HiddenKeys, OpUpdates
      <3>3. CASE op' = [op EXCEPT ![t].cell = active[op[t].key]]
        <4>1. op' = [op EXCEPT ![t] = [op[t] EXCEPT !.cell = active[op[t].key]]]
          BY <1>0, <3>3 DEF TypeOK
        <4> QED  BY <1>0, <2>2, <4>1, OpUpdates
      <3> QED  BY <3>1, <3>2, <3>3
    <2> QED  BY <1>0, <1>9, <2>3 DEF GetActive, TypeOK, ThreadPcs, At, Goto
  <1>10. ASSUME NEW t \in Threads, GetBelow(t) PROVE TypeOK'
    <2>1. op[t].key \in Keys
      BY <1>0, <1>10 DEF GetBelow, At, InvLocks, Keyed
    <2>2. LookupBelow(op[t].key) \in Cells
      BY <1>0, <2>1, LookupType
    <2>3. op' \in [Threads -> Ops]
      BY <1>0, <1>10, <2>2 DEF GetBelow, TypeOK, Ops
    <2> QED  BY <1>0, <1>10, <2>3 DEF GetBelow, TypeOK, ThreadPcs, At, Goto
  <1>11. ASSUME NEW t \in Threads, GetReturn(t) PROVE TypeOK'
    BY <1>0, <1>11, ConstantTypes
    DEF GetReturn, TypeOK, ThreadPcs, At, Goto, Return
  <1>12. ASSUME NEW t \in Threads, FlushBegin(t) PROVE TypeOK'
    <2>1. op' \in [Threads -> Ops]
      <3>1. op' = [op EXCEPT ![t] = [op[t] EXCEPT !.flushing = TRUE, !.floor = Visible]]
        BY <1>0, <1>12 DEF FlushBegin, TypeOK
      <3> QED  BY <1>0, <3>1, VisibleType, OpUpdates
    <2> QED  BY <1>0, <1>12, <2>1 DEF FlushBegin, TypeOK, ThreadPcs, Waiting, At, Goto
  <1>13. ASSUME NEW t \in Threads, ScheduleBegin(t) PROVE TypeOK'
    BY <1>0, <1>13
    DEF ScheduleBegin, TypeOK, ThreadPcs, At, Goto, Return, Waiting
  <1>14. ASSUME NEW t \in Threads, WaitBegin(t) PROVE TypeOK'
    BY <1>0, <1>14
    DEF WaitBegin, TypeOK, ThreadPcs, At, Goto, Return, Waiting
  <1>15. ASSUME NEW t \in Threads, WaitOk(t) PROVE TypeOK'
    BY <1>0, <1>15
    DEF WaitOk, TypeOK, ThreadPcs, At, Goto, Return, Waiting, AfterWait
  <1>16. ASSUME NEW t \in Threads, WaitErr(t) PROVE TypeOK'
    BY <1>0, <1>16, ConstantTypes
    DEF WaitErr, TypeOK, ThreadPcs, At, Goto, Return
  <1>17. ASSUME NEW t \in Threads, FlushCheck(t) PROVE TypeOK'
    <2>1. op' \in [Threads -> Ops]
      <3>1. op' = op \/ op' = [op EXCEPT ![t] = [op[t] EXCEPT !.met = Hidden]]
        BY <1>0, <1>17 DEF FlushCheck, TypeOK
      <3>2. CASE op' = op
        BY <1>0, <3>2 DEF TypeOK
      <3>3. CASE op' = [op EXCEPT ![t] = [op[t] EXCEPT !.met = Hidden]]
        BY <1>0, <3>3, HiddenKeys, OpUpdates
      <3> QED  BY <3>1, <3>2, <3>3
    <2> QED  BY <1>0, <1>17, <2>1 DEF FlushCheck, TypeOK, ThreadPcs, Waiting, At, Goto
  <1>18. ASSUME NEW t \in Threads, FlushReturn(t) PROVE TypeOK'
    BY <1>0, <1>18, ConstantTypes
    DEF FlushReturn, TypeOK, ThreadPcs, At, Goto, Return
  <1>19. ASSUME NEW t \in Threads, SchedSkip(t) PROVE TypeOK'
    BY <1>0, <1>19, ConstantTypes
    DEF SchedSkip, TypeOK, ThreadPcs, At, Goto, Return, AfterSchedule, Waiting
  <1>20. ASSUME NEW t \in Threads, SchedSwap(t) PROVE TypeOK'
    <2>1. [id |-> nextSst, tab |-> active] \in SSTs
      BY <1>0 DEF TypeOK, SSTs
    <2>2. op' \in [Threads -> Ops]
      BY <1>0, <1>20, <2>1 DEF SchedSwap, TypeOK, Ops
    <2> QED  BY <1>0, <1>20, <2>2, EmptyFacts DEF SchedSwap, TypeOK, ThreadPcs, At, Goto, Frozen
  <1>21. ASSUME NEW t \in Threads, RotLock(t) PROVE TypeOK'
    BY <1>0, <1>21
    DEF RotLock, TypeOK, ThreadPcs, At, Goto, Return, Rotating
  <1>22. ASSUME NEW t \in Threads, RotRemove(t) PROVE TypeOK'
    BY <1>0, <1>22, ConstantTypes
    DEF RotRemove, TypeOK, ThreadPcs, At, Goto, Return, Rotating
  <1>23. ASSUME NEW t \in Threads, RotRemoveLost(t) PROVE TypeOK'
    BY <1>0, <1>23, ConstantTypes
    DEF RotRemoveLost, TypeOK, ThreadPcs, At, Goto, Return
  <1>24. ASSUME NEW t \in Threads, RotRename(t) PROVE TypeOK'
    BY <1>0, <1>24, ConstantTypes
    DEF RotRename, TypeOK, ThreadPcs, At, Goto, Return, Rotating
  <1>25. ASSUME NEW t \in Threads, RotCreate(t) PROVE TypeOK'
    BY <1>0, <1>25, ConstantTypes
    DEF RotCreate, TypeOK, ThreadPcs, At, Goto, Return, Rotating
  <1>26. ASSUME NEW t \in Threads, RotHeader(t) PROVE TypeOK'
    BY <1>0, <1>26, ConstantTypes
    DEF RotHeader, TypeOK, ThreadPcs, At, Goto, Return
  <1>27. ASSUME NEW t \in Threads, RotFails(t) PROVE TypeOK'
    BY <1>0, <1>27, ConstantTypes
    DEF RotFails, TypeOK, ThreadPcs, At, Goto, Return
  <1>28. ASSUME NEW t \in Threads, MarkInFlight(t) PROVE TypeOK'
    BY <1>0, <1>28
    DEF MarkInFlight, TypeOK, ThreadPcs, At, Goto, Return
  <1>29. ASSUME NEW t \in Threads, SendJob(t) PROVE TypeOK'
    <2>1. jobs' \in Seq(SSTs)
      BY <1>0, <1>29 DEF SendJob, TypeOK, Ops
    <2> QED  BY <1>0, <1>29, <2>1, ConstantTypes
             DEF SendJob, AfterSchedule, TypeOK, ThreadPcs, Waiting, At, Goto, Return
  <1>30. CASE WorkerRecv
    <2>1. Head(jobs) \in SSTs /\ jobs' \in Seq(SSTs)
      BY <1>0, <1>30 DEF WorkerRecv, TypeOK
    <2> QED  BY <1>0, <1>30, <2>1 DEF WorkerRecv, TypeOK, WorkerPcs
  <1>31. CASE WorkerWrite
    <2> DEFINE kept == {s \in sstFiles : s.id # worker.job.id}
    <2>1. worker.job \in SSTs
      BY <1>0 DEF TypeOK
    <2>2. IsFiniteSet(kept) /\ kept \subseteq SSTs
      BY <1>0, FS_Subset DEF TypeOK
    <2>3. IsFiniteSet(kept \cup {worker.job})
      BY <2>2, FS_AddElement
    <2> QED  BY <1>0, <1>31, <2>1, <2>2, <2>3 DEF WorkerWrite, TypeOK, WorkerPcs
  <1>32. CASE WorkerInstall
    <2>1. sstables' \in Seq(SSTs)
      BY <1>0, <1>32 DEF WorkerInstall, TypeOK
    <2> QED  BY <1>0, <1>32, <2>1, ConstantTypes DEF WorkerInstall, TypeOK, WorkerPcs
  <1>33. CASE WorkerUnlinkCheck
    BY <1>0, <1>33
    DEF WorkerUnlinkCheck, TypeOK, Serving, WorkerAt, WorkerPcs
  <1>34. CASE WorkerUnlink
    BY <1>0, <1>34, ConstantTypes
    DEF WorkerUnlink, TypeOK, Serving, WorkerAt, WorkerPcs
  <1>35. CASE WorkerUnlinkLost
    BY <1>0, <1>35
    DEF WorkerUnlinkLost, TypeOK, Serving, WorkerAt, WorkerPcs
  <1>36. CASE WorkerFails
    <2>1. worker' \in [pc : WorkerPcs, job : SSTs, err : BOOLEAN]
      BY <1>0, <1>36 DEF WorkerFails, TypeOK, WorkerPcs
    <2>2. faults' \in Nat
      BY <1>0, <1>36 DEF WorkerFails, TypeOK
    <2> QED  BY <1>0, <1>36, <2>1, <2>2 DEF WorkerFails, TypeOK
  <1>37. CASE WorkerReport
    BY <1>0, <1>37, ConstantTypes
    DEF WorkerReport, TypeOK, Serving, WorkerAt
  <1>38. CASE CloseBegin
    BY <1>0, <1>38
    DEF CloseBegin, TypeOK, Modes
  <1>39. CASE CloseEnd
    BY <1>0, <1>39, ForgetMemoryType
    DEF CloseEnd, TypeOK, Modes
  <1>40. CASE Crash
    BY <1>0, <1>40, ForgetMemoryType
    DEF Crash, TypeOK, Modes
  <1>41. CASE OpenReplay
    <2>1. active' \in Tables
      BY <1>0, <1>41, RecordsType, ReplayFacts DEF OpenReplay, Recovered, TypeOK
    <2>2. sstables' \in Seq(SSTs)
      <3>1. PICK s \in [1..Cardinality(sstFiles) -> sstFiles] : sstables' = s
        BY <1>41 DEF OpenReplay
      <3>2. Cardinality(sstFiles) \in Nat /\ sstFiles \subseteq SSTs
        BY <1>0, FS_CardinalityType DEF TypeOK
      <3> QED  BY <3>1, <3>2
    <2>3. nextSeq' \in Nat \ {0}
      <3>1. \A m \in DiskSeqs : m \in Nat
        BY <1>0, RecordsType, TableFacts DEF DiskSeqs, DiskCells, TypeOK, SSTs
      <3> QED  BY <1>41, <3>1 DEF OpenReplay, SeqAfter
    <2>4. nextSst' \in Nat \ {0}
      BY <1>0, <1>41 DEF OpenReplay, IdAfter, TypeOK, SSTs
    <2>5. wal' \in Wals
      BY <1>0, <1>41, RecordsType, EmptyFacts DEF OpenReplay, TypeOK, Wals
    <2> QED  BY <1>0, <1>41, <2>1, <2>2, <2>3, <2>4, <2>5
             DEF OpenReplay, TypeOK, Modes, Recovering
  <1>42. CASE OpenRefused
    BY <1>0, <1>42
    DEF OpenRefused, TypeOK, Modes
  <1>43. CASE DropWal
    BY <1>0, <1>43, ConstantTypes
    DEF DropWal, TypeOK, Modes, Recovering
  <1>44. CASE DropFlushWal
    BY <1>0, <1>44, ConstantTypes
    DEF DropFlushWal, TypeOK, Modes, Recovering
  <1>45. CASE CreateWal
    BY <1>0, <1>45, ConstantTypes
    DEF CreateWal, TypeOK, Modes, Recovering
  <1>46. CASE WriteHeader
    BY <1>0, <1>46, ConstantTypes
    DEF WriteHeader, TypeOK, Modes, Recovering
  <1>47. CASE Checkpoint
    <2>1. PICK k \in unwritten : /\ wal' = AppendWal(wal, k, active[k])
                                  /\ unwritten' = unwritten \ {k}
      BY <1>47 DEF Checkpoint
    <2>2. wal' \in Wals
      BY <1>0, <2>1, TableFacts, AppendWalType DEF TypeOK
    <2> QED  BY <1>0, <1>47, <2>1, <2>2 DEF Checkpoint, TypeOK
  <1>48. CASE CheckpointDone
    BY <1>0, <1>48
    DEF CheckpointDone, TypeOK, Modes
  <1>49. CASE Spawn
    BY <1>0, <1>49, ConstantTypes, VisibleType, ReplayFacts
    DEF Spawn, TypeOK, Modes
  <1>50. ASSUME NEW t \in Threads, Thread(t) PROVE TypeOK'
    BY <1>2, <1>3, <1>4, <1>5, <1>7, <1>8, <1>9, <1>10, <1>11, <1>12, <1>13, <1>14, <1>15,
       <1>16, <1>17, <1>18, <1>19, <1>20, <1>21, <1>22, <1>23, <1>24, <1>25, <1>26, <1>27,
       <1>28, <1>29, <1>50, <1>6
    DEF Thread, Begin, Write, Get, Flush
  <1> QED
    BY <1>1, <1>50, <1>30, <1>31, <1>32, <1>33, <1>34, <1>35, <1>36, <1>37, <1>38, <1>39,
       <1>40, <1>41, <1>42, <1>43, <1>44, <1>45, <1>46, <1>47, <1>48, <1>49
    DEF Next, Worker, Recovery
-------------------------------------------------------------------------------
(***************************************************************************)
(* Frames: what a step of one thread leaves to the others, and which steps *)
(* touch the files and the snapshot at all.                                *)
(***************************************************************************)
\* The types of what one thread knows.
LEMMA ThreadTypes ==
    ASSUME TypeOK, NEW t \in Threads
    PROVE  /\ pc \in [Threads -> ThreadPcs] /\ op \in [Threads -> Ops]
           /\ pc[t] \in ThreadPcs /\ op[t] \in Ops
           /\ op[t].cell \in Cells /\ op[t].job \in SSTs
  BY DEF TypeOK, Ops

\* The flush calls, in the groups the proofs below split them into.
Scheduling(t) == \/ WaitOk(t) \/ WaitErr(t) \/ FlushCheck(t) \/ FlushReturn(t)
                 \/ SchedSkip(t) \/ MarkInFlight(t)
Rotation(t) == \/ RotLock(t) \/ RotRemove(t) \/ RotRemoveLost(t) \/ RotRename(t)
               \/ RotCreate(t) \/ RotHeader(t) \/ RotFails(t)

\* The groups above are all the steps of a flush call.
LEMMA FlushGroups ==
    ASSUME NEW t, Flush(t) \/ RotFails(t)
    PROVE  Scheduling(t) \/ SchedSwap(t) \/ SendJob(t) \/ Rotation(t)
  BY DEF Flush, Scheduling, Rotation

\* A thread moves itself only, gives up only its own read lock, and takes the mutex
\* from nobody.
LEMMA ThreadFrame ==
    ASSUME TypeOK, InvLocks, NEW t \in Threads, Thread(t)
    PROVE  /\ mode = "up" /\ mode' = "up"
           /\ \A u \in Threads : u # t => /\ pc'[u] = pc[u] /\ op'[u] = op[u]
                                          /\ u \in readers => u \in readers'
                                          /\ walHolder = u => walHolder' = u
  <1> USE ThreadTypes DEF locks, threads, At, Goto, Return
  <1>0. t # None
    BY NoneAssumption
  <1>1. CASE Begin(t)
    BY <1>1 DEF Begin, WriteBegin, GetBegin, FlushBegin, ScheduleBegin, WaitBegin
  <1>2. CASE Write(t) \/ WriteAppendFails(t)
    BY <1>0, <1>2, NoneAssumption
    DEF Write, WriteAppend, WriteNoWal, WriteRemove, WriteApply, WriteAppendFails, InvLocks,
        Applying
  <1>3. CASE Get(t)
    BY <1>3 DEF Get, GetActive, GetBelow, GetReturn
  <1>4. CASE Scheduling(t) \/ SchedSwap(t) \/ SendJob(t)
    BY <1>4 DEF Scheduling, WaitOk, WaitErr, FlushCheck, FlushReturn, SchedSkip, SchedSwap,
                AfterSchedule, MarkInFlight, SendJob
  <1>5. CASE Rotation(t)
    BY <1>0, <1>5, NoneAssumption
    DEF Rotation, RotLock, RotRemove, RotRemoveLost, RotRename, RotCreate, RotHeader, RotFails,
        InvLocks, Rotating
  <1> QED  BY <1>1, <1>2, <1>3, <1>4, <1>5, FlushGroups DEF Thread

\* The steps that change a file, the snapshot or a counter.
WriteData(t) == WriteAppend(t) \/ WriteAppendFails(t) \/ WriteRemove(t) \/ WriteApply(t)
RotateData(t) == RotRemove(t) \/ RotRename(t) \/ RotCreate(t) \/ RotHeader(t)
WorkerData == WorkerWrite \/ WorkerInstall \/ WorkerUnlink
RewriteWal == DropWal \/ DropFlushWal \/ CreateWal \/ WriteHeader \/ Checkpoint
Reset == CloseEnd \/ Crash
DataStep == \/ \E t \in Threads : WriteData(t) \/ SchedSwap(t) \/ RotateData(t)
            \/ WorkerData \/ RewriteWal \/ Reset \/ OpenReplay
SameData == /\ UNCHANGED <<wal, flushWal, sstFiles, active, frozen, sstables, nextSeq, nextSst>>
            /\ Loaded' = Loaded
            /\ mode' = "drop_wal" <=> mode = "drop_wal"

\* Every step is one of them or leaves all of that alone.
LEMMA DataFrame == ASSUME Next PROVE DataStep \/ SameData
  <1> USE DEF files, snap, locks, ctl, SameData, Loaded
  <1>1. ASSUME NEW t \in Threads, Thread(t) PROVE DataStep \/ SameData
    <2>1. CASE Begin(t)
      BY <2>1 DEF Begin, WriteBegin, GetBegin, FlushBegin, ScheduleBegin, WaitBegin, At
    <2>2. CASE Write(t) \/ WriteAppendFails(t)
      BY <2>2 DEF Write, WriteNoWal, DataStep, WriteData
    <2>3. CASE Get(t)
      BY <2>3 DEF Get, GetActive, GetBelow, GetReturn, At
    <2>4. CASE Scheduling(t) \/ SchedSwap(t) \/ SendJob(t)
      BY <2>4 DEF Scheduling, WaitOk, WaitErr, FlushCheck, FlushReturn, SchedSkip, MarkInFlight,
                  SendJob, DataStep
    <2>5. CASE Rotation(t)
      BY <2>5 DEF Rotation, RotLock, RotRemoveLost, RotFails, DataStep, RotateData
    <2> QED  BY <1>1, <2>1, <2>2, <2>3, <2>4, <2>5, FlushGroups DEF Thread
  <1>2. CASE Worker \/ WorkerFails
    BY <1>2 DEF Worker, WorkerFails, WorkerRecv, WorkerUnlinkCheck, WorkerUnlinkLost,
                WorkerReport, DataStep, WorkerData
  <1>3. CASE CloseBegin \/ CloseEnd \/ Crash \/ Recovery \/ OpenRefused
    BY <1>3 DEF CloseBegin, Recovery, CheckpointDone, Spawn, OpenRefused,
                DataStep, RewriteWal, Reset
  <1> QED  BY <1>1, <1>2, <1>3 DEF Next

\* What is left when the process ends.
LEMMA ResetFacts ==
    ASSUME Reset
    PROVE  /\ mode' = "down" /\ UNCHANGED files
           /\ active' = EmptyTable /\ frozen' = NoFrozen /\ sstables' = <<>>
           /\ jobs' = <<>> /\ worker' = Stopped /\ ~walOpen'
           /\ \A t \in Threads : pc'[t] = "idle"
  BY DEF Reset, CloseEnd, Crash, ForgetMemory
-------------------------------------------------------------------------------
(***************************************************************************)
(* Locks.                                                                  *)
(***************************************************************************)
\* A thread's step keeps the locks where the invariant says they are.
LEMMA LocksOfThread ==
    ASSUME IInv, NEW t \in Threads, Thread(t)
    PROVE  InvLocks'
  <1>1. TypeOK /\ InvLocks
    BY DEF IInv
  <1>2. pc \in [Threads -> ThreadPcs] /\ op \in [Threads -> Ops] /\ pc[t] \in ThreadPcs /\ op[t] \in Ops
    BY <1>1, ThreadTypes
  <1> USE <1>2 DEF At, Goto, Return, locks, Waiting, Rotating, Applying, Write, Get
  <1>3. pc'[t] \in {"write_wal"} \cup Applying => t \in readers'
    <2>1. pc[t] \in {"write_wal"} \cup Applying => t \in readers
      BY <1>1 DEF InvLocks
    <2>2. CASE Begin(t)
      BY <2>1, <2>2 DEF Begin, WriteBegin, GetBegin, FlushBegin, ScheduleBegin, WaitBegin
    <2>3. CASE Write(t) \/ WriteAppendFails(t)
      BY <2>1, <2>3 DEF WriteAppend, WriteNoWal, WriteRemove, WriteApply, WriteAppendFails
    <2>4. CASE Get(t)
      BY <2>1, <2>4 DEF GetActive, GetBelow, GetReturn
    <2>5. CASE Flush(t) \/ RotFails(t)
      BY <2>5 DEF Flush, WaitOk, WaitErr, FlushCheck, FlushReturn, SchedSkip, SchedSwap,
                  AfterSchedule, MarkInFlight, SendJob, AfterWait, RotLock, RotRemove,
                  RotRemoveLost, RotRename, RotCreate, RotHeader, RotFails
    <2> QED  BY <1>1, <2>2, <2>3, <2>4, <2>5 DEF Thread
  <1>4. pc'[t] \in Applying \cup Rotating => walHolder' = t
    <2>1. pc[t] \in Applying \cup Rotating => walHolder = t
      BY <1>1 DEF InvLocks
    <2>2. CASE Begin(t)
      BY <2>1, <2>2 DEF Begin, WriteBegin, GetBegin, FlushBegin, ScheduleBegin, WaitBegin
    <2>3. CASE Write(t) \/ WriteAppendFails(t)
      BY <2>1, <2>3 DEF WriteAppend, WriteNoWal, WriteRemove, WriteApply, WriteAppendFails
    <2>4. CASE Get(t)
      BY <2>1, <2>4 DEF GetActive, GetBelow, GetReturn
    <2>5. CASE Flush(t) \/ RotFails(t)
      BY <2>1, <2>5 DEF Flush, WaitOk, WaitErr, FlushCheck, FlushReturn, SchedSkip, SchedSwap,
                        AfterSchedule, MarkInFlight, SendJob, AfterWait, RotLock, RotRemove,
                        RotRemoveLost, RotRename, RotCreate, RotHeader, RotFails
    <2> QED  BY <1>1, <2>2, <2>3, <2>4, <2>5 DEF Thread
  <1>5. pc'[t] \in Keyed => op'[t].key \in Keys
    <2>1. pc[t] \in Keyed => op[t].key \in Keys
      BY <1>1 DEF InvLocks
    <2>2. CASE Begin(t)
      <3>1. CASE GetBegin(t)
        <4>1. PICK k \in Keys :
                 op' = [op EXCEPT ![t].key = k, ![t].floor[k] = Lookup(k),
                                  ![t].under = LookupBelow(k)]
          BY <3>1 DEF GetBegin
        <4>2. op'[t].key = k
          BY <4>1 DEF Ops
        <4> QED  BY <4>2
      <3>2. CASE WriteBegin(t) \/ FlushBegin(t) \/ ScheduleBegin(t) \/ WaitBegin(t)
        BY <3>2 DEF WriteBegin, FlushBegin, ScheduleBegin, WaitBegin, Keyed
      <3> QED  BY <2>2, <3>1, <3>2 DEF Begin
    <2>3. CASE WriteAppend(t)
      BY <2>3 DEF WriteAppend, Ops
    <2>4. CASE WriteNoWal(t) \/ WriteRemove(t) \/ WriteApply(t) \/ WriteAppendFails(t)
      BY <2>1, <2>4 DEF WriteNoWal, WriteRemove, WriteApply, WriteAppendFails, Keyed
    <2>5. CASE GetActive(t)
      <3>1. \/ op' = [op EXCEPT ![t].met = Hidden]
            \/ op' = [op EXCEPT ![t].cell = active[op[t].key]]
        BY <2>5 DEF GetActive
      <3>2. op'[t].key = op[t].key
        BY <3>1 DEF Ops
      <3> QED  BY <2>1, <2>5, <3>2 DEF GetActive, Keyed
    <2>6. CASE GetBelow(t)
      BY <2>1, <2>6 DEF GetBelow, Ops, Keyed
    <2>7. CASE GetReturn(t)
      BY <2>7 DEF GetReturn, Keyed
    <2>8. CASE Flush(t) \/ RotFails(t)
      <3>1. CASE Scheduling(t) \/ SchedSwap(t) \/ SendJob(t)
        BY <3>1 DEF Scheduling, WaitOk, WaitErr, FlushCheck, FlushReturn, SchedSkip, SchedSwap,
                    AfterSchedule, MarkInFlight, SendJob, AfterWait, Keyed
      <3>2. CASE Rotation(t)
        BY <3>2 DEF Rotation, RotLock, RotRemove, RotRemoveLost, RotRename, RotCreate, RotHeader,
                    RotFails, Keyed
      <3> QED  BY <2>8, <3>1, <3>2, FlushGroups
    <2> QED  BY <1>1, <2>2, <2>3, <2>4, <2>5, <2>6, <2>7, <2>8 DEF Thread
  <1> QED  BY <1>1, <1>3, <1>4, <1>5, ThreadFrame DEF InvLocks

\* InvLocks is kept by every step.
LEMMA LocksStep == ASSUME IInv, Next PROVE InvLocks'
  <1>1. TypeOK /\ InvLocks
    BY DEF IInv
  <1>2. CASE \E t \in Threads : Thread(t)
    BY <1>2, LocksOfThread
  <1>3. CASE Worker \/ WorkerFails
    BY <1>1, <1>3 DEF InvLocks, Worker, WorkerFails, WorkerRecv, WorkerWrite, WorkerInstall,
       WorkerUnlinkCheck, WorkerUnlink, WorkerUnlinkLost, WorkerReport, threads, locks
  <1>4. CASE CloseBegin \/ Recovery \/ OpenRefused
    BY <1>1, <1>4 DEF InvLocks, Recovery, CloseBegin, OpenReplay, DropWal, DropFlushWal, CreateWal,
       WriteHeader, Checkpoint, CheckpointDone, Spawn, OpenRefused, threads, locks
  <1>5. CASE CloseEnd \/ Crash
    BY <1>5, ResetFacts DEF Reset, InvLocks, Keyed, Applying, Rotating
  <1> QED  BY <1>2, <1>3, <1>4, <1>5 DEF Next
-------------------------------------------------------------------------------
(***************************************************************************)
(* What is at rest while the process does not serve, and the WAL slot.     *)
(***************************************************************************)
\* InvQuiet is kept by every step.
LEMMA QuietStep == ASSUME IInv, Next PROVE InvQuiet'
  <1>1. TypeOK /\ InvLocks /\ InvQuiet
    BY DEF IInv
  <1> USE DEF Serving, Loaded
  <1>2. ASSUME NEW t \in Threads, Thread(t) PROVE InvQuiet'
    <2>1. mode = "up" /\ mode' = "up"
      BY <1>1, <1>2, ThreadFrame
    <2>2. ~frozen'.some => frozen'.tab = EmptyTable
      <3>1. SchedSwap(t) \/ UNCHANGED frozen
        BY <1>2, FlushGroups
        DEF Thread, Begin, WriteBegin, GetBegin, FlushBegin, ScheduleBegin, WaitBegin,
            Write, WriteAppend, WriteNoWal, WriteRemove, WriteApply, WriteAppendFails,
            Get, GetActive, GetBelow, GetReturn,
            Scheduling, WaitOk, WaitErr, FlushCheck, FlushReturn, SchedSkip, MarkInFlight,
            SendJob, Rotation, RotLock, RotRemove, RotRemoveLost, RotRename, RotCreate,
            RotHeader, RotFails, snap
      <3> QED  BY <1>1, <3>1 DEF SchedSwap, InvQuiet
    <2> QED  BY <2>1, <2>2 DEF InvQuiet
  <1>3. CASE Worker \/ WorkerFails
    <2>1. /\ Serving /\ UNCHANGED <<mode, threads>>
          /\ UNCHANGED frozen \/ frozen' = NoFrozen
      BY <1>3 DEF Worker, WorkerFails, WorkerRecv, WorkerWrite, WorkerInstall, WorkerUnlinkCheck,
         WorkerUnlink, WorkerUnlinkLost, WorkerReport, WorkerAt, snap
    <2> QED  BY <1>1, <2>1 DEF InvQuiet, threads, NoFrozen
  <1>4. CASE Recovery \/ CloseBegin \/ OpenRefused
    <2>1. /\ UNCHANGED <<frozen, jobs, threads>>
          /\ mode = "up" => mode' = "closing" /\ UNCHANGED <<active, sstables, worker>>
                            /\ \A t \in Threads : pc[t] = "idle"
          /\ mode # "up" => ~Serving
          /\ ~Serving' => UNCHANGED worker
          /\ ~Loaded' => ~Loaded /\ UNCHANGED <<active, sstables>>
      BY <1>4 DEF Recovery, CloseBegin, OpenReplay, DropWal, DropFlushWal, CreateWal, WriteHeader,
         Checkpoint, CheckpointDone, Spawn, OpenRefused, snap, ctl
    <2> QED  BY <1>1, <2>1 DEF InvQuiet, threads
  <1>5. CASE Reset
    BY <1>5, ResetFacts DEF InvQuiet, NoFrozen, Stopped, Idle
  <1> QED  BY <1>2, <1>3, <1>4, <1>5 DEF Next, Reset

\* A missing log has no records.
LEMMA NoRecords == Records(NoWal) = EmptyTable
  <1>1. \A k \in Keys : Replay(EmptyTable, EmptyTable)[k] = EmptyTable[k]
    BY DEF Replay, EmptyTable
  <1> QED  BY <1>1 DEF Records, NoWal, Replay, EmptyTable

\* InvSlot is kept by every step.
LEMMA SlotStep == ASSUME IInv, Next PROVE InvSlot'
  <1>1. TypeOK /\ InvLocks /\ InvQuiet /\ InvSlot
    BY DEF IInv
  <1>2. Exists(BlankWal) /\ Exists(NewWal) /\ ~Exists(NoWal)
    BY DEF Exists, BlankWal, NewWal, NoWal
  <1>3. ASSUME NEW t \in Threads, Thread(t) PROVE InvSlot'
    <2>1. /\ mode = "up" /\ mode' = "up"
          /\ pc \in [Threads -> ThreadPcs] /\ pc[t] \in ThreadPcs
          /\ \A u \in Threads : u # t => pc'[u] = pc[u]
      BY <1>1, <1>3, ThreadFrame, ThreadTypes
    <2>2. CASE Begin(t) \/ Get(t) \/ Scheduling(t) \/ SchedSwap(t) \/ SendJob(t)
               \/ WriteNoWal(t) \/ WriteRemove(t) \/ WriteApply(t)
      <3>1. UNCHANGED <<wal, flushWal, walOpen>>
        BY <2>2 DEF Begin, WriteBegin, GetBegin, FlushBegin, ScheduleBegin, WaitBegin,
           Get, GetActive, GetBelow, GetReturn, Scheduling, WaitOk, WaitErr, FlushCheck,
           FlushReturn, SchedSkip, MarkInFlight, SchedSwap, SendJob, WriteNoWal, WriteRemove, WriteApply,
           files, locks
      <3>2. ASSUME Begin(t) \/ Get(t) PROVE pc'[t] \notin Rotating
        BY <2>1, <3>2
        DEF Begin, WriteBegin, GetBegin, FlushBegin, ScheduleBegin, WaitBegin,
            Get, GetActive, GetBelow, GetReturn, Rotating, Goto, Return
      <3>3. ASSUME Scheduling(t) PROVE pc'[t] \notin Rotating
        BY <2>1, <3>3
        DEF Scheduling, WaitOk, WaitErr, FlushCheck, FlushReturn, SchedSkip, MarkInFlight,
            AfterSchedule, AfterWait, Waiting, Rotating, Goto, Return
      <3>4. ASSUME SchedSwap(t) \/ SendJob(t) \/ WriteNoWal(t) \/ WriteRemove(t) \/ WriteApply(t)
            PROVE  pc'[t] \notin Rotating
        BY <2>1, <3>4 DEF SchedSwap, SendJob, WriteNoWal, WriteRemove, WriteApply,
           AfterSchedule, Rotating, Goto, Return
      <3>5. pc'[t] \notin Rotating
        BY <2>2, <3>2, <3>3, <3>4
      <3> QED  BY <1>1, <2>1, <3>1, <3>5 DEF InvSlot, Exists
    <2>3. CASE WriteAppend(t) \/ WriteAppendFails(t)
      <3>1. walOpen /\ Exists(wal) /\ wal'.st = wal.st /\ UNCHANGED <<flushWal, walOpen>>
        BY <1>1, <2>3 DEF WriteAppend, WriteAppendFails, AppendWal, InvSlot, TypeOK, Wals, locks
      <3>2. pc'[t] \notin Rotating
        BY <2>1, <2>3 DEF WriteAppend, WriteAppendFails, Rotating, Goto, Return
      <3> QED  BY <1>1, <2>1, <3>1, <3>2 DEF InvSlot, Exists
    <2>4. CASE RotLock(t)
      BY <1>1, <2>1, <2>4 DEF RotLock, InvSlot, Exists, files
    <2>5. CASE RotRemove(t) \/ RotRename(t) \/ RotCreate(t)
      <3>1. UNCHANGED walOpen /\ ~walOpen
        BY <1>1, <2>5 DEF RotRemove, RotRename, RotCreate, InvSlot, At, Rotating, locks
      <3>2. (Exists(flushWal') \/ flushWal' = NoWal) /\ (Exists(wal') \/ wal' = NoWal)
        BY <1>1, <1>2, <2>5 DEF RotRemove, RotRename, RotCreate, InvSlot, Exists
      <3> QED  BY <2>1, <3>1, <3>2 DEF InvSlot, Exists
    <2>6. CASE RotHeader(t)
      <3>1. \A u \in Threads : pc'[u] \notin Rotating
        BY <1>1, <2>1, <2>6 DEF RotHeader, InvLocks, At, Goto, Rotating
      <3> QED  BY <1>1, <1>2, <2>1, <2>6, <3>1 DEF RotHeader, InvSlot, Exists
    <2>7. CASE RotRemoveLost(t) \/ RotFails(t)
      <3>1. UNCHANGED <<wal, flushWal, walOpen>> /\ pc'[t] \notin Rotating
        BY <2>1, <2>7 DEF RotRemoveLost, RotFails, Return, Goto, Rotating, files
      <3> QED  BY <1>1, <2>1, <3>1 DEF InvSlot, Exists
    <2> QED  BY <1>3, <2>2, <2>3, <2>4, <2>5, <2>6, <2>7, FlushGroups
             DEF Thread, Write, Rotation
  <1>4. CASE Worker \/ WorkerFails
    <2>1. /\ UNCHANGED <<wal, walOpen, mode, pc>>
          /\ UNCHANGED flushWal \/ flushWal' = NoWal
      BY <1>4 DEF Worker, WorkerFails, WorkerRecv, WorkerWrite, WorkerInstall, WorkerUnlinkCheck,
         WorkerUnlink, WorkerUnlinkLost, WorkerReport, files, locks, threads
    <2> QED  BY <1>1, <2>1 DEF InvSlot, Exists
  <1>5. CASE CloseBegin \/ OpenRefused \/ CheckpointDone \/ Spawn
    <2>1. /\ UNCHANGED <<wal, flushWal, walOpen, pc>>
          /\ mode' \notin {"drop_wal", "checkpoint"}
          /\ mode' = "spawn" => mode \in {"checkpoint", "spawn"}
      BY <1>5 DEF CloseBegin, OpenRefused, CheckpointDone, Spawn, files, locks, threads
    <2> QED  BY <1>1, <2>1 DEF InvSlot, Exists
  <1>6. CASE OpenReplay
    <2>1. UNCHANGED <<flushWal, pc>> /\ mode = "down" /\ mode' # "checkpoint"
      BY <1>6 DEF OpenReplay, threads
    <2>2. wal'.st = wal.st /\ walOpen' = (Exists(wal) /\ ~Exists(flushWal))
          /\ (mode' = "drop_wal" => Exists(flushWal))
          /\ (mode' = "spawn" => walOpen')
      BY <1>1, <1>6 DEF OpenReplay, TypeOK, Wals
    <2>3. ~Exists(wal) => wal' = NoWal
      <3>1. CASE Exists(flushWal)
        BY <1>1, <1>6, <3>1 DEF OpenReplay, InvSlot
      <3>2. CASE ~Exists(flushWal) /\ ~Exists(wal)
        <4>1. wal = NoWal /\ wal' = [wal EXCEPT !.log = Records(wal), !.tail = EmptyTable]
          BY <1>1, <1>6, <3>2 DEF OpenReplay, InvSlot
        <4>2. wal' = [NoWal EXCEPT !.log = EmptyTable, !.tail = EmptyTable]
          BY <4>1, NoRecords
        <4> QED  BY <4>2 DEF NoWal
      <3> QED  BY <3>1, <3>2
    <2>4. \A t \in Threads : pc'[t] \notin Rotating
      BY <1>1, <2>1 DEF InvQuiet, Rotating
    <2> QED  BY <1>1, <2>1, <2>2, <2>3, <2>4 DEF InvSlot, Exists
  <1>7. CASE DropWal \/ DropFlushWal \/ CreateWal
    <2>1. /\ mode # "up" /\ UNCHANGED <<walOpen, pc>>
          /\ mode' \notin {"drop_wal", "checkpoint", "spawn"}
      BY <1>7 DEF DropWal, DropFlushWal, CreateWal, locks, threads
    <2>2. /\ Exists(flushWal') \/ flushWal' = NoWal
          /\ Exists(wal') \/ wal' = NoWal
          /\ walOpen => Exists(wal')
      BY <1>1, <1>2, <1>7 DEF DropWal, DropFlushWal, CreateWal, InvSlot, Exists
    <2> QED  BY <1>1, <2>1, <2>2 DEF InvSlot, InvQuiet, Rotating, Exists
  <1>8. CASE WriteHeader \/ Checkpoint
    <2>1. (mode # "up") /\ UNCHANGED <<pc, flushWal>> /\ mode' # "drop_wal"
      BY <1>8 DEF WriteHeader, Checkpoint, threads
    <2>2. walOpen' /\ Exists(wal')
      BY <1>1, <1>2, <1>8 DEF WriteHeader, Checkpoint, AppendWal, InvSlot, Exists, TypeOK, Wals, locks
    <2> QED  BY <1>1, <2>1, <2>2 DEF InvSlot, InvQuiet, Rotating, Exists
  <1>9. CASE Reset
    BY <1>1, <1>9, ResetFacts DEF InvSlot, Rotating, Exists, files
  <1> QED  BY <1>3, <1>4, <1>5, <1>6, <1>7, <1>8, <1>9 DEF Next, Reset, Recovery
-------------------------------------------------------------------------------
(***************************************************************************)
(* Shadows and AllBelow under the operations of a table.                   *)
(***************************************************************************)
\* Shadows, told by numbers.
LEMMA ShadowsSeq ==
    ASSUME NEW n \in Tables, NEW o \in Tables
    PROVE  Shadows(n, o) <=> \A k \in Keys : n[k].seq > 0 => n[k].seq >= o[k].seq
  <1>1. \A k \in Keys : IsHit(n[k]) <=> n[k].seq > 0
    BY TableFacts, CellFacts
  <1> QED  BY <1>1 DEF Shadows

\* The empty table shadows and is shadowed by every table.
LEMMA ShadowsEmpty ==
    ASSUME NEW t \in Tables
    PROVE  Shadows(EmptyTable, t) /\ Shadows(t, EmptyTable) /\ Shadows(t, t)
  BY EmptyFacts, ShadowsSeq, TableFacts

\* A put on the upper table keeps it above, if the record is.
LEMMA ShadowsPut ==
    ASSUME NEW n \in Tables, NEW o \in Tables, NEW k \in Keys, NEW c \in Cells,
           Shadows(n, o), c.seq > 0 => c.seq >= o[k].seq
    PROVE  Shadows(MemPut(n, k, c), o)
  <1>1. MemPut(n, k, c) \in Tables
    BY MemPutType
  <1>2. \A j \in Keys : n[j].seq > 0 => n[j].seq >= o[j].seq
    BY ShadowsSeq
  <1>3. \A j \in Keys : MemPut(n, k, c)[j].seq > 0 => MemPut(n, k, c)[j].seq >= o[j].seq
    BY <1>2, MemPutAt
  <1> QED  BY <1>1, <1>3, ShadowsSeq

\* A put on the lower table keeps it below, if the upper one has the key.
LEMMA ShadowsRemove ==
    ASSUME NEW t \in Tables, NEW k
    PROVE  /\ \A old \in Tables : Shadows(t, old) => Shadows(MemRemove(t, k), old)
           /\ \A new \in Tables : Shadows(new, t) => Shadows(new, MemRemove(t, k))
  BY MemRemoveAt, TableFacts DEF Shadows, IsHit, Missing

LEMMA ShadowsOverPut ==
    ASSUME NEW n \in Tables, NEW o \in Tables, NEW k \in Keys, NEW c \in Cells,
           Shadows(n, o), n[k].seq > 0 => n[k].seq >= c.seq
    PROVE  Shadows(n, MemPut(o, k, c))
  <1>1. MemPut(o, k, c) \in Tables
    BY MemPutType
  <1>2. \A j \in Keys : n[j].seq > 0 => n[j].seq >= o[j].seq
    BY ShadowsSeq
  <1>3. \A j \in Keys : n[j].seq > 0 => n[j].seq >= MemPut(o, k, c)[j].seq
    BY <1>2, MemPutAt
  <1> QED  BY <1>1, <1>3, ShadowsSeq

\* Two tables that shadow a third also do when one is replayed on the other.
LEMMA ShadowsReplay ==
    ASSUME NEW a \in Tables, NEW b \in Tables, NEW o \in Tables,
           Shadows(a, o), Shadows(b, o)
    PROVE  Shadows(Replay(a, b), o)
  <1>1. \A j \in Keys : /\ a[j].seq > 0 => a[j].seq >= o[j].seq
                        /\ b[j].seq > 0 => b[j].seq >= o[j].seq
    BY ShadowsSeq
  <1>2. \A j \in Keys : Replay(a, b)[j] \in {a[j], b[j]}
    BY ReplayFacts
  <1> QED  BY <1>1, <1>2, ReplayFacts, ShadowsSeq

\* A table that shadows two shadows the replay of one on the other.
LEMMA ShadowsOverReplay ==
    ASSUME NEW a \in Tables, NEW b \in Tables, NEW n \in Tables,
           Shadows(n, a), Shadows(n, b)
    PROVE  Shadows(n, Replay(a, b))
  <1>1. \A j \in Keys : n[j].seq > 0 => n[j].seq >= a[j].seq /\ n[j].seq >= b[j].seq
    BY ShadowsSeq
  <1>2. \A j \in Keys : Replay(a, b)[j] \in {a[j], b[j]}
    BY ReplayFacts
  <1> QED  BY <1>1, <1>2, ReplayFacts, ShadowsSeq

\* A log shadows what its acknowledged records and its tail shadow.
LEMMA ShadowsRecords ==
    ASSUME NEW w \in Wals, NEW o \in Tables, Shadows(w.log, o), Shadows(w.tail, o)
    PROVE  Shadows(Records(w), o)
  BY RecordsType, ShadowsReplay DEF Records

\* The empty table is below every counter.
LEMMA BelowEmpty == ASSUME NEW n \in Nat \ {0} PROVE AllBelow(EmptyTable, n)
  <1> SUFFICES ASSUME NEW k \in Keys PROVE EmptyTable[k].seq < n
    BY DEF AllBelow
  <1>1. EmptyTable[k].seq = 0
    BY EmptyFacts
  <1> QED  BY <1>1

\* A put below a counter keeps the table below it.
LEMMA BelowPut ==
    ASSUME NEW t \in Tables, NEW k \in Keys, NEW c \in Cells, NEW n \in Nat,
           AllBelow(t, n), c.seq < n
    PROVE  AllBelow(MemPut(t, k, c), n)
  <1> SUFFICES ASSUME NEW j \in Keys PROVE MemPut(t, k, c)[j].seq < n
    BY DEF AllBelow
  <1>1. MemPut(t, k, c)[j] = c \/ MemPut(t, k, c)[j] = t[j]
    BY MemPutAt
  <1> QED  BY <1>1 DEF AllBelow

\* So does removing an entry.
LEMMA BelowRemove ==
    ASSUME NEW t \in Tables, NEW k, NEW n \in Nat \ {0}, AllBelow(t, n)
    PROVE  AllBelow(MemRemove(t, k), n)
  <1> SUFFICES ASSUME NEW j \in Keys PROVE MemRemove(t, k)[j].seq < n
    BY DEF AllBelow
  <1>1. MemRemove(t, k)[j] = Missing \/ MemRemove(t, k)[j] = t[j]
    BY DEF MemRemove, Tables
  <1> QED  BY <1>1 DEF AllBelow, Missing

\* Replaying keeps tables below a counter.
LEMMA BelowReplay ==
    ASSUME NEW a \in Tables, NEW b \in Tables, NEW n \in Nat, AllBelow(a, n), AllBelow(b, n)
    PROVE  AllBelow(Replay(a, b), n)
  <1>1. \A j \in Keys : Replay(a, b)[j] \in {a[j], b[j]}
    BY ReplayFacts
  <1> QED  BY <1>1 DEF AllBelow

\* A counter that grows stays above.
LEMMA BelowMore ==
    ASSUME NEW t \in Tables, NEW n \in Nat, AllBelow(t, n)
    PROVE  AllBelow(t, n + 1)
  <1> SUFFICES ASSUME NEW k \in Keys PROVE t[k].seq < n + 1
    BY DEF AllBelow
  <1>1. t[k].seq < n /\ t[k].seq \in Nat
    BY TableFacts DEF AllBelow
  <1> QED  BY <1>1
-------------------------------------------------------------------------------
(***************************************************************************)
(* The order of the layers.                                                *)
(***************************************************************************)
\* The types of the layers.
LEMMA LayerTypes ==
    ASSUME TypeOK
    PROVE  /\ active \in Tables /\ frozen.tab \in Tables /\ wal.log \in Tables /\ wal.tail \in Tables
           /\ Records(wal) \in Tables /\ Records(flushWal) \in Tables
           /\ \A s \in sstFiles : s \in SSTs /\ s.tab \in Tables /\ s.id \in Nat
           /\ worker.job \in SSTs /\ worker.job.tab \in Tables /\ worker.job.id \in Nat
           /\ nextSeq \in Nat \ {0} /\ nextSst \in Nat \ {0}
  BY RecordsType DEF TypeOK, Wals, Frozen, SSTs

\* The file of the pending job is new: its rename replaces nothing.
LEMMA PublishAdds ==
    ASSUME IInv, WorkerWrite
    PROVE  /\ sstFiles' = sstFiles \cup {worker.job}
           /\ frozen.some /\ worker.job.tab = frozen.tab /\ worker.job.id < nextSst
           /\ \A s \in sstFiles : s.id < worker.job.id
  <1>1. TypeOK /\ InvOwner /\ worker.pc = "write"
    BY DEF IInv, WorkerWrite, WorkerAt
  <1>2. OwnedJob(worker.job) /\ Unpublished(worker.job)
    BY <1>1 DEF InvOwner, WorkerOwns
  <1>3. \A s \in sstFiles : s.id # worker.job.id
    BY <1>1, <1>2, LayerTypes DEF Unpublished
  <1> QED  BY <1>2, <1>3 DEF WorkerWrite, OwnedJob, Unpublished

\* InvLayers is kept by every step.
LEMMA LayersStep == ASSUME IInv, Next PROVE InvLayers'
  <1>1. TypeOK /\ TypeOK' /\ InvLayers /\ InvInWrite /\ InvOwner
    BY TypeStep DEF IInv
  <1> USE LayerTypes
  <1>2. CASE \/ SameData \/ RewriteWal \/ WorkerUnlink
             \/ \E t \in Threads : WriteAppend(t) \/ WriteAppendFails(t) \/ RotateData(t)
    <2>1. UNCHANGED <<active, frozen, sstables, sstFiles, nextSst>> /\ (Loaded' => Loaded)
      BY <1>2 DEF SameData, RewriteWal, DropWal, DropFlushWal, CreateWal, WriteHeader, Checkpoint,
         WorkerUnlink, WriteAppend, WriteAppendFails, RotateData, RotRemove, RotRename, RotCreate,
         RotHeader, At, files, snap, ctl, Loaded
    <2> QED  BY <1>1, <2>1 DEF InvLayers
  <1>9. ASSUME NEW t \in Threads, WriteRemove(t) PROVE InvLayers'
    <2>1. /\ active' = MemRemove(active, op[t].key)
          /\ UNCHANGED <<frozen, sstables, sstFiles, nextSst>> /\ (Loaded' <=> Loaded)
      BY <1>9 DEF WriteRemove, files, ctl, Loaded
    <2>2. Shadows(active, frozen.tab) /\ \A s \in sstFiles : Shadows(active, s.tab)
      BY <1>1 DEF InvLayers
    <2>3. Shadows(active', frozen.tab) /\ \A s \in sstFiles : Shadows(active', s.tab)
      BY <1>1, <2>1, <2>2, ShadowsRemove
    <2> QED  BY <1>1, <2>1, <2>3 DEF InvLayers
  <1>3. ASSUME NEW t \in Threads, WriteApply(t) PROVE InvLayers'
    <2> DEFINE k == op[t].key  c == op[t].cell
    <2>1. /\ k \in Keys /\ c \in Cells /\ active' = MemPut(active, k, c)
          /\ frozen.tab[k].seq <= c.seq /\ \A s \in sstFiles : s.tab[k].seq <= c.seq
      BY <1>1, <1>3, ThreadTypes DEF WriteApply, InvInWrite
    <2>2. UNCHANGED <<frozen, sstables, sstFiles, nextSst>> /\ (Loaded' <=> Loaded)
      BY <1>3 DEF WriteApply, files, ctl, Loaded
    <2>3. Shadows(active, frozen.tab) /\ \A s \in sstFiles : Shadows(active, s.tab)
      BY <1>1 DEF InvLayers
    <2> HIDE DEF k, c
    <2>4. c.seq \in Nat /\ frozen.tab[k].seq \in Nat /\ \A s \in sstFiles : s.tab[k].seq \in Nat
      BY <1>1, <2>1, CellFacts, TableFacts
    <2>5. Shadows(active', frozen.tab)
      BY <1>1, <2>1, <2>3, <2>4, ShadowsPut
    <2>6. \A s \in sstFiles : Shadows(active', s.tab)
      BY <1>1, <2>1, <2>3, <2>4, ShadowsPut
    <2> QED  BY <1>1, <2>2, <2>5, <2>6 DEF InvLayers
  <1>4. ASSUME NEW t \in Threads, SchedSwap(t) PROVE InvLayers'
    <2>1. /\ active' = EmptyTable /\ frozen'.tab = active /\ nextSst' = nextSst + 1
          /\ UNCHANGED <<sstables, sstFiles>> /\ (Loaded' <=> Loaded)
      BY <1>4 DEF SchedSwap, files, Loaded
    <2>2. Shadows(active', frozen'.tab) /\ \A s \in sstFiles : Shadows(active', s.tab)
      BY <1>1, <2>1, ShadowsEmpty
    <2> QED  BY <1>1, <2>1, <2>2 DEF InvLayers
  <1>5. CASE WorkerWrite
    <2>1. /\ sstFiles' = sstFiles \cup {worker.job}
          /\ worker.job.tab = frozen.tab /\ worker.job.id < nextSst
          /\ \A s \in sstFiles : s.id < worker.job.id
      BY <1>5, PublishAdds
    <2>2. UNCHANGED <<active, frozen, sstables, nextSst>> /\ (Loaded' <=> Loaded)
      BY <1>5 DEF WorkerWrite, snap, ctl, Loaded
    <2>3. Shadows(frozen.tab, frozen.tab)
      BY <1>1, ShadowsEmpty
    <2>4. \A s, u \in sstFiles' : s.id < u.id => Shadows(u.tab, s.tab)
      BY <1>1, <2>1 DEF InvLayers
    <2> QED  BY <1>1, <2>1, <2>2, <2>3, <2>4 DEF InvLayers
  <1>6. CASE WorkerInstall
    <2>1. /\ worker.job \in sstFiles
          /\ \A i \in 1..Len(sstables) : sstables[i].id < worker.job.id
      BY <1>1, <1>6 DEF WorkerInstall, WorkerAt, InvOwner
    <2>2. /\ sstables' = Append(sstables, worker.job) /\ frozen'.tab = EmptyTable
          /\ UNCHANGED <<active, sstFiles, nextSst>> /\ (Loaded' <=> Loaded)
      BY <1>6 DEF WorkerInstall, NoFrozen, files, ctl, Loaded
    <2>3. /\ Len(sstables') = Len(sstables) + 1 /\ Len(sstables) \in Nat
          /\ \A i \in 1..Len(sstables) : sstables'[i] = sstables[i]
          /\ sstables'[Len(sstables) + 1] = worker.job
      BY <1>1, <2>2 DEF TypeOK
    <2>4. \A i, j \in 1..Len(sstables') : i < j => sstables'[i].id < sstables'[j].id
      <3> SUFFICES ASSUME NEW i \in 1..Len(sstables'), NEW j \in 1..Len(sstables'), i < j
                   PROVE  sstables'[i].id < sstables'[j].id
        OBVIOUS
      <3>1. i \in 1..Len(sstables)
        BY <2>3
      <3>2. CASE j \in 1..Len(sstables)
        BY <1>1, <2>3, <3>1, <3>2 DEF InvLayers
      <3>3. CASE j = Len(sstables) + 1
        BY <2>1, <2>3, <3>1, <3>3
      <3> QED  BY <2>3, <3>2, <3>3
    <2>5. \A i \in 1..Len(sstables') : sstables'[i] \in sstFiles
      BY <1>1, <2>1, <2>3 DEF InvLayers
    <2>6. /\ Shadows(active, EmptyTable)
          /\ \A s \in sstFiles : Shadows(EmptyTable, s.tab)
      BY <1>1, ShadowsEmpty
    <2> QED  BY <1>1, <2>2, <2>4, <2>5, <2>6 DEF InvLayers
  <1>7. CASE Reset
    <2>1. /\ active' = EmptyTable /\ frozen'.tab = EmptyTable /\ Len(sstables') = 0 /\ ~Loaded'
          /\ UNCHANGED sstFiles
      BY <1>7, ResetFacts DEF NoFrozen, Loaded, files
    <2>2. \A s \in sstFiles : Shadows(EmptyTable, s.tab)
      BY <1>1, ShadowsEmpty
    <2> QED  BY <1>1, <2>1, <2>2, EmptyFacts, ShadowsEmpty DEF InvLayers
  <1>8. CASE OpenReplay
    <2>1. PICK s \in [1..Cardinality(sstFiles) -> sstFiles] : Listed(s) /\ sstables' = s
      BY <1>8 DEF OpenReplay
    <2>2. Cardinality(sstFiles) \in Nat
      BY <1>1, FS_CardinalityType DEF TypeOK
    <2>3. /\ Len(sstables') = Cardinality(sstFiles)
          /\ \A i \in 1..Len(sstables') : sstables'[i] \in sstFiles
          /\ \A i, j \in 1..Len(sstables') : i < j => sstables'[i].id < sstables'[j].id
      BY <2>1, <2>2 DEF Listed
    <2>4. PICK id \in {0} \cup {u.id : u \in sstFiles} :
             Greatest(id, {0} \cup {u.id : u \in sstFiles}) /\ nextSst' = IdAfter(id)
      BY <1>8 DEF OpenReplay
    <2>5. \A u \in sstFiles : u.id < nextSst'
      <3> SUFFICES ASSUME NEW u \in sstFiles PROVE u.id < nextSst'
        OBVIOUS
      <3>1. id \in Nat /\ u.id \in Nat
        BY <1>1
      <3>2. u.id <= id /\ nextSst' = id + 1
        BY <2>4 DEF Greatest, IdAfter
      <3> QED  BY <3>1, <3>2
    <2>6. /\ active' = Recovered /\ UNCHANGED <<frozen, sstFiles>> /\ frozen.tab = EmptyTable
          /\ mode = "down"
      BY <1>8 DEF OpenReplay, IInv, InvQuiet, NoFrozen, Serving
    <2>7. \A u \in sstFiles : Shadows(Recovered, u.tab)
      <3> SUFFICES ASSUME NEW u \in sstFiles PROVE Shadows(Recovered, u.tab)
        OBVIOUS
      <3>1. Shadows(Records(wal), u.tab)
        BY <1>1, ShadowsRecords DEF IInv, InvWal, Newest, TypeOK
      <3>2. Shadows(Records(flushWal), u.tab)
        BY DEF IInv, InvFlushWal
      <3> QED  BY <1>1, <3>1, <3>2, ShadowsReplay DEF Recovered
    <2>8. Shadows(active', EmptyTable) /\ active' \in Tables
      BY <1>1, ShadowsEmpty DEF TypeOK
    <2> QED  BY <1>1, <2>3, <2>5, <2>6, <2>7, <2>8 DEF InvLayers
  <1> QED  BY <1>2, <1>3, <1>4, <1>5, <1>6, <1>7, <1>8, <1>9, DataFrame
           DEF DataStep, WriteData, WorkerData
-------------------------------------------------------------------------------
(***************************************************************************)
(* The one owner of the frozen table.                                      *)
(***************************************************************************)

\* A thread's step leaves the frozen table with one owner.
LEMMA OwnerOfThread ==
    ASSUME IInv, NEW t \in Threads, Thread(t)
    PROVE  InvOwner'
  <1>1. TypeOK /\ InvLocks /\ InvOwner /\ InvLayers
    BY DEF IInv
  <1>2. /\ mode = "up" /\ mode' = "up"
        /\ \A u \in Threads : u # t => pc'[u] = pc[u] /\ op'[u] = op[u]
        /\ pc \in [Threads -> ThreadPcs] /\ pc[t] \in ThreadPcs /\ op \in [Threads -> Ops]
        /\ op[t] \in Ops
    BY <1>1, ThreadFrame, ThreadTypes
  <1> USE DEF Owning, Rotating, At, Goto, Return
  <1>3. CASE \/ Begin(t) \/ Write(t) \/ WriteAppendFails(t) \/ Get(t) \/ Rotation(t) \/ Scheduling(t)
    <2>1. UNCHANGED <<frozen, nextSst, sstFiles, sstables, jobs, worker>>
      BY <1>3 DEF Begin, WriteBegin, GetBegin, FlushBegin, ScheduleBegin, WaitBegin,
         Write, WriteAppend, WriteNoWal, WriteRemove, WriteApply, WriteAppendFails, Get, GetActive, GetBelow,
         GetReturn, Scheduling, WaitOk, WaitErr, FlushCheck, FlushReturn, SchedSkip, MarkInFlight,
         Rotation, RotLock, RotRemove, RotRemoveLost, RotRename, RotCreate, RotHeader, RotFails,
         files, snap, ctl
    <2>2. pc'[t] \in Owning => pc[t] \in Owning /\ op'[t] = op[t]
      <3>1. CASE Begin(t) \/ Write(t) \/ WriteAppendFails(t) \/ Get(t)
        BY <1>2, <3>1 DEF Begin, WriteBegin, GetBegin, FlushBegin, ScheduleBegin, WaitBegin,
           Write, WriteAppend, WriteNoWal, WriteRemove, WriteApply, WriteAppendFails, Get, GetActive, GetBelow,
           GetReturn
      <3>2. CASE Scheduling(t)
        BY <1>2, <3>2 DEF Scheduling, WaitOk, WaitErr, FlushCheck, FlushReturn, SchedSkip,
           MarkInFlight, AfterSchedule, AfterWait, Waiting
      <3>3. CASE Rotation(t)
        BY <1>2, <3>3 DEF Rotation, RotLock, RotRemove, RotRemoveLost, RotRename, RotCreate,
           RotHeader, RotFails
      <3> QED  BY <1>3, <3>1, <3>2, <3>3
    <2>3. \A u \in Threads : pc'[u] \in Owning => pc[u] \in Owning /\ op'[u] = op[u]
      BY <1>2, <2>2
    <2> QED  BY <1>1, <2>1, <2>3 DEF InvOwner, OwnedJob, Unpublished, WorkerOwns
  <1>4. CASE SchedSwap(t)
    <2>1. /\ \A u \in Threads : pc[u] \notin Owning
          /\ jobs = <<>> /\ ~WorkerOwns
      BY <1>1, <1>4 DEF SchedSwap, NothingToSwap, InvOwner, OwnedJob
    <2>2. /\ frozen'.some /\ frozen'.tab = active /\ nextSst' = nextSst + 1
          /\ UNCHANGED <<sstFiles, sstables, jobs, worker>>
      BY <1>4 DEF SchedSwap, files
    <2>3. op'[t].job.id = nextSst /\ op'[t].job.tab = active
      BY <1>2, <1>4 DEF SchedSwap, Ops
    <2>4. \A s \in sstFiles : s.id < nextSst
      BY <1>1, <1>2 DEF InvLayers, Loaded
    <2>5. nextSst < nextSst'
      BY <1>1, <2>2 DEF TypeOK
    <2>6. \A u \in Threads : pc'[u] \in Owning => u = t
      BY <1>2, <2>1
    <2> QED  BY <2>1, <2>2, <2>3, <2>4, <2>5, <2>6 DEF InvOwner, OwnedJob, Unpublished, WorkerOwns
  <1>5. CASE SendJob(t)
    <2>1. /\ OwnedJob(op[t].job) /\ Unpublished(op[t].job) /\ jobs = <<>> /\ ~WorkerOwns
          /\ \A u \in Threads : pc[u] \in Owning => u = t
      BY <1>1, <1>5 DEF SendJob, InvOwner
    <2>2. jobs' = <<op[t].job>> /\ UNCHANGED <<frozen, nextSst, sstFiles, sstables, worker>>
      BY <1>5, <2>1 DEF SendJob, files, snap
    <2>3. \A u \in Threads : pc'[u] \notin Owning
      BY <1>2, <1>5, <2>1 DEF SendJob, AfterSchedule
    <2>4. Len(jobs') = 1 /\ jobs'[1] = op[t].job
      BY <2>2
    <2> QED  BY <2>1, <2>2, <2>3, <2>4 DEF InvOwner, OwnedJob, Unpublished, WorkerOwns
  <1> QED  BY <1>3, <1>4, <1>5, FlushGroups DEF Thread

\* A step of the worker leaves the frozen table with one owner.
LEMMA OwnerOfWorker ==
    ASSUME IInv, Worker \/ WorkerFails
    PROVE  InvOwner'
  <1>1. TypeOK /\ InvOwner /\ InvLayers
    BY DEF IInv
  <1> USE DEF WorkerAt, WorkerOwns, files, snap, ctl, threads
  <1>2. CASE WorkerRecv
    <2>1. /\ Len(jobs) = 1 /\ OwnedJob(jobs[1]) /\ Unpublished(jobs[1])
          /\ \A t \in Threads : pc[t] \notin Owning
      BY <1>1, <1>2 DEF WorkerRecv, InvOwner
    <2>2. jobs' = <<>> /\ worker'.pc = "write" /\ worker'.job = jobs[1]
      BY <1>1, <1>2, <2>1 DEF WorkerRecv, TypeOK
    <2>3. UNCHANGED <<frozen, nextSst, sstFiles, sstables, pc>>
      BY <1>2 DEF WorkerRecv
    <2> QED  BY <2>1, <2>2, <2>3 DEF InvOwner, OwnedJob, Unpublished
  <1>3. CASE WorkerWrite
    <2>1. /\ sstFiles' = sstFiles \cup {worker.job}
          /\ OwnedJob(worker.job) /\ \A s \in sstFiles : s.id < worker.job.id
      BY <1>3, PublishAdds DEF OwnedJob
    <2>2. jobs = <<>> /\ \A t \in Threads : pc[t] \notin Owning
      BY <1>1, <1>3 DEF WorkerWrite, InvOwner
    <2>3. /\ worker'.pc = "install" /\ worker'.job = worker.job
          /\ UNCHANGED <<frozen, nextSst, sstables, jobs, pc>>
      BY <1>1, <1>3 DEF WorkerWrite, TypeOK
    <2>4. \A i \in 1..Len(sstables) : sstables[i] \in sstFiles
      BY <1>1 DEF InvLayers
    <2> QED  BY <2>1, <2>2, <2>3, <2>4 DEF InvOwner, OwnedJob
  <1>4. CASE WorkerInstall
    <2>1. jobs = <<>> /\ \A t \in Threads : pc[t] \notin Owning
      BY <1>1, <1>4 DEF WorkerInstall, InvOwner
    <2>2. jobs' = <<>> /\ (\A t \in Threads : pc'[t] \notin Owning) /\ ~WorkerOwns'
      BY <1>1, <1>4, <2>1 DEF WorkerInstall, TypeOK
    <2> QED  BY <2>2 DEF InvOwner
  <1>5. CASE WorkerFails \/ WorkerUnlinkCheck \/ WorkerUnlink \/ WorkerUnlinkLost \/ WorkerReport
    <2>1. worker'.pc \notin {"write", "install"}
      <3>1. CASE WorkerFails \/ WorkerUnlink \/ WorkerUnlinkLost
        BY <1>1, <3>1 DEF WorkerFails, WorkerUnlink, WorkerUnlinkLost, TypeOK
      <3>2. CASE WorkerUnlinkCheck
        BY <1>1, <3>2 DEF WorkerUnlinkCheck, TypeOK
      <3>3. CASE WorkerReport
        BY <3>3 DEF WorkerReport, Idle
      <3> QED  BY <1>5, <3>1, <3>2, <3>3
    <2>2. UNCHANGED <<frozen, nextSst, sstFiles, sstables, jobs, pc, op>>
      BY <1>5 DEF WorkerFails, WorkerUnlinkCheck, WorkerUnlink, WorkerUnlinkLost, WorkerReport
    <2> QED  BY <1>1, <2>1, <2>2 DEF InvOwner, OwnedJob, Unpublished
  <1> QED  BY <1>2, <1>3, <1>4, <1>5 DEF Worker

\* InvOwner is kept by every step.
LEMMA OwnerStep == ASSUME IInv, Next PROVE InvOwner'
  <1>1. InvQuiet /\ InvOwner
    BY DEF IInv
  <1>2. CASE \E t \in Threads : Thread(t)
    BY <1>2, OwnerOfThread
  <1>3. CASE Worker \/ WorkerFails
    BY <1>3, OwnerOfWorker
  <1>4. CASE CloseBegin
    BY <1>1, <1>4 DEF CloseBegin, InvOwner, OwnedJob, Unpublished, WorkerOwns,
       files, snap, ctl, threads
  <1>5. CASE Recovery \/ OpenRefused
    <2>1. /\ ~Serving /\ mode # "up" /\ UNCHANGED <<pc, jobs>>
          /\ UNCHANGED worker \/ worker' = Idle
      BY <1>5 DEF Recovery, OpenReplay, DropWal, DropFlushWal, CreateWal, WriteHeader,
         Checkpoint, CheckpointDone, Spawn, OpenRefused, ctl, threads, Serving
    <2>2. /\ \A t \in Threads : pc'[t] \notin Owning
          /\ jobs' = <<>> /\ ~WorkerOwns'
      BY <1>1, <2>1 DEF InvQuiet, Owning, Rotating, WorkerOwns, Idle
    <2> QED  BY <2>2 DEF InvOwner, WorkerOwns
  <1>6. CASE Reset
    <2>1. /\ \A t \in Threads : pc'[t] \notin Owning
          /\ jobs' = <<>> /\ ~WorkerOwns'
      BY <1>6, ResetFacts DEF Owning, Rotating, WorkerOwns, Stopped, Idle
    <2> QED  BY <2>1 DEF InvOwner, WorkerOwns
  <1> QED  BY <1>2, <1>3, <1>4, <1>5, <1>6 DEF Next, Reset

\* Of the steps of a thread only a rotation concerns the slot; one that ends early leaves
\* the frozen table, which it owned, to nobody.
LEMMA EmptySlotOfThread ==
    ASSUME IInv, NEW t \in Threads, Thread(t)
    PROVE  InvEmptySlot'
  <1>1. TypeOK /\ InvLocks /\ InvSlot /\ InvOwner /\ InvEmptySlot
    BY DEF IInv
  <1>2. /\ mode = "up" /\ mode' = "up"
        /\ \A u \in Threads : u # t => pc'[u] = pc[u]
        /\ pc \in [Threads -> ThreadPcs] /\ pc[t] \in ThreadPcs
    BY <1>1, ThreadFrame, ThreadTypes
  <1>3. walOpen \/ Abandoned \/ \E u \in Threads : pc[u] \in Rotating
    BY <1>1, <1>2 DEF InvEmptySlot, Serving
  <1> USE DEF At, Goto, Return, Rotating
  <1>4. CASE Begin(t) \/ Write(t) \/ WriteAppendFails(t) \/ Get(t) \/ Scheduling(t)
    <2>1. UNCHANGED <<walOpen, frozen, jobs, worker>>
      BY <1>4 DEF Begin, WriteBegin, GetBegin, FlushBegin, ScheduleBegin, WaitBegin,
         Write, WriteAppend, WriteNoWal, WriteRemove, WriteApply, WriteAppendFails, Get, GetActive,
         GetBelow, GetReturn, Scheduling, WaitOk, WaitErr, FlushCheck, FlushReturn, SchedSkip,
         MarkInFlight, snap, locks, ctl
    <2>2. pc[t] \notin Rotating /\ (pc'[t] \in Owning => pc[t] \in Owning)
      <3>1. CASE Begin(t) \/ Write(t) \/ WriteAppendFails(t) \/ Get(t)
        BY <1>2, <3>1 DEF Begin, WriteBegin, GetBegin, FlushBegin, ScheduleBegin, WaitBegin,
           Write, WriteAppend, WriteNoWal, WriteRemove, WriteApply, WriteAppendFails, Get,
           GetActive, GetBelow, GetReturn, Applying, Owning
      <3>2. CASE Scheduling(t)
        BY <1>2, <3>2 DEF Scheduling, WaitOk, WaitErr, FlushCheck, FlushReturn, SchedSkip,
           MarkInFlight, AfterSchedule, AfterWait, Waiting, Owning
      <3> QED  BY <1>4, <3>1, <3>2
    <2>3. /\ Abandoned => Abandoned'
          /\ \A u \in Threads : pc[u] \in Rotating => pc'[u] \in Rotating
      BY <1>2, <2>1, <2>2 DEF Abandoned, WorkerOwns
    <2> QED  BY <1>3, <2>1, <2>3 DEF InvEmptySlot
  <1>5. CASE SchedSwap(t) \/ SendJob(t)
    <2>1. ~Abandoned /\ \A u \in Threads : pc[u] \notin Rotating
      BY <1>1, <1>5 DEF SchedSwap, NothingToSwap, SendJob, InvOwner, OwnedJob, Abandoned, Owning
    <2>2. walOpen'
      BY <1>3, <1>5, <2>1 DEF SchedSwap, SendJob, locks
    <2> QED  BY <2>2 DEF InvEmptySlot
  <1>6. CASE RotLock(t) \/ RotRemove(t) \/ RotRename(t) \/ RotCreate(t)
    <2>1. pc'[t] \in Rotating
      BY <1>2, <1>6 DEF RotLock, RotRemove, RotRename, RotCreate
    <2> QED  BY <2>1 DEF InvEmptySlot
  <1>7. CASE RotHeader(t)
    BY <1>7 DEF RotHeader, InvEmptySlot
  <1>8. CASE RotRemoveLost(t) \/ RotFails(t)
    <2>1. pc[t] \in Owning /\ pc'[t] = "idle" /\ UNCHANGED <<frozen, jobs, worker>>
      BY <1>2, <1>8 DEF RotRemoveLost, RotFails, Owning, snap, ctl
    <2>2. /\ frozen.some /\ jobs = <<>> /\ ~WorkerOwns
          /\ \A u \in Threads : pc[u] \in Owning => u = t
      BY <1>1, <2>1 DEF InvOwner, OwnedJob
    <2>3. Abandoned'
      BY <1>2, <2>1, <2>2 DEF Abandoned, WorkerOwns, Owning
    <2> QED  BY <2>3 DEF InvEmptySlot
  <1> QED  BY <1>4, <1>5, <1>6, <1>7, <1>8, FlushGroups DEF Thread, Rotation

\* InvEmptySlot is kept by every step.
LEMMA EmptySlotStep == ASSUME IInv, Next PROVE InvEmptySlot'
  <1>1. InvSlot /\ InvEmptySlot
    BY DEF IInv
  <1>2. worker \in [pc : WorkerPcs, job : SSTs, err : BOOLEAN]
    BY DEF IInv, TypeOK
  <1>3. CASE \E t \in Threads : Thread(t)
    BY <1>3, EmptySlotOfThread
  <1>4. CASE Worker \/ WorkerFails
    <2>1. UNCHANGED <<walOpen, pc>> /\ Serving
      BY <1>4 DEF Worker, WorkerFails, WorkerRecv, WorkerWrite, WorkerInstall, WorkerUnlinkCheck,
         WorkerUnlink, WorkerUnlinkLost, WorkerReport, WorkerAt, locks, threads
    <2>2. ASSUME Abandoned PROVE Abandoned'
      <3>1. worker.pc \notin {"write", "install"} /\ jobs = <<>>
        BY <2>2 DEF Abandoned, WorkerOwns
      <3>2. worker'.pc \in {"unlink", "report", "recv"} /\ UNCHANGED <<frozen, jobs>>
        <4> USE <1>2, <3>1 DEF WorkerAt, snap, ctl
        <4>1. CASE WorkerUnlinkCheck \/ WorkerUnlink \/ WorkerUnlinkLost
          BY <4>1 DEF WorkerUnlinkCheck, WorkerUnlink, WorkerUnlinkLost
        <4>2. CASE WorkerFails
          BY <4>2 DEF WorkerFails
        <4>3. CASE WorkerReport
          BY <4>3 DEF WorkerReport, Idle
        <4>4. ~WorkerRecv /\ ~WorkerWrite /\ ~WorkerInstall
          BY DEF WorkerRecv, WorkerWrite, WorkerInstall
        <4> HIDE DEF WorkerAt, snap, ctl
        <4> QED  BY <1>4, <4>1, <4>2, <4>3, <4>4, Zenon DEF Worker
      <3> QED  BY <2>1, <2>2, <3>2 DEF Abandoned, WorkerOwns
    <2> QED  BY <1>1, <2>1, <2>2 DEF InvEmptySlot
  <1>5. CASE CloseBegin
    BY <1>1, <1>5 DEF CloseBegin, InvEmptySlot, Serving, Abandoned, WorkerOwns,
       files, snap, locks, ctl, threads
  <1>6. CASE Recovery \/ OpenRefused
    <2>1. ~Serving' \/ Spawn
      BY <1>6 DEF Recovery, OpenReplay, DropWal, DropFlushWal, CreateWal, WriteHeader,
         Checkpoint, CheckpointDone, OpenRefused, Serving
    <2>2. CASE Spawn
      BY <1>1, <2>2 DEF Spawn, InvSlot, InvEmptySlot, locks
    <2> QED  BY <2>1, <2>2 DEF InvEmptySlot
  <1>7. CASE Reset
    BY <1>7, ResetFacts DEF InvEmptySlot, Serving
  <1> QED  BY <1>3, <1>4, <1>5, <1>6, <1>7 DEF Next, Reset
-------------------------------------------------------------------------------
(***************************************************************************)
(* The log in use and the rotated log.                                     *)
(***************************************************************************)
\* A number that no table has reached shadows all of them.
LEMMA FreshShadows ==
    ASSUME NEW t \in Tables, NEW n \in Nat, AllBelow(t, n), NEW k \in Keys
    PROVE  n >= t[k].seq
  BY TableFacts DEF AllBelow

\* A write leaves the log in use above all tables.
LEMMA WalOfWrite ==
    ASSUME IInv, TypeOK', NEW t \in Threads, WriteData(t)
    PROVE  InvWal'
  <1>1. TypeOK /\ InvWal /\ InvFresh /\ InvInWrite
    BY DEF IInv
  <1> USE LayerTypes
  <1>2. CASE WriteAppend(t) \/ WriteAppendFails(t)
    <2>1. /\ mode = "up" /\ UNCHANGED <<mode, active, frozen, sstFiles>>
      BY <1>2 DEF WriteAppend, WriteAppendFails, At, snap
    <2>2. /\ AllBelow(active, nextSeq) /\ AllBelow(frozen.tab, nextSeq)
          /\ \A s \in sstFiles : AllBelow(s.tab, nextSeq)
      BY <1>1, <2>1 DEF InvFresh, Loaded
    <2>3. ASSUME NEW n \in Tables, Newest(n), NEW k \in Keys, NEW kind \in {"Put", "Tombstone"}
          PROVE  Newest(MemPut(n, k, [seq |-> nextSeq, kind |-> kind]))
      <3> DEFINE c == [seq |-> nextSeq, kind |-> kind]
      <3>1. c \in Cells /\ c.seq = nextSeq
        BY <1>1, NewCell
      <3> HIDE DEF c
      <3>2. Shadows(MemPut(n, k, c), active) /\ Shadows(MemPut(n, k, c), frozen.tab)
        BY <1>1, <2>1, <2>2, <2>3, <3>1, FreshShadows, ShadowsPut DEF Newest
      <3>3. \A s \in sstFiles : Shadows(MemPut(n, k, c), s.tab)
        BY <1>1, <2>2, <2>3, <3>1, FreshShadows, ShadowsPut DEF Newest
      <3> QED  BY <3>2, <3>3 DEF Newest, c
    <2>4. Newest(EmptyTable)
      BY <1>1, ShadowsEmpty DEF Newest
    <2>5. Newest(wal'.log) /\ Newest(wal'.tail)
      <3>1. CASE WriteAppend(t)
        <4>1. PICK k \in Keys, kind \in {"Put", "Tombstone"} :
                 wal' = AppendWal(wal, k, [seq |-> nextSeq, kind |-> kind])
          BY <3>1 DEF WriteAppend
        <4>2. /\ wal'.log = MemPut(wal.log, k, [seq |-> nextSeq, kind |-> kind])
              /\ wal'.tail = EmptyTable
          BY <1>1, <4>1 DEF AppendWal, TypeOK, Wals
        <4> QED  BY <1>1, <2>3, <2>4, <4>2 DEF InvWal
      <3>2. CASE wal' = [wal EXCEPT !.tail = EmptyTable]
        BY <1>1, <2>4, <3>2 DEF InvWal, TypeOK, Wals
      <3>3. ASSUME NEW k \in Keys, NEW kind \in {"Put", "Tombstone"},
                   wal' = [wal EXCEPT !.tail =
                              MemPut(EmptyTable, k, [seq |-> nextSeq, kind |-> kind])]
            PROVE  Newest(wal'.log) /\ Newest(wal'.tail)
        <4>1. /\ wal'.log = wal.log
              /\ wal'.tail = MemPut(EmptyTable, k, [seq |-> nextSeq, kind |-> kind])
          BY <1>1, <3>3 DEF TypeOK, Wals
        <4> QED  BY <1>1, <2>3, <2>4, <4>1, EmptyFacts DEF InvWal
      <3>4. CASE UNCHANGED wal
        BY <1>1, <3>4 DEF InvWal
      <3> QED  BY <1>2, <3>1, <3>2, <3>3, <3>4 DEF WriteAppendFails
    <2> QED  BY <2>1, <2>5 DEF InvWal, Newest
  <1>4. CASE WriteRemove(t)
    <2>1. /\ active' = MemRemove(active, op[t].key) /\ mode = "up"
          /\ UNCHANGED <<frozen, sstFiles, wal>>
      BY <1>4 DEF WriteRemove, At, files
    <2>2. Shadows(wal.log, active') /\ Shadows(wal.tail, active')
      BY <1>1, <2>1, ShadowsRemove DEF InvWal, Newest
    <2> QED  BY <1>1, <2>1, <2>2 DEF InvWal, Newest
  <1>3. CASE WriteApply(t)
    <2> DEFINE k == op[t].key  c == op[t].cell
    <2>1. /\ k \in Keys /\ c \in Cells /\ active' = MemPut(active, k, c)
          /\ wal.log[k].seq >= c.seq /\ wal.tail = EmptyTable /\ mode = "up"
      BY <1>1, <1>3, ThreadTypes DEF WriteApply, InvInWrite
    <2>2. UNCHANGED <<frozen, sstFiles, wal>>
      BY <1>3 DEF WriteApply, files
    <2>3. Shadows(wal.log, active) /\ active' \in Tables
      BY <1>1, <2>1 DEF InvWal, Newest, TypeOK
    <2> HIDE DEF k, c
    <2>4. Shadows(wal.log, active')
      BY <1>1, <2>1, <2>3, ShadowsOverPut
    <2>5. Shadows(wal.tail, active')
      BY <2>1, <2>3, ShadowsEmpty
    <2> QED  BY <1>1, <2>2, <2>4, <2>5 DEF InvWal, Newest
  <1> QED  BY <1>2, <1>3, <1>4 DEF WriteData

\* InvWal is kept by every step.
LEMMA WalStep == ASSUME IInv, Next PROVE InvWal'
  <1>1. /\ TypeOK /\ InvWal /\ InvSlot /\ InvFlushWal /\ InvLayers /\ InvQuiet
        /\ TypeOK'
    BY TypeStep DEF IInv
  <1>2. /\ active \in Tables /\ frozen.tab \in Tables /\ wal.log \in Tables /\ wal.tail \in Tables
        /\ active' \in Tables /\ frozen'.tab \in Tables
        /\ \A s \in sstFiles : s.tab \in Tables
        /\ \A s \in sstFiles' : s.tab \in Tables
        /\ wal.log \in Tables /\ wal.tail \in Tables
    BY <1>1 DEF TypeOK, Frozen, SSTs, Wals
  <1>3. CASE SameData \/ WorkerUnlink \/ DropFlushWal \/ \E t \in Threads : RotRemove(t)
    <2>1. UNCHANGED <<wal, active, frozen, sstFiles>> /\ (mode' = "drop_wal" <=> mode = "drop_wal")
      BY <1>3 DEF SameData, WorkerUnlink, DropFlushWal, RotRemove, At, snap
    <2> QED  BY <1>1, <2>1 DEF InvWal, Newest
  <1>4. CASE \E t \in Threads : WriteData(t)
    BY <1>1, <1>4, WalOfWrite
  <1>5. ASSUME NEW t \in Threads, SchedSwap(t) PROVE InvWal'
    <2>1. /\ UNCHANGED <<wal, sstFiles>> /\ active' = EmptyTable /\ frozen'.tab = active
          /\ mode = "up"
      BY <1>5 DEF SchedSwap, At, files
    <2> QED  BY <1>1, <1>2, <2>1, ShadowsEmpty DEF InvWal, Newest
  <1>6. CASE DropWal \/ CreateWal \/ WriteHeader
             \/ \E t \in Threads : RotRename(t) \/ RotCreate(t) \/ RotHeader(t)
    <2>1. wal'.log = EmptyTable /\ wal'.tail = EmptyTable
      BY <1>6 DEF DropWal, CreateWal, WriteHeader, RotRename, RotCreate, RotHeader,
         NoWal, BlankWal, NewWal
    <2> QED  BY <1>2, <2>1, ShadowsEmpty DEF InvWal, Newest
  <1>7. CASE WorkerWrite
    <2>1. /\ sstFiles' = sstFiles \cup {worker.job} /\ worker.job.tab = frozen.tab
          /\ UNCHANGED <<wal, active, frozen, mode>>
      BY <1>7, PublishAdds DEF WorkerWrite, snap
    <2> QED  BY <1>1, <2>1 DEF InvWal, Newest
  <1>8. CASE WorkerInstall
    <2>1. frozen'.tab = EmptyTable /\ UNCHANGED <<wal, active, sstFiles, mode>>
      BY <1>8 DEF WorkerInstall, NoFrozen, files
    <2> QED  BY <1>1, <1>2, <2>1, ShadowsEmpty DEF InvWal, Newest
  <1>9. CASE Reset
    <2>1. frozen'.tab = EmptyTable /\ active' = EmptyTable /\ UNCHANGED <<wal, sstFiles>>
      BY <1>9, ResetFacts DEF NoFrozen, files
    <2> QED  BY <1>1, <1>2, <2>1, ShadowsEmpty DEF InvWal, Newest
  <1>10. CASE OpenReplay
    <2>1. /\ UNCHANGED <<frozen, sstFiles>> /\ active' = Recovered
          /\ mode' = "drop_wal" <=> Exists(flushWal)
          /\ Exists(flushWal) => wal' = wal
          /\ ~Exists(flushWal) => wal'.log = Records(wal) /\ wal'.tail = EmptyTable
      BY <1>1, <1>10 DEF OpenReplay, TypeOK, Wals
    <2>2. CASE Exists(flushWal)
      BY <1>1, <2>1, <2>2 DEF InvWal, Newest
    <2>3. CASE ~Exists(flushWal)
      <3>1. Records(wal) \in Tables /\ active' = Replay(EmptyTable, Records(wal))
        BY <1>1, <2>1, <2>3, RecordsType, NoRecords DEF InvSlot, Recovered, TypeOK
      <3>2. Shadows(Records(wal), active')
        BY <3>1, EmptyFacts, ShadowsEmpty, ShadowsOverReplay
      <3>3. /\ Shadows(Records(wal), frozen.tab)
            /\ \A s \in sstFiles : Shadows(Records(wal), s.tab)
        BY <1>1, <1>2, ShadowsRecords DEF InvWal, Newest, TypeOK
      <3>4. Newest(EmptyTable)'
        BY <1>2, ShadowsEmpty DEF Newest
      <3> QED  BY <2>1, <2>3, <3>2, <3>3, <3>4 DEF InvWal, Newest
    <2> QED  BY <2>2, <2>3
  <1>11. CASE Checkpoint
    <2>1. PICK k \in unwritten : wal' = AppendWal(wal, k, active[k])
      BY <1>11 DEF Checkpoint
    <2>2. /\ k \in Keys /\ active[k] \in Cells /\ mode = "checkpoint"
          /\ UNCHANGED <<active, frozen, sstFiles, mode>> /\ frozen.tab = EmptyTable
      BY <1>1, <1>2, <1>11, TableFacts DEF Checkpoint, TypeOK, InvQuiet, Serving, NoFrozen, snap
    <2>3. wal'.log = MemPut(wal.log, k, active[k]) /\ wal'.tail = EmptyTable
      BY <1>1, <2>1 DEF AppendWal, TypeOK, Wals
    <2>4. /\ active[k].seq > 0 => active[k].seq >= EmptyTable[k].seq
          /\ active[k].seq >= active[k].seq
          /\ \A s \in sstFiles : active[k].seq > 0 => active[k].seq >= s.tab[k].seq
      <3>1. \A s \in sstFiles : Shadows(active, s.tab)
        BY <1>1 DEF InvLayers
      <3> QED  BY <1>2, <2>2, <3>1, CellFacts, EmptyFacts, ShadowsSeq
    <2>5. Shadows(wal'.log, active)
      BY <1>1, <1>2, <2>2, <2>3, <2>4, ShadowsPut DEF InvWal, Newest
    <2>6. \A s \in sstFiles : Shadows(wal'.log, s.tab)
      BY <1>1, <1>2, <2>2, <2>3, <2>4, ShadowsPut DEF InvWal, Newest
    <2>7. wal'.log \in Tables
      BY <1>1 DEF TypeOK, Wals
    <2> QED  BY <1>2, <2>2, <2>3, <2>5, <2>6, <2>7, ShadowsEmpty DEF InvWal, Newest
  <1> QED  BY <1>3, <1>4, <1>5, <1>6, <1>7, <1>8, <1>9, <1>10, <1>11, DataFrame
           DEF DataStep, WorkerData, RewriteWal, RotateData

\* InvFlushWal is kept by every step.
LEMMA FlushWalStep == ASSUME IInv, Next PROVE InvFlushWal'
  <1>1. /\ TypeOK /\ InvLocks /\ InvQuiet /\ InvOwner /\ InvWal /\ InvFlushWal /\ TypeOK'
    BY TypeStep DEF IInv
  <1>2. /\ \A s \in sstFiles : s.tab \in Tables
        /\ \A s \in sstFiles' : s.tab \in Tables
        /\ frozen.tab \in Tables /\ frozen'.tab \in Tables
        /\ Records(flushWal) \in Tables
    BY <1>1, RecordsType DEF TypeOK, Frozen, SSTs
  <1>3. ASSUME UNCHANGED <<flushWal, sstFiles, frozen>>, Rotated' => Rotated
        PROVE  InvFlushWal'
    BY <1>1, <1>3 DEF InvFlushWal
  <1>4. ASSUME NEW t \in Threads, Thread(t) PROVE InvFlushWal'
    <2>1. /\ mode = "up"
          /\ \A u \in Threads : u # t => pc'[u] = pc[u]
          /\ pc \in [Threads -> ThreadPcs] /\ pc[t] \in ThreadPcs
      BY <1>1, <1>4, ThreadFrame, ThreadTypes
    <2> USE DEF At, Goto, Return, Owning, Rotating, RotationDone
    <2>2. CASE RotRename(t)
      <3>1. flushWal' = wal /\ UNCHANGED <<sstFiles, frozen>>
        BY <2>2 DEF RotRename, snap
      <3>2. Shadows(Records(wal), frozen.tab) /\ \A s \in sstFiles : Shadows(Records(wal), s.tab)
        BY <1>1, <1>2, ShadowsRecords DEF InvWal, Newest, TypeOK
      <3> QED  BY <3>1, <3>2 DEF InvFlushWal
    <2>3. CASE RotRemove(t)
      <3>1. Records(flushWal') = EmptyTable
        BY <2>3, NoRecords DEF RotRemove
      <3> QED  BY <1>2, <3>1, ShadowsEmpty DEF InvFlushWal
    <2>4. CASE SchedSwap(t)
      <3>1. /\ jobs = <<>> /\ ~WorkerOwns /\ \A u \in Threads : pc[u] \notin Owning
        BY <1>1, <2>4 DEF SchedSwap, NothingToSwap, InvOwner, OwnedJob
      <3>2. ~Rotated' /\ UNCHANGED <<flushWal, sstFiles>>
        BY <2>1, <2>4, <3>1 DEF SchedSwap, Rotated, WorkerOwns, files
      <3> QED  BY <1>1, <3>2 DEF InvFlushWal
    <2>5. CASE SendJob(t)
      <3>1. Rotated
        BY <2>5 DEF SendJob, Rotated
      <3>2. UNCHANGED <<flushWal, sstFiles, frozen>>
        BY <2>5 DEF SendJob, files, snap
      <3> QED  BY <1>3, <3>1, <3>2
    <2>6. CASE \/ Begin(t) \/ Write(t) \/ WriteAppendFails(t) \/ Get(t) \/ Scheduling(t)
               \/ RotLock(t) \/ RotRemoveLost(t) \/ RotCreate(t) \/ RotHeader(t) \/ RotFails(t)
      <3>1. UNCHANGED <<flushWal, sstFiles, frozen, jobs, worker>>
        BY <2>6 DEF Begin, WriteBegin, GetBegin, FlushBegin, ScheduleBegin, WaitBegin,
           Write, WriteAppend, WriteNoWal, WriteRemove, WriteApply, WriteAppendFails, Get, GetActive, GetBelow,
           GetReturn, Scheduling, WaitOk, WaitErr, FlushCheck, FlushReturn, SchedSkip,
           MarkInFlight, RotLock, RotRemoveLost, RotCreate, RotHeader, RotFails,
           files, snap, ctl
      <3>2. pc'[t] \in RotationDone => pc[t] \in RotationDone
        <4>1. CASE Begin(t) \/ Write(t) \/ WriteAppendFails(t) \/ Get(t)
          BY <2>1, <4>1 DEF Begin, WriteBegin, GetBegin, FlushBegin, ScheduleBegin, WaitBegin,
             Write, WriteAppend, WriteNoWal, WriteRemove, WriteApply, WriteAppendFails, Get, GetActive,
             GetBelow, GetReturn
        <4>2. CASE Scheduling(t)
          BY <2>1, <4>2 DEF Scheduling, WaitOk, WaitErr, FlushCheck, FlushReturn, SchedSkip,
             MarkInFlight, AfterSchedule, AfterWait, Waiting
        <4>3. CASE RotLock(t) \/ RotRemoveLost(t) \/ RotCreate(t) \/ RotHeader(t) \/ RotFails(t)
          BY <2>1, <4>3 DEF RotLock, RotRemoveLost, RotCreate, RotHeader, RotFails
        <4> QED  BY <2>6, <4>1, <4>2, <4>3
      <3>3. Rotated' => Rotated
        BY <2>1, <3>1, <3>2 DEF Rotated
      <3> QED  BY <1>3, <3>1, <3>3
    <2> QED  BY <1>4, <2>2, <2>3, <2>4, <2>5, <2>6, FlushGroups DEF Thread, Rotation
  <1>5. CASE WorkerRecv
    <2>1. UNCHANGED <<flushWal, sstFiles, frozen>> /\ Rotated
      BY <1>5 DEF WorkerRecv, Rotated, files, snap
    <2> QED  BY <1>3, <2>1
  <1>6. CASE WorkerWrite
    <2>1. /\ sstFiles' = sstFiles \cup {worker.job} /\ worker.job.tab = frozen.tab
          /\ UNCHANGED <<flushWal, frozen>> /\ Rotated
      BY <1>6, PublishAdds DEF WorkerWrite, WorkerAt, Rotated, snap
    <2> QED  BY <1>1, <2>1 DEF InvFlushWal
  <1>7. CASE WorkerInstall
    <2>1. frozen'.tab = EmptyTable /\ UNCHANGED <<flushWal, sstFiles>>
      BY <1>7 DEF WorkerInstall, NoFrozen, files
    <2> QED  BY <1>1, <1>2, <2>1, ShadowsEmpty DEF InvFlushWal
  <1>8. CASE WorkerUnlink \/ DropFlushWal
    <2>1. Records(flushWal') = EmptyTable
      BY <1>8, NoRecords DEF WorkerUnlink, DropFlushWal
    <2> QED  BY <1>2, <2>1, ShadowsEmpty DEF InvFlushWal
  <1>9. CASE WorkerFails \/ WorkerUnlinkCheck \/ WorkerUnlinkLost \/ WorkerReport
    <2>1. UNCHANGED <<flushWal, sstFiles, frozen, jobs, pc>>
      BY <1>9 DEF WorkerFails, WorkerUnlinkCheck, WorkerUnlinkLost, WorkerReport,
         files, snap, ctl, threads
    <2>2. worker'.pc # "write"
      <3>1. CASE WorkerFails \/ WorkerUnlinkLost
        BY <1>1, <3>1 DEF WorkerFails, WorkerUnlinkLost, TypeOK
      <3>2. CASE WorkerUnlinkCheck
        BY <1>1, <3>2 DEF WorkerUnlinkCheck, TypeOK
      <3>3. CASE WorkerReport
        BY <3>3 DEF WorkerReport, Idle
      <3> QED  BY <1>9, <3>1, <3>2, <3>3
    <2>3. Rotated' => Rotated
      BY <2>1, <2>2 DEF Rotated
    <2> QED  BY <1>3, <2>1, <2>3
  <1>10. CASE CloseBegin \/ OpenRefused \/ OpenReplay \/ DropWal \/ CreateWal \/ WriteHeader
              \/ Checkpoint \/ CheckpointDone \/ Spawn
    <2>1. UNCHANGED <<flushWal, sstFiles, frozen, jobs, pc>>
      BY <1>10 DEF CloseBegin, OpenRefused, OpenReplay, DropWal, CreateWal, WriteHeader,
         Checkpoint, CheckpointDone, Spawn, files, snap, ctl, threads
    <2>2. UNCHANGED worker \/ worker' = Idle
      BY <1>10 DEF CloseBegin, OpenRefused, OpenReplay, DropWal, CreateWal, WriteHeader,
         Checkpoint, CheckpointDone, Spawn
    <2>3. Rotated' => Rotated
      BY <2>1, <2>2 DEF Rotated, Idle
    <2> QED  BY <1>3, <2>1, <2>3
  <1>11. CASE Reset
    <2>1. /\ UNCHANGED <<flushWal, sstFiles>>
          /\ ~Rotated'
      BY <1>11, ResetFacts DEF Rotated, RotationDone, Stopped, Idle, files
    <2> QED  BY <1>1, <2>1 DEF InvFlushWal
  <1> QED  BY <1>4, <1>5, <1>6, <1>7, <1>8, <1>9, <1>10, <1>11
           DEF Next, Worker, Recovery, Reset
-------------------------------------------------------------------------------
(***************************************************************************)
(* Sequence numbers.                                                       *)
(***************************************************************************)
\* A write takes a number above all tables and leaves the counter above its own.
LEMMA FreshOfWrite ==
    ASSUME IInv, TypeOK', NEW t \in Threads, WriteData(t)
    PROVE  InvFresh'
  <1>1. TypeOK /\ InvFresh /\ InvInWrite
    BY DEF IInv
  <1> USE LayerTypes
  <1>2. mode = "up" /\ Loaded' /\ UNCHANGED <<frozen, sstFiles, flushWal>>
    BY DEF WriteData, WriteAppend, WriteAppendFails, WriteRemove, WriteApply, At, Loaded, files, snap
  <1>3. /\ AllBelow(active, nextSeq) /\ AllBelow(frozen.tab, nextSeq)
        /\ \A s \in sstFiles : AllBelow(s.tab, nextSeq)
        /\ AllBelow(wal.log, nextSeq) /\ AllBelow(wal.tail, nextSeq)
        /\ AllBelow(Records(flushWal), nextSeq)
    BY <1>1, <1>2 DEF InvFresh, Loaded
  <1>4. CASE WriteAppend(t) \/ WriteAppendFails(t)
    <2> DEFINE n == nextSeq + 1
    <2>1. nextSeq' = n /\ UNCHANGED active /\ n \in Nat \ {0}
      BY <1>1, <1>4 DEF WriteAppend, WriteAppendFails, snap
    <2>2. /\ AllBelow(active, n) /\ AllBelow(frozen.tab, n)
          /\ \A s \in sstFiles : AllBelow(s.tab, n)
          /\ AllBelow(wal.log, n) /\ AllBelow(wal.tail, n)
          /\ AllBelow(Records(flushWal), n) /\ AllBelow(EmptyTable, n)
      BY <1>1, <1>3, <2>1, BelowMore, BelowEmpty
    <2>3. ASSUME NEW k \in Keys, NEW kind \in {"Put", "Tombstone"}, NEW tab \in Tables,
                 AllBelow(tab, n)
          PROVE  AllBelow(MemPut(tab, k, [seq |-> nextSeq, kind |-> kind]), n)
      <3>1. nextSeq \in Nat \ {0} /\ nextSeq < n
        BY <1>1
      <3>2. [seq |-> nextSeq, kind |-> kind] \in Cells
        BY <3>1, NewCell
      <3> QED  BY <2>1, <2>3, <3>1, <3>2, BelowPut
    <2>4. AllBelow(wal'.log, n) /\ AllBelow(wal'.tail, n)
      <3> HIDE DEF n
      <3>1. CASE WriteAppend(t)
        <4>1. PICK k \in Keys, kind \in {"Put", "Tombstone"} :
                 wal' = AppendWal(wal, k, [seq |-> nextSeq, kind |-> kind])
          BY <3>1 DEF WriteAppend
        <4>2. /\ wal'.log = MemPut(wal.log, k, [seq |-> nextSeq, kind |-> kind])
              /\ wal'.tail = EmptyTable
          BY <1>1, <4>1 DEF AppendWal, TypeOK, Wals
        <4> QED  BY <1>1, <2>2, <2>3, <4>2
      <3>2. CASE wal' = [wal EXCEPT !.tail = EmptyTable]
        BY <1>1, <2>2, <3>2 DEF TypeOK, Wals
      <3>3. ASSUME NEW k \in Keys, NEW kind \in {"Put", "Tombstone"},
                   wal' = [wal EXCEPT !.tail =
                              MemPut(EmptyTable, k, [seq |-> nextSeq, kind |-> kind])]
            PROVE  AllBelow(wal'.log, n) /\ AllBelow(wal'.tail, n)
        <4>1. /\ wal'.log = wal.log
              /\ wal'.tail = MemPut(EmptyTable, k, [seq |-> nextSeq, kind |-> kind])
          BY <1>1, <3>3 DEF TypeOK, Wals
        <4> QED  BY <1>1, <2>2, <2>3, <4>1, EmptyFacts
      <3>4. CASE UNCHANGED wal
        BY <2>2, <3>4
      <3> QED  BY <1>4, <3>1, <3>2, <3>3, <3>4 DEF WriteAppendFails
    <2> HIDE DEF n
    <2> QED  BY <1>2, <2>1, <2>2, <2>4 DEF InvFresh
  <1>6. CASE WriteRemove(t)
    <2>1. active' = MemRemove(active, op[t].key) /\ UNCHANGED <<wal, nextSeq>>
      BY <1>6 DEF WriteRemove, files, ctl
    <2>2. AllBelow(active', nextSeq)
      BY <1>1, <1>3, <2>1, BelowRemove
    <2> QED  BY <1>2, <1>3, <2>1, <2>2 DEF InvFresh
  <1>5. CASE WriteApply(t)
    <2> DEFINE k == op[t].key  c == op[t].cell
    <2>1. /\ k \in Keys /\ c \in Cells /\ active' = MemPut(active, k, c) /\ c.seq < nextSeq
          /\ UNCHANGED <<wal, nextSeq>>
      BY <1>1, <1>5, ThreadTypes DEF WriteApply, InvInWrite, files, ctl
    <2> HIDE DEF k, c
    <2>2. AllBelow(active', nextSeq)
      BY <1>1, <1>3, <2>1, BelowPut
    <2> QED  BY <1>2, <1>3, <2>1, <2>2 DEF InvFresh
  <1> QED  BY <1>4, <1>5, <1>6 DEF WriteData

\* Open starts the counter above every record it found.
LEMMA FreshOfOpen ==
    ASSUME IInv, TypeOK', OpenReplay
    PROVE  InvFresh'
  <1>1. TypeOK /\ InvQuiet /\ mode = "down"
    BY DEF IInv, OpenReplay
  <1> USE LayerTypes
  <1>2. PICK m \in DiskSeqs : Greatest(m, DiskSeqs) /\ nextSeq' = SeqAfter(m)
    BY DEF OpenReplay
  <1>3. DiskSeqs \subseteq Nat
    BY <1>1, TableFacts DEF DiskSeqs, DiskCells
  <1>4. \A x \in DiskSeqs : x < nextSeq'
    BY <1>2, <1>3 DEF Greatest, SeqAfter
  <1>5. \A k \in Keys : /\ Records(wal)[k].seq \in DiskSeqs
                        /\ Records(flushWal)[k].seq \in DiskSeqs
                        /\ \A s \in sstFiles : s.tab[k].seq \in DiskSeqs
    BY DEF DiskSeqs, DiskCells
  <1>6. /\ AllBelow(Records(wal), nextSeq') /\ AllBelow(Records(flushWal), nextSeq')
        /\ \A s \in sstFiles : AllBelow(s.tab, nextSeq')
    BY <1>4, <1>5 DEF AllBelow
  <1>7. nextSeq' \in Nat \ {0} /\ AllBelow(EmptyTable, nextSeq')
    <2>1. nextSeq' \in Nat \ {0}
      BY DEF TypeOK
    <2> QED  BY <2>1, BelowEmpty
  <1>8. AllBelow(wal.log, nextSeq') /\ AllBelow(wal.tail, nextSeq')
    <2> SUFFICES ASSUME NEW k \in Keys
                 PROVE  wal.log[k].seq < nextSeq' /\ wal.tail[k].seq < nextSeq'
      BY DEF AllBelow
    <2>1. /\ Records(wal)[k].seq >= wal.log[k].seq /\ Records(wal)[k].seq >= wal.tail[k].seq
      BY <1>1, ReplayFacts DEF Records
    <2>2. Records(wal)[k].seq < nextSeq'
      BY <1>6 DEF AllBelow
    <2> QED  BY <1>1, <1>7, <2>1, <2>2, TableFacts
  <1>9. /\ active' = Recovered /\ UNCHANGED <<frozen, sstFiles, flushWal>>
        /\ frozen.tab = EmptyTable
        /\ wal' = wal \/ (wal'.log = Records(wal) /\ wal'.tail = EmptyTable)
    BY <1>1 DEF OpenReplay, InvQuiet, Serving, NoFrozen, TypeOK, Wals
  <1>10. AllBelow(active', nextSeq')
    BY <1>1, <1>6, <1>7, <1>9, BelowReplay DEF Recovered
  <1>11. AllBelow(wal'.log, nextSeq') /\ AllBelow(wal'.tail, nextSeq')
    BY <1>6, <1>7, <1>8, <1>9
  <1> QED  BY <1>6, <1>7, <1>9, <1>10, <1>11 DEF InvFresh

\* InvFresh is kept by every step.
LEMMA FreshStep == ASSUME IInv, Next PROVE InvFresh'
  <1>1. TypeOK /\ TypeOK' /\ InvFresh /\ InvQuiet
    BY TypeStep DEF IInv
  <1> USE LayerTypes
  <1>2. AllBelow(EmptyTable, nextSeq)
    BY <1>1, BelowEmpty
  <1>3. CASE \/ SameData \/ WorkerUnlink \/ DropWal \/ DropFlushWal \/ CreateWal \/ WriteHeader
             \/ \E t \in Threads : RotRemove(t) \/ RotCreate(t) \/ RotHeader(t)
    <2>1. UNCHANGED <<active, frozen, sstFiles, nextSeq>> /\ (Loaded' => Loaded)
      BY <1>3 DEF SameData, WorkerUnlink, DropWal, DropFlushWal, CreateWal, WriteHeader,
         RotRemove, RotCreate, RotHeader, WorkerAt, Serving, At, files, snap, ctl, Loaded
    <2>2. UNCHANGED wal \/ (wal'.log = EmptyTable /\ wal'.tail = EmptyTable)
      BY <1>3 DEF SameData, WorkerUnlink, DropWal, DropFlushWal, CreateWal, WriteHeader,
         RotRemove, RotCreate, RotHeader, NoWal, BlankWal, NewWal
    <2>3. UNCHANGED flushWal \/ Records(flushWal') = EmptyTable
      BY <1>3, NoRecords DEF SameData, WorkerUnlink, DropWal, DropFlushWal, CreateWal,
         WriteHeader, RotRemove, RotCreate, RotHeader
    <2> QED  BY <1>1, <1>2, <2>1, <2>2, <2>3 DEF InvFresh
  <1>4. CASE \E t \in Threads : WriteData(t)
    BY <1>1, <1>4, FreshOfWrite
  <1>5. ASSUME NEW t \in Threads, SchedSwap(t) PROVE InvFresh'
    <2>1. /\ active' = EmptyTable /\ frozen'.tab = active /\ Loaded
          /\ UNCHANGED <<wal, flushWal, sstFiles, nextSeq>>
      BY <1>5 DEF SchedSwap, At, Loaded, files
    <2> QED  BY <1>1, <1>2, <2>1 DEF InvFresh
  <1>6. ASSUME NEW t \in Threads, RotRename(t) PROVE InvFresh'
    <2>1. /\ flushWal' = wal /\ wal'.log = EmptyTable /\ wal'.tail = EmptyTable /\ Loaded
          /\ UNCHANGED <<active, frozen, sstFiles, nextSeq>>
      BY <1>6 DEF RotRename, NoWal, At, Loaded, snap, ctl
    <2>2. AllBelow(Records(wal), nextSeq)
      BY <1>1, <2>1, BelowReplay DEF InvFresh, Records
    <2> QED  BY <1>1, <1>2, <2>1, <2>2 DEF InvFresh
  <1>7. CASE WorkerWrite
    <2>1. /\ sstFiles' = sstFiles \cup {worker.job} /\ worker.job.tab = frozen.tab /\ Loaded
          /\ UNCHANGED <<wal, flushWal, active, frozen, nextSeq>>
      BY <1>7, PublishAdds DEF WorkerWrite, WorkerAt, Serving, Loaded, snap, ctl
    <2> QED  BY <1>1, <2>1 DEF InvFresh
  <1>8. CASE WorkerInstall
    <2>1. /\ frozen'.tab = EmptyTable /\ Loaded
          /\ UNCHANGED <<wal, flushWal, sstFiles, active, nextSeq>>
      BY <1>8 DEF WorkerInstall, WorkerAt, Serving, NoFrozen, Loaded, files, ctl
    <2> QED  BY <1>1, <1>2, <2>1 DEF InvFresh
  <1>9. CASE Reset
    BY <1>9, ResetFacts DEF InvFresh, Loaded
  <1>10. CASE OpenReplay
    BY <1>1, <1>10, FreshOfOpen
  <1>11. CASE Checkpoint
    <2>1. PICK k \in unwritten : wal' = AppendWal(wal, k, active[k])
      BY <1>11 DEF Checkpoint
    <2>2. /\ k \in Keys /\ active[k] \in Cells /\ Loaded
          /\ UNCHANGED <<active, frozen, sstFiles, flushWal, nextSeq>>
      BY <1>1, <1>11, TableFacts DEF Checkpoint, TypeOK, Loaded, snap, ctl
    <2>3. wal'.log = MemPut(wal.log, k, active[k]) /\ wal'.tail = EmptyTable
      BY <1>1, <2>1 DEF AppendWal, TypeOK, Wals
    <2>4. active[k].seq < nextSeq
      BY <1>1, <2>2 DEF InvFresh, AllBelow
    <2>5. AllBelow(wal'.log, nextSeq)
      BY <1>1, <2>2, <2>3, <2>4, BelowPut DEF InvFresh
    <2> QED  BY <1>1, <1>2, <2>2, <2>3, <2>5 DEF InvFresh
  <1> QED  BY <1>3, <1>4, <1>5, <1>6, <1>7, <1>8, <1>9, <1>10, <1>11, DataFrame
           DEF DataStep, WorkerData, RewriteWal, RotateData

\* A thread comes between append and put only by appending.
LEMMA EntersWrite ==
    ASSUME TypeOK, Next, NEW u \in Threads, pc[u] \notin Applying, pc'[u] \in Applying
    PROVE  WriteAppend(u)
  <1>1. PICK t \in Threads : Thread(t)
    BY ResetFacts DEF Next, Worker, WorkerRecv, WorkerWrite, WorkerInstall, WorkerUnlinkCheck,
       WorkerUnlink, WorkerUnlinkLost, WorkerFails, WorkerReport, Recovery, OpenReplay, DropWal,
       DropFlushWal, CreateWal, WriteHeader, Checkpoint, CheckpointDone, Spawn, OpenRefused,
       CloseBegin, Reset, threads, Applying
  <1> USE ThreadTypes DEF threads, At, Goto, Return, Applying
  <1>2. CASE Begin(t) \/ Get(t)
    BY <1>2 DEF Begin, WriteBegin, GetBegin, FlushBegin, ScheduleBegin, WaitBegin,
       Get, GetActive, GetBelow, GetReturn
  <1>3. CASE Write(t) \/ WriteAppendFails(t)
    BY <1>3 DEF Write, WriteAppend, WriteNoWal, WriteRemove, WriteApply, WriteAppendFails
  <1>4. CASE Scheduling(t) \/ SchedSwap(t) \/ SendJob(t)
    BY <1>4 DEF Scheduling, WaitOk, WaitErr, FlushCheck, FlushReturn, SchedSkip, SchedSwap,
                AfterSchedule, AfterWait, Waiting, MarkInFlight, SendJob
  <1>5. CASE Rotation(t)
    BY <1>5 DEF Rotation, RotLock, RotRemove, RotRemoveLost, RotRename, RotCreate, RotHeader,
       RotFails
  <1> QED  BY <1>1, <1>2, <1>3, <1>4, <1>5, FlushGroups DEF Thread

\* Such a thread keeps what its call knows until its put.
LEMMA KeepsWrite ==
    ASSUME TypeOK, InvLocks, Next, NEW u \in Threads, pc[u] \in Applying, pc'[u] \in Applying
    PROVE  op'[u] = op[u]
  <1>1. CASE \E t \in Threads : Thread(t)
    <2>1. PICK t \in Threads : Thread(t)
      BY <1>1
    <2>2. CASE t # u
      BY <2>1, <2>2, ThreadFrame
    <2>3. CASE t = u
      <3> USE <2>3, ThreadTypes DEF At, Goto, Return, Applying
      <3>1. CASE Begin(t) \/ Get(t)
        BY <3>1 DEF Begin, WriteBegin, GetBegin, FlushBegin, ScheduleBegin, WaitBegin,
           Get, GetActive, GetBelow, GetReturn
      <3>2. CASE Write(t) \/ WriteAppendFails(t)
        BY <3>2 DEF Write, WriteAppend, WriteNoWal, WriteRemove, WriteApply, WriteAppendFails
      <3>3. CASE Scheduling(t) \/ SchedSwap(t) \/ SendJob(t)
        BY <3>3 DEF Scheduling, WaitOk, WaitErr, FlushCheck, FlushReturn, SchedSkip, SchedSwap,
                    Waiting, MarkInFlight, SendJob
      <3>4. CASE Rotation(t)
        BY <3>4 DEF Rotation, RotLock, RotRemove, RotRemoveLost, RotRename, RotCreate, RotHeader,
           RotFails, Rotating
      <3> QED  BY <2>1, <3>1, <3>2, <3>3, <3>4, FlushGroups DEF Thread
    <2> QED  BY <2>2, <2>3
  <1>2. CASE ~\E t \in Threads : Thread(t)
    BY <1>2, ResetFacts DEF Next, Worker, WorkerRecv, WorkerWrite, WorkerInstall,
       WorkerUnlinkCheck, WorkerUnlink, WorkerUnlinkLost, WorkerFails, WorkerReport, Recovery,
       OpenReplay, DropWal, DropFlushWal, CreateWal, WriteHeader, Checkpoint, CheckpointDone,
       Spawn, OpenRefused, CloseBegin, Reset, threads, Applying
  <1> QED  BY <1>1, <1>2

\* While a thread is between its append and the end of its put, nothing else touches a
\* table that a put goes to: it holds the mutex and the read lock.
LEMMA WriteIsAlone ==
    ASSUME IInv, Next, NEW u \in Threads, pc[u] \in Applying, pc'[u] \in Applying
    PROVE  /\ UNCHANGED <<wal, frozen, nextSeq>>
           /\ UNCHANGED active \/ active' = MemRemove(active, op[u].key)
           /\ \/ UNCHANGED sstFiles
              \/ sstFiles' = sstFiles \cup {worker.job} /\ worker.job.tab = frozen.tab
  <1>1. /\ TypeOK /\ walHolder = u /\ u \in readers /\ mode = "up"
        /\ \A t \in Threads : pc[t] \in Applying \cup Rotating => t = u
        /\ u # None
    BY NoneAssumption DEF IInv, InvLocks, InvQuiet, Applying
  <1>2. CASE SameData
    BY <1>2 DEF SameData
  <1>3. CASE WorkerUnlink
    BY <1>3 DEF WorkerUnlink, snap, ctl
  <1>4. ASSUME NEW t \in Threads, WriteRemove(t)
        PROVE  active' = MemRemove(active, op[u].key) /\ UNCHANGED <<wal, frozen, nextSeq, sstFiles>>
    <2>1. t = u
      BY <1>1, <1>4 DEF WriteRemove, At, Applying
    <2> QED  BY <1>4, <2>1 DEF WriteRemove, files, ctl
  <1>5. ASSUME NEW t \in Threads, ~WriteRemove(t), WriteData(t) \/ SchedSwap(t) \/ RotateData(t)
        PROVE  FALSE
    <2>1. CASE WriteApply(t)
      BY <1>1, <2>1, ThreadTypes DEF WriteApply, Applying, Return, Goto
    <2>2. CASE WriteAppend(t) \/ WriteAppendFails(t) \/ SchedSwap(t) \/ RotateData(t)
      BY <1>1, <2>2 DEF WriteAppend, WriteAppendFails, SchedSwap, RotateData,
         RotRemove, RotRename, RotCreate, RotHeader, Rotating, Applying, At
    <2> QED  BY <1>5, <2>1, <2>2 DEF WriteData
  <1>6. CASE WorkerWrite
    BY <1>6, PublishAdds DEF WorkerWrite, snap, ctl
  <1>7. ~Reset
    BY ResetFacts DEF Applying
  <1>8. CASE WorkerInstall \/ RewriteWal \/ Reset \/ OpenReplay
    BY <1>1, <1>8, <1>7 DEF WorkerInstall, RewriteWal, DropWal, DropFlushWal, CreateWal,
       WriteHeader, Checkpoint, OpenReplay
  <1>9. CASE \E t \in Threads : WriteData(t) \/ SchedSwap(t) \/ RotateData(t)
    <2>1. PICK t \in Threads : WriteData(t) \/ SchedSwap(t) \/ RotateData(t)
      BY <1>9
    <2>2. WriteRemove(t)
      BY <1>5, <2>1
    <2> QED  BY <1>4, <2>2
  <1> QED  BY <1>2, <1>6, <1>8, <1>9, <1>3, DataFrame DEF DataStep, WorkerData

\* InvInWrite is kept by every step.
LEMMA InWriteStep == ASSUME IInv, Next PROVE InvInWrite'
  <1>1. TypeOK /\ TypeOK' /\ InvLocks /\ InvInWrite /\ InvFresh
    BY TypeStep DEF IInv
  <1> DEFINE LastAppend(t) ==
         /\ op[t].key \in Keys /\ IsHit(op[t].cell) /\ op[t].cell.seq < nextSeq
         /\ wal.log[op[t].key].seq >= op[t].cell.seq /\ wal.tail = EmptyTable
         /\ active[op[t].key].seq <= op[t].cell.seq
         /\ frozen.tab[op[t].key].seq <= op[t].cell.seq
         /\ \A s \in sstFiles : s.tab[op[t].key].seq <= op[t].cell.seq
  <1> SUFFICES ASSUME NEW u \in Threads, pc'[u] \in Applying PROVE LastAppend(u)'
    BY DEF InvInWrite
  <1>2. CASE pc[u] \in Applying
    <2>1. LastAppend(u)
      BY <1>1, <1>2 DEF InvInWrite
    <2>2. op'[u] = op[u]
      BY <1>1, <1>2, KeepsWrite
    <2>3. active'[op[u].key].seq <= op[u].cell.seq
      <3>1. op[u].cell.seq \in Nat
        BY <1>1, ThreadTypes, CellFacts
      <3>2. CASE active' = MemRemove(active, op[u].key)
        BY <1>1, <2>1, <3>1, <3>2, MemRemoveAt DEF TypeOK, Missing
      <3> QED  BY <1>2, <2>1, <3>2, WriteIsAlone
    <2> QED  BY <1>2, <2>1, <2>2, <2>3, WriteIsAlone
  <1>3. CASE pc[u] \notin Applying
    <2>1. WriteAppend(u)
      BY <1>1, <1>3, EntersWrite
    <2>2. PICK k \in Keys, kind \in {"Put", "Tombstone"} :
             /\ wal' = AppendWal(wal, k, [seq |-> nextSeq, kind |-> kind])
             /\ op' = [op EXCEPT ![u].key = k, ![u].cell = [seq |-> nextSeq, kind |-> kind]]
      BY <2>1 DEF WriteAppend
    <2> DEFINE c == [seq |-> nextSeq, kind |-> kind]
    <2>3. nextSeq \in Nat \ {0} /\ nextSeq' = nextSeq + 1 /\ UNCHANGED <<active, frozen, sstFiles>>
      BY <1>1, <2>1 DEF WriteAppend, TypeOK, snap
    <2>4. c \in Cells /\ c.seq = nextSeq /\ IsHit(c)
      <3>1. c \in Cells
        BY <2>3, NewCell
      <3>2. c.seq = nextSeq /\ nextSeq > 0
        BY <2>3
      <3> HIDE DEF c
      <3> QED  BY <3>1, <3>2, CellFacts
    <2> HIDE DEF c
    <2>5. op'[u].key = k /\ op'[u].cell = c
      BY <1>1, <2>2 DEF TypeOK, Ops, c
    <2>6. wal'.log = MemPut(wal.log, k, c) /\ wal'.tail = EmptyTable
      BY <1>1, <2>2 DEF AppendWal, TypeOK, Wals, c
    <2>7. /\ AllBelow(active, nextSeq) /\ AllBelow(frozen.tab, nextSeq)
          /\ \A s \in sstFiles : AllBelow(s.tab, nextSeq) /\ AllBelow(wal.log, nextSeq)
          /\ AllBelow(wal.log, nextSeq)
      BY <1>1, <2>1 DEF InvFresh, WriteAppend, At, Loaded
    <2>8. /\ active[k].seq <= c.seq /\ frozen.tab[k].seq <= c.seq /\ wal.log[k].seq <= c.seq
          /\ \A s \in sstFiles : s.tab[k].seq <= c.seq
      BY <1>1, <2>3, <2>4, <2>7, LayerTypes, FreshShadows
    <2>9. wal'.log[k] = c
      BY <1>1, <2>4, <2>6, <2>8, LayerTypes, MemPutAt, TableFacts
    <2> QED  BY <2>3, <2>4, <2>5, <2>6, <2>8, <2>9
  <1> QED  BY <1>2, <1>3
-------------------------------------------------------------------------------
(***************************************************************************)
(* The invariant, and the theorems.                                        *)
(***************************************************************************)
\* The initial state satisfies the inductive invariant.
LEMMA InitInv == Init => IInv
  <1> SUFFICES ASSUME Init PROVE IInv
    OBVIOUS
  <1>1. TypeOK
    BY InitType
  <1>2. /\ mode = "down" /\ \A t \in Threads : pc[t] = "idle"
        /\ jobs = <<>> /\ worker.pc = "stopped" /\ sstFiles = {} /\ sstables = <<>>
        /\ active = EmptyTable /\ frozen = NoFrozen /\ frozen.tab = EmptyTable
        /\ wal = NoWal /\ flushWal = NoWal /\ ~walOpen
        /\ wal.log = EmptyTable /\ wal.tail = EmptyTable /\ Records(flushWal) = EmptyTable
    BY NoRecords DEF Init, Stopped, Idle, NoFrozen, NoWal
  <1>3. InvLocks /\ InvQuiet /\ InvSlot /\ InvEmptySlot
    BY <1>2 DEF InvLocks, Keyed, Applying, Rotating, InvQuiet, Serving, InvSlot, InvEmptySlot, Exists
  <1>4. InvOwner /\ InvLayers
    BY <1>2, EmptyFacts, ShadowsEmpty DEF InvOwner, Owning, Rotating, WorkerOwns, InvLayers, Loaded
  <1>5. InvWal /\ InvFlushWal
    BY <1>2, EmptyFacts, ShadowsEmpty DEF InvWal, Newest, InvFlushWal
  <1>6. InvFresh /\ InvInWrite
    BY <1>2 DEF InvFresh, Loaded, InvInWrite, Applying
  <1> QED  BY <1>1, <1>3, <1>4, <1>5, <1>6 DEF IInv

\* The inductive invariant is kept by every step.
LEMMA InvStep == IInv /\ [Next]_vars => IInv'
  <1> SUFFICES ASSUME IInv, [Next]_vars PROVE IInv'
    OBVIOUS
  <1>1. CASE Next
    BY <1>1, TypeStep, LocksStep, QuietStep, SlotStep, EmptySlotStep, OwnerStep, LayersStep,
       WalStep, FlushWalStep, FreshStep, InWriteStep DEF IInv
  <1>2. CASE UNCHANGED vars
    <2>1. TypeOK'
      BY TypeStep
    <2>2. /\ UNCHANGED <<wal, flushWal, sstFiles, active, frozen, sstables, readers, walHolder,
                         walOpen, nextSeq, nextSst, jobs, mode, pc, op, worker>>
      BY <1>2 DEF vars, files, snap, locks, ctl, threads
    <2>3. InvLocks' /\ InvQuiet' /\ InvSlot' /\ InvEmptySlot' /\ InvOwner'
      BY <2>2 DEF IInv, InvLocks, InvQuiet, Serving, Loaded, InvSlot, InvEmptySlot, Abandoned,
         InvOwner, OwnedJob, Unpublished, WorkerOwns
    <2>4. InvLayers' /\ InvWal' /\ InvFlushWal'
      BY <2>2 DEF IInv, InvLayers, Loaded, InvWal, Newest, InvFlushWal, Rotated
    <2>5. InvFresh' /\ InvInWrite'
      BY <2>2 DEF IInv, InvFresh, Loaded, InvInWrite
    <2> QED  BY <2>1, <2>3, <2>4, <2>5 DEF IInv
  <1> QED  BY <1>1, <1>2

\* IInv is an invariant of the engine, for any number of threads, keys, crashes and faults.
THEOREM InvHolds == Spec => []IInv
  BY InitInv, InvStep, PTL DEF Spec

\* Type correctness of the engine.
THEOREM TypeHolds == Spec => []TypeOK
  <1>1. IInv => TypeOK
    BY DEF IInv
  <1> QED  BY <1>1, InvHolds, PTL

\* A get that stops at the first layer with an answer (engine.rs:356-382) has found the
\* newest entry of all layers, whatever swaps, flushes, crashes and recoveries came before.
THEOREM NewestFirstHolds == Spec => []NewestFirst
  BY InvHolds, LayersGiveNewest, PTL

\* The invariant bounds every number the counter must be above.
LEMMA InvGivesFresh == IInv => FreshSeq
  <1> SUFFICES ASSUME IInv, mode = "up"
               PROVE  /\ \A m \in DiskSeqs : m < nextSeq
                      /\ \A k \in Keys : Lookup(k).seq < nextSeq
    BY DEF FreshSeq
  <1>1. TypeOK /\ InvLayers
    BY DEF IInv
  <1>2. /\ AllBelow(active, nextSeq) /\ AllBelow(frozen.tab, nextSeq)
        /\ \A s \in sstFiles : AllBelow(s.tab, nextSeq)
        /\ AllBelow(wal.log, nextSeq) /\ AllBelow(wal.tail, nextSeq)
        /\ AllBelow(Records(flushWal), nextSeq)
    BY DEF IInv, InvFresh, Loaded
  <1>3. nextSeq \in Nat /\ 0 < nextSeq
    BY <1>1 DEF TypeOK
  <1>4. AllBelow(Records(wal), nextSeq)
    BY <1>1, <1>2, <1>3, LayerTypes, BelowReplay DEF Records
  <1>5. ASSUME NEW m \in DiskSeqs PROVE m < nextSeq
    <2>1. \/ m = 0
          \/ \E k \in Keys : \/ m = Records(wal)[k].seq \/ m = Records(flushWal)[k].seq
                             \/ \E s \in sstFiles : m = s.tab[k].seq
      BY DEF DiskSeqs, DiskCells
    <2> QED  BY <1>2, <1>3, <1>4, <2>1 DEF AllBelow
  <1>6. ASSUME NEW k \in Keys PROVE Lookup(k).seq < nextSeq
    <2>1. LookupSst(k).seq < nextSeq
      <3>1. CASE LookupSst(k) = Missing
        BY <1>3, <3>1 DEF Missing
      <3>2. CASE \E i \in 1..Len(sstables) : LookupSst(k) = sstables[i].tab[k]
        BY <1>1, <1>2, <3>2 DEF InvLayers, AllBelow
      <3> QED  BY <1>1, <3>1, <3>2, LookupSstFacts
    <2> QED  BY <1>2, <2>1 DEF Lookup, LookupBelow, AllBelow
  <1> QED  BY <1>5, <1>6

\* The number write_op takes next (engine.rs:470) is above every record in memory and on
\* disk, also after recoveries from any mixture of logs and SSTables.
THEOREM FreshSeqHolds == Spec => []FreshSeq
  BY InvHolds, InvGivesFresh, PTL

\* Writes are refused between rotations only after a rotation that failed, or that lost
\* wal.flush to the worker's unlink (engine.rs:490-498): then the frozen table is without a
\* job, and no schedule_flush will rotate again before a restart.
THEOREM EmptySlotStuckHolds == Spec => []EmptySlotStuck
  <1>1. IInv => EmptySlotStuck
    BY NoneAssumption DEF IInv, InvLocks, InvEmptySlot, EmptySlotStuck
  <1> QED  BY <1>1, InvHolds, PTL

\* A published SSTable is never replaced or removed: the id of a job is unpublished until
\* the worker renames its file, in this process and in any later one.
THEOREM SstImmutableHolds == Spec => SstImmutable
  <1>1. IInv /\ [Next]_vars => [sstFiles \subseteq sstFiles']_vars
    <2> SUFFICES ASSUME IInv, Next PROVE sstFiles \subseteq sstFiles'
      OBVIOUS
    <2>1. CASE WorkerWrite
      BY <2>1, PublishAdds
    <2>2. CASE ~WorkerWrite
      BY <2>2, DataFrame, ResetFacts DEF DataStep, SameData, WriteData, WriteAppend,
         WriteAppendFails, WriteRemove, WriteApply, SchedSwap, RotateData, RotRemove, RotRename, RotCreate,
         RotHeader, WorkerData, WorkerInstall, WorkerUnlink, RewriteWal, DropWal, DropFlushWal,
         CreateWal, WriteHeader, Checkpoint, OpenReplay, files
    <2> QED  BY <2>1, <2>2
  <1> QED  BY <1>1, InvHolds, PTL DEF Spec, SstImmutable

\* While the process serves, the frozen table leaves the snapshot only in the step that adds
\* an SSTable with its content (install_sst, engine.rs:550-554).
THEOREM FrozenHandoffHolds == Spec => FrozenHandoff
  <1> DEFINE Handoff == frozen.some /\ ~frozen'.some /\ Serving' =>
                           \E i \in 1..Len(sstables') : sstables'[i].tab = frozen.tab
  <1>1. IInv /\ [Next]_vars => [Handoff]_vars
    <2> SUFFICES ASSUME IInv, Next, frozen.some, ~frozen'.some, Serving'
                 PROVE  \E i \in 1..Len(sstables') : sstables'[i].tab = frozen.tab
      OBVIOUS
    <2>1. TypeOK /\ InvOwner
      BY DEF IInv
    <2>2. CASE WorkerInstall
      <3>1. sstables' = Append(sstables, worker.job) /\ worker.job.tab = frozen.tab
        BY <2>1, <2>2 DEF WorkerInstall, WorkerAt, InvOwner, WorkerOwns, OwnedJob
      <3>2. /\ Len(sstables) + 1 \in 1..Len(sstables')
            /\ sstables'[Len(sstables) + 1] = worker.job
        BY <2>1, <3>1 DEF TypeOK
      <3> QED  BY <3>1, <3>2
    <2>3. CASE Reset
      BY <2>3, ResetFacts DEF Serving
    <2>4. CASE ~WorkerInstall /\ ~Reset
      <3>1. ASSUME NEW t \in Threads, SchedSwap(t) PROVE FALSE
        BY <3>1 DEF SchedSwap
      <3>2. UNCHANGED frozen \/ \E t \in Threads : SchedSwap(t)
        BY <2>4, DataFrame DEF DataStep, SameData, WriteData, WriteAppend,
           WriteAppendFails, WriteRemove, WriteApply, RotateData, RotRemove, RotRename, RotCreate,
           RotHeader, WorkerData, WorkerWrite, WorkerUnlink, RewriteWal, DropWal, DropFlushWal,
           CreateWal, WriteHeader, Checkpoint, OpenReplay, snap
      <3> QED  BY <3>1, <3>2
    <2> QED  BY <2>2, <2>3, <2>4
  <1> QED  BY <1>1, InvHolds, PTL DEF Spec, FrozenHandoff
===============================================================================
