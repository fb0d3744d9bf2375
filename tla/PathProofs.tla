------------------------------- MODULE PathProofs -------------------------------
(***************************************************************************)
(* Proofs about ReadPath: the inductive invariant PathInv, and from it     *)
(* that concurrent puts and deletes leave the newest entry of each key,    *)
(* what a get may answer meanwhile, and that the byte counter is exact.    *)
(***************************************************************************)
EXTENDS PathInv, FiniteSetTheorems, NaturalsInduction, WellFoundedInduction, TLAPS

(***************************************************************************)
(* Numbers and sets.                                                       *)
(***************************************************************************)
\* A set that has 0 and every successor of its members has every number.
LEMMA AllNumbers ==
    ASSUME NEW S, 0 \in S, \A n \in Nat : n \in S => n + 1 \in S
    PROVE  Nat \subseteq S
  <1> DEFINE R == OpToRel(<, Nat)
             T == Nat \ S
  <1> SUFFICES ASSUME T # {} PROVE FALSE
    OBVIOUS
  <1>1. IsWellFoundedOn(R, Nat)
    BY NatLessThanWellFounded
  <1>2. PICK x \in T : \A y \in T : ~ (<<y, x>> \in R)
    <2>1. T \subseteq Nat
      OBVIOUS
    <2> HIDE DEF R, T
    <2> QED  BY <1>1, <2>1, WFMin
  <1>3. x \in Nat /\ x \notin S /\ x # 0
    OBVIOUS
  <1>4. x - 1 \in T
    <2>1. x - 1 \in Nat /\ (x - 1 \in S => (x - 1) + 1 \in S) /\ (x - 1) + 1 = x
      BY <1>3
    <2> HIDE DEF R
    <2> QED  BY <1>3, <2>1
  <1>5. <<x - 1, x>> \in R
    BY <1>3 DEF OpToRel
  <1> QED  BY <1>2, <1>4, <1>5

\* A finite set of numbers has a largest one.
LEMMA MaxExists ==
    ASSUME NEW S \in SUBSET Nat, IsFiniteSet(S), S # {}
    PROVE  Max(S) \in S /\ \A n \in S : n <= Max(S)
  <1> DEFINE HasMax(T) == \E m \in T : \A n \in T : n <= m
             Sizes == {c \in Nat : \A T \in SUBSET Nat :
                          IsFiniteSet(T) /\ T # {} /\ Cardinality(T) = c => HasMax(T)}
  <1>1. 0 \in Sizes
    BY FS_EmptySet
  <1>2. ASSUME NEW c \in Nat, c \in Sizes PROVE c + 1 \in Sizes
    <2> SUFFICES ASSUME NEW T \in SUBSET Nat, IsFiniteSet(T), T # {}, Cardinality(T) = c + 1
                 PROVE  HasMax(T)
      OBVIOUS
    <2>1. PICK x \in T : TRUE
      OBVIOUS
    <2>2. IsFiniteSet(T \ {x}) /\ Cardinality(T \ {x}) = c
      <3>1. IsFiniteSet(T \ {x}) /\ Cardinality(T \ {x}) = Cardinality(T) - 1
        BY <2>1, FS_RemoveElement
      <3> QED  BY <3>1
    <2>3. CASE T \ {x} = {}
      BY <2>1, <2>3
    <2>4. CASE T \ {x} # {}
      <3>1. PICK m \in T \ {x} : \A n \in T \ {x} : n <= m
        BY <1>2, <2>2, <2>4
      <3>2. m \in Nat /\ x \in Nat
        BY <2>1, <3>1
      <3> QED  BY <2>1, <3>1, <3>2
    <2> QED  BY <2>3, <2>4
  <1>3. Cardinality(S) \in Sizes
    <2>1. Cardinality(S) \in Nat
      BY FS_CardinalityType
    <2> HIDE DEF Sizes
    <2> QED  BY <1>1, <1>2, <2>1, AllNumbers
  <1>4. PICK m \in S : \A n \in S : n <= m
    BY <1>3
  <1>5. \A n \in S : m >= n
    BY <1>4
  <1>6. Max(S) \in S /\ \A n \in S : Max(S) >= n
    BY <1>5 DEF Max
  <1> QED  BY <1>6

\* No entry is larger than Largest.
LEMMA SizeFacts ==
    /\ Largest \in Nat
    /\ \A e \in Entries : EncodedSize(e) \in 0..Largest
  <1> DEFINE S == ValueLens \cup {0}
  <1>1. KeyLen \in Nat /\ ValueLens \subseteq Nat /\ IsFiniteSet(ValueLens)
    BY MemTableAssumption
  <1>2. IsFiniteSet(S) /\ S \in SUBSET Nat /\ S # {}
    BY <1>1, FS_AddElement
  <1>3. Max(S) \in Nat /\ \A n \in S : n <= Max(S)
    BY <1>2, MaxExists
  <1>4. Largest \in Nat
    BY <1>1, <1>3 DEF Largest, Overhead
  <1>5. ASSUME NEW e \in Entries PROVE EncodedSize(e) \in 0..Largest
    <2>1. CASE ~Present(e)
      BY <1>4, <2>1 DEF EncodedSize
    <2>2. CASE Present(e)
      <3>1. e.len \in S
        BY <2>2 DEF Entries, Present
      <3> HIDE DEF S
      <3>2. e.len \in Nat /\ e.len <= Max(S)
        BY <1>2, <1>3, <3>1
      <3> QED  BY <1>1, <1>3, <2>2, <3>2 DEF EncodedSize, Largest, Overhead, S
    <2> QED  BY <2>1, <2>2
  <1> QED  BY <1>4, <1>5

\* Entries are told apart from no entry by their number.
LEMMA EntryFacts ==
    /\ Absent \in Entries /\ MaxSeq \in Nat
    /\ \A e \in Entries : e.seq \in 0..MaxSeq /\ (Present(e) <=> e.seq > 0)
  BY MemTableAssumption DEF Entries, Absent, Present

LEMMA OverFacts ==
    ASSUME NEW a \in Entries, NEW b \in Entries
    PROVE  Over(a, b) \in Entries /\ (Present(a) => Over(a, b) = a) /\ (~Present(a) => Over(a, b) = b)
  BY DEF Over

LEMMA NewerFacts ==
    ASSUME NEW a \in Entries, NEW b \in Entries
    PROVE  /\ Newer(a, b) \in Entries /\ Newer(a, b).seq >= a.seq /\ Newer(a, b).seq >= b.seq
           /\ Newer(a, b) = a \/ Newer(a, b) = b
           /\ NotAfter(a, Newer(a, b))
           /\ a.seq # b.seq => NotAfter(b, Newer(a, b))
  <1>1. a.seq \in Nat /\ b.seq \in Nat
    BY EntryFacts
  <1> QED  BY <1>1 DEF Newer, NotAfter
-------------------------------------------------------------------------------
(***************************************************************************)
(* Types.                                                                  *)
(***************************************************************************)
\* ReadTypeOK but for the bound on the byte counter.
Pcs == Busy \cup {"idle", "get", "got", "answered"}
Shape ==
    /\ map \in [Keys -> Entries] /\ done \in [Keys -> Entries] /\ below \in [Keys -> Entries]
    /\ bytes \in Nat /\ pc \in [Threads -> Pcs] /\ op \in [Threads -> Ops]
    /\ called \subseteq 1..MaxSeq /\ raced \subseteq Keys /\ overlapped \subseteq Readers

LEMMA ShapeFacts ==
    ASSUME Shape, NEW t \in Threads
    PROVE  /\ Key(t) \in Keys /\ Rec(t) \in Entries /\ op[t].node \in Entries /\ op[t].old \in Nat
           /\ Rec(t).seq \in Nat /\ op[t].node.seq \in Nat
           /\ \A k \in Keys : /\ map[k] \in Entries /\ done[k] \in Entries /\ below[k] \in Entries
                              /\ map[k].seq \in Nat /\ done[k].seq \in Nat /\ below[k].seq \in Nat
  <1>1. /\ Key(t) \in Keys /\ Rec(t) \in Entries /\ op[t].node \in Entries /\ op[t].old \in Nat
    BY DEF Shape, Ops, Key, Rec
  <1>2. \A k \in Keys : map[k] \in Entries /\ done[k] \in Entries /\ below[k] \in Entries
    BY DEF Shape
  <1> QED  BY <1>1, <1>2, EntryFacts

LEMMA IdleFacts == ASSUME NEW t PROVE Idle(t) \in Ops
  BY MemTableAssumption, EntryFacts DEF Idle, Ops

\* A step of one thread.
Step(t) == \/ Write(t) \/ WriteStep(t)
           \/ Read(t) \/ LookActive(t) \/ LookBelow(t) \/ ReadReturn(t)

\* Steps of the other threads leave a thread where it is.
LEMMA OthersStay ==
    ASSUME Shape, NEW t \in Threads, Step(t), NEW u \in Threads, u # t
    PROVE  pc'[u] = pc[u] /\ op'[u] = op[u]
  BY DEF Shape, Step, Write, WriteStep, Read, LookActive, LookBelow, ReadReturn, ApplyBegin, Apply,
         ReadOldSize, SearchFree, SearchReplace, SearchObsolete, Remove, Insert, Account,
         GetBegin, Get, Goto, Return

LEMMA InitShape == ReadInit => Shape
  BY IdleFacts, EntryFacts DEF ReadInit, Init, Shape, Pcs

LEMMA ShapeStep == Shape /\ InvNumbers /\ [ReadNext]_readVars => Shape'
  <1> SUFFICES ASSUME Shape, InvNumbers, [ReadNext]_readVars PROVE Shape'
    OBVIOUS
  <1> USE DEF Goto
  <1>1. CASE Swap
    BY <1>1, EntryFacts, OverFacts DEF Swap, Shape
  <1>2. ASSUME NEW t \in Threads, Write(t) PROVE Shape'
    <2>1. PICK k \in Keys, n \in (1..MaxSeq) \ called, dead \in BOOLEAN, len \in ValueLens :
             /\ op' = [op EXCEPT ![t].key = k,
                                 ![t].rec = [seq |-> n, tombstone |-> dead,
                                             len |-> IF dead THEN 0 ELSE len]]
             /\ called' = called \cup {n}
             /\ raced' = IF \E u \in Writers : Applying(u, k) THEN raced \cup {k} ELSE raced
      BY <1>2 DEF Write, ApplyBegin
    <2>2. [seq |-> n, tombstone |-> dead, len |-> IF dead THEN 0 ELSE len] \in Entries
      BY DEF Entries
    <2>3. op' \in [Threads -> Ops]
      BY <2>1, <2>2 DEF Shape, Ops
    <2>4. pc' \in [Threads -> Pcs]
      BY <1>2 DEF Write, ApplyBegin, Shape, Pcs, Busy
    <2> QED  BY <1>2, <2>1, <2>3, <2>4 DEF Write, ApplyBegin, pathVars, Shape
  <1>3. ASSUME NEW t \in Threads, WriteStep(t) PROVE Shape'
    <2>1. /\ Key(t) \in Keys /\ Rec(t) \in Entries
          /\ \A k \in Keys : map[k] \in Entries /\ done[k] \in Entries
          /\ \A e \in Entries : EncodedSize(e) \in Nat
      BY ShapeFacts, SizeFacts
    <2>2. CASE ReadOldSize(t)
      BY <1>3, <2>1, <2>2 DEF WriteStep, pathVars, ReadOldSize, Shape, Pcs, Busy, Ops
    <2>3. CASE SearchFree(t)
      BY <1>3, <2>3 DEF WriteStep, pathVars, SearchFree, Shape, Pcs, Busy
    <2>4. CASE SearchReplace(t)
      BY <1>3, <2>1, <2>4 DEF WriteStep, pathVars, SearchReplace, Shape, Pcs, Busy, Ops
    <2>5. CASE SearchObsolete(t)
      <3>1. Newer(Rec(t), done[Key(t)]) \in Entries
        BY <2>1, NewerFacts
      <3> QED  BY <1>3, <2>1, <2>5, <3>1, IdleFacts
               DEF WriteStep, pathVars, SearchObsolete, Return, Shape, Pcs
    <2>6. CASE Remove(t)
      BY <1>3, <2>1, <2>6, EntryFacts DEF WriteStep, pathVars, Remove, Shape, Pcs, Busy
    <2>7. CASE Insert(t)
      BY <1>3, <2>1, <2>7 DEF WriteStep, pathVars, Insert, Shape, Pcs, Busy
    <2>8. CASE Account(t)
      <3>1. Newer(Rec(t), done[Key(t)]) \in Entries
        BY <2>1, NewerFacts
      <3>2. bytes' \in Nat
        BY <2>1, <2>8, ShapeFacts DEF Account, Minus, Shape
      <3> QED  BY <1>3, <2>1, <2>8, <3>1, <3>2, IdleFacts
               DEF WriteStep, pathVars, Account, Return, Shape, Pcs
    <2> QED  BY <1>3, <2>2, <2>3, <2>4, <2>5, <2>6, <2>7, <2>8 DEF WriteStep, Apply
  <1>4. ASSUME NEW t \in Threads, Read(t) PROVE Shape'
    <2>1. op' \in [Threads -> Ops]
      <3>1. PICK k \in Keys : op' = [op EXCEPT ![t].key = k, ![t].node = done[k]]
        BY <1>4 DEF Read, GetBegin
      <3>2. done[k] \in Entries
        BY DEF Shape
      <3> QED  BY <3>1, <3>2 DEF Shape, Ops
    <2>2. pc' \in [Threads -> Pcs]
      BY <1>4 DEF Read, GetBegin, Shape, Pcs
    <2> QED  BY <1>4, <2>1, <2>2 DEF Read, pathVars, GetBegin, Shape
  <1>5. ASSUME NEW t \in Threads, LookActive(t) PROVE Shape'
    <2>1. t \in Readers
      BY <1>5 DEF LookActive, Get, At, InvNumbers
    <2>2. Key(t) \in Keys /\ map[Key(t)] \in Entries
      BY ShapeFacts
    <2> QED  BY <1>5, <2>1, <2>2 DEF LookActive, Get, Shape, Pcs, Ops
  <1>6. ASSUME NEW t \in Threads, LookBelow(t) PROVE Shape'
    <2>1. Key(t) \in Keys /\ below[Key(t)] \in Entries
      BY ShapeFacts
    <2>2. op' \in [Threads -> Ops]
      BY <1>6, <2>1 DEF LookBelow, Shape, Ops
    <2>3. pc' \in [Threads -> Pcs]
      BY <1>6 DEF LookBelow, Shape, Pcs
    <2> QED  BY <1>6, <2>2, <2>3 DEF LookBelow, pathVars, Shape
  <1>7. ASSUME NEW t \in Threads, ReadReturn(t) PROVE Shape'
    BY <1>7, IdleFacts DEF ReadReturn, Return, Shape, Pcs
  <1>8. CASE UNCHANGED readVars
    BY <1>8 DEF readVars, vars, pathVars, Shape
  <1> QED  BY <1>1, <1>2, <1>3, <1>4, <1>5, <1>6, <1>7, <1>8 DEF ReadNext
-------------------------------------------------------------------------------
(***************************************************************************)
(* What each step does, at the thread that takes it and at its key.        *)
(***************************************************************************)
Stays(t) == UNCHANGED <<called, raced, below, overlapped>> /\ Key(t)' = Key(t) /\ Rec(t)' = Rec(t)
Leaves(t) == /\ UNCHANGED <<called, raced, below, overlapped>> /\ pc'[t] = "idle"
             /\ done'[Key(t)] = Newer(Rec(t), done[Key(t)])
             /\ \A k \in Keys : k # Key(t) => done'[k] = done[k]

LEMMA WriteEffect ==
    ASSUME Shape, NEW t \in Threads, Write(t)
    PROVE  /\ t \in Writers /\ pc[t] = "idle" /\ pc'[t] = "size"
           /\ Key(t)' \in Keys /\ Present(Rec(t)') /\ Rec(t)'.seq \notin called
           /\ called' = called \cup {Rec(t)'.seq} /\ \A k \in Keys : below[k].seq < Rec(t)'.seq
           /\ raced' = IF \E u \in Writers : Applying(u, Key(t)') THEN raced \cup {Key(t)'} ELSE raced
           /\ UNCHANGED <<map, bytes, done, below, overlapped>>
  <1>1. PICK k \in Keys, n \in (1..MaxSeq) \ called, dead \in BOOLEAN, len \in ValueLens :
           /\ op' = [op EXCEPT ![t].key = k,
                               ![t].rec = [seq |-> n, tombstone |-> dead,
                                           len |-> IF dead THEN 0 ELSE len]]
           /\ called' = called \cup {n}
           /\ raced' = IF \E u \in Writers : Applying(u, k) THEN raced \cup {k} ELSE raced
    BY DEF Write, ApplyBegin
  <1>2. op'[t].key = k /\ op'[t].rec.seq = n
    BY <1>1 DEF Shape, Ops
  <1>3. Present(op'[t].rec)
    BY <1>2 DEF Present, Absent
  <1>4. /\ t \in Writers /\ pc[t] = "idle" /\ pc'[t] = "size"
        /\ UNCHANGED <<map, bytes, done, below, overlapped>>
    BY DEF Write, ApplyBegin, At, Goto, pathVars, Shape
  <1>5. \A j \in Keys : below[j].seq < n
    <2>1. \A j \in Keys : below[j].seq \in Nat /\ op'[t].rec.seq > below[j].seq
      BY ShapeFacts DEF Write
    <2> QED  BY <1>2, <2>1
  <1> QED  BY <1>1, <1>2, <1>3, <1>4, <1>5 DEF Key, Rec

LEMMA SizeEffect ==
    ASSUME Shape, NEW t \in Threads, ReadOldSize(t), UNCHANGED pathVars
    PROVE  /\ pc[t] = "size" /\ pc'[t] = "search" /\ op'[t].old = EncodedSize(map[Key(t)])
           /\ Stays(t) /\ UNCHANGED <<map, bytes, done>>
  BY DEF ReadOldSize, Stays, Key, Rec, At, Goto, pathVars, Shape, Ops

LEMMA FreeEffect ==
    ASSUME Shape, NEW t \in Threads, SearchFree(t), UNCHANGED pathVars
    PROVE  /\ pc[t] = "search" /\ pc'[t] = "insert" /\ ~Present(map[Key(t)])
           /\ op' = op /\ Stays(t) /\ UNCHANGED <<map, bytes, done>>
  BY DEF SearchFree, Stays, Key, Rec, At, Goto, pathVars, Shape

LEMMA ReplaceEffect ==
    ASSUME Shape, NEW t \in Threads, SearchReplace(t), UNCHANGED pathVars
    PROVE  /\ pc[t] = "search" /\ pc'[t] = "remove"
           /\ Present(map[Key(t)]) /\ op'[t].node = map[Key(t)] /\ op'[t].old = op[t].old
           /\ Rec(t).seq >= map[Key(t)].seq
           /\ Stays(t) /\ UNCHANGED <<map, bytes, done>>
  BY DEF SearchReplace, Replaces, Stays, Key, Rec, At, Goto, pathVars, Shape, Ops

LEMMA ObsoleteEffect ==
    ASSUME Shape, NEW t \in Threads, SearchObsolete(t), UNCHANGED pathVars
    PROVE  /\ pc[t] = "search" /\ Present(map[Key(t)]) /\ map[Key(t)].seq > Rec(t).seq
           /\ Leaves(t) /\ UNCHANGED <<map, bytes>>
  <1>1. Rec(t).seq \in Nat /\ map[Key(t)].seq \in Nat /\ Key(t) \in Keys
    BY ShapeFacts
  <1> QED  BY <1>1 DEF SearchObsolete, Replaces, Leaves, At, Goto, Return, pathVars, Shape

LEMMA RemoveEffect ==
    ASSUME Shape, NEW t \in Threads, Remove(t), UNCHANGED pathVars
    PROVE  /\ pc[t] = "remove" /\ pc'[t] = "search"
           /\ map'[Key(t)] = IF map[Key(t)] = op[t].node THEN Absent ELSE map[Key(t)]
           /\ \A k \in Keys : k # Key(t) => map'[k] = map[k]
           /\ op' = op /\ Stays(t) /\ UNCHANGED <<bytes, done>>
  <1>1. Key(t) \in Keys
    BY ShapeFacts
  <1> QED  BY <1>1 DEF Remove, Stays, Key, Rec, At, Goto, pathVars, Shape

LEMMA InsertEffect ==
    ASSUME Shape, NEW t \in Threads, Insert(t), UNCHANGED pathVars
    PROVE  /\ pc[t] = "insert" /\ op' = op /\ Stays(t) /\ UNCHANGED <<bytes, done>>
           /\ \/ Present(map[Key(t)]) /\ pc'[t] = "search" /\ UNCHANGED map
              \/ /\ ~Present(map[Key(t)]) /\ pc'[t] = "account" /\ map'[Key(t)] = Rec(t)
                 /\ \A k \in Keys : k # Key(t) => map'[k] = map[k]
  <1>1. Key(t) \in Keys
    BY ShapeFacts
  <1> QED  BY <1>1 DEF Insert, Stays, Key, Rec, At, Goto, pathVars, Shape

LEMMA AccountEffect ==
    ASSUME Shape, NEW t \in Threads, Account(t), UNCHANGED pathVars
    PROVE  /\ pc[t] = "account" /\ bytes' = Minus(bytes, op[t].old) + EncodedSize(Rec(t))
           /\ Leaves(t) /\ UNCHANGED map
  <1>1. Key(t) \in Keys
    BY ShapeFacts
  <1> QED  BY <1>1 DEF Account, Leaves, At, Goto, Return, pathVars, Shape

\* The steps of a get change nothing but the reader.
LEMMA GetEffect ==
    ASSUME Shape, NEW t \in Threads, Read(t) \/ LookActive(t) \/ LookBelow(t) \/ ReadReturn(t)
    PROVE  /\ pc[t] \notin Busy /\ pc'[t] \notin Busy
           /\ UNCHANGED <<map, bytes, called, done, raced, below>>
  BY DEF Read, LookActive, LookBelow, ReadReturn, Answered, Return, GetBegin, Get, At, Goto,
         pathVars, Shape, Busy

\* A swap is taken when nobody is in a call.
LEMMA SwapEffect ==
    ASSUME Shape, Swap
    PROVE  /\ \A t \in Threads : pc[t] = "idle" /\ pc'[t] = "idle"
           /\ \A k \in Keys : map'[k] = Absent /\ below'[k] = Over(map[k], below[k])
           /\ bytes' = 0 /\ raced' = {} /\ UNCHANGED <<pc, op, called, done, overlapped>>
  BY DEF Swap, At, Shape
-------------------------------------------------------------------------------
(***************************************************************************)
(* Sequence numbers.                                                       *)
(***************************************************************************)
\* What a step may do to the numbers: one is taken by a thread that was idle, or one is
\* given up, or nothing happens to them.
Takes(t) == /\ ~Applies(t) /\ Applies(t)' /\ t \in Writers /\ UNCHANGED <<map, done, below>>
            /\ Present(Rec(t)') /\ Rec(t)'.seq \notin called
            /\ called' = called \cup {Rec(t)'.seq} /\ \A k \in Keys : below[k].seq < Rec(t)'.seq
GivesUp(t) == Applies(t) /\ ~Applies(t)' /\ Leaves(t)
Holds(t) == /\ Applies(t) <=> Applies(t)'
            /\ Applies(t) => Rec(t)' = Rec(t)
            /\ UNCHANGED <<called, done, below>>

LEMMA NumbersEffect ==
    ASSUME Shape, NEW t \in Threads, Step(t)
    PROVE  Takes(t) \/ GivesUp(t) \/ Holds(t)
  <1> USE DEF Applies, Busy
  <1>1. CASE Write(t)
    BY <1>1, WriteEffect DEF Takes
  <1>2. CASE WriteStep(t)
    <2>1. UNCHANGED pathVars
      BY <1>2 DEF WriteStep
    <2>2. CASE ReadOldSize(t)
      BY <2>1, <2>2, SizeEffect DEF Holds, Stays
    <2>3. CASE SearchFree(t)
      BY <2>1, <2>3, FreeEffect DEF Holds, Stays
    <2>4. CASE SearchReplace(t)
      BY <2>1, <2>4, ReplaceEffect DEF Holds, Stays
    <2>5. CASE SearchObsolete(t)
      BY <2>1, <2>5, ObsoleteEffect DEF GivesUp, Leaves
    <2>6. CASE Remove(t)
      BY <2>1, <2>6, RemoveEffect DEF Holds, Stays
    <2>7. CASE Insert(t)
      BY <2>1, <2>7, InsertEffect DEF Holds, Stays
    <2>8. CASE Account(t)
      BY <2>1, <2>8, AccountEffect DEF GivesUp, Leaves
    <2> QED  BY <1>2, <2>2, <2>3, <2>4, <2>5, <2>6, <2>7, <2>8 DEF WriteStep, Apply
  <1>3. CASE Read(t) \/ LookActive(t) \/ LookBelow(t) \/ ReadReturn(t)
    BY <1>3, GetEffect DEF Holds
  <1> QED  BY <1>1, <1>2, <1>3 DEF Step

LEMMA InitNumbers == ReadInit => InvNumbers
  BY DEF Absent, ReadInit, Init, InvNumbers, Applies, Busy

\* A thread is in a put or delete only if it writes, and in a get only if it reads.
LEMMA RolesStep ==
    ASSUME Shape, InvNumbers, NEW t \in Threads, Step(t)
    PROVE  /\ Applies(t)' => t \in Writers
           /\ pc'[t] \in {"get", "got", "answered"} => t \in Readers
  <1> USE DEF Applies, Busy, At, Goto, Return
  <1>1. t \in Writers /\ t \in Readers => FALSE
    BY MemTableAssumption
  <1>2. /\ pc[t] \in Busy => t \in Writers
        /\ pc[t] \in {"get", "got", "answered"} => t \in Readers
    BY DEF InvNumbers
  <1>3. CASE Write(t) \/ WriteStep(t)
    BY <1>2, <1>3 DEF Write, WriteStep, ApplyBegin, Apply, ReadOldSize, SearchFree, SearchReplace,
       SearchObsolete, Remove, Insert, Account, Shape
  <1>4. CASE Read(t) \/ LookActive(t) \/ LookBelow(t) \/ ReadReturn(t)
    BY <1>2, <1>4 DEF Read, LookActive, LookBelow, ReadReturn, Answered, GetBegin, Get, Shape
  <1> QED  BY <1>3, <1>4 DEF Step

LEMMA NumbersStep ==
    ASSUME Shape, Shape', InvNumbers, InvOrigin, InvCovered, [ReadNext]_readVars
    PROVE  InvNumbers'
  <1>1. CASE Swap
    BY <1>1, SwapEffect DEF InvNumbers, Applies, Busy
  <1>2. ASSUME NEW t \in Threads, Step(t) PROVE InvNumbers'
    <2>1. \A u \in Threads : u # t => /\ Applies(u)' = Applies(u) /\ Rec(u)' = Rec(u)
                                      /\ pc'[u] = pc[u]
      BY <1>2, OthersStay DEF Applies, Rec
    <2>2. \A u \in Threads : Applies(u) => /\ u \in Writers /\ Rec(u).seq \in called
                                           /\ Present(Rec(u)) /\ Rec(u).seq \in Nat
      BY ShapeFacts DEF InvNumbers
    <2>3. \A u \in Threads : /\ Applies(u)' => u \in Writers
                             /\ pc'[u] \in {"get", "got", "answered"} => u \in Readers
      BY <1>2, <2>1, <2>2, RolesStep DEF InvNumbers
    <2>4. CASE Takes(t)
      <3>1. \A u \in Threads : Applies(u)' => Rec(u)'.seq \in called' /\ Present(Rec(u)')
        BY <2>1, <2>2, <2>4 DEF Takes
      <3>2. ASSUME NEW u \in Threads, NEW v \in Threads, u # v, Applies(u)', Applies(v)'
            PROVE  Rec(u)'.seq # Rec(v)'.seq
        BY <2>1, <2>2, <2>4, <3>2 DEF Takes, InvNumbers
      <3>3. ASSUME NEW k \in Keys, NEW u \in Threads, Applies(u)'
            PROVE  done'[k].seq # Rec(u)'.seq /\ below'[k].seq < Rec(u)'.seq
        <4>1. CASE u # t
          BY <2>1, <2>4, <3>3, <4>1 DEF Takes, InvNumbers
        <4>2. CASE u = t
          <5>1. done[k].seq \in called \/ done[k].seq = 0
            BY DEF InvNumbers
          <5>2. Rec(t)'.seq # 0
            BY <2>4, EntryFacts, ShapeFacts DEF Takes
          <5> QED  BY <2>4, <4>2, <5>1, <5>2 DEF Takes
        <4> QED  BY <4>1, <4>2
      <3>4. \A k \in Keys : done'[k].seq \in called' \cup {0}
        BY <2>4 DEF Takes, InvNumbers
      <3> QED  BY <2>3, <3>1, <3>2, <3>3, <3>4 DEF InvNumbers
    <2>5. CASE GivesUp(t)
      <3>1. \A u \in Threads : Applies(u)' => /\ u # t /\ Applies(u) /\ Rec(u)' = Rec(u)
        BY <2>1, <2>5 DEF GivesUp
      <3>2. \A k \in Keys : done'[k] = done[k] \/ done'[k] = Rec(t)
        BY <2>5, NewerFacts, ShapeFacts DEF GivesUp, Leaves
      <3>3. UNCHANGED <<called, below>> /\ Applies(t)
        BY <2>5 DEF GivesUp, Leaves
      <3> QED  BY <2>3, <3>1, <3>2, <3>3 DEF InvNumbers
    <2>6. CASE Holds(t)
      <3>1. \A u \in Threads : /\ Applies(u)' = Applies(u)
                               /\ Applies(u) => Rec(u)' = Rec(u)
        BY <2>1, <2>6 DEF Holds, Applies
      <3> QED  BY <2>3, <2>6, <3>1 DEF InvNumbers, Holds
    <2> QED  BY <1>2, <2>4, <2>5, <2>6, NumbersEffect
  <1>3. CASE UNCHANGED readVars
    BY <1>3 DEF readVars, vars, pathVars, InvNumbers, Applies, Rec
  <1> QED  BY <1>1, <1>2, <1>3 DEF ReadNext, Step
-------------------------------------------------------------------------------
(***************************************************************************)
(* Whatever is removed is owed.                                            *)
(***************************************************************************)
\* An apply that keeps its number, and is still before its insertion, owes what it owed.
LEMMA PendingStays ==
    ASSUME NEW u, NEW k, NEW n, Pending(u, k), Rec(u).seq >= n,
           pc'[u] \in Busy, pc'[u] # "account", Key(u)' = Key(u), Rec(u)' = Rec(u)
    PROVE  Pending(u, k)' /\ Rec(u)'.seq >= n
  BY DEF Pending, Applying, Key

\* No step uncovers a number.
LEMMA CoveredStays ==
    ASSUME Shape, Shape', InvNumbers, InvCovered, ReadNext, NEW k \in Keys, NEW n \in Nat, Covered(k, n)
    PROVE  Covered(k, n)'
  <1> USE DEF Busy
  <1>1. /\ map[k] \in Entries /\ below[k] \in Entries /\ map[k].seq \in Nat /\ below[k].seq \in Nat
        /\ \A u \in Threads : Rec(u).seq \in Nat /\ Rec(u) \in Entries /\ Key(u) \in Keys
    <2>1. map[k] \in Entries /\ below[k] \in Entries
      BY DEF Shape
    <2>2. \A u \in Threads : Rec(u).seq \in Nat /\ Rec(u) \in Entries /\ Key(u) \in Keys
      BY ShapeFacts
    <2> QED  BY <2>1, <2>2, EntryFacts
  <1>2. CASE Swap
    <2>1. map'[k] = Absent /\ below'[k] = Over(map[k], below[k])
      BY <1>2, SwapEffect
    <2>2. \A u \in Threads : ~Pending(u, k)
      BY <1>2, SwapEffect DEF Pending, Applying
    <2>3. Over(map'[k], below'[k]) = Over(map[k], below[k])
      BY <2>1 DEF Over, Present
    <2> QED  BY <2>2, <2>3 DEF Covered
  <1>3. ASSUME NEW t \in Threads, Step(t) PROVE Covered(k, n)'
    <2>1. ASSUME NEW u \in Threads, u # t, Pending(u, k), Rec(u).seq >= n
          PROVE  Covered(k, n)'
      <3>1. pc'[u] = pc[u] /\ Key(u)' = Key(u) /\ Rec(u)' = Rec(u)
        BY <1>3, <2>1, OthersStay DEF Key, Rec
      <3>2. Pending(u, k)' /\ Rec(u)'.seq >= n
        BY <2>1, <3>1, PendingStays DEF Pending, Applying
      <3> QED  BY <3>2 DEF Covered
    <2>2. CASE Over(map[k], below[k]).seq >= n /\ map'[k] = map[k] /\ UNCHANGED below
      BY <2>2 DEF Covered
    <2>3. ASSUME Pending(t, k), Rec(t).seq >= n, pc'[t] \in Busy, pc'[t] # "account", Stays(t)
          PROVE  Covered(k, n)'
      <3>1. Pending(t, k)' /\ Rec(t)'.seq >= n
        BY <2>3, PendingStays DEF Stays
      <3> QED  BY <3>1 DEF Covered
    <2>4. CASE Write(t)
      <3>1. UNCHANGED <<map, below>> /\ ~Pending(t, k)
        BY <2>4, WriteEffect DEF Pending, Applying
      <3> QED  BY <2>1, <2>2, <3>1 DEF Covered
    <2>5. CASE Read(t) \/ LookActive(t) \/ LookBelow(t) \/ ReadReturn(t)
      <3>1. UNCHANGED <<map, below>> /\ ~Pending(t, k)
        BY <2>5, GetEffect DEF Pending, Applying
      <3> QED  BY <2>1, <2>2, <3>1 DEF Covered
    <2>6. CASE WriteStep(t)
      <3>1. UNCHANGED pathVars
        BY <2>6 DEF WriteStep
      <3>2. CASE ReadOldSize(t)
        BY <2>1, <2>2, <2>3, <3>1, <3>2, SizeEffect DEF Covered, Stays
      <3>3. CASE SearchFree(t)
        BY <2>1, <2>2, <2>3, <3>1, <3>3, FreeEffect DEF Covered, Stays
      <3>4. CASE SearchReplace(t)
        BY <2>1, <2>2, <2>3, <3>1, <3>4, ReplaceEffect DEF Covered, Stays
      <3>5. CASE SearchObsolete(t)
        <4>1. /\ Present(map[Key(t)]) /\ map[Key(t)].seq > Rec(t).seq
              /\ UNCHANGED <<map, below>>
          BY <3>1, <3>5, ObsoleteEffect DEF Leaves
        <4>2. ASSUME Pending(t, k), Rec(t).seq >= n PROVE Covered(k, n)'
          <5>1. k = Key(t)
            BY <4>2 DEF Pending, Applying
          <5>2. Over(map'[k], below'[k]) = map[k]
            BY <4>1, <5>1 DEF Over
          <5> QED  BY <1>1, <4>1, <4>2, <5>1, <5>2 DEF Covered
        <4> QED  BY <2>1, <2>2, <4>1, <4>2 DEF Covered
      <3>6. CASE Remove(t)
        <4>1. /\ pc[t] = "remove" /\ pc'[t] = "search" /\ Stays(t)
              /\ map'[Key(t)] = IF map[Key(t)] = op[t].node THEN Absent ELSE map[Key(t)]
              /\ \A j \in Keys : j # Key(t) => map'[j] = map[j]
          BY <3>1, <3>6, RemoveEffect
        <4>2. t \in Writers
          BY <4>1 DEF InvNumbers, Applies
        <4>3. CASE map'[k] = map[k]
          BY <2>1, <2>2, <2>3, <4>1, <4>3 DEF Covered, Stays
        <4>4. CASE k = Key(t) /\ map[k] = op[t].node /\ map'[k] = Absent
          <5>1. Pending(t, k)
            BY <4>1, <4>2, <4>4 DEF Pending, Applying
          <5>2. Rec(t).seq >= map[k].seq
            BY <4>1, <4>4 DEF InvCovered, At
          <5>3. CASE Rec(t).seq >= n
            BY <2>3, <4>1, <5>1, <5>3
          <5>4. CASE ~(Rec(t).seq >= n) /\ Over(map[k], below[k]).seq >= n
            <6>1. ~Present(map[k]) \/ map[k].seq >= n
              BY <5>4 DEF Over
            <6>2. ~Present(map[k])
              BY <1>1, <5>2, <5>4, <6>1
            <6>3. map'[k] = map[k]
              BY <4>4, <6>2 DEF Present
            <6> QED  BY <2>2, <4>1, <5>4, <6>3 DEF Stays
          <5> QED  BY <2>1, <5>3, <5>4 DEF Covered
        <4> QED  BY <4>1, <4>3, <4>4
      <3>7. CASE Insert(t)
        <4>1. pc[t] = "insert" /\ Stays(t)
          BY <3>1, <3>7, InsertEffect
        <4>2. CASE pc'[t] = "search" /\ UNCHANGED map
          BY <2>1, <2>2, <2>3, <4>1, <4>2 DEF Covered, Stays
        <4>3. CASE /\ ~Present(map[Key(t)]) /\ pc'[t] = "account" /\ map'[Key(t)] = Rec(t)
                   /\ \A j \in Keys : j # Key(t) => map'[j] = map[j]
          <5>1. Applies(t) /\ Present(Rec(t)) /\ below[k].seq < Rec(t).seq
            BY <4>1 DEF InvNumbers, Applies
          <5>2. CASE k = Key(t)
            <6>1. Over(map'[k], below'[k]).seq = Rec(t).seq
              BY <4>3, <5>1, <5>2 DEF Over
            <6>2. Over(map[k], below[k]).seq = below[k].seq
              BY <4>3, <5>2 DEF Over
            <6>3. Rec(t).seq >= n => Covered(k, n)'
              BY <6>1 DEF Covered
            <6>4. Over(map[k], below[k]).seq >= n => Covered(k, n)'
              BY <1>1, <5>1, <6>2, <6>3
            <6> QED  BY <2>1, <6>3, <6>4 DEF Covered
          <5>3. CASE k # Key(t)
            <6>1. ~Pending(t, k) /\ map'[k] = map[k] /\ UNCHANGED below
              BY <4>1, <4>3, <5>3 DEF Pending, Applying, Stays
            <6> QED  BY <2>1, <2>2, <6>1 DEF Covered
          <5> QED  BY <5>2, <5>3
        <4> QED  BY <3>1, <3>7, <4>2, <4>3, InsertEffect
      <3>8. CASE Account(t)
        <4>1. UNCHANGED <<map, below>> /\ ~Pending(t, k)
          BY <3>1, <3>8, AccountEffect DEF Leaves, Pending
        <4> QED  BY <2>1, <2>2, <4>1 DEF Covered
      <3> QED  BY <2>6, <3>2, <3>3, <3>4, <3>5, <3>6, <3>7, <3>8 DEF WriteStep, Apply
    <2> QED  BY <1>3, <2>4, <2>5, <2>6 DEF Step
  <1> QED  BY <1>2, <1>3 DEF ReadNext, Step

LEMMA InitCovered == ReadInit => InvCovered
  BY DEF ReadInit, Init, InvCovered, Covered, Over, Present, Absent, At

LEMMA CoveredStep ==
    ASSUME Shape, Shape', InvNumbers, InvCovered, [ReadNext]_readVars
    PROVE  InvCovered'
  <1> USE DEF Busy, At
  <1>1. CASE ReadNext
    <2>1. \A k \in Keys : done[k].seq \in Nat /\ Covered(k, done[k].seq)
      <3>1. \A k \in Keys : done[k] \in Entries
        BY DEF Shape
      <3> QED  BY <3>1, EntryFacts DEF InvCovered
    <2>2. \A t \in Threads : Rec(t).seq \in Nat /\ Rec(t) \in Entries /\ Key(t) \in Keys
      BY ShapeFacts
    <2>3. ASSUME NEW k \in Keys PROVE Covered(k, done[k].seq)'
      <3>1. CASE done'[k] = done[k]
        <4>1. PICK n \in Nat : n = done[k].seq /\ Covered(k, n)
          BY <2>1
        <4>2. Covered(k, n)'
          BY <1>1, <4>1, CoveredStays
        <4> QED  BY <3>1, <4>1, <4>2 DEF Covered
      <3>2. ASSUME NEW t \in Threads, Step(t), done'[k] # done[k] PROVE Covered(k, done[k].seq)'
        <4>1. WriteStep(t) /\ UNCHANGED pathVars
          BY <3>2, WriteEffect, GetEffect DEF Step, WriteStep
        <4>2. Leaves(t) /\ (SearchObsolete(t) \/ Account(t))
          BY <3>2, <4>1, SizeEffect, FreeEffect, ReplaceEffect, ObsoleteEffect, RemoveEffect,
             InsertEffect, AccountEffect DEF WriteStep, Apply
        <4>3. k = Key(t) /\ done'[k] = Rec(t)
          <5>1. k = Key(t) /\ done'[k] = Newer(Rec(t), done[k])
            BY <3>2, <4>2 DEF Leaves
          <5> QED  BY <3>2, <5>1 DEF Newer
        <4>4. CASE SearchObsolete(t)
          <5>1. Present(map[k]) /\ map[k].seq > Rec(t).seq /\ UNCHANGED <<map, below>>
            BY <4>1, <4>3, <4>4, ObsoleteEffect DEF pathVars
          <5>2. map[k].seq \in Nat /\ Rec(t).seq \in Nat
            BY ShapeFacts
          <5>3. Over(map'[k], below'[k]).seq >= Rec(t).seq
            BY <5>1, <5>2 DEF Over
          <5> QED  BY <4>3, <5>3 DEF Covered
        <4>5. CASE Account(t)
          <5>1. PICK n \in Nat : n = Rec(t).seq /\ Covered(k, n)
            BY <2>2, <4>1, <4>3, <4>5, AccountEffect DEF InvCovered
          <5>2. Covered(k, n)'
            BY <1>1, <5>1, CoveredStays
          <5> QED  BY <4>3, <5>1, <5>2 DEF Covered
        <4> QED  BY <4>2, <4>4, <4>5
      <3>3. CASE Swap
        BY <3>1, <3>3, SwapEffect
      <3> QED  BY <1>1, <3>1, <3>2, <3>3 DEF ReadNext, Step
    <2>4. ASSUME NEW u \in Threads, pc'[u] = "account" PROVE Covered(Key(u), Rec(u).seq)'
      <3>1. CASE pc[u] = "account" /\ Key(u)' = Key(u) /\ Rec(u)' = Rec(u)
        <4>1. Covered(Key(u), Rec(u).seq)
          BY <3>1 DEF InvCovered
        <4>2. PICK k \in Keys, n \in Nat : k = Key(u) /\ n = Rec(u).seq /\ Covered(k, n)
          BY <2>2, <4>1
        <4>3. Covered(k, n)'
          BY <1>1, <4>2, CoveredStays
        <4> QED  BY <3>1, <4>2, <4>3 DEF Covered, Pending, Applying
      <3>2. ASSUME NEW t \in Threads, Step(t), pc[u] # "account" \/ t = u
            PROVE  Covered(Key(u), Rec(u).seq)'
        <4>1. u = t
          BY <2>4, <3>2, OthersStay
        <4>2. Insert(u) /\ UNCHANGED pathVars
          BY <2>4, <3>2, <4>1, WriteEffect, GetEffect, SizeEffect, FreeEffect, ReplaceEffect, ObsoleteEffect,
             RemoveEffect, AccountEffect DEF Step, WriteStep, Apply, Leaves
        <4>3. map'[Key(u)] = Rec(u) /\ Stays(u) /\ Applies(u)
          BY <2>4, <4>2, InsertEffect DEF Applies
        <4>4. Present(Rec(u))
          BY <4>3 DEF InvNumbers
        <4>5. Over(map'[Key(u)'], below'[Key(u)']) = Rec(u)' /\ Rec(u)'.seq \in Nat
          BY <2>2, <4>3, <4>4 DEF Over, Stays
        <4> QED  BY <4>5 DEF Covered
      <3>3. CASE Swap
        BY <2>4, <3>3, SwapEffect
      <3>4. ASSUME NEW t \in Threads, Step(t), pc[u] = "account", t # u
            PROVE  Key(u)' = Key(u) /\ Rec(u)' = Rec(u)
        BY <3>4, OthersStay DEF Key, Rec
      <3> QED  BY <1>1, <3>1, <3>2, <3>3, <3>4 DEF ReadNext, Step
    <2>5. ASSUME NEW u \in Threads, pc'[u] = "remove" PROVE Rec(u)'.seq >= op'[u].node.seq
      <3>1. ASSUME NEW t \in Threads, Step(t) PROVE Rec(u)'.seq >= op'[u].node.seq
        <4>1. CASE t # u
          BY <2>5, <3>1, <4>1, OthersStay DEF InvCovered, Rec
        <4>2. CASE t = u
          <5>1. SearchReplace(u) /\ UNCHANGED pathVars
            BY <2>5, <3>1, <4>2, WriteEffect, GetEffect, SizeEffect, FreeEffect, ObsoleteEffect,
               RemoveEffect, InsertEffect, AccountEffect DEF Step, WriteStep, Apply, Leaves
          <5> QED  BY <5>1, ReplaceEffect DEF Stays
        <4> QED  BY <4>1, <4>2
      <3>2. CASE Swap
        BY <2>5, <3>2, SwapEffect
      <3> QED  BY <1>1, <3>1, <3>2 DEF ReadNext, Step
    <2> QED  BY <2>3, <2>4, <2>5 DEF InvCovered
  <1>2. CASE UNCHANGED readVars
    BY <1>2 DEF readVars, vars, pathVars, InvCovered, Covered, Pending, Applying, Key, Rec
  <1> QED  BY <1>1, <1>2
-------------------------------------------------------------------------------
(***************************************************************************)
(* Nothing is newer than what has returned, or is about to.                *)
(***************************************************************************)
LEMMA NotAfterNewer ==
    ASSUME NEW e \in Entries, NEW d \in Entries, NEW r \in Entries,
           NotAfter(e, d), r.seq # d.seq
    PROVE  NotAfter(e, Newer(r, d))
  <1>1. e.seq \in Nat /\ d.seq \in Nat /\ r.seq \in Nat
    BY EntryFacts
  <1> QED  BY <1>1 DEF NotAfter, Newer

\* What is applied and not yet returned.
Returning(k) == \E t \in Threads : Applying(t, k) /\ At(t, "account") /\ map[k] = Rec(t)

LEMMA InitOrigin == ReadInit => InvOrigin
  BY DEF ReadInit, Init, InvOrigin, NotAfter, Present, Absent

LEMMA OriginStep ==
    ASSUME Shape, Shape', InvNumbers, InvOrigin, [ReadNext]_readVars
    PROVE  InvOrigin'
  <1> USE DEF Busy, At
  <1> SUFFICES ASSUME NEW k \in Keys
               PROVE  /\ NotAfter(below[k], done[k])'
                      /\ (~Present(map[k]) \/ NotAfter(map[k], done[k]) \/ Returning(k))'
    BY DEF InvOrigin, Returning
  <1>1. /\ map[k] \in Entries /\ below[k] \in Entries /\ done[k] \in Entries
        /\ NotAfter(below[k], done[k])
        /\ ~Present(map[k]) \/ NotAfter(map[k], done[k]) \/ Returning(k)
    BY DEF Shape, InvOrigin, Returning
  <1>2. CASE Swap
    <2>1. map'[k] = Absent /\ below'[k] = Over(map[k], below[k]) /\ UNCHANGED done
      BY <1>2, SwapEffect
    <2>2. ~Returning(k)
      BY <1>2, SwapEffect DEF Returning
    <2> QED  BY <1>1, <2>1, <2>2 DEF Over, Present
  <1>3. ASSUME NEW t \in Threads, Step(t)
        PROVE  /\ NotAfter(below[k], done[k])'
               /\ (~Present(map[k]) \/ NotAfter(map[k], done[k]) \/ Returning(k))'
    <2>1. Rec(t) \in Entries
      BY ShapeFacts
    <2>2. ASSUME NEW u \in Threads, u # t, Applying(u, k), pc[u] = "account", map[k] = Rec(u),
                 map'[k] = map[k]
          PROVE  Returning(k)'
      <3>1. pc'[u] = pc[u] /\ Key(u)' = Key(u) /\ Rec(u)' = Rec(u)
        BY <1>3, <2>2, OthersStay DEF Key, Rec
      <3> QED  BY <2>2, <3>1 DEF Returning, Applying
    <2>3. CASE /\ UNCHANGED <<done, below>> /\ pc[t] # "account"
               /\ map'[k] = map[k] \/ map'[k] = Absent
      <3>1. CASE map'[k] = map[k]
        <4>1. Returning(k) => Returning(k)'
          BY <2>2, <2>3, <3>1 DEF Returning
        <4> QED  BY <1>1, <2>3, <3>1, <4>1
      <3>2. CASE map'[k] = Absent
        <4>1. ~Present(map[k])' /\ UNCHANGED <<below, done>>
          BY <2>3, <3>2 DEF Present
        <4> QED  BY <1>1, <4>1
      <3> QED  BY <2>3, <3>1, <3>2
    <2>4. CASE Leaves(t) /\ UNCHANGED map /\ Applies(t)
      <3>1. UNCHANGED below /\ Rec(t).seq # done[k].seq
        BY <2>4 DEF Leaves, InvNumbers
      <3>2. CASE k # Key(t)
        <4>1. done'[k] = done[k]
          BY <2>4, <3>2 DEF Leaves
        <4> QED  BY <1>1, <2>2, <2>4, <3>1, <3>2, <4>1 DEF Returning, Applying, Key
      <3>3. CASE k = Key(t)
        <4>1. done'[k] = Newer(Rec(t), done[k])
          BY <2>4, <3>3 DEF Leaves
        <4>2. NotAfter(below[k], done'[k]) /\ NotAfter(Rec(t), done'[k])
          BY <1>1, <2>1, <3>1, <4>1, NotAfterNewer, NewerFacts
        <4>3. NotAfter(map[k], done[k]) => NotAfter(map[k], done'[k])
          BY <1>1, <2>1, <3>1, <4>1, NotAfterNewer
        <4> QED  BY <1>1, <2>2, <2>4, <3>1, <4>2, <4>3 DEF Returning
      <3> QED  BY <3>2, <3>3
    <2>5. CASE Write(t)
      <3>1. UNCHANGED <<map, done, below>> /\ pc[t] # "account"
        BY <2>5, WriteEffect
      <3> QED  BY <2>3, <3>1
    <2>6. CASE Read(t) \/ LookActive(t) \/ LookBelow(t) \/ ReadReturn(t)
      <3>1. UNCHANGED <<map, done, below>> /\ pc[t] # "account"
        BY <2>6, GetEffect
      <3> QED  BY <2>3, <3>1
    <2>7. CASE WriteStep(t)
      <3>1. UNCHANGED pathVars
        BY <2>7 DEF WriteStep
      <3>2. CASE ReadOldSize(t) \/ SearchFree(t) \/ SearchReplace(t)
        BY <2>3, <3>1, <3>2, SizeEffect, FreeEffect, ReplaceEffect DEF Stays
      <3>3. CASE SearchObsolete(t)
        BY <2>4, <3>1, <3>3, ObsoleteEffect DEF Applies
      <3>4. CASE Account(t)
        BY <2>4, <3>1, <3>4, AccountEffect DEF Applies
      <3>5. CASE Remove(t)
        BY <2>3, <3>1, <3>5, RemoveEffect DEF Stays
      <3>6. CASE Insert(t)
        <4>1. pc[t] = "insert" /\ op' = op /\ Stays(t) /\ UNCHANGED done
          BY <3>1, <3>6, InsertEffect
        <4>2. CASE k # Key(t) \/ UNCHANGED map
          BY <2>3, <3>1, <3>6, <4>1, <4>2, InsertEffect DEF Stays
        <4>3. CASE k = Key(t) /\ pc'[t] = "account" /\ map'[Key(t)] = Rec(t)
          <5>1. t \in Writers
            BY <4>1 DEF InvNumbers, Applies
          <5>2. Returning(k)'
            BY <4>1, <4>3, <5>1 DEF Returning, Applying, Stays
          <5> QED  BY <1>1, <4>1, <5>2 DEF Stays
        <4> QED  BY <3>1, <3>6, <4>2, <4>3, InsertEffect
      <3> QED  BY <2>7, <3>2, <3>3, <3>4, <3>5, <3>6 DEF WriteStep, Apply
    <2> QED  BY <1>3, <2>5, <2>6, <2>7 DEF Step
  <1>4. CASE UNCHANGED readVars
    <2>1. UNCHANGED <<map, done, below, pc, op>>
      BY <1>4 DEF readVars, vars, pathVars
    <2> QED  BY <1>1, <2>1 DEF Returning, Applying, Key, Rec
  <1> QED  BY <1>2, <1>3, <1>4 DEF ReadNext, Step
-------------------------------------------------------------------------------
(***************************************************************************)
(* One apply at a time of a key that is not raced.                         *)
(***************************************************************************)
AloneAt(k) ==
    /\ Present(map[k]) => map[k].seq >= done[k].seq
    /\ \A t \in Threads : Applying(t, k) => Alone(t, k)
    /\ \A t, u \in Threads : Applying(t, k) /\ Applying(u, k) => t = u

\* Whoever does not move applies what it did.
LEMMA OthersAlone ==
    ASSUME Shape, NEW t \in Threads, Step(t), NEW u \in Threads, u # t, NEW k
    PROVE  /\ Applying(u, k)' <=> Applying(u, k)
           /\ map'[k] = map[k] /\ Alone(u, k) => Alone(u, k)'
  BY OthersStay DEF Applying, Alone, Key, Rec

LEMMA InitAlone == ReadInit => InvAlone
  BY DEF ReadInit, Init, InvAlone, Present, Applying, Busy

\* A step of the only apply of a key.
LEMMA AloneOwn ==
    ASSUME Shape, Shape', InvNumbers, InvCovered, NEW t \in Threads, WriteStep(t), NEW k \in Keys,
           k = Key(t), AloneAt(k)
    PROVE  /\ Present(map'[k]) => map'[k].seq >= done'[k].seq
           /\ Applying(t, k)' => Alone(t, k)'
  <1> USE DEF Busy
  <1>1. UNCHANGED pathVars
    BY DEF WriteStep
  <1>2. /\ map[k] \in Entries /\ map[k].seq \in Nat /\ done[k].seq \in Nat /\ below[k].seq \in Nat
        /\ done[k] \in Entries /\ Rec(t) \in Entries /\ Rec(t).seq \in Nat
    <2>1. map[k] \in Entries /\ done[k] \in Entries /\ below[k] \in Entries /\ Rec(t) \in Entries
      BY ShapeFacts DEF Shape
    <2> QED  BY <2>1, EntryFacts
  <1>3. Applies(t) => /\ Applying(t, k) /\ Alone(t, k) /\ Present(Rec(t)) /\ below[k].seq < Rec(t).seq
    BY DEF InvNumbers, Applies, Applying, AloneAt
  <1>4. Present(map[k]) => map[k].seq >= done[k].seq
    BY DEF AloneAt
  <1>5. CASE ReadOldSize(t)
    BY <1>1, <1>4, <1>5, SizeEffect DEF Alone, Stays
  <1>6. CASE SearchFree(t)
    BY <1>1, <1>4, <1>6, FreeEffect DEF Alone, Stays, Present
  <1>7. CASE SearchReplace(t)
    <2>1. pc[t] = "search" /\ Present(map[k]) => EncodedSize(map[k]) = op[t].old
      BY <1>3 DEF Alone, Applies
    <2> QED  BY <1>1, <1>4, <1>7, <2>1, ReplaceEffect DEF Alone, Stays
  <1>8. CASE SearchObsolete(t)
    <2>1. done'[k] = Newer(Rec(t), done[k]) /\ UNCHANGED map /\ pc'[t] = "idle"
          /\ map[k].seq > Rec(t).seq
      BY <1>1, <1>8, ObsoleteEffect DEF Leaves
    <2>2. done'[k] = Rec(t) \/ done'[k] = done[k]
      BY <2>1 DEF Newer
    <2> QED  BY <1>2, <1>4, <2>1, <2>2 DEF Applying
  <1>9. CASE Remove(t)
    <2>1. pc[t] = "remove" /\ pc'[t] = "search" /\ UNCHANGED done
          /\ map'[k] = IF map[k] = op[t].node THEN Absent ELSE map[k]
      BY <1>1, <1>9, RemoveEffect
    <2>2. map'[k] = Absent
      BY <1>3, <2>1 DEF Alone, Applies
    <2> QED  BY <2>1, <2>2 DEF Alone, Present
  <1>10. CASE Insert(t)
    <2>1. pc[t] = "insert" /\ Stays(t) /\ UNCHANGED done
      BY <1>1, <1>10, InsertEffect
    <2>2. ~Present(map[k]) /\ Applying(t, k) /\ below[k].seq < Rec(t).seq
      BY <1>3, <2>1 DEF Alone, Applies, Present
    <2>3. pc'[t] = "account" /\ map'[k] = Rec(t)
      BY <1>1, <1>10, <2>2, InsertEffect
    <2>4. Rec(t).seq >= done[k].seq
      <3>1. CASE Over(map[k], below[k]).seq >= done[k].seq
        <4>1. below[k].seq >= done[k].seq
          BY <2>2, <3>1 DEF Over
        <4> QED  BY <1>2, <2>2, <4>1
      <3>2. ASSUME NEW u \in Threads, Pending(u, k), Rec(u).seq >= done[k].seq
            PROVE  Rec(t).seq >= done[k].seq
        <4>1. u = t
          BY <2>2, <3>2 DEF AloneAt, Pending
        <4> QED  BY <3>2, <4>1
      <3> QED  BY <3>1, <3>2 DEF InvCovered, Covered
    <2> QED  BY <2>1, <2>3, <2>4 DEF Alone, Stays
  <1>11. CASE Account(t)
    <2>1. done'[k] = Newer(Rec(t), done[k]) /\ UNCHANGED map /\ pc[t] = "account" /\ pc'[t] = "idle"
      BY <1>1, <1>11, AccountEffect DEF Leaves
    <2>2. done'[k] = Rec(t) \/ done'[k] = done[k]
      BY <2>1 DEF Newer
    <2>3. map[k] = Rec(t)
      BY <1>3, <2>1 DEF Alone, Applies
    <2> QED  BY <1>2, <1>4, <2>1, <2>2, <2>3 DEF Applying
  <1> QED  BY <1>5, <1>6, <1>7, <1>8, <1>9, <1>10, <1>11 DEF WriteStep, Apply

LEMMA AloneStep ==
    ASSUME Shape, Shape', InvNumbers, InvCovered, InvAlone, [ReadNext]_readVars
    PROVE  InvAlone'
  <1> USE DEF Busy
  <1> SUFFICES ASSUME NEW k \in Keys, k \notin raced' PROVE AloneAt(k)'
    BY DEF InvAlone, AloneAt
  <1>1. CASE Swap
    BY <1>1, SwapEffect DEF AloneAt, Applying, Present
  <1>2. ASSUME NEW t \in Threads, Step(t), k \notin raced PROVE AloneAt(k)'
    <2>1. AloneAt(k)
      BY <1>2 DEF InvAlone, AloneAt
    <2>2. \A u \in Threads : u # t => /\ Applying(u, k)' <=> Applying(u, k)
                                      /\ map'[k] = map[k] /\ Alone(u, k) => Alone(u, k)'
      BY <1>2, OthersAlone
    <2>3. CASE ~Applying(t, k)' /\ map'[k] = map[k] /\ done'[k] = done[k]
      BY <2>1, <2>2, <2>3 DEF AloneAt
    <2>4. CASE Write(t)
      <3>1. UNCHANGED <<map, done>> /\ pc'[t] = "size" /\ pc[t] = "idle"
            /\ raced' = IF \E u \in Writers : Applying(u, Key(t)') THEN raced \cup {Key(t)'} ELSE raced
        BY <2>4, WriteEffect
      <3>2. CASE k = Key(t)'
        <4>1. \A u \in Writers : ~Applying(u, k)
          BY <1>2, <3>1, <3>2
        <4>2. \A u \in Threads : Applying(u, k)' => u = t
          BY <2>2, <4>1 DEF Applying
        <4>3. Alone(t, k)'
          BY <3>1 DEF Alone
        <4> QED  BY <2>1, <3>1, <4>2, <4>3 DEF AloneAt
      <3>3. CASE k # Key(t)'
        BY <2>3, <3>1, <3>3 DEF Applying
      <3> QED  BY <3>2, <3>3
    <2>5. CASE Read(t) \/ LookActive(t) \/ LookBelow(t) \/ ReadReturn(t)
      <3>1. pc'[t] \notin Busy /\ UNCHANGED <<map, done>>
        BY <2>5, GetEffect
      <3> QED  BY <2>3, <3>1 DEF Applying
    <2>6. CASE WriteStep(t)
      <3>1. Applies(t) /\ t \in Writers
        BY <2>6 DEF WriteStep, Apply, ReadOldSize, SearchFree, SearchReplace, SearchObsolete,
           Remove, Insert, Account, At, Applies, InvNumbers
      <3>2. CASE k = Key(t)
        <4>1. \A u \in Threads : Applying(u, k)' => u = t
          <5>1. Applying(t, k)
            BY <3>1, <3>2 DEF Applying, Applies
          <5> QED  BY <2>1, <2>2, <5>1 DEF AloneAt
        <4> QED  BY <2>1, <2>6, <3>2, <4>1, AloneOwn DEF AloneAt
      <3>3. CASE k # Key(t)
        <4>1. UNCHANGED pathVars
          BY <2>6 DEF WriteStep
        <4>2. map'[k] = map[k] /\ done'[k] = done[k] /\ (Key(t)' = Key(t) \/ pc'[t] = "idle")
          BY <2>6, <3>3, <4>1, SizeEffect, FreeEffect, ReplaceEffect, ObsoleteEffect, RemoveEffect,
             InsertEffect, AccountEffect DEF WriteStep, Apply, Stays, Leaves
        <4> QED  BY <2>3, <3>3, <4>2 DEF Applying
      <3> QED  BY <3>2, <3>3
    <2> QED  BY <1>2, <2>4, <2>5, <2>6 DEF Step
  <1>3. ASSUME NEW t \in Threads, Step(t) PROVE k \notin raced
    <2>1. raced \subseteq raced'
      BY <1>3, WriteEffect, GetEffect, SizeEffect, FreeEffect, ReplaceEffect, ObsoleteEffect,
         RemoveEffect, InsertEffect, AccountEffect DEF Step, WriteStep, Apply, Stays, Leaves
    <2> QED  BY <2>1
  <1>4. CASE UNCHANGED readVars
    <2>1. UNCHANGED <<map, done, pc, op, raced>>
      BY <1>4 DEF readVars, vars, pathVars
    <2> QED  BY <2>1 DEF InvAlone, AloneAt, Applying, Alone, Key, Rec
  <1> QED  BY <1>1, <1>2, <1>3, <1>4 DEF ReadNext, Step
-------------------------------------------------------------------------------
(***************************************************************************)
(* Gets.                                                                   *)
(***************************************************************************)
\* What a reader goes by only moves forward while it is in its call.
LEMMA Forward ==
    ASSUME Shape, NEW t \in Threads, Step(t)
    PROVE  /\ \A k \in Keys : done'[k].seq >= done[k].seq
           /\ raced \subseteq raced' /\ overlapped \ {t} \subseteq overlapped' /\ UNCHANGED below
  <1> DEFINE Kept == raced \subseteq raced' /\ overlapped \ {t} \subseteq overlapped' /\ UNCHANGED below
  <1>1. \A k \in Keys : done[k] \in Entries /\ done[k].seq \in Nat
    BY ShapeFacts DEF Shape
  <1>2. ASSUME UNCHANGED done PROVE \A k \in Keys : done'[k].seq >= done[k].seq
    BY <1>1, <1>2
  <1>3. ASSUME Leaves(t) PROVE \A k \in Keys : done'[k].seq >= done[k].seq
    <2>1. Rec(t) \in Entries
      BY ShapeFacts
    <2>2. ASSUME NEW k \in Keys PROVE done'[k] = Newer(Rec(t), done[k]) \/ done'[k] = done[k]
      BY <1>3 DEF Leaves
    <2> QED  BY <1>1, <2>1, <2>2, NewerFacts
  <1>4. CASE Write(t)
    BY <1>2, <1>4, WriteEffect
  <1>5. CASE WriteStep(t)
    <2>1. UNCHANGED pathVars
      BY <1>5 DEF WriteStep
    <2>2. (Stays(t) /\ UNCHANGED done) \/ Leaves(t)
      BY <1>5, <2>1, SizeEffect, FreeEffect, ReplaceEffect, ObsoleteEffect, RemoveEffect,
         InsertEffect, AccountEffect DEF WriteStep, Apply
    <2> QED  BY <1>2, <1>3, <2>2 DEF Stays, Leaves
  <1>6. CASE Read(t) \/ LookActive(t) \/ LookBelow(t) \/ ReadReturn(t)
    <2>1. overlapped \ {t} \subseteq overlapped'
      BY <1>6 DEF Read, LookActive, LookBelow, ReadReturn, pathVars
    <2> QED  BY <1>2, <1>6, <2>1, GetEffect
  <1> QED  BY <1>4, <1>5, <1>6 DEF Step

LEMMA InitGets == ReadInit => InvGets
  BY DEF ReadInit, Init, InvGets, GetsRight

LEMMA GetsStep ==
    ASSUME Shape, Shape', InvNumbers, InvCovered, InvAlone, InvGets, [ReadNext]_readVars
    PROVE  InvGets'
  <1> SUFFICES ASSUME NEW u \in Threads PROVE GetsRight(u)'
    BY DEF InvGets
  <1>1. GetsRight(u)
    BY DEF InvGets
  <1>2. /\ Key(u) \in Keys /\ op[u].node.seq \in Nat
        /\ done[Key(u)].seq \in Nat /\ map[Key(u)].seq \in Nat /\ below[Key(u)].seq \in Nat
    BY ShapeFacts
  <1>3. CASE Swap
    BY <1>3, SwapEffect DEF GetsRight
  <1>4. ASSUME NEW t \in Threads, Step(t), t # u PROVE GetsRight(u)'
    <2>1. /\ pc'[u] = pc[u] /\ op'[u] = op[u] /\ Key(u)' = Key(u) /\ Rec(u)' = Rec(u)
          /\ raced \subseteq raced' /\ UNCHANGED below
          /\ u \in overlapped => u \in overlapped'
      BY <1>4, OthersStay, Forward DEF Key, Rec
    <2>2. pc[u] = "get" => op[u].node.seq <= done'[Key(u)].seq
      <3>1. done'[Key(u)].seq >= done[Key(u)].seq
        BY <1>2, <1>4, Forward
      <3>2. done'[Key(u)] \in Entries
        BY <1>2 DEF Shape
      <3>3. done'[Key(u)].seq \in Nat
        BY <3>2, EntryFacts
      <3> QED  BY <1>1, <1>2, <3>1, <3>3 DEF GetsRight
    <2> QED  BY <1>1, <2>1, <2>2 DEF GetsRight
  <1>5. CASE Read(u)
    <2>1. PICK k \in Keys : op' = [op EXCEPT ![u].key = k, ![u].node = done[k]]
      BY <1>5 DEF Read, GetBegin
    <2>2. op'[u].key = k /\ op'[u].node = done[k] /\ pc'[u] = "get" /\ done' = done
      BY <1>5, <2>1 DEF Read, GetBegin, Goto, Shape, Ops
    <2>3. done[k].seq \in Nat
      BY ShapeFacts
    <2> QED  BY <2>2, <2>3 DEF GetsRight, Key
  <1>6. CASE LookActive(u)
    <2>1. /\ pc[u] = "get" /\ pc'[u] = "got" /\ Key(u)' = Key(u) /\ Rec(u)' = map[Key(u)]
          /\ op'[u].node = op[u].node /\ UNCHANGED <<map, raced, below>>
          /\ (\E w \in Writers : Applying(w, Key(u))) => u \in overlapped'
      BY <1>6 DEF LookActive, Get, At, Goto, Shape, Ops, Key, Rec
    <2>2. op[u].node.seq <= done[Key(u)].seq
      BY <1>1, <2>1 DEF GetsRight
    <2>3. Present(map[Key(u)]) /\ Key(u) \notin raced => map[Key(u)].seq >= op[u].node.seq
      <3>1. Present(map[Key(u)]) /\ Key(u) \notin raced => map[Key(u)].seq >= done[Key(u)].seq
        BY <1>2 DEF InvAlone
      <3> QED  BY <1>2, <2>2, <3>1
    <2>4. ASSUME ~Present(map[Key(u)]), ~\E w \in Writers : Applying(w, Key(u))
          PROVE  below[Key(u)].seq >= op[u].node.seq
      <3>1. Covered(Key(u), done[Key(u)].seq)
        BY <1>2 DEF InvCovered
      <3>2. \A w \in Threads : ~Pending(w, Key(u))
        BY <2>4 DEF Pending, Applying
      <3>3. below[Key(u)].seq >= done[Key(u)].seq
        BY <2>4, <3>1, <3>2 DEF Covered, Over
      <3> QED  BY <1>2, <2>2, <3>3
    <2> QED  BY <2>1, <2>3, <2>4 DEF GetsRight
  <1>7. CASE LookBelow(u)
    <2>1. /\ pc[u] = "got" /\ ~Present(Rec(u)) /\ pc'[u] = "answered"
          /\ Key(u)' = Key(u) /\ Rec(u)' = below[Key(u)] /\ op'[u].node = op[u].node
          /\ UNCHANGED <<below, overlapped>>
      BY <1>7 DEF LookBelow, At, Goto, pathVars, Shape, Ops, Key, Rec
    <2> QED  BY <1>1, <2>1 DEF GetsRight
  <1>8. CASE Write(u) \/ WriteStep(u) \/ ReadReturn(u)
    <2>1. pc'[u] \notin {"get", "got", "answered"}
      BY <1>8 DEF Write, ApplyBegin, WriteStep, Apply, ReadOldSize, SearchFree, SearchReplace,
         SearchObsolete, Remove, Insert, Account, ReadReturn, Goto, Return, Shape
    <2> QED  BY <2>1 DEF GetsRight
  <1>9. CASE UNCHANGED readVars
    BY <1>1, <1>9 DEF readVars, vars, pathVars, GetsRight, Key, Rec
  <1> QED  BY <1>3, <1>4, <1>5, <1>6, <1>7, <1>8, <1>9 DEF ReadNext, Step
-------------------------------------------------------------------------------
(***************************************************************************)
(* The bound on the byte counter.                                          *)
(***************************************************************************)
LEMMA SettledFacts == Shape => IsFiniteSet(Settled) /\ Cardinality(Settled) \in 0..MaxSeq
  <1> SUFFICES ASSUME Shape PROVE IsFiniteSet(Settled) /\ Cardinality(Settled) \in 0..MaxSeq
    OBVIOUS
  <1>1. MaxSeq \in Nat /\ Settled \subseteq 1..MaxSeq
    BY MemTableAssumption DEF Settled, Shape
  <1>2. IsFiniteSet(1..MaxSeq) /\ Cardinality(1..MaxSeq) = MaxSeq
    <2>1. 1 \in Int /\ MaxSeq \in Int
      BY <1>1
    <2>2. IsFiniteSet(1..MaxSeq)
          /\ Cardinality(1..MaxSeq) = IF 1 > MaxSeq THEN 0 ELSE MaxSeq - 1 + 1
      BY <2>1, FS_Interval
    <2> QED  BY <1>1, <2>2
  <1>3. IsFiniteSet(Settled) /\ Cardinality(Settled) <= MaxSeq
    BY <1>1, <1>2, FS_Subset
  <1>4. Cardinality(Settled) \in Nat
    BY <1>3, FS_CardinalityType
  <1> QED  BY <1>1, <1>3, <1>4

\* The numbers of applies that have returned: one more when one returns, and no other step
\* adds or takes any.
LEMMA SettledStep ==
    ASSUME Shape, InvNumbers, NEW t \in Threads, Step(t)
    PROVE  IF GivesUp(t) THEN Rec(t).seq \notin Settled /\ Settled' = Settled \cup {Rec(t).seq}
                         ELSE Settled' = Settled
  <1>1. \A u \in Threads : u # t => /\ Applies(u)' <=> Applies(u)
                                    /\ Rec(u)' = Rec(u)
    BY OthersStay DEF Applies, Rec
  <1>2. \A u \in Threads : Applies(u) => Rec(u).seq \in called
    BY DEF InvNumbers
  <1>3. \A u, v \in Threads : u # v /\ Applies(u) /\ Applies(v) => Rec(u).seq # Rec(v).seq
    BY DEF InvNumbers
  <1>4. CASE GivesUp(t)
    <2>1. called' = called /\ Applies(t) /\ ~Applies(t)'
      BY <1>4 DEF GivesUp, Leaves
    <2>2. Rec(t).seq \notin Settled
      BY <2>1 DEF Settled
    <2>3. ASSUME NEW n PROVE n \in Settled' <=> n \in Settled \cup {Rec(t).seq}
      <3>1. CASE n = Rec(t).seq
        BY <1>1, <1>2, <1>3, <2>1, <3>1 DEF Settled
      <3>2. CASE n # Rec(t).seq
        <4>1. (\A u \in Threads : Applies(u)' => Rec(u)'.seq # n)
                <=> (\A u \in Threads : Applies(u) => Rec(u).seq # n)
          BY <1>1, <2>1, <3>2
        <4> QED  BY <2>1, <3>2, <4>1 DEF Settled
      <3> QED  BY <3>1, <3>2
    <2> QED  BY <1>4, <2>2, <2>3
  <1>5. CASE Takes(t)
    <2>1. called' = called \cup {Rec(t)'.seq} /\ ~Applies(t) /\ Applies(t)' /\ Rec(t)'.seq \notin called
      BY <1>5 DEF Takes
    <2>2. ASSUME NEW n PROVE n \in Settled' <=> n \in Settled
      <3>1. CASE n = Rec(t)'.seq
        BY <2>1, <3>1 DEF Settled
      <3>2. CASE n # Rec(t)'.seq
        <4>1. (\A u \in Threads : Applies(u)' => Rec(u)'.seq # n)
                <=> (\A u \in Threads : Applies(u) => Rec(u).seq # n)
          BY <1>1, <2>1, <3>2
        <4> QED  BY <2>1, <3>2, <4>1 DEF Settled
      <3> QED  BY <3>1, <3>2
    <2>3. Settled' = Settled
      <3>1. Settled' \subseteq Settled /\ Settled \subseteq Settled'
        BY <2>2
      <3> QED  BY <3>1
    <2> QED  BY <2>1, <2>3 DEF GivesUp
  <1>6. CASE Holds(t)
    <2>1. called' = called /\ (Applies(t) <=> Applies(t)') /\ (Applies(t) => Rec(t)' = Rec(t))
      BY <1>6 DEF Holds
    <2>2. \A n : (\A u \in Threads : Applies(u)' => Rec(u)'.seq # n)
                    <=> (\A u \in Threads : Applies(u) => Rec(u).seq # n)
      BY <1>1, <2>1
    <2> QED  BY <2>1, <2>2 DEF GivesUp, Settled
  <1> QED  BY <1>4, <1>5, <1>6, NumbersEffect

LEMMA InitBytes == ReadInit => InvBytes
  <1> SUFFICES ASSUME ReadInit PROVE InvBytes
    OBVIOUS
  <1>1. bytes = 0 /\ Settled = {}
    BY DEF ReadInit, Init, Settled
  <1>2. Cardinality(Settled) = 0
    BY <1>1, FS_EmptySet
  <1> QED  BY <1>1, <1>2, SizeFacts DEF InvBytes

LEMMA BytesStep ==
    ASSUME Shape, Shape', InvNumbers, InvBytes, [ReadNext]_readVars
    PROVE  InvBytes'
  <1>1. /\ Largest \in Nat /\ bytes \in Nat /\ IsFiniteSet(Settled)
        /\ Cardinality(Settled) \in Nat /\ Cardinality(Settled') \in Nat
    <2>1. (IsFiniteSet(Settled) /\ Cardinality(Settled) \in 0..MaxSeq)'
      BY SettledFacts, PTL
    <2> QED  BY <2>1, SettledFacts, SizeFacts DEF Shape
  <1>2. Largest' = Largest
    BY DEF Largest
  <1>3. bytes <= Largest * Cardinality(Settled)
    BY DEF InvBytes
  <1>4. CASE Swap
    <2>1. bytes' = 0
      BY <1>4, SwapEffect
    <2> QED  BY <1>1, <1>2, <2>1 DEF InvBytes
  <1>5. ASSUME NEW t \in Threads, Step(t) PROVE InvBytes'
    <2>1. CASE GivesUp(t)
      <3>1. Cardinality(Settled') = Cardinality(Settled) + 1
        <4>1. Settled' = Settled \cup {Rec(t).seq} /\ Rec(t).seq \notin Settled
          BY <1>5, <2>1, SettledStep
        <4> QED  BY <1>1, <4>1, FS_AddElement
      <3>2. bytes' <= bytes + Largest
        <4>1. WriteStep(t) /\ UNCHANGED pathVars
          BY <1>5, <2>1, WriteEffect, GetEffect DEF Step, WriteStep, GivesUp, Applies, Busy
        <4>2. CASE Account(t)
          <5>1. bytes' = Minus(bytes, op[t].old) + EncodedSize(Rec(t))
            BY <4>1, <4>2, AccountEffect
          <5>2. Rec(t) \in Entries /\ op[t].old \in Nat
            BY ShapeFacts
          <5>3. EncodedSize(Rec(t)) \in 0..Largest
            BY <5>2, SizeFacts
          <5> QED  BY <1>1, <5>1, <5>2, <5>3 DEF Minus
        <4>3. CASE UNCHANGED bytes
          BY <1>1, <4>3
        <4> QED  BY <4>1, <4>2, <4>3, SizeEffect, FreeEffect, ReplaceEffect, ObsoleteEffect,
                 RemoveEffect, InsertEffect DEF WriteStep, Apply
      <3>3. Largest * (Cardinality(Settled) + 1) = Largest * Cardinality(Settled) + Largest
        <4> DEFINE L == Largest  c == Cardinality(Settled)
        <4>1. L \in Nat /\ c \in Nat
          BY <1>1
        <4> HIDE DEF L, c
        <4>2. L * (c + 1) = L * c + L
          BY <4>1
        <4> QED  BY <4>2 DEF L, c
      <3>4. Largest * Cardinality(Settled) \in Nat /\ bytes' \in Nat
        <4>1. \A a, b \in Nat : a * b \in Nat
          OBVIOUS
        <4> QED  BY <1>1, <4>1 DEF Shape
      <3> QED  BY <1>1, <1>2, <1>3, <3>1, <3>2, <3>3, <3>4 DEF InvBytes
    <2>2. CASE ~GivesUp(t)
      <3>1. Settled' = Settled
        BY <1>5, <2>2, SettledStep
      <3>2. bytes' = bytes
        <4>1. ~Account(t) \/ ~UNCHANGED pathVars
          BY <2>2, AccountEffect DEF GivesUp, Leaves, Applies, Busy
        <4> QED  BY <1>5, <4>1, WriteEffect, GetEffect, SizeEffect, FreeEffect, ReplaceEffect,
                 ObsoleteEffect, RemoveEffect, InsertEffect DEF Step, WriteStep, Apply
      <3> QED  BY <1>2, <1>3, <3>1, <3>2 DEF InvBytes
    <2> QED  BY <2>1, <2>2
  <1>6. CASE UNCHANGED readVars
    <2>1. bytes' = bytes /\ Settled' = Settled
      BY <1>6 DEF readVars, vars, pathVars, Settled, Applies, Rec
    <2> QED  BY <1>2, <1>3, <2>1 DEF InvBytes
  <1> QED  BY <1>4, <1>5, <1>6 DEF ReadNext, Step

\* Shape and InvBytes have what ReadTypeOK says.
LEMMA BytesBounded == Shape /\ InvBytes => ReadTypeOK
  <1> SUFFICES ASSUME Shape, InvBytes PROVE ReadTypeOK
    OBVIOUS
  <1> DEFINE L == Largest  c == Cardinality(Settled)
  <1>1. L \in Nat /\ c \in 0..MaxSeq /\ MaxSeq \in Nat /\ bytes \in Nat /\ bytes <= L * c
    BY SettledFacts, SizeFacts, MemTableAssumption DEF Shape, InvBytes
  <1>2. bytes \in 0..MaxSeq * L
    <2> HIDE DEF L, c
    <2>1. PICK d \in Nat : MaxSeq = c + d
      <3>1. MaxSeq - c \in Nat /\ MaxSeq = c + (MaxSeq - c)
        BY <1>1
      <3> QED  BY <3>1
    <2>2. c \in Nat
      BY <1>1
    <2>3. (c + d) * L = L * c + d * L
      BY <1>1, <2>1, <2>2
    <2>4. L * c \in Nat /\ d * L \in Nat
      BY <1>1, <2>1, <2>2
    <2> QED  BY <1>1, <2>1, <2>3, <2>4
  <1> QED  BY <1>2 DEF Shape, Pcs, ReadTypeOK, Largest
-------------------------------------------------------------------------------
(***************************************************************************)
(* Sums over the keys.                                                     *)
(***************************************************************************)
Part(f, h, s) == IF s = {} THEN 0 ELSE LET x == CHOOSE x \in s : TRUE IN h[x] + f[s \ {x}]
Sums(f, h, S) == f = [s \in SUBSET S |-> Part(f, h, s)]

\* So the recursion of MapThenSumSet is well-founded.
LEMMA SumExists ==
    ASSUME NEW S, IsFiniteSet(S), NEW h
    PROVE  \E f : Sums(f, h, S)
  <1> DEFINE Small(n) == {s \in SUBSET S : Cardinality(s) <= n}
             Upto(f, n) == f = [s \in Small(n) |-> Part(f, h, s)]
             Has == {n \in Nat : \E f : Upto(f, n)}
             Rest(s) == s \ {CHOOSE x \in s : TRUE}
  <1>1. ASSUME NEW s \in SUBSET S
        PROVE  /\ IsFiniteSet(s) /\ Cardinality(s) \in Nat
               /\ s # {} => Rest(s) \in SUBSET S /\ Cardinality(Rest(s)) = Cardinality(s) - 1
                            /\ Cardinality(s) # 0
    <2>1. IsFiniteSet(s) /\ Cardinality(s) \in Nat
      BY FS_Subset, FS_CardinalityType
    <2>2. CASE s # {}
      <3>1. (CHOOSE x \in s : TRUE) \in s
        BY <2>2
      <3>2. Cardinality(Rest(s)) = Cardinality(s) - 1
        BY <2>1, <3>1, FS_RemoveElement
      <3>3. Cardinality(s) # 0
        BY <2>1, <2>2, FS_EmptySet
      <3> QED  BY <2>1, <3>2, <3>3
    <2> QED  BY <2>1, <2>2
  <1>2. 0 \in Has
    <2> DEFINE f == [s \in Small(0) |-> 0]
    <2>1. ASSUME NEW s \in Small(0) PROVE s = {}
      <3>1. Cardinality(s) \in Nat /\ (s # {} => Cardinality(s) # 0) /\ Cardinality(s) <= 0
        BY <1>1
      <3> QED  BY <3>1
    <2>2. Upto(f, 0)
      BY <2>1 DEF Part
    <2> HIDE DEF f, Upto
    <2> QED  BY <2>2
  <1>3. ASSUME NEW n \in Nat, n \in Has PROVE n + 1 \in Has
    <2>1. PICK g : Upto(g, n)
      BY <1>3
    <2> DEFINE f == [s \in Small(n + 1) |-> Part(g, h, s)]
    <2>2. ASSUME NEW s \in Small(n) PROVE f[s] = g[s]
      <3>1. s \in Small(n + 1)
        <4>1. Cardinality(s) \in Nat /\ Cardinality(s) <= n
          BY <1>1, <2>2
        <4>2. Cardinality(s) <= n + 1
          BY <4>1
        <4> QED  BY <2>2, <4>2
      <3>2. g[s] = Part(g, h, s)
        BY <2>1, <2>2
      <3> QED  BY <3>1, <3>2
    <2>3. ASSUME NEW s \in Small(n + 1) PROVE Part(f, h, s) = Part(g, h, s)
      <3>1. CASE s = {}
        BY <3>1 DEF Part
      <3>2. CASE s # {}
        <4>1. Rest(s) \in Small(n)
          <5>1. /\ Cardinality(s) \in Nat /\ Cardinality(s) <= n + 1
                /\ Rest(s) \in SUBSET S /\ Cardinality(Rest(s)) = Cardinality(s) - 1
            BY <1>1, <2>3, <3>2
          <5>2. Cardinality(Rest(s)) <= n
            BY <5>1
          <5> QED  BY <5>1, <5>2
        <4>2. f[Rest(s)] = g[Rest(s)]
          BY <2>2, <4>1
        <4> HIDE DEF f
        <4> QED  BY <3>2, <4>2 DEF Part
      <3> QED  BY <3>1, <3>2
    <2>4. Upto(f, n + 1)
      BY <2>3
    <2> HIDE DEF f, Upto
    <2> QED  BY <2>4
  <1>4. Cardinality(S) \in Has
    <2>1. Cardinality(S) \in Nat
      BY FS_CardinalityType
    <2> HIDE DEF Has
    <2> QED  BY <1>2, <1>3, <2>1, AllNumbers
  <1>5. Small(Cardinality(S)) = SUBSET S
    BY FS_Subset
  <1> QED  BY <1>4, <1>5 DEF Sums

LEMMA TotalUnfolds ==
    ASSUME NEW h
    PROVE  \E f : Sums(f, h, Keys) /\ Total(h) = f[Keys]
  <1> DEFINE f == CHOOSE g : Sums(g, h, Keys)
  <1>1. Sums(f, h, Keys)
    BY SumExists, MemTableAssumption
  <1>2. Total(h) = f[Keys]
    BY DEF Total, MapThenSumSet, MapThenFoldSet, Sums, Part
  <1> QED  BY <1>1, <1>2

\* Sums differ by what the summands of one key differ by.
LEMMA TotalChanges ==
    ASSUME NEW h \in [Keys -> Nat], NEW k \in Keys, NEW n \in Nat
    PROVE  /\ Total(h) \in Nat /\ Total([h EXCEPT ![k] = n]) \in Nat
           /\ Total([h EXCEPT ![k] = n]) + h[k] = Total(h) + n
  <1> DEFINE g == [h EXCEPT ![k] = n]
  <1>1. PICK f1 : Sums(f1, h, Keys) /\ Total(h) = f1[Keys]
    BY TotalUnfolds
  <1>2. PICK f2 : Sums(f2, g, Keys) /\ Total(g) = f2[Keys]
    BY TotalUnfolds
  <1> DEFINE Good(s) == /\ f1[s] \in Nat /\ f2[s] \in Nat
                        /\ IF k \in s THEN f2[s] + h[k] = f1[s] + n ELSE f2[s] = f1[s]
             Counts == {c \in Nat : \A s \in SUBSET Keys : Cardinality(s) = c => Good(s)}
  <1>3. \A s \in SUBSET Keys : f1[s] = Part(f1, h, s) /\ f2[s] = Part(f2, g, s)
    BY <1>1, <1>2 DEF Sums
  <1>4. \A s \in SUBSET Keys : IsFiniteSet(s)
    BY MemTableAssumption, FS_Subset
  <1>5. 0 \in Counts
    <2>1. ASSUME NEW s \in SUBSET Keys, Cardinality(s) = 0 PROVE Good(s)
      <3>1. s = {}
        BY <1>4, <2>1, FS_EmptySet
      <3>2. f1[s] = 0 /\ f2[s] = 0
        BY <1>3, <3>1 DEF Part
      <3> QED  BY <3>1, <3>2
    <2> QED  BY <2>1
  <1>6. ASSUME NEW c \in Nat, c \in Counts PROVE c + 1 \in Counts
    <2>1. ASSUME NEW s \in SUBSET Keys, Cardinality(s) = c + 1 PROVE Good(s)
      <3> DEFINE x == CHOOSE x \in s : TRUE  r == s \ {x}
      <3>1. s # {} /\ x \in s /\ x \in Keys
        BY <2>1, FS_EmptySet
      <3>2. r \in SUBSET Keys /\ Cardinality(r) = c
        <4>1. Cardinality(r) = Cardinality(s) - 1
          BY <1>4, <3>1, FS_RemoveElement
        <4> QED  BY <2>1, <4>1
      <3>3. Good(r)
        BY <1>6, <3>2
      <3>4. f1[s] = h[x] + f1[r] /\ f2[s] = g[x] + f2[r]
        BY <1>3, <3>1 DEF Part
      <3>5. h[x] \in Nat /\ h[k] \in Nat /\ g[x] = IF x = k THEN n ELSE h[x]
        BY <3>1
      <3>6. x \notin r /\ (k \in r <=> k \in s /\ k # x)
        OBVIOUS
      <3> HIDE DEF x, r, g
      <3> QED  BY <3>1, <3>3, <3>4, <3>5, <3>6
    <2> HIDE DEF Good
    <2> QED  BY <2>1
  <1>7. Good(Keys)
    <2>1. Cardinality(Keys) \in Nat
      BY FS_CardinalityType, MemTableAssumption
    <2>2. Cardinality(Keys) \in Counts
      <3> HIDE DEF Counts
      <3> QED  BY <1>5, <1>6, <2>1, AllNumbers
    <2> QED  BY <2>2
  <1> HIDE DEF g
  <1>8. Total(h) \in Nat /\ Total(g) \in Nat /\ Total(g) + h[k] = Total(h) + n
    BY <1>1, <1>2, <1>7
  <1> QED  BY <1>8 DEF g

\* A sum has every summand.
LEMMA TotalHas ==
    ASSUME NEW h \in [Keys -> Nat], NEW k \in Keys
    PROVE  h[k] <= Total(h)
  <1>1. PICK n \in Nat : n = 0
    OBVIOUS
  <1>2. Total([h EXCEPT ![k] = n]) + h[k] = Total(h) + n
        /\ Total(h) \in Nat /\ Total([h EXCEPT ![k] = n]) \in Nat
    BY TotalChanges
  <1> QED  BY <1>1, <1>2

\* The sum of nothing.
LEMMA TotalZero ==
    ASSUME NEW h, \A k \in Keys : h[k] = 0
    PROVE  Total(h) = 0
  <1>1. PICK f : Sums(f, h, Keys) /\ Total(h) = f[Keys]
    BY TotalUnfolds
  <1>2. \A s \in SUBSET Keys : f[s] = Part(f, h, s) /\ IsFiniteSet(s)
    BY <1>1, MemTableAssumption, FS_Subset DEF Sums
  <1> DEFINE Counts == {c \in Nat : \A s \in SUBSET Keys : Cardinality(s) = c => f[s] = 0}
  <1>3. 0 \in Counts
    <2>1. \A s \in SUBSET Keys : Cardinality(s) = 0 => s = {}
      BY <1>2, FS_EmptySet
    <2> QED  BY <1>2, <2>1 DEF Part
  <1>4. ASSUME NEW c \in Nat, c \in Counts PROVE c + 1 \in Counts
    <2>1. ASSUME NEW s \in SUBSET Keys, Cardinality(s) = c + 1 PROVE f[s] = 0
      <3> DEFINE x == CHOOSE x \in s : TRUE  r == s \ {x}
      <3>1. s # {} /\ x \in s /\ x \in Keys
        BY <2>1, FS_EmptySet
      <3>2. r \in SUBSET Keys /\ Cardinality(r) = c
        <4>1. Cardinality(r) = Cardinality(s) - 1
          BY <1>2, <3>1, FS_RemoveElement
        <4> QED  BY <2>1, <4>1
      <3>3. f[s] = h[x] + f[r]
        BY <1>2, <3>1 DEF Part
      <3>4. h[x] = 0 /\ f[r] = 0
        BY <1>4, <3>1, <3>2
      <3> HIDE DEF x, r
      <3> QED  BY <3>3, <3>4
    <2> QED  BY <2>1
  <1>5. Cardinality(Keys) \in Nat
    BY FS_CardinalityType, MemTableAssumption
  <1>6. Cardinality(Keys) \in Counts
    <2> HIDE DEF Counts
    <2> QED  BY <1>3, <1>4, <1>5, AllNumbers
  <1> QED  BY <1>1, <1>6
-------------------------------------------------------------------------------
(***************************************************************************)
(* The byte counter is exact.                                              *)
(***************************************************************************)
CountedRight ==
    \A k \in Keys : /\ \A t \in Threads : Counting(t, k) => Counted[k] = op[t].old
                    /\ (\A t \in Threads : ~Counting(t, k)) => Counted[k] = EncodedSize(map[k])
LEMMA CountedIs == InvAlone /\ raced = {} => CountedRight
  <1> SUFFICES ASSUME InvAlone, raced = {}, NEW k \in Keys
               PROVE  /\ \A t \in Threads : Counting(t, k) => Counted[k] = op[t].old
                      /\ (\A t \in Threads : ~Counting(t, k)) => Counted[k] = EncodedSize(map[k])
    BY DEF CountedRight
  <1>1. \A t, u \in Threads : Counting(t, k) /\ Counting(u, k) => t = u
    BY DEF InvAlone, Counting
  <1>2. ASSUME NEW t \in Threads, Counting(t, k) PROVE Counted[k] = op[t].old
    <2>1. (CHOOSE u \in Threads : Counting(u, k)) = t
      BY <1>1, <1>2
    <2> QED  BY <1>2, <2>1 DEF Counted
  <1>3. ASSUME \A t \in Threads : ~Counting(t, k) PROVE Counted[k] = EncodedSize(map[k])
    BY <1>3 DEF Counted
  <1> QED  BY <1>2, <1>3

LEMMA CountedType == ASSUME Shape, InvAlone, raced = {} PROVE Counted \in [Keys -> Nat]
  <1>1. ASSUME NEW k \in Keys PROVE Counted[k] \in Nat
    <2>1. CASE \E t \in Threads : Counting(t, k)
      <3>1. PICK t \in Threads : Counting(t, k)
        BY <2>1
      <3>2. op[t].old \in Nat
        BY ShapeFacts
      <3> QED  BY <3>1, <3>2, CountedIs DEF CountedRight
    <2>2. CASE \A t \in Threads : ~Counting(t, k)
      <3>1. map[k] \in Entries
        BY DEF Shape
      <3>2. EncodedSize(map[k]) \in Nat
        BY <3>1, SizeFacts
      <3> QED  BY <2>2, <3>2, CountedIs DEF CountedRight
    <2> QED  BY <2>1, <2>2
  <1> QED  BY <1>1 DEF Counted

\* A thread that does not move counts what it did.
LEMMA OthersCount ==
    ASSUME Shape, NEW t \in Threads, Step(t), NEW u \in Threads, u # t, NEW k
    PROVE  (Counting(u, k)' <=> Counting(u, k)) /\ op'[u].old = op[u].old
  BY OthersStay DEF Counting, Applying, Key, At

\* A key that is not the one of the step is counted as before.
LEMMA OtherKeysCount ==
    ASSUME Shape, InvAlone, InvAlone', raced = {}, raced' = {}, NEW t \in Threads, Step(t), NEW k \in Keys,
           ~Counting(t, k), ~Counting(t, k)', map'[k] = map[k]
    PROVE  Counted'[k] = Counted[k]
  <1>1. \A j \in Keys : /\ \A u \in Threads : Counting(u, j)' => Counted'[j] = op'[u].old
                        /\ (\A u \in Threads : ~Counting(u, j)') => Counted'[j] = EncodedSize(map'[j])
    <2>1. CountedRight'
      <3>1. (raced = {})'
        OBVIOUS
      <3> QED  BY <3>1, CountedIs, PTL
    <2> QED  BY <2>1 DEF CountedRight
  <1>2. CASE \E u \in Threads : Counting(u, k)
    <2>1. PICK u \in Threads : Counting(u, k)
      BY <1>2
    <2>2. Counting(u, k)' /\ op'[u].old = op[u].old
      BY <2>1, OthersCount
    <2> QED  BY <1>1, <2>1, <2>2, CountedIs DEF CountedRight
  <1>3. CASE \A u \in Threads : ~Counting(u, k)
    <2>1. \A u \in Threads : ~Counting(u, k)'
      BY <1>3, OthersCount
    <2> QED  BY <1>1, <1>3, <2>1, CountedIs DEF CountedRight
  <1> QED  BY <1>2, <1>3

\* The key of the step is counted anew when its apply returns.
LEMMA OwnKeyCounts ==
    ASSUME Shape, InvNumbers, InvAlone, InvAlone', raced = {}, raced' = {},
           NEW t \in Threads, WriteStep(t), NEW k \in Keys, k = Key(t)
    PROVE  Counted'[k] = IF Account(t) THEN EncodedSize(Rec(t)) ELSE Counted[k]
  <1> USE DEF Busy
  <1>1. UNCHANGED pathVars
    BY DEF WriteStep
  <1>2. \A j \in Keys : /\ \A u \in Threads : Counting(u, j)' => Counted'[j] = op'[u].old
                        /\ (\A u \in Threads : ~Counting(u, j)') => Counted'[j] = EncodedSize(map'[j])
    <2>1. CountedRight'
      <3>1. (raced = {})'
        OBVIOUS
      <3> QED  BY <3>1, CountedIs, PTL
    <2> QED  BY <2>1 DEF CountedRight
  <1>3. Applying(t, k)
    BY DEF WriteStep, Apply, ReadOldSize, SearchFree, SearchReplace, SearchObsolete, Remove, Insert,
       Account, At, Applying, Applies, InvNumbers
  <1>4. \A u \in Threads : Applying(u, k) => u = t
    BY <1>3 DEF InvAlone, Threads, Applying
  <1>5. \A u \in Threads : u # t => ~Counting(u, k) /\ ~Counting(u, k)'
    <2>1. \A u \in Threads : u # t => ~Counting(u, k)
      BY <1>4 DEF Counting
    <2>2. Step(t)
      BY DEF Step
    <2> QED  BY <2>1, <2>2, OthersCount
  <1>6. Alone(t, k)
    BY <1>3 DEF InvAlone
  <1>7. CASE ReadOldSize(t)
    <2>1. /\ pc[t] = "size" /\ pc'[t] = "search" /\ op'[t].old = EncodedSize(map[k]) /\ Key(t)' = k
      BY <1>1, <1>7, SizeEffect DEF Stays
    <2>2. Counting(t, k)' /\ \A u \in Threads : ~Counting(u, k)
      BY <1>3, <1>5, <2>1 DEF Counting, Applying, At
    <2> QED  BY <1>2, <2>1, <2>2, CountedIs DEF CountedRight, Account, At
  <1>8. CASE SearchFree(t) \/ SearchReplace(t) \/ Remove(t) \/ Insert(t)
    <2>1. /\ pc[t] \in Busy \ {"size", "account"} /\ pc'[t] \in Busy \ {"size"}
          /\ op'[t].old = op[t].old /\ Key(t)' = k
      BY <1>1, <1>8, FreeEffect, ReplaceEffect, RemoveEffect, InsertEffect DEF Stays
    <2>2. Counting(t, k) /\ Counting(t, k)'
      BY <1>3, <2>1 DEF Counting, Applying, At
    <2> QED  BY <1>2, <2>1, <2>2, CountedIs DEF CountedRight, Account, At
  <1>9. CASE SearchObsolete(t)
    <2>1. pc[t] = "search" /\ pc'[t] = "idle" /\ Present(map[k]) /\ UNCHANGED map
      BY <1>1, <1>9, ObsoleteEffect DEF Leaves
    <2>2. Counting(t, k) /\ op[t].old = EncodedSize(map[k])
      BY <1>3, <1>6, <2>1 DEF Counting, At, Alone
    <2>3. \A u \in Threads : ~Counting(u, k)'
      BY <1>5, <2>1 DEF Counting, Applying
    <2> QED  BY <1>2, <2>1, <2>2, <2>3, CountedIs DEF CountedRight, Account, At
  <1>10. CASE Account(t)
    <2>1. pc[t] = "account" /\ pc'[t] = "idle" /\ UNCHANGED map
      BY <1>1, <1>10, AccountEffect DEF Leaves
    <2>2. map[k] = Rec(t)
      BY <1>6, <2>1 DEF Alone
    <2>3. \A u \in Threads : ~Counting(u, k)'
      BY <1>5, <2>1 DEF Counting, Applying
    <2> QED  BY <1>2, <1>10, <2>1, <2>2, <2>3
  <1> QED  BY <1>7, <1>8, <1>9, <1>10 DEF WriteStep, Apply

LEMMA InitSize == ReadInit => InvSize
  <1> SUFFICES ASSUME ReadInit PROVE bytes = Total(Counted)
    BY DEF InvSize
  <1>1. bytes = 0
    BY DEF ReadInit, Init
  <1>2. \A k \in Keys, t \in Threads : ~Counting(t, k)
    BY DEF ReadInit, Init, Counting, Applying, Busy
  <1>3. \A k \in Keys : Counted[k] = 0
    BY <1>2 DEF ReadInit, Init, Counted, EncodedSize, Present
  <1> QED  BY <1>1, <1>3, TotalZero

LEMMA SizeStep ==
    ASSUME Shape, Shape', InvNumbers, InvAlone, InvAlone', InvSize, [ReadNext]_readVars
    PROVE  InvSize'
  <1> SUFFICES ASSUME raced' = {} PROVE bytes' = Total(Counted')
    BY DEF InvSize
  <1>1. CASE Swap
    <2>1. bytes' = 0
      BY <1>1, SwapEffect
    <2>2. \A k \in Keys, t \in Threads : ~Counting(t, k)'
      BY <1>1, SwapEffect DEF Counting, Applying, Busy
    <2>3. \A k \in Keys : Counted'[k] = 0
      BY <1>1, <2>2, SwapEffect DEF Counted, EncodedSize, Present
    <2> QED  BY <2>1, <2>3, TotalZero
  <1>2. ASSUME NEW t \in Threads, Step(t) PROVE bytes' = Total(Counted')
    <2>1. raced = {}
      BY <1>2, Forward
    <2>2. bytes = Total(Counted) /\ Counted \in [Keys -> Nat]
      BY <2>1, CountedType DEF InvSize
    <2>3. Counted' = [k \in Keys |-> Counted'[k]]
      BY DEF Counted
    <2>4. \A k \in Keys : ~Counting(t, k) /\ ~Counting(t, k)' /\ map'[k] = map[k] => Counted'[k] = Counted[k]
      BY <1>2, <2>1, OtherKeysCount
    <2>5. CASE Write(t)
      <3>1. \A k \in Keys : ~Counting(t, k) /\ ~Counting(t, k)' /\ map'[k] = map[k] /\ UNCHANGED bytes
        BY <2>5, WriteEffect DEF Counting, Applying, At, Busy
      <3>2. Counted' = Counted
        BY <2>2, <2>3, <2>4, <3>1
      <3> QED  BY <2>2, <2>5, <3>2, WriteEffect
    <2>6. CASE Read(t) \/ LookActive(t) \/ LookBelow(t) \/ ReadReturn(t)
      <3>1. \A k \in Keys : ~Counting(t, k) /\ ~Counting(t, k)' /\ map'[k] = map[k]
        BY <2>6, GetEffect DEF Counting, Applying, At, Busy
      <3>2. Counted' = Counted
        BY <2>2, <2>3, <2>4, <3>1
      <3> QED  BY <2>2, <2>6, <3>2, GetEffect
    <2>7. CASE WriteStep(t)
      <3>1. UNCHANGED pathVars /\ Key(t) \in Keys
        BY <2>7, ShapeFacts DEF WriteStep
      <3>2. ASSUME NEW k \in Keys, k # Key(t) PROVE Counted'[k] = Counted[k]
        <4>1. map'[k] = map[k] /\ (Key(t)' = Key(t) \/ pc'[t] = "idle")
          BY <2>7, <3>1, <3>2, SizeEffect, FreeEffect, ReplaceEffect, ObsoleteEffect, RemoveEffect,
             InsertEffect, AccountEffect DEF WriteStep, Apply, Stays, Leaves
        <4>2. ~Counting(t, k) /\ ~Counting(t, k)'
          BY <3>2, <4>1 DEF Counting, Applying, Busy
        <4> QED  BY <2>4, <4>1, <4>2
      <3>3. Counted'[Key(t)] = IF Account(t) THEN EncodedSize(Rec(t)) ELSE Counted[Key(t)]
        BY <2>1, <2>7, <3>1, OwnKeyCounts
      <3>4. CASE Account(t)
        <4> DEFINE n == EncodedSize(Rec(t))
        <4>1. n \in Nat /\ op[t].old \in Nat
          <5>1. Rec(t) \in Entries /\ op[t].old \in Nat
            BY ShapeFacts
          <5> QED  BY <5>1, SizeFacts
        <4>2. Counted' = [Counted EXCEPT ![Key(t)] = n]
          BY <2>2, <2>3, <3>1, <3>2, <3>3, <3>4
        <4>3. Counted[Key(t)] = op[t].old
          <5>1. pc[t] = "account" /\ t \in Writers
            BY <3>1, <3>4, AccountEffect DEF InvNumbers, Applies, Busy
          <5>2. Counting(t, Key(t))
            BY <5>1 DEF Counting, Applying, At, Busy
          <5> QED  BY <2>1, <3>1, <5>2, CountedIs DEF CountedRight
        <4>4. bytes' = Minus(bytes, op[t].old) + n
          BY <3>1, <3>4, AccountEffect
        <4>5. /\ Total(Counted') + op[t].old = bytes + n /\ op[t].old <= bytes
              /\ Total(Counted') \in Nat /\ bytes \in Nat
          <5>1. bytes = Total(Counted) /\ Counted \in [Keys -> Nat] /\ Key(t) \in Keys /\ n \in Nat
            BY <2>2, <3>1, <4>1
          <5> HIDE DEF n
          <5>2. /\ Total(Counted) \in Nat /\ Total([Counted EXCEPT ![Key(t)] = n]) \in Nat
                /\ Total([Counted EXCEPT ![Key(t)] = n]) + Counted[Key(t)] = Total(Counted) + n
                /\ Counted[Key(t)] <= Total(Counted)
            BY <5>1, TotalChanges, TotalHas
          <5> QED  BY <4>2, <4>3, <5>1, <5>2
        <4> HIDE DEF n
        <4> QED  BY <4>1, <4>4, <4>5 DEF Minus
      <3>5. CASE ~Account(t)
        <4>1. Counted' = Counted
          BY <2>2, <2>3, <3>1, <3>2, <3>3, <3>5
        <4>2. bytes' = bytes
          BY <2>7, <3>1, <3>5, SizeEffect, FreeEffect, ReplaceEffect, ObsoleteEffect, RemoveEffect,
             InsertEffect DEF WriteStep, Apply
        <4> QED  BY <2>2, <4>1, <4>2
      <3> QED  BY <3>4, <3>5
    <2> QED  BY <1>2, <2>5, <2>6, <2>7 DEF Step
  <1>3. CASE UNCHANGED readVars
    <2>1. raced' = raced /\ bytes' = bytes /\ Counted' = Counted
      BY <1>3 DEF readVars, vars, Counted, Counting, Applying, Key, At
    <2> QED  BY <2>1 DEF InvSize
  <1> QED  BY <1>1, <1>2, <1>3 DEF ReadNext, Step
-------------------------------------------------------------------------------
(***************************************************************************)
(* The invariant, and what follows from it.                                *)
(***************************************************************************)
\* Every state of ReadSpec has the inductive invariant.
LEMMA PathInvHolds == ReadSpec => []PathInv
  <1>1. ReadInit => PathInv
    BY InitShape, InitNumbers, InitCovered, InitOrigin, InitAlone, InitGets, InitBytes, InitSize,
       BytesBounded DEF PathInv
  <1>2. PathInv => Shape
    BY DEF PathInv, ReadTypeOK, Shape, Pcs
  <1>3. PathInv /\ [ReadNext]_readVars => PathInv'
    <2> SUFFICES ASSUME PathInv, [ReadNext]_readVars PROVE PathInv'
      OBVIOUS
    <2>1. Shape /\ InvNumbers /\ InvCovered /\ InvOrigin /\ InvAlone /\ InvGets /\ InvBytes /\ InvSize
      BY <1>2 DEF PathInv
    <2>2. Shape'
      BY <2>1, ShapeStep
    <2>3. InvNumbers'
      BY <2>1, <2>2, NumbersStep
    <2>4. InvCovered'
      BY <2>1, <2>2, CoveredStep
    <2>5. InvOrigin'
      BY <2>1, <2>2, OriginStep
    <2>6. InvAlone'
      BY <2>1, <2>2, AloneStep
    <2>7. InvGets'
      BY <2>1, <2>2, GetsStep
    <2>8. InvBytes'
      BY <2>1, <2>2, BytesStep
    <2>9. InvSize'
      BY <2>1, <2>2, <2>6, SizeStep
    <2>10. ReadTypeOK'
      BY <2>2, <2>8, BytesBounded, PTL
    <2> QED  BY <2>3, <2>4, <2>5, <2>6, <2>7, <2>8, <2>9, <2>10 DEF PathInv
  <1> QED  BY <1>1, <1>3, PTL DEF ReadSpec

\* The types of the variables, and the bound on the byte counter: no order of concurrent
\* applies makes approx_bytes wrap, or grow by more than one record per apply.
THEOREM ReadTypeOKHolds == ReadSpec => []ReadTypeOK
  <1>1. PathInv => ReadTypeOK
    BY DEF PathInv
  <1> QED  BY <1>1, PathInvHolds, PTL

\* Once the applies of a key have returned the key has the newest of them, in the active
\* table or below, whatever order they removed and inserted in (InvCovered, InvOrigin).
THEOREM NewestWinsHolds == ReadSpec => []NewestWins
  <1>1. PathInv => NewestWins
    <2> SUFFICES ASSUME PathInv, NEW k \in Keys, \A t \in Threads : ~Applying(t, k)
                 PROVE  Over(map[k], below[k]) = done[k]
      BY DEF NewestWins
    <2>1. map[k] \in Entries /\ below[k] \in Entries /\ done[k] \in Entries
      BY DEF PathInv, ReadTypeOK
    <2>2. Over(map[k], below[k]) \in Entries
      BY <2>1, OverFacts
    <2>3. Over(map[k], below[k]).seq \in Nat /\ done[k].seq \in Nat
      BY <2>1, <2>2, EntryFacts
    <2>4. Over(map[k], below[k]).seq >= done[k].seq
      BY DEF PathInv, InvCovered, Covered, Pending
    <2>5. NotAfter(Over(map[k], below[k]), done[k])
      BY <2>1 DEF PathInv, InvOrigin, Over
    <2> QED  BY <2>3, <2>4, <2>5 DEF NotAfter
  <1> QED  BY <1>1, PathInvHolds, PTL

\* What a get answers: the newest entry at its call or a newer one, or, when its look at
\* the active table fell into an apply of the key, what the layers below hold.
THEOREM CurrentOrBelowHolds == ReadSpec => []CurrentOrBelow
  <1>1. PathInv => CurrentOrBelow
    BY DEF PathInv, InvGets, GetsRight, CurrentOrBelow, Answered, At, Threads
  <1> QED  BY <1>1, PathInvHolds, PTL

\* Where no key was written by two applies at a time, approx_bytes is exactly the size of
\* the entries whenever no apply is in progress.
THEOREM SizeExactHolds == ReadSpec => []SizeExact
  <1>1. PathInv => SizeExact
    <2> SUFFICES ASSUME PathInv, raced = {}, \A t \in Writers : At(t, "idle")
                 PROVE  bytes = MapThenSumSet(LAMBDA k : EncodedSize(map[k]), Keys)
      BY DEF SizeExact
    <2> DEFINE sizes == [k \in Keys |-> EncodedSize(map[k])]
    <2>1. \A k \in Keys, t \in Threads : ~Counting(t, k)
      BY DEF Counting, Applying, At, Busy
    <2>2. Counted = sizes
      BY <2>1 DEF Counted
    <2>3. bytes = Total(sizes)
      BY <2>2 DEF PathInv, InvSize
    <2> DEFINE A(i) == i = [s \in SUBSET Keys |-> IF s = {} THEN 0 ELSE
                            sizes[CHOOSE x \in s : TRUE] + i[s \ {CHOOSE x \in s : TRUE}]]
               B(i) == i = [s \in SUBSET Keys |-> IF s = {} THEN 0 ELSE
                            EncodedSize(map[CHOOSE x \in s : TRUE]) + i[s \ {CHOOSE x \in s : TRUE}]]
    <2>4. \A i : A(i) <=> B(i)
      <3>1. ASSUME NEW s \in SUBSET Keys, s # {}
            PROVE  sizes[CHOOSE x \in s : TRUE] = EncodedSize(map[CHOOSE x \in s : TRUE])
        BY <3>1
      <3> HIDE DEF sizes
      <3> QED  BY <3>1
    <2>5. (CHOOSE i : A(i)) = (CHOOSE i : B(i))
      <3> HIDE DEF A, B
      <3> QED  BY <2>4, Zenon
    <2>6. Total(sizes) = (CHOOSE i : A(i))[Keys]
      <3> HIDE DEF sizes
      <3> QED  BY DEF Total, MapThenSumSet, MapThenFoldSet
    <2>7. MapThenSumSet(LAMBDA k : EncodedSize(map[k]), Keys) = (CHOOSE i : B(i))[Keys]
      BY DEF MapThenSumSet, MapThenFoldSet
    <2> HIDE DEF A, B
    <2> QED  BY <2>3, <2>5, <2>6, <2>7
  <1> QED  BY <1>1, PathInvHolds, PTL
===============================================================================
