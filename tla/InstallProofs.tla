------------------------------ MODULE InstallProofs ------------------------------
(***************************************************************************)
(* Proofs about SsTable and Install, of the inductive invariant            *)
(* InstallInv: the index and the footer tell of the file, a get answers    *)
(* with exactly what was added or finds the damage, and a power loss       *)
(* during the job leaves the records in the log or in the table.           *)
(***************************************************************************)
EXTENDS InstallInv, SequenceTheorems, NaturalsInduction, WellFoundedInduction, TLAPS

(***************************************************************************)
(* Numbers, and the folds of the model.                                    *)
(***************************************************************************)
\* A set that has 0 and every successor of its members has every number.
LEMMA AllNumbers ==
    ASSUME NEW S, 0 \in S, \A n \in Nat : n \in S => n + 1 \in S
    PROVE  Nat \subseteq S
  <1> DEFINE R == OpToRel(<, Nat)
             T == Nat \ S
  <1> SUFFICES ASSUME T # {} PROVE FALSE
    OBVIOUS
  <1>1. IsWellFoundedOn(R, Nat)
    BY NatLessThanWellFounded
  <1>2. PICK x \in T : \A y \in T : ~ (<<y, x>> \in R)
    <2>1. T \subseteq Nat
      OBVIOUS
    <2> HIDE DEF R, T
    <2> QED  BY <1>1, <2>1, WFMin
  <1>3. x \in Nat /\ x \notin S /\ x # 0
    OBVIOUS
  <1>4. x - 1 \in T
    <2>1. x - 1 \in Nat /\ (x - 1 \in S => (x - 1) + 1 \in S) /\ (x - 1) + 1 = x
      BY <1>3
    <2> HIDE DEF R
    <2> QED  BY <1>3, <2>1
  <1>5. <<x - 1, x>> \in R
    BY <1>3 DEF OpToRel
  <1> QED  BY <1>2, <1>4, <1>5

\* FoldLeft goes from the last index of a sequence down.
LEMMA MaxLast ==
    ASSUME NEW n \in Nat, NEW s \in SUBSET (1..n + 1), n + 1 \in s
    PROVE  Max(s) = n + 1
  <1>1. \A m \in s : n + 1 >= m
    OBVIOUS
  <1>2. Max(s) \in s /\ Max(s) >= n + 1
    BY <1>1 DEF Max
  <1>3. Max(s) \in 1..n + 1
    BY <1>2
  <1> QED  BY <1>2, <1>3

Tally(f, recs, s) == IF s = {} THEN 0 ELSE LET x == Max(s) IN f[s \ {x}] + RecLen(recs[x])
Tallies(f, recs, n) == f = [s \in SUBSET (1..n) |-> Tally(f, recs, s)]

LEMMA TallyExists ==
    ASSUME NEW recs, NEW n \in Nat
    PROVE  \E f : Tallies(f, recs, n)
  <1> DEFINE Has == {m \in Nat : \E f : Tallies(f, recs, m)}
  <1>1. 0 \in Has
    <2> DEFINE f == [s \in SUBSET (1..0) |-> 0]
    <2>1. 1..0 = {}
      OBVIOUS
    <2>2. Tallies(f, recs, 0)
      BY <2>1 DEF Tallies, Tally
    <2> HIDE DEF f
    <2> QED  BY <2>2
  <1>2. ASSUME NEW m \in Nat, m \in Has PROVE m + 1 \in Has
    <2>1. PICK g : Tallies(g, recs, m)
      BY <1>2
    <2>2. \A s \in SUBSET (1..m) : g[s] = Tally(g, recs, s)
      BY <2>1 DEF Tallies
    <2>3. ASSUME NEW s \in SUBSET (1..m + 1)
          PROVE  /\ m + 1 \in s => Max(s) = m + 1 /\ s \ {Max(s)} \in SUBSET (1..m)
                 /\ m + 1 \notin s => s \in SUBSET (1..m)
                 /\ s \in SUBSET (1..m) => m + 1 \notin s
      <3>1. CASE m + 1 \in s
        <4>1. Max(s) = m + 1
          BY <3>1, MaxLast
        <4> QED  BY <3>1, <4>1
      <3>2. CASE m + 1 \notin s
        BY <3>2
      <3> QED  BY <3>1, <3>2
    <2> DEFINE f == [s \in SUBSET (1..m + 1) |-> Tally(g, recs, s)]
    <2>4. ASSUME NEW s \in SUBSET (1..m) PROVE f[s] = g[s]
      <3>1. s \in SUBSET (1..m + 1)
        OBVIOUS
      <3> QED  BY <2>2, <3>1
    <2>5. ASSUME NEW s \in SUBSET (1..m) PROVE s # {} => s \ {Max(s)} \in SUBSET (1..m)
      OBVIOUS
    <2>6. ASSUME NEW s \in SUBSET (1..m + 1) PROVE f[s] = Tally(f, recs, s)
      <3>1. s # {} => f[s \ {Max(s)}] = g[s \ {Max(s)}]
        BY <2>3, <2>4, <2>5
      <3>2. f[s] = Tally(g, recs, s)
        OBVIOUS
      <3> HIDE DEF f
      <3> QED  BY <3>1, <3>2 DEF Tally
    <2>7. f = [s \in SUBSET (1..m + 1) |-> f[s]]
      OBVIOUS
    <2>8. Tallies(f, recs, m + 1)
      <3> HIDE DEF f
      <3> QED  BY <2>6, <2>7 DEF Tallies
    <2> QED  BY <2>8
  <1> HIDE DEF Has
  <1>3. n \in Has
    BY <1>1, <1>2, AllNumbers
  <1> QED  BY <1>3 DEF Has

LEMMA LenUnfolds ==
    ASSUME NEW recs \in Seq(Recs)
    PROVE  \E f : Tallies(f, recs, Len(recs)) /\ LenOf(recs) = f[1..Len(recs)]
  <1> DEFINE f == CHOOSE g : Tallies(g, recs, Len(recs))
  <1>1. Tallies(f, recs, Len(recs))
    BY TallyExists
  <1>2. LenOf(recs) = f[1..Len(recs)]
    <2>1. DOMAIN recs = 1..Len(recs)
      OBVIOUS
    <2> DEFINE A(i) == i = [s \in SUBSET DOMAIN recs |-> IF s = {} THEN 0 ELSE
                                i[s \ {Max(s)}] + RecLen(recs[Max(s)])]
    <2>2. LenOf(recs) = (CHOOSE i : A(i))[DOMAIN recs]
      BY Zenon DEF LenOf, FoldLeft, MapThenFoldSet
    <2>3. \A i : A(i) <=> Tallies(i, recs, Len(recs))
      BY <2>1 DEF Tallies, Tally
    <2>4. (CHOOSE i : A(i)) = f
      <3> HIDE DEF A
      <3> QED  BY <2>3, Zenon
    <2> HIDE DEF A, f
    <2> QED  BY <2>1, <2>2, <2>4
  <1> QED  BY <1>1, <1>2

LEMMA RecLenType == \A r \in Recs : RecLen(r) \in Nat \ {0}
  <1> SUFFICES ASSUME NEW r \in Recs PROVE RecLen(r) \in Nat \ {0}
    OBVIOUS
  <1>1. PICK n \in ValueLens \cup {0} : r.len = n
    BY DEF Recs
  <1>2. ValueLens \subseteq Nat /\ KeyLen \in Nat
    BY SsTableAssumption
  <1>3. n \in Nat
    BY <1>2
  <1>4. 17 + KeyLen + n \in Nat \ {0}
    BY <1>2, <1>3
  <1> QED  BY <1>1, <1>4 DEF RecLen

\* LenOf, record by record.
LEMMA TallyFacts ==
    ASSUME NEW recs \in Seq(Recs), NEW f, Tallies(f, recs, Len(recs))
    PROVE  /\ f[1..0] = 0
           /\ \A n \in 0..Len(recs) : f[1..n] \in Nat
           /\ \A n \in 0..Len(recs) - 1 : f[1..n + 1] = f[1..n] + RecLen(recs[n + 1])
  <1>1. \A s \in SUBSET (1..Len(recs)) : f[s] = Tally(f, recs, s)
    BY DEF Tallies
  <1>2. f[1..0] = 0
    <2>1. 1..0 = {}
      OBVIOUS
    <2> QED  BY <1>1, <2>1 DEF Tally
  <1>3. ASSUME NEW n \in 0..Len(recs) - 1 PROVE f[1..n + 1] = f[1..n] + RecLen(recs[n + 1])
    <2>1. n \in Nat /\ 1..n + 1 \in SUBSET (1..Len(recs)) /\ n + 1 \in 1..n + 1
      OBVIOUS
    <2>2. Max(1..n + 1) = n + 1
      BY <2>1, MaxLast
    <2>3. (1..n + 1) \ {n + 1} = 1..n
      BY <2>1
    <2> QED  BY <1>1, <2>1, <2>2, <2>3 DEF Tally
  <1> DEFINE Good == {n \in Nat : n <= Len(recs) => f[1..n] \in Nat}
  <1>4. 0 \in Good
    BY <1>2
  <1>5. ASSUME NEW n \in Nat, n \in Good PROVE n + 1 \in Good
    <2> SUFFICES ASSUME n + 1 <= Len(recs) PROVE f[1..n + 1] \in Nat
      OBVIOUS
    <2>1. f[1..n] \in Nat
      BY <1>5
    <2>2. RecLen(recs[n + 1]) \in Nat
      BY RecLenType
    <2>3. f[1..n + 1] = f[1..n] + RecLen(recs[n + 1])
      BY <1>3
    <2> QED  BY <2>1, <2>2, <2>3
  <1>6. Nat \subseteq Good
    <2> HIDE DEF Good
    <2> QED  BY <1>4, <1>5, AllNumbers
  <1> QED  BY <1>2, <1>3, <1>6

LEMMA LenFacts ==
    ASSUME NEW recs \in Seq(Recs)
    PROVE  /\ LenOf(recs) \in Nat /\ (recs # <<>> => LenOf(recs) > 0) /\ LenOf(<<>>) = 0
           /\ \A r \in Recs : LenOf(Append(recs, r)) = LenOf(recs) + RecLen(r)
  <1>1. PICK f : Tallies(f, recs, Len(recs)) /\ LenOf(recs) = f[1..Len(recs)]
    BY LenUnfolds
  <1>2. /\ \A n \in 0..Len(recs) : f[1..n] \in Nat
        /\ \A n \in 0..Len(recs) - 1 : f[1..n + 1] = f[1..n] + RecLen(recs[n + 1])
        /\ f[1..0] = 0
    BY <1>1, TallyFacts
  <1>3. LenOf(recs) \in Nat
    BY <1>1, <1>2
  <1>4. ASSUME recs # <<>> PROVE LenOf(recs) > 0
    <2>1. Len(recs) - 1 \in 0..Len(recs) - 1 /\ (Len(recs) - 1) + 1 = Len(recs)
          /\ recs[Len(recs)] \in Recs
      BY <1>4
    <2>2. f[1..Len(recs)] = f[1..Len(recs) - 1] + RecLen(recs[Len(recs)])
      BY <1>2, <2>1
    <2>3. f[1..Len(recs) - 1] \in Nat /\ RecLen(recs[Len(recs)]) \in Nat \ {0}
      BY <1>2, <2>1, RecLenType
    <2> QED  BY <1>1, <2>2, <2>3
  <1>5. LenOf(<<>>) = 0
    <2>1. <<>> \in Seq(Recs) /\ Len(<<>>) = 0
      OBVIOUS
    <2>2. PICK g : Tallies(g, <<>>, 0) /\ LenOf(<<>>) = g[1..0]
      BY <2>1, LenUnfolds
    <2>3. g[1..0] = 0
      <3>1. 1..0 = {} /\ 1..0 \in SUBSET (1..0)
        OBVIOUS
      <3> QED  BY <2>2, <3>1 DEF Tallies, Tally
    <2> QED  BY <2>2, <2>3
  <1>6. ASSUME NEW r \in Recs PROVE LenOf(Append(recs, r)) = LenOf(recs) + RecLen(r)
    <2> DEFINE more == Append(recs, r)
    <2>1. /\ more \in Seq(Recs) /\ Len(more) = Len(recs) + 1 /\ more[Len(recs) + 1] = r
          /\ \A n \in 1..Len(recs) : more[n] = recs[n]
      OBVIOUS
    <2> HIDE DEF more
    <2>2. PICK g : Tallies(g, more, Len(more)) /\ LenOf(more) = g[1..Len(more)]
      BY <2>1, LenUnfolds
    <2>3. /\ \A n \in 0..Len(recs) : g[1..n + 1] = g[1..n] + RecLen(more[n + 1])
          /\ g[1..0] = 0
      BY <2>1, <2>2, TallyFacts
    <2> DEFINE Same == {n \in Nat : n <= Len(recs) => g[1..n] = f[1..n]}
    <2>4. 0 \in Same
      BY <1>2, <2>3
    <2>5. ASSUME NEW n \in Nat, n \in Same PROVE n + 1 \in Same
      <3> SUFFICES ASSUME n + 1 <= Len(recs) PROVE g[1..n + 1] = f[1..n + 1]
        OBVIOUS
      <3>1. g[1..n] = f[1..n] /\ more[n + 1] = recs[n + 1]
        BY <2>1, <2>5
      <3> QED  BY <1>2, <2>3, <3>1
    <2>6. Len(recs) \in Same
      <3> HIDE DEF Same
      <3> QED  BY <2>4, <2>5, AllNumbers
    <2>7. g[1..Len(recs) + 1] = g[1..Len(recs)] + RecLen(r)
      BY <2>1, <2>3
    <2>8. LenOf(more) = LenOf(recs) + RecLen(r)
      BY <1>1, <2>1, <2>2, <2>6, <2>7
    <2> QED  BY <2>8 DEF more
  <1> QED  BY <1>3, <1>4, <1>5, <1>6

\* FlattenSeq, sequence by sequence.
Link(f, ss, i) == IF i = 1 THEN ss[i] ELSE f[i - 1] \o ss[i]
Links(f, ss, n) == f = [i \in 1..n |-> Link(f, ss, i)]

LEMMA LinkExists ==
    ASSUME NEW ss, NEW n \in Nat
    PROVE  \E f : Links(f, ss, n)
  <1> DEFINE Has == {m \in Nat : \E f : Links(f, ss, m)}
  <1>1. 0 \in Has
    <2> DEFINE f == [i \in 1..0 |-> 0]
    <2>1. 1..0 = {}
      OBVIOUS
    <2>2. Links(f, ss, 0)
      BY <2>1 DEF Links
    <2> HIDE DEF f
    <2> QED  BY <2>2
  <1>2. ASSUME NEW m \in Nat, m \in Has PROVE m + 1 \in Has
    <2>1. PICK g : Links(g, ss, m)
      BY <1>2
    <2>2. \A i \in 1..m : g[i] = Link(g, ss, i)
      BY <2>1 DEF Links
    <2> DEFINE f == [i \in 1..m + 1 |-> Link(g, ss, i)]
    <2>3. ASSUME NEW i \in 1..m PROVE f[i] = g[i]
      <3>1. i \in 1..m + 1
        OBVIOUS
      <3> QED  BY <2>2, <3>1
    <2>4. ASSUME NEW i \in 1..m + 1 PROVE f[i] = Link(f, ss, i)
      <3>1. f[i] = Link(g, ss, i)
        OBVIOUS
      <3>2. i # 1 => i - 1 \in 1..m
        OBVIOUS
      <3>3. i # 1 => f[i - 1] = g[i - 1]
        BY <2>3, <3>2
      <3> HIDE DEF f
      <3> QED  BY <3>1, <3>3 DEF Link
    <2>5. f = [i \in 1..m + 1 |-> f[i]]
      OBVIOUS
    <2>6. Links(f, ss, m + 1)
      <3> HIDE DEF f
      <3> QED  BY <2>4, <2>5 DEF Links
    <2> QED  BY <2>6
  <1> HIDE DEF Has
  <1>3. n \in Has
    BY <1>1, <1>2, AllNumbers
  <1> QED  BY <1>3 DEF Has

LEMMA FlattenUnfolds ==
    ASSUME NEW ss, Len(ss) \in Nat \ {0}
    PROVE  \E f : Links(f, ss, Len(ss)) /\ FlattenSeq(ss) = f[Len(ss)]
  <1> DEFINE A(i) == i = [j \in 1..Len(ss) |-> IF j = 1 THEN ss[j] ELSE i[j - 1] \o ss[j]]
             f == CHOOSE i : A(i)
  <1>1. \A i : A(i) <=> Links(i, ss, Len(ss))
    BY DEF Links, Link
  <1>2. A(f)
    <2>1. \E i : A(i)
      BY <1>1, LinkExists
    <2> HIDE DEF A
    <2> QED  BY <2>1
  <1>3. FlattenSeq(ss) = f[Len(ss)]
    BY Zenon DEF FlattenSeq
  <1> HIDE DEF A, f
  <1> QED  BY <1>1, <1>2, <1>3

LEMMA FlattenFacts ==
    ASSUME NEW ss \in Seq(Seq(Recs))
    PROVE  /\ FlattenSeq(<<>>) = <<>> /\ FlattenSeq(ss) \in Seq(Recs)
           /\ \A s \in Seq(Recs) : FlattenSeq(Append(ss, s)) = FlattenSeq(ss) \o s
  <1>1. FlattenSeq(<<>>) = <<>>
    BY DEF FlattenSeq
  <1>2. FlattenSeq(ss) \in Seq(Recs)
    <2>1. CASE Len(ss) = 0
      <3>1. ss = <<>> /\ <<>> \in Seq(Recs)
        BY <2>1
      <3>2. FlattenSeq(ss) = <<>>
        BY <1>1, <3>1
      <3> QED  BY <3>1, <3>2
    <2>2. CASE Len(ss) # 0
      <3>1. PICK f : Links(f, ss, Len(ss)) /\ FlattenSeq(ss) = f[Len(ss)]
        BY <2>2, FlattenUnfolds
      <3> DEFINE Good == {n \in Nat : n + 1 <= Len(ss) => f[n + 1] \in Seq(Recs)}
      <3>2. \A i \in 1..Len(ss) : f[i] = Link(f, ss, i)
        BY <3>1 DEF Links
      <3>3. 0 \in Good
        BY <3>2 DEF Link
      <3>4. ASSUME NEW n \in Nat, n \in Good PROVE n + 1 \in Good
        <4> SUFFICES ASSUME (n + 1) + 1 <= Len(ss) PROVE f[(n + 1) + 1] \in Seq(Recs)
          OBVIOUS
        <4>1. f[n + 1] \in Seq(Recs) /\ (n + 1) + 1 \in 1..Len(ss)
              /\ (n + 1) + 1 # 1 /\ ((n + 1) + 1) - 1 = n + 1
          BY <3>4
        <4>2. ss[(n + 1) + 1] \in Seq(Recs)
          BY <4>1
        <4>3. f[(n + 1) + 1] = f[n + 1] \o ss[(n + 1) + 1]
          BY <3>2, <4>1 DEF Link
        <4> QED  BY <4>1, <4>2, <4>3
      <3>5. Len(ss) - 1 \in Good
        <4>1. Len(ss) - 1 \in Nat
          BY <2>2
        <4> HIDE DEF Good
        <4> QED  BY <3>3, <3>4, <4>1, AllNumbers
      <3>6. Len(ss) - 1 \in Nat /\ (Len(ss) - 1) + 1 = Len(ss)
        BY <2>2
      <3> QED  BY <3>1, <3>5, <3>6
    <2> QED  BY <2>1, <2>2
  <1>3. ASSUME NEW s \in Seq(Recs) PROVE FlattenSeq(Append(ss, s)) = FlattenSeq(ss) \o s
    <2> DEFINE more == Append(ss, s)
    <2>1. /\ more \in Seq(Seq(Recs)) /\ Len(more) = Len(ss) + 1 /\ more[Len(ss) + 1] = s
          /\ \A i \in 1..Len(ss) : more[i] = ss[i]
      OBVIOUS
    <2> HIDE DEF more
    <2>2. PICK g : Links(g, more, Len(more)) /\ FlattenSeq(more) = g[Len(more)]
      <3>1. Len(more) \in Nat \ {0}
        BY <2>1
      <3> QED  BY <3>1, FlattenUnfolds
    <2>3. \A i \in 1..Len(more) : g[i] = Link(g, more, i)
      BY <2>2 DEF Links
    <2>4. CASE Len(ss) = 0
      <3>1. ss = <<>> /\ FlattenSeq(more) = s
        BY <2>1, <2>2, <2>3, <2>4 DEF Link
      <3>2. FlattenSeq(ss) \o s = s
        BY <1>1, <3>1
      <3> QED  BY <3>1, <3>2 DEF more
    <2>5. CASE Len(ss) # 0
      <3>1. PICK f : Links(f, ss, Len(ss)) /\ FlattenSeq(ss) = f[Len(ss)]
        BY <2>5, FlattenUnfolds
      <3>2. \A i \in 1..Len(ss) : f[i] = Link(f, ss, i)
        BY <3>1 DEF Links
      <3> DEFINE Same == {n \in Nat : n + 1 <= Len(ss) => g[n + 1] = f[n + 1]}
      <3>3. 0 \in Same
        BY <2>1, <2>3, <3>2 DEF Link
      <3>4. ASSUME NEW n \in Nat, n \in Same PROVE n + 1 \in Same
        <4> SUFFICES ASSUME (n + 1) + 1 <= Len(ss) PROVE g[(n + 1) + 1] = f[(n + 1) + 1]
          OBVIOUS
        <4>1. /\ g[n + 1] = f[n + 1] /\ (n + 1) + 1 \in 1..Len(ss) /\ (n + 1) + 1 \in 1..Len(more)
              /\ (n + 1) + 1 # 1 /\ ((n + 1) + 1) - 1 = n + 1
          BY <2>1, <3>4
        <4> QED  BY <2>1, <2>3, <3>2, <4>1 DEF Link
      <3>5. Len(ss) - 1 \in Same
        <4>1. Len(ss) - 1 \in Nat
          BY <2>5
        <4> HIDE DEF Same
        <4> QED  BY <3>3, <3>4, <4>1, AllNumbers
      <3>6. g[Len(ss)] = f[Len(ss)]
        <4>1. Len(ss) - 1 \in Nat /\ (Len(ss) - 1) + 1 = Len(ss)
          BY <2>5
        <4> QED  BY <3>5, <4>1
      <3>7. g[Len(more)] = g[Len(ss)] \o s
        <4>1. Len(more) \in 1..Len(more) /\ Len(more) # 1 /\ Len(more) - 1 = Len(ss)
          BY <2>1, <2>5
        <4> QED  BY <2>1, <2>3, <4>1 DEF Link
      <3> QED  BY <2>2, <3>1, <3>6, <3>7 DEF more
    <2> QED  BY <2>4, <2>5
  <1> QED  BY <1>1, <1>2, <1>3
-------------------------------------------------------------------------------
(***************************************************************************)
(* What the steps do to the file.                                          *)
(***************************************************************************)
LEMMA KeyFacts ==
    /\ Keys \subseteq Nat /\ Seqs \subseteq Nat /\ KeyLen \in Nat /\ BlockSizes \subseteq Nat /\ None \notin Keys
    /\ \A r \in Recs : r.key \in Keys /\ r.seq \in Seqs /\ r.key \in Nat /\ r.seq \in Nat
  <1>1. \A r \in Recs : r.key \in Keys /\ r.seq \in Seqs
    BY DEF Recs
  <1> QED  BY <1>1, SsTableAssumption

LEMMA RangeFacts == TypeOK => minSeq \in Nat /\ maxSeq \in Nat
  BY KeyFacts DEF TypeOK

\* The file ends behind its blocks, its index, its filter and its footer.
LEMMA FileFacts ==
    ASSUME TypeOK
    PROVE  /\ KeyLen \in Nat /\ FilterLen \in Nat /\ offset \in Nat
           /\ IndexLen(Len(index)) \in Nat /\ IndexLen(Len(index))' = IndexLen(Len(index'))
           /\ FileLen \in Nat
           /\ FileLen = offset + IndexLen(Len(index)) + FilterLen + 128
  <1>1. KeyLen \in Nat /\ FilterLen \in Nat /\ offset \in Nat /\ Len(index) \in Nat
    BY SsTableAssumption DEF TypeOK
  <1>2. IndexLen(Len(index)) \in Nat
    <2>1. \A m, n \in Nat : m * n \in Nat
      OBVIOUS
    <2>2. IndexEntrySize + KeyLen \in Nat
      BY <1>1 DEF IndexEntrySize
    <2> QED  BY <1>1, <2>1, <2>2 DEF IndexLen
  <1>3. IndexLen(Len(index))' = IndexLen(Len(index'))
    BY DEF IndexLen
  <1> QED  BY <1>1, <1>2, <1>3 DEF FileLen, FooterSize

LEMMA BlockFacts ==
    ASSUME TypeOK, InvLayout, NEW i \in BlockIds
    PROVE  /\ blocks[i] \in Blocks /\ index[i] \in Index /\ i \in 1..Len(index)
           /\ Orig(i) \in Seq(Recs) /\ Orig(i) # <<>> /\ Len(Orig(i)) \in Nat \ {0}
           /\ LenOf(Orig(i)) \in Nat \ {0} /\ End(i) \in Nat
           /\ End(i) = blocks[i].off + 16 + LenOf(Orig(i)) /\ blocks[i].off < End(i)
  <1>1. blocks[i] \in Blocks /\ i \in 1..Len(index) /\ index[i] \in Index
    BY DEF TypeOK, InvLayout, BlockIds
  <1>2. Orig(i) \in Seq(Recs) /\ Orig(i) # <<>>
    BY DEF InvLayout
  <1>3. LenOf(Orig(i)) \in Nat \ {0}
    BY <1>2, LenFacts
  <1>4. blocks[i].off \in Nat
    BY <1>1 DEF Blocks
  <1>5. Len(Orig(i)) \in Nat \ {0}
    BY <1>2
  <1> QED  BY <1>1, <1>2, <1>3, <1>4, <1>5 DEF End, BlockHeaderSize

\* flush_block adds one block behind the others.
LEMMA FlushEffect ==
    ASSUME TypeOK, InvLayout, InvWriter, FlushBlock, payload # <<>>, Undamaged, damaged' = damaged,
           NEW n \in Nat, n = Len(blocks)
    PROVE  /\ Len(blocks') = n + 1 /\ offset' \in Nat /\ offset' > offset
           /\ blocks' \in Seq(Blocks) /\ index' \in Seq(Index)
           /\ \A i \in BlockIds : Orig(i)' = Orig(i)
           /\ Orig(n + 1)' = payload
           /\ InvLayout'
           /\ Parses => Parses'
  <1> DEFINE b == [off |-> offset, magic |-> TRUE, plen |-> plen, crc |-> payload, recs |-> payload]
             e == [first |-> first, klen |-> KeyLen, off |-> offset, len |-> BlockHeaderSize + plen]
  <1>1. /\ payload \in Seq(Recs) /\ offset \in Nat /\ plen \in Nat /\ plen = LenOf(payload)
        /\ first = payload[1].key /\ first \in Keys /\ blocks \in Seq(Blocks) /\ index \in Seq(Index)
        /\ n \in Nat /\ Len(index) = n
    <2>1. payload[1] \in Recs
      BY DEF TypeOK
    <2> QED  BY <2>1, KeyFacts DEF TypeOK, InvWriter, InvLayout
  <1>2. b \in Blocks /\ e \in Index
    BY <1>1, KeyFacts DEF Blocks, Index, BlockHeaderSize
  <1>3. blocks' = Append(blocks, b) /\ index' = Append(index, e) /\ offset' = offset + 16 + plen
    BY DEF FlushBlock, BlockHeaderSize
  <1>4. b.off = offset /\ b.magic /\ b.plen = plen /\ b.crc = payload /\ b.recs = payload
        /\ e.first = first /\ e.off = offset /\ e.len = BlockHeaderSize + plen /\ e.klen = KeyLen
    OBVIOUS
  <1> HIDE DEF b, e
  <1>5. /\ Len(blocks') = n + 1 /\ blocks'[n + 1] = b /\ blocks' \in Seq(Blocks)
        /\ Len(index') = n + 1 /\ index'[n + 1] = e /\ index' \in Seq(Index)
        /\ \A i \in 1..n : blocks'[i] = blocks[i] /\ index'[i] = index[i]
    BY <1>1, <1>2, <1>3
  <1>6. offset' \in Nat /\ offset' > offset
    BY <1>1, <1>3
  <1>7. damaged = "none" /\ damaged' = "none"
    BY DEF Undamaged
  <1>8. \A i \in 1..n : Orig(i)' = Orig(i) /\ End(i)' = End(i)
    BY <1>5, <1>7 DEF Orig, End
  <1>9. Orig(n + 1)' = payload /\ End(n + 1)' = offset'
    <2>1. blocks'[n + 1].crc = payload /\ blocks'[n + 1].off = offset
      BY <1>4, <1>5
    <2>2. Orig(n + 1)' = payload
      BY <1>7, <2>1 DEF Orig
    <2>3. End(n + 1)' = offset + 16 + LenOf(payload)
      BY <2>1, <2>2 DEF End, BlockHeaderSize
    <2> QED  BY <1>1, <1>3, <2>2, <2>3
  <1>10. \A i \in 1..n : /\ Orig(i) \in Seq(Recs) \ {<<>>} /\ End(i) <= offset /\ End(i) \in Nat
                         /\ blocks[i].magic /\ blocks[i].plen = LenOf(Orig(i)) /\ blocks[i].recs = Orig(i)
                         /\ index[i].first = Orig(i)[1].key /\ index[i].off = blocks[i].off
                         /\ index[i].len = BlockHeaderSize + LenOf(Orig(i))
    BY <1>7, BlockFacts DEF InvLayout, BlockIds
  <1>11. ASSUME NEW i \in 1..n + 1
         PROVE  /\ Orig(i)' \in Seq(Recs) \ {<<>>} /\ End(i)' <= offset'
                /\ blocks'[i].magic /\ blocks'[i].plen = LenOf(Orig(i)') /\ blocks'[i].recs = Orig(i)'
                /\ index'[i].first = (Orig(i)')[1].key /\ index'[i].off = blocks'[i].off
                /\ index'[i].len = BlockHeaderSize + LenOf(Orig(i)')
    <2>1. CASE i \in 1..n
      <3>1. End(i)' <= offset'
        <4>1. End(i)' = End(i) /\ End(i) \in Nat /\ End(i) <= offset
          BY <1>8, <1>10, <2>1
        <4> QED  BY <1>1, <1>6, <4>1
      <3>2. Orig(i)' = Orig(i) /\ blocks'[i] = blocks[i] /\ index'[i] = index[i]
        BY <1>5, <1>8, <2>1
      <3> QED  BY <1>10, <2>1, <3>1, <3>2
    <2>2. CASE i = n + 1
      <3>1. /\ index'[i].first = payload[1].key /\ index'[i].off = offset
            /\ index'[i].len = BlockHeaderSize + LenOf(payload)
        BY <1>1, <1>4, <1>5, <2>2
      <3>2. blocks'[i].off = offset /\ blocks'[i].magic /\ blocks'[i].plen = LenOf(payload)
            /\ blocks'[i].recs = payload
        BY <1>1, <1>4, <1>5, <2>2
      <3>3. Orig(i)' = payload /\ End(i)' = offset'
        BY <1>9, <2>2
      <3> QED  BY <1>1, <1>6, <2>2, <3>1, <3>2, <3>3
    <2> QED  BY <2>1, <2>2
  <1>12. ASSUME NEW i \in 1..n + 1, NEW j \in 1..n + 1, i < j PROVE End(i)' <= blocks'[j].off
    <2>1. i \in 1..n
      BY <1>1, <1>12
    <2>2. CASE j \in 1..n
      BY <1>5, <1>8, <1>12, <2>1, <2>2 DEF InvLayout, BlockIds
    <2>3. CASE j = n + 1
      BY <1>4, <1>5, <1>8, <1>10, <2>1, <2>3
    <2> QED  BY <2>2, <2>3
  <1>13. InvLayout'
    <2>1. BlockIds' = 1..n + 1
      BY <1>5 DEF BlockIds
    <2> QED  BY <1>5, <1>7, <1>11, <1>12, <2>1 DEF InvLayout
  <1>14. ASSUME Parses PROVE Parses'
    <2>1. \A i \in 1..n + 1 : i \in 1..n \/ i = n + 1
      OBVIOUS
    <2> QED  BY <1>1, <1>4, <1>5, <1>14, <2>1 DEF Parses
  <1> QED  BY <1>5, <1>6, <1>8, <1>9, <1>13, <1>14 DEF BlockIds

\* One block of the file is another one, in its place and with the same records or checksum.
LEMMA OneBlock ==
    ASSUME NEW old \in Seq(Blocks), NEW i \in 1..Len(old), NEW b \in Blocks,
           NEW new, new = [old EXCEPT ![i] = b]
    PROVE  /\ new \in Seq(Blocks) /\ Len(new) = Len(old) /\ new[i] = b
           /\ \A j \in 1..Len(old) : j # i => new[j] = old[j]
  OBVIOUS

LEMMA HeaderDamageEffect ==
    ASSUME TypeOK, InvLayout, Undamaged, HeaderDamage
    PROVE  /\ blocks' \in Seq(Blocks) /\ Len(blocks') = Len(blocks) /\ damaged' = "header"
           /\ \A i \in BlockIds : Orig(i)' = Orig(i) /\ blocks'[i].off = blocks[i].off
           /\ UNCHANGED <<index, bloom, filterHead, footer>>
  <1>1. PICK i \in 1..Len(blocks) :
           \/ blocks' = [blocks EXCEPT ![i].magic = FALSE]
           \/ blocks' = [blocks EXCEPT ![i].crc = Bad]
           \/ blocks' = [blocks EXCEPT ![i].plen = @ - 1]
           \/ blocks' = [blocks EXCEPT ![i].plen = @ + 1]
    BY DEF HeaderDamage
  <1>2. blocks \in Seq(Blocks) /\ blocks[i] \in Blocks /\ Orig(i) = blocks[i].crc
        /\ \A j \in 1..Len(blocks) : blocks[j].recs = Orig(j)
    <2>1. blocks \in Seq(Blocks) /\ blocks[i] \in Blocks
      BY DEF TypeOK
    <2>2. damaged = "none" /\ damaged \notin {"header", "payload"}
      BY DEF Undamaged
    <2>3. \A j \in 1..Len(blocks) : blocks[j].recs = Orig(j)
      BY <2>2 DEF InvLayout, BlockIds
    <2> QED  BY <2>1, <2>2, <2>3 DEF Orig
  <1>3. blocks[i].plen \in Nat \ {0}
    <2>1. blocks[i].plen = LenOf(Orig(i))
      BY DEF InvLayout, BlockIds, Undamaged
    <2> QED  BY <2>1, BlockFacts DEF BlockIds
  <1>4. \E b \in Blocks : /\ blocks' = [blocks EXCEPT ![i] = b]
                          /\ b.off = blocks[i].off /\ b.recs = blocks[i].recs
    <2>1. CASE blocks' = [blocks EXCEPT ![i].magic = FALSE]
      <3> DEFINE b == [blocks[i] EXCEPT !.magic = FALSE]
      <3>1. b \in Blocks /\ b.off = blocks[i].off /\ b.recs = blocks[i].recs
        BY <1>2 DEF Blocks
      <3>2. blocks' = [blocks EXCEPT ![i] = b]
        BY <2>1
      <3> HIDE DEF b
      <3> QED  BY <3>1, <3>2
    <2>2. CASE blocks' = [blocks EXCEPT ![i].crc = Bad]
      <3> DEFINE b == [blocks[i] EXCEPT !.crc = Bad]
      <3>1. b \in Blocks /\ b.off = blocks[i].off /\ b.recs = blocks[i].recs
        BY <1>2 DEF Blocks
      <3>2. blocks' = [blocks EXCEPT ![i] = b]
        BY <2>2
      <3> HIDE DEF b
      <3> QED  BY <3>1, <3>2
    <2>3. CASE blocks' = [blocks EXCEPT ![i].plen = @ - 1]
      <3> DEFINE b == [blocks[i] EXCEPT !.plen = @ - 1]
      <3>1. b \in Blocks /\ b.off = blocks[i].off /\ b.recs = blocks[i].recs
        <4>1. blocks[i].plen - 1 \in Nat
          BY <1>3
        <4> QED  BY <1>2, <4>1 DEF Blocks
      <3>2. blocks' = [blocks EXCEPT ![i] = b]
        BY <2>3
      <3> HIDE DEF b
      <3> QED  BY <3>1, <3>2
    <2>4. CASE blocks' = [blocks EXCEPT ![i].plen = @ + 1]
      <3> DEFINE b == [blocks[i] EXCEPT !.plen = @ + 1]
      <3>1. b \in Blocks /\ b.off = blocks[i].off /\ b.recs = blocks[i].recs
        <4>1. blocks[i].plen + 1 \in Nat
          BY <1>3
        <4> QED  BY <1>2, <4>1 DEF Blocks
      <3>2. blocks' = [blocks EXCEPT ![i] = b]
        BY <2>4
      <3> HIDE DEF b
      <3> QED  BY <3>1, <3>2
    <2> QED  BY <1>1, <2>1, <2>2, <2>3, <2>4
  <1>5. PICK b \in Blocks : /\ blocks' = [blocks EXCEPT ![i] = b]
                            /\ b.off = blocks[i].off /\ b.recs = blocks[i].recs
    BY <1>4
  <1>6. /\ blocks' \in Seq(Blocks) /\ Len(blocks') = Len(blocks) /\ blocks'[i] = b
        /\ \A j \in 1..Len(blocks) : j # i => blocks'[j] = blocks[j]
    BY <1>2, <1>5, OneBlock
  <1>7. damaged' = "header" /\ UNCHANGED <<index, bloom, filterHead, footer>>
    BY DEF HeaderDamage
  <1>8. ASSUME NEW j \in 1..Len(blocks) PROVE Orig(j)' = Orig(j) /\ blocks'[j].off = blocks[j].off
    <2>1. blocks'[j].recs = blocks[j].recs /\ blocks'[j].off = blocks[j].off
      BY <1>5, <1>6
    <2> QED  BY <1>2, <1>7, <2>1 DEF Orig
  <1> QED  BY <1>6, <1>7, <1>8 DEF BlockIds

LEMMA PayloadDamageEffect ==
    ASSUME TypeOK, InvLayout, Undamaged, PayloadDamage
    PROVE  /\ blocks' \in Seq(Blocks) /\ Len(blocks') = Len(blocks) /\ damaged' = "payload"
           /\ \A i \in BlockIds : Orig(i)' = Orig(i) /\ blocks'[i].off = blocks[i].off
           /\ UNCHANGED <<index, bloom, filterHead, footer>>
  <1>0. PICK i \in 1..Len(blocks) : \E n \in 1..Len(blocks[i].recs) :
           \/ \E k \in Keys : blocks' = [blocks EXCEPT ![i].recs[n].key = k]
           \/ blocks' = [blocks EXCEPT ![i].recs[n].kind = "Tombstone"]
    BY DEF PayloadDamage
  <1>1. PICK n \in 1..Len(blocks[i].recs) :
           \/ \E k \in Keys : blocks' = [blocks EXCEPT ![i].recs[n].key = k]
           \/ blocks' = [blocks EXCEPT ![i].recs[n].kind = "Tombstone"]
    BY <1>0
  <1>2. blocks \in Seq(Blocks) /\ blocks[i] \in Blocks /\ blocks[i].recs \in Seq(Recs)
        /\ blocks[i].recs[n] \in Recs
    <2>1. blocks \in Seq(Blocks) /\ blocks[i] \in Blocks
      BY DEF TypeOK
    <2>2. blocks[i].recs \in Seq(Recs)
      BY <2>1 DEF Blocks
    <2> QED  BY <2>1, <2>2
  <1>3. \E r \in Recs : blocks' = [blocks EXCEPT ![i].recs[n] = r]
    <2>1. ASSUME NEW k \in Keys, blocks' = [blocks EXCEPT ![i].recs[n].key = k]
          PROVE  \E r \in Recs : blocks' = [blocks EXCEPT ![i].recs[n] = r]
      <3> DEFINE r == [blocks[i].recs[n] EXCEPT !.key = k]
      <3>1. r \in Recs
        BY <1>2 DEF Recs
      <3>2. blocks' = [blocks EXCEPT ![i].recs[n] = r]
        BY <2>1
      <3> HIDE DEF r
      <3> QED  BY <3>1, <3>2
    <2>2. CASE blocks' = [blocks EXCEPT ![i].recs[n].kind = "Tombstone"]
      <3> DEFINE r == [blocks[i].recs[n] EXCEPT !.kind = "Tombstone"]
      <3>1. r \in Recs
        BY <1>2 DEF Recs
      <3>2. blocks' = [blocks EXCEPT ![i].recs[n] = r]
        BY <2>2
      <3> HIDE DEF r
      <3> QED  BY <3>1, <3>2
    <2> QED  BY <1>1, <2>1, <2>2
  <1>4. PICK r \in Recs : blocks' = [blocks EXCEPT ![i].recs[n] = r]
    BY <1>3
  <1> DEFINE recs == [blocks[i].recs EXCEPT ![n] = r]
             b == [blocks[i] EXCEPT !.recs = recs]
  <1>5. recs \in Seq(Recs)
    BY <1>2
  <1>6. blocks' = [blocks EXCEPT ![i] = b]
    BY <1>4
  <1>7. b \in Blocks /\ b.off = blocks[i].off /\ b.crc = blocks[i].crc
    <2> HIDE DEF recs
    <2> QED  BY <1>2, <1>5 DEF Blocks
  <1> HIDE DEF b
  <1>8. /\ blocks' \in Seq(Blocks) /\ Len(blocks') = Len(blocks) /\ blocks'[i] = b
        /\ \A j \in 1..Len(blocks) : j # i => blocks'[j] = blocks[j]
    BY <1>2, <1>6, <1>7, OneBlock
  <1>9. damaged' = "payload" /\ damaged = "none" /\ UNCHANGED <<index, bloom, filterHead, footer>>
    BY DEF PayloadDamage, Undamaged
  <1>10. ASSUME NEW j \in 1..Len(blocks) PROVE Orig(j)' = Orig(j) /\ blocks'[j].off = blocks[j].off
    <2>1. blocks'[j].crc = blocks[j].crc /\ blocks'[j].off = blocks[j].off
      BY <1>7, <1>8
    <2> QED  BY <1>9, <2>1 DEF Orig
  <1> QED  BY <1>8, <1>9, <1>10 DEF BlockIds

LEMMA IndexDamageEffect ==
    ASSUME TypeOK, InvLayout, Undamaged, IndexDamage
    PROVE  /\ index' \in Seq(Index) /\ Len(index') = Len(index) /\ damaged' = "index"
           /\ Parses' = Parses
           /\ UNCHANGED <<blocks, bloom, filterHead, footer>>
  <1> DEFINE SameLens == /\ index' \in Seq(Index) /\ Len(index') = Len(index)
                         /\ \A m \in 1..Len(index) : index'[m].klen = index[m].klen
  <1>0. ASSUME NEW i \in 1..Len(index), NEW e \in Index, e.klen = index[i].klen,
               index' = [index EXCEPT ![i] = e], index \in Seq(Index)
        PROVE  SameLens
    BY <1>0
  <1>1. index \in Seq(Index) /\ offset \in Nat
    BY DEF TypeOK
  <1>2. PICK i \in 1..Len(index) :
           \/ \E j \in 1..Len(index) : index' = [index EXCEPT ![i].off = index[j].off]
           \/ \E d \in {1, offset} : index' = [index EXCEPT ![i].off = @ + d]
           \/ \E n \in {0, 1, offset} : index' = [index EXCEPT ![i].len = n]
           \/ \E k \in Keys : index' = [index EXCEPT ![i].first = k]
    BY DEF IndexDamage
  <1>3. index[i] \in Index
    BY <1>1
  <1>4. ASSUME NEW m \in Nat,
               index' = [index EXCEPT ![i].off = m] \/ index' = [index EXCEPT ![i].len = m]
        PROVE  SameLens
    <2> DEFINE e == [index[i] EXCEPT !.off = m]
               f == [index[i] EXCEPT !.len = m]
    <2>1. e \in Index /\ f \in Index /\ e.klen = index[i].klen /\ f.klen = index[i].klen
      BY <1>3 DEF Index
    <2>2. index' = [index EXCEPT ![i] = e] \/ index' = [index EXCEPT ![i] = f]
      BY <1>4
    <2> HIDE DEF e, f, SameLens
    <2> QED  BY <1>0, <1>1, <2>1, <2>2
  <1>5. ASSUME NEW k \in Keys, index' = [index EXCEPT ![i].first = k]
        PROVE  SameLens
    <2> DEFINE e == [index[i] EXCEPT !.first = k]
    <2>1. e \in Index /\ e.klen = index[i].klen
      BY <1>3 DEF Index
    <2>2. index' = [index EXCEPT ![i] = e]
      BY <1>5
    <2> HIDE DEF e, SameLens
    <2> QED  BY <1>0, <1>1, <2>1, <2>2
  <1>6. ASSUME \E j \in 1..Len(index) : index' = [index EXCEPT ![i].off = index[j].off]
        PROVE  SameLens
    <2>1. PICK j \in 1..Len(index) : index' = [index EXCEPT ![i].off = index[j].off]
      BY <1>6
    <2>2. index[j] \in Index
      BY <1>1
    <2>3. index[j].off \in Nat
      BY <2>2 DEF Index
    <2> QED  BY <1>4, <2>1, <2>3
  <1>7. ASSUME \E d \in {1, offset} : index' = [index EXCEPT ![i].off = @ + d]
        PROVE  SameLens
    <2>1. PICK d \in {1, offset} : index' = [index EXCEPT ![i].off = @ + d]
      BY <1>7
    <2>2. d \in Nat
      BY <1>1, <2>1
    <2>3. index[i].off + d \in Nat /\ index' = [index EXCEPT ![i].off = index[i].off + d]
      BY <1>3, <2>1, <2>2 DEF Index
    <2> QED  BY <1>4, <2>3
  <1>8. ASSUME \E n \in {0, 1, offset} : index' = [index EXCEPT ![i].len = n]
        PROVE  SameLens
    <2>1. PICK n \in {0, 1, offset} : index' = [index EXCEPT ![i].len = n]
      BY <1>8
    <2>2. n \in Nat
      BY <1>1, <2>1
    <2> QED  BY <1>4, <2>1, <2>2
  <1>9. SameLens
    <2> HIDE DEF SameLens
    <2> QED  BY <1>2, <1>5, <1>6, <1>7, <1>8
  <1> QED  BY <1>9 DEF IndexDamage, Parses

\* A key length that is wrong does not parse.
LEMMA KeyLenDamageEffect ==
    ASSUME TypeOK, KeyLenDamage
    PROVE  /\ index' \in Seq(Index) /\ Len(index') = Len(index) /\ damaged' = "keylen"
           /\ \A j \in 1..Len(index) : /\ index'[j].first = index[j].first
                                       /\ index'[j].off = index[j].off /\ index'[j].len = index[j].len
           /\ ~ Parses'
           /\ UNCHANGED <<blocks, bloom, filterHead, footer>>
  <1>1. index \in Seq(Index) /\ FileLen \in Nat /\ KeyLen \in Nat
    BY FileFacts DEF TypeOK
  <1>2. PICK i \in 1..Len(index), n \in {0, KeyLen + 1, FileLen} :
           n # KeyLen /\ index' = [index EXCEPT ![i].klen = n]
    BY DEF KeyLenDamage
  <1>3. index[i] \in Index /\ n \in Nat
    BY <1>1, <1>2
  <1> DEFINE e == [index[i] EXCEPT !.klen = n]
  <1>4. /\ e \in Index /\ e.klen = n
        /\ e.first = index[i].first /\ e.off = index[i].off /\ e.len = index[i].len
    BY <1>3 DEF Index
  <1>5. index' = [index EXCEPT ![i] = e]
    BY <1>2
  <1> HIDE DEF e
  <1>6. /\ index' \in Seq(Index) /\ Len(index') = Len(index) /\ index'[i] = e
        /\ \A j \in 1..Len(index) : j # i => index'[j] = index[j]
    BY <1>1, <1>4, <1>5
  <1>7. ~ Parses'
    BY <1>2, <1>4, <1>6 DEF Parses
  <1> QED  BY <1>4, <1>6, <1>7 DEF KeyLenDamage

LEMMA FooterDamageEffect ==
    ASSUME InvFooter, Undamaged, phase = "closed", FooterDamage
    PROVE  /\ footer' \in Footers /\ footer'.crc # footer'.body
           /\ damaged' = "footer" /\ UNCHANGED <<blocks, index, bloom, filterHead>>
  <1>1. footer \in Footers /\ footer.crc = footer.body
    BY DEF InvFooter, Ended, Undamaged
  <1>2. PICK f \in Bodies, z \in Nat : f = footer.body /\ footer = [body |-> f, crc |-> f, pad |-> z]
    BY <1>1 DEF Footers
  <1>3. f.max \in Nat /\ f.indexOff \in Nat /\ f.blocks \in Nat
    BY DEF Bodies
  <1>4. ASSUME NEW g \in Bodies, g # f
        PROVE  /\ [footer EXCEPT !.crc = g] \in Footers
               /\ [footer EXCEPT !.crc = g].crc # [footer EXCEPT !.crc = g].body
               /\ [footer EXCEPT !.body = g] \in Footers
               /\ [footer EXCEPT !.body = g].crc # [footer EXCEPT !.body = g].body
    BY <1>2, <1>4 DEF Footers
  <1>5. /\ [f EXCEPT !.max = @ + 1] \in Bodies /\ [f EXCEPT !.max = @ + 1] # f
        /\ [f EXCEPT !.indexOff = @ + 1] \in Bodies /\ [f EXCEPT !.indexOff = @ + 1] # f
        /\ [f EXCEPT !.blocks = @ + 1] \in Bodies /\ [f EXCEPT !.blocks = @ + 1] # f
    <2>1. /\ [f EXCEPT !.max = @ + 1].max = f.max + 1
          /\ [f EXCEPT !.indexOff = @ + 1].indexOff = f.indexOff + 1
          /\ [f EXCEPT !.blocks = @ + 1].blocks = f.blocks + 1
      BY DEF Bodies
    <2> QED  BY <1>3, <2>1 DEF Bodies
  <1>6. \/ footer' = [footer EXCEPT !.crc.max = @ + 1]
        \/ \E n \in {"indexOff", "blocks", "max"} : footer' = [footer EXCEPT !.body[n] = @ + 1]
    BY DEF FooterDamage
  <1>7. \/ footer' = [footer EXCEPT !.crc = [f EXCEPT !.max = @ + 1]]
        \/ footer' = [footer EXCEPT !.body = [f EXCEPT !.max = @ + 1]]
        \/ footer' = [footer EXCEPT !.body = [f EXCEPT !.indexOff = @ + 1]]
        \/ footer' = [footer EXCEPT !.body = [f EXCEPT !.blocks = @ + 1]]
    BY <1>2, <1>6
  <1>8. damaged' = "footer" /\ UNCHANGED <<blocks, index, bloom, filterHead>>
    BY DEF FooterDamage
  <1> QED  BY <1>4, <1>5, <1>7, <1>8

LEMMA PadDamageEffect ==
    ASSUME InvFooter, Undamaged, phase = "closed", PadDamage
    PROVE  footer' \in Footers /\ footer'.body = footer.body /\ footer'.crc = footer.crc
  <1>1. footer \in Footers /\ footer' = [footer EXCEPT !.pad = 1]
    BY DEF InvFooter, Ended, PadDamage
  <1> QED  BY <1>1 DEF Footers

\* A damaged file has the blocks it was written with, one of them with another header or
\* payload; or another index, filter or footer.
LEMMA DamageEffect ==
    ASSUME TypeOK, InvLayout, InvFooter, Damage
    PROVE  /\ phase = "closed" /\ damaged = "none"
           /\ damaged' \in {"footer", "padding", "header", "payload", "index", "keylen", "filter",
                             "filterhead"}
           /\ blocks' \in Seq(Blocks) /\ Len(blocks') = Len(blocks)
           /\ index' \in Seq(Index) /\ Len(index') = Len(index)
           /\ \A i \in BlockIds : Orig(i)' = Orig(i) /\ blocks'[i].off = blocks[i].off
           /\ damaged' \notin {"header", "payload"} => UNCHANGED blocks
           /\ damaged' # "index" =>
                 \A i \in 1..Len(index) : /\ index'[i].first = index[i].first
                                         /\ index'[i].off = index[i].off
                                         /\ index'[i].len = index[i].len
           /\ Parses' <=> damaged' # "keylen"
           /\ bloom' \subseteq Keys /\ (damaged' # "filter" => UNCHANGED bloom)
           /\ filterHead' \in BOOLEAN /\ (filterHead' <=> damaged' # "filterhead")
           /\ footer' \in Footers
           /\ damaged' = "footer" => footer'.crc # footer'.body
           /\ damaged' # "footer" => footer'.body = footer.body /\ footer'.crc = footer.crc
           /\ UNCHANGED <<phase, blockSize, payload, plen, first, offset, count, minSeq, maxSeq,
                          reader, added>>
  <1>1. /\ phase = "closed" /\ damaged = "none" /\ Undamaged
        /\ UNCHANGED <<phase, blockSize, payload, plen, first, offset, count, minSeq, maxSeq,
                       reader, added>>
    BY DEF Damage, Undamaged
  <1>2. blocks \in Seq(Blocks) /\ index \in Seq(Index) /\ bloom \subseteq Keys
    BY DEF TypeOK
  <1>3. footer \in Footers /\ filterHead = TRUE /\ Parses /\ filterHead \in BOOLEAN
    BY <1>1 DEF InvFooter, Ended, TypeOK
  <1>4. UNCHANGED index => (Parses' <=> Parses)
    BY DEF Parses
  <1>5. ASSUME UNCHANGED blocks, damaged' # "header"
        PROVE  \A i \in BlockIds : Orig(i)' = Orig(i) /\ blocks'[i].off = blocks[i].off
    BY <1>1, <1>5 DEF Orig
  <1>6. CASE FooterDamage
    <2>1. /\ footer' \in Footers /\ footer'.crc # footer'.body /\ damaged' = "footer"
          /\ UNCHANGED <<blocks, index, bloom, filterHead>>
      BY <1>1, <1>6, FooterDamageEffect
    <2> QED  BY <1>1, <1>2, <1>3, <1>4, <1>5, <2>1
  <1>7. CASE PadDamage
    <2>1. footer' \in Footers /\ footer'.body = footer.body /\ footer'.crc = footer.crc
      BY <1>1, <1>7, PadDamageEffect
    <2>2. damaged' = "padding" /\ UNCHANGED <<blocks, index, bloom, filterHead>>
      BY <1>7 DEF PadDamage
    <2> QED  BY <1>1, <1>2, <1>3, <1>4, <1>5, <2>1, <2>2
  <1>8. CASE HeaderDamage
    BY <1>1, <1>2, <1>3, <1>4, <1>8, HeaderDamageEffect
  <1>9. CASE PayloadDamage
    BY <1>1, <1>2, <1>3, <1>4, <1>9, PayloadDamageEffect
  <1>10. CASE IndexDamage
    BY <1>1, <1>2, <1>3, <1>5, <1>10, IndexDamageEffect
  <1>11. CASE KeyLenDamage
    BY <1>1, <1>2, <1>3, <1>5, <1>11, KeyLenDamageEffect
  <1>12. CASE FilterDamage
    <2>1. damaged' = "filter" /\ bloom' \subseteq bloom /\ UNCHANGED <<blocks, index, filterHead, footer>>
      BY <1>12 DEF FilterDamage
    <2> QED  BY <1>1, <1>2, <1>3, <1>4, <1>5, <2>1
  <1>13. CASE FilterHeadDamage
    <2>1. damaged' = "filterhead" /\ filterHead' = FALSE /\ UNCHANGED <<blocks, index, bloom, footer>>
      BY <1>13 DEF FilterHeadDamage
    <2> QED  BY <1>1, <1>2, <1>3, <1>4, <1>5, <2>1
  <1> QED  BY <1>6, <1>7, <1>8, <1>9, <1>10, <1>11, <1>12, <1>13 DEF Damage

ReadStep == GetBegin \/ Search \/ GetReturn
JobStep == SyncFile \/ Rename \/ OpenFinal \/ RemoveLog \/ Fails

LEMMA ReadKeeps == ReadStep => UNCHANGED <<phase, writer, footer, added, damaged>>
  BY DEF ReadStep, GetBegin, Search, Probe, NoBlock, FoundBlock, FoundCorrupt, ScanMiss, ScanHit,
         ScanNext, GetReturn

LEMMA JobKeeps == JobStep => UNCHANGED <<writer, footer, reader, added, damaged>>
  BY DEF JobStep, SyncFile, Sync, Rename, OpenFinal, Open, RemoveLog, Fails, vars

\* The steps of the job, by what they touch.
LEMMA NextCases ==
    ASSUME InstallNext
    PROVE  \/ Create /\ UNCHANGED dir
           \/ \E r \in Recs : Add(r) /\ UNCHANGED dir
           \/ Finish /\ UNCHANGED dir
           \/ Damage /\ UNCHANGED dir
           \/ ReadStep /\ UNCHANGED dir
           \/ JobStep
  BY DEF InstallNext, WriteFile, ReadStep, JobStep

\* What a step of the writer writes: a block, or nothing.
LEMMA WriterWrites ==
    ASSUME TypeOK, InvLayout, InvWriter, (\E r \in Recs : Add(r)) \/ Finish
    PROVE  /\ phase = "writing" /\ Undamaged /\ damaged' = damaged
           /\ \/ UNCHANGED <<blocks, index, offset>>
              \/ FlushBlock /\ payload # <<>>
  <1>1. phase = "writing" /\ damaged' = damaged
    BY DEF Add, Finish
  <1>2. Undamaged
    BY <1>1 DEF InvWriter
  <1> QED  BY <1>1, <1>2 DEF Add, Finish, Full

LEMMA InitLayout == InstallInit => InvLayout
  BY DEF InstallInit, Init, InvLayout, BlockIds

LEMMA LayoutStep ==
    ASSUME TypeOK, InvLayout, InvWriter, InvFooter, [InstallNext]_installVars
    PROVE  InvLayout'
  <1>1. CASE UNCHANGED <<blocks, index, offset, damaged>>
    BY <1>1 DEF InvLayout, BlockIds, Orig, End
  <1>2. CASE (\E r \in Recs : Add(r)) \/ Finish
    <2>1. CASE FlushBlock /\ payload # <<>> /\ Undamaged /\ damaged' = damaged
      <3>1. PICK n \in Nat : n = Len(blocks)
        BY DEF TypeOK
      <3> QED  BY <2>1, <3>1, FlushEffect
    <2> QED  BY <1>1, <1>2, <2>1, WriterWrites
  <1>3. CASE Damage
    <2>1. /\ Len(blocks') = Len(blocks) /\ Len(index') = Len(index) /\ damaged = "none"
          /\ \A i \in BlockIds : Orig(i)' = Orig(i) /\ blocks'[i].off = blocks[i].off
          /\ damaged' \notin {"header", "payload"} => UNCHANGED blocks
          /\ damaged' # "index" =>
                \A i \in 1..Len(index) : /\ index'[i].first = index[i].first
                                        /\ index'[i].off = index[i].off
                                        /\ index'[i].len = index[i].len
          /\ UNCHANGED offset
      BY <1>3, DamageEffect
    <2>2. BlockIds' = BlockIds /\ \A i \in BlockIds : End(i)' = End(i)
      BY <2>1 DEF BlockIds, End
    <2>3. Len(index') = Len(blocks')
      BY <2>1 DEF InvLayout
    <2>4. ASSUME NEW i \in BlockIds
          PROVE  /\ Orig(i)' \in Seq(Recs) \ {<<>>} /\ End(i)' <= offset'
                 /\ damaged' \notin {"header", "payload"} =>
                       blocks'[i].magic /\ blocks'[i].plen = LenOf(Orig(i)') /\ blocks'[i].recs = Orig(i)'
                 /\ damaged' # "index" =>
                       /\ index'[i].first = (Orig(i)')[1].key /\ index'[i].off = blocks'[i].off
                       /\ index'[i].len = BlockHeaderSize + LenOf(Orig(i)')
      <3>1. /\ Orig(i) \in Seq(Recs) \ {<<>>} /\ End(i) <= offset
            /\ blocks[i].magic /\ blocks[i].plen = LenOf(Orig(i)) /\ blocks[i].recs = Orig(i)
            /\ index[i].first = Orig(i)[1].key /\ index[i].off = blocks[i].off
            /\ index[i].len = BlockHeaderSize + LenOf(Orig(i)) /\ i \in 1..Len(index)
        BY <2>1 DEF InvLayout, BlockIds
      <3>2. Orig(i)' = Orig(i) /\ End(i)' = End(i) /\ offset' = offset /\ blocks'[i].off = blocks[i].off
        BY <2>1, <2>2
      <3> QED  BY <2>1, <3>1, <3>2
    <2>5. ASSUME NEW i \in BlockIds, NEW j \in BlockIds, i < j PROVE End(i)' <= blocks'[j].off
      <3>1. End(i)' = End(i) /\ blocks'[j].off = blocks[j].off
        BY <2>1, <2>2
      <3> QED  BY <2>5, <3>1 DEF InvLayout
    <2> QED  BY <2>2, <2>3, <2>4, <2>5 DEF InvLayout
  <1>4. CASE Create
    BY <1>1, <1>4 DEF Create
  <1>5. CASE ReadStep \/ JobStep
    BY <1>1, <1>5, ReadKeeps, JobKeeps DEF writer
  <1>6. CASE UNCHANGED installVars
    BY <1>1, <1>6 DEF installVars, vars, writer
  <1> QED  BY <1>2, <1>3, <1>4, <1>5, <1>6, NextCases
-------------------------------------------------------------------------------
(***************************************************************************)
(* The order of the records.                                               *)
(***************************************************************************)
LEMMA ElemsFacts ==
    ASSUME NEW s \in Seq(Recs), NEW r \in Recs
    PROVE  /\ Elems(<<>>) = {} /\ Elems(<<r>>) = {r}
           /\ Elems(Append(s, r)) = Elems(s) \cup {r} /\ Elems(s) \subseteq Recs
  <1>1. Elems(<<>>) = {} /\ Elems(<<r>>) = {r} /\ Elems(s) \subseteq Recs
    BY DEF Elems
  <1> DEFINE t == Append(s, r)
  <1>2. /\ Len(t) = Len(s) + 1 /\ t[Len(s) + 1] = r /\ \A i \in 1..Len(s) : t[i] = s[i]
        /\ Len(s) \in Nat
    OBVIOUS
  <1> HIDE DEF t
  <1>3. 1..Len(t) = 1..Len(s) \cup {Len(s) + 1}
    BY <1>2
  <1>4. Elems(t) = Elems(s) \cup {r}
    BY <1>2, <1>3 DEF Elems
  <1> QED  BY <1>1, <1>4 DEF t

\* A record of a block or of the payload is one of those added.
LEMMA PlacedFacts ==
    ASSUME InvOrder
    PROVE  /\ \A m \in 1..Len(payload) : payload[m] \in Elems(added)
           /\ \A i \in BlockIds : \A m \in 1..Len(Orig(i)) : Orig(i)[m] \in Elems(added)
  <1>1. Elems(added) = Elems(payload) \cup UNION {Elems(Orig(i)) : i \in BlockIds}
    BY DEF InvOrder
  <1>2. \A m \in 1..Len(payload) : payload[m] \in Elems(payload)
    BY DEF Elems
  <1>3. \A i \in BlockIds : \A m \in 1..Len(Orig(i)) : Orig(i)[m] \in Elems(Orig(i))
    BY DEF Elems
  <1> QED  BY <1>1, <1>2, <1>3

LEMMA InitOrder == InstallInit => InvOrder
  BY DEF InstallInit, Init, InvOrder, BlockIds, Ascending, Elems

LEMMA OrderStays ==
    ASSUME InvOrder, Len(blocks') = Len(blocks), \A i \in BlockIds : Orig(i)' = Orig(i),
           UNCHANGED <<payload, added>>
    PROVE  InvOrder'
  <1>1. BlockIds' = BlockIds
    BY DEF BlockIds
  <1>2. {Elems(Orig(i)') : i \in BlockIds} = {Elems(Orig(i)) : i \in BlockIds}
    OBVIOUS
  <1> QED  BY <1>1, <1>2 DEF InvOrder

\* A payload that became a block lies behind the blocks there were, and before the record
\* that did not fit.
LEMMA OrderFlush ==
    ASSUME InvOrder, NEW n \in Nat, n = Len(blocks), Len(blocks') = n + 1,
           \A i \in BlockIds : Orig(i)' = Orig(i), Orig(n + 1)' = payload,
           payload \in Seq(Recs), payload' \in Seq(Recs), Len(payload') <= 1,
           \A m \in 1..Len(payload') : \A x \in Elems(added) : x.key < payload'[m].key,
           Elems(added') = Elems(added) \cup Elems(payload')
    PROVE  InvOrder'
  <1>1. BlockIds = 1..n /\ BlockIds' = 1..n + 1
    BY DEF BlockIds
  <1>2. ASSUME NEW i \in 1..n + 1
        PROVE  /\ Ascending(Orig(i)')
               /\ \A m \in 1..Len(Orig(i)') : (Orig(i)')[m] \in Elems(added)
    <2>1. CASE i \in 1..n
      BY <1>1, <2>1, PlacedFacts DEF InvOrder
    <2>2. CASE i = n + 1
      BY <2>2, PlacedFacts DEF InvOrder
    <2> QED  BY <2>1, <2>2
  <1>3. ASSUME NEW i \in 1..n + 1 PROVE Below(Orig(i)', payload')
    BY <1>2 DEF Below
  <1>4. ASSUME NEW i \in 1..n + 1, NEW j \in 1..n + 1, i < j PROVE Below(Orig(i)', Orig(j)')
    <2>1. i \in 1..n
      BY <1>4
    <2>2. CASE j \in 1..n
      BY <1>1, <1>4, <2>1, <2>2 DEF InvOrder
    <2>3. CASE j = n + 1
      BY <1>1, <2>1, <2>3 DEF InvOrder
    <2> QED  BY <2>2, <2>3
  <1>5. Ascending(payload')
    <2>1. Len(payload') \in Nat
      OBVIOUS
    <2>2. \A m, k \in 1..Len(payload') : ~(m < k)
      BY <2>1
    <2> QED  BY <2>2 DEF Ascending
  <1>6. Elems(added') = Elems(payload') \cup UNION {Elems(Orig(i)') : i \in 1..n + 1}
    <2>1. UNION {Elems(Orig(i)') : i \in 1..n + 1}
             = Elems(payload) \cup UNION {Elems(Orig(i)) : i \in BlockIds}
      <3>1. \A i \in 1..n : Elems(Orig(i)') = Elems(Orig(i))
        BY <1>1
      <3>2. 1..n + 1 = 1..n \cup {n + 1}
        OBVIOUS
      <3>3. UNION {Elems(Orig(i)') : i \in 1..n + 1}
               = Elems(payload) \cup UNION {Elems(Orig(i)') : i \in 1..n}
        BY <3>2
      <3> QED  BY <1>1, <3>1, <3>3
    <2> QED  BY <2>1 DEF InvOrder
  <1> QED  BY <1>1, <1>2, <1>3, <1>4, <1>5, <1>6 DEF InvOrder

LEMMA OrderAdd ==
    ASSUME TypeOK, InvOrder, NEW r \in Recs, UNCHANGED <<blocks, damaged>>,
           \A x \in Elems(added) : x.key < r.key,
           payload' = Append(payload, r), added' = Append(added, r)
    PROVE  InvOrder'
  <1>1. payload \in Seq(Recs) /\ added \in Seq(Recs)
    BY DEF TypeOK
  <1>2. BlockIds' = BlockIds /\ \A i \in BlockIds : Orig(i)' = Orig(i)
    BY DEF BlockIds, Orig
  <1>3. /\ Len(payload') = Len(payload) + 1 /\ payload'[Len(payload) + 1] = r
        /\ \A m \in 1..Len(payload) : payload'[m] = payload[m]
        /\ Len(payload) \in Nat
    BY <1>1
  <1>4. Ascending(payload')
    <2>1. ASSUME NEW m \in 1..Len(payload'), NEW k \in 1..Len(payload'), m < k
          PROVE  payload'[m].key < payload'[k].key
      <3>1. m \in 1..Len(payload) /\ (k \in 1..Len(payload) \/ k = Len(payload) + 1)
        BY <1>3, <2>1
      <3>2. CASE k \in 1..Len(payload)
        BY <1>3, <2>1, <3>1, <3>2 DEF InvOrder, Ascending
      <3>3. CASE k = Len(payload) + 1
        BY <1>3, <3>1, <3>3, PlacedFacts
      <3> QED  BY <3>1, <3>2, <3>3
    <2> QED  BY <2>1 DEF Ascending
  <1>5. ASSUME NEW i \in BlockIds PROVE Below(Orig(i), payload')
    <2>1. ASSUME NEW m \in 1..Len(Orig(i)), NEW k \in 1..Len(payload')
          PROVE  Orig(i)[m].key < payload'[k].key
      <3>1. k \in 1..Len(payload) \/ k = Len(payload) + 1
        BY <1>3
      <3>2. CASE k \in 1..Len(payload)
        BY <1>3, <3>2 DEF InvOrder, Below
      <3>3. CASE k = Len(payload) + 1
        BY <1>3, <3>3, PlacedFacts
      <3> QED  BY <3>1, <3>2, <3>3
    <2> QED  BY <2>1 DEF Below
  <1>6. Elems(added') = Elems(payload') \cup UNION {Elems(Orig(i)') : i \in BlockIds}
    <2>1. Elems(added') = Elems(added) \cup {r} /\ Elems(payload') = Elems(payload) \cup {r}
      BY <1>1, ElemsFacts
    <2>2. {Elems(Orig(i)') : i \in BlockIds} = {Elems(Orig(i)) : i \in BlockIds}
      BY <1>2
    <2> QED  BY <2>1, <2>2 DEF InvOrder
  <1> QED  BY <1>2, <1>4, <1>5, <1>6 DEF InvOrder

LEMMA OrderStep ==
    ASSUME TypeOK, TypeOK', InvLayout, InvOrder, InvWriter, InvFooter, [InstallNext]_installVars
    PROVE  InvOrder'
  <1>0. payload \in Seq(Recs) /\ added \in Seq(Recs) /\ payload' \in Seq(Recs)
    BY DEF TypeOK
  <1>1. CASE UNCHANGED <<blocks, damaged, payload, added>>
    <2>1. \A i \in BlockIds : Orig(i)' = Orig(i)
      BY <1>1 DEF Orig
    <2> QED  BY <1>1, <2>1, OrderStays
  <1>2. ASSUME NEW r \in Recs, Add(r) PROVE InvOrder'
    <2>1. added' = Append(added, r) /\ damaged' = damaged /\ Undamaged
          /\ \A x \in Elems(added) : x.key < r.key
      BY <1>2, WriterWrites DEF Add, Elems
    <2>2. Elems(added') = Elems(added) \cup {r}
      BY <1>0, <2>1, ElemsFacts
    <2>3. CASE ~Full(r)
      BY <1>2, <2>1, <2>3, OrderAdd DEF Add
    <2>4. CASE Full(r)
      <3>1. FlushBlock /\ payload' = <<r>> /\ payload # <<>>
        BY <1>2, <2>4 DEF Add, Full
      <3>2. PICK n \in Nat : n = Len(blocks)
        BY DEF TypeOK
      <3>3. Len(blocks') = n + 1 /\ Orig(n + 1)' = payload /\ \A i \in BlockIds : Orig(i)' = Orig(i)
        BY <2>1, <3>1, <3>2, FlushEffect
      <3>4. /\ Len(payload') <= 1 /\ Elems(payload') = {r}
            /\ \A m \in 1..Len(payload') : payload'[m] = r
        BY <1>0, <3>1, ElemsFacts
      <3> QED  BY <1>0, <2>1, <2>2, <3>2, <3>3, <3>4, OrderFlush
    <2> QED  BY <2>3, <2>4
  <1>3. CASE Finish
    <2>1. payload' = <<>> /\ UNCHANGED <<damaged, added>> /\ Undamaged
      BY <1>3, WriterWrites DEF Finish
    <2>2. CASE payload = <<>>
      BY <1>1, <1>3, <2>1, <2>2 DEF Finish
    <2>3. CASE payload # <<>>
      <3>1. FlushBlock
        BY <1>3, <2>3 DEF Finish
      <3>2. PICK n \in Nat : n = Len(blocks)
        BY DEF TypeOK
      <3>3. Len(blocks') = n + 1 /\ Orig(n + 1)' = payload /\ \A i \in BlockIds : Orig(i)' = Orig(i)
        BY <2>1, <2>3, <3>1, <3>2, FlushEffect
      <3>4. /\ Len(payload') <= 1 /\ Elems(payload') = {} /\ 1..Len(payload') = {}
        BY <2>1 DEF Elems
      <3>5. Elems(added') = Elems(added) \cup Elems(payload')
        BY <2>1, <3>4
      <3> QED  BY <1>0, <3>2, <3>3, <3>4, <3>5, OrderFlush
    <2> QED  BY <2>2, <2>3
  <1>4. CASE Damage
    BY <1>4, DamageEffect, OrderStays
  <1>5. CASE Create
    BY <1>1, <1>5 DEF Create
  <1>6. CASE ReadStep \/ JobStep
    BY <1>1, <1>6, ReadKeeps, JobKeeps DEF writer
  <1>7. CASE UNCHANGED installVars
    BY <1>1, <1>7 DEF installVars, vars, writer
  <1> QED  BY <1>2, <1>3, <1>4, <1>5, <1>6, <1>7, NextCases
-------------------------------------------------------------------------------
(***************************************************************************)
(* Nothing is lost, or there twice.                                        *)
(***************************************************************************)
Origs == [i \in BlockIds |-> Orig(i)]

LEMMA OrigsType == ASSUME TypeOK, InvLayout PROVE Origs \in Seq(Seq(Recs)) /\ Len(Origs) = Len(blocks)
  <1>1. PICK n \in Nat : n = Len(blocks)
    BY DEF TypeOK
  <1>2. \A i \in 1..n : Orig(i) \in Seq(Recs)
    BY <1>1 DEF InvLayout, BlockIds
  <1>3. Origs = [i \in 1..n |-> Orig(i)]
    BY <1>1 DEF Origs, BlockIds
  <1> QED  BY <1>1, <1>2, <1>3

LEMMA OrigsFlush ==
    ASSUME TypeOK, InvLayout, NEW n \in Nat, n = Len(blocks), Len(blocks') = n + 1,
           \A i \in BlockIds : Orig(i)' = Orig(i), Orig(n + 1)' = payload
    PROVE  FlattenSeq(Origs') = FlattenSeq(Origs) \o payload
  <1>1. BlockIds = 1..n /\ BlockIds' = 1..n + 1 /\ payload \in Seq(Recs)
    BY DEF BlockIds, TypeOK
  <1>2. Origs' = [i \in 1..n + 1 |-> IF i \in 1..n THEN Origs[i] ELSE payload]
    <2>1. \A i \in 1..n + 1 : i \in 1..n \/ i = n + 1
      OBVIOUS
    <2>2. Origs' = [i \in 1..n + 1 |-> Orig(i)']
      BY <1>1 DEF Origs
    <2>3. \A i \in 1..n + 1 : Orig(i)' = IF i \in 1..n THEN Origs[i] ELSE payload
      BY <1>1, <2>1 DEF Origs
    <2> QED  BY <2>2, <2>3
  <1>3. Origs \in Seq(Seq(Recs)) /\ Len(Origs) = n
    BY OrigsType
  <1> DEFINE O == Origs
             P == payload
             S == Seq(Recs)
  <1>4. Append(O, P) = [i \in 1..n + 1 |-> IF i \in 1..n THEN O[i] ELSE P]
    <2>1. O \in Seq(S) /\ Len(O) = n /\ P \in S
      BY <1>1, <1>3
    <2> HIDE DEF O, P, S
    <2>2. n + 1 \notin 1..n /\ \A i \in 1..n + 1 : i \in 1..n \/ i = n + 1
      OBVIOUS
    <2>3. DOMAIN Append(O, P) = 1..n + 1 /\ Append(O, P)[n + 1] = P
          /\ \A i \in 1..n : Append(O, P)[i] = O[i]
      BY <2>1
    <2>4. Append(O, P) \in [1..n + 1 -> S]
      <3>1. Append(O, P) \in Seq(S) /\ Len(Append(O, P)) = n + 1
        BY <2>1
      <3> QED  BY <3>1, LenProperties
    <2> QED  BY <2>2, <2>3, <2>4
  <1>5. Origs' = Append(Origs, payload)
    BY <1>2, <1>4
  <1> QED  BY <1>1, <1>3, <1>5, FlattenFacts

LEMMA Appends ==
    ASSUME NEW s \in Seq(Recs), NEW t \in Seq(Recs), NEW r \in Recs
    PROVE  /\ s \o Append(t, r) = Append(s \o t, r) /\ s \o <<r>> = Append(s, r) /\ s \o <<>> = s
  OBVIOUS

LEMMA InitFlat == InstallInit => InvFlat
  <1> SUFFICES ASSUME InstallInit PROVE FlattenSeq([i \in BlockIds |-> Orig(i)]) \o payload = added
    BY DEF InvFlat
  <1>1. BlockIds = {} /\ payload = <<>> /\ added = <<>>
    BY DEF InstallInit, Init, BlockIds
  <1>2. [i \in BlockIds |-> Orig(i)] = <<>>
    BY <1>1
  <1>3. <<>> \in Seq(Seq(Recs))
    OBVIOUS
  <1>4. FlattenSeq(<<>>) = <<>>
    BY <1>3, FlattenFacts
  <1> QED  BY <1>1, <1>2, <1>4

LEMMA FlatStep ==
    ASSUME TypeOK, InvLayout, InvFlat, InvWriter, InvFooter, [InstallNext]_installVars
    PROVE  InvFlat'
  <1>0. payload \in Seq(Recs) /\ added \in Seq(Recs) /\ FlattenSeq(Origs) \in Seq(Recs)
        /\ FlattenSeq(Origs) \o payload = added
    <2>1. Origs \in Seq(Seq(Recs))
      BY OrigsType
    <2> QED  BY <2>1, FlattenFacts DEF TypeOK, InvFlat, Origs
  <1> SUFFICES FlattenSeq(Origs') \o payload' = added'
    BY DEF InvFlat, Origs
  <1>1. CASE UNCHANGED <<blocks, damaged, payload, added>>
    <2>1. Origs' = Origs
      BY <1>1 DEF Origs, BlockIds, Orig
    <2> QED  BY <1>0, <1>1, <2>1
  <1>2. ASSUME NEW r \in Recs, Add(r) PROVE FlattenSeq(Origs') \o payload' = added'
    <2>1. added' = Append(added, r) /\ damaged' = damaged /\ Undamaged
      BY <1>2, WriterWrites DEF Add
    <2>2. CASE ~Full(r)
      <3>1. UNCHANGED <<blocks, damaged>> /\ payload' = Append(payload, r)
        BY <1>2, <2>1, <2>2 DEF Add
      <3>2. Origs' = Origs
        BY <3>1 DEF Origs, BlockIds, Orig
      <3> QED  BY <1>0, <2>1, <3>1, <3>2, Appends
    <2>3. CASE Full(r)
      <3>1. FlushBlock /\ payload' = <<r>> /\ payload # <<>>
        BY <1>2, <2>3 DEF Add, Full
      <3>2. PICK n \in Nat : n = Len(blocks)
        BY DEF TypeOK
      <3>3. Len(blocks') = n + 1 /\ Orig(n + 1)' = payload /\ \A i \in BlockIds : Orig(i)' = Orig(i)
        BY <2>1, <3>1, <3>2, FlushEffect
      <3>4. FlattenSeq(Origs') = added
        BY <1>0, <3>2, <3>3, OrigsFlush
      <3>5. added \o <<r>> = Append(added, r)
        BY <1>0, Appends
      <3> QED  BY <2>1, <3>1, <3>4, <3>5
    <2> QED  BY <2>2, <2>3
  <1>3. CASE Finish
    <2>1. payload' = <<>> /\ UNCHANGED <<damaged, added>> /\ Undamaged
      BY <1>3, WriterWrites DEF Finish
    <2>2. CASE payload = <<>>
      BY <1>1, <1>3, <2>1, <2>2 DEF Finish
    <2>3. CASE payload # <<>>
      <3>1. FlushBlock
        BY <1>3, <2>3 DEF Finish
      <3>2. PICK n \in Nat : n = Len(blocks)
        BY DEF TypeOK
      <3>3. Len(blocks') = n + 1 /\ Orig(n + 1)' = payload /\ \A i \in BlockIds : Orig(i)' = Orig(i)
        BY <2>1, <2>3, <3>1, <3>2, FlushEffect
      <3>4. FlattenSeq(Origs') = added
        BY <1>0, <3>2, <3>3, OrigsFlush
      <3>5. added \o <<>> = added
        BY <1>0
      <3> QED  BY <2>1, <3>4, <3>5
    <2> QED  BY <2>2, <2>3
  <1>4. CASE Damage
    <2>1. Len(blocks') = Len(blocks) /\ (\A i \in BlockIds : Orig(i)' = Orig(i))
          /\ UNCHANGED <<payload, added>>
      BY <1>4, DamageEffect
    <2>2. Origs' = Origs
      BY <2>1 DEF Origs, BlockIds
    <2> QED  BY <1>0, <2>1, <2>2
  <1>5. CASE Create
    BY <1>1, <1>5 DEF Create
  <1>6. CASE ReadStep \/ JobStep
    BY <1>1, <1>6, ReadKeeps, JobKeeps DEF writer
  <1>7. CASE UNCHANGED installVars
    BY <1>1, <1>7 DEF installVars, vars, writer
  <1> QED  BY <1>2, <1>3, <1>4, <1>5, <1>6, <1>7, NextCases
-------------------------------------------------------------------------------
(***************************************************************************)
(* The writer.                                                             *)
(***************************************************************************)
LEMMA InitWriter == InstallInit => InvWriter
  <1> SUFFICES ASSUME InstallInit PROVE InvWriter
    OBVIOUS
  <1>1. <<>> \in Seq(Recs)
    OBVIOUS
  <1>2. LenOf(<<>>) = 0
    BY <1>1, LenFacts
  <1> QED  BY <1>2 DEF InstallInit, Init, InvWriter, Ended, Undamaged, Elems

LEMMA OneLen == ASSUME NEW r \in Recs PROVE LenOf(<<r>>) = RecLen(r) /\ RecLen(r) \in Nat
  <1>1. <<>> \in Seq(Recs) /\ Append(<<>>, r) = <<r>>
    OBVIOUS
  <1>2. LenOf(<<>>) = 0 /\ LenOf(Append(<<>>, r)) = LenOf(<<>>) + RecLen(r) /\ RecLen(r) \in Nat
    BY <1>1, LenFacts, RecLenType
  <1>3. LenOf(<<r>>) = 0 + RecLen(r)
    BY <1>1, <1>2
  <1> QED  BY <1>2, <1>3

LEMMA WriterStep ==
    ASSUME TypeOK, InvLayout, InvWriter, InvFooter, [InstallNext]_installVars
    PROVE  InvWriter'
  <1>1. ASSUME UNCHANGED <<blockSize, plen, payload, first, damaged, count, added, maxSeq, minSeq, bloom>>,
               \/ UNCHANGED phase
               \/ phase' \in {"closed", "open", "refused", "failed"}
                  /\ (phase' = "failed" \/ phase \in {"written", "closed", "open"})
        PROVE  InvWriter'
    BY <1>1 DEF InvWriter, Ended, Undamaged
  <1>2. ASSUME NEW r \in Recs, Add(r) PROVE InvWriter'
    <2>1. /\ phase = "writing" /\ phase' = phase /\ damaged = "none" /\ damaged' = "none"
          /\ UNCHANGED blockSize
      BY <1>2, WriterWrites DEF Add, Undamaged
    <2>2. payload \in Seq(Recs) /\ added \in Seq(Recs) /\ plen = LenOf(payload)
      BY DEF TypeOK, InvWriter
    <2>3. plen' = LenOf(payload')
      <3>1. CASE ~Full(r)
        BY <1>2, <2>2, <3>1, LenFacts DEF Add
      <3>2. CASE Full(r)
        BY <1>2, <3>2, OneLen DEF Add
      <3> QED  BY <3>1, <3>2
    <2>4. payload' # <<>> /\ first' = payload'[1].key
      <3>0. <<r>> # <<>> /\ <<r>>[1] = r /\ Append(<<>>, r) = <<r>>
        OBVIOUS
      <3>1. CASE Full(r)
        <4>1. payload' = <<r>> /\ first' = r.key
          BY <1>2, <3>1 DEF Add, FirstKey
        <4> QED  BY <3>0, <4>1
      <3>2. CASE ~Full(r) /\ payload = <<>>
        <4>1. payload' = Append(<<>>, r) /\ first' = r.key
          BY <1>2, <3>2 DEF Add, FirstKey
        <4> QED  BY <3>0, <4>1
      <3>3. CASE ~Full(r) /\ payload # <<>>
        <4>1. payload' = Append(payload, r) /\ first' = first /\ first = payload[1].key
          BY <1>2, <3>3 DEF Add, FirstKey, InvWriter
        <4>2. payload'[1] = payload[1] /\ payload' # <<>>
          BY <2>2, <3>3, <4>1
        <4> QED  BY <4>1, <4>2
      <3> QED  BY <3>1, <3>2, <3>3
    <2>5. blockSize # 0
      BY <2>1 DEF InvWriter
    <2>6. count' = Len(added') /\ Elems(added') = Elems(added) \cup {r} /\ bloom' = bloom \cup {r.key}
          /\ count = Len(added) /\ Elems(added) \subseteq Recs /\ added' # <<>>
      <3>1. added' = Append(added, r) /\ count' = count + 1 /\ bloom' = bloom \cup {r.key}
        BY <1>2 DEF Add
      <3>2. count = Len(added)
        BY DEF InvWriter
      <3>3. Elems(Append(added, r)) = Elems(added) \cup {r} /\ Elems(added) \subseteq Recs
        BY <2>2, ElemsFacts
      <3>4. Len(Append(added, r)) = Len(added) + 1 /\ Append(added, r) # <<>>
        BY <2>2
      <3> QED  BY <3>1, <3>2, <3>3, <3>4
    <2>7. /\ maxSeq' = IF count > 0 /\ ~(r.seq > maxSeq) THEN maxSeq ELSE r.seq
          /\ minSeq' = IF count > 0 /\ ~(r.seq < minSeq) THEN minSeq ELSE r.seq
      <3>1. minSeq' = Least(minSeq, r.seq, count > 0) /\ maxSeq' = Greatest(maxSeq, r.seq, count > 0)
        BY <1>2 DEF Add
      <3>2. r.seq \in Nat /\ minSeq \in Nat /\ maxSeq \in Nat
        BY KeyFacts DEF TypeOK
      <3> QED  BY <3>1, <3>2 DEF Least, Greatest
    <2>8. r.seq \in Nat /\ minSeq \in Nat /\ maxSeq \in Nat
      BY KeyFacts DEF TypeOK
    <2>9. \A x \in Elems(added) : x.seq \in Nat /\ minSeq <= x.seq /\ x.seq <= maxSeq /\ x.key \in bloom
      BY <2>1, <2>6, KeyFacts DEF InvWriter
    <2>10. CASE count > 0
      <3>1. added # <<>>
        BY <2>6, <2>10
      <3>2. PICK y \in Elems(added) : y.seq = maxSeq
        BY <3>1 DEF InvWriter
      <3>3. maxSeq' \in {x.seq : x \in Elems(added')}
        BY <2>6, <2>7, <3>2
      <3>4. minSeq' \in Nat /\ maxSeq' \in Nat /\ minSeq' <= minSeq /\ maxSeq' >= maxSeq
            /\ minSeq' <= r.seq /\ maxSeq' >= r.seq
        <4>1. CASE r.seq < minSeq
          BY <2>7, <2>8, <2>9, <2>10, <3>2, <4>1
        <4>2. CASE r.seq > maxSeq
          BY <2>7, <2>8, <2>9, <2>10, <3>2, <4>2
        <4>3. CASE ~(r.seq < minSeq) /\ ~(r.seq > maxSeq)
          BY <2>7, <2>8, <2>10, <4>3
        <4> QED  BY <4>1, <4>2, <4>3
      <3>5. \A x \in Elems(added') : x.seq \in minSeq'..maxSeq' /\ x.key \in bloom'
        BY <2>6, <2>8, <2>9, <3>4
      <3> QED  BY <2>1, <2>3, <2>4, <2>5, <2>6, <3>3, <3>5 DEF InvWriter, Ended, Undamaged
    <2>11. CASE ~(count > 0)
      <3>1. added = <<>> /\ Elems(added) = {}
        BY <2>2, <2>6, <2>11 DEF Elems
      <3>2. maxSeq' = r.seq /\ minSeq' = r.seq
        BY <2>7, <2>11
      <3>3. maxSeq' \in {x.seq : x \in Elems(added')}
        BY <2>6, <3>2
      <3>4. \A x \in Elems(added') : x.seq \in minSeq'..maxSeq' /\ x.key \in bloom'
        BY <2>6, <2>8, <3>1, <3>2
      <3> QED  BY <2>1, <2>3, <2>4, <2>5, <2>6, <3>3, <3>4 DEF InvWriter, Ended, Undamaged
    <2> QED  BY <2>10, <2>11
  <1>3. CASE Finish
    <2>1. phase = "writing" /\ damaged = "none" /\ damaged' = "none"
      BY <1>3, WriterWrites DEF Undamaged
    <2>2. /\ phase' = "written" /\ payload' = <<>> /\ plen' = 0
          /\ UNCHANGED <<blockSize, count, added, minSeq, maxSeq, bloom>>
      BY <1>3 DEF Finish
    <2>3. <<>> \in Seq(Recs)
      OBVIOUS
    <2>4. plen' = LenOf(payload')
      BY <2>2, <2>3, LenFacts
    <2> QED  BY <2>1, <2>2, <2>4 DEF InvWriter, Ended, Undamaged
  <1>4. CASE Damage
    <2>1. /\ phase = "closed" /\ damaged = "none"
          /\ damaged' # "filter" => UNCHANGED bloom
          /\ UNCHANGED <<phase, blockSize, plen, payload, first, count, added, minSeq, maxSeq>>
      BY <1>4, DamageEffect
    <2> QED  BY <2>1 DEF InvWriter, Ended, Undamaged
  <1>5. CASE Create
    BY <1>5 DEF Create, InvWriter, Ended, Undamaged
  <1>6. CASE ReadStep
    BY <1>1, <1>6, ReadKeeps DEF writer
  <1>7. CASE JobStep
    <2>1. \/ UNCHANGED phase
          \/ phase' \in {"closed", "open", "refused", "failed"}
             /\ (phase' = "failed" \/ phase \in {"written", "closed", "open"})
      BY <1>7 DEF JobStep, SyncFile, Sync, Rename, OpenFinal, Open, RemoveLog, Fails, vars
    <2> QED  BY <1>1, <1>7, <2>1, JobKeeps DEF writer
  <1>8. CASE UNCHANGED installVars
    BY <1>1, <1>8 DEF installVars, vars, writer
  <1> QED  BY <1>2, <1>3, <1>4, <1>5, <1>6, <1>7, <1>8, NextCases
-------------------------------------------------------------------------------
(***************************************************************************)
(* Shapes, and the footer.                                                 *)
(***************************************************************************)
LEMMA MidFacts ==
    ASSUME TypeOK, lo < hi
    PROVE  Mid \in Nat /\ lo <= Mid /\ Mid < hi
  BY DEF TypeOK, Mid

\* A block that lookup_in_block accepts is one of the file, with the records it was
\* written with: no damage passes the checksum.
LEMMA BlockPassed ==
    ASSUME TypeOK, InvLayout, BlockOk
    PROVE  \E p \in BlockIds : /\ blocks[p].off = index[lo].off /\ Scanned = blocks[p].recs
                               /\ Scanned \in Seq(Recs) /\ Scanned = Orig(p)
  <1>1. PICK p \in Pointed : Block = blocks[p]
    BY DEF BlockOk, Block
  <1>2. p \in BlockIds /\ blocks[p].off = index[lo].off
    BY <1>1 DEF Pointed, BlockIds
  <1>3. blocks[p].recs \in Seq(Recs)
    BY <1>2, BlockFacts DEF Blocks
  <1>4. blocks[p].crc = blocks[p].recs
    BY <1>1 DEF BlockOk, ChecksumOk
  <1> QED  BY <1>1, <1>2, <1>3, <1>4 DEF Scanned, Orig

LEMMA InitType == InstallInit => TypeOK
  BY SsTableAssumption DEF InstallInit, Init, TypeOK, Missing

LEMMA WriterType ==
    ASSUME TypeOK, InvLayout, InvWriter, Create \/ (\E r \in Recs : Add(r)) \/ Finish
    PROVE  TypeOK'
  <1>1. CASE Create
    BY <1>1 DEF Create, TypeOK, reader
  <1>2. ASSUME Undamaged, damaged' = damaged,
               UNCHANGED <<blocks, index, offset>> \/ (FlushBlock /\ payload # <<>>)
        PROVE  blocks' \in Seq(Blocks) /\ index' \in Seq(Index) /\ offset' \in Nat
    <2>1. CASE UNCHANGED <<blocks, index, offset>>
      BY <2>1 DEF TypeOK
    <2>2. CASE FlushBlock /\ payload # <<>>
      <3>1. PICK n \in Nat : n = Len(blocks)
        BY DEF TypeOK
      <3> QED  BY <1>2, <2>2, <3>1, FlushEffect
    <2> QED  BY <1>2, <2>1, <2>2
  <1>3. ASSUME NEW r \in Recs, Add(r) PROVE TypeOK'
    <2>1. blocks' \in Seq(Blocks) /\ index' \in Seq(Index) /\ offset' \in Nat
      BY <1>2, <1>3, WriterWrites
    <2>2. payload' \in Seq(Recs) /\ plen' \in Nat
      <3>1. RecLen(r) \in Nat /\ payload \in Seq(Recs) /\ plen \in Nat
        BY RecLenType DEF TypeOK
      <3>2. CASE Full(r)
        <4>1. payload' = <<r>> /\ plen' = RecLen(r)
          BY <1>3, <3>2 DEF Add
        <4> QED  BY <3>1, <4>1
      <3>3. CASE ~Full(r)
        <4>1. payload' = Append(payload, r) /\ plen' = plen + RecLen(r)
          BY <1>3, <3>3 DEF Add
        <4> QED  BY <3>1, <4>1
      <3> QED  BY <3>2, <3>3
    <2>3. first' \in Keys \cup {None} /\ bloom' \subseteq Keys /\ count' \in Nat
          /\ minSeq' \in Seqs \cup {0} /\ maxSeq' \in Seqs \cup {0}
      <3>1. r.key \in Keys /\ r.seq \in Seqs
        BY KeyFacts
      <3>2. first' = FirstKey(r) /\ bloom' = bloom \cup {r.key} /\ count' = count + 1
            /\ minSeq' = Least(minSeq, r.seq, count > 0) /\ maxSeq' = Greatest(maxSeq, r.seq, count > 0)
        BY <1>3 DEF Add
      <3>3. first' \in {r.key, first} /\ minSeq' \in {minSeq, r.seq} /\ maxSeq' \in {maxSeq, r.seq}
        BY <3>2 DEF FirstKey, Least, Greatest
      <3> QED  BY <3>1, <3>2, <3>3 DEF TypeOK
    <2>4. added' \in Seq(Recs) /\ UNCHANGED <<phase, blockSize, filterHead, reader, damaged>>
      BY <1>3 DEF Add, TypeOK
    <2> QED  BY <2>1, <2>2, <2>3, <2>4 DEF TypeOK, reader
  <1>4. CASE Finish
    <2>1. blocks' \in Seq(Blocks) /\ index' \in Seq(Index) /\ offset' \in Nat
      BY <1>2, <1>4, WriterWrites
    <2>2. /\ payload' = <<>> /\ plen' = 0 /\ phase' = "written"
          /\ UNCHANGED <<blockSize, first, bloom, filterHead, count, minSeq, maxSeq, reader, added,
                         damaged>>
      BY <1>4 DEF Finish
    <2> QED  BY <2>1, <2>2 DEF TypeOK, reader
  <1> QED  BY <1>1, <1>3, <1>4

LEMMA ReadType ==
    ASSUME TypeOK, InvLayout, InvGet, ReadStep
    PROVE  TypeOK'
  <1>1. UNCHANGED <<phase, writer, footer, added, damaged>>
    BY ReadKeeps
  <1> SUFFICES /\ rpc' \in {"idle", "find", "scan", "done"} /\ key' \in Keys \cup {None}
               /\ lo' \in Nat /\ hi' \in Nat /\ pos' \in Nat \ {0}
               /\ answer' \in Recs \cup {Missing, Corrupt}
    BY <1>1 DEF TypeOK, writer
  <1>2. CASE GetBegin
    <2>1. Len(index) \in Nat
      BY DEF TypeOK
    <2> QED  BY <1>2, <2>1 DEF GetBegin, TypeOK
  <1>3. CASE Probe
    BY <1>3, MidFacts DEF Probe, TypeOK
  <1>4. CASE NoBlock \/ FoundBlock \/ FoundCorrupt \/ ScanMiss \/ ScanNext \/ GetReturn
    BY <1>4 DEF NoBlock, FoundBlock, FoundCorrupt, ScanMiss, ScanNext, GetReturn, TypeOK
  <1>5. CASE ScanHit
    <2>1. BlockOk
      BY <1>5 DEF ScanHit, InvGet
    <2>2. Scanned \in Seq(Recs)
      BY <2>1, BlockPassed
    <2>3. Scanned[pos] \in Recs
      BY <1>5, <2>2 DEF ScanHit, TypeOK
    <2> QED  BY <1>5, <2>3 DEF ScanHit, TypeOK
  <1> QED  BY <1>2, <1>3, <1>4, <1>5 DEF ReadStep, Search

LEMMA TypeStep ==
    ASSUME TypeOK, InvLayout, InvWriter, InvFooter, InvGet, [InstallNext]_installVars
    PROVE  TypeOK'
  <1>1. CASE Damage
    <2>1. /\ damaged' \in {"footer", "padding", "header", "payload", "index", "keylen", "filter",
                            "filterhead"}
          /\ blocks' \in Seq(Blocks) /\ index' \in Seq(Index) /\ bloom' \subseteq Keys
          /\ filterHead' \in BOOLEAN
          /\ UNCHANGED <<phase, blockSize, payload, plen, first, offset, count, minSeq, maxSeq,
                         reader, added>>
      BY <1>1, DamageEffect
    <2> QED  BY <2>1 DEF TypeOK, reader
  <1>2. CASE JobStep
    <2>1. phase' \in {phase, "closed", "open", "refused", "failed"}
      BY <1>2 DEF JobStep, SyncFile, Sync, Rename, OpenFinal, Open, RemoveLog, Fails, vars
    <2> QED  BY <1>2, <2>1, JobKeeps DEF TypeOK, writer, reader
  <1>3. CASE UNCHANGED installVars
    BY <1>3 DEF installVars, vars, writer, reader, TypeOK
  <1> QED  BY <1>1, <1>2, <1>3, NextCases, WriterType, ReadType

LEMMA InitFooter == InstallInit => InvFooter
  BY DEF InstallInit, Init, InvFooter, Ended, SoundOpens, Parses

\* The lengths of the index are the key's until one is damaged.
LEMMA ParsesWritten ==
    ASSUME TypeOK, InvLayout, InvWriter, InvFooter, (\E r \in Recs : Add(r)) \/ Finish
    PROVE  Parses' /\ filterHead' = filterHead /\ filterHead /\ damaged' = "none"
  <1>1. Undamaged /\ damaged' = damaged
        /\ (UNCHANGED <<blocks, index, offset>> \/ (FlushBlock /\ payload # <<>>))
    BY WriterWrites
  <1>2. damaged = "none" /\ damaged' = "none"
    BY <1>1 DEF Undamaged
  <1>3. Parses /\ filterHead
    BY <1>2 DEF InvFooter
  <1>4. ASSUME UNCHANGED index PROVE Parses'
    BY <1>3, <1>4 DEF Parses
  <1>5. ASSUME FlushBlock, payload # <<>> PROVE Parses'
    <2>1. PICK n \in Nat : n = Len(blocks)
      BY DEF TypeOK
    <2> QED  BY <1>1, <1>3, <1>5, <2>1, FlushEffect
  <1>6. filterHead' = filterHead
    BY DEF Add, Finish
  <1>7. Parses'
    BY <1>1, <1>4, <1>5
  <1> QED  BY <1>2, <1>3, <1>6, <1>7

LEMMA FooterStep ==
    ASSUME TypeOK, TypeOK', InvLayout, InvWriter, InvFooter, [InstallNext]_installVars
    PROVE  InvFooter'
  <1>1. CASE Create
    BY <1>1 DEF Create, InvFooter, Ended, SoundOpens, Parses
  <1>2. ASSUME NEW r \in Recs, Add(r) PROVE InvFooter'
    <2>1. phase' = "writing"
      BY <1>2 DEF Add
    <2> QED  BY <1>2, <2>1, ParsesWritten DEF InvFooter, Ended, SoundOpens
  <1>3. CASE Finish
    <2>1. /\ phase' = "written" /\ damaged' = "none" /\ UNCHANGED <<count, minSeq, maxSeq>>
          /\ footer' = Signed(Footer(offset', Len(index'))) /\ Parses' /\ filterHead'
      BY <1>3, ParsesWritten DEF Finish
    <2>2. /\ offset' \in Nat /\ Len(index') \in Nat /\ count \in Nat /\ FilterLen \in Nat
          /\ minSeq \in Nat /\ maxSeq \in Nat
      <3>1. offset' \in Nat /\ index' \in Seq(Index) /\ count \in Nat
        BY DEF TypeOK
      <3>2. minSeq \in Nat /\ maxSeq \in Nat /\ FilterLen \in Nat
        BY RangeFacts, FileFacts
      <3> QED  BY <3>1, <3>2
    <2>3. IndexLen(Len(index')) \in Nat
      <3>1. \A m, n \in Nat : m * n \in Nat
        OBVIOUS
      <3>2. IndexEntrySize + KeyLen \in Nat
        BY KeyFacts DEF IndexEntrySize
      <3> QED  BY <2>2, <3>1, <3>2 DEF IndexLen
    <2> DEFINE size == IndexLen(Len(index'))
               f == [indexOff |-> offset', indexLen |-> size, bloomOff |-> offset' + size,
                     bloomLen |-> FilterLen, entries |-> count, blocks |-> Len(index'),
                     min |-> minSeq, max |-> maxSeq]
    <2>4. f \in Bodies
      <3>1. offset' + size \in Nat /\ size \in Nat
        BY <2>2, <2>3
      <3> HIDE DEF size
      <3> QED  BY <2>2, <3>1 DEF Bodies
    <2>5. footer' = [body |-> f, crc |-> f, pad |-> 0] /\ Footer(offset, Len(index))' = f
      BY <2>1 DEF Signed, Footer, IndexLen
    <2>6. footer' \in Footers /\ footer'.body = f /\ footer'.crc = f
      <3> HIDE DEF f
      <3> QED  BY <2>4, <2>5 DEF Footers
    <2>7. SoundOpens'
      BY <2>1 DEF SoundOpens
    <2> HIDE DEF f
    <2> QED  BY <2>1, <2>5, <2>6, <2>7 DEF InvFooter
  <1>4. CASE Damage
    <2>1. /\ phase = "closed" /\ damaged = "none"
          /\ footer' \in Footers
          /\ damaged' = "footer" => footer'.crc # footer'.body
          /\ damaged' # "footer" => footer'.body = footer.body /\ footer'.crc = footer.crc
          /\ Parses' <=> damaged' # "keylen"
          /\ filterHead' <=> damaged' # "filterhead"
          /\ Len(index') = Len(index) /\ UNCHANGED <<phase, offset, count, minSeq, maxSeq>>
      BY <1>4, DamageEffect
    <2>2. footer.body = Footer(offset, Len(index)) /\ footer.crc = footer.body
      BY <2>1 DEF InvFooter, Ended
    <2>3. Footer(offset, Len(index))' = Footer(offset, Len(index))
      BY <2>1 DEF Footer, IndexLen
    <2>4. SoundOpens'
      BY <2>1 DEF SoundOpens
    <2> QED  BY <2>1, <2>2, <2>3, <2>4 DEF InvFooter
  <1>5. ASSUME UNCHANGED <<writer, footer, damaged>>, Ended' => Ended
        PROVE  SoundOpens' => InvFooter'
    BY <1>5 DEF InvFooter, Footer, IndexLen, Parses, writer
  <1>6. ASSUME UNCHANGED <<writer, damaged>>, phase' \in {"open", "refused"} => phase' = phase
        PROVE  SoundOpens'
    BY <1>6 DEF InvFooter, SoundOpens, writer
  <1>7. CASE OpenFinal
    <2>1. /\ phase = "closed" /\ Ended /\ UNCHANGED <<writer, footer, damaged>>
          /\ phase' = IF /\ Sound(footer) /\ filterHead
                         /\ Parses /\ Len(index) = footer.body.blocks
                      THEN "open" ELSE "refused"
      BY <1>7 DEF OpenFinal, Open, Ended
    <2>2. blockSize # 0
      BY <2>1 DEF InvWriter
    <2>3. /\ filterHead <=> damaged # "filterhead"
          /\ Parses <=> damaged # "keylen"
      BY DEF InvFooter
    <2>4. damaged = "footer" => ~ Sound(footer)
      BY <2>1 DEF InvFooter, Sound
    <2>5. ASSUME damaged # "footer" PROVE Sound(footer) /\ Len(index) = footer.body.blocks
      <3>1. footer.body = Footer(offset, Len(index)) /\ footer.crc = footer.body
        BY <2>1, <2>5 DEF InvFooter
      <3>2. /\ footer.body.indexOff = offset /\ footer.body.indexLen = IndexLen(Len(index))
            /\ footer.body.bloomOff = offset + IndexLen(Len(index))
            /\ footer.body.bloomLen = FilterLen /\ footer.body.blocks = Len(index)
        BY <3>1 DEF Footer
      <3>3. InFile(footer)
        <4> DEFINE size == IndexLen(Len(index))
        <4>1. size \in Nat /\ offset \in Nat /\ FilterLen \in Nat
              /\ FileLen = offset + size + FilterLen + 128
          BY FileFacts
        <4> HIDE DEF size
        <4>2. offset + size <= FileLen /\ offset + size + FilterLen <= FileLen
          BY <4>1
        <4> QED  BY <3>2, <4>2 DEF InFile, size
      <3> QED  BY <3>1, <3>2, <3>3 DEF Sound
    <2>6. SoundOpens'
      BY <2>1, <2>2, <2>3, <2>4, <2>5 DEF SoundOpens, writer
    <2> QED  BY <1>5, <2>1, <2>6
  <1>8. CASE SyncFile \/ Rename \/ RemoveLog \/ Fails
    <2>1. /\ Ended' => Ended
          /\ phase' \in {"open", "refused"} => phase' = phase
      BY <1>8 DEF SyncFile, Sync, Rename, RemoveLog, Fails, Ended, vars
    <2>2. UNCHANGED <<writer, footer, damaged>>
      BY <1>8, JobKeeps DEF JobStep
    <2> QED  BY <1>5, <1>6, <2>1, <2>2
  <1>9. CASE ReadStep
    <2>1. UNCHANGED <<phase, writer, footer, damaged>>
      BY <1>9, ReadKeeps
    <2> QED  BY <1>5, <1>6, <2>1 DEF Ended
  <1>10. CASE UNCHANGED installVars
    <2>1. UNCHANGED <<phase, writer, footer, damaged>>
      BY <1>10 DEF installVars, vars
    <2> QED  BY <1>5, <1>6, <2>1 DEF Ended
  <1> QED  BY <1>1, <1>2, <1>3, <1>4, <1>7, <1>8, <1>9, <1>10, NextCases DEF JobStep
-------------------------------------------------------------------------------
(***************************************************************************)
(* A get.                                                                  *)
(***************************************************************************)
LEMMA IndexEntry ==
    ASSUME InvLayout, damaged # "index", NEW i \in BlockIds
    PROVE  /\ index[i].first = Orig(i)[1].key /\ index[i].off = blocks[i].off
           /\ index[i].len = BlockHeaderSize + LenOf(Orig(i))
  BY DEF InvLayout

\* No two blocks start at one offset.
LEMMA OffsOnce ==
    ASSUME TypeOK, InvLayout, NEW i \in BlockIds, NEW j \in BlockIds, blocks[i].off = blocks[j].off
    PROVE  i = j
  <1>1. \A m, n \in BlockIds : m < n => blocks[m].off < blocks[n].off
    <2> SUFFICES ASSUME NEW m \in BlockIds, NEW n \in BlockIds, m < n
                 PROVE  blocks[m].off < blocks[n].off
      OBVIOUS
    <2>1. blocks[m].off < End(m) /\ End(m) \in Nat /\ blocks[m].off \in Nat /\ blocks[n].off \in Nat
      BY BlockFacts DEF Blocks
    <2>2. End(m) <= blocks[n].off
      BY DEF InvLayout
    <2> QED  BY <2>1, <2>2
  <1>2. blocks[i].off \in Nat /\ blocks[j].off \in Nat
    BY BlockFacts DEF Blocks
  <1>3. i \in Nat /\ j \in Nat
    BY DEF BlockIds
  <1>4. CASE i < j
    BY <1>1, <1>2, <1>4
  <1>5. CASE j < i
    BY <1>1, <1>2, <1>5
  <1> QED  BY <1>3, <1>4, <1>5

\* The first keys of the index split the records.
LEMMA FirstFacts ==
    ASSUME TypeOK, InvLayout, InvOrder, damaged # "index", NEW i \in BlockIds
    PROVE  /\ index[i].first \in Nat /\ index[i].first = Orig(i)[1].key
           /\ \A m \in 1..Len(Orig(i)) : Orig(i)[m].key \in Nat /\ index[i].first <= Orig(i)[m].key
           /\ \A j \in BlockIds : i < j =>
                 /\ index[i].first < index[j].first
                 /\ \A m \in 1..Len(Orig(i)) : Orig(i)[m].key < index[j].first
  <1>1. \A k \in BlockIds : index[k].first = Orig(k)[1].key /\ 1 \in 1..Len(Orig(k))
                            /\ \A m \in 1..Len(Orig(k)) : Orig(k)[m].key \in Nat
    <2> SUFFICES ASSUME NEW k \in BlockIds
                 PROVE  index[k].first = Orig(k)[1].key /\ 1 \in 1..Len(Orig(k))
                        /\ \A m \in 1..Len(Orig(k)) : Orig(k)[m].key \in Nat
      OBVIOUS
    <2>1. Orig(k) \in Seq(Recs) /\ Len(Orig(k)) \in Nat \ {0}
      BY BlockFacts
    <2>2. \A m \in 1..Len(Orig(k)) : Orig(k)[m] \in Recs
      BY <2>1
    <2>3. index[k].first = Orig(k)[1].key
      BY IndexEntry
    <2> QED  BY <2>1, <2>2, <2>3, KeyFacts
  <1>2. \A m \in 1..Len(Orig(i)) : m # 1 => Orig(i)[1].key < Orig(i)[m].key
    BY <1>1 DEF InvOrder, Ascending
  <1>3. \A m \in 1..Len(Orig(i)) : index[i].first <= Orig(i)[m].key
    BY <1>1, <1>2
  <1>4. \A j \in BlockIds : i < j => \A m \in 1..Len(Orig(i)) : Orig(i)[m].key < index[j].first
    BY <1>1 DEF InvOrder, Below
  <1> QED  BY <1>1, <1>3, <1>4

LEMMA AddedFacts ==
    ASSUME InvOrder, payload = <<>>, NEW r \in Elems(added)
    PROVE  \E i \in BlockIds : \E m \in 1..Len(Orig(i)) : r = Orig(i)[m]
  <1>1. Elems(payload) = {}
    BY DEF Elems
  <1>2. PICK i \in BlockIds : r \in Elems(Orig(i))
    BY <1>1 DEF InvOrder
  <1> QED  BY <1>2 DEF Elems

\* A block is accepted, unless the file is damaged.
LEMMA SoundBlock ==
    ASSUME TypeOK, InvLayout, Undamaged, lo \in BlockIds
    PROVE  BlockOk
  <1>1. damaged = "none"
    BY DEF Undamaged
  <1>2. /\ blocks[lo].magic /\ blocks[lo].plen = LenOf(Orig(lo)) /\ blocks[lo].recs = Orig(lo)
        /\ End(lo) <= offset
    BY <1>1 DEF InvLayout
  <1>3. blocks[lo].crc = Orig(lo)
    BY <1>1 DEF Orig
  <1>4. index[lo].off = blocks[lo].off /\ index[lo].len = BlockHeaderSize + LenOf(Orig(lo))
    BY <1>1, IndexEntry
  <1>5. lo \in Pointed /\ \A i \in Pointed : i = lo
    <2>1. Pointed = {i \in BlockIds : blocks[i].off = blocks[lo].off /\ blocks[i].magic}
      BY <1>4 DEF Pointed, BlockIds
    <2> QED  BY <1>2, <2>1, OffsOnce
  <1>6. Block = blocks[lo]
    BY <1>5 DEF Block
  <1>7. index[lo].off + index[lo].len <= FileLen
    <2>1. index[lo].off + index[lo].len = End(lo) /\ End(lo) \in Nat /\ offset \in Nat
      <3>1. blocks[lo].off \in Nat /\ LenOf(Orig(lo)) \in Nat /\ End(lo) \in Nat
        BY BlockFacts DEF Blocks
      <3>2. End(lo) = blocks[lo].off + 16 + LenOf(Orig(lo)) /\ offset \in Nat
        BY BlockFacts DEF TypeOK
      <3> QED  BY <1>4, <3>1, <3>2 DEF BlockHeaderSize
    <2>2. FileLen \in Nat /\ offset <= FileLen
      <3> DEFINE size == IndexLen(Len(index))
      <3>1. FileLen = offset + size + FilterLen + 128 /\ size \in Nat /\ FilterLen \in Nat
        BY FileFacts
      <3> HIDE DEF size
      <3> QED  BY <2>1, <3>1
    <2> QED  BY <1>2, <2>1, <2>2
  <1>8. BlockHeaderSize + Block.plen <= index[lo].len
    <2>1. LenOf(Orig(lo)) \in Nat
      BY BlockFacts
    <2> QED  BY <1>2, <1>4, <1>6, <2>1 DEF BlockHeaderSize
  <1> QED  BY <1>2, <1>3, <1>5, <1>6, <1>7, <1>8 DEF BlockOk, ChecksumOk

\* A search that ends before the first block, and one that ends in a block without the
\* key, have not passed over it.
LEMMA BeforeFirst ==
    ASSUME TypeOK, InvLayout, InvOrder, payload = <<>>, damaged # "index", Narrowed, hi = 0,
           key \in Keys
    PROVE  \A r \in Elems(added) : r.key # key
  <1> SUFFICES ASSUME NEW r \in Elems(added) PROVE r.key # key
    OBVIOUS
  <1>1. PICK i \in BlockIds : \E m \in 1..Len(Orig(i)) : r = Orig(i)[m]
    BY AddedFacts
  <1>2. PICK m \in 1..Len(Orig(i)) : r = Orig(i)[m]
    BY <1>1
  <1>3. index[i].first <= r.key /\ r.key \in Nat /\ index[i].first \in Nat
    BY <1>2, FirstFacts
  <1>4. i \in hi + 1..Len(index)
    BY DEF BlockIds, InvLayout
  <1>5. index[i].first > key /\ key \in Nat
    BY <1>4, KeyFacts DEF Narrowed
  <1> QED  BY <1>3, <1>5

LEMMA NotInBlock ==
    ASSUME TypeOK, InvLayout, InvOrder, payload = <<>>, damaged # "index", Narrowed, BlockOk,
           key \in Keys, 0 < lo, lo = hi, hi <= Len(index),
           \A n \in 1..pos - 1 : Scanned[n].key < key,
           pos > Len(Scanned) \/ (pos <= Len(Scanned) /\ Scanned[pos].key > key)
    PROVE  \A r \in Elems(added) : r.key # key
  <1> SUFFICES ASSUME NEW r \in Elems(added) PROVE r.key # key
    OBVIOUS
  <1>0. lo \in BlockIds /\ lo \in Nat /\ pos \in Nat \ {0} /\ key \in Nat
    BY KeyFacts DEF TypeOK, BlockIds, InvLayout
  <1>1. Scanned = Orig(lo) /\ Scanned \in Seq(Recs)
    <2>1. PICK p \in BlockIds : /\ blocks[p].off = index[lo].off
                                /\ Scanned \in Seq(Recs) /\ Scanned = Orig(p)
      BY BlockPassed
    <2>2. index[lo].off = blocks[lo].off
      BY <1>0, IndexEntry
    <2>3. p = lo
      BY <1>0, <2>1, <2>2, OffsOnce
    <2> QED  BY <2>1, <2>3
  <1>2. PICK i \in BlockIds : \E m \in 1..Len(Orig(i)) : r = Orig(i)[m]
    BY AddedFacts
  <1>3. PICK m \in 1..Len(Orig(i)) : r = Orig(i)[m]
    BY <1>2
  <1>4. i \in Nat /\ r.key \in Nat
    BY <1>3, FirstFacts DEF BlockIds
  <1>5. CASE i < lo
    <2>1. r.key < index[lo].first /\ index[lo].first \in Nat
      BY <1>0, <1>3, <1>5, FirstFacts
    <2>2. index[lo].first <= key
      BY <1>0 DEF Narrowed
    <2> QED  BY <1>0, <1>4, <2>1, <2>2
  <1>6. CASE lo < i
    <2>1. index[i].first <= r.key /\ index[i].first \in Nat
      BY <1>3, FirstFacts
    <2>2. i \in hi + 1..Len(index)
      BY <1>0, <1>6 DEF BlockIds, InvLayout
    <2>3. index[i].first > key
      BY <2>2 DEF Narrowed
    <2> QED  BY <1>0, <1>4, <2>1, <2>3
  <1>7. CASE i = lo
    <2>1. r = Scanned[m] /\ m \in 1..Len(Scanned)
      BY <1>1, <1>3, <1>7
    <2>2. CASE m < pos
      <3>1. m \in 1..pos - 1
        BY <1>0, <2>1, <2>2
      <3> QED  BY <1>0, <1>4, <2>1, <3>1
    <2>3. CASE m >= pos
      <3>1. pos \in 1..Len(Scanned) /\ Scanned[pos].key > key
        BY <1>0, <1>1, <2>1, <2>3
      <3>2. Ascending(Scanned) /\ Scanned[pos] \in Recs
        BY <1>0, <1>1, <3>1 DEF InvOrder
      <3>3. m = pos \/ Scanned[pos].key < Scanned[m].key
        BY <1>0, <2>1, <2>3, <3>1, <3>2 DEF Ascending
      <3>4. Scanned[pos].key \in Nat
        BY <3>2, KeyFacts
      <3> QED  BY <1>0, <1>4, <2>1, <3>1, <3>3, <3>4
    <2> QED  BY <1>0, <2>1, <2>2, <2>3
  <1> QED  BY <1>0, <1>4, <1>5, <1>6, <1>7

LEMMA InitGet == InstallInit => InvGet
  BY DEF InstallInit, Init, InvGet, GetExact, HitGenuine

\* A get that is idle says nothing, and one that is not runs on an open file, which no
\* other step changes.
LEMMA GetStays ==
    ASSUME InvGet, rpc' = "idle" \/ UNCHANGED vars
    PROVE  InvGet'
  <1>1. CASE rpc' = "idle"
    BY <1>1 DEF InvGet, GetExact, HitGenuine
  <1>2. CASE UNCHANGED vars
    BY <1>2 DEF InvGet, GetExact, HitGenuine, Undamaged, Elems, Narrowed, BlockOk, FileLen, IndexLen,
                Pointed, ChecksumOk, Block, Scanned, vars, writer, reader
  <1> QED  BY <1>1, <1>2

LEMMA ReadGet ==
    ASSUME TypeOK, InvLayout, InvOrder, InvWriter, InvFooter, InvGet, ReadStep
    PROVE  InvGet'
  <1>0. /\ UNCHANGED <<phase, writer, footer, added, damaged>>
        /\ UNCHANGED <<index, blocks, bloom, offset, footer, added, damaged, phase>>
    BY ReadKeeps DEF writer
  <1>1. Elems(added)' = Elems(added) /\ Undamaged' = Undamaged
    BY <1>0 DEF Elems, Undamaged
  <1>2. CASE GetReturn
    BY <1>2, GetStays DEF GetReturn
  <1>3. CASE GetBegin
    <2>1. /\ phase = "open" /\ Ended /\ payload = <<>> /\ key' \in Keys
      BY <1>3 DEF GetBegin, Ended, InvWriter
    <2>2. CASE MayContain(key)'
      <3>1. rpc' = "find" /\ lo' = 0 /\ hi' = Len(index) /\ Len(index) \in Nat
        BY <1>0, <1>3, <2>2 DEF GetBegin, MayContain, TypeOK
      <3>2. lo' <= hi' /\ hi' <= Len(index')
        BY <1>0, <3>1
      <3>3. 1..lo' = {} /\ hi' + 1..Len(index') = {}
        BY <1>0, <3>1
      <3>4. Narrowed'
        BY <3>3 DEF Narrowed
      <3> QED  BY <1>0, <2>1, <3>1, <3>2, <3>4 DEF InvGet, GetExact, HitGenuine
    <2>3. CASE ~MayContain(key)'
      <3>1. rpc' = "done" /\ answer' = Missing /\ key' \notin bloom
        BY <1>0, <1>3, <2>3 DEF GetBegin, MayContain
      <3>2. damaged # "filter" => \A r \in Elems(added) : r.key # key'
        BY <3>1 DEF InvWriter
      <3>3. GetExact'
        BY <1>0, <1>1, <3>1, <3>2 DEF GetExact
      <3>4. HitGenuine'
        BY <1>1, <3>1 DEF HitGenuine
      <3> QED  BY <1>0, <2>1, <3>1, <3>3, <3>4 DEF InvGet
    <2> QED  BY <2>2, <2>3
  <1> DEFINE Runs == phase = "open" /\ payload = <<>> /\ key \in Keys /\ Ended
  <1>4. rpc # "idle" => Runs
    BY DEF InvGet, Ended, InvWriter
  <1>5. ASSUME rpc' = "done", Runs, key' = key, HitGenuine', GetExact' PROVE InvGet'
    BY <1>0, <1>5 DEF InvGet
  <1>6. CASE Probe
    <2>1. /\ lo < hi /\ hi <= Len(index) /\ Narrowed /\ Runs /\ rpc' = "find"
          /\ UNCHANGED <<key, index, damaged>>
          /\ IF index[Mid + 1].first <= key THEN lo' = Mid + 1 /\ hi' = hi ELSE hi' = Mid /\ lo' = lo
      BY <1>0, <1>4, <1>6 DEF Probe, InvGet
    <2>2. Mid \in Nat /\ lo <= Mid /\ Mid < hi /\ lo \in Nat /\ hi \in Nat /\ Len(index) \in Nat
      BY <2>1, MidFacts DEF TypeOK
    <2>3. lo' <= hi' /\ hi' <= Len(index)
      BY <2>1, <2>2
    <2>4. Mid + 1 \in BlockIds /\ BlockIds = 1..Len(index)
      BY <2>1, <2>2 DEF BlockIds, InvLayout
    <2>5. ASSUME damaged # "index"
          PROVE  /\ \A i \in 1..lo' : index[i].first <= key
                 /\ \A i \in hi' + 1..Len(index) : index[i].first > key
      <3>0. \A i \in BlockIds : index[i].first \in Nat
        BY <2>5, FirstFacts
      <3>1. key \in Nat
        BY <2>1, KeyFacts
      <3>2. \A i, j \in BlockIds : i < j => index[i].first < index[j].first
        BY <2>5, FirstFacts
      <3>3. /\ \A i \in 1..lo : index[i].first <= key
            /\ \A i \in hi + 1..Len(index) : index[i].first > key
        BY <2>1, <2>5 DEF Narrowed
      <3> HIDE DEF Mid
      <3>4. CASE index[Mid + 1].first <= key
        <4>1. lo' = Mid + 1 /\ hi' = hi
          BY <2>1, <3>4
        <4>2. ASSUME NEW i \in 1..lo' PROVE index[i].first <= key
          <5>1. i \in BlockIds /\ (i = Mid + 1 \/ i < Mid + 1)
            BY <2>2, <2>4, <4>1
          <5>2. CASE i = Mid + 1
            BY <3>4, <5>2
          <5>3. CASE i < Mid + 1
            <6>1. index[i].first < index[Mid + 1].first
              BY <2>4, <3>2, <5>1, <5>3
            <6> QED  BY <2>4, <3>0, <3>1, <3>4, <5>1, <6>1
          <5> QED  BY <5>1, <5>2, <5>3
        <4> QED  BY <3>3, <4>1, <4>2
      <3>5. CASE ~(index[Mid + 1].first <= key)
        <4>1. lo' = lo /\ hi' = Mid
          BY <2>1, <3>5
        <4>2. ASSUME NEW i \in hi' + 1..Len(index) PROVE index[i].first > key
          <5>1. i \in BlockIds /\ (i = Mid + 1 \/ Mid + 1 < i)
            BY <2>2, <2>4, <4>1
          <5>2. index[Mid + 1].first > key
            BY <2>4, <3>0, <3>1, <3>5
          <5>3. CASE i = Mid + 1
            BY <5>2, <5>3
          <5>4. CASE Mid + 1 < i
            <6>1. index[Mid + 1].first < index[i].first
              BY <2>4, <3>2, <5>1, <5>4
            <6> QED  BY <2>4, <3>0, <3>1, <5>1, <5>2, <6>1
          <5> QED  BY <5>1, <5>3, <5>4
        <4> QED  BY <3>3, <4>1, <4>2
      <3> QED  BY <3>4, <3>5
    <2>6. Narrowed'
      BY <2>1, <2>5 DEF Narrowed
    <2> QED  BY <1>0, <2>1, <2>3, <2>6 DEF InvGet, GetExact, HitGenuine
  <1>7. CASE NoBlock
    <2>1. /\ lo >= hi /\ lo <= hi /\ lo = 0 /\ Narrowed /\ Runs /\ rpc' = "done"
          /\ answer' = Missing /\ UNCHANGED key
      BY <1>4, <1>7 DEF NoBlock, InvGet
    <2>2. hi = 0
      BY <2>1 DEF TypeOK
    <2>3. damaged # "index" => \A r \in Elems(added) : r.key # key
      BY <2>1, <2>2, BeforeFirst
    <2>4. GetExact' /\ HitGenuine'
      BY <1>0, <1>1, <2>1, <2>3 DEF GetExact, HitGenuine
    <2> QED  BY <1>5, <2>1, <2>4
  <1>8. CASE FoundBlock
    <2>1. /\ lo >= hi /\ lo <= hi /\ lo > 0 /\ hi <= Len(index) /\ Narrowed /\ BlockOk /\ Runs
          /\ rpc' = "scan" /\ pos' = 1 /\ UNCHANGED <<key, lo, hi>>
      BY <1>4, <1>8 DEF FoundBlock, InvGet
    <2>2. lo = hi /\ Len(Scanned) \in Nat
      <3>1. Scanned \in Seq(Recs)
        BY <2>1, BlockPassed
      <3> QED  BY <2>1, <3>1 DEF TypeOK
    <2>3. Narrowed' /\ BlockOk' /\ Scanned' = Scanned
      BY <1>0, <2>1 DEF Narrowed, BlockOk, FileLen, IndexLen, Pointed, ChecksumOk, Block, Scanned
    <2>4. pos' <= Len(Scanned') + 1 /\ 1..pos' - 1 = {}
      BY <2>1, <2>2, <2>3
    <2> QED  BY <1>0, <2>1, <2>2, <2>3, <2>4 DEF InvGet, GetExact, HitGenuine
  <1>9. CASE FoundCorrupt
    <2>1. /\ lo > 0 /\ lo <= hi /\ hi <= Len(index) /\ ~BlockOk /\ Runs
          /\ rpc' = "done" /\ answer' = Corrupt /\ UNCHANGED key
      BY <1>4, <1>9 DEF FoundCorrupt, InvGet
    <2>2. lo \in BlockIds
      BY <2>1 DEF TypeOK, BlockIds, InvLayout
    <2>3. ~Undamaged
      BY <2>1, <2>2, SoundBlock
    <2>4. GetExact' /\ HitGenuine'
      BY <1>1, <2>1, <2>3 DEF GetExact, HitGenuine
    <2> QED  BY <1>5, <2>1, <2>4
  <1> DEFINE Scans == /\ 0 < lo /\ lo = hi /\ hi <= Len(index) /\ Narrowed /\ BlockOk /\ Runs
                      /\ pos <= Len(Scanned) + 1 /\ \A n \in 1..pos - 1 : Scanned[n].key < key
  <1>10. rpc = "scan" => Scans
    BY <1>4 DEF InvGet
  <1>11. CASE ScanMiss
    <2>1. /\ Scans /\ rpc' = "done" /\ answer' = Missing /\ UNCHANGED key
          /\ pos > Len(Scanned) \/ (pos <= Len(Scanned) /\ Scanned[pos].key > key)
      BY <1>10, <1>11 DEF ScanMiss
    <2>2. damaged # "index" => \A r \in Elems(added) : r.key # key
      <3> HIDE DEF Scanned
      <3> QED  BY <2>1, NotInBlock
    <2>3. GetExact' /\ HitGenuine'
      BY <1>0, <1>1, <2>1, <2>2 DEF GetExact, HitGenuine
    <2> QED  BY <1>5, <2>1, <2>3
  <1>12. CASE ScanHit
    <2>1. /\ Scans /\ rpc' = "done" /\ answer' = Scanned[pos] /\ UNCHANGED key
          /\ pos <= Len(Scanned) /\ Scanned[pos].key = key
      BY <1>10, <1>12 DEF ScanHit
    <2>2. PICK p \in BlockIds : Scanned = Orig(p) /\ Scanned \in Seq(Recs)
      BY <2>1, BlockPassed
    <2>3. pos \in 1..Len(Scanned)
      BY <2>1, <2>2 DEF TypeOK
    <2>4. Scanned[pos] \in Elems(added)
      BY <2>2, <2>3, PlacedFacts
    <2>5. answer' \in Elems(added) /\ answer'.key = key'
      BY <2>1, <2>4
    <2>6. GetExact' /\ HitGenuine'
      BY <1>1, <2>5 DEF GetExact, HitGenuine
    <2> QED  BY <1>5, <2>1, <2>6
  <1>13. CASE ScanNext
    <2>1. /\ Scans /\ rpc' = "scan" /\ pos' = pos + 1 /\ UNCHANGED <<key, lo, hi>>
          /\ pos <= Len(Scanned) /\ Scanned[pos].key < key
      BY <1>10, <1>13 DEF ScanNext
    <2>2. Narrowed' /\ BlockOk' /\ Scanned' = Scanned
      BY <1>0, <2>1 DEF Narrowed, BlockOk, FileLen, IndexLen, Pointed, ChecksumOk, Block, Scanned
    <2>3. Len(Scanned) \in Nat /\ pos \in Nat \ {0}
      <3>1. Scanned \in Seq(Recs)
        BY <2>1, BlockPassed
      <3> QED  BY <3>1 DEF TypeOK
    <2>4. pos' <= Len(Scanned') + 1
      BY <2>1, <2>2, <2>3
    <2>5. \A n \in 1..pos' - 1 : Scanned'[n].key < key
      <3>1. \A n \in 1..pos' - 1 : n \in 1..pos - 1 \/ n = pos
        BY <2>1, <2>3
      <3> QED  BY <2>1, <2>2, <3>1
    <2> QED  BY <1>0, <2>1, <2>2, <2>4, <2>5 DEF InvGet, GetExact, HitGenuine
  <1> QED  BY <1>2, <1>3, <1>6, <1>7, <1>8, <1>9, <1>11, <1>12, <1>13 DEF ReadStep, Search

LEMMA GetStep ==
    ASSUME TypeOK, InvLayout, InvOrder, InvWriter, InvFooter, InvGet, [InstallNext]_installVars
    PROVE  InvGet'
  <1>1. rpc # "idle" => phase = "open"
    BY DEF InvGet
  <1>2. CASE Create \/ (\E r \in Recs : Add(r)) \/ Finish \/ Damage
    <2>1. phase # "open" /\ rpc' = rpc
      BY <1>2 DEF Create, Add, Finish, Damage, reader
    <2> QED  BY <1>1, <2>1, GetStays
  <1>3. CASE ReadStep
    BY <1>3, ReadGet
  <1>4. CASE JobStep
    <2>1. rpc' = rpc /\ (phase # "open" \/ UNCHANGED vars)
      BY <1>4, JobKeeps DEF JobStep, SyncFile, Sync, Rename, OpenFinal, Open, RemoveLog, Fails, reader
    <2> QED  BY <1>1, <2>1, GetStays
  <1>5. CASE UNCHANGED installVars
    BY <1>5, GetStays DEF installVars
  <1> QED  BY <1>2, <1>3, <1>4, <1>5, NextCases
-------------------------------------------------------------------------------
(***************************************************************************)
(* What is on the device.                                                  *)
(***************************************************************************)
\* Along the index there is what was added, in a file whose blocks and index are as written.
LEMMA DecodedIsAdded ==
    ASSUME TypeOK, InvLayout, InvFlat, InvWriter, Ended,
           damaged \notin {"header", "payload", "index", "keylen"}
    PROVE  Decoded = added
  <1>1. ASSUME NEW i \in BlockIds PROVE DecodeBlock(index[i].off) = Orig(i)
    <2>1. index[i].off = blocks[i].off
      BY IndexEntry
    <2> DEFINE B == {blocks[j] : j \in 1..Len(blocks)}
               b == CHOOSE c \in B : c.off = index[i].off
    <2>2. blocks[i] \in B
      BY DEF BlockIds
    <2>3. b \in B /\ b.off = index[i].off
      BY <2>1, <2>2
    <2>4. PICK j \in BlockIds : b = blocks[j]
      BY <2>3 DEF BlockIds
    <2>5. j = i
      BY <2>1, <2>3, <2>4, OffsOnce
    <2>6. blocks[i].recs = Orig(i)
      BY DEF InvLayout
    <2>7. DecodeBlock(index[i].off) = b.recs
      BY DEF DecodeBlock
    <2> HIDE DEF b
    <2> QED  BY <2>4, <2>5, <2>6, <2>7
  <1>2. 1..Len(index) = BlockIds
    BY DEF BlockIds, InvLayout
  <1>3. Decoded = FlattenSeq(Origs)
    BY <1>1, <1>2 DEF Decoded, Origs
  <1>4. FlattenSeq(Origs) \in Seq(Recs)
    BY OrigsType, FlattenFacts
  <1>5. FlattenSeq(Origs) \o <<>> = FlattenSeq(Origs)
    BY <1>4
  <1>6. payload = <<>> /\ FlattenSeq(Origs) \o payload = added
    BY DEF InvWriter, InvFlat, Origs
  <1> QED  BY <1>3, <1>5, <1>6

LEMMA InitDir == InstallInit => InvDir
  BY DEF InstallInit, Init, InvDir

LEMMA DirStep ==
    ASSUME TypeOK, InvLayout, InvFlat, InvWriter, InvFooter, InvDir, [InstallNext]_installVars
    PROVE  InvDir'
  <1>1. CASE (Create \/ (\E r \in Recs : Add(r)) \/ Finish) /\ UNCHANGED dir
    <2>1. phase \in {"none", "writing"} /\ phase' \in {"refused", "writing", "written"}
      BY <1>1 DEF Create, Add, Finish
    <2> QED  BY <1>1, <2>1 DEF InvDir, dir
  <1>2. ASSUME UNCHANGED <<phase, added, dir>> PROVE InvDir'
    BY <1>2 DEF InvDir, dir
  <1>3. CASE Damage /\ UNCHANGED dir
    BY <1>2, <1>3, DamageEffect
  <1>4. CASE ReadStep /\ UNCHANGED dir
    BY <1>2, <1>4, ReadKeeps
  <1>5. CASE SyncFile
    <2>1. phase = "written" /\ phase' = "closed" /\ stable' = Decoded /\ UNCHANGED <<name, log, added>>
      BY <1>5 DEF SyncFile, Sync
    <2>2. Decoded = added
      <3>1. Ended /\ damaged = "none"
        BY <2>1 DEF Ended, InvWriter, Undamaged
      <3> QED  BY <3>1, DecodedIsAdded
    <2> QED  BY <2>1, <2>2 DEF InvDir
  <1>6. CASE Rename
    BY <1>6 DEF Rename, InvDir, vars
  <1>7. CASE OpenFinal
    BY <1>7 DEF OpenFinal, Open, InvDir, dir
  <1>8. CASE RemoveLog
    BY <1>8 DEF RemoveLog, InvDir, vars
  <1>9. CASE Fails
    BY <1>9 DEF Fails, InvDir, dir
  <1>10. CASE UNCHANGED installVars
    BY <1>2, <1>10 DEF installVars, vars
  <1> QED  BY <1>1, <1>3, <1>4, <1>5, <1>6, <1>7, <1>8, <1>9, <1>10, NextCases DEF JobStep
-------------------------------------------------------------------------------
(***************************************************************************)
(* The theorems, for every set of keys and of block sizes, any number of   *)
(* entries, and damage to any one field of the closed file.                *)
(***************************************************************************)
LEMMA InstallInvHolds == InstallSpec => []InstallInv
  <1>1. InstallInit => InstallInv
    BY InitType, InitLayout, InitOrder, InitFlat, InitWriter, InitFooter, InitGet, InitDir
    DEF InstallInv
  <1>2. InstallInv /\ [InstallNext]_installVars => InstallInv'
    <2> SUFFICES ASSUME InstallInv, [InstallNext]_installVars PROVE InstallInv'
      OBVIOUS
    <2>1. TypeOK /\ InvLayout /\ InvOrder /\ InvFlat /\ InvWriter /\ InvFooter /\ InvGet /\ InvDir
      BY DEF InstallInv
    <2>2. TypeOK'
      BY <2>1, TypeStep
    <2> QED  BY <2>1, <2>2, LayoutStep, OrderStep, FlatStep, WriterStep, FooterStep, GetStep, DirStep
             DEF InstallInv
  <1> QED  BY <1>1, <1>2, PTL DEF InstallSpec

\* The variables of the file, its writer and its reader keep their shape.
THEOREM TypeOKHolds == InstallSpec => []TypeOK
  BY InstallInvHolds, PTL DEF InstallInv

\* get answers with exactly the entry that was added, or finds the damage; index and
\* filter have no checksum.
THEOREM GetExactHolds == InstallSpec => []GetExact
  BY InstallInvHolds, PTL DEF InstallInv, InvGet

\* Whatever was damaged, an entry that get returns was added for that key.
THEOREM HitGenuineHolds == InstallSpec => []HitGenuine
  BY InstallInvHolds, PTL DEF InstallInv, InvGet

\* A finished file opens; open refuses one with another footer field, filter header or key
\* length than was written, and no other.
THEOREM SoundOpensHolds == InstallSpec => []SoundOpens
  BY InstallInvHolds, PTL DEF InstallInv, InvFooter

\* Reading the file along its index gives back what was added.
THEOREM DecodesToAddedHolds == InstallSpec => []DecodesToAdded
  <1>1. InstallInv => DecodesToAdded
    BY DecodedIsAdded DEF InstallInv, DecodesToAdded, Ended
  <1> QED  BY <1>1, InstallInvHolds, PTL

\* The footer describes the file, with the greatest number from which open goes on.
THEOREM FooterExactHolds == InstallSpec => []FooterExact
  <1>1. InstallInv => FooterExact
    <2> SUFFICES ASSUME InstallInv, phase \in {"closed", "open"}, Undamaged
                 PROVE  LET f == footer.body IN
                        /\ f.entries = Len(added) /\ f.blocks = Len(blocks)
                        /\ added # <<>> => f.max \in {r.seq : r \in Elems(added)}
                        /\ \A r \in Elems(added) : r.seq \in f.min..f.max
                        /\ \A e \in Elems(index) : e.off + e.len <= f.indexOff
      BY DEF FooterExact
    <2>1. TypeOK /\ InvLayout /\ InvWriter /\ InvFooter /\ damaged = "none"
      BY DEF InstallInv, Undamaged
    <2>2. footer.body = Footer(offset, Len(index))
      BY <2>1 DEF InvFooter, Ended
    <2>3. /\ footer.body.entries = count /\ footer.body.blocks = Len(index)
          /\ footer.body.max = maxSeq /\ footer.body.min = minSeq /\ footer.body.indexOff = offset
      BY <2>2 DEF Footer
    <2>4. ASSUME NEW e \in Elems(index) PROVE e.off + e.len <= offset
      <3>1. PICK i \in BlockIds : e = index[i]
        BY <2>1 DEF Elems, BlockIds, InvLayout
      <3>2. e.off = blocks[i].off /\ e.len = BlockHeaderSize + LenOf(Orig(i))
        BY <2>1, <3>1, IndexEntry
      <3>3. /\ End(i) = blocks[i].off + 16 + LenOf(Orig(i)) /\ LenOf(Orig(i)) \in Nat
            /\ blocks[i].off \in Nat
        BY <2>1, BlockFacts DEF Blocks
      <3>4. End(i) <= offset
        BY <2>1 DEF InvLayout
      <3> QED  BY <3>2, <3>3, <3>4 DEF BlockHeaderSize
    <2> QED  BY <2>1, <2>3, <2>4 DEF InvWriter, InvLayout
  <1> QED  BY <1>1, InstallInvHolds, PTL

\* Entry i of the index points at block i and names its first key, and no key of an
\* earlier block reaches the first key of a later one.
THEOREM IndexOrderedHolds == InstallSpec => []IndexOrdered
  <1>1. InstallInv => IndexOrdered
    <2> SUFFICES ASSUME InstallInv, Undamaged PROVE IndexOrdered
      BY DEF IndexOrdered
    <2>1. TypeOK /\ InvLayout /\ InvOrder /\ damaged = "none"
      BY DEF InstallInv, Undamaged
    <2>2. Len(index) = Len(blocks) /\ 1..Len(index) = BlockIds
      BY <2>1 DEF InvLayout, BlockIds
    <2>3. ASSUME NEW i \in BlockIds
          PROVE  /\ index[i].off = blocks[i].off /\ blocks[i].recs = Orig(i)
                 /\ blocks[i].recs # <<>> /\ index[i].first = blocks[i].recs[1].key
                 /\ index[i].off + index[i].len = End(i)
      <3>1. blocks[i].recs = Orig(i) /\ Orig(i) # <<>>
        BY <2>1 DEF InvLayout
      <3>2. index[i].off = blocks[i].off /\ index[i].len = BlockHeaderSize + LenOf(Orig(i))
            /\ index[i].first = Orig(i)[1].key
        BY <2>1, IndexEntry
      <3>3. /\ End(i) = blocks[i].off + 16 + LenOf(Orig(i)) /\ LenOf(Orig(i)) \in Nat
            /\ blocks[i].off \in Nat
        BY <2>1, BlockFacts DEF Blocks
      <3> QED  BY <3>1, <3>2, <3>3 DEF BlockHeaderSize
    <2>4. ASSUME NEW i \in BlockIds, NEW j \in BlockIds, i < j
          PROVE  /\ index[i].off + index[i].len <= index[j].off
                 /\ \A r \in Elems(blocks[i].recs) : r.key < index[j].first
      <3>1. End(i) <= blocks[j].off
        BY <2>1, <2>4 DEF InvLayout
      <3>2. \A m \in 1..Len(Orig(i)) : Orig(i)[m].key < index[j].first
        BY <2>1, <2>4, FirstFacts
      <3> QED  BY <2>3, <3>1, <3>2 DEF Elems
    <2> QED  BY <2>2, <2>3, <2>4 DEF IndexOrdered
  <1> QED  BY <1>1, InstallInvHolds, PTL

\* A table has its final name only when it is whole on the device, and wal.flush is gone
\* only when such a table has been opened.
THEOREM PublishedIsWholeHolds == InstallSpec => []PublishedIsWhole
  <1>1. InstallInv => PublishedIsWhole
    BY DEF InstallInv, InvDir, PublishedIsWhole
  <1> QED  BY <1>1, InstallInvHolds, PTL
===============================================================================
