------------------------------- MODULE WalProofs -------------------------------
(***************************************************************************)
(* Proofs about Wal: what replay computes from frames that lie one behind  *)
(* the other, the inductive invariant WalInv, and from both that no        *)
(* acknowledged record is lost and that the pages implement RecordLog.     *)
(***************************************************************************)
EXTENDS WalInv, NaturalsInduction, WellFoundedInduction, SequenceTheorems, TLAPS

(***************************************************************************)
(* Numbers.                                                                *)
(***************************************************************************)
\* A set that has 0 and every successor of its members has every number.
LEMMA AllNumbers ==
    ASSUME NEW S, 0 \in S, \A n \in Nat : n \in S => n + 1 \in S
    PROVE  Nat \subseteq S
  <1> DEFINE R == OpToRel(<, Nat)
             T == Nat \ S
  <1> SUFFICES ASSUME T # {} PROVE FALSE
    OBVIOUS
  <1>1. IsWellFoundedOn(R, Nat)
    BY NatLessThanWellFounded
  <1>2. PICK x \in T : \A y \in T : ~ (<<y, x>> \in R)
    <2>1. T \subseteq Nat
      OBVIOUS
    <2> HIDE DEF R, T
    <2> QED  BY <1>1, <2>1, WFMin
  <1>3. x \in Nat /\ x \notin S /\ x # 0
    OBVIOUS
  <1>4. x - 1 \in T
    <2>1. x - 1 \in Nat /\ (x - 1 \in S => (x - 1) + 1 \in S) /\ (x - 1) + 1 = x
      BY <1>3
    <2> HIDE DEF R
    <2> QED  BY <1>3, <2>1
  <1>5. <<x - 1, x>> \in R
    BY <1>3 DEF OpToRel
  <1> QED  BY <1>2, <1>4, <1>5

\* Whole pages.
LEMMA Quotient ==
    ASSUME NEW n \in Nat, NEW d \in Nat \ {0}
    PROVE  (n * d) \div d = n /\ (n * d) % d = 0
  OBVIOUS

LEMMA Times ==
    ASSUME NEW a \in Nat, NEW b \in Nat, NEW d \in Nat, a <= b
    PROVE  a * d <= b * d /\ a * d \in Nat
  OBVIOUS

\* A frame has at least one page, and whole pages.
LEMMA PagesFacts ==
    ASSUME NEW r \in Records
    PROVE  Pages(r) \in Nat \ {0} /\ Framed(r) = Pages(r) * PageSize /\ Framed(r) \in Nat
  <1> DEFINE n == 8 + PayloadSize(r)
             q == (n + PageSize - 1) \div PageSize
  <1>1. PageSize \in Nat \ {0} /\ DataLen[r] \in Nat
    BY WalAssumption
  <1>2. n \in Nat \ {0}
    BY <1>1 DEF PayloadSize
  <1>3. Framed(r) = q * PageSize
    BY <1>2 DEF Framed, AlignUp
  <1> HIDE DEF n
  <1>4. q \in Nat /\ q # 0
    <2>1. n + PageSize - 1 \in Nat /\ n + PageSize - 1 >= PageSize
      BY <1>1, <1>2
    <2> QED  BY <1>1, <2>1
  <1> HIDE DEF q
  <1> QED  BY <1>1, <1>3, <1>4, Quotient, Times DEF Pages

LEMMA OffsetFacts ==
    ASSUME NEW e \in Nat
    PROVE  /\ OffsetOf(e) \in Nat /\ PageAt(OffsetOf(e)) = e /\ OffsetOf(e) % PageSize = 0
           /\ OffsetOf(0) = PageSize
           /\ \A n \in Nat : OffsetOf(e) + n * PageSize = OffsetOf(e + n)
  <1>1. PageSize \in Nat \ {0} /\ e + 1 \in Nat
    BY WalAssumption
  <1>2. \A n \in Nat : (e + 1) * PageSize + n * PageSize = (e + n + 1) * PageSize
    BY <1>1
  <1> QED  BY <1>1, <1>2, Quotient, Times DEF OffsetOf, PageAt
-------------------------------------------------------------------------------
(***************************************************************************)
(* Reading one frame.                                                      *)
(***************************************************************************)
\* A buffer is a sequence of pages.
Buffer(b) == Len(b) \in Nat /\ DOMAIN b = 1..Len(b)

LEMMA AllocFacts == ASSUME NEW n \in Nat PROVE Buffer(Alloc(n)) /\ Len(Alloc(n)) = n
  BY DEF Alloc, Buffer

\* Making room keeps what is asked for,
LEMMA EnsureFacts ==
    ASSUME NEW b, Buffer(b), NEW n \in Nat, NEW keep \in Nat, keep <= Len(b)
    PROVE  /\ Buffer(Ensure(b, n, keep)) /\ Len(Ensure(b, n, keep)) >= n
           /\ Len(Ensure(b, n, keep)) >= Len(b)
           /\ \A j \in 1..keep : Ensure(b, n, keep)[j] = b[j]
  <1>1. CASE Len(b) >= n
    BY <1>1 DEF Ensure, Buffer
  <1>2. CASE ~(Len(b) >= n)
    <2>1. Ensure(b, n, keep) = [j \in 1..n |-> IF j <= keep THEN b[j] ELSE Zero]
      BY <1>2 DEF Ensure
    <2>2. Len(Ensure(b, n, keep)) = n /\ DOMAIN Ensure(b, n, keep) = 1..n
      BY <2>1
    <2> QED  BY <1>2, <2>1, <2>2 DEF Buffer
  <1> QED  BY <1>1, <1>2

\* and a read fills the pages it is for.
LEMMA ReadIntoFacts ==
    ASSUME NEW b, Buffer(b), NEW file, NEW i, NEW js
    PROVE  /\ Buffer(ReadInto(b, file, i, js)) /\ Len(ReadInto(b, file, i, js)) = Len(b)
           /\ \A j \in 1..Len(b) :
                 ReadInto(b, file, i, js)[j] = IF j \in js THEN file[i + j] ELSE b[j]
  BY DEF ReadInto, Buffer

\* read_one has the pages of the frame in its buffer, whatever the buffer held before.
LEMMA LoadedFacts ==
    ASSUME NEW c \in Nat, NEW file, NEW i \in Nat, Claimed(file, i) \in Nat \ {0}
    PROVE  /\ Len(Loaded(Alloc(c), file, i)) \in Nat
           /\ \A j \in 1..Claimed(file, i) : Loaded(Alloc(c), file, i)[j] = file[i + j]
  <1> DEFINE n == Claimed(file, i)
             b == Ensure(Alloc(c), 1, 0)
             head == ReadInto(b, file, i, {1})
             room == Ensure(head, n, 1)
             rest == ReadInto(room, file, i, 2..n)
  <1>1. Buffer(b) /\ Len(b) >= 1
    BY AllocFacts, EnsureFacts
  <1>2. Buffer(head) /\ Len(head) >= 1 /\ head[1] = file[i + 1]
    <2> HIDE DEF b
    <2>1. 1 \in 1..Len(b)
      BY <1>1 DEF Buffer
    <2> QED  BY <1>1, <2>1, ReadIntoFacts
  <1>3. Buffer(room) /\ Len(room) >= n /\ room[1] = head[1]
    <2> HIDE DEF head, n
    <2> QED  BY <1>2, EnsureFacts DEF n
  <1>4. Buffer(rest) /\ \A j \in 1..n : rest[j] = IF j \in 2..n THEN file[i + j] ELSE room[j]
    <2> HIDE DEF room
    <2>1. \A j \in 1..n : j \in 1..Len(room)
      BY <1>3 DEF Buffer
    <2>2. /\ Buffer(rest)
          /\ \A j \in 1..Len(room) : rest[j] = IF j \in 2..n THEN file[i + j] ELSE room[j]
      BY <1>3, ReadIntoFacts
    <2> QED  BY <2>1, <2>2
  <1>5. Loaded(Alloc(c), file, i) = IF n > 1 THEN rest ELSE head
    BY DEF Loaded
  <1> HIDE DEF head, rest, room, n
  <1>6. n \in Nat \ {0}
    BY DEF n
  <1>7. \A j \in 1..n : j = 1 \/ j \in 2..n
    BY <1>6
  <1> QED  BY <1>2, <1>3, <1>4, <1>5, <1>6, <1>7 DEF n, Buffer

\* What makes read_one return a record, the buffer left out.
IsFrame(file, i, end) ==
    /\ i + 1 <= end /\ Claimed(file, i) # 0 /\ Claimed(file, i) * PageSize <= MaxRecordBytes
    /\ i + Claimed(file, i) <= end
    /\ \A j \in 1..Claimed(file, i) : file[i + j] = [rec |-> file[i + 1].rec, part |-> j - 1]

\* A page claims a number of pages.
LEMMA ClaimedType ==
    ASSUME NEW file \in Seq(AllPages), NEW i \in Nat, i + 1 <= Len(file)
    PROVE  Claimed(file, i) \in Nat
  <1>1. file[i + 1] \in AllPages
    OBVIOUS
  <1>2. file[i + 1] # Zero => file[i + 1].rec \in Records
    BY <1>1 DEF AllPages
  <1> QED  BY <1>2, PagesFacts, WalAssumption DEF Claimed

LEMMA ReadOneFacts ==
    ASSUME NEW file \in Seq(AllPages), NEW end \in Nat, end <= Len(file), NEW i \in Nat,
           NEW c \in Nat
    PROVE  (ReadOne(file, i, end, Alloc(c)) = "record") <=> IsFrame(file, i, end)
  <1> DEFINE n == Claimed(file, i)
             b == Loaded(Alloc(c), file, i)
  <1>1. CASE i + 1 > end
    BY <1>1 DEF ReadOne, IsFrame
  <1>2. CASE i + 1 <= end /\ n = 0
    BY <1>2 DEF ReadOne, IsFrame
  <1>3. CASE i + 1 <= end /\ n # 0
    <2>1. n \in Nat \ {0} /\ PageSize \in Nat \ {0} /\ MaxRecordBytes \in Nat
      BY <1>3, ClaimedType, WalAssumption
    <2>2. \A j \in 1..n : b[j] = file[i + j]
      BY <2>1, LoadedFacts
    <2> HIDE DEF b, n
    <2>3. 1 \in 1..n
      BY <2>1
    <2>4. ChecksumOk(b, n) <=> \A j \in 1..n : file[i + j] = [rec |-> file[i + 1].rec, part |-> j - 1]
      BY <2>2, <2>3 DEF ChecksumOk
    <2>5. n * PageSize > MaxRecordBytes <=> ~(n * PageSize <= MaxRecordBytes)
      BY <2>1
    <2> QED  BY <1>3, <2>1, <2>4, <2>5 DEF ReadOne, IsFrame, n, b
  <1>4. i + 1 <= end => n \in Nat
    BY ClaimedType
  <1> QED  BY <1>1, <1>2, <1>3, <1>4
-------------------------------------------------------------------------------
(***************************************************************************)
(* What replay computes.                                                   *)
(***************************************************************************)
\* Where a replay stands: at a page, with a buffer of some size.
Places(n, end) == [page : n..end, cap : Nat]
After(file, at) == [page |-> at.page + Claimed(file, at.page),
                    cap |-> Len(Loaded(Alloc(at.cap), file, at.page))]
\* The records from there on, if `f` says what they are from the later pages on.
Rest(f, file, end, at) ==
    IF ReadOne(file, at.page, end, Alloc(at.cap)) # "record" THEN <<>>
    ELSE <<file[at.page + 1].rec>> \o f[After(file, at)]
Replays(f, file, end, n) == f = [at \in Places(n, end) |-> Rest(f, file, end, at)]

\* A record ends behind where it begins.
LEMMA AfterIsLater ==
    ASSUME NEW file \in Seq(AllPages), NEW end \in Nat, end <= Len(file), NEW n \in Nat,
           NEW at \in Places(n, end), ReadOne(file, at.page, end, Alloc(at.cap)) = "record"
    PROVE  After(file, at) \in Places(n + 1, end)
  <1>1. at.page \in Nat /\ at.page >= n /\ at.cap \in Nat
    BY DEF Places
  <1>2. IsFrame(file, at.page, end)
    BY <1>1, ReadOneFacts
  <1>3. Claimed(file, at.page) \in Nat \ {0}
    BY <1>1, <1>2, ClaimedType DEF IsFrame
  <1>4. Len(Loaded(Alloc(at.cap), file, at.page)) \in Nat
    BY <1>1, <1>3, LoadedFacts
  <1>5. at.page + Claimed(file, at.page) \in n + 1..end
    BY <1>1, <1>2, <1>3 DEF IsFrame
  <1> QED  BY <1>4, <1>5 DEF After, Places

\* So the recursion of ReplayFrom is well-founded.
LEMMA ReplayExists ==
    ASSUME NEW file \in Seq(AllPages), NEW end \in Nat, end <= Len(file)
    PROVE  \E f : Replays(f, file, end, 0)
  <1> DEFINE S == {m \in Nat : m <= end + 1 => \E f : Replays(f, file, end, end + 1 - m)}
  <1>1. 0 \in S
    <2> DEFINE f == [at \in Places(end + 1, end) |-> <<>>]
    <2>1. Places(end + 1, end) = {}
      BY DEF Places
    <2>2. Replays(f, file, end, end + 1)
      BY <2>1 DEF Replays
    <2> QED  BY <2>2
  <1>2. ASSUME NEW m \in Nat, m \in S PROVE m + 1 \in S
    <2> SUFFICES ASSUME m + 1 <= end + 1 PROVE \E f : Replays(f, file, end, end + 1 - (m + 1))
      OBVIOUS
    <2> DEFINE n == end + 1 - m
    <2>1. n \in Nat /\ n - 1 \in Nat /\ (n - 1) + 1 = n /\ end + 1 - (m + 1) = n - 1
      OBVIOUS
    <2>2. PICK g : Replays(g, file, end, n)
      BY <1>2
    <2> HIDE DEF n
    <2> DEFINE h == [at \in Places(n - 1, end) |->
                        IF at.page = n - 1 THEN Rest(g, file, end, at) ELSE g[at]]
    <2>3. Places(n, end) \subseteq Places(n - 1, end)
          /\ \A at \in Places(n, end) : at.page # n - 1
      BY <2>1 DEF Places
    <2>4. \A at \in Places(n, end) : h[at] = g[at] /\ g[at] = Rest(g, file, end, at)
      BY <2>2, <2>3 DEF Replays
    <2>5. \A at \in Places(n - 1, end) : Rest(h, file, end, at) = Rest(g, file, end, at)
      <3> HIDE DEF h
      <3> QED  BY <2>1, <2>4, AfterIsLater DEF Rest
    <2>6. \A at \in Places(n - 1, end) : h[at] = Rest(h, file, end, at)
      <3>1. \A at \in Places(n - 1, end) : at.page = n - 1 \/ at \in Places(n, end)
        BY <2>1 DEF Places
      <3> QED  BY <2>4, <2>5, <3>1
    <2>7. h = [at \in Places(n - 1, end) |-> h[at]]
      OBVIOUS
    <2>8. Replays(h, file, end, n - 1)
      <3> HIDE DEF h
      <3> QED  BY <2>6, <2>7 DEF Replays
    <2> QED  BY <2>1, <2>8
  <1>3. end + 1 \in S
    <2> HIDE DEF S
    <2> QED  BY <1>1, <1>2, AllNumbers
  <1> QED  BY <1>3

LEMMA ReplayUnfolds ==
    ASSUME NEW file \in Seq(AllPages), NEW end \in Nat, end <= Len(file)
    PROVE  \E f : Replays(f, file, end, 0) /\ ReplayFrom(file, end) = f[[page |-> 0, cap |-> 1]]
  <1> DEFINE f == CHOOSE g : Replays(g, file, end, 0)
  <1>1. Replays(f, file, end, 0)
    BY ReplayExists
  <1>2. ReplayFrom(file, end) = f[[page |-> 0, cap |-> 1]]
    BY DEF ReplayFrom, Replays, Rest, After, Places
  <1> QED  BY <1>1, <1>2

\* A frame is read as what it is,
LEMMA FrameIsRead ==
    ASSUME NEW file, NEW end \in Nat, end <= Len(file), NEW i \in Nat, NEW r \in Records,
           FrameAt(file, r, i), i + Pages(r) <= end
    PROVE  /\ IsFrame(file, i, end) /\ Claimed(file, i) = Pages(r) /\ file[i + 1].rec = r
  <1>1. Pages(r) \in Nat \ {0} /\ Framed(r) = Pages(r) * PageSize
    BY PagesFacts
  <1>2. \A j \in 0..Pages(r) - 1 : file[i + j + 1] = [rec |-> r, part |-> j]
    BY DEF FrameAt
  <1>3. file[i + 1] = [rec |-> r, part |-> 0]
    <2>1. 0 \in 0..Pages(r) - 1 /\ i + 0 + 1 = i + 1
      BY <1>1
    <2> QED  BY <1>2, <2>1
  <1>4. Claimed(file, i) = Pages(r) /\ file[i + 1].rec = r
    <2>1. r # None
      BY WalAssumption
    <2> QED  BY <1>3, <2>1 DEF Claimed, Zero
  <1>5. \A j \in 1..Pages(r) : file[i + j] = [rec |-> r, part |-> j - 1]
    <2> SUFFICES ASSUME NEW j \in 1..Pages(r) PROVE file[i + j] = [rec |-> r, part |-> j - 1]
      OBVIOUS
    <2>1. j - 1 \in 0..Pages(r) - 1 /\ i + (j - 1) + 1 = i + j
      BY <1>1
    <2> QED  BY <1>2, <2>1
  <1>6. Pages(r) * PageSize <= MaxRecordBytes /\ i + 1 <= end
    BY <1>1 DEF FrameAt
  <1> QED  BY <1>1, <1>4, <1>5, <1>6 DEF IsFrame

\* and what is read is a frame.
LEMMA ReadIsFrame ==
    ASSUME NEW file \in Seq(AllPages), NEW end \in Nat, end <= Len(file), NEW i \in Nat,
           IsFrame(file, i, end)
    PROVE  \E r \in Records : /\ r = file[i + 1].rec /\ Claimed(file, i) = Pages(r)
                              /\ FrameAt(file, r, i) /\ i + Pages(r) <= end
  <1> DEFINE r == file[i + 1].rec
  <1>1. Claimed(file, i) \in Nat \ {0} /\ file[i + 1] \in AllPages
    BY ClaimedType DEF IsFrame
  <1>2. file[i + 1] = [rec |-> r, part |-> 0]
    <2>1. 1 \in 1..Claimed(file, i)
      BY <1>1
    <2> QED  BY <2>1 DEF IsFrame
  <1>3. file[i + 1] # Zero /\ r \in Records
    BY <1>1 DEF Claimed, AllPages
  <1>4. Claimed(file, i) = Pages(r)
    BY <1>2, <1>3 DEF Claimed
  <1> HIDE DEF r
  <1>5. Pages(r) \in Nat \ {0} /\ Framed(r) <= MaxRecordBytes /\ i + Pages(r) <= end
    BY <1>3, <1>4, PagesFacts DEF IsFrame
  <1>6. \A j \in 0..Pages(r) - 1 : file[i + j + 1] = [rec |-> r, part |-> j]
    <2> SUFFICES ASSUME NEW j \in 0..Pages(r) - 1 PROVE file[i + j + 1] = [rec |-> r, part |-> j]
      OBVIOUS
    <2>1. j + 1 \in 1..Claimed(file, i) /\ i + (j + 1) = i + j + 1 /\ (j + 1) - 1 = j
      BY <1>4, <1>5
    <2>2. file[i + (j + 1)] = [rec |-> r, part |-> (j + 1) - 1]
      BY <2>1 DEF IsFrame, r
    <2> QED  BY <2>1, <2>2
  <1>7. FrameAt(file, r, i)
    <2>1. i + Pages(r) <= Len(file)
      BY <1>5
    <2> QED  BY <1>5, <1>6, <2>1 DEF FrameAt
  <1> QED  BY <1>3, <1>4, <1>5, <1>7 DEF r

\* Frames that lie one behind the other, and no frame behind them, replay as their records.
LEMMA ReplayOfFrames ==
    ASSUME NEW file \in Seq(AllPages), NEW end \in Nat, end <= Len(file), NEW log \in Seq(Records),
           NEW p \in [1..Len(log) + 1 -> 0..Len(file)], LaidOut(file, log, p),
           End(log, p) <= end, ~IsFrame(file, End(log, p), end)
    PROVE  ReplayFrom(file, end) = log
  <1> DEFINE l == Len(log)
  <1>1. PICK f : Replays(f, file, end, 0) /\ ReplayFrom(file, end) = f[[page |-> 0, cap |-> 1]]
    BY ReplayUnfolds
  <1>2. \A at \in Places(0, end) : f[at] = Rest(f, file, end, at)
    BY <1>1 DEF Replays
  <1> DEFINE Reads(n) == /\ p[n] <= end
                         /\ \A c \in Nat : f[[page |-> p[n], cap |-> c]] = SubSeq(log, n, l)
             S == {m \in Nat : m <= l => Reads(l + 1 - m)}
  <1>3. l \in Nat /\ Len(file) \in Nat /\ \A n \in 1..l + 1 : p[n] \in Nat
    OBVIOUS
  <1>4. \A n \in 1..l + 1, c \in Nat : p[n] <= end => [page |-> p[n], cap |-> c] \in Places(0, end)
    BY <1>3 DEF Places
  <1>5. 0 \in S
    <2>1. SubSeq(log, l + 1, l) = <<>>
      BY <1>3, SubSeqEmpty
    <2>2. p[l + 1] = End(log, p) /\ l + 1 \in 1..l + 1
      BY <1>3 DEF End
    <2>3. \A c \in Nat : f[[page |-> p[l + 1], cap |-> c]] = <<>>
      <3> SUFFICES ASSUME NEW c \in Nat PROVE f[[page |-> p[l + 1], cap |-> c]] = <<>>
        OBVIOUS
      <3>1. ReadOne(file, p[l + 1], end, Alloc(c)) # "record"
        BY <1>3, <2>2, ReadOneFacts
      <3> QED  BY <1>2, <1>4, <2>2, <3>1 DEF Rest
    <2>4. Reads(l + 1)
      BY <2>1, <2>2, <2>3
    <2> HIDE DEF Reads
    <2> QED  BY <1>3, <2>4
  <1>6. ASSUME NEW m \in Nat, m \in S, m + 1 <= l PROVE Reads(l + 1 - (m + 1))
    <2> DEFINE n == l - m
    <2>1. n \in 1..l /\ n + 1 \in 1..l + 1 /\ n \in 1..l + 1 /\ l + 1 - m = n + 1
          /\ l + 1 - (m + 1) = n
      BY <1>3, <1>6
    <2>2. Reads(n + 1)
      <3> HIDE DEF Reads, n
      <3> QED  BY <1>3, <1>6, <2>1
    <2> HIDE DEF n
    <2>3. FrameAt(file, log[n], p[n]) /\ p[n + 1] = p[n] + Pages(log[n]) /\ log[n] \in Records
      BY <2>1, ElementOfSeq DEF LaidOut
    <2>4. p[n] + Pages(log[n]) <= end /\ p[n] \in Nat /\ Pages(log[n]) \in Nat
      BY <1>3, <2>1, <2>2, <2>3, PagesFacts
    <2>5. /\ IsFrame(file, p[n], end) /\ Claimed(file, p[n]) = Pages(log[n])
          /\ file[p[n] + 1].rec = log[n]
      BY <2>3, <2>4, FrameIsRead
    <2>6. ASSUME NEW c \in Nat PROVE f[[page |-> p[n], cap |-> c]] = SubSeq(log, n, l)
      <3> DEFINE at == [page |-> p[n], cap |-> c]
      <3>1. at \in Places(0, end) /\ at.page = p[n] /\ at.cap = c
        BY <1>4, <2>1, <2>4
      <3>2. ReadOne(file, at.page, end, Alloc(at.cap)) = "record"
        BY <2>4, <2>5, <3>1, ReadOneFacts
      <3>3. After(file, at) \in Places(1, end)
        <4> HIDE DEF at
        <4> QED  BY <3>1, <3>2, AfterIsLater
      <3>4. After(file, at).cap \in Nat /\ After(file, at).page = p[n + 1]
        BY <2>3, <2>5, <3>1, <3>3 DEF After, Places
      <3>5. After(file, at) = [page |-> p[n + 1], cap |-> After(file, at).cap]
        BY <3>4 DEF After
      <3>6. f[After(file, at)] = SubSeq(log, n + 1, l)
        BY <2>2, <3>4, <3>5
      <3>7. f[at] = <<log[n]>> \o SubSeq(log, n + 1, l)
        <4> HIDE DEF at
        <4> QED  BY <1>2, <2>5, <3>1, <3>2, <3>6 DEF Rest
      <3>8. SubSeq(log, n, l) = <<log[n]>> \o SubSeq(log, n + 1, l)
        <4>1. l \in n..Len(log)
          BY <1>3, <2>1
        <4> QED  BY <2>1, <4>1, SubSeqRecursiveFirst
      <3> QED  BY <3>7, <3>8
    <2>7. p[n] <= end
      BY <2>4
    <2> QED  BY <2>1, <2>6, <2>7
  <1>7. l \in S
    <2> HIDE DEF Reads
    <2>1. \A m \in Nat : m \in S => m + 1 \in S
      BY <1>6
    <2> HIDE DEF S
    <2> QED  BY <1>3, <1>5, <2>1, AllNumbers
  <1>8. Reads(1)
    <2> HIDE DEF Reads
    <2>1. l + 1 - l = 1
      BY <1>3
    <2> QED  BY <1>3, <1>7, <2>1
  <1>9. f[[page |-> p[1], cap |-> 1]] = SubSeq(log, 1, l) /\ p[1] = 0
    <2>1. 1 \in Nat
      OBVIOUS
    <2> HIDE DEF l
    <2> QED  BY <1>8, <2>1 DEF LaidOut
  <1>10. SubSeq(log, 1, l) = log
    BY SubSeqFull
  <1> HIDE DEF l
  <1> QED  BY <1>1, <1>9, <1>10

\* One more frame behind them.
LEMMA LayOneMore ==
    ASSUME NEW file \in Seq(AllPages), NEW log \in Seq(Records),
           NEW p \in [1..Len(log) + 1 -> 0..Len(file)], LaidOut(file, log, p),
           NEW r \in Records, FrameAt(file, r, End(log, p))
    PROVE  \E q \in [1..Len(Append(log, r)) + 1 -> 0..Len(file)] :
              /\ LaidOut(file, Append(log, r), q)
              /\ End(Append(log, r), q) = End(log, p) + Pages(r)
  <1> DEFINE l == Len(log)
             e == End(log, p)
             more == Append(log, r)
             q == [n \in 1..l + 2 |-> IF n = l + 2 THEN e + Pages(r) ELSE p[n]]
  <1>1. l \in Nat /\ Len(more) = l + 1 /\ \A n \in 1..l : more[n] = log[n]
    BY AppendProperties
  <1>2. more[l + 1] = r
    BY AppendProperties
  <1>3. e \in Nat /\ e = p[l + 1] /\ Pages(r) \in Nat /\ e + Pages(r) \in 0..Len(file)
    <2>1. l + 1 \in 1..l + 1
      BY <1>1
    <2>2. e = p[l + 1] /\ e \in 0..Len(file)
      BY <2>1 DEF End
    <2> QED  BY <2>2, PagesFacts DEF FrameAt
  <1> HIDE DEF e
  <1>4. q \in [1..Len(more) + 1 -> 0..Len(file)]
    BY <1>1, <1>3
  <1>5. /\ q[l + 2] = e + Pages(r) /\ q[l + 1] = e /\ q[1] = p[1]
        /\ \A n \in 1..l : q[n] = p[n] /\ q[n + 1] = p[n + 1]
    BY <1>1, <1>3
  <1>6. End(more, q) = e + Pages(r)
    BY <1>1, <1>5 DEF End
  <1> HIDE DEF q, more
  <1>7. \A n \in 1..Len(more) : FrameAt(file, more[n], q[n]) /\ q[n + 1] = q[n] + Pages(more[n])
    <2> SUFFICES ASSUME NEW n \in 1..l + 1
                 PROVE  FrameAt(file, more[n], q[n]) /\ q[n + 1] = q[n] + Pages(more[n])
      BY <1>1
    <2>1. CASE n = l + 1
      <3>1. n + 1 = l + 2 /\ more[n] = r /\ q[n] = e
        BY <1>1, <1>2, <1>5, <2>1
      <3> QED  BY <1>5, <3>1 DEF e
    <2>2. CASE n \in 1..l
      BY <1>1, <1>5, <2>2 DEF LaidOut
    <2> QED  BY <1>1, <2>1, <2>2
  <1>8. LaidOut(file, more, q)
    BY <1>5, <1>7 DEF LaidOut
  <1> QED  BY <1>4, <1>6, <1>8 DEF e, more

\* Behind a frame at the end of the others there is none: only remains of older ones,
LEMMA BehindIsNone ==
    ASSUME NEW file \in Seq(AllPages), NEW e \in Nat, Remains(file, e),
           NEW r \in Records, FrameAt(file, r, e)
    PROVE  Remains(file, e + Pages(r)) /\ ~IsFrame(file, e + Pages(r), Len(file))
  <1> DEFINE n == e + Pages(r)
  <1>1. Pages(r) \in Nat \ {0} /\ n \in Nat /\ n > e /\ Len(file) \in Nat
    BY PagesFacts
  <1>2. \A i \in e..Len(file) - 1 :
           \/ file[i + 1] = Zero
           \/ file[i + 1].rec \in Records /\ file[i + 1].part \in Nat /\ i <= e + file[i + 1].part
    <2> SUFFICES ASSUME NEW i \in e..Len(file) - 1, file[i + 1] # Zero
                 PROVE  /\ file[i + 1].rec \in Records /\ file[i + 1].part \in Nat
                        /\ i <= e + file[i + 1].part
      OBVIOUS
    <2>1. file[i + 1] \in AllPages
      BY <1>1
    <2>2. i <= e + file[i + 1].part
      BY DEF Remains
    <2> QED  BY <2>1, <2>2 DEF AllPages
  <1> HIDE DEF n
  <1>3. Remains(file, n)
    <2> SUFFICES ASSUME NEW i \in n..Len(file) - 1, file[i + 1] # Zero
                 PROVE  i <= n + file[i + 1].part
      BY DEF Remains
    <2>1. i \in e..Len(file) - 1
      BY <1>1
    <2>2. file[i + 1].part \in Nat /\ i <= e + file[i + 1].part
      BY <1>2, <2>1
    <2> QED  BY <1>1, <2>2
  <1>4. ~IsFrame(file, n, Len(file))
    <2> SUFFICES ASSUME IsFrame(file, n, Len(file)) PROVE FALSE
      OBVIOUS
    <2>1. PICK s \in Records : FrameAt(file, s, n)
      BY <1>1, ReadIsFrame
    <2>2. Pages(s) \in Nat \ {0}
      BY PagesFacts
    <2>3. 0 \in 0..Pages(s) - 1 /\ n + 0 + 1 = n + 1
      BY <1>1, <2>2
    <2>4. file[n + 1] = [rec |-> s, part |-> 0] /\ n + Pages(s) <= Len(file)
      BY <2>1, <2>3 DEF FrameAt
    <2>5. n \in e..Len(file) - 1
      BY <1>1, <2>2, <2>4
    <2>6. file[n + 1] # Zero
      BY <2>4, WalAssumption DEF Zero
    <2>7. n <= e + 0
      BY <1>2, <2>4, <2>5, <2>6
    <2> QED  BY <1>1, <2>7
  <1> QED  BY <1>3, <1>4 DEF n

\* so that the whole file is read as the frames laid out and at most one more.
LEMMA FileLogFacts ==
    ASSUME NEW file \in Seq(AllPages), NEW log \in Seq(Records),
           NEW p \in [1..Len(log) + 1 -> 0..Len(file)], LaidOut(file, log, p),
           Remains(file, End(log, p))
    PROVE  /\ ~IsFrame(file, End(log, p), Len(file)) => ReplayFrom(file, Len(file)) = log
           /\ \A r \in Records : FrameAt(file, r, End(log, p)) =>
                 ReplayFrom(file, Len(file)) = Append(log, r)
  <1>1. End(log, p) \in 0..Len(file) /\ Len(file) \in Nat /\ Len(log) \in Nat
    <2>1. Len(log) + 1 \in 1..Len(log) + 1
      OBVIOUS
    <2> QED  BY <2>1 DEF End
  <1>2. ASSUME ~IsFrame(file, End(log, p), Len(file)) PROVE ReplayFrom(file, Len(file)) = log
    BY <1>1, <1>2, ReplayOfFrames
  <1>3. ASSUME NEW r \in Records, FrameAt(file, r, End(log, p))
        PROVE  ReplayFrom(file, Len(file)) = Append(log, r)
    <2>1. PICK q \in [1..Len(Append(log, r)) + 1 -> 0..Len(file)] :
             /\ LaidOut(file, Append(log, r), q)
             /\ End(Append(log, r), q) = End(log, p) + Pages(r)
      BY <1>3, LayOneMore
    <2> DEFINE more == Append(log, r)
    <2>2. ~IsFrame(file, End(more, q), Len(file))
      BY <1>1, <1>3, <2>1, BehindIsNone
    <2>3. End(more, q) <= Len(file) /\ more \in Seq(Records)
      BY <1>3, <2>1, AppendProperties DEF FrameAt
    <2>4. q \in [1..Len(more) + 1 -> 0..Len(file)] /\ LaidOut(file, more, q)
      BY <2>1
    <2> HIDE DEF more
    <2>5. Len(file) <= Len(file)
      BY <1>1
    <2>6. ReplayFrom(file, Len(file)) = more
      BY <1>1, <2>2, <2>3, <2>4, <2>5, ReplayOfFrames
    <2> QED  BY <2>6 DEF more
  <1> QED  BY <1>2, <1>3

\* The frames ascend: none ends behind where the next one will begin,
LEMMA Ascend ==
    ASSUME NEW file, Len(file) \in Nat, NEW log \in Seq(Records),
           NEW p \in [1..Len(log) + 1 -> 0..Len(file)], LaidOut(file, log, p)
    PROVE  /\ End(log, p) \in 0..Len(file)
           /\ \A n \in 1..Len(log) : p[n] + Pages(log[n]) <= End(log, p)
  <1> DEFINE l == Len(log)
             S == {m \in Nat : m <= l => p[l + 1 - m] <= End(log, p)}
  <1>1. l \in Nat /\ l + 1 \in 1..l + 1 /\ \A n \in 1..l + 1 : p[n] \in 0..Len(file)
    OBVIOUS
  <1>2. 0 \in S /\ End(log, p) \in 0..Len(file)
    BY <1>1 DEF End
  <1>3. ASSUME NEW m \in Nat, m \in S PROVE m + 1 \in S
    <2> SUFFICES ASSUME m + 1 <= l PROVE p[l - m] <= End(log, p)
      BY <1>1
    <2>1. l - m \in 1..l /\ (l - m) + 1 = l + 1 - m /\ l + 1 - m \in 1..l + 1
      BY <1>1
    <2>2. log[l - m] \in Records
      BY <2>1, ElementOfSeq
    <2>3. p[l + 1 - m] = p[l - m] + Pages(log[l - m]) /\ Pages(log[l - m]) \in Nat
      BY <2>1, <2>2, PagesFacts DEF LaidOut
    <2>4. p[l - m] \in Nat /\ p[l + 1 - m] \in Nat
      BY <1>1, <2>1
    <2> QED  BY <1>2, <1>3, <2>3, <2>4
  <1>4. ASSUME NEW n \in 1..l PROVE p[n] + Pages(log[n]) <= End(log, p)
    <2>1. l - n \in Nat /\ l - n <= l /\ l + 1 - (l - n) = n + 1
      BY <1>1
    <2> HIDE DEF S
    <2>2. l - n \in S
      BY <1>2, <1>3, <2>1, AllNumbers
    <2>3. p[n + 1] <= End(log, p)
      BY <2>1, <2>2 DEF S
    <2> QED  BY <2>3 DEF LaidOut
  <1> QED  BY <1>2, <1>4

\* and stay where they are when nothing before it changes.
LEMMA FramesStay ==
    ASSUME NEW file, Len(file) \in Nat, NEW new, Len(new) \in Nat, Len(file) <= Len(new),
           NEW log \in Seq(Records), NEW p \in [1..Len(log) + 1 -> 0..Len(file)],
           LaidOut(file, log, p), \A i \in 1..End(log, p) : new[i] = file[i]
    PROVE  LaidOut(new, log, p) /\ p \in [1..Len(log) + 1 -> 0..Len(new)]
  <1>1. ASSUME NEW n \in 1..Len(log) PROVE FrameAt(new, log[n], p[n])
    <2>1. FrameAt(file, log[n], p[n]) /\ p[n] + Pages(log[n]) <= End(log, p)
      BY Ascend DEF LaidOut
    <2>2. p[n] \in Nat /\ log[n] \in Records /\ End(log, p) \in 0..Len(file)
      BY Ascend, ElementOfSeq
    <2>3. Pages(log[n]) \in Nat
      BY <2>2, PagesFacts
    <2>4. \A j \in 0..Pages(log[n]) - 1 : p[n] + j + 1 \in 1..End(log, p)
      BY <2>1, <2>2, <2>3
    <2>5. p[n] + Pages(log[n]) <= Len(new)
      BY <2>1, <2>2, <2>3
    <2> QED  BY <2>1, <2>4, <2>5 DEF FrameAt
  <1> QED  BY <1>1 DEF LaidOut

\* A page is written inside the file or behind it.
LEMMA PutPageFacts ==
    ASSUME NEW file \in Seq(AllPages), NEW i \in Nat, NEW page \in AllPages
    PROVE  /\ PutPage(file, i, page) \in Seq(AllPages)
           /\ Len(PutPage(file, i, page)) >= Len(file) /\ Len(PutPage(file, i, page)) > i
           /\ PutPage(file, i, page)[i + 1] = page
           /\ \A j \in 1..Len(file) : j # i + 1 => PutPage(file, i, page)[j] = file[j]
           /\ \A j \in 1..Len(PutPage(file, i, page)) :
                 j = i + 1 \/ j <= Len(file) \/ PutPage(file, i, page)[j] = Zero
  <1> DEFINE n == IF i + 1 > Len(file) THEN i + 1 ELSE Len(file)
             g == [j \in 1..n |-> IF j = i + 1 THEN page ELSE IF j <= Len(file) THEN file[j] ELSE Zero]
  <1>1. PutPage(file, i, page) = g
    BY DEF PutPage
  <1>2. n \in Nat /\ n >= Len(file) /\ n > i /\ Len(file) \in Nat
    OBVIOUS
  <1> HIDE DEF n
  <1>3. \A j \in 1..n : g[j] \in AllPages
    BY <1>2 DEF AllPages
  <1>4. g \in Seq(AllPages) /\ Len(g) = n
    BY <1>2, <1>3
  <1> QED  BY <1>1, <1>2, <1>4
-------------------------------------------------------------------------------
(***************************************************************************)
(* The inductive invariant.                                                *)
(***************************************************************************)
LEMMA LayoutFacts ==
    ASSUME TypeOK, NEW p \in [1..Len(acked) + 1 -> 0..Len(pages)], Layout(p)
    PROVE  /\ End(acked, p) \in 0..Len(pages) /\ Len(pages) \in Nat /\ Len(acked) \in Nat
           /\ mode \in {"open", "appending"} =>
                 PageAt(offset) = End(acked, p) /\ offset % PageSize = 0
  <1>1. Len(pages) \in Nat /\ Len(acked) \in Nat /\ acked \in Seq(Records)
    BY DEF TypeOK
  <1>2. End(acked, p) \in 0..Len(pages)
    BY <1>1, Ascend DEF Layout
  <1> QED  BY <1>1, <1>2, OffsetFacts DEF Layout

\* What the scan of open has at hand.
LEMMA ScanFacts ==
    ASSUME TypeOK, InvBlank, NEW p \in [1..Len(acked) + 1 -> 0..Len(pages)], Layout(p),
           mode = "scanning"
    PROVE  /\ PageAt(offset) \in Nat
           /\ \/ /\ found = acked /\ PageAt(offset) = End(acked, p)
              \/ \E n \in 0..Len(acked) - 1 :
                    /\ n = Len(found) /\ found = SubSeq(acked, 1, n) /\ PageAt(offset) = p[n + 1]
                    /\ offset = OffsetOf(p[n + 1])
                    /\ IsFrame(pages, p[n + 1], Len(pages))
                    /\ Claimed(pages, p[n + 1]) = Pages(acked[n + 1])
                    /\ pages[p[n + 1] + 1].rec = acked[n + 1]
              \/ \E r \in Records :
                    /\ found = Append(acked, r) /\ FrameAt(pages, r, End(acked, p))
                    /\ PageAt(offset) = End(acked, p) + Pages(r)
                    /\ ~IsFrame(pages, PageAt(offset), Len(pages))
  <1>1. /\ pages \in Seq(AllPages) /\ acked \in Seq(Records) /\ found \in Seq(Records)
        /\ Len(acked) \in Nat /\ Len(pages) \in Nat /\ Len(found) \in Nat
    BY DEF TypeOK
  <1>2. End(acked, p) \in 0..Len(pages) /\ LaidOut(pages, acked, p) /\ Remains(pages, End(acked, p))
    BY LayoutFacts DEF Layout
  <1>3. CASE /\ Len(found) <= Len(acked) /\ found = SubSeq(acked, 1, Len(found))
             /\ offset = OffsetOf(p[Len(found) + 1])
    <2>1. Len(found) + 1 \in 1..Len(acked) + 1
      BY <1>1, <1>3
    <2>2. p[Len(found) + 1] \in Nat
      BY <2>1
    <2>3. PageAt(offset) = p[Len(found) + 1]
      BY <1>3, <2>2, OffsetFacts
    <2>4. CASE Len(found) = Len(acked)
      <3>1. found = acked
        BY <1>1, <1>3, <2>4, SubSeqFull
      <3> QED  BY <2>2, <2>3, <2>4, <3>1 DEF End
    <2>5. CASE Len(found) # Len(acked)
      <3> DEFINE n == Len(found)
      <3>1. n \in 0..Len(acked) - 1 /\ n + 1 \in 1..Len(acked)
        BY <1>1, <1>3, <2>5
      <3>2. acked[n + 1] \in Records /\ FrameAt(pages, acked[n + 1], p[n + 1])
        BY <1>1, <1>2, <3>1, ElementOfSeq DEF LaidOut
      <3>3. p[n + 1] + Pages(acked[n + 1]) <= Len(pages)
        BY <3>2 DEF FrameAt
      <3>4. /\ IsFrame(pages, p[n + 1], Len(pages))
            /\ Claimed(pages, p[n + 1]) = Pages(acked[n + 1])
            /\ pages[p[n + 1] + 1].rec = acked[n + 1]
        <4> DEFINE r == acked[n + 1]
                   i == p[n + 1]
        <4>1. /\ Len(pages) <= Len(pages) /\ i \in Nat /\ r \in Records /\ FrameAt(pages, r, i)
              /\ i + Pages(r) <= Len(pages)
          BY <1>1, <2>2, <3>2, <3>3
        <4> HIDE DEF i, r
        <4>2. IsFrame(pages, i, Len(pages)) /\ Claimed(pages, i) = Pages(r) /\ pages[i + 1].rec = r
          BY <1>1, <4>1, FrameIsRead
        <4> QED  BY <4>2 DEF i, r
      <3> QED  BY <1>3, <2>2, <2>3, <3>1, <3>4
    <2> QED  BY <2>4, <2>5
  <1>4. CASE \E r \in Records : /\ found = Append(acked, r) /\ FrameAt(pages, r, End(acked, p))
                                /\ offset = OffsetOf(End(acked, p) + Pages(r))
    <2>1. PICK r \in Records : /\ found = Append(acked, r) /\ FrameAt(pages, r, End(acked, p))
                               /\ offset = OffsetOf(End(acked, p) + Pages(r))
      BY <1>4
    <2>2. End(acked, p) + Pages(r) \in Nat
      BY <1>2, PagesFacts
    <2>3. PageAt(offset) = End(acked, p) + Pages(r)
      BY <2>1, <2>2, OffsetFacts
    <2>4. ~IsFrame(pages, PageAt(offset), Len(pages))
      BY <1>1, <1>2, <2>1, <2>3, BehindIsNone
    <2> QED  BY <2>1, <2>2, <2>3, <2>4
  <1> QED  BY <1>3, <1>4 DEF Layout, Scanned

LEMMA InitWalInv == Init => WalInv
  <1> SUFFICES ASSUME Init PROVE WalInv
    OBVIOUS
  <1>1. TypeOK
    BY WalAssumption DEF Init, TypeOK, NoFrame
  <1>2. InvBlank
    BY DEF Init, InvBlank
  <1>3. InvLayout
    <2> DEFINE p == [n \in 1..1 |-> 0]
    <2>1. Len(acked) = 0 /\ Len(pages) = 0 /\ acked = <<>> /\ pages = <<>>
      BY DEF Init
    <2>2. p \in [1..Len(acked) + 1 -> 0..Len(pages)]
      BY <2>1
    <2>3. p[1] = 0 /\ End(acked, p) = 0
      BY <2>1 DEF End
    <2> HIDE DEF p
    <2>4. Layout(p)
      BY <2>1, <2>3 DEF Layout, LaidOut, Remains, Init
    <2> QED  BY <2>2, <2>4 DEF InvLayout
  <1> QED  BY <1>1, <1>2, <1>3 DEF WalInv

\* Steps that leave the records and the pages alone are about where the process stands.
LEMMA LayoutStands ==
    ASSUME NEW p \in [1..Len(acked) + 1 -> 0..Len(pages)], Layout(p),
           UNCHANGED <<pages, acked>>,
           mode' \in {"open", "appending"} => offset' = OffsetOf(End(acked, p)),
           mode' = "appending" => Written(End(acked, p))',
           mode' = "scanning" => Scanned(p)'
    PROVE  InvLayout'
  <1>1. Layout(p)'
    BY DEF Layout, End, Written, Scanned
  <1>2. p \in [1..Len(acked') + 1 -> 0..Len(pages')]
    OBVIOUS
  <1> QED  BY <1>1, <1>2 DEF InvLayout

\* A new file, and its header.
LEMMA CreateLays ==
    ASSUME TypeOK, InvBlank, CreateFile \/ WriteHeader
    PROVE  InvLayout'
  <1> DEFINE p == [n \in 1..1 |-> 0]
  <1>1. pages' = <<>> /\ acked' = <<>> /\ mode' \in {"creating", "open"}
        /\ (mode' = "open" => offset' = OffsetOf(0))
    BY OffsetFacts DEF CreateFile, WriteHeader, OpenWal, InvBlank
  <1>2. p \in [1..Len(acked') + 1 -> 0..Len(pages')]
    BY <1>1
  <1>3. p[1] = 0 /\ p[Len(acked') + 1] = 0
    BY <1>1
  <1> HIDE DEF p
  <1>4. Layout(p)'
    BY <1>1, <1>3 DEF Layout, LaidOut, Remains, End
  <1> QED  BY <1>2, <1>4 DEF InvLayout

LEMMA AppendBeginLays ==
    ASSUME TypeOK, InvBlank, NEW p \in [1..Len(acked) + 1 -> 0..Len(pages)], Layout(p), AppendBegin
    PROVE  InvLayout'
  <1>1. offset' = OffsetOf(End(acked, p)) /\ UNCHANGED <<pages, acked>>
    BY DEF AppendBegin, Layout
  <1>2. Written(End(acked, p))'
    BY DEF AppendBegin, Written
  <1> QED  BY <1>1, <1>2, LayoutStands DEF AppendBegin

\* A page of the frame: nothing before the end of the log is touched, and the page lies
\* as far behind it as it does in its frame.
LEMMA WritePageLays ==
    ASSUME TypeOK, InvBlank, NEW p \in [1..Len(acked) + 1 -> 0..Len(pages)], Layout(p), WritePage
    PROVE  InvLayout'
  <1> DEFINE e == End(acked, p)
  <1>1. PICK j \in cur.todo :
           /\ pages' = PutPage(pages, PageAt(offset) + j, [rec |-> cur.rec, part |-> j])
           /\ cur' = [cur EXCEPT !.todo = @ \ {j}]
    BY DEF WritePage
  <1>2. mode = "appending" /\ mode' = "appending" /\ UNCHANGED <<acked, offset>>
    BY DEF WritePage
  <1>3. Written(e) /\ offset = OffsetOf(e) /\ LaidOut(pages, acked, p) /\ Remains(pages, e)
    BY <1>2 DEF Layout
  <1>4. /\ PageAt(offset) = e /\ e \in Nat /\ e <= Len(pages) /\ Len(pages) \in Nat
        /\ pages \in Seq(AllPages) /\ acked \in Seq(Records)
    BY <1>2, LayoutFacts DEF TypeOK
  <1>5. cur.rec \in Records /\ cur.todo \subseteq 0..Pages(cur.rec) - 1 /\ j \in Nat
        /\ Pages(cur.rec) \in Nat
    BY <1>3, PagesFacts DEF Written
  <1> DEFINE page == [rec |-> cur.rec, part |-> j]
  <1>6. page \in AllPages /\ page.part = j
    BY <1>5 DEF AllPages
  <1>7. e + j \in Nat /\ pages' = PutPage(pages, e + j, page)
    BY <1>1, <1>4, <1>5
  <1> HIDE DEF e, page
  <1>8. /\ pages' \in Seq(AllPages) /\ Len(pages') >= Len(pages) /\ Len(pages') > e + j
        /\ pages'[e + j + 1] = page
        /\ \A k \in 1..Len(pages) : k # e + j + 1 => pages'[k] = pages[k]
        /\ \A k \in 1..Len(pages') : k = e + j + 1 \/ k <= Len(pages) \/ pages'[k] = Zero
    <2> DEFINE i == e + j
               new == PutPage(pages, i, page)
    <2>1. i \in Nat /\ pages' = new /\ pages \in Seq(AllPages) /\ page \in AllPages
      BY <1>4, <1>6, <1>7
    <2> HIDE DEF i
    <2>2. /\ new \in Seq(AllPages) /\ Len(new) >= Len(pages) /\ Len(new) > i
          /\ new[i + 1] = page
          /\ \A k \in 1..Len(pages) : k # i + 1 => new[k] = pages[k]
          /\ \A k \in 1..Len(new) : k = i + 1 \/ k <= Len(pages) \/ new[k] = Zero
      BY <2>1, PutPageFacts
    <2> HIDE DEF new
    <2> QED  BY <2>1, <2>2 DEF i
  <1>9. Len(pages') \in Nat
    BY <1>8
  <1>10. LaidOut(pages', acked, p) /\ p \in [1..Len(acked) + 1 -> 0..Len(pages')]
    <2>1. \A i \in 1..e : pages'[i] = pages[i]
      BY <1>4, <1>5, <1>8
    <2> QED  BY <1>3, <1>4, <1>8, <1>9, <2>1, FramesStay DEF e
  <1>11. Remains(pages', e)
    <2> SUFFICES ASSUME NEW i \in e..Len(pages') - 1, pages'[i + 1] # Zero
                 PROVE  i <= e + pages'[i + 1].part
      BY DEF Remains
    <2>1. i \in Nat /\ i + 1 \in 1..Len(pages')
      BY <1>4, <1>9
    <2>2. CASE i = e + j
      BY <1>6, <1>8, <2>1, <2>2
    <2>3. CASE i # e + j /\ i + 1 <= Len(pages)
      <3>1. pages'[i + 1] = pages[i + 1] /\ i \in e..Len(pages) - 1
        BY <1>4, <1>5, <1>8, <2>1, <2>3
      <3> QED  BY <1>3, <3>1 DEF Remains
    <2> QED  BY <1>4, <1>5, <1>8, <2>1, <2>2, <2>3
  <1>12. Written(e)'
    <2>1. e' = e /\ cur'.rec = cur.rec /\ cur'.todo = cur.todo \ {j}
      BY <1>1, <1>2 DEF e, End, TypeOK
    <2>2. ASSUME NEW k \in (0..Pages(cur.rec) - 1) \ cur'.todo
          PROVE  e + k < Len(pages') /\ pages'[e + k + 1] = [rec |-> cur.rec, part |-> k]
      <3>1. CASE k = j
        BY <1>4, <1>5, <1>8, <1>9, <3>1 DEF page
      <3>2. CASE k # j
        <4>1. k \in (0..Pages(cur.rec) - 1) \ cur.todo /\ k \in Nat
          BY <1>5, <2>1, <3>2
        <4>2. e + k < Len(pages) /\ pages[e + k + 1] = [rec |-> cur.rec, part |-> k]
          BY <1>3, <4>1 DEF Written
        <4>3. e + k + 1 \in 1..Len(pages) /\ e + k + 1 # e + j + 1
          BY <1>4, <1>5, <3>2, <4>1, <4>2
        <4> QED  BY <1>4, <1>8, <1>9, <4>1, <4>2, <4>3
      <3> QED  BY <3>1, <3>2
    <2>3. Pages(cur'.rec) = Pages(cur.rec) /\ Framed(cur'.rec) = Framed(cur.rec)
      BY <2>1
    <2> QED  BY <1>3, <2>1, <2>2, <2>3 DEF Written
  <1>13. Layout(p)'
    BY <1>2, <1>3, <1>10, <1>11, <1>12 DEF Layout, e, End
  <1>14. p \in [1..Len(acked') + 1 -> 0..Len(pages')]
    BY <1>2, <1>10
  <1> QED  BY <1>13, <1>14 DEF InvLayout

\* A frame all of whose pages are written lies where the log ends.
LEMMA FrameWritten ==
    ASSUME TypeOK, NEW p \in [1..Len(acked) + 1 -> 0..Len(pages)], Layout(p),
           mode = "appending", cur.todo = {}
    PROVE  cur.rec \in Records /\ FrameAt(pages, cur.rec, End(acked, p))
  <1> DEFINE e == End(acked, p)
             r == cur.rec
  <1>1. r \in Records /\ Framed(r) <= MaxRecordBytes
        /\ \A j \in 0..Pages(r) - 1 : e + j < Len(pages) /\ pages[e + j + 1] = [rec |-> r, part |-> j]
    BY DEF Layout, Written
  <1>2. e \in Nat /\ Len(pages) \in Nat
    BY LayoutFacts
  <1> HIDE DEF e, r
  <1>3. Pages(r) \in Nat \ {0}
    BY <1>1, PagesFacts
  <1>4. e + (Pages(r) - 1) < Len(pages)
    <2>1. Pages(r) - 1 \in 0..Pages(r) - 1
      BY <1>3
    <2> QED  BY <1>1, <2>1
  <1>5. e + Pages(r) <= Len(pages)
    BY <1>2, <1>3, <1>4
  <1> QED  BY <1>1, <1>5 DEF FrameAt, e, r

LEMMA AppendOkLays ==
    ASSUME TypeOK, InvBlank, NEW p \in [1..Len(acked) + 1 -> 0..Len(pages)], Layout(p), AppendOk
    PROVE  InvLayout'
  <1> DEFINE r == cur.rec
             e == End(acked, p)
  <1>1. /\ pages' = pages /\ acked' = Append(acked, r) /\ mode' = "open"
        /\ offset' = OffsetOf(e) + Framed(r)
    BY DEF AppendOk, Layout
  <1>2. /\ pages \in Seq(AllPages) /\ acked \in Seq(Records) /\ e \in Nat
        /\ LaidOut(pages, acked, p) /\ Remains(pages, e)
    BY LayoutFacts DEF TypeOK, Layout
  <1>3. r \in Records /\ FrameAt(pages, r, e)
    BY FrameWritten DEF AppendOk
  <1>4. Pages(r) \in Nat /\ Framed(r) = Pages(r) * PageSize
    BY <1>3, PagesFacts
  <1>5. offset' = OffsetOf(e + Pages(r))
    <2> HIDE DEF e, r
    <2> QED  BY <1>1, <1>2, <1>4, OffsetFacts
  <1> HIDE DEF r
  <1>6. PICK q \in [1..Len(acked') + 1 -> 0..Len(pages)] :
           LaidOut(pages, acked', q) /\ End(acked', q) = e + Pages(r)
    BY <1>1, <1>2, <1>3, LayOneMore
  <1> HIDE DEF e
  <1>7. Remains(pages, e + Pages(r))
    BY <1>2, <1>3, BehindIsNone
  <1>8. Layout(q)'
    BY <1>1, <1>5, <1>6, <1>7 DEF Layout, End
  <1>9. q \in [1..Len(acked') + 1 -> 0..Len(pages')]
    BY <1>1, <1>6
  <1> QED  BY <1>8, <1>9 DEF InvLayout

\* The scan reads the next acknowledged record, or the one behind them all.
LEMMA ScanRecordLays ==
    ASSUME TypeOK, InvBlank, NEW p \in [1..Len(acked) + 1 -> 0..Len(pages)], Layout(p), ScanRecord
    PROVE  InvLayout'
  <1> DEFINE i == PageAt(offset)
             e == End(acked, p)
  <1>1. /\ pages \in Seq(AllPages) /\ acked \in Seq(Records) /\ found \in Seq(Records)
        /\ cap \in Nat /\ Len(acked) \in Nat /\ Len(pages) \in Nat
        /\ e \in 0..Len(pages) /\ LaidOut(pages, acked, p) /\ offset \in Nat
    BY LayoutFacts DEF TypeOK, Layout
  <1>2. /\ mode = "scanning" /\ mode' = "scanning" /\ UNCHANGED <<pages, acked>>
        /\ found' = Append(found, pages[i + 1].rec)
        /\ offset' = offset + Claimed(pages, i) * PageSize
        /\ ReadOne(pages, i, Len(pages), Alloc(cap)) = "record"
    BY DEF ScanRecord
  <1>3. i \in Nat
    BY <1>2, ScanFacts
  <1> HIDE DEF i
  <1>4. IsFrame(pages, i, Len(pages))
    <2>1. Len(pages) <= Len(pages)
      BY <1>1
    <2> QED  BY <1>1, <1>2, <1>3, <2>1, ReadOneFacts
  <1>5. Scanned(p)'
    <2>1. CASE found = acked /\ i = e
      <3>1. PICK r \in Records : /\ r = pages[i + 1].rec /\ Claimed(pages, i) = Pages(r)
                                 /\ FrameAt(pages, r, i)
        <4>1. Len(pages) <= Len(pages)
          BY <1>1
        <4> QED  BY <1>1, <1>3, <1>4, <4>1, ReadIsFrame
      <3>2. offset = OffsetOf(e)
        <4>1. ASSUME NEW r2 \in Records, found = Append(acked, r2) PROVE FALSE
          BY <1>1, <2>1, <4>1, AppendProperties
        <4>2. p[Len(found) + 1] = e
          BY <2>1 DEF End
        <4> QED  BY <1>2, <4>1, <4>2 DEF Layout, Scanned
      <3>3. Pages(r) \in Nat
        BY PagesFacts
      <3>4. offset' = OffsetOf(e + Pages(r))
        <4> DEFINE m == Pages(r)
        <4>1. offset' = offset + m * PageSize /\ e \in Nat /\ m \in Nat
          BY <1>1, <1>2, <3>1, <3>3
        <4> HIDE DEF e, m
        <4>2. offset' = OffsetOf(e + m)
          BY <3>2, <4>1, OffsetFacts
        <4> QED  BY <4>2 DEF m
      <3>5. found' = Append(acked', r) /\ FrameAt(pages', r, e) /\ e = End(acked', p)
        BY <1>2, <2>1, <3>1 DEF End
      <3> QED  BY <3>4, <3>5 DEF Scanned
    <2>2. ASSUME NEW n \in 0..Len(acked) - 1,
                 n = Len(found), found = SubSeq(acked, 1, n), i = p[n + 1],
                 offset = OffsetOf(p[n + 1]), Claimed(pages, p[n + 1]) = Pages(acked[n + 1]),
                 pages[p[n + 1] + 1].rec = acked[n + 1]
          PROVE  Scanned(p)'
      <3>1. n + 1 \in 1..Len(acked) /\ n + 1 <= Len(acked) /\ n + 1 \in 1..Len(acked) + 1
        BY <1>1
      <3>2. acked[n + 1] \in Records /\ p[n + 1] \in Nat
            /\ p[(n + 1) + 1] = p[n + 1] + Pages(acked[n + 1])
        <4>1. acked[n + 1] \in Records
          BY <1>1, <3>1, ElementOfSeq
        <4>2. p[n + 1] \in Nat
          <5>1. p[n + 1] \in 0..Len(pages)
            BY <3>1
          <5> QED  BY <5>1
        <4>3. p[(n + 1) + 1] = p[n + 1] + Pages(acked[n + 1])
          BY <1>1, <3>1 DEF LaidOut
        <4> QED  BY <4>1, <4>2, <4>3
      <3>3. Pages(acked[n + 1]) \in Nat
        BY <3>2, PagesFacts
      <3>4. offset' = OffsetOf(p[(n + 1) + 1])
        <4> DEFINE a == p[n + 1]
                   m == Pages(acked[n + 1])
        <4>1. offset' = offset + m * PageSize /\ a \in Nat /\ m \in Nat /\ offset = OffsetOf(a)
          BY <1>2, <2>2, <3>2, <3>3
        <4> HIDE DEF a, m
        <4>2. offset' = OffsetOf(a + m)
          BY <4>1, OffsetFacts
        <4> QED  BY <3>2, <4>2 DEF a, m
      <3>5. found' = SubSeq(acked, 1, n + 1)
        <4>1. SubSeq(acked, 1, n + 1) = Append(SubSeq(acked, 1, n), acked[n + 1])
          <5>1. SubSeq(acked, 1, n + 1) = SubSeq(acked, 1, (n + 1) - 1) \o <<acked[n + 1]>>
            <6>1. 1 \in 1..Len(acked) /\ n + 1 \in 1..Len(acked)
              BY <1>1, <3>1
            <6> QED  BY <1>1, <6>1, SubSeqRecursiveSecond
          <5>2. (n + 1) - 1 = n /\ found \in Seq(Records)
            BY <1>1
          <5> QED  BY <2>2, <3>2, <5>1, <5>2, AppendIsConcat
        <4> QED  BY <1>2, <2>2, <4>1
      <3>6. Len(found') = n + 1
        BY <1>1, <1>2, <2>2, <3>2, AppendProperties
      <3> QED  BY <1>2, <3>1, <3>4, <3>5, <3>6 DEF Scanned
    <2>3. ASSUME NEW r \in Records, ~IsFrame(pages, i, Len(pages)) PROVE FALSE
      BY <1>4, <2>3
    <2> QED  BY <1>2, <2>1, <2>2, <2>3, ScanFacts DEF i
  <1>6. Layout(p)'
    BY <1>2, <1>5 DEF Layout, End
  <1>7. p \in [1..Len(acked') + 1 -> 0..Len(pages')]
    BY <1>2
  <1> QED  BY <1>6, <1>7 DEF InvLayout

\* At the end of the scan either exactly the acknowledged records are read, or one more
\* whose whole frame is there.
LEMMA ScanEndFacts ==
    ASSUME TypeOK, InvBlank, NEW p \in [1..Len(acked) + 1 -> 0..Len(pages)], Layout(p), ScanEnd
    PROVE  \/ /\ found = acked /\ PageAt(offset) = End(acked, p)
              /\ ~IsFrame(pages, End(acked, p), Len(pages))
           \/ \E r \in Records : /\ found = Append(acked, r) /\ FrameAt(pages, r, End(acked, p))
                                 /\ PageAt(offset) = End(acked, p) + Pages(r)
  <1> DEFINE i == PageAt(offset)
  <1>1. pages \in Seq(AllPages) /\ cap \in Nat /\ Len(pages) \in Nat /\ mode = "scanning"
        /\ ReadOne(pages, i, Len(pages), Alloc(cap)) = "end"
    BY LayoutFacts DEF TypeOK, ScanEnd
  <1>2. i \in Nat
    BY <1>1, ScanFacts
  <1> HIDE DEF i
  <1>3. ~IsFrame(pages, i, Len(pages))
    <2>1. Len(pages) <= Len(pages) /\ "end" # "record"
      BY <1>1
    <2> QED  BY <1>1, <1>2, <2>1, ReadOneFacts
  <1> QED  BY <1>1, <1>3, ScanFacts DEF i

LEMMA ScanEndLays ==
    ASSUME TypeOK, InvBlank, NEW p \in [1..Len(acked) + 1 -> 0..Len(pages)], Layout(p), ScanEnd
    PROVE  InvLayout'
  <1> DEFINE e == End(acked, p)
  <1>1. /\ pages \in Seq(AllPages) /\ acked \in Seq(Records) /\ Len(pages) \in Nat
        /\ e \in Nat /\ LaidOut(pages, acked, p) /\ Remains(pages, e)
        /\ mode = "scanning" /\ mode' = "open" /\ UNCHANGED <<pages, offset>> /\ acked' = found
    BY LayoutFacts DEF TypeOK, Layout, ScanEnd
  <1>2. CASE found = acked
    <2>1. offset = OffsetOf(e)
      <3>1. ASSUME NEW r \in Records, found = Append(acked, r) PROVE FALSE
        BY <1>1, <1>2, <3>1, AppendProperties
      <3>2. p[Len(found) + 1] = e
        BY <1>2 DEF End
      <3> QED  BY <1>1, <3>1, <3>2 DEF Layout, Scanned
    <2> QED  BY <1>1, <1>2, <2>1, LayoutStands
  <1>3. ASSUME NEW r \in Records, found = Append(acked, r), FrameAt(pages, r, e)
        PROVE  InvLayout'
    <2>1. offset = OffsetOf(e + Pages(r))
      <3>1. ~(Len(found) <= Len(acked))
        <4>1. Len(found) = Len(acked) + 1 /\ Len(acked) \in Nat
          BY <1>1, <1>3, AppendProperties
        <4> QED  BY <4>1
      <3>2. PICK s \in Records : found = Append(acked, s) /\ offset = OffsetOf(e + Pages(s))
        BY <1>1, <3>1 DEF Layout, Scanned
      <3>3. s = r
        <4>1. found[Len(acked) + 1] = r /\ found[Len(acked) + 1] = s
          <5>1. Append(acked, r)[Len(acked) + 1] = r /\ Append(acked, s)[Len(acked) + 1] = s
            BY <1>1, AppendProperties
          <5> QED  BY <1>3, <3>2, <5>1
        <4> QED  BY <4>1
      <3> QED  BY <3>2, <3>3
    <2> HIDE DEF e
    <2>2. PICK q \in [1..Len(acked') + 1 -> 0..Len(pages)] :
             LaidOut(pages, acked', q) /\ End(acked', q) = e + Pages(r)
      BY <1>1, <1>3, LayOneMore DEF e
    <2>3. Remains(pages, e + Pages(r))
      BY <1>1, <1>3, BehindIsNone
    <2>4. Layout(q)'
      BY <1>1, <2>1, <2>2, <2>3 DEF Layout, End
    <2>5. q \in [1..Len(acked') + 1 -> 0..Len(pages')]
      BY <1>1, <2>2
    <2> QED  BY <2>4, <2>5 DEF InvLayout
  <1> QED  BY <1>2, <1>3, ScanEndFacts

LEMMA OpenFileLays ==
    ASSUME TypeOK, InvBlank, NEW p \in [1..Len(acked) + 1 -> 0..Len(pages)], Layout(p), OpenFile
    PROVE  InvLayout'
  <1>1. /\ mode' = "scanning" /\ offset' = PageSize /\ found' = <<>>
        /\ UNCHANGED <<pages, acked>> /\ Len(acked) \in Nat /\ p[1] = 0
    BY LayoutFacts DEF OpenFile, OpenWal, InvBlank, Layout, LaidOut
  <1>2. Scanned(p)'
    <2>1. Len(found') = 0
      BY <1>1
    <2>2. found' = SubSeq(acked', 1, Len(found'))
      <3>1. SubSeq(acked, 1, 0) = <<>>
        BY SubSeqEmpty
      <3> QED  BY <1>1, <2>1, <3>1
    <2>3. offset' = OffsetOf(p[Len(found') + 1])
      BY <1>1, <2>1, OffsetFacts
    <2> QED  BY <1>1, <2>1, <2>2, <2>3 DEF Scanned
  <1> QED  BY <1>1, <1>2, LayoutStands

LEMMA LayoutStep == TypeOK /\ InvBlank /\ InvLayout /\ [Next]_vars => InvLayout'
  <1> SUFFICES ASSUME TypeOK, InvBlank, InvLayout, [Next]_vars PROVE InvLayout'
    OBVIOUS
  <1>1. PICK p \in [1..Len(acked) + 1 -> 0..Len(pages)] : Layout(p)
    BY DEF InvLayout
  <1>2. CASE CreateFile \/ WriteHeader
    BY <1>2, CreateLays
  <1>3. CASE AppendBegin
    BY <1>1, <1>3, AppendBeginLays
  <1>4. CASE WritePage
    BY <1>1, <1>4, WritePageLays
  <1>5. CASE AppendOk
    BY <1>1, <1>5, AppendOkLays
  <1>6. CASE AppendFails
    BY <1>1, <1>6, LayoutStands DEF AppendFails, Layout
  <1>7. CASE OpenFile
    BY <1>1, <1>7, OpenFileLays
  <1>8. CASE OpenBlank \/ ScanError \/ Close \/ Crash
    BY <1>1, <1>8, LayoutStands DEF OpenBlank, ScanError, Close, Crash
  <1>9. CASE ScanRecord
    BY <1>1, <1>9, ScanRecordLays
  <1>10. CASE ScanEnd
    BY <1>1, <1>10, ScanEndLays
  <1>11. CASE UNCHANGED vars
    <2>1. /\ UNCHANGED <<pages, acked, mode>> /\ Layout(p)'
      BY <1>1, <1>11 DEF vars, Layout, End, Written, Scanned
    <2> QED  BY <1>1, <2>1 DEF InvLayout
  <1> QED  BY <1>2, <1>3, <1>4, <1>5, <1>6, <1>7, <1>8, <1>9, <1>10, <1>11 DEF Next

LEMMA BlankStep == TypeOK /\ InvBlank /\ [Next]_vars => InvBlank'
  <1> SUFFICES ASSUME TypeOK, InvBlank, [Next]_vars PROVE InvBlank'
    OBVIOUS
  <1>1. CASE CreateFile
    BY <1>1 DEF CreateFile, OpenWal, InvBlank
  <1>2. CASE WriteHeader
    BY <1>2 DEF WriteHeader, InvBlank
  <1>3. CASE AppendBegin \/ WritePage
    BY <1>3 DEF AppendBegin, WritePage, InvBlank
  <1>4. CASE AppendOk \/ AppendFails
    BY <1>4 DEF AppendOk, AppendFails, InvBlank
  <1>5. CASE OpenFile
    BY <1>5 DEF OpenFile, OpenWal, InvBlank
  <1>6. CASE OpenBlank \/ Close \/ Crash
    BY <1>6 DEF OpenBlank, Close, Crash, InvBlank
  <1>7. CASE ScanRecord \/ ScanEnd \/ ScanError
    BY <1>7 DEF ScanRecord, ScanEnd, ScanError, InvBlank
  <1>8. CASE UNCHANGED vars
    BY <1>8 DEF vars, InvBlank
  <1> QED  BY <1>1, <1>2, <1>3, <1>4, <1>5, <1>6, <1>7, <1>8 DEF Next

\* The size of the buffer an append needs is a number.
LEMMA RoomIsNumber ==
    ASSUME NEW c \in Nat, NEW n \in Nat
    PROVE  Len(Ensure(Alloc(c), n, 0)) \in Nat
  BY AllocFacts, EnsureFacts DEF Buffer

LEMMA TypeStep == TypeOK /\ InvBlank /\ InvLayout /\ [Next]_vars => TypeOK'
  <1> SUFFICES ASSUME TypeOK, InvBlank, InvLayout, [Next]_vars PROVE TypeOK'
    OBVIOUS
  <1>1. PICK p \in [1..Len(acked) + 1 -> 0..Len(pages)] : Layout(p)
    BY DEF InvLayout
  <1>2. /\ PageSize \in Nat \ {0} /\ MaxRecordBytes \in Nat /\ MaxCrashes \in Nat
        /\ MaxFaults \in Nat
    BY WalAssumption
  <1>3. CASE CreateFile
    BY <1>3 DEF CreateFile, OpenWal, TypeOK
  <1>4. CASE WriteHeader
    BY <1>2, <1>4 DEF WriteHeader, TypeOK
  <1>5. CASE AppendBegin
    <2>1. PICK r \in Records : /\ Framed(r) <= MaxRecordBytes
                               /\ cap' = Len(Ensure(Alloc(cap), Pages(r), 0))
                               /\ cur' = [rec |-> r, todo |-> 0..Pages(r) - 1]
                               /\ used' = used \cup {r}
      BY <1>5 DEF AppendBegin
    <2>2. Pages(r) \in Nat /\ Framed(r) = Pages(r) * PageSize
      BY PagesFacts
    <2>3. cap' \in Nat
      BY <2>1, <2>2, RoomIsNumber DEF TypeOK
    <2>4. \A j \in 0..Pages(r) - 1 : (j + 1) * PageSize <= MaxRecordBytes
      <3> SUFFICES ASSUME NEW j \in 0..Pages(r) - 1 PROVE (j + 1) * PageSize <= MaxRecordBytes
        OBVIOUS
      <3>1. j + 1 \in Nat /\ j + 1 <= Pages(r)
        BY <2>2
      <3>2. (j + 1) * PageSize <= Pages(r) * PageSize /\ (j + 1) * PageSize \in Nat
            /\ Pages(r) * PageSize \in Nat
        BY <1>2, <2>2, <3>1, Times
      <3> QED  BY <1>2, <2>1, <2>2, <3>2
    <2>5. cur' \in [rec : Records \cup {None}, todo : SUBSET Nat]
      BY <2>1, <2>2
    <2> QED  BY <1>5, <2>1, <2>3, <2>4, <2>5 DEF AppendBegin, TypeOK
  <1>6. CASE WritePage
    <2>1. PICK j \in cur.todo :
             /\ pages' = PutPage(pages, PageAt(offset) + j, [rec |-> cur.rec, part |-> j])
             /\ cur' = [cur EXCEPT !.todo = @ \ {j}]
      BY <1>6 DEF WritePage
    <2>2. mode = "appending" /\ cur.rec \in Records /\ j \in Nat /\ PageAt(offset) \in Nat
      <3>1. mode = "appending"
        BY <1>6 DEF WritePage
      <3>2. PageAt(offset) \in Nat
        BY <1>1, <3>1, LayoutFacts
      <3> QED  BY <1>1, <3>1, <3>2 DEF Layout, Written, TypeOK
    <2>3. pages' \in Seq(AllPages)
      <3> DEFINE i == PageAt(offset) + j
                 page == [rec |-> cur.rec, part |-> j]
      <3>1. i \in Nat /\ page \in AllPages /\ pages \in Seq(AllPages) /\ pages' = PutPage(pages, i, page)
        BY <2>1, <2>2 DEF AllPages, TypeOK
      <3> HIDE DEF i, page
      <3> QED  BY <3>1, PutPageFacts
    <2>4. /\ cur' \in [rec : Records \cup {None}, todo : SUBSET Nat]
          /\ \A k \in cur'.todo : (k + 1) * PageSize <= MaxRecordBytes
      BY <2>1 DEF TypeOK
    <2> QED  BY <1>6, <2>3, <2>4 DEF WritePage, TypeOK
  <1>7. CASE AppendOk
    <2>1. cur.rec \in Records /\ Framed(cur.rec) \in Nat
      <3>1. cur.rec \in Records
        BY <1>1, <1>7, FrameWritten DEF AppendOk
      <3> QED  BY <3>1, PagesFacts
    <2>2. acked' \in Seq(Records)
      BY <1>7, <2>1, AppendProperties DEF AppendOk, TypeOK
    <2> QED  BY <1>7, <2>1, <2>2 DEF AppendOk, TypeOK, NoFrame
  <1>8. CASE AppendFails
    BY <1>2, <1>8 DEF AppendFails, TypeOK, NoFrame
  <1>9. CASE OpenFile
    BY <1>2, <1>9 DEF OpenFile, OpenWal, TypeOK
  <1>10. CASE OpenBlank \/ Close
    BY <1>10 DEF OpenBlank, Close, TypeOK
  <1>11. CASE Crash
    BY <1>2, <1>11 DEF Crash, TypeOK, NoFrame
  <1>12. CASE ScanRecord
    <2> DEFINE i == PageAt(offset)
    <2>1. /\ pages \in Seq(AllPages) /\ found \in Seq(Records) /\ cap \in Nat /\ offset \in Nat
          /\ Len(pages) \in Nat /\ Len(pages) <= Len(pages)
          /\ ReadOne(pages, i, Len(pages), Alloc(cap)) = "record"
          /\ found' = Append(found, pages[i + 1].rec)
          /\ cap' = Len(Loaded(Alloc(cap), pages, i))
          /\ offset' = offset + Claimed(pages, i) * PageSize
      BY <1>12 DEF ScanRecord, TypeOK
    <2>2. i \in Nat
      BY <1>1, <1>12, ScanFacts DEF ScanRecord
    <2> HIDE DEF i
    <2>3. IsFrame(pages, i, Len(pages))
      BY <2>1, <2>2, ReadOneFacts
    <2>4. Claimed(pages, i) \in Nat \ {0}
      BY <2>1, <2>2, <2>3, ClaimedType DEF IsFrame
    <2>5. pages[i + 1].rec \in Records
      BY <2>1, <2>2, <2>3, ReadIsFrame
    <2>6. found' \in Seq(Records)
      BY <2>1, <2>5, AppendProperties
    <2>7. cap' \in Nat
      BY <2>1, <2>2, <2>4, LoadedFacts
    <2>8. offset' \in Nat
      BY <1>2, <2>1, <2>4, Times
    <2> QED  BY <1>12, <2>6, <2>7, <2>8 DEF ScanRecord, TypeOK
  <1>13. CASE ScanEnd
    BY <1>13 DEF ScanEnd, TypeOK
  <1>14. CASE ScanError
    BY <1>14 DEF ScanError, TypeOK
  <1>15. CASE UNCHANGED vars
    BY <1>15 DEF vars, TypeOK
  <1> QED  BY <1>3, <1>4, <1>5, <1>6, <1>7, <1>8, <1>9, <1>10, <1>11, <1>12, <1>13, <1>14, <1>15
           DEF Next

LEMMA WalInvHolds == Spec => []WalInv
  <1>1. Init => WalInv
    BY InitWalInv
  <1>2. WalInv /\ [Next]_vars => WalInv'
    BY TypeStep, BlankStep, LayoutStep DEF WalInv
  <1> QED  BY <1>1, <1>2, PTL DEF Spec
-------------------------------------------------------------------------------
(***************************************************************************)
(* What follows.                                                           *)
(***************************************************************************)
\* Every variable keeps its shape, and no frame is larger than MAX_RECORD_BYTES, whatever
\* the sizes of the records and of a page.
THEOREM TypeOKHolds == Spec => []TypeOK
  <1>1. WalInv => TypeOK
    BY DEF WalInv
  <1> QED  BY <1>1, WalInvHolds, PTL

\* A log with one record more, cut where it ended before.
LEMMA OneBehind ==
    ASSUME NEW log \in Seq(Records), NEW r \in Records
    PROVE  /\ SubSeq(Append(log, r), 1, Len(log)) = log
           /\ SubSeq(Append(log, r), Len(log) + 1, Len(Append(log, r))) = <<r>>
  <1> DEFINE more == Append(log, r)
             n == Len(log)
  <1>1. /\ n \in Nat /\ more \in Seq(Records) /\ Len(more) = n + 1 /\ more[n + 1] = r
        /\ \A i \in 1..n : more[i] = log[i] /\ log[i] \in Records
    BY AppendProperties, ElementOfSeq
  <1> HIDE DEF more
  <1>2. SubSeq(more, 1, n) = log
    <2> DEFINE t == SubSeq(more, 1, n)
    <2>1. 1 \in Int /\ n \in Int /\ \A i \in 1..n : more[i] \in Records
      BY <1>1
    <2>2. /\ t \in Seq(Records) /\ Len(t) = IF 1 <= n THEN n - 1 + 1 ELSE 0
          /\ \A i \in 1..n - 1 + 1 : t[i] = more[1 + i - 1]
      BY <2>1, SubSeqProperties
    <2> HIDE DEF t
    <2>3. Len(t) = n /\ \A i \in 1..n : t[i] = log[i]
      BY <1>1, <2>2
    <2>4. t = log
      BY <2>2, <2>3, SeqEqual
    <2> QED  BY <2>4 DEF t
  <1>3. SubSeq(more, n + 1, Len(more)) = <<r>>
    <2>1. n + 1 \in 1..Len(more)
      BY <1>1
    <2>2. SubSeq(more, n + 1, n + 1) = <<more[n + 1]>> \o SubSeq(more, (n + 1) + 1, n + 1)
      <3>1. n + 1 \in n + 1..Len(more)
        BY <1>1
      <3> QED  BY <1>1, <2>1, <3>1, SubSeqRecursiveFirst
    <2>3. SubSeq(more, (n + 1) + 1, n + 1) = <<>>
      BY <1>1, SubSeqEmpty
    <2>4. <<r>> \o <<>> = <<r>>
      OBVIOUS
    <2> QED  BY <1>1, <2>2, <2>3, <2>4
  <1> QED  BY <1>2, <1>3 DEF more

\* What replay reads of the whole file: the acknowledged records, and one more exactly if
\* a whole frame lies where they end.
LEMMA FileLogIs ==
    ASSUME TypeOK, NEW p \in [1..Len(acked) + 1 -> 0..Len(pages)], Layout(p)
    PROVE  /\ ~IsFrame(pages, End(acked, p), Len(pages)) => FileLog = acked
           /\ \A r \in Records : FrameAt(pages, r, End(acked, p)) => FileLog = Append(acked, r)
           /\ FileLog = acked \/ \E r \in Records : FileLog = Append(acked, r)
  <1> DEFINE e == End(acked, p)
  <1>1. /\ pages \in Seq(AllPages) /\ acked \in Seq(Records) /\ Len(pages) \in Nat /\ e \in Nat
        /\ LaidOut(pages, acked, p) /\ Remains(pages, e) /\ Len(pages) <= Len(pages)
    BY LayoutFacts DEF TypeOK, Layout
  <1>2. /\ ~IsFrame(pages, e, Len(pages)) => FileLog = acked
        /\ \A r \in Records : FrameAt(pages, r, e) => FileLog = Append(acked, r)
    BY <1>1, FileLogFacts DEF FileLog
  <1> HIDE DEF e
  <1>3. IsFrame(pages, e, Len(pages)) => \E r \in Records : FrameAt(pages, r, e)
    BY <1>1, ReadIsFrame
  <1> QED  BY <1>2, <1>3 DEF e

\* Whatever was acknowledged is what replay reads first, in the order of the appends, and
\* at most one unacknowledged record follows (wal.rs:310-352).
THEOREM AckedKeptHolds == Spec => []AckedKept
  <1>1. WalInv => AckedKept
    <2> SUFFICES ASSUME WalInv PROVE AckedKept
      OBVIOUS
    <2>1. PICK p \in [1..Len(acked) + 1 -> 0..Len(pages)] : Layout(p)
      BY DEF WalInv, InvLayout
    <2>2. TypeOK /\ acked \in Seq(Records) /\ Len(acked) \in Nat
      BY DEF WalInv, TypeOK
    <2>3. CASE FileLog = acked
      <3>1. acked = SubSeq(acked, 1, Len(acked))
        BY <2>2, SubSeqFull
      <3> QED  BY <2>2, <2>3, <3>1 DEF AckedKept, IsPrefix
    <2>4. ASSUME NEW r \in Records, FileLog = Append(acked, r) PROVE AckedKept
      <3>1. Len(FileLog) = Len(acked) + 1
        BY <2>2, <2>4, AppendProperties
      <3>2. SubSeq(FileLog, 1, Len(acked)) = acked
        BY <2>2, <2>4, OneBehind
      <3>3. SubSeq(acked, 1, Len(acked)) = acked
        BY <2>2, SubSeqFull
      <3> QED  BY <2>2, <3>1, <3>2, <3>3 DEF AckedKept, IsPrefix
    <2> QED  BY <2>1, <2>2, <2>3, <2>4, FileLogIs
  <1> QED  BY <1>1, WalInvHolds, PTL

\* The offset of an open Wal is exactly the end of the records replay reads up to it.
THEOREM OffsetExactHolds == Spec => []OffsetExact
  <1>1. WalInv => OffsetExact
    <2> SUFFICES ASSUME WalInv, mode \in {"open", "appending"}
                 PROVE  offset % PageSize = 0 /\ ReplayFrom(pages, PageAt(offset)) = acked
      BY DEF OffsetExact
    <2>1. PICK p \in [1..Len(acked) + 1 -> 0..Len(pages)] : Layout(p)
      BY DEF WalInv, InvLayout
    <2> DEFINE e == End(acked, p)
    <2>2. PageAt(offset) = e /\ offset % PageSize = 0
      BY <2>1, LayoutFacts DEF WalInv
    <2>3. /\ pages \in Seq(AllPages) /\ acked \in Seq(Records) /\ e \in Nat /\ e <= Len(pages)
          /\ LaidOut(pages, acked, p)
      BY <2>1, LayoutFacts DEF WalInv, TypeOK, Layout
    <2>4. ~IsFrame(pages, e, e) /\ e <= e
      <3> HIDE DEF e
      <3> QED  BY <2>3 DEF IsFrame
    <2>5. ReplayFrom(pages, e) = acked
      BY <2>3, <2>4, ReplayOfFrames
    <2> QED  BY <2>2, <2>5
  <1> QED  BY <1>1, WalInvHolds, PTL

\* What lies behind the acknowledged records: nothing, or one record.
Behind == \/ FileLog = acked /\ Unacked = <<>>
          \/ \E r \in Records : FileLog = Append(acked, r) /\ Unacked = <<r>>

LEMMA UnackedIs == WalInv => Behind
  <1> SUFFICES ASSUME WalInv PROVE Behind
    OBVIOUS
  <1>1. PICK p \in [1..Len(acked) + 1 -> 0..Len(pages)] : Layout(p)
    BY DEF WalInv, InvLayout
  <1>2. TypeOK /\ acked \in Seq(Records) /\ Len(acked) \in Nat
    BY DEF WalInv, TypeOK
  <1>3. CASE FileLog = acked
    <2>1. SubSeq(acked, Len(acked) + 1, Len(acked)) = <<>>
      BY <1>2, SubSeqEmpty
    <2> QED  BY <1>3, <2>1 DEF Behind, Unacked
  <1>4. ASSUME NEW r \in Records, FileLog = Append(acked, r) PROVE Behind
    <2>1. Unacked = <<r>>
      BY <1>2, <1>4, OneBehind DEF Unacked
    <2> QED  BY <1>4, <2>1 DEF Behind
  <1> QED  BY <1>1, <1>2, <1>3, <1>4, FileLogIs

\* A log that is all the file holds leaves nothing behind.
LEMMA SettledFile ==
    (WalInv /\ FileLog = acked => Unacked = <<>>) /\ (WalInv /\ FileLog = acked => Unacked = <<>>)'
  <1>1. WalInv /\ FileLog = acked => Unacked = <<>>
    <2> SUFFICES ASSUME WalInv, FileLog = acked PROVE Unacked = <<>>
      OBVIOUS
    <2>1. Len(acked) \in Nat
      BY DEF WalInv, TypeOK
    <2> QED  BY <2>1, SubSeqEmpty DEF Unacked
  <1> QED  BY <1>1, PTL

\* A file just created has no record.
LEMMA BlankFile == WalInv /\ st # "ready" => FileLog = <<>> /\ Unacked = <<>>
  <1> SUFFICES ASSUME WalInv, st # "ready" PROVE FileLog = <<>> /\ Unacked = <<>>
    OBVIOUS
  <1>1. acked = <<>> /\ pages = <<>> /\ Len(acked) = 0 /\ Len(pages) = 0
    BY DEF WalInv, InvBlank
  <1>2. PICK p \in [1..Len(acked) + 1 -> 0..Len(pages)] : Layout(p)
    BY DEF WalInv, InvLayout
  <1>3. FileLog = acked
    <2>1. End(acked, p) \in 0..Len(pages)
      BY <1>2, LayoutFacts DEF WalInv
    <2>2. ~IsFrame(pages, End(acked, p), Len(pages))
      BY <1>1, <2>1 DEF IsFrame
    <2> QED  BY <1>2, <2>2, FileLogIs DEF WalInv
  <1> QED  BY <1>1, <1>3, SubSeqEmpty DEF Unacked

LEMMA RefineInit == Init /\ WalInv => Abstract!Init
  BY BlankFile DEF Init, Abstract!Init

\* Every step of the pages is a step of the log of records, or none.
LEMMA RefineStep ==
    ASSUME WalInv, WalInv', [Next]_vars
    PROVE  [Abstract!Next]_<<st, acked, Unacked>>
  <1>1. Behind /\ Behind'
    <2>1. Behind'
      BY UnackedIs, PTL
    <2> QED  BY UnackedIs, <2>1
  <1>2. TypeOK /\ InvBlank /\ acked \in Seq(Records)
    BY DEF WalInv, TypeOK
  <1>3. PICK p \in [1..Len(acked) + 1 -> 0..Len(pages)] : Layout(p)
    BY DEF WalInv, InvLayout
  <1>4. UNCHANGED pages => UNCHANGED FileLog
    BY DEF FileLog
  <1>5. UNCHANGED <<pages, acked>> => UNCHANGED Unacked
    BY DEF FileLog, Unacked
  <1>6. CASE CreateFile
    <2>1. st' = "blank" /\ acked' = <<>>
      BY <1>6 DEF CreateFile
    <2>2. Unacked' = <<>>
      <3>1. (WalInv /\ st # "ready" => FileLog = <<>> /\ Unacked = <<>>)'
        BY BlankFile, PTL
      <3> QED  BY <2>1, <3>1
    <2> QED  BY <2>1, <2>2 DEF Abstract!Next, Abstract!Create
  <1>7. CASE WriteHeader
    <2>1. st = "blank" /\ st' = "ready" /\ UNCHANGED <<pages, acked>>
      BY <1>2, <1>7 DEF WriteHeader, InvBlank
    <2> QED  BY <1>5, <2>1 DEF Abstract!Next, Abstract!Format
  <1>8. CASE WritePage
    <2>1. st = "ready" /\ UNCHANGED <<st, acked>>
      BY <1>2, <1>8 DEF WritePage, InvBlank
    <2>2. Unacked' = <<>> \/ \E r \in Records : Unacked' = <<r>>
      BY <1>1 DEF Behind
    <2> QED  BY <2>1, <2>2 DEF Abstract!Next, Abstract!Disturb
  <1>9. CASE AppendOk
    <2>1. st = "ready" /\ UNCHANGED <<st, pages>> /\ acked' = Append(acked, cur.rec)
      BY <1>2, <1>9 DEF AppendOk, InvBlank
    <2>2. cur.rec \in Records /\ FrameAt(pages, cur.rec, End(acked, p))
      BY <1>2, <1>3, <1>9, FrameWritten DEF AppendOk
    <2>3. FileLog' = acked'
      BY <1>2, <1>3, <1>4, <2>1, <2>2, FileLogIs
    <2>4. Unacked' = <<>>
      BY <2>3, SettledFile
    <2> QED  BY <2>1, <2>2, <2>4 DEF Abstract!Next, Abstract!AppendRecord
  <1>10. CASE ScanEnd
    <2>1. st = "ready" /\ UNCHANGED <<st, pages>> /\ acked' = found
      BY <1>2, <1>10 DEF ScanEnd, InvBlank
    <2>2. found = FileLog
      BY <1>2, <1>3, <1>10, ScanEndFacts, FileLogIs
    <2>3. acked' = acked \o Unacked
      <3>1. CASE FileLog = acked /\ Unacked = <<>>
        BY <1>2, <2>1, <2>2, <3>1, ConcatEmptySeq
      <3>2. ASSUME NEW r \in Records, FileLog = Append(acked, r), Unacked = <<r>>
            PROVE  acked' = acked \o Unacked
        BY <1>2, <2>1, <2>2, <3>2, AppendIsConcat
      <3> QED  BY <1>1, <3>1, <3>2 DEF Behind
    <2>4. Unacked' = <<>>
      BY <1>4, <2>1, <2>2, SettledFile
    <2> QED  BY <2>1, <2>3, <2>4 DEF Abstract!Next, Abstract!Recover
  <1>11. CASE AppendBegin \/ AppendFails
    BY <1>5, <1>11 DEF AppendBegin, AppendFails
  <1>12. CASE OpenFile
    BY <1>5, <1>12 DEF OpenFile, OpenWal
  <1>13. CASE OpenBlank \/ ScanRecord \/ ScanError \/ Close \/ Crash
    BY <1>5, <1>13 DEF OpenBlank, ScanRecord, ScanError, Close, Crash
  <1>14. CASE UNCHANGED vars
    BY <1>5, <1>14 DEF vars
  <1> QED  BY <1>6, <1>7, <1>8, <1>9, <1>10, <1>11, <1>12, <1>13, <1>14 DEF Next

\* The pages implement the log of records: an append that returned Ok is one record more,
\* whatever else reaches the disk is at most one record behind them, and an open makes
\* that record part of the log (wal.rs:88-148, 310-352).
THEOREM ImplementsRecordLogHolds == Spec => ImplementsRecordLog
  <1>1. Init /\ WalInv => Abstract!Init
    BY RefineInit
  <1>2. WalInv /\ WalInv' /\ [Next]_vars => [Abstract!Next]_<<st, acked, Unacked>>
    BY RefineStep
  <1> QED  BY <1>1, <1>2, WalInvHolds, PTL DEF Spec, ImplementsRecordLog, Abstract!Spec
===============================================================================
