------------------------------ MODULE BloomProofs ------------------------------
(***************************************************************************)
(* Proofs about Bloom, for every hash, every number of words per block and *)
(* every size: an inserted key is never denied, and what to_bytes writes   *)
(* from_bytes accepts.                                                     *)
(***************************************************************************)
EXTENDS Bloom, TLAPS

\* What insert establishes for a key in a filter `f`, whether in memory or in a file.
WordIn(f, h, p) == (h[1] % f.numBlocks) * WordsPerBlock + p \div WordBits
Covers(f, h) == \A p \in Probes(h, f.k) : BitOf(p) \in f.words[WordIn(f, h, p)]
Fits(f) == f.numBlocks * WordsPerBlock <= MaxWords

\* The inductive invariant: the filter and the bytes are well formed, no larger than new
\* allows, and hold every bit of every inserted key.
BInv ==
    /\ TypeOK /\ NeverRefused
    /\ phase = "filter" => Fits(Filter) /\ \A h \in inserted : Covers(Filter, h)
    /\ phase = "bytes" => Fits(blob) /\ \A h \in inserted : Covers(blob, h)

\* A probe is a bit of a block.
LEMMA ProbeRange ==
    ASSUME NEW h \in Nat \X Nat, NEW n \in Nat, NEW p \in Probes(h, n)
    PROVE  p \in 0..BlockBits - 1
  <1>1. BlockBits \in Nat \ {0}
    BY BloomAssumption DEF BlockBits
  <1>2. PICK i \in 0..n - 1 : p = ((h[1] + i * h[2]) % Word) % BlockBits
    BY DEF Probes
  <1> DEFINE x == h[1] + i * h[2]
  <1>3. x \in Nat
    BY DEF x
  <1>4. x % Word \in Nat
    BY <1>3, BloomAssumption
  <1> HIDE DEF x
  <1>5. (x % Word) % BlockBits \in 0..BlockBits - 1
    BY <1>1, <1>4
  <1> QED  BY <1>2, <1>5 DEF x

\* Division: bit p of a block lies in one of its words.
LEMMA WordOfBit ==
    ASSUME NEW p \in 0..BlockBits - 1
    PROVE  p \div WordBits \in 0..WordsPerBlock - 1 /\ BitOf(p) \in 0..WordBits - 1
  <1>1. WordBits \in Nat \ {0} /\ WordsPerBlock \in Nat \ {0}
    BY BloomAssumption
  <1>2. p \in Nat /\ p < WordsPerBlock * WordBits
    BY <1>1 DEF BlockBits
  <1> DEFINE q == p \div WordBits  r == p % WordBits
  <1>3. q \in Nat /\ r \in 0..WordBits - 1 /\ p = q * WordBits + r
    BY <1>1, <1>2
  <1> HIDE DEF q, r
  <1>4. q < WordsPerBlock
    <2> SUFFICES ASSUME q >= WordsPerBlock  PROVE FALSE
      BY <1>1, <1>3
    <2>1. q * WordBits >= WordsPerBlock * WordBits
      BY <1>1, <1>3
    <2> QED  BY <1>1, <1>2, <1>3, <2>1
  <1> QED  BY <1>1, <1>3, <1>4 DEF q, r, BitOf

\* Block h1 mod n and its words lie inside a bitmap of n blocks.
LEMMA InsideBitmap ==
    ASSUME NEW f, WellFormed(f), NEW h \in Nat \X Nat, NEW p \in 0..BlockBits - 1
    PROVE  WordIn(f, h, p) \in DOMAIN f.words
  <1> DEFINE n == f.numBlocks  b == h[1] % n  w == p \div WordBits
  <1>1. n \in Nat \ {0} /\ WordsPerBlock \in Nat \ {0} /\ h[1] \in Nat
    BY BloomAssumption DEF WellFormed
  <1>2. b \in 0..n - 1
    BY <1>1
  <1>3. w \in 0..WordsPerBlock - 1
    BY WordOfBit
  <1>4. DOMAIN f.words = 0..n * WordsPerBlock - 1
    BY DEF WellFormed
  <1>5. WordIn(f, h, p) = b * WordsPerBlock + w
    BY DEF WordIn
  <1> HIDE DEF n, b, w
  <1>6. b * WordsPerBlock + w \in 0..n * WordsPerBlock - 1
    <2>1. b * WordsPerBlock <= (n - 1) * WordsPerBlock
      BY <1>1, <1>2
    <2>2. (n - 1) * WordsPerBlock = n * WordsPerBlock - WordsPerBlock
      BY <1>1
    <2>3. b * WordsPerBlock \in Nat /\ n * WordsPerBlock \in Nat
      BY <1>1, <1>2
    <2> QED  BY <1>1, <1>3, <2>1, <2>2, <2>3
  <1> QED  BY <1>4, <1>5, <1>6

\* new makes at least one block.
LEMMA AtLeastOneBlock ==
    ASSUME NEW keys \in Nat, NEW bits \in Nat
    PROVE  BlocksFor(keys, bits) \in Nat \ {0}
  <1>1. BlockBits \in Nat \ {0}
    BY BloomAssumption DEF BlockBits
  <1>2. AtLeast(keys * bits, BlockBits) \in Nat /\ AtLeast(keys * bits, BlockBits) >= BlockBits
    <2>1. keys * bits \in Nat
      OBVIOUS
    <2> QED  BY <1>1, <2>1 DEF AtLeast
  <1> DEFINE x == AtLeast(keys * bits, BlockBits) + BlockBits - 1
  <1>3. x \in Nat /\ x >= BlockBits
    BY <1>1, <1>2
  <1>4. BlocksFor(keys, bits) = x \div BlockBits
    BY DEF BlocksFor
  <1> HIDE DEF x
  <1>5. x \div BlockBits \in Nat \ {0}
    BY <1>1, <1>3
  <1> QED  BY <1>4, <1>5

\* insert sets the bits of its key and clears none.
LEMMA InsertStep ==
    ASSUME BInv, Insert
    PROVE  BInv'
  <1>1. PICK h \in Hashes :
           /\ inserted' = inserted \cup {h}
           /\ words' = [w \in DOMAIN words |->
                           words[w] \cup
                           {BitOf(p) : p \in {q \in Probes(h, k) : WordOf(h, q) = w}}]
    BY DEF Insert
  <1>2. /\ phase = "filter" /\ UNCHANGED <<phase, numBlocks, k, bitsPerKey, blob>>
    BY DEF Insert
  <1>3. WellFormed(Filter) /\ Fits(Filter) /\ \A g \in inserted : Covers(Filter, g)
    BY <1>2 DEF BInv, TypeOK
  <1>4. /\ k \in Nat /\ numBlocks \in Nat \ {0}
        /\ words \in [0..numBlocks * WordsPerBlock - 1 -> SUBSET (0..WordBits - 1)]
    BY <1>3 DEF WellFormed, Filter
  <1>5. h \in Nat \X Nat /\ Hashes \subseteq Nat \X Nat /\ inserted \subseteq Hashes
    BY BloomAssumption DEF BInv, TypeOK
  <1>6. words' \in [0..numBlocks * WordsPerBlock - 1 -> SUBSET (0..WordBits - 1)]
    <2>1. \A p \in Probes(h, k) : BitOf(p) \in 0..WordBits - 1
      BY <1>4, <1>5, ProbeRange, WordOfBit
    <2>2. ASSUME NEW w \in DOMAIN words
          PROVE  words[w] \cup {BitOf(p) : p \in {q \in Probes(h, k) : WordOf(h, q) = w}}
                    \subseteq 0..WordBits - 1
      BY <1>4, <2>1, <2>2
    <2> QED  BY <1>1, <1>4, <2>2
  <1>7. WellFormed(Filter') /\ Fits(Filter')
    BY <1>2, <1>3, <1>6 DEF WellFormed, Fits, Filter
  <1>8. ASSUME NEW g \in inserted' PROVE Covers(Filter', g)
    <2> SUFFICES ASSUME NEW p \in Probes(g, k)
                 PROVE  BitOf(p) \in words'[WordIn(Filter, g, p)]
      BY <1>2 DEF Covers, Filter, WordIn
    <2>1. g \in Nat \X Nat
      BY <1>1, <1>5
    <2>2. WordIn(Filter, g, p) \in DOMAIN words
      <3>1. p \in 0..BlockBits - 1
        BY <1>4, <2>1, ProbeRange
      <3> QED  BY <1>3, <2>1, <3>1, InsideBitmap DEF Filter
    <2>3. CASE g \in inserted
      <3>1. BitOf(p) \in words[WordIn(Filter, g, p)]
        BY <1>3, <2>3 DEF Covers, Filter
      <3> QED  BY <1>1, <2>2, <3>1
    <2>4. CASE g = h
      <3>1. WordOf(h, p) = WordIn(Filter, g, p)
        BY <2>4 DEF WordOf, WordIn, FirstWord, BlockOf, Filter
      <3>2. BitOf(p) \in {BitOf(r) : r \in {q \in Probes(h, k) : WordOf(h, q) = WordIn(Filter, g, p)}}
        BY <2>4, <3>1
      <3> QED  BY <1>1, <2>2, <3>2
    <2> QED  BY <1>1, <2>3, <2>4
  <1>9. TypeOK' /\ NeverRefused'
    BY <1>1, <1>2, <1>5, <1>7 DEF TypeOK, NeverRefused
  <1> QED  BY <1>2, <1>7, <1>8, <1>9 DEF BInv

\* Every other step keeps the words and the header, in memory or in the bytes.
LEMMA OtherSteps ==
    ASSUME BInv, New \/ ToBytes \/ FromBytes
    PROVE  BInv'
  <1>1. CASE New
    <2>1. PICK keys \in KeyCounts, bits \in BitsPerKey :
             /\ bits \in 1..16 /\ BlocksFor(keys, bits) * WordsPerBlock <= MaxWords
             /\ k' = AtMost(bits, 8) /\ bitsPerKey' = bits
             /\ numBlocks' = BlocksFor(keys, bits)
             /\ words' = [w \in 0..BlocksFor(keys, bits) * WordsPerBlock - 1 |-> {}]
      BY <1>1 DEF New
    <2>2. phase' = "filter" /\ inserted' = {}
      BY <1>1 DEF New, BInv, TypeOK
    <2>3. keys \in Nat /\ bits \in Nat
      BY BloomAssumption
    <2>4. WellFormed(Filter')
      <3>1. numBlocks' \in Nat \ {0}
        BY <2>1, <2>3, AtLeastOneBlock
      <3>2. k' \in 1..8
        BY <2>1 DEF AtMost
      <3>3. words' \in [0..numBlocks' * WordsPerBlock - 1 -> SUBSET (0..WordBits - 1)]
        BY <2>1
      <3> QED  BY <2>1, <3>1, <3>2, <3>3 DEF WellFormed, Filter
    <2>5. Fits(Filter')
      BY <2>1 DEF Fits, Filter
    <2> QED  BY <2>2, <2>4, <2>5 DEF BInv, TypeOK, NeverRefused
  <1>2. CASE ToBytes
    <2>1. phase = "filter" /\ phase' = "bytes" /\ blob' = Filter /\ UNCHANGED inserted
      BY <1>2 DEF ToBytes, Filter
    <2> QED  BY <2>1 DEF BInv, TypeOK, NeverRefused
  <1>3. CASE FromBytes
    <2>1. phase = "bytes" /\ UNCHANGED <<blob, inserted>>
      BY <1>3 DEF FromBytes
    <2>2. WellFormed(blob) /\ Fits(blob) /\ \A h \in inserted : Covers(blob, h)
      BY <2>1 DEF BInv, TypeOK
    <2>3. Accepted
      <3>1. blob.numBlocks <= MaxWords \div WordsPerBlock
        <4>1. /\ blob.numBlocks \in Nat /\ WordsPerBlock \in Nat \ {0} /\ MaxWords \in Nat
              /\ blob.numBlocks * WordsPerBlock <= MaxWords
          BY <2>2, BloomAssumption DEF WellFormed, Fits
        <4> DEFINE n == blob.numBlocks  q == MaxWords \div WordsPerBlock
        <4>2. q \in Nat /\ MaxWords < (q + 1) * WordsPerBlock
          BY <4>1
        <4> HIDE DEF n, q
        <4>3. n * WordsPerBlock < (q + 1) * WordsPerBlock
          BY <4>1, <4>2 DEF n
        <4>4. n < q + 1
          BY <4>1, <4>2, <4>3 DEF n
        <4> QED  BY <4>1, <4>2, <4>4 DEF n, q
      <3> QED  BY <2>2, <3>1 DEF Accepted, WellFormed
    <2>4. /\ phase' = "filter" /\ k' = blob.k /\ bitsPerKey' = blob.bitsPerKey
          /\ numBlocks' = blob.numBlocks /\ words' = blob.words
      BY <1>3, <2>3 DEF FromBytes
    <2>5. WellFormed(Filter') /\ Fits(Filter') /\ \A h \in inserted' : Covers(Filter', h)
      BY <2>1, <2>2, <2>4 DEF WellFormed, Fits, Covers, WordIn, Filter
    <2> QED  BY <2>1, <2>4, <2>5 DEF BInv, TypeOK, NeverRefused
  <1> QED  BY <1>1, <1>2, <1>3

\* The invariant holds in every state.
THEOREM BloomInvariant == Spec => []BInv
  <1>1. Init => BInv
    BY DEF Init, BInv, TypeOK, NeverRefused
  <1>2. BInv /\ [Next]_vars => BInv'
    <2>1. ASSUME BInv, Next PROVE BInv'
      BY <2>1, InsertStep, OtherSteps DEF Next
    <2>2. ASSUME BInv, UNCHANGED vars PROVE BInv'
      BY <2>2 DEF BInv, TypeOK, WellFormed, Filter, NeverRefused, Fits, Covers, WordIn, vars
    <2> QED  BY <2>1, <2>2
  <1> QED  BY <1>1, <1>2, PTL DEF Spec

\* A filter, in memory and in a file, has whole blocks, 1 to 8 probes and 1 to 16 bits
\* per key, and every word has bits of a word only.
THEOREM TypeOKHolds == Spec => []TypeOK
  <1>1. BInv => TypeOK
    BY DEF BInv
  <1> QED  BY <1>1, BloomInvariant, PTL

\* may_contain is never false for a key that was inserted, at every size and density and
\* also in a filter read back from a file (bloom.rs:94-101).
THEOREM NoFalseNegativesHolds == Spec => []NoFalseNegatives
  <1>1. BInv => NoFalseNegatives
    <2> SUFFICES ASSUME BInv, phase = "filter", NEW h \in inserted, NEW p \in Probes(h, k)
                 PROVE  BitOf(p) \in words[WordOf(h, p)]
      BY DEF NoFalseNegatives, MayContain
    <2> QED  BY DEF BInv, Covers, WordIn, Filter, WordOf, FirstWord, BlockOf
  <1> QED  BY <1>1, BloomInvariant, PTL

\* from_bytes accepts what to_bytes wrote: the two bounds on the size agree.
THEOREM NeverRefusedHolds == Spec => []NeverRefused
  <1>1. BInv => NeverRefused
    BY DEF BInv
  <1> QED  BY <1>1, BloomInvariant, PTL

\* The bits of a mask lie in lanes of the register, so comparing all lanes compares them.
LEMMA LaneOfBit ==
    ASSUME NEW p \in 0..BlockBits - 1
    PROVE  p \div LaneBits \in 0..(BlockBits \div LaneBits) - 1
  <1> DEFINE n == BlockBits \div LaneBits  q == p \div LaneBits
  <1>1. LaneBits \in Nat \ {0} /\ BlockBits \in Nat /\ BlockBits % LaneBits = 0
    BY LaneAssumption, BloomAssumption DEF BlockBits
  <1>2. n \in Nat /\ BlockBits = n * LaneBits
    BY <1>1
  <1>3. q \in Nat /\ q * LaneBits <= p /\ p < BlockBits
    BY <1>1
  <1> HIDE DEF n, q
  <1>4. q < n
    <2> SUFFICES ASSUME q >= n  PROVE FALSE
      BY <1>2, <1>3
    <2>1. q * LaneBits >= n * LaneBits
      BY <1>1, <1>2, <1>3
    <2> QED  BY <1>1, <1>2, <1>3, <2>1
  <1> QED  BY <1>2, <1>3, <1>4 DEF n, q

LEMMA LanesTellSubset ==
    ASSUME NEW block, NEW mask, mask \subseteq 0..BlockBits - 1
    PROVE  SubsetAvx2(block, mask) <=> mask \subseteq block
  <1>1. ASSUME mask \subseteq block PROVE SubsetAvx2(block, mask)
    <2>1. block \cap mask = mask
      BY <1>1
    <2> QED  BY <2>1 DEF SubsetAvx2, Lane
  <1>2. ASSUME SubsetAvx2(block, mask), NEW p \in mask PROVE p \in block
    <2>1. p \in Lane(mask, p \div LaneBits)
      BY DEF Lane
    <2>2. Lane(block \cap mask, p \div LaneBits) = Lane(mask, p \div LaneBits)
      BY <1>2, LaneOfBit DEF SubsetAvx2
    <2>3. p \in Lane(block \cap mask, p \div LaneBits)
      BY <2>1, <2>2
    <2> QED  BY <2>3 DEF Lane
  <1> QED  BY <1>1, <1>2

\* With AVX2 and without, may_contain gives the same answer for every key.
THEOREM SimdAgreesHolds == Spec => []SimdAgrees
  <1>1. BInv => SimdAgrees
    <2> SUFFICES ASSUME BInv, phase = "filter", NEW h \in Hashes
                 PROVE  MayContainAvx2(h) <=> MayContain(h)
      BY DEF SimdAgrees
    <2>1. k \in Nat /\ h \in Nat \X Nat
      BY BloomAssumption DEF BInv, TypeOK, WellFormed, Filter
    <2>2. Probes(h, k) \subseteq 0..BlockBits - 1
      BY <2>1, ProbeRange
    <2>3. SubsetAvx2(Loaded(h), Probes(h, k)) <=> Probes(h, k) \subseteq Loaded(h)
      BY <2>2, LanesTellSubset
    <2>4. Probes(h, k) \subseteq Loaded(h)
             <=> \A p \in Probes(h, k) : BitOf(p) \in words[WordOf(h, p)]
      BY <2>2 DEF Loaded
    <2> QED  BY <2>3, <2>4 DEF MayContainAvx2, MayContain
  <1> QED  BY <1>1, BloomInvariant, PTL

-------------------------------------------------------------------------------
\* Every bit that is set was set for an inserted key.
Explained(f) ==
    \A w \in DOMAIN f.words : \A b \in f.words[w] :
        \E g \in inserted : \E p \in Probes(g, f.k) : WordIn(f, g, p) = w /\ BitOf(p) = b

EInv == /\ phase = "filter" => Explained(Filter)
        /\ phase = "bytes" => Explained(blob)

LEMMA InsertExplained ==
    ASSUME BInv, EInv, Insert
    PROVE  EInv'
  <1>1. PICK h \in Hashes :
           /\ inserted' = inserted \cup {h}
           /\ words' = [w \in DOMAIN words |->
                           words[w] \cup
                           {BitOf(p) : p \in {q \in Probes(h, k) : WordOf(h, q) = w}}]
    BY DEF Insert
  <1>2. /\ phase = "filter" /\ phase' = "filter"
        /\ UNCHANGED <<numBlocks, k, bitsPerKey, blob>>
    BY DEF Insert
  <1>3. Explained(Filter) /\ Filter.words = words /\ Filter.k = k
    BY <1>2 DEF EInv, Filter
  <1>4. \A g, p : WordIn(Filter', g, p) = WordIn(Filter, g, p)
    BY <1>2 DEF WordIn, Filter
  <1>5. Filter'.words = words' /\ Filter'.k = k
    BY <1>2 DEF Filter
  <1>6. ASSUME NEW w \in DOMAIN words', NEW b \in words'[w]
        PROVE  \E g \in inserted' : \E p \in Probes(g, k) :
                  WordIn(Filter, g, p) = w /\ BitOf(p) = b
    <2>1. w \in DOMAIN words
      BY <1>1
    <2>2. CASE b \in words[w]
      <3>1. PICK g \in inserted : \E p \in Probes(g, k) : WordIn(Filter, g, p) = w /\ BitOf(p) = b
        BY <1>3, <2>1, <2>2 DEF Explained
      <3> QED  BY <1>1, <3>1
    <2>3. CASE b \in {BitOf(p) : p \in {q \in Probes(h, k) : WordOf(h, q) = w}}
      <3>1. PICK p \in Probes(h, k) : WordOf(h, p) = w /\ BitOf(p) = b
        BY <2>3
      <3>2. WordIn(Filter, h, p) = w
        BY <3>1 DEF WordOf, WordIn, FirstWord, BlockOf, Filter
      <3> QED  BY <1>1, <3>1, <3>2
    <2> QED  BY <1>1, <2>1, <2>2, <2>3
  <1>7. Explained(Filter)'
    BY <1>4, <1>5, <1>6 DEF Explained
  <1> QED  BY <1>2, <1>7 DEF EInv

LEMMA OthersExplained ==
    ASSUME BInv, EInv, New \/ ToBytes \/ FromBytes
    PROVE  EInv'
  <1>1. CASE New
    <2>1. PICK keys \in KeyCounts, bits \in BitsPerKey :
             words' = [w \in 0..BlocksFor(keys, bits) * WordsPerBlock - 1 |-> {}]
      BY <1>1 DEF New
    <2>2. \A w \in DOMAIN words' : words'[w] = {}
      BY <2>1
    <2> QED  BY <1>1, <2>2 DEF New, EInv, Explained, Filter
  <1>2. CASE ToBytes
    <2>1. phase = "filter" /\ phase' = "bytes" /\ blob' = Filter /\ UNCHANGED inserted
      BY <1>2 DEF ToBytes, Filter
    <2> QED  BY <2>1 DEF EInv, Explained, WordIn
  <1>3. CASE FromBytes
    <2>1. phase = "bytes" /\ UNCHANGED <<blob, inserted>> /\ Explained(blob)
      BY <1>3 DEF FromBytes, EInv
    <2>2. CASE Accepted
      <3>1. /\ phase' = "filter" /\ k' = blob.k /\ numBlocks' = blob.numBlocks
            /\ words' = blob.words
        BY <1>3, <2>2 DEF FromBytes
      <3> QED  BY <2>1, <3>1 DEF EInv, Explained, WordIn, Filter
    <2>3. CASE ~Accepted
      <3>1. phase' = "refused"
        BY <1>3, <2>3 DEF FromBytes
      <3> QED  BY <3>1 DEF EInv
    <2> QED  BY <2>2, <2>3
  <1> QED  BY <1>1, <1>2, <1>3

\* A word of the bitmap and a bit of it determine the block and the probe.
LEMMA PlaceIsUnique ==
    ASSUME NEW a \in Nat, NEW b \in Nat, NEW p \in 0..BlockBits - 1, NEW q \in 0..BlockBits - 1,
           a * WordsPerBlock + p \div WordBits = b * WordsPerBlock + q \div WordBits,
           BitOf(p) = BitOf(q)
    PROVE  a = b /\ p = q
  <1> DEFINE x == p \div WordBits  y == q \div WordBits
  <1>1. WordBits \in Nat \ {0} /\ WordsPerBlock \in Nat \ {0} /\ BlockBits \in Nat
    BY BloomAssumption DEF BlockBits
  <1>2. x \in 0..WordsPerBlock - 1 /\ y \in 0..WordsPerBlock - 1
    BY WordOfBit
  <1>3. p = x * WordBits + BitOf(p) /\ q = y * WordBits + BitOf(q)
    BY <1>1 DEF BitOf
  <1>4. a * WordsPerBlock + x = b * WordsPerBlock + y
    OBVIOUS
  <1> HIDE DEF x, y
  <1>5. ASSUME NEW c \in Nat, NEW d \in Nat, NEW u \in 0..WordsPerBlock - 1,
               NEW v \in 0..WordsPerBlock - 1,
               c * WordsPerBlock + u = d * WordsPerBlock + v, c < d
        PROVE  FALSE
    <2>1. (c + 1) * WordsPerBlock <= d * WordsPerBlock
      BY <1>1, <1>5
    <2>2. (c + 1) * WordsPerBlock = c * WordsPerBlock + WordsPerBlock
      BY <1>1
    <2>3. c * WordsPerBlock \in Nat /\ d * WordsPerBlock \in Nat
      BY <1>1
    <2> QED  BY <1>1, <1>5, <2>1, <2>2, <2>3
  <1>6. a = b
    BY <1>2, <1>4, <1>5
  <1>7. x = y
    <2>1. a * WordsPerBlock \in Nat
      BY <1>1
    <2> QED  BY <1>2, <1>4, <1>6, <2>1
  <1> QED  BY <1>3, <1>6, <1>7

\* may_contain is only true when keys of the same block have set every probe: no word of
\* another block and no other bit is ever looked at.
THEOREM OnlyCollisionsHolds == Spec => []OnlyCollisions
  <1>1. Init => EInv
    BY DEF Init, EInv
  <1>2. BInv /\ EInv /\ [Next]_vars => EInv'
    <2>1. ASSUME BInv, EInv, Next PROVE EInv'
      BY <2>1, InsertExplained, OthersExplained DEF Next
    <2>2. ASSUME EInv, UNCHANGED vars PROVE EInv'
      BY <2>2 DEF EInv, Explained, WordIn, Filter, vars
    <2> QED  BY <2>1, <2>2
  <1>3. BInv /\ EInv => OnlyCollisions
    <2> SUFFICES ASSUME BInv, EInv, phase = "filter", NEW h \in Hashes, MayContain(h),
                        NEW p \in Probes(h, k)
                 PROVE  \E g \in inserted : BlockOf(g) = BlockOf(h) /\ p \in Probes(g, k)
      BY DEF OnlyCollisions
    <2>1. /\ WellFormed(Filter) /\ h \in Nat \X Nat /\ k \in Nat /\ numBlocks \in Nat \ {0}
          /\ inserted \subseteq Nat \X Nat
      BY BloomAssumption DEF BInv, TypeOK, WellFormed, Filter
    <2>2. p \in 0..BlockBits - 1
      BY <2>1, ProbeRange
    <2>3. WordsPerBlock \in Nat \ {0} /\ BlockOf(h) \in Nat
      BY <2>1, BloomAssumption DEF BlockOf
    <2>4. WordIn(Filter, h, p) = WordOf(h, p) /\ WordOf(h, p) \in DOMAIN words
      BY <2>1, <2>2, InsideBitmap DEF WordIn, WordOf, FirstWord, BlockOf, Filter
    <2>5. BitOf(p) \in words[WordOf(h, p)]
      <3>1. InBitmap(h)
        <4>1. WordIn(Filter, h, BlockBits - 1) \in DOMAIN words
          <5>1. BlockBits - 1 \in 0..BlockBits - 1
            BY BloomAssumption DEF BlockBits
          <5> QED  BY <2>1, <5>1, InsideBitmap DEF Filter
        <4>2. (BlockBits - 1) \div WordBits = WordsPerBlock - 1
          <5>1. WordBits \in Nat \ {0} /\ WordsPerBlock \in Nat \ {0}
            BY BloomAssumption
          <5>2. BlockBits - 1 = (WordsPerBlock - 1) * WordBits + (WordBits - 1)
            BY <5>1 DEF BlockBits
          <5>3. WordsPerBlock - 1 \in Nat /\ WordBits - 1 \in 0..WordBits - 1
            BY <5>1
          <5> QED  BY <5>1, <5>2, <5>3
        <4> QED  BY <2>3, <4>1, <4>2 DEF InBitmap, FirstWord, WordIn, BlockOf, Filter
      <3> QED  BY <3>1 DEF MayContain
    <2>6. PICK g \in inserted : \E q \in Probes(g, k) :
             WordIn(Filter, g, q) = WordOf(h, p) /\ BitOf(q) = BitOf(p)
      BY <2>4, <2>5 DEF EInv, Explained, Filter
    <2>7. PICK q \in Probes(g, k) : WordIn(Filter, g, q) = WordOf(h, p) /\ BitOf(q) = BitOf(p)
      BY <2>6
    <2>8. q \in 0..BlockBits - 1 /\ BlockOf(g) \in Nat
      BY <2>1, ProbeRange DEF BlockOf
    <2>9. BlockOf(g) * WordsPerBlock + q \div WordBits = BlockOf(h) * WordsPerBlock + p \div WordBits
      BY <2>7 DEF WordIn, WordOf, FirstWord, BlockOf, Filter
    <2>10. BlockOf(g) = BlockOf(h) /\ q = p
      BY <2>2, <2>3, <2>7, <2>8, <2>9, PlaceIsUnique
    <2> QED  BY <2>7, <2>10
  <1> QED  BY <1>1, <1>2, <1>3, BloomInvariant, PTL DEF Spec
===============================================================================
