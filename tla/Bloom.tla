--------------------------------- MODULE Bloom ---------------------------------
(***************************************************************************)
(* The blocked Bloom filter of src/src/index/bloom.rs: its sizing, insert, *)
(* may_contain, and the bytes it is written to an .sst file as and read    *)
(* back from.  A word is the set of its bits that are set.  A key is known *)
(* by its two hashes, and two keys with the same hashes are the same here. *)
(***************************************************************************)
EXTENDS Naturals, FiniteSets

CONSTANTS
    Hashes,          \* the pairs <<h1, h2>> that hash2 gives for the keys
    Word,            \* 2^64: the hashes are added and multiplied modulo this
    WordBits,        \* bits of a word
    WordsPerBlock,   \* WORDS_PER_BLOCK
    LaneBits,        \* bits of a lane of a SIMD register, 8
    MaxWords,        \* MAX_WORDS
    KeyCounts,       \* the values of expected_keys
    BitsPerKey       \* the values of bits_per_key

BlockBits == WordsPerBlock * WordBits

ASSUME BloomAssumption ==
    /\ Hashes \subseteq Nat \X Nat /\ Word \in Nat \ {0}
    /\ WordBits \in Nat \ {0} /\ WordsPerBlock \in Nat \ {0} /\ MaxWords \in Nat
    /\ KeyCounts \subseteq Nat /\ BitsPerKey \subseteq Nat

\* A block is a whole number of lanes.
ASSUME LaneAssumption == LaneBits \in Nat \ {0} /\ BlockBits % LaneBits = 0

VARIABLES
    phase,        \* "none", "filter", "bytes" once serialised, "refused"
    words,        \* Bloom.words
    numBlocks,    \* Bloom.num_blocks
    k,            \* Bloom.k
    bitsPerKey,   \* Bloom.bits_per_key
    blob,         \* the bytes in the file: header and bitmap
    inserted      \* the keys inserted so far

vars == <<phase, words, numBlocks, k, bitsPerKey, blob, inserted>>
-------------------------------------------------------------------------------
NoBits == [w \in {} |-> {}]
NoBlob == [k |-> 0, bitsPerKey |-> 0, numBlocks |-> 0, words |-> NoBits]

AtLeast(n, least) == IF n > least THEN n ELSE least
AtMost(n, most) == IF n < most THEN n ELSE most
BlocksFor(keys, bits) == (AtLeast(keys * bits, BlockBits) + BlockBits - 1) \div BlockBits

\* block_index
BlockOf(h) == h[1] % numBlocks

\* probe_mask: the k bits of a key, by double hashing with wrapping arithmetic.
Probes(h, n) == {((h[1] + i * h[2]) % Word) % BlockBits : i \in 0..n - 1}

\* The word of the block and the bit of the word that a probe stands for.
FirstWord(h) == BlockOf(h) * WordsPerBlock
WordOfFirstBlock(h, p) == p \div WordBits
WordOf(h, p) == FirstWord(h) + p \div WordBits
BitOf(p) == p % WordBits

\* mask_is_subset over block_ref, which is None for a block outside the bitmap.
InBitmap(h) == FirstWord(h) + WordsPerBlock - 1 \in DOMAIN words
MayContain(h) ==
    InBitmap(h) => \A p \in Probes(h, k) : BitOf(p) \in words[WordOf(h, p)]

\* mask_is_subset_avx2: block and mask are bits of one register, and the lanes of their
\* intersection are compared with those of the mask.
Loaded(h) == {p \in 0..BlockBits - 1 : BitOf(p) \in words[WordOf(h, p)]}
Lane(bits, i) == {p \in bits : p \div LaneBits = i}
SubsetWithoutAnd(block, mask) ==
    \A i \in 0..(BlockBits \div LaneBits) - 1 : Lane(block, i) = Lane(mask, i)
SubsetAvx2(block, mask) ==
    \A i \in 0..(BlockBits \div LaneBits) - 1 : Lane(block \cap mask, i) = Lane(mask, i)
MayContainAvx2(h) == InBitmap(h) => SubsetAvx2(Loaded(h), Probes(h, k))
-------------------------------------------------------------------------------
\* Bloom::new, with parameters it accepts.
New ==
    /\ phase = "none"
    /\ \E keys \in KeyCounts, bits \in BitsPerKey :
          /\ bits \in 1..16 /\ BlocksFor(keys, bits) * WordsPerBlock <= MaxWords
          /\ k' = AtMost(bits, 8) /\ bitsPerKey' = bits
          /\ numBlocks' = BlocksFor(keys, bits)
          /\ words' = [w \in 0..BlocksFor(keys, bits) * WordsPerBlock - 1 |-> {}]
    /\ phase' = "filter"
    /\ UNCHANGED <<blob, inserted>>

InsertOverwrites ==
    /\ phase = "filter"
    /\ \E h \in Hashes :
          /\ inserted' = inserted \cup {h}
          /\ words' = [w \in DOMAIN words |->
                          LET bits == {BitOf(p) : p \in {q \in Probes(h, k) : WordOf(h, q) = w}}
                          IN  IF bits = {} THEN words[w] ELSE bits]
    /\ UNCHANGED <<phase, numBlocks, k, bitsPerKey, blob>>
Insert ==
    /\ phase = "filter"
    /\ \E h \in Hashes :
          /\ inserted' = inserted \cup {h}
          /\ words' = [w \in DOMAIN words |->
                          words[w] \cup
                          {BitOf(p) : p \in {q \in Probes(h, k) : WordOf(h, q) = w}}]
    /\ UNCHANGED <<phase, numBlocks, k, bitsPerKey, blob>>

\* to_bytes; the filter itself goes with the writer.
ToBytes ==
    /\ phase = "filter"
    /\ blob' = [k |-> k, bitsPerKey |-> bitsPerKey, numBlocks |-> numBlocks, words |-> words]
    /\ k' = 0 /\ bitsPerKey' = 0 /\ numBlocks' = 0 /\ words' = NoBits
    /\ phase' = "bytes"
    /\ UNCHANGED inserted

\* from_bytes checks the header against its bounds and the length of the bitmap.
AcceptedDensity8 ==
    /\ blob.k \in 1..8 /\ blob.bitsPerKey \in 1..8
    /\ blob.numBlocks > 0 /\ blob.numBlocks <= MaxWords \div WordsPerBlock
    /\ DOMAIN blob.words = 0..blob.numBlocks * WordsPerBlock - 1
Accepted ==
    /\ blob.k \in 1..8 /\ blob.bitsPerKey \in 1..16
    /\ blob.numBlocks > 0 /\ blob.numBlocks <= MaxWords \div WordsPerBlock
    /\ DOMAIN blob.words = 0..blob.numBlocks * WordsPerBlock - 1

FromBytesSwapped ==
    /\ phase = "bytes"
    /\ IF Accepted
       THEN /\ k' = blob.bitsPerKey /\ bitsPerKey' = blob.k
            /\ numBlocks' = blob.numBlocks /\ words' = blob.words
            /\ phase' = "filter"
       ELSE phase' = "refused" /\ UNCHANGED <<k, bitsPerKey, numBlocks, words>>
    /\ UNCHANGED <<blob, inserted>>
FromBytes ==
    /\ phase = "bytes"
    /\ IF Accepted
       THEN /\ k' = blob.k /\ bitsPerKey' = blob.bitsPerKey
            /\ numBlocks' = blob.numBlocks /\ words' = blob.words
            /\ phase' = "filter"
       ELSE phase' = "refused" /\ UNCHANGED <<k, bitsPerKey, numBlocks, words>>
    /\ UNCHANGED <<blob, inserted>>
-------------------------------------------------------------------------------
Init == /\ phase = "none" /\ words = NoBits /\ numBlocks = 0 /\ k = 0 /\ bitsPerKey = 0
        /\ blob = NoBlob /\ inserted = {}

Next == New \/ Insert \/ ToBytes \/ FromBytes
Spec == Init /\ [][Next]_vars
-------------------------------------------------------------------------------
(***************************************************************************)
(* Properties.                                                             *)
(***************************************************************************)
\* A filter has whole blocks, and k probes are at least one.
WellFormed(f) ==
    /\ f.numBlocks \in Nat \ {0} /\ f.k \in 1..8 /\ f.bitsPerKey \in 1..16
    /\ f.words \in [0..f.numBlocks * WordsPerBlock - 1 -> SUBSET (0..WordBits - 1)]
Filter == [k |-> k, bitsPerKey |-> bitsPerKey, numBlocks |-> numBlocks, words |-> words]

\* Every variable keeps its shape.
TypeOK ==
    /\ phase \in {"none", "filter", "bytes", "refused"}
    /\ inserted \subseteq Hashes
    /\ phase = "none" => inserted = {}
    /\ phase = "filter" => WellFormed(Filter)
    /\ phase = "bytes" => WellFormed(blob)

\* "Nunca false tras un insert de esa clave" (bloom.rs:94-101): whatever is inserted
\* afterwards, and after the filter has been written to a file and read again.
NoFalseNegatives == phase = "filter" => \A h \in inserted : MayContain(h)

\* may_contain is true only if every probe of the key was set by a key of the same block:
\* what the layout of the words must not mix up.
OnlyCollisions ==
    phase = "filter" => \A h \in Hashes : MayContain(h) =>
        \A p \in Probes(h, k) : \E g \in inserted : BlockOf(g) = BlockOf(h) /\ p \in Probes(g, k)

\* A processor with AVX2 and one without give the same answer for every key, so a table
\* may be written by one and read by the other.
SimdAgrees == phase = "filter" => \A h \in Hashes : MayContainAvx2(h) <=> MayContain(h)

\* What to_bytes wrote from_bytes accepts, at every size new allows.
NeverRefused == phase # "refused"
===============================================================================
