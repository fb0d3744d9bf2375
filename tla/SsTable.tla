-------------------------------- MODULE SsTable --------------------------------
(***************************************************************************)
(* One .sst file: the writer of src/src/sstable/writer.rs, which gets the  *)
(* entries of a MemTable in the order of their keys and splits them into   *)
(* blocks, and the reader of src/src/sstable/reader.rs, whose get goes     *)
(* through the Bloom filter, a binary search over the first keys of the    *)
(* blocks, and a scan of one block.                                        *)
(*                                                                         *)
(* Keys are numbers in the place of byte strings in lexicographic order.   *)
(* Sizes and offsets are in bytes, as in the file.  A checksum is what it  *)
(* was taken of.  One field of the closed file may be damaged before it is *)
(* opened; bytes that are no block header do not have its magic.  A get of *)
(* the empty key, which no table holds, answers EmptyKey and is left out.  *)
(***************************************************************************)
EXTENDS Naturals, Sequences, SequencesExt

CONSTANTS
    Keys,
    Seqs,             \* sequence numbers of the entries
    ValueLens,        \* bytes of the values that are put
    KeyLen,           \* bytes of a key
    FilterLen,        \* bytes of the Bloom filter: its header and its bits
    BlockSizes,       \* the values of SstWriteOptions.block_size
    FalsePositives,   \* keys the Bloom filter answers for whether inserted or not
    None              \* no key

ASSUME SsTableAssumption ==
    /\ Keys \subseteq Nat /\ Seqs \subseteq Nat /\ ValueLens \subseteq Nat
    /\ KeyLen \in Nat /\ FilterLen \in Nat /\ BlockSizes \subseteq Nat /\ FalsePositives \subseteq Keys
    /\ None \notin Keys

VARIABLES
    \* SstWriter
    phase,     \* "none", "writing", "written", "closed" after finish, then "open" or
               \* "refused"; "failed" when a call before that failed
    blockSize,
    payload,   \* records of the block being filled
    plen,      \* payload.len()
    first,     \* first_key of that block
    offset,    \* bytes written
    index,     \* first key and its length, offset and length of every block written
    bloom,     \* the keys inserted in the filter
    filterHead,   \* its header has the magic, a k, a density and a size that agree
    count, minSeq, maxSeq,
    \* the file
    blocks,    \* the data blocks in the order they were written
    footer,
    \* SstReader::get
    rpc,       \* where the call is
    key,       \* its argument
    lo, hi,    \* find_block
    pos,       \* scan_sorted_payload: the next record of the block
    answer,
    \* bookkeeping of the model
    added,     \* every record given to add
    damaged    \* the part of the file that was damaged

writer == <<blockSize, payload, plen, first, offset, index, bloom, filterHead, count,
            minSeq, maxSeq, blocks>>
reader == <<rpc, key, lo, hi, pos, answer>>
vars == <<phase, writer, footer, reader, added, damaged>>
-------------------------------------------------------------------------------
BlockHeaderSize == 16
IndexEntrySize == 16
FooterSize == 128

Recs == [key : Keys, seq : Seqs, kind : {"Put", "Tombstone"}, len : ValueLens \cup {0}]
Missing == [kind |-> "Missing"]
Corrupt == [kind |-> "SstCorrupt"]
NoFooter == "none"
Bad == <<Missing>>

\* encode_record: two lengths, seq and kind, the key and the value.
RecLen(r) == 17 + KeyLen + r.len
LenOf(recs) == FoldLeft(LAMBDA n, r : n + RecLen(r), 0, recs)

\* A block is closed before a record that would take it over block_size, but never empty.
Full(r) == payload # <<>> /\ plen + RecLen(r) > blockSize

\* The first key of the block that holds `r` is taken when the payload is empty.
FirstEver(r) == IF index = <<>> /\ payload = <<>> THEN r.key ELSE first
FirstLeftOut(r) == first
FirstKey(r) == IF payload = <<>> \/ Full(r) THEN r.key ELSE first

\* flush_block: header and payload are written and the index remembers where.
FlushBlock ==
    /\ blocks' = Append(blocks, [off |-> offset, magic |-> TRUE, plen |-> plen,
                                 crc |-> payload, recs |-> payload])
    /\ index' = Append(index, [first |-> first, klen |-> KeyLen, off |-> offset,
                               len |-> BlockHeaderSize + plen])
    /\ offset' = offset + BlockHeaderSize + plen

LatestOf(m, n, any) == n
Least(m, n, any) == IF any /\ m < n THEN m ELSE n
Greatest(m, n, any) == IF any /\ m > n THEN m ELSE n

MayContainOnly(k) == k \in FalsePositives
MayContain(k) == k \in bloom \/ k \in FalsePositives
-------------------------------------------------------------------------------
\* create_with: a block size of zero is refused.
Create ==
    /\ phase = "none"
    /\ blockSize' \in BlockSizes
    /\ phase' = IF blockSize' = 0 THEN "refused" ELSE "writing"
    /\ UNCHANGED <<payload, plen, first, offset, index, bloom, filterHead, count, minSeq, maxSeq,
                   blocks, footer, reader, added, damaged>>

\* flush_memtable_with: add is given the next entry of MemTable::iter.
Add(r) ==
    /\ phase = "writing"
    /\ \A i \in 1..Len(added) : added[i].key < r.key
    /\ IF Full(r)
       THEN FlushBlock /\ payload' = <<r>> /\ plen' = RecLen(r)
       ELSE /\ payload' = Append(payload, r)
            /\ plen' = plen + RecLen(r)
            /\ UNCHANGED <<blocks, index, offset>>
    /\ first' = FirstKey(r)
    /\ bloom' = bloom \cup {r.key}
    /\ minSeq' = Least(minSeq, r.seq, count > 0) /\ maxSeq' = Greatest(maxSeq, r.seq, count > 0)
    /\ count' = count + 1
    /\ added' = Append(added, r)
    /\ UNCHANGED <<phase, blockSize, filterHead, footer, reader, damaged>>

\* The index lies behind the blocks, the filter behind the index, and the footer last.
\* Its checksum is of the fields; the bytes that pad it to 128 are under none.
IndexLen(n) == n * (IndexEntrySize + KeyLen)
Footer(blocksEnd, n) ==
    [indexOff |-> blocksEnd, indexLen |-> IndexLen(n),
     bloomOff |-> blocksEnd + IndexLen(n), bloomLen |-> FilterLen,
     entries |-> count, blocks |-> n, min |-> minSeq, max |-> maxSeq]
Signed(f) == [body |-> f, crc |-> f, pad |-> 0]
FileLen == offset + IndexLen(Len(index)) + FilterLen + FooterSize

\* finish: the last block, the index, the filter and the footer.
FinishDropsLast ==
    /\ phase = "writing"
    /\ payload' = <<>> /\ plen' = 0
    /\ footer' = Signed(Footer(offset, Len(index)))
    /\ phase' = "written"
    /\ UNCHANGED <<blockSize, first, offset, index, bloom, filterHead, count, minSeq, maxSeq,
                   blocks, reader, added, damaged>>
Finish ==
    /\ phase = "writing"
    /\ IF payload # <<>> THEN FlushBlock ELSE UNCHANGED <<blocks, index, offset>>
    /\ payload' = <<>> /\ plen' = 0
    /\ footer' = Signed(Footer(offset', Len(index')))
    /\ phase' = "written"
    /\ UNCHANGED <<blockSize, first, bloom, filterHead, count, minSeq, maxSeq, reader, added,
                   damaged>>

\* sync_all at the end of finish: from here on the content is on the device.
Sync ==
    /\ phase = "written"
    /\ phase' = "closed"
    /\ UNCHANGED <<writer, footer, reader, added, damaged>>

\* One field of the file on disk is not what was written: of the footer, or its padding;
FooterDamage ==
    /\ damaged' = "footer"
    /\ \/ footer' = [footer EXCEPT !.crc.max = @ + 1]
       \/ \E f \in {"indexOff", "blocks", "max"} : footer' = [footer EXCEPT !.body[f] = @ + 1]
    /\ UNCHANGED <<blocks, index, bloom, filterHead>>
PadDamage ==
    /\ damaged' = "padding"
    /\ footer' = [footer EXCEPT !.pad = 1]
    /\ UNCHANGED <<blocks, index, bloom, filterHead>>
\* of the header or a record of a block;
HeaderDamage ==
    /\ damaged' = "header"
    /\ \E i \in 1..Len(blocks) :
          \/ blocks' = [blocks EXCEPT ![i].magic = FALSE]
          \/ blocks' = [blocks EXCEPT ![i].crc = Bad]
          \/ blocks' = [blocks EXCEPT ![i].plen = @ - 1]
          \/ blocks' = [blocks EXCEPT ![i].plen = @ + 1]
    /\ UNCHANGED <<index, bloom, filterHead, footer>>
PayloadDamage ==
    /\ damaged' = "payload"
    /\ \E i \in 1..Len(blocks) : \E j \in 1..Len(blocks[i].recs) :
          \/ \E k \in Keys : blocks' = [blocks EXCEPT ![i].recs[j].key = k]
          \/ blocks' = [blocks EXCEPT ![i].recs[j].kind = "Tombstone"]
    /\ blocks' # blocks
    /\ UNCHANGED <<index, bloom, filterHead, footer>>
\* of an entry of the index, the length of its key among them;
IndexDamage ==
    /\ damaged' = "index"
    /\ \E i \in 1..Len(index) :
          \/ \E j \in 1..Len(index) : index' = [index EXCEPT ![i].off = index[j].off]
          \/ \E d \in {1, offset} : index' = [index EXCEPT ![i].off = @ + d]
          \/ \E n \in {0, 1, offset} : index' = [index EXCEPT ![i].len = n]
          \/ \E k \in Keys : index' = [index EXCEPT ![i].first = k]
    /\ index' # index
    /\ UNCHANGED <<blocks, bloom, filterHead, footer>>
KeyLenDamage ==
    /\ damaged' = "keylen"
    /\ \E i \in 1..Len(index), n \in {0, KeyLen + 1, FileLen} :
          n # KeyLen /\ index' = [index EXCEPT ![i].klen = n]
    /\ UNCHANGED <<blocks, bloom, filterHead, footer>>
\* or of the filter: its bits, or its k within the range, so that it answers no for keys
\* that were inserted; or its magic, a field out of its range or the size of its bits.
FilterDamage ==
    /\ damaged' = "filter"
    /\ bloom' \in SUBSET bloom \ {bloom}
    /\ UNCHANGED <<blocks, index, filterHead, footer>>
FilterHeadDamage ==
    /\ damaged' = "filterhead"
    /\ filterHead' = FALSE
    /\ UNCHANGED <<blocks, index, bloom, footer>>
Damage ==
    /\ phase = "closed" /\ damaged = "none"
    /\ \/ FooterDamage \/ PadDamage \/ HeaderDamage \/ PayloadDamage
       \/ IndexDamage \/ KeyLenDamage \/ FilterDamage \/ FilterHeadDamage
    /\ UNCHANGED <<phase, blockSize, payload, plen, first, offset, count, minSeq, maxSeq,
                   reader, added>>

\* decode_index and decode_records: every record, along the index.
DecodeBlock(off) ==
    LET b == CHOOSE b \in {blocks[i] : i \in 1..Len(blocks)} : b.off = off IN b.recs
Decoded == FlattenSeq([i \in 1..Len(index) |-> DecodeBlock(index[i].off)])

\* SstReader::open.  SstFooter::decode and slice_range: the footer has its magic and
\* checksum, and index and filter lie inside the file.
InFile(f) ==
    /\ f.body.indexOff + f.body.indexLen <= FileLen
    /\ f.body.bloomOff + f.body.bloomLen <= FileLen
SoundUnchecked(f) == InFile(f)
Sound(f) == f.crc = f.body /\ InFile(f)

\* parse_index reads the entries one behind the other.  Behind a wrong length it no longer
\* reads where an entry starts: the next entry or its key runs over the end of the index.
\* (That the bytes it reads then as lengths add up to the end, and to as many entries, is
\* left out like a collision of a checksum.)
Parses == \A i \in 1..Len(index) : index[i].klen = KeyLen

\* A footer, a filter or an index that is refused, or an index of another length than the
\* footer says, is an error of open.
Open ==
    /\ phase = "closed"
    /\ phase' = IF /\ Sound(footer) /\ filterHead
                   /\ Parses /\ Len(index) = footer.body.blocks
                THEN "open" ELSE "refused"
    /\ UNCHANGED <<writer, footer, reader, added, damaged>>

GetBegin ==
    /\ phase = "open" /\ rpc = "idle"
    /\ key' \in Keys
    /\ IF MayContain(key')
       THEN rpc' = "find" /\ lo' = 0 /\ hi' = Len(index) /\ UNCHANGED answer
       ELSE rpc' = "done" /\ answer' = Missing /\ UNCHANGED <<lo, hi>>
    /\ UNCHANGED <<phase, writer, footer, pos, added, damaged>>

\* One turn of the loop of find_block.
Mid == lo + (hi - lo) \div 2
ProbeStays ==
    /\ rpc = "find" /\ lo < hi
    /\ IF index[Mid + 1].first <= key THEN lo' = Mid /\ UNCHANGED hi
                                      ELSE hi' = Mid /\ UNCHANGED lo
    /\ UNCHANGED <<phase, writer, footer, rpc, key, pos, answer, added, damaged>>
Probe ==
    /\ rpc = "find" /\ lo < hi
    /\ IF index[Mid + 1].first <= key THEN lo' = Mid + 1 /\ UNCHANGED hi
                                      ELSE hi' = Mid /\ UNCHANGED lo
    /\ UNCHANGED <<phase, writer, footer, rpc, key, pos, answer, added, damaged>>

\* Every first key is greater than the key.
NoBlock ==
    /\ rpc = "find" /\ lo >= hi /\ lo = 0
    /\ rpc' = "done" /\ answer' = Missing
    /\ UNCHANGED <<phase, writer, footer, key, lo, hi, pos, added, damaged>>

\* lookup_in_block: the bytes the index entry points to, if a block starts there.
Pointed == {i \in 1..Len(blocks) : blocks[i].off = index[lo].off /\ blocks[i].magic}
Block == blocks[CHOOSE i \in Pointed : TRUE]
ChecksumSkipped == Block.plen = LenOf(Block.recs)
ChecksumOk == Block.plen = LenOf(Block.recs) /\ Block.crc = Block.recs
BlockOk ==
    /\ index[lo].off + index[lo].len <= FileLen
    /\ Pointed # {}
    /\ BlockHeaderSize + Block.plen <= index[lo].len
    /\ ChecksumOk

FoundBlock ==
    /\ rpc = "find" /\ lo >= hi /\ lo > 0 /\ BlockOk
    /\ rpc' = "scan" /\ pos' = 1
    /\ UNCHANGED <<phase, writer, footer, key, lo, hi, answer, added, damaged>>

FoundCorrupt ==
    /\ rpc = "find" /\ lo >= hi /\ lo > 0 /\ ~BlockOk
    /\ rpc' = "done" /\ answer' = Corrupt
    /\ UNCHANGED <<phase, writer, footer, key, lo, hi, pos, added, damaged>>

Scanned == Block.recs

\* scan_sorted_payload: past the end, at the key, or past the key.
ScanMiss ==
    /\ rpc = "scan"
    /\ pos > Len(Scanned) \/ (pos <= Len(Scanned) /\ Scanned[pos].key > key)
    /\ rpc' = "done" /\ answer' = Missing
    /\ UNCHANGED <<phase, writer, footer, key, lo, hi, pos, added, damaged>>

ScanHit ==
    /\ rpc = "scan" /\ pos <= Len(Scanned) /\ Scanned[pos].key = key
    /\ rpc' = "done" /\ answer' = Scanned[pos]
    /\ UNCHANGED <<phase, writer, footer, key, lo, hi, pos, added, damaged>>

ScanNext ==
    /\ rpc = "scan" /\ pos <= Len(Scanned) /\ Scanned[pos].key < key
    /\ pos' = pos + 1
    /\ UNCHANGED <<phase, writer, footer, rpc, key, lo, hi, answer, added, damaged>>

GetReturn ==
    /\ rpc = "done"
    /\ rpc' = "idle" /\ answer' = Missing /\ key' = None /\ lo' = 0 /\ hi' = 0 /\ pos' = 1
    /\ UNCHANGED <<phase, writer, footer, added, damaged>>
-------------------------------------------------------------------------------
Init ==
    /\ phase = "none" /\ blockSize = 0 /\ payload = <<>> /\ plen = 0 /\ first = None
    /\ offset = 0 /\ index = <<>>
    /\ bloom = {} /\ filterHead = TRUE /\ count = 0 /\ minSeq = 0 /\ maxSeq = 0 /\ blocks = <<>>
    /\ footer = NoFooter
    /\ rpc = "idle" /\ key = None /\ lo = 0 /\ hi = 0 /\ pos = 1 /\ answer = Missing
    /\ added = <<>> /\ damaged = "none"

Search == Probe \/ NoBlock \/ FoundBlock \/ FoundCorrupt \/ ScanMiss \/ ScanHit \/ ScanNext
-------------------------------------------------------------------------------
(***************************************************************************)
(* Properties.                                                             *)
(***************************************************************************)
Elems(s) == {s[i] : i \in 1..Len(s)}
Blocks == [off : Nat, magic : BOOLEAN, plen : Nat, crc : Seq(Recs) \cup {Bad}, recs : Seq(Recs)]
Index == [first : Keys, klen : Nat, off : Nat, len : Nat]
Undamaged == damaged = "none"

\* Every variable keeps its shape.
TypeOK ==
    /\ phase \in {"none", "writing", "written", "closed", "open", "refused", "failed"}
    /\ blockSize \in BlockSizes \cup {0}
    /\ payload \in Seq(Recs) /\ plen \in Nat /\ first \in Keys \cup {None} /\ offset \in Nat
    /\ index \in Seq(Index) /\ bloom \subseteq Keys /\ filterHead \in BOOLEAN /\ count \in Nat
    /\ minSeq \in Seqs \cup {0} /\ maxSeq \in Seqs \cup {0} /\ blocks \in Seq(Blocks)
    /\ rpc \in {"idle", "find", "scan", "done"} /\ key \in Keys \cup {None}
    /\ lo \in Nat /\ hi \in Nat /\ pos \in Nat \ {0} /\ answer \in Recs \cup {Missing, Corrupt}
    /\ added \in Seq(Recs)
    /\ damaged \in {"none", "footer", "padding", "header", "payload", "index", "keylen",
                   "filter", "filterhead"}

\* get answers with exactly the entry that was added for the key, a tombstone included,
\* and with Missing when there is none: across block boundaries, keys between blocks,
\* before the first and after the last, and false positives of the filter.  A damaged
\* block can only turn the answer into SstCorrupt; index and filter have no checksum.
GetExact ==
    rpc = "done" /\ damaged \notin {"index", "filter"} =>
        \/ answer = Corrupt /\ ~Undamaged
        \/ IF \E r \in Elems(added) : r.key = key
           THEN answer \in Elems(added) /\ answer.key = key
           ELSE answer = Missing

\* Whatever part of the file was damaged, index and filter included, an entry that get
\* returns is one that was added for the key it was asked for.
HitGenuine ==
    rpc = "done" => answer \in {Missing, Corrupt} \cup {r \in Elems(added) : r.key = key}

\* A finished file opens: the counts, ranges and lengths finish writes are those open
\* insists on, for a table without entries too.  Open finds a footer field under the
\* checksum, a filter header or a key length of the index that was damaged, and takes
\* every other damage, the padding of the footer too, for a file in order.
SoundOpens ==
    phase \in {"open", "refused"} =>
        (phase = "refused" <=>
            \/ blockSize = 0
            \/ damaged \in {"footer", "filterhead", "keylen"})

\* Reading a finished file from end to end, along its index, gives back what was added:
\* nothing is lost at a block boundary or at the end, and nothing is there twice.
DecodesToAdded ==
    phase \in {"closed", "open"} /\ damaged \notin {"header", "payload", "index", "keylen"} =>
        Decoded = added

\* The footer describes the file: where the blocks end, how many entries and blocks
\* there are, and the smallest and greatest number, from which open derives next_seq.
FooterExact ==
    phase \in {"closed", "open"} /\ Undamaged =>
        LET f == footer.body IN
        /\ f.entries = Len(added) /\ f.blocks = Len(blocks)
        /\ added # <<>> => f.max \in {r.seq : r \in Elems(added)}
        /\ \A r \in Elems(added) : r.seq \in f.min..f.max
        /\ \A e \in Elems(index) : e.off + e.len <= f.indexOff

\* The index is what find_block needs: entry i points at block i, names its first key,
\* and no key of an earlier block reaches the first key of a later one.
IndexOrdered ==
    Undamaged =>
        /\ Len(index) = Len(blocks)
        /\ \A i \in 1..Len(index) :
              /\ index[i].off = blocks[i].off
              /\ blocks[i].recs # <<>> /\ index[i].first = blocks[i].recs[1].key
        /\ \A i, j \in 1..Len(index) : i < j =>
              /\ index[i].off + index[i].len <= index[j].off
              /\ \A r \in Elems(blocks[i].recs) : r.key < index[j].first

\* A get returns: the interval of the binary search shrinks to nothing.
GetReturns == rpc = "find" ~> rpc = "done"
===============================================================================
