---------------------------------- MODULE Wal ----------------------------------
(***************************************************************************)
(* One write-ahead log of src/src/wal.rs as pages on a disk: the header    *)
(* page, frames of one or more pages that an append writes one page at a   *)
(* time in any order, calls that fail and a machine that stops between two *)
(* pages, and the scan that finds the end of the log again.                *)
(*                                                                         *)
(* A page is known by what was last written there: page `part` of the      *)
(* frame of record `rec`.  Offsets and lengths are in bytes.  Of the buffer *)
(* a Wal keeps (AlignedBuf) the size is state; a read overwrites whatever  *)
(* older bytes it looks at.                                                *)
(***************************************************************************)
EXTENDS Naturals, Sequences, SequencesExt, Functions, FiniteSets

CONSTANTS
    Records,      \* the records, each appended at most once (their seq is unique)
    DataLen,      \* bytes of a record's key and value together
    Claims,       \* pages of the frame that the bytes of a continuation page claim when
                  \* they are read as a frame header; 0 for a zero payload_len
    PageSize,     \* WAL_ALIGN
    MaxRecordBytes, \* MAX_RECORD_BYTES
    None,         \* no record
    MaxCrashes,   \* bound on the number of crashes
    MaxFaults     \* bound on the number of writes that fail

ASSUME WalAssumption ==
    /\ DataLen \in [Records -> Nat] /\ Claims \in [Records -> Nat]
    /\ PageSize \in Nat \ {0} /\ MaxRecordBytes \in Nat
    /\ MaxCrashes \in Nat /\ MaxFaults \in Nat /\ None \notin Records

VARIABLES
    st,       \* the file: "absent", "blank" (no whole header page), "ready"
    pages,    \* what is on the pages behind the header
    offset,   \* Wal.offset, where the next append writes
    cap,      \* pages of Wal.buf
    mode,     \* what the process does with the file
    cur,      \* the record being appended and its pages still to be written
    found,    \* the records the scan of open has read so far
    acked,    \* the records append acknowledged or open recovered
    used,     \* the records append was ever called with
    crashes, faults

vars == <<st, pages, offset, cap, mode, cur, found, acked, used, crashes, faults>>
-------------------------------------------------------------------------------
\* payload_size: seq, kind and two lengths before the data; FRAME_HEADER before that.
PayloadSize(r) == 8 + 1 + 4 + 4 + DataLen[r]
AlignUp(n) == IF n = 0 THEN PageSize ELSE ((n + PageSize - 1) \div PageSize) * PageSize
Framed(r) == AlignUp(8 + PayloadSize(r))
Pages(r) == Framed(r) \div PageSize

Zero == [rec |-> None, part |-> 0]
AllPages == {Zero} \cup [rec : Records, part : Nat]
NoFrame == [rec |-> None, todo |-> {}]

\* The page behind the header that a byte offset falls on.
PageAt(off) == off \div PageSize - 1
\* check_aligned_slice: what O_DIRECT accepts.
Aligned(off, len) == off % PageSize = 0 /\ len % PageSize = 0

\* AlignedBuf: a buffer of zero pages; ensure makes a larger one when it is too small
\* and takes the first `preserve` pages along.
Alloc(n) == [j \in 1..n |-> Zero]
EnsureEmpty(b, n, preserve) == IF Len(b) >= n THEN b ELSE Alloc(n)
Ensure(b, n, preserve) ==
    IF Len(b) >= n THEN b ELSE [j \in 1..n |-> IF j <= preserve THEN b[j] ELSE Zero]

\* read_aligned: some pages of the buffer are read from page `i` of the file on.
ReadInto(b, file, i, js) == [j \in 1..Len(b) |-> IF j \in js THEN file[i + j] ELSE b[j]]

\* The frame size the page at `i` claims, in pages; 0 when payload_len is 0.
Claimed(file, i) ==
    LET p == file[i + 1] IN
    IF p = Zero THEN 0 ELSE IF p.part = 0 THEN Pages(p.rec) ELSE Claims[p.rec]

\* read_one reads the first page of a frame, makes room and reads the rest behind it.
Loaded(b, file, i) ==
    LET n == Claimed(file, i)
        head == ReadInto(Ensure(b, 1, 0), file, i, {1})
    IN IF n > 1 THEN ReadInto(Ensure(head, n, 1), file, i, 2..n) ELSE head

\* The checksum agrees with the payload only if every page is of that one frame.
ChecksumOk(b, n) == \A j \in 1..n : b[j] = [rec |-> b[1].rec, part |-> j - 1]

\* read_one at page `i` of a file that is read up to `end`: the end of the log, an
\* error, or a record.
ReadOne(file, i, end, b) ==
    CASE i + 1 > end -> "end"
      [] i + 1 <= end /\ Claimed(file, i) = 0 -> "end"
      [] i + 1 <= end /\ Claimed(file, i) * PageSize > MaxRecordBytes -> "error"
      [] OTHER -> IF /\ i + Claimed(file, i) <= end
                     /\ ChecksumOk(Loaded(b, file, i), Claimed(file, i))
                  THEN "record" ELSE "end"

\* replay: the records from page `i` on, read into a buffer that starts with one page,
\* up to the first page that does not give one.
ReplayFrom(file, end) ==
    LET rest[at \in [page : 0..end, cap : Nat]] ==
            IF ReadOne(file, at.page, end, Alloc(at.cap)) # "record" THEN <<>>
            ELSE <<file[at.page + 1].rec>>
                 \o rest[[page |-> at.page + Claimed(file, at.page),
                          cap |-> Len(Loaded(Alloc(at.cap), file, at.page))]]
    IN rest[[page |-> 0, cap |-> 1]]
FileLog == ReplayFrom(pages, Len(pages))

\* write_all_at of one page, past the end of the file or inside it.
PutPage(file, i, p) ==
    [j \in 1..(IF i + 1 > Len(file) THEN i + 1 ELSE Len(file)) |->
        IF j = i + 1 THEN p ELSE IF j <= Len(file) THEN file[j] ELSE Zero]

\* open_wal: with O_DIRECT, or without where the file system has none, always with
\* O_SYNC; create truncates.  The buffer starts with one page.
OpenWal(create) ==
    /\ pages' = IF create THEN <<>> ELSE pages
    /\ cap' = 1
-------------------------------------------------------------------------------
\* Wal::create: open(2) with O_CREAT and O_TRUNC, then the header page.
CreateFile ==
    /\ mode = "down"
    /\ OpenWal(TRUE)
    /\ st' = "blank" /\ acked' = <<>>
    /\ mode' = "creating"
    /\ UNCHANGED <<offset, cur, found, used, crashes, faults>>

WriteHeader ==
    /\ mode = "creating"
    /\ st' = "ready"
    /\ offset' = PageSize
    /\ mode' = "open"
    /\ UNCHANGED <<pages, cap, cur, found, acked, used, crashes, faults>>

AppendBeginAnySize ==
    /\ mode = "open"
    /\ \E r \in Records \ used :
          /\ cap' = Len(Ensure(Alloc(cap), Pages(r), 0))
          /\ cur' = [rec |-> r, todo |-> 0..Pages(r) - 1]
          /\ used' = used \cup {r}
    /\ mode' = "appending"
    /\ UNCHANGED <<st, pages, offset, found, acked, crashes, faults>>
\* append: the frame is built; one that is too large returns WalRecordTooLarge.
AppendBegin ==
    /\ mode = "open"
    /\ \E r \in Records \ used :
          /\ Framed(r) <= MaxRecordBytes /\ Aligned(offset, Framed(r))
          /\ cap' = Len(Ensure(Alloc(cap), Pages(r), 0))
          /\ cur' = [rec |-> r, todo |-> 0..Pages(r) - 1]
          /\ used' = used \cup {r}
    /\ mode' = "appending"
    /\ UNCHANGED <<st, pages, offset, found, acked, crashes, faults>>

\* One page of the frame reaches the disk.
WritePage ==
    /\ mode = "appending"
    /\ \E j \in cur.todo :
          /\ pages' = PutPage(pages, PageAt(offset) + j, [rec |-> cur.rec, part |-> j])
          /\ cur' = [cur EXCEPT !.todo = @ \ {j}]
    /\ UNCHANGED <<st, offset, cap, mode, found, acked, used, crashes, faults>>

AppendOkStays ==
    /\ mode = "appending" /\ cur.todo = {}
    /\ acked' = Append(acked, cur.rec)
    /\ offset' = offset + PageSize
    /\ cur' = NoFrame
    /\ mode' = "open"
    /\ UNCHANGED <<st, pages, cap, found, used, crashes, faults>>
AppendOk ==
    /\ mode = "appending" /\ cur.todo = {}
    /\ acked' = Append(acked, cur.rec)
    /\ offset' = offset + Framed(cur.rec)
    /\ cur' = NoFrame
    /\ mode' = "open"
    /\ UNCHANGED <<st, pages, cap, found, used, crashes, faults>>

\* write_all_at fails with any part of the frame on disk; the offset does not move.
AppendFailsMoves ==
    /\ mode = "appending"
    /\ faults < MaxFaults /\ faults' = faults + 1
    /\ cur' = NoFrame
    /\ offset' = offset + Framed(cur.rec)
    /\ mode' = "open"
    /\ UNCHANGED <<st, pages, cap, found, acked, used, crashes>>
AppendFails ==
    /\ mode = "appending"
    /\ faults < MaxFaults /\ faults' = faults + 1
    /\ cur' = NoFrame
    /\ mode' = "open"
    /\ UNCHANGED <<st, pages, offset, cap, found, acked, used, crashes>>

\* The process or the machine stops; the pages written so far stay.
Crash ==
    /\ mode \notin {"down", "refused"}
    /\ crashes < MaxCrashes /\ crashes' = crashes + 1
    /\ mode' = "down" /\ offset' = 0 /\ cap' = 0 /\ cur' = NoFrame /\ found' = <<>>
    /\ UNCHANGED <<st, pages, acked, used, faults>>

\* The Wal is dropped.
Close ==
    /\ mode = "open"
    /\ mode' = "down" /\ offset' = 0 /\ cap' = 0
    /\ UNCHANGED <<st, pages, cur, found, acked, used, crashes, faults>>

\* Wal::open: read_header, then scan_end from the first page.
OpenFile ==
    /\ mode = "down" /\ st = "ready"
    /\ OpenWal(FALSE)
    /\ mode' = "scanning" /\ offset' = PageSize
    /\ UNCHANGED <<st, cur, found, acked, used, crashes, faults>>

\* "cabecera truncada": the header page was never written.
OpenBlank ==
    /\ mode = "down" /\ st = "blank"
    /\ mode' = "refused"
    /\ UNCHANGED <<st, pages, offset, cap, cur, found, acked, used, crashes, faults>>

ScanRecord ==
    /\ mode = "scanning" /\ ReadOne(pages, PageAt(offset), Len(pages), Alloc(cap)) = "record"
    /\ found' = Append(found, pages[PageAt(offset) + 1].rec)
    /\ cap' = Len(Loaded(Alloc(cap), pages, PageAt(offset)))
    /\ offset' = offset + Claimed(pages, PageAt(offset)) * PageSize
    /\ UNCHANGED <<st, pages, mode, cur, acked, used, crashes, faults>>

ScanEnd ==
    /\ mode = "scanning" /\ ReadOne(pages, PageAt(offset), Len(pages), Alloc(cap)) = "end"
    /\ acked' = found /\ found' = <<>>
    /\ mode' = "open"
    /\ UNCHANGED <<st, pages, offset, cap, cur, used, crashes, faults>>

\* read_one returns WalRecordTooLarge and so does open.
ScanError ==
    /\ mode = "scanning" /\ ReadOne(pages, PageAt(offset), Len(pages), Alloc(cap)) = "error"
    /\ mode' = "refused" /\ offset' = 0 /\ cap' = 0 /\ found' = <<>>
    /\ UNCHANGED <<st, pages, cur, acked, used, crashes, faults>>
-------------------------------------------------------------------------------
Init ==
    /\ st = "absent" /\ pages = <<>> /\ offset = 0 /\ cap = 0 /\ mode = "down" /\ cur = NoFrame
    /\ found = <<>> /\ acked = <<>> /\ used = {} /\ crashes = 0 /\ faults = 0

Next ==
    \/ CreateFile \/ WriteHeader
    \/ AppendBegin \/ WritePage \/ AppendOk \/ AppendFails
    \/ OpenFile \/ OpenBlank \/ ScanRecord \/ ScanEnd \/ ScanError
    \/ Close \/ Crash

Spec == Init /\ [][Next]_vars
-------------------------------------------------------------------------------
(***************************************************************************)
(* Properties.                                                             *)
(***************************************************************************)
\* Every variable keeps its shape, and no frame is larger than MAX_RECORD_BYTES.
TypeOK ==
    /\ st \in {"absent", "blank", "ready"}
    /\ pages \in Seq(AllPages) /\ offset \in Nat /\ cap \in Nat
    /\ mode \in {"down", "creating", "open", "appending", "scanning", "refused"}
    /\ cur \in [rec : Records \cup {None}, todo : SUBSET Nat]
    /\ \A j \in cur.todo : (j + 1) * PageSize <= MaxRecordBytes
    /\ found \in Seq(Records) /\ acked \in Seq(Records) /\ used \subseteq Records
    /\ crashes \in 0..MaxCrashes /\ faults \in 0..MaxFaults

\* Whatever was acknowledged is what replay reads first, in the order of the appends,
\* and at most one unacknowledged record follows: torn frames, leftovers of failed
\* appends and pages in the wrong order included (wal.rs:310-352).
AckedKept ==
    /\ IsPrefix(acked, FileLog)
    /\ Len(FileLog) <= Len(acked) + 1

\* The offset of an open Wal is exactly the end of the records replay reads up to it:
\* the next append neither overwrites one nor leaves a gap that would end the log, and
\* its pages are where O_DIRECT accepts them.
OffsetExact ==
    mode \in {"open", "appending"} =>
        offset % PageSize = 0 /\ ReplayFrom(pages, PageAt(offset)) = acked

\* The comment on replay (wal.rs:335-336): a torn page or a bad checksum is read as the
\* end of the log, so only a missing header makes open fail.
TornTailIsEnd == mode = "refused" => st = "blank"
===============================================================================
