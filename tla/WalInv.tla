-------------------------------- MODULE WalInv --------------------------------
(***************************************************************************)
(* The inductive invariant of Wal, and the refinement of RecordLog.        *)
(* AckedKept and OffsetExact speak of what a replay computes; what makes   *)
(* them true is where the frames lie: the acknowledged ones without a gap  *)
(* from the first page on, and behind them nothing but remains of frames   *)
(* that began no later than where the next one will.                       *)
(***************************************************************************)
EXTENDS Wal

\* The whole frame of record r begins at page i.
FrameAt(file, r, i) ==
    /\ Framed(r) <= MaxRecordBytes /\ i + Pages(r) <= Len(file)
    /\ \A j \in 0..Pages(r) - 1 : file[i + j + 1] = [rec |-> r, part |-> j]

\* The frames of `log` lie one behind the other: p[n] is the first page of the n-th.
End(log, p) == p[Len(log) + 1]
LaidOut(file, log, p) ==
    /\ p[1] = 0
    /\ \A n \in 1..Len(log) : FrameAt(file, log[n], p[n]) /\ p[n + 1] = p[n] + Pages(log[n])

\* From page e on there are only remains of frames that began at e or before.
Remains(file, e) ==
    \A i \in e..Len(file) - 1 : file[i + 1] = Zero \/ i <= e + file[i + 1].part

\* The frame being appended: a page that is not still to be written is on the disk.
Written(e) ==
    /\ cur.rec \in Records /\ Framed(cur.rec) <= MaxRecordBytes
    /\ cur.todo \subseteq 0..Pages(cur.rec) - 1
    /\ \A j \in (0..Pages(cur.rec) - 1) \ cur.todo :
          e + j < Len(pages) /\ pages[e + j + 1] = [rec |-> cur.rec, part |-> j]

\* The scan of open has read some of the acknowledged records, or all and one more.
OffsetOf(page) == (page + 1) * PageSize
Scanned(p) ==
    \/ /\ Len(found) <= Len(acked) /\ found = SubSeq(acked, 1, Len(found))
       /\ offset = OffsetOf(p[Len(found) + 1])
    \/ \E r \in Records : /\ found = Append(acked, r) /\ FrameAt(pages, r, End(acked, p))
                          /\ offset = OffsetOf(End(acked, p) + Pages(r))

Layout(p) ==
    /\ LaidOut(pages, acked, p) /\ Remains(pages, End(acked, p))
    /\ mode \in {"open", "appending"} => offset = OffsetOf(End(acked, p))
    /\ mode = "appending" => Written(End(acked, p))
    /\ mode = "scanning" => Scanned(p)
InvLayout == \E p \in [1..Len(acked) + 1 -> 0..Len(pages)] : Layout(p)

\* A log without a header page has no pages behind it, and is not open.
InvBlank ==
    /\ st # "ready" => pages = <<>> /\ acked = <<>>
    /\ mode = "creating" => st = "blank"
    /\ mode \in {"open", "appending", "scanning"} => st = "ready"
    /\ mode # "appending" => cur = NoFrame
    /\ mode # "scanning" => found = <<>>

WalInv == TypeOK /\ InvBlank /\ InvLayout
-------------------------------------------------------------------------------
\* The pages implement the log of records that Engine takes its files for.
Unacked == SubSeq(FileLog, Len(acked) + 1, Len(FileLog))
Abstract == INSTANCE RecordLog WITH log <- acked, tail <- Unacked
ImplementsRecordLog == Abstract!Spec
===============================================================================
