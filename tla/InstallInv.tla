------------------------------- MODULE InstallInv -------------------------------
(***************************************************************************)
(* The inductive invariant of Install.                                     *)
(*                                                                         *)
(* It is about the blocks as they were written: the checksum of a block is *)
(* what was written wherever the records may be damaged, and the records   *)
(* are wherever the checksum may be.  A block whose checksum is right has  *)
(* both.                                                                   *)
(***************************************************************************)
EXTENDS Install

Ended == phase \in {"written", "closed", "open"}
BlockIds == 1..Len(blocks)

\* The records block i was written with, and where it ends.
Orig(i) == IF damaged = "header" THEN blocks[i].recs ELSE blocks[i].crc
End(i) == blocks[i].off + BlockHeaderSize + LenOf(Orig(i))

\* The blocks lie one behind the other, as the index says and as they were written, but
\* for what was damaged.
InvLayout ==
    /\ Len(index) = Len(blocks)
    /\ \A i \in BlockIds :
          /\ Orig(i) \in Seq(Recs) \ {<<>>} /\ End(i) <= offset
          /\ damaged \notin {"header", "payload"} =>
                blocks[i].magic /\ blocks[i].plen = LenOf(Orig(i)) /\ blocks[i].recs = Orig(i)
          /\ damaged # "index" =>
                /\ index[i].first = Orig(i)[1].key /\ index[i].off = blocks[i].off
                /\ index[i].len = BlockHeaderSize + LenOf(Orig(i))
    /\ \A i, j \in BlockIds : i < j => End(i) <= blocks[j].off

\* Every record that was added is in one block, or still in the payload, in order.
Ascending(s) == \A m, n \in 1..Len(s) : m < n => s[m].key < s[n].key
Below(s, t) == \A m \in 1..Len(s), n \in 1..Len(t) : s[m].key < t[n].key
InvOrder ==
    /\ \A i \in BlockIds : Ascending(Orig(i)) /\ Below(Orig(i), payload)
    /\ \A i, j \in BlockIds : i < j => Below(Orig(i), Orig(j))
    /\ Ascending(payload)
    /\ Elems(added) = Elems(payload) \cup UNION {Elems(Orig(i)) : i \in BlockIds}
InvFlat == FlattenSeq([i \in BlockIds |-> Orig(i)]) \o payload = added

\* What the writer keeps of the records while it gets them.
InvWriter ==
    /\ plen = LenOf(payload) /\ (payload # <<>> => first = payload[1].key)
    /\ Ended => payload = <<>>
    /\ blockSize = 0 => phase \in {"none", "refused", "failed"}
    /\ ~Undamaged => phase \in {"closed", "open", "refused", "failed"}
    /\ count = Len(added)
    /\ added # <<>> => maxSeq \in {r.seq : r \in Elems(added)}
    /\ \A r \in Elems(added) : /\ r.seq \in minSeq..maxSeq
                               /\ damaged # "filter" => r.key \in bloom

\* The footer tells of the file, or does not have its checksum; the header of the filter and
\* the lengths of the index are as written.
Bodies == [indexOff : Nat, indexLen : Nat, bloomOff : Nat, bloomLen : Nat, entries : Nat,
           blocks : Nat, min : Nat, max : Nat]
Footers == [body : Bodies, crc : Bodies, pad : Nat]
InvFooter ==
    /\ Ended =>
          /\ footer \in Footers
          /\ damaged = "footer" => footer.crc # footer.body
          /\ damaged # "footer" =>
                footer.body = Footer(offset, Len(index)) /\ footer.crc = footer.body
    /\ filterHead <=> damaged # "filterhead"
    /\ Parses <=> damaged # "keylen"
    /\ SoundOpens

\* A get has narrowed the blocks down to those whose first keys it has compared, and has
\* passed the smaller keys of the one it scans.
Narrowed ==
    damaged # "index" => /\ \A i \in 1..lo : index[i].first <= key
                         /\ \A i \in hi + 1..Len(index) : index[i].first > key
InvGet ==
    /\ rpc # "idle" => phase = "open" /\ key \in Keys
    /\ rpc = "find" => lo <= hi /\ hi <= Len(index) /\ Narrowed
    /\ rpc = "scan" => /\ 0 < lo /\ lo = hi /\ hi <= Len(index) /\ Narrowed /\ BlockOk
                       /\ pos <= Len(Scanned) + 1
                       /\ \A n \in 1..pos - 1 : Scanned[n].key < key
    /\ GetExact /\ HitGenuine

\* The name, the log and what is on the device follow the phases of the file.
InvDir ==
    /\ phase \in {"closed", "open"} => stable = added
    /\ name = "sst" => stable = added /\ phase \in {"closed", "open", "refused", "failed"}
    /\ ~log => name = "sst" /\ phase = "open"
    /\ phase = "open" => name = "sst"

InstallInv ==
    TypeOK /\ InvLayout /\ InvOrder /\ InvFlat /\ InvWriter /\ InvFooter /\ InvGet /\ InvDir
===============================================================================
