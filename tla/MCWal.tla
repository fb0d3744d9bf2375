--------------------------------- MODULE MCWal ---------------------------------
(***************************************************************************)
(* TLC instances of Wal: records of one, two and three pages and one that  *)
(* is too large.                                                           *)
(***************************************************************************)
EXTENDS WalInv, TLC

CONSTANTS one, two, other, three, large

\* A frame that fills its page to the last byte, one that needs one byte more, ...
DataBytes == one :> 4096 - 25 @@ two :> 4096 - 24 @@ other :> 8000 @@ three :> 12000
             @@ large :> 4 * 4096
DataLengths == [r \in Records |-> DataBytes[r]]

\* Read as a frame header, a later page of `two` has no payload, of `other` claims a
\* frame of two pages, of `three` a frame above MAX_RECORD_BYTES, as most bytes of a
\* value do.
ClaimedPages == one :> 0 @@ two :> 0 @@ other :> 2 @@ three :> 5 @@ large :> 0
FrameClaims == [r \in Records |-> ClaimedPages[r]]
===============================================================================
