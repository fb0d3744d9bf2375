------------------------------- MODULE MCSsTable -------------------------------
(***************************************************************************)
(* TLC instance of Install: entries of 18 and 38 bytes; two short ones     *)
(* fill a block of 36 bytes exactly, and a long one is too long for it.    *)
(***************************************************************************)
EXTENDS Install

CONSTANT LastKey
KeyRange == 1..LastKey

\* Damage is tried on tables whose entries all have the same number.
DamageBound == damaged # "none" => \A i \in 1..Len(added) : added[i].seq = 1
===============================================================================
