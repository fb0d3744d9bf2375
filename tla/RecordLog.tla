------------------------------ MODULE RecordLog ------------------------------
(***************************************************************************)
(* What a write-ahead log promises, without pages and offsets, and what    *)
(* Engine assumes of its two logs: the acknowledged records in their       *)
(* order, and behind them at most one record that was never acknowledged,  *)
(* which the next append overwrites and the next open makes part of the    *)
(* log.                                                                    *)
(***************************************************************************)
EXTENDS Sequences

CONSTANT Records

VARIABLES st, log, tail

Init == st = "absent" /\ log = <<>> /\ tail = <<>>

Create == st' = "blank" /\ log' = <<>> /\ tail' = <<>>
Format == st = "blank" /\ st' = "ready" /\ UNCHANGED <<log, tail>>

AppendRecord ==
    /\ st = "ready" /\ UNCHANGED st
    /\ \E r \in Records : log' = Append(log, r)
    /\ tail' = <<>>

\* An append that has not returned Ok: the tail is lost, kept, or the new record.
Disturb ==
    /\ st = "ready" /\ UNCHANGED <<st, log>>
    /\ tail' = <<>> \/ \E r \in Records : tail' = <<r>>

Recover == st = "ready" /\ log' = log \o tail /\ tail' = <<>> /\ UNCHANGED st

Next == Create \/ Format \/ AppendRecord \/ Disturb \/ Recover
Spec == Init /\ [][Next]_<<st, log, tail>>
===============================================================================
