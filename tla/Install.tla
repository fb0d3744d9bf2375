-------------------------------- MODULE Install --------------------------------
(***************************************************************************)
(* The job of the flush worker on one table (install_sst of                *)
(* src/src/engine.rs), composed with the file and its reader: the table is *)
(* written under its .sst.tmp name, synced, renamed, opened and read, and  *)
(* wal.flush, which holds the same records, is removed.  Any call may      *)
(* fail, and the power may go at any moment.                               *)
(*                                                                         *)
(* Engine has the same job with its locks and other threads, and takes the *)
(* content of a file and the order of directory changes for granted.       *)
(***************************************************************************)
EXTENDS SsTable

VARIABLES
    name,      \* the name of the file, "tmp" or "sst"
    log,       \* wal.flush is there
    stable     \* the records of the file that are on the device, Bad before any sync

dir == <<name, log, stable>>
installVars == <<vars, dir>>
-------------------------------------------------------------------------------
\* flush_memtable: a file is created, gets the entries, is finished and synced.
SyncForgotten == Sync /\ UNCHANGED dir
SyncFile == Sync /\ stable' = Decoded /\ UNCHANGED <<name, log>>
WriteFile == Create \/ (\E r \in Recs : (r.kind = "Tombstone" => r.len = 0) /\ Add(r)) \/ Finish

Rename ==
    /\ phase = "closed" /\ name = "tmp"
    /\ name' = "sst"
    /\ UNCHANGED <<vars, log, stable>>

\* SstReader::open of the final name; when it fails the job ends with the log in place.
OpenFinal == name = "sst" /\ Open /\ UNCHANGED dir

RemoveLog ==
    /\ phase = "open" /\ log
    /\ log' = FALSE
    /\ UNCHANGED <<vars, name, stable>>

\* A write, the sync, the rename or the open returns an I/O error and `?` ends the job.
Fails ==
    /\ phase \in {"none", "writing", "written", "closed"}
    /\ phase' = "failed"
    /\ UNCHANGED <<writer, footer, reader, added, damaged, dir>>
-------------------------------------------------------------------------------
InstallInit == Init /\ name = "tmp" /\ log = TRUE /\ stable = Bad

InstallNext ==
    \/ (WriteFile \/ Damage \/ GetBegin \/ Search \/ GetReturn) /\ UNCHANGED dir
    \/ SyncFile \/ Rename \/ OpenFinal \/ RemoveLog \/ Fails

\* A get that has begun keeps running.
InstallSpec == InstallInit /\ [][InstallNext]_installVars /\ WF_installVars(Search /\ UNCHANGED dir)
-------------------------------------------------------------------------------
(***************************************************************************)
(* Properties.                                                             *)
(***************************************************************************)
\* A file has its final name only when all its records are on the device, so that a power
\* loss never leaves a name that every later open trips over; and wal.flush is gone only
\* when such a file has been opened, so that the records are in the one or in the other
\* whenever the directory is on the device as the calls left it (engine.rs:547-558).
PublishedIsWhole ==
    /\ name = "sst" => stable = added
    /\ ~log => name = "sst" /\ phase = "open"
===============================================================================
