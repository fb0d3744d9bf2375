------------------------------- MODULE MCEngine -------------------------------
(***************************************************************************)
(* TLC instances of Engine, and the refinement of StateStore.              *)
(***************************************************************************)
EXTENDS DurableInv, TLC

\* Which of two threads of the same roles does something makes no difference to safety.
Interchangeable ==
    Permutations(Writers \ Flushers) \cup Permutations(Flushers \ Writers)
    \cup Permutations(Writers \cap Readers \cap Flushers)

\* A bound for the larger instance: odd numbers are given to puts and even ones to
\* deletes.  No step of Engine treats the two differently.
KindOf(n) == IF n % 2 = 1 THEN "Put" ELSE "Tombstone"
PutsAndDeletesInTurn ==
    \A k \in Keys : \A c \in {wal.log[k], wal.tail[k]} : IsHit(c) => c.kind = KindOf(c.seq)

\* A directory with acknowledged writes can be opened again after a crash: "motor con
\* MemTable reconstruida por replay" (engine.rs:216).
OpenSucceeds == mode = "refused" => IsEmpty(committed)
===============================================================================
