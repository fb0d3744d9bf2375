-------------------------------- MODULE PathInv --------------------------------
(***************************************************************************)
(* The inductive invariant of ReadPath.                                    *)
(* An apply removes the entry it replaces before it inserts its own, so    *)
(* that a key may be missing while it is written.  What holds in every     *)
(* state is that whatever is removed is owed: some apply of the key, with  *)
(* a number at least as large, has not inserted yet.                       *)
(***************************************************************************)
EXTENDS ReadPath

Applies(t) == pc[t] \in Busy
Pending(u, k) == Applying(u, k) /\ pc[u] # "account"

\* Sequence numbers: every apply has its own, above whatever is below and other than that
\* of any apply that has returned.
InvNumbers ==
    /\ \A t \in Threads :
          /\ Applies(t) => /\ t \in Writers /\ Rec(t).seq \in called
                           /\ Present(Rec(t))
          /\ pc[t] \in {"get", "got", "answered"} => t \in Readers
    /\ \A t, u \in Threads : t # u /\ Applies(t) /\ Applies(u) => Rec(t).seq # Rec(u).seq
    /\ \A k \in Keys : done[k].seq \in called \cup {0}
    /\ \A k \in Keys, t \in Threads :
          Applies(t) => done[k].seq # Rec(t).seq /\ below[k].seq < Rec(t).seq

\* A number is covered: the key has it or a newer one, or an apply still owes one.
Covered(k, n) == \/ Over(map[k], below[k]).seq >= n
                 \/ \E u \in Threads : Pending(u, k) /\ Rec(u).seq >= n
InvCovered ==
    /\ \A k \in Keys : Covered(k, done[k].seq)
    /\ \A t \in Threads : At(t, "account") => Covered(Key(t), Rec(t).seq)
    /\ \A t \in Threads : At(t, "remove") => Rec(t).seq >= op[t].node.seq

\* What a key has is of an apply that is about to return, or no newer than what has.
NotAfter(e, d) == e.seq <= d.seq /\ (e.seq = d.seq => e = d)
InvOrigin ==
    \A k \in Keys :
       /\ NotAfter(below[k], done[k])
       /\ \/ ~Present(map[k]) \/ NotAfter(map[k], done[k])
          \/ \E t \in Threads : Applying(t, k) /\ At(t, "account") /\ map[k] = Rec(t)

\* A key that is not raced is written by one apply at a time, which finds it as it left it.
Alone(t, k) ==
    /\ pc[t] \in {"search", "remove"} /\ Present(map[k]) => EncodedSize(map[k]) = op[t].old
    /\ pc[t] = "remove" => map[k] = op[t].node
    /\ pc[t] = "insert" => map[k] = Absent
    /\ pc[t] = "account" => map[k] = Rec(t)
InvAlone ==
    \A k \in Keys \ raced :
       /\ Present(map[k]) => map[k].seq >= done[k].seq
       /\ \A t \in Threads : Applying(t, k) => Alone(t, k)
       /\ \A t, u \in Threads : Applying(t, k) /\ Applying(u, k) => t = u

\* A get: nothing it goes by is older than what had been applied at its call.
GetsRight(t) ==
    /\ pc[t] = "get" => op[t].node.seq <= done[Key(t)].seq
    /\ pc[t] = "got" /\ Present(Rec(t)) /\ Key(t) \notin raced => Rec(t).seq >= op[t].node.seq
    /\ pc[t] = "got" /\ ~Present(Rec(t)) =>
          t \in overlapped \/ below[Key(t)].seq >= op[t].node.seq
    /\ pc[t] = "answered" => /\ Rec(t) = below[Key(t)]
                             /\ t \in overlapped \/ Rec(t).seq >= op[t].node.seq
InvGets == \A t \in Threads : GetsRight(t)

\* The byte counter: each apply that returned has added at most one record.
Largest == KeyLen + Overhead + Max(ValueLens \cup {0})
Settled == {n \in called : \A t \in Threads : Applies(t) => Rec(t).seq # n}
InvBytes == bytes <= Largest * Cardinality(Settled)

\* Where no key is raced the counter has the size of what each key's last apply found or left.
Counting(t, k) == Applying(t, k) /\ ~At(t, "size")
Counted == [k \in Keys |-> IF \E t \in Threads : Counting(t, k)
                           THEN op[CHOOSE t \in Threads : Counting(t, k)].old
                           ELSE EncodedSize(map[k])]
Total(sizes) == MapThenSumSet(LAMBDA k : sizes[k], Keys)
InvSize == raced = {} => bytes = Total(Counted)

PathInv ==
    /\ ReadTypeOK /\ InvNumbers /\ InvCovered /\ InvOrigin /\ InvAlone /\ InvGets
    /\ InvBytes /\ InvSize
===============================================================================
