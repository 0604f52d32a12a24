----------------------------- MODULE FifoQueue -----------------------------
(***************************************************************************)
(* What the tasks take a work_queue to be: a first-in first-out queue of   *)
(* bounded length, from which all jobs, or those of one pool, can be       *)
(* dropped without disturbing the order of the rest. WorkQueue, the ring   *)
(* buffer of main/work_queue.c, implements it.                             *)
(***************************************************************************)
EXTENDS Integers, Sequences

CONSTANTS
    Capacity,   \* QUEUE_SIZE
    Jobs,       \* what is queued: records with a field pool
    Owners      \* the pools

VARIABLE q

Init == q = <<>>

Put  == \E j \in Jobs : Len(q) < Capacity /\ q' = Append(q, j)
Take == q # <<>> /\ q' = Tail(q)
Drop == q' = <<>>

\* r is s without pool p's jobs: an increasing function finds each of the others in
\* the place it had.
Others(s, p) == {i \in 1 .. Len(s) : s[i].pool # p}
Without(s, p, r) ==
    \E e \in [1 .. Len(r) -> Others(s, p)] :
        /\ \A i, k \in DOMAIN e : i < k => e[i] < e[k]
        /\ \A i \in Others(s, p) : \E k \in DOMAIN e : e[k] = i
        /\ \A k \in DOMAIN e : r[k] = s[e[k]]
DropPool == \E p \in Owners : Without(q, p, q')

Next == Put \/ Take \/ Drop \/ DropPool

Spec == Init /\ [][Next]_q
=============================================================================
