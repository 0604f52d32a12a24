----------------------------- MODULE WorkQueue -----------------------------
(***************************************************************************)
(* main/work_queue.c: the ring buffer with its lock and its two condition  *)
(* variables, used by the tasks at once. The firmware has three kinds of   *)
(* them (stratum_queue, a session's queue, a chain's ASIC_jobs_queue); in  *)
(* each one task fills the queue, one empties it and others may clear it.  *)
(*                                                                         *)
(* A step is one stretch with the lock held: from the call, or from being  *)
(* woken, to the return or to the next wait. A waiter wakes by a signal,   *)
(* for no reason, or because its time is up.                               *)
(***************************************************************************)
EXTENDS Integers, Sequences, FiniteSets

CONSTANTS
    QUEUE_SIZE,     \* 12
    Producers,      \* tasks that call queue_enqueue
    Consumers,      \* tasks that call queue_dequeue or queue_dequeue_timeout
    Owners,         \* the pools a job can be of
    Tags            \* what tells one pool's jobs apart

ASSUME SizeAssumption == QUEUE_SIZE \in Nat \ {0}
ASSUME TasksAssumption == Producers \cap Consumers = {}

Jobs    == [pool : Owners, tag : Tags]
Tasks   == Producers \cup Consumers
Indices == 0 .. (QUEUE_SIZE - 1)
NoJob   == [pool |-> 0, tag |-> 0]  \* what an unused cell holds, never read

VARIABLES
    buffer, head, tail, count,  \* the work_queue
    at,                         \* each task: out of the queue, waiting or woken
    hand                        \* the job a producer is queueing

queueVars == <<buffer, head, tail, count>>
ringVars == <<queueVars, at, hand>>

Waits == {"full", "empty", "timed"}     \* not_full; not_empty, for ever or not
Woken == {"again_put", "again_take", "again_poll"}

RingInit ==
    /\ buffer = [i \in Indices |-> NoJob]
    /\ head = 0
    /\ tail = 0
    /\ count = 0
    /\ at = [t \in Tasks |-> "out"]
    /\ hand \in [Producers -> Jobs]

\* The index after i.
NextIndex(i) == (i + 1) % QUEUE_SIZE

\* pthread_cond_signal on a condition: one of its waiters, if any, is woken. The
\* signalling task t is done and out of the queue.
Again(w) == CASE w = "full" -> "again_put" [] w = "empty" -> "again_take"
              [] w = "timed" -> "again_poll"
NoSignal(ws, t) == at' = [at EXCEPT ![t] = "out"]                 \* mutant: no signal
Signal(ws, t) ==
    LET waiting == {u \in Tasks \ {t} : at[u] \in ws} IN
    IF waiting = {} THEN at' = [at EXCEPT ![t] = "out"]
    ELSE \E u \in waiting : at' = [at EXCEPT ![t] = "out", ![u] = Again(at[u])]

NotFull  == {"full"}
NotEmpty == {"empty", "timed"}

Enqueue(t) ==
    /\ at[t] \in {"out", "again_put"}
    /\ count < QUEUE_SIZE
    /\ buffer' = [buffer EXCEPT ![tail] = hand[t]]
    /\ tail' = NextIndex(tail)
    /\ count' = count + 1
    /\ Signal(NotEmpty, t)
    /\ \E j \in Jobs : hand' = [hand EXCEPT ![t] = j]
    /\ UNCHANGED head

EnqueueWaits(t) ==
    /\ at[t] \in {"out", "again_put"}
    /\ count = QUEUE_SIZE
    /\ at' = [at EXCEPT ![t] = "full"]
    /\ UNCHANGED <<queueVars, hand>>

\* queue_dequeue and queue_dequeue_timeout take the same way.
Dequeue(t) ==
    /\ at[t] \in {"out", "again_take", "again_poll"}
    /\ count > 0
    /\ head' = NextIndex(head)
    /\ count' = count - 1
    /\ Signal(NotFull, t)
    /\ UNCHANGED <<buffer, tail, hand>>

DequeueWaits(t) ==
    /\ count = 0
    /\ \/ at[t] \in {"out", "again_take"} /\ at' = [at EXCEPT ![t] = "empty"]
       \/ at[t] \in {"out", "again_poll"} /\ at' = [at EXCEPT ![t] = "timed"]
    /\ UNCHANGED <<queueVars, hand>>

\* The deadline passes with nothing there: NULL.
DequeueTimesOut(t) ==
    /\ at[t] = "timed"
    /\ at' = [at EXCEPT ![t] = "out"]
    /\ UNCHANGED <<queueVars, hand>>

WakesForNothing(t) ==
    /\ at[t] \in Waits
    /\ at' = [at EXCEPT ![t] = Again(@)]
    /\ UNCHANGED <<queueVars, hand>>

\* The clears are made by tasks that are not waiting in this queue. queue_clear
\* and ASIC_jobs_queue_clear walk head up to tail.
SignalFrom(ws) ==
    LET waiting == {u \in Tasks : at[u] \in ws} IN
    IF waiting = {} THEN UNCHANGED at
    ELSE \E u \in waiting : at' = [at EXCEPT ![u] = Again(at[u])]

\* The mutant empties the queue and forgets where the next job goes.
ClearedToStart == head' = 0 /\ UNCHANGED tail
ClearedToTail == head' = (head + count) % QUEUE_SIZE /\ UNCHANGED tail

Clear ==
    /\ ClearedToTail
    /\ count' = 0
    /\ SignalFrom(NotFull)
    /\ UNCHANGED <<buffer, hand>>

\* ASIC_jobs_queue_clear_pool keeps the others' jobs, in the order they come, and
\* puts them back from the start of the buffer.
Contents == [i \in 1 .. count |-> buffer[(head + i - 1) % QUEUE_SIZE]]
NotOf(p) == {i \in 1 .. count : Contents[i].pool # p}

ClearPool ==
    \E p \in Owners : \E keep \in [1 .. Cardinality(NotOf(p)) -> NotOf(p)] :
        /\ \A i, k \in DOMAIN keep : i < k => keep[i] < keep[k]
        /\ head' = 0
        /\ tail' = Cardinality(NotOf(p)) % QUEUE_SIZE
        /\ count' = Cardinality(NotOf(p))
        /\ buffer' = [i \in Indices |-> IF i + 1 \in DOMAIN keep THEN Contents[keep[i + 1]]
                                                                 ELSE buffer[i]]
        /\ SignalFrom(NotFull)
        /\ UNCHANGED hand

RingNext ==
    \/ \E t \in Producers : Enqueue(t) \/ EnqueueWaits(t)
    \/ \E t \in Consumers : Dequeue(t) \/ DequeueWaits(t) \/ DequeueTimesOut(t)
    \/ \E t \in Tasks : WakesForNothing(t)
    \/ Clear
    \/ ClearPool

RingSpec == RingInit /\ [][RingNext]_ringVars

-----------------------------------------------------------------------------
(* Properties. *)

\* Every variable stays in its set: no index runs off the buffer and the count is
\* never more than there is room for.
RingTypeOK ==
    /\ buffer \in [Indices -> Jobs \cup {NoJob}]
    /\ head \in Indices
    /\ tail \in Indices
    /\ count \in 0 .. QUEUE_SIZE
    /\ at \in [Tasks -> {"out"} \cup Waits \cup Woken]
    /\ hand \in [Producers -> Jobs]

\* head, tail and count always describe the same stretch of the buffer, and every
\* cell of it holds a job somebody queued.
RingConsistent ==
    /\ tail = (head + count) % QUEUE_SIZE
    /\ \A i \in 1 .. count : Contents[i] \in Jobs

\* The ring buffer is a first-in first-out queue: every operation, the two clears
\* included, is one step of FifoQueue on the jobs from head to tail.
Fifo == INSTANCE FifoQueue WITH Capacity <- QUEUE_SIZE, q <- Contents
ImplementsFifo == Fifo!Spec

\* No wake-up is lost: a task sleeps on a condition only while the condition does
\* not hold or a task it holds for has been woken and is on its way.
NoLostWakeup ==
    /\ (\E t \in Producers : at[t] = "full")
          => count = QUEUE_SIZE \/ \E t \in Producers : at[t] = "again_put"
    /\ (\E t \in Consumers : at[t] \in NotEmpty)
          => count = 0 \/ \E t \in Consumers : at[t] \in {"again_take", "again_poll"}
=============================================================================
