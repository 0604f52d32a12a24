-------------------------- MODULE JobPath_proofs --------------------------
(***************************************************************************)
(* Proofs about a job's way to the chips: the ring buffer of               *)
(* main/work_queue.c, for any size, any tasks and any jobs, and the slots  *)
(* of the BM1370 driver, for any number of them.                           *)
(***************************************************************************)
EXTENDS WorkQueue, SlotTable, FiniteSetTheorems, TLAPS

-----------------------------------------------------------------------------
(***************************************************************************)
(* The ring buffer. head, tail and count stay in step, every operation is  *)
(* one step of a first-in first-out queue, and, with the one task that     *)
(* fills a queue and the one that empties it, no wake-up is lost.          *)
(***************************************************************************)

-----------------------------------------------------------------------------
(* Indices of the ring. *)

LEMMA ModValues ==
  ASSUME NEW n \in Nat \ {0}
  PROVE  /\ \A a \in 0 .. (n - 1) : a % n = a
         /\ \A a \in n .. (2 * n - 1) : a % n = a - n
<1>1. ASSUME NEW a \in 0 .. (n - 1) PROVE a % n = a
  OBVIOUS
<1>2. ASSUME NEW a \in n .. (2 * n - 1) PROVE a % n = a - n
  OBVIOUS
<1> QED  BY <1>1, <1>2

\* The cell c places after cell h.
CellAt(h, c) == IF h + c < QUEUE_SIZE THEN h + c ELSE h + c - QUEUE_SIZE

LEMMA Cells ==
  ASSUME NEW h \in Indices, NEW c \in 0 .. QUEUE_SIZE
  PROVE  /\ (h + c) % QUEUE_SIZE = CellAt(h, c)
         /\ CellAt(h, c) \in Indices
<1>1. /\ QUEUE_SIZE \in Nat \ {0} /\ h \in Nat /\ h < QUEUE_SIZE
      /\ c \in Nat /\ c <= QUEUE_SIZE
  BY SizeAssumption DEF Indices
<1>2. CASE h + c < QUEUE_SIZE
  <2>1. h + c \in 0 .. (QUEUE_SIZE - 1)
    BY <1>1, <1>2
  <2> QED  BY <1>1, <1>2, <2>1, ModValues DEF CellAt, Indices
<1>3. CASE ~(h + c < QUEUE_SIZE)
  <2>1. h + c \in QUEUE_SIZE .. (2 * QUEUE_SIZE - 1)
    BY <1>1, <1>3
  <2>2. h + c - QUEUE_SIZE \in 0 .. (QUEUE_SIZE - 1)
    BY <1>1, <2>1
  <2> QED  BY <1>1, <1>3, <2>1, <2>2, ModValues DEF CellAt, Indices
<1> QED  BY <1>2, <1>3

LEMMA NextCell ==
  ASSUME NEW h \in Indices
  PROVE  NextIndex(h) = CellAt(h, 1) /\ NextIndex(h) \in Indices
<1>1. 1 \in 0 .. QUEUE_SIZE
  BY SizeAssumption
<1> QED  BY <1>1, Cells DEF NextIndex

\* The jobs in the queue, cell by cell.
LEMMA ContentsAre ==
  ASSUME RingTypeOK
  PROVE  /\ count \in Nat /\ Len(Contents) = count /\ DOMAIN Contents = 1 .. count
         /\ Contents \in Seq(Jobs \cup {NoJob})
         /\ \A i \in 1 .. count : /\ Contents[i] = buffer[CellAt(head, i - 1)]
                                  /\ CellAt(head, i - 1) \in Indices
<1>1. /\ count \in Nat /\ count <= QUEUE_SIZE /\ head \in Indices
      /\ buffer \in [Indices -> Jobs \cup {NoJob}]
  BY SizeAssumption DEF RingTypeOK
<1>2. ASSUME NEW i \in 1 .. count
      PROVE  /\ (head + i - 1) % QUEUE_SIZE = CellAt(head, i - 1)
             /\ CellAt(head, i - 1) \in Indices
  <2>1. i - 1 \in 0 .. QUEUE_SIZE /\ head + i - 1 = head + (i - 1)
    BY <1>1, SizeAssumption DEF Indices
  <2> QED  BY <1>1, <2>1, Cells
<1>3. /\ Contents = [i \in 1 .. count |-> buffer[CellAt(head, i - 1)]]
      /\ \A i \in 1 .. count : buffer[CellAt(head, i - 1)] \in Jobs \cup {NoJob}
  BY <1>1, <1>2 DEF Contents
<1> QED  BY <1>1, <1>2, <1>3

-----------------------------------------------------------------------------
(* Every task's place, and what a signal changes of it. *)

Places == {"out"} \cup Waits \cup Woken
PlacesOK ==
    /\ \A t \in Producers : at[t] \in {"out", "full", "again_put"}
    /\ \A t \in Consumers : at[t] \in {"out", "empty", "timed", "again_take", "again_poll"}

LEMMA WokenPlaces ==
  /\ \A w \in Waits : Again(w) \in Woken
  /\ Again("full") = "again_put" /\ Again("empty") = "again_take"
  /\ Again("timed") = "again_poll"
  BY DEF Again, Waits, Woken

\* A task is out when it signals; of those that wait, some one is woken.
LEMMA Signalled ==
  ASSUME at \in [Tasks -> Places], NEW ws \in SUBSET Waits, NEW t \in Tasks, Signal(ws, t)
  PROVE  /\ at' \in [Tasks -> Places] /\ at'[t] = "out"
         /\ \A u \in Tasks \ {t} :
               at'[u] = at[u] \/ (at[u] \in ws /\ at'[u] = Again(at[u]))
         /\ (\E u \in Tasks \ {t} : at[u] \in ws)
               => \E u \in Tasks \ {t} : at[u] \in ws /\ at'[u] = Again(at[u])
<1> DEFINE waiting == {u \in Tasks \ {t} : at[u] \in ws}
<1>1. CASE waiting = {}
  <2>1. at' = [at EXCEPT ![t] = "out"]
    BY <1>1 DEF Signal
  <2> QED  BY <1>1, <2>1 DEF Places
<1>2. CASE waiting # {}
  <2>1. PICK u \in waiting : at' = [at EXCEPT ![t] = "out", ![u] = Again(at[u])]
    BY <1>2 DEF Signal
  <2>2. u \in Tasks /\ u # t /\ at[u] \in ws /\ Again(at[u]) \in Places
    BY <2>1, WokenPlaces DEF Places
  <2> QED  BY <2>1, <2>2 DEF Places
<1> QED  BY <1>1, <1>2

LEMMA SignalledFrom ==
  ASSUME at \in [Tasks -> Places], NEW ws \in SUBSET Waits, SignalFrom(ws)
  PROVE  /\ at' \in [Tasks -> Places]
         /\ \A u \in Tasks :
               at'[u] = at[u] \/ (at[u] \in ws /\ at'[u] = Again(at[u]))
         /\ (\E u \in Tasks : at[u] \in ws)
               => \E u \in Tasks : at[u] \in ws /\ at'[u] = Again(at[u])
<1> DEFINE waiting == {u \in Tasks : at[u] \in ws}
<1>1. CASE waiting = {}
  BY <1>1 DEF SignalFrom
<1>2. CASE waiting # {}
  <2>1. PICK u \in waiting : at' = [at EXCEPT ![u] = Again(at[u])]
    BY <1>2 DEF SignalFrom
  <2>2. u \in Tasks /\ at[u] \in ws /\ Again(at[u]) \in Places
    BY <2>1, WokenPlaces DEF Places
  <2> QED  BY <2>1, <2>2
<1> QED  BY <1>1, <1>2

-----------------------------------------------------------------------------
(* Each operation, on the jobs from head to tail. *)

Ready == RingTypeOK /\ RingConsistent

\* The indices stay in range and in step.
QueueOK == /\ buffer \in [Indices -> Jobs \cup {NoJob}] /\ head \in Indices /\ tail \in Indices
           /\ count \in 0 .. QUEUE_SIZE /\ tail = (head + count) % QUEUE_SIZE

LEMMA ReadyParts ==
  ASSUME Ready
  PROVE  /\ buffer \in [Indices -> Jobs \cup {NoJob}] /\ head \in Indices /\ tail \in Indices
         /\ count \in 0 .. QUEUE_SIZE /\ count \in Nat /\ head \in Nat /\ head < QUEUE_SIZE
         /\ QUEUE_SIZE \in Nat \ {0}
         /\ tail = CellAt(head, count)
         /\ Contents \in Seq(Jobs) /\ Len(Contents) = count
<1>1. /\ buffer \in [Indices -> Jobs \cup {NoJob}] /\ head \in Indices /\ tail \in Indices
      /\ count \in 0 .. QUEUE_SIZE
  BY DEF Ready, RingTypeOK
<1>2. tail = CellAt(head, count)
  BY <1>1, Cells DEF Ready, RingConsistent
<1>3. /\ Contents \in Seq(Jobs) /\ Len(Contents) = count
  <2>1. \A i \in 1 .. count : Contents[i] \in Jobs
    BY DEF Ready, RingConsistent
  <2>2. /\ Contents \in Seq(Jobs \cup {NoJob}) /\ Len(Contents) = count
        /\ DOMAIN Contents = 1 .. count /\ count \in Nat
    BY ContentsAre DEF Ready
  <2> QED  BY <2>1, <2>2
<1> QED  BY <1>1, <1>2, <1>3, SizeAssumption DEF Indices

\* A sequence is Contents' when it has its length and, cell by cell, its jobs.
LEMMA ContentsBecome ==
  ASSUME QueueOK', NEW s \in Seq(Jobs), Len(s) = count',
         \A i \in 1 .. count' : buffer'[CellAt(head', i - 1)] = s[i]
  PROVE  Contents' = s
<1>1. count' \in Nat /\ count' <= QUEUE_SIZE /\ head' \in Indices
  BY SizeAssumption DEF QueueOK
<1>2. ASSUME NEW i \in 1 .. count'
      PROVE  (head' + i - 1) % QUEUE_SIZE = CellAt(head', i - 1)
  <2>1. i - 1 \in 0 .. QUEUE_SIZE /\ head' + i - 1 = head' + (i - 1)
    BY <1>1, SizeAssumption DEF Indices
  <2> QED  BY <1>1, <2>1, Cells
<1>3. Contents' = [i \in 1 .. count' |-> s[i]]
  BY <1>2 DEF Contents
<1> QED  BY <1>1, <1>3

LEMMA EnqueuePuts ==
  ASSUME Ready, NEW t \in Producers, Enqueue(t)
  PROVE  /\ QueueOK' /\ hand' \in [Producers -> Jobs]
         /\ hand[t] \in Jobs /\ Len(Contents) < QUEUE_SIZE
         /\ Contents' = Append(Contents, hand[t])
<1>1. /\ count < QUEUE_SIZE /\ buffer' = [buffer EXCEPT ![tail] = hand[t]]
      /\ tail' = NextIndex(tail) /\ count' = count + 1 /\ head' = head
      /\ \E j \in Jobs : hand' = [hand EXCEPT ![t] = j]
  BY DEF Enqueue
<1>2. hand \in [Producers -> Jobs] /\ hand[t] \in Jobs
  BY DEF Ready, RingTypeOK
<1>3. count' \in 0 .. QUEUE_SIZE
  BY <1>1, ReadyParts
<1>4. tail' = CellAt(head', count') /\ tail' \in Indices
  BY <1>1, ReadyParts, NextCell DEF CellAt
<1>5. QueueOK'
  <2>1. tail' = (head' + count') % QUEUE_SIZE
    BY <1>1, <1>3, <1>4, ReadyParts, Cells
  <2> QED  BY <1>1, <1>2, <1>3, <1>4, <2>1, ReadyParts DEF QueueOK
<1> DEFINE s == Append(Contents, hand[t])
<1>6. /\ s \in Seq(Jobs) /\ Len(s) = count' /\ s[count + 1] = hand[t]
      /\ \A i \in 1 .. count : s[i] = Contents[i]
  BY <1>1, <1>2, ReadyParts
<1> HIDE DEF s
<1>7. ASSUME NEW i \in 1 .. count'
      PROVE  buffer'[CellAt(head', i - 1)] = s[i]
  <2>1. CASE i = count + 1
    <3>1. CellAt(head', i - 1) = tail
      BY <1>1, <2>1, ReadyParts
    <3> QED  BY <1>1, <1>6, <2>1, <3>1, ReadyParts
  <2>2. CASE i \in 1 .. count
    <3>1. CellAt(head, i - 1) # CellAt(head, count) /\ CellAt(head, i - 1) \in Indices
      BY <1>1, <2>2, ReadyParts DEF CellAt, Indices
    <3>2. Contents[i] = buffer[CellAt(head, i - 1)]
      BY <2>2, ContentsAre DEF Ready
    <3> QED  BY <1>1, <1>6, <2>2, <3>1, <3>2, ReadyParts
  <2> QED  BY <1>1, <2>1, <2>2, ReadyParts
<1>8. Contents' = s
  BY <1>5, <1>6, <1>7, ContentsBecome
<1> QED  BY <1>1, <1>2, <1>5, <1>8, ReadyParts DEF s

LEMMA DequeueTakes ==
  ASSUME Ready, NEW t \in Consumers, Dequeue(t)
  PROVE  /\ QueueOK' /\ UNCHANGED hand
         /\ Contents # <<>> /\ Contents' = Tail(Contents)
<1>1. /\ count > 0 /\ head' = NextIndex(head) /\ count' = count - 1
      /\ UNCHANGED <<buffer, tail, hand>>
  BY DEF Dequeue
<1>2. count' \in 0 .. QUEUE_SIZE /\ head' \in Indices /\ head' = CellAt(head, 1)
  BY <1>1, ReadyParts, NextCell
<1>3. tail' = CellAt(head', count')
  BY <1>1, <1>2, ReadyParts DEF CellAt
<1>4. QueueOK'
  <2>1. tail' = (head' + count') % QUEUE_SIZE
    BY <1>2, <1>3, Cells
  <2> QED  BY <1>1, <1>2, <2>1, ReadyParts DEF QueueOK
<1> DEFINE s == Tail(Contents)
<1>5. /\ Contents # <<>> /\ s \in Seq(Jobs) /\ Len(s) = count'
      /\ \A i \in 1 .. count' : s[i] = Contents[i + 1] /\ i + 1 \in 1 .. count
  BY <1>1, ReadyParts
<1> HIDE DEF s
<1>6. ASSUME NEW i \in 1 .. count'
      PROVE  buffer'[CellAt(head', i - 1)] = s[i]
  <2>1. CellAt(head', i - 1) = CellAt(head, i)
    <3>1. /\ i \in Nat /\ i < count /\ head \in Nat /\ head < QUEUE_SIZE /\ count <= QUEUE_SIZE
          /\ QUEUE_SIZE \in Nat \ {0} /\ i >= 1 /\ count \in Nat
      BY <1>1, ReadyParts
    <3>2. CASE head + 1 < QUEUE_SIZE
      <4>1. head' = head + 1
        BY <1>2, <3>2 DEF CellAt
      <4> QED  BY <3>1, <4>1 DEF CellAt
    <3>3. CASE head + 1 = QUEUE_SIZE
      <4>1. head' = 0
        BY <1>2, <3>1, <3>3 DEF CellAt
      <4> QED  BY <3>1, <3>3, <4>1 DEF CellAt
    <3> QED  BY <3>1, <3>2, <3>3
  <2>2. i + 1 \in 1 .. count /\ (i + 1) - 1 = i
    BY <1>5
  <2>3. Contents[i + 1] = buffer[CellAt(head, (i + 1) - 1)]
    BY <2>2, ContentsAre DEF Ready
  <2> QED  BY <1>1, <1>5, <2>1, <2>2, <2>3
<1>7. Contents' = s
  BY <1>4, <1>5, <1>6, ContentsBecome
<1> QED  BY <1>1, <1>4, <1>5, <1>7 DEF s

LEMMA ClearDrops ==
  ASSUME Ready, Clear
  PROVE  QueueOK' /\ UNCHANGED hand /\ Contents' = <<>>
<1>1. /\ head' = (head + count) % QUEUE_SIZE /\ tail' = tail /\ count' = 0
      /\ UNCHANGED <<buffer, hand>>
  BY DEF Clear, ClearedToTail
<1>2. head' = tail /\ head' \in Indices
  BY <1>1, ReadyParts, Cells
<1>3. 0 \in 0 .. QUEUE_SIZE /\ CellAt(head', 0) = head'
  BY <1>2, ReadyParts DEF CellAt, Indices
<1>4. QueueOK'
  BY <1>1, <1>2, <1>3, ReadyParts, Cells DEF QueueOK
<1>5. Contents' = <<>>
  <2>1. <<>> \in Seq(Jobs) /\ Len(<<>>) = count' /\ 1 .. count' = {}
    BY <1>1
  <2> QED  BY <1>4, <2>1, ContentsBecome
<1> QED  BY <1>1, <1>4, <1>5

LEMMA ClearPoolDrops ==
  ASSUME Ready, ClearPool
  PROVE  /\ QueueOK' /\ UNCHANGED hand /\ count' <= count
         /\ Contents' \in Seq(Jobs)
         /\ \E p \in Owners : Fifo!Without(Contents, p, Contents')
<1>1. PICK p \in Owners : \E keep \in [1 .. Cardinality(NotOf(p)) -> NotOf(p)] :
        /\ \A i, k \in DOMAIN keep : i < k => keep[i] < keep[k]
        /\ head' = 0
        /\ tail' = Cardinality(NotOf(p)) % QUEUE_SIZE
        /\ count' = Cardinality(NotOf(p))
        /\ buffer' = [i \in Indices |-> IF i + 1 \in DOMAIN keep THEN Contents[keep[i + 1]]
                                                                 ELSE buffer[i]]
        /\ UNCHANGED hand
  BY DEF ClearPool
<1> DEFINE O == NotOf(p)
           n == Cardinality(O)
<1>2. PICK keep \in [1 .. n -> O] :
        /\ \A i, k \in DOMAIN keep : i < k => keep[i] < keep[k]
        /\ head' = 0 /\ tail' = n % QUEUE_SIZE /\ count' = n
        /\ buffer' = [i \in Indices |-> IF i + 1 \in DOMAIN keep THEN Contents[keep[i + 1]]
                                                                 ELSE buffer[i]]
        /\ UNCHANGED hand
  BY <1>1
<1>3. O \in SUBSET (1 .. count) /\ IsFiniteSet(O) /\ n \in Nat /\ n <= count
  <2>1. IsFiniteSet(1 .. count) /\ Cardinality(1 .. count) = count
    <3>1. \A m \in Nat : IsFiniteSet(1 .. m) /\ Cardinality(1 .. m) = m
      BY FS_Interval
    <3> QED  BY <3>1, ReadyParts
  <2>2. O \in SUBSET (1 .. count)
    BY DEF NotOf
  <2> HIDE DEF O
  <2>3. IsFiniteSet(O) /\ Cardinality(O) <= Cardinality(1 .. count)
    BY <2>1, <2>2, FS_Subset
  <2>4. n \in Nat
    BY <2>3, FS_CardinalityType
  <2> QED  BY <2>1, <2>2, <2>3, <2>4
<1>4. O = Fifo!Others(Contents, p)
  <2>1. Len(Contents) = count
    BY ReadyParts
  <2> QED  BY <2>1 DEF NotOf, Fifo!Others
<1> HIDE DEF O, n
<1> DEFINE s == [k \in 1 .. n |-> Contents[keep[k]]]
<1>5. /\ DOMAIN keep = 1 .. n
      /\ \A k \in 1 .. n : keep[k] \in 1 .. count
  BY <1>2, <1>3
<1>6. \A k \in 1 .. n : Contents[keep[k]] \in Jobs
  BY <1>5, ReadyParts
<1>7. s \in Seq(Jobs) /\ Len(s) = n /\ \A k \in 1 .. n : s[k] = Contents[keep[k]]
  BY <1>3, <1>6
<1>8. n \in 0 .. QUEUE_SIZE /\ 0 \in Indices /\ CellAt(0, n) \in Indices
      /\ tail' = CellAt(0, n)
  <2>1. n \in 0 .. QUEUE_SIZE /\ 0 \in Indices /\ 0 + n = n
    BY <1>3, ReadyParts DEF Indices
  <2>2. CellAt(0, n) \in Indices /\ (0 + n) % QUEUE_SIZE = CellAt(0, n)
    BY <2>1, Cells
  <2> QED  BY <1>2, <2>1, <2>2
<1>9. QueueOK'
  <2>1. tail' = (head' + count') % QUEUE_SIZE
    BY <1>2, <1>8, Cells
  <2>2. buffer' \in [Indices -> Jobs \cup {NoJob}]
    <3>1. \A i \in Indices :
             (IF i + 1 \in DOMAIN keep THEN Contents[keep[i + 1]] ELSE buffer[i])
                \in Jobs \cup {NoJob}
      BY <1>5, <1>6, ReadyParts
    <3> QED  BY <1>2, <3>1
  <2> QED  BY <1>2, <1>8, <2>1, <2>2 DEF QueueOK
<1>10. ASSUME NEW i \in 1 .. count'
       PROVE  buffer'[CellAt(head', i - 1)] = s[i]
  <2>1. CellAt(head', i - 1) = i - 1 /\ i - 1 \in Indices /\ (i - 1) + 1 = i
    BY <1>2, <1>3, ReadyParts DEF CellAt, Indices
  <2>2. i \in 1 .. n
    BY <1>2
  <2> QED  BY <1>2, <1>5, <1>7, <2>1, <2>2
<1>11. Contents' = s
  BY <1>2, <1>7, <1>9, <1>10, ContentsBecome
\* As many places as there are: each is kept.
<1>12. \A i \in O : \E k \in 1 .. n : keep[k] = i
  <2>1. ASSUME NEW i \in 1 .. n, NEW k \in 1 .. n, keep[i] = keep[k]
        PROVE  i = k
    <3>1. /\ keep[i] \in Int /\ keep[k] \in Int /\ i \in Int /\ k \in Int
          /\ ~(i < k) /\ ~(k < i)
      BY <1>2, <1>5, <2>1, ReadyParts
    <3> QED  BY <3>1
  <2>2. keep \in Injection(1 .. n, O)
    BY <1>2, <2>1 DEF Injection, IsInjective
  <2>3. Cardinality(1 .. n) = Cardinality(O)
    BY <1>3, FS_Interval DEF n
  <2>4. keep \in Surjection(1 .. n, O)
    BY <1>3, <2>2, <2>3, FS_Injection
  <2> QED  BY <2>4 DEF Surjection
<1>13. Fifo!Without(Contents, p, s)
  <2>1. /\ keep \in [1 .. Len(s) -> Fifo!Others(Contents, p)] /\ DOMAIN keep = 1 .. n
        /\ \A i \in Fifo!Others(Contents, p) : \E k \in DOMAIN keep : keep[k] = i
        /\ \A k \in DOMAIN keep : s[k] = Contents[keep[k]]
    BY <1>2, <1>4, <1>5, <1>7, <1>12
  <2> QED  BY <1>2, <2>1 DEF Fifo!Without
<1> QED  BY <1>1, <1>2, <1>3, <1>7, <1>9, <1>11, <1>13

-----------------------------------------------------------------------------
(* The invariant, and the steps as those of a first-in first-out queue. *)

\* What the signalling operations need of the conditions.
LEMMA Conditions ==
  /\ NotFull \in SUBSET Waits /\ NotEmpty \in SUBSET Waits
  /\ \A t \in Producers : t \in Tasks /\ t \notin Consumers
  /\ \A t \in Consumers : t \in Tasks /\ t \notin Producers
  /\ \A t \in Tasks : t \in Producers \/ t \in Consumers
  BY TasksAssumption DEF NotFull, NotEmpty, Waits, Tasks

LEMMA RingStart == RingInit => Ready /\ Contents = <<>>
<1> SUFFICES ASSUME RingInit PROVE Ready /\ Contents = <<>>
  OBVIOUS
<1>1. 0 \in Indices /\ 0 \in 0 .. QUEUE_SIZE /\ (0 + 0) % QUEUE_SIZE = 0
  BY SizeAssumption, ModValues DEF Indices
<1>2. RingTypeOK
  BY <1>1 DEF RingInit, RingTypeOK
<1>3. 1 .. count = {} /\ Contents = <<>>
  <2>1. Len(Contents) = 0 /\ Contents \in Seq(Jobs \cup {NoJob}) /\ count = 0
    BY <1>2, ContentsAre DEF RingInit
  <2> QED  BY <2>1
<1>4. RingConsistent
  BY <1>1, <1>3 DEF RingInit, RingConsistent
<1> QED  BY <1>2, <1>3, <1>4 DEF Ready

\* Only the four operations that move jobs touch the buffer.
LEMMA QueueKept ==
  ASSUME Ready, UNCHANGED <<queueVars, hand>>
  PROVE  QueueOK' /\ UNCHANGED <<Contents, hand>>
<1>1. UNCHANGED <<buffer, head, tail, count, hand>>
  BY DEF queueVars
<1> QED  BY <1>1, ReadyParts DEF QueueOK, Contents, Ready, RingConsistent

LEMMA RingMoves ==
  ASSUME Ready, [RingNext]_ringVars
  PROVE  /\ QueueOK' /\ hand' \in [Producers -> Jobs]
         /\ Contents' \in Seq(Jobs)
         /\ [Fifo!Next]_Contents
<1>0. Contents \in Seq(Jobs) /\ hand \in [Producers -> Jobs]
  BY ReadyParts DEF Ready, RingTypeOK
<1>1. CASE UNCHANGED <<queueVars, hand>>
  BY <1>0, <1>1, QueueKept
<1>2. ASSUME NEW t \in Producers, Enqueue(t)
      PROVE  /\ QueueOK' /\ hand' \in [Producers -> Jobs]
             /\ Contents' \in Seq(Jobs) /\ Fifo!Put
  <2>1. /\ QueueOK' /\ hand' \in [Producers -> Jobs] /\ hand[t] \in Jobs
        /\ Len(Contents) < QUEUE_SIZE /\ Contents' = Append(Contents, hand[t])
    BY <1>2, EnqueuePuts
  <2>2. Append(Contents, hand[t]) \in Seq(Jobs)
    BY <1>0, <2>1
  <2>3. \E j \in Jobs : Len(Contents) < QUEUE_SIZE /\ Contents' = Append(Contents, j)
    BY <2>1
  <2> QED  BY <2>1, <2>2, <2>3 DEF Fifo!Put
<1>3. ASSUME NEW t \in Consumers, Dequeue(t)
      PROVE  /\ QueueOK' /\ hand' \in [Producers -> Jobs]
             /\ Contents' \in Seq(Jobs) /\ Fifo!Take
  <2>1. /\ QueueOK' /\ UNCHANGED hand /\ Contents # <<>> /\ Contents' = Tail(Contents)
    BY <1>3, DequeueTakes
  <2> QED  BY <1>0, <2>1 DEF Fifo!Take
<1>4. CASE Clear
  <2>1. QueueOK' /\ UNCHANGED hand /\ Contents' = <<>>
    BY <1>4, ClearDrops
  <2>2. <<>> \in Seq(Jobs)
    OBVIOUS
  <2> QED  BY <1>0, <2>1, <2>2 DEF Fifo!Drop, Fifo!Next
<1>5. CASE ClearPool
  <2>1. /\ QueueOK' /\ UNCHANGED hand /\ Contents' \in Seq(Jobs)
        /\ \E p \in Owners : Fifo!Without(Contents, p, Contents')
    BY <1>5, ClearPoolDrops
  <2> QED  BY <1>0, <2>1 DEF Fifo!DropPool, Fifo!Next
<1>6. CASE \/ \E t \in Producers : EnqueueWaits(t)
           \/ \E t \in Consumers : DequeueWaits(t) \/ DequeueTimesOut(t)
           \/ \E t \in Tasks : WakesForNothing(t)
           \/ UNCHANGED ringVars
  <2>1. UNCHANGED <<queueVars, hand>>
    BY <1>6 DEF EnqueueWaits, DequeueWaits, DequeueTimesOut, WakesForNothing, ringVars
  <2> QED  BY <1>1, <2>1
<1> QED  BY <1>2, <1>3, <1>4, <1>5, <1>6 DEF RingNext, Fifo!Next

\* The tasks' places: a producer waits for room only, a consumer for a job only.
LEMMA PlacesStep ==
  ASSUME RingTypeOK, PlacesOK, [RingNext]_ringVars
  PROVE  at' \in [Tasks -> Places] /\ PlacesOK'
<1>0. /\ at \in [Tasks -> Places] /\ NotFull = {"full"} /\ NotEmpty = {"empty", "timed"}
      /\ Waits = {"full", "empty", "timed"} /\ Woken = {"again_put", "again_take", "again_poll"}
  BY DEF RingTypeOK, Places, NotFull, NotEmpty, Waits, Woken
<1>1. CASE UNCHANGED at
  BY <1>0, <1>1 DEF PlacesOK
\* One task moves by itself.
<1>2. ASSUME NEW t \in Tasks, NEW w \in Places, at' = [at EXCEPT ![t] = w],
             t \in Producers => w \in {"out", "full", "again_put"},
             t \in Consumers => w \in {"out", "empty", "timed", "again_take", "again_poll"}
      PROVE  at' \in [Tasks -> Places] /\ PlacesOK'
  BY <1>0, <1>2, Conditions DEF PlacesOK
\* The others are woken from where they wait.
<1>3. ASSUME at' \in [Tasks -> Places],
             \A u \in Tasks : at'[u] \in {"out", at[u]}
                                \/ (at[u] \in Waits /\ at'[u] = Again(at[u]))
      PROVE  at' \in [Tasks -> Places] /\ PlacesOK'
  BY <1>0, <1>3, Conditions, WokenPlaces DEF PlacesOK
<1>4. CASE \/ \E t \in Producers : Enqueue(t)
           \/ \E t \in Consumers : Dequeue(t)
  <2>1. PICK t \in Tasks : \E ws \in {NotFull, NotEmpty} : Signal(ws, t)
    BY <1>4, Conditions DEF Enqueue, Dequeue
  <2>2. PICK ws \in SUBSET Waits : Signal(ws, t)
    BY <2>1, Conditions
  <2>3. /\ at' \in [Tasks -> Places] /\ at'[t] = "out"
        /\ \A u \in Tasks \ {t} : at'[u] = at[u] \/ (at[u] \in ws /\ at'[u] = Again(at[u]))
    BY <1>0, <2>2, Signalled
  <2> QED  BY <1>3, <2>3
<1>5. CASE Clear \/ ClearPool
  <2>1. SignalFrom(NotFull)
    BY <1>5 DEF Clear, ClearPool
  <2> QED  BY <1>0, <1>3, <2>1, Conditions, SignalledFrom
<1>6. CASE \E t \in Producers : EnqueueWaits(t)
  <2>1. PICK t \in Producers : at' = [at EXCEPT ![t] = "full"]
    BY <1>6 DEF EnqueueWaits
  <2> QED  BY <1>0, <1>2, <2>1, Conditions DEF Places
<1>7. CASE \E t \in Consumers : DequeueWaits(t) \/ DequeueTimesOut(t)
  <2>1. PICK t \in Consumers : \E w \in {"empty", "timed", "out"} : at' = [at EXCEPT ![t] = w]
    BY <1>7 DEF DequeueWaits, DequeueTimesOut
  <2> QED  BY <1>0, <1>2, <2>1, Conditions DEF Places
<1>8. CASE \E t \in Tasks : WakesForNothing(t)
  <2>1. PICK t \in Tasks : at[t] \in Waits /\ at' = [at EXCEPT ![t] = Again(at[t])]
    BY <1>8 DEF WakesForNothing
  <2>2. Again(at[t]) \in Places
    BY <2>1, WokenPlaces DEF Places
  <2>3. at' \in [Tasks -> Places] /\ \A u \in Tasks :
          at'[u] = IF u = t THEN Again(at[t]) ELSE at[u]
    BY <1>0, <2>1, <2>2
  <2> QED  BY <1>3, <2>1, <2>3
<1> QED  BY <1>1, <1>4, <1>5, <1>6, <1>7, <1>8 DEF RingNext, ringVars

RingInv == Ready /\ PlacesOK

LEMMA ReadyStep ==
  ASSUME RingInv, [RingNext]_ringVars
  PROVE  RingInv'
<1>1. /\ QueueOK' /\ hand' \in [Producers -> Jobs] /\ Contents' \in Seq(Jobs)
  BY RingMoves DEF RingInv
<1>2. at' \in [Tasks -> Places] /\ PlacesOK'
  BY PlacesStep DEF RingInv, Ready
<1>3. RingTypeOK'
  BY <1>1, <1>2 DEF QueueOK, RingTypeOK, Places
<1>4. \A i \in 1 .. count' : Contents'[i] \in Jobs
  <2>1. DOMAIN Contents' = 1 .. count'
    BY DEF Contents
  <2>2. \A s \in Seq(Jobs) : \A i \in DOMAIN s : s[i] \in Jobs
    OBVIOUS
  <2> QED  BY <1>1, <2>1, <2>2
<1>5. RingConsistent'
  BY <1>1, <1>4 DEF QueueOK, RingConsistent
<1> QED  BY <1>2, <1>3, <1>5 DEF RingInv, Ready

LEMMA RingInductive == RingSpec => []RingInv
<1>1. RingInit => RingInv
  <2>1. RingInit => PlacesOK
    BY Conditions DEF RingInit, PlacesOK
  <2> QED  BY <2>1, RingStart DEF RingInv
<1>2. RingInv /\ [RingNext]_ringVars => RingInv'
  BY ReadyStep
<1> QED  BY <1>1, <1>2, PTL DEF RingSpec

-----------------------------------------------------------------------------
(* The wake-ups. *)

\* As the firmware uses a queue: one task fills it, and one empties it.
OneEach == /\ \A s, t \in Producers : s = t
           /\ \A s, t \in Consumers : s = t

\* Nobody sleeps on a condition that holds.
Asleep ==
    /\ \A t \in Producers : at[t] = "full" => count = QUEUE_SIZE
    /\ \A t \in Consumers : at[t] \in NotEmpty => count = 0

LEMMA AsleepStep ==
  ASSUME OneEach, RingInv, Asleep, [RingNext]_ringVars
  PROVE  Asleep'
<1>0. /\ at \in [Tasks -> Places] /\ PlacesOK /\ Ready /\ RingTypeOK
      /\ count \in 0 .. QUEUE_SIZE /\ QUEUE_SIZE \in Nat \ {0}
      /\ NotFull = {"full"} /\ NotEmpty = {"empty", "timed"}
      /\ Waits = {"full", "empty", "timed"}
  BY SizeAssumption DEF RingInv, Ready, RingTypeOK, Places, NotFull, NotEmpty, Waits
<1>1. ASSUME NEW t \in Producers, Enqueue(t)
      PROVE  Asleep'
  <2>1. /\ at'[t] = "out"
        /\ \A u \in Tasks \ {t} : at'[u] = at[u] \/ (at[u] \in NotEmpty /\ at'[u] = Again(at[u]))
        /\ (\E u \in Tasks \ {t} : at[u] \in NotEmpty)
              => \E u \in Tasks \ {t} : at[u] \in NotEmpty /\ at'[u] = Again(at[u])
    <3>1. Signal(NotEmpty, t) /\ t \in Tasks /\ NotEmpty \in SUBSET Waits
      BY <1>1, Conditions DEF Enqueue
    <3>2. at \in [Tasks -> Places]
      BY <1>0
    <3> QED  BY <3>1, <3>2, Signalled
  <2>2. \A u \in Producers : at'[u] # "full"
    BY <1>1, <2>1 DEF OneEach
  <2>3. \A u \in Consumers : at'[u] \notin NotEmpty
    <3> TAKE u \in Consumers
    <3>1. u \in Tasks \ {t}
      BY <1>1, Conditions
    <3>2. CASE at[u] \in NotEmpty
      <4>1. PICK v \in Tasks \ {t} : at[v] \in NotEmpty /\ at'[v] = Again(at[v])
        BY <2>1, <3>1, <3>2
      <4>2. v \in Consumers
        BY <1>0, <4>1, Conditions DEF PlacesOK
      <4>3. u = v
        BY <4>2 DEF OneEach
      <4> QED  BY <1>0, <4>1, <4>3, WokenPlaces
    <3>3. CASE at[u] \notin NotEmpty
      BY <2>1, <3>1, <3>3
    <3> QED  BY <3>2, <3>3
  <2> QED  BY <1>0, <2>2, <2>3 DEF Asleep, NotEmpty
<1>2. ASSUME NEW t \in Consumers, Dequeue(t)
      PROVE  Asleep'
  <2>1. /\ at'[t] = "out"
        /\ \A u \in Tasks \ {t} : at'[u] = at[u] \/ (at[u] \in NotFull /\ at'[u] = Again(at[u]))
        /\ (\E u \in Tasks \ {t} : at[u] \in NotFull)
              => \E u \in Tasks \ {t} : at[u] \in NotFull /\ at'[u] = Again(at[u])
    <3>1. Signal(NotFull, t) /\ t \in Tasks /\ NotFull \in SUBSET Waits
      BY <1>2, Conditions DEF Dequeue
    <3>2. at \in [Tasks -> Places]
      BY <1>0
    <3> QED  BY <3>1, <3>2, Signalled
  <2>2. \A u \in Consumers : at'[u] = "out"
    BY <1>2, <2>1 DEF OneEach
  <2>3. \A u \in Producers : at'[u] # "full"
    <3> TAKE u \in Producers
    <3>1. u \in Tasks \ {t}
      BY <1>2, Conditions
    <3>2. CASE at[u] = "full"
      <4>1. PICK v \in Tasks \ {t} : at[v] \in NotFull /\ at'[v] = Again(at[v])
        BY <1>0, <2>1, <3>1, <3>2
      <4>2. v \in Producers
        BY <1>0, <4>1, Conditions DEF PlacesOK
      <4>3. u = v
        BY <4>2 DEF OneEach
      <4> QED  BY <1>0, <4>1, <4>3, WokenPlaces
    <3>3. CASE at[u] # "full"
      BY <1>0, <2>1, <3>1, <3>3
    <3> QED  BY <3>2, <3>3
  <2> QED  BY <1>0, <2>2, <2>3 DEF Asleep, NotEmpty
<1>3. CASE Clear \/ ClearPool
  <2>1. /\ \A u \in Tasks : at'[u] = at[u] \/ (at[u] \in NotFull /\ at'[u] = Again(at[u]))
        /\ (\E u \in Tasks : at[u] \in NotFull)
              => \E u \in Tasks : at[u] \in NotFull /\ at'[u] = Again(at[u])
    <3>1. SignalFrom(NotFull)
      BY <1>3 DEF Clear, ClearPool
    <3> QED  BY <1>0, <3>1, Conditions, SignalledFrom
  <2>2. count' \in Nat /\ count' <= count
    <3>1. CASE Clear
      BY <1>0, <3>1 DEF Clear
    <3>2. CASE ClearPool
      BY <1>0, <3>2, ClearPoolDrops DEF QueueOK
    <3> QED  BY <1>3, <3>1, <3>2
  <2>3. \A u \in Consumers : at'[u] \in NotEmpty => count' = 0
    <3> TAKE u \in Consumers
    <3>1. at'[u] = at[u]
      BY <1>0, <2>1, Conditions DEF PlacesOK
    <3> QED  BY <1>0, <2>2, <3>1 DEF Asleep, NotEmpty
  <2>4. \A u \in Producers : at'[u] # "full"
    <3> TAKE u \in Producers
    <3>1. u \in Tasks
      BY Conditions
    <3>2. CASE at[u] = "full"
      <4>1. PICK v \in Tasks : at[v] \in NotFull /\ at'[v] = Again(at[v])
        BY <1>0, <2>1, <3>1, <3>2
      <4>2. v \in Producers
        BY <1>0, <4>1, Conditions DEF PlacesOK
      <4>3. u = v
        BY <4>2 DEF OneEach
      <4> QED  BY <1>0, <4>1, <4>3, WokenPlaces
    <3>3. CASE at[u] # "full"
      BY <1>0, <2>1, <3>1, <3>3
    <3> QED  BY <3>2, <3>3
  <2> QED  BY <2>3, <2>4 DEF Asleep, NotEmpty
<1>4. CASE \E t \in Producers : EnqueueWaits(t)
  BY <1>0, <1>4, Conditions DEF EnqueueWaits, queueVars, Asleep, NotEmpty
<1>5. CASE \E t \in Consumers : DequeueWaits(t)
  BY <1>0, <1>5, Conditions DEF DequeueWaits, queueVars, Asleep, NotEmpty
<1>6. CASE \E t \in Consumers : DequeueTimesOut(t)
  BY <1>0, <1>6, Conditions DEF DequeueTimesOut, queueVars, Asleep, NotEmpty
<1>7. CASE \E t \in Tasks : WakesForNothing(t)
  <2>1. PICK t \in Tasks : at[t] \in Waits /\ at' = [at EXCEPT ![t] = Again(at[t])]
                           /\ count' = count
    BY <1>7 DEF WakesForNothing, queueVars
  <2>2. Again(at[t]) \notin {"full", "empty", "timed"}
    BY <1>0, <2>1, WokenPlaces
  <2> QED  BY <1>0, <2>1, <2>2, Conditions DEF Asleep, NotEmpty
<1>8. CASE UNCHANGED ringVars
  BY <1>8 DEF ringVars, queueVars, Asleep, NotEmpty
<1> QED  BY <1>1, <1>2, <1>3, <1>4, <1>5, <1>6, <1>7, <1>8 DEF RingNext

-----------------------------------------------------------------------------
(* The theorems. *)

\* No index of the ring runs off the buffer and the count never exceeds QUEUE_SIZE
\* (work_queue.c wraps every index and tests the count before it adds).
THEOREM QueueTypeOK == RingSpec => []RingTypeOK
<1>1. RingInv => RingTypeOK
  BY DEF RingInv, Ready
<1> QED  BY <1>1, RingInductive, PTL

\* head, tail and count describe one stretch of the buffer, all of it jobs that were
\* queued, through every enqueue, dequeue, clear and clear of one pool.
THEOREM QueueConsistent == RingSpec => []RingConsistent
<1>1. RingInv => RingConsistent
  BY DEF RingInv, Ready
<1> QED  BY <1>1, RingInductive, PTL

\* The ring buffer of work_queue.c is a first-in first-out queue, for any QUEUE_SIZE:
\* its steps are puts, takes and drops of the jobs from head to tail, or change none.
THEOREM QueueImplementsFifo == RingSpec => ImplementsFifo
<1>1. RingInit => Fifo!Init
  BY RingStart DEF Fifo!Init
<1>2. RingInv /\ [RingNext]_ringVars => [Fifo!Next]_Contents
  BY RingMoves DEF RingInv
<1> QED  BY <1>1, <1>2, RingInductive, PTL DEF RingSpec, ImplementsFifo, Fifo!Spec

\* With one task that fills a queue and one that empties it, whoever clears it, neither
\* sleeps on while there is room, or a job: each pthread_cond_signal of work_queue.c
\* reaches the one that waits.
THEOREM QueueNoLostWakeup ==
  ASSUME OneEach
  PROVE  RingSpec => []NoLostWakeup
<1>1. RingInit => Asleep
  BY Conditions DEF RingInit, Asleep, NotEmpty
<1>2. RingInv /\ Asleep /\ [RingNext]_ringVars => Asleep'
  BY AsleepStep
<1>3. Asleep => NoLostWakeup
  BY DEF Asleep, NoLostWakeup
<1> QED  BY <1>1, <1>2, <1>3, RingInductive, PTL DEF RingSpec

-----------------------------------------------------------------------------
(***************************************************************************)
(* The slots. Every job that is allocated is in one place, so none is freed*)
(* twice, leaked, or freed while its slot can still be matched. That a job *)
(* can be read after it has been freed is another matter:                  *)
(* NothingReachesDisplaced does not hold, and a run shows it.              *)
(***************************************************************************)

\* What the sender holds is told by where it is, and a new job is new: numbers
\* above `made` have not been given out.
HandsTold ==
    /\ loader.at = "idle" => loader.job = Empty
    /\ loader.at = "swap" => loader.job # Empty
NumbersGiven == \A j \in heap : j <= made

SlotInv == SlotTypeOK /\ JobsOwnedOnce /\ HandsTold /\ NumbersGiven

-----------------------------------------------------------------------------
LEMMA Instance ==
  /\ Slots \in Nat \ {0} /\ MaxJobs \in Nat
  /\ Empty = 0 /\ Empty \notin JobNumbers
  /\ 0 \in SlotIds
  /\ \A s \in SlotIds : (s + 1) % Slots \in SlotIds
  BY SlotsAssumption DEF Empty, JobNumbers, SlotIds

\* The steps of the result task move nothing but it.
LEMMA MatchKeeps ==
  ASSUME SlotInv,
         NEW place \in {"idle", "load", "version", "copy", "copied", "target"},
         NEW slot \in SlotIds, NEW job \in JobNumbers \cup {Empty},
         Match(place, slot, job)
  PROVE  SlotInv'
<1>1. SlotTypeOK'
  BY DEF SlotInv, SlotTypeOK, Match, Matching
<1>2. JobsOwnedOnce' /\ HandsTold' /\ NumbersGiven'
  BY DEF SlotInv, JobsOwnedOnce, Loaded, InHand, HandsTold, NumbersGiven, Match
<1> QED  BY <1>1, <1>2 DEF SlotInv

LEMMA TakeKeeps ==
  ASSUME SlotInv, LoadTake
  PROVE  SlotInv'
<1>1. /\ made \in 0 .. MaxJobs /\ made < MaxJobs /\ made + 1 \in JobNumbers
      /\ loader.job = Empty /\ loader' = [at |-> "swap", job |-> made + 1]
      /\ heap' = heap \cup {made + 1}
      /\ made' = made + 1
      /\ UNCHANGED <<active, valid, matcher>>
  BY Instance DEF SlotInv, SlotTypeOK, HandsTold, LoadTake, Loading, Allocated, JobNumbers
<1>2. made + 1 \notin heap
  BY <1>1 DEF SlotInv, NumbersGiven
<1>3. SlotTypeOK'
  BY <1>1, Instance DEF SlotInv, SlotTypeOK, LoadTake
<1>4. /\ heap' = Loaded' \cup InHand'
      /\ Loaded' \cap InHand' = {}
  BY <1>1, <1>2 DEF SlotInv, JobsOwnedOnce, Loaded, InHand, Empty
<1>5. JobsOwnedOnce'
  BY <1>1, <1>4 DEF SlotInv, JobsOwnedOnce
<1>6. HandsTold' /\ NumbersGiven'
  BY <1>1, Instance DEF SlotInv, SlotTypeOK, HandsTold, NumbersGiven, JobNumbers
<1> QED  BY <1>3, <1>5, <1>6 DEF SlotInv

LEMMA SwapKeeps ==
  ASSUME SlotInv, LoadSwap
  PROVE  SlotInv'
<1>1. /\ id \in SlotIds /\ active \in [SlotIds -> JobNumbers \cup {Empty}]
      /\ loader.job \in JobNumbers /\ loader.job \notin Loaded
      /\ active' = [active EXCEPT ![id] = loader.job]
      /\ loader' = [at |-> "free", job |-> active[id]]
      /\ UNCHANGED <<heap, made>>
  BY DEF SlotInv, SlotTypeOK, JobsOwnedOnce, HandsTold, InHand, LoadSwap, Loading
<1>2. SlotTypeOK'
  BY <1>1 DEF SlotInv, SlotTypeOK, LoadSwap
<1>3. \A s \in SlotIds : active'[s] = IF s = id THEN loader.job ELSE active[s]
  BY <1>1
<1>4. \A s, t \in SlotIds : active'[s] = active'[t] /\ active'[s] # Empty => s = t
  BY <1>1, <1>3 DEF SlotInv, JobsOwnedOnce, Loaded
<1>5. \A s \in SlotIds : valid'[s] => active'[s] # Empty
  BY <1>1, <1>3, Instance DEF SlotInv, SlotTypeOK, JobsOwnedOnce, LoadSwap
<1>6. Loaded' = (Loaded \ {active[id]}) \cup {loader.job}
  <2>1. ASSUME NEW j \in Loaded'  PROVE  j \in (Loaded \ {active[id]}) \cup {loader.job}
    BY <2>1, <1>1, <1>3 DEF SlotInv, JobsOwnedOnce, Loaded
  <2>2. ASSUME NEW j \in (Loaded \ {active[id]}) \cup {loader.job}  PROVE  j \in Loaded'
    BY <2>2, <1>1, <1>3, Instance DEF Loaded
  <2> QED  BY <2>1, <2>2
<1>7. active[id] \in Loaded \/ active[id] = Empty
  BY <1>1 DEF Loaded
<1>8. /\ heap' = Loaded' \cup InHand'
      /\ Loaded' \cap InHand' = {}
  BY <1>1, <1>6, <1>7, Instance DEF SlotInv, JobsOwnedOnce, InHand, Loaded
<1>9. HandsTold' /\ NumbersGiven'
  BY <1>1 DEF SlotInv, HandsTold, NumbersGiven
<1> QED  BY <1>2, <1>4, <1>5, <1>8, <1>9 DEF SlotInv, JobsOwnedOnce

LEMMA FreeKeeps ==
  ASSUME SlotInv, LoadFree
  PROVE  SlotInv'
<1>1. /\ heap' = heap \ {loader.job}
      /\ loader' = [at |-> "idle", job |-> Empty]
      /\ UNCHANGED <<active, valid, id, made, matcher>>
  BY DEF LoadFree, Loading
<1>2. SlotTypeOK'
  BY <1>1 DEF SlotInv, SlotTypeOK
<1>3. heap' = Loaded' \cup InHand' /\ Loaded' \cap InHand' = {}
  BY <1>1, Instance DEF SlotInv, SlotTypeOK, JobsOwnedOnce, Loaded, InHand
<1>4. JobsOwnedOnce' /\ HandsTold' /\ NumbersGiven'
  BY <1>1, <1>3 DEF SlotInv, JobsOwnedOnce, HandsTold, NumbersGiven
<1> QED  BY <1>2, <1>4 DEF SlotInv

LEMMA InvalidateKeeps ==
  ASSUME SlotInv, Invalidate
  PROVE  SlotInv'
<1>1. /\ valid' \in [SlotIds -> BOOLEAN]
      /\ \A s \in SlotIds : valid'[s] => valid[s]
      /\ UNCHANGED <<active, id, heap, made, loader, matcher>>
  BY DEF SlotInv, SlotTypeOK, Invalidate
<1>2. SlotTypeOK'
  BY <1>1 DEF SlotInv, SlotTypeOK
<1>3. JobsOwnedOnce' /\ HandsTold' /\ NumbersGiven'
  BY <1>1 DEF SlotInv, JobsOwnedOnce, Loaded, InHand, HandsTold, NumbersGiven
<1> QED  BY <1>2, <1>3 DEF SlotInv

\* Of boot, and of the restart after a panic.
LEMMA FreshStart ==
  ASSUME active = [s \in SlotIds |-> Empty], valid = [s \in SlotIds |-> FALSE],
         id = 0, heap = {}, made = 0, loader = Loading("idle", Empty),
         matcher = Matching("idle", 0, Empty)
  PROVE  SlotInv
<1>1. SlotTypeOK
  BY Instance DEF SlotTypeOK, Loading, Matching
<1>2. Loaded = {} /\ InHand = {}
  BY DEF Loaded, InHand, Loading
<1>3. JobsOwnedOnce /\ HandsTold /\ NumbersGiven
  BY <1>2 DEF JobsOwnedOnce, HandsTold, NumbersGiven, Loading
<1> QED  BY <1>1, <1>3 DEF SlotInv

LEMMA PanicKeeps ==
  ASSUME SlotPanic
  PROVE  SlotInv'
<1>1. SlotTypeOK'
  BY Instance DEF SlotPanic, SlotTypeOK, Loading, Matching
<1>2. Loaded' = {} /\ InHand' = {}
  BY DEF SlotPanic, Loaded, InHand, Loading
<1>3. JobsOwnedOnce' /\ HandsTold' /\ NumbersGiven'
  BY <1>2 DEF SlotPanic, JobsOwnedOnce, HandsTold, NumbersGiven, Loading
<1> QED  BY <1>1, <1>3 DEF SlotInv

LEMMA ResultKeeps ==
  ASSUME SlotInv,
         \/ ProcessTest \/ ProcessLoad \/ ProcessVersion \/ ResultCopy
         \/ BestLoad \/ BestTarget
  PROVE  SlotInv'
<1>1. /\ matcher.slot \in SlotIds
      /\ active[matcher.slot] \in JobNumbers \cup {Empty}
  BY DEF SlotInv, SlotTypeOK
<1>2. CASE ProcessTest
  <2>1. PICK s \in SlotIds : Match("load", s, Empty)
    BY <1>2 DEF ProcessTest
  <2> QED  BY <2>1, MatchKeeps
<1>3. CASE ProcessLoad
  BY <1>1, <1>3, MatchKeeps DEF ProcessLoad
<1>4. CASE ProcessVersion
  BY <1>1, <1>4, MatchKeeps DEF ProcessVersion
<1>5. CASE ResultCopy
  BY <1>1, <1>5, MatchKeeps, Instance DEF ResultCopy
<1>6. CASE BestLoad
  BY <1>1, <1>6, MatchKeeps, Instance DEF BestLoad
<1>7. CASE BestTarget
  BY <1>7, MatchKeeps, Instance DEF BestTarget
<1> QED  BY <1>2, <1>3, <1>4, <1>5, <1>6, <1>7

LEMMA SlotInvStep == SlotInv /\ [SlotNext]_slotVars => SlotInv'
<1> SUFFICES ASSUME SlotInv, [SlotNext]_slotVars  PROVE SlotInv'
  OBVIOUS
<1>1. CASE UNCHANGED slotVars
  BY <1>1 DEF slotVars, SlotInv, SlotTypeOK, JobsOwnedOnce, Loaded, InHand, HandsTold,
              NumbersGiven
<1>2. CASE LoadTake    BY <1>2, TakeKeeps
<1>3. CASE LoadSwap    BY <1>3, SwapKeeps
<1>4. CASE LoadFree    BY <1>4, FreeKeeps
<1>5. CASE Invalidate  BY <1>5, InvalidateKeeps
<1>6. CASE \/ ProcessTest \/ ProcessLoad \/ ProcessVersion \/ ResultCopy
           \/ BestLoad \/ BestTarget
  BY <1>6, ResultKeeps
<1>7. CASE SlotPanic   BY <1>7, PanicKeeps
<1> QED  BY <1>1, <1>2, <1>3, <1>4, <1>5, <1>6, <1>7 DEF SlotNext

-----------------------------------------------------------------------------
LEMMA SlotInvariant == SlotSpec => []SlotInv
<1>1. SlotInit => SlotInv
  BY FreshStart DEF SlotInit
<1> QED  BY <1>1, SlotInvStep, PTL DEF SlotSpec

\* Every variable of the slot table stays in its set, whatever the tasks do.
THEOREM SlotsTypeOK == SlotSpec => []SlotTypeOK
<1>1. SlotInv => SlotTypeOK
  BY DEF SlotInv
<1> QED  BY <1>1, SlotInvariant, PTL

\* BM1370_send_work frees what its slot held, after giving it up under the lock: no
\* job is freed twice or leaked, and one that a valid slot points at is never freed.
THEOREM SlotsJobsOwnedOnce == SlotSpec => []JobsOwnedOnce
<1>1. SlotInv => JobsOwnedOnce
  BY DEF SlotInv
<1> QED  BY <1>1, SlotInvariant, PTL
=============================================================================
