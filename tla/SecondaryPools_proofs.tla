----------------------- MODULE SecondaryPools_proofs -----------------------
(***************************************************************************)
(* The secondary pools' sessions, proved for any number of pools, of any   *)
(* queue size, over any number of generations. The inductive invariant     *)
(* follows the pool task: where it is says which of transport, connected   *)
(* and extranonce are set, and only its own steps change them.             *)
(***************************************************************************)
EXTENDS SecondaryPools, TLAPS, FiniteSetTheorems, SequenceTheorems

USE DEF histVars

\* The failover counter's range, which depends on the state.
Ranged(f) ==
    /\ f \in Failover
    /\ f.state = "TRY_PRIMARY"  => f.retry_count <= MaxRetries + 1
    /\ f.state = "TRY_FAILOVER" => f.retry_count <= MaxRetries
FoOK == \A p \in Pools : Ranged(fo[p])

\* connected and transport move together but for two steps of the close, and the
\* position of the pool task says which.
PcOK ==
    /\ \A p \in Pools :
          /\ transport[p] # NoGen => connected[p]
          /\ connected[p] => transport[p] # NoGen \/ (pc.at = "abandon" /\ pc.p = p)
    /\ pc.at \in {"dial", "dialing", "forget"} => ~connected[pc.p]
    /\ pc.at \in {"notify", "room", "enqueue", "clean", "unpublish"} => connected[pc.p]
    /\ pc.at = "abandon" => transport[pc.p] = NoGen
    /\ pc.at = "clean" => gen[pc.p] < MaxGen

\* Nothing comes from a session later than the last one published, nor, while
\* there is a session, from one later than that.
NotLater(p, ses) == ses <= gen[p] /\ (transport[p] # NoGen => ses <= transport[p])
SesOK == \A p \in Pools :
    /\ transport[p] <= gen[p]
    /\ NotLater(p, held[p].ses)
    /\ \A i \in 1 .. Len(squeue[p]) : NotLater(p, squeue[p][i].ses)

\* An extranonce is of the session there is, or of one on its way out, and is no
\* older than any notify kept for its pool.
EnOK == \A p \in Pools : extranonce[p] # NoGen =>
    /\ extranonce[p] = transport[p]
          \/ (pc.p = p /\ pc.at \in {"abandon", "forget"})
    /\ held[p].ses <= extranonce[p]
    /\ \A i \in 1 .. Len(squeue[p]) : squeue[p][i].ses <= extranonce[p]

JobOK(j) == j.en >= j.ses
JobsOK ==
    /\ JobOK(builder.job)
    /\ JobOK(sending)
    /\ \A i \in 1 .. Len(asic_queue) : JobOK(asic_queue[i])
    /\ \A s \in Slots : JobOK(slot[s].job)

LockOK == HandleOutlivesWrite

\* Room: the builder starts below the low-water mark and nobody else adds to the
\* ASIC queue; the pool task made room and nobody else adds to a session's queue.
RoomOK ==
    /\ builder.at # "idle" => Len(asic_queue) < LowWater
    /\ \A p \in Pools : Len(squeue[p]) <= SessQueueSize
    /\ pc.at = "enqueue" => Len(squeue[pc.p]) < SessQueueSize

\* A job that is anywhere to be sent or found has an owner.
Owned(j) == j.pool \in 0 .. NPools
OwnedOK ==
    /\ builder.at = "put" => Owned(builder.job)
    /\ sending # NoJob => Owned(sending)
    /\ \A i \in 1 .. Len(asic_queue) : Owned(asic_queue[i])
    /\ \A s \in Slots : slot[s].valid => Owned(slot[s].job)

Ring == TypeOK /\ FoOK /\ PcOK /\ SesOK /\ OwnedOK
IInv == Ring /\ EnOK /\ JobsOK /\ LockOK /\ RoomOK

-----------------------------------------------------------------------------
(* The operators the actions are built from. *)

LEMMA Constants ==
  /\ MaxGen \in Nat \ {0} /\ NPools \in Nat \ {0} /\ NSlots \in Nat \ {0}
  /\ SessQueueSize \in Nat \ {0} /\ AsicQueueSize \in Nat \ {0}
  /\ LowWater \in Nat /\ LowWater < AsicQueueSize /\ MaxRetries \in Nat
  /\ MaxNotifies \in Nat
  BY PoolsAssumption, SizesAssumption, GenAssumption, NotifiesAssumption,
     MaxRetriesAssumption

\* What ASIC_jobs_queue_clear_pool leaves of a queue is every job of another pool and
\* no job of this one, in order: e says in which place each was.
Picks(q, p, r, e) ==
    /\ e \in [1 .. Len(r) -> 1 .. Len(q)]
    /\ \A i, k \in 1 .. Len(r) : i < k => e[i] < e[k]
    /\ \A k \in 1 .. Len(r) : r[k] = q[e[k]] /\ r[k].pool # p
    /\ \A i \in 1 .. Len(q) : q[i].pool # p => \E k \in 1 .. Len(r) : e[k] = i

LEMMA ClearPoolPicks ==
  ASSUME NEW S, NEW q \in Seq(S), NEW p, NEW r, ClearPool(q, p, r)
  PROVE  r \in Seq(S) /\ Len(r) <= Len(q) /\ \E e : Picks(q, p, r, e)
<1> DEFINE O == Others(q, p)
           n == Cardinality(O)
<1>1. Len(q) \in Nat /\ \A i \in 1 .. Len(q) : q[i] \in S
  OBVIOUS
<1>2. IsFiniteSet(1 .. Len(q)) /\ Cardinality(1 .. Len(q)) = Len(q)
  <2>1. \A m \in Nat : IsFiniteSet(1 .. m) /\ Cardinality(1 .. m) = m
    BY FS_Interval
  <2> QED  BY <1>1, <2>1
<1>3. O \in SUBSET (1 .. Len(q)) /\ \A i \in 1 .. Len(q) : i \in O <=> q[i].pool # p
  BY DEF Others
<1>4. IsFiniteSet(O) /\ n <= Len(q)
  BY <1>2, <1>3, FS_Subset
<1>5. n \in Nat
  BY <1>4, FS_CardinalityType
<1>6. PICK e \in [1 .. n -> O] : Increasing(e) /\ r = [k \in DOMAIN e |-> q[e[k]]]
  BY DEF ClearPool
<1>7. \A i, k \in 1 .. n : i < k => e[i] < e[k]
  BY <1>6 DEF Increasing
\* As many places as there are: each is hit.
<1>8. \A i \in O : \E k \in 1 .. n : e[k] = i
  <2>1. ASSUME NEW i \in 1 .. n, NEW k \in 1 .. n, e[i] = e[k]
        PROVE  i = k
    <3>1. e[i] \in Int /\ e[k] \in Int /\ i \in Int /\ k \in Int
      BY <1>3, <1>6
    <3>2. ~(i < k) /\ ~(k < i)
      BY <1>7, <2>1, <3>1
    <3> QED  BY <3>1, <3>2
  <2>2. e \in Injection(1 .. n, O)
    BY <1>6, <2>1 DEF Injection, IsInjective
  <2>3. Cardinality(1 .. n) = Cardinality(O)
    BY <1>5, FS_Interval
  <2>4. e \in Surjection(1 .. n, O)
    BY <1>4, <2>2, <2>3, FS_Injection
  <2> QED  BY <2>4 DEF Surjection
<1> HIDE DEF O, n
<1>9. \A k \in 1 .. n : e[k] \in 1 .. Len(q) /\ q[e[k]].pool # p
  BY <1>3, <1>6
<1>10. r = [k \in 1 .. n |-> q[e[k]]]
  BY <1>6
<1>11. r \in [1 .. n -> S]
  BY <1>1, <1>9, <1>10
<1>12. r \in Seq(S) /\ Len(r) = n
  BY <1>5, <1>11
<1>13. Picks(q, p, r, e)
  BY <1>3, <1>6, <1>7, <1>8, <1>9, <1>10, <1>12 DEF Picks
<1> QED  BY <1>4, <1>12, <1>13 DEF n

LEMMA ClearPoolKeeps ==
  ASSUME NEW S, NEW q \in Seq(S), NEW p, NEW r, ClearPool(q, p, r)
  PROVE  /\ r \in Seq(S)
         /\ Len(r) <= Len(q)
         /\ \A k \in 1 .. Len(r) : r[k].pool # p /\ \E i \in 1 .. Len(q) : r[k] = q[i]
<1>1. PICK e : Picks(q, p, r, e)
  BY ClearPoolPicks
<1> QED  BY <1>1, ClearPoolPicks DEF Picks

LEMMA FoToType ==
  ASSUME NEW f \in Failover, NEW s \in PfStates, NEW n \in 0 .. (MaxRetries + 2)
  PROVE  /\ FoTo(f, s, n) \in Failover
         /\ FoTo(f, s, n).state = s /\ FoTo(f, s, n).retry_count = n
  BY DEF FoTo, Failover

LEMMA FoTypes ==
  ASSUME NEW f, Ranged(f)
  PROVE  Ranged(FoConnected(f)) /\ Ranged(FoDisconnected(f))
<1>0. /\ f \in Failover /\ f.state \in PfStates
      /\ f.retry_count \in 0 .. (MaxRetries + 2)
      /\ f.state = "TRY_PRIMARY"  => f.retry_count <= MaxRetries + 1
      /\ f.state = "TRY_FAILOVER" => f.retry_count <= MaxRetries
  BY DEF Ranged, Failover
<1>1. /\ 0 \in 0 .. (MaxRetries + 2) /\ 1 \in 0 .. (MaxRetries + 2)
      /\ f.state = "TRY_PRIMARY" => f.retry_count + 1 \in 0 .. (MaxRetries + 2)
      /\ f.state = "TRY_FAILOVER" => f.retry_count + 1 \in 0 .. (MaxRetries + 2)
      /\ 1 <= MaxRetries + 1 /\ 0 <= MaxRetries /\ 0 <= MaxRetries + 1
  BY <1>0, Constants
<1>2. \A s \in PfStates : \A n \in 0 .. (MaxRetries + 2) :
        /\ FoTo(f, s, n) \in Failover
        /\ FoTo(f, s, n).state = s /\ FoTo(f, s, n).retry_count = n
  BY <1>0, FoToType
<1>3. PfStates = {"TRY_PRIMARY", "ON_PRIMARY", "TRY_FAILOVER", "ON_FAILOVER", "DOWN"}
  BY DEF PfStates
<1>4. Ranged(FoConnected(f))
  BY <1>0, <1>1, <1>2, <1>3 DEF FoConnected, Ranged
<1>5. Ranged(FoDisconnected(f))
  <2>1. CASE f.state = "ON_PRIMARY"
    BY <2>1, <1>1, <1>2, <1>3 DEF FoDisconnected, Ranged
  <2>2. CASE f.state = "TRY_PRIMARY"
    <3>1. f.retry_count + 1 <= MaxRetries => f.retry_count + 1 <= MaxRetries + 1
      BY <1>0, Constants
    <3> QED  BY <2>2, <3>1, <1>1, <1>2, <1>3 DEF FoDisconnected, Ranged
  <2>3. CASE f.state = "TRY_FAILOVER"
    BY <2>3, <1>1, <1>2, <1>3 DEF FoDisconnected, Ranged
  <2>4. CASE f.state \notin {"ON_PRIMARY", "TRY_PRIMARY", "TRY_FAILOVER"}
    BY <2>4, <1>1, <1>2, <1>3 DEF FoDisconnected, Ranged
  <2> QED  BY <2>1, <2>2, <2>3, <2>4
<1> QED  BY <1>4, <1>5

LEMMA FoInitType ==
  ASSUME NEW has \in FailoverChoices
  PROVE  Ranged(FoInit(has))
  BY Constants, FailoverChoicesAssumption DEF FoInit, Failover, PfStates, Ranged

Places == {"top", "netoff", "sweep", "dial", "dialing", "service", "clean", "notify",
           "room", "enqueue", "unpublish", "abandon", "forget"}

LEMMA PcTypes ==
  ASSUME NEW p \in Pools
  PROVE  /\ \A at \in Places :
               Goto(at, p) \in PcType /\ Goto(at, p).at = at /\ Goto(at, p).p = p
         /\ \A at, after \in {"top", "netoff", "sweep", "service"} :
               /\ NextPool(at, p, after) \in PcType
               /\ NextPool(at, p, after).at \in {at, after}
         /\ Dialled(p) \in PcType
         /\ Dialled(p).at \in {"sweep", "service"}
<1>1. 1 \in Pools /\ (p < NPools => p + 1 \in Pools)
  BY Constants DEF Pools
<1>2. \A q \in Pools : \A at \in Places :
        Goto(at, q) \in PcType /\ Goto(at, q).at = at /\ Goto(at, q).p = q
  BY DEF PcType, Goto, Places
<1>3. \A g \in PcType : \A d \in BOOLEAN :
        [g EXCEPT !.dialled = d] \in PcType /\ [g EXCEPT !.dialled = d].at = g.at
  BY DEF PcType
<1>4. ASSUME NEW at \in {"top", "netoff", "sweep", "service"},
             NEW after \in {"top", "netoff", "sweep", "service"}
      PROVE  /\ NextPool(at, p, after) \in PcType
             /\ NextPool(at, p, after).at \in {at, after}
  <2>1. at \in Places /\ after \in Places
    BY DEF Places
  <2>2. CASE p < NPools
    <3>1. NextPool(at, p, after) = Goto(at, p + 1)
      BY <2>2 DEF NextPool
    <3> QED  BY <2>1, <2>2, <3>1, <1>1, <1>2
  <2>3. CASE ~(p < NPools)
    <3>1. NextPool(at, p, after) = Goto(after, 1)
      BY <2>3 DEF NextPool
    <3> QED  BY <2>1, <3>1, <1>1, <1>2
  <2> QED  BY <2>2, <2>3
<1>5. Dialled(p) \in PcType /\ Dialled(p).at \in {"sweep", "service"}
  <2> DEFINE g == NextPool("sweep", p, "service")
  <2>1. g \in PcType /\ g.at \in {"sweep", "service"}
    BY <1>4
  <2>2. Dialled(p) = [g EXCEPT !.dialled = (p < NPools)]
    BY DEF Dialled
  <2> HIDE DEF g
  <2>3. (p < NPools) \in BOOLEAN
    OBVIOUS
  <2> QED  BY <2>1, <2>2, <2>3, <1>3
<1> QED  BY <1>2, <1>4, <1>5

LEMMA JobTypes ==
  /\ NoJob \in Job /\ AJob \in Job /\ JobOK(NoJob) /\ JobOK(AJob)
  /\ \A j \in Job : \A p : /\ Mark(j, p) \in Job
                           /\ JobOK(j) => JobOK(Mark(j, p))
  /\ \A p \in Pools : \A n \in Notify \cup {NoNotify} : \A e \in 0 .. MaxGen :
        /\ JobOf(p, n, e) \in Job
        /\ n.ses <= e => JobOK(JobOf(p, n, e))
<1>1. NoJob \in Job /\ JobOK(NoJob)
  BY Constants DEF NoJob, Job, JobOK, NoGen
<1>2. AJob \in Job /\ JobOK(AJob)
  <2>1. 0 \in -1 .. NPools
    BY Constants
  <2> QED  BY <1>1, <2>1 DEF AJob, Job, JobOK, POOL_A
<1>3. ASSUME NEW j \in Job, NEW p
      PROVE  Mark(j, p) \in Job /\ (JobOK(j) => JobOK(Mark(j, p)))
  BY DEF Job, JobOK, Mark
<1>4. ASSUME NEW p \in Pools, NEW n \in Notify \cup {NoNotify}, NEW e \in 0 .. MaxGen
      PROVE  JobOf(p, n, e) \in Job /\ (n.ses <= e => JobOK(JobOf(p, n, e)))
  <2>1. /\ n.gen \in 0 .. MaxGen /\ n.ses \in 0 .. MaxGen /\ n.late \in BOOLEAN
        /\ n.num \in 0 .. MaxNotifies
    <3>1. CASE n \in Notify
      BY <3>1, Constants DEF Notify, Gens
    <3>2. CASE n = NoNotify
      BY <3>2, Constants DEF NoNotify, NoGen
    <3> QED  BY <3>1, <3>2
  <2>2. p \in -1 .. NPools
    BY Constants DEF Pools
  <2> QED  BY <2>1, <2>2 DEF JobOf, Job, JobOK
<1> QED  BY <1>1, <1>2, <1>3, <1>4

\* The pool task's position with one field of it written.
LEMMA PcAt ==
  ASSUME NEW g \in PcType
  PROVE  /\ \A at \in Places : /\ [g EXCEPT !.at = at] \in PcType
                               /\ [g EXCEPT !.at = at].at = at
                               /\ [g EXCEPT !.at = at].p = g.p
         /\ \A d \in BOOLEAN : /\ [g EXCEPT !.dialled = d] \in PcType
                               /\ [g EXCEPT !.dialled = d].at = g.at
         /\ \A d \in BOOLEAN : /\ [g EXCEPT !.off = d] \in PcType
                               /\ [g EXCEPT !.off = d].at = g.at
                               /\ [g EXCEPT !.off = d].p = g.p
  BY DEF PcType, Places

BuilderPlaces == {"idle", "check", "drain", "select", "recheck", "copy", "put"}

LEMMA BuilderTypes ==
  /\ \A p \in Pools : \A at \in BuilderPlaces :
        /\ BuilderAt(at, p) \in BuilderType
        /\ BuilderAt(at, p).at = at /\ BuilderAt(at, p).p = p
        /\ BuilderAt(at, p).job = NoJob
  /\ \A b \in BuilderType : \A j \in Job :
        /\ [b EXCEPT !.job = j] \in BuilderType
        /\ [b EXCEPT !.job = j].at = b.at /\ [b EXCEPT !.job = j].p = b.p
        /\ [b EXCEPT !.job = j].job = j
<1>1. ASSUME NEW p \in Pools, NEW at \in BuilderPlaces
      PROVE  /\ BuilderAt(at, p) \in BuilderType
             /\ BuilderAt(at, p).at = at /\ BuilderAt(at, p).p = p
             /\ BuilderAt(at, p).job = NoJob
  BY JobTypes DEF BuilderAt, BuilderType, BuilderPlaces
<1>2. ASSUME NEW b \in BuilderType, NEW j \in Job
      PROVE  /\ [b EXCEPT !.job = j] \in BuilderType
             /\ [b EXCEPT !.job = j].at = b.at /\ [b EXCEPT !.job = j].p = b.p
             /\ [b EXCEPT !.job = j].job = j
  BY DEF BuilderType
<1> QED  BY <1>1, <1>2

LEMMA InitInv == Init => IInv
<1> SUFFICES ASSUME Init PROVE IInv
  OBVIOUS
<1> USE DEF Init
<1>1. 1 \in Pools /\ NoGen = 0 /\ 0 \in 0 .. MaxGen /\ 0 \in Slots
  BY Constants DEF Pools, NoGen, Slots
<1>2. pc = Goto("top", 1) /\ pc \in PcType /\ pc.at = "top"
  BY <1>1, PcTypes DEF Places
<1>3. builder \in BuilderType /\ builder.at = "idle" /\ builder.job = NoJob
  BY <1>1, BuilderTypes DEF BuilderPlaces
<1>4. result \in ShareType /\ result.at = "idle"
  BY <1>1 DEF NoShare, ShareType
<1>5. FoOK /\ fo \in [Pools -> Failover]
  <2>1. \A p \in Pools : \E has \in FailoverChoices : fo[p] = FoInit(has)
    OBVIOUS
  <2>2. FoOK
    BY <2>1, FoInitType DEF FoOK
  <2> QED  BY <2>2 DEF FoOK, Ranged
<1>6. slot \in [Slots -> [valid : BOOLEAN, job : Job]]
  BY JobTypes
<1>7. TypeOK
  <2>1. /\ squeue \in [Pools -> Seq(Notify)] /\ asic_queue \in Seq(Job)
        /\ held \in [Pools -> Notify \cup {NoNotify}] /\ sending \in Job
    BY JobTypes
  <2>2. /\ transport \in [Pools -> 0 .. MaxGen] /\ extranonce \in [Pools -> 0 .. MaxGen]
        /\ write_failed \in [Pools -> 0 .. MaxGen] /\ gen \in [Pools -> 0 .. MaxGen]
    BY <1>1
  <2>0. NoDrop \in NoDrop .. MaxGen /\ 0 \in 0 .. MaxNotifies
    BY Constants DEF NoDrop
  <2>3. /\ connected \in [Pools -> BOOLEAN]
        /\ drop_requested \in [Pools -> NoDrop .. MaxGen] /\ told \in [Pools -> 0 .. MaxNotifies]
        /\ is_using_failover \in [Pools -> BOOLEAN] /\ a_has_work \in BOOLEAN
        /\ transport_lock \in [Pools -> BOOLEAN] /\ next_slot \in Slots
    BY <1>1, <2>0
  <2> QED  BY <1>2, <1>3, <1>4, <1>5, <1>6, <2>1, <2>2, <2>3 DEF TypeOK
<1>8. PcOK
  BY <1>2 DEF PcOK
<1>9. SesOK
  BY <1>1 DEF SesOK, NotLater, NoNotify
<1>10. EnOK
  BY <1>1 DEF EnOK
<1>11. JobsOK
  BY <1>3, JobTypes DEF JobsOK
<1>12. LockOK
  BY <1>4 DEF LockOK, HandleOutlivesWrite
<1>13. RoomOK
  BY <1>2, <1>3, Constants DEF RoomOK
<1>14. OwnedOK
  BY <1>3 DEF OwnedOK
<1> QED
  BY <1>5, <1>7, <1>8, <1>9, <1>10, <1>11, <1>12, <1>13, <1>14 DEF IInv, Ring

LEMMA Parts ==
  ASSUME TypeOK
  PROVE  /\ pc \in PcType /\ pc.p \in Pools /\ pc.at \in Places
         /\ builder \in BuilderType /\ builder.p \in Pools
         /\ builder.at \in BuilderPlaces /\ builder.job \in Job
         /\ result \in ShareType /\ result.p \in Pools
         /\ \A s \in Slots : slot[s].valid \in BOOLEAN /\ slot[s].job \in Job
<1>1. pc \in PcType /\ pc.p \in Pools /\ pc.at \in Places
  BY DEF TypeOK, PcType, Places
<1>2. /\ builder \in BuilderType /\ builder.p \in Pools
      /\ builder.at \in BuilderPlaces /\ builder.job \in Job
  BY DEF TypeOK, BuilderType, BuilderPlaces
<1>3. result \in ShareType /\ result.p \in Pools
  BY DEF TypeOK, ShareType
<1>4. \A s \in Slots : slot[s].valid \in BOOLEAN /\ slot[s].job \in Job
  BY DEF TypeOK
<1> QED  BY <1>1, <1>2, <1>3, <1>4

\* What abandoning a pool's work leaves of the types.
LEMMA AbandonTypes ==
  ASSUME TypeOK, NEW p \in Pools, AbandonWork(p)
  PROVE  /\ squeue' \in [Pools -> Seq(Notify)]
         /\ asic_queue' \in Seq(Job)
         /\ slot' \in [Slots -> [valid : BOOLEAN, job : Job]]
         /\ held' \in [Pools -> Notify \cup {NoNotify}]
         /\ builder' \in BuilderType
         /\ sending' \in Job
<1>1. squeue' \in [Pools -> Seq(Notify)]
  BY DEF AbandonWork, TypeOK
<1>2. asic_queue' \in Seq(Job)
  BY ClearPoolKeeps DEF AbandonWork, TypeOK
<1>3. slot' \in [Slots -> [valid : BOOLEAN, job : Job]]
  BY DEF AbandonWork, TypeOK, InvalidateSlots
<1>4. held' \in [Pools -> Notify \cup {NoNotify}]
  <2>1. CASE held[p] = NoNotify
    BY <2>1 DEF AbandonWork, MarkHeld, TypeOK
  <2>2. CASE held[p] # NoNotify
    <3>1. held[p] \in Notify
      BY <2>2 DEF TypeOK
    <3>2. [held[p] EXCEPT !.late = TRUE] \in Notify
      BY <3>1 DEF Notify
    <3>3. held' = [held EXCEPT ![p] = [held[p] EXCEPT !.late = TRUE]]
      BY <2>2 DEF AbandonWork, MarkHeld, TypeOK
    <3> QED  BY <3>2, <3>3 DEF TypeOK
  <2> QED  BY <2>1, <2>2
<1>5. builder' \in BuilderType
  <2>1. builder' = [builder EXCEPT !.job = Mark(builder.job, p)]
    BY DEF AbandonWork, MarkHeld
  <2> QED  BY <2>1, Parts, JobTypes, BuilderTypes
<1>6. sending' \in Job
  BY JobTypes DEF AbandonWork, MarkHeld, TypeOK
<1> QED  BY <1>1, <1>2, <1>3, <1>4, <1>5, <1>6

LEMMA TypeStep ==
  ASSUME Ring, [Next]_vars
  PROVE  TypeOK' /\ FoOK'
<1> USE DEF Ring
<1> USE DEF sessVars, flagVars, buildVars, chipVars, resVars
<1>0. /\ 1 \in Pools /\ NoGen \in 0 .. MaxGen /\ TRUE \in BOOLEAN /\ FALSE \in BOOLEAN
      /\ FoOK' => \A p \in Pools : fo'[p] \in Failover
      /\ NoDrop \in NoDrop .. MaxGen /\ \A g \in 0 .. MaxGen : g \in NoDrop .. MaxGen
  BY Constants DEF Pools, NoGen, NoDrop, FoOK, Ranged
<1>1. ASSUME Top \/ NetOff \/ Sweep \/ ServiceSkip \/ ServiceRead \/ NotifyTest
      PROVE  TypeOK' /\ FoOK'
  <2>1. pc' \in PcType
    <3>1. CASE Top
      BY <3>1, <1>0, PcTypes, Parts DEF Top, Places
    <3>2. CASE NetOff
      BY <3>2, <1>0, PcTypes, PcAt, Parts DEF NetOff, Places
    <3>3. CASE Sweep
      <4> DEFINE d == IF pc.p < NPools THEN pc.dialled ELSE FALSE
      <4>1. d \in BOOLEAN
        BY DEF TypeOK, PcType
      <4>2. \/ pc' = [NextPool("sweep", pc.p, "service") EXCEPT !.dialled = d]
            \/ pc' = Goto("dial", pc.p)
        BY <3>3 DEF Sweep
      <4> HIDE DEF d
      <4>3. NextPool("sweep", pc.p, "service") \in PcType /\ Goto("dial", pc.p) \in PcType
        BY PcTypes, Parts DEF Places
      <4>4. [NextPool("sweep", pc.p, "service") EXCEPT !.dialled = d] \in PcType
        BY <4>1, <4>3, PcAt
      <4> QED  BY <4>2, <4>3, <4>4
    <3>4. CASE ServiceSkip
      BY <3>4, PcTypes, Parts DEF ServiceSkip
    <3>5. CASE ServiceRead
      BY <3>5, PcTypes, Parts DEF ServiceRead, Places
    <3>6. CASE NotifyTest
      BY <3>6, PcAt, Parts DEF NotifyTest, Places
    <3> QED  BY <1>1, <3>1, <3>2, <3>3, <3>4, <3>5, <3>6
  <2>2. UNCHANGED <<sessVars, flagVars, buildVars, chipVars, histVars, resVars>>
    BY <1>1 DEF Top, NetOff, Sweep, ServiceSkip, ServiceRead, NotifyTest
  <2> QED  BY <2>1, <2>2 DEF TypeOK, FoOK
<1>2. ASSUME Dial \/ DialFails
      PROVE  TypeOK' /\ FoOK'
  <2>1. pc' \in PcType
    BY <1>2, PcTypes, Parts DEF Dial, DialFails, Places
  <2>2. FoOK' /\ fo' \in [Pools -> Failover]
    <3>1. \/ UNCHANGED fo
          \/ fo' = [fo EXCEPT ![pc.p] = FoDisconnected(fo[pc.p])]
      BY <1>2 DEF Dial, DialFails
    <3>2. fo \in [Pools -> Failover]
      BY DEF TypeOK
    <3>3. \A p \in Pools : Ranged(fo'[p])
      BY <3>1, <3>2, FoTypes, Parts DEF FoOK
    <3>4. DOMAIN fo' = Pools /\ fo' = [p \in Pools |-> fo'[p]]
      BY <3>1, <3>2
    <3> QED  BY <3>3, <3>4, <1>0 DEF FoOK
  <2>3. is_using_failover' \in [Pools -> BOOLEAN]
    BY <1>2 DEF Dial, DialFails, TypeOK
  <2>4. UNCHANGED <<transport, connected, squeue, extranonce, flagVars, buildVars,
                    chipVars, histVars, resVars>>
    BY <1>2 DEF Dial, DialFails
  <2> QED  BY <2>1, <2>2, <2>3, <2>4 DEF TypeOK
<1>3. ASSUME Publish
      PROVE  TypeOK' /\ FoOK'
  <2> USE DEF Publish, ClearFlags
  <2>1. pc' \in PcType
    BY <1>3, PcTypes, Parts
  <2>2. FoOK' /\ fo' \in [Pools -> Failover]
    <3>1. fo' = [fo EXCEPT ![pc.p] = FoConnected(fo[pc.p])]
      BY <1>3
    <3>2. fo \in [Pools -> Failover]
      BY DEF TypeOK
    <3>3. \A p \in Pools : Ranged(fo'[p])
      BY <3>1, <3>2, FoTypes, Parts DEF FoOK
    <3>4. DOMAIN fo' = Pools /\ fo' = [p \in Pools |-> fo'[p]]
      BY <3>1, <3>2
    <3> QED  BY <3>3, <3>4, <1>0 DEF FoOK
  <2>3. gen[pc.p] + 1 \in 0 .. MaxGen
    <3>1. gen[pc.p] \in 0 .. MaxGen /\ gen[pc.p] < MaxGen
      BY <1>3, Parts DEF TypeOK
    <3> QED  BY <3>1, Constants
  <2>4. /\ gen' \in [Pools -> 0 .. MaxGen] /\ transport' \in [Pools -> 0 .. MaxGen]
        /\ write_failed' \in [Pools -> 0 .. MaxGen]
        /\ drop_requested' \in [Pools -> NoDrop .. MaxGen] /\ connected' \in [Pools -> BOOLEAN]
    BY <1>3, <2>3, <1>0 DEF TypeOK
  <2> QED  BY <1>3, <2>1, <2>2, <2>4 DEF TypeOK
<1>4. ASSUME ServiceFlag
      PROVE  TypeOK' /\ FoOK'
  <2>1. pc' \in PcType
    BY <1>4, PcTypes, Parts DEF ServiceFlag, Places
  <2>2. write_failed' \in [Pools -> 0 .. MaxGen] /\ drop_requested' \in [Pools -> NoDrop .. MaxGen]
    BY <1>4, <1>0 DEF ServiceFlag, ClearFlags, TypeOK
  <2> QED  BY <1>4, <2>1, <2>2 DEF TypeOK, FoOK, ServiceFlag
<1>5. ASSUME ServiceExtranonce
      PROVE  TypeOK' /\ FoOK'
  <2>1. pc' \in PcType
    BY <1>5, PcTypes, Parts DEF ServiceExtranonce
  <2>2. extranonce' \in [Pools -> 0 .. MaxGen]
    BY <1>5, Parts DEF ServiceExtranonce, TypeOK
  <2> QED  BY <1>5, <2>1, <2>2 DEF TypeOK, FoOK, ServiceExtranonce
<1>6. ASSUME NotifyRoom
      PROVE  TypeOK' /\ FoOK'
  <2>1. pc' \in PcType
    BY <1>6, PcAt, Parts DEF NotifyRoom, Places
  <2>2. \A q \in Seq(Notify) : (IF q = <<>> THEN q ELSE Tail(q)) \in Seq(Notify)
    OBVIOUS
  <2>3. squeue' \in [Pools -> Seq(Notify)]
    BY <1>6, <2>2, Parts DEF NotifyRoom, TypeOK
  <2> QED  BY <1>6, <2>1, <2>3 DEF TypeOK, FoOK, NotifyRoom
<1>7. ASSUME NotifyEnqueue
      PROVE  TypeOK' /\ FoOK'
  <2> DEFINE n == NewNotify(pc.p)
  <2>0. Issued(pc.p) \in 0 .. MaxNotifies
    <3>1. told[pc.p] \in 0 .. MaxNotifies
      BY Parts DEF TypeOK
    <3> QED  BY <3>1, Constants DEF Issued
  <2>1. pc' \in PcType
    BY <1>7, PcTypes, Parts DEF NotifyEnqueue
  <2>2. n \in Notify
    <3>1. gen[pc.p] \in 0 .. MaxGen /\ transport[pc.p] \in 0 .. MaxGen
      BY Parts DEF TypeOK
    <3>2. pc.at = "enqueue" /\ connected[pc.p]
      BY <1>7 DEF NotifyEnqueue, PcOK
    <3>3. transport[pc.p] # 0 /\ transport[pc.p] <= gen[pc.p]
      BY <3>2, Parts DEF PcOK, SesOK, NoGen
    <3> QED  BY <2>0, <3>1, <3>3, Constants DEF NewNotify, Notify, Gens
  <2>3. squeue' = [squeue EXCEPT ![pc.p] = Append(squeue[pc.p], n)]
    BY <1>7 DEF NotifyEnqueue
  <2> HIDE DEF n
  <2>4. squeue' \in [Pools -> Seq(Notify)]
    <3>1. squeue[pc.p] \in Seq(Notify)
      BY Parts DEF TypeOK
    <3>2. Append(squeue[pc.p], n) \in Seq(Notify)
      BY <2>2, <3>1
    <3> QED  BY <2>3, <3>2 DEF TypeOK
  <2>5. told' \in [Pools -> 0 .. MaxNotifies]
    BY <1>7, <2>0 DEF NotifyEnqueue, TypeOK
  <2> QED  BY <1>7, <2>1, <2>4, <2>5 DEF TypeOK, FoOK, NotifyEnqueue
<1>8. ASSUME Clean
      PROVE  TypeOK' /\ FoOK'
  <2>1. pc' \in PcType
    BY <1>8, PcTypes, Parts DEF Clean, Places
  <2>2. gen' \in [Pools -> 0 .. MaxGen]
    <3>1. gen[pc.p] \in 0 .. MaxGen
      BY Parts DEF TypeOK
    <3>2. gen[pc.p] < MaxGen
      BY <1>8 DEF PcOK, Clean
    <3>3. gen[pc.p] + 1 \in 0 .. MaxGen
      BY <3>1, <3>2, Constants
    <3> QED  BY <1>8, <3>3 DEF TypeOK, Clean
  <2>3. AbandonWork(pc.p)
    BY <1>8 DEF Clean
  <2>4. UNCHANGED <<transport, connected, extranonce, is_using_failover, fo,
                    flagVars, a_has_work, next_slot, told, resVars>>
    BY <1>8 DEF Clean
  <2> QED  BY <2>1, <2>2, <2>3, <2>4, AbandonTypes, Parts DEF TypeOK, FoOK
<1>9. ASSUME Unpublish
      PROVE  TypeOK' /\ FoOK'
  <2>1. pc' \in PcType
    BY <1>9, PcAt, Parts DEF Unpublish, Places
  <2>2. transport' \in [Pools -> 0 .. MaxGen]
    BY <1>9, <1>0 DEF Unpublish, TypeOK
  <2> QED  BY <1>9, <2>1, <2>2 DEF TypeOK, FoOK, Unpublish
<1>10. ASSUME CloseAbandon
       PROVE  TypeOK' /\ FoOK'
  <2>1. pc' \in PcType
    BY <1>10, PcAt, Parts DEF CloseAbandon, Places
  <2>2. connected' \in [Pools -> BOOLEAN]
    BY <1>10, <1>0 DEF TypeOK, CloseAbandon
  <2>3. AbandonWork(pc.p)
    BY <1>10 DEF CloseAbandon
  <2>4. UNCHANGED <<transport, extranonce, is_using_failover, fo,
                    flagVars, a_has_work, next_slot, histVars, resVars>>
    BY <1>10 DEF CloseAbandon
  <2> QED  BY <2>1, <2>2, <2>3, <2>4, AbandonTypes, Parts DEF TypeOK, FoOK
<1>11. ASSUME CloseForget
       PROVE  TypeOK' /\ FoOK'
  <2>1. pc' \in PcType
    BY <1>11, PcTypes, Parts DEF CloseForget
  <2>2. FoOK' /\ fo' \in [Pools -> Failover]
    <3>1. \/ UNCHANGED fo
          \/ fo' = [fo EXCEPT ![pc.p] = FoDisconnected(fo[pc.p])]
      BY <1>11 DEF CloseForget
    <3>2. fo \in [Pools -> Failover]
      BY DEF TypeOK
    <3>3. \A p \in Pools : Ranged(fo'[p])
      BY <3>1, <3>2, FoTypes, Parts DEF FoOK
    <3>4. DOMAIN fo' = Pools /\ fo' = [p \in Pools |-> fo'[p]]
      BY <3>1, <3>2
    <3> QED  BY <3>3, <3>4, <1>0 DEF FoOK
  <2>3. extranonce' \in [Pools -> 0 .. MaxGen]
    BY <1>11, <1>0 DEF CloseForget, ExtranonceForgotten, TypeOK
  <2> QED  BY <1>11, <2>1, <2>2, <2>3 DEF TypeOK, CloseForget
<1>12. ASSUME BuildStart \/ BuildDrained \/ BuildSelect \/ BuildRecheck
       PROVE  TypeOK' /\ FoOK'
  <2>1. PoolASlice \in BuilderType
    BY <1>0, BuilderTypes, JobTypes DEF PoolASlice, BuilderPlaces
  <2>2. builder' \in BuilderType
    <3>1. CASE BuildStart
      BY <3>1, <1>0, BuilderTypes DEF BuildStart, BuilderPlaces
    <3>2. CASE BuildDrained
      <4>1. builder.p < NPools => builder.p + 1 \in Pools
        BY Parts, Constants DEF Pools
      <4> QED  BY <3>2, <4>1, <1>0, BuilderTypes DEF BuildDrained, BuilderPlaces
    <3>3. CASE BuildSelect
      <4>1. PICK chosen \in 0 .. NPools :
              builder' = IF chosen # POOL_A /\ held[chosen] # NoNotify
                         THEN BuilderAt("recheck", chosen) ELSE PoolASlice
        BY <3>3 DEF BuildSelect
      <4>2. chosen # POOL_A => chosen \in Pools
        BY Constants DEF POOL_A, Pools
      <4> QED  BY <4>1, <4>2, <2>1, BuilderTypes DEF BuilderPlaces
    <3>4. CASE BuildRecheck
      BY <3>4, <2>1, Parts, BuilderTypes DEF BuildRecheck, BuilderPlaces
    <3> QED  BY <1>12, <3>1, <3>2, <3>3, <3>4
  <2>3. UNCHANGED <<pc, sessVars, flagVars, held, a_has_work, chipVars, histVars, resVars>>
    BY <1>12 DEF BuildStart, BuildDrained, BuildSelect, BuildRecheck
  <2> QED  BY <2>2, <2>3 DEF TypeOK, FoOK
<1>13. ASSUME BuildCheck
       PROVE  TypeOK' /\ FoOK'
  <2>1. builder' \in BuilderType
    BY <1>13, Parts, BuilderTypes DEF BuildCheck, BuilderPlaces
  <2>2. held' \in [Pools -> Notify \cup {NoNotify}]
    BY <1>13 DEF BuildCheck, HeldIfUp, TypeOK
  <2> QED  BY <1>13, <2>1, <2>2 DEF TypeOK, FoOK, BuildCheck
<1>14. ASSUME BuildDrain
       PROVE  TypeOK' /\ FoOK'
  <2>1. squeue[builder.p] \in Seq(Notify) /\ squeue[builder.p] # <<>>
    BY <1>14, Parts DEF BuildDrain, TypeOK
  <2>2. Head(squeue[builder.p]) \in Notify /\ Tail(squeue[builder.p]) \in Seq(Notify)
    BY <2>1
  <2>3. held' \in [Pools -> Notify \cup {NoNotify}]
    BY <1>14, <2>2 DEF BuildDrain, TypeOK
  <2>4. squeue' \in [Pools -> Seq(Notify)]
    BY <1>14, <2>2 DEF BuildDrain, TypeOK
  <2> QED  BY <1>14, <2>3, <2>4 DEF TypeOK, FoOK, BuildDrain
<1>15. ASSUME BuildCopy
       PROVE  TypeOK' /\ FoOK'
  <2>1. JobOf(builder.p, held[builder.p], extranonce[builder.p]) \in Job
    BY Parts, JobTypes DEF TypeOK
  <2>2. builder' \in BuilderType
    BY <1>15, <2>1, <1>0, Parts, BuilderTypes DEF BuildCopy, BuilderPlaces
  <2> QED  BY <1>15, <2>2 DEF TypeOK, FoOK, BuildCopy
<1>16. ASSUME BuildPut
       PROVE  TypeOK' /\ FoOK'
  <2>1. builder' \in BuilderType
    BY <1>16, <1>0, BuilderTypes DEF BuildPut, BuilderPlaces
  <2>2. asic_queue' \in Seq(Job)
    <3>1. asic_queue \in Seq(Job) /\ builder.job \in Job
      BY Parts DEF TypeOK
    <3>2. Append(asic_queue, builder.job) \in Seq(Job)
      BY <3>1
    <3>3. asic_queue' \in {asic_queue, Append(asic_queue, builder.job)}
      BY <1>16 DEF BuildPut
    <3> QED  BY <3>1, <3>2, <3>3
  <2> QED  BY <1>16, <2>1, <2>2 DEF TypeOK, FoOK, BuildPut
<1>17. ASSUME SendTake
       PROVE  TypeOK' /\ FoOK'
  <2>1. sending' \in Job /\ asic_queue' \in Seq(Job)
    BY <1>17 DEF SendTake, TypeOK
  <2> QED  BY <1>17, <2>1 DEF TypeOK, FoOK, SendTake
<1>18. ASSUME SendPlace
       PROVE  TypeOK' /\ FoOK'
  <2>1. slot' \in [Slots -> [valid : BOOLEAN, job : Job]]
    BY <1>18 DEF SendPlace, TypeOK
  <2>2. next_slot' \in Slots
    BY <1>18, Constants DEF SendPlace, TypeOK, Slots
  <2>3. sending' \in Job
    BY <1>18, JobTypes DEF SendPlace
  <2> QED  BY <1>18, <2>1, <2>2, <2>3 DEF TypeOK, FoOK, SendPlace
<1>19. ASSUME Result
       PROVE  TypeOK' /\ FoOK'
  <2>1. NoShare \in ShareType
    BY <1>0 DEF NoShare, ShareType
  <2>2. result' \in ShareType
    <3>1. CASE ResultTake
      <4>1. PICK s \in Slots :
               /\ slot[s].job.pool # POOL_A /\ slot[s].valid
               /\ result' = [NoShare EXCEPT !.at = "user", !.p = slot[s].job.pool,
                                            !.ses = slot[s].job.ses]
        BY <3>1 DEF ResultTake
      <4>2. slot[s].job.pool \in Pools /\ slot[s].job.ses \in 0 .. MaxGen
        <5>1. slot[s].job.pool \in 0 .. NPools
          BY <4>1 DEF OwnedOK, Owned
        <5>2. slot[s].job.ses \in 0 .. MaxGen
          BY Parts DEF Job
        <5> QED  BY <4>1, <5>1, <5>2, Constants DEF POOL_A, Pools
      <4> QED  BY <2>1, <4>1, <4>2 DEF ShareType
    <3>2. CASE ResultUser
      <4>1. PoolUser(result.p) \in 0 .. 1
        BY DEF PoolUser
      <4>2. result' = [result EXCEPT !.at = "lock", !.user = PoolUser(result.p)]
        BY <3>2 DEF ResultUser
      <4> HIDE DEF PoolUser
      <4> QED  BY <4>1, <4>2, Parts DEF ShareType
    <3>3. CASE ResultLock
      BY <3>3, <2>1, Parts DEF ResultLock, ShareType
    <3>4. CASE ResultWritten
      BY <3>4, <2>1 DEF ResultWritten
    <3> QED  BY <1>19, <3>1, <3>2, <3>3, <3>4 DEF Result
  <2>3. /\ transport_lock' \in [Pools -> BOOLEAN]
        /\ write_failed' \in [Pools -> 0 .. MaxGen]
        /\ UNCHANGED <<pc, sessVars, drop_requested, buildVars, chipVars, histVars>>
    BY <1>19, <1>0, Parts
       DEF Result, ResultTake, ResultUser, ResultLock, ResultWritten, TypeOK
  <2> QED  BY <2>2, <2>3 DEF TypeOK, FoOK
<1>20. ASSUME Environment
       PROVE  TypeOK' /\ FoOK'
  <2>1. CASE PostPoolDrop
    <3>1. drop_requested' \in [Pools -> NoDrop .. MaxGen]
      BY <2>1, <1>0 DEF PostPoolDrop, TypeOK
    <3> QED  BY <2>1, <3>1 DEF PostPoolDrop, TypeOK, FoOK
  <2>2. CASE PoolAWork
    BY <2>2 DEF PoolAWork, TypeOK, FoOK
  <2>3. CASE PoolAClean
    <3>1. asic_queue' \in Seq(Job)
      BY <2>3, ClearPoolKeeps DEF PoolAClean, TypeOK
    <3>2. slot' \in [Slots -> [valid : BOOLEAN, job : Job]]
      <4>1. InvalidateSlots(POOL_A) \in [Slots -> [valid : BOOLEAN, job : Job]]
        BY DEF InvalidateSlots, TypeOK
      <4> QED  BY <2>3, <4>1 DEF PoolAClean, TypeOK
    <3> QED  BY <2>3, <3>1, <3>2 DEF PoolAClean, TypeOK, FoOK
  <2> QED  BY <1>20, <2>1, <2>2, <2>3 DEF Environment
<1>21. CASE UNCHANGED vars
  BY <1>21 DEF vars, TypeOK, FoOK
<1> QED
  BY <1>1, <1>2, <1>3, <1>4, <1>5, <1>6, <1>7, <1>8, <1>9, <1>10, <1>11, <1>12,
     <1>13, <1>14, <1>15, <1>16, <1>17, <1>18, <1>19, <1>20, <1>21
     DEF Next, PoolTask, Builder, Sender

\* Nobody but the pool task moves it, nor the sessions' links and generations.
LEMMA OnlyPoolTask ==
  ASSUME [Next]_vars, ~PoolTask
  PROVE  UNCHANGED <<pc, transport, connected, extranonce, is_using_failover, fo, histVars>>
<1> USE DEF sessVars
<1>1. CASE Builder
  BY <1>1 DEF Builder, BuildStart, BuildCheck, BuildDrain, BuildDrained, BuildSelect,
              BuildRecheck, BuildCopy, BuildPut
<1>2. CASE Sender
  BY <1>2 DEF Sender, SendTake, SendPlace
<1>3. CASE Result
  BY <1>3 DEF Result, ResultTake, ResultUser, ResultLock, ResultWritten
<1>4. CASE Environment
  BY <1>4 DEF Environment, PostPoolDrop, PoolAWork, PoolAClean
<1>5. CASE UNCHANGED vars
  BY <1>5 DEF vars
<1> QED  BY <1>1, <1>2, <1>3, <1>4, <1>5 DEF Next

LEMMA PcStep ==
  ASSUME Ring, [Next]_vars
  PROVE  PcOK'
<1> USE DEF sessVars
<1>0. /\ pc.p \in Pools /\ 1 \in Pools
      /\ transport \in [Pools -> 0 .. MaxGen] /\ connected \in [Pools -> BOOLEAN]
      /\ \A p \in Pools : gen[p] \in Nat
      /\ PcOK /\ TypeOK /\ pc \in PcType
  <2>1. TypeOK /\ PcOK
    BY DEF Ring
  <2>2. transport \in [Pools -> 0 .. MaxGen] /\ connected \in [Pools -> BOOLEAN]
    BY <2>1 DEF TypeOK
  <2>3. \A p \in Pools : gen[p] \in Nat
    BY <2>1, Constants DEF TypeOK
  <2>4. 1 \in Pools
    BY Constants DEF Pools
  <2> QED  BY <2>1, <2>2, <2>3, <2>4, Parts
\* Back in one of the loops there is nothing to say of the position.
<1>1. ASSUME UNCHANGED <<transport, connected, gen>>, pc.at # "abandon",
             pc'.at \in {"top", "netoff", "sweep", "service", "notify"},
             pc'.at = "notify" => connected[pc'.p]
      PROVE  PcOK'
  BY <1>0, <1>1 DEF PcOK
<1>2. CASE Top
  BY <1>0, <1>1, <1>2, PcTypes DEF Top, Places
<1>3. CASE NetOff
  <2>1. UNCHANGED <<transport, connected, gen>> /\ pc.at = "netoff"
    BY <1>3 DEF NetOff
  <2>2. CASE connected[pc.p]
    <3>1. pc' = [Goto("unpublish", pc.p) EXCEPT !.off = TRUE]
      BY <1>3, <2>2 DEF NetOff
    <3>2. pc'.at = "unpublish" /\ pc'.p = pc.p
      <4> DEFINE g == Goto("unpublish", pc.p)
      <4>1. g \in PcType /\ g.at = "unpublish" /\ g.p = pc.p
        BY <1>0, PcTypes DEF Places
      <4>2. pc' = [g EXCEPT !.off = TRUE]
        BY <3>1
      <4> HIDE DEF g
      <4> QED  BY <4>1, <4>2, PcAt
    <3> QED  BY <1>0, <2>1, <2>2, <3>2 DEF PcOK
  <2>3. CASE ~connected[pc.p]
    <3>1. pc' = NextPool("netoff", pc.p, "top")
      BY <1>3, <2>3 DEF NetOff
    <3>2. pc'.at \in {"netoff", "top"}
      BY <1>0, <3>1, PcTypes
    <3> QED  BY <1>1, <2>1, <3>2
  <2> QED  BY <2>2, <2>3
<1>4. CASE Sweep
  <2>1. UNCHANGED <<transport, connected, gen>> /\ pc.at = "sweep"
    BY <1>4 DEF Sweep
  <2>2. CASE ~connected[pc.p] /\ pc' = Goto("dial", pc.p)
    <3>1. pc'.at = "dial" /\ pc'.p = pc.p
      BY <1>0, <2>2, PcTypes DEF Places
    <3> QED  BY <1>0, <2>1, <2>2, <3>1 DEF PcOK
  <2>3. CASE pc' = [NextPool("sweep", pc.p, "service") EXCEPT !.dialled =
                      IF pc.p < NPools THEN pc.dialled ELSE FALSE]
    <3> DEFINE d == IF pc.p < NPools THEN pc.dialled ELSE FALSE
               g == NextPool("sweep", pc.p, "service")
    <3>1. d \in BOOLEAN
      BY <1>0 DEF PcType
    <3>2. g \in PcType /\ g.at \in {"sweep", "service"}
      BY <1>0, PcTypes
    <3>3. pc' = [g EXCEPT !.dialled = d]
      BY <2>3
    <3> HIDE DEF d, g
    <3>4. pc'.at \in {"sweep", "service"}
      BY <3>1, <3>2, <3>3, PcAt
    <3> QED  BY <1>1, <2>1, <3>4
  <2> QED  BY <1>4, <2>2, <2>3 DEF Sweep
<1>5. CASE Dial
  <2>1. UNCHANGED <<transport, connected, gen>> /\ pc.at = "dial"
    BY <1>5 DEF Dial
  <2>2. pc' = Dialled(pc.p) \/ pc' = Goto("dialing", pc.p)
    BY <1>5 DEF Dial
  <2>3. CASE pc' = Dialled(pc.p)
    BY <1>0, <1>1, <2>1, <2>3, PcTypes
  <2>4. CASE pc' = Goto("dialing", pc.p)
    <3>1. pc'.at = "dialing" /\ pc'.p = pc.p
      BY <1>0, <2>4, PcTypes DEF Places
    <3> QED  BY <1>0, <2>1, <3>1 DEF PcOK
  <2> QED  BY <2>2, <2>3, <2>4
<1>6. CASE DialFails
  BY <1>0, <1>1, <1>6, PcTypes DEF DialFails
<1>7. CASE Publish
  <2>1. /\ pc.at = "dialing"
        /\ gen' = [gen EXCEPT ![pc.p] = @ + 1]
        /\ transport' = [transport EXCEPT ![pc.p] = gen[pc.p] + 1]
        /\ connected' = [connected EXCEPT ![pc.p] = TRUE]
        /\ pc' = Dialled(pc.p)
    BY <1>7 DEF Publish
  <2>2. pc'.at \in {"sweep", "service"}
    BY <1>0, <2>1, PcTypes
  <2>3. gen[pc.p] + 1 # 0
    BY <1>0
  <2> QED  BY <1>0, <2>1, <2>2, <2>3 DEF PcOK, NoGen
<1>8. CASE ServiceSkip
  BY <1>0, <1>1, <1>8, PcTypes DEF ServiceSkip
<1>9. CASE ServiceFlag
  <2>1. UNCHANGED <<transport, connected, gen>> /\ pc.at = "service" /\ connected[pc.p]
    BY <1>9 DEF ServiceFlag, Reading
  <2>2. pc'.at = "unpublish" /\ pc'.p = pc.p
    BY <1>0, <1>9, PcTypes DEF ServiceFlag, Places
  <2> QED  BY <1>0, <2>1, <2>2 DEF PcOK
<1>10. CASE ServiceRead
  <2>1. UNCHANGED <<transport, connected, gen>> /\ pc.at = "service" /\ connected[pc.p]
    BY <1>10 DEF ServiceRead, Reading
  <2>2. \/ pc'.at \in {"service", "top"}
        \/ pc'.at \in {"unpublish", "notify"} /\ pc'.p = pc.p
        \/ pc'.at = "clean" /\ pc'.p = pc.p /\ gen[pc.p] < MaxGen
    BY <1>0, <1>10, PcTypes DEF ServiceRead, Places
  <2> QED  BY <1>0, <2>1, <2>2 DEF PcOK
<1>11. CASE ServiceExtranonce
  BY <1>0, <1>1, <1>11, PcTypes DEF ServiceExtranonce, Reading
<1>12. CASE NotifyTest \/ NotifyRoom
  <2>1. UNCHANGED <<transport, connected, gen>> /\ pc.at \in {"notify", "room"}
    BY <1>12 DEF NotifyTest, NotifyRoom
  <2>2. pc'.at \in {"room", "enqueue"} /\ pc'.p = pc.p
    <3>1. pc' = [pc EXCEPT !.at = "room"] \/ pc' = [pc EXCEPT !.at = "enqueue"]
      BY <1>12 DEF NotifyTest, NotifyRoom
    <3>2. CASE pc' = [pc EXCEPT !.at = "room"]
      BY <1>0, <3>2, PcAt DEF Places
    <3>3. CASE pc' = [pc EXCEPT !.at = "enqueue"]
      BY <1>0, <3>3, PcAt DEF Places
    <3> QED  BY <3>1, <3>2, <3>3
  <2> QED  BY <1>0, <2>1, <2>2 DEF PcOK
<1>13. CASE NotifyEnqueue
  BY <1>0, <1>1, <1>13, PcTypes DEF NotifyEnqueue
<1>14. CASE Clean
  <2>1. UNCHANGED <<transport, connected>> /\ pc.at = "clean"
    BY <1>14 DEF Clean
  <2>2. pc'.at = "notify" /\ pc'.p = pc.p
    BY <1>0, <1>14, PcTypes DEF Clean, Places
  <2> QED  BY <1>0, <2>1, <2>2 DEF PcOK
<1>15. CASE Unpublish
  <2>1. /\ pc.at = "unpublish" /\ UNCHANGED <<connected, gen>>
        /\ transport' = [transport EXCEPT ![pc.p] = NoGen]
    BY <1>15 DEF Unpublish
  <2>2. pc'.at = "abandon" /\ pc'.p = pc.p
    BY <1>0, <1>15, PcAt DEF Unpublish, Places
  <2> QED  BY <1>0, <2>1, <2>2 DEF PcOK
<1>16. CASE CloseAbandon
  <2>1. /\ pc.at = "abandon" /\ UNCHANGED <<transport, gen>>
        /\ connected' = [connected EXCEPT ![pc.p] = FALSE]
    BY <1>16 DEF CloseAbandon
  <2>2. pc'.at = "forget" /\ pc'.p = pc.p
    BY <1>0, <1>16, PcAt DEF CloseAbandon, Places
  <2> QED  BY <1>0, <2>1, <2>2 DEF PcOK
<1>17. CASE CloseForget
  <2>1. UNCHANGED <<transport, connected, gen>> /\ pc.at = "forget"
    BY <1>17 DEF CloseForget
  <2>2. pc'.at \in {"netoff", "service", "top"}
    BY <1>0, <1>17, PcTypes DEF CloseForget
  <2> QED  BY <1>1, <2>1, <2>2
<1>18. CASE ~PoolTask
  <2>1. UNCHANGED <<pc, transport, connected, gen>>
    BY <1>18, OnlyPoolTask
  <2> QED  BY <1>0, <2>1 DEF PcOK
<1> QED
  BY <1>2, <1>3, <1>4, <1>5, <1>6, <1>7, <1>8, <1>9, <1>10, <1>11, <1>12, <1>13,
     <1>14, <1>15, <1>16, <1>17, <1>18 DEF PoolTask

\* The held notify of a pool whose work is abandoned is marked, if there is one.
LateNotify(n) == IF n = NoNotify THEN n ELSE [n EXCEPT !.late = TRUE]

LEMMA LateNotifies ==
  ASSUME NEW n \in Notify \cup {NoNotify}
  PROVE  /\ LateNotify(n).ses = n.ses /\ LateNotify(n).gen = n.gen
         /\ LateNotify(n).num = n.num
         /\ LateNotify(n) = NoNotify <=> n = NoNotify
         /\ LateNotify(n) # NoNotify => LateNotify(n).late
<1>1. CASE n = NoNotify
  BY <1>1 DEF LateNotify
<1>2. CASE n # NoNotify
  <2>1. n \in Notify /\ LateNotify(n) = [n EXCEPT !.late = TRUE]
    BY <1>2 DEF LateNotify, Notify
  <2> QED  BY <1>2, <2>1 DEF NoNotify
<1> QED  BY <1>1, <1>2

\* What abandoning a pool's work leaves of the queues, and of the jobs in hand.
LEMMA AbandonLeaves ==
  ASSUME TypeOK, NEW p \in Pools, AbandonWork(p)
  PROVE  /\ \A q \in Pools : held'[q] = IF q = p THEN LateNotify(held[q]) ELSE held[q]
         /\ \A q \in Pools : squeue'[q] = IF q = p THEN <<>> ELSE squeue[q]
         /\ builder'.at = builder.at /\ builder'.p = builder.p
         /\ builder'.job = Mark(builder.job, p)
         /\ sending' = Mark(sending, p)
         /\ Len(asic_queue') <= Len(asic_queue)
         /\ \A k \in 1 .. Len(asic_queue') :
               /\ asic_queue'[k].pool # p
               /\ \E i \in 1 .. Len(asic_queue) : asic_queue'[k] = asic_queue[i]
         /\ \A s \in Slots : /\ slot'[s].job = slot[s].job
                             /\ slot'[s].valid => slot[s].valid /\ slot[s].job.pool # p
<1>1. \A q \in Pools : held'[q] = IF q = p THEN LateNotify(held[q]) ELSE held[q]
  <2>1. CASE held[p] = NoNotify
    BY <2>1 DEF AbandonWork, MarkHeld, LateNotify
  <2>2. CASE held[p] # NoNotify
    <3>1. held' = [held EXCEPT ![p] = [held[p] EXCEPT !.late = TRUE]]
      BY <2>2 DEF AbandonWork, MarkHeld, TypeOK
    <3> QED  BY <2>2, <3>1 DEF TypeOK, LateNotify
  <2> QED  BY <2>1, <2>2
<1>2. \A q \in Pools : squeue'[q] = IF q = p THEN <<>> ELSE squeue[q]
  BY DEF AbandonWork, TypeOK
<1>3. /\ builder'.at = builder.at /\ builder'.p = builder.p
      /\ builder'.job = Mark(builder.job, p)
  <2>1. builder' = [builder EXCEPT !.job = Mark(builder.job, p)]
    BY DEF AbandonWork, MarkHeld
  <2> QED  BY <2>1, Parts, JobTypes, BuilderTypes
<1>4. sending' = Mark(sending, p)
  BY DEF AbandonWork, MarkHeld
<1>5. /\ Len(asic_queue') <= Len(asic_queue)
      /\ \A k \in 1 .. Len(asic_queue') :
            /\ asic_queue'[k].pool # p
            /\ \E i \in 1 .. Len(asic_queue) : asic_queue'[k] = asic_queue[i]
  <2>1. asic_queue \in Seq(Job) /\ ClearPool(asic_queue, p, asic_queue')
    BY DEF AbandonWork, TypeOK
  <2> QED  BY <2>1, ClearPoolKeeps
<1>6. \A s \in Slots : /\ slot'[s].job = slot[s].job
                       /\ slot'[s].valid => slot[s].valid /\ slot[s].job.pool # p
  BY DEF AbandonWork, InvalidateSlots, TypeOK
<1> QED  BY <1>1, <1>2, <1>3, <1>4, <1>5, <1>6

LEMMA TailElements ==
  ASSUME NEW S, NEW q \in Seq(S), q # <<>>
  PROVE  /\ Head(q) = q[1] /\ 1 \in 1 .. Len(q)
         /\ Len(Tail(q)) = Len(q) - 1
         /\ \A i \in 1 .. Len(Tail(q)) : i + 1 \in 1 .. Len(q) /\ Tail(q)[i] = q[i + 1]
  OBVIOUS

LEMMA Numbers ==
  ASSUME TypeOK
  PROVE  \A p \in Pools :
            /\ gen[p] \in Nat /\ transport[p] \in Nat /\ extranonce[p] \in Nat
            /\ squeue[p] \in Seq(Notify) /\ Len(squeue[p]) \in Nat
            /\ held[p].ses \in Nat
            /\ \A i \in 1 .. Len(squeue[p]) : squeue[p][i].ses \in Nat
<1>1. /\ gen \in [Pools -> 0 .. MaxGen] /\ transport \in [Pools -> 0 .. MaxGen]
      /\ extranonce \in [Pools -> 0 .. MaxGen]
      /\ squeue \in [Pools -> Seq(Notify)] /\ held \in [Pools -> Notify \cup {NoNotify}]
  BY DEF TypeOK
<1>2. NoNotify.ses \in Nat /\ \A n \in Notify : n.ses \in Nat
  BY Constants DEF NoNotify, NoGen, Notify, Gens
<1> QED  BY <1>1, <1>2, Constants

\* What a step does to the notifies kept for pool p: nothing, or the builder lets go
\* of its own; the oldest in the queue goes, to the builder or away; the pool task
\* adds the latest; or the pool's work is abandoned.
Stays(p)    == squeue'[p] = squeue[p] /\ held'[p] \in {held[p], NoNotify}
Advances(p) == /\ squeue[p] # <<>> /\ squeue'[p] = Tail(squeue[p])
               /\ held'[p] \in {held[p], Head(squeue[p])}
Extended(p) ==
    /\ NotifyEnqueue /\ pc.p = p /\ connected[p] /\ held'[p] = held[p]
    /\ squeue'[p] = Append(squeue[p], NewNotify(p))
Emptied(p) ==
    /\ pc.p = p /\ AbandonWork(p)
    /\ squeue'[p] = <<>> /\ held'[p] = LateNotify(held[p])

LEMMA NotifySteps ==
  ASSUME Ring, [Next]_vars
  PROVE  \A p \in Pools : Stays(p) \/ Advances(p) \/ Extended(p) \/ Emptied(p)
<1> USE DEF sessVars, buildVars
<1>0. /\ TypeOK /\ pc.p \in Pools /\ builder.p \in Pools
      /\ squeue \in [Pools -> Seq(Notify)] /\ held \in [Pools -> Notify \cup {NoNotify}]
  <2>1. TypeOK /\ squeue \in [Pools -> Seq(Notify)]
        /\ held \in [Pools -> Notify \cup {NoNotify}]
    BY DEF Ring, TypeOK
  <2> QED  BY <2>1, Parts
<1>1. CASE UNCHANGED <<squeue, held>>
  BY <1>1 DEF Stays
<1>2. CASE Clean \/ CloseAbandon
  <2>1. AbandonWork(pc.p)
    BY <1>2 DEF Clean, CloseAbandon
  <2>2. /\ \A q \in Pools : held'[q] = IF q = pc.p THEN LateNotify(held[q]) ELSE held[q]
        /\ \A q \in Pools : squeue'[q] = IF q = pc.p THEN <<>> ELSE squeue[q]
    BY <1>0, <2>1, AbandonLeaves
  <2> QED  BY <2>1, <2>2 DEF Stays, Emptied
<1>3. CASE NotifyRoom
  <2>1. /\ squeue' = [squeue EXCEPT ![pc.p] = IF squeue[pc.p] = <<>> THEN squeue[pc.p]
                                              ELSE Tail(squeue[pc.p])]
        /\ UNCHANGED held
    BY <1>3 DEF NotifyRoom
  <2> QED  BY <1>0, <2>1 DEF Stays, Advances
<1>4. CASE NotifyEnqueue
  <2>1. /\ squeue' = [squeue EXCEPT ![pc.p] = Append(squeue[pc.p], NewNotify(pc.p))]
        /\ UNCHANGED held /\ pc.at = "enqueue"
    BY <1>4 DEF NotifyEnqueue
  <2>2. connected[pc.p]
    BY <2>1 DEF Ring, PcOK
  <2> QED  BY <1>0, <1>4, <2>1, <2>2 DEF Stays, Extended
<1>5. CASE BuildCheck
  BY <1>0, <1>5 DEF BuildCheck, HeldIfUp, Stays
<1>6. CASE BuildDrain
  <2>1. /\ squeue[builder.p] # <<>>
        /\ held' = [held EXCEPT ![builder.p] = Head(squeue[builder.p])]
        /\ squeue' = [squeue EXCEPT ![builder.p] = Tail(squeue[builder.p])]
    BY <1>6 DEF BuildDrain
  <2> QED  BY <1>0, <2>1 DEF Stays, Advances
<1>7. CASE \/ Top \/ NetOff \/ Sweep \/ Dial \/ DialFails \/ Publish \/ ServiceSkip
           \/ ServiceFlag \/ ServiceRead \/ ServiceExtranonce \/ NotifyTest
           \/ Unpublish \/ CloseForget
  BY <1>1, <1>7 DEF Top, NetOff, Sweep, Dial, DialFails, Publish, ServiceSkip,
       ServiceFlag, ServiceRead, ServiceExtranonce, NotifyTest, Unpublish, CloseForget
<1>8. CASE \/ BuildStart \/ BuildDrained \/ BuildSelect \/ BuildRecheck \/ BuildCopy
           \/ BuildPut \/ Sender \/ Result \/ Environment \/ UNCHANGED vars
  <2>1. UNCHANGED <<squeue, held>>
    BY <1>8 DEF BuildStart, BuildDrained, BuildSelect, BuildRecheck, BuildCopy, BuildPut,
         Sender, SendTake, SendPlace, Result, ResultTake, ResultUser, ResultLock,
         ResultWritten, Environment, PostPoolDrop, PoolAWork, PoolAClean, vars
  <2> QED  BY <1>1, <2>1
<1> QED
  BY <1>2, <1>3, <1>4, <1>5, <1>6, <1>7, <1>8 DEF Next, PoolTask, Builder

\* The notifies kept for pool p after a step were kept for it before.
Kept(p) ==
    /\ \/ held'[p].ses = 0
       \/ held'[p].ses = held[p].ses
       \/ \E k \in 1 .. Len(squeue[p]) : held'[p].ses = squeue[p][k].ses
    /\ Len(squeue'[p]) <= Len(squeue[p])
    /\ \A i \in 1 .. Len(squeue'[p]) : \E k \in 1 .. Len(squeue[p]) :
          squeue'[p][i] = squeue[p][k]

LEMMA NotifiesMove ==
  ASSUME Ring, [Next]_vars, ~NotifyEnqueue
  PROVE  \A p \in Pools : Kept(p)
<1> TAKE p \in Pools
<1>1. squeue[p] \in Seq(Notify) /\ Len(squeue[p]) \in Nat /\ held[p] \in Notify \cup {NoNotify}
  BY Numbers DEF Ring, TypeOK
<1>2. CASE Stays(p)
  BY <1>1, <1>2 DEF Stays, Kept, NoNotify, NoGen
<1>3. CASE Advances(p)
  <2>1. /\ Head(squeue[p]) = squeue[p][1] /\ 1 \in 1 .. Len(squeue[p])
        /\ squeue'[p] = Tail(squeue[p]) /\ held'[p] \in {held[p], Head(squeue[p])}
        /\ Len(squeue'[p]) = Len(squeue[p]) - 1
        /\ \A i \in 1 .. Len(squeue'[p]) :
              i + 1 \in 1 .. Len(squeue[p]) /\ squeue'[p][i] = squeue[p][i + 1]
    BY <1>1, <1>3, TailElements DEF Advances
  <2>2. Len(squeue'[p]) <= Len(squeue[p])
    BY <1>1, <2>1
  <2> QED  BY <2>1, <2>2 DEF Kept
<1>4. CASE Emptied(p)
  <2>1. held'[p].ses = held[p].ses
    BY <1>1, <1>4, LateNotifies DEF Emptied
  <2> QED  BY <1>1, <1>4, <2>1 DEF Emptied, Kept
<1> QED  BY <1>2, <1>3, <1>4, NotifySteps DEF Extended

\* What a step does to pool p's link: its generation only goes up, and a session is
\* only started, by the pool task at its dial, as the latest generation.
Moved(p) ==
    /\ gen'[p] \in Nat /\ gen[p] <= gen'[p]
    /\ \/ transport'[p] = transport[p]
       \/ transport'[p] = 0 /\ pc.at = "unpublish" /\ pc.p = p
       \/ transport'[p] = gen'[p] /\ pc.at = "dialing" /\ pc.p = p

LEMMA LinksMove ==
  ASSUME Ring, [Next]_vars
  PROVE  \A p \in Pools : Moved(p)
<1> USE DEF sessVars
<1>0. /\ pc.p \in Pools /\ \A p \in Pools : gen[p] \in Nat
      /\ gen \in [Pools -> 0 .. MaxGen] /\ transport \in [Pools -> 0 .. MaxGen]
  <2>1. /\ TypeOK /\ gen \in [Pools -> 0 .. MaxGen]
        /\ transport \in [Pools -> 0 .. MaxGen]
    BY DEF Ring, TypeOK
  <2>2. \A p \in Pools : gen[p] \in Nat
    BY <2>1, Constants
  <2> QED  BY <2>1, <2>2, Parts
<1>1. CASE UNCHANGED <<transport, gen>>
  BY <1>0, <1>1 DEF Moved
<1>2. CASE Publish
  <2>1. /\ pc.at = "dialing"
        /\ gen' = [gen EXCEPT ![pc.p] = gen[pc.p] + 1]
        /\ transport' = [transport EXCEPT ![pc.p] = gen[pc.p] + 1]
    BY <1>2 DEF Publish
  <2> QED  BY <1>0, <2>1 DEF Moved
<1>3. CASE Clean
  <2>1. gen' = [gen EXCEPT ![pc.p] = gen[pc.p] + 1] /\ UNCHANGED transport
    BY <1>3 DEF Clean
  <2> QED  BY <1>0, <2>1 DEF Moved
<1>4. CASE Unpublish
  <2>1. /\ pc.at = "unpublish" /\ UNCHANGED gen
        /\ transport' = [transport EXCEPT ![pc.p] = 0]
    BY <1>4 DEF Unpublish, NoGen
  <2> QED  BY <1>0, <2>1 DEF Moved
<1>5. CASE \/ Top \/ NetOff \/ Sweep \/ Dial \/ DialFails \/ ServiceSkip \/ ServiceFlag
           \/ ServiceRead \/ ServiceExtranonce \/ NotifyTest \/ NotifyRoom
           \/ NotifyEnqueue \/ CloseAbandon \/ CloseForget
  BY <1>1, <1>5 DEF Top, NetOff, Sweep, Dial, DialFails, ServiceSkip, ServiceFlag,
       ServiceRead, ServiceExtranonce, NotifyTest, NotifyRoom, NotifyEnqueue,
       CloseAbandon, CloseForget
<1>6. CASE ~PoolTask
  BY <1>1, <1>6, OnlyPoolTask
<1> QED  BY <1>2, <1>3, <1>4, <1>5, <1>6 DEF PoolTask

\* The notify that is queued is of the session there is.
LEMMA Enqueued ==
  ASSUME Ring, NotifyEnqueue
  PROVE  /\ UNCHANGED <<transport, gen, held, extranonce>>
         /\ transport[pc.p] # 0
         /\ Len(squeue[pc.p]) < SessQueueSize
         /\ Len(squeue'[pc.p]) = Len(squeue[pc.p]) + 1
         /\ \A p \in Pools \ {pc.p} : squeue'[p] = squeue[p]
         /\ \A i \in 1 .. Len(squeue'[pc.p]) :
               \/ squeue'[pc.p][i].ses = transport[pc.p]
               \/ i \in 1 .. Len(squeue[pc.p]) /\ squeue'[pc.p][i] = squeue[pc.p][i]
<1> DEFINE n == NewNotify(pc.p)
           q == squeue[pc.p]
<1>1. /\ UNCHANGED <<transport, gen, held, extranonce>>
      /\ squeue' = [squeue EXCEPT ![pc.p] = Append(q, n)]
      /\ pc.at = "enqueue" /\ Len(q) < SessQueueSize
  BY DEF NotifyEnqueue, buildVars
<1>2. TypeOK /\ pc.p \in Pools /\ squeue \in [Pools -> Seq(Notify)]
      /\ q \in Seq(Notify)
  BY Parts DEF Ring, TypeOK
<1>3. transport[pc.p] # 0
  BY <1>1, <1>2 DEF Ring, PcOK, NoGen
<1>4. \A p \in Pools \ {pc.p} : squeue'[p] = squeue[p]
  BY <1>1, <1>2
<1>5. squeue'[pc.p] = Append(q, n)
  BY <1>1, <1>2
<1>6. n.ses = transport[pc.p]
  BY DEF NewNotify
<1> HIDE DEF n, q
<1>7. /\ Len(squeue'[pc.p]) = Len(q) + 1
      /\ \A i \in 1 .. Len(squeue'[pc.p]) :
            \/ squeue'[pc.p][i] = n
            \/ i \in 1 .. Len(q) /\ squeue'[pc.p][i] = q[i]
  BY <1>2, <1>5
<1> QED  BY <1>1, <1>3, <1>4, <1>6, <1>7 DEF q

LEMMA SesStep ==
  ASSUME Ring, [Next]_vars
  PROVE  SesOK'
<1>0. TypeOK /\ PcOK /\ SesOK /\ pc.p \in Pools
  BY Parts DEF Ring
<1>1. ASSUME NEW p \in Pools, NEW n \in Nat, NotLater(p, n)
      PROVE  /\ n <= gen'[p]
             /\ transport'[p] # 0 => n <= transport'[p]
             /\ transport'[p] <= gen'[p]
  BY <1>0, <1>1, LinksMove, Numbers DEF Moved, NotLater, SesOK, NoGen
<1>2. CASE ~NotifyEnqueue
  <2> SUFFICES ASSUME NEW p \in Pools
               PROVE  /\ transport'[p] <= gen'[p]
                      /\ NotLater(p, held[p].ses)'
                      /\ \A i \in 1 .. Len(squeue'[p]) : NotLater(p, squeue[p][i].ses)'
    BY DEF SesOK
  <2>1. NotLater(p, held[p].ses) /\ NotLater(p, 0)
    BY <1>0, Numbers DEF SesOK, NotLater
  <2>2. \A k \in 1 .. Len(squeue[p]) : NotLater(p, squeue[p][k].ses)
    BY <1>0 DEF SesOK
  <2>3. transport'[p] <= gen'[p]
    BY <1>1, <2>1
  <2>4. Kept(p)
    BY <1>2, NotifiesMove
  <2>5. held'[p].ses <= gen'[p] /\ (transport'[p] # 0 => held'[p].ses <= transport'[p])
    BY <1>0, <1>1, <2>1, <2>2, <2>4, Numbers DEF Kept
  <2>6. \A i \in 1 .. Len(squeue'[p]) :
          /\ squeue'[p][i].ses <= gen'[p]
          /\ transport'[p] # 0 => squeue'[p][i].ses <= transport'[p]
    BY <1>0, <1>1, <2>2, <2>4, Numbers DEF Kept
  <2> QED  BY <2>3, <2>5, <2>6 DEF NotLater, NoGen
<1>3. CASE NotifyEnqueue
  <2>1. NotLater(pc.p, transport[pc.p])
    BY <1>0, Numbers DEF SesOK, NotLater
  <2> QED  BY <1>0, <1>3, <2>1, Enqueued, Numbers DEF SesOK, NotLater
<1> QED  BY <1>2, <1>3

LEMMA EnStep ==
  ASSUME Ring, EnOK, [Next]_vars
  PROVE  EnOK'
<1> USE DEF sessVars
<1>0. /\ TypeOK /\ PcOK /\ SesOK /\ pc.p \in Pools /\ pc \in PcType /\ NoGen = 0
      /\ extranonce \in [Pools -> 0 .. MaxGen]
  <2>1. TypeOK /\ PcOK /\ SesOK
    BY DEF Ring
  <2> QED  BY <2>1, Parts DEF TypeOK, NoGen
\* Where an extranonce stays, all that is asked is where it may come from.
<1>1. ASSUME NEW p \in Pools, extranonce'[p] = extranonce[p],
             extranonce'[p] # 0 => \/ extranonce'[p] = transport'[p]
                                   \/ pc'.p = p /\ pc'.at \in {"abandon", "forget"}
      PROVE  extranonce'[p] # 0 =>
                 /\ \/ extranonce'[p] = transport'[p]
                    \/ pc'.p = p /\ pc'.at \in {"abandon", "forget"}
                 /\ held'[p].ses <= extranonce'[p]
                 /\ \A i \in 1 .. Len(squeue'[p]) : squeue'[p][i].ses <= extranonce'[p]
  <2> SUFFICES ASSUME extranonce[p] # 0
               PROVE  /\ held'[p].ses <= extranonce[p]
                      /\ \A i \in 1 .. Len(squeue'[p]) : squeue'[p][i].ses <= extranonce[p]
    BY <1>1
  <2>1. /\ held[p].ses <= extranonce[p]
        /\ \A i \in 1 .. Len(squeue[p]) : squeue[p][i].ses <= extranonce[p]
        /\ \/ extranonce[p] = transport[p]
           \/ pc.p = p /\ pc.at \in {"abandon", "forget"}
    BY <1>0 DEF EnOK
  <2>2. CASE ~NotifyEnqueue
    <3>1. Kept(p) /\ extranonce[p] \in Nat
      BY <1>0, <2>2, NotifiesMove, Numbers
    <3>2. held'[p].ses <= extranonce[p]
      BY <2>1, <3>1 DEF Kept
    <3>3. ASSUME NEW i \in 1 .. Len(squeue'[p]) PROVE squeue'[p][i].ses <= extranonce[p]
      <4>1. PICK k \in 1 .. Len(squeue[p]) : squeue'[p][i] = squeue[p][k]
        BY <3>1 DEF Kept
      <4> QED  BY <2>1, <4>1
    <3> QED  BY <3>2, <3>3
  <2>3. CASE NotifyEnqueue
    <3>1. pc.at = "enqueue"
      BY <2>3 DEF NotifyEnqueue
    <3>2. held' = held /\ (p # pc.p => squeue'[p] = squeue[p])
      BY <2>3, Enqueued
    <3>3. CASE p = pc.p
      <4>1. extranonce[p] = transport[p]
        BY <2>1, <3>1
      <4> QED  BY <1>0, <2>1, <2>3, <3>2, <3>3, <4>1, Enqueued, Numbers
    <3>4. CASE p # pc.p
      BY <2>1, <3>2, <3>4
    <3> QED  BY <3>3, <3>4
  <2> QED  BY <2>2, <2>3
<1>2. ASSUME UNCHANGED <<extranonce, transport>>,
             pc.at \in {"abandon", "forget"} => pc'.p = pc.p /\ pc'.at \in {"abandon", "forget"}
      PROVE  EnOK'
  BY <1>0, <1>1, <1>2 DEF EnOK
<1>3. CASE \/ Top \/ NetOff \/ Sweep \/ Dial \/ DialFails \/ ServiceSkip \/ ServiceFlag
           \/ ServiceRead \/ NotifyTest \/ NotifyRoom \/ NotifyEnqueue \/ Clean
  <2>1. UNCHANGED <<extranonce, transport>> /\ pc.at \notin {"abandon", "forget"}
    BY <1>3 DEF Top, NetOff, Sweep, Dial, DialFails, ServiceSkip, ServiceFlag, ServiceRead,
         NotifyTest, NotifyRoom, NotifyEnqueue, Clean, Reading
  <2> QED  BY <1>2, <2>1
<1>4. CASE Publish
  <2>1. pc.at = "dialing" /\ UNCHANGED extranonce
    BY <1>4 DEF Publish
  <2>2. transport[pc.p] = 0
    BY <1>0, <2>1 DEF PcOK
  <2>3. extranonce[pc.p] = 0
    BY <1>0, <2>1, <2>2 DEF EnOK
  <2>4. \A p \in Pools \ {pc.p} : transport'[p] = transport[p]
    BY <1>0, <1>4 DEF Publish, TypeOK
  <2> QED  BY <1>0, <1>1, <2>1, <2>3, <2>4 DEF EnOK
<1>5. CASE ServiceExtranonce
  <2>1. /\ extranonce' = [extranonce EXCEPT ![pc.p] = transport[pc.p]]
        /\ UNCHANGED <<transport, squeue, held>>
        /\ pc.at = "service"
    BY <1>5 DEF ServiceExtranonce, Reading, buildVars
  <2>2. \A p \in Pools \ {pc.p} : extranonce'[p] = extranonce[p]
    BY <1>0, <2>1
  <2>3. extranonce'[pc.p] = transport[pc.p]
    BY <1>0, <2>1
  <2>4. \A p \in Pools \ {pc.p} :
          extranonce'[p] # 0 => extranonce'[p] = transport'[p]
    BY <1>0, <2>1, <2>2 DEF EnOK
  <2>5. transport[pc.p] # 0 =>
          /\ held[pc.p].ses <= transport[pc.p]
          /\ \A i \in 1 .. Len(squeue[pc.p]) : squeue[pc.p][i].ses <= transport[pc.p]
    BY <1>0 DEF SesOK, NotLater
  <2> QED  BY <1>0, <1>1, <2>1, <2>2, <2>3, <2>4, <2>5 DEF EnOK
<1>6. CASE Unpublish
  <2>1. pc.at = "unpublish" /\ UNCHANGED extranonce /\ pc' = [pc EXCEPT !.at = "abandon"]
    BY <1>6 DEF Unpublish
  <2>2. pc'.at = "abandon" /\ pc'.p = pc.p
    BY <1>0, <2>1, PcAt DEF Places
  <2>3. \A p \in Pools \ {pc.p} : transport'[p] = transport[p]
    BY <1>0, <1>6 DEF Unpublish, TypeOK
  <2> QED  BY <1>0, <1>1, <2>1, <2>2, <2>3 DEF EnOK
<1>7. CASE CloseAbandon
  <2>1. UNCHANGED <<extranonce, transport>> /\ pc' = [pc EXCEPT !.at = "forget"]
    BY <1>7 DEF CloseAbandon
  <2>2. pc'.at = "forget" /\ pc'.p = pc.p
    BY <1>0, <2>1, PcAt DEF Places
  <2> QED  BY <1>2, <2>1, <2>2
<1>8. CASE CloseForget
  <2>1. /\ pc.at = "forget" /\ UNCHANGED transport
        /\ extranonce' = [extranonce EXCEPT ![pc.p] = 0]
    BY <1>8 DEF CloseForget, ExtranonceForgotten, NoGen
  <2>2. \A p \in Pools \ {pc.p} : extranonce'[p] = extranonce[p]
    BY <1>0, <2>1
  <2>3. extranonce'[pc.p] = 0
    BY <1>0, <2>1
  <2>4. \A p \in Pools \ {pc.p} :
          extranonce'[p] # 0 => extranonce'[p] = transport'[p]
    BY <1>0, <2>1, <2>2 DEF EnOK
  <2> QED  BY <1>0, <1>1, <2>2, <2>3, <2>4 DEF EnOK
<1>9. CASE ~PoolTask
  BY <1>2, <1>9, OnlyPoolTask
<1> QED
  BY <1>3, <1>4, <1>5, <1>6, <1>7, <1>8, <1>9 DEF PoolTask

LEMMA LockStep ==
  ASSUME Ring, LockOK, [Next]_vars
  PROVE  LockOK'
<1> USE DEF LockOK, HandleOutlivesWrite, resVars
<1>0. /\ TypeOK /\ pc.p \in Pools /\ result.p \in Pools /\ result \in ShareType
      /\ transport \in [Pools -> 0 .. MaxGen] /\ transport_lock \in [Pools -> BOOLEAN]
      /\ \A p \in Pools : gen[p] \in Nat
  <2>1. TypeOK
    BY DEF Ring
  <2> QED  BY <2>1, Parts, Numbers DEF TypeOK
<1>1. ASSUME UNCHANGED <<result, transport_lock>>,
             \/ UNCHANGED transport
             \/ LockFree(pc.p) /\ \A p \in Pools \ {pc.p} : transport'[p] = transport[p]
      PROVE  LockOK'
  BY <1>0, <1>1 DEF LockFree
<1>2. CASE Publish \/ Unpublish
  BY <1>0, <1>1, <1>2 DEF Publish, Unpublish
<1>3. CASE \/ Top \/ NetOff \/ Sweep \/ Dial \/ DialFails \/ ServiceSkip \/ ServiceFlag
           \/ ServiceRead \/ ServiceExtranonce \/ NotifyTest \/ NotifyRoom
           \/ NotifyEnqueue \/ Clean \/ CloseAbandon \/ CloseForget
  <2>1. UNCHANGED <<result, transport_lock, transport>>
    BY <1>3 DEF Top, NetOff, Sweep, Dial, DialFails, ServiceSkip, ServiceFlag, ServiceRead,
         ServiceExtranonce, NotifyTest, NotifyRoom, NotifyEnqueue, Clean,
         CloseAbandon, CloseForget, sessVars
  <2> QED  BY <1>1, <2>1
<1>4. CASE Builder \/ Sender \/ Environment \/ UNCHANGED vars
  <2>1. UNCHANGED <<result, transport_lock, transport>>
    BY <1>4 DEF Builder, BuildStart, BuildCheck, BuildDrain, BuildDrained, BuildSelect,
         BuildRecheck, BuildCopy, BuildPut, Sender, SendTake, SendPlace, Environment,
         PostPoolDrop, PoolAWork, PoolAClean, vars, sessVars
  <2> QED  BY <1>1, <2>1
<1>5. CASE ResultTake \/ ResultWritten
  <2>1. CASE ResultTake
    <3>1. PICK s \in Slots :
             result' = [NoShare EXCEPT !.at = "user", !.p = slot[s].job.pool,
                                       !.ses = slot[s].job.ses]
      BY <2>1 DEF ResultTake
    <3>2. result'.at = "user"
      BY <3>1 DEF NoShare
    <3> QED  BY <3>2
  <2>2. CASE ResultWritten
    <3>1. result'.at = "idle"
      BY <2>2 DEF ResultWritten, NoShare
    <3> QED  BY <3>1
  <2> QED  BY <1>5, <2>1, <2>2
<1>6. CASE ResultUser
  <2>1. result'.at = "lock"
    BY <1>0, <1>6 DEF ResultUser, ShareType
  <2> QED  BY <2>1
<1>7. CASE ResultLock
  <2>1. UNCHANGED transport
    BY <1>7 DEF ResultLock, sessVars
  <2>2. CASE transport[result.p] # NoGen
    <3>1. /\ transport_lock' = [transport_lock EXCEPT ![result.p] = TRUE]
          /\ result' = [result EXCEPT !.at = "write"]
      BY <1>7, <2>2 DEF ResultLock
    <3>2. result'.p = result.p
      BY <1>0, <3>1 DEF ShareType
    <3> QED  BY <1>0, <2>1, <2>2, <3>1, <3>2
  <2>3. CASE transport[result.p] = NoGen
    BY <1>7, <2>3 DEF ResultLock, NoShare
  <2> QED  BY <2>2, <2>3
<1> QED
  BY <1>2, <1>3, <1>4, <1>5, <1>6, <1>7 DEF Next, PoolTask, Result

LEMMA RoomStep ==
  ASSUME Ring, RoomOK, [Next]_vars
  PROVE  RoomOK'
<1> USE DEF chipVars, buildVars, sessVars
<1>0. /\ TypeOK /\ pc.p \in Pools /\ pc \in PcType /\ builder.p \in Pools
      /\ builder \in BuilderType /\ 1 \in Pools
      /\ asic_queue \in Seq(Job) /\ Len(asic_queue) \in Nat
      /\ \A p \in Pools : squeue[p] \in Seq(Notify) /\ Len(squeue[p]) \in Nat
  <2>1. TypeOK /\ asic_queue \in Seq(Job)
    BY DEF Ring, TypeOK
  <2>2. 1 \in Pools
    BY Constants DEF Pools
  <2> QED  BY <2>1, <2>2, Parts, Numbers
\* The ASIC queue: only BuildPut adds to it, and then the builder is back at its test.
<1>1. builder'.at # "idle" => Len(asic_queue') < LowWater
  <2>1. ASSUME builder'.at = builder.at, Len(asic_queue') \in Nat,
               Len(asic_queue') <= Len(asic_queue)
        PROVE  builder'.at # "idle" => Len(asic_queue') < LowWater
    BY <1>0, <2>1, Constants DEF RoomOK
  <2>2. CASE BuildPut
    <3>1. builder'.at = "idle"
      BY <1>0, <2>2, BuilderTypes DEF BuildPut, BuilderPlaces
    <3> QED  BY <3>1
  <2>3. CASE BuildStart
    BY <2>3 DEF BuildStart, should_generate_more_work
  <2>4. CASE BuildCheck \/ BuildDrained \/ BuildSelect \/ BuildRecheck \/ BuildCopy
    <3>1. builder.at # "idle" /\ UNCHANGED asic_queue
      BY <2>4 DEF BuildCheck, BuildDrained, BuildSelect, BuildRecheck, BuildCopy
    <3> QED  BY <3>1 DEF RoomOK
  <2>5. CASE Clean \/ CloseAbandon
    <3>1. AbandonWork(pc.p)
      BY <2>5 DEF Clean, CloseAbandon
    <3>2. asic_queue' \in Seq(Job)
      BY <1>0, <3>1, AbandonTypes
    <3> QED  BY <1>0, <2>1, <3>1, <3>2, AbandonLeaves
  <2>6. CASE PoolAClean
    <3>1. ClearPool(asic_queue, POOL_A, asic_queue') /\ UNCHANGED builder
      BY <2>6 DEF PoolAClean
    <3> QED  BY <1>0, <2>1, <3>1, ClearPoolKeeps
  <2>7. CASE SendTake
    <3>1. asic_queue # <<>> /\ asic_queue' = Tail(asic_queue) /\ UNCHANGED builder
      BY <2>7 DEF SendTake
    <3>2. Len(asic_queue') \in Nat /\ Len(asic_queue') <= Len(asic_queue)
      BY <1>0, <3>1, TailElements
    <3> QED  BY <2>1, <3>1, <3>2
  <2>8. CASE \/ BuildDrain \/ SendPlace \/ Result \/ PostPoolDrop \/ PoolAWork
             \/ UNCHANGED vars
    <3>1. UNCHANGED <<builder, asic_queue>>
      BY <2>8 DEF BuildDrain, SendPlace, Result, ResultTake, ResultUser, ResultLock,
           ResultWritten, PostPoolDrop, PoolAWork, vars
    <3> QED  BY <1>0, <2>1, <3>1
  <2>9. CASE \/ Top \/ NetOff \/ Sweep \/ Dial \/ DialFails \/ Publish \/ ServiceSkip
             \/ ServiceFlag \/ ServiceRead \/ ServiceExtranonce \/ NotifyTest
             \/ NotifyRoom \/ NotifyEnqueue \/ Unpublish \/ CloseForget
    <3>1. UNCHANGED <<builder, asic_queue>>
      BY <2>9 DEF Top, NetOff, Sweep, Dial, DialFails, Publish, ServiceSkip,
           ServiceFlag, ServiceRead, ServiceExtranonce, NotifyTest, NotifyRoom,
           NotifyEnqueue, Unpublish, CloseForget
    <3> QED  BY <1>0, <2>1, <3>1
  <2> QED
    BY <2>2, <2>3, <2>4, <2>5, <2>6, <2>7, <2>8, <2>9
       DEF Next, PoolTask, Builder, Sender, Environment
\* A session's queue: only NotifyEnqueue adds to it, after the test and the drop.
<1>2. \A p \in Pools : Len(squeue'[p]) <= SessQueueSize
  <2> TAKE p \in Pools
  <2>1. CASE ~NotifyEnqueue
    <3>1. Kept(p) /\ Len(squeue[p]) <= SessQueueSize /\ Len(squeue[p]) \in Nat
      BY <1>0, <2>1, NotifiesMove DEF RoomOK
    <3>2. Len(squeue'[p]) \in Nat
      <4>1. TypeOK'
        BY TypeStep
      <4>2. squeue'[p] \in Seq(Notify)
        BY <4>1 DEF TypeOK
      <4> QED  BY <4>2
    <3> QED  BY <3>1, <3>2, Constants DEF Kept
  <2>2. CASE NotifyEnqueue
    <3>1. CASE p = pc.p
      BY <1>0, <2>2, <3>1, Enqueued, Constants
    <3>2. CASE p # pc.p
      BY <2>2, <3>2, Enqueued DEF RoomOK
    <3> QED  BY <3>1, <3>2
  <2> QED  BY <2>1, <2>2
<1>3. pc'.at = "enqueue" => Len(squeue'[pc'.p]) < SessQueueSize
  <2>1. CASE NotifyTest
    <3>1. CASE Len(squeue[pc.p]) = SessQueueSize
      <4>1. pc' = [pc EXCEPT !.at = "room"]
        BY <2>1, <3>1 DEF NotifyTest
      <4> QED  BY <1>0, <4>1, PcAt DEF Places
    <3>2. CASE Len(squeue[pc.p]) # SessQueueSize
      <4>1. pc' = [pc EXCEPT !.at = "enqueue"] /\ UNCHANGED squeue
        BY <2>1, <3>2 DEF NotifyTest
      <4>2. pc'.p = pc.p
        BY <1>0, <4>1, PcAt DEF Places
      <4>3. Len(squeue[pc.p]) <= SessQueueSize
        BY <1>0 DEF RoomOK
      <4> QED  BY <1>0, <3>2, <4>1, <4>2, <4>3, Constants
    <3> QED  BY <3>1, <3>2
  <2>2. CASE NotifyRoom
    <3> DEFINE q == squeue[pc.p]
    <3>1. /\ pc' = [pc EXCEPT !.at = "enqueue"]
          /\ squeue' = [squeue EXCEPT ![pc.p] = IF q = <<>> THEN q ELSE Tail(q)]
      BY <2>2 DEF NotifyRoom
    <3>2. pc'.p = pc.p
      BY <1>0, <3>1, PcAt DEF Places
    <3>3. squeue'[pc.p] = IF q = <<>> THEN q ELSE Tail(q)
      BY <1>0, <3>1 DEF TypeOK
    <3>4. q \in Seq(Notify) /\ Len(q) <= SessQueueSize /\ Len(q) \in Nat
      BY <1>0 DEF RoomOK
    <3> HIDE DEF q
    <3>5. CASE q = <<>>
      <4>1. Len(squeue'[pc.p]) = 0
        BY <3>3, <3>5
      <4> QED  BY <3>2, <4>1, Constants
    <3>6. CASE q # <<>>
      <4>1. Len(squeue'[pc.p]) = Len(q) - 1
        BY <3>3, <3>4, <3>6, TailElements
      <4> QED  BY <3>2, <3>4, <4>1, Constants
    <3> QED  BY <3>5, <3>6
  <2>4. CASE ServiceRead
    <3>1. \/ pc' = NextPool("service", pc.p, "top") \/ pc' = Goto("unpublish", pc.p)
          \/ pc' = Goto("notify", pc.p) \/ pc' = Goto("clean", pc.p)
      BY <2>4 DEF ServiceRead
    <3>2. pc'.at \in {"service", "top", "unpublish", "notify", "clean"}
      BY <1>0, <3>1, PcTypes DEF Places
    <3> QED  BY <3>2
  <2>5. CASE \/ Top \/ NetOff \/ Sweep \/ Dial \/ DialFails \/ Publish \/ ServiceSkip
             \/ ServiceFlag \/ ServiceExtranonce \/ NotifyEnqueue \/ Clean
             \/ Unpublish \/ CloseAbandon \/ CloseForget
    <3>1. CASE \/ Top \/ ServiceSkip \/ ServiceFlag \/ ServiceExtranonce
               \/ NotifyEnqueue \/ Clean \/ CloseForget
      <4>1. pc'.at \in {"sweep", "netoff", "service", "top", "unpublish", "notify"}
        BY <1>0, <3>1, PcTypes DEF Top, ServiceSkip, ServiceFlag, ServiceExtranonce,
             NotifyEnqueue, Clean, CloseForget, Places
      <4> QED  BY <4>1
    <3>2. CASE Dial \/ DialFails \/ Publish
      <4>1. pc' = Dialled(pc.p) \/ pc' = Goto("dialing", pc.p)
        BY <3>2 DEF Dial, DialFails, Publish
      <4>2. pc'.at \in {"sweep", "service", "dialing"}
        BY <1>0, <4>1, PcTypes DEF Places
      <4> QED  BY <4>2
    <3>3. CASE NetOff
      <4> DEFINE g == Goto("unpublish", pc.p)
      <4>1. pc' = [g EXCEPT !.off = TRUE] \/ pc' = NextPool("netoff", pc.p, "top")
        BY <3>3 DEF NetOff
      <4>2. g \in PcType /\ g.at = "unpublish"
        BY <1>0, PcTypes DEF Places
      <4> HIDE DEF g
      <4>3. [g EXCEPT !.off = TRUE].at = "unpublish"
        BY <4>2, PcAt
      <4>4. NextPool("netoff", pc.p, "top").at \in {"netoff", "top"}
        BY <1>0, PcTypes
      <4> QED  BY <4>1, <4>3, <4>4
    <3>4. CASE Sweep
      <4> DEFINE d == IF pc.p < NPools THEN pc.dialled ELSE FALSE
                 g == NextPool("sweep", pc.p, "service")
      <4>1. d \in BOOLEAN
        BY <1>0 DEF PcType
      <4>2. g \in PcType /\ g.at \in {"sweep", "service"}
        BY <1>0, PcTypes
      <4>3. pc' = [g EXCEPT !.dialled = d] \/ pc' = Goto("dial", pc.p)
        BY <3>4 DEF Sweep
      <4>4. Goto("dial", pc.p).at = "dial"
        BY <1>0, PcTypes DEF Places
      <4> HIDE DEF d, g
      <4>5. [g EXCEPT !.dialled = d].at = g.at
        BY <4>1, <4>2, PcAt
      <4> QED  BY <4>2, <4>3, <4>4, <4>5
    <3>5. CASE Unpublish
      <4>1. pc' = [pc EXCEPT !.at = "abandon"]
        BY <3>5 DEF Unpublish
      <4>2. pc'.at = "abandon"
        BY <1>0, <4>1, PcAt DEF Places
      <4> QED  BY <4>2
    <3>6. CASE CloseAbandon
      <4>1. pc' = [pc EXCEPT !.at = "forget"]
        BY <3>6 DEF CloseAbandon
      <4>2. pc'.at = "forget"
        BY <1>0, <4>1, PcAt DEF Places
      <4> QED  BY <4>2
    <3> QED  BY <2>5, <3>1, <3>2, <3>3, <3>4, <3>5, <3>6
  <2>6. CASE ~PoolTask
    <3>1. UNCHANGED pc /\ ~NotifyEnqueue
      BY <2>6, OnlyPoolTask DEF PoolTask
    <3>2. Kept(pc.p) /\ Len(squeue[pc.p]) \in Nat
      BY <1>0, <3>1, NotifiesMove
    <3>3. squeue'[pc.p] \in Seq(Notify)
      BY <1>0, TypeStep DEF TypeOK
    <3>4. Len(squeue'[pc.p]) \in Nat /\ Len(squeue'[pc.p]) <= Len(squeue[pc.p])
      BY <3>2, <3>3 DEF Kept
    <3> QED  BY <3>1, <3>2, <3>4, Constants DEF RoomOK
  <2> QED  BY <2>1, <2>2, <2>4, <2>5, <2>6 DEF PoolTask
<1> QED  BY <1>1, <1>2, <1>3 DEF RoomOK

\* Where a job of the next state can come from: it was in hand or queued (and may
\* have been marked), or the builder has just made it from what it holds and the
\* extranonce there is. A slot keeps its job, or gets the one that was being sent.
JobsAt(j) ==
    \/ j = NoJob \/ j = AJob
    \/ j = builder.job \/ j = sending
    \/ \E i \in 1 .. Len(asic_queue) : j = asic_queue[i]
    \/ \E p \in Pools : Mark(builder.job, p) = j \/ Mark(sending, p) = j
    \/ builder.at = "copy" /\ extranonce[builder.p] # NoGen
         /\ j = JobOf(builder.p, held[builder.p], extranonce[builder.p])
SlotAt(s) ==
    \/ slot'[s].job = slot[s].job /\ (slot'[s].valid => slot[s].valid)
    \/ slot'[s].job = sending /\ sending # NoJob

LEMMA JobsMove ==
  ASSUME Ring, [Next]_vars
  PROVE  /\ JobsAt(builder'.job) /\ JobsAt(sending')
         /\ \A k \in 1 .. Len(asic_queue') : JobsAt(asic_queue'[k])
         /\ \A s \in Slots : SlotAt(s)
<1> USE DEF chipVars, buildVars
<1>0. /\ TypeOK /\ pc.p \in Pools /\ builder.p \in Pools /\ builder \in BuilderType
      /\ 1 \in Pools /\ asic_queue \in Seq(Job) /\ Len(asic_queue) \in Nat
      /\ slot \in [Slots -> [valid : BOOLEAN, job : Job]]
      /\ builder.job \in Job /\ sending \in Job
  <2>1. TypeOK /\ asic_queue \in Seq(Job) /\ sending \in Job
        /\ slot \in [Slots -> [valid : BOOLEAN, job : Job]]
    BY DEF Ring, TypeOK
  <2>2. 1 \in Pools
    BY Constants DEF Pools
  <2> QED  BY <2>1, <2>2, Parts
\* The four places, each left alone.
<1>1. /\ JobsAt(builder.job) /\ JobsAt(sending) /\ JobsAt(NoJob) /\ JobsAt(AJob)
      /\ \A k \in 1 .. Len(asic_queue) : JobsAt(asic_queue[k])
      /\ slot' = slot => \A s \in Slots : SlotAt(s)
  BY DEF JobsAt, SlotAt
<1>2. CASE UNCHANGED <<builder, chipVars>>
  BY <1>1, <1>2
<1>3. CASE Clean \/ CloseAbandon
  <2>1. AbandonWork(pc.p)
    BY <1>3 DEF Clean, CloseAbandon
  <2>2. JobsAt(Mark(builder.job, pc.p)) /\ JobsAt(Mark(sending, pc.p))
    BY <1>0 DEF JobsAt
  <2>3. /\ builder'.job = Mark(builder.job, pc.p) /\ sending' = Mark(sending, pc.p)
        /\ \A k \in 1 .. Len(asic_queue') : \E i \in 1 .. Len(asic_queue) :
              asic_queue'[k] = asic_queue[i]
        /\ \A s \in Slots : SlotAt(s)
    BY <1>0, <2>1, AbandonLeaves DEF SlotAt
  <2> HIDE DEF JobsAt
  <2> QED  BY <1>1, <2>2, <2>3
<1>4. CASE Builder
  <2>1. CASE \/ BuildStart \/ BuildCheck \/ BuildDrain \/ BuildDrained \/ BuildSelect
             \/ BuildRecheck
    <3>1. UNCHANGED <<asic_queue, sending, slot>>
      BY <2>1 DEF BuildStart, BuildCheck, BuildDrain, BuildDrained, BuildSelect, BuildRecheck
    <3>2. PoolASlice.job \in {AJob, NoJob}
      BY <1>0, BuilderTypes, JobTypes DEF PoolASlice, BuilderPlaces
    <3>3. builder'.job \in {AJob, NoJob, builder.job}
      <4>1. CASE BuildStart \/ BuildCheck
        BY <1>0, <4>1, BuilderTypes DEF BuildStart, BuildCheck, BuilderPlaces
      <4>2. CASE BuildDrain
        BY <4>2 DEF BuildDrain
      <4>3. CASE BuildDrained
        <5>1. builder.p < NPools => builder.p + 1 \in Pools
          BY <1>0, Constants DEF Pools
        <5> QED  BY <1>0, <4>3, <5>1, BuilderTypes DEF BuildDrained, BuilderPlaces
      <4>4. CASE BuildSelect
        <5>1. PICK chosen \in 0 .. NPools :
                builder' = IF chosen # POOL_A /\ held[chosen] # NoNotify
                           THEN BuilderAt("recheck", chosen) ELSE PoolASlice
          BY <4>4 DEF BuildSelect
        <5>2. chosen # POOL_A => chosen \in Pools
          BY Constants DEF POOL_A, Pools
        <5> QED  BY <3>2, <5>1, <5>2, BuilderTypes DEF BuilderPlaces
      <4>5. CASE BuildRecheck
        BY <1>0, <3>2, <4>5, BuilderTypes DEF BuildRecheck, BuilderPlaces
      <4> QED  BY <2>1, <4>1, <4>2, <4>3, <4>4, <4>5
    <3> QED  BY <1>1, <3>1, <3>3
  <2>2. CASE BuildCopy
    <3> DEFINE j == JobOf(builder.p, held[builder.p], extranonce[builder.p])
               b == BuilderAt("put", builder.p)
    <3>1. UNCHANGED <<asic_queue, sending, slot>>
      BY <2>2 DEF BuildCopy
    <3>2. CASE extranonce[builder.p] = NoGen
      <4>1. builder' = BuilderAt("idle", 1)
        BY <2>2, <3>2 DEF BuildCopy
      <4>2. builder'.job = NoJob
        BY <1>0, <4>1, BuilderTypes DEF BuilderPlaces
      <4> QED  BY <1>1, <3>1, <4>2
    <3>3. CASE extranonce[builder.p] # NoGen
      <4>1. j \in Job
        BY <1>0, JobTypes DEF TypeOK
      <4>2. JobsAt(j)
        BY <2>2, <3>3 DEF BuildCopy, JobsAt
      <4>3. builder' = [b EXCEPT !.job = j]
        BY <2>2, <3>3 DEF BuildCopy
      <4>4. b \in BuilderType
        BY <1>0, BuilderTypes DEF BuilderPlaces
      <4> HIDE DEF b, j
      <4>5. builder'.job = j
        BY <4>1, <4>3, <4>4, BuilderTypes
      <4> QED  BY <1>1, <3>1, <4>2, <4>5
    <3> QED  BY <3>2, <3>3
  <2>3. CASE BuildPut
    <3>1. /\ UNCHANGED <<sending, slot>> /\ builder' = BuilderAt("idle", 1)
          /\ asic_queue' \in {asic_queue, Append(asic_queue, builder.job)}
      BY <2>3 DEF BuildPut
    <3>2. builder'.job = NoJob
      BY <1>0, <3>1, BuilderTypes DEF BuilderPlaces
    <3>3. \A k \in 1 .. Len(asic_queue') :
            \/ asic_queue'[k] = builder.job
            \/ k \in 1 .. Len(asic_queue) /\ asic_queue'[k] = asic_queue[k]
      BY <1>0, <3>1
    <3> QED  BY <1>1, <3>1, <3>2, <3>3
  <2> QED  BY <1>4, <2>1, <2>2, <2>3 DEF Builder
<1>5. CASE SendTake
  <2>1. /\ UNCHANGED <<builder, slot>> /\ asic_queue # <<>>
        /\ sending' = Head(asic_queue) /\ asic_queue' = Tail(asic_queue)
    BY <1>5 DEF SendTake
  <2>2. /\ sending' = asic_queue[1] /\ 1 \in 1 .. Len(asic_queue)
        /\ \A k \in 1 .. Len(asic_queue') :
              k + 1 \in 1 .. Len(asic_queue) /\ asic_queue'[k] = asic_queue[k + 1]
    BY <1>0, <2>1, TailElements
  <2> QED  BY <1>1, <2>1, <2>2
<1>6. CASE SendPlace
  <2>1. /\ UNCHANGED <<builder, asic_queue>> /\ sending' = NoJob /\ sending # NoJob
        /\ slot' = [slot EXCEPT ![next_slot] = [valid |-> TRUE, job |-> sending]]
    BY <1>6 DEF SendPlace
  <2>2. \A s \in Slots : SlotAt(s)
    BY <1>0, <2>1 DEF SlotAt
  <2> QED  BY <1>1, <2>1, <2>2
<1>7. CASE PoolAClean
  <2>1. /\ UNCHANGED <<builder, sending>>
        /\ ClearPool(asic_queue, POOL_A, asic_queue')
        /\ slot' \in {slot, InvalidateSlots(POOL_A)}
    BY <1>7 DEF PoolAClean
  <2>2. \A s \in Slots : SlotAt(s)
    BY <1>0, <2>1 DEF InvalidateSlots, SlotAt
  <2>3. \A k \in 1 .. Len(asic_queue') : \E i \in 1 .. Len(asic_queue) :
              asic_queue'[k] = asic_queue[i]
    BY <1>0, <2>1, ClearPoolKeeps
  <2> HIDE DEF JobsAt
  <2> QED  BY <1>1, <2>1, <2>2, <2>3
<1>8. CASE \/ Top \/ NetOff \/ Sweep \/ Dial \/ DialFails \/ Publish \/ ServiceSkip
           \/ ServiceFlag \/ ServiceRead \/ ServiceExtranonce \/ NotifyTest
           \/ NotifyRoom \/ NotifyEnqueue \/ Unpublish \/ CloseForget
  BY <1>2, <1>8 DEF Top, NetOff, Sweep, Dial, DialFails, Publish, ServiceSkip,
       ServiceFlag, ServiceRead, ServiceExtranonce, NotifyTest, NotifyRoom,
       NotifyEnqueue, Unpublish, CloseForget
<1>9. CASE Result \/ PostPoolDrop \/ PoolAWork \/ UNCHANGED vars
  <2>1. UNCHANGED <<builder, chipVars>>
    BY <1>9 DEF Result, ResultTake, ResultUser, ResultLock, ResultWritten,
         PostPoolDrop, PoolAWork, vars
  <2> QED  BY <1>2, <2>1
<1> QED
  BY <1>3, <1>4, <1>5, <1>6, <1>7, <1>8, <1>9 DEF Next, PoolTask, Sender, Environment

LEMMA JobsStep ==
  ASSUME Ring, EnOK, JobsOK, [Next]_vars
  PROVE  JobsOK'
<1>0. /\ TypeOK /\ builder.p \in Pools /\ builder.job \in Job /\ sending \in Job
  <2>1. TypeOK /\ sending \in Job
    BY DEF Ring, TypeOK
  <2> QED  BY <2>1, Parts
<1>1. ASSUME NEW j, JobsAt(j)
      PROVE  JobOK(j)
  <2>1. CASE j = NoJob \/ j = AJob
    BY <2>1, JobTypes
  <2>2. CASE \/ j = builder.job \/ j = sending
             \/ \E i \in 1 .. Len(asic_queue) : j = asic_queue[i]
    BY <2>2 DEF JobsOK
  <2>3. CASE \E p \in Pools : Mark(builder.job, p) = j \/ Mark(sending, p) = j
    BY <1>0, <2>3, JobTypes DEF JobsOK
  <2>4. CASE extranonce[builder.p] # NoGen
               /\ j = JobOf(builder.p, held[builder.p], extranonce[builder.p])
    <3>1. held[builder.p].ses <= extranonce[builder.p]
      BY <1>0, <2>4 DEF EnOK
    <3>2. /\ held[builder.p] \in Notify \cup {NoNotify}
          /\ extranonce[builder.p] \in 0 .. MaxGen
      BY <1>0 DEF TypeOK
    <3> QED  BY <1>0, <2>4, <3>1, <3>2, JobTypes
  <2> QED  BY <1>1, <2>1, <2>2, <2>3, <2>4 DEF JobsAt
<1> QED  BY <1>1, JobsMove DEF JobsOK, SlotAt

LEMMA OwnedStep ==
  ASSUME Ring, [Next]_vars
  PROVE  OwnedOK'
<1> USE DEF chipVars, buildVars
<1>0. /\ TypeOK /\ OwnedOK /\ pc.p \in Pools /\ builder.p \in Pools
      /\ builder \in BuilderType /\ 1 \in Pools
      /\ asic_queue \in Seq(Job) /\ Len(asic_queue) \in Nat
      /\ slot \in [Slots -> [valid : BOOLEAN, job : Job]]
      /\ builder.job \in Job /\ sending \in Job
  <2>1. TypeOK /\ OwnedOK /\ asic_queue \in Seq(Job) /\ sending \in Job
        /\ slot \in [Slots -> [valid : BOOLEAN, job : Job]]
    BY DEF Ring, TypeOK
  <2>2. 1 \in Pools
    BY Constants DEF Pools
  <2> QED  BY <2>1, <2>2, Parts
<1>1. CASE UNCHANGED <<builder, asic_queue, sending, slot>>
  BY <1>0, <1>1 DEF OwnedOK
<1>2. CASE Clean \/ CloseAbandon
  <2>1. AbandonWork(pc.p)
    BY <1>2 DEF Clean, CloseAbandon
  <2>2. \A j \in Job : Mark(j, pc.p).pool = j.pool
    BY DEF Mark, Job
  <2>3. sending = NoJob => sending' = NoJob
    <3>1. NoJob.pool # pc.p
      BY <1>0, Constants DEF NoJob, Pools
    <3> QED  BY <1>0, <2>1, <3>1, AbandonLeaves DEF Mark
  <2>4. builder'.at = "put" => Owned(builder'.job)
    BY <1>0, <2>1, <2>2, AbandonLeaves DEF OwnedOK, Owned
  <2>5. sending' # NoJob => Owned(sending')
    BY <1>0, <2>1, <2>2, <2>3, AbandonLeaves DEF OwnedOK, Owned
  <2>6. \A i \in 1 .. Len(asic_queue') : Owned(asic_queue'[i])
    BY <1>0, <2>1, AbandonLeaves DEF OwnedOK
  <2>7. \A s \in Slots : slot'[s].valid => Owned(slot'[s].job)
    BY <1>0, <2>1, AbandonLeaves DEF OwnedOK
  <2> QED  BY <2>4, <2>5, <2>6, <2>7 DEF OwnedOK
<1>3. CASE BuildPut
  <2>1. /\ UNCHANGED <<sending, slot>> /\ builder' = BuilderAt("idle", 1)
        /\ asic_queue' \in {asic_queue, Append(asic_queue, builder.job)}
        /\ builder.at = "put"
    BY <1>3 DEF BuildPut
  <2>2. builder'.at = "idle"
    BY <1>0, <2>1, BuilderTypes DEF BuilderPlaces
  <2>3. \A k \in 1 .. Len(asic_queue') :
          \/ asic_queue'[k] = builder.job
          \/ k \in 1 .. Len(asic_queue) /\ asic_queue'[k] = asic_queue[k]
    BY <1>0, <2>1
  <2> QED  BY <1>0, <2>1, <2>2, <2>3 DEF OwnedOK
<1>4. ASSUME UNCHANGED <<asic_queue, sending, slot>>,
             builder'.at = "put" => Owned(builder'.job)
      PROVE  OwnedOK'
  BY <1>0, <1>4 DEF OwnedOK
<1>5. PoolASlice.at = "put" => Owned(PoolASlice.job)
  <2>1. BuilderAt("put", 1) \in BuilderType /\ BuilderAt("idle", 1).at = "idle"
    BY <1>0, BuilderTypes DEF BuilderPlaces
  <2>2. [BuilderAt("put", 1) EXCEPT !.job = AJob].job = AJob
    BY <2>1, BuilderTypes, JobTypes
  <2>3. Owned(AJob)
    BY Constants DEF Owned, AJob, NoJob, POOL_A
  <2> QED  BY <2>1, <2>2, <2>3 DEF PoolASlice
<1>6. CASE BuildStart \/ BuildCheck \/ BuildDrained \/ BuildSelect \/ BuildRecheck
  <2>1. UNCHANGED <<asic_queue, sending, slot>>
    BY <1>6 DEF BuildStart, BuildCheck, BuildDrained, BuildSelect, BuildRecheck
  <2>2. builder' = PoolASlice
          \/ \E at \in BuilderPlaces \ {"put"} : \E p \in Pools : builder' = BuilderAt(at, p)
    <3>1. CASE BuildStart \/ BuildCheck
      BY <1>0, <3>1 DEF BuildStart, BuildCheck, BuilderPlaces
    <3>2. CASE BuildDrained
      <4>1. builder.p < NPools => builder.p + 1 \in Pools
        BY <1>0, Constants DEF Pools
      <4> QED  BY <1>0, <3>2, <4>1 DEF BuildDrained, BuilderPlaces
    <3>3. CASE BuildSelect
      <4>1. PICK chosen \in 0 .. NPools :
              builder' = IF chosen # POOL_A /\ held[chosen] # NoNotify
                         THEN BuilderAt("recheck", chosen) ELSE PoolASlice
        BY <3>3 DEF BuildSelect
      <4>2. chosen # POOL_A => chosen \in Pools
        BY Constants DEF POOL_A, Pools
      <4> QED  BY <4>1, <4>2 DEF BuilderPlaces
    <3>4. CASE BuildRecheck
      BY <1>0, <3>4 DEF BuildRecheck, BuilderPlaces
    <3> QED  BY <1>6, <3>1, <3>2, <3>3, <3>4
  <2>3. builder'.at = "put" => Owned(builder'.job)
    <3>1. CASE builder' = PoolASlice
      BY <1>5, <3>1
    <3>2. CASE \E at \in BuilderPlaces \ {"put"} : \E p \in Pools : builder' = BuilderAt(at, p)
      BY <3>2, BuilderTypes
    <3> QED  BY <2>2, <3>1, <3>2
  <2> QED  BY <1>4, <2>1, <2>3
<1>7. CASE BuildCopy
  <2> DEFINE j == JobOf(builder.p, held[builder.p], extranonce[builder.p])
             b == BuilderAt("put", builder.p)
  <2>1. UNCHANGED <<asic_queue, sending, slot>>
    BY <1>7 DEF BuildCopy
  <2>2. builder' = BuilderAt("idle", 1) \/ builder' = [b EXCEPT !.job = j]
    BY <1>7 DEF BuildCopy
  <2>3. BuilderAt("idle", 1).at = "idle" /\ b \in BuilderType
    BY <1>0, BuilderTypes DEF BuilderPlaces
  <2>4. j \in Job
    BY <1>0, JobTypes DEF TypeOK
  <2>5. Owned(j)
    BY <1>0, Constants DEF JobOf, Owned, Pools
  <2> HIDE DEF b, j
  <2>6. [b EXCEPT !.job = j].job = j
    BY <2>3, <2>4, BuilderTypes
  <2> QED  BY <1>4, <2>1, <2>2, <2>3, <2>5, <2>6
<1>8. CASE SendTake
  <2>1. /\ UNCHANGED <<builder, slot>> /\ asic_queue # <<>>
        /\ sending' = Head(asic_queue) /\ asic_queue' = Tail(asic_queue)
    BY <1>8 DEF SendTake
  <2>2. /\ sending' = asic_queue[1] /\ 1 \in 1 .. Len(asic_queue)
        /\ \A k \in 1 .. Len(asic_queue') :
              k + 1 \in 1 .. Len(asic_queue) /\ asic_queue'[k] = asic_queue[k + 1]
    BY <1>0, <2>1, TailElements
  <2> QED  BY <1>0, <2>1, <2>2 DEF OwnedOK
<1>9. CASE SendPlace
  <2>1. /\ UNCHANGED <<builder, asic_queue>> /\ sending' = NoJob /\ sending # NoJob
        /\ slot' = [slot EXCEPT ![next_slot] = [valid |-> TRUE, job |-> sending]]
    BY <1>9 DEF SendPlace
  <2>2. \A s \in Slots : slot'[s] = slot[s] \/ slot'[s].job = sending
    BY <1>0, <2>1
  <2> QED  BY <1>0, <2>1, <2>2 DEF OwnedOK
<1>10. CASE PoolAClean
  <2>1. /\ UNCHANGED <<builder, sending>>
        /\ ClearPool(asic_queue, POOL_A, asic_queue')
        /\ slot' \in {slot, InvalidateSlots(POOL_A)}
    BY <1>10 DEF PoolAClean
  <2>2. \A s \in Slots : slot'[s].job = slot[s].job /\ (slot'[s].valid => slot[s].valid)
    BY <1>0, <2>1 DEF InvalidateSlots
  <2>3. \A k \in 1 .. Len(asic_queue') : \E i \in 1 .. Len(asic_queue) :
              asic_queue'[k] = asic_queue[i]
    BY <1>0, <2>1, ClearPoolKeeps
  <2> QED  BY <1>0, <2>1, <2>2, <2>3 DEF OwnedOK
<1>11. CASE \/ Top \/ NetOff \/ Sweep \/ Dial \/ DialFails \/ Publish \/ ServiceSkip
            \/ ServiceFlag \/ ServiceRead \/ ServiceExtranonce \/ NotifyTest
            \/ NotifyRoom \/ NotifyEnqueue \/ Unpublish \/ CloseForget
  BY <1>1, <1>11 DEF Top, NetOff, Sweep, Dial, DialFails, Publish, ServiceSkip,
       ServiceFlag, ServiceRead, ServiceExtranonce, NotifyTest, NotifyRoom,
       NotifyEnqueue, Unpublish, CloseForget
<1>12. CASE BuildDrain \/ Result \/ PostPoolDrop \/ PoolAWork \/ UNCHANGED vars
  <2>1. UNCHANGED <<builder, asic_queue, sending, slot>>
    BY <1>12 DEF BuildDrain, Result, ResultTake, ResultUser, ResultLock, ResultWritten,
         PostPoolDrop, PoolAWork, vars
  <2> QED  BY <1>1, <2>1
<1> QED
  BY <1>2, <1>3, <1>6, <1>7, <1>8, <1>9, <1>10, <1>11, <1>12
     DEF Next, PoolTask, Builder, Sender, Environment

-----------------------------------------------------------------------------
(* Whose worker a share carries. *)

\* The published choice of endpoint is the record's from the dial on, for as long
\* as there is a session.
WorkerOK == \A p \in Pools :
    transport[p] # NoGen \/ (pc.at = "dialing" /\ pc.p = p)
        => FoEndpoint(fo[p]) = PoolUser(p)

\* No job is of a session yet to come, nor is the share in hand; if that is of the
\* session there is, it has this session's worker from the moment it has one.
JobSes(j) == j.pool \in Pools => j.ses <= gen[j.pool]
JobsSesOK ==
    /\ JobSes(builder.job)
    /\ JobSes(sending)
    /\ \A i \in 1 .. Len(asic_queue) : JobSes(asic_queue[i])
    /\ \A s \in Slots : JobSes(slot[s].job)
ShareOK ==
    /\ result.at # "idle" => result.ses <= gen[result.p]
    /\ /\ result.at \in {"lock", "write"}
       /\ result.ses = transport[result.p]
       /\ result.ses # NoGen
       => result.user = FoEndpoint(fo[result.p])

\* A session that there is after a step was there before it, of the same endpoint,
\* or has just been published.
LEMMA SessionKept ==
  ASSUME Ring, [Next]_vars, NEW p \in Pools, transport'[p] # NoGen
  PROVE  \/ /\ transport'[p] = transport[p] /\ fo'[p] = fo[p]
            /\ is_using_failover'[p] = is_using_failover[p]
         \/ Publish /\ pc.p = p /\ transport'[p] = gen[p] + 1
<1> USE DEF sessVars
<1>0. /\ pc.p \in Pools /\ PcOK
      /\ transport \in [Pools -> 0 .. MaxGen] /\ fo \in [Pools -> Failover]
      /\ is_using_failover \in [Pools -> BOOLEAN]
  <2>1. TypeOK /\ PcOK
    BY DEF Ring
  <2> QED  BY <2>1, Parts DEF TypeOK
<1>1. pc.at \in {"dial", "dialing", "forget"} => transport[pc.p] = NoGen
  BY <1>0 DEF PcOK
<1>2. CASE Dial \/ DialFails \/ CloseForget
  <2>1. /\ pc.at \in {"dial", "dialing", "forget"} /\ UNCHANGED transport
        /\ \A q \in Pools \ {pc.p} : /\ fo'[q] = fo[q]
                                     /\ is_using_failover'[q] = is_using_failover[q]
    BY <1>0, <1>2 DEF Dial, DialFails, CloseForget
  <2> QED  BY <1>1, <2>1
<1>3. CASE Publish
  <2>1. /\ transport' = [transport EXCEPT ![pc.p] = gen[pc.p] + 1]
        /\ fo' = [fo EXCEPT ![pc.p] = FoConnected(fo[pc.p])]
        /\ UNCHANGED is_using_failover
    BY <1>3 DEF Publish
  <2> QED  BY <1>0, <1>3, <2>1
<1>4. CASE Unpublish
  <2>1. transport' = [transport EXCEPT ![pc.p] = NoGen] /\ UNCHANGED <<fo, is_using_failover>>
    BY <1>4 DEF Unpublish
  <2> QED  BY <1>0, <2>1
<1>5. CASE \/ Top \/ NetOff \/ Sweep \/ ServiceSkip \/ ServiceFlag \/ ServiceRead
           \/ ServiceExtranonce \/ NotifyTest \/ NotifyRoom \/ NotifyEnqueue \/ Clean
           \/ CloseAbandon
  BY <1>5 DEF Top, NetOff, Sweep, ServiceSkip, ServiceFlag, ServiceRead, ServiceExtranonce,
       NotifyTest, NotifyRoom, NotifyEnqueue, Clean, CloseAbandon
<1>6. CASE ~PoolTask
  BY <1>6, OnlyPoolTask
<1> QED  BY <1>2, <1>3, <1>4, <1>5, <1>6 DEF PoolTask

\* The connect is only begun by the choice of an endpoint.
LEMMA DialChooses ==
  ASSUME Ring, PoolTask, pc'.at = "dialing"
  PROVE  Dial
<1>0. pc.p \in Pools /\ 1 \in Pools /\ pc \in PcType
  <2>1. TypeOK
    BY DEF Ring
  <2>2. 1 \in Pools
    BY Constants DEF Pools
  <2> QED  BY <2>1, <2>2, Parts
<1>1. ~Top
  BY <1>0, PcTypes DEF Top, Places
<1>2. ~NetOff
  <2> DEFINE g == Goto("unpublish", pc.p)
  <2>1. g \in PcType /\ g.at = "unpublish"
    BY <1>0, PcTypes DEF Places
  <2>2. NetOff => pc' = [g EXCEPT !.off = TRUE] \/ pc' = NextPool("netoff", pc.p, "top")
    BY DEF NetOff
  <2> HIDE DEF g
  <2>3. [g EXCEPT !.off = TRUE].at = "unpublish"
    BY <2>1, PcAt
  <2> QED  BY <1>0, <2>2, <2>3, PcTypes
<1>3. ~Sweep
  <2> DEFINE d == IF pc.p < NPools THEN pc.dialled ELSE FALSE
             g == NextPool("sweep", pc.p, "service")
  <2>1. d \in BOOLEAN
    BY <1>0 DEF PcType
  <2>2. g \in PcType /\ g.at \in {"sweep", "service"}
    BY <1>0, PcTypes
  <2>3. Sweep => pc' = [g EXCEPT !.dialled = d] \/ pc' = Goto("dial", pc.p)
    BY DEF Sweep
  <2> HIDE DEF d, g
  <2>4. [g EXCEPT !.dialled = d].at \in {"sweep", "service"}
    BY <2>1, <2>2, PcAt
  <2>5. Goto("dial", pc.p).at = "dial"
    BY <1>0, PcTypes DEF Places
  <2> QED  BY <2>3, <2>4, <2>5
<1>4. ~DialFails /\ ~Publish
  BY <1>0, PcTypes DEF DialFails, Publish
<1>5. ~ServiceSkip /\ ~ServiceFlag /\ ~ServiceRead /\ ~ServiceExtranonce /\ ~NotifyEnqueue
  BY <1>0, PcTypes DEF ServiceSkip, ServiceFlag, ServiceRead, ServiceExtranonce, NotifyEnqueue,
       Places
<1>6. ~NotifyTest /\ ~NotifyRoom
  <2>1. NotifyTest \/ NotifyRoom => pc' = [pc EXCEPT !.at = "room"] \/ pc' = [pc EXCEPT !.at = "enqueue"]
    BY DEF NotifyTest, NotifyRoom
  <2> QED  BY <1>0, <2>1, PcAt DEF Places
<1>7. ~Clean /\ ~CloseForget
  BY <1>0, PcTypes DEF Clean, CloseForget, Places
<1>8. ~Unpublish /\ ~CloseAbandon
  BY <1>0, PcAt DEF Unpublish, CloseAbandon, Places
<1> QED  BY <1>1, <1>2, <1>3, <1>4, <1>5, <1>6, <1>7, <1>8 DEF PoolTask

\* The endpoint that was dialled is the one that is connected.
LEMMA ConnectedEndpoint ==
  ASSUME NEW f \in Failover, FoEndpoint(f) \in {0, 1}
  PROVE  FoEndpoint(FoConnected(f)) = FoEndpoint(f)
<1>1. 0 \in 0 .. (MaxRetries + 2)
  BY Constants
<1>2. \A s \in PfStates : FoTo(f, s, 0).state = s
  BY <1>1, FoToType
<1>3. f.state \in PfStates
  BY DEF Failover
<1> QED  BY <1>2, <1>3 DEF FoConnected, FoEndpoint, PfStates

LEMMA WorkerStep ==
  ASSUME Ring, WorkerOK, [Next]_vars
  PROVE  WorkerOK'
<1>0. /\ TypeOK /\ pc.p \in Pools /\ PcOK
      /\ fo \in [Pools -> Failover] /\ is_using_failover \in [Pools -> BOOLEAN]
  <2>1. TypeOK /\ PcOK
    BY DEF Ring
  <2> QED  BY <2>1, Parts DEF TypeOK
<1> SUFFICES ASSUME NEW p \in Pools,
                    transport'[p] # NoGen \/ (pc'.at = "dialing" /\ pc'.p = p)
             PROVE  FoEndpoint(fo'[p]) = IF is_using_failover'[p] THEN 1 ELSE 0
  BY DEF WorkerOK, PoolUser
<1>1. ASSUME fo'[p] = fo[p], is_using_failover'[p] = is_using_failover[p],
             transport[p] # NoGen \/ (pc.at = "dialing" /\ pc.p = p)
      PROVE  FoEndpoint(fo'[p]) = IF is_using_failover'[p] THEN 1 ELSE 0
  BY <1>1 DEF WorkerOK, PoolUser
<1>2. CASE transport'[p] # NoGen
  <2>1. CASE Publish /\ pc.p = p
    <3>1. /\ pc.at = "dialing" /\ fo' = [fo EXCEPT ![p] = FoConnected(fo[p])]
          /\ UNCHANGED is_using_failover
      BY <2>1 DEF Publish
    <3>2. FoEndpoint(fo[p]) = (IF is_using_failover[p] THEN 1 ELSE 0) /\ fo[p] \in Failover
      BY <1>0, <2>1, <3>1 DEF WorkerOK, PoolUser
    <3>3. FoEndpoint(FoConnected(fo[p])) = FoEndpoint(fo[p])
      BY <3>2, ConnectedEndpoint
    <3>4. fo'[p] = FoConnected(fo[p])
      BY <1>0, <3>1
    <3> QED  BY <3>1, <3>2, <3>3, <3>4
  <2>2. CASE ~(Publish /\ pc.p = p)
    BY <1>1, <1>2, <2>2, SessionKept
  <2> QED  BY <2>1, <2>2
<1>3. CASE pc'.at = "dialing" /\ pc'.p = p
  <2>1. CASE PoolTask
    <3>1. Dial
      BY <1>3, <2>1, DialChooses
    <3> DEFINE e == FoEndpoint(fo[pc.p])
    <3>2. CASE e < 0
      <4>1. e \in {-1, 0, 1}
        BY DEF FoEndpoint
      <4>2. pc' = Dialled(pc.p)
        BY <3>1, <3>2, <4>1 DEF Dial
      <4> QED  BY <1>0, <1>3, <4>2, PcTypes
    <3>3. CASE ~(e < 0)
      <4>1. /\ is_using_failover' = [is_using_failover EXCEPT ![pc.p] = (e = 1)]
            /\ pc' = Goto("dialing", pc.p) /\ UNCHANGED fo
        BY <3>1, <3>3 DEF Dial
      <4>2. pc'.p = pc.p
        BY <1>0, <4>1, PcTypes DEF Places
      <4>3. e \in {0, 1}
        BY <3>3 DEF FoEndpoint
      <4>4. p = pc.p
        BY <1>3, <4>2
      <4> HIDE DEF e
      <4>5. is_using_failover'[p] = (e = 1) /\ fo'[p] = fo[p]
        BY <1>0, <4>1, <4>4
      <4> QED  BY <4>3, <4>4, <4>5 DEF e
    <3> QED  BY <3>2, <3>3
  <2>2. CASE ~PoolTask
    BY <1>1, <1>3, <2>2, OnlyPoolTask
  <2> QED  BY <2>1, <2>2
<1> QED  BY <1>2, <1>3

LEMMA JobsSesStep ==
  ASSUME Ring, JobsSesOK, [Next]_vars
  PROVE  JobsSesOK'
<1>0. /\ TypeOK /\ SesOK /\ builder.p \in Pools /\ builder.job \in Job /\ sending \in Job
      /\ \A p \in Pools : gen[p] \in Nat /\ gen'[p] \in Nat /\ gen[p] <= gen'[p]
  <2>1. TypeOK /\ SesOK /\ sending \in Job
    BY DEF Ring, TypeOK
  <2>2. \A p \in Pools : gen[p] \in Nat /\ gen'[p] \in Nat /\ gen[p] <= gen'[p]
    BY <2>1, Numbers, LinksMove DEF Moved
  <2> QED  BY <2>1, <2>2, Parts
<1>1. ASSUME NEW j \in Job, JobSes(j)
      PROVE  j.pool \in Pools => j.ses <= gen'[j.pool]
  BY <1>0, <1>1, Constants DEF JobSes, Job
<1>2. ASSUME NEW j, JobsAt(j)
      PROVE  j \in Job /\ JobSes(j)
  <2>1. CASE j = NoJob \/ j = AJob
    <3>1. NoJob.pool \notin Pools /\ AJob.pool \notin Pools
      BY Constants DEF NoJob, AJob, POOL_A, Pools
    <3> QED  BY <2>1, <3>1, JobTypes DEF JobSes
  <2>2. CASE \/ j = builder.job \/ j = sending
             \/ \E i \in 1 .. Len(asic_queue) : j = asic_queue[i]
    BY <1>0, <2>2 DEF JobsSesOK, TypeOK
  <2>3. CASE \E p \in Pools : Mark(builder.job, p) = j \/ Mark(sending, p) = j
    <3>1. \A k \in Job : \A p : /\ Mark(k, p) \in Job /\ Mark(k, p).pool = k.pool
                                /\ Mark(k, p).ses = k.ses
      BY JobTypes DEF Mark, Job
    <3>2. \A k \in Job : \A p : JobSes(k) => JobSes(Mark(k, p))
      BY <3>1 DEF JobSes
    <3> QED  BY <1>0, <2>3, <3>1, <3>2 DEF JobsSesOK
  <2>4. CASE j = JobOf(builder.p, held[builder.p], extranonce[builder.p])
    <3>1. /\ held[builder.p] \in Notify \cup {NoNotify}
          /\ extranonce[builder.p] \in 0 .. MaxGen
      BY <1>0 DEF TypeOK
    <3>2. held[builder.p].ses <= gen[builder.p]
      BY <1>0 DEF SesOK, NotLater
    <3> QED  BY <1>0, <2>4, <3>1, <3>2, JobTypes DEF JobSes, JobOf
  <2> QED  BY <1>2, <2>1, <2>2, <2>3, <2>4 DEF JobsAt
<1>3. ASSUME NEW s \in Slots
      PROVE  JobSes(slot[s].job) /\ slot[s].job \in Job /\ JobSes(sending) /\ SlotAt(s)
  BY <1>0, Parts, JobsMove DEF JobsSesOK
<1>4. \A s \in Slots : JobSes(slot[s].job)'
  BY <1>0, <1>1, <1>3 DEF SlotAt, JobSes
<1>5. \A j : JobsAt(j) => (j.pool \in Pools => j.ses <= gen'[j.pool])
  BY <1>1, <1>2
<1> QED  BY <1>4, <1>5, JobsMove DEF JobsSesOK, JobSes

LEMMA WorkerShareStep ==
  ASSUME Ring, WorkerOK, JobsSesOK, ShareOK, [Next]_vars
  PROVE  ShareOK'
<1>0. /\ TypeOK /\ result \in ShareType /\ result.p \in Pools
      /\ \A p \in Pools : gen[p] \in Nat /\ gen'[p] \in Nat /\ gen[p] <= gen'[p]
      /\ \A p \in Pools : is_using_failover[p] \in BOOLEAN
      /\ result.ses \in Nat
  <2>1. TypeOK
    BY DEF Ring
  <2>2. \A p \in Pools : gen[p] \in Nat /\ gen'[p] \in Nat /\ gen[p] <= gen'[p]
    BY <2>1, Numbers, LinksMove DEF Moved
  <2>3. result \in ShareType /\ result.p \in Pools
    BY <2>1, Parts
  <2>4. result.ses \in Nat
    BY <2>3, Constants DEF ShareType
  <2> QED  BY <2>1, <2>2, <2>3, <2>4 DEF TypeOK
\* A share that stays in hand: a session that comes meanwhile is not its own.
<1>1. CASE UNCHANGED result
  <2>1. result.at # "idle" => result.ses <= gen'[result.p]
    BY <1>0 DEF ShareOK
  <2>2. ASSUME result.at \in {"lock", "write"}, result.ses = transport'[result.p],
               result.ses # NoGen
        PROVE  result.user = FoEndpoint(fo'[result.p])
    <3>1. result.ses <= gen[result.p]
      BY <2>2 DEF ShareOK
    <3>2. transport'[result.p] # gen[result.p] + 1
      BY <1>0, <2>2, <3>1
    <3>3. transport'[result.p] = transport[result.p] /\ fo'[result.p] = fo[result.p]
      BY <1>0, <2>2, <3>2, SessionKept
    <3> QED  BY <2>2, <3>3 DEF ShareOK
  <2> QED  BY <1>1, <2>1, <2>2 DEF ShareOK
<1>2. CASE ResultTake
  <2>1. PICK s \in Slots :
           /\ slot[s].valid /\ slot[s].job.pool # POOL_A
           /\ result' = [NoShare EXCEPT !.at = "user", !.p = slot[s].job.pool,
                                        !.ses = slot[s].job.ses]
    BY <1>2 DEF ResultTake
  <2>2. slot[s].job.pool \in Pools
    <3>1. Owned(slot[s].job)
      BY <2>1 DEF Ring, OwnedOK
    <3> QED  BY <2>1, <3>1, Constants DEF Owned, Pools, POOL_A
  <2>3. slot[s].job.ses <= gen[slot[s].job.pool] /\ slot[s].job \in Job
    BY <1>0, <2>2, Parts DEF JobsSesOK, JobSes
  <2>4. UNCHANGED gen /\ result'.at = "user" /\ result'.p = slot[s].job.pool
        /\ result'.ses = slot[s].job.ses
    BY <1>2, <2>1 DEF ResultTake, NoShare
  <2> QED  BY <2>3, <2>4 DEF ShareOK
\* The name is chosen: it fits the session there is, and no other will be its own.
<1>3. CASE ResultUser
  <2>1. /\ result.at = "user" /\ UNCHANGED <<transport, fo, gen>>
        /\ result' = [result EXCEPT !.at = "lock", !.user = PoolUser(result.p)]
    BY <1>3 DEF ResultUser, sessVars
  <2>2. /\ result'.at = "lock" /\ result'.p = result.p /\ result'.ses = result.ses
        /\ result'.user = PoolUser(result.p)
    BY <1>0, <2>1 DEF ShareType
  <2>3. transport[result.p] # NoGen => FoEndpoint(fo[result.p]) = PoolUser(result.p)
    BY <1>0 DEF WorkerOK
  <2> QED  BY <2>1, <2>2, <2>3 DEF ShareOK
<1>4. CASE ResultLock
  <2>1. UNCHANGED <<transport, fo, gen>> /\ result.at = "lock"
    BY <1>4 DEF ResultLock, sessVars
  <2>2. CASE result' = NoShare
    BY <2>2 DEF ShareOK, NoShare
  <2>3. CASE result' = [result EXCEPT !.at = "write"]
    <3>1. /\ result'.at = "write" /\ result'.p = result.p /\ result'.ses = result.ses
          /\ result'.user = result.user
      BY <1>0, <2>3 DEF ShareType
    <3> QED  BY <2>1, <3>1 DEF ShareOK
  <2> QED  BY <1>4, <2>2, <2>3 DEF ResultLock
<1>5. CASE ResultWritten
  <2>1. result'.at = "idle"
    BY <1>5 DEF ResultWritten, NoShare
  <2> QED  BY <2>1 DEF ShareOK
<1>6. CASE PoolTask \/ Builder \/ Sender \/ Environment \/ UNCHANGED vars
  <2>1. UNCHANGED result
    BY <1>6 DEF PoolTask, Top, NetOff, Sweep, Dial, DialFails, Publish, ServiceSkip, ServiceFlag,
         ServiceRead, ServiceExtranonce, NotifyTest, NotifyRoom, NotifyEnqueue, Clean, Unpublish,
         CloseAbandon, CloseForget, Builder, BuildStart, BuildCheck, BuildDrain, BuildDrained,
         BuildSelect, BuildRecheck, BuildCopy, BuildPut, Sender, SendTake, SendPlace,
         Environment, PostPoolDrop, PoolAWork, PoolAClean, vars, resVars
  <2> QED  BY <1>1, <2>1
<1> QED  BY <1>2, <1>3, <1>4, <1>5, <1>6 DEF Next, Result

LEMMA WorkerInit == Init => WorkerOK /\ JobsSesOK /\ ShareOK
<1> SUFFICES ASSUME Init PROVE WorkerOK /\ JobsSesOK /\ ShareOK
  OBVIOUS
<1>1. 1 \in Pools
  BY Constants DEF Pools
<1>2. pc.at = "top" /\ result.at = "idle" /\ builder.job = NoJob
  BY <1>1, PcTypes DEF Init, Places, NoShare, BuilderAt
<1>3. JobSes(NoJob)
  BY Constants DEF JobSes, NoJob, Pools
<1> QED  BY <1>2, <1>3 DEF Init, WorkerOK, JobsSesOK, ShareOK, NoGen

-----------------------------------------------------------------------------
(* Failed writes, and drops asked for. *)

\* A failure or a drop recorded while there is a session is of that session.
FlagOK ==
    \A p \in Pools : transport[p] # NoGen =>
        write_failed[p] \in {NoGen, transport[p]} /\ drop_requested[p] \in {NoDrop, transport[p]}

LEMMA FlagStep ==
  ASSUME Ring, FlagOK, [Next]_vars
  PROVE  FlagOK'
<1> USE DEF flagVars
<1>0. /\ pc.p \in Pools /\ result.p \in Pools /\ write_failed \in [Pools -> 0 .. MaxGen]
      /\ drop_requested \in [Pools -> NoDrop .. MaxGen]
  BY Parts DEF Ring, TypeOK
<1>1. ASSUME NEW p \in Pools
      PROVE  /\ write_failed'[p] \in {write_failed[p], NoGen, transport[p]}
             /\ drop_requested'[p] \in {drop_requested[p], NoDrop, transport[p]}
  <2>1. CASE UNCHANGED flagVars
    BY <2>1
  <2>2. CASE Publish \/ ServiceFlag
    BY <1>0, <2>2 DEF Publish, ServiceFlag, ClearFlags
  <2>3. CASE ResultWritten
    BY <1>0, <2>3 DEF ResultWritten
  <2>4. CASE \/ Top \/ NetOff \/ Sweep \/ Dial \/ DialFails \/ ServiceSkip \/ ServiceRead
             \/ ServiceExtranonce \/ NotifyTest \/ NotifyRoom \/ NotifyEnqueue \/ Clean
             \/ Unpublish \/ CloseAbandon \/ CloseForget
    BY <2>1, <2>4 DEF Top, NetOff, Sweep, Dial, DialFails, ServiceSkip, ServiceRead,
         ServiceExtranonce, NotifyTest, NotifyRoom, NotifyEnqueue, Clean, Unpublish,
         CloseAbandon, CloseForget
  <2>5. CASE \/ Builder \/ Sender \/ ResultTake \/ ResultUser \/ ResultLock \/ PoolAWork
             \/ PoolAClean \/ UNCHANGED vars
    BY <2>1, <2>5 DEF Builder, BuildStart, BuildCheck, BuildDrain, BuildDrained, BuildSelect,
         BuildRecheck, BuildCopy, BuildPut, Sender, SendTake, SendPlace, ResultTake,
         ResultUser, ResultLock, PoolAWork, PoolAClean, vars
  <2>6. CASE PostPoolDrop
    BY <1>0, <2>6 DEF PostPoolDrop
  <2> QED  BY <2>2, <2>3, <2>4, <2>5, <2>6 DEF Next, PoolTask, Result, Environment
<1>2. ASSUME NEW p \in Pools, transport'[p] # NoGen
      PROVE  /\ write_failed'[p] \in {NoGen, transport'[p]}
             /\ drop_requested'[p] \in {NoDrop, transport'[p]}
  <2>1. CASE transport'[p] = transport[p]
    BY <1>1, <1>2, <2>1 DEF FlagOK
  <2>2. CASE Publish /\ pc.p = p
    BY <1>0, <2>2 DEF Publish, ClearFlags
  <2> QED  BY <1>2, <2>1, <2>2, SessionKept
<1> QED  BY <1>2 DEF FlagOK

-----------------------------------------------------------------------------
(* Abandoned work. *)

\* What is kept or queued of a pool is of a generation not abandoned, unless it was
\* in a task's hands when that was; the builder copies only what it holds.
Fresh(p, n) == n = NoNotify \/ n.late \/ Abandoned(p) < n.gen
FreshJob(j) == \A p \in Pools : j.pool = p => j.late \/ Abandoned(p) < j.gen
FreshOK ==
    /\ \A p \in Pools :
          /\ Fresh(p, held[p])
          /\ \A k \in 1 .. Len(squeue[p]) : Fresh(p, squeue[p][k])
    /\ FreshJob(builder.job) /\ FreshJob(sending)
    /\ \A i \in 1 .. Len(asic_queue) : FreshJob(asic_queue[i])
    /\ \A s \in Slots : slot[s].valid => FreshJob(slot[s].job)
    /\ builder.at \in {"recheck", "copy"} => held[builder.p] # NoNotify

\* The same of a job after a step.
FreshAfter(j) == \A p \in Pools : j.pool = p => j.late \/ Abandoned(p)' < j.gen

\* A pool's work is only abandoned where it is removed: a new session counts as
\* abandoned what the close of the one before it already did.
LEMMA AbandonedMoves ==
  ASSUME Ring, [Next]_vars, NEW p \in Pools
  PROVE  Abandoned(p)' = Abandoned(p) \/ Emptied(p)
<1> USE DEF sessVars
<1>0. /\ TypeOK /\ pc.p \in Pools /\ gen[p] \in Nat
      /\ gen \in [Pools -> 0 .. MaxGen] /\ connected \in [Pools -> BOOLEAN]
  BY Parts, Numbers DEF Ring, TypeOK
<1>1. CASE UNCHANGED <<connected, gen>>
  BY <1>1 DEF Abandoned
<1>2. CASE Publish
  <2>1. /\ gen' = [gen EXCEPT ![pc.p] = gen[pc.p] + 1] /\ pc.at = "dialing"
        /\ connected' = [connected EXCEPT ![pc.p] = TRUE]
    BY <1>2 DEF Publish
  <2>2. ~connected[pc.p]
    BY <2>1 DEF Ring, PcOK
  <2> QED  BY <1>0, <2>1, <2>2 DEF Abandoned
<1>3. CASE Clean \/ CloseAbandon
  <2>1. AbandonWork(pc.p)
    BY <1>3 DEF Clean, CloseAbandon
  <2>2. CASE pc.p = p
    BY <1>0, <2>1, <2>2, AbandonLeaves DEF Emptied
  <2>3. CASE pc.p # p
    BY <1>0, <1>3, <2>3 DEF Clean, CloseAbandon, Abandoned
  <2> QED  BY <2>2, <2>3
<1>4. CASE \/ Top \/ NetOff \/ Sweep \/ Dial \/ DialFails \/ ServiceSkip \/ ServiceFlag
           \/ ServiceRead \/ ServiceExtranonce \/ NotifyTest \/ NotifyRoom
           \/ NotifyEnqueue \/ Unpublish \/ CloseForget
  BY <1>1, <1>4 DEF Top, NetOff, Sweep, Dial, DialFails, ServiceSkip, ServiceFlag,
       ServiceRead, ServiceExtranonce, NotifyTest, NotifyRoom, NotifyEnqueue,
       Unpublish, CloseForget
<1>5. CASE ~PoolTask
  BY <1>1, <1>5, OnlyPoolTask
<1> QED  BY <1>2, <1>3, <1>4, <1>5 DEF PoolTask

\* The notify the builder is to copy stays: it alone lets one go, and not then.
LEMMA CopiedIsHeld ==
  ASSUME Ring, FreshOK, [Next]_vars
  PROVE  builder'.at \in {"recheck", "copy"} => held'[builder'.p] # NoNotify
<1> USE DEF sessVars, buildVars
<1>0. /\ TypeOK /\ builder \in BuilderType /\ builder.p \in Pools /\ pc.p \in Pools /\ 1 \in Pools
      /\ builder.at \in {"recheck", "copy"} => held[builder.p] # NoNotify
      /\ held \in [Pools -> Notify \cup {NoNotify}]
  <2>1. 1 \in Pools
    BY Constants DEF Pools
  <2> QED  BY <2>1, Parts DEF Ring, TypeOK, FreshOK
<1>1. CASE UNCHANGED <<builder, held>>
  BY <1>0, <1>1
<1>2. CASE Clean \/ CloseAbandon
  <2>1. AbandonWork(pc.p)
    BY <1>2 DEF Clean, CloseAbandon
  <2>2. /\ builder'.at = builder.at /\ builder'.p = builder.p
        /\ held'[builder.p] \in {held[builder.p], LateNotify(held[builder.p])}
    BY <1>0, <2>1, AbandonLeaves
  <2> QED  BY <1>0, <2>2, LateNotifies
<1>3. CASE BuildSelect
  <2>1. PICK chosen \in 0 .. NPools :
          builder' = IF chosen # POOL_A /\ held[chosen] # NoNotify
                     THEN BuilderAt("recheck", chosen) ELSE PoolASlice
    BY <1>3 DEF BuildSelect
  <2>2. chosen # POOL_A => chosen \in Pools
    BY Constants DEF POOL_A, Pools
  <2>3. PoolASlice.at \in {"put", "idle"}
    BY <1>0, BuilderTypes, JobTypes DEF PoolASlice, BuilderPlaces
  <2>4. UNCHANGED held
    BY <1>3 DEF BuildSelect
  <2> QED  BY <2>1, <2>2, <2>3, <2>4, BuilderTypes DEF BuilderPlaces
<1>4. CASE BuildRecheck
  <2>1. /\ UNCHANGED held /\ builder.at = "recheck"
        /\ builder' = IF transport[builder.p] # NoGen THEN BuilderAt("copy", builder.p)
                                                      ELSE PoolASlice
    BY <1>4 DEF BuildRecheck
  <2>2. PoolASlice.at \in {"put", "idle"}
    BY <1>0, BuilderTypes, JobTypes DEF PoolASlice, BuilderPlaces
  <2> QED  BY <1>0, <2>1, <2>2, BuilderTypes DEF BuilderPlaces
<1>5. CASE BuildStart \/ BuildCheck \/ BuildDrain \/ BuildDrained \/ BuildCopy \/ BuildPut
  <2>1. builder'.at \in {"check", "drain", "select", "put", "idle"}
    <3>1. builder.p < NPools => builder.p + 1 \in Pools
      BY <1>0, Constants DEF Pools
    <3>2. BuilderAt("put", builder.p) \in BuilderType
          /\ JobOf(builder.p, held[builder.p], extranonce[builder.p]) \in Job
      BY <1>0, BuilderTypes, JobTypes DEF BuilderPlaces, TypeOK
    <3>3. CASE BuildCopy
      BY <1>0, <3>2, <3>3, BuilderTypes DEF BuildCopy, BuilderPlaces
    <3>4. CASE BuildStart \/ BuildCheck \/ BuildDrained \/ BuildPut
      BY <1>0, <3>1, <3>4, BuilderTypes DEF BuildStart, BuildCheck, BuildDrained, BuildPut,
         BuilderPlaces
    <3>5. CASE BuildDrain
      BY <3>5 DEF BuildDrain
    <3> QED  BY <1>5, <3>3, <3>4, <3>5
  <2> QED  BY <2>1
<1>6. CASE \/ Top \/ NetOff \/ Sweep \/ Dial \/ DialFails \/ Publish \/ ServiceSkip
           \/ ServiceFlag \/ ServiceRead \/ ServiceExtranonce \/ NotifyTest
           \/ NotifyRoom \/ NotifyEnqueue \/ Unpublish \/ CloseForget
  BY <1>1, <1>6 DEF Top, NetOff, Sweep, Dial, DialFails, Publish, ServiceSkip,
       ServiceFlag, ServiceRead, ServiceExtranonce, NotifyTest, NotifyRoom,
       NotifyEnqueue, Unpublish, CloseForget
<1>7. CASE Sender \/ Result \/ Environment \/ UNCHANGED vars
  <2>1. UNCHANGED <<builder, held>>
    BY <1>7 DEF Sender, SendTake, SendPlace, Result, ResultTake, ResultUser, ResultLock,
         ResultWritten, Environment, PostPoolDrop, PoolAWork, PoolAClean, vars
  <2> QED  BY <1>1, <2>1
<1> QED  BY <1>2, <1>3, <1>4, <1>5, <1>6, <1>7 DEF Next, PoolTask, Builder

LEMMA MarkedJobs ==
  ASSUME NEW j \in Job, NEW p
  PROVE  /\ Mark(j, p).pool = j.pool /\ Mark(j, p).gen = j.gen
         /\ Mark(j, p).num = j.num
         /\ j.late => Mark(j, p).late
         /\ j.pool = p => Mark(j, p).late
  BY DEF Mark, Job

LEMMA FreshStep ==
  ASSUME Ring, FreshOK, [Next]_vars
  PROVE  FreshOK'
<1>0. /\ TypeOK /\ builder.p \in Pools /\ builder.job \in Job /\ sending \in Job
      /\ \A p \in Pools : held[p] \in Notify \cup {NoNotify}
      /\ asic_queue \in Seq(Job) /\ pc.p \in Pools
  BY Parts DEF Ring, TypeOK
\* The notifies.
<1>1. ASSUME NEW p \in Pools
      PROVE  /\ Fresh(p, held[p])'
             /\ \A k \in 1 .. Len(squeue'[p]) : Fresh(p, squeue[p][k])'
  <2>1. CASE Emptied(p)
    <3>1. Len(squeue'[p]) = 0 /\ held'[p] = LateNotify(held[p])
      BY <2>1 DEF Emptied
    <3> QED  BY <1>0, <3>1, LateNotifies DEF Fresh
  <2>2. CASE Abandoned(p)' = Abandoned(p)
    <3>1. /\ Fresh(p, held[p]) /\ \A k \in 1 .. Len(squeue[p]) : Fresh(p, squeue[p][k])
          /\ squeue[p] \in Seq(Notify)
      BY <1>0, Numbers DEF FreshOK
    <3>2. CASE Stays(p)
      BY <2>2, <3>1, <3>2 DEF Stays, Fresh
    <3>3. CASE Advances(p)
      BY <2>2, <3>1, <3>3, TailElements DEF Advances, Fresh
    <3>4. CASE Extended(p)
      <4> DEFINE n == NewNotify(p)
      <4>1. Abandoned(p) < n.gen
        BY <1>0, <3>4, Numbers DEF NewNotify, Extended, Abandoned
      <4>2. held'[p] = held[p] /\ squeue'[p] = Append(squeue[p], n)
        BY <3>4 DEF Extended
      <4> HIDE DEF n
      <4>3. \A k \in 1 .. Len(squeue'[p]) :
              squeue'[p][k] = n \/ (k \in 1 .. Len(squeue[p]) /\ squeue'[p][k] = squeue[p][k])
        BY <3>1, <4>2
      <4> QED  BY <2>2, <3>1, <4>1, <4>2, <4>3 DEF Fresh
    <3> QED  BY <2>1, <3>2, <3>3, <3>4, NotifySteps
  <2> QED  BY <2>1, <2>2, AbandonedMoves
\* The jobs, when a pool's work is abandoned, and when none is.
<1>2. CASE \E p \in Pools : Emptied(p)
  <2>1. /\ AbandonWork(pc.p) /\ \A p \in Pools : Emptied(p) => p = pc.p
    BY <1>2 DEF Emptied
  <2>2. \A p \in Pools : p # pc.p => Abandoned(p)' = Abandoned(p)
    BY <2>1, AbandonedMoves
  <2>3. /\ builder'.job = Mark(builder.job, pc.p) /\ sending' = Mark(sending, pc.p)
        /\ \A k \in 1 .. Len(asic_queue') :
              /\ asic_queue'[k].pool # pc.p
              /\ \E i \in 1 .. Len(asic_queue) : asic_queue'[k] = asic_queue[i]
        /\ \A s \in Slots : /\ slot'[s].job = slot[s].job
                            /\ slot'[s].valid => slot[s].valid /\ slot[s].job.pool # pc.p
    BY <1>0, <2>1, AbandonLeaves
  <2>4. ASSUME NEW j, FreshJob(j), j.pool # pc.p
        PROVE  FreshAfter(j)
    BY <2>2, <2>4 DEF FreshJob, FreshAfter
  <2>5. ASSUME NEW j \in Job, FreshJob(j)
        PROVE  FreshAfter(Mark(j, pc.p))
    <3>1. CASE j.pool = pc.p
      BY <3>1, MarkedJobs DEF FreshAfter
    <3>2. CASE j.pool # pc.p
      <4>1. Mark(j, pc.p) = j
        BY <3>2 DEF Mark
      <4> QED  BY <2>4, <2>5, <3>2, <4>1
    <3> QED  BY <3>1, <3>2
  <2>6. FreshAfter(builder'.job) /\ FreshAfter(sending')
    BY <1>0, <2>3, <2>5 DEF FreshOK
  <2>7. \A i \in 1 .. Len(asic_queue') : FreshAfter(asic_queue'[i])
    BY <2>3, <2>4 DEF FreshOK
  <2>8. \A s \in Slots : slot'[s].valid => FreshAfter(slot'[s].job)
    BY <2>3, <2>4 DEF FreshOK
  <2> QED  BY <1>1, <2>6, <2>7, <2>8, CopiedIsHeld DEF FreshOK, FreshJob, FreshAfter
<1>3. CASE ~\E p \in Pools : Emptied(p)
  <2>1. \A p \in Pools : Abandoned(p)' = Abandoned(p)
    BY <1>3, AbandonedMoves
  <2>2. ASSUME NEW j, FreshJob(j)
        PROVE  FreshAfter(j)
    BY <2>1, <2>2 DEF FreshJob, FreshAfter
  <2>3. ASSUME NEW j, JobsAt(j)
        PROVE  FreshJob(j)
    <3>1. CASE j = NoJob \/ j = AJob
      <4>1. NoJob.pool \notin Pools /\ AJob.pool \notin Pools
        BY Constants DEF NoJob, AJob, POOL_A, Pools
      <4> QED  BY <3>1, <4>1 DEF FreshJob
    <3>2. CASE \/ j = builder.job \/ j = sending
               \/ \E i \in 1 .. Len(asic_queue) : j = asic_queue[i]
      BY <3>2 DEF FreshOK
    <3>3. CASE \E p \in Pools : Mark(builder.job, p) = j \/ Mark(sending, p) = j
      <4>1. FreshJob(builder.job) /\ FreshJob(sending)
        BY DEF FreshOK
      <4> QED  BY <1>0, <3>3, <4>1, MarkedJobs DEF FreshJob
    <3>4. CASE builder.at = "copy" /\ j = JobOf(builder.p, held[builder.p], extranonce[builder.p])
      <4>1. Fresh(builder.p, held[builder.p]) /\ held[builder.p] # NoNotify
        BY <1>0, <3>4 DEF FreshOK
      <4> QED  BY <3>4, <4>1 DEF Fresh, FreshJob, JobOf
    <3> QED  BY <2>3, <3>1, <3>2, <3>3, <3>4 DEF JobsAt
  <2>4. \A s \in Slots : slot'[s].valid => FreshAfter(slot'[s].job)
    BY <2>2, JobsMove DEF SlotAt, FreshOK
  <2>5. /\ FreshAfter(builder'.job) /\ FreshAfter(sending')
        /\ \A i \in 1 .. Len(asic_queue') : FreshAfter(asic_queue'[i])
    BY <2>2, <2>3, JobsMove
  <2> QED  BY <1>1, <2>4, <2>5, CopiedIsHeld DEF FreshOK, FreshJob, FreshAfter
<1> QED  BY <1>2, <1>3

-----------------------------------------------------------------------------
(* The order of a pool's work. *)

\* No job of pool p in queue q is later than number g, nor the one in the sender's
\* hand s, nor the one in the builder's hand b.
UpTo(q, p, g) == \A i \in 1 .. Len(q) : q[i].pool = p => q[i].num <= g
AheadUpTo(s, q, p, g) == UpTo(q, p, g) /\ (s.pool = p => s.num <= g)
WorkUpTo(s, q, b, p, g) == AheadUpTo(s, q, p, g) /\ (b.pool = p => b.num <= g)
Before(j, k) == j.pool = k.pool => j.num <= k.num

\* The work of a pool passes through its queue, the builder's hand and the queue of
\* jobs, and is nowhere ahead of work that is further along.
KeptInOrder(p) ==
    /\ held[p] # NoNotify => WorkUpTo(sending, asic_queue, builder.job, p, held[p].num)
    /\ \A k \in 1 .. Len(squeue[p]) :
          /\ WorkUpTo(sending, asic_queue, builder.job, p, squeue[p][k].num)
          /\ held[p].num <= squeue[p][k].num /\ squeue[p][k].num <= told[p]
    /\ \A i, k \in 1 .. Len(squeue[p]) : i < k => squeue[p][i].num <= squeue[p][k].num
    /\ WorkUpTo(sending, asic_queue, builder.job, p, told[p]) /\ held[p].num <= told[p]
OrderOK ==
    /\ \A i, k \in 1 .. Len(asic_queue) : i < k => Before(asic_queue[i], asic_queue[k])
    /\ \A i \in 1 .. Len(asic_queue) : Before(sending, asic_queue[i])
    /\ AheadUpTo(sending, asic_queue, builder.job.pool, builder.job.num)
    /\ WorkUpTo(sending, asic_queue, builder.job, POOL_A, 0)
    /\ \A p \in Pools : KeptInOrder(p)

\* What a step does to the queue of jobs: some go and the others keep their order, or
\* the builder adds the one it has, and has none then.
Thinned(r, q, e) ==
    /\ e \in [1 .. Len(r) -> 1 .. Len(q)]
    /\ \A i, k \in 1 .. Len(r) : i < k => e[i] < e[k]
    /\ \A k \in 1 .. Len(r) : r[k] = q[e[k]]
Lengthened == asic_queue' = Append(asic_queue, builder.job) /\ builder'.job = NoJob

LEMMA QueueSteps ==
  ASSUME Ring, [Next]_vars
  PROVE  Lengthened \/ \E e : Thinned(asic_queue', asic_queue, e)
<1> USE DEF chipVars
<1>0. /\ TypeOK /\ asic_queue \in Seq(Job) /\ Len(asic_queue) \in Nat /\ 1 \in Pools
  <2>1. TypeOK /\ asic_queue \in Seq(Job)
    BY DEF Ring, TypeOK
  <2> QED  BY <2>1, Constants DEF Pools
<1>1. CASE UNCHANGED asic_queue
  <2> DEFINE e == [k \in 1 .. Len(asic_queue) |-> k]
  <2>1. Thinned(asic_queue', asic_queue, e)
    BY <1>0, <1>1 DEF Thinned
  <2> QED  BY <2>1
<1>2. CASE \E p : ClearPool(asic_queue, p, asic_queue')
  <2>1. PICK p : ClearPool(asic_queue, p, asic_queue')
    BY <1>2
  <2>2. PICK e : Picks(asic_queue, p, asic_queue', e)
    BY <1>0, <2>1, ClearPoolPicks
  <2>3. Thinned(asic_queue', asic_queue, e)
    BY <2>2 DEF Picks, Thinned
  <2> QED  BY <2>3
<1>3. CASE SendTake
  <2>1. asic_queue # <<>> /\ asic_queue' = Tail(asic_queue)
    BY <1>3 DEF SendTake
  <2> DEFINE e == [k \in 1 .. Len(Tail(asic_queue)) |-> k + 1]
  <2>2. Thinned(Tail(asic_queue), asic_queue, e)
    BY <1>0, <2>1, TailElements DEF Thinned
  <2> QED  BY <2>1, <2>2
<1>4. CASE BuildPut
  <2>1. /\ asic_queue' \in {asic_queue, Append(asic_queue, builder.job)}
        /\ builder' = BuilderAt("idle", 1)
    BY <1>4 DEF BuildPut
  <2>2. builder'.job = NoJob
    BY <2>1 DEF BuilderAt
  <2> QED  BY <1>1, <2>1, <2>2 DEF Lengthened
<1>5. CASE Clean \/ CloseAbandon \/ PoolAClean
  BY <1>2, <1>5 DEF Clean, CloseAbandon, AbandonWork, PoolAClean
<1>6. CASE \/ Top \/ NetOff \/ Sweep \/ Dial \/ DialFails \/ Publish \/ ServiceSkip
           \/ ServiceFlag \/ ServiceRead \/ ServiceExtranonce \/ NotifyTest
           \/ NotifyRoom \/ NotifyEnqueue \/ Unpublish \/ CloseForget
  BY <1>1, <1>6 DEF Top, NetOff, Sweep, Dial, DialFails, Publish, ServiceSkip,
       ServiceFlag, ServiceRead, ServiceExtranonce, NotifyTest, NotifyRoom,
       NotifyEnqueue, Unpublish, CloseForget
<1>7. CASE \/ BuildStart \/ BuildCheck \/ BuildDrain \/ BuildDrained \/ BuildSelect
           \/ BuildRecheck \/ BuildCopy \/ SendPlace \/ Result \/ PostPoolDrop \/ PoolAWork
           \/ UNCHANGED vars
  <2>1. UNCHANGED asic_queue
    BY <1>7 DEF BuildStart, BuildCheck, BuildDrain, BuildDrained, BuildSelect, BuildRecheck,
         BuildCopy, SendPlace, Result, ResultTake, ResultUser, ResultLock, ResultWritten,
         PostPoolDrop, PoolAWork, vars
  <2> QED  BY <1>1, <2>1
<1> QED
  BY <1>3, <1>4, <1>5, <1>6, <1>7 DEF Next, PoolTask, Builder, Sender, Environment

\* What a step does to the job in the sender's hand.
SentSame  == sending'.pool = sending.pool /\ sending'.num = sending.num
SentTaken == /\ asic_queue # <<>> /\ sending' = Head(asic_queue)
             /\ asic_queue' = Tail(asic_queue) /\ builder' = builder

LEMMA SentSteps ==
  ASSUME Ring, [Next]_vars
  PROVE  /\ SentSame \/ sending' = NoJob \/ SentTaken
         /\ Lengthened => SentSame
<1> USE DEF chipVars
<1>0. /\ TypeOK /\ pc.p \in Pools /\ sending \in Job /\ asic_queue \in Seq(Job)
      /\ builder.job \in Job
  <2>1. TypeOK /\ sending \in Job /\ asic_queue \in Seq(Job)
    BY DEF Ring, TypeOK
  <2> QED  BY <2>1, Parts
<1>1. CASE UNCHANGED sending
  BY <1>1 DEF SentSame
<1>2. CASE Clean \/ CloseAbandon
  <2>1. AbandonWork(pc.p)
    BY <1>2 DEF Clean, CloseAbandon
  <2>2. sending' = Mark(sending, pc.p)
    BY <1>0, <2>1, AbandonLeaves
  <2> QED  BY <1>0, <2>2, MarkedJobs DEF SentSame
<1>3. CASE SendTake \/ SendPlace
  <2>1. UNCHANGED builder
    BY <1>3 DEF SendTake, SendPlace, buildVars
  <2>2. sending' = NoJob \/ SentTaken
    BY <1>3, <2>1 DEF SendTake, SendPlace, SentTaken
  <2>3. ~Lengthened
    <3>1. \/ asic_queue' = asic_queue
          \/ asic_queue # <<>> /\ asic_queue' = Tail(asic_queue)
      BY <1>3 DEF SendTake, SendPlace
    <3>2. Len(asic_queue') <= Len(asic_queue)
      BY <1>0, <3>1, TailElements
    <3>3. Len(Append(asic_queue, builder.job)) = Len(asic_queue) + 1
      BY <1>0
    <3> QED  BY <1>0, <3>2, <3>3 DEF Lengthened
  <2> QED  BY <2>2, <2>3
<1>4. CASE \/ Top \/ NetOff \/ Sweep \/ Dial \/ DialFails \/ Publish \/ ServiceSkip
           \/ ServiceFlag \/ ServiceRead \/ ServiceExtranonce \/ NotifyTest
           \/ NotifyRoom \/ NotifyEnqueue \/ Unpublish \/ CloseForget
  BY <1>1, <1>4 DEF Top, NetOff, Sweep, Dial, DialFails, Publish, ServiceSkip,
       ServiceFlag, ServiceRead, ServiceExtranonce, NotifyTest, NotifyRoom,
       NotifyEnqueue, Unpublish, CloseForget
<1>5. CASE Builder \/ Result \/ Environment \/ UNCHANGED vars
  <2>1. UNCHANGED sending
    BY <1>5 DEF Builder, BuildStart, BuildCheck, BuildDrain, BuildDrained, BuildSelect,
         BuildRecheck, BuildCopy, BuildPut, Result, ResultTake, ResultUser, ResultLock,
         ResultWritten, Environment, PostPoolDrop, PoolAWork, PoolAClean, vars
  <2> QED  BY <1>1, <2>1
<1> QED  BY <1>2, <1>3, <1>4, <1>5 DEF Next, PoolTask, Sender

\* What a step does to the job in the builder's hand.
SameJob == builder'.job.pool = builder.job.pool /\ builder'.job.num = builder.job.num
Copied ==
    /\ builder'.job = JobOf(builder.p, held[builder.p], extranonce[builder.p])
    /\ asic_queue' = asic_queue /\ held[builder.p] # NoNotify

LEMMA HandSteps ==
  ASSUME Ring, FreshOK, [Next]_vars
  PROVE  SameJob \/ builder'.job \in {NoJob, AJob} \/ Copied
<1> USE DEF buildVars, chipVars
<1>0. /\ TypeOK /\ pc.p \in Pools /\ builder.p \in Pools /\ 1 \in Pools
      /\ builder \in BuilderType /\ builder.job \in Job
  <2>1. TypeOK
    BY DEF Ring
  <2> QED  BY <2>1, Parts, Constants DEF Pools
<1>1. CASE UNCHANGED builder
  BY <1>1 DEF SameJob
<1>2. CASE Clean \/ CloseAbandon
  <2>1. AbandonWork(pc.p)
    BY <1>2 DEF Clean, CloseAbandon
  <2>2. builder'.job = Mark(builder.job, pc.p)
    BY <1>0, <2>1, AbandonLeaves
  <2> QED  BY <1>0, <2>2, MarkedJobs DEF SameJob
<1>3. CASE BuildStart \/ BuildCheck \/ BuildDrained \/ BuildPut
  <2>1. \E at, p : builder' = BuilderAt(at, p)
    BY <1>3 DEF BuildStart, BuildCheck, BuildDrained, BuildPut
  <2> QED  BY <2>1 DEF BuilderAt
<1>4. CASE BuildSelect \/ BuildRecheck
  <2>1. builder' = PoolASlice \/ \E at, p : builder' = BuilderAt(at, p)
    BY <1>4 DEF BuildSelect, BuildRecheck
  <2>2. PoolASlice.job \in {AJob, NoJob}
    BY <1>0, BuilderTypes, JobTypes DEF PoolASlice, BuilderPlaces
  <2> QED  BY <2>1, <2>2 DEF BuilderAt
<1>5. CASE BuildCopy
  <2> DEFINE j == JobOf(builder.p, held[builder.p], extranonce[builder.p])
  <2>1. /\ builder.at = "copy" /\ UNCHANGED asic_queue
        /\ builder' = IF extranonce[builder.p] = NoGen THEN BuilderAt("idle", 1)
                      ELSE [BuilderAt("put", builder.p) EXCEPT !.job = j]
    BY <1>5 DEF BuildCopy
  <2>2. held[builder.p] # NoNotify
    BY <2>1 DEF FreshOK
  <2>3. [BuilderAt("put", builder.p) EXCEPT !.job = j].job = j
    BY DEF BuilderAt
  <2> HIDE DEF j
  <2>4. builder'.job = NoJob \/ builder'.job = j
    BY <2>1, <2>3 DEF BuilderAt
  <2> QED  BY <2>1, <2>2, <2>4 DEF j, Copied
<1>6. CASE BuildDrain
  BY <1>1, <1>6 DEF BuildDrain
<1>7. CASE \/ Top \/ NetOff \/ Sweep \/ Dial \/ DialFails \/ Publish \/ ServiceSkip
           \/ ServiceFlag \/ ServiceRead \/ ServiceExtranonce \/ NotifyTest
           \/ NotifyRoom \/ NotifyEnqueue \/ Unpublish \/ CloseForget
  BY <1>1, <1>7 DEF Top, NetOff, Sweep, Dial, DialFails, Publish, ServiceSkip,
       ServiceFlag, ServiceRead, ServiceExtranonce, NotifyTest, NotifyRoom,
       NotifyEnqueue, Unpublish, CloseForget
<1>8. CASE Sender \/ Result \/ Environment \/ UNCHANGED vars
  <2>1. UNCHANGED builder
    BY <1>8 DEF Sender, SendTake, SendPlace, Result, ResultTake, ResultUser, ResultLock,
         ResultWritten, Environment, PostPoolDrop, PoolAWork, PoolAClean, vars
  <2> QED  BY <1>1, <2>1
<1> QED  BY <1>2, <1>3, <1>4, <1>5, <1>6, <1>7, <1>8 DEF Next, PoolTask, Builder

LEMMA NumNumbers ==
  ASSUME TypeOK
  PROVE  /\ \A j \in Job : j.num \in Nat
         /\ \A n \in Notify \cup {NoNotify} : n.num \in Nat
         /\ \A p \in Pools : /\ told[p] \in Nat /\ held[p].num \in Nat
                             /\ held[p] \in Notify \cup {NoNotify}
                             /\ squeue[p] \in Seq(Notify)
                             /\ \A k \in 1 .. Len(squeue[p]) : squeue[p][k].num \in Nat
<1>1. /\ \A j \in Job : j.num \in Nat
      /\ \A n \in Notify \cup {NoNotify} : n.num \in Nat
  BY Constants DEF Job, Notify, NoNotify
<1>2. \A p \in Pools : /\ told[p] \in Nat /\ held[p] \in Notify \cup {NoNotify}
                       /\ squeue[p] \in Seq(Notify)
  BY Constants DEF TypeOK
<1> QED  BY <1>1, <1>2

LEMMA ToldKept ==
  ASSUME [Next]_vars, ~NotifyEnqueue
  PROVE  UNCHANGED told
<1>1. CASE PoolTask
  BY <1>1 DEF PoolTask, Top, NetOff, Sweep, Dial, DialFails, Publish, ServiceSkip,
       ServiceFlag, ServiceRead, ServiceExtranonce, NotifyTest, NotifyRoom, Clean,
       Unpublish, CloseAbandon, CloseForget
<1>2. CASE ~PoolTask
  BY <1>2, OnlyPoolTask
<1> QED  BY <1>1, <1>2

\* The count of a pool's notifies only goes up: by the one that is queued.
LEMMA ToldMoves ==
  ASSUME Ring, [Next]_vars
  PROVE  \A p \in Pools : /\ told'[p] \in Nat /\ told[p] <= told'[p]
                          /\ Extended(p) => told'[p] = NewNotify(p).num
<1>0. /\ pc.p \in Pools /\ told \in [Pools -> 0 .. MaxNotifies]
      /\ \A p \in Pools : told[p] \in Nat
  BY Parts, Constants DEF Ring, TypeOK
<1>1. CASE NotifyEnqueue
  <2>1. told' = [told EXCEPT ![pc.p] = Issued(pc.p)]
    BY <1>1 DEF NotifyEnqueue
  <2>2. Issued(pc.p) \in Nat /\ told[pc.p] <= Issued(pc.p)
    BY <1>0 DEF Issued
  <2> QED  BY <1>0, <2>1, <2>2 DEF Extended, NewNotify
<1>2. CASE UNCHANGED told /\ ~NotifyEnqueue
  BY <1>0, <1>2 DEF Extended
<1> QED  BY <1>1, <1>2, ToldKept

LEMMA ThinnedUpTo ==
  ASSUME NEW r, NEW q, NEW e, Thinned(r, q, e), NEW p, NEW g, UpTo(q, p, g)
  PROVE  UpTo(r, p, g)
  BY DEF Thinned, UpTo

LEMMA LengthenedUpTo ==
  ASSUME NEW q \in Seq(Job), NEW j \in Job, NEW p, NEW g, UpTo(q, p, g),
         j.pool = p => j.num <= g
  PROVE  UpTo(Append(q, j), p, g)
  BY DEF UpTo

\* A bound on what is ahead of the builder holds after a step that adds nothing of
\* pool p to the queue, or nothing later.
LEMMA AheadCarries ==
  ASSUME Ring, [Next]_vars, NEW p \in 0 .. NPools, NEW g \in Nat,
         AheadUpTo(sending, asic_queue, p, g),
         Lengthened => (builder.job.pool = p => builder.job.num <= g)
  PROVE  AheadUpTo(sending', asic_queue', p, g)
<1>0. /\ TypeOK /\ asic_queue \in Seq(Job) /\ builder.job \in Job
  BY Parts DEF Ring, TypeOK
<1>1. UpTo(asic_queue', p, g)
  <2>1. CASE Lengthened
    BY <1>0, <2>1, LengthenedUpTo DEF Lengthened, AheadUpTo
  <2>2. CASE \E e : Thinned(asic_queue', asic_queue, e)
    BY <2>2, ThinnedUpTo DEF AheadUpTo
  <2> QED  BY <2>1, <2>2, QueueSteps
<1>2. sending'.pool = p => sending'.num <= g
  <2>1. CASE SentSame
    BY <2>1 DEF SentSame, AheadUpTo
  <2>2. CASE sending' = NoJob
    BY <2>2 DEF NoJob
  <2>3. CASE SentTaken
    <3>1. sending' = asic_queue[1] /\ 1 \in 1 .. Len(asic_queue)
      BY <1>0, <2>3, TailElements DEF SentTaken
    <3> QED  BY <3>1 DEF AheadUpTo, UpTo
  <2> QED  BY <2>1, <2>2, <2>3, SentSteps
<1> QED  BY <1>1, <1>2 DEF AheadUpTo

\* A bound on the number of a pool's work holds after a step, unless the builder
\* has made a job of a later one.
LEMMA WorkCarries ==
  ASSUME Ring, FreshOK, [Next]_vars, NEW p \in 0 .. NPools, NEW g \in Nat,
         WorkUpTo(sending, asic_queue, builder.job, p, g),
         p \in Pools => held[p].num <= g \/ ~(Copied /\ builder.p = p)
  PROVE  WorkUpTo(sending', asic_queue', builder'.job, p, g)
<1>0. /\ TypeOK /\ asic_queue \in Seq(Job) /\ builder.job \in Job /\ builder.p \in Pools
  BY Parts DEF Ring, TypeOK
<1>1. AheadUpTo(sending', asic_queue', p, g)
  BY AheadCarries DEF WorkUpTo
<1>2. builder'.job.pool = p => builder'.job.num <= g
  <2>1. CASE SameJob
    BY <2>1 DEF SameJob, WorkUpTo
  <2>2. CASE builder'.job \in {NoJob, AJob}
    <3>1. builder'.job.num = 0
      BY <2>2 DEF NoJob, AJob
    <3> QED  BY <3>1
  <2>3. CASE Copied
    <3>1. builder'.job.pool = builder.p /\ builder'.job.num = held[builder.p].num
      BY <2>3 DEF Copied, JobOf
    <3> QED  BY <1>0, <2>3, <3>1
  <2> QED  BY <2>1, <2>2, <2>3, HandSteps
<1> QED  BY <1>1, <1>2 DEF WorkUpTo

\* A larger bound holds as well.
LEMMA WorkWiden ==
  ASSUME TypeOK, NEW p, NEW g \in Nat, NEW h \in Nat, g <= h,
         WorkUpTo(sending, asic_queue, builder.job, p, g)
  PROVE  WorkUpTo(sending, asic_queue, builder.job, p, h)
<1>1. /\ \A i \in 1 .. Len(asic_queue) : asic_queue[i].num \in Nat
      /\ builder.job.num \in Nat /\ sending.num \in Nat
  <2>1. asic_queue \in Seq(Job) /\ builder.job \in Job /\ sending \in Job
    BY Parts DEF TypeOK
  <2> QED  BY <2>1, NumNumbers
<1> QED  BY <1>1 DEF WorkUpTo, AheadUpTo, UpTo

LEMMA KeptStep ==
  ASSUME Ring, FreshOK, OrderOK, [Next]_vars, TypeOK', NEW p \in Pools
  PROVE  KeptInOrder(p)'
<1> DEFINE W(g) == WorkUpTo(sending, asic_queue, builder.job, p, g)
           WA(g) == WorkUpTo(sending', asic_queue', builder'.job, p, g)
<1>0. /\ TypeOK /\ KeptInOrder(p) /\ p \in 0 .. NPools
      /\ held[p] \in Notify \cup {NoNotify} /\ squeue[p] \in Seq(Notify)
      /\ Len(squeue[p]) \in Nat
      /\ told[p] \in Nat /\ held[p].num \in Nat
      /\ \A k \in 1 .. Len(squeue[p]) : squeue[p][k].num \in Nat
  BY Constants, NumNumbers DEF Ring, OrderOK, Pools
<1>1. ASSUME NEW g \in Nat, W(g), held[p].num <= g \/ ~(Copied /\ builder.p = p)
      PROVE  WA(g)
  BY <1>0, <1>1, WorkCarries
<1>2. /\ held[p] # NoNotify => W(held[p].num)
      /\ \A k \in 1 .. Len(squeue[p]) :
            /\ W(squeue[p][k].num)
            /\ held[p].num <= squeue[p][k].num /\ squeue[p][k].num <= told[p]
      /\ \A i, k \in 1 .. Len(squeue[p]) : i < k => squeue[p][i].num <= squeue[p][k].num
      /\ W(told[p]) /\ held[p].num <= told[p]
  BY <1>0 DEF KeptInOrder
<1>3. told'[p] \in Nat /\ told[p] <= told'[p]
  BY ToldMoves
<1>4. W(told'[p])
  BY <1>0, <1>2, <1>3, WorkWiden
<1> HIDE DEF W, WA
\* The bounds that are in use carry over.
<1>5. /\ held[p] # NoNotify => WA(held[p].num)
      /\ \A k \in 1 .. Len(squeue[p]) : WA(squeue[p][k].num)
      /\ WA(told[p]) /\ WA(told'[p]) /\ held[p].num <= told'[p]
  <2>1. held[p].num <= told'[p]
    BY <1>0, <1>2, <1>3
  <2>2. WA(told[p]) /\ WA(told'[p])
    BY <1>0, <1>1, <1>2, <1>3, <1>4, <2>1
  <2>3. /\ held[p] # NoNotify => WA(held[p].num)
        /\ \A k \in 1 .. Len(squeue[p]) : WA(squeue[p][k].num)
    BY <1>0, <1>1, <1>2
  <2> QED  BY <2>1, <2>2, <2>3
<1>6. /\ \A k \in 1 .. Len(squeue[p]) : squeue[p][k].num <= told'[p]
      /\ NoNotify.num = 0
  BY <1>0, <1>2, <1>3 DEF NoNotify
<1>7. /\ held'[p] # NoNotify => WA(held'[p].num)
      /\ \A k \in 1 .. Len(squeue'[p]) :
            /\ WA(squeue'[p][k].num)
            /\ held'[p].num <= squeue'[p][k].num /\ squeue'[p][k].num <= told'[p]
      /\ \A i, k \in 1 .. Len(squeue'[p]) : i < k => squeue'[p][i].num <= squeue'[p][k].num
      /\ held'[p].num <= told'[p]
  <2>1. CASE Stays(p)
    BY <1>0, <1>2, <1>3, <1>5, <1>6, <2>1 DEF Stays
  <2>2. CASE Advances(p)
    <3>1. /\ Head(squeue[p]) = squeue[p][1] /\ 1 \in 1 .. Len(squeue[p])
          /\ held'[p] \in {held[p], squeue[p][1]}
          /\ \A k \in 1 .. Len(squeue'[p]) :
                k + 1 \in 1 .. Len(squeue[p]) /\ squeue'[p][k] = squeue[p][k + 1]
      BY <1>0, <2>2, TailElements DEF Advances
    <3>2. \A k \in 1 .. Len(squeue'[p]) : squeue[p][1].num <= squeue[p][k + 1].num
      BY <1>2, <3>1
    <3>3. \A i, k \in 1 .. Len(squeue'[p]) :
            i < k => squeue[p][i + 1].num <= squeue[p][k + 1].num
      BY <1>2, <3>1
    <3> QED  BY <1>2, <1>5, <1>6, <3>1, <3>2, <3>3
  <2>3. CASE Extended(p)
    <3> DEFINE n == NewNotify(p)
    <3>1. held'[p] = held[p] /\ squeue'[p] = Append(squeue[p], n)
      BY <2>3 DEF Extended
    <3>2. n.num = told'[p]
      BY <2>3, ToldMoves
    <3> HIDE DEF n
    <3>3. /\ Len(squeue'[p]) = Len(squeue[p]) + 1
          /\ squeue'[p][Len(squeue[p]) + 1] = n
          /\ \A k \in 1 .. Len(squeue[p]) : squeue'[p][k] = squeue[p][k]
      BY <1>0, <3>1
    <3>4. \A k \in 1 .. Len(squeue'[p]) :
            \/ k \in 1 .. Len(squeue[p])
            \/ k = Len(squeue[p]) + 1
      BY <1>0, <3>3
    <3>5. \A k \in 1 .. Len(squeue'[p]) :
             /\ WA(squeue'[p][k].num)
             /\ held'[p].num <= squeue'[p][k].num /\ squeue'[p][k].num <= told'[p]
      BY <1>2, <1>3, <1>5, <1>6, <3>1, <3>2, <3>3, <3>4
    <3>6. \A i, k \in 1 .. Len(squeue'[p]) : i < k => squeue'[p][i].num <= squeue'[p][k].num
      <4> TAKE i, k \in 1 .. Len(squeue'[p])
      <4> HAVE i < k
      <4>1. i \in 1 .. Len(squeue[p])
        BY <1>0, <3>3
      <4> QED  BY <1>2, <1>6, <3>2, <3>3, <3>4, <4>1
    <3> QED  BY <1>5, <3>1, <3>5, <3>6
  <2>4. CASE Emptied(p)
    <3>1. squeue'[p] = <<>> /\ held'[p] = LateNotify(held[p])
      BY <2>4 DEF Emptied
    <3>2. held'[p].num = held[p].num /\ (held'[p] = NoNotify <=> held[p] = NoNotify)
      BY <1>0, <3>1, LateNotifies
    <3> QED  BY <1>5, <3>1, <3>2
  <2> QED  BY <2>1, <2>2, <2>3, <2>4, NotifySteps
<1> QED  BY <1>5, <1>7 DEF KeptInOrder, WA

LEMMA OrderStep ==
  ASSUME Ring, FreshOK, OrderOK, [Next]_vars, Ring'
  PROVE  OrderOK'
<1> DEFINE q == asic_queue  j == builder.job
<1>0. /\ TypeOK /\ q \in Seq(Job) /\ Len(q) \in Nat
      /\ j \in Job /\ builder.p \in Pools /\ 0 \in 0 .. NPools
      /\ \A i, k \in 1 .. Len(q) : i < k => Before(q[i], q[k])
      /\ \A i \in 1 .. Len(q) : Before(sending, q[i])
      /\ AheadUpTo(sending, q, j.pool, j.num)
  <2>1. TypeOK /\ q \in Seq(Job) /\ 0 \in 0 .. NPools
    BY Constants DEF Ring, TypeOK
  <2> QED  BY <2>1, Parts DEF OrderOK
\* What the builder adds is behind everything ahead of it.
<1>1. ASSUME Lengthened
      PROVE  /\ Len(q') = Len(q) + 1 /\ q'[Len(q) + 1] = j
             /\ \A i \in 1 .. Len(q) : q'[i] = q[i] /\ Before(q[i], j)
             /\ Before(sending, j)
  BY <1>0, <1>1 DEF Lengthened, AheadUpTo, UpTo, Before
<1>2. \A i, k \in 1 .. Len(q') : i < k => Before(q'[i], q'[k])
  <2>1. CASE Lengthened
    <3> TAKE i, k \in 1 .. Len(q')
    <3> HAVE i < k
    <3>1. i \in 1 .. Len(q) /\ (k \in 1 .. Len(q) \/ k = Len(q) + 1)
      BY <1>0, <1>1, <2>1
    <3> QED  BY <1>0, <1>1, <2>1, <3>1
  <2>2. CASE \E e : Thinned(q', q, e)
    BY <1>0, <2>2 DEF Thinned
  <2> QED  BY <2>1, <2>2, QueueSteps
<1>3. \A i \in 1 .. Len(q') : Before(sending', q'[i])
  <2>1. CASE Lengthened
    <3>1. \A i \in 1 .. Len(q') : i \in 1 .. Len(q) \/ i = Len(q) + 1
      BY <1>0, <1>1, <2>1
    <3>2. \A i \in 1 .. Len(q') : Before(sending, q'[i])
      BY <1>0, <1>1, <2>1, <3>1
    <3> QED  BY <2>1, <3>2, SentSteps DEF SentSame, Before
  <2>2. CASE SentTaken
    <3>1. /\ sending' = q[1] /\ 1 \in 1 .. Len(q)
          /\ \A i \in 1 .. Len(q') : i + 1 \in 1 .. Len(q) /\ q'[i] = q[i + 1]
      BY <1>0, <2>2, TailElements DEF SentTaken
    <3>2. \A i \in 1 .. Len(q') : 1 < i + 1
      OBVIOUS
    <3> QED  BY <1>0, <3>1, <3>2
  <2>3. CASE SentSame /\ \E e : Thinned(q', q, e)
    BY <1>0, <2>3 DEF Thinned, SentSame, Before
  <2>4. CASE sending' = NoJob
    <3>1. NoJob.pool \notin 0 .. NPools
      BY Constants DEF NoJob
    <3>2. \A i \in 1 .. Len(q') : q'[i].pool \in 0 .. NPools
      BY DEF Ring, OwnedOK, Owned
    <3> QED  BY <2>4, <3>1, <3>2 DEF Before
  <2> QED  BY <2>1, <2>2, <2>3, <2>4, QueueSteps, SentSteps
<1>4. WorkUpTo(sending', q', j', POOL_A, 0)
  <2>1. 0 \notin Pools
    BY DEF Pools
  <2> QED  BY <1>0, <2>1, WorkCarries DEF OrderOK, POOL_A
<1>5. AheadUpTo(sending', q', j'.pool, j'.num)
  <2>1. CASE j' = NoJob
    <3>1. NoJob.pool \notin 0 .. NPools /\ NoJob.num = 0
      BY Constants DEF NoJob
    <3>2. \A i \in 1 .. Len(q') : q'[i].pool \in 0 .. NPools
      BY DEF Ring, OwnedOK, Owned
    <3>3. sending'.pool = NoJob.pool => sending' = NoJob
      BY <3>1 DEF Ring, OwnedOK, Owned
    <3> QED  BY <2>1, <3>1, <3>2, <3>3 DEF AheadUpTo, UpTo
  <2>2. CASE j' = AJob
    <3>1. AJob.pool = POOL_A /\ AJob.num = 0
      BY DEF AJob, NoJob
    <3> QED  BY <1>4, <2>2, <3>1 DEF WorkUpTo
  <2>3. CASE Copied
    <3>1. /\ j'.pool = builder.p /\ j'.num = held[builder.p].num
          /\ held[builder.p] # NoNotify /\ builder.p \in 0 .. NPools
      BY <1>0, <2>3, Constants DEF Copied, JobOf, Pools
    <3>2. ~Lengthened
      <4>1. Len(Append(q, j)) = Len(q) + 1
        BY <1>0
      <4> QED  BY <1>0, <2>3, <4>1 DEF Copied, Lengthened
    <3>3. AheadUpTo(sending, q, builder.p, held[builder.p].num)
      BY <1>0, <3>1 DEF OrderOK, KeptInOrder, WorkUpTo
    <3>4. held[builder.p].num \in Nat
      BY <1>0, NumNumbers
    <3> QED  BY <3>1, <3>2, <3>3, <3>4, AheadCarries
  <2>4. CASE SameJob /\ j' # NoJob
    <3>1. ~Lengthened /\ AheadUpTo(sending, q, j'.pool, j'.num)
      BY <1>0, <2>4 DEF SameJob, Lengthened
    <3>2. j'.num \in Nat
      BY <1>0, <2>4, NumNumbers DEF SameJob
    <3>3. CASE j'.pool \in 0 .. NPools
      BY <3>1, <3>2, <3>3, AheadCarries
    <3>4. CASE j'.pool \notin 0 .. NPools
      <4>1. \A i \in 1 .. Len(q') : q'[i].pool \in 0 .. NPools
        BY DEF Ring, OwnedOK, Owned
      <4>2. sending'.pool = j'.pool => sending' = NoJob
        BY <3>4 DEF Ring, OwnedOK, Owned
      <4>3. NoJob.num = 0
        BY DEF NoJob
      <4> QED  BY <3>2, <3>4, <4>1, <4>2, <4>3 DEF AheadUpTo, UpTo
    <3> QED  BY <3>3, <3>4
  <2> QED  BY <2>1, <2>2, <2>3, <2>4, HandSteps
<1>6. \A p \in Pools : KeptInOrder(p)'
  BY KeptStep DEF Ring
<1> QED  BY <1>2, <1>3, <1>4, <1>5, <1>6 DEF OrderOK

LEMMA WorkInit == Init => FlagOK /\ FreshOK /\ OrderOK
<1> SUFFICES ASSUME Init PROVE FlagOK /\ FreshOK /\ OrderOK
  OBVIOUS
<1>1. 1 \in Pools /\ POOL_A = 0 /\ NoGen = 0
  BY Constants DEF Pools, POOL_A, NoGen
<1>2. /\ builder.at = "idle" /\ builder.job = NoJob /\ sending = NoJob /\ asic_queue = <<>>
      /\ \A s \in Slots : ~slot[s].valid
      /\ \A p \in Pools : /\ held[p] = NoNotify /\ squeue[p] = <<>>
                          /\ transport[p] = NoGen /\ gen[p] = 0 /\ told[p] = 0
  BY <1>1 DEF Init, BuilderAt
<1>3. FlagOK
  BY <1>2 DEF FlagOK
<1>4. /\ NoJob.pool = -1 /\ NoJob.gen = 0 /\ NoNotify.gen = 0 /\ -1 \notin Pools
      /\ NoJob.num = 0 /\ NoNotify.num = 0
  BY DEF NoJob, NoNotify, NoGen, Pools
<1>5. FreshOK
  BY <1>2, <1>4 DEF FreshOK, Fresh, FreshJob
<1>6. OrderOK
  BY <1>1, <1>2, <1>4 DEF OrderOK, UpTo, AheadUpTo, WorkUpTo, KeptInOrder
<1> QED  BY <1>3, <1>5, <1>6

-----------------------------------------------------------------------------
(* The theorems. *)

LEMMA Inductive == Spec => []IInv
<1>1. Init => IInv
  BY InitInv
<1>2. IInv /\ [Next]_vars => IInv'
  <2> SUFFICES ASSUME IInv, [Next]_vars PROVE IInv'
    OBVIOUS
  <2>1. Ring /\ EnOK /\ JobsOK /\ LockOK /\ RoomOK
    BY DEF IInv
  <2>2. Ring'
    BY <2>1, TypeStep, PcStep, SesStep, OwnedStep DEF Ring
  <2> QED
    BY <2>1, <2>2, EnStep, JobsStep, LockStep, RoomStep DEF IInv
<1> QED  BY <1>1, <1>2, PTL DEF Spec

\* Every variable keeps its type, with any number of pools, slots and generations:
\* in particular the pool task's index stays within the pools, the failover's counter
\* within its range, and no notify of no session is ever queued.
THEOREM SessionsTypeOK == Spec => []TypeOK
<1>1. IInv => TypeOK
  BY DEF IInv, Ring
<1> QED  BY <1>1, Inductive, PTL

\* The transport a share is being written to is not destroyed under the write
\* (pool_close takes transport_lock, stratum_poolb_task.c:128).
THEOREM SessionsHandleOutlivesWrite == Spec => []HandleOutlivesWrite
<1>1. IInv => HandleOutlivesWrite
  BY DEF IInv, LockOK
<1> QED  BY <1>1, Inductive, PTL

\* No job is built with the extranonce of an older session than its notify's, however
\* the builder's copies interleave with a close and the next session.
THEOREM SessionsExtranonceNotOlder == Spec => []ExtranonceNotOlderThanNotify
<1>1. IInv => ExtranonceNotOlderThanNotify
  BY DEF IInv, JobsOK, JobOK, ExtranonceNotOlderThanNotify, InHand, Queued, Loaded
<1> QED  BY <1>1, Inductive, PTL

\* Neither the builder nor the pool task ever waits for room in a queue.
THEOREM SessionsEnqueueNeverBlocks == Spec => []EnqueueNeverBlocks
<1>1. IInv => EnqueueNeverBlocks
  <2> SUFFICES ASSUME IInv PROVE EnqueueNeverBlocks
    OBVIOUS
  <2>1. RoomOK /\ asic_queue \in Seq(Job)
    BY DEF IInv, Ring, TypeOK
  <2>2. Len(asic_queue) \in Nat
    BY <2>1
  <2>3. builder.at = "put" => Len(asic_queue) < AsicQueueSize
    BY <2>1, <2>2, Constants DEF RoomOK
  <2> QED  BY <2>1, <2>3 DEF RoomOK, EnqueueNeverBlocks
<1> QED  BY <1>1, Inductive, PTL

\* A share written on the session of its job carries the worker that session
\* authorized (asic_result_task.c chooses the name before it takes the lock): the
\* record only steps while there is no session, and the next one is not the share's.
THEOREM SessionsShareWorker == Spec => []ShareUnderAuthorizedWorker
<1> DEFINE WInv == IInv /\ WorkerOK /\ JobsSesOK /\ ShareOK
<1>1. Init => WInv
  BY InitInv, WorkerInit
<1>2. IInv /\ IInv' /\ WInv /\ [Next]_vars => WInv'
  BY WorkerStep, JobsSesStep, WorkerShareStep DEF IInv
<1>3. WInv => ShareUnderAuthorizedWorker
  BY DEF IInv, LockOK, HandleOutlivesWrite, ShareOK, ShareUnderAuthorizedWorker
<1> HIDE DEF WInv
<1> QED  BY <1>1, <1>2, <1>3, Inductive, PTL DEF Spec

LEMMA WorkInductive == Spec => [](IInv /\ FlagOK /\ FreshOK /\ OrderOK)
<1> DEFINE WInv == FlagOK /\ FreshOK /\ OrderOK
<1>1. Init => WInv
  BY WorkInit
<1>2. IInv /\ IInv' /\ WInv /\ [Next]_vars => WInv'
  BY FlagStep, FreshStep, OrderStep DEF IInv
<1> HIDE DEF WInv
<1>3. Spec => []WInv
  BY <1>1, <1>2, Inductive, PTL DEF Spec
<1>4. WInv => FlagOK /\ FreshOK /\ OrderOK
  BY DEF WInv
<1> QED  BY <1>3, <1>4, Inductive, PTL

\* Work that outlives its abandon (pool_abandon_work, stratum_poolb_task.c:294-316) was
\* in the hands of the builder or the sender when it was: nothing queued or loaded is
\* missed, and every later copy is made of work not abandoned or of what was in hand.
THEOREM SessionsSurvivorsInHand == Spec => []SurvivorsWereInHand
<1>1. IInv /\ FlagOK /\ FreshOK /\ OrderOK => SurvivorsWereInHand
  <2> SUFFICES ASSUME Ring, FreshOK,
                      NEW j \in Queued \cup Loaded, j.pool \in Pools,
                      j.gen <= Abandoned(j.pool)
               PROVE  j.late
    BY DEF SurvivorsWereInHand, IInv
  <2>1. TypeOK /\ j \in Job
    <3>1. /\ asic_queue \in Seq(Job) /\ slot \in [Slots -> [valid : BOOLEAN, job : Job]]
          /\ TypeOK
      BY DEF Ring, TypeOK
    <3> QED  BY <3>1 DEF Queued, Loaded
  <2>2. j.gen \in Nat /\ gen[j.pool] \in Nat
    BY <2>1, Numbers, Constants DEF Job
  <2>3. FreshJob(j)
    BY DEF FreshOK, Queued, Loaded
  <2>4. j.late \/ Abandoned(j.pool) < j.gen
    BY <2>3 DEF FreshJob
  <2>5. Abandoned(j.pool) \in Int
    BY <2>2 DEF Abandoned
  <2> QED  BY <2>2, <2>4, <2>5
<1> QED  BY <1>1, WorkInductive, PTL

\* A pool's jobs reach the chip in the order in which the pool issued their notifies,
\* from the builder's hand through the queue to the sender's, whichever pool's jobs are
\* cleared from the queue meanwhile (ASIC_jobs_queue_clear_pool, work_queue.c). It holds
\* for every bound on the numbers, so of any two notifies.
THEOREM SessionsJobsInOrder == Spec => []PoolJobsInOrder
<1>1. IInv /\ FlagOK /\ FreshOK /\ OrderOK => PoolJobsInOrder
  <2> SUFFICES ASSUME Ring, OrderOK PROVE PoolJobsInOrder
    BY DEF IInv
  <2> DEFINE n == Len(asic_queue)
  <2>1. /\ asic_queue \in Seq(Job) /\ n \in Nat /\ sending \in Job /\ builder.job \in Job
    BY Parts DEF Ring, TypeOK
  <2>2. /\ Len(JobLine) = n + 2
        /\ JobLine[1] = sending /\ JobLine[n + 2] = builder.job
        /\ \A i \in 1 .. n : JobLine[i + 1] = asic_queue[i]
    BY <2>1 DEF JobLine
  <2>3. /\ \A i, k \in 1 .. n : i < k => Before(asic_queue[i], asic_queue[k])
        /\ \A i \in 1 .. n : Before(sending, asic_queue[i])
        /\ \A i \in 1 .. n : Before(asic_queue[i], builder.job)
        /\ Before(sending, builder.job)
    BY DEF OrderOK, AheadUpTo, UpTo, Before
  <2> SUFFICES ASSUME NEW i \in 1 .. n + 2, NEW k \in 1 .. n + 2, i < k
               PROVE  Before(JobLine[i], JobLine[k])
    BY <2>2 DEF PoolJobsInOrder, Before
  <2> HIDE DEF n
  <2>4. CASE i = 1 /\ k = n + 2
    BY <2>2, <2>3, <2>4
  <2>5. CASE i = 1 /\ k # n + 2
    <3>1. k - 1 \in 1 .. n /\ JobLine[(k - 1) + 1] = JobLine[k]
      BY <2>1, <2>5
    <3> QED  BY <2>2, <2>3, <2>5, <3>1
  <2>6. CASE i # 1 /\ k = n + 2
    <3>1. i - 1 \in 1 .. n /\ JobLine[(i - 1) + 1] = JobLine[i]
      BY <2>1, <2>6
    <3> QED  BY <2>2, <2>3, <2>6, <3>1
  <2>7. CASE i # 1 /\ k # n + 2
    <3>1. /\ i - 1 \in 1 .. n /\ JobLine[(i - 1) + 1] = JobLine[i]
          /\ k - 1 \in 1 .. n /\ JobLine[(k - 1) + 1] = JobLine[k]
          /\ i - 1 < k - 1
      BY <2>1, <2>7
    <3>2. /\ JobLine[i] = asic_queue[i - 1] /\ JobLine[k] = asic_queue[k - 1]
      BY <2>2, <3>1
    <3> QED  BY <2>3, <3>1, <3>2
  <2> QED  BY <2>4, <2>5, <2>6, <2>7
<1> QED  BY <1>1, WorkInductive, PTL

\* The pool task ends a session for a failed write only if that write was made on this
\* session, and for a drop only if it was asked of this one: pool_connect clears both
\* flags as it publishes the handle (stratum_poolb_task.c:247-250), under the lock that
\* the share write holds while it fails (asic_result_task.c).
THEOREM SessionsFlagEndsOwn == Spec => FlagEndsItsOwnSession
<1>1. IInv /\ FlagOK /\ FreshOK /\ OrderOK /\ [Next]_vars =>
        [\A p \in Pools : ServiceFlag /\ pc.p = p =>
            /\ write_failed[p] \in {NoGen, transport[p]}
            /\ drop_requested[p] \in {NoDrop, transport[p]}]_vars
  <2> SUFFICES ASSUME Ring, FlagOK, NEW p \in Pools, ServiceFlag, pc.p = p
               PROVE  /\ write_failed[p] \in {NoGen, transport[p]}
                      /\ drop_requested[p] \in {NoDrop, transport[p]}
    BY DEF IInv
  <2>1. pc.at = "service" /\ connected[p]
    BY DEF ServiceFlag, Reading
  <2>2. transport[p] # NoGen
    BY <2>1 DEF Ring, PcOK, NoGen
  <2> QED  BY <2>2 DEF FlagOK
<1> QED  BY <1>1, WorkInductive, PTL DEF Spec, FlagEndsItsOwnSession

LEMMA ClearSparesOthers ==
  ASSUME asic_queue \in Seq(Job), NEW p, NEW q, p # q,
         ClearPool(asic_queue, p, asic_queue')
  PROVE  KeepsJobsOf(q)
<1>1. PICK e : Picks(asic_queue, p, asic_queue', e)
  BY ClearPoolPicks
<1> DEFINE From == PlacesOf(q, asic_queue)
           To == PlacesOf(q, asic_queue')
           f == [k \in To |-> e[k]]
<1>2. \A k \in To : k \in 1 .. Len(asic_queue') /\ asic_queue'[k].pool = q
  BY DEF PlacesOf
<1>3. \A k \in To : e[k] \in From /\ asic_queue'[k] = asic_queue[e[k]]
  BY <1>1, <1>2 DEF Picks, PlacesOf
<1>4. \A i, k \in To : i < k => e[i] < e[k]
  BY <1>1, <1>2 DEF Picks
<1>5. ASSUME NEW i \in From
      PROVE  \E k \in To : e[k] = i
  <2>1. i \in 1 .. Len(asic_queue) /\ asic_queue[i].pool = q
    BY <1>5 DEF PlacesOf
  <2>2. PICK k \in 1 .. Len(asic_queue') : e[k] = i
    BY <1>1, <2>1 DEF Picks
  <2>3. asic_queue'[k].pool = q
    BY <1>1, <2>1, <2>2 DEF Picks
  <2> QED  BY <2>2, <2>3 DEF PlacesOf
<1> HIDE DEF From, To
<1>6. /\ f \in [To -> From] /\ DOMAIN f = To
      /\ \A i, k \in DOMAIN f : i < k => f[i] < f[k]
      /\ \A i \in From : \E k \in DOMAIN f : f[k] = i
      /\ \A k \in DOMAIN f : asic_queue'[k] = asic_queue[f[k]]
  BY <1>3, <1>4, <1>5
<1> QED  BY <1>6 DEF KeepsJobsOf, From, To

LEMMA UntouchedKeeps ==
  ASSUME UNCHANGED asic_queue, NEW q
  PROVE  KeepsJobsOf(q)
<1> DEFINE P == PlacesOf(q, asic_queue)
           f == [k \in P |-> k]
<1>1. P = PlacesOf(q, asic_queue')
  OBVIOUS
<1> HIDE DEF P
<1>2. /\ f \in [P -> P]
      /\ \A i, k \in DOMAIN f : i < k => f[i] < f[k]
      /\ \A i \in P : \E k \in DOMAIN f : f[k] = i
      /\ \A k \in DOMAIN f : asic_queue'[k] = asic_queue[f[k]]
  OBVIOUS
<1> QED  BY <1>1, <1>2 DEF KeepsJobsOf, P

\* Ending one pool's session, or a clean asked by one pool, leaves every other pool's
\* queued jobs where they were in the order and its loaded slots as they were
\* (pool_abandon_work, stratum_poolb_task.c:294-316; cleanQueue, stratum_task.c).
THEOREM SessionsCleanSparesOthers == Spec => CleanSparesOtherPools
<1> DEFINE Abandons(q) == (PoolTask /\ pc.p # q) \/ (PoolAClean /\ q # POOL_A)
           Spares(q) == /\ KeepsJobsOf(q)
                        /\ \A s \in Slots : slot[s].job.pool = q => slot'[s] = slot[s]
<1>1. ASSUME Ring, NEW q \in 0 .. NPools, Abandons(q)
      PROVE  Spares(q)
  <2> USE DEF chipVars
  <2>0. /\ asic_queue \in Seq(Job) /\ slot \in [Slots -> [valid : BOOLEAN, job : Job]]
    BY <1>1 DEF Ring, TypeOK
  <2>1. CASE UNCHANGED <<asic_queue, slot>>
    BY <2>1, UntouchedKeeps
  <2>2. CASE (Clean \/ CloseAbandon) /\ pc.p # q
    <3>1. /\ ClearPool(asic_queue, pc.p, asic_queue') /\ slot' = InvalidateSlots(pc.p)
      BY <2>2 DEF Clean, CloseAbandon, AbandonWork
    <3>2. KeepsJobsOf(q)
      BY <2>0, <2>2, <3>1, ClearSparesOthers
    <3> QED  BY <2>0, <2>2, <3>1, <3>2 DEF InvalidateSlots
  <2>3. CASE PoolAClean /\ q # POOL_A
    <3>1. /\ ClearPool(asic_queue, POOL_A, asic_queue')
          /\ slot' \in {slot, InvalidateSlots(POOL_A)}
      BY <2>3 DEF PoolAClean
    <3>2. KeepsJobsOf(q)
      BY <2>0, <2>3, <3>1, ClearSparesOthers
    <3> QED  BY <2>0, <2>3, <3>1, <3>2 DEF InvalidateSlots
  <2>4. CASE \/ Top \/ NetOff \/ Sweep \/ Dial \/ DialFails \/ Publish \/ ServiceSkip
             \/ ServiceFlag \/ ServiceRead \/ ServiceExtranonce \/ NotifyTest
             \/ NotifyRoom \/ NotifyEnqueue \/ Unpublish \/ CloseForget
    <3>1. UNCHANGED <<asic_queue, slot>>
      BY <2>4 DEF Top, NetOff, Sweep, Dial, DialFails, Publish, ServiceSkip, ServiceFlag,
         ServiceRead, ServiceExtranonce, NotifyTest, NotifyRoom, NotifyEnqueue,
         Unpublish, CloseForget
    <3> QED  BY <2>1, <3>1
  <2> QED  BY <1>1, <2>2, <2>3, <2>4 DEF PoolTask
<1>2. IInv /\ [Next]_vars => [\A q \in 0 .. NPools : Abandons(q) => Spares(q)]_vars
  BY <1>1 DEF IInv
<1> QED  BY <1>2, Inductive, PTL DEF Spec, CleanSparesOtherPools

=============================================================================
