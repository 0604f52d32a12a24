--------------------------- MODULE SecondaryPools ---------------------------
(***************************************************************************)
(* The sessions of the pools that are not pool A and the pipeline their    *)
(* work goes through, over the four tasks that share it:                   *)
(*                                                                         *)
(*   pool task      main/tasks/stratum_poolb_task.c: dials, reads and      *)
(*                  closes every secondary session, one after the other    *)
(*   job builder    main/tasks/create_jobs_task.c: holds each pool's last  *)
(*                  notify, builds one job per pass for the chosen pool    *)
(*   job sender     main/tasks/asic_task.c + BM1370_send_work: takes the   *)
(*                  oldest job off the ASIC queue and puts it in a slot    *)
(*   result task    main/tasks/asic_result_task.c: writes a share found    *)
(*                  against a slot to the socket of the slot's pool        *)
(*                                                                         *)
(* A step is what happens between two points where another task can see    *)
(* the shared state: a critical section of transport_lock, extranonce_lock,*)
(* valid_jobs_lock or a queue's lock, or one unlocked flag access. A write *)
(* to a socket and a connect are two steps each, since both block.         *)
(*                                                                         *)
(* A job's content is abstracted to the notify it was built from and the   *)
(* extranonce it carries. A notify has the generation of its pool's work,  *)
(* which goes up when a session starts and when the pool asks for a clean, *)
(* so that work of a lower generation is work the pool will refuse, and a  *)
(* number in the order the pool issued it, so that two notifies of one     *)
(* generation are told apart.                                              *)
(***************************************************************************)
EXTENDS FailoverRule, Sequences, FiniteSets

CONSTANTS
    NPools,         \* secondary pools configured and allowed: pool_id 1 .. NPools
    SessQueueSize,  \* QUEUE_SIZE of a session's notify queue (12)
    AsicQueueSize,  \* QUEUE_SIZE of the ASIC job queue (12)
    LowWater,       \* QUEUE_LOW_WATER_MARK (10)
    NSlots,         \* job slots the chip cycles through (16 of the 128)
    MaxGen,         \* bound: generations per pool
    MaxNotifies,    \* bound: notifies per pool told apart; later ones share a number
    Events          \* what the environment of an instance does

ASSUME PoolsAssumption == NPools \in Nat \ {0}
ASSUME SizesAssumption ==
    /\ SessQueueSize \in Nat \ {0}
    /\ AsicQueueSize \in Nat \ {0}
    /\ NSlots \in Nat \ {0}
    /\ LowWater \in Nat
    /\ LowWater < AsicQueueSize
ASSUME GenAssumption == MaxGen \in Nat \ {0}
ASSUME NotifiesAssumption == MaxNotifies \in Nat
ASSUME EventsAssumption == Events \subseteq {"network", "drop", "poolA", "nonce"}

POOL_A == 0
Pools  == 1 .. NPools
Slots  == 0 .. (NSlots - 1)
Gens   == 1 .. MaxGen
NoGen  == 0          \* no transport, no extranonce, nothing yet

NoDrop == -1         \* drop_requested = false

\* A notify as the pipeline sees it: its generation, its number, the session that
\* sent it, and `late`, a history flag: its work was abandoned while it was held.
Notify   == [gen : Gens, num : 0 .. MaxNotifies, ses : Gens, late : BOOLEAN]
NoNotify == [gen |-> NoGen, num |-> 0, ses |-> NoGen, late |-> FALSE]

\* A bm_job: the pool that owns it, its notify, the session of its extranonce.
\* Pool A's sessions are not told apart here: its jobs are all AJob.
Job   == [pool : -1 .. NPools, gen : 0 .. MaxGen, num : 0 .. MaxNotifies,
          ses : 0 .. MaxGen, en : 0 .. MaxGen, late : BOOLEAN]
NoJob == [pool |-> -1, gen |-> NoGen, num |-> 0, ses |-> NoGen, en |-> NoGen,
          late |-> FALSE]
AJob  == [NoJob EXCEPT !.pool = POOL_A]
JobOf(p, n, en) ==
    [pool |-> p, gen |-> n.gen, num |-> n.num, ses |-> n.ses, en |-> en,
     late |-> n.late]

VARIABLES
    pc,                 \* the pool task: where it is, in which pool
    transport,          \* pool_session[].transport: the session it belongs to
    connected,          \* pool[].connected
    squeue,             \* pool_session[].queue
    extranonce,         \* pool_session[].extranonce_str: the session it came from
    write_failed,       \* pool_session[].write_failed: the session it was of
    drop_requested,     \* pool_session[].drop_requested: the session it was asked of
    is_using_failover,  \* pool[].is_using_failover
    fo,                 \* s_state[].fo
    builder,            \* the job builder's position and what it has in hand
    held,               \* secondary_notify[]
    a_has_work,         \* mining_notification # NULL: pool A's side
    asic_queue,         \* ASIC_jobs_queue of the one chain
    sending,            \* the job ASIC_task has dequeued but not yet placed
    slot,               \* active_jobs, valid_jobs and job_pool of each slot
    next_slot,          \* the static id of BM1370_send_work
    result,             \* the share asic_result_task is submitting
    transport_lock,     \* held by the result task across a write
    gen,                \* history: the generation of each pool's work
    told                \* history: notifies each pool has issued, up to the bound

sessVars  == <<transport, connected, squeue, extranonce, is_using_failover, fo>>
flagVars  == <<write_failed, drop_requested>>
buildVars == <<builder, held, a_has_work>>
chipVars  == <<asic_queue, sending, slot, next_slot>>
resVars   == <<result, transport_lock>>
histVars == <<gen, told>>
vars == <<pc, sessVars, flagVars, buildVars, chipVars, histVars, resVars>>

\* `dialled`: this sweep has dialled a pool. `off`: closing because the network
\* went, so the close neither steps the failover nor goes back to the reads.
Goto(at, p)      == [at |-> at, p |-> p, dialled |-> FALSE, off |-> FALSE]
BuilderAt(at, p) == [at |-> at, p |-> p, job |-> NoJob]
NoShare          == [at |-> "idle", p |-> 1, ses |-> NoGen, user |-> 0]

Init ==
    /\ pc = Goto("top", 1)
    /\ transport = [p \in Pools |-> NoGen]
    /\ connected = [p \in Pools |-> FALSE]
    /\ squeue = [p \in Pools |-> <<>>]
    /\ extranonce = [p \in Pools |-> NoGen]
    /\ write_failed = [p \in Pools |-> NoGen]
    /\ drop_requested = [p \in Pools |-> NoDrop]
    /\ is_using_failover = [p \in Pools |-> FALSE]
    /\ fo \in [Pools -> {FoInit(has) : has \in FailoverChoices}]
    /\ builder = BuilderAt("idle", 1)
    /\ held = [p \in Pools |-> NoNotify]
    /\ a_has_work = FALSE
    /\ asic_queue = <<>>
    /\ sending = NoJob
    /\ slot = [s \in Slots |-> [valid |-> FALSE, job |-> NoJob]]
    /\ next_slot = 0
    /\ result = NoShare
    /\ transport_lock = [p \in Pools |-> FALSE]
    /\ gen = [p \in Pools |-> NoGen]
    /\ told = [p \in Pools |-> 0]

-----------------------------------------------------------------------------
(* The pool task: stratum_poolb_task and the functions it calls. *)

\* transport_lock of pool p can be taken; the result task keeps it across a write,
\* everybody else for one step.
LockIgnored(p) == TRUE                                      \* mutant: not taken
LockFree(p) == ~transport_lock[p]

\* The index after pool p in a loop over the secondaries, or on to `after`.
NextPoolUnbounded(at, p, after) == Goto(at, p + 1)          \* mutant: no bound
NextPool(at, p, after) == IF p < NPools THEN Goto(at, p + 1) ELSE Goto(after, 1)

\* The loop's gate. dual_enable is settled at boot and ASIC_initalized never goes
\* back to false, so the network is what the task can see come and go.
Top ==
    /\ pc.at = "top"
    /\ \/ pc' = Goto("sweep", 1)
       \/ "network" \in Events /\ pc' = Goto("netoff", 1)
    /\ UNCHANGED <<sessVars, flagVars, buildVars, chipVars, histVars, resVars>>

\* Network gone: every connected session is closed, and nothing is stepped.
NetOff ==
    /\ pc.at = "netoff"
    /\ pc' = IF connected[pc.p] THEN [Goto("unpublish", pc.p) EXCEPT !.off = TRUE]
                                ELSE NextPool("netoff", pc.p, "top")
    /\ UNCHANGED <<sessVars, flagVars, buildVars, chipVars, histVars, resVars>>

\* One pool of the sweep: connected, already dialled for this sweep, or not due
\* yet (next_attempt_us) goes to the next pool; else it is dialled.
Sweep ==
    /\ pc.at = "sweep"
    /\ \/ pc' = [NextPool("sweep", pc.p, "service") EXCEPT !.dialled =
                      IF pc.p < NPools THEN pc.dialled ELSE FALSE]
       \/ /\ ~connected[pc.p]
          /\ ~pc.dialled
          /\ pc' = Goto("dial", pc.p)
    /\ UNCHANGED <<sessVars, flagVars, buildVars, chipVars, histVars, resVars>>

\* After pool p's one dial of the sweep.
Dialled(p) == [NextPool("sweep", p, "service") EXCEPT !.dialled = (p < NPools)]

\* pool_connect up to the connect: choose the endpoint, and publish the choice.
Dial ==
    LET p == pc.p  e == FoEndpoint(fo[p]) IN
    /\ pc.at = "dial"
    /\ \/ /\ e < 0
          /\ fo' = [fo EXCEPT ![p] = FoDisconnected(@)]
          /\ pc' = Dialled(p)
          /\ UNCHANGED is_using_failover
       \/ /\ e >= 0
          /\ is_using_failover' = [is_using_failover EXCEPT ![p] = (e = 1)]
          /\ pc' = Goto("dialing", p)
          /\ UNCHANGED fo
    /\ UNCHANGED <<transport, connected, squeue, extranonce,
                   flagVars, buildVars, chipVars, histVars, resVars>>

\* The transport could not be made or the connect failed.
DialFails ==
    /\ pc.at = "dialing"
    /\ fo' = [fo EXCEPT ![pc.p] = FoDisconnected(@)]
    /\ pc' = Dialled(pc.p)
    /\ UNCHANGED <<transport, connected, squeue, extranonce, is_using_failover,
                   flagVars, buildVars, chipVars, histVars, resVars>>

\* The connect succeeded: flags cleared and handle published in one critical
\* section, so what befell the last session cannot end this one.
FlagsLeft(p) == UNCHANGED flagVars                          \* mutant: not cleared
ClearFlags(p) ==
    /\ write_failed' = [write_failed EXCEPT ![p] = NoGen]
    /\ drop_requested' = [drop_requested EXCEPT ![p] = NoDrop]

Publish ==
    LET p == pc.p IN
    /\ pc.at = "dialing"
    /\ gen[p] < MaxGen
    /\ LockFree(p)
    /\ ClearFlags(p)
    /\ gen' = [gen EXCEPT ![p] = @ + 1]
    /\ transport' = [transport EXCEPT ![p] = gen[p] + 1]
    /\ connected' = [connected EXCEPT ![p] = TRUE]
    /\ fo' = [fo EXCEPT ![p] = FoConnected(@)]
    /\ pc' = Dialled(p)
    /\ UNCHANGED <<squeue, extranonce, is_using_failover, buildVars, chipVars, told, resVars>>

-----------------------------------------------------------------------------
(* Reading one session: pool_service and pool_handle. *)

Reading(p) == pc.at = "service" /\ pc.p = p /\ connected[p]
FlagSetNoDrop(p) == write_failed[p] # NoGen                 \* mutant: drop not looked at
FlagSet(p) == write_failed[p] # NoGen \/ drop_requested[p] # NoDrop

ServiceSkip ==
    /\ pc.at = "service"
    /\ ~connected[pc.p]
    /\ pc' = NextPool("service", pc.p, "top")
    /\ UNCHANGED <<sessVars, flagVars, buildVars, chipVars, histVars, resVars>>

\* A failed share write or a drop asked over the API ends the session.
ServiceFlag ==
    LET p == pc.p IN
    /\ Reading(p)
    /\ FlagSet(p)
    /\ ClearFlags(p)
    /\ pc' = Goto("unpublish", p)
    /\ UNCHANGED <<sessVars, buildVars, chipVars, histVars, resVars>>

\* Nothing arrived, or a message that changes no modelled state; or the
\* connection is lost, or client.reconnect asks for it to be.
ServiceRead ==
    LET p == pc.p IN
    /\ Reading(p)
    /\ ~FlagSet(p)
    /\ \/ pc' = NextPool("service", p, "top")
       \/ pc' = Goto("unpublish", p)
       \/ pc' = Goto("notify", p)
       \/ gen[p] < MaxGen /\ pc' = Goto("clean", p)
    /\ UNCHANGED <<sessVars, flagVars, buildVars, chipVars, histVars, resVars>>

\* The subscribe result or mining.set_extranonce.
ServiceExtranonce ==
    LET p == pc.p IN
    /\ Reading(p)
    /\ ~FlagSet(p)
    /\ extranonce' = [extranonce EXCEPT ![p] = transport[p]]
    /\ pc' = NextPool("service", p, "top")
    /\ UNCHANGED <<transport, connected, squeue, is_using_failover, fo,
                   flagVars, buildVars, chipVars, histVars, resVars>>

\* The mutant waits for something to throw away, as a blocking dequeue would.
RoomWhenThere(q) == q # <<>>
RoomAnyway(q) == TRUE

\* mining.notify. The count is looked at outside the queue's lock; of a full queue
\* the oldest goes, polled for since the builder may have emptied it meanwhile.
NotifyTest ==
    /\ pc.at = "notify"
    /\ pc' = [pc EXCEPT !.at = IF Len(squeue[pc.p]) = SessQueueSize THEN "room" ELSE "enqueue"]
    /\ UNCHANGED <<sessVars, flagVars, buildVars, chipVars, histVars, resVars>>

NotifyRoom ==
    LET q == squeue[pc.p] IN
    /\ pc.at = "room"
    /\ RoomAnyway(q)
    /\ squeue' = [squeue EXCEPT ![pc.p] = IF q = <<>> THEN q ELSE Tail(q)]
    /\ pc' = [pc EXCEPT !.at = "enqueue"]
    /\ UNCHANGED <<transport, connected, extranonce, is_using_failover, fo,
                   flagVars, buildVars, chipVars, histVars, resVars>>

\* The notify that came: the next in number, of this session and generation.
Issued(p) == IF told[p] < MaxNotifies THEN told[p] + 1 ELSE told[p]
NewNotify(p) ==
    [gen |-> gen[p], num |-> Issued(p), ses |-> transport[p], late |-> FALSE]

NotifyEnqueue ==
    LET p == pc.p IN
    /\ pc.at = "enqueue"
    /\ Len(squeue[p]) < SessQueueSize
    /\ squeue' = [squeue EXCEPT ![p] = Append(@, NewNotify(p))]
    /\ told' = [told EXCEPT ![p] = Issued(p)]
    /\ pc' = NextPool("service", p, "top")
    /\ UNCHANGED <<transport, connected, extranonce, is_using_failover, fo,
                   flagVars, buildVars, chipVars, gen, resVars>>

-----------------------------------------------------------------------------
(* Abandoning one pool's work, and closing its session. *)

\* ASIC_jobs_queue_clear_pool: r is q without the jobs of pool p, in order. The
\* positions kept are named by an increasing function onto them.
NoOthers(q, p) == {}                                        \* mutant: the plain clear
Others(q, p) == {i \in 1 .. Len(q) : q[i].pool # p}
Decreasing(e) == \A i, j \in DOMAIN e : i < j => e[i] > e[j]     \* mutant: put back
Increasing(e) == \A i, j \in DOMAIN e : i < j => e[i] < e[j]
ClearPool(q, p, r) ==
    \E e \in [1 .. Cardinality(Others(q, p)) -> Others(q, p)] :
        /\ Increasing(e)
        /\ r = [k \in DOMAIN e |-> q[e[k]]]

InvalidateNoSlots(p) == slot                                \* mutant: queue only
InvalidateSlots(p) ==
    [s \in Slots |-> IF slot[s].job.pool = p THEN [slot[s] EXCEPT !.valid = FALSE]
                                             ELSE slot[s]]

\* History: what is in somebody's hands when pool p's work is abandoned.
Mark(j, p) == IF j.pool = p THEN [j EXCEPT !.late = TRUE] ELSE j
MarkHeld(p) ==
    /\ held' = IF held[p] = NoNotify THEN held ELSE [held EXCEPT ![p].late = TRUE]
    /\ builder' = [builder EXCEPT !.job = Mark(@, p)]
    /\ sending' = Mark(sending, p)

\* pool_abandon_work: the queue of notifies, then queue and slots under
\* valid_jobs_lock. Slots are written under that lock too, so one step.
AbandonWork(p) ==
    /\ squeue' = [squeue EXCEPT ![p] = <<>>]
    /\ ClearPool(asic_queue, p, asic_queue')
    /\ slot' = InvalidateSlots(p)
    /\ MarkHeld(p)

\* clean_jobs: the work goes, and what follows is a new generation.
Clean ==
    LET p == pc.p IN
    /\ pc.at = "clean"
    /\ AbandonWork(p)
    /\ gen' = [gen EXCEPT ![p] = @ + 1]
    /\ pc' = Goto("notify", p)
    /\ UNCHANGED <<transport, connected, extranonce, is_using_failover, fo,
                   flagVars, a_has_work, next_slot, told, resVars>>

\* pool_close, first: the handle goes, under the lock the share write holds.
Unpublish ==
    LET p == pc.p IN
    /\ pc.at = "unpublish"
    /\ LockFree(p)
    /\ transport' = [transport EXCEPT ![p] = NoGen]
    /\ pc' = [pc EXCEPT !.at = "abandon"]
    /\ UNCHANGED <<connected, squeue, extranonce, is_using_failover, fo,
                   flagVars, buildVars, chipVars, histVars, resVars>>

\* then: the session's work, wherever it is queued or loaded.
CloseAbandon ==
    LET p == pc.p IN
    /\ pc.at = "abandon"
    /\ connected' = [connected EXCEPT ![p] = FALSE]
    /\ AbandonWork(p)
    /\ pc' = [pc EXCEPT !.at = "forget"]
    /\ UNCHANGED <<transport, extranonce, is_using_failover, fo,
                   flagVars, a_has_work, next_slot, histVars, resVars>>

\* then: the extranonce. A close after a failure also steps the failover.
ExtranonceKept(p) == extranonce                             \* mutant: not forgotten
ExtranonceForgotten(p) == [extranonce EXCEPT ![p] = NoGen]

CloseForget ==
    LET p == pc.p IN
    /\ pc.at = "forget"
    /\ extranonce' = ExtranonceForgotten(p)
    /\ fo' = IF pc.off THEN fo ELSE [fo EXCEPT ![p] = FoDisconnected(@)]
    /\ pc' = IF pc.off THEN NextPool("netoff", p, "top")
                       ELSE NextPool("service", p, "top")
    /\ UNCHANGED <<transport, connected, squeue, is_using_failover,
                   flagVars, buildVars, chipVars, histVars, resVars>>

PoolTask ==
    \/ Top \/ NetOff \/ Sweep \/ Dial \/ DialFails \/ Publish
    \/ ServiceSkip \/ ServiceFlag \/ ServiceRead \/ ServiceExtranonce
    \/ NotifyTest \/ NotifyRoom \/ NotifyEnqueue \/ Clean \/ Unpublish \/ CloseAbandon \/ CloseForget

-----------------------------------------------------------------------------
(* The job builder: the inner loop of create_jobs_task and generate_work. *)

MoreWorkWhenFull == Len(asic_queue) <= AsicQueueSize        \* mutant: no low water
should_generate_more_work == Len(asic_queue) < LowWater

\* The refresh of the held notifies comes first.
BuildStart ==
    /\ builder.at = "idle"
    /\ should_generate_more_work
    /\ builder' = BuilderAt("check", 1)
    /\ UNCHANGED <<pc, sessVars, flagVars, held, a_has_work,
                   chipVars, histVars, resVars>>

\* A session that is gone takes its held notify with it.
HeldKept(p) == held[p]                                      \* mutant: kept
HeldIfUp(p) == IF transport[p] = NoGen THEN NoNotify ELSE held[p]

BuildCheck ==
    LET p == builder.p IN
    /\ builder.at = "check"
    /\ LockFree(p)
    /\ builder' = BuilderAt("drain", p)
    /\ held' = [held EXCEPT ![p] = HeldIfUp(p)]
    /\ UNCHANGED <<pc, sessVars, flagVars, a_has_work, chipVars, histVars, resVars>>

\* Take the newest notify: dequeue without waiting, until there is none.
BuildDrain ==
    LET p == builder.p IN
    /\ builder.at = "drain"
    /\ squeue[p] # <<>>
    /\ held' = [held EXCEPT ![p] = Head(squeue[p])]
    /\ squeue' = [squeue EXCEPT ![p] = Tail(@)]
    /\ UNCHANGED <<pc, transport, connected, extranonce, is_using_failover, fo,
                   flagVars, builder, a_has_work, chipVars, histVars, resVars>>

\* The poll of an empty queue returns at once: a first notify is not waited for.
Drained(p) == squeue[p] = <<>>

BuildDrained ==
    LET p == builder.p IN
    /\ builder.at = "drain"
    /\ Drained(p)
    /\ builder' = IF p < NPools THEN BuilderAt("check", p + 1) ELSE BuilderAt("select", 1)
    /\ UNCHANGED <<pc, sessVars, flagVars, held, a_has_work, chipVars, histVars, resVars>>

\* Pool A's slice, or one that fell through to it: skipped while pool A has
\* nothing to build from.
PoolASlice ==
    IF a_has_work THEN [BuilderAt("put", 1) EXCEPT !.job = AJob] ELSE BuilderAt("idle", 1)

\* The scheduler may choose any pool (PoolScheduler says which). One with
\* nothing held falls through to pool A at once.
BuildSelect ==
    /\ builder.at = "select"
    /\ \E chosen \in 0 .. NPools :
          builder' = IF chosen # POOL_A /\ held[chosen] # NoNotify
                     THEN BuilderAt("recheck", chosen) ELSE PoolASlice
    /\ UNCHANGED <<pc, sessVars, flagVars, held, a_has_work,
                   chipVars, histVars, resVars>>

\* The chosen pool has to be connected now, or its slice falls through too.
BuildRecheck ==
    LET p == builder.p IN
    /\ builder.at = "recheck"
    /\ LockFree(p)
    /\ builder' = IF transport[p] # NoGen THEN BuilderAt("copy", p)
                                         ELSE PoolASlice
    /\ UNCHANGED <<pc, sessVars, flagVars, held, a_has_work,
                   chipVars, histVars, resVars>>

\* generate_work for a secondary: nothing is built without an extranonce.
BuildCopy ==
    LET p == builder.p IN
    /\ builder.at = "copy"
    /\ builder' = IF extranonce[p] = NoGen THEN BuilderAt("idle", 1)
                  ELSE [BuilderAt("put", p) EXCEPT !.job = JobOf(p, held[p], extranonce[p])]
    /\ UNCHANGED <<pc, sessVars, flagVars, held, a_has_work,
                   chipVars, histVars, resVars>>

\* queue_enqueue waits for room. The early returns of generate_work (no memory, or
\* pool A's parameters locked for too long) leave the slice without a job.
BuildPut ==
    /\ builder.at = "put"
    /\ Len(asic_queue) < AsicQueueSize
    /\ asic_queue' \in {asic_queue, Append(asic_queue, builder.job)}
    /\ builder' = BuilderAt("idle", 1)
    /\ UNCHANGED <<pc, sessVars, flagVars, held, a_has_work,
                   sending, slot, next_slot, histVars, resVars>>

Builder ==
    \/ BuildStart \/ BuildCheck \/ BuildDrain \/ BuildDrained
    \/ BuildSelect \/ BuildRecheck \/ BuildCopy \/ BuildPut

-----------------------------------------------------------------------------
(* The job sender and the result task. *)

SendTake ==
    /\ sending = NoJob
    /\ asic_queue # <<>>
    /\ sending' = Head(asic_queue)
    /\ asic_queue' = Tail(asic_queue)
    /\ UNCHANGED <<pc, sessVars, flagVars, buildVars, slot, next_slot,
                   histVars, resVars>>

\* BM1370_send_work: job, valid and owner of the next slot in one section.
SendPlace ==
    /\ sending # NoJob
    /\ slot' = [slot EXCEPT ![next_slot] = [valid |-> TRUE, job |-> sending]]
    /\ next_slot' = (next_slot + 1) % NSlots
    /\ sending' = NoJob
    /\ UNCHANGED <<pc, sessVars, flagVars, buildVars, asic_queue, histVars, resVars>>

Sender == SendTake \/ SendPlace

\* A nonce for a valid slot of a secondary pool: the job is copied out.
ResultTake ==
    /\ "nonce" \in Events
    /\ result.at = "idle"
    /\ \E s \in Slots :
          /\ slot[s].valid
          /\ slot[s].job.pool # POOL_A
          /\ result' = [NoShare EXCEPT !.at = "user", !.p = slot[s].job.pool,
                                       !.ses = slot[s].job.ses]
    /\ UNCHANGED <<pc, sessVars, flagVars, buildVars, chipVars, histVars,
                   transport_lock>>

\* The worker name follows is_using_failover, read outside the lock.
PrimaryUser(p) == 0                                         \* mutant: always primary
PoolUser(p) == IF is_using_failover[p] THEN 1 ELSE 0

ResultUser ==
    /\ result.at = "user"
    /\ result' = [result EXCEPT !.at = "lock",
                                !.user = PoolUser(result.p)]
    /\ UNCHANGED <<pc, sessVars, flagVars, buildVars, chipVars, histVars,
                   transport_lock>>

\* With the lock held: write to the published handle, or drop the share.
ResultLock ==
    LET p == result.p IN
    /\ result.at = "lock"
    /\ LockFree(p)
    /\ IF transport[p] # NoGen
       THEN /\ transport_lock' = [transport_lock EXCEPT ![p] = TRUE]
            /\ result' = [result EXCEPT !.at = "write"]
       ELSE /\ result' = NoShare
            /\ UNCHANGED transport_lock
    /\ UNCHANGED <<pc, sessVars, flagVars, buildVars, chipVars, histVars>>

\* The write returns; a failed one asks the pool task to end the session.
ResultWritten ==
    LET p == result.p IN
    /\ result.at = "write"
    /\ transport_lock' = [transport_lock EXCEPT ![p] = FALSE]
    /\ result' = NoShare
    /\ \/ UNCHANGED flagVars
       \/ /\ write_failed' = [write_failed EXCEPT ![p] = transport[p]]
          /\ UNCHANGED drop_requested
    /\ UNCHANGED <<pc, sessVars, buildVars, chipVars, histVars>>

Result == ResultTake \/ ResultUser \/ ResultLock \/ ResultWritten

-----------------------------------------------------------------------------
(* Everything else: the HTTP handler and pool A. *)

\* POST /api/system/pool/drop sets the flag whether or not there is a session; of
\* which one it was asked is history.
PostPoolDrop ==
    /\ "drop" \in Events
    /\ \E p \in Pools : drop_requested' = [drop_requested EXCEPT ![p] = transport[p]]
    /\ UNCHANGED <<pc, sessVars, write_failed, buildVars,
                   chipVars, histVars, resVars>>

\* Between two passes the builder takes pool A's notify, or lets it go.
PoolAWork ==
    /\ "poolA" \in Events
    /\ builder.at = "idle"
    /\ a_has_work' = ~a_has_work
    /\ UNCHANGED <<pc, sessVars, flagVars, builder, held,
                   chipVars, histVars, resVars>>

\* cleanQueue: pool A's queued jobs and slots go, every other pool's stay. The
\* builder repeats the queue's half when it sees abandon_work.
PoolAClean ==
    /\ "poolA" \in Events
    /\ ClearPool(asic_queue, POOL_A, asic_queue')
    /\ slot' \in {slot, InvalidateSlots(POOL_A)}
    /\ UNCHANGED <<pc, sessVars, flagVars, buildVars, sending, next_slot,
                   histVars, resVars>>

Environment == PostPoolDrop \/ PoolAWork \/ PoolAClean

Next == PoolTask \/ Builder \/ Sender \/ Result \/ Environment

Spec == Init /\ [][Next]_vars

\* The tasks keep running and a socket write returns. transport_lock is handed to
\* a task that waits for it, so a wait for it ends (strong fairness). The drain
\* outruns the network: it finds the queue empty sooner or later. The network, the
\* API and what a pool sends are never promised.
Fairness ==
    /\ WF_vars(PoolTask) /\ SF_vars(Unpublish)
    /\ WF_vars(Builder) /\ SF_vars(BuildCheck) /\ SF_vars(BuildRecheck)
    /\ SF_vars(BuildDrained)
    /\ WF_vars(Sender)
    /\ WF_vars(ResultWritten)

FairSpec == Spec /\ Fairness

-----------------------------------------------------------------------------
(* Properties. *)

\* Every variable stays in the set its declaration gives it.
PcType == [at : {"top", "netoff", "sweep", "dial", "dialing", "service", "clean", "notify",
                 "room", "enqueue", "unpublish", "abandon", "forget"},
           p : Pools, dialled : BOOLEAN, off : BOOLEAN]
BuilderType == [at : {"idle", "check", "drain", "select", "recheck", "copy", "put"},
                p : Pools, job : Job]
ShareType == [at : {"idle", "user", "lock", "write"}, p : Pools,
              ses : 0 .. MaxGen, user : 0 .. 1]

TypeOK ==
    /\ pc \in PcType
    /\ transport \in [Pools -> 0 .. MaxGen]
    /\ connected \in [Pools -> BOOLEAN]
    /\ squeue \in [Pools -> Seq(Notify)]
    /\ extranonce \in [Pools -> 0 .. MaxGen]
    /\ write_failed \in [Pools -> 0 .. MaxGen]
    /\ drop_requested \in [Pools -> NoDrop .. MaxGen]
    /\ is_using_failover \in [Pools -> BOOLEAN]
    /\ fo \in [Pools -> Failover]
    /\ builder \in BuilderType
    /\ held \in [Pools -> Notify \cup {NoNotify}]
    /\ a_has_work \in BOOLEAN
    /\ asic_queue \in Seq(Job)
    /\ sending \in Job
    /\ slot \in [Slots -> [valid : BOOLEAN, job : Job]]
    /\ next_slot \in Slots
    /\ result \in ShareType
    /\ transport_lock \in [Pools -> BOOLEAN]
    /\ gen \in [Pools -> 0 .. MaxGen]
    /\ told \in [Pools -> 0 .. MaxNotifies]

\* The jobs there are: under construction, queued, being sent, or in a slot.
Queued == {asic_queue[i] : i \in 1 .. Len(asic_queue)}
Loaded == {slot[s].job : s \in {t \in Slots : slot[t].valid}}
InHand == {builder.job, sending}

\* No job is built on the extranonce of a session before the one its notify came
\* from: pool_close forgets the extranonce (stratum_poolb_task.c:153-165) before
\* the next session can hand out a notify, whatever the builder is doing.
ExtranonceNotOlderThanNotify ==
    \A j \in InHand \cup Queued \cup Loaded : j.en >= j.ses

\* While a share is being written the handle it is written to is the published
\* one: the pool task never destroys a transport under the result task.
HandleOutlivesWrite ==
    result.at = "write" => /\ transport_lock[result.p]
                           /\ transport[result.p] # NoGen

\* A share of the session it is written on goes under the worker name that
\* session authorized with, although the name is chosen before the lock is taken.
ShareUnderAuthorizedWorker ==
    LET p == result.p IN
    result.at = "write" /\ result.ses = transport[p]
        => result.user = FoEndpoint(fo[p])

\* The generation up to which pool p's work has been abandoned: all of it once
\* its session is closed, else what came before the last clean.
Abandoned(p) == IF connected[p] THEN gen[p] - 1 ELSE gen[p]

\* What survives of abandoned work was in a task's hands when it was abandoned:
\* the builder's held notify or half-built job, or the sender's job. Nothing
\* queued or loaded is missed, however the queue and the slots move meanwhile.
SurvivorsWereInHand ==
    \A j \in Queued \cup Loaded :
        j.pool \in Pools /\ j.gen <= Abandoned(j.pool) => j.late

\* Jobs of one pool reach the chip in the order the pool issued their notifies, all
\* the way from the builder's hand to the sender's: an abandon takes jobs out of the
\* queue without reordering the ones it leaves, and no notify overtakes another.
JobLine == <<sending>> \o asic_queue \o <<builder.job>>
PoolJobsInOrder ==
    \A i, k \in 1 .. Len(JobLine) :
        i < k /\ JobLine[i].pool = JobLine[k].pool => JobLine[i].num <= JobLine[k].num

\* Neither the builder, which serves every pool, nor the pool task, which reads
\* every session, ever waits for room in a queue: each is the only one to fill it
\* and looked before it got there, whoever clears the queue meanwhile.
EnqueueNeverBlocks ==
    /\ builder.at = "put" => Len(asic_queue) < AsicQueueSize
    /\ pc.at = "enqueue" => Len(squeue[pc.p]) < SessQueueSize

\* What the queue has of pool p's jobs after a step is what it had before, in the
\* same order: an increasing function finds each in the place it had.
PlacesOf(p, queue) == {i \in 1 .. Len(queue) : queue[i].pool = p}
KeepsJobsOf(p) ==
    \E f \in [PlacesOf(p, asic_queue') -> PlacesOf(p, asic_queue)] :
        /\ \A i, k \in DOMAIN f : i < k => f[i] < f[k]
        /\ \A i \in PlacesOf(p, asic_queue) : \E k \in DOMAIN f : f[k] = i
        /\ \A k \in DOMAIN f : asic_queue'[k] = asic_queue[f[k]]

\* An abandon touches only its own pool's work: no step of pool p's session takes
\* a job of another pool off the queue or invalidates another pool's slot.
CleanSparesOtherPools ==
    [][\A q \in 0 .. NPools :
          (PoolTask /\ pc.p # q) \/ (PoolAClean /\ q # POOL_A) =>
             /\ KeepsJobsOf(q)
             /\ \A s \in Slots : slot[s].job.pool = q => slot'[s] = slot[s]]_vars

\* A session is only ended for a write that failed on it or a drop asked of it: a
\* failure or a drop recorded against the one before never takes down the next.
FlagEndsItsOwnSession ==
    [][\A p \in Pools : ServiceFlag /\ pc.p = p =>
          /\ write_failed[p] \in {NoGen, transport[p]}
          /\ drop_requested[p] \in {NoDrop, transport[p]}]_vars

\* A drop asked for, or a failed write, on a live session ends that session.
FlaggedSessionEnds ==
    \A p \in Pools :
        ((write_failed[p] # NoGen \/ drop_requested[p] # NoDrop) /\ connected[p]) ~> ~connected[p]

\* A notify is not held on to once its session is gone: the builder lets it go,
\* or the pool is back.
HeldNotifyLetGo ==
    \A p \in Pools : (transport[p] = NoGen /\ held[p] # NoNotify)
                        ~> (transport[p] # NoGen \/ held[p] = NoNotify)

\* Neither of the two tasks that every pool depends on is ever parked: the
\* builder keeps coming round to choose a pool, whatever pools are down, silent or
\* being torn down, and the pool task keeps sweeping, whatever the builder drains
\* from under it or the result task holds.
TasksKeepGoing == []<>(builder.at = "select") /\ []<>(pc.at = "top")

\* No share is written on a session other than the one its job came from:
\* "Everything that belonged to the session that just ended goes with it"
\* (stratum_poolb_task.c:142).
DeadWorkNotSubmitted ==
    result.at = "write" => result.ses = transport[result.p]
=============================================================================
