---------------------------- MODULE PoolASession ----------------------------
(***************************************************************************)
(* Pool A's session, which is built differently from the other pools':     *)
(*                                                                         *)
(*   stratum_task        main/tasks/stratum_task.c: dials, reads and       *)
(*                       closes, and flips between primary and fallback    *)
(*   create_jobs_task    its half for pool A: the held notify, isconnected *)
(*                       and abandon_work                                  *)
(*   ASIC_result_task    its branch for pool A: writes on the transport    *)
(*                       and, when a write fails, closes it                *)
(*                                                                         *)
(* Nothing protects GLOBAL_STATE->transport: two tasks close it, one reads *)
(* it and one writes on it. A step is one access to what others can see,   *)
(* or one critical section of a queue's lock or of valid_jobs_lock. What   *)
(* using freed memory leads to is left open: the call fails, or the device *)
(* panics and starts again.                                                *)
(*                                                                         *)
(* Sessions are numbered in the order they are made, and a transport bears *)
(* the number of its session (a failed dial gives its number back, as the  *)
(* heap does). Work carries the generation of pool A's jobs, which goes up *)
(* with every session and every clean_jobs: the pool refuses earlier ones. *)
(* Other pools' jobs are left out of the queue and the slot, where pool    *)
(* A's cleaning passes over them; SecondaryPools models those.             *)
(***************************************************************************)
EXTENDS Naturals, Sequences

CONSTANTS
    QueueSize,          \* QUEUE_SIZE, of the notify queue and of the ASIC queue (12)
    LowWater,           \* QUEUE_LOW_WATER_MARK (10)
    MAX_RETRY_ATTEMPTS, \* failures before the other endpoint is dialled (3)
    HasFallback,        \* fallback_pool_url is set
    MaxSessions,        \* bound: sessions pool A grants
    MaxGen,             \* bound: generations of its work
    ReachableChoices    \* bound: which of its endpoints accept sessions

Endpoints == {0, 1}                 \* is_using_fallback: the primary, the fallback

ASSUME SizesAssumption ==
    /\ QueueSize \in Nat \ {0}
    /\ LowWater \in Nat
    /\ LowWater <= QueueSize
ASSUME RetryAssumption == MAX_RETRY_ATTEMPTS \in Nat \ {0} /\ HasFallback \in BOOLEAN
ASSUME BoundsAssumption ==
    MaxSessions \in Nat /\ MaxGen \in Nat /\ ReachableChoices \subseteq SUBSET Endpoints

Tasks     == {"stratum", "result"}
NoHandle  == 0
Handles   == 1 .. MaxSessions

\* A notify, or a job built from it: its generation, its session, and `late`,
\* a history flag: its work was cleaned while a task had it in hand, by a
\* clean_jobs that was skipped, or before it came out of the receive buffer.
None == [gen |-> 0, ses |-> NoHandle, late |-> FALSE]
Work == [gen : 0 .. MaxGen, ses : Handles \cup {NoHandle}, late : BOOLEAN]

VARIABLES
    pc,                 \* where stratum_task and the result task are
    ret,                \* where stratum_task goes on after a close or a clean
    transport,          \* GLOBAL_STATE->transport
    alive,              \* transports allocated and not yet destroyed
    rx,                 \* the handle stratum_task's read was called with
    isconnected,        \* STATUM_MODULE.isconnected
    retry_attempts,
    is_using_fallback,
    session,            \* history: the endpoint each session was made with
    abandon_work,
    stratum_queue,
    stale,              \* json_rpc_buffer: a notify left in it by the session before
    builder,            \* create_jobs_task: where it is, the job in its hands
    held,               \* its mining_notification
    asic_queue,
    sending,            \* the job ASIC_task has dequeued
    slot,               \* a slot of active_jobs; None when valid_jobs has 0 for it
    share,              \* what the result task is submitting
    gen,                \* history: generation of pool A's work
    cleaned,            \* history: the generation up to which it was cleaned
    reachable           \* environment: the endpoints that accept a session

linkVars  == <<transport, alive, rx, isconnected>>
dialVars  == <<retry_attempts, is_using_fallback, session>>
notifyVars == <<abandon_work, stratum_queue, stale>>
buildVars == <<builder, held>>
chipVars  == <<asic_queue, sending, slot>>
workVars  == <<notifyVars, buildVars, chipVars, gen, cleaned>>
vars == <<pc, ret, linkVars, dialVars, workVars, share, reachable>>

BuilderAt(at) == [at |-> at, job |-> None]
NoShare == [ses |-> NoHandle, user |-> 0, handle |-> NoHandle]
Opened == DOMAIN session            \* transports whose connect has returned

Init ==
    /\ pc = [t \in Tasks |-> IF t = "stratum" THEN "top" ELSE "idle"]
    /\ ret = "none"
    /\ transport = NoHandle
    /\ alive = {}
    /\ rx = NoHandle
    /\ isconnected = FALSE
    /\ retry_attempts = 0
    /\ is_using_fallback = 0
    /\ session = <<>>
    /\ abandon_work = FALSE
    /\ stratum_queue = <<>>
    /\ stale = None
    /\ builder = BuilderAt("wait")
    /\ held = None
    /\ asic_queue = <<>>
    /\ sending = None
    /\ slot = None
    /\ share = NoShare
    /\ gen = 0
    /\ cleaned = 0
    /\ reachable \in ReachableChoices

At(t, here) == pc[t] = here
Goto(t, there) == pc' = [pc EXCEPT ![t] = there]

-----------------------------------------------------------------------------
(* stratum_task: which endpoint, the dial, the handshake. *)

\* The head of the loop, once the network is up. After too many failures the
\* other endpoint is tried, if there is one.
NextEndpoint == is_using_fallback + 1                       \* mutant: never back
Flipped == IF HasFallback THEN 1 - is_using_fallback ELSE 0

Choose ==
    /\ At("stratum", "top")
    /\ Goto("stratum", "dial")
    /\ IF retry_attempts < MAX_RETRY_ATTEMPTS
       THEN UNCHANGED <<retry_attempts, is_using_fallback>>
       ELSE retry_attempts' = 0 /\ is_using_fallback' = Flipped
    /\ UNCHANGED <<ret, linkVars, session, workVars, share, reachable>>

NotCounted == retry_attempts                                \* mutant: not counted
Counted == IF retry_attempts < MAX_RETRY_ATTEMPTS THEN retry_attempts + 1
                                                  ELSE retry_attempts

ResolveFails ==
    /\ At("stratum", "dial")
    /\ is_using_fallback \notin reachable
    /\ retry_attempts' = Counted
    /\ Goto("stratum", "top")
    /\ UNCHANGED <<ret, linkVars, is_using_fallback, session, workVars, share, reachable>>

\* The transport is made, and is GLOBAL_STATE's from here on: the connect that
\* follows, of up to five seconds, goes on with every other task able to see it.
Dial ==
    /\ At("stratum", "dial")
    /\ Len(session) < MaxSessions
    /\ transport' = Len(session) + 1
    /\ alive' = alive \cup {transport'}
    /\ Goto("stratum", "connecting")
    /\ UNCHANGED <<ret, rx, isconnected, dialVars, workVars, share, reachable>>

ConnectFails ==
    /\ At("stratum", "connecting")
    /\ retry_attempts' = Counted
    /\ ret' = "top"
    /\ Goto("stratum", "destroy")
    /\ UNCHANGED <<linkVars, is_using_fallback, session, workVars, share, reachable>>

\* A new session: what is left of older work is cleaned.
Connected ==
    /\ At("stratum", "connecting")
    /\ transport \in alive
    /\ is_using_fallback \in reachable
    /\ gen < MaxGen
    /\ session' = Append(session, is_using_fallback)
    /\ gen' = gen + 1
    /\ ret' = "hello"
    /\ Goto("stratum", "clean_flag")
    /\ UNCHANGED <<linkVars, retry_attempts, is_using_fallback, notifyVars, buildVars,
                   chipVars, cleaned, share, reachable>>

\* configure, subscribe and authorize are sent, whatever their writes return.
Hello ==
    /\ At("stratum", "hello")
    /\ abandon_work' = FALSE
    /\ rx' = transport
    /\ Goto("stratum", "read")
    /\ UNCHANGED <<ret, transport, alive, isconnected, dialVars, stratum_queue, stale,
                   buildVars, chipVars, gen, cleaned, share, reachable>>

-----------------------------------------------------------------------------
(* stratum_task: reading the session. A line that comes makes it count as up. *)
(* Of what lines say only three kinds matter here: work, the answer to the    *)
(* setup, which clears the failures whatever it answers, and                  *)
(* client.reconnect. LineReceiver has how lines are cut out of the stream.    *)

StillDown == isconnected                                    \* mutant: not reported
UpNow == TRUE

LineComes ==
    /\ At("stratum", "read")
    /\ isconnected' = UpNow
    /\ UNCHANGED <<transport, alive, is_using_fallback, session, abandon_work,
                   stratum_queue, buildVars, chipVars, cleaned, share, reachable>>

LineOfSession == LineComes /\ stale = None /\ rx \in alive \cap Opened

ReadNotify ==
    /\ LineOfSession
    /\ \/ Goto("stratum", "notify") /\ UNCHANGED gen
       \/ gen < MaxGen /\ gen' = gen + 1 /\ Goto("stratum", "clean_test")
    /\ UNCHANGED <<ret, rx, retry_attempts, stale>>

ReadOther ==
    /\ LineOfSession
    /\ retry_attempts' \in {retry_attempts, 0}
    /\ rx' = transport
    /\ UNCHANGED <<pc, ret, gen, stale>>

\* What came with client.reconnect, and after it, stays in json_rpc_buffer.
ReadReconnect ==
    /\ LineOfSession
    /\ stale' \in {None, [gen |-> gen, ses |-> rx, late |-> TRUE]}
    /\ ret' = "down"
    /\ Goto("stratum", "close")
    /\ UNCHANGED <<rx, retry_attempts, gen>>

\* The next session is not read before that: it is taken for its first line.
ReadStale ==
    /\ LineComes /\ stale # None
    /\ Goto("stratum", "notify")
    /\ UNCHANGED <<ret, rx, retry_attempts, stale, gen>>

\* The peer is gone, or the handle is.
ReadFails ==
    /\ At("stratum", "read") /\ stale = None
    /\ retry_attempts' = Counted
    /\ ret' = "down"
    /\ Goto("stratum", "close")
    /\ UNCHANGED <<linkVars, is_using_fallback, session, workVars, share, reachable>>

\* History: what came before this generation is cleaned, and what the builder and
\* the sender have in hand at this moment escapes.
Late(j) == IF j = None THEN None ELSE [j EXCEPT !.late = TRUE]
MarkInHand ==
    /\ cleaned' = gen - 1
    /\ held' = Late(held)
    /\ builder' = [builder EXCEPT !.job = Late(@)]
    /\ sending' = Late(sending)

\* clean_jobs is only acted on when a queue has something in it (the ASIC queue
\* perhaps another pool's): otherwise the slot and what is in hand stay as they are.
CleanTest ==
    /\ At("stratum", "clean_test")
    /\ \/ /\ Goto("stratum", "clean_flag")
          /\ ret' = "notify"
          /\ UNCHANGED <<buildVars, chipVars, cleaned>>
       \/ /\ stratum_queue = <<>> /\ asic_queue = <<>>
          /\ Goto("stratum", "notify")
          /\ MarkInHand
          /\ slot' = Late(slot)
          /\ UNCHANGED <<ret, asic_queue>>
    /\ UNCHANGED <<linkVars, dialVars, notifyVars, gen, share, reachable>>

\* The oldest of a full queue goes, unless the builder has made room meanwhile.
RoomMade == IF Len(stratum_queue) = QueueSize THEN "room" ELSE "enqueue"

NotifyTest ==
    /\ At("stratum", "notify")
    /\ Goto("stratum", RoomMade)
    /\ UNCHANGED <<ret, linkVars, dialVars, workVars, share, reachable>>

NotifyRoom ==
    /\ At("stratum", "room")
    /\ stratum_queue' = IF stratum_queue = <<>> THEN <<>> ELSE Tail(stratum_queue)
    /\ Goto("stratum", "enqueue")
    /\ UNCHANGED <<ret, linkVars, dialVars, abandon_work, stale, buildVars, chipVars, gen,
                   cleaned, share, reachable>>

NotifyEnqueue ==
    /\ At("stratum", "enqueue")
    /\ Len(stratum_queue) < QueueSize
    /\ stratum_queue' = Append(stratum_queue,
           IF stale = None THEN [gen |-> gen, ses |-> rx, late |-> FALSE] ELSE stale)
    /\ stale' = None
    /\ rx' = transport
    /\ Goto("stratum", "read")
    /\ UNCHANGED <<ret, transport, alive, isconnected, dialVars, abandon_work, buildVars,
                   chipVars, gen, cleaned, share, reachable>>

\* The session's loop is left; only now is it reported as down.
Down ==
    /\ At("stratum", "down")
    /\ isconnected' = FALSE
    /\ rx' = NoHandle
    /\ Goto("stratum", "top")
    /\ UNCHANGED <<ret, transport, alive, dialVars, workVars, share, reachable>>

-----------------------------------------------------------------------------
(* stratum_close_connection and cleanQueue, which either task t may be in. *)

After(t) == IF t = "stratum" THEN ret ELSE "idle"
Return(t) == /\ Goto(t, After(t))
             /\ ret' = IF t = "stratum" THEN "none" ELSE ret
Step(t, there) == Goto(t, there) /\ UNCHANGED ret

CloseTest(t) ==
    /\ At(t, "close")
    /\ IF transport = NoHandle THEN Return(t) ELSE Step(t, "destroy")
    /\ UNCHANGED <<linkVars, dialVars, workVars, share, reachable>>

Destroy(t) ==
    /\ At(t, "destroy")
    /\ alive' = alive \ {transport}
    /\ Step(t, "null")
    /\ UNCHANGED <<transport, rx, isconnected, dialVars, workVars, share, reachable>>

\* After a failed connect there is nothing to clean.
Null(t) ==
    /\ At(t, "null")
    /\ transport' = NoHandle
    /\ IF After(t) = "top" THEN Return(t) ELSE Step(t, "clean_flag")
    /\ UNCHANGED <<alive, rx, isconnected, dialVars, workVars, share, reachable>>

CleanFlag(t) ==
    /\ At(t, "clean_flag")
    /\ abandon_work' = TRUE
    /\ Step(t, "clean_queue")
    /\ UNCHANGED <<linkVars, dialVars, stratum_queue, stale, buildVars, chipVars, gen,
                   cleaned, share, reachable>>

CleanQueue(t) ==
    /\ At(t, "clean_queue")
    /\ stratum_queue' = <<>>
    /\ Step(t, "clean_work")
    /\ UNCHANGED <<linkVars, dialVars, abandon_work, stale, buildVars, chipVars, gen,
                   cleaned, share, reachable>>

\* ASIC_jobs_queue_clear_pool(POOL_A), and pool A's slots.
SlotKept == slot                                            \* mutant: queue only
SlotCleaned == None

CleanWork(t) ==
    /\ At(t, "clean_work")
    /\ asic_queue' = <<>>
    /\ slot' = SlotCleaned
    /\ Return(t)
    /\ IF t = "stratum" /\ ret # "down"
       THEN MarkInHand
       ELSE UNCHANGED <<buildVars, sending, cleaned>>
    /\ UNCHANGED <<linkVars, dialVars, notifyVars, gen, share, reachable>>

Closing(t) == \/ CloseTest(t) \/ Destroy(t) \/ Null(t)
              \/ CleanFlag(t) \/ CleanQueue(t) \/ CleanWork(t)

Stratum ==
    \/ Choose \/ ResolveFails \/ Dial \/ ConnectFails \/ Connected \/ Hello
    \/ ReadNotify \/ ReadOther \/ ReadReconnect \/ ReadStale \/ ReadFails
    \/ CleanTest \/ NotifyTest \/ NotifyRoom \/ NotifyEnqueue \/ Down
    \/ Closing("stratum")

-----------------------------------------------------------------------------
(* create_jobs_task, pool A's half, and ASIC_task. *)

\* The newest notify, or none within the time it waits for one.
BuildWait ==
    /\ builder.at = "wait"
    /\ builder' = BuilderAt("check")
    /\ IF stratum_queue = <<>>
       THEN UNCHANGED <<stratum_queue, held>>
       ELSE held' = Head(stratum_queue) /\ stratum_queue' = Tail(stratum_queue)
    /\ UNCHANGED <<pc, ret, linkVars, dialVars, abandon_work, stale, chipVars, gen, cleaned,
                   share, reachable>>

\* The notify of a session that is over is let go.
HeldKept == held                                            \* mutant: not let go
HeldIfUp == IF isconnected THEN held ELSE None

BuildCheck ==
    /\ builder.at = "check"
    /\ builder' = BuilderAt("build")
    /\ held' = HeldIfUp
    /\ UNCHANGED <<pc, ret, linkVars, dialVars, notifyVars, chipVars, gen, cleaned, share,
                   reachable>>

\* Pool A's slice of the inner loop.
BuildJob ==
    /\ builder.at = "build"
    /\ stratum_queue = <<>> /\ ~abandon_work
    /\ Len(asic_queue) < LowWater
    /\ held # None
    /\ builder' = [at |-> "put", job |-> held]
    /\ UNCHANGED <<pc, ret, linkVars, dialVars, notifyVars, held, chipVars, gen, cleaned,
                   share, reachable>>

BuildPut ==
    /\ builder.at = "put"
    /\ Len(asic_queue) < QueueSize
    /\ asic_queue' = Append(asic_queue, builder.job)
    /\ builder' = BuilderAt("build")
    /\ UNCHANGED <<pc, ret, linkVars, dialVars, notifyVars, held, sending, slot, gen,
                   cleaned, share, reachable>>

\* The inner loop ends: a notify has come, work is abandoned, or a second is over.
BuildLeave ==
    /\ builder.at = "build"
    /\ abandon_work' = FALSE
    /\ builder' = BuilderAt(IF abandon_work THEN "purge" ELSE "wait")
    /\ UNCHANGED <<pc, ret, linkVars, dialVars, stratum_queue, stale, held, chipVars, gen,
                   cleaned, share, reachable>>

BuildPurge ==
    /\ builder.at = "purge"
    /\ asic_queue' = <<>>
    /\ builder' = BuilderAt("wait")
    /\ UNCHANGED <<pc, ret, linkVars, dialVars, notifyVars, held, sending, slot, gen,
                   cleaned, share, reachable>>

Builder == \/ BuildWait \/ BuildCheck \/ BuildJob \/ BuildPut
           \/ BuildLeave \/ BuildPurge

SendTake ==
    /\ sending = None
    /\ asic_queue # <<>>
    /\ sending' = Head(asic_queue)
    /\ asic_queue' = Tail(asic_queue)
    /\ UNCHANGED <<pc, ret, linkVars, dialVars, notifyVars, buildVars, slot, gen, cleaned,
                   share, reachable>>

SendPlace ==
    /\ sending # None
    /\ slot' = sending
    /\ sending' = None
    /\ UNCHANGED <<pc, ret, linkVars, dialVars, notifyVars, buildVars, asic_queue, gen,
                   cleaned, share, reachable>>

Sender == SendTake \/ SendPlace

-----------------------------------------------------------------------------
(* ASIC_result_task, for a share of pool A. *)

ResultTake ==
    /\ At("result", "idle")
    /\ slot # None
    /\ share' = [NoShare EXCEPT !.ses = slot.ses]
    /\ Goto("result", "user")
    /\ UNCHANGED <<ret, linkVars, dialVars, workVars, reachable>>

UserOfPrimary == 0                                          \* mutant: always primary
UserNow == is_using_fallback

ResultUser ==
    /\ At("result", "user")
    /\ share' = [share EXCEPT !.user = UserNow]
    /\ Goto("result", "test")
    /\ UNCHANGED <<ret, linkVars, dialVars, workVars, reachable>>

\* The transport is looked at twice: for the test, and to be written on.
ResultTest ==
    /\ At("result", "test")
    /\ IF transport = NoHandle
       THEN Goto("result", "idle") /\ share' = NoShare
       ELSE Goto("result", "submit") /\ UNCHANGED share
    /\ UNCHANGED <<ret, linkVars, dialVars, workVars, reachable>>

ResultSubmit ==
    /\ At("result", "submit")
    /\ share' = [share EXCEPT !.handle = transport]
    /\ Goto("result", "write")
    /\ UNCHANGED <<ret, linkVars, dialVars, workVars, reachable>>

\* A write that fails closes what GLOBAL_STATE->transport is by then.
ResultWritten ==
    /\ At("result", "write")
    /\ share' = NoShare
    /\ \/ share.handle \in alive \cap Opened /\ Goto("result", "idle")
       \/ Goto("result", "close")
    /\ UNCHANGED <<ret, linkVars, dialVars, workVars, reachable>>

Result == \/ ResultTake \/ ResultUser \/ ResultTest \/ ResultSubmit \/ ResultWritten
          \/ Closing("result")

-----------------------------------------------------------------------------
(* Undefined behaviour. *)

\* A task uses, or destroys once more, a transport that has been destroyed, or
\* destroys none at all.
Freed(h) == h # NoHandle /\ h \notin alive
UsesFreed ==
    \/ At("stratum", "connecting") /\ transport \notin alive
    \/ At("stratum", "hello") /\ Freed(transport)
    \/ At("stratum", "read") /\ Freed(rx)
    \/ At("result", "write") /\ Freed(share.handle)
    \/ \E t \in Tasks : At(t, "destroy") /\ transport \notin alive

Panic ==
    /\ UsesFreed
    /\ pc' = [t \in Tasks |-> IF t = "stratum" THEN "top" ELSE "idle"]
    /\ ret' = "none"
    /\ transport' = NoHandle /\ alive' = {} /\ rx' = NoHandle
    /\ isconnected' = FALSE
    /\ retry_attempts' = 0 /\ is_using_fallback' = 0 /\ session' = <<>>
    /\ abandon_work' = FALSE /\ stratum_queue' = <<>> /\ stale' = None
    /\ builder' = BuilderAt("wait") /\ held' = None
    /\ asic_queue' = <<>> /\ sending' = None /\ slot' = None
    /\ share' = NoShare
    /\ gen' = 0 /\ cleaned' = 0
    /\ UNCHANGED reachable

Next == Stratum \/ Builder \/ Sender \/ Result \/ Panic

Spec == Init /\ [][Next]_vars

\* The tasks run, whatever they wait for ends but the peer's silence: a read ends
\* when there is nothing to read from. An endpoint that accepts sessions grants one
\* when it is dialled often enough. Lines, shares and the peer's leaving are not
\* promised.
CannotRead == At("stratum", "read") /\ stale = None => rx \notin alive \cap Opened
Fairness ==
    /\ WF_vars(CannotRead /\ Stratum)
    /\ SF_vars(Connected)
    /\ WF_vars(Builder)
    /\ SF_vars(BuildLeave)
    /\ WF_vars(Sender)
    /\ WF_vars(~At("result", "idle") /\ Result)

FairSpec == Spec /\ Fairness

-----------------------------------------------------------------------------
(* Properties. *)

Closes == {"close", "destroy", "null", "clean_flag", "clean_queue", "clean_work"}
StratumPlaces == Closes \cup {"top", "dial", "connecting", "hello", "read", "clean_test",
                              "notify", "room", "enqueue", "down"}
ResultPlaces == Closes \cup {"idle", "user", "test", "submit", "write"}

\* Every variable stays in the set its declaration gives it.
TypeOK ==
    /\ pc \in [Tasks -> StratumPlaces \cup ResultPlaces]
    /\ pc["stratum"] \in StratumPlaces
    /\ pc["result"] \in ResultPlaces
    /\ ret \in {"none", "top", "hello", "notify", "down"}
    /\ transport \in Handles \cup {NoHandle}
    /\ alive \in SUBSET Handles
    /\ rx \in Handles \cup {NoHandle}
    /\ isconnected \in BOOLEAN
    /\ retry_attempts \in 0 .. MAX_RETRY_ATTEMPTS
    /\ is_using_fallback \in Endpoints
    /\ session \in Seq(Endpoints)
    /\ Len(session) <= MaxSessions
    /\ abandon_work \in BOOLEAN
    /\ stratum_queue \in Seq(Work)
    /\ stale \in Work
    /\ builder \in [at : {"wait", "check", "build", "put", "purge"}, job : Work]
    /\ held \in Work
    /\ asic_queue \in Seq(Work)
    /\ sending \in Work
    /\ slot \in Work
    /\ share \in [ses : Handles \cup {NoHandle}, user : Endpoints,
                  handle : Handles \cup {NoHandle}]
    /\ gen \in 0 .. MaxGen
    /\ cleaned \in 0 .. MaxGen
    /\ reachable \in ReachableChoices

\* stratum_task is in the loop that reads session s.
InLoop(s) ==
    /\ rx = s
    /\ \/ pc["stratum"] \in {"read", "clean_test", "notify", "room", "enqueue"}
       \/ pc["stratum"] \in {"clean_flag", "clean_queue", "clean_work"} /\ ret = "notify"

Restarts == session' = <<>>          \* of a step in which session # <<>>

\* "a fresh dequeue above can never be discarded by this" (create_jobs_task.c:184):
\* the builder lets a notify go only when the loop that read its session is over,
\* although isconnected is read under no lock and two tasks close sessions.
LiveNotifyNotDiscarded ==
    [][held # None /\ held' = None => ~InLoop(held.ses) \/ Restarts]_vars

\* The jobs of pool A that are queued or loaded and that it has cleaned, by
\* clean_jobs or by a new session, were in a task's hands at that moment, not yet
\* read, or left by a clean_jobs that found both queues empty: the flag, the queue,
\* the ASIC queue and the slots are cleaned one after the other, by two tasks.
Queued == {asic_queue[i] : i \in 1 .. Len(asic_queue)}
CleanedWorkWasInHand ==
    \A j \in Queued \cup {slot} : j # None /\ j.gen <= cleaned => j.late

\* A share written on the session of its job carries the worker of the endpoint
\* that session is with, although the name is chosen before the transport is read
\* and the endpoint is changed without a lock.
ShareUnderAuthorizedWorker ==
    At("result", "write") /\ share.ses = share.handle
        => share.user = session[share.handle]

\* A notify held while pool A is down is let go, unless pool A is back first.
HeldWorkLetGo == (~isconnected /\ held # None) ~> (isconnected \/ held = None)

\* The one endpoint that answers gets a session: a primary that does not is given
\* up for the fallback, and the other way round.
ReachableEndpointServes ==
    \A e \in Endpoints :
        reachable = {e} /\ (e = 1 => HasFallback) /\ MaxSessions > 0 /\ MaxGen > 0
            => <>(session # <<>>)
=============================================================================
