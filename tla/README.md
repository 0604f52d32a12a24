# StayOpen Miner Firmware: a TLA+ model of the miner's control

The firmware of a Bitcoin miner that works for up to four pools at once. This
directory holds TLA+ modules of the parts of it where tasks share state, where
failures are counted and retried, or where a long run of events decides: the
sessions of the pools, the scheduler that divides the chip's time between them,
the queues and the job slots the work goes through, the receivers of the pools'
lines, the checks that turn the miner off before it burns, the fan and the API's
sessions. TLC checks small instances of every module; TLAPS proves the most
important properties for all instances. Paths are relative to the repository root,
e.g. `main/tasks/create_jobs_task.c`.

    FailoverRule         pool_failover.c as a function     (used by three modules)
      PoolFailover       one pool's record and its two endpoints
      DialSweep          who is dialled when, with the time it takes
      SecondaryPools     sessions, builder, sender and result task composed
    PoolASession         pool A's task, with the builder, sender and result task
    PoolScheduler        the division of the slices and its settings
    WorkQueue            the ring buffer with its lock and conditions
      FifoQueue          what it promises: a queue in first-in first-out order
    SlotTable            the chip's job slots as memory: who frees, who reads
    LineReceiver         the two receivers that cut lines out of a socket's stream
    HealthMaintenance    the checks that end mining
    FanControl           the automatic fan
    ApiSessions          the session table of the HTTP API
    MCParts              instances of the machines that share nothing, for TLC
    PoolFailover_proofs, PoolScheduler_proofs, SecondaryPools_proofs,
    PoolASession_proofs, DialSweep_proofs
                         the theorems of the module they are named after
    JobPath_proofs       those of WorkQueue and SlotTable
    Cooling_proofs       those of HealthMaintenance and FanControl
    Parts_proofs         those of ApiSessions, LineReceiver and MCParts

## 1. The system

### Components, their state and operations

| component | source | state | operations |
|---|---|---|---|
| pool scheduler | `components/dual_pool/pool_scheduler.c` | weight, total, accumulator per pool, current pool, slice start | `init_n`, `select`, `advance_slice` |
| weights | `create_jobs_task.c` `build_pool_weights` | settings: ratio, weights, slice length | derived on every pass; a change restarts the scheduler |
| failover record | `components/dual_pool/pool_failover.c` | state of five, retry counter | `init`, `endpoint`, `step` |
| secondary pool task | `main/tasks/stratum_poolb_task.c` | per pool: transport, connected, notify queue, extranonce, flags, failover, next attempt | sweep: dial at most one; read every connected one; close |
| pool A's session | `main/tasks/stratum_task.c` | transport, `isconnected`, failures in a row, endpoint, `abandon_work` | choose endpoint, dial, handshake, read, clean, close |
| line receivers | `stratum_recv_ctx.c`, `stratum_api.c` | accumulator of a session; one static buffer | poll; read until a line, cut it out |
| job builder | `main/tasks/create_jobs_task.c` | held notify per pool | refresh held notifies, select, re-check, build, enqueue |
| work queues | `main/work_queue.c` | ring buffer, lock, two conditions | enqueue, dequeue (with or without timeout), clear, clear one pool's |
| job sender | `main/tasks/asic_task.c`, `bm1370.c` `send_work` | dequeued job, slot arrays, next slot | dequeue, swap into a slot, free what was there |
| result task | `main/tasks/asic_result_task.c` | share in hand | match a nonce, copy slot out under its lock, choose worker, write |
| health task | `main/tasks/health_maintennance.c`, `device.c` | three counters of failures, tachometer state | a pass: read, test four faults, drive the fan; trip and restart |
| fan controller | `components/bc_hal/pwm_fan.c` | duty, warm-up flags, learned limits, counters | one call per pass |
| API sessions | `main/http_server/api_auth.c` | table of tokens, failures, lockout | require, login, revoke |
| HTTP API | `main/http_server/http_server.c` | the settings, `drop_requested` | save settings, drop a pool, everything else |
| the rest | boards, display, statistics, network, OTA | | not part of the control |

### How they interact

A pool's task reads a socket, its receiver cuts lines out of it, and a notify goes
into the session's queue. The builder drains that queue into the pool's held
notify, asks the scheduler for a pool, checks again that the pool is up, builds a
job from the held notify and the session's extranonce, and puts it on the one ASIC
queue. The sender takes it off and swaps it into a slot of the chip. The result
task finds a share's job in its slot, and writes it on the transport of the slot's
pool. Pool A's half of this is older and different: its transport is under no lock,
the result task closes it when a write fails, and a flag, `abandon_work`, tells the
builder that work is void.

The tasks, the HTTP handlers and the network therefore meet in: `transport` (under
`transport_lock` for the secondaries, under nothing for pool A), `extranonce_str`
(under `extranonce_lock`), `connected`, `isconnected`, `is_using_failover` and
several flags (under nothing), the queues (each with its lock), and the slots
(under `valid_jobs_lock`, except where `BM1370_process_work` and
`_check_for_best_diff` read them). When a session ends or its pool asks for a
clean, its work has to leave all of those places while the other tasks go on moving
it. The health task shares with the rest only the settings and the power it cuts.

### What is hard

* A task holds state across a point where another one changes it: a notify held
  past the end of its session, a job between queue and slot, a worker name chosen
  before the lock, a pointer read from a slot that is given up meanwhile.
* Two tasks close pool A's transport and a third party, the read, is in it.
* One task serves every secondary and one serves every pool: whatever blocks
  either stops all of them. A dial blocks for up to five seconds.
* A dead peer is silent. Only a failed write tells, and the flag it raises may
  outlive the session.
* Retry counters, delays and the timeout of a dial interact over many sweeps.
* A weighted round-robin in integer arithmetic must neither drift, overflow nor
  starve anybody, for settings that change while it runs.
* The protections must fire for every mixture of failing sensors and for nothing
  less: counters in a row, each cleared by one good read.
* A stream is cut up by the network as it likes, and one of the two buffers it is
  put together in outlives the session.

`PROJECT.json` lists each hazard at its line with the properties aimed at it.

### What makes each component correct

* Scheduler: shares within a fixed distance of the weights, bounded accumulators,
  no slice without a weight, no starvation.
* Failover: a session is on the endpoint the record names; no early giving up, no
  dead end, a way back to the primary.
* Sessions: no handle freed under a write, no dead extranonce with a live notify,
  no share under a stranger's worker, a flag ends its own session and only that.
* Pool A: cleaned work comes back only from a task's hands; a notify is let go when
  its session is over and not before; the endpoint that answers is found.
* Pipeline: an abandon reaches everything of its pool and nothing of another's;
  nobody waits for room or for a silent pool; a job is freed once.
* Dialling: one pool's silence costs a connected pool at most one timeout; a live
  pool gets its dial.
* Queue: first in first out whatever is cleared, no lost wake-up.
* Lines: handed out whole, in order, once, and to the session they came in.
* Health: danger ends mining within the passes the limits allow, and nothing else
  does, or a tachometer that is misread for long. Fan: full when the board is hot.
* API: a client that is active stays signed in.

## 2. The modules and the code

### `PoolScheduler` — `pool_scheduler.c`, `build_pool_weights`

`weight`, `total`, `acc`, `current` are the fields of `pool_scheduler_t`; `sched`
is what the builder remembers of the settings (`sched_ready`, `sched_weights`,
`sched_interval`). Time counts in whole slices: `due` is how many have passed since
`slice_start_us`. `Select` is one iteration of the catch-up loop, `Reinit` the
`init_n` and the first slice, which the code assigns at once; `SaveSettings` is the
HTTP handler and `Tick` the clock. `slices`, `picks` and `waited` are history.

### `FailoverRule`, `PoolFailover` — `pool_failover.c`

`FoInit`, `FoEndpoint`, `FoConnected` and `FoDisconnected` are the functions of the
file on a record with its three fields. `PoolFailover` drives one record as the
pool task does, against two endpoints that come and go at will. Its history is what
the dials came to: `misses` counts those that failed on the primary in a row,
`passedBy` those in a row that got the pool no session while an endpoint of its would
have accepted one. When the dials come is not told here, nor that they do: that is
the task's matter, in `DialSweep`. The same rule, not a copy of it, is in
`SecondaryPools` and `DialSweep`.

### `SecondaryPools` — four tasks and what they share

One disjunct of `Next` per task. A step runs from one point where another task can
see the shared state to the next:

| actions | code |
|---|---|
| `NetOff`, `Top`, `Sweep`, `Dial`, `DialFails`, `Publish` | `stratum_poolb_task`, `pool_connect`: gate, sweep, the connect (two steps), publication under the lock |
| `ServiceSkip`, `ServiceFlag`, `ServiceRead`, `ServiceExtranonce` | `pool_service`, `pool_handle`: flags, then one message or the end of the peer |
| `Clean`, `NotifyTest`, `NotifyRoom`, `NotifyEnqueue` | `pool_handle` on `mining.notify`: abandon if asked, test for room, drop the oldest, enqueue |
| `Unpublish`, `CloseAbandon`, `CloseForget` | `pool_close`: handle destroyed under the lock; flag and work; extranonce, record, delay |
| `BuildStart`, `BuildCheck`, `BuildDrain`, `BuildDrained` | `create_jobs_task`: the refresh of each held notify |
| `PoolASlice`, `BuildSelect`, `BuildRecheck`, `BuildCopy`, `BuildPut` | choice of a pool, re-check under the lock, `generate_work` |
| `SendTake`, `SendPlace` | `ASIC_task`, `BM1370_send_work` |
| `ResultTake`, `ResultUser`, `ResultLock`, `ResultWritten` | `ASIC_result_task`: slot copied out, worker chosen, lock and write begun, write over |
| `PostPoolDrop`, `PoolAWork`, `PoolAClean` | the drop endpoint; pool A's side as an environment |

Transports, extranonces and flags are named by the session they belong to, so that
a mix-up of sessions shows, and a drop by the session it was asked of. `gen` and `told`
are history: a pool's generation goes up with each session and each clean, and work of
a lower one is work its pool will refuse; `told` numbers its notifies as it issues
them, across sessions and cleans. A job is its pool, its notify's generation, number
and session and its extranonce's session.
`late` marks what some task had in hand when it was abandoned. The choice of pool
is free here (any pool may be chosen on any pass), so what holds does so for every
scheduler.

Steps that are merged, and why no task can tell: the clear of the session's queue,
of the ASIC queue and the slots (the code holds `valid_jobs_lock` across the last
two, and the sender needs it to place a job); `connected = false` with the clears
after it; transport, `connected` and the record's event on a connect (only the pool
task reads the last two before the lock is free), and the clear of the two flags just
before the transport is assigned (the drop endpoint takes no lock, but a drop asked
between the two ends the session as one asked right after); the test and the reset of
a flag.

### `PoolASession` — `stratum_task.c` and pool A's half of the others

What `SecondaryPools` takes for granted of the secondaries, a lock around the
transport, does not exist here, so every access to it is a step of its own, and
`stratum_close_connection` is a procedure (`CloseTest` to `CleanWork`) that the
stratum task and the result task may both be in: the test for NULL, the destroy, the
assignment of NULL and the three parts of `cleanQueue`.

| actions | code |
|---|---|
| `Choose`, `ResolveFails`, `Dial`, `ConnectFails`, `Connected`, `Hello` | the outer loop of `stratum_task`: endpoint, DNS, a transport that is published before it is connected, setup |
| `ReadNotify`, `ReadOther`, `ReadReconnect`, `ReadStale`, `ReadFails`, `Down` | the inner loop: one line, or its end |
| `CleanTest`, `NotifyTest`, `NotifyRoom`, `NotifyEnqueue` | `mining.notify` |
| `BuildWait`, `BuildCheck`, `BuildJob`, `BuildPut`, `BuildLeave`, `BuildPurge` | `create_jobs_task`: wait for a notify, let go if down, the inner loop, `abandon_work` |
| `SendTake`, `SendPlace` | `ASIC_task` |
| `ResultTake` to `ResultWritten` | `ASIC_result_task`: worker, test of the transport, write, and the close after a failed write |

`alive` is the heap: the transports that exist. A call on a transport that has been
destroyed, a second destroy or the destroy of a NULL is undefined (`UsesFreed`); its
outcomes are that the call fails, which the ordinary actions allow, and a panic that
restarts the miner (`Panic`). The panic is a possible outcome, so no property says
that it does not happen; the properties say what holds whether or not it does.
`docs/KNOWN-ISSUES.md:1714-1718` knows of the missing lock.

### `SlotTable` — `bm1370.c`, `asic_result_task.c`, `system.c`

The slots of `SecondaryPools` hold values; here they hold pointers. `heap` is what is
allocated. `LoadTake`, `LoadSwap` and `LoadFree` are `BM1370_send_work` before, in
and after its critical section. `ProcessTest`, `ProcessLoad` and `ProcessVersion`
are `BM1370_process_work`, which takes no lock, `ResultCopy` is the copy-out, which
does, and `BestLoad` and `BestTarget` are `_check_for_best_diff`, which does not.
Ids of the chip go up by 24 of 128, so that 16 slots are used in turn; the model
counts the slots in the order of their use.

### `DialSweep` — the secondary pool task, in time

The dialling half of `stratum_poolb_task` with the seconds it takes: a silent host
takes the five-second connect timeout, a failed pool is due again five seconds
later, a sweep dials one pool. Every dial, of whatever host, may take up to
`MaxOverhead` seconds besides: looking the name up, the way of an answer or a refusal,
waiting for `transport_lock`, writing the handshake. Sessions carry nothing here.

### `WorkQueue`, `FifoQueue` — `work_queue.c`

Every function of the file. A step is one stretch with the lock held, up to the
return or a wait; waiters wake by a signal, for no reason, or on timeout. `FifoQueue`
is what a user of the queue counts on: put at the end, take from the front, drop all,
drop one owner's. The refinement maps the stretch of the ring from `head` to `tail`.

### `LineReceiver` — `stratum_recv_ctx.c`, `stratum_api.c`

`receiver` says which of the two is looked at. A byte is a newline or not, and of a
session; a read delivers any bytes the stream may have there. Of a read with a NUL in it
`strncat` keeps what comes before, while the limit is tested with the read's whole length:
`Kept` and `Fits`. `Poll` is one call of
the secondary's receiver. The primary's is `ReadMore` until there is a newline, then
`CutLine`, with `strtok` and the `memmove` as they are: delimiters at the front are
passed over, and the buffer is then moved by the token's length alone (`AfterToken`,
whose second branch is what is left when there was a delimiter). `Opens` starts with an empty accumulator on the one side and with whatever is left on the other.

### `HealthMaintenance` — `health_maintennance.c`, `device.c`

A pass of the task is five steps: a reading of the fan, `ReadTemperatures`, `CheckHeat`,
`CheckStall`, `DriveFan`; `PowerOff` and `Restart` are `miner_protection_handler`.
Temperatures are over their limit or not, a duty is past 30 % or not, and `fan_rpm` says
whether the effective reading is above 0. Whether the fan turned is `turning`, and the
reading may differ from it without an error. `bc01` chooses the tachometer:

* `ReadTachometers`, an EMC2302 with two headers of which one has the fan. A channel
  that does not answer reads 0, and only both of them are a failure
  (`EMC2302.c:219`); a fan below some 480 RPM, or past what fits in 16 bits, reads 0 as
  well (`EMC2302.c:121-134`). A raw count of 0 is divided by (`EMC2302.c:117`), which
  restarts the miner: `DividesByZero`.
* `ReadPulses`, the pulse counter of a BC01. The result of `get_count` is overwritten by
  that of the clear (`pwm_fan.c:178-179`): a count that was not read is a 0 without an
  error, and one that was not cleared is an error, whose pulses are there at the next
  pass (`pulses_left`). The first sample is discarded.

`misread` says that the reading could not tell whether the fan turned; `hotPasses`,
`stillPasses`, `unseenPasses`, `blindPasses` and `unreadPasses` count passes in a row of
what was true of the world, beside what the code believes.

### `FanControl` — `pwm_fan.c`

One step is one call of `lotto_set_pwm_according_to_temperature`, with its twelve
static variables. `AfterFull`, `AfterMin` and `Duty` follow the order in which the
code overwrites the duty; `Below`, `Above` and `InBand` are the three branches of the
steady state. `in_flow` is a local the code never initialises: its first value is
either.

### `ApiSessions` — `api_auth.c`

One task serves every request, so a request is a step. Tokens are numbered; that two
are never alike rests on 128 random bits. `seen` is history: when each token was let
in last, 0 again when all sessions are revoked.

### `MCParts` — one run for the machines that share nothing

`PoolScheduler`, `PoolFailover`, `WorkQueue`, `SlotTable`, `LineReceiver`,
`HealthMaintenance`, `FanControl` and `ApiSessions` have no variable in common, here
or in the code. Their product would multiply their states and show nothing that each
alone does not, so a behaviour of `PartsSpec` picks one of them and only that one
moves: the states add up. Each is still the specification of its own module, and the
runs `slots_unlocked`, `control_board` and `stale_lines` use those directly.

## 3. The runs

| run | question | bounds |
|---|---|---|
| `sessions` | one secondary, all interleavings with drops, network losses and shares: types, handles, extranonces, workers, survivors, room, flags | 2 generations, notify queue 2, ASIC queue 3, 1 slot |
| `pool_a` | do jobs come to the sender in the order of their notifies, and does either side's clean disturb the other's jobs or slots? | 2 generations, 2 notifies with numbers of their own, queues 2 and 3 |
| `sessions_live` | does a flagged session end, is a dead notify let go, do builder and pool task go on? | 1 generation, fairness |
| `a_session` | pool A's session with two tasks closing one transport: what of cleaned work comes back, who loses a notify, whose worker a share carries | 2 sessions, 2 generations, queues of 1, 1 failure before the other endpoint; both endpoints answer, or only the fallback |
| `a_session_live` | is the held notify let go, is the endpoint that answers found? | 1 session, any of the endpoints answers or none, fairness |
| `dial_sweep` | connected pools are read in time and live pools dialled | 3 pools, any hosts, the real 5, 2 and 5 s, up to 1 s besides the connect, 1 retry |
| `parts`: scheduler | the shares, for ten settings that may change at any time | 120 slices between changes, weights to 100 (and a stored 256) |
| `parts`: failover | the record against endpoints that come and go | the real `MAX_RETRIES` of 3 |
| `parts`: queue | ring, wake-ups and refinement | 3 cells, two pools of two jobs, one producer and one consumer as in the firmware |
| `parts`: slots | is every job in one place? | 2 slots, 6 jobs |
| `parts`: lines | are lines handed out as they were sent? | reads to 3 bytes and what a NUL leaves of them, 6 bytes a session, lines under 6, 2 sessions |
| `parts`: api | does an active client stay signed in? | 2 entries, 4 logins, a timeout of 3 in a time of 6 |
| `parts`: health | is danger bounded, has every shutdown a cause? | 2 sensors, limits 2 and 3, both tachometers |
| `parts`: fan | is a hot board's fan full? | six temperatures at the thresholds, steps of 10, 2 limits learned |
| `dead_work`, `two_silent`, `slots_unlocked`, `control_board`, `stale_lines` | the five disagreements of section 6 | |

Why the bounds suffice. The sessions' hazards need one session to end and one to
begin, hence two generations; a queue of at least two jobs plus one in each of two
tasks' hands; and a low-water mark that can be reached. One pool suffices for those
that concern a pool and its own work, since nothing but the queue and the slots is
shared between pools; two pools, or a pool and pool A, for those that are about
sharing. Pool A's hazards are one task closing what the other has just opened: two
sessions. A hundred and twenty slices are more than a whole period of every setting
(the longest, the weights 7 and 100, repeats after 107). A line, the part of a line
after it and a newline of its own fit in three bytes, and a line that is too long in
six. Two notifies with numbers of their own, and a queue that holds both, are what it
takes for one to overtake the other, in one generation or across two. The counters of
the health task each count to a limit and reset: two and three
have the same cases as three and five (with which the module was also run by hand), and
the theorems hold for any. The fan's
thresholds, its two protections and the band are the real ones, its steps larger:
what is learned, and compared, is only which of two duties is larger. Where a bound
is arbitrary it is an index in the specification, and the theorems of section 5 hold
for any. Deadlock is checked in every run.

`MaxGen`, `MaxSessions` and `MaxLearned` stop a model when they are reached; the
liveness properties are stated so that a pool that stays down meets them only if
its state has settled. `sessions_live` was also run with two generations by hand
(several minutes) with the same answer, and `dial_sweep` over all host behaviours
without any failover satisfies `LivePoolConnects` itself.

Fairness. FreeRTOS runs every task that is ready, so each task's next step is weakly
fair. A task that waits for `transport_lock` gets it in the end although the result
task takes it again and again: FreeRTOS mutexes wake the waiter of highest priority
and the writes are rare, hence strong fairness of `Unpublish`, `BuildCheck` and
`BuildRecheck`. The builder drains a notify queue faster than a network fills it,
hence strong fairness of `BuildDrained`; its inner loop ends after a second at most,
hence strong fairness of pool A's `BuildLeave`. A socket write returns. An endpoint
that accepts sessions grants one when it is dialled often enough: strong fairness of
`Connected`. Nothing else is promised of the network, the API, the pools' messages,
or of shares being found; in particular a read of a live but silent peer may last
for ever (`CannotRead`). In `DialSweep` the task runs, and a read slice of a tenth of a
second moves the clock now and then. Nothing promises a pool its dial (the run
`two_silent` is about one that never gets it), nor that the loss of a silent peer is
noticed. `PoolFailover` therefore has no fairness, and its counterpart of "the pool ends
up served" counts dials: `NoEndpointPassedOver`.

## 4. Properties

Every property is stated in words above its definition. Each one has a mutant in
`PROJECT.json`: a definition of the model replaced by a plausible mistake (an order
swapped, a reset left out, a bound dropped), under which TLC finds it violated. What
they amount to, in the terms of the code:

* `pool_close` forgets the extranonce before the pool can be published again, and
  the builder reads it under its lock: no job is built from a notify on an
  *older* session's extranonce. (On a *newer* one it can be: see `dead_work`.)
* The builder tests the low-water mark outside the queue's lock
  (`create_jobs_task.c:405`). It is the only producer, and clears only make room, so
  a mark of 10 under a size of 12 leaves it room for ever; the pool task's
  test-drop-enqueue on a session's queue is safe for the same reason.
* An abandon misses only what a task had in its hands: one notify or job of the
  builder's and one job of the sender's.
* A share written on the session of its job carries the worker that session
  authorized, although the name is chosen before the lock is taken: the record
  steps only after the handle is gone. Pool A has no lock, and the property still
  holds: the endpoint only changes on a dial, which gives the transport a new handle.
* Pool A's notify is never let go while its session is read
  (`create_jobs_task.c:184` claims it), because `isconnected` is false only from
  the end of the loop to the first line of the next session.
* Pool A's work that was cleaned comes back only if it was in a task's hands, still
  in the receive buffer, or left by a `clean_jobs` that found both queues empty
  (`stratum_task.c:541`) and therefore cleaned nothing.
* A pool's count of slices is within one above and three below its exact share,
  for ever; its accumulator, and the wait for its next slice, are bounded alike.
* A secondary's receiver hands out what came, whole and in order, whatever the
  cuts. The primary's does so for streams without an empty line. What a NUL hides from
  `strncat` is lost to both; nothing else goes with it.
* A pool's jobs come to the sender in the order in which the pool issued their notifies,
  two of one generation included: `pool_handle` drops the oldest of a full queue, the
  builder holds the latest it took, and a per-pool clear puts the others back in order.
* A flag ends the session it was raised against: `pool_connect` clears both under the
  lock that publishes the transport, and a write fails under the same lock.
* No state of the failover record is a dead end: of any `MAX_RETRIES + 1` dials in a row
  one connects, if an endpoint of the pool accepts sessions throughout.
* However reads fail and sensors take turns failing, an overheated board is mined
  on for fewer passes than `MAX_READ_FAILURES`, and a driven fan that has been seen to
  turn and stands still for fewer than `FAN_STALL_STRIKES`; on a BC01 for two more, as
  pulses that were not cleared stand for a fan that turns until the failing clears are
  themselves the third in a row.
* What turns the miner off is a temperature read over its limit, `MAX_READ_FAILURES`
  passes in a row of a fan or sensor that reported its failure, or `FAN_STALL_STRIKES`
  in a row of a driven fan that stood still *or was misread*. The last is as much as
  holds: a fan that turns and is misread for five passes, its channel failing or its
  speed below what the EMC2302 measures, does shut the miner down.
* Limits the fan controller has learned hold back full speed at 68 degrees for one
  pass at most.

## 5. The proofs

`tlapm` checks every obligation; nothing is assumed but the named assumptions on the
constants (sizes are positive, the low-water mark is below the queue's size, the
settings are settings, a fan is given at least as many passes as a sensor, and its
minimum duty is not full).

Every type invariant, safety invariant, action property and refinement that a passing
run checks is also a theorem for every instance; what is left to TLC alone is at the end
of this section.

**`SecondaryPools_proofs`** — for any number of pools, queue sizes, slots, generations
and retries, and whatever the environment does. None of the properties is inductive.
For types, `HandleOutlivesWrite`, `ExtranonceNotOlderThanNotify`, `EnqueueNeverBlocks`
and `ShareUnderAuthorizedWorker`, `IInv` adds: where the pool task is says which of
transport, `connected` and extranonce are set (`PcOK`); nothing queued or held comes
from a session later than the published one (`SesOK`); an extranonce is the present
session's, or that of the one being closed, and no older than any notify kept (`EnOK`);
the queue is below the low-water mark from the builder's test to its enqueue (`RoomOK`);
the failover counter's range by state (`FoOK`); a job that can be sent has an owner
(`OwnedOK`). For the worker three more parts are carried along: from the dial on the
published choice of endpoint is the record's (`WorkerOK`), no job is of a session yet to
come (`JobsSesOK`), and neither is the share in hand, which therefore keeps a worker
that fits the session it may be written on (`ShareOK`). One lemma per part, one step per
action that can disturb it. The four properties about abandoned work rest on three more
invariants, each on `IInv` and the ones before it:

* `FlagOK`: a failed write, or a drop, that is recorded while there is a session is that
  session's. Both flags are cleared as the transport is published, and a write fails
  under the same lock; hence `FlagEndsItsOwnSession`.
* `FreshOK`: whatever is queued, held, being built, waiting to be sent or valid in a slot
  is of a generation not abandoned, unless it was in a task's hands when that was
  (`late`). `SurvivorsWereInHand` says this of the queue and the slots only, but a
  survivor reaches them through the builder's or the sender's hands, so those belong to
  the invariant.
* `OrderOK`: the numbers of a pool's notifies do not decrease along the whole way from the
  socket: the sender's job, the ASIC queue, the job being built, the held notify, the
  notify queue, the number issued last. `PoolJobsInOrder` is its first stretch. The
  numbers stop at `MaxNotifies`, and the theorem is for any. A clear takes jobs out of the middle of the ASIC queue and keeps the
  order of the rest: `Thinned` says so by a map of positions, since what `SelectSeq`
  returns for a queue of any length is a fact the provers cannot get by induction.

`CleanSparesOtherPools` is an action property: a clean, of a secondary or of pool A,
is compared with the queue without that pool's jobs, position by position.

**`PoolScheduler_proofs`** — for any set of settings and any number of slices:
types, `AccSumsToZero`, `AccWithinTotals`, `ShareWithinBound`, `ZeroWeightNeverWins`,
`WaitBounded` and `EqualPoolsAlternate`. The argument: accumulators sum to zero, so
after every pool has added its weight the largest is positive, and the winner stays
above minus the total when it pays; the other three bound each from above by three
totals; and an accumulator *is* what its pool is owed, `slices * weight - picks * total`,
which makes of the one bound the bounds on shares and waits. `build_pool_weights` is
shown to stay in 0..100 for any stored weight, and its division never to divide by zero.
That equal pools take turns needs the state of a whole round (`InRound`): after `m` of
its slices the pools that come first by index have paid and wait, the others are owed
one weight per slice, so that the next in order is the winner and the round ends with
every accumulator at zero.

**`PoolFailover_proofs`** — for any `MAX_RETRIES`: types, `LinkMatchesRecord`,
`PrimaryNotGivenUpEarly`, `PrimaryProbedAfterDrop`, `NoEndpointPassedOver`. `LinkInv`
ties the history of failed dials to the record's counter, which starts at 0 from boot and
at 1 after a drop. `PassedInv` says how often each endpoint has been passed by in each
state: the one that is being tried never, since it would have connected, the other one
as often as the record counts.

**`DialSweep_proofs`** — for any number of pools, hosts and delays: types and
`StallBounded`. `SweepInv` says how long the pools still to be read have been left
(`LeftUnread`): not at all before the sweep's one dial, the longest dial at most from
there to the end of the sweep, one second more while they are read in turn; and that a
pool already read in this turn has nothing to wait for, which is what lets the next
sweep begin at zero. It gives the bound of one dial and one pass of read slices,
which is one second less than the run asked for before the proof.

**`JobPath_proofs`** — the ring and the slots. Of the ring, for any size, tasks and
jobs: types, that `head`, `tail` and `count` agree (`RingConsistent`), the refinement of
`FifoQueue`, and `NoLostWakeup`. Each operation is first reduced to what it does to the
sequence of the ring's contents; the clear of one owner's jobs is stated by the
positions it keeps. The refinement then maps each action to the one of `FifoQueue`, or
to a stutter: spurious wake-ups and timeouts are stutters. `NoLostWakeup` is proved for
a queue with one producer and one consumer (`OneEach`), which every queue of the
firmware has. The assumption is needed: `queue_clear` makes all of the room at once
and signals one waiter, so with two producers the other would sleep on.

Of the slots, for any number of slots and jobs: types and `JobsOwnedOnce`, which
becomes inductive with where the sender's job comes from (`HandsTold`) and that a new
job has a number no other has (`NumbersGiven`). It is about the memory only; what the
unlocked reads do is the run `slots_unlocked`.

**`Cooling_proofs`** — the health task, for any sensors, limits and either tachometer:
types, `DangerBounded` and `ShutdownHasCause`. Both say how far the three counters of the
code follow what was really wrong. `Watched`: none has reached its limit while mining goes
on. `Counted`: none is ahead of the passes in a row it stands for, which is all that
`ShutdownHasCause` needs. The temperature's counter is not behind either, because a sensor
over its limit that is not seen over it was not read. The strikes can be behind on a BC01:
`Behind`, between passes, and `ToBeBehind`, within one, say by how much, from the failed
clears in a row that kept the pulses alive (`fan_read_failures`). `RotationTold` is what a
reading is worth: a 0 of a fan known to turn is a fan that stood still or was misread, and
an EMC2302 never says that a fan turns which does not.
The fan controller, for any temperatures, steps and delays: types and `HotFanFull`,
which needs no invariant: a fan that is not full is made full at 68 degrees before any
learned limit is looked at.

**`PoolASession_proofs`** — for any queue, number of retries, sessions and
generations: types, `ShareUnderAuthorizedWorker`, `LiveNotifyNotDiscarded` and
`CleanedWorkWasInHand`, with two tasks closing the transport at will and the device
restarting whenever freed memory is used. No lock helps here, so `AInv` is about the
order in which `stratum_task` does things. `LinkOK`: an endpoint is only chosen while
the transport is none, a transport is published with the number of no session yet, and
what is there otherwise is the latest session's, made with the present endpoint; hence a
worker's name that is read first fits any transport read later, unless that is of a
session the share is not of. `LoopOK`: `isconnected` is true whenever a line is being
handled. `WorkOK`: all work is of a session that was made, and none is of the latest
before its first line, the one stretch in which a session is read and not reported as
up. The builder's look at `isconnected` can therefore not meet a notify of the session
being read. `CleanOK` is for the cleaned work: a clean empties the notify queue in one
step and the ASIC queue and the slot in a later one, and it works because nothing comes
to the notify queue in between (the task that cleans is the one that fills it), while
what the builder or the sender takes out of reach meanwhile is counted as in hand.

**`Parts_proofs`** — first the two components whose theorems are here.

* The API's sessions, for any size of the table, timeouts and number of logins: types
  and `RecentClientsStaySignedIn`. `TableAsSeen` makes the table a cache of `seen` (no
  token twice, every entry's time the time its token was last accepted) and `SeenOnce`
  keeps those times apart. If an entry that is evicted belonged to a client with fewer
  than `MAX_SESSIONS` others seen after it, then the tokens of a full table, and the
  one just let in, would be more than that many: an argument by cardinality.
* The receivers, for any sizes of reads, lines and sessions: types and `LinesAsSent`.
  `InPlace` is the property for the bytes, `OwnSession` says what a secondary's
  accumulator may hold, and `WholeLines` that the primary's last line was ended by a
  newline, so that a newline at the front of what is left would be an empty line. That
  is why the primary keeps its place until one comes. Indices are handled by the
  library's facts about subsequences and concatenation, without induction.

Then the product that TLC runs. `EachAlone` shows that a behaviour of `PartsSpec` is one
of each machine's own specification, so `PartsTypeOK` and, in one theorem
(`PartsSafe`), the invariants, action properties and the refinement proved of the
machines alone hold of it. (`NoLostWakeup` has a hypothesis of its own and stays
outside.)

What the proofs changed in the modules. `Earliest` and `Newlines` stand where a helper of
the community modules did, and the queue's clear and the property about cleans speak of
positions instead of `SelectSeq`, so that no fact needs induction. `AfterToken` had two
overlapping branches where a token begins the buffer, told apart only by their order;
the proof could not choose, and it is a conditional now. `seen` was a sequence of
tokens and is the time of each. `StallBounded` is one second tighter. The states that
TLC finds are the same ones, as many as before. Of the bytes a read delivers, `Kept` is a
union of sets of functions because the provers take no set comprehension over two
variables.

Only model-checked: the six liveness properties (fairness and ENABLED are beyond the
prover): `FlaggedSessionEnds`, `HeldNotifyLetGo` and `TasksKeepGoing` of
`SecondaryPools`, `HeldWorkLetGo` and `ReachableEndpointServes` of `PoolASession`, and
`LivePoolConnectsUnlessStarved` of `DialSweep`; and the five counterexamples of section 6, which are runs by their nature.

## 6. Where code and text disagree

Five runs, each of which finds what a text says does not happen:

* `dead_work`: `stratum_poolb_task.c:142` says everything of an ended session goes
  with it. What a task has in hand stays, is loaded, and its share is written on
  the next session (to be refused there).
* `two_silent`: `stratum_poolb_task.c:519` says one dial per sweep keeps a dead pool
  from stalling a live one. Two silent pools with failovers take turns: a dial
  lasts as long as the retry delay, so one is due whenever a sweep starts, and a
  third pool later in the order is never dialled. With one such pool, or without
  failovers, it is: `LivePoolConnectsUnlessStarved`. The run takes every dial as short
  as it can be. With the second that a lookup or a slow refusal may take
  (`MaxOverhead`) the two need not be silent: two sleeps of two seconds and one of the
  dial are the five seconds of the retry delay, so two pools that refuse, each with a
  failover, starve the third as well.
* `slots_unlocked`: `bm1370.c:417` says nothing can reach a displaced job after the
  unlock. `BM1370_process_work` reads its version, and `_check_for_best_diff`
  (`system.c:826`) its target, from a pointer read without the lock.
* `control_board`: `docs/HARDWARE-SAFETY.md:30` lists a trip for the control board's
  temperature. The variable it tests is never written; the reading goes to
  `cpu_temperature` (`health_maintennance.c:279`).
* `stale_lines`: `docs/KNOWN-ISSUES.md:767-768` calls a held pointer the only stale
  state left when pool A's session ends. The static receive buffer is another: after
  `client.reconnect` its lines are the first lines of the next session.

Met while modelling, and not runs of their own:

* Stated Share weights replace the even split but are not scaled to what the slider
  leaves (`create_jobs_task.c:102`). With the slider at 50 and three Shares of 25,
  pool A gets 50 of 125. `docs/DUAL-POOL.md:39-43` says pool A's share is the slider
  and that Shares divide only the rest.
* `retry_count` must exceed `max_retries` (`pool_failover.c:43`), so from boot the
  primary is dialled four times; `docs/DUAL-POOL.md:171` says three.
* `health_maintennance.c:338` says that a slow fan does not read zero. On an EMC2302 one
  below 480 RPM does (`EMC2302.c:121`), as does one whose channel does not answer while
  the other, empty one does (`EMC2302.c:219`): the stall check takes both for a fan that
  stands still, and after five passes turns the miner off.
* A result of `get_count` is overwritten by that of the clear (`pwm_fan.c:178-179`), so
  that on a BC01 a count that could not be read is a 0 without an error.
* `docs/HARDWARE-SAFETY.md` still says that a fan fault cannot fire. The code now
  fires on it, as `HealthMaintenance` has it.
* After one swing through the band the fan's upper limit is a step below the duty
  that kept the board in it, so that above 64 degrees the branch called an increase
  (`pwm_fan.c:670`) lowers the duty; a duty of 99 or 100 that is put back with a step
  added (`pwm_fan.c:536`) passes 100; and a pass without a reading (-60) drives the
  fan to its minimum, for the two passes before the trip.
* The primary's receiver drops the line after an empty one, or hands out a part of
  it; the comment at `stratum_api.c:237` only thinks of a buffer of newlines.
* Any answer to the setup, a refusal included, resets `retry_attempts`
  (`stratum_task.c:676`): a primary that accepts sessions and rejects the worker is
  never given up for the fallback. The task that would bring pool A back from its
  fallback is not started (`stratum_task.c:343`).
* A PATCH of the pools' settings frees strings that `stratum_task` and the result
  task may be using (`http_server.c:901`, `:918`).

## 7. What is not modelled

* Difficulty, version mask, request ids, the handshake's messages, share counters:
  data that no property here tells apart. Two of the hazards listed are about them.
* Pool A's network test, its counters, and the heartbeat that is never started.
* One chain and the BM1370 path; the other drivers repeat it.
* What comes after a NUL in a read, beyond that it is lost: `LinesAsSent` counts as come
  what the buffer got.
* Failures of memory allocation; the empty-url return of `pool_connect`, which its
  caller rules out; the split of a slice inside a second; the interval's clamp.
* `dual_enable`, which pools have a url, and `ASIC_initalized` after boot: they do
  not change while the tasks run (`system.c:150-152`).
* The health task's telemetry, census and power readings; the older fan controller
  beside the one that is called.
* The history ring and the hashrate monitor: averages in floating point and a ring
  that one task writes. The frequency ramp: a sequential loop over register values.
* Parsing and hashing, display, web pages, OTA, drivers, Wi-Fi: data and I/O.

By lines, most of the repository is the last item: of the 71 thousand lines counted
as implementation, more than half are images stored as C arrays, and most of the
rest are screens, drivers of parts, vendored code and the formatting of HTTP
answers. They have no state that two tasks compete for. The tasks and the pool code
together are five thousand lines, a good part of them logging and telemetry. The
share of lines that stand behind a definition here is therefore small, and cannot be
large.

## 8. Plan

Done: `FailoverRule`/`PoolFailover`, `PoolScheduler`, `SecondaryPools`, `DialSweep`,
`WorkQueue` implementing `FifoQueue`, `PoolASession`, `SlotTable`, `LineReceiver`,
`HealthMaintenance`, `FanControl`, `ApiSessions`; every safety property of theirs as a
theorem (section 5).

Next, in order of weight:

1. Proofs of what no run states yet: the fan's steps inside the band, the lockout of
   the API.
2. Handshake and difficulty of a secondary: what a session inherits from the last
   one, and request ids against a surviving job's share.
3. A composition of `PoolASession` with `SecondaryPools` on one builder.
