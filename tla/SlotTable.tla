----------------------------- MODULE SlotTable -----------------------------
(***************************************************************************)
(* The jobs the BM1370 is working on, and who may free them.               *)
(*                                                                         *)
(*   ASIC_task          loads a job into a slot with BM1370_send_work and  *)
(*                      frees the one it displaced                         *)
(*   ASIC_result_task   matches a nonce with its slot: first in            *)
(*                      BM1370_process_work, which takes no lock, then in  *)
(*                      its own copy-out, under valid_jobs_lock, and once  *)
(*                      more, without it, for the best difficulty          *)
(*   the pools' tasks   clear valid_jobs, under the lock                   *)
(*                                                                         *)
(* A critical section of valid_jobs_lock is one step, every access outside *)
(* it another. Jobs are numbered in the order they are made; which pool a  *)
(* slot belongs to is left open here (SecondaryPools has it).              *)
(***************************************************************************)
EXTENDS Naturals

CONSTANTS
    Slots,      \* job ids in use: 16 of the 128, since the id goes up by 24
    MaxJobs     \* bound: jobs made

ASSUME SlotsAssumption == Slots \in Nat \ {0} /\ MaxJobs \in Nat

Empty == 0
JobNumbers  == 1 .. MaxJobs
SlotIds   == 0 .. Slots - 1

VARIABLES
    active,         \* active_jobs
    valid,          \* valid_jobs
    id,             \* the id BM1370_send_work gave last
    heap,           \* history: jobs allocated and not freed
    made,           \* history: how many were made
    loader,         \* ASIC_task: where it is, and the job in its hands
    matcher         \* ASIC_result_task: where it is, its slot, the pointer it read

slotVars == <<active, valid, id, heap, made, loader, matcher>>

Loading(at, job)       == [at |-> at, job |-> job]
Matching(at, slot, job) == [at |-> at, slot |-> slot, job |-> job]

SlotInit ==
    /\ active = [s \in SlotIds |-> Empty]
    /\ valid = [s \in SlotIds |-> FALSE]
    /\ id = 0
    /\ heap = {}
    /\ made = 0
    /\ loader = Loading("idle", Empty)
    /\ matcher = Matching("idle", 0, Empty)

-----------------------------------------------------------------------------
(* ASIC_task. *)

\* A job comes off the queue, and gets the next id.
FreedFirst ==                                               \* mutant: freed unlocked
    (heap \ {active[(id + 1) % Slots]}) \cup {made + 1}
Allocated == heap \cup {made + 1}

LoadTake ==
    /\ loader.at = "idle"
    /\ made < MaxJobs
    /\ made' = made + 1
    /\ heap' = Allocated
    /\ id' = (id + 1) % Slots
    /\ loader' = Loading("swap", made + 1)
    /\ UNCHANGED <<active, valid, matcher>>

\* Under the lock the slot is given the new job; the old one is freed afterwards.
LoadSwap ==
    /\ loader.at = "swap"
    /\ active' = [active EXCEPT ![id] = loader.job]
    /\ valid' = [valid EXCEPT ![id] = TRUE]
    /\ loader' = Loading("free", active[id])
    /\ UNCHANGED <<id, heap, made, matcher>>

LoadFree ==
    /\ loader.at = "free"
    /\ heap' = heap \ {loader.job}
    /\ loader' = Loading("idle", Empty)
    /\ UNCHANGED <<active, valid, id, made, matcher>>

-----------------------------------------------------------------------------
(* The pools' tasks: a clean_jobs or a lost session takes the slots of a pool. *)

Invalidate ==
    /\ \E cleaned \in SUBSET SlotIds :
           valid' = [s \in SlotIds |-> valid[s] /\ s \notin cleaned]
    /\ UNCHANGED <<active, id, heap, made, loader, matcher>>

-----------------------------------------------------------------------------
(* ASIC_result_task. *)

Match(there, slot, job) ==
    /\ matcher' = Matching(there, slot, job)
    /\ UNCHANGED <<active, valid, id, heap, made, loader>>

\* BM1370_process_work: a nonce of any slot that is valid, then its job's version.
ProcessTest ==
    /\ matcher.at = "idle"
    /\ \E s \in SlotIds : valid[s] /\ Match("load", s, Empty)

ProcessLoad ==
    /\ matcher.at = "load"
    /\ Match("version", matcher.slot, active[matcher.slot])

ProcessVersion ==
    /\ matcher.at = "version"
    /\ Match("copy", matcher.slot, Empty)

\* The copy-out: under the lock, of a slot that is still valid.
ResultCopy ==
    /\ matcher.at = "copy"
    /\ IF ~valid[matcher.slot] \/ active[matcher.slot] = Empty
       THEN Match("idle", 0, Empty)
       ELSE Match("copied", matcher.slot, Empty)

\* A difficulty past a million is held against the target of the slot's job.
BestLoad ==
    /\ matcher.at = "copied"
    /\ \/ Match("idle", 0, Empty)
       \/ Match("target", matcher.slot, active[matcher.slot])

BestTarget ==
    /\ matcher.at = "target"
    /\ Match("idle", 0, Empty)

\* What reading freed memory leads to: any value, or a panic and a restart.
ReadsFreed == matcher.at \in {"version", "target"} /\ matcher.job \notin heap

SlotPanic ==
    /\ ReadsFreed
    /\ active' = [s \in SlotIds |-> Empty] /\ valid' = [s \in SlotIds |-> FALSE]
    /\ id' = 0 /\ heap' = {} /\ made' = 0
    /\ loader' = Loading("idle", Empty) /\ matcher' = Matching("idle", 0, Empty)

SlotNext ==
    \/ LoadTake \/ LoadSwap \/ LoadFree
    \/ Invalidate
    \/ ProcessTest \/ ProcessLoad \/ ProcessVersion \/ ResultCopy
    \/ BestLoad \/ BestTarget
    \/ SlotPanic

SlotSpec == SlotInit /\ [][SlotNext]_slotVars

-----------------------------------------------------------------------------
(* Properties. *)

\* Every variable stays in the set its declaration gives it.
SlotTypeOK ==
    /\ active \in [SlotIds -> JobNumbers \cup {Empty}]
    /\ valid \in [SlotIds -> BOOLEAN]
    /\ id \in SlotIds
    /\ heap \in SUBSET JobNumbers
    /\ made \in 0 .. MaxJobs
    /\ loader \in [at : {"idle", "swap", "free"}, job : JobNumbers \cup {Empty}]
    /\ matcher \in [at : {"idle", "load", "version", "copy", "copied", "target"},
                    slot : SlotIds, job : JobNumbers \cup {Empty}]

\* Every job allocated is in one place, a slot or the sender's hands, and what
\* those hold is allocated: no job is freed twice, leaked, or freed while a slot
\* that the copy-out may look at still points at it.
Loaded == {active[s] : s \in SlotIds} \ {Empty}
InHand == {loader.job} \ {Empty}
JobsOwnedOnce ==
    /\ heap = Loaded \cup InHand
    /\ Loaded \cap InHand = {}
    /\ \A s, t \in SlotIds : active[s] = active[t] /\ active[s] # Empty => s = t
    /\ \A s \in SlotIds : valid[s] => active[s] # Empty

\* "Freeing the displaced job after the unlock is safe, because nothing can still
\* reach it" (bm1370.c:417-418): no task reads a job that has been freed.
NothingReachesDisplaced == ~ReadsFreed
=============================================================================
