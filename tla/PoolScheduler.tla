--------------------------- MODULE PoolScheduler ---------------------------
(***************************************************************************)
(* How the job builder divides slices of time between the pools:           *)
(* components/dual_pool/pool_scheduler.c, the weights build_pool_weights   *)
(* derives from the settings, and the live re-initialisation when those    *)
(* change (main/tasks/create_jobs_task.c).                                 *)
(*                                                                         *)
(* Time is counted in slices: `due` is how many slice lengths have passed  *)
(* since slice_start_us, the rest of a slice being kept by the code. The   *)
(* scheduler belongs to one task; what happens around it is the passing of *)
(* time and the HTTP handler saving new settings.                          *)
(***************************************************************************)
EXTENDS Integers, FiniteSets

CONSTANTS
    Settings,       \* what the owner may save: a set of settings records
    MaxDue,         \* bound: slices that pass between two passes
    MaxSlices       \* bound: slices between two re-initialisations

POOL_MAX    == 4
POOL_A      == 0
Ids         == 0 .. (POOL_MAX - 1)
Secondaries == 1 .. (POOL_MAX - 1)

\* dual_ratio_a, which secondaries have a url, their stated weights, the slice
\* length (only whether it changed matters).
SettingsType == [ratio_a : 0 .. 255, configured : SUBSET Secondaries,
                 weight : [Secondaries -> Nat], interval : Nat]

ASSUME SettingsAssumption == Settings \subseteq SettingsType
ASSUME BoundsAssumption == MaxDue \in Nat /\ MaxSlices \in Nat \ {0}

VARIABLES
    settings,   \* the settings as last saved
    sched,      \* sched_ready, sched_weights, sched_interval of the builder
    weight,     \* pool_scheduler_t.weight
    total,      \* pool_scheduler_t.total
    acc,        \* pool_scheduler_t.acc
    current,    \* pool_scheduler_t.current
    due,        \* slices that have passed since slice_start_us
    slices,     \* history: slices assigned since the last initialisation
    picks,      \* history: how many of them each pool won
    waited      \* history: slices since each pool last won one

vars == <<settings, sched, weight, total, acc, current, due, slices, picks, waited>>

Sum4(f)  == f[0] + f[1] + f[2] + f[3]
Unclamped(a, n) == a                                         \* mutant: no clamp
AtMost(a, n) == IF a > n THEN n ELSE a
AllZero  == [i \in Ids |-> 0]

-----------------------------------------------------------------------------
(* build_pool_weights *)

pool_weight(s, i) == AtMost(s.weight[i], 100)
Stated(s) == LET w(i) == IF i \in s.configured THEN pool_weight(s, i) ELSE 0
             IN  w(1) + w(2) + w(3)

\* Pool A gets the ratio. A configured secondary gets its stated weight as it is
\* or, if none is stated, an even part of what the ratio leaves.
build_pool_weights(s) ==
    LET ratio == AtMost(s.ratio_a, 100)
        even  == (100 - ratio) \div Cardinality(s.configured)
    IN  [i \in Ids |->
            IF i = POOL_A THEN (IF s.configured = {} THEN 100 ELSE ratio)
            ELSE IF i \notin s.configured THEN 0
            ELSE IF Stated(s) > 0 THEN pool_weight(s, i) ELSE even]

\* pool_scheduler_init_n: with no weight at all, pool A takes every slice.
Normalised(w) == IF Sum4(w) <= 0 THEN [w EXCEPT ![POOL_A] = 100] ELSE w

-----------------------------------------------------------------------------
(* advance_slice *)

\* The scan for the winner: strictly greater, so a tie goes to the lower number.
LargestWeight(a, w, i) == /\ \A j \in Ids : weight[j] <= weight[i]     \* mutant
                          /\ \A j \in Ids : j < i => weight[j] < weight[i]
IsWinner(a, w, i) == /\ \A j \in Ids : a[j] + w[j] <= a[i] + w[i]
                     /\ \A j \in Ids : j < i => a[j] + w[j] < a[i] + w[i]

\* Every pool accumulates its weight; the winner pays the total back.
WinnerForfeits(a, w, t, i) ==                                          \* mutant
    [j \in Ids |-> IF j = i THEN a[j] - t ELSE a[j] + w[j]]
Diffuse(a, w, t, i) ==
    [j \in Ids |-> IF j = i THEN a[j] + w[j] - t ELSE a[j] + w[j]]

\* One slice, from accumulators a, for the history h of the slices before it.
Advance(a, w, t, nSlices, nPicks, nWaited) ==
    \E i \in Ids :
        /\ IsWinner(a, w, i)
        /\ acc' = Diffuse(a, w, t, i)
        /\ current' = i
        /\ slices' = nSlices + 1
        /\ picks' = [nPicks EXCEPT ![i] = @ + 1]
        /\ waited' = [j \in Ids |-> IF j = i THEN 0 ELSE nWaited[j] + 1]

-----------------------------------------------------------------------------
NotReady == [ready |-> FALSE, weights |-> AllZero, interval |-> 0]

Init ==
    /\ settings \in Settings
    /\ sched = NotReady
    /\ weight = AllZero
    /\ total = 0
    /\ acc = AllZero
    /\ current = POOL_A
    /\ due = 0
    /\ slices = 0
    /\ picks = AllZero
    /\ waited = AllZero

\* The HTTP handler: ratio, weights and slice length are live, urls are not.
SaveSettings ==
    /\ settings' \in {s \in Settings : s.configured = settings.configured}
    /\ UNCHANGED <<sched, weight, total, acc, current, due, slices, picks, waited>>

\* A slice length goes by.
Tick ==
    /\ due < MaxDue
    /\ due' = due + 1
    /\ UNCHANGED <<settings, sched, weight, total, acc, current, slices, picks, waited>>

Fresh == [ready |-> TRUE, weights |-> build_pool_weights(settings),
          interval |-> settings.interval]

\* A pass that finds the settings changed: the scheduler starts again, and the
\* select that follows assigns the first slice at once.
Reinit ==
    LET w == Normalised(Fresh.weights) IN
    /\ sched # Fresh
    /\ sched' = Fresh
    /\ weight' = w
    /\ total' = Sum4(w)
    /\ due' = 0
    /\ Advance(AllZero, w, Sum4(w), 0, AllZero, AllZero)
    /\ UNCHANGED settings

\* A pass that finds them as they were: select's loop, one iteration per slice
\* that has passed. The pool it returns is `current` once none is left.
Select ==
    /\ sched = Fresh
    /\ due > 0
    /\ slices < MaxSlices
    /\ due' = due - 1
    /\ Advance(acc, weight, total, slices, picks, waited)
    /\ UNCHANGED <<settings, sched, weight, total>>

Next == SaveSettings \/ Tick \/ Reinit \/ Select

Spec == Init /\ [][Next]_vars

-----------------------------------------------------------------------------
(* Properties. *)

\* Every variable stays in its set. A weight fits the uint8_t it is kept in,
\* whatever was stored: none wraps to a pool that never wins.
TypeOK ==
    /\ settings \in Settings
    /\ sched \in [ready : BOOLEAN, weights : [Ids -> 0 .. 100], interval : Nat]
    /\ weight \in [Ids -> 0 .. 100]
    /\ total \in Nat
    /\ acc \in [Ids -> Int]
    /\ current \in Ids
    /\ due \in Nat
    /\ slices \in Nat
    /\ picks \in [Ids -> Nat]
    /\ waited \in [Ids -> Nat]

\* The diffusion loses nothing: what the pools have accumulated, and what the
\* winners have paid back, cancel out after every slice.
AccSumsToZero == Sum4(acc) = 0

\* The accumulators stay within a few totals of zero, however long the miner
\* runs, so the int32_t of pool_scheduler_t never overflows (a total is at most
\* 400).
AccWithinTotals ==
    sched.ready => \A i \in Ids : -total < acc[i] /\ acc[i] < 3 * total

\* "Over any run each pool's share of the slices converges on its weight"
\* (DUAL-POOL.md): after any number of slices a pool has had less than one more
\* than its exact share and less than three fewer.
ShareWithinBound ==
    sched.ready => \A i \in Ids :
        /\ picks[i] * total < slices * weight[i] + total
        /\ slices * weight[i] < picks[i] * total + 3 * total

\* A pool without weight never wins a slice, pool A with a ratio of 0 included,
\* although pool A is where the scan for the winner starts.
ZeroWeightNeverWins ==
    sched.ready => \A i \in Ids : weight[i] = 0 => picks[i] = 0 /\ current # i

\* No pool with a weight waits for ever: the lighter it is the longer it waits,
\* but always for fewer than four of its exact periods total / weight.
WaitBounded ==
    sched.ready => \A i \in Ids : waited[i] * weight[i] < 4 * total

\* "four equal pools alternate one slice at a time" (pool_scheduler.c:12): pools
\* of equal weight each win once in any run of as many slices as there are pools.
InPlay == {i \in Ids : weight[i] > 0}
EqualPoolsAlternate ==
    (\A i, j \in InPlay : weight[i] = weight[j])
        => \A i \in InPlay : waited[i] < Cardinality(InPlay)
=============================================================================
