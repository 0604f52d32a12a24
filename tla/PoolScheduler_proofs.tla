------------------------ MODULE PoolScheduler_proofs ------------------------
(***************************************************************************)
(* The slice scheduler, proved for every settings an owner may save and    *)
(* every number of slices. The argument is one invariant: the accumulators *)
(* sum to zero, so the largest, after every pool has added its weight, is  *)
(* positive and never falls below minus the total when it pays the total   *)
(* back; and an accumulator is what its pool is owed, slices * weight -    *)
(* picks * total, which turns that bound into a bound on the shares.       *)
(***************************************************************************)
EXTENDS PoolScheduler, TLAPS, FiniteSetTheorems

LEMMA IdsAre == Ids = {0, 1, 2, 3} /\ Secondaries = {1, 2, 3} /\ POOL_A \in Ids
  BY DEF Ids, Secondaries, POOL_MAX, POOL_A

\* A sum of four: what Sum4 is of a function on Ids.
LEMMA SumType ==
  ASSUME NEW f \in [Ids -> Nat]
  PROVE  /\ Sum4(f) \in Nat
         /\ \A i \in Ids : f[i] <= Sum4(f)
         /\ Sum4(f) = 0 => \A i \in Ids : f[i] = 0
  BY IdsAre DEF Sum4

\* An even part of what is left is no more than all of it.
LEMMA EvenPart ==
  ASSUME NEW n \in 0 .. 100, NEW c \in Nat, c # 0
  PROVE  n \div c \in 0 .. 100
<1>1. n \div c \in Int /\ (n \div c) * c <= n /\ n < (n \div c) * c + c
  OBVIOUS
<1>2. \A q \in Int : q * c <= n /\ n < q * c + c => q \in 0 .. 100
  OBVIOUS
<1> QED  BY <1>1, <1>2

\* build_pool_weights gives every pool a weight of at most 100: the division
\* by the number of configured secondaries is only used when there are some.
LEMMA WeightsType ==
  ASSUME NEW s \in SettingsType
  PROVE  build_pool_weights(s) \in [Ids -> 0 .. 100]
<1> DEFINE ratio == AtMost(s.ratio_a, 100)
           even  == (100 - ratio) \div Cardinality(s.configured)
<1>1. /\ s.ratio_a \in 0 .. 255 /\ s.configured \in SUBSET Secondaries
      /\ s.weight \in [Secondaries -> Nat]
  BY DEF SettingsType
<1>2. ratio \in 0 .. 100
  BY <1>1 DEF AtMost
<1>3. ASSUME s.configured # {} PROVE even \in 0 .. 100
  <2>1. IsFiniteSet(s.configured)
    <3>1. IsFiniteSet({1})
      BY FS_Singleton
    <3>2. IsFiniteSet({1} \cup {2})
      BY <3>1, FS_AddElement
    <3>3. IsFiniteSet(({1} \cup {2}) \cup {3})
      BY <3>2, FS_AddElement
    <3>4. Secondaries = ({1} \cup {2}) \cup {3}
      BY IdsAre
    <3> QED  BY <1>1, <3>3, <3>4, FS_Subset
  <2>2. Cardinality(s.configured) \in Nat /\ Cardinality(s.configured) # 0
    BY <2>1, <1>3, FS_CardinalityType, FS_EmptySet
  <2>3. 100 - ratio \in 0 .. 100
    BY <1>2
  <2> QED  BY <2>2, <2>3, EvenPart
<1>4. ASSUME NEW i \in Ids, i # POOL_A PROVE i \in Secondaries
  BY <1>4, IdsAre DEF POOL_A
<1>5. ASSUME NEW i \in Secondaries PROVE pool_weight(s, i) \in 0 .. 100
  BY <1>1 DEF pool_weight, AtMost
<1> HIDE DEF ratio, even
<1>6. ASSUME NEW i \in Ids
      PROVE  (IF i = POOL_A THEN (IF s.configured = {} THEN 100 ELSE ratio)
              ELSE IF i \notin s.configured THEN 0
              ELSE IF Stated(s) > 0 THEN pool_weight(s, i) ELSE even) \in 0 .. 100
  BY <1>2, <1>3, <1>4, <1>5
<1> QED  BY <1>6 DEF build_pool_weights, ratio, even

\* After pool_scheduler_init_n somebody has a weight.
LEMMA NormalisedType ==
  ASSUME NEW w \in [Ids -> 0 .. 100]
  PROVE  Normalised(w) \in [Ids -> 0 .. 100] /\ Sum4(Normalised(w)) > 0
<1>1. CASE Sum4(w) <= 0
  <2>1. Normalised(w) = [w EXCEPT ![POOL_A] = 100]
    BY <1>1 DEF Normalised
  <2>2. Normalised(w) \in [Ids -> 0 .. 100]
    <3> DEFINE R == 0 .. 100
    <3>1. 100 \in R /\ w \in [Ids -> R]
      OBVIOUS
    <3> HIDE DEF R
    <3>2. [w EXCEPT ![POOL_A] = 100] \in [Ids -> R]
      BY <3>1
    <3> QED  BY <2>1, <3>2 DEF R
  <2>3. /\ Normalised(w)[0] = 100
        /\ Normalised(w)[1] \in Nat /\ Normalised(w)[2] \in Nat /\ Normalised(w)[3] \in Nat
    BY <2>1, IdsAre DEF POOL_A
  <2> QED  BY <2>2, <2>3 DEF Sum4
<1>2. CASE ~(Sum4(w) <= 0)
  <2>1. w \in [Ids -> Nat]
    OBVIOUS
  <2>2. Normalised(w) = w
    BY <1>2 DEF Normalised
  <2>3. Sum4(w) \in Nat
    BY <2>1, SumType
  <2>4. Sum4(w) > 0
    BY <1>2, <2>3
  <2> QED  BY <2>2, <2>4
<1> QED  BY <1>1, <1>2

-----------------------------------------------------------------------------
\* One slice on accumulators that sum to zero and are all above minus the total:
\* both stay true, since the winner's accumulator was positive before it paid.
LEMMA DiffuseKeeps ==
  ASSUME NEW a \in [Ids -> Int], NEW w \in [Ids -> Nat], NEW i \in Ids,
         Sum4(a) = 0, Sum4(w) > 0, \A j \in Ids : -Sum4(w) < a[j],
         IsWinner(a, w, i)
  PROVE  LET d == Diffuse(a, w, Sum4(w), i) IN
         /\ d \in [Ids -> Int]
         /\ Sum4(d) = 0
         /\ \A j \in Ids : -Sum4(w) < d[j]
         /\ a[i] + w[i] > 0
<1> DEFINE t == Sum4(w)
           d == Diffuse(a, w, t, i)
<1>1. t \in Nat /\ t = w[0] + w[1] + w[2] + w[3]
  BY IdsAre DEF Sum4
<1>2. a[0] + a[1] + a[2] + a[3] = 0
  BY DEF Sum4
<1>3. \A j \in Ids : a[j] \in Int /\ w[j] \in Nat
  OBVIOUS
<1>4. \A j \in Ids : d[j] = IF j = i THEN a[j] + w[j] - t ELSE a[j] + w[j]
  BY DEF Diffuse
<1>5. d \in [Ids -> Int]
  BY <1>1, <1>3 DEF Diffuse
<1>6. a[i] + w[i] > 0
  <2>1. \A j \in Ids : a[j] + w[j] <= a[i] + w[i]
    BY DEF IsWinner
  <2> QED  BY <1>1, <1>2, <1>3, <2>1, IdsAre
<1> HIDE DEF t, d
<1>7. d[0] + d[1] + d[2] + d[3] = 0
  BY <1>1, <1>2, <1>3, <1>4, IdsAre
<1>8. \A j \in Ids : -t < d[j]
  BY <1>1, <1>3, <1>4, <1>6 DEF t
<1> QED  BY <1>5, <1>6, <1>7, <1>8 DEF Sum4, t, d

\* Zero weight never wins: the winner's accumulator was positive, a pool without
\* weight has an accumulator of zero.
LEMMA WinnerHasWeight ==
  ASSUME NEW a \in [Ids -> Int], NEW w \in [Ids -> Nat], NEW i \in Ids,
         a[i] + w[i] > 0, w[i] = 0 => a[i] = 0
  PROVE  w[i] # 0
  OBVIOUS

-----------------------------------------------------------------------------
\* What a pool is owed, and the bounds that follow from it.
Owed(j) == acc[j] = slices * weight[j] - picks[j] * total

Diffused ==
    sched.ready =>
        /\ total = Sum4(weight)
        /\ total > 0
        /\ \A j \in Ids : /\ -total < acc[j]
                          /\ Owed(j)
                          /\ weight[j] = 0 => acc[j] = 0 /\ picks[j] = 0 /\ current # j
                          /\ waited[j] * weight[j] <= acc[j] + total

IInv == TypeOK /\ Sum4(acc) = 0 /\ Diffused

\* The steps' arithmetic, with the products it needs.
LEMMA OwedStep ==
  ASSUME NEW n \in Nat, NEW p \in Nat, NEW w \in Nat, NEW t \in Nat, NEW a \in Int,
         a = n * w - p * t
  PROVE  /\ a + w = (n + 1) * w - p * t
         /\ a + w - t = (n + 1) * w - (p + 1) * t
<1>1. (n + 1) * w = n * w + w
  OBVIOUS
<1>2. (p + 1) * t = p * t + t
  OBVIOUS
<1>3. n * w \in Int /\ p * t \in Int
  OBVIOUS
<1> QED  BY <1>1, <1>2, <1>3

LEMMA WaitStep ==
  ASSUME NEW n \in Nat, NEW w \in Nat, NEW b \in Int, n * w <= b
  PROVE  (n + 1) * w <= b + w
<1>1. (n + 1) * w = n * w + w
  OBVIOUS
<1>2. n * w \in Int
  OBVIOUS
<1> QED  BY <1>1, <1>2

\* What has to hold before a slice of accumulators a, weights w and their total t,
\* after n slices of which the pools won pk and have waited wt.
Ledger(a, w, t, n, pk, wt) ==
    /\ t = Sum4(w) /\ t > 0 /\ Sum4(a) = 0
    /\ \A j \in Ids : /\ -t < a[j]
                      /\ a[j] = n * w[j] - pk[j] * t
                      /\ w[j] = 0 => a[j] = 0 /\ pk[j] = 0
                      /\ wt[j] * w[j] <= a[j] + t

\* One slice keeps the invariant, from any history that satisfies it: the common
\* part of a first slice and of a later one.
LEMMA AdvanceKeeps ==
  ASSUME NEW a \in [Ids -> Int], NEW w \in [Ids -> Nat], NEW t \in Nat,
         NEW n \in Nat, NEW pk \in [Ids -> Nat], NEW wt \in [Ids -> Nat],
         Ledger(a, w, t, n, pk, wt),
         Advance(a, w, t, n, pk, wt), weight' = w, total' = t, sched'.ready
  PROVE  /\ acc' \in [Ids -> Int] /\ current' \in Ids /\ slices' \in Nat
         /\ picks' \in [Ids -> Nat] /\ waited' \in [Ids -> Nat]
         /\ Sum4(acc)' = 0
         /\ Diffused'
<1>0. /\ t = Sum4(w) /\ t > 0 /\ Sum4(a) = 0
      /\ \A j \in Ids : /\ -t < a[j]
                        /\ a[j] = n * w[j] - pk[j] * t
                        /\ w[j] = 0 => a[j] = 0 /\ pk[j] = 0
                        /\ wt[j] * w[j] <= a[j] + t
  BY DEF Ledger
<1>1. PICK i \in Ids :
        /\ IsWinner(a, w, i)
        /\ acc' = Diffuse(a, w, t, i)
        /\ current' = i
        /\ slices' = n + 1
        /\ picks' = [pk EXCEPT ![i] = @ + 1]
        /\ waited' = [j \in Ids |-> IF j = i THEN 0 ELSE wt[j] + 1]
  BY DEF Advance
<1>2. /\ acc' \in [Ids -> Int]
      /\ acc'[0] + acc'[1] + acc'[2] + acc'[3] = 0
      /\ \A j \in Ids : -t < acc'[j]
      /\ a[i] + w[i] > 0
  BY <1>0, <1>1, DiffuseKeeps DEF Sum4
<1>3. w[i] # 0
  BY <1>0, <1>2, WinnerHasWeight
<1>4. slices' \in Nat /\ picks' \in [Ids -> Nat] /\ waited' \in [Ids -> Nat]
  BY <1>1
<1>5. ASSUME NEW j \in Ids
      PROVE  /\ acc'[j] = slices' * w[j] - picks'[j] * t
             /\ w[j] = 0 => acc'[j] = 0 /\ picks'[j] = 0 /\ current' # j
             /\ waited'[j] * w[j] <= acc'[j] + t
  <2>0. w[j] \in Nat /\ a[j] \in Int /\ pk[j] \in Nat /\ wt[j] \in Nat
    OBVIOUS
  <2>1. a[j] + w[j] = (n + 1) * w[j] - pk[j] * t
        /\ a[j] + w[j] - t = (n + 1) * w[j] - (pk[j] + 1) * t
    BY <1>0, <2>0, OwedStep
  <2>2. (wt[j] + 1) * w[j] <= a[j] + t + w[j]
    BY <1>0, <2>0, WaitStep, a[j] + t \in Int
  <2>3. CASE j = i
    <3>1. acc'[j] = a[j] + w[j] - t /\ picks'[j] = pk[j] + 1 /\ waited'[j] = 0
      BY <1>1, <2>3 DEF Diffuse
    <3>2. waited'[j] * w[j] = 0
      BY <3>1, <2>0
    <3>3. -t < acc'[j] /\ acc'[j] \in Int
      BY <1>2
    <3> QED  BY <3>1, <3>2, <3>3, <2>1, <1>0, <1>1, <1>3, <2>3
  <2>4. CASE j # i
    <3>1. acc'[j] = a[j] + w[j] /\ picks'[j] = pk[j] /\ waited'[j] = wt[j] + 1
      BY <1>1, <2>4 DEF Diffuse
    <3>2. a[j] + t + w[j] = acc'[j] + t
      BY <3>1, <2>0
    <3> QED  BY <3>1, <3>2, <2>1, <2>2, <2>0, <1>0, <1>1, <2>4
  <2> QED  BY <2>3, <2>4
<1>6. Diffused'
  BY <1>0, <1>2, <1>5 DEF Diffused, Owed
<1> QED  BY <1>1, <1>2, <1>4, <1>6 DEF Sum4

-----------------------------------------------------------------------------
LEMMA ZeroType == AllZero \in [Ids -> Nat] /\ AllZero \in [Ids -> Int] /\ Sum4(AllZero) = 0
                  /\ \A i \in Ids : AllZero[i] = 0
  BY IdsAre DEF AllZero, Sum4

LEMMA FreshType ==
  ASSUME settings \in Settings
  PROVE  /\ Fresh \in [ready : BOOLEAN, weights : [Ids -> 0 .. 100], interval : Nat]
         /\ Fresh.ready /\ Fresh.weights \in [Ids -> 0 .. 100]
  BY SettingsAssumption, WeightsType DEF Fresh, SettingsType

LEMMA InitIInv == Init => IInv
<1> SUFFICES ASSUME Init PROVE IInv  OBVIOUS
<1>1. TypeOK
  BY ZeroType, IdsAre DEF Init, TypeOK, NotReady
<1> QED  BY <1>1, ZeroType DEF Init, IInv, Diffused, NotReady

LEMMA StepIInv == IInv /\ [Next]_vars => IInv'
<1> SUFFICES ASSUME IInv, [Next]_vars PROVE IInv'  OBVIOUS
<1> USE DEF IInv
<1>1. CASE SaveSettings
  BY <1>1 DEF SaveSettings, TypeOK, Diffused, Owed, Sum4
<1>2. CASE Tick
  BY <1>2 DEF Tick, TypeOK, Diffused, Owed, Sum4
<1>3. CASE Reinit
  <2> DEFINE w == Normalised(Fresh.weights)
             t == Sum4(w)
  <2>0. w \in [Ids -> 0 .. 100] /\ t > 0
    BY FreshType, NormalisedType DEF TypeOK
  <2>1. w \in [Ids -> Nat] /\ t \in Nat /\ t > 0
    <3> HIDE DEF w
    <3>1. w \in [Ids -> Nat]
      BY <2>0
    <3> QED  BY <2>0, <3>1, SumType
  <2>2. /\ sched' = Fresh /\ weight' = w /\ total' = t /\ due' = 0
        /\ settings' = settings
        /\ Advance(AllZero, w, t, 0, AllZero, AllZero)
    BY <1>3 DEF Reinit
  <2>3. sched'.ready /\ sched' \in [ready : BOOLEAN, weights : [Ids -> 0 .. 100], interval : Nat]
    BY <2>2, FreshType DEF TypeOK
  <2> HIDE DEF w, t
  <2>4. Ledger(AllZero, w, t, 0, AllZero, AllZero)
    <3>1. t = Sum4(w)  BY DEF t
    <3>2. \A j \in Ids : /\ -t < AllZero[j]
                         /\ AllZero[j] = 0 * w[j] - AllZero[j] * t
                         /\ w[j] = 0 => AllZero[j] = 0 /\ AllZero[j] = 0
                         /\ AllZero[j] * w[j] <= AllZero[j] + t
      BY <2>1, ZeroType
    <3> QED  BY <2>1, <3>1, <3>2, ZeroType DEF Ledger
  <2>5. /\ acc' \in [Ids -> Int] /\ current' \in Ids /\ slices' \in Nat
        /\ picks' \in [Ids -> Nat] /\ waited' \in [Ids -> Nat]
        /\ Sum4(acc)' = 0 /\ Diffused'
    BY <2>1, <2>2, <2>3, <2>4, ZeroType, AdvanceKeeps
  <2> QED  BY <2>0, <2>1, <2>2, <2>3, <2>5 DEF TypeOK
<1>4. CASE Select
  <2>1. /\ due' = due - 1 /\ due > 0
        /\ sched' = sched /\ weight' = weight /\ total' = total /\ settings' = settings
        /\ Advance(acc, weight, total, slices, picks, waited)
    BY <1>4 DEF Select
  <2>2. sched.ready
    BY <1>4, FreshType DEF Select, TypeOK
  <2>3. Ledger(acc, weight, total, slices, picks, waited)
    BY <2>2 DEF Diffused, Owed, Ledger
  <2>4. /\ acc \in [Ids -> Int] /\ weight \in [Ids -> Nat] /\ total \in Nat
        /\ slices \in Nat /\ picks \in [Ids -> Nat] /\ waited \in [Ids -> Nat]
    BY DEF TypeOK
  <2>5. /\ acc' \in [Ids -> Int] /\ current' \in Ids /\ slices' \in Nat
        /\ picks' \in [Ids -> Nat] /\ waited' \in [Ids -> Nat]
        /\ Sum4(acc)' = 0 /\ Diffused'
    BY <2>1, <2>2, <2>3, <2>4, AdvanceKeeps
  <2> QED  BY <2>1, <2>5 DEF TypeOK
<1>5. CASE UNCHANGED vars
  BY <1>5 DEF vars, TypeOK, Diffused, Owed, Sum4
<1> QED  BY <1>1, <1>2, <1>3, <1>4, <1>5 DEF Next

-----------------------------------------------------------------------------
\* Every variable stays in its set, whatever is saved and for however long.
THEOREM SchedulerTypeOK == Spec => []TypeOK
<1>1. IInv => TypeOK
  BY DEF IInv
<1> QED  BY <1>1, InitIInv, StepIInv, PTL DEF Spec

\* The diffusion loses nothing.
THEOREM SchedulerAccSumsToZero == Spec => []AccSumsToZero
<1>1. IInv => AccSumsToZero
  BY DEF IInv, AccSumsToZero
<1> QED  BY <1>1, InitIInv, StepIInv, PTL DEF Spec

LEMMA BoundsFromIInv == IInv => AccWithinTotals
<1> SUFFICES ASSUME IInv, sched.ready, NEW i \in Ids
             PROVE  -total < acc[i] /\ acc[i] < 3 * total
  BY DEF AccWithinTotals
<1>1. acc[0] + acc[1] + acc[2] + acc[3] = 0
  BY DEF IInv, Sum4
<1>2. total \in Nat /\ \A j \in Ids : acc[j] \in Int /\ -total < acc[j]
  BY DEF IInv, TypeOK, Diffused
<1> QED  BY <1>1, <1>2, IdsAre

\* No accumulator ever leaves (-total, 3 * total), so the int32_t cannot overflow.
THEOREM SchedulerAccWithinTotals == Spec => []AccWithinTotals
  BY BoundsFromIInv, InitIInv, StepIInv, PTL DEF Spec

\* After any number of slices every pool has had its share, give or take: fewer
\* than one slice too many and fewer than three too few.
THEOREM SchedulerShareWithinBound == Spec => []ShareWithinBound
<1>1. IInv => ShareWithinBound
  <2> SUFFICES ASSUME IInv, sched.ready, NEW i \in Ids
               PROVE  /\ picks[i] * total < slices * weight[i] + total
                      /\ slices * weight[i] < picks[i] * total + 3 * total
    BY DEF ShareWithinBound
  <2>1. -total < acc[i] /\ acc[i] < 3 * total
    BY BoundsFromIInv DEF AccWithinTotals
  <2>2. acc[i] = slices * weight[i] - picks[i] * total
    BY DEF IInv, Diffused, Owed
  <2>3. slices \in Nat /\ picks[i] \in Nat /\ weight[i] \in Nat /\ total \in Nat
    BY DEF IInv, TypeOK
  <2>4. slices * weight[i] \in Int /\ picks[i] * total \in Int
    BY <2>3
  <2> QED  BY <2>1, <2>2, <2>3, <2>4
<1> QED  BY <1>1, InitIInv, StepIInv, PTL DEF Spec

\* A pool without weight is never given a slice.
THEOREM SchedulerZeroWeightNeverWins == Spec => []ZeroWeightNeverWins
<1>1. IInv => ZeroWeightNeverWins
  BY DEF IInv, Diffused, ZeroWeightNeverWins
<1> QED  BY <1>1, InitIInv, StepIInv, PTL DEF Spec

\* A pool with a weight waits fewer than four of its periods for a slice.
THEOREM SchedulerWaitBounded == Spec => []WaitBounded
<1>1. IInv => WaitBounded
  <2> SUFFICES ASSUME IInv, sched.ready, NEW i \in Ids
               PROVE  waited[i] * weight[i] < 4 * total
    BY DEF WaitBounded
  <2>1. acc[i] < 3 * total
    BY BoundsFromIInv DEF AccWithinTotals
  <2>2. waited[i] * weight[i] <= acc[i] + total
    BY DEF IInv, Diffused
  <2>3. waited[i] \in Nat /\ weight[i] \in Nat /\ total \in Nat /\ acc[i] \in Int
    BY DEF IInv, TypeOK
  <2>4. waited[i] * weight[i] \in Int
    BY <2>3
  <2> QED  BY <2>1, <2>2, <2>3, <2>4
<1> QED  BY <1>1, InitIInv, StepIInv, PTL DEF Spec

-----------------------------------------------------------------------------
(* Equal weights. *)

\* The pools in play, counted one by one: how many there are, and before pool j.
Plays(w, i)  == IF w[i] > 0 THEN 1 ELSE 0
Playing(w)   == Plays(w, 0) + Plays(w, 1) + Plays(w, 2) + Plays(w, 3)
Before(w, j) == IF j = 0 THEN 0 ELSE IF j = 1 THEN Plays(w, 0)
                ELSE IF j = 2 THEN Plays(w, 0) + Plays(w, 1)
                ELSE Plays(w, 0) + Plays(w, 1) + Plays(w, 2)

LEMMA Ranks ==
  ASSUME NEW w \in [Ids -> Nat]
  PROVE  /\ Playing(w) \in 0 .. 4
         /\ \A j \in Ids : Before(w, j) \in Nat /\ (w[j] > 0 => Before(w, j) < Playing(w))
         /\ \A i, j \in Ids : i < j /\ w[i] > 0 => Before(w, i) < Before(w, j)
         /\ \A m \in Nat : m < Playing(w) => \E j \in Ids : w[j] > 0 /\ Before(w, j) = m
<1>1. \A i \in Ids : Plays(w, i) \in {0, 1} /\ (Plays(w, i) = 1 <=> w[i] > 0)
  BY DEF Plays
<1>2. /\ Playing(w) \in 0 .. 4
      /\ \A j \in Ids : Before(w, j) \in Nat /\ (w[j] > 0 => Before(w, j) < Playing(w))
  BY <1>1, IdsAre DEF Playing, Before
<1>3. \A i, j \in Ids : i < j /\ w[i] > 0 => Before(w, i) < Before(w, j)
  BY <1>1, IdsAre DEF Before
<1>4. ASSUME NEW m \in Nat, m < Playing(w)
      PROVE  \E j \in Ids : w[j] > 0 /\ Before(w, j) = m
  BY <1>1, <1>4, IdsAre DEF Playing, Before
<1> QED  BY <1>2, <1>3, <1>4

LEMMA InPlayCount ==
  ASSUME weight \in [Ids -> Nat]
  PROVE  Cardinality(InPlay) = Playing(weight)
<1> DEFINE S(k) == {i \in Ids : i < k /\ weight[i] > 0}
<1>0. S(0) = {} /\ InPlay = S(4)
  BY IdsAre DEF InPlay
<1>1. ASSUME NEW k \in Ids, IsFiniteSet(S(k))
      PROVE  IsFiniteSet(S(k + 1)) /\ Cardinality(S(k + 1)) = Cardinality(S(k)) + Plays(weight, k)
  <2>0. Cardinality(S(k)) \in Nat /\ k \notin S(k)
    BY <1>1, FS_CardinalityType, IdsAre
  <2>1. CASE weight[k] > 0
    <3>1. S(k + 1) = S(k) \cup {k}
      BY <2>1, IdsAre
    <3> HIDE DEF S
    <3> QED  BY <1>1, <2>0, <2>1, <3>1, FS_AddElement DEF Plays
  <2>2. CASE ~(weight[k] > 0)
    <3>1. S(k + 1) = S(k)
      BY <2>2, IdsAre
    <3> QED  BY <1>1, <2>0, <2>2, <3>1 DEF Plays
  <2> QED  BY <2>1, <2>2
<1> HIDE DEF S
<1>2. IsFiniteSet(S(0)) /\ Cardinality(S(0)) = 0
  BY <1>0, FS_EmptySet
<1>3. IsFiniteSet(S(1)) /\ Cardinality(S(1)) = Plays(weight, 0)
  BY <1>1, <1>2, IdsAre DEF Plays
<1>4. IsFiniteSet(S(2)) /\ Cardinality(S(2)) = Plays(weight, 0) + Plays(weight, 1)
  BY <1>1, <1>3, IdsAre
<1>5. /\ IsFiniteSet(S(3))
      /\ Cardinality(S(3)) = Plays(weight, 0) + Plays(weight, 1) + Plays(weight, 2)
  BY <1>1, <1>4, IdsAre
<1>6. Cardinality(S(4)) = Playing(weight)
  BY <1>1, <1>5, IdsAre DEF Playing
<1> QED  BY <1>0, <1>6

\* m slices into a round of the pools in play, each of weight c: the m first of them
\* have had their slice of this round, and the others wait since the last.
EqualAt(w, c) == \A i \in Ids : w[i] \in {0, c}
InRound(w, a, wt, t, m, c) ==
    \A j \in Ids : w[j] > 0 =>
        /\ Before(w, j) < m  => a[j] = m * c - t /\ wt[j] <= m - 1 - Before(w, j)
        /\ Before(w, j) >= m => a[j] = m * c /\ wt[j] <= m + Playing(w) - 1 - Before(w, j)

LEMMA RoundStep ==
  ASSUME NEW a \in [Ids -> Int], NEW w \in [Ids -> Nat], NEW t \in Nat, NEW n \in Nat,
         NEW pk \in [Ids -> Nat], NEW wt \in [Ids -> Nat], NEW c \in Nat \ {0}, NEW m \in Nat,
         EqualAt(w, c), t = Playing(w) * c, t > 0, m < Playing(w),
         \A j \in Ids : w[j] = 0 => a[j] = 0,
         InRound(w, a, wt, t, m, c), Advance(a, w, t, n, pk, wt)
  PROVE  \E k \in Nat : k < Playing(w) /\ InRound(w, acc', waited', t, k, c)
<1>1. PICK i \in Ids :
        /\ IsWinner(a, w, i)
        /\ acc' = Diffuse(a, w, t, i)
        /\ waited' = [j \in Ids |-> IF j = i THEN 0 ELSE wt[j] + 1]
  BY DEF Advance
<1> DEFINE N == Playing(w)
           v == m * c
<1>2. /\ N \in 0 .. 4 /\ \A j \in Ids : Before(w, j) \in Nat /\ (w[j] > 0 => Before(w, j) < N)
      /\ \A j, l \in Ids : j < l /\ w[j] > 0 => Before(w, j) < Before(w, l)
  BY Ranks
<1>3. v \in Nat /\ (m + 1) * c = v + c /\ (m + 1 = N => v + c = t) /\ 0 * c = 0
  <2>1. v \in Nat /\ (m + 1) * c = v + c
    OBVIOUS
  <2> QED  BY <2>1
<1>3a. \A j \in Ids : waited'[j] \in Nat /\ acc'[j] \in Int
  BY <1>1 DEF Diffuse
<1>4. \A j \in Ids : w[j] > 0 =>
        /\ w[j] = c
        /\ Before(w, j) < m  => a[j] = v - t /\ wt[j] <= m - 1 - Before(w, j)
        /\ Before(w, j) >= m => a[j] = v /\ wt[j] <= m + N - 1 - Before(w, j)
  BY DEF EqualAt, InRound
<1> HIDE DEF N, v
\* The winner is the next in the round.
<1>5. w[i] > 0 /\ Before(w, i) = m
  <2>1. PICK h \in Ids : w[h] > 0 /\ Before(w, h) = m
    BY Ranks DEF N
  <2>2. a[h] + w[h] = v + c
    BY <1>4, <2>1
  <2>3. a[h] + w[h] <= a[i] + w[i] /\ (h < i => a[h] + w[h] < a[i] + w[i])
    BY <1>1, <2>1 DEF IsWinner
  <2>4. \A j \in Ids : a[j] \in Int /\ w[j] \in Nat
    OBVIOUS
  <2>5. w[i] > 0
    <3>1. w[i] # 0
      <4> SUFFICES ASSUME w[i] = 0 PROVE FALSE
        OBVIOUS
      <4>1. a[i] + w[i] = 0
        OBVIOUS
      <4> QED  BY <1>3, <2>2, <2>3, <4>1
    <3> QED  BY <2>4, <3>1
  <2>6. Before(w, i) >= m /\ a[i] + w[i] = v + c
    <3>1. ~(Before(w, i) < m)
      <4> SUFFICES ASSUME Before(w, i) < m PROVE FALSE
        OBVIOUS
      <4>1. a[i] + w[i] = v - t + c
        BY <1>4, <2>5
      <4> QED  BY <1>3, <2>2, <2>3, <4>1
    <3>2. Before(w, i) \in Nat
      BY <1>2
    <3> QED  BY <1>4, <2>5, <3>1, <3>2
  <2>7. ~(h < i)
    BY <1>3, <2>2, <2>3, <2>6
  <2>8. ~(i < h)
    BY <1>2, <2>1, <2>5, <2>6
  <2>9. i = h
    BY <2>7, <2>8, IdsAre
  <2> QED  BY <2>1, <2>9
<1>6. \A j \in Ids : w[j] > 0 =>
        /\ j = i => acc'[j] = v + c - t /\ waited'[j] = 0
        /\ Before(w, j) < m => acc'[j] = v + c - t /\ waited'[j] <= m - Before(w, j)
        /\ j # i /\ Before(w, j) >= m =>
              /\ Before(w, j) >= m + 1
              /\ acc'[j] = v + c /\ waited'[j] <= m + N - Before(w, j)
  <2> SUFFICES ASSUME NEW j \in Ids, w[j] > 0
               PROVE  /\ j = i => acc'[j] = v + c - t /\ waited'[j] = 0
                      /\ Before(w, j) < m =>
                            acc'[j] = v + c - t /\ waited'[j] <= m - Before(w, j)
                      /\ j # i /\ Before(w, j) >= m =>
                            /\ Before(w, j) >= m + 1
                            /\ acc'[j] = v + c /\ waited'[j] <= m + N - Before(w, j)
    OBVIOUS
  <2>1. /\ acc'[j] = IF j = i THEN a[j] + w[j] - t ELSE a[j] + w[j]
        /\ waited'[j] = IF j = i THEN 0 ELSE wt[j] + 1
        /\ a[j] \in Int /\ wt[j] \in Nat /\ Before(w, j) \in Nat
    BY <1>1, <1>2 DEF Diffuse
  <2>2. CASE j = i
    BY <1>3, <1>4, <1>5, <2>1, <2>2
  <2>3. CASE j # i
    <3>1. Before(w, j) # m
      BY <1>2, <1>5, <2>3, IdsAre
    <3>2. CASE Before(w, j) < m
      BY <1>3, <1>4, <2>1, <2>3, <3>2
    <3>3. CASE Before(w, j) >= m
      BY <1>2, <1>3, <1>4, <2>1, <2>3, <3>1, <3>3
    <3> QED  BY <2>1, <2>3, <3>2, <3>3
  <2> QED  BY <2>2, <2>3
<1>7. CASE m + 1 < N
  <2>1. InRound(w, acc', waited', t, m + 1, c)
    <3> SUFFICES ASSUME NEW j \in Ids, w[j] > 0
                 PROVE  /\ Before(w, j) < m + 1 => acc'[j] = (m + 1) * c - t
                                                /\ waited'[j] <= (m + 1) - 1 - Before(w, j)
                        /\ Before(w, j) >= m + 1 => acc'[j] = (m + 1) * c
                                           /\ waited'[j] <= (m + 1) + N - 1 - Before(w, j)
      BY DEF InRound, N
    <3>1. Before(w, j) \in Nat /\ (Before(w, j) = m => j = i)
      BY <1>2, <1>5, IdsAre
    <3>2. (m + 1) * c = v + c /\ (m + 1) - 1 = m /\ (m + 1) + N - 1 = m + N
      BY <1>2, <1>3
    <3>3. CASE j = i
      BY <1>2, <1>3, <1>5, <1>6, <1>3a, <3>2, <3>3
    <3>4. CASE j # i
      <4>1. CASE Before(w, j) < m
        <5>1. acc'[j] = v + c - t /\ waited'[j] <= m - Before(w, j)
          BY <1>6, <4>1
        <5>2. Before(w, j) < m + 1 /\ ~(Before(w, j) >= m + 1)
          BY <3>1, <4>1
        <5>3. waited'[j] <= (m + 1) - 1 - Before(w, j)
          BY <3>2, <5>1
        <5>4. acc'[j] = (m + 1) * c - t
          BY <1>3, <3>2, <5>1
        <5> QED  BY <5>2, <5>3, <5>4, Zenon
      <4>2. CASE Before(w, j) >= m
        BY <1>2, <1>6, <1>3a, <3>1, <3>2, <3>4, <4>2
      <4> QED  BY <3>1, <4>1, <4>2
    <3> QED  BY <3>3, <3>4
  <2> QED  BY <1>7, <2>1 DEF N
<1>8. CASE m + 1 = N
  <2>1. InRound(w, acc', waited', t, 0, c)
    <3> SUFFICES ASSUME NEW j \in Ids, w[j] > 0
                 PROVE  acc'[j] = 0 /\ waited'[j] <= 0 + N - 1 - Before(w, j)
      BY <1>2, <1>3 DEF InRound, N
    <3>1. Before(w, j) \in Nat /\ Before(w, j) < N /\ (Before(w, j) = m => j = i)
      BY <1>2, <1>5, IdsAre
    <3>2. v + c - t = 0 /\ 0 + N - 1 = m
      <4>1. v + c = t /\ v \in Nat
        BY <1>3, <1>8
      <4>2. v + c - t = 0
        BY <4>1
      <4>3. 0 + N - 1 = m
        BY <1>2, <1>8
      <4> QED  BY <4>2, <4>3
    <3>3. CASE j = i
      <4>1. acc'[j] = v + c - t /\ waited'[j] = 0
        BY <1>6, <3>3
      <4> QED  BY <1>2, <1>5, <3>2, <3>3, <4>1
    <3>4. CASE j # i
      <4>1. Before(w, j) < m
        BY <1>8, <3>1, <3>4
      <4> QED  BY <1>2, <1>6, <1>3a, <3>1, <3>2, <4>1
    <3> QED  BY <3>3, <3>4
  <2> QED  BY <1>2, <1>8, <2>1 DEF N
<1> QED  BY <1>2, <1>7, <1>8 DEF N

EqualInv ==
    /\ ~sched.ready => \A i \in Ids : weight[i] = 0
    /\ sched.ready => \A c \in Nat \ {0} : EqualAt(weight, c) =>
          \E m \in Nat : m < Playing(weight) /\ InRound(weight, acc, waited, total, m, c)

\* The total of equal weights.
LEMMA EqualTotal ==
  ASSUME NEW w \in [Ids -> Nat], NEW c \in Nat \ {0}, EqualAt(w, c)
  PROVE  Sum4(w) = Playing(w) * c
<1>1. \A i \in Ids : w[i] = Plays(w, i) * c /\ Plays(w, i) \in {0, 1}
  BY DEF EqualAt, Plays
<1>2. \A p, q, r, s \in {0, 1} : (p + q + r + s) * c = p * c + q * c + r * c + s * c
  OBVIOUS
<1> QED  BY <1>1, <1>2, IdsAre DEF Sum4, Playing

LEMMA EqualStep ==
  ASSUME IInv, EqualInv, [Next]_vars
  PROVE  EqualInv'
<1>0. /\ weight \in [Ids -> Nat] /\ acc \in [Ids -> Int] /\ waited \in [Ids -> Nat]
      /\ picks \in [Ids -> Nat] /\ slices \in Nat /\ total \in Nat /\ settings \in Settings
  BY DEF IInv, TypeOK
<1>1. CASE SaveSettings \/ Tick \/ UNCHANGED vars
  <2>1. UNCHANGED <<sched, weight, total, acc, waited>>
    BY <1>1 DEF SaveSettings, Tick, vars
  <2> QED  BY <2>1 DEF EqualInv
<1>2. CASE Reinit
  <2> DEFINE w == Normalised(Fresh.weights)
             t == Sum4(w)
  <2>1. /\ sched' = Fresh /\ weight' = w /\ total' = t
        /\ Advance(AllZero, w, t, 0, AllZero, AllZero)
    BY <1>2 DEF Reinit
  <2>2. w \in [Ids -> 0 .. 100] /\ t > 0 /\ Fresh.ready
    BY <1>0, FreshType, NormalisedType
  <2> HIDE DEF w
  <2>3. w \in [Ids -> Nat] /\ t \in Nat
    <3>1. w \in [Ids -> Nat]
      BY <2>2
    <3> QED  BY <3>1, SumType
  <2>4. ASSUME NEW c \in Nat \ {0}, EqualAt(w, c)
        PROVE  \E m \in Nat : m < Playing(w) /\ InRound(w, acc', waited', t, m, c)
    <3>1. t = Playing(w) * c
      BY <2>3, <2>4, EqualTotal
    <3>2. Playing(w) \in 0 .. 4 /\ 0 < Playing(w)
      <4>1. Playing(w) \in 0 .. 4
        BY <2>3, Ranks
      <4>2. Playing(w) # 0
        BY <2>2, <3>1
      <4> QED  BY <4>1, <4>2
    <3>3. InRound(w, AllZero, AllZero, t, 0, c)
      <4>1. 0 * c = 0
        OBVIOUS
      <4>2. \A j \in Ids : Before(w, j) \in Nat /\ (w[j] > 0 => Before(w, j) < Playing(w))
        BY <2>3, Ranks
      <4> QED  BY <3>2, <4>1, <4>2, ZeroType DEF InRound
    <3>4. /\ 0 \in Nat /\ AllZero \in [Ids -> Int] /\ AllZero \in [Ids -> Nat]
          /\ \A j \in Ids : w[j] = 0 => AllZero[j] = 0
          /\ Advance(AllZero, w, t, 0, AllZero, AllZero)
      BY <2>1, ZeroType
    <3> HIDE DEF t
    <3> QED  BY <2>2, <2>3, <2>4, <3>1, <3>2, <3>3, <3>4, RoundStep
  <2> QED  BY <2>1, <2>2, <2>4 DEF EqualInv
<1>3. CASE Select
  <2>1. /\ sched' = sched /\ weight' = weight /\ total' = total
        /\ Advance(acc, weight, total, slices, picks, waited)
    BY <1>3 DEF Select
  <2>2. sched.ready
    BY <1>0, <1>3, FreshType DEF Select
  <2>3. /\ total = Sum4(weight) /\ total > 0
        /\ \A j \in Ids : weight[j] = 0 => acc[j] = 0
    BY <2>2 DEF IInv, Diffused
  <2>4. ASSUME NEW c \in Nat \ {0}, EqualAt(weight, c)
        PROVE  \E m \in Nat : m < Playing(weight)
                               /\ InRound(weight, acc', waited', total, m, c)
    <3>1. PICK m \in Nat : m < Playing(weight) /\ InRound(weight, acc, waited, total, m, c)
      BY <2>2, <2>4 DEF EqualInv
    <3>2. total = Playing(weight) * c
      BY <1>0, <2>3, <2>4, EqualTotal
    <3> QED  BY <1>0, <2>1, <2>3, <2>4, <3>1, <3>2, RoundStep
  <2> QED  BY <2>1, <2>2, <2>4 DEF EqualInv
<1> QED  BY <1>1, <1>2, <1>3 DEF Next

\* Pools of equal weight take turns: each has a slice in any run of as many slices as
\* there are of them (advance_slice, pool_scheduler.c; ties go to the lower number).
THEOREM SchedulerEqualPoolsAlternate == Spec => []EqualPoolsAlternate
<1>1. Init => EqualInv
  BY ZeroType DEF Init, EqualInv, NotReady
<1>2. IInv /\ EqualInv /\ [Next]_vars => EqualInv'
  BY EqualStep
<1>3. IInv /\ EqualInv => EqualPoolsAlternate
  <2> SUFFICES ASSUME IInv, EqualInv, \A i, j \in InPlay : weight[i] = weight[j],
                      NEW i \in InPlay
               PROVE  waited[i] < Cardinality(InPlay)
    BY DEF EqualPoolsAlternate
  <2>1. weight \in [Ids -> Nat] /\ waited \in [Ids -> Nat] /\ i \in Ids /\ weight[i] > 0
    BY DEF IInv, TypeOK, InPlay
  <2>2. weight[i] \in Nat \ {0} /\ EqualAt(weight, weight[i])
    BY <2>1 DEF EqualAt, InPlay
  <2>3. sched.ready
    BY <2>1 DEF EqualInv
  <2>4. PICK m \in Nat : /\ m < Playing(weight)
                         /\ InRound(weight, acc, waited, total, m, weight[i])
    BY <2>2, <2>3 DEF EqualInv
  <2>5. /\ Before(weight, i) \in Nat /\ Before(weight, i) < Playing(weight)
        /\ Playing(weight) \in 0 .. 4
    BY <2>1, Ranks
  <2>6. waited[i] < Playing(weight)
    <3>1. /\ Before(weight, i) < m => waited[i] <= m - 1 - Before(weight, i)
          /\ Before(weight, i) >= m => waited[i] <= m + Playing(weight) - 1 - Before(weight, i)
      BY <2>1, <2>4 DEF InRound
    <3> QED  BY <2>1, <2>4, <2>5, <3>1
  <2> QED  BY <2>1, <2>6, InPlayCount
<1> QED  BY <1>1, <1>2, <1>3, InitIInv, StepIInv, PTL DEF Spec
=============================================================================
