------------------------ MODULE PoolFailover_proofs ------------------------
(***************************************************************************)
(* Proofs about PoolFailover, for every max_retries and with or without a  *)
(* failover url.                                                           *)
(*                                                                         *)
(* The run of failed dials (misses) and the counter of the record          *)
(* (retry_count) count from different starts: a drop from the primary sets *)
(* the counter to 1 before a dial has failed. LinkInv says how far apart   *)
(* they can be, and that the failover is never on or due untouched by a    *)
(* dial of the primary since it last dropped. PassedInv adds how the dials *)
(* that pass an endpoint by follow the counter of the other one.           *)
(***************************************************************************)
EXTENDS PoolFailover, TLAPS

\* The counter is at most one ahead of the failed dials, and while the primary
\* is tried neither is more than one past the limit (a drop counts as one).
MissesCounted ==
    fo.state = "TRY_PRIMARY" =>
        /\ misses \in {fo.retry_count - 1, fo.retry_count}
        /\ misses <= MaxRetries + 1
        /\ fo.retry_count <= MaxRetries + 1

RetriesInRange == fo.state = "TRY_FAILOVER" => fo.retry_count <= MaxRetries

\* A session starts a new run of failures, and so does what it leaves behind.
SettledMisses == fo.state \in {"ON_PRIMARY", "ON_FAILOVER"} => misses = 0

\* The failover is tried or used only after the primary has been.
TouredFirst == fo.state \in {"TRY_FAILOVER", "ON_FAILOVER"} => toured

LinkInv ==
    /\ LinkTypeOK /\ LinkMatchesRecord
    /\ MissesCounted /\ RetriesInRange /\ SettledMisses /\ TouredFirst

-----------------------------------------------------------------------------
LEMMA To ==
  ASSUME NEW f \in Failover, NEW s \in PfStates, NEW n \in 0 .. (MaxRetries + 2)
  PROVE  /\ FoTo(f, s, n) \in Failover
         /\ FoTo(f, s, n).state = s
         /\ FoTo(f, s, n).retry_count = n
  BY DEF FoTo, Failover

LEMMA Limits ==
  /\ MaxRetries \in Nat
  /\ PfStates = {"TRY_PRIMARY", "ON_PRIMARY", "TRY_FAILOVER", "ON_FAILOVER", "DOWN"}
  /\ {0, 1} \subseteq 0 .. (MaxRetries + 2)
  BY MaxRetriesAssumption DEF PfStates

\* A connect leaves the record on the endpoint it stood for, with nothing counted.
LEMMA Connected ==
  ASSUME NEW f \in Failover, FoEndpoint(f) \in Endpoints
  PROVE  /\ FoConnected(f) \in Failover
         /\ FoConnected(f).state = IF FoEndpoint(f) = 0 THEN "ON_PRIMARY" ELSE "ON_FAILOVER"
         /\ FoConnected(f).retry_count = 0
         /\ FoEndpoint(FoConnected(f)) = FoEndpoint(f)
<1>1. /\ FoTo(f, "ON_PRIMARY", 0) \in Failover
      /\ FoTo(f, "ON_PRIMARY", 0).state = "ON_PRIMARY"
      /\ FoTo(f, "ON_PRIMARY", 0).retry_count = 0
      /\ FoTo(f, "ON_FAILOVER", 0) \in Failover
      /\ FoTo(f, "ON_FAILOVER", 0).state = "ON_FAILOVER"
      /\ FoTo(f, "ON_FAILOVER", 0).retry_count = 0
  BY To, Limits
<1>2. f.state \in PfStates
  BY DEF Failover
<1>3. CASE f.state \in {"TRY_PRIMARY", "ON_PRIMARY"}
  <2>1. FoEndpoint(f) = 0 /\ FoConnected(f) = FoTo(f, "ON_PRIMARY", 0)
    BY <1>3 DEF FoEndpoint, FoConnected
  <2>2. FoEndpoint(FoTo(f, "ON_PRIMARY", 0)) = 0
    BY <1>1 DEF FoEndpoint
  <2> QED  BY <1>1, <2>1, <2>2
<1>4. CASE f.state \in {"TRY_FAILOVER", "ON_FAILOVER"}
  <2>1. FoEndpoint(f) = 1 /\ FoConnected(f) = FoTo(f, "ON_FAILOVER", 0)
    BY <1>4 DEF FoEndpoint, FoConnected
  <2>2. FoEndpoint(FoTo(f, "ON_FAILOVER", 0)) = 1
    BY <1>1 DEF FoEndpoint
  <2> QED  BY <1>1, <2>1, <2>2
<1>5. CASE f.state = "DOWN"
  BY <1>5 DEF FoEndpoint, Endpoints
<1> QED  BY <1>2, <1>3, <1>4, <1>5, Limits

\* What a failure does to the record, state by state.
LEMMA Disconnected ==
  ASSUME NEW f \in Failover,
         f.state = "TRY_PRIMARY" => f.retry_count <= MaxRetries + 1
  PROVE  LET g == FoDisconnected(f) IN
         /\ g \in Failover
         /\ f.state = "TRY_PRIMARY" /\ f.retry_count + 1 <= MaxRetries
              => g.state = "TRY_PRIMARY" /\ g.retry_count = f.retry_count + 1
         /\ f.state = "TRY_PRIMARY" /\ ~(f.retry_count + 1 <= MaxRetries)
              => g.state \in {"TRY_FAILOVER", "DOWN"}
                 /\ (g.state = "TRY_FAILOVER" => g.retry_count = 0)
         /\ f.state = "TRY_FAILOVER"
              => \/ g.state = "TRY_FAILOVER" /\ g.retry_count <= MaxRetries
                 \/ g.state = "TRY_PRIMARY" /\ g.retry_count = 0
         /\ f.state = "ON_PRIMARY" => g.state = "TRY_PRIMARY" /\ g.retry_count = 1
         /\ f.state \in {"ON_FAILOVER", "DOWN"}
              => g.state = "TRY_PRIMARY" /\ g.retry_count = 0
<1> DEFINE g == FoDisconnected(f)
<1>1. f.state \in PfStates /\ f.retry_count \in Nat
  BY Limits DEF Failover
<1>2. \A s \in PfStates, n \in 0 .. (MaxRetries + 2) :
        FoTo(f, s, n) \in Failover /\ FoTo(f, s, n).state = s /\ FoTo(f, s, n).retry_count = n
  BY To
<1>3. CASE f.state = "TRY_PRIMARY"
  <2>1. f.retry_count + 1 \in 0 .. (MaxRetries + 2)
    BY <1>1, <1>3, Limits
  <2> QED  BY <1>2, <1>3, <2>1, Limits DEF FoDisconnected
<1>4. CASE f.state = "TRY_FAILOVER"
  <2>1. f.retry_count + 1 <= MaxRetries => f.retry_count + 1 \in 0 .. (MaxRetries + 2)
    BY <1>1, Limits
  <2> QED  BY <1>2, <1>4, <2>1, Limits DEF FoDisconnected
<1>5. CASE f.state \in {"ON_PRIMARY", "ON_FAILOVER", "DOWN"}
  BY <1>2, <1>5, Limits DEF FoDisconnected
<1> QED  BY <1>1, <1>3, <1>4, <1>5, Limits

-----------------------------------------------------------------------------
LEMMA PassTypes ==
  /\ NonePassed \in [Endpoints -> Nat]
  /\ passedBy \in [Endpoints -> Nat] => PassBy \in [Endpoints -> Nat]
  BY DEF NonePassed, PassBy

LEMMA InitInv == LinkInit => LinkInv
<1> SUFFICES ASSUME LinkInit PROVE LinkInv
  OBVIOUS
<1>1. PICK has \in FailoverChoices : fo = FoInit(has)
  BY DEF LinkInit
<1>2. fo \in Failover /\ fo.state = "TRY_PRIMARY" /\ fo.retry_count = 0
  BY <1>1, Limits, FailoverChoicesAssumption DEF FoInit, Failover
<1>3. LinkTypeOK /\ LinkMatchesRecord
  BY <1>2, Limits, PassTypes DEF LinkInit, LinkTypeOK, LinkMatchesRecord, Endpoints, Down
<1> QED  BY <1>2, <1>3, Limits
         DEF LinkInit, LinkInv, MissesCounted, RetriesInRange, SettledMisses, TouredFirst

LEMMA Inductive == LinkInv /\ [LinkNext]_linkVars => LinkInv'
<1> SUFFICES ASSUME LinkInv, [LinkNext]_linkVars PROVE LinkInv'
  OBVIOUS
<1> USE DEF Endpoints, Down
<1>0. /\ fo \in Failover /\ fo.state \in PfStates /\ fo.retry_count \in Nat
      /\ fo.state = "TRY_PRIMARY" => fo.retry_count <= MaxRetries + 1
      /\ link \in {0, 1, -1} /\ misses \in 0 .. (MaxRetries + 2) /\ MaxRetries \in Nat
  BY Limits DEF LinkInv, LinkTypeOK, MissesCounted, Failover
<1>d. FoDisconnected(fo) \in Failover
  BY <1>0, Disconnected
<1>p. /\ passedBy \in [Endpoints -> Nat] /\ PassBy \in [Endpoints -> Nat]
      /\ NonePassed \in [Endpoints -> Nat]
  BY PassTypes DEF LinkInv, LinkTypeOK
<1>1. ASSUME GiveUpDown PROVE LinkInv'
  <2>1. fo.state = "DOWN"
    BY <1>1, <1>0, Limits DEF GiveUpDown, FoEndpoint
  <2>2. fo'.state = "TRY_PRIMARY" /\ fo'.retry_count = 0 /\ fo' \in Failover
    BY <1>1, <1>0, <2>1, Disconnected DEF GiveUpDown
  <2> QED  BY <1>1, <1>0, <1>p, <2>2 DEF GiveUpDown, LinkInv, LinkTypeOK, LinkMatchesRecord, MissesCounted,
                                   RetriesInRange, SettledMisses, TouredFirst
<1>2. ASSUME DialSucceeds PROVE LinkInv'
  <2>1. FoEndpoint(fo) \in Endpoints
    BY <1>2 DEF DialSucceeds, LinkInv, LinkTypeOK
  <2>2. /\ fo' \in Failover /\ fo'.retry_count = 0 /\ FoEndpoint(fo') = FoEndpoint(fo)
        /\ fo'.state = IF FoEndpoint(fo) = 0 THEN "ON_PRIMARY" ELSE "ON_FAILOVER"
    BY <1>2, <1>0, <2>1, Connected DEF DialSucceeds
  <2>3. FoEndpoint(fo) = 1 => toured
    BY <1>0, Limits DEF LinkInv, TouredFirst, FoEndpoint
  <2>4. LinkTypeOK' /\ LinkMatchesRecord'
    BY <1>2, <1>0, <1>p, <2>1, <2>2 DEF DialSucceeds, LinkInv, LinkTypeOK, LinkMatchesRecord
  <2> QED  BY <1>2, <2>1, <2>2, <2>3, <2>4
           DEF DialSucceeds, LinkInv, MissesCounted, RetriesInRange, SettledMisses, TouredFirst
<1>3. ASSUME DialFails PROVE LinkInv'
  <2>1. FoEndpoint(fo) \in Endpoints /\ fo' = FoDisconnected(fo) /\ link' = link
    BY <1>3 DEF DialFails
  <2>2. CASE fo.state = "TRY_PRIMARY"
    <3>1. misses' = misses + 1 /\ toured' = TRUE
      BY <1>3, <2>2 DEF DialFails, FoEndpoint, LinkInv, LinkTypeOK
    <3>2. misses \in {fo.retry_count - 1, fo.retry_count} /\ misses <= MaxRetries + 1
      BY <2>2 DEF LinkInv, MissesCounted
    <3>3. \/ /\ fo'.state = "TRY_PRIMARY" /\ fo'.retry_count = fo.retry_count + 1
             /\ fo.retry_count + 1 <= MaxRetries
          \/ fo'.state = "TRY_FAILOVER" /\ fo'.retry_count = 0
          \/ fo'.state = "DOWN"
      BY <2>1, <2>2, <1>0, Disconnected
    <3>4. LinkTypeOK' /\ LinkMatchesRecord'
      BY <1>3, <1>0, <1>d, <1>p, <2>1, <3>1, <3>2 DEF DialFails, LinkInv, LinkTypeOK, LinkMatchesRecord
    <3> QED  BY <3>1, <3>2, <3>3, <3>4, <1>0
             DEF LinkInv, MissesCounted, RetriesInRange, SettledMisses, TouredFirst
  <2>3. CASE fo.state = "ON_PRIMARY"
    <3>1. misses' = misses + 1 /\ toured' = TRUE
      BY <1>3, <2>3 DEF DialFails, FoEndpoint, LinkInv, LinkTypeOK
    <3>2. misses = 0 /\ fo'.state = "TRY_PRIMARY" /\ fo'.retry_count = 1
      BY <2>1, <2>3, <1>0, Disconnected DEF LinkInv, SettledMisses
    <3>4. LinkTypeOK' /\ LinkMatchesRecord'
      BY <1>3, <1>0, <1>d, <1>p, <2>1, <3>1, <3>2 DEF DialFails, LinkInv, LinkTypeOK, LinkMatchesRecord
    <3> QED  BY <3>1, <3>2, <3>4, <1>0
             DEF LinkInv, MissesCounted, RetriesInRange, SettledMisses, TouredFirst
  <2>4. CASE fo.state \in {"TRY_FAILOVER", "ON_FAILOVER"}
    <3>1. misses' = 0 /\ toured' = toured /\ toured
      BY <1>3, <2>4 DEF DialFails, FoEndpoint, LinkInv, LinkTypeOK, TouredFirst
    <3>2. \/ fo'.state = "TRY_FAILOVER" /\ fo'.retry_count <= MaxRetries
          \/ fo'.state = "TRY_PRIMARY" /\ fo'.retry_count = 0
      BY <2>1, <2>4, <1>0, Disconnected
    <3>4. LinkTypeOK' /\ LinkMatchesRecord'
      BY <1>3, <1>0, <1>d, <1>p, <2>1, <3>1 DEF DialFails, LinkInv, LinkTypeOK, LinkMatchesRecord
    <3> QED  BY <3>1, <3>2, <3>4, <1>0
             DEF LinkInv, MissesCounted, RetriesInRange, SettledMisses, TouredFirst
  <2>5. CASE fo.state = "DOWN"
    BY <2>1, <2>5 DEF FoEndpoint
  <2> QED  BY <2>2, <2>3, <2>4, <2>5, <1>0, Limits
<1>4. ASSUME SessionLost PROVE LinkInv'
  <2>1. fo' = FoDisconnected(fo) /\ link # Down /\ link' = Down /\ misses' = misses
    BY <1>4 DEF SessionLost
  <2>2. fo.state \in {"ON_PRIMARY", "ON_FAILOVER"} /\ misses = 0
    BY <2>1 DEF LinkInv, LinkMatchesRecord, SettledMisses
  <2>3. fo'.state = "TRY_PRIMARY" /\ fo'.retry_count \in {0, 1}
    BY <2>1, <2>2, <1>0, Disconnected
  <2>5. fo.state = "ON_PRIMARY" => fo'.retry_count = 1
    BY <2>1, <1>0, Disconnected
  <2>6. LinkTypeOK' /\ LinkMatchesRecord'
    BY <1>4, <1>0, <1>d, <1>p, <2>1 DEF SessionLost, LinkInv, LinkTypeOK, LinkMatchesRecord
  <2> QED  BY <2>1, <2>2, <2>3, <2>6, <1>0
           DEF LinkInv, MissesCounted, RetriesInRange, SettledMisses, TouredFirst
<1>5. ASSUME NetworkLost PROVE LinkInv'
  BY <1>5 DEF NetworkLost, LinkInv, LinkTypeOK, LinkMatchesRecord, MissesCounted, RetriesInRange,
              SettledMisses, TouredFirst
<1>6. ASSUME EndpointChanges PROVE LinkInv'
  BY <1>6 DEF EndpointChanges, LinkInv, LinkTypeOK, LinkMatchesRecord, MissesCounted, RetriesInRange,
              SettledMisses, TouredFirst
<1>7. ASSUME UNCHANGED linkVars PROVE LinkInv'
  BY <1>7 DEF linkVars, LinkInv, LinkTypeOK, LinkMatchesRecord, MissesCounted, RetriesInRange,
              SettledMisses, TouredFirst
<1> QED  BY <1>1, <1>2, <1>3, <1>4, <1>5, <1>6, <1>7 DEF LinkNext, Dial

-----------------------------------------------------------------------------
(***************************************************************************)
(* Endpoints passed by. One that goes on accepting sessions is never the   *)
(* one dialled (it would connect), so it waits while the retries on the    *)
(* other are used up, and the counter of those is the measure.             *)
(***************************************************************************)
PassedInv ==
    /\ \A e \in Endpoints : passedBy[e] # 0 => e \in reachable \cap Own(fo)
    /\ fo.state \in {"TRY_FAILOVER", "ON_FAILOVER"} => fo.has_failover
    /\ fo.state \in {"ON_PRIMARY", "ON_FAILOVER"} => passedBy[0] = 0 /\ passedBy[1] = 0
    /\ fo.state = "TRY_PRIMARY" =>
           passedBy[0] <= DialLimit /\ passedBy[1] <= fo.retry_count
           /\ fo.retry_count < DialLimit
    /\ fo.state = "TRY_FAILOVER" => passedBy[0] <= fo.retry_count /\ passedBy[1] <= DialLimit
    /\ fo.state = "DOWN" => passedBy[0] = 0 /\ ~fo.has_failover

\* What a failure does to the record, with the counts and the failover it has.
LEMMA Failing ==
  ASSUME NEW f \in Failover, f.state \in {"TRY_FAILOVER", "ON_FAILOVER"} => f.has_failover
  PROVE  LET g == FoDisconnected(f) IN
         /\ g.has_failover = f.has_failover
         /\ f.state = "TRY_PRIMARY" =>
              \/ g.state = "TRY_PRIMARY" /\ g.retry_count = f.retry_count + 1
                 /\ f.retry_count + 1 <= MaxRetries
              \/ g.state = "TRY_FAILOVER" /\ g.retry_count = 0 /\ f.has_failover
              \/ g.state = "DOWN" /\ ~f.has_failover
         /\ f.state = "TRY_FAILOVER" =>
              \/ g.state = "TRY_FAILOVER" /\ g.retry_count = f.retry_count + 1
                 /\ f.retry_count + 1 <= MaxRetries
              \/ g.state = "TRY_PRIMARY" /\ g.retry_count = 0 /\ f.retry_count >= MaxRetries
         /\ f.state = "ON_PRIMARY" => g.state = "TRY_PRIMARY" /\ g.retry_count = 1
         /\ f.state \in {"ON_FAILOVER", "DOWN"} => g.state = "TRY_PRIMARY" /\ g.retry_count = 0
<1>1. f.state \in PfStates /\ f.retry_count \in Nat /\ f.has_failover \in BOOLEAN
  BY Limits DEF Failover
<1>2. \A t \in PfStates, n \in Nat :
        /\ FoTo(f, t, n).state = t /\ FoTo(f, t, n).retry_count = n
        /\ FoTo(f, t, n).has_failover = f.has_failover
  BY DEF FoTo, Failover
<1>3. CASE f.state = "TRY_PRIMARY"
  BY <1>1, <1>2, <1>3, Limits DEF FoDisconnected
<1>4. CASE f.state = "TRY_FAILOVER"
  BY <1>1, <1>2, <1>4, Limits DEF FoDisconnected
<1>5. CASE f.state \in {"ON_PRIMARY", "ON_FAILOVER", "DOWN"}
  BY <1>1, <1>2, <1>5, Limits DEF FoDisconnected
<1> QED  BY <1>1, <1>3, <1>4, <1>5, Limits

LEMMA PassedKept ==
  ASSUME LinkInv, PassedInv, [LinkNext]_linkVars
  PROVE  PassedInv'
<1> USE DEF Endpoints, Down
<1>0. /\ fo \in Failover /\ fo.state \in PfStates /\ fo.retry_count \in Nat
      /\ fo.has_failover \in BOOLEAN /\ passedBy \in [{0, 1} -> Nat]
      /\ link \in {0, 1, -1} /\ MaxRetries \in Nat /\ DialLimit \in Nat
      /\ MaxRetries + 1 <= DialLimit /\ 1 < DialLimit
  BY Limits DEF LinkInv, LinkTypeOK, Failover, DialLimit
<1>1. LET g == FoDisconnected(fo) IN
         /\ g.has_failover = fo.has_failover
         /\ fo.state = "TRY_PRIMARY" =>
              \/ g.state = "TRY_PRIMARY" /\ g.retry_count = fo.retry_count + 1
                 /\ fo.retry_count + 1 <= MaxRetries
              \/ g.state = "TRY_FAILOVER" /\ g.retry_count = 0 /\ fo.has_failover
              \/ g.state = "DOWN" /\ ~fo.has_failover
         /\ fo.state = "TRY_FAILOVER" =>
              \/ g.state = "TRY_FAILOVER" /\ g.retry_count = fo.retry_count + 1
                 /\ fo.retry_count + 1 <= MaxRetries
              \/ g.state = "TRY_PRIMARY" /\ g.retry_count = 0 /\ fo.retry_count >= MaxRetries
         /\ fo.state = "ON_PRIMARY" => g.state = "TRY_PRIMARY" /\ g.retry_count = 1
         /\ fo.state \in {"ON_FAILOVER", "DOWN"} => g.state = "TRY_PRIMARY" /\ g.retry_count = 0
  BY <1>0, Failing DEF PassedInv
<1>2. /\ PassBy[0] = IF 0 \in reachable THEN passedBy[0] + 1 ELSE 0
      /\ PassBy[1] = IF 1 \in reachable /\ fo.has_failover THEN passedBy[1] + 1 ELSE 0
  BY <1>0 DEF PassBy, Own
<1>3. fo.state = "TRY_FAILOVER" => fo.retry_count <= MaxRetries
  BY DEF LinkInv, RetriesInRange
<1>4. ASSUME GiveUpDown PROVE PassedInv'
  <2>1. fo.state = "DOWN" /\ fo' = FoDisconnected(fo) /\ passedBy' = PassBy
        /\ reachable' = reachable
    BY <1>0, <1>4 DEF GiveUpDown, FoEndpoint, PfStates
  <2>2. /\ fo'.state = "TRY_PRIMARY" /\ fo'.retry_count = 0
        /\ ~fo.has_failover /\ ~fo'.has_failover /\ passedBy[0] = 0
    BY <1>0, <1>1, <2>1 DEF PassedInv
  <2> QED  BY <1>0, <1>2, <2>1, <2>2 DEF PassedInv, Own
<1>5. ASSUME DialSucceeds PROVE PassedInv'
  <2>1. FoEndpoint(fo) \in Endpoints /\ fo' = FoConnected(fo) /\ passedBy' = NonePassed
        /\ reachable' = reachable
    BY <1>5 DEF DialSucceeds, LinkInv, LinkTypeOK
  <2>2. fo'.state = IF FoEndpoint(fo) = 0 THEN "ON_PRIMARY" ELSE "ON_FAILOVER"
    BY <1>0, <2>1, Connected
  <2>3. FoEndpoint(fo) = 1 => fo.has_failover
    BY <1>0 DEF PassedInv, FoEndpoint, PfStates
  <2>4. fo'.has_failover = fo.has_failover
    BY <1>0, <2>1 DEF FoConnected, FoTo, Failover
  <2> QED  BY <2>1, <2>2, <2>3, <2>4 DEF PassedInv, NonePassed, Own
<1>6. ASSUME DialFails PROVE PassedInv'
  <2>1. /\ FoEndpoint(fo) \in {0, 1} /\ FoEndpoint(fo) \notin reachable
        /\ fo' = FoDisconnected(fo) /\ passedBy' = PassBy /\ reachable' = reachable
    BY <1>6 DEF DialFails
  <2>2. /\ fo.state \in {"TRY_PRIMARY", "ON_PRIMARY"} /\ PassBy[0] = 0
        \/ /\ fo.state \in {"TRY_FAILOVER", "ON_FAILOVER"} /\ fo.has_failover
           /\ PassBy[1] = 0 /\ PassBy[0] <= passedBy[0] + 1
    BY <1>0, <1>2, <2>1 DEF FoEndpoint, PassedInv, PfStates
  <2>3. /\ PassBy[1] <= passedBy[1] + 1 /\ PassBy[0] \in Nat /\ PassBy[1] \in Nat
        /\ passedBy[0] \in Nat /\ passedBy[1] \in Nat
    BY <1>0, <1>2
  <2>4. \A e \in Endpoints : PassBy[e] # 0 => e \in reachable' \cap Own(fo')
    BY <1>0, <1>1, <2>1 DEF PassBy, Own
  <2>5. \A e \in Endpoints : passedBy'[e] # 0 => e \in reachable' \cap Own(fo')
    BY <2>1, <2>4
  <2>6. CASE fo.state = "TRY_PRIMARY"
    <3>1. PassBy[0] = 0 /\ PassBy[1] <= fo.retry_count + 1 /\ fo.retry_count < DialLimit
      BY <1>0, <2>2, <2>3, <2>6 DEF PassedInv
    <3> QED  BY <1>0, <1>1, <2>1, <2>3, <2>5, <2>6, <3>1 DEF PassedInv
  <2>7. CASE fo.state = "ON_PRIMARY"
    <3>1. PassBy[0] = 0 /\ PassBy[1] <= 1
      BY <1>0, <2>2, <2>3, <2>7 DEF PassedInv
    <3> QED  BY <1>0, <1>1, <2>1, <2>3, <2>5, <2>7, <3>1 DEF PassedInv
  <2>8. CASE fo.state = "TRY_FAILOVER"
    <3>1. PassBy[1] = 0 /\ PassBy[0] <= fo.retry_count + 1 /\ fo.has_failover
      BY <1>0, <2>2, <2>3, <2>8 DEF PassedInv
    <3> QED  
      <4>1. passedBy'[0] <= fo.retry_count + 1 /\ passedBy'[1] = 0
        BY <2>1, <3>1
      <4>2. passedBy'[0] <= DialLimit
        BY <4>1, <2>1, <2>3, <2>8, <1>0, <1>3
      <4>3. \/ fo'.state = "TRY_FAILOVER" /\ fo'.retry_count = fo.retry_count + 1
            \/ fo'.state = "TRY_PRIMARY" /\ fo'.retry_count = 0
        BY <1>1, <2>1, <2>8
      <4>4. fo'.has_failover
        BY <1>1, <2>1, <3>1
      <4> QED  BY <1>0, <2>5, <4>1, <4>2, <4>3, <4>4 DEF PassedInv
  <2>9. CASE fo.state = "ON_FAILOVER"
    <3>1. PassBy[1] = 0 /\ PassBy[0] <= 1
      BY <1>0, <2>2, <2>9 DEF PassedInv
    <3> QED  BY <1>0, <1>1, <2>1, <2>3, <2>5, <2>9, <3>1 DEF PassedInv
  <2> QED  BY <2>2, <2>6, <2>7, <2>8, <2>9
<1>7. ASSUME SessionLost PROVE PassedInv'
  <2>1. fo' = FoDisconnected(fo) /\ passedBy' = passedBy /\ reachable' = reachable
    BY <1>7 DEF SessionLost
  <2>2. fo.state \in {"ON_PRIMARY", "ON_FAILOVER"}
    BY <1>7 DEF SessionLost, LinkInv, LinkMatchesRecord
  <2> QED  BY <1>0, <1>1, <2>1, <2>2 DEF PassedInv, Own
<1>8. ASSUME EndpointChanges PROVE PassedInv'
  <2>1. fo' = fo /\ \A e \in Endpoints : passedBy'[e] = IF e \in reachable' THEN passedBy[e] ELSE 0
    BY <1>8 DEF EndpointChanges
  <2> QED  BY <1>0, <2>1 DEF PassedInv, Own
<1>9. ASSUME NetworkLost \/ UNCHANGED linkVars PROVE PassedInv'
  BY <1>9 DEF NetworkLost, linkVars, PassedInv, Own
<1> QED  BY <1>4, <1>5, <1>6, <1>7, <1>8, <1>9 DEF LinkNext, Dial

-----------------------------------------------------------------------------
LEMMA Invariant == LinkSpec => []LinkInv
  BY InitInv, Inductive, PTL DEF LinkSpec

\* Whatever max_retries is, the record of pool_failover.c stays in its range.
THEOREM FailoverTypeOK == LinkSpec => []LinkTypeOK
<1>1. LinkInv => LinkTypeOK
  BY DEF LinkInv
<1> QED  BY <1>1, Invariant, PTL

\* A session is always of the endpoint the record names, so the credentials that
\* follow is_using_failover are that endpoint's.
THEOREM FailoverLinkMatchesRecord == LinkSpec => []LinkMatchesRecord
<1>1. LinkInv => LinkMatchesRecord
  BY DEF LinkInv
<1> QED  BY <1>1, Invariant, PTL

\* For every max_retries, with a failover url or without: an endpoint that goes on
\* accepting sessions is passed by for at most max_retries + 1 dials in a row (two, if
\* that is 0), so no state of the record is a dead end.
THEOREM FailoverNoEndpointPassedOver == LinkSpec => []NoEndpointPassedOver
<1>1. LinkInit => PassedInv
  <2> SUFFICES ASSUME LinkInit PROVE PassedInv
    OBVIOUS
  <2>1. fo.state = "TRY_PRIMARY" /\ fo.retry_count = 0
    BY DEF LinkInit, FoInit
  <2>2. passedBy[0] = 0 /\ passedBy[1] = 0 /\ 0 < DialLimit
    BY Limits DEF LinkInit, NonePassed, Endpoints, DialLimit
  <2> QED  BY <2>1, <2>2, Limits DEF PassedInv, Endpoints, DialLimit
<1>2. LinkInv /\ PassedInv /\ [LinkNext]_linkVars => PassedInv'
  BY PassedKept
<1>3. LinkInv /\ PassedInv => NoEndpointPassedOver
  <2> SUFFICES ASSUME LinkInv, PassedInv PROVE passedBy[0] <= DialLimit /\ passedBy[1] <= DialLimit
    BY DEF NoEndpointPassedOver, Endpoints
  <2>1. /\ fo.state \in PfStates /\ fo.retry_count \in Nat /\ passedBy \in [{0, 1} -> Nat]
        /\ DialLimit \in Nat /\ MaxRetries + 1 <= DialLimit
        /\ (fo.state = "TRY_FAILOVER" => fo.retry_count <= MaxRetries)
    BY Limits DEF LinkInv, LinkTypeOK, Failover, RetriesInRange, DialLimit, Endpoints
  <2>2. ~fo.has_failover => passedBy[1] = 0
    BY DEF PassedInv, Endpoints, Own
  <2>3. passedBy[0] \in Nat /\ passedBy[1] \in Nat /\ MaxRetries \in Nat
    BY <2>1, Limits
  <2> QED  BY <2>1, <2>2, <2>3, Limits DEF PassedInv
<1> QED  BY <1>1, <1>2, <1>3, Invariant, PTL DEF LinkSpec

\* For every max_retries, the primary is never given up before that many dials in
\* a row have failed on it.
THEOREM FailoverPrimaryNotGivenUpEarly == LinkSpec => PrimaryNotGivenUpEarly
<1> DEFINE A == fo.state = "TRY_PRIMARY" /\ fo'.state \notin {"TRY_PRIMARY", "ON_PRIMARY"}
                  => misses' >= MaxRetries
<1>1. LinkInv /\ [LinkNext]_linkVars => [A]_linkVars
  <2> SUFFICES ASSUME LinkInv, LinkNext, fo.state = "TRY_PRIMARY",
                      fo'.state \notin {"TRY_PRIMARY", "ON_PRIMARY"}
               PROVE  misses' >= MaxRetries
    OBVIOUS
  <2>0. /\ fo \in Failover /\ fo.retry_count \in Nat /\ MaxRetries \in Nat /\ misses \in Nat
        /\ fo.retry_count <= MaxRetries + 1 /\ misses \in {fo.retry_count - 1, fo.retry_count}
        /\ FoEndpoint(fo) = 0 /\ link = Down
    BY Limits DEF LinkInv, LinkTypeOK, MissesCounted, Failover, FoEndpoint, LinkMatchesRecord
  <2>1. ~GiveUpDown /\ ~SessionLost
    BY <2>0 DEF GiveUpDown, SessionLost, Down
  <2>2. ~DialSucceeds
    BY <2>0, Connected DEF DialSucceeds, Endpoints
  <2>3. ~NetworkLost /\ ~EndpointChanges
    BY DEF NetworkLost, EndpointChanges
  <2>4. DialFails
    BY <2>1, <2>2, <2>3 DEF LinkNext, Dial
  <2>5. misses' = misses + 1 /\ fo' = FoDisconnected(fo)
    BY <2>0, <2>4 DEF DialFails
  <2>6. ~(fo.retry_count + 1 <= MaxRetries)
    BY <2>0, <2>5, Disconnected
  <2> QED  BY <2>0, <2>5, <2>6
<1>2. LinkInv /\ [LinkNext]_linkVars => [A]_linkVars
  BY <1>1
<1> QED  BY <1>2, Invariant, PTL DEF LinkSpec, PrimaryNotGivenUpEarly

\* For every max_retries, a failover that dropped is not connected again before
\* the primary has been dialled.
THEOREM FailoverPrimaryProbedAfterDrop == LinkSpec => PrimaryProbedAfterDrop
<1>1. LinkInv /\ [LinkNext]_linkVars => [DialSucceeds /\ link' = 1 => toured]_linkVars
  <2> SUFFICES ASSUME LinkInv, DialSucceeds, link' = 1 PROVE toured
    OBVIOUS
  <2>1. FoEndpoint(fo) = 1
    BY DEF DialSucceeds
  <2>2. fo.state \in {"TRY_FAILOVER", "ON_FAILOVER"}
    BY <2>1 DEF FoEndpoint, LinkInv, LinkTypeOK, Failover, PfStates
  <2> QED  BY <2>2 DEF LinkInv, TouredFirst
<1> QED  BY <1>1, Invariant, PTL DEF LinkSpec, PrimaryProbedAfterDrop
=============================================================================
