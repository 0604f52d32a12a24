---------------------------- MODULE PoolFailover ----------------------------
(***************************************************************************)
(* One secondary pool against its two endpoints: the failover record of    *)
(* components/dual_pool/pool_failover.c driven the way                     *)
(* main/tasks/stratum_poolb_task.c drives it. SecondaryPools composes the  *)
(* same rule with the sessions and the work; here the endpoints come and   *)
(* go, so that one can say where the pool ends up.                         *)
(***************************************************************************)
EXTENDS FailoverRule

Endpoints == {0, 1}         \* the primary, the failover
Down == -1

VARIABLES
    fo,         \* s_state[].fo
    link,       \* the endpoint of the session there is, or Down
    reachable,  \* environment: the endpoints that would accept a session
    misses,     \* history: dials in a row that failed on the primary
    passedBy,   \* history: of an endpoint, the dials in a row that got the pool no
                \*   session while that endpoint would have accepted one
    toured      \* history: the primary was dialled since the failover dropped

linkVars == <<fo, link, reachable, misses, passedBy, toured>>

Own(f) == IF f.has_failover THEN Endpoints ELSE {0}     \* those the pool has
NonePassed == [e \in Endpoints |-> 0]
PassBy == [e \in Endpoints |-> IF e \in reachable \cap Own(fo) THEN passedBy[e] + 1 ELSE 0]

LinkInit ==
    /\ fo \in {FoInit(has) : has \in FailoverChoices}
    /\ link = Down
    /\ reachable \in SUBSET Endpoints
    /\ misses = 0 /\ passedBy = NonePassed
    /\ toured = TRUE

\* The sweep reaches this pool while it has no session: pool_connect.
GiveUpDown ==
    /\ link = Down
    /\ FoEndpoint(fo) = Down
    /\ fo' = FoDisconnected(fo)
    /\ misses' = 0 /\ passedBy' = PassBy
    /\ UNCHANGED <<link, reachable, toured>>

DialSucceeds ==
    LET e == FoEndpoint(fo) IN
    /\ link = Down
    /\ e \in reachable
    /\ fo' = FoConnected(fo)
    /\ link' = e
    /\ misses' = 0 /\ passedBy' = NonePassed
    /\ toured' = (e = 0 \/ toured)
    /\ UNCHANGED reachable

DialFails ==
    LET e == FoEndpoint(fo) IN
    /\ link = Down
    /\ e \in Endpoints \ reachable
    /\ fo' = FoDisconnected(fo)
    /\ misses' = IF e = 0 THEN misses + 1 ELSE 0
    /\ passedBy' = PassBy
    /\ toured' = (e = 0 \/ toured)
    /\ UNCHANGED <<link, reachable>>

\* pool_service ends the session: the peer is gone, a share write failed, a drop
\* was asked for, or the pool asked for a reconnect.
SessionLost ==
    /\ link # Down
    /\ fo' = FoDisconnected(fo)
    /\ link' = Down
    /\ toured' = (link = 0)
    /\ UNCHANGED <<reachable, misses, passedBy>>

\* The task's gate closes the session without stepping the record.
NetworkLost ==
    /\ link # Down
    /\ link' = Down
    /\ UNCHANGED <<fo, reachable, misses, passedBy, toured>>

EndpointChanges ==
    /\ reachable' \in SUBSET Endpoints
    /\ passedBy' = [e \in Endpoints |-> IF e \in reachable' THEN passedBy[e] ELSE 0]
    /\ UNCHANGED <<fo, link, misses, toured>>

Dial == GiveUpDown \/ DialSucceeds \/ DialFails

LinkNext == Dial \/ SessionLost \/ NetworkLost \/ EndpointChanges

LinkSpec == LinkInit /\ [][LinkNext]_linkVars

-----------------------------------------------------------------------------
(* Properties. *)

\* Every variable stays in its set. The counter passes max_retries by one before
\* a pool is given up, by two when max_retries is 0; so do the failed dials.
LinkTypeOK ==
    /\ fo \in Failover
    /\ link \in Endpoints \cup {Down}
    /\ reachable \in SUBSET Endpoints
    /\ misses \in 0 .. (MaxRetries + 2)
    /\ passedBy \in [Endpoints -> Nat]
    /\ toured \in BOOLEAN

\* The session there is, is of the endpoint the record says: the worker name
\* chosen from is_using_failover is the one that endpoint was given.
LinkMatchesRecord ==
    link # Down => /\ link = FoEndpoint(fo)
                   /\ fo.state \in {"ON_PRIMARY", "ON_FAILOVER"}

\* The primary is given up only after max_retries dials in a row have failed on
\* it, wherever the run of failures started.
PrimaryNotGivenUpEarly ==
    [][fo.state = "TRY_PRIMARY" /\ fo'.state \notin {"TRY_PRIMARY", "ON_PRIMARY"}
          => misses' >= MaxRetries]_linkVars

\* Once the failover drops it is not dialled again before the primary has been.
PrimaryProbedAfterDrop ==
    [][DialSucceeds /\ link' = 1 => toured]_linkVars

\* No state of the record is a dead end, and "it does not strand itself on the backup
\* when the primary returns": while an endpoint of the pool goes on accepting sessions
\* at most max_retries + 1 dials in a row leave the pool without one, whatever
\* happened to the record before. With a max_retries of 0 it is one dial more, since a
\* drop from the primary counts as a retry. When those dials come is the task's
\* matter, and not told here: DialSweep has pools that are not dialled at all.
DialLimit == IF MaxRetries = 0 THEN 2 ELSE MaxRetries + 1
NoEndpointPassedOver == \A e \in Endpoints : passedBy[e] <= DialLimit
=============================================================================
