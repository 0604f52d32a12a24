----------------------------- MODULE DialSweep -----------------------------
(***************************************************************************)
(* Who gets the secondary pools' one task, and when: the sweep of          *)
(* main/tasks/stratum_poolb_task.c with the time its steps take. A dial    *)
(* blocks the task for as long as the connect does, and while it blocks    *)
(* nobody else is dialled and no connected pool is read.                   *)
(*                                                                         *)
(* Time is in seconds; `wait` is what is left until next_attempt_us. What  *)
(* the sessions carry is in SecondaryPools.                                *)
(***************************************************************************)
EXTENDS FailoverRule, FiniteSets

CONSTANTS
    NPools,         \* secondary pools configured
    ConnectTimeout, \* POOLB_CONNECT_TIMEOUT_MS (5)
    MaxOverhead,    \* what a dial takes besides the timeout it may run into: looking
                    \* the host up, an answer's way, transport_lock, the handshake
    IdleDelay,      \* POOLB_IDLE_DELAY_MS (2)
    RetryDelay,     \* POOLB_RETRY_DELAY_MS (5)
    Hosts           \* how the pools' hosts may behave: functions on Pools

Pools     == 1 .. NPools
Behaviour == {"up", "refuses", "silent"}

ASSUME PoolsAssumption == NPools \in Nat \ {0}
ASSUME DelaysAssumption ==
    ConnectTimeout \in Nat /\ MaxOverhead \in Nat /\ IdleDelay \in Nat /\ RetryDelay \in Nat
ASSUME HostsAssumption == Hosts \subseteq [Pools -> Behaviour]

VARIABLES
    pc,         \* where the task is, at which pool, and `dialled`
    connected,  \* pool[].connected
    wait,       \* s_state[].next_attempt_us, as seconds from now
    fo,         \* s_state[].fo
    host,       \* environment: how both of a pool's hosts take a connect
    unread      \* history: seconds since a connected pool was last read

vars == <<pc, connected, wait, fo, host, unread>>

Goto(at, p, dialled) == [at |-> at, p |-> p, dialled |-> dialled]

Init ==
    /\ pc = Goto("sweep", 1, FALSE)
    /\ connected = [p \in Pools |-> FALSE]
    /\ wait = [p \in Pools |-> 0]
    /\ fo \in [Pools -> {FoInit(has) : has \in FailoverChoices}]
    /\ host \in Hosts
    /\ unread = [p \in Pools |-> 0]

Later(n, d) == IF n > d THEN n - d ELSE 0

\* d seconds go by; pool p, if any, is due again RetryDelay after that.
Elapse(d) ==
    /\ wait' = [p \in Pools |-> Later(wait[p], d)]
    /\ unread' = [p \in Pools |-> IF connected[p] THEN unread[p] + d ELSE 0]
ElapseAndRetry(d, q) ==
    /\ wait' = [p \in Pools |-> IF p = q THEN RetryDelay ELSE Later(wait[p], d)]
    /\ unread' = [p \in Pools |-> IF connected[p] /\ p # q THEN unread[p] + d ELSE 0]

NextOfSweep(p, dialled) ==
    IF p < NPools THEN Goto("sweep", p + 1, dialled) ELSE Goto("swept", 1, FALSE)

\* One dial per sweep, of a pool without a session that is due.
DueAlways(p) == ~connected[p] /\ wait[p] = 0                 \* mutant: every due pool
Due(p) == ~connected[p] /\ ~pc.dialled /\ wait[p] = 0

SweepSkip ==
    /\ pc.at = "sweep"
    /\ ~Due(pc.p)
    /\ pc' = NextOfSweep(pc.p, pc.dialled)
    /\ UNCHANGED <<connected, wait, fo, host, unread>>

\* Giving both endpoints up takes no time. A host that does not answer takes all of
\* the timeout, and every dial takes what goes on around the connect.
DialTimes(p) ==
    IF FoEndpoint(fo[p]) < 0 THEN {0}
    ELSE LET connect == IF host[p] = "silent" THEN ConnectTimeout ELSE 0
         IN  connect .. connect + MaxOverhead

Connects ==
    LET p == pc.p IN
    /\ FoEndpoint(fo[p]) >= 0
    /\ host[p] = "up"
    /\ connected' = [connected EXCEPT ![p] = TRUE]
    /\ fo' = [fo EXCEPT ![p] = FoConnected(@)]
    /\ \E d \in DialTimes(p) : Elapse(d)

\* The mutant leaves next_attempt_us alone: the failed pool is due at once.
DueAgainAtOnce(p) == \E d \in DialTimes(p) : Elapse(d)
DueAgainLater(p) == \E d \in DialTimes(p) : ElapseAndRetry(d, p)

ConnectFails ==
    LET p == pc.p IN
    /\ FoEndpoint(fo[p]) < 0 \/ host[p] # "up"
    /\ DueAgainLater(p)
    /\ fo' = [fo EXCEPT ![p] = FoDisconnected(@)]
    /\ UNCHANGED connected

SweepDial ==
    /\ pc.at = "sweep"
    /\ Due(pc.p)
    /\ Connects \/ ConnectFails
    /\ pc' = NextOfSweep(pc.p, TRUE)
    /\ UNCHANGED host

\* Nothing connected: sleep, then sweep again.
Idle ==
    /\ pc.at = "swept"
    /\ \A p \in Pools : ~connected[p]
    /\ Elapse(IdleDelay)
    /\ pc' = Goto("sweep", 1, FALSE)
    /\ UNCHANGED <<connected, fo, host>>

\* Else every connected pool is read for a slice of a tenth of a second, which
\* the clock sees now and then.
StartService ==
    /\ pc.at = "swept"
    /\ \E p \in Pools : connected[p]
    /\ \E d \in {0, 1} : Elapse(d)
    /\ pc' = Goto("service", 1, FALSE)
    /\ UNCHANGED <<connected, fo, host>>

NextOfService(p) ==
    IF p < NPools THEN Goto("service", p + 1, FALSE) ELSE Goto("sweep", 1, FALSE)

ServiceSkip ==
    /\ pc.at = "service"
    /\ ~connected[pc.p]
    /\ pc' = NextOfService(pc.p)
    /\ UNCHANGED <<connected, wait, fo, host, unread>>

ServiceKeeps ==
    /\ pc.at = "service"
    /\ connected[pc.p]
    /\ unread' = [unread EXCEPT ![pc.p] = 0]
    /\ pc' = NextOfService(pc.p)
    /\ UNCHANGED <<connected, wait, fo, host>>

ServiceLoses ==
    LET p == pc.p IN
    /\ pc.at = "service"
    /\ connected[p]
    /\ connected' = [connected EXCEPT ![p] = FALSE]
    /\ fo' = [fo EXCEPT ![p] = FoDisconnected(@)]
    /\ ElapseAndRetry(0, p)
    /\ pc' = NextOfService(p)
    /\ UNCHANGED host

Next == SweepSkip \/ SweepDial \/ Idle \/ StartService
            \/ ServiceSkip \/ ServiceKeeps \/ ServiceLoses

Spec == Init /\ [][Next]_vars

\* The task runs, and a read slice that takes time takes it now and then.
Fairness == WF_vars(Next) /\ SF_vars(StartService /\ Elapse(1))

FairSpec == Spec /\ Fairness

-----------------------------------------------------------------------------
(* Properties. *)

\* Every variable stays in its set.
TypeOK ==
    /\ pc \in [at : {"sweep", "swept", "service"}, p : Pools, dialled : BOOLEAN]
    /\ connected \in [Pools -> BOOLEAN]
    /\ wait \in [Pools -> 0 .. RetryDelay]
    /\ fo \in [Pools -> Failover]
    /\ host \in Hosts
    /\ unread \in [Pools -> Nat]

\* However many pools are dead, a connected pool is read again within one dial and
\* one pass of read slices, not one dial per dead pool (stratum_poolb_task.c:177-179).
LongestDial == ConnectTimeout + MaxOverhead
StallBounded ==
    \A p \in Pools : connected[p] => unread[p] <= LongestDial + 1

\* A pool whose host is up is connected again and again, unless two others keep the
\* task to themselves: two that take no session and each have a failover, so that
\* neither is ever down for a while, take every dial between them. They need not be
\* silent: with the sleep of two sweeps, a dial that fails after a second is enough
\* for the first to be due again.
Starving == \E p, q \in Pools :
    p # q /\ \A r \in {p, q} : host[r] # "up" /\ fo[r].has_failover
LivePoolConnectsUnlessStarved ==
    ~Starving => \A p \in Pools : host[p] = "up" => []<>connected[p]

\* "One dial per sweep, so a dead pool cannot stall a live one"
\* (stratum_poolb_task.c:519): a pool whose host is up is connected again and again.
LivePoolConnects ==
    \A p \in Pools : host[p] = "up" => []<>connected[p]
=============================================================================
