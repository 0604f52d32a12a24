---------------------------- MODULE ApiSessions ----------------------------
(***************************************************************************)
(* Who is signed in to the HTTP API: the session table, its idle timeout   *)
(* and the lockout of main/http_server/api_auth.c. One task serves every   *)
(* request, so a step is one request. Clients are known by their tokens,   *)
(* numbered in the order of the logins (a token is 128 random bits: no two *)
(* are alike). Requests come in at different times.                        *)
(***************************************************************************)
EXTENDS Naturals, FiniteSets

CONSTANTS
    MAX_SESSIONS,   \* 8
    IdleTimeout,    \* SESSION_IDLE_TIMEOUT_US (12 hours)
    MAX_FAILURES,   \* 8
    Lockout,        \* LOCKOUT_US (60 seconds)
    MaxTime,        \* bound: of the clock
    MaxTokens       \* bound: logins

ASSUME TableAssumption == MAX_SESSIONS \in Nat \ {0} /\ MAX_FAILURES \in Nat \ {0}
ASSUME TimeAssumption ==
    IdleTimeout \in Nat /\ Lockout \in Nat /\ MaxTime \in Nat /\ MaxTokens \in Nat

Entries == 0 .. MAX_SESSIONS - 1
Tokens  == 1 .. MaxTokens
Unused  == [in_use |-> FALSE, token |-> 0, last_seen |-> 0]
Nobody  == [t \in Tokens |-> 0]

VARIABLES
    sessions,       \* the table
    failure_count,
    lockout_until,
    auth_disabled,  \* as api_auth_init found it
    password,       \* NVS: whether there is one
    now,            \* esp_timer_get_time
    issued,         \* history: tokens issued
    seen            \* history: when each token was accepted last, since the last
                    \*   revocation; 0 if never

authVars == <<sessions, failure_count, lockout_until, auth_disabled, password, now,
              issued, seen>>

AuthInit ==
    /\ sessions = [i \in Entries |-> Unused]
    /\ failure_count = 0
    /\ lockout_until = 0
    /\ password \in BOOLEAN
    /\ auth_disabled = ~password
    /\ now = 0
    /\ issued = 0
    /\ seen = Nobody

Later == now' \in now + 1 .. MaxTime

\* History: token t is accepted now.
Accepted(t) == [seen EXCEPT ![t] = now']

-----------------------------------------------------------------------------
(* The table. *)

Stale(i) == sessions[i].in_use /\ now' - sessions[i].last_seen > IdleTimeout
Expired == [i \in Entries |-> IF Stale(i) THEN Unused ELSE sessions[i]]

Holders(table, t) == {i \in Entries : table[i].in_use /\ table[i].token = t}

NotTouched(table, t) == table                               \* mutant: use not noted
Touched(table, t) ==
    [i \in Entries |-> IF i \in Holders(table, t)
                       THEN [table[i] EXCEPT !.last_seen = now'] ELSE table[i]]

\* The first entry that is free, else the first of those seen the longest ago.
Free == {i \in Entries : ~sessions[i].in_use}
Oldest == {i \in Entries : \A j \in Entries :
                               sessions[i].last_seen <= sessions[j].last_seen}
First(S) == CHOOSE i \in S : \A j \in S : i <= j
Chosen == First(IF Free # {} THEN Free ELSE Oldest)

-----------------------------------------------------------------------------
(* Requests. *)

\* api_auth_require and api_auth_require_ws, of a client with token t. With no
\* password everybody is let in, and the table is not looked at.
Require(t) ==
    /\ Later
    /\ IF auth_disabled
       THEN UNCHANGED <<sessions, seen>>
       ELSE /\ sessions' = Touched(Expired, t)
            /\ seen' = IF Holders(Expired, t) = {} THEN seen ELSE Accepted(t)
    /\ UNCHANGED <<failure_count, lockout_until, auth_disabled, password, issued>>

\* A login that is looked at, with the right password.
Login ==
    /\ Later /\ now' >= lockout_until
    /\ password
    /\ issued < MaxTokens
    /\ issued' = issued + 1
    /\ sessions' = [sessions EXCEPT ![Chosen] =
                        [in_use |-> TRUE, token |-> issued', last_seen |-> now']]
    /\ seen' = Accepted(issued')
    /\ failure_count' = 0
    /\ UNCHANGED <<lockout_until, auth_disabled, password>>

\* Or with a wrong one, or when there is none.
LoginFails ==
    /\ Later /\ now' >= lockout_until
    /\ IF failure_count + 1 < MAX_FAILURES
       THEN failure_count' = failure_count + 1 /\ UNCHANGED lockout_until
       ELSE failure_count' = 0 /\ lockout_until' = now' + Lockout
    /\ UNCHANGED <<sessions, auth_disabled, password, issued, seen>>

\* PATCH of apiPassword by a client that is let in: api_auth_revoke_all.
SavePassword ==
    /\ Later
    /\ auth_disabled \/ \E t \in Tokens : Holders(Expired, t) # {}
    /\ password' \in BOOLEAN
    /\ auth_disabled' = ~password'
    /\ sessions' = [i \in Entries |-> Unused]
    /\ failure_count' = 0 /\ lockout_until' = 0
    /\ seen' = Nobody
    /\ UNCHANGED issued

\* The miner restarts: api_auth_init.
Restarted ==
    /\ sessions' = [i \in Entries |-> Unused]
    /\ failure_count' = 0 /\ lockout_until' = 0
    /\ auth_disabled' = ~password
    /\ now' = 0 /\ issued' = 0 /\ seen' = Nobody
    /\ UNCHANGED password

AuthNext ==
    (\E t \in Tokens : Require(t)) \/ Login \/ LoginFails \/ SavePassword \/ Restarted

AuthSpec == AuthInit /\ [][AuthNext]_authVars

-----------------------------------------------------------------------------
(* Properties. *)

\* Every variable stays in the set its declaration gives it.
AuthTypeOK ==
    /\ sessions \in [Entries -> [in_use : BOOLEAN, token : Tokens \cup {0},
                                 last_seen : 0 .. MaxTime]]
    /\ failure_count \in 0 .. MAX_FAILURES - 1
    /\ lockout_until \in 0 .. MaxTime + Lockout
    /\ auth_disabled \in BOOLEAN /\ password \in BOOLEAN
    /\ now \in 0 .. MaxTime
    /\ issued \in 0 .. MaxTokens
    /\ seen \in [Tokens -> 0 .. MaxTime]

\* The clients seen last, as many as the table has room for, stay signed in until
\* they have been idle for the timeout or the password is changed: whatever logs in
\* meanwhile only ever takes an entry from one not seen for longer.
SeenLater(t) == {u \in Tokens : seen[u] > seen[t]}
RecentClientsStaySignedIn ==
    \A t \in Tokens :
        seen[t] > 0 /\ now - seen[t] <= IdleTimeout /\ Cardinality(SeenLater(t)) < MAX_SESSIONS
            => \E i \in Entries :
                   sessions[i] = [in_use |-> TRUE, token |-> t, last_seen |-> seen[t]]
=============================================================================
