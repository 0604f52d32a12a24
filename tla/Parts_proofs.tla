--------------------------- MODULE Parts_proofs ---------------------------
(***************************************************************************)
(* Proofs about the sessions of the API, for a table of any size and any   *)
(* timeouts, and about the receivers of lines, for any sizes of reads and  *)
(* lines; and that every machine of MCParts behaves as if it were alone, so*)
(* that what is proved of each of them holds of their product.             *)
(***************************************************************************)
EXTENDS MCParts, PoolScheduler_proofs, PoolFailover_proofs, JobPath_proofs,
        Cooling_proofs, SequenceTheorems, FiniteSetTheorems, TLAPS

\* Among finitely many, one is the least by any measure.
LEMMA Least ==
  ASSUME NEW S, IsFiniteSet(S), S # {}, NEW f \in [S -> Int]
  PROVE  \E x \in S : \A y \in S : f[x] <= f[y]
<1> DEFINE Less(x) == {y \in S : f[y] < f[x]}
           Sets == {Less(x) : x \in S}
<1>1. Sets \subseteq FiniteSubsetsOf(S)
  <2>1. \A x \in S : IsFiniteSet(Less(x)) /\ Less(x) \in SUBSET S
    BY FS_Subset
  <2> QED  BY <2>1 DEF FiniteSubsetsOf
<1>2. Sets # {}
  <2>1. PICK x \in S : TRUE
    OBVIOUS
  <2>2. Less(x) \in Sets
    OBVIOUS
  <2> QED  BY <2>2
<1>3. PICK T \in Sets : \A U \in Sets : <<U, T>> \notin StrictSubsetOrdering(S)
  <2> HIDE DEF Sets
  <2> QED  BY <1>1, <1>2, WFMin, FS_StrictSubsetOrderingWellFounded
<1>4. PICK x \in S : T = Less(x)
  OBVIOUS
<1>5. \A y \in S : ~(f[y] < f[x])
  <2> SUFFICES ASSUME NEW y \in S, f[y] < f[x] PROVE FALSE
    OBVIOUS
  <2>1. Less(y) \subseteq Less(x)
    OBVIOUS
  <2>2. y \in Less(x) /\ y \notin Less(y)
    OBVIOUS
  <2>3. Less(y) \in Sets
    OBVIOUS
  <2>4. Less(x) \in SUBSET S /\ Less(y) \in SUBSET S
    OBVIOUS
  <2> HIDE DEF Less, Sets
  <2>5. <<Less(y), Less(x)>> \in StrictSubsetOrdering(S)
    BY <2>1, <2>2, <2>4 DEF StrictSubsetOrdering
  <2> QED  BY <1>3, <1>4, <2>3, <2>5
<1> QED  BY <1>5

-----------------------------------------------------------------------------
(***************************************************************************)
(* The API's sessions. Who was seen lately is still signed in: the table is*)
(* a cache of what was seen, and it never lets a client go that was seen   *)
(* later than one it keeps.                                                *)
(***************************************************************************)

LEMMA EntriesFinite ==
  /\ IsFiniteSet(Entries) /\ Cardinality(Entries) = MAX_SESSIONS
  /\ Entries \subseteq Int /\ 0 \in Entries
  /\ IsFiniteSet(Tokens)
<1>1. MAX_SESSIONS \in Nat /\ MAX_SESSIONS > 0 /\ MaxTokens \in Nat
  BY TableAssumption, TimeAssumption
<1>2. 0 \in Entries /\ Entries \subseteq Int
  BY <1>1 DEF Entries
<1>3. IsFiniteSet(Entries) /\ Cardinality(Entries) = MAX_SESSIONS
  BY <1>1, FS_Interval DEF Entries
<1>4. IsFiniteSet(Tokens)
  BY <1>1, FS_Interval DEF Tokens
<1> QED  BY <1>2, <1>3, <1>4

\* A login takes an entry of the table: one that is free, or with all of them taken
\* one that nobody was seen with before.
LEMMA ChosenEntry ==
  ASSUME AuthTypeOK
  PROVE  /\ Chosen \in Entries
         /\ sessions[Chosen].in_use => \A j \in Entries :
                sessions[j].in_use /\ sessions[Chosen].last_seen <= sessions[j].last_seen
<1>1. IsFiniteSet(Entries) /\ Entries \subseteq Int /\ Entries # {}
  BY EntriesFinite
<1>2. ASSUME NEW S, S \subseteq Entries, S # {}
      PROVE  First(S) \in S
  <2>1. IsFiniteSet(S)
    BY <1>1, <1>2, FS_Subset
  <2>2. [i \in S |-> i] \in [S -> Int]
    BY <1>1, <1>2
  <2>3. PICK i \in S : \A j \in S : [k \in S |-> k][i] <= [k \in S |-> k][j]
    BY <1>2, <2>1, <2>2, Least
  <2>4. \A j \in S : i <= j
    BY <2>3
  <2> QED  BY <2>4 DEF First
<1>3. CASE Free # {}
  <2>1. First(Free) \in Free
    BY <1>2, <1>3 DEF Free
  <2> QED  BY <1>3, <2>1 DEF Chosen, Free
<1>4. CASE Free = {}
  <2> DEFINE lastSeen == [i \in Entries |-> sessions[i].last_seen]
  <2>1. lastSeen \in [Entries -> Int]
    BY DEF AuthTypeOK
  <2>2. PICK i \in Entries : \A j \in Entries : lastSeen[i] <= lastSeen[j]
    <3> HIDE DEF lastSeen
    <3> QED  BY <1>1, <2>1, Least
  <2>3. i \in Oldest
    BY <2>2 DEF Oldest
  <2>4. First(Oldest) \in Oldest
    BY <1>2, <2>3 DEF Oldest
  <2>5. Chosen = First(Oldest)
    BY <1>4 DEF Chosen
  <2> QED  BY <1>4, <2>4, <2>5 DEF Oldest, Free
<1> QED  BY <1>3, <1>4
-----------------------------------------------------------------------------
(* The sessions' invariant. *)

\* No two tokens were seen at one time, none before it was issued, and none is seen
\* in the future.
SeenOnce ==
    \A t \in Tokens :
        /\ seen[t] <= now
        /\ seen[t] > 0 => t <= issued
        /\ \A u \in Tokens : seen[t] > 0 /\ seen[t] = seen[u] => t = u

\* A token has one entry at most, and it says when the token was seen last.
TableAsSeen ==
    \A i \in Entries : sessions[i].in_use =>
        /\ sessions[i].token \in Tokens
        /\ seen[sessions[i].token] = sessions[i].last_seen /\ sessions[i].last_seen > 0
        /\ \A j \in Entries :
              sessions[j].in_use /\ sessions[j].token = sessions[i].token => i = j

AuthInv == AuthTypeOK /\ SeenOnce /\ TableAsSeen /\ RecentClientsStaySignedIn

LEMMA AuthInitInv == AuthInit => AuthInv
<1> SUFFICES ASSUME AuthInit PROVE AuthInv
  OBVIOUS
<1>1. AuthTypeOK
  BY TableAssumption, TimeAssumption DEF AuthInit, AuthTypeOK, Unused, Nobody
<1>2. \A t \in Tokens : seen[t] = 0
  BY DEF AuthInit, Nobody
<1>3. \A i \in Entries : ~sessions[i].in_use
  BY DEF AuthInit, Unused
<1>4. SeenOnce /\ TableAsSeen
  BY <1>2, <1>3 DEF SeenOnce, TableAsSeen, AuthInit
<1>5. RecentClientsStaySignedIn
  BY <1>2 DEF RecentClientsStaySignedIn
<1> QED  BY <1>1, <1>4, <1>5 DEF AuthInv

\* Everybody signed out: nothing to keep.
LEMMA SignedOut ==
  ASSUME sessions' = [i \in Entries |-> Unused], seen' = Nobody, now' \in Nat
  PROVE  (SeenOnce /\ TableAsSeen /\ RecentClientsStaySignedIn)'
<1>1. \A t \in Tokens : seen'[t] = 0
  BY DEF Nobody
<1>2. \A i \in Entries : ~sessions'[i].in_use
  BY DEF Unused
<1>3. SeenOnce' /\ TableAsSeen'
  BY <1>1, <1>2 DEF SeenOnce, TableAsSeen
<1>4. RecentClientsStaySignedIn'
  BY <1>1 DEF RecentClientsStaySignedIn
<1> QED  BY <1>3, <1>4

LEMMA AuthTypeStep == AuthTypeOK /\ [AuthNext]_authVars => AuthTypeOK'
<1> SUFFICES ASSUME AuthTypeOK, [AuthNext]_authVars PROVE AuthTypeOK'
  OBVIOUS
<1> USE TableAssumption, TimeAssumption
<1>0. Unused \in [in_use : BOOLEAN, token : Tokens \cup {0}, last_seen : 0 .. MaxTime]
  BY DEF Unused
<1>1. ASSUME NEW t \in Tokens, Require(t)
      PROVE  AuthTypeOK'
  <2>1. now' \in 0 .. MaxTime
    BY <1>1 DEF Require, Later, AuthTypeOK
  <2>2. seen' \in [Tokens -> 0 .. MaxTime]
    BY <1>1, <2>1 DEF Require, Accepted, AuthTypeOK
  <2>3. sessions' \in [Entries -> [in_use : BOOLEAN, token : Tokens \cup {0},
                                   last_seen : 0 .. MaxTime]]
    <3>1. Expired \in [Entries -> [in_use : BOOLEAN, token : Tokens \cup {0},
                                    last_seen : 0 .. MaxTime]]
      BY <1>0 DEF Expired, AuthTypeOK
    <3>2. Touched(Expired, t) \in [Entries -> [in_use : BOOLEAN, token : Tokens \cup {0},
                                                last_seen : 0 .. MaxTime]]
      BY <2>1, <3>1 DEF Touched
    <3> QED  BY <1>1, <3>2 DEF Require, AuthTypeOK
  <2> QED  BY <1>1, <2>1, <2>2, <2>3 DEF Require, AuthTypeOK
<1>2. CASE Login
  <2>1. now' \in 0 .. MaxTime /\ issued' \in Tokens
    BY <1>2 DEF Login, Later, AuthTypeOK, Tokens
  <2>2. sessions' \in [Entries -> [in_use : BOOLEAN, token : Tokens \cup {0},
                                   last_seen : 0 .. MaxTime]]
    BY <1>2, <2>1 DEF Login, AuthTypeOK
  <2>3. seen' \in [Tokens -> 0 .. MaxTime]
    BY <1>2, <2>1 DEF Login, Accepted, AuthTypeOK
  <2> QED  BY <1>2, <2>1, <2>2, <2>3 DEF Login, AuthTypeOK, Tokens
<1>3. CASE LoginFails
  BY <1>3 DEF LoginFails, Later, AuthTypeOK
<1>4. CASE SavePassword
  BY <1>0, <1>4 DEF SavePassword, Later, Nobody, AuthTypeOK
<1>5. CASE Restarted
  BY <1>0, <1>5 DEF Restarted, Nobody, AuthTypeOK
<1>6. CASE UNCHANGED authVars
  BY <1>6 DEF authVars, AuthTypeOK
<1> QED  BY <1>1, <1>2, <1>3, <1>4, <1>5, <1>6 DEF AuthNext

\* Time goes by: the same table, and whoever was seen is a little less lately seen.
LEMMA TimePasses ==
  ASSUME AuthInv, UNCHANGED <<sessions, seen, issued>>, now' \in Nat, now <= now'
  PROVE  (SeenOnce /\ TableAsSeen /\ RecentClientsStaySignedIn)'
<1>1. now \in Nat /\ seen \in [Tokens -> Nat] /\ IdleTimeout \in Nat
  BY TimeAssumption DEF AuthInv, AuthTypeOK
<1>2. SeenOnce' /\ TableAsSeen'
  BY <1>1 DEF AuthInv, SeenOnce, TableAsSeen
<1>3. ASSUME NEW t \in Tokens, now' - seen[t] <= IdleTimeout
      PROVE  now - seen[t] <= IdleTimeout
  BY <1>1, <1>3
<1>4. RecentClientsStaySignedIn'
  BY <1>3 DEF AuthInv, RecentClientsStaySignedIn, SeenLater
<1> QED  BY <1>2, <1>4

\* A request of token t's client lets go of what has timed out, and of nothing that
\* was seen within the timeout; it can only put t after the others.
LEMMA RequireKeeps ==
  ASSUME AuthInv, AuthTypeOK', NEW t \in Tokens, Require(t), ~auth_disabled
  PROVE  (SeenOnce /\ TableAsSeen /\ RecentClientsStaySignedIn)'
<1>1. /\ now \in Nat /\ now' \in Nat /\ now < now' /\ IdleTimeout \in Nat
      /\ seen \in [Tokens -> Nat] /\ seen' \in [Tokens -> Nat] /\ issued' = issued
  BY TimeAssumption DEF AuthInv, AuthTypeOK, Require, Later
<1>2. /\ sessions' = Touched(Expired, t)
      /\ seen' = IF Holders(Expired, t) = {} THEN seen ELSE Accepted(t)
  BY DEF Require
<1>3. \A i \in Entries : Expired[i] = IF Stale(i) THEN Unused ELSE sessions[i]
  BY DEF Expired
<1>4. \A i \in Entries :
        /\ i \in Holders(Expired, t)
              => sessions[i].in_use /\ sessions[i].token = t
                 /\ sessions'[i].in_use /\ sessions'[i].token = t
                 /\ sessions'[i].last_seen = now'
                 /\ sessions'[i] = [in_use |-> TRUE, token |-> t, last_seen |-> now']
        /\ i \notin Holders(Expired, t) => sessions'[i] = Expired[i]
        /\ i \notin Holders(Expired, t) /\ sessions'[i].in_use
              => sessions'[i] = sessions[i] /\ sessions[i].token # t
  <2> SUFFICES ASSUME NEW i \in Entries
               PROVE  /\ i \in Holders(Expired, t)
                           => sessions[i].in_use /\ sessions[i].token = t
                              /\ sessions'[i].in_use /\ sessions'[i].token = t
                              /\ sessions'[i].last_seen = now'
                              /\ sessions'[i] = [in_use |-> TRUE, token |-> t,
                                                 last_seen |-> now']
                      /\ i \notin Holders(Expired, t) => sessions'[i] = Expired[i]
                      /\ i \notin Holders(Expired, t) /\ sessions'[i].in_use
                           => sessions'[i] = sessions[i] /\ sessions[i].token # t
    OBVIOUS
  <2>1. sessions[i] \in [in_use : BOOLEAN, token : Tokens \cup {0}, last_seen : 0 .. MaxTime]
    BY DEF AuthInv, AuthTypeOK
  <2>2. CASE i \in Holders(Expired, t)
    <3>1. Expired[i] = sessions[i] /\ sessions[i].in_use /\ sessions[i].token = t
      BY <1>3, <2>2 DEF Holders, Unused
    <3>2. sessions'[i] = [Expired[i] EXCEPT !.last_seen = now']
      BY <1>2, <2>2 DEF Touched
    <3>3. sessions'[i] = [in_use |-> TRUE, token |-> t, last_seen |-> now']
      BY <2>1, <3>1, <3>2
    <3> QED  BY <2>2, <3>1, <3>3
  <2>3. CASE i \notin Holders(Expired, t)
    <3>1. sessions'[i] = Expired[i]
      BY <1>2, <2>3 DEF Touched
    <3>2. CASE sessions'[i].in_use
      BY <1>3, <2>3, <3>1, <3>2 DEF Holders, Unused
    <3> QED  BY <2>3, <3>1, <3>2
  <2> QED  BY <2>2, <2>3
<1>5. \A u \in Tokens : u # t => seen'[u] = seen[u]
  BY <1>1, <1>2 DEF Accepted
<1>6. IF Holders(Expired, t) = {} THEN seen'[t] = seen[t] ELSE seen'[t] = now'
  BY <1>1, <1>2 DEF Accepted
<1>7. SeenOnce'
  <2>1. CASE Holders(Expired, t) = {}
    BY <1>1, <1>2, <2>1 DEF AuthInv, SeenOnce
  <2>2. CASE Holders(Expired, t) # {}
    <3>1. PICK i \in Entries : sessions[i].in_use /\ sessions[i].token = t
      BY <1>4, <2>2 DEF Holders
    <3>2. t <= issued
      BY <1>1, <3>1 DEF AuthInv, TableAsSeen, SeenOnce
    <3>3. seen'[t] = now'
      BY <1>6, <2>2
    <3> QED  BY <1>1, <1>5, <3>2, <3>3 DEF AuthInv, SeenOnce
  <2> QED  BY <2>1, <2>2
<1>8. TableAsSeen'
  <2> SUFFICES ASSUME NEW i \in Entries, sessions'[i].in_use
               PROVE  /\ sessions'[i].token \in Tokens
                      /\ seen'[sessions'[i].token] = sessions'[i].last_seen
                      /\ sessions'[i].last_seen > 0
                      /\ \A j \in Entries :
                           sessions'[j].in_use /\ sessions'[j].token = sessions'[i].token
                               => i = j
    BY DEF TableAsSeen
  <2>1. \A j \in Entries : sessions'[j].in_use
           => sessions[j].in_use /\ sessions'[j].token = sessions[j].token
    BY <1>4
  <2>2. \A j \in Entries :
           sessions'[j].in_use /\ sessions'[j].token = sessions'[i].token => i = j
    BY <2>1 DEF AuthInv, TableAsSeen
  <2>3. CASE i \in Holders(Expired, t)
    BY <1>1, <1>4, <1>6, <2>2, <2>3
  <2>4. CASE i \notin Holders(Expired, t)
    <3>1. sessions'[i] = sessions[i] /\ sessions[i].token # t
      BY <1>4, <2>4
    <3>2. /\ sessions[i].token \in Tokens /\ sessions[i].last_seen > 0
          /\ seen[sessions[i].token] = sessions[i].last_seen
      BY <2>1 DEF AuthInv, TableAsSeen
    <3> QED  BY <1>5, <2>2, <3>1, <3>2
  <2> QED  BY <2>3, <2>4
<1>9. RecentClientsStaySignedIn'
  <2> SUFFICES ASSUME NEW u \in Tokens, seen'[u] > 0, now' - seen'[u] <= IdleTimeout,
                      Cardinality(SeenLater(u)') < MAX_SESSIONS
               PROVE  \E i \in Entries :
                         sessions'[i] = [in_use |-> TRUE, token |-> u, last_seen |-> seen'[u]]
    BY DEF RecentClientsStaySignedIn
  <2>1. CASE u = t /\ Holders(Expired, t) # {}
    <3>1. PICK i \in Entries : i \in Holders(Expired, t)
      BY <2>1 DEF Holders
    <3> QED  BY <1>4, <1>6, <2>1, <3>1
  <2>2. CASE ~(u = t /\ Holders(Expired, t) # {})
    <3>1. seen'[u] = seen[u]
      BY <1>5, <1>6, <2>2
    <3>2. Cardinality(SeenLater(u)) < MAX_SESSIONS
      <4>1. \A v \in Tokens : seen[v] <= seen'[v]
        BY <1>1, <1>5, <1>6 DEF AuthInv, SeenOnce
      <4>2. SeenLater(u) \subseteq SeenLater(u)' /\ SeenLater(u)' \subseteq Tokens
        BY <1>1, <3>1, <4>1 DEF SeenLater
      <4>3. IsFiniteSet(SeenLater(u)')
        BY <4>2, EntriesFinite, FS_Subset
      <4>4. Cardinality(SeenLater(u)) <= Cardinality(SeenLater(u)') /\ IsFiniteSet(SeenLater(u))
        BY <4>2, <4>3, FS_Subset
      <4>5. Cardinality(SeenLater(u)) \in Nat /\ Cardinality(SeenLater(u)') \in Nat
        BY <4>3, <4>4, FS_CardinalityType
      <4> QED  BY <4>4, <4>5, TableAssumption
    <3>3. now - seen[u] <= IdleTimeout /\ seen[u] > 0
      BY <1>1, <3>1
    <3>4. PICK i \in Entries :
             sessions[i] = [in_use |-> TRUE, token |-> u, last_seen |-> seen[u]]
      BY <3>2, <3>3 DEF AuthInv, RecentClientsStaySignedIn
    <3>5. Expired[i] = sessions[i]
      BY <1>1, <1>3, <3>1, <3>4 DEF Stale
    <3>6. i \notin Holders(Expired, t)
      BY <2>2, <3>4, <3>5 DEF Holders
    <3> QED  BY <1>4, <3>1, <3>4, <3>5, <3>6
  <2> QED  BY <2>1, <2>2
<1> QED  BY <1>7, <1>8, <1>9

\* A login takes an entry. The one it takes, if any, was with a client that as many
\* have been seen after as the table has room for, the new one among them.
LEMMA LoginKeeps ==
  ASSUME AuthInv, AuthTypeOK', Login
  PROVE  (SeenOnce /\ TableAsSeen /\ RecentClientsStaySignedIn)'
<1> DEFINE n == issued'
           c == Chosen
<1>1. /\ now \in Nat /\ now' \in Nat /\ now < now' /\ IdleTimeout \in Nat
      /\ seen \in [Tokens -> Nat] /\ seen' \in [Tokens -> Nat]
      /\ issued \in Nat /\ n = issued + 1 /\ n \in Tokens
  BY TimeAssumption DEF AuthInv, AuthTypeOK, Login, Later, Tokens
<1>2. /\ c \in Entries
      /\ sessions[c].in_use => \A j \in Entries :
             sessions[j].in_use /\ sessions[c].last_seen <= sessions[j].last_seen
  BY ChosenEntry DEF AuthInv
<1>3. /\ sessions'[c] = [in_use |-> TRUE, token |-> n, last_seen |-> now']
      /\ \A j \in Entries : j # c => sessions'[j] = sessions[j]
  BY <1>2 DEF Login, AuthInv, AuthTypeOK
<1>4. seen'[n] = now' /\ \A u \in Tokens : u # n => seen'[u] = seen[u]
  BY <1>1 DEF Login, Accepted
<1>5. seen[n] = 0
  BY <1>1 DEF AuthInv, SeenOnce
<1>6. \A j \in Entries : sessions[j].in_use =>
         /\ sessions[j].token \in Tokens /\ sessions[j].token # n
         /\ seen[sessions[j].token] = sessions[j].last_seen /\ sessions[j].last_seen > 0
         /\ \A k \in Entries :
               sessions[k].in_use /\ sessions[k].token = sessions[j].token => j = k
  BY <1>5 DEF AuthInv, TableAsSeen
<1> HIDE DEF n, c
<1>7. SeenOnce'
  <2>1. \A t \in Tokens : seen[t] <= now /\ (seen[t] > 0 => t <= issued)
          /\ \A u \in Tokens : seen[t] > 0 /\ seen[t] = seen[u] => t = u
    BY DEF AuthInv, SeenOnce
  <2>2. \A t \in Tokens : t \in Nat
    BY DEF Tokens
  <2>3. \A t \in Tokens : seen'[t] <= now' /\ (seen'[t] > 0 => t <= n)
    BY <1>1, <1>4, <2>1, <2>2
  <2>4. \A t, u \in Tokens : seen'[t] > 0 /\ seen'[t] = seen'[u] => t = u
    BY <1>1, <1>4, <2>1
  <2> QED  BY <2>3, <2>4 DEF SeenOnce, n
<1>8. TableAsSeen'
  <2> SUFFICES ASSUME NEW i \in Entries, sessions'[i].in_use
               PROVE  /\ sessions'[i].token \in Tokens
                      /\ seen'[sessions'[i].token] = sessions'[i].last_seen
                      /\ sessions'[i].last_seen > 0
                      /\ \A j \in Entries :
                           sessions'[j].in_use /\ sessions'[j].token = sessions'[i].token
                               => i = j
    BY DEF TableAsSeen
  <2>1. CASE i = c
    BY <1>1, <1>3, <1>4, <1>6, <2>1
  <2>2. CASE i # c
    BY <1>3, <1>4, <1>6, <2>2
  <2> QED  BY <2>1, <2>2
<1>9. RecentClientsStaySignedIn'
  <2> SUFFICES ASSUME NEW u \in Tokens, seen'[u] > 0, now' - seen'[u] <= IdleTimeout,
                      Cardinality(SeenLater(u)') < MAX_SESSIONS
               PROVE  \E i \in Entries :
                         sessions'[i] = [in_use |-> TRUE, token |-> u, last_seen |-> seen'[u]]
    BY DEF RecentClientsStaySignedIn
  <2>1. CASE u = n
    BY <1>2, <1>3, <1>4, <2>1
  <2>2. CASE u # n
    <3>1. seen'[u] = seen[u]
      BY <1>4, <2>2
    <3>2. SeenLater(u) \subseteq SeenLater(u)' /\ SeenLater(u)' \subseteq Tokens
      <4>1. \A v \in Tokens : seen[v] > seen[u] => seen'[v] > seen'[u]
        <5>1. ASSUME NEW v \in Tokens, seen[v] > seen[u]
              PROVE  v # n
          BY <1>1, <1>5, <5>1
        <5> QED  BY <1>4, <3>1, <5>1
      <4> QED  BY <4>1 DEF SeenLater
    <3>3. IsFiniteSet(SeenLater(u)')
      BY <3>2, EntriesFinite, FS_Subset
    <3>4. Cardinality(SeenLater(u)) < MAX_SESSIONS
      <4>1. Cardinality(SeenLater(u)) <= Cardinality(SeenLater(u)') /\ IsFiniteSet(SeenLater(u))
        BY <3>2, <3>3, FS_Subset
      <4>2. Cardinality(SeenLater(u)) \in Nat /\ Cardinality(SeenLater(u)') \in Nat
        BY <3>3, <4>1, FS_CardinalityType
      <4> QED  BY <4>1, <4>2, TableAssumption
    <3>5. now - seen[u] <= IdleTimeout /\ seen[u] > 0
      BY <1>1, <3>1
    <3>6. PICK i \in Entries :
             sessions[i] = [in_use |-> TRUE, token |-> u, last_seen |-> seen[u]]
      BY <3>4, <3>5 DEF AuthInv, RecentClientsStaySignedIn
    <3>7. i # c
      <4> SUFFICES ASSUME i = c PROVE FALSE
        OBVIOUS
      <4>1. \A j \in Entries : sessions[j].in_use /\ seen[u] <= sessions[j].last_seen
        BY <1>2, <3>6
      <4> DEFINE e == [j \in Entries |-> IF j = c THEN n ELSE sessions[j].token]
      <4>2. \A j \in Entries : e[j] \in SeenLater(u)'
        <5> SUFFICES ASSUME NEW j \in Entries PROVE e[j] \in SeenLater(u)'
          OBVIOUS
        <5>1. CASE j = c
          <6>1. seen'[n] > seen'[u]
            BY <1>1, <1>4, <3>1 DEF AuthInv, SeenOnce
          <6> QED  BY <1>1, <5>1, <6>1 DEF SeenLater
        <5>2. CASE j # c
          <6>1. /\ sessions[j].token \in Tokens /\ sessions[j].token # n
                /\ sessions[j].token # u /\ seen[sessions[j].token] = sessions[j].last_seen
            BY <1>2, <1>6, <3>6, <4>1, <5>2
          <6>2. seen[sessions[j].token] > seen[u]
            <7>1. seen[sessions[j].token] # seen[u]
              BY <3>5, <6>1 DEF AuthInv, SeenOnce
            <7> QED  BY <1>1, <4>1, <6>1, <7>1
          <6>3. seen'[sessions[j].token] > seen'[u]
            BY <1>4, <3>1, <6>1, <6>2
          <6> QED  BY <5>2, <6>1, <6>3 DEF SeenLater
        <5> QED  BY <5>1, <5>2
      <4>3. \A j, k \in Entries : e[j] = e[k] => j = k
        BY <1>6, <4>1
      <4>4. e \in [Entries -> SeenLater(u)']
        BY <4>2
      <4> HIDE DEF e
      <4>5. e \in Injection(Entries, SeenLater(u)')
        BY <4>3, <4>4 DEF Injection, IsInjective
      <4>6. Cardinality(Entries) <= Cardinality(SeenLater(u)')
        BY <3>3, <4>5, FS_Injection
      <4>7. Cardinality(SeenLater(u)') \in Nat
        BY <3>3, FS_CardinalityType
      <4> QED  BY <4>6, <4>7, EntriesFinite, TableAssumption
    <3> QED  BY <1>3, <3>1, <3>6, <3>7
  <2> QED  BY <2>1, <2>2
<1> QED  BY <1>7, <1>8, <1>9

LEMMA AuthStep == AuthInv /\ [AuthNext]_authVars => AuthInv'
<1> SUFFICES ASSUME AuthInv, [AuthNext]_authVars PROVE AuthInv'
  OBVIOUS
<1>1. AuthTypeOK'
  BY AuthTypeStep DEF AuthInv
<1>2. now \in Nat /\ now' \in Nat
  BY <1>1 DEF AuthInv, AuthTypeOK
<1>3. ASSUME NEW t \in Tokens, Require(t)
      PROVE  (SeenOnce /\ TableAsSeen /\ RecentClientsStaySignedIn)'
  <2>1. CASE auth_disabled
    <3>1. UNCHANGED <<sessions, seen, issued>> /\ now <= now'
      BY <1>2, <1>3, <2>1 DEF Require, Later
    <3> QED  BY <1>2, <3>1, TimePasses
  <2>2. CASE ~auth_disabled
    BY <1>1, <1>3, <2>2, RequireKeeps
  <2> QED  BY <2>1, <2>2
<1>4. ASSUME Login
      PROVE  (SeenOnce /\ TableAsSeen /\ RecentClientsStaySignedIn)'
  BY <1>1, <1>4, LoginKeeps
<1>5. ASSUME LoginFails
      PROVE  (SeenOnce /\ TableAsSeen /\ RecentClientsStaySignedIn)'
  <2>1. UNCHANGED <<sessions, seen, issued>> /\ now <= now'
    BY <1>2, <1>5 DEF LoginFails, Later
  <2> QED  BY <1>2, <2>1, TimePasses
<1>6. ASSUME SavePassword
      PROVE  (SeenOnce /\ TableAsSeen /\ RecentClientsStaySignedIn)'
  BY <1>2, <1>6, SignedOut DEF SavePassword
<1>7. ASSUME Restarted
      PROVE  (SeenOnce /\ TableAsSeen /\ RecentClientsStaySignedIn)'
  BY <1>2, <1>7, SignedOut DEF Restarted
<1>8. ASSUME UNCHANGED authVars
      PROVE  (SeenOnce /\ TableAsSeen /\ RecentClientsStaySignedIn)'
  <2>1. UNCHANGED <<sessions, seen, issued>> /\ now <= now'
    BY <1>2, <1>8 DEF authVars
  <2> QED  BY <1>2, <2>1, TimePasses
<1> QED  BY <1>1, <1>3, <1>4, <1>5, <1>6, <1>7, <1>8 DEF AuthInv, AuthNext

-----------------------------------------------------------------------------
(* The theorems about the sessions. *)

\* Every variable of the session table stays in its set, with a table of any size
\* and any timeouts (api_auth.c).
THEOREM ApiTypesOK == AuthSpec => []AuthTypeOK
<1>1. AuthInit => AuthInv
  BY AuthInitInv
<1>2. AuthInv /\ [AuthNext]_authVars => AuthInv'
  BY AuthStep
<1>3. AuthInv => AuthTypeOK
  BY DEF AuthInv
<1> QED  BY <1>1, <1>2, <1>3, PTL DEF AuthSpec

\* The clients seen last, as many as the table has room for, stay signed in until
\* they time out or the password is changed, however many log in (api_auth.c:152).
THEOREM ApiRecentClientsStay == AuthSpec => []RecentClientsStaySignedIn
<1>1. AuthInit => AuthInv
  BY AuthInitInv
<1>2. AuthInv /\ [AuthNext]_authVars => AuthInv'
  BY AuthStep
<1>3. AuthInv => RecentClientsStaySignedIn
  BY DEF AuthInv
<1> QED  BY <1>1, <1>2, <1>3, PTL DEF AuthSpec

-----------------------------------------------------------------------------
(***************************************************************************)
(* The receivers of lines. What has been handed out and what is left in the*)
(* buffer make up what came, and a cut never falls but after a newline.    *)
(***************************************************************************)

(* Lines and buffers. *)

LEMMA EarliestIs ==
  ASSUME NEW n \in Nat, NEW I \in SUBSET (1 .. n), I # {}
  PROVE  Earliest(I) \in I /\ \A k \in I : Earliest(I) <= k
<1>1. IsFiniteSet(I)
  <2>1. IsFiniteSet(1 .. n)
    BY FS_Interval
  <2> QED  BY <2>1, FS_Subset
<1>2. PICK i \in I : \A k \in I : [x \in I |-> x][i] <= [x \in I |-> x][k]
  <2>1. [x \in I |-> x] \in [I -> Int]
    OBVIOUS
  <2> QED  BY <1>1, <2>1, Least
<1>3. \A k \in I : i <= k
  BY <1>2
<1> QED  BY <1>3 DEF Earliest

\* The first newline is the first: no line has another inside.
LEMMA NewlineIs ==
  ASSUME NEW b \in Seq(Bytes), HasLine(b)
  PROVE  Newline(b) \in 1 .. Len(b) /\ b[Newline(b)].nl
<1>1. Len(b) \in Nat /\ Newlines(b) \in SUBSET (1 .. Len(b)) /\ Newlines(b) # {}
  BY DEF HasLine, Newlines
<1>2. Newline(b) \in Newlines(b)
  BY <1>1, EarliestIs DEF Newline
<1> QED  BY <1>2 DEF Newlines

LEMMA PartOf ==
  ASSUME NEW b \in Seq(Bytes), NEW m \in 1 .. Len(b) + 1, NEW n \in 0 .. Len(b)
  PROVE  /\ SubSeq(b, m, n) \in Seq(Bytes)
         /\ Len(SubSeq(b, m, n)) <= Len(b)
         /\ Len(SubSeq(b, m, n)) = IF m <= n THEN n - m + 1 ELSE 0
         /\ \A i \in DOMAIN SubSeq(b, m, n) :
               m + i - 1 \in DOMAIN b /\ SubSeq(b, m, n)[i] = b[m + i - 1]
<1>1. Len(b) \in Nat /\ DOMAIN b = 1 .. Len(b) /\ \A i \in m .. n : b[i] \in Bytes
  OBVIOUS
<1>2. /\ SubSeq(b, m, n) \in Seq(Bytes)
      /\ Len(SubSeq(b, m, n)) = IF m <= n THEN n - m + 1 ELSE 0
      /\ \A i \in 1 .. n - m + 1 : SubSeq(b, m, n)[i] = b[m + i - 1]
  BY <1>1, SubSeqProperties
<1>3. DOMAIN SubSeq(b, m, n) = 1 .. Len(SubSeq(b, m, n))
  BY <1>2
<1> QED  BY <1>1, <1>2, <1>3

\* Cutting b after its kth byte loses nothing and changes no order.
LEMMA CutInTwo ==
  ASSUME NEW h \in Seq(Bytes), NEW b \in Seq(Bytes), NEW k \in 0 .. Len(b)
  PROVE  (h \o SubSeq(b, 1, k)) \o SubSeq(b, k + 1, Len(b)) = h \o b
<1>1. SubSeq(b, 1, k) \in Seq(Bytes) /\ SubSeq(b, k + 1, Len(b)) \in Seq(Bytes)
  BY PartOf
<1>2. SubSeq(b, 1, k) \o SubSeq(b, k + 1, Len(b)) = SubSeq(b, 1, Len(b))
  <2>1. Len(b) \in Nat /\ 1 \in 1 .. Len(b) + 1 /\ k \in 1 - 1 .. Len(b)
        /\ Len(b) \in k .. Len(b)
    OBVIOUS
  <2> QED  BY <2>1, ConcatAdjacentSubSeq
<1>3. SubSeq(b, 1, Len(b)) = b
  BY SubSeqFull
<1> DEFINE s == SubSeq(b, 1, k)
           t == SubSeq(b, k + 1, Len(b))
<1>0. s \in Seq(Bytes) /\ t \in Seq(Bytes)
  BY <1>1
<1> HIDE DEF s, t
<1>4. (h \o s) \o t = h \o (s \o t)
  BY <1>0, ConcatAssociative
<1>5. s \o t = b
  BY <1>2, <1>3 DEF s, t
<1>6. (h \o s) \o t = h \o b
  BY <1>4, <1>5, Zenon
<1> QED  BY <1>6 DEF s, t

LEMMA Joined ==
  ASSUME NEW b \in Seq(Bytes), NEW d \in Seq(Bytes)
  PROVE  /\ b \o d \in Seq(Bytes) /\ Len(b \o d) = Len(b) + Len(d)
         /\ \A i \in DOMAIN (b \o d) :
               \/ i \in DOMAIN b /\ (b \o d)[i] = b[i]
               \/ i - Len(b) \in DOMAIN d /\ (b \o d)[i] = d[i - Len(b)]
         /\ \A i \in DOMAIN b : i \in DOMAIN (b \o d) /\ (b \o d)[i] = b[i]
         /\ \A i \in DOMAIN d :
               Len(b) + i \in DOMAIN (b \o d) /\ (b \o d)[Len(b) + i] = d[i]
<1>1. Len(b) \in Nat /\ Len(d) \in Nat /\ DOMAIN b = 1 .. Len(b) /\ DOMAIN d = 1 .. Len(d)
  OBVIOUS
<1>2. /\ b \o d \in Seq(Bytes) /\ Len(b \o d) = Len(b) + Len(d)
      /\ \A i \in 1 .. Len(b) + Len(d) : (b \o d)[i] = IF i <= Len(b) THEN b[i]
                                                                   ELSE d[i - Len(b)]
  BY ConcatProperties
<1> DEFINE s == b \o d
<1>3. DOMAIN s = 1 .. Len(b) + Len(d)
  BY <1>2
<1> HIDE DEF s
<1>4. \A i \in 1 .. Len(b) + Len(d) : s[i] = IF i <= Len(b) THEN b[i] ELSE d[i - Len(b)]
  BY <1>2 DEF s
<1>5. \A i \in DOMAIN s :
         \/ i \in DOMAIN b /\ s[i] = b[i]
         \/ i - Len(b) \in DOMAIN d /\ s[i] = d[i - Len(b)]
  <2> SUFFICES ASSUME NEW i \in DOMAIN s
               PROVE  \/ i \in DOMAIN b /\ s[i] = b[i]
                      \/ i - Len(b) \in DOMAIN d /\ s[i] = d[i - Len(b)]
    OBVIOUS
  <2>0. i \in 1 .. Len(b) + Len(d)
    BY <1>3
  <2>1. CASE i <= Len(b)
    BY <1>1, <1>4, <2>0, <2>1
  <2>2. CASE ~(i <= Len(b))
    <3>1. i - Len(b) \in 1 .. Len(d)
      BY <1>1, <2>0, <2>2
    <3> QED  BY <1>1, <1>4, <2>0, <2>2, <3>1
  <2> QED  BY <2>1, <2>2
<1>6. \A i \in DOMAIN b : i \in DOMAIN s /\ s[i] = b[i]
  BY <1>1, <1>3, <1>4
<1>7. \A i \in DOMAIN d : Len(b) + i \in DOMAIN s /\ s[Len(b) + i] = d[i]
  <2> SUFFICES ASSUME NEW i \in DOMAIN d
               PROVE  Len(b) + i \in DOMAIN s /\ s[Len(b) + i] = d[i]
    OBVIOUS
  <2>1. /\ Len(b) + i \in 1 .. Len(b) + Len(d) /\ ~(Len(b) + i <= Len(b))
        /\ (Len(b) + i) - Len(b) = i
    BY <1>1
  <2> QED  BY <1>3, <1>4, <2>1
<1> QED  BY <1>2, <1>5, <1>6, <1>7 DEF s

\* Every byte of b is of this session.
OfNow(b) == \A i \in DOMAIN b : b[i].ses = ses

LEMMA Delivered ==
  ASSUME NEW n \in 1 .. MaxRead, NEW d, d \in Kept(n), ses \in 1 .. MaxSes
  PROVE  d \in Seq(Bytes) /\ OfNow(d) /\ Len(d) \in 0 .. n
<1>1. PICK k \in 0 .. n : d \in [1 .. k -> [nl : BOOLEAN, ses : {ses}]]
  BY DEF Kept
<1>2. n \in Nat /\ k \in Nat
  BY ReadAssumption
<1>3. d \in [1 .. k -> Bytes]
  BY <1>1 DEF Bytes
<1>4. d \in Seq(Bytes)
  BY <1>2, <1>3, SeqDef
<1>5. Len(d) = k
  BY <1>2, <1>3, <1>4, LenProperties
<1>6. OfNow(d)
  BY <1>1 DEF OfNow
<1> QED  BY <1>4, <1>5, <1>6

LEMMA OfNowParts ==
  ASSUME NEW b \in Seq(Bytes), NEW d \in Seq(Bytes), OfNow(b)
  PROVE  /\ OfNow(d) => OfNow(b \o d)
         /\ \A m \in 1 .. Len(b) + 1, n \in 0 .. Len(b) : OfNow(SubSeq(b, m, n))
<1>1. OfNow(d) => OfNow(b \o d)
  BY Joined DEF OfNow
<1>2. ASSUME NEW m \in 1 .. Len(b) + 1, NEW n \in 0 .. Len(b)
      PROVE  OfNow(SubSeq(b, m, n))
  BY PartOf DEF OfNow
<1> QED  BY <1>1, <1>2

\* What was an empty line stays one whatever comes after it.
LEMMA EmptyLineStays ==
  ASSUME NEW b \in Seq(Bytes), NEW d \in Seq(Bytes), EmptyLine(b)
  PROVE  EmptyLine(b \o d)
<1>1. PICK i \in DOMAIN b : b[i].nl /\ (i = 1 \/ b[i - 1].nl)
  BY DEF EmptyLine
<1>2. i \in DOMAIN (b \o d) /\ (b \o d)[i] = b[i]
  BY <1>1, Joined
<1>3. CASE i = 1
  BY <1>1, <1>2, <1>3 DEF EmptyLine
<1>4. CASE i # 1
  <2>1. i - 1 \in DOMAIN b
    BY <1>1, <1>4
  <2>2. (b \o d)[i - 1] = b[i - 1]
    BY <2>1, Joined
  <2> QED  BY <1>1, <1>2, <1>4, <2>2 DEF EmptyLine
<1> QED  BY <1>3, <1>4

-----------------------------------------------------------------------------
(* The receivers' invariant. *)

\* A secondary's buffer goes with its session, and holds and has given out nothing
\* of another.
OwnSession ==
    receiver = "secondary" => OfNow(rxbuf) /\ OfNow(handed) /\ (~up => rxbuf = <<>>)

\* Nothing has been lost, and no line but by an empty one.
InPlace ==
    up /\ (receiver = "secondary" \/ ~EmptyLine(came)) => handed \o rxbuf = came

\* What the primary has handed out ends with a line's end.
WholeLines ==
    up /\ receiver = "primary" /\ ~EmptyLine(came) =>
        handed = <<>> \/ handed[Len(handed)].nl

LineInv ==
    /\ LineTypeOK /\ OwnSession /\ InPlace /\ WholeLines
    /\ up => ses \in 1 .. MaxSes

\* The step begins with buffers that are sequences of bytes.
LEMMA Buffers ==
  ASSUME LineInv
  PROVE  /\ rxbuf \in Seq(Bytes) /\ came \in Seq(Bytes) /\ handed \in Seq(Bytes)
         /\ Len(rxbuf) \in Nat /\ MaxLine \in Nat /\ MaxSes \in Nat /\ MaxRead \in Nat
         /\ ses \in 0 .. MaxSes /\ up \in BOOLEAN /\ receiver \in Receivers
         /\ Len(rxbuf) < MaxLine \/ rxbuf = <<>>
<1>1. rxbuf \in Seq(Bytes) /\ came \in Seq(Bytes) /\ handed \in Seq(Bytes)
  BY DEF LineInv, LineTypeOK
<1>2. MaxLine \in Nat /\ MaxSes \in Nat /\ MaxRead \in Nat
  BY ReadAssumption, StreamAssumption
<1> QED  BY <1>1, <1>2 DEF LineInv, LineTypeOK

\* Taking a line from the front of b, if it has one, only moves where the one ends
\* and the other begins.
LEMMA LineTaken ==
  ASSUME handed \in Seq(Bytes), NEW b \in Seq(Bytes), TakeLine(b)
  PROVE  /\ handed' \in Seq(Bytes) /\ rxbuf' \in Seq(Bytes) /\ Len(rxbuf') <= Len(b)
         /\ handed' \o rxbuf' = handed \o b
         /\ OfNow(b) => OfNow(rxbuf')
         /\ OfNow(b) /\ OfNow(handed) => OfNow(handed')
<1>1. CASE HasLine(b)
  <2> DEFINE k == Newline(b)
  <2>1. k \in 1 .. Len(b) /\ k \in 0 .. Len(b) /\ k + 1 \in 1 .. Len(b) + 1
        /\ Len(b) \in 0 .. Len(b) /\ 1 \in 1 .. Len(b) + 1
    BY <1>1, NewlineIs
  <2>2. handed' = handed \o SubSeq(b, 1, k) /\ rxbuf' = SubSeq(b, k + 1, Len(b))
    BY <1>1 DEF TakeLine, Rest
  <2> HIDE DEF k
  <2>3. /\ SubSeq(b, 1, k) \in Seq(Bytes) /\ SubSeq(b, k + 1, Len(b)) \in Seq(Bytes)
        /\ Len(SubSeq(b, k + 1, Len(b))) <= Len(b)
    BY <2>1, PartOf
  <2>4. (handed \o SubSeq(b, 1, k)) \o SubSeq(b, k + 1, Len(b)) = handed \o b
    BY <2>1, CutInTwo
  <2>5. OfNow(b) => OfNow(SubSeq(b, 1, k)) /\ OfNow(SubSeq(b, k + 1, Len(b)))
    BY <2>1, OfNowParts
  <2>6. handed' \in Seq(Bytes)
    BY <2>2, <2>3, Joined
  <2>7. OfNow(b) /\ OfNow(handed) => OfNow(handed')
    BY <2>2, <2>3, <2>5, OfNowParts
  <2> QED  BY <2>2, <2>3, <2>4, <2>5, <2>6, <2>7
<1>2. CASE ~HasLine(b)
  BY <1>2 DEF TakeLine
<1> QED  BY <1>1, <1>2

\* A read comes after what there is.
LEMMA ReadAppends ==
  ASSUME LineInv, up, NEW n \in 1 .. MaxRead, NEW d \in Kept(n)
  PROVE  /\ d \in Seq(Bytes) /\ OfNow(d)
         /\ rxbuf \o d \in Seq(Bytes) /\ came \o d \in Seq(Bytes)
         /\ Len(rxbuf \o d) = Len(rxbuf) + Len(d) /\ Len(d) \in 0 .. n
         /\ OfNow(rxbuf) => OfNow(rxbuf \o d)
         /\ handed \o (rxbuf \o d) = (handed \o rxbuf) \o d
         /\ EmptyLine(came) => EmptyLine(came \o d)
<1>1. d \in Seq(Bytes) /\ OfNow(d) /\ Len(d) \in 0 .. n
  <2>1. ses \in 1 .. MaxSes
    BY DEF LineInv
  <2>2. d \in Seq(Bytes) /\ OfNow(d) /\ Len(d) \in 0 .. n
    BY <2>1, Delivered
  <2> QED  BY <2>2
<1>2. rxbuf \in Seq(Bytes) /\ came \in Seq(Bytes) /\ handed \in Seq(Bytes)
  BY Buffers
<1>3. handed \o (rxbuf \o d) = (handed \o rxbuf) \o d
  <2>1. d \in Seq(Bytes)
    BY <1>1
  <2> QED  BY <1>2, <2>1, ConcatAssociative
<1>4. /\ rxbuf \o d \in Seq(Bytes) /\ came \o d \in Seq(Bytes)
      /\ Len(rxbuf \o d) = Len(rxbuf) + Len(d)
  BY <1>1, <1>2, ConcatProperties
<1>5. OfNow(rxbuf) => OfNow(rxbuf \o d)
  BY <1>1, <1>2, OfNowParts
<1>6. EmptyLine(came) => EmptyLine(came \o d)
  BY <1>1, <1>2, EmptyLineStays
<1> QED  BY <1>1, <1>3, <1>4, <1>5, <1>6

-----------------------------------------------------------------------------
(* The receivers' steps. *)

LEMMA OpensStep ==
  ASSUME LineInv, Opens
  PROVE  LineInv'
<1>1. /\ ~up /\ ses < MaxSes /\ ses' = ses + 1 /\ up' = TRUE
      /\ came' = rxbuf /\ handed' = <<>> /\ UNCHANGED <<receiver, rxbuf>>
  BY DEF Opens
<1>2. /\ <<>> \in Seq(Bytes) /\ rxbuf \in Seq(Bytes) /\ ses' \in 1 .. MaxSes
      /\ <<>> \o rxbuf = rxbuf
  BY <1>1, Buffers, ConcatEmptySeq
<1>3. LineTypeOK'
  BY <1>1, <1>2, Buffers DEF LineTypeOK
<1>4. OwnSession'
  BY <1>1 DEF LineInv, OwnSession, OfNow
<1>5. InPlace' /\ WholeLines'
  BY <1>1, <1>2 DEF InPlace, WholeLines
<1> QED  BY <1>1, <1>2, <1>3, <1>4, <1>5 DEF LineInv

\* A session that is over promises nothing more.
LEMMA OverStep ==
  ASSUME LineInv, up' = FALSE, rxbuf' = <<>>, came' \in Seq(Bytes), UNCHANGED receiver,
         \/ UNCHANGED <<ses, handed>>
         \/ ses' = 0 /\ handed' = <<>>
  PROVE  LineInv'
<1>1. handed' \in Seq(Bytes) /\ <<>> \in Seq(Bytes)
  BY Buffers, EmptySeq
<1>2a. ses' \in 0 .. MaxSes
  BY Buffers
<1>2. LineTypeOK'
  BY <1>1, <1>2a, Buffers DEF LineTypeOK
<1>3. OwnSession'
  BY DEF LineInv, OwnSession, OfNow
<1> QED  BY <1>2, <1>3 DEF LineInv, InPlace, WholeLines

LEMMA PollStep ==
  ASSUME LineInv, Poll
  PROVE  LineInv'
<1>1. receiver = "secondary" /\ up /\ UNCHANGED <<receiver, ses>>
  BY DEF Poll
<1>2. /\ OfNow(rxbuf) /\ OfNow(handed) /\ handed \o rxbuf = came
      /\ ses \in 1 .. MaxSes
  BY <1>1 DEF LineInv, OwnSession, InPlace
<1>3. ASSUME NEW b \in Seq(Bytes), TakeLine(b), OfNow(b), handed \o b = came',
             came' \in Seq(Bytes), Len(b) < MaxLine \/ b = <<>>, UNCHANGED up
      PROVE  LineInv'
  <2>1. /\ handed' \in Seq(Bytes) /\ rxbuf' \in Seq(Bytes) /\ Len(rxbuf') <= Len(b)
        /\ handed' \o rxbuf' = came' /\ OfNow(rxbuf') /\ OfNow(handed')
    BY <1>2, <1>3, Buffers, LineTaken
  <2>2. Len(rxbuf') < MaxLine \/ rxbuf' = <<>>
    <3>1. Len(b) \in Nat /\ Len(rxbuf') \in Nat /\ MaxLine \in Nat
      BY <2>1, Buffers
    <3>2. CASE Len(b) < MaxLine
      BY <2>1, <3>1, <3>2
    <3>3. CASE b = <<>>
      <4>1. Len(rxbuf') = 0
        BY <2>1, <3>1, <3>3
      <4> QED  BY <2>1, <4>1
    <3> QED  BY <1>3, <3>2, <3>3
  <2>3. LineTypeOK'
    BY <1>1, <1>3, <2>1, <2>2, Buffers DEF LineTypeOK
  <2>4. OwnSession' /\ InPlace' /\ WholeLines'
    BY <1>1, <1>3, <2>1 DEF OwnSession, InPlace, WholeLines, OfNow
  <2> QED  BY <1>1, <1>2, <2>3, <2>4 DEF LineInv
<1>4. CASE HasLine(rxbuf) /\ TakeLine(rxbuf) /\ UNCHANGED <<up, came>>
  BY <1>2, <1>3, <1>4, Buffers
<1>5. ASSUME NEW n \in 1 .. MaxRead, NEW d \in Kept(n), came' = came \o d, Fits(n),
             TakeLine(rxbuf \o d), UNCHANGED up
      PROVE  LineInv'
  <2>1. /\ rxbuf \o d \in Seq(Bytes) /\ came \o d \in Seq(Bytes)
        /\ Len(rxbuf \o d) = Len(rxbuf) + Len(d) /\ Len(d) \in 0 .. n
        /\ OfNow(rxbuf \o d) /\ handed \o (rxbuf \o d) = (handed \o rxbuf) \o d
    BY <1>1, <1>2, ReadAppends
  <2>2. Len(rxbuf \o d) < MaxLine
    BY <1>5, <2>1, Buffers DEF Fits
  <2>3. handed \o (rxbuf \o d) = came'
    BY <1>2, <1>5, <2>1
  <2> QED  BY <1>3, <1>5, <2>1, <2>2, <2>3
<1>6. ASSUME NEW n \in 1 .. MaxRead, NEW d \in Kept(n), came' = came \o d,
             rxbuf' = <<>>, up' = FALSE, UNCHANGED handed
      PROVE  LineInv'
  <2>1. came' \in Seq(Bytes)
    BY <1>1, <1>6, ReadAppends
  <2> QED  BY <1>1, <1>6, <2>1, OverStep
<1> QED  BY <1>4, <1>5, <1>6 DEF Poll

LEMMA ReadMoreStep ==
  ASSUME LineInv, ReadMore
  PROVE  LineInv'
<1>1. receiver = "primary" /\ up /\ UNCHANGED <<receiver, ses, handed>>
  BY DEF ReadMore
<1>2. ASSUME NEW n \in 1 .. MaxRead, NEW d \in Kept(n), came' = came \o d, Fits(n),
             rxbuf' = rxbuf \o d, UNCHANGED up
      PROVE  LineInv'
  <2>1. /\ rxbuf \o d \in Seq(Bytes) /\ came \o d \in Seq(Bytes)
        /\ Len(rxbuf \o d) = Len(rxbuf) + Len(d) /\ Len(d) \in 0 .. n
        /\ handed \o (rxbuf \o d) = (handed \o rxbuf) \o d
        /\ EmptyLine(came) => EmptyLine(came \o d)
    BY <1>1, ReadAppends
  <2>2. Len(rxbuf \o d) < MaxLine
    BY <1>2, <2>1, Buffers DEF Fits
  <2>3. LineTypeOK'
    BY <1>1, <1>2, <2>1, <2>2, Buffers DEF LineTypeOK
  <2>4. EmptyLine(came)' = EmptyLine(came \o d)
    BY <1>2 DEF EmptyLine
  <2>5. InPlace' /\ WholeLines'
    BY <1>1, <1>2, <2>1, <2>4 DEF LineInv, InPlace, WholeLines
  <2>6. OwnSession' /\ (up' => ses' \in 1 .. MaxSes)
    BY <1>1, <1>2 DEF LineInv, OwnSession
  <2> QED  BY <2>3, <2>5, <2>6 DEF LineInv
<1>3. ASSUME NEW n \in 1 .. MaxRead, NEW d \in Kept(n), came' = came \o d,
             rxbuf' = <<>>, up' = FALSE
      PROVE  LineInv'
  <2>1. came' \in Seq(Bytes)
    BY <1>1, <1>3, ReadAppends
  <2> QED  BY <1>1, <1>3, <2>1, OverStep
<1> QED  BY <1>2, <1>3 DEF ReadMore

\* Where the primary's token is, and what is left of the buffer after it.
LEMMA TokenTypes ==
  ASSUME NEW b \in Seq(Bytes), HasLine(b), ses \in 1 .. MaxSes
  PROVE  /\ Token(b) \in Seq(Bytes) /\ Ending(b) \in Bytes
         /\ AfterToken(b) \in Seq(Bytes) /\ Len(AfterToken(b)) <= Len(b)
<1>1. Len(b) \in Nat /\ DOMAIN b = 1 .. Len(b)
  OBVIOUS
<1>2. Lead(b) \in 0 .. Len(b)
  <2>1. CASE Newlines(b) = DOMAIN b
    BY <1>1, <2>1 DEF Lead
  <2>2. CASE Newlines(b) # DOMAIN b
    <3>1. DOMAIN b \ Newlines(b) # {} /\ DOMAIN b \ Newlines(b) \in SUBSET (1 .. Len(b))
      BY <1>1, <2>2 DEF Newlines
    <3>2. Earliest(DOMAIN b \ Newlines(b)) \in 1 .. Len(b)
      BY <1>1, <3>1, EarliestIs
    <3> QED  BY <1>1, <2>2, <3>2 DEF Lead
  <2> QED  BY <2>1, <2>2
<1> DEFINE t == SubSeq(b, Lead(b) + 1, Len(b))
<1>3. t \in Seq(Bytes) /\ Len(t) = Len(b) - Lead(b) /\ Len(t) \in Nat
  <2>1. Lead(b) + 1 \in 1 .. Len(b) + 1 /\ Len(b) \in 0 .. Len(b)
    BY <1>1, <1>2
  <2>2. t \in Seq(Bytes) /\ Len(t) = IF Lead(b) + 1 <= Len(b) THEN Len(b) - (Lead(b) + 1) + 1 ELSE 0
    BY <2>1, PartOf
  <2> QED  BY <1>1, <1>2, <2>2
<1>4. Token(b) \in Seq(Bytes) /\ Len(Token(b)) <= Len(t)
  <2>1. Token(b) = IF HasLine(t) THEN SubSeq(t, 1, Newline(t) - 1) ELSE t
    BY DEF Token
  <2> HIDE DEF t
  <2>2. CASE HasLine(t)
    <3>1. 1 \in 1 .. Len(t) + 1 /\ Newline(t) - 1 \in 0 .. Len(t)
      BY <1>3, <2>2, NewlineIs
    <3> QED  BY <1>3, <2>1, <2>2, <3>1, PartOf
  <2>3. CASE ~HasLine(t)
    BY <1>3, <2>1, <2>3
  <2> QED  BY <2>2, <2>3
<1> HIDE DEF t
<1>5. /\ Len(Token(b)) \in Nat /\ Len(Token(b)) + Lead(b) <= Len(b)
      /\ Nul(b) = Lead(b) + Len(Token(b)) + 1 /\ Nul(b) \in 1 .. Len(b) + 1
  <2>1. Len(Token(b)) \in Nat
    BY <1>4
  <2>2. Len(Token(b)) + Lead(b) <= Len(b)
    BY <1>1, <1>2, <1>3, <1>4, <2>1
  <2> QED  BY <1>1, <1>2, <2>1, <2>2 DEF Nul
<1>6. Ending(b) \in Bytes
  <2>1. [nl |-> TRUE, ses |-> ses] \in Bytes
    BY DEF Bytes
  <2>2. Nul(b) <= Len(b) => b[Nul(b)] \in Bytes
    BY <1>1, <1>5
  <2> QED  BY <2>1, <2>2 DEF Ending
<1>7. AfterToken(b) \in Seq(Bytes) /\ Len(AfterToken(b)) <= Len(b)
  <2>1. CASE Lead(b) = 0
    <3>1. AfterToken(b) = SubSeq(b, Newline(b) + 1, Len(b))
      BY <2>1 DEF AfterToken, Rest
    <3>2. Newline(b) + 1 \in 1 .. Len(b) + 1 /\ Len(b) \in 0 .. Len(b)
      BY <1>1, NewlineIs
    <3> QED  BY <3>1, <3>2, PartOf
  <2>2. CASE Lead(b) # 0 /\ Nul(b) <= Len(b)
    <3>1. AfterToken(b) = SubSeq(b, Len(Token(b)) + 2, Nul(b) - 1)
      BY <2>2 DEF AfterToken
    <3>2. Len(Token(b)) + 2 \in 1 .. Len(b) + 1 /\ Nul(b) - 1 \in 0 .. Len(b)
      BY <1>1, <1>2, <1>5, <2>2
    <3> QED  BY <3>1, <3>2, PartOf
  <2>3. CASE Lead(b) # 0 /\ ~(Nul(b) <= Len(b))
    <3>1. AfterToken(b) = SubSeq(b, Len(Token(b)) + 2, Len(b))
      BY <2>3 DEF AfterToken
    <3>2. Len(Token(b)) + 2 \in 1 .. Len(b) + 1 /\ Len(b) \in 0 .. Len(b)
      BY <1>1, <1>2, <1>5, <2>3
    <3> QED  BY <3>1, <3>2, PartOf
  <2> QED  BY <2>1, <2>2, <2>3
<1> QED  BY <1>4, <1>6, <1>7

\* With no newline at the front, the token and its end are the first line, and the
\* buffer is moved by as much.
LEMMA TokenIsLine ==
  ASSUME NEW b \in Seq(Bytes), HasLine(b), ~b[1].nl
  PROVE  /\ Append(Token(b), Ending(b)) = SubSeq(b, 1, Newline(b))
         /\ Ending(b).nl
         /\ AfterToken(b) = SubSeq(b, Newline(b) + 1, Len(b))
<1> DEFINE k == Newline(b)
<1>1. k \in 1 .. Len(b) /\ b[k].nl /\ Len(b) \in Nat /\ DOMAIN b = 1 .. Len(b)
  BY NewlineIs
<1>2. Lead(b) = 0
  <2>1. 1 \in DOMAIN b \ Newlines(b)
    BY <1>1 DEF Newlines
  <2>2. DOMAIN b \ Newlines(b) \in SUBSET (1 .. Len(b))
    BY <1>1
  <2>3. /\ Earliest(DOMAIN b \ Newlines(b)) \in 1 .. Len(b)
        /\ Earliest(DOMAIN b \ Newlines(b)) <= 1
    BY <1>1, <2>1, <2>2, EarliestIs
  <2>4. Earliest(DOMAIN b \ Newlines(b)) = 1
    BY <1>1, <2>3
  <2>5. Newlines(b) # DOMAIN b
    BY <2>1
  <2> QED  BY <2>4, <2>5 DEF Lead
<1>3. SubSeq(b, 0 + 1, Len(b)) = b
  BY SubSeqFull
<1>4. Token(b) = SubSeq(b, 1, k - 1)
  BY <1>2, <1>3 DEF Token
<1> HIDE DEF k
<1>5. Token(b) \in Seq(Bytes) /\ Len(Token(b)) = k - 1
  <2>1. 1 \in 1 .. Len(b) + 1 /\ k - 1 \in 0 .. Len(b)
    BY <1>1
  <2>2. /\ SubSeq(b, 1, k - 1) \in Seq(Bytes)
        /\ Len(SubSeq(b, 1, k - 1)) = IF 1 <= k - 1 THEN (k - 1) - 1 + 1 ELSE 0
    BY <2>1, PartOf
  <2> QED  BY <1>1, <1>4, <2>2
<1>6. Nul(b) = k /\ Ending(b) = b[k] /\ b[k] \in Bytes
  <2>1. Nul(b) = k
    BY <1>1, <1>2, <1>5 DEF Nul
  <2> QED  BY <1>1, <2>1 DEF Ending
<1>7. Append(Token(b), Ending(b)) = SubSeq(b, 1, k)
  <2>1. SubSeq(b, 1, k) = SubSeq(b, 1, k - 1) \o << b[k] >>
    <3>1. 1 \in 1 .. Len(b) /\ k \in 1 .. Len(b)
      BY <1>1
    <3> QED  BY <3>1, SubSeqRecursiveSecond
  <2>2. Append(Token(b), Ending(b)) = Token(b) \o << Ending(b) >>
    BY <1>5, <1>6, AppendIsConcat
  <2> QED  BY <1>4, <1>6, <2>1, <2>2
<1>8. AfterToken(b) = SubSeq(b, k + 1, Len(b))
  BY <1>2 DEF AfterToken, Rest, k
<1>9. Ending(b).nl
  BY <1>1, <1>6
<1> QED  BY <1>7, <1>8, <1>9 DEF k

\* If no line of the stream is empty, the buffer does not begin with a newline: the
\* byte before it, if any, is the end of the last line handed out.
LEMMA NoNewlineFirst ==
  ASSUME LineInv, up, receiver = "primary", ~EmptyLine(came), HasLine(rxbuf)
  PROVE  ~rxbuf[1].nl
<1> SUFFICES ASSUME rxbuf[1].nl PROVE FALSE
  OBVIOUS
<1>1. came = handed \o rxbuf /\ (handed = <<>> \/ handed[Len(handed)].nl)
  BY DEF LineInv, InPlace, WholeLines
<1>2. rxbuf \in Seq(Bytes) /\ handed \in Seq(Bytes) /\ Len(handed) \in Nat
  BY Buffers
<1>3. 1 \in DOMAIN rxbuf
  BY <1>2, NewlineIs
<1>4. Len(handed) + 1 \in DOMAIN came /\ came[Len(handed) + 1].nl
  BY <1>1, <1>2, <1>3, Joined
<1>5. CASE handed = <<>>
  <2>1. Len(handed) + 1 = 1
    BY <1>5
  <2> QED  BY <1>4, <2>1 DEF EmptyLine
<1>6. CASE handed # <<>> /\ handed[Len(handed)].nl
  <2>1. Len(handed) \in DOMAIN handed
    BY <1>2, <1>6
  <2>2. came[Len(handed)] = handed[Len(handed)]
    BY <1>1, <1>2, <2>1, Joined
  <2>3. (Len(handed) + 1) - 1 = Len(handed)
    BY <1>2
  <2> QED  BY <1>4, <1>6, <2>2, <2>3 DEF EmptyLine
<1> QED  BY <1>1, <1>5, <1>6

LEMMA CutLineStep ==
  ASSUME LineInv, CutLine
  PROVE  LineInv'
<1>1. /\ receiver = "primary" /\ up /\ HasLine(rxbuf) /\ UNCHANGED <<receiver, ses, came>>
      /\ rxbuf' = AfterToken(rxbuf) /\ up' \in BOOLEAN
      /\ handed' = handed \o Append(Token(rxbuf), Ending(rxbuf))
  BY DEF CutLine
<1>2. /\ ses \in 1 .. MaxSes /\ rxbuf \in Seq(Bytes) /\ handed \in Seq(Bytes)
      /\ Len(rxbuf) \in Nat /\ MaxLine \in Nat
  BY <1>1, Buffers DEF LineInv
<1>3. /\ Append(Token(rxbuf), Ending(rxbuf)) \in Seq(Bytes)
      /\ rxbuf' \in Seq(Bytes) /\ Len(rxbuf') <= Len(rxbuf)
  BY <1>1, <1>2, TokenTypes, AppendProperties
<1>4. handed' \in Seq(Bytes)
  BY <1>1, <1>2, <1>3, Joined
<1>5. Len(rxbuf') < MaxLine
  <2>1. Len(rxbuf) # 0
    BY <1>1, <1>2, NewlineIs
  <2>2. Len(rxbuf) < MaxLine
    BY <2>1, Buffers
  <2> QED  BY <1>2, <1>3, <2>2
<1>6. LineTypeOK'
  BY <1>1, <1>3, <1>4, <1>5, Buffers DEF LineTypeOK
<1>7. ASSUME ~EmptyLine(came)
      PROVE  handed' \o rxbuf' = came /\ handed'[Len(handed')].nl
  <2> DEFINE k == Newline(rxbuf)
             line == SubSeq(rxbuf, 1, k)
  <2>1. ~rxbuf[1].nl
    BY <1>1, <1>7, NoNewlineFirst
  <2>2. /\ Append(Token(rxbuf), Ending(rxbuf)) = line /\ Ending(rxbuf).nl
        /\ rxbuf' = SubSeq(rxbuf, k + 1, Len(rxbuf))
    BY <1>1, <1>2, <2>1, TokenIsLine
  <2>3. k \in 1 .. Len(rxbuf) /\ k \in 0 .. Len(rxbuf)
    BY <1>1, <1>2, NewlineIs
  <2>4. handed' \o rxbuf' = handed \o rxbuf
    <3> HIDE DEF k
    <3> QED  BY <1>1, <1>2, <2>2, <2>3, CutInTwo
  <2>5. handed \o rxbuf = came
    BY <1>1, <1>7 DEF LineInv, InPlace
  <2>6. handed'[Len(handed')].nl
    <3>1. /\ line \in Seq(Bytes) /\ Len(line) \in DOMAIN line /\ line[Len(line)] = Ending(rxbuf)
      <4>1. Token(rxbuf) \in Seq(Bytes) /\ Ending(rxbuf) \in Bytes
        BY <1>1, <1>2, TokenTypes
      <4>2. /\ Append(Token(rxbuf), Ending(rxbuf)) \in Seq(Bytes)
            /\ Len(Append(Token(rxbuf), Ending(rxbuf))) = Len(Token(rxbuf)) + 1
            /\ Append(Token(rxbuf), Ending(rxbuf))[Len(Token(rxbuf)) + 1] = Ending(rxbuf)
        BY <4>1, AppendProperties
      <4>3. Len(Token(rxbuf)) + 1 \in 1 .. Len(Token(rxbuf)) + 1
        BY <4>1
      <4> HIDE DEF line
      <4> QED  BY <2>2, <4>2, <4>3
    <3> HIDE DEF line
    <3>2. handed' = handed \o line
      BY <1>1, <2>2
    <3>3. Len(handed') = Len(handed) + Len(line) /\ handed'[Len(handed) + Len(line)] = line[Len(line)]
      BY <1>2, <3>1, <3>2, Joined
    <3> QED  BY <2>2, <3>1, <3>3
  <2> QED  BY <2>4, <2>5, <2>6
<1>8. EmptyLine(came)' = EmptyLine(came)
  BY <1>1 DEF EmptyLine
<1>9. InPlace' /\ WholeLines' /\ OwnSession'
  BY <1>1, <1>7, <1>8 DEF InPlace, WholeLines, OwnSession
<1> QED  BY <1>1, <1>2, <1>6, <1>9 DEF LineInv

LEMMA LineStep == LineInv /\ [LineNext]_lineVars => LineInv'
<1> SUFFICES ASSUME LineInv, [LineNext]_lineVars PROVE LineInv'
  OBVIOUS
<1>1. CASE Ends
  <2>1. came' \in Seq(Bytes)
    BY <1>1, Buffers DEF Ends
  <2> QED  BY <1>1, <2>1, OverStep DEF Ends
<1>2. CASE Reboots
  <2>1. came' \in Seq(Bytes)
    BY <1>2, EmptySeq DEF Reboots
  <2> QED  BY <1>2, <2>1, OverStep DEF Reboots
<1>3. CASE CutNothing
  <2>1. came' \in Seq(Bytes)
    BY <1>3, Buffers DEF CutNothing
  <2> QED  BY <1>3, <2>1, OverStep DEF CutNothing
<1>4. CASE UNCHANGED lineVars
  BY <1>4 DEF lineVars, LineInv, LineTypeOK, OwnSession, InPlace, WholeLines, OfNow, EmptyLine
<1> QED
  BY <1>1, <1>2, <1>3, <1>4, OpensStep, PollStep, ReadMoreStep, CutLineStep DEF LineNext

LEMMA LineInitInv == LineInit => LineInv
<1> SUFFICES ASSUME LineInit PROVE LineInv
  OBVIOUS
<1>1. <<>> \in Seq(Bytes) /\ MaxSes \in Nat
  BY EmptySeq, StreamAssumption
<1>2. LineTypeOK
  <2>1. receiver \in Receivers /\ ses = 0 /\ up = FALSE
        /\ rxbuf = <<>> /\ came = <<>> /\ handed = <<>>
    BY DEF LineInit
  <2>2. ses \in 0 .. MaxSes
    BY <1>1, <2>1
  <2>3. rxbuf \in Seq(Bytes) /\ came \in Seq(Bytes) /\ handed \in Seq(Bytes)
    BY <1>1, <2>1
  <2> QED  BY <2>1, <2>2, <2>3 DEF LineTypeOK
<1>3. OwnSession /\ InPlace /\ WholeLines
  BY DEF LineInit, OwnSession, InPlace, WholeLines, OfNow
<1> QED  BY <1>2, <1>3 DEF LineInv, LineInit

-----------------------------------------------------------------------------
(* The theorems about the lines. *)

\* The buffers of both receivers hold bytes, and never more than a line may have
\* (stratum_recv_ctx.c, stratum_api.c).
THEOREM LineTypesOK == LineSpec => []LineTypeOK
<1>1. LineInit => LineInv
  BY LineInitInv
<1>2. LineInv /\ [LineNext]_lineVars => LineInv'
  BY LineStep
<1>3. LineInv => LineTypeOK
  BY DEF LineInv
<1> QED  BY <1>1, <1>2, <1>3, PTL DEF LineSpec

\* However the network cuts the stream up, the lines handed out are what came, in
\* order, whole, and none twice (stratum_recv_ctx.c:107, stratum_api.c:174).
THEOREM LineLinesAsSent == LineSpec => []LinesAsSent
<1>1. LineInit => LineInv
  BY LineInitInv
<1>2. LineInv /\ [LineNext]_lineVars => LineInv'
  BY LineStep
<1>3. LineInv => LinesAsSent
  BY DEF LineInv, InPlace, OwnSession, OfNow, LinesAsSent
<1> QED  BY <1>1, <1>2, <1>3, PTL DEF LineSpec

-----------------------------------------------------------------------------
(***************************************************************************)
(* The product. A step of it is a step of one machine, and leaves the      *)
(* others as they are: each of them behaves as it does alone.              *)
(***************************************************************************)

\* What the machine that moves leaves alone, each of the others calls a stutter.
LEMMA OneMoves ==
  ASSUME [PartsNext]_partsVars
  PROVE  /\ [Next]_vars /\ [LinkNext]_linkVars /\ [RingNext]_ringVars /\ [SlotNext]_slotVars
         /\ [LineNext]_lineVars /\ [AuthNext]_authVars /\ [HealthNext]_healthVars
         /\ [FanNext]_fanVars
         /\ UNCHANGED part
<1>1. CASE UNCHANGED partsVars
  BY <1>1 DEF partsVars
<1>2. CASE SchedulerMoves
  BY <1>2 DEF SchedulerMoves
<1>3. CASE FailoverMoves
  BY <1>3 DEF FailoverMoves
<1>4. CASE QueueMoves
  BY <1>4 DEF QueueMoves
<1>5. CASE SlotsMove
  BY <1>5 DEF SlotsMove
<1>6. CASE LinesMove
  BY <1>6 DEF LinesMove
<1>7. CASE SessionsMove
  BY <1>7 DEF SessionsMove
<1>8. CASE HealthMoves
  BY <1>8 DEF HealthMoves
<1>9. CASE FanMoves
  BY <1>9 DEF FanMoves
<1> QED
  BY <1>1, <1>2, <1>3, <1>4, <1>5, <1>6, <1>7, <1>8, <1>9 DEF PartsNext

LEMMA EachAlone ==
  PartsSpec => /\ Spec /\ LinkSpec /\ RingSpec /\ SlotSpec
               /\ LineSpec /\ AuthSpec /\ HealthSpec /\ FanSpec
               /\ [](part \in Parts)
<1>1. PartsInit => /\ Init /\ LinkInit /\ RingInit /\ SlotInit
                   /\ LineInit /\ AuthInit /\ HealthInit /\ FanInit /\ part \in Parts
  BY DEF PartsInit
<1>2. [PartsNext]_partsVars =>
         /\ [Next]_vars /\ [LinkNext]_linkVars /\ [RingNext]_ringVars /\ [SlotNext]_slotVars
         /\ [LineNext]_lineVars /\ [AuthNext]_authVars /\ [HealthNext]_healthVars
         /\ [FanNext]_fanVars
         /\ part' = part
  BY OneMoves
<1>3. part \in Parts /\ part' = part => (part \in Parts)'
  OBVIOUS
<1> QED
  BY <1>1, <1>2, <1>3, PTL DEF PartsSpec, Spec, LinkSpec, RingSpec, SlotSpec, LineSpec, AuthSpec,
     HealthSpec, FanSpec

-----------------------------------------------------------------------------
(* The theorems about the product. *)

\* Whatever machine moves, every variable of every one stays in its set.
THEOREM PartsTypesOK == PartsSpec => []PartsTypeOK
<1>1. PartsTypeOK <=> /\ part \in Parts
                      /\ TypeOK /\ LinkTypeOK /\ RingTypeOK /\ SlotTypeOK
                      /\ LineTypeOK /\ AuthTypeOK /\ HealthTypeOK /\ FanTypeOK
  BY DEF PartsTypeOK
<1> QED
  BY <1>1, EachAlone, SchedulerTypeOK, FailoverTypeOK, QueueTypeOK, SlotsTypeOK, LineTypesOK,
     ApiTypesOK, HealthTypesOK, FanTypes, PTL

\* What is proved of each machine alone, of the product that TLC runs.
THEOREM PartsSafe ==
  PartsSpec => /\ [](/\ ShareWithinBound /\ ZeroWeightNeverWins /\ EqualPoolsAlternate
                     /\ LinkMatchesRecord /\ NoEndpointPassedOver /\ JobsOwnedOnce
                     /\ LinesAsSent /\ RecentClientsStaySignedIn /\ DangerBounded /\ ShutdownHasCause)
               /\ PrimaryNotGivenUpEarly /\ ImplementsFifo /\ HotFanFull
  BY EachAlone, SchedulerShareWithinBound, SchedulerZeroWeightNeverWins,
     SchedulerEqualPoolsAlternate, FailoverLinkMatchesRecord, FailoverNoEndpointPassedOver, SlotsJobsOwnedOnce,
     LineLinesAsSent, ApiRecentClientsStay, DangerIsBounded, ShutdownsHaveCause,
     FailoverPrimaryNotGivenUpEarly, QueueImplementsFifo, HotFanIsFull, PTL
=============================================================================
