-------------------------- MODULE DialSweep_proofs --------------------------
(***************************************************************************)
(* Proofs about DialSweep, for any number of pools, any delays and any     *)
(* hosts: a connected pool is not left unread for longer than one dial     *)
(* takes. What makes it true is that `dialled` outlives the rest of the    *)
(* sweep, and that no sweep begins before every pool was read.             *)
(***************************************************************************)
EXTENDS DialSweep, TLAPS

\* How long the pools still to be read have been left: not at all before the sweep's
\* one dial, no longer than that dial after it, and the slice the clock sees besides
\* while they are read in turn.
LeftUnread ==
    \A p \in Pools : connected[p] =>
        /\ pc.at = "sweep" /\ ~pc.dialled => unread[p] = 0
        /\ pc.at \in {"sweep", "swept"}   => unread[p] <= LongestDial
        /\ pc.at = "service"              => unread[p] <= LongestDial + 1
        /\ pc.at = "service" /\ p < pc.p  => unread[p] = 0

\* A pool without a session is not counted for.
NotCounted == \A p \in Pools : ~connected[p] => unread[p] = 0

\* The retries are given up before the counter leaves its range.
RetriesInRange ==
    \A p \in Pools :
        fo[p].state \in {"TRY_PRIMARY", "TRY_FAILOVER"} => fo[p].retry_count <= MaxRetries + 1

SweepInv == TypeOK /\ LeftUnread /\ NotCounted /\ RetriesInRange

-----------------------------------------------------------------------------
(* The record. *)

InRange(f) ==
    /\ f \in Failover
    /\ f.state \in {"TRY_PRIMARY", "TRY_FAILOVER"} => f.retry_count <= MaxRetries + 1

LEMMA ToInRange ==
  ASSUME NEW f, InRange(f), NEW s \in PfStates, NEW n \in 0 .. MaxRetries + 2,
         s \in {"TRY_PRIMARY", "TRY_FAILOVER"} => n <= MaxRetries + 1
  PROVE  InRange(FoTo(f, s, n))
BY DEF InRange, FoTo, Failover

LEMMA RecordInRange ==
  ASSUME NEW f, InRange(f)
  PROVE  InRange(FoConnected(f)) /\ InRange(FoDisconnected(f))
<1> USE MaxRetriesAssumption
<1>1. /\ 0 \in 0 .. MaxRetries + 2 /\ 1 \in 0 .. MaxRetries + 2
      /\ 0 <= MaxRetries + 1 /\ 1 <= MaxRetries + 1
  OBVIOUS
<1>2. \A s \in PfStates : InRange(FoTo(f, s, 0)) /\ InRange(FoTo(f, s, 1))
  BY <1>1, ToInRange
<1>3. InRange(FoConnected(f))
  BY <1>2 DEF FoConnected, PfStates
<1>4. f.retry_count \in 0 .. MaxRetries + 2 /\ f.state \in PfStates
  BY DEF InRange, Failover
<1>5. ASSUME f.state \in {"TRY_PRIMARY", "TRY_FAILOVER"}
      PROVE  /\ f.retry_count + 1 \in 0 .. MaxRetries + 2
             /\ f.retry_count + 1 <= MaxRetries =>
                    InRange(FoTo(f, f.state, f.retry_count + 1))
             /\ InRange(FoTo(f, "DOWN", f.retry_count + 1))
  <2>1. f.retry_count + 1 \in 0 .. MaxRetries + 2
    BY <1>4, <1>5 DEF InRange
  <2>2. InRange(FoTo(f, "DOWN", f.retry_count + 1))
    BY <2>1, ToInRange DEF PfStates
  <2>3. ASSUME f.retry_count + 1 <= MaxRetries
        PROVE  InRange(FoTo(f, f.state, f.retry_count + 1))
    <3>1. f.retry_count + 1 <= MaxRetries + 1
      BY <2>1, <2>3
    <3> QED  BY <1>4, <2>1, <3>1, ToInRange
  <2> QED  BY <2>1, <2>2, <2>3
<1>6. InRange(FoDisconnected(f))
  <2>1. CASE f.state = "ON_PRIMARY"
    BY <1>2, <2>1 DEF FoDisconnected, PfStates
  <2>2. CASE f.state = "TRY_PRIMARY"
    BY <1>2, <1>5, <2>2 DEF FoDisconnected, PfStates
  <2>3. CASE f.state = "TRY_FAILOVER"
    BY <1>2, <1>5, <2>3 DEF FoDisconnected, PfStates
  <2>4. CASE f.state \in {"ON_FAILOVER", "DOWN"}
    BY <1>2, <2>4 DEF FoDisconnected, PfStates
  <2> QED  BY <1>4, <2>1, <2>2, <2>3, <2>4 DEF PfStates
<1> QED  BY <1>3, <1>6

-----------------------------------------------------------------------------
(* Time. *)

\* d seconds leave every wait in its range, and add to what a connected pool has
\* been left unread.
LEMMA ElapseTypes ==
  ASSUME TypeOK, NEW d \in Nat
  PROVE  /\ Elapse(d) => /\ wait' \in [Pools -> 0 .. RetryDelay] /\ unread' \in [Pools -> Nat]
                         /\ \A p \in Pools :
                               unread'[p] = IF connected[p] THEN unread[p] + d ELSE 0
         /\ \A q \in Pools : ElapseAndRetry(d, q) =>
                         /\ wait' \in [Pools -> 0 .. RetryDelay] /\ unread' \in [Pools -> Nat]
                         /\ \A p \in Pools :
                               unread'[p] = IF connected[p] /\ p # q THEN unread[p] + d ELSE 0
<1>1. \A p \in Pools : wait[p] \in 0 .. RetryDelay /\ unread[p] \in Nat
  BY DEF TypeOK
<1>2. RetryDelay \in Nat /\ \A n \in 0 .. RetryDelay : Later(n, d) \in 0 .. RetryDelay
  BY DelaysAssumption DEF Later
<1> QED  BY <1>1, <1>2 DEF Elapse, ElapseAndRetry

LEMMA DialTimesBounded ==
  ASSUME NEW p \in Pools, NEW d \in DialTimes(p)
  PROVE  d \in Nat /\ d <= LongestDial
BY DelaysAssumption DEF DialTimes, LongestDial

\* The steps of the two loops.
LEMMA Turns ==
  ASSUME NEW p \in Pools
  PROVE  /\ \A b \in BOOLEAN :
               /\ NextOfSweep(p, b) \in [at : {"sweep", "swept", "service"}, p : Pools,
                                         dialled : BOOLEAN]
               /\ NextOfSweep(p, b).at \in {"sweep", "swept"}
               /\ NextOfSweep(p, b).at = "sweep" => NextOfSweep(p, b).dialled = b
         /\ NextOfService(p) \in [at : {"sweep", "swept", "service"}, p : Pools,
                                  dialled : BOOLEAN]
         /\ NextOfService(p).at \in {"sweep", "service"}
         /\ NextOfService(p).at = "service" => NextOfService(p).p = p + 1
         /\ NextOfService(p).at = "sweep" => \A q \in Pools : q <= p
<1>1. NPools \in Nat /\ 1 \in Pools /\ (p < NPools => p + 1 \in Pools)
      /\ (~(p < NPools) => \A q \in Pools : q <= p)
  BY PoolsAssumption DEF Pools
<1> QED  BY <1>1 DEF NextOfSweep, NextOfService, Goto

LEMMA SweepInitInv == Init => SweepInv
<1> SUFFICES ASSUME Init PROVE SweepInv
  OBVIOUS
<1>1. 1 \in Pools /\ NPools \in Nat
  BY PoolsAssumption DEF Pools
<1>2. \A has \in BOOLEAN : InRange(FoInit(has))
  BY MaxRetriesAssumption DEF InRange, FoInit, Failover, PfStates
<1>3. \A p \in Pools : InRange(fo[p])
  BY <1>2, FailoverChoicesAssumption DEF Init
<1>4. fo \in [Pools -> Failover] /\ RetriesInRange
  <2>1. fo = [p \in Pools |-> fo[p]]
    BY DEF Init
  <2> QED  BY <1>3, <2>1 DEF InRange, RetriesInRange
<1>5. TypeOK
  BY <1>1, <1>4, DelaysAssumption DEF Init, TypeOK, Goto
<1>6. LeftUnread /\ NotCounted
  BY DEF Init, LeftUnread, NotCounted, Goto
<1> QED  BY <1>4, <1>5, <1>6 DEF SweepInv

\* The record of pool p takes a step and the others stay.
LEMMA RecordStep ==
  ASSUME TypeOK, RetriesInRange, NEW p \in Pools,
         fo' \in {[fo EXCEPT ![p] = FoConnected(@)], [fo EXCEPT ![p] = FoDisconnected(@)]}
  PROVE  fo' \in [Pools -> Failover] /\ RetriesInRange'
<1>1. \A q \in Pools : InRange(fo[q])
  BY DEF TypeOK, RetriesInRange, InRange
<1>2. \A q \in Pools : InRange(fo'[q])
  BY <1>1, RecordInRange DEF TypeOK
<1>3. fo' = [q \in Pools |-> fo'[q]]
  BY DEF TypeOK
<1> QED  BY <1>2, <1>3 DEF InRange, RetriesInRange

-----------------------------------------------------------------------------
(* The steps. *)

\* What every step needs to know of the state it begins in.
LEMMA Known ==
  ASSUME SweepInv
  PROVE  /\ pc.p \in Pools /\ pc.dialled \in BOOLEAN /\ pc.at \in {"sweep", "swept", "service"}
         /\ \A p \in Pools : p \in Nat /\ unread[p] \in Nat /\ connected[p] \in BOOLEAN
         /\ LongestDial \in Nat /\ 1 \in Pools
         /\ fo \in [Pools -> Failover]
<1>1. LongestDial \in Nat /\ 1 \in Pools /\ \A p \in Pools : p \in Nat
  BY DelaysAssumption, PoolsAssumption DEF Pools, LongestDial
<1> QED  BY <1>1 DEF SweepInv, TypeOK

LEMMA SkipStep ==
  ASSUME SweepInv, SweepSkip
  PROVE  SweepInv'
<1>1. /\ pc.at = "sweep" /\ pc' = NextOfSweep(pc.p, pc.dialled)
      /\ UNCHANGED <<connected, wait, fo, host, unread>>
  BY DEF SweepSkip
<1>2. TypeOK' /\ RetriesInRange' /\ NotCounted'
  BY <1>1, Known, Turns DEF SweepInv, TypeOK, RetriesInRange, NotCounted
<1>3. LeftUnread'
  <2>1. pc'.at \in {"sweep", "swept"} /\ (pc'.at = "sweep" => pc'.dialled = pc.dialled)
    BY <1>1, Known, Turns
  <2> QED  BY <1>1, <2>1 DEF SweepInv, LeftUnread
<1> QED  BY <1>2, <1>3 DEF SweepInv

\* The one dial of a sweep, which a pool without a session is due for. The pools
\* with one have not been left unread yet.
LEMMA DialStep ==
  ASSUME SweepInv, SweepDial
  PROVE  SweepInv'
<1> DEFINE d == pc.p
<1>1. /\ pc.at = "sweep" /\ ~connected[d] /\ pc.dialled = FALSE
      /\ pc' = NextOfSweep(d, TRUE) /\ UNCHANGED host
  BY Known DEF SweepDial, Due
<1>2. /\ pc'.at \in {"sweep", "swept"} /\ (pc'.at = "sweep" => pc'.dialled)
      /\ pc' \in [at : {"sweep", "swept", "service"}, p : Pools, dialled : BOOLEAN]
  BY <1>1, Known, Turns
<1>3. \A p \in Pools : unread[p] = 0
  BY <1>1, Known DEF SweepInv, LeftUnread, NotCounted
<1>4. CASE Connects
  <2>1. PICK t \in DialTimes(d) : Elapse(t)
    BY <1>4 DEF Connects
  <2>2. connected' = [connected EXCEPT ![d] = TRUE]
    BY <1>4 DEF Connects
  <2>3. fo' \in [Pools -> Failover] /\ RetriesInRange'
    BY <1>4, Known, RecordStep DEF Connects, SweepInv
  <2>4. t \in Nat /\ t <= LongestDial
    BY Known, DialTimesBounded
  <2>5. /\ wait' \in [Pools -> 0 .. RetryDelay] /\ unread' \in [Pools -> Nat]
        /\ \A p \in Pools : unread'[p] = IF connected[p] THEN unread[p] + t ELSE 0
    BY <2>1, <2>4, ElapseTypes DEF SweepInv
  <2>6. TypeOK'
    BY <1>1, <1>2, <2>2, <2>3, <2>5 DEF SweepInv, TypeOK
  <2>7. \A p \in Pools : unread'[p] <= LongestDial
    BY <1>3, <2>4, <2>5, Known
  <2>8. \A p \in Pools : ~connected'[p] => unread'[p] = 0
    BY <2>2, <2>5 DEF SweepInv, TypeOK
  <2>9. LeftUnread' /\ NotCounted'
    BY <1>2, <2>7, <2>8 DEF LeftUnread, NotCounted
  <2> QED  BY <2>3, <2>6, <2>9 DEF SweepInv
<1>5. CASE ConnectFails
  <2>0. PICK t \in DialTimes(d) : ElapseAndRetry(t, d)
    BY <1>5 DEF ConnectFails, DueAgainLater
  <2>1. UNCHANGED connected /\ t \in Nat /\ t <= LongestDial
    BY <1>5, Known, DialTimesBounded DEF ConnectFails
  <2>2. fo' \in [Pools -> Failover] /\ RetriesInRange'
    BY <1>5, Known, RecordStep DEF ConnectFails, SweepInv
  <2>3. /\ wait' \in [Pools -> 0 .. RetryDelay] /\ unread' \in [Pools -> Nat]
        /\ \A p \in Pools :
              unread'[p] = IF connected[p] /\ p # d THEN unread[p] + t ELSE 0
    BY <2>0, <2>1, Known, ElapseTypes DEF SweepInv
  <2>4. TypeOK'
    BY <1>1, <1>2, <2>1, <2>2, <2>3 DEF SweepInv, TypeOK
  <2>5. \A p \in Pools : unread'[p] <= LongestDial
    BY <1>3, <2>1, <2>3, Known
  <2>6. LeftUnread' /\ NotCounted'
    BY <1>2, <2>1, <2>3, <2>5 DEF LeftUnread, NotCounted
  <2> QED  BY <2>2, <2>4, <2>6 DEF SweepInv
<1> QED  BY <1>4, <1>5 DEF SweepDial

\* The task only sleeps when there is nobody to be read.
LEMMA IdleStep ==
  ASSUME SweepInv, Idle
  PROVE  SweepInv'
<1>1. /\ \A p \in Pools : ~connected[p]
      /\ pc' = Goto("sweep", 1, FALSE) /\ UNCHANGED <<connected, fo, host>>
      /\ Elapse(IdleDelay)
  BY DEF Idle
<1>2. /\ wait' \in [Pools -> 0 .. RetryDelay] /\ unread' \in [Pools -> Nat]
      /\ \A p \in Pools : unread'[p] = 0
  BY <1>1, ElapseTypes, DelaysAssumption DEF SweepInv
<1>3. TypeOK'
  BY <1>1, <1>2, Known DEF SweepInv, TypeOK, Goto
<1>4. LeftUnread' /\ NotCounted' /\ RetriesInRange'
  BY <1>1, <1>2 DEF SweepInv, LeftUnread, NotCounted, RetriesInRange
<1> QED  BY <1>3, <1>4 DEF SweepInv

LEMMA StartServiceStep ==
  ASSUME SweepInv, StartService
  PROVE  SweepInv'
<1>1. /\ pc.at = "swept" /\ pc' = Goto("service", 1, FALSE)
      /\ UNCHANGED <<connected, fo, host>>
  BY DEF StartService
<1>2. PICK d \in {0, 1} : Elapse(d)
  BY DEF StartService
<1>3. /\ wait' \in [Pools -> 0 .. RetryDelay] /\ unread' \in [Pools -> Nat]
      /\ \A p \in Pools : unread'[p] = IF connected[p] THEN unread[p] + d ELSE 0
  BY <1>2, ElapseTypes DEF SweepInv
<1>4. TypeOK'
  BY <1>1, <1>3, Known DEF SweepInv, TypeOK, Goto
<1>5. \A p \in Pools : unread'[p] <= LongestDial + 1
  BY <1>1, <1>2, <1>3, Known DEF SweepInv, LeftUnread
<1>6. \A p \in Pools : ~(p < 1)
  BY DEF Pools
<1>7. pc'.at = "service" /\ pc'.p = 1
  BY <1>1 DEF Goto
<1>8. LeftUnread' /\ NotCounted' /\ RetriesInRange'
  BY <1>1, <1>3, <1>5, <1>6, <1>7 DEF SweepInv, LeftUnread, NotCounted, RetriesInRange
<1> QED  BY <1>4, <1>8 DEF SweepInv

\* Pool pc.p has been read or has no session, and the others before it were read
\* already; if it was the last, so were all.
LEMMA ServedInTurn ==
  ASSUME SweepInv, pc.at = "service", pc' = NextOfService(pc.p), UNCHANGED host,
         fo' \in [Pools -> Failover],
         wait' \in [Pools -> 0 .. RetryDelay],
         connected' \in [Pools -> BOOLEAN], \A p \in Pools : connected'[p] => connected[p],
         unread' \in [Pools -> Nat], \A p \in Pools : unread'[p] \in {0, unread[p]},
         unread'[pc.p] = 0, \A p \in Pools : ~connected'[p] => unread'[p] = 0
  PROVE  TypeOK' /\ LeftUnread' /\ NotCounted'
<1>1. /\ pc' \in [at : {"sweep", "swept", "service"}, p : Pools, dialled : BOOLEAN]
      /\ pc'.at \in {"sweep", "service"} /\ (pc'.at = "service" => pc'.p = pc.p + 1)
      /\ pc'.at = "sweep" => \A q \in Pools : q <= pc.p
  BY Known, Turns
<1>2. TypeOK'
  BY <1>1 DEF SweepInv, TypeOK
<1>3. \A p \in Pools : connected'[p] /\ p <= pc.p => unread'[p] = 0
  <2>1. \A p \in Pools : connected[p] /\ p < pc.p => unread[p] = 0
    BY DEF SweepInv, LeftUnread
  <2>2. \A p \in Pools : p <= pc.p => p < pc.p \/ p = pc.p
    BY Known
  <2> QED  BY <2>1, <2>2
<1>4. \A p \in Pools : connected'[p] => unread'[p] <= LongestDial + 1
  BY Known DEF SweepInv, LeftUnread
<1>5. ASSUME NEW p \in Pools, connected'[p]
      PROVE  /\ pc'.at = "sweep" /\ ~pc'.dialled => unread'[p] = 0
             /\ pc'.at \in {"sweep", "swept"}    => unread'[p] <= LongestDial
             /\ pc'.at = "service"               => unread'[p] <= LongestDial + 1
             /\ pc'.at = "service" /\ p < pc'.p  => unread'[p] = 0
  <2>1. CASE pc'.at = "sweep"
    BY <1>1, <1>3, <1>5, <2>1, Known
  <2>2. CASE pc'.at = "service"
    <3>1. p < pc'.p => p <= pc.p
      BY <1>1, <2>2, Known
    <3> QED  BY <1>3, <1>4, <1>5, <2>2, <3>1
  <2> QED  BY <1>1, <2>1, <2>2
<1>6. LeftUnread'
  BY <1>5 DEF LeftUnread
<1> QED  BY <1>2, <1>6 DEF NotCounted

LEMMA ServiceStep ==
  ASSUME SweepInv, ServiceSkip \/ ServiceKeeps \/ ServiceLoses
  PROVE  SweepInv'
<1>1. CASE ServiceSkip \/ ServiceKeeps
  <2>1. /\ pc.at = "service" /\ pc' = NextOfService(pc.p)
        /\ UNCHANGED <<connected, wait, fo, host>>
    BY <1>1 DEF ServiceSkip, ServiceKeeps
  <2>2. /\ unread' \in [Pools -> Nat] /\ unread'[pc.p] = 0
        /\ \A p \in Pools : unread'[p] \in {0, unread[p]}
    <3>1. CASE ServiceSkip
      BY <3>1, Known DEF ServiceSkip, SweepInv, TypeOK, NotCounted
    <3>2. CASE ServiceKeeps
      BY <3>2, Known DEF ServiceKeeps, SweepInv, TypeOK
    <3> QED  BY <1>1, <3>1, <3>2
  <2>3. \A p \in Pools : ~connected'[p] => unread'[p] = 0
    BY <2>1, <2>2 DEF SweepInv, NotCounted
  <2>4. TypeOK' /\ LeftUnread' /\ NotCounted'
    <3>1. /\ wait' \in [Pools -> 0 .. RetryDelay] /\ connected' \in [Pools -> BOOLEAN]
          /\ fo' \in [Pools -> Failover]
      BY <2>1 DEF SweepInv, TypeOK
    <3> QED  BY <2>1, <2>2, <2>3, <3>1, ServedInTurn
  <2>5. RetriesInRange'
    BY <2>1 DEF SweepInv, RetriesInRange
  <2> QED  BY <2>4, <2>5 DEF SweepInv
<1>2. CASE ServiceLoses
  <2> DEFINE q == pc.p
  <2>1. /\ pc.at = "service" /\ pc' = NextOfService(q) /\ UNCHANGED host
        /\ connected' = [connected EXCEPT ![q] = FALSE] /\ ElapseAndRetry(0, q)
    BY <1>2 DEF ServiceLoses
  <2>2. fo' \in [Pools -> Failover] /\ RetriesInRange'
    BY <1>2, Known, RecordStep DEF ServiceLoses, SweepInv
  <2>3. /\ wait' \in [Pools -> 0 .. RetryDelay] /\ unread' \in [Pools -> Nat]
        /\ \A p \in Pools : unread'[p] = IF connected[p] /\ p # q THEN unread[p] + 0 ELSE 0
    BY <2>1, Known, ElapseTypes DEF SweepInv
  <2>4. /\ connected' \in [Pools -> BOOLEAN]
        /\ \A p \in Pools : connected'[p] = (connected[p] /\ p # q)
    BY <2>1, Known DEF SweepInv, TypeOK
  <2>5. \A p \in Pools : unread'[p] = IF connected[p] /\ p # q THEN unread[p] ELSE 0
    BY <2>3, Known
  <2>6. TypeOK' /\ LeftUnread' /\ NotCounted'
    BY <2>1, <2>2, <2>3, <2>4, <2>5, Known, ServedInTurn
  <2> QED  BY <2>2, <2>6 DEF SweepInv
<1> QED  BY <1>1, <1>2

LEMMA SweepStep == SweepInv /\ [Next]_vars => SweepInv'
<1> SUFFICES ASSUME SweepInv, [Next]_vars PROVE SweepInv'
  OBVIOUS
<1>1. CASE UNCHANGED vars
  BY <1>1 DEF vars, SweepInv, TypeOK, LeftUnread, NotCounted, RetriesInRange
<1> QED
  BY <1>1, SkipStep, DialStep, IdleStep, StartServiceStep, ServiceStep DEF Next

-----------------------------------------------------------------------------
(* The theorems. *)

\* Every variable of the sweep stays in its set, for any pools, hosts and delays
\* (stratum_poolb_task.c).
THEOREM SweepTypesOK == Spec => []TypeOK
<1>1. Init => SweepInv
  BY SweepInitInv
<1>2. SweepInv /\ [Next]_vars => SweepInv'
  BY SweepStep
<1>3. SweepInv => TypeOK
  BY DEF SweepInv
<1> QED  BY <1>1, <1>2, <1>3, PTL DEF Spec

\* With any number of dead pools a connected one is read again within one dial and
\* one pass of read slices (stratum_poolb_task.c:177-179).
THEOREM SweepStallBounded == Spec => []StallBounded
<1>1. Init => SweepInv
  BY SweepInitInv
<1>2. SweepInv /\ [Next]_vars => SweepInv'
  BY SweepStep
<1>3. SweepInv => StallBounded
  <2>1. \A n \in Nat : n <= LongestDial => n <= LongestDial + 1
    BY DelaysAssumption DEF LongestDial
  <2> QED  BY <2>1, Known DEF SweepInv, LeftUnread, StallBounded
<1> QED  BY <1>1, <1>2, <1>3, PTL DEF Spec
=============================================================================
