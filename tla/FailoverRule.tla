---------------------------- MODULE FailoverRule ----------------------------
(***************************************************************************)
(* The transition rule of components/dual_pool/pool_failover.c, as         *)
(* constant operators on the record pool_failover_t, so that the machine   *)
(* of one pool (PoolFailover), the task that dials one pool after another  *)
(* (DialSweep) and the sessions (SecondaryPools) use the same definition.  *)
(***************************************************************************)
EXTENDS Integers

CONSTANTS
    MaxRetries,     \* max_retries after the clamp at 0 (POOLB_MAX_RETRIES = 3)
    FailoverChoices \* whether a pool has a failover url: TRUE, FALSE or both

ASSUME MaxRetriesAssumption == MaxRetries \in Nat
ASSUME FailoverChoicesAssumption ==
    FailoverChoices \subseteq BOOLEAN /\ FailoverChoices # {}

PfStates == {"TRY_PRIMARY", "ON_PRIMARY", "TRY_FAILOVER", "ON_FAILOVER", "DOWN"}

\* A drop from the primary sets retry_count to 1 even when max_retries is 0, so
\* the counter can stand at max_retries + 2 when the pool is given up.
Failover == [state : PfStates, retry_count : 0 .. (MaxRetries + 2), has_failover : BOOLEAN]

FoInit(has) == [state |-> "TRY_PRIMARY", retry_count |-> 0, has_failover |-> has]

FoTo(f, s, n) == [f EXCEPT !.state = s, !.retry_count = n]

FoEndpoint(f) ==
    CASE f.state \in {"TRY_PRIMARY", "ON_PRIMARY"}   -> 0
      [] f.state \in {"TRY_FAILOVER", "ON_FAILOVER"} -> 1
      [] OTHER                                       -> -1

FoOnPrimary(f) == FoTo(f, "ON_PRIMARY", 0)      \* mutant: whichever it was dialled on
FoConnected(f) ==
    FoTo(f, IF f.state \in {"TRY_PRIMARY", "ON_PRIMARY"} THEN "ON_PRIMARY"
                                                        ELSE "ON_FAILOVER", 0)

\* The mutants: no way back from the failover; the first failure is the last.
FoNeverBack(f) ==
    CASE f.state = "ON_PRIMARY"                  -> FoTo(f, "TRY_PRIMARY", 1)
      [] f.state = "TRY_PRIMARY" /\ f.has_failover -> FoTo(f, "TRY_FAILOVER", 0)
      [] OTHER                                   -> f
FoOneStrike(f) ==
    IF f.state = "TRY_PRIMARY" /\ f.has_failover THEN FoTo(f, "TRY_FAILOVER", 0)
    ELSE FoTo(f, "TRY_PRIMARY", 0)

FoDisconnected(f) ==
    CASE f.state = "ON_PRIMARY"  -> FoTo(f, "TRY_PRIMARY", 1)
      [] f.state = "TRY_PRIMARY" ->
            IF f.retry_count + 1 <= MaxRetries THEN FoTo(f, "TRY_PRIMARY", f.retry_count + 1)
            ELSE IF f.has_failover THEN FoTo(f, "TRY_FAILOVER", 0)
            ELSE FoTo(f, "DOWN", f.retry_count + 1)
      [] f.state = "TRY_FAILOVER" ->
            IF f.retry_count + 1 <= MaxRetries THEN FoTo(f, "TRY_FAILOVER", f.retry_count + 1)
            ELSE FoTo(f, "TRY_PRIMARY", 0)
      [] OTHER -> FoTo(f, "TRY_PRIMARY", 0)
=============================================================================
