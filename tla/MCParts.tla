------------------------------ MODULE MCParts ------------------------------
(***************************************************************************)
(* Instances for TLC of the machines that share no state with one another: *)
(* the scheduler, a pool's failover record, a work queue, the slot table,  *)
(* a receiver of lines, the API's sessions, the health checks and the fan. *)
(* Since none can see another move, their product has nothing to show: a   *)
(* behaviour picks one of them, `part`, and only that one moves.           *)
(***************************************************************************)
EXTENDS PoolScheduler, PoolFailover, WorkQueue, SlotTable, LineReceiver, ApiSessions,
        HealthMaintenance, FanControl

VARIABLE part

Parts == {"scheduler", "failover", "queue", "slots", "lines", "api", "health", "fan"}

\* The settings an owner may save: four pools, an even split, a stated one, a pool A
\* of 0 and of 100, a weight past the clamp, a change of slice length alone.
Saved(r, c, w1, w2, w3, i) ==
    [ratio_a |-> r, configured |-> c, weight |-> [j \in Secondaries |->
        CASE j = 1 -> w1 [] j = 2 -> w2 [] j = 3 -> w3], interval |-> i]

MCSettings == {Saved(25, Secondaries, 25, 25, 25, 1),
               Saved(40, Secondaries, 30, 20, 10, 1),
               Saved(0,  Secondaries, 7, 256, 0, 1),
               Saved(50, Secondaries, 0, 0, 0, 1),
               Saved(99, Secondaries, 0, 0, 0, 1),
               Saved(90, {1, 3}, 3, 0, 1, 1),
               Saved(100, {1, 2}, 0, 0, 0, 1),
               Saved(50, {1}, 0, 0, 0, 1),
               Saved(50, {1}, 0, 0, 0, 2),
               Saved(50, {}, 0, 0, 0, 1)}

partsVars == <<part, vars, linkVars, ringVars, slotVars, lineVars, authVars, healthVars, fanVars>>

\* A machine that does not move starts in one of its initial states.
Resting ==
    /\ part # "scheduler" => settings = Saved(50, {}, 0, 0, 0, 1)
    /\ part # "failover"  => fo = FoInit(TRUE) /\ reachable = {}
    /\ part # "queue"     => hand = [p \in Producers |-> [pool |-> 1, tag |-> 1]]
    /\ part # "lines"     => receiver = "primary"
    /\ part # "api"       => password
    /\ part # "health"    => setting = [auto |-> 1, driven |-> FALSE] /\ ~bc01
    /\ part # "fan"       => fan_percent = 0 /\ ~in_flow

PartsInit ==
    /\ part \in Parts
    /\ Init /\ LinkInit /\ RingInit /\ SlotInit /\ LineInit /\ AuthInit /\ HealthInit /\ FanInit
    /\ Resting

SchedulerMoves ==
    /\ part = "scheduler" /\ Next
    /\ UNCHANGED <<part, linkVars, ringVars, slotVars, lineVars, authVars, healthVars, fanVars>>
FailoverMoves ==
    /\ part = "failover" /\ LinkNext
    /\ UNCHANGED <<part, vars, ringVars, slotVars, lineVars, authVars, healthVars, fanVars>>
QueueMoves ==
    /\ part = "queue" /\ RingNext
    /\ UNCHANGED <<part, vars, linkVars, slotVars, lineVars, authVars, healthVars, fanVars>>
SlotsMove ==
    /\ part = "slots" /\ SlotNext
    /\ UNCHANGED <<part, vars, linkVars, ringVars, lineVars, authVars, healthVars, fanVars>>
LinesMove ==
    /\ part = "lines" /\ LineNext
    /\ UNCHANGED <<part, vars, linkVars, ringVars, slotVars, authVars, healthVars, fanVars>>
SessionsMove ==
    /\ part = "api" /\ AuthNext
    /\ UNCHANGED <<part, vars, linkVars, ringVars, slotVars, lineVars, healthVars, fanVars>>
HealthMoves ==
    /\ part = "health" /\ HealthNext
    /\ UNCHANGED <<part, vars, linkVars, ringVars, slotVars, lineVars, authVars, fanVars>>
FanMoves ==
    /\ part = "fan" /\ FanNext
    /\ UNCHANGED <<part, vars, linkVars, ringVars, slotVars, lineVars, authVars, healthVars>>

PartsNext == SchedulerMoves \/ FailoverMoves \/ QueueMoves
             \/ SlotsMove \/ LinesMove \/ SessionsMove \/ HealthMoves \/ FanMoves

PartsSpec == PartsInit /\ [][PartsNext]_partsVars

\* Every variable of every machine stays in the set its declaration gives it.
PartsTypeOK ==
    /\ part \in Parts
    /\ TypeOK /\ LinkTypeOK /\ RingTypeOK /\ SlotTypeOK
    /\ LineTypeOK /\ AuthTypeOK /\ HealthTypeOK /\ FanTypeOK
=============================================================================
