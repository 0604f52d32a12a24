------------------------- MODULE HealthMaintenance -------------------------
(***************************************************************************)
(* What turns the miner off before it burns: health_maintenance_task of    *)
(* main/tasks/health_maintennance.c, with the readings of main/device.c    *)
(* and of the two ways to count a fan: an EMC2302 with two channels, and   *)
(* the pulse counter of a BC01.                                            *)
(* Every two seconds it reads the fan and the temperatures, drives the fan *)
(* and looks for four faults: a fan it cannot read, a temperature it       *)
(* cannot read, a temperature past its limit, a driven fan that stands     *)
(* still. Any of them ends the loop: the power goes off, the fan to full,  *)
(* and the miner restarts a hundred seconds later.                         *)
(*                                                                         *)
(* A step is one check of a pass. The owner changes the settings and the   *)
(* rest of the world the temperatures, the fan and the buses at any time.  *)
(* A fan turned in a pass or did not; what the tachometer says of it is    *)
(* another matter. The EMC2302 answers 0 without an error for a fan below  *)
(* some 480 RPM, and for one whose own channel failed while the other did  *)
(* not. The pulse counter answers 0 when it was not read, and pulses of an *)
(* earlier pass when it was not cleared. A count of 0 from the EMC2302 is  *)
(* divided by, and the miner restarts.                                     *)
(* A temperature is over its limit or not; a duty is past the one from     *)
(* which a fan must turn or not. The duty the controller chooses is left   *)
(* open: FanControl has it.                                                *)
(***************************************************************************)
EXTENDS Naturals

CONSTANTS
    Sensors,            \* temperature sensors of the hash board: one or two
    MAX_READ_FAILURES,  \* failed reads in a row that end the loop (3)
    FAN_STALL_STRIKES   \* passes without rotation that end it (5)

ASSUME HealthAssumption ==
    /\ MAX_READ_FAILURES \in Nat \ {0}
    /\ FAN_STALL_STRIKES \in Nat \ {0}
    /\ MAX_READ_FAILURES <= FAN_STALL_STRIKES

VARIABLES
    bc01,               \* device_is_bc01_family: a pulse counter, not an EMC2302
    health,             \* the check of the pass the task is at
    fan_read_failures,
    temp_read_failures,
    fan_error_counter,
    fan_rpm,            \* whether fan_rpm[0] is above 0
    fan_tach_proven,
    sampled,            \* read_fan_rpm has its first sample, last_us
    pulses_left,        \* the pulse counter holds pulses of an earlier pass
    fan_eft,            \* the duty is the owner's, not the controller's
    driven,             \* fan_percent is FAN_STALL_MIN_DUTY or more
    setting,            \* NVS: the automatic fan, and whether its duty drives it
    hot,                \* a board_temperature is over MAX_HASHBOARD_TEMP
    cpu_hot,            \* cpu_temperature is over MAX_ENV_TEMP
    control_hot,        \* control_board_temperature is over MAX_ENV_TEMP
    powered,            \* the hash board has power
    turning,            \* history: the fan turned in this pass
    misread,            \* history: it could not be told whether it did
    hotPasses,          \* history: passes in a row of a board over its limit,
    stillPasses,        \*   of a driven fan, known to turn, that did not,
    unseenPasses,       \*   of a driven fan that did not turn or was misread,
    blindPasses,        \*   of a fan reading that reported its failure,
    unreadPasses        \*   of a temperature sensor that did not answer

readings == <<fan_rpm, fan_tach_proven, sampled, pulses_left, hot, cpu_hot, control_hot>>
counters == <<fan_read_failures, temp_read_failures, fan_error_counter>>
duty     == <<fan_eft, driven>>
fan      == <<turning, misread>>
passes   == <<hotPasses, stillPasses, unseenPasses, blindPasses, unreadPasses>>
healthVars == <<bc01, health, counters, readings, duty, setting, powered, fan, passes>>

Checks   == {"boot", "fan", "temp", "heat", "stall", "drive", "off", "hold"}
FanSettings == {[auto |-> a, driven |-> FALSE] : a \in {0, 1, 2}}
            \cup {[auto |-> 0, driven |-> TRUE]}     \* a stored duty needs auto 0

\* Only 1 and 0 mean something; any other value leaves the mode as it is.
LoadFanConfig(s, eft, dut) ==
    /\ fan_eft' = CASE s.auto = 1 -> FALSE [] s.auto = 0 -> TRUE [] OTHER -> eft
    /\ driven' = IF s.auto = 0 THEN s.driven ELSE dut

HealthInit ==
    /\ bc01 \in BOOLEAN
    /\ health = "boot"
    /\ fan_read_failures = 0 /\ temp_read_failures = 0 /\ fan_error_counter = 0
    /\ fan_rpm = FALSE /\ fan_tach_proven = FALSE /\ sampled = FALSE
    /\ pulses_left = FALSE
    /\ hot = FALSE /\ cpu_hot = FALSE /\ control_hot = FALSE
    /\ setting \in FanSettings
    /\ fan_eft = (setting.auto = 0)
    /\ driven = (setting.auto = 0 /\ setting.driven)
    /\ powered = FALSE
    /\ turning = FALSE /\ misread = FALSE
    /\ hotPasses = 0 /\ stillPasses = 0 /\ unseenPasses = 0
    /\ blindPasses = 0 /\ unreadPasses = 0

-----------------------------------------------------------------------------
(* A pass. *)

\* Nothing is looked at before the interfaces are up, and the board powered. The
\* pulse counter has been counting since its driver came up.
InterfaceUp ==
    /\ health = "boot"
    /\ health' = "fan"
    /\ powered' = TRUE
    /\ pulses_left' \in IF bc01 THEN BOOLEAN ELSE {FALSE}
    /\ UNCHANGED <<counters, fan_rpm, fan_tach_proven, sampled, hot, cpu_hot, control_hot,
                   duty, setting, fan, passes>>

OnceMore(n, bound) == IF n < bound THEN n + 1 ELSE bound

\* The counter of failures in a row, after a read that failed or did not.
NeverReset(n, failed) ==                                    \* mutant: not cleared
    IF failed THEN OnceMore(n, MAX_READ_FAILURES) ELSE n
InARow(n, failed) == IF failed THEN OnceMore(n, MAX_READ_FAILURES) ELSE 0

\* The history's: as many passes in a row as the last ones were bad.
Row(n, bad, bound) == IF bad THEN OnceMore(n, bound) ELSE 0

\* A failure that read_fan_rpm reports is counted; the third in a row ends the loop.
FanRead(failed) ==
    /\ fan_read_failures' = InARow(fan_read_failures, failed)
    /\ blindPasses' = Row(blindPasses, failed, MAX_READ_FAILURES)
    /\ health' = IF fan_read_failures' = MAX_READ_FAILURES THEN "off" ELSE "temp"
    /\ UNCHANGED <<temp_read_failures, fan_error_counter, fan_tach_proven, hot, cpu_hot,
                   control_hot, duty, setting, powered, hotPasses, stillPasses,
                   unseenPasses, unreadPasses>>

\* The EMC2302: one header has the fan, the other is empty and reads 0. A channel
\* that does not answer reads 0 too, and only both of them are a failure; a fan too
\* slow or too fast to be measured reads 0 as well.
Headers == {"fitted", "empty"}

ReadTachometers ==
    /\ health = "fan" /\ ~bc01
    /\ turning' \in BOOLEAN
    /\ \E unanswered \in SUBSET Headers, measurable \in BOOLEAN :
           /\ misread' = ("fitted" \in unanswered \/ ~measurable)
           /\ fan_rpm' = (turning' /\ ~misread')
           /\ FanRead(unanswered = Headers)
    /\ UNCHANGED <<sampled, pulses_left>>

\* The pulse counter: read, then cleared, and only the clear's error is returned. A
\* count not read is 0, one not cleared is there at the next pass. The first sample
\* is no measurement, and is stored as 0.
ReadPulses ==
    /\ health = "fan" /\ bc01
    /\ turning' \in BOOLEAN
    /\ \E counted, cleared \in BOOLEAN :
           /\ misread' = ~counted
           /\ fan_rpm' = (sampled /\ counted /\ (turning' \/ pulses_left))
           /\ pulses_left' = (~cleared /\ (turning' \/ pulses_left))
           /\ FanRead(~cleared)
    /\ sampled' = TRUE

\* Each sensor answers or not; one that does not is stored as -60. The processor's
\* own temperature is read too, into cpu_temperature.
UnreadIfAll(unread) == unread = Sensors                     \* mutant: all have to
Unread(unread) == unread # {}

ReadTemperatures ==
    /\ health = "temp"
    /\ cpu_hot' \in BOOLEAN
    /\ \E over, unread \in SUBSET Sensors :
           /\ hot' = (over \ unread # {})
           /\ temp_read_failures' = InARow(temp_read_failures, Unread(unread))
           /\ hotPasses' = Row(hotPasses, over # {}, MAX_READ_FAILURES)
           /\ unreadPasses' = Row(unreadPasses, unread # {}, MAX_READ_FAILURES)
    /\ health' = IF temp_read_failures' = MAX_READ_FAILURES THEN "off" ELSE "heat"
    /\ UNCHANGED <<fan_read_failures, fan_error_counter, fan_rpm, fan_tach_proven, sampled,
                   pulses_left, control_hot, duty, setting, powered, fan, stillPasses,
                   unseenPasses, blindPasses>>

Overheated == control_hot \/ hot

CheckHeat ==
    /\ health = "heat"
    /\ health' = IF Overheated THEN "off" ELSE "stall"
    /\ UNCHANGED <<counters, readings, duty, setting, powered, fan, passes>>

\* Bound of the history: more than the passes a fan may stand still unnoticed.
StillBound == FAN_STALL_STRIKES + MAX_READ_FAILURES

\* A driven fan that reads 0, once it has been seen to turn.
Stalled == fan_tach_proven' /\ driven /\ ~fan_rpm
Strike(n) == IF Stalled THEN n + 1 ELSE 0

CheckStall ==
    /\ health = "stall"
    /\ fan_tach_proven' = (fan_tach_proven \/ fan_rpm)
    /\ fan_error_counter' = Strike(fan_error_counter)
    /\ stillPasses' = Row(stillPasses, fan_tach_proven' /\ driven /\ ~turning, StillBound)
    /\ unseenPasses' = Row(unseenPasses, driven /\ (~turning \/ misread), FAN_STALL_STRIKES)
    /\ health' = IF fan_error_counter' = FAN_STALL_STRIKES THEN "off" ELSE "drive"
    /\ UNCHANGED <<fan_read_failures, temp_read_failures, fan_rpm, sampled, pulses_left, hot,
                   cpu_hot, control_hot, duty, setting, powered, fan, hotPasses,
                   blindPasses, unreadPasses>>

\* The fan is driven, as the owner or the controller has it; then the settings are
\* read again.
DriveFan ==
    /\ health = "drive"
    /\ health' = "fan"
    /\ \E chosen \in IF fan_eft THEN {driven} ELSE BOOLEAN :
           LoadFanConfig(setting, fan_eft, chosen)
    /\ UNCHANGED <<counters, readings, setting, powered, fan, passes>>

-----------------------------------------------------------------------------
(* miner_protection_handler, and what goes on around the task. *)

\* The regulator may not hear the command; the gate of a BC01 may not either.
PowerOff ==
    /\ health = "off"
    /\ health' = "hold"
    /\ powered' \in BOOLEAN
    /\ UNCHANGED <<counters, readings, duty, setting, fan, passes>>

BootsAgain ==
    /\ health' = "boot"
    /\ fan_read_failures' = 0 /\ temp_read_failures' = 0 /\ fan_error_counter' = 0
    /\ fan_rpm' = FALSE /\ fan_tach_proven' = FALSE /\ sampled' = FALSE
    /\ pulses_left' = FALSE
    /\ hot' = FALSE /\ cpu_hot' = FALSE /\ control_hot' = FALSE
    /\ LoadFanConfig(setting, FALSE, FALSE)
    /\ powered' = FALSE
    /\ turning' = FALSE /\ misread' = FALSE
    /\ hotPasses' = 0 /\ stillPasses' = 0 /\ unseenPasses' = 0
    /\ blindPasses' = 0 /\ unreadPasses' = 0
    /\ UNCHANGED setting

\* A hundred seconds later the miner restarts.
Restart == health = "hold" /\ BootsAgain

\* An EMC2302 channel that answers with a count of 0 is divided by: the processor
\* traps, and the miner restarts at once.
DividesByZero == health = "fan" /\ ~bc01 /\ BootsAgain

SaveFanSettings ==
    /\ setting' \in FanSettings
    /\ UNCHANGED <<health, counters, readings, duty, powered, fan, passes>>

HealthStep ==
    \/ InterfaceUp
    \/ ReadTachometers \/ ReadPulses
    \/ ReadTemperatures \/ CheckHeat \/ CheckStall \/ DriveFan
    \/ PowerOff \/ Restart \/ DividesByZero
    \/ SaveFanSettings

HealthNext == HealthStep /\ UNCHANGED bc01     \* the board stays the same

HealthSpec == HealthInit /\ [][HealthNext]_healthVars

-----------------------------------------------------------------------------
(* Properties. *)

\* Every variable stays in the set its declaration gives it.
HealthTypeOK ==
    /\ health \in Checks
    /\ fan_read_failures \in 0 .. MAX_READ_FAILURES
    /\ temp_read_failures \in 0 .. MAX_READ_FAILURES
    /\ fan_error_counter \in 0 .. FAN_STALL_STRIKES
    /\ {bc01, fan_rpm, fan_tach_proven, sampled, pulses_left, fan_eft, driven, hot, cpu_hot,
        control_hot, powered, turning, misread} \subseteq BOOLEAN
    /\ setting \in FanSettings
    /\ {hotPasses, blindPasses, unreadPasses} \subseteq 0 .. MAX_READ_FAILURES
    /\ stillPasses \in 0 .. StillBound
    /\ unseenPasses \in 0 .. FAN_STALL_STRIKES

\* The checks of a pass are over, and mining goes on.
Judged == health = "drive"

\* Whatever the sensors and the tachometer answer, and whichever of them fail when,
\* a board over its limit is mined on for fewer than three passes in a row, and a
\* fan known to turn that stands still while driven for fewer than five; on a BC01
\* two more, in which pulses that were not cleared stand for a fan that turns.
Unnoticed == IF bc01 THEN MAX_READ_FAILURES - 1 ELSE 0
DangerBounded ==
    Judged => hotPasses < MAX_READ_FAILURES /\ stillPasses < FAN_STALL_STRIKES + Unnoticed

\* A miner is turned off for a temperature that was read and is over the limit, for
\* three passes in a row in which the fan, or a temperature, was not read, or for five
\* in a row of a driven fan that stood still or was misread: never for a read that
\* failed once ("a single dropped I2C transaction is not a dead sensor"). A fan that
\* turns is no protection: if it is misread for long enough the miner goes off.
ShutdownHasCause ==
    health = "off" => \/ hot
                      \/ blindPasses = MAX_READ_FAILURES
                      \/ unreadPasses = MAX_READ_FAILURES
                      \/ unseenPasses = FAN_STALL_STRIKES

\* "Control-board over-temperature ... ESP32 temp > MAX_ENV_TEMP (55 C) ... power
\* off" (docs/HARDWARE-SAFETY.md:30).
ControlBoardHeatTrips == Judged => ~cpu_hot
=============================================================================
