----------------------------- MODULE FanControl -----------------------------
(***************************************************************************)
(* The automatic fan: lotto_set_pwm_according_to_temperature of            *)
(* components/bc_hal/pwm_fan.c, which health_maintenance_task calls on     *)
(* every pass with the highest temperature of the hash board. Past 68      *)
(* degrees the fan is full, below 30 it is at its minimum; a cold board is *)
(* warmed up with fixed duties, and once it is warm the duty is stepped up *)
(* or down to keep it between 60 and 64, within two limits that are        *)
(* learned whenever the temperature comes into that band from outside.     *)
(*                                                                         *)
(* A step is one call. The temperature is any of Temps, in any order.      *)
(***************************************************************************)
EXTENDS Integers

CONSTANTS
    Temps,              \* bound: temperatures a pass may find
    StartDuties,        \* bound: fan_percent[0] when the controller takes over
    STEP_FAN_TEMP,      \* a step of the duty (2)
    MIN_PWM_PERCENT,    \* (18)
    DecreasePasses,     \* passes below the band before a step (10)
    IncreasePasses,     \* passes above it (5)
    MaxLearned,         \* bound: times a limit is learned
    MaxDuty             \* bound: of the duty, which may pass 100

ASSUME FanAssumption ==
    /\ Temps \subseteq Int /\ StartDuties \subseteq 0 .. 100
    /\ STEP_FAN_TEMP \in Nat /\ MIN_PWM_PERCENT \in 0 .. 99
    /\ DecreasePasses \in Nat /\ IncreasePasses \in Nat \ {0} /\ MaxLearned \in Nat
    /\ MaxDuty \in Nat

MAX_PWM_PERCENT   == 100
MAX_FAN_TEMP      == 68
MAX_FAN_TEMP_QUIT == 58
MIN_FAN_TEMP      == 30
MIN_FAN_TEMP_QUIT == 40
Upper == MAX_FAN_TEMP - 4
Lower == MAX_FAN_TEMP - 8

VARIABLES
    fan_percent,        \* pwm_config[0]
    bak_last_pwm,       \* the duty before the fan went to full
    increase_done,      \* increase_temperature_done
    in_flow,            \* b_in_increase_temperature_flow, not initialised at first
    low_limit, high_limit,          \* fan_pwm_low_limit, fan_pwm_high_limit
    enter_low, enter_high,          \* duties with which the band was entered
    need_decrease, need_increase,   \* passes in a row outside the band
    start_temp,         \* the temperature need_decrease began with
    temp,               \* history: the temperature of the last pass
    learned             \* history: times a limit was learned

limits  == <<low_limit, high_limit, enter_low, enter_high, learned>>
fanVars == <<fan_percent, bak_last_pwm, increase_done, in_flow, limits,
             need_decrease, need_increase, start_temp, temp>>

FanInit ==
    /\ fan_percent \in StartDuties
    /\ bak_last_pwm = 80
    /\ increase_done = FALSE
    /\ in_flow \in BOOLEAN
    /\ low_limit = 0 /\ high_limit = MAX_PWM_PERCENT
    /\ enter_low = 0 /\ enter_high = 0
    /\ need_decrease = 0 /\ need_increase = 0 /\ start_temp = 0
    /\ temp = 0
    /\ learned = 0

AtLeast(n, least) == IF n < least THEN least ELSE n
NoMoreThan(n, most) == IF n > most THEN most ELSE n

-----------------------------------------------------------------------------
(* The first half of the call: protection at both ends, and the warm-up. *)

NotFullYet(t) == t > MAX_FAN_TEMP /\ fan_percent # MAX_PWM_PERCENT  \* mutant: > 68
GoesFull(t) == t >= MAX_FAN_TEMP /\ fan_percent # MAX_PWM_PERCENT
QuitsFull(t) == t <= MAX_FAN_TEMP_QUIT /\ fan_percent = MAX_PWM_PERCENT

AfterFull(t) == CASE GoesFull(t)  -> MAX_PWM_PERCENT
                  [] QuitsFull(t) -> bak_last_pwm + STEP_FAN_TEMP
                  [] OTHER        -> fan_percent

GoesMin(t) == t <= MIN_FAN_TEMP
QuitsMin(t) == t >= MIN_FAN_TEMP_QUIT /\ AfterFull(t) = MIN_PWM_PERCENT

AfterMin(t) == CASE GoesMin(t)  -> MIN_PWM_PERCENT
                 [] QuitsMin(t) -> 30
                 [] OTHER       -> AfterFull(t)

Protects(t) == GoesFull(t) \/ QuitsFull(t) \/ GoesMin(t) \/ QuitsMin(t)
WarmsUp(t) == ~Protects(t) /\ ~increase_done

WarmUpDuty(t) == CASE t <= 40 -> 40 [] t \in 41 .. 45 -> 50 [] t \in 46 .. 50 -> 60
                   [] t \in 51 .. 60 -> 70 [] OTHER -> MAX_PWM_PERCENT

Duty(t) == IF WarmsUp(t) THEN WarmUpDuty(t) ELSE AfterMin(t)

\* The warm-up is done past 50 degrees, and begins again when the duty fits a
\* board that is warmer, or colder, than this one is.
DoneNow(t) == increase_done \/ (WarmsUp(t) /\ t > 50)
Misfit(t) == (t >= 55 /\ Duty(t) < 50) \/ (t < 40 /\ Duty(t) > 60)
BeginsAgain(t) == DoneNow(t) /\ Misfit(t)
InFlow(t) == BeginsAgain(t) \/ (IF WarmsUp(t) THEN t <= 50 ELSE in_flow)

FirstHalf(t) ==
    /\ temp' = t
    /\ bak_last_pwm' = IF GoesFull(t) THEN fan_percent ELSE bak_last_pwm
    /\ increase_done' = (DoneNow(t) /\ ~BeginsAgain(t))
    /\ in_flow' = InFlow(t)

-----------------------------------------------------------------------------
(* The second half: nothing more outside the steady state, or a step in it. *)

Steady(t) == ~Protects(t) /\ ~InFlow(t)

Unsteady(t) ==
    /\ ~Steady(t)
    /\ FirstHalf(t)
    /\ fan_percent' = Duty(t)
    /\ low_limit' = 0 /\ high_limit' = MAX_PWM_PERCENT
    /\ need_decrease' = 0 /\ need_increase' = 0
    /\ UNCHANGED <<enter_low, enter_high, start_temp, learned>>

\* Below the band: after some passes the duty goes down, or up if the board is
\* warmer than when they began.
Stepped(t, from) ==
    CASE t < from -> AtLeast(AtLeast(Duty(t) - STEP_FAN_TEMP, MIN_PWM_PERCENT), low_limit)
      [] t > from -> AtLeast(NoMoreThan(Duty(t) + STEP_FAN_TEMP, MAX_PWM_PERCENT),
                             high_limit)
      [] OTHER    -> Duty(t)

Below(t) ==
    /\ Steady(t) /\ t < Lower
    /\ FirstHalf(t)
    /\ need_increase' = 0
    /\ start_temp' = IF need_decrease = 0 THEN t ELSE start_temp
    /\ IF need_decrease < DecreasePasses
       THEN need_decrease' = need_decrease + 1 /\ fan_percent' = Duty(t)
       ELSE need_decrease' = 0 /\ fan_percent' = Stepped(t, start_temp')
    /\ UNCHANGED limits

\* Above it: after some passes the duty goes up, up to the limit learned.
Raised(t) == NoMoreThan(NoMoreThan(Duty(t) + STEP_FAN_TEMP, MAX_PWM_PERCENT), high_limit)

Above(t) ==
    /\ Steady(t) /\ t > Upper
    /\ FirstHalf(t)
    /\ need_decrease' = 0
    /\ IF need_increase + 1 < IncreasePasses
       THEN need_increase' = need_increase + 1 /\ fan_percent' = Duty(t)
       ELSE need_increase' = 0 /\ fan_percent' = Raised(t)
    /\ UNCHANGED <<limits, start_temp>>

\* In it: the duty is kept, and remembered if the band was just entered.
FromBelow(t) == t = Lower /\ need_decrease # 0
FromAbove(t) == t = Upper /\ need_increase # 0

InBand(t) ==
    /\ Steady(t) /\ t \in Lower .. Upper
    /\ FirstHalf(t)
    /\ fan_percent' = Duty(t)
    /\ enter_low' = IF FromBelow(t) THEN Duty(t) ELSE enter_low
    /\ high_limit' = IF FromBelow(t) /\ enter_high # 0 THEN enter_high - STEP_FAN_TEMP
                                                       ELSE high_limit
    /\ enter_high' = IF FromAbove(t) THEN Duty(t) ELSE enter_high
    /\ low_limit' = IF FromAbove(t) /\ enter_low # 0 THEN enter_low + STEP_FAN_TEMP
                                                     ELSE low_limit
    /\ learned' = IF FromBelow(t) \/ FromAbove(t) THEN learned + 1 ELSE learned
    /\ learned' <= MaxLearned
    /\ need_decrease' = 0 /\ need_increase' = 0
    /\ UNCHANGED start_temp

FanNext ==
    /\ \E t \in Temps : Unsteady(t) \/ Below(t) \/ Above(t) \/ InBand(t)
    /\ fan_percent' <= MaxDuty

FanSpec == FanInit /\ [][FanNext]_fanVars

-----------------------------------------------------------------------------
(* Properties. *)

\* A duty is a small number, and every other variable in the range of its use.
FanTypeOK ==
    /\ {fan_percent, low_limit, high_limit, enter_low, enter_high, bak_last_pwm,
        start_temp, temp} \subseteq Int
    /\ {increase_done, in_flow} \subseteq BOOLEAN
    /\ need_decrease \in 0 .. DecreasePasses
    /\ need_increase \in 0 .. IncreasePasses - 1
    /\ learned \in 0 .. MaxLearned

\* Of two passes in a row that find the board at 68 degrees or more, one leaves the
\* fan full, whatever was learned before: the limit holds it back for one at most.
HotFanFull ==
    [][temp >= MAX_FAN_TEMP /\ temp' >= MAX_FAN_TEMP
           => MAX_PWM_PERCENT \in {fan_percent, fan_percent'}]_fanVars
=============================================================================
