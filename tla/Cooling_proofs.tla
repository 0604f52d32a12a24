-------------------------- MODULE Cooling_proofs --------------------------
(***************************************************************************)
(* Proofs about what keeps the board cool: the health task, for any        *)
(* sensors, limits and board, and the fan controller it calls, for any     *)
(* temperatures, steps, delays and minimum duty.                           *)
(***************************************************************************)
EXTENDS HealthMaintenance, FanControl, TLAPS

-----------------------------------------------------------------------------
(***************************************************************************)
(* The health task. What is dangerous is not mined on with, and nothing    *)
(* else turns a miner off. The counters of the code are compared with what *)
(* was really the case: those of the reads follow it exactly, the stall's  *)
(* never runs ahead of the passes in which the fan stood still or was      *)
(* misread. It can lag behind a fan that stands still, but only as long as *)
(* pulses of an earlier pass are left, and while they are the clear keeps  *)
(* failing, which fan_read_failures counts.                                *)
(***************************************************************************)

\* No counter has reached its limit, and each counts what it is there for.
Watched ==
    /\ fan_read_failures < MAX_READ_FAILURES
    /\ temp_read_failures < MAX_READ_FAILURES
    /\ fan_error_counter < FAN_STALL_STRIKES

Counted ==
    /\ fan_read_failures <= blindPasses
    /\ temp_read_failures <= unreadPasses
    /\ fan_error_counter <= unseenPasses

\* Between two passes: how far the strikes are behind a fan that stands still.
Behind ==
    /\ ~fan_tach_proven => stillPasses = 0
    /\ ~bc01 => stillPasses <= fan_error_counter
    /\ bc01 /\ sampled /\ pulses_left => stillPasses < fan_read_failures
    /\ bc01 /\ ~pulses_left => stillPasses <= fan_error_counter + (MAX_READ_FAILURES - 1)

\* Within a pass, the fan read and not yet judged: the same, one pass further on if
\* the fan stood still in this one.
ToBeBehind ==
    /\ ~fan_tach_proven => stillPasses = 0
    /\ ~bc01 => stillPasses <= fan_error_counter
    /\ bc01 /\ pulses_left => 1 <= fan_read_failures
    /\ bc01 /\ ~turning /\ (fan_tach_proven \/ fan_rpm) =>
           /\ pulses_left => stillPasses + 1 < fan_read_failures
           /\ ~pulses_left /\ fan_rpm => stillPasses + 1 <= MAX_READ_FAILURES - 1
           /\ ~pulses_left /\ ~fan_rpm =>
                  stillPasses <= fan_error_counter + (MAX_READ_FAILURES - 1)

\* What the reading is worth. A fan known to turn that reads 0 stood still or was
\* misread; on an EMC2302 one that stands still never reads as turning.
RotationTold ==
    /\ bc01 => sampled
    /\ fan_tach_proven /\ ~fan_rpm => misread \/ ~turning
    /\ ~bc01 /\ ~turning => ~fan_rpm

Nothing ==
    /\ fan_read_failures = 0 /\ temp_read_failures = 0 /\ fan_error_counter = 0
    /\ hotPasses = 0 /\ stillPasses = 0 /\ unseenPasses = 0
    /\ blindPasses = 0 /\ unreadPasses = 0
    /\ ~sampled /\ ~fan_tach_proven

HealthInv ==
    /\ HealthTypeOK
    /\ control_hot = FALSE
    /\ bc01 /\ ~sampled => ~fan_tach_proven
    /\ ~bc01 => ~pulses_left
    /\ Counted
    /\ health = "boot" => Nothing
    /\ health \in {"fan", "temp", "heat", "stall", "drive"} => Watched
    /\ health \in {"fan", "temp", "stall", "drive"} => hotPasses <= temp_read_failures
    /\ health = "heat" /\ ~hot => hotPasses <= temp_read_failures
    /\ health \in {"fan", "drive"} => Behind
    /\ health \in {"temp", "heat", "stall"} => RotationTold /\ ToBeBehind
    /\ health = "drive" /\ bc01 => sampled
    /\ ShutdownHasCause

-----------------------------------------------------------------------------
LEMMA SettingTypes ==
  ASSUME NEW s \in FanSettings
  PROVE  s.driven \in BOOLEAN
<1>1. CASE s \in {[auto |-> a, driven |-> FALSE] : a \in {0, 1, 2}}
  <2>1. PICK a \in {0, 1, 2} : s = [auto |-> a, driven |-> FALSE]
    BY <1>1
  <2> QED  BY <2>1
<1>2. CASE s = [auto |-> 0, driven |-> TRUE]
  BY <1>2
<1> QED  BY <1>1, <1>2 DEF FanSettings

\* What LoadFanConfig leaves is a duty's owner and a duty.
LEMMA Config ==
  ASSUME NEW s \in FanSettings, NEW eft \in BOOLEAN, NEW dut \in BOOLEAN,
         fan_eft \in BOOLEAN, LoadFanConfig(s, eft, dut)
  PROVE  fan_eft' \in BOOLEAN /\ driven' \in BOOLEAN
<1>1. s.driven \in BOOLEAN
  BY SettingTypes
<1> QED  BY <1>1 DEF LoadFanConfig

LEMMA Bounds ==
  /\ MAX_READ_FAILURES \in Nat /\ FAN_STALL_STRIKES \in Nat
  /\ 0 < MAX_READ_FAILURES /\ MAX_READ_FAILURES <= FAN_STALL_STRIKES
  /\ StillBound = FAN_STALL_STRIKES + MAX_READ_FAILURES
  BY HealthAssumption DEF StillBound

\* The type of the variables, conjunct by conjunct.
LEMMA Types ==
  HealthTypeOK <=>
    /\ health \in Checks /\ setting \in FanSettings
    /\ fan_read_failures \in 0 .. MAX_READ_FAILURES
    /\ temp_read_failures \in 0 .. MAX_READ_FAILURES
    /\ fan_error_counter \in 0 .. FAN_STALL_STRIKES
    /\ bc01 \in BOOLEAN /\ fan_rpm \in BOOLEAN /\ fan_tach_proven \in BOOLEAN
    /\ sampled \in BOOLEAN /\ pulses_left \in BOOLEAN /\ fan_eft \in BOOLEAN
    /\ driven \in BOOLEAN /\ hot \in BOOLEAN /\ cpu_hot \in BOOLEAN
    /\ control_hot \in BOOLEAN /\ powered \in BOOLEAN
    /\ turning \in BOOLEAN /\ misread \in BOOLEAN
    /\ hotPasses \in 0 .. MAX_READ_FAILURES /\ blindPasses \in 0 .. MAX_READ_FAILURES
    /\ unreadPasses \in 0 .. MAX_READ_FAILURES
    /\ stillPasses \in 0 .. StillBound /\ unseenPasses \in 0 .. FAN_STALL_STRIKES
  BY DEF HealthTypeOK

LEMMA InitHolds == HealthInit => HealthInv
<1> SUFFICES ASSUME HealthInit PROVE HealthInv
  OBVIOUS
<1>1. fan_eft \in BOOLEAN /\ driven \in BOOLEAN
  BY SettingTypes DEF HealthInit
<1>2. /\ health = "boot" /\ Nothing /\ control_hot = FALSE /\ ~pulses_left
      /\ setting \in FanSettings /\ bc01 \in BOOLEAN
      /\ fan_rpm = FALSE /\ hot = FALSE /\ cpu_hot = FALSE /\ powered = FALSE
      /\ turning = FALSE /\ misread = FALSE /\ sampled = FALSE /\ pulses_left = FALSE
      /\ fan_tach_proven = FALSE
  BY DEF HealthInit, Nothing
<1>3. HealthTypeOK
  <2>1. {bc01, fan_rpm, fan_tach_proven, sampled, pulses_left, fan_eft, driven, hot, cpu_hot,
         control_hot, powered, turning, misread} \subseteq BOOLEAN
    BY <1>1, <1>2
  <2>2. /\ {hotPasses, blindPasses, unreadPasses} \subseteq 0 .. MAX_READ_FAILURES
        /\ stillPasses \in 0 .. StillBound /\ unseenPasses \in 0 .. FAN_STALL_STRIKES
        /\ fan_read_failures \in 0 .. MAX_READ_FAILURES
        /\ temp_read_failures \in 0 .. MAX_READ_FAILURES
        /\ fan_error_counter \in 0 .. FAN_STALL_STRIKES
    BY <1>2, Bounds DEF Nothing
  <2> QED  BY <1>2, <2>1, <2>2 DEF HealthTypeOK, Checks
<1>4. Counted
  BY <1>2 DEF Counted, Nothing
<1> QED  BY <1>2, <1>3, <1>4 DEF HealthInv, ShutdownHasCause

LEMMA BootKeeps ==
  ASSUME HealthInv, InterfaceUp, bc01' = bc01
  PROVE  HealthInv'
<1>1. /\ Nothing /\ health = "boot" /\ health' = "fan" /\ powered' = TRUE
      /\ pulses_left' \in BOOLEAN /\ (~bc01 => ~pulses_left')
      /\ UNCHANGED <<counters, fan_rpm, fan_tach_proven, sampled, hot, cpu_hot, control_hot,
                     duty, setting, fan, passes>>
  BY DEF HealthInv, InterfaceUp
<1>2. HealthTypeOK'
  BY <1>1, Types DEF HealthTypeOK, HealthInv, Checks, counters, duty, fan, passes
<1>3. Nothing'
  BY <1>1 DEF Nothing, counters, passes
<1> QED  BY <1>1, <1>2, <1>3, Bounds
         DEF HealthInv, Nothing, Watched, Counted, Behind, ShutdownHasCause

\* What the reports of read_fan_rpm do, whichever tachometer they are of.
LEMMA Reported ==
  ASSUME HealthInv, health = "fan", NEW failed \in BOOLEAN, FanRead(failed), bc01' = bc01,
         fan_rpm' \in BOOLEAN, sampled' \in BOOLEAN, pulses_left' \in BOOLEAN,
         turning' \in BOOLEAN, misread' \in BOOLEAN,
         ~bc01 => ~pulses_left', bc01 => sampled',
         RotationTold', Watched' => ToBeBehind'
  PROVE  HealthInv'
<1>1. /\ health' = IF fan_read_failures' = MAX_READ_FAILURES THEN "off" ELSE "temp"
      /\ fan_read_failures' = InARow(fan_read_failures, failed)
      /\ blindPasses' = Row(blindPasses, failed, MAX_READ_FAILURES)
      /\ UNCHANGED <<temp_read_failures, fan_error_counter, fan_tach_proven, hot, cpu_hot,
                     control_hot, fan_eft, driven, setting, powered, hotPasses, stillPasses,
                     unseenPasses, unreadPasses>>
  BY DEF FanRead, duty
<1>2. HealthTypeOK /\ Watched /\ Counted
  BY DEF HealthInv
<1>3. /\ fan_read_failures' \in 0 .. MAX_READ_FAILURES
      /\ blindPasses' \in 0 .. MAX_READ_FAILURES /\ fan_read_failures' <= blindPasses'
  BY <1>1, <1>2, Types, Bounds DEF InARow, Row, OnceMore, Watched, Counted
<1>4. HealthTypeOK'
  BY <1>1, <1>2, <1>3, Types DEF HealthTypeOK, Checks
<1>5. Counted'
  BY <1>1, <1>2, <1>3 DEF Counted
<1>6. CASE fan_read_failures' = MAX_READ_FAILURES
  <2>1. health' = "off" /\ blindPasses' = MAX_READ_FAILURES
    BY <1>1, <1>3, <1>6, Bounds
  <2> QED  BY <2>1, <1>1, <1>4, <1>5 DEF HealthInv, ShutdownHasCause, RotationTold
<1>7. CASE fan_read_failures' # MAX_READ_FAILURES
  <2>1. health' = "temp" /\ Watched'
    BY <1>1, <1>2, <1>3, <1>7, Bounds DEF Watched
  <2> QED  BY <2>1, <1>1, <1>4, <1>5 DEF HealthInv, ShutdownHasCause, RotationTold
<1> QED  BY <1>6, <1>7

LEMMA TachometersKeep ==
  ASSUME HealthInv, ReadTachometers, bc01' = bc01
  PROVE  HealthInv'
<1>1. PICK unanswered \in SUBSET Headers, measurable \in BOOLEAN :
         /\ misread' = ("fitted" \in unanswered \/ ~measurable)
         /\ fan_rpm' = (turning' /\ ~misread')
         /\ FanRead(unanswered = Headers)
  BY DEF ReadTachometers
<1>2. health = "fan" /\ ~bc01 /\ turning' \in BOOLEAN /\ UNCHANGED <<sampled, pulses_left>>
  BY DEF ReadTachometers
<1>3. HealthTypeOK /\ Behind /\ ~pulses_left
  BY <1>2 DEF HealthInv
<1>4. /\ misread' \in BOOLEAN /\ fan_rpm' \in BOOLEAN /\ sampled' \in BOOLEAN
      /\ pulses_left' \in BOOLEAN /\ ~pulses_left'
  BY <1>1, <1>2, <1>3, Types
<1>5. RotationTold'
  BY <1>1, <1>2 DEF RotationTold
<1>6. UNCHANGED <<fan_error_counter, fan_tach_proven, stillPasses>>
  BY <1>1 DEF FanRead
<1>7. ToBeBehind'
  BY <1>2, <1>3, <1>6 DEF Behind, ToBeBehind
<1> QED  BY <1>1, <1>2, <1>4, <1>5, <1>7, Reported

LEMMA PulsesKeep ==
  ASSUME HealthInv, ReadPulses, bc01' = bc01
  PROVE  HealthInv'
<1>1. PICK counted \in BOOLEAN, cleared \in BOOLEAN :
         /\ misread' = ~counted
         /\ fan_rpm' = (sampled /\ counted /\ (turning' \/ pulses_left))
         /\ pulses_left' = (~cleared /\ (turning' \/ pulses_left))
         /\ FanRead(~cleared)
  BY DEF ReadPulses
<1>2. health = "fan" /\ bc01 /\ turning' \in BOOLEAN /\ sampled' = TRUE
  BY DEF ReadPulses
<1>3. /\ HealthTypeOK /\ Behind /\ Watched
      /\ ~sampled => ~fan_tach_proven
  BY <1>2 DEF HealthInv
<1>4. /\ misread' \in BOOLEAN /\ fan_rpm' \in BOOLEAN /\ sampled' \in BOOLEAN
      /\ pulses_left' \in BOOLEAN
  BY <1>1, <1>2, <1>3, Types
<1>5. /\ UNCHANGED <<fan_error_counter, fan_tach_proven, stillPasses>>
      /\ fan_read_failures' = IF cleared THEN 0 ELSE fan_read_failures + 1
  BY <1>1, <1>3, Types, Bounds DEF FanRead, InARow, OnceMore, Watched
<1>6. RotationTold'
  BY <1>1, <1>2, <1>3, <1>5 DEF RotationTold
<1>7. ToBeBehind'
  <2> USE <1>2, <1>3, <1>5
  <2>0. /\ stillPasses \in Nat /\ fan_error_counter \in Nat /\ fan_read_failures \in Nat
        /\ fan_read_failures < MAX_READ_FAILURES
    BY Types, Bounds DEF Watched
  <2>1. pulses_left' => fan_read_failures' = fan_read_failures + 1
    BY <1>1
  <2>2. ASSUME ~turning', fan_tach_proven' \/ fan_rpm', pulses_left'
        PROVE  stillPasses' + 1 < fan_read_failures'
    <3>1. sampled /\ pulses_left
      BY <1>1, <2>2
    <3> QED  BY <2>0, <2>1, <2>2, <3>1 DEF Behind
  <2>3. ASSUME ~turning', ~pulses_left', fan_rpm'
        PROVE  stillPasses' + 1 <= MAX_READ_FAILURES - 1
    <3>1. sampled /\ pulses_left
      BY <1>1, <2>3
    <3> QED  BY <2>0, <3>1, Bounds DEF Behind
  <2>4. ASSUME ~pulses_left', ~fan_rpm', fan_tach_proven'
        PROVE  stillPasses' <= fan_error_counter' + (MAX_READ_FAILURES - 1)
    <3>1. sampled
      BY <2>4
    <3>2. CASE pulses_left
      BY <2>0, <3>1, <3>2, Bounds DEF Behind
    <3>3. CASE ~pulses_left
      BY <2>0, <3>3 DEF Behind
    <3> QED  BY <3>2, <3>3
  <2>5. ~fan_tach_proven' => stillPasses' = 0
    BY DEF Behind
  <2>6. pulses_left' => 1 <= fan_read_failures'
    BY <2>0, <2>1
  <2> QED  BY <2>2, <2>3, <2>4, <2>5, <2>6 DEF ToBeBehind
<1> QED  BY <1>1, <1>2, <1>4, <1>6, <1>7, Reported

LEMMA TemperaturesKeep ==
  ASSUME HealthInv, ReadTemperatures, bc01' = bc01
  PROVE  HealthInv'
<1>1. PICK over \in SUBSET Sensors, unread \in SUBSET Sensors :
         /\ hot' = (over \ unread # {})
         /\ temp_read_failures' = InARow(temp_read_failures, Unread(unread))
         /\ hotPasses' = Row(hotPasses, over # {}, MAX_READ_FAILURES)
         /\ unreadPasses' = Row(unreadPasses, unread # {}, MAX_READ_FAILURES)
  BY DEF ReadTemperatures
<1>2. /\ health = "temp" /\ cpu_hot' \in BOOLEAN
      /\ health' = IF temp_read_failures' = MAX_READ_FAILURES THEN "off" ELSE "heat"
      /\ UNCHANGED <<fan_read_failures, fan_error_counter, fan_rpm, fan_tach_proven, sampled,
                     pulses_left, control_hot, fan_eft, driven, setting, powered, turning,
                     misread, stillPasses, unseenPasses, blindPasses>>
  BY DEF ReadTemperatures, duty, fan
<1>3. /\ HealthTypeOK /\ Watched /\ Counted /\ RotationTold /\ ToBeBehind
      /\ hotPasses <= temp_read_failures
  BY <1>2 DEF HealthInv
<1>4. /\ hot' \in BOOLEAN /\ Unread(unread) = (unread # {})
      /\ over # {} => hot' \/ unread # {}
  BY <1>1 DEF Unread
<1>5. /\ temp_read_failures' \in 0 .. MAX_READ_FAILURES
      /\ unreadPasses' \in 0 .. MAX_READ_FAILURES /\ hotPasses' \in 0 .. MAX_READ_FAILURES
      /\ temp_read_failures' <= unreadPasses'
      /\ ~hot' => hotPasses' <= temp_read_failures'
  <2>0. /\ temp_read_failures \in Nat /\ unreadPasses \in Nat /\ hotPasses \in Nat
        /\ temp_read_failures < MAX_READ_FAILURES /\ hotPasses <= temp_read_failures
        /\ temp_read_failures <= unreadPasses /\ unreadPasses <= MAX_READ_FAILURES
    BY <1>3, Types, Bounds DEF Watched, Counted
  <2>a. \A n \in Nat, bad \in BOOLEAN :
           n < MAX_READ_FAILURES =>
               /\ InARow(n, bad) = IF bad THEN n + 1 ELSE 0
               /\ Row(n, bad, MAX_READ_FAILURES) = IF bad THEN n + 1 ELSE 0
    BY Bounds DEF InARow, Row, OnceMore
  <2>b. hotPasses < MAX_READ_FAILURES
    BY <2>0, Bounds
  <2>c. (unread # {}) \in BOOLEAN /\ (over # {}) \in BOOLEAN
    OBVIOUS
  <2>1. /\ temp_read_failures' = IF unread # {} THEN temp_read_failures + 1 ELSE 0
        /\ unreadPasses' = IF unread # {} THEN OnceMore(unreadPasses, MAX_READ_FAILURES) ELSE 0
        /\ hotPasses' = IF over # {} THEN hotPasses + 1 ELSE 0
    <3>1. temp_read_failures' = IF unread # {} THEN temp_read_failures + 1 ELSE 0
      BY <1>1, <1>4, <2>0, <2>a, <2>c
    <3>2. hotPasses' = IF over # {} THEN hotPasses + 1 ELSE 0
      BY <1>1, <2>0, <2>a, <2>b, <2>c
    <3>3. unreadPasses' = IF unread # {} THEN OnceMore(unreadPasses, MAX_READ_FAILURES) ELSE 0
      BY <1>1 DEF Row
    <3> QED  BY <3>1, <3>2, <3>3
  <2>2. CASE unread # {}
    BY <2>0, <2>1, <2>2, Bounds DEF OnceMore
  <2>3. CASE unread = {}
    BY <1>4, <2>0, <2>1, <2>3, Bounds
  <2> QED  BY <2>2, <2>3
<1>6. HealthTypeOK'
  BY <1>2, <1>3, <1>4, <1>5, Types DEF HealthTypeOK, Checks
<1>7. Counted' /\ RotationTold' /\ ToBeBehind'
  BY <1>2, <1>3, <1>5 DEF Counted, RotationTold, ToBeBehind
<1>8. CASE temp_read_failures' = MAX_READ_FAILURES
  <2>1. health' = "off" /\ unreadPasses' = MAX_READ_FAILURES
    BY <1>2, <1>5, <1>8, Bounds
  <2> QED  BY <2>1, <1>2, <1>6, <1>7 DEF HealthInv, ShutdownHasCause
<1>9. CASE temp_read_failures' # MAX_READ_FAILURES
  <2>1. health' = "heat" /\ Watched'
    BY <1>2, <1>3, <1>5, <1>9, Bounds DEF Watched
  <2> QED  BY <2>1, <1>2, <1>5, <1>6, <1>7 DEF HealthInv, ShutdownHasCause
<1> QED  BY <1>8, <1>9

LEMMA HeatKeeps ==
  ASSUME HealthInv, CheckHeat, bc01' = bc01
  PROVE  HealthInv'
<1>1. /\ health = "heat"
      /\ health' = IF hot THEN "off" ELSE "stall"
      /\ UNCHANGED <<counters, readings, duty, setting, powered, fan, passes>>
  BY DEF CheckHeat, Overheated, HealthInv
<1>2. HealthTypeOK'
  BY <1>1, Types DEF HealthTypeOK, HealthInv, Checks, counters, readings, duty, fan, passes
<1>3. CASE hot
  BY <1>1, <1>2, <1>3 DEF HealthInv, ShutdownHasCause, Counted, counters, readings, passes
<1>4. CASE ~hot
  BY <1>1, <1>2, <1>4 DEF HealthInv, ShutdownHasCause, Watched, RotationTold, Counted,
     ToBeBehind, counters, readings, fan, passes
<1> QED  BY <1>3, <1>4

LEMMA StallKeeps ==
  ASSUME HealthInv, CheckStall, bc01' = bc01
  PROVE  HealthInv'
<1>1. /\ health = "stall"
      /\ fan_tach_proven' = (fan_tach_proven \/ fan_rpm)
      /\ fan_error_counter' = IF fan_tach_proven' /\ driven /\ ~fan_rpm
                              THEN fan_error_counter + 1 ELSE 0
      /\ stillPasses' = Row(stillPasses, fan_tach_proven' /\ driven /\ ~turning, StillBound)
      /\ unseenPasses' = Row(unseenPasses, driven /\ (~turning \/ misread), FAN_STALL_STRIKES)
      /\ health' = IF fan_error_counter' = FAN_STALL_STRIKES THEN "off" ELSE "drive"
      /\ UNCHANGED <<fan_read_failures, temp_read_failures, fan_rpm, sampled, pulses_left, hot,
                     cpu_hot, control_hot, fan_eft, driven, setting, powered, turning, misread,
                     hotPasses, blindPasses, unreadPasses>>
  BY DEF CheckStall, Strike, Stalled, duty, fan
<1>2. /\ Watched /\ Counted /\ RotationTold /\ ToBeBehind /\ HealthTypeOK
      /\ hotPasses <= temp_read_failures
  BY <1>1 DEF HealthInv
<1>3. /\ fan_error_counter \in Nat /\ stillPasses \in Nat /\ unseenPasses \in Nat
      /\ fan_read_failures \in Nat /\ fan_error_counter < FAN_STALL_STRIKES
      /\ stillPasses <= StillBound /\ unseenPasses <= FAN_STALL_STRIKES
      /\ fan_tach_proven' \in BOOLEAN
  BY <1>1, <1>2, Types, Bounds DEF Watched
<1>4. /\ fan_error_counter' \in 0 .. FAN_STALL_STRIKES
      /\ stillPasses' \in 0 .. StillBound /\ stillPasses' <= stillPasses + 1
      /\ ~fan_tach_proven' \/ ~driven \/ turning => stillPasses' = 0
      /\ unseenPasses' \in 0 .. FAN_STALL_STRIKES
  BY <1>1, <1>3, Bounds DEF Row, OnceMore
<1>5. fan_error_counter' <= unseenPasses'
  <2>1. CASE fan_tach_proven' /\ driven /\ ~fan_rpm
    <3>1. ~turning \/ misread
      BY <1>1, <1>2, <2>1 DEF RotationTold
    <3>2. unseenPasses' = OnceMore(unseenPasses, FAN_STALL_STRIKES)
      BY <1>1, <2>1, <3>1 DEF Row
    <3> QED  BY <1>1, <1>2, <1>3, <2>1, <3>2, Bounds DEF OnceMore, Counted
  <2>2. CASE ~(fan_tach_proven' /\ driven /\ ~fan_rpm)
    BY <1>1, <1>4, <2>2, Bounds
  <2> QED  BY <2>1, <2>2
<1>6. HealthTypeOK'
  BY <1>1, <1>2, <1>3, <1>4, Types DEF HealthTypeOK, Checks
<1>7. Counted'
  BY <1>1, <1>2, <1>5 DEF Counted
<1>8. Behind'
  <2>1. CASE ~fan_tach_proven' \/ ~driven \/ turning
    <3>1. stillPasses' = 0
      BY <1>4, <2>1
    <3> QED  BY <1>1, <1>2, <1>3, <1>4, <3>1, Bounds DEF Behind, ToBeBehind
  <2>2. CASE fan_tach_proven' /\ driven /\ ~turning
    <3>1. fan_tach_proven \/ fan_rpm
      BY <1>1, <2>2
    <3>2. CASE ~bc01
      <4>1. ~fan_rpm /\ fan_error_counter' = fan_error_counter + 1
        BY <1>1, <1>2, <2>2, <3>2 DEF RotationTold
      <4> QED  BY <1>2, <1>3, <1>4, <2>2, <3>2, <4>1 DEF Behind, ToBeBehind
    <3>3. CASE bc01 /\ pulses_left
      <4>1. stillPasses + 1 < fan_read_failures
        BY <1>2, <2>2, <3>1, <3>3 DEF ToBeBehind
      <4> QED  BY <1>1, <1>3, <1>4, <2>2, <3>3, <4>1 DEF Behind
    <3>4. CASE bc01 /\ ~pulses_left /\ fan_rpm
      <4>1. stillPasses + 1 <= MAX_READ_FAILURES - 1 /\ fan_error_counter' = 0
        BY <1>1, <1>2, <2>2, <3>1, <3>4 DEF ToBeBehind
      <4> QED  BY <1>1, <1>3, <1>4, <2>2, <3>4, <4>1, Bounds DEF Behind
    <3>5. CASE bc01 /\ ~pulses_left /\ ~fan_rpm
      <4>1. /\ stillPasses <= fan_error_counter + (MAX_READ_FAILURES - 1)
            /\ fan_error_counter' = fan_error_counter + 1
        BY <1>1, <1>2, <2>2, <3>1, <3>5 DEF ToBeBehind
      <4> QED  BY <1>1, <1>3, <1>4, <2>2, <3>5, <4>1, Bounds DEF Behind
    <3> QED  BY <3>2, <3>3, <3>4, <3>5
  <2> QED  BY <2>1, <2>2
<1>9. bc01' => sampled'
  BY <1>1, <1>2 DEF RotationTold
<1>10. CASE fan_error_counter' = FAN_STALL_STRIKES
  <2>1. health' = "off" /\ unseenPasses' = FAN_STALL_STRIKES
    BY <1>1, <1>4, <1>5, <1>10, Bounds
  <2> QED  BY <2>1, <1>1, <1>6, <1>7, <1>9 DEF HealthInv, ShutdownHasCause
<1>11. CASE fan_error_counter' # FAN_STALL_STRIKES
  <2>1. health' = "drive" /\ Watched'
    BY <1>1, <1>2, <1>4, <1>11, Bounds DEF Watched
  <2> QED  BY <2>1, <1>1, <1>2, <1>6, <1>7, <1>8, <1>9 DEF HealthInv, ShutdownHasCause
<1> QED  BY <1>10, <1>11

LEMMA DriveKeeps ==
  ASSUME HealthInv, DriveFan, bc01' = bc01
  PROVE  HealthInv'
<1>1. /\ health = "drive" /\ health' = "fan"
      /\ UNCHANGED <<counters, readings, setting, powered, fan, passes>>
  BY DEF DriveFan
<1>2. HealthTypeOK
  BY DEF HealthInv
<1>3. fan_eft' \in BOOLEAN /\ driven' \in BOOLEAN
  <2>0. fan_eft \in BOOLEAN /\ driven \in BOOLEAN /\ setting \in FanSettings
    BY <1>2, Types
  <2>1. PICK chosen \in BOOLEAN : LoadFanConfig(setting, fan_eft, chosen)
    BY <2>0 DEF DriveFan
  <2> QED  BY <2>0, <2>1, Config
<1>4. HealthTypeOK'
  BY <1>1, <1>2, <1>3, Types DEF HealthTypeOK, Checks, counters, readings, fan, passes
<1> QED  BY <1>1, <1>4 DEF HealthInv, Watched, Counted, Behind, ShutdownHasCause,
            counters, readings, passes

LEMMA OffKeeps ==
  ASSUME HealthInv, PowerOff, bc01' = bc01
  PROVE  HealthInv'
<1>1. HealthTypeOK'
  BY Types DEF HealthTypeOK, HealthInv, Checks, PowerOff, counters, readings, duty, fan, passes
<1> QED  BY <1>1 DEF HealthInv, PowerOff, Counted, ShutdownHasCause, counters, readings, passes

LEMMA RebootKeeps ==
  ASSUME HealthInv, BootsAgain, bc01' = bc01
  PROVE  HealthInv'
<1>1. setting \in FanSettings /\ setting' = setting /\ fan_eft \in BOOLEAN /\ bc01 \in BOOLEAN
  BY Types DEF HealthInv, BootsAgain
<1>2. fan_eft' \in BOOLEAN /\ driven' \in BOOLEAN
  BY <1>1, Config DEF BootsAgain
<1>3. /\ health' = "boot" /\ Nothing' /\ control_hot' = FALSE /\ pulses_left' = FALSE
      /\ fan_rpm' = FALSE /\ hot' = FALSE /\ cpu_hot' = FALSE /\ powered' = FALSE
      /\ turning' = FALSE /\ misread' = FALSE /\ sampled' = FALSE /\ fan_tach_proven' = FALSE
  BY DEF BootsAgain, Nothing
<1>4. HealthTypeOK'
  <2>1. {bc01, fan_rpm, fan_tach_proven, sampled, pulses_left, fan_eft, driven, hot, cpu_hot,
         control_hot, powered, turning, misread}' \subseteq BOOLEAN
    BY <1>1, <1>2, <1>3
  <2>2. /\ {hotPasses, blindPasses, unreadPasses}' \subseteq 0 .. MAX_READ_FAILURES
        /\ stillPasses' \in 0 .. StillBound /\ unseenPasses' \in 0 .. FAN_STALL_STRIKES
        /\ fan_read_failures' \in 0 .. MAX_READ_FAILURES
        /\ temp_read_failures' \in 0 .. MAX_READ_FAILURES
        /\ fan_error_counter' \in 0 .. FAN_STALL_STRIKES
    BY <1>3, Bounds DEF Nothing
  <2> QED  BY <1>1, <1>3, <2>1, <2>2 DEF HealthTypeOK, Checks
<1>5. Counted'
  BY <1>3 DEF Counted, Nothing
<1> QED  BY <1>3, <1>4, <1>5 DEF HealthInv, ShutdownHasCause

LEMMA SettingsKeep ==
  ASSUME HealthInv, bc01' = bc01,
         \/ SaveFanSettings
         \/ UNCHANGED healthVars
  PROVE  HealthInv'
<1>1. /\ setting' \in FanSettings
      /\ UNCHANGED <<health, counters, readings, duty, powered, fan, passes>>
  BY DEF HealthInv, HealthTypeOK, SaveFanSettings, healthVars
<1>2. HealthTypeOK'
  BY <1>1, Types DEF HealthTypeOK, HealthInv, counters, readings, duty, fan, passes
<1> QED  BY <1>1, <1>2 DEF HealthInv, Nothing, Watched, RotationTold, Counted, Behind,
            ToBeBehind, ShutdownHasCause, counters, readings, duty, fan, passes

LEMMA HealthInvariant == HealthSpec => []HealthInv
<1>1. HealthInv /\ [HealthNext]_healthVars => HealthInv'
  BY BootKeeps, TachometersKeep, PulsesKeep, TemperaturesKeep, HeatKeeps, StallKeeps,
     DriveKeeps, OffKeeps, RebootKeeps, SettingsKeep
  DEF HealthNext, HealthStep, Restart, DividesByZero, healthVars
<1> QED  BY <1>1, InitHolds, PTL DEF HealthSpec

-----------------------------------------------------------------------------
\* The counters and readings of the health task stay in their sets.
THEOREM HealthTypesOK == HealthSpec => []HealthTypeOK
<1>1. HealthInv => HealthTypeOK
  BY DEF HealthInv
<1> QED  BY <1>1, HealthInvariant, PTL

\* However reads fail and whatever the fan does, the checks of a pass let mining go on
\* with a board over its limit, or with a driven fan that stands still, for fewer
\* passes in a row than the limits of the code. Behind a pulse counter that is not
\* cleared it takes MAX_READ_FAILURES - 1 passes more before the stall is acted on.
THEOREM DangerIsBounded == HealthSpec => []DangerBounded
<1>1. HealthInv => DangerBounded
  <2> SUFFICES ASSUME HealthInv, health = "drive"
               PROVE  /\ hotPasses < MAX_READ_FAILURES
                      /\ stillPasses < FAN_STALL_STRIKES + Unnoticed
    BY DEF DangerBounded, Judged
  <2>1. /\ HealthTypeOK /\ Watched /\ Behind /\ hotPasses <= temp_read_failures
        /\ bc01 => sampled
    BY DEF HealthInv
  <2>2. /\ bc01 \in BOOLEAN /\ stillPasses \in Nat /\ hotPasses \in Nat
        /\ fan_read_failures \in Nat /\ temp_read_failures \in Nat /\ fan_error_counter \in Nat
        /\ fan_read_failures < MAX_READ_FAILURES /\ temp_read_failures < MAX_READ_FAILURES
        /\ fan_error_counter < FAN_STALL_STRIKES
    BY <2>1, Types, Bounds DEF Watched
  <2>3. CASE ~bc01
    BY <2>1, <2>2, <2>3, Bounds DEF Behind, Unnoticed
  <2>4. CASE bc01 /\ pulses_left
    BY <2>1, <2>2, <2>4, Bounds DEF Behind, Unnoticed
  <2>5. CASE bc01 /\ ~pulses_left
    BY <2>1, <2>2, <2>5, Bounds DEF Behind, Unnoticed
  <2> QED  BY <2>3, <2>4, <2>5
<1> QED  BY <1>1, HealthInvariant, PTL

\* miner_protection_handler is called for a temperature that was read and is over its
\* limit, for MAX_READ_FAILURES passes in a row of one reading that reported its
\* failure, or for FAN_STALL_STRIKES in a row of a driven fan that stood still or was
\* misread, whatever the readings said in between.
THEOREM ShutdownsHaveCause == HealthSpec => []ShutdownHasCause
<1>1. HealthInv => ShutdownHasCause
  BY DEF HealthInv
<1> QED  BY <1>1, HealthInvariant, PTL

-----------------------------------------------------------------------------
(***************************************************************************)
(* The fan. The protection at 68 degrees decides the duty before anything  *)
(* that was learned is looked at, unless the fan is full already: then the *)
(* call goes on, and may lower it again, once.                             *)
(***************************************************************************)

\* Every duty a call can come to is a number.
LEMMA DutyTypes ==
  ASSUME FanTypeOK, NEW t \in Temps
  PROVE  /\ t \in Int /\ AfterFull(t) \in Int /\ AfterMin(t) \in Int /\ Duty(t) \in Int
         /\ Raised(t) \in Int
         /\ \A from \in Int : Stepped(t, from) \in Int
<1>1. t \in Int /\ STEP_FAN_TEMP \in Int /\ MIN_PWM_PERCENT \in Int
  BY FanAssumption
<1>2. /\ fan_percent \in Int /\ bak_last_pwm \in Int /\ low_limit \in Int /\ high_limit \in Int
  BY DEF FanTypeOK
<1>3. AfterFull(t) \in Int
  BY <1>1, <1>2 DEF AfterFull, MAX_PWM_PERCENT
<1>4. AfterMin(t) \in Int
  BY <1>1, <1>3 DEF AfterMin
<1>5. WarmUpDuty(t) \in Int
  BY <1>1 DEF WarmUpDuty, MAX_PWM_PERCENT
<1>6. Duty(t) \in Int
  BY <1>4, <1>5 DEF Duty
<1>7. \A n, m \in Int : AtLeast(n, m) \in Int /\ NoMoreThan(n, m) \in Int
  BY DEF AtLeast, NoMoreThan
<1>8. Duty(t) + STEP_FAN_TEMP \in Int /\ Duty(t) - STEP_FAN_TEMP \in Int /\ MAX_PWM_PERCENT \in Int
  BY <1>1, <1>6 DEF MAX_PWM_PERCENT
<1>9. Raised(t) \in Int
  BY <1>2, <1>7, <1>8 DEF Raised
<1>10. ASSUME NEW from \in Int
       PROVE  Stepped(t, from) \in Int
  BY <1>1, <1>2, <1>6, <1>7, <1>8 DEF Stepped
<1> QED  BY <1>1, <1>3, <1>4, <1>6, <1>9, <1>10

LEMMA FirstHalfTypes ==
  ASSUME FanTypeOK, NEW t \in Temps, FirstHalf(t)
  PROVE  /\ temp' \in Int /\ bak_last_pwm' \in Int
         /\ increase_done' \in BOOLEAN /\ in_flow' \in BOOLEAN
<1>1. temp' \in Int /\ bak_last_pwm' \in Int
  BY FanAssumption DEF FirstHalf, FanTypeOK
<1>2. increase_done' \in BOOLEAN
  BY DEF FirstHalf
<1>3. in_flow' \in BOOLEAN
  BY DEF FirstHalf, InFlow, BeginsAgain, FanTypeOK
<1> QED  BY <1>1, <1>2, <1>3

LEMMA FanTypeStep == FanTypeOK /\ [FanNext]_fanVars => FanTypeOK'
<1> SUFFICES ASSUME FanTypeOK, [FanNext]_fanVars PROVE FanTypeOK'
  OBVIOUS
<1>1. CASE UNCHANGED fanVars
  BY <1>1 DEF fanVars, limits, FanTypeOK
<1>2. CASE FanNext
  <2>0. PICK t \in Temps : Unsteady(t) \/ Below(t) \/ Above(t) \/ InBand(t)
    BY <1>2 DEF FanNext
  <2>1. FirstHalf(t)
    BY <2>0 DEF Unsteady, Below, Above, InBand
  <2>2. /\ temp' \in Int /\ bak_last_pwm' \in Int
        /\ increase_done' \in BOOLEAN /\ in_flow' \in BOOLEAN
    BY <2>1, FirstHalfTypes
  <2>3. /\ {low_limit, high_limit, enter_low, enter_high, start_temp} \subseteq Int
        /\ need_decrease \in 0 .. DecreasePasses
        /\ need_increase \in 0 .. IncreasePasses - 1 /\ learned \in 0 .. MaxLearned
        /\ DecreasePasses \in Nat /\ IncreasePasses \in Nat \ {0} /\ MaxLearned \in Nat
        /\ STEP_FAN_TEMP \in Nat /\ t \in Int /\ Duty(t) \in Int /\ Raised(t) \in Int
    BY FanAssumption, DutyTypes DEF FanTypeOK
  <2>4. CASE Unsteady(t)
    BY <2>2, <2>3, <2>4 DEF Unsteady, FanTypeOK, MAX_PWM_PERCENT
  <2>5. CASE Below(t)
    <3>1. start_temp' \in Int
      BY <2>3, <2>5 DEF Below
    <3>2. Stepped(t, start_temp') \in Int
      BY <3>1, DutyTypes
    <3>3. fan_percent' \in Int /\ need_decrease' \in 0 .. DecreasePasses /\ need_increase' = 0
      BY <2>3, <2>5, <3>2 DEF Below
    <3> QED  BY <2>2, <2>3, <2>5, <3>1, <3>3 DEF Below, limits, FanTypeOK
  <2>6. CASE Above(t)
    <3>1. fan_percent' \in Int /\ need_decrease' = 0 /\ need_increase' \in 0 .. IncreasePasses - 1
      BY <2>3, <2>6 DEF Above
    <3> QED  BY <2>2, <2>3, <2>6, <3>1 DEF Above, limits, FanTypeOK
  <2>7. CASE InBand(t)
    <3>1. /\ fan_percent' \in Int /\ enter_low' \in Int /\ enter_high' \in Int
          /\ low_limit' \in Int /\ high_limit' \in Int
      BY <2>3, <2>7 DEF InBand
    <3>2. learned' \in 0 .. MaxLearned
      BY <2>3, <2>7 DEF InBand
    <3> QED  BY <2>2, <2>3, <2>7, <3>1, <3>2 DEF InBand, FanTypeOK
  <2> QED  BY <2>0, <2>4, <2>5, <2>6, <2>7
<1> QED  BY <1>1, <1>2

\* The duty and the limits stay numbers, and the two counters of passes within the
\* delays they count to, whatever temperatures come in whatever order.
THEOREM FanTypes == FanSpec => []FanTypeOK
<1>1. FanInit => FanTypeOK
  <2> SUFFICES ASSUME FanInit PROVE FanTypeOK
    OBVIOUS
  <2>1. fan_percent \in 0 .. 100
    BY FanAssumption DEF FanInit
  <2>2. /\ 0 \in 0 .. DecreasePasses /\ 0 \in 0 .. IncreasePasses - 1
        /\ 0 \in 0 .. MaxLearned
    BY FanAssumption
  <2>3. increase_done \in BOOLEAN /\ in_flow \in BOOLEAN
    BY DEF FanInit
  <2>4. {fan_percent, low_limit, high_limit, enter_low, enter_high, bak_last_pwm,
         start_temp, temp} \subseteq Int
    BY <2>1 DEF FanInit, MAX_PWM_PERCENT
  <2>5. need_decrease = 0 /\ need_increase = 0 /\ learned = 0
    BY DEF FanInit
  <2> QED  BY <2>2, <2>3, <2>4, <2>5 DEF FanTypeOK
<1> QED  BY <1>1, FanTypeStep, PTL DEF FanSpec

\* At 68 degrees a fan that is not full becomes full, with any limits learned: only
\* a fan that is full already may be lowered (pwm_fan.c skips the protection then),
\* so that of two such passes in a row one leaves it full.
THEOREM HotFanIsFull == FanSpec => HotFanFull
<1>1. ASSUME [FanNext]_fanVars
      PROVE  [temp >= MAX_FAN_TEMP /\ temp' >= MAX_FAN_TEMP
                => MAX_PWM_PERCENT \in {fan_percent, fan_percent'}]_fanVars
  <2> SUFFICES ASSUME FanNext, temp' >= MAX_FAN_TEMP, fan_percent # MAX_PWM_PERCENT
               PROVE  fan_percent' = MAX_PWM_PERCENT
    BY <1>1
  <2>1. PICK t \in Temps : Unsteady(t) \/ Below(t) \/ Above(t) \/ InBand(t)
    BY DEF FanNext
  <2>2. temp' = t
    BY <2>1 DEF Unsteady, Below, Above, InBand, FirstHalf
  <2>3. GoesFull(t) /\ AfterFull(t) = MAX_PWM_PERCENT
    BY <2>2 DEF GoesFull, QuitsFull, AfterFull
  <2>4. ~GoesMin(t) /\ ~QuitsMin(t)
    <3>1. t \in Int /\ MIN_PWM_PERCENT \in 0 .. 99
      BY FanAssumption
    <3> QED  BY <2>2, <2>3, <3>1 DEF GoesMin, QuitsMin, MAX_FAN_TEMP, MIN_FAN_TEMP,
                MAX_PWM_PERCENT
  <2>5. Protects(t) /\ Duty(t) = MAX_PWM_PERCENT
    BY <2>3, <2>4 DEF Protects, Duty, WarmsUp, AfterMin
  <2>6. Unsteady(t)
    BY <2>1, <2>5 DEF Below, Above, InBand, Steady
  <2> QED  BY <2>5, <2>6 DEF Unsteady
<1> QED  BY <1>1, PTL DEF FanSpec, HotFanFull
=============================================================================
