---------------------------- MODULE ControlEngine ----------------------------
(***************************************************************************)
(* The charge-regulation engine of control/Src/control.c: the STANDBY /    *)
(* BULK / FLOAT state machine with its hold timers, the fault latch and    *)
(* the field-effort law.  One step of the engine is one call of ctrl_tick; *)
(* between two calls the host may publish another configuration.           *)
(*                                                                         *)
(* Units.  Time is counted in ticks.  Voltages are per cell (the code      *)
(* multiplies both sides by cells_series), volts, watts, amps and effort   *)
(* are small integers, NaN is a value outside the integers for which every *)
(* ordered comparison is false.  Temperatures are the classes the code's   *)
(* thresholds cut out.  A low-pass filter may return any value between its *)
(* previous output and its input, which covers every time constant and dt. *)
(***************************************************************************)
EXTENDS Integers

CONSTANTS
  NaN,            \* "no reading"
  Inputs,         \* the measurements (with ceilings) a tick may be given
  Configs,        \* the configurations the host may publish
  OV_HARD,        \* OV_VCELL_HARD: raw overvoltage kill
  CV_BAND,        \* CV_CLAMP_BAND_VCELL
  KV, KP,         \* gains: effort per volt and per watt, per tick
  EFFORT_FULL,    \* effort 1.0
  DETECT_EFFORT,  \* CTRL_RUN_DETECT_EFFORT
  PROBE_PERIOD,   \* CTRL_RUN_PROBE_PERIOD_MS
  PROBE_ON,       \* CTRL_RUN_PROBE_ON_MS
  TimerCap,       \* bound: the hold timers stop counting here
  AhCap           \* bound: the discharge integrator stops here

Reading == Int \cup {NaN}
Tiers   == {"BATT_SHUNT", "NMEA_BATT", "ALT_SHUNT", "EST_ALT", "NONE"}

\* Fault bits and their classes (control.h, faults.h).
OPEN_MASK  == {"OVERVOLTAGE", "FIELD_SHORT", "FIELD_OVERCUR", "OVERSPEED",
               "WATCHDOG", "BATT_DTDT", "DRIVER_OVERTEMP"}
LIMP_MASK  == {"LOST_VBAT_SENSE", "LOST_BMS", "IMPLAUSIBLE_SHUNT",
               "SHUNT_OPEN", "SHUNT_REVERSED"}
BLOCK_MASK == {"BATT_LOWTEMP", "BATT_HIGHTEMP", "BATT_TEMP_REQUIRED"}
WARN_MASK  == {"FIELD_OPEN", "SELF_OVERTEMP", "THERMAL_DIVERGE", "VSUP_IMPLAUSIBLE"}
FaultBits  == OPEN_MASK \cup LIMP_MASK \cup BLOCK_MASK \cup WARN_MASK

\* ctrl_measured_t, with the lowest of the active ceilings (ctrl_ceilings_t): inactive
\* and NaN ceilings never win the minimum, and NaN here says that none is active.
\* vsupBad is the verdict of ctrl_vsup_guard, ext the faults other modules raise.
Measured == [vbat: Reading, vcomp: Reading, amps: Reading, watts: Reading,
             isrc: Tiers, vsupBad: BOOLEAN,
             altTemp: {"none", "normal", "hot"},
             driverTemp: {"none", "normal", "hot", "crit"},
             battTemp: {"none", "cold", "normal", "hot"},
             running: BOOLEAN, soc: Int, socTrusted: BOOLEAN,
             ignition: BOOLEAN, ext: SUBSET FaultBits, ceiling: Reading]

\* The fields of ctrl_globals_t and ctrl_profile_t the engine reads; thresholds
\* in ticks, 0 or -1 = disabled as in the code.
Config == [cvTarget: Int, exitAtCv: BOOLEAN, restZero: BOOLEAN, restV: Int,
           restCap: Nat, vRevert: Int, tRevert: Nat, socRevert: Int, ahRevert: Int,
           maxPower: Nat, ramp: Nat, pTail: Int, tTail: Nat, tVclamp: Nat,
           cvHold: Nat, tChargeMax: Nat, warmup: Nat, socTarget: Int,
           skipV: Int, skipSoc: Int, limpV: Int, limpCap: Nat, requireTemp: BOOLEAN]

ASSUME NaNAssumption == NaN \notin Int
ASSUME InputsAssumption == Inputs \subseteq Measured
ASSUME ConfigsAssumption == Configs \subseteq Config
ASSUME GainsAssumption ==
  /\ KV \in Nat /\ KP \in Nat /\ OV_HARD \in Int /\ CV_BAND \in Nat
  /\ EFFORT_FULL \in Nat /\ DETECT_EFFORT \in 0..EFFORT_FULL
  /\ PROBE_PERIOD \in Nat \ {0} /\ PROBE_ON \in Nat
  /\ TimerCap \in Nat \ {0} /\ AhCap \in Nat
\* A timer that stops at TimerCap still passes every threshold it is compared with.
ASSUME CapsAssumption ==
  \A g \in Configs : /\ g.tRevert <= TimerCap /\ g.tTail <= TimerCap
                     /\ g.tVclamp <= TimerCap /\ g.cvHold <= TimerCap
                     /\ g.tChargeMax <= TimerCap /\ g.warmup <= TimerCap
                     /\ g.ahRevert <= AhCap

VARIABLES
  config,            \* what config_get returns
  state,             \* ctrl_state_t
  standby_reason,    \* ctrl_standby_reason_t
  faults,            \* latched and active fault bits
  v_ctrl_f, v_revert_f, p_tail_f,           \* damped signals
  time_in_state, warmup_time,               \* timers
  tail_hold, revert_hold, vclamp_hold,
  ah_since_charged,
  effort, cmd_power, run_probe,             \* field law
  field_open         \* the command's field_open: no output at all

signals == <<v_ctrl_f, v_revert_f, p_tail_f>>
holds   == <<tail_hold, revert_hold, vclamp_hold>>
fieldVars  == <<effort, cmd_power, run_probe, field_open>>
engineVars == <<state, standby_reason, faults, signals, time_in_state, warmup_time,
                holds, ah_since_charged, fieldVars>>
vars == <<config, engineVars>>

-----------------------------------------------------------------------------
(* Helpers *)

AtMost(x, y)  == x # NaN /\ x <= y
AtLeast(x, y) == x # NaN /\ x >= y
Lesser(x, y)  == IF x <= y THEN x ELSE y
Clip(x, lo, hi) == IF x < lo THEN lo ELSE IF x > hi THEN hi ELSE x
Tock(n) == Lesser(n + 1, TimerCap)

\* ema(): seeds on the first sample, then moves from prev towards x.
Ema(prev, x) == IF prev = NaN THEN {x}
                ELSE IF x = NaN THEN {NaN}
                ELSE (prev..x) \cup (x..prev)

TierBatteryTruth(t) == t \in {"BATT_SHUNT", "NMEA_BATT"}

\* ctrl_arbitrate: the lowest ceiling wins if it is below the stage power; never negative.
ArbWatts(stage, ceiling) ==
  LET w == IF ceiling # NaN /\ ceiling < stage THEN ceiling ELSE stage
  IN  IF w >= 0 THEN w ELSE 0

-----------------------------------------------------------------------------
(* Damped signals, discharge integrator, faults *)

DampSignals(m) ==
  /\ v_ctrl_f'   \in Ema(v_ctrl_f, m.vcomp)
  /\ v_revert_f' \in Ema(v_revert_f, m.vcomp)
  /\ p_tail_f'   \in Ema(p_tail_f, m.watts)

Resting == state = "FLOAT" \/ (state = "STANDBY" /\ standby_reason = "REST")

\* SLIP: the deficit is not floored at zero.
AhUnfloored(m) == IF Resting /\ TierBatteryTruth(m.isrc) /\ m.amps # NaN
                  THEN Lesser(ah_since_charged - m.amps, AhCap)
                  ELSE ah_since_charged

\* Net discharge since the last charged exit, battery-truth tiers only.
AhIntegrated(m) ==
  IF Resting /\ TierBatteryTruth(m.isrc) /\ m.amps # NaN
  THEN Clip(ah_since_charged - m.amps, 0, AhCap)
  ELSE ah_since_charged

\* The conditions ctrl_tick tests itself, per fault bit.
Detected(m) == [
  VSUP_IMPLAUSIBLE   |-> m.vsupBad,
  OVERVOLTAGE        |-> AtLeast(m.vbat, OV_HARD),
  LOST_VBAT_SENSE    |-> m.vbat = NaN,
  SELF_OVERTEMP      |-> m.altTemp = "hot" \/ m.driverTemp \in {"hot", "crit"},
  DRIVER_OVERTEMP    |-> m.driverTemp = "crit",
  BATT_LOWTEMP       |-> m.battTemp = "cold",
  BATT_HIGHTEMP      |-> m.battTemp = "hot",
  BATT_TEMP_REQUIRED |-> m.battTemp = "none" /\ config.requireTemp]

\* SLIPS: nothing latches; the temperature blocks latch with the hard faults.
LatchNothing(m) ==
  faults' = m.ext \cup {f \in DOMAIN Detected(m) : Detected(m)[f]}
LatchBlocks(m) ==
  faults' = (faults \cap (OPEN_MASK \cup BLOCK_MASK)) \cup m.ext
              \cup {f \in DOMAIN Detected(m) : Detected(m)[f]}

\* OPEN-class bits stay, all others are computed afresh.
LatchFaults(m) ==
  faults' = (faults \cap OPEN_MASK) \cup m.ext
              \cup {f \in DOMAIN Detected(m) : Detected(m)[f]}

Open(fs)    == fs \cap OPEN_MASK # {}
Limp(fs)    == ~Open(fs) /\ fs \cap LIMP_MASK # {}
Blocked(fs) == fs \cap BLOCK_MASK # {}
\* SLIP: a hard fault raises the annunciation but does not withdraw the enable.
EnableDespiteOpen(m) == m.ignition /\ ~Blocked(faults')
Enable(m)   == m.ignition /\ ~Open(faults') /\ ~Blocked(faults')

-----------------------------------------------------------------------------
(* The state machine, transitions T1 to T4 *)

\* SLIP: the clamp hold survives a change of state.
EnterKeepingClamp(s, r) ==
  /\ state' = s /\ standby_reason' = r
  /\ time_in_state' = 0
  /\ tail_hold' = 0 /\ revert_hold' = 0 /\ UNCHANGED vclamp_hold

Enter(s, r) ==
  /\ state' = s /\ standby_reason' = r
  /\ time_in_state' = 0
  /\ tail_hold' = 0 /\ revert_hold' = 0 /\ vclamp_hold' = 0

Stay ==
  /\ UNCHANGED <<state, standby_reason>>
  /\ time_in_state' = Tock(time_in_state)

\* A charged exit, or a battery found full: to the profile's rest, baseline cleared.
EnterRest ==
  /\ IF config.restZero THEN Enter("STANDBY", "REST") ELSE Enter("FLOAT", "OFF")
  /\ ah_since_charged' = 0

Disabled(m) ==
  /\ ~Enable(m)
  /\ Enter("STANDBY", IF Open(faults') THEN "FAULT" ELSE "OFF")
  /\ ah_since_charged' = AhIntegrated(m)
  /\ UNCHANGED warmup_time

LimpHome(m) ==
  /\ Enable(m) /\ Limp(faults')
  /\ IF state # "FLOAT" THEN Enter("FLOAT", "OFF") ELSE Stay /\ UNCHANGED holds
  /\ ah_since_charged' = AhIntegrated(m)
  /\ UNCHANGED warmup_time

Running(m) == Enable(m) /\ ~Limp(faults')

SkipBulkIfFull(m) ==
  \/ config.skipV > 0 /\ AtLeast(v_ctrl_f', config.skipV)
  \/ config.skipSoc > 0 /\ m.socTrusted /\ m.soc >= config.skipSoc

\* SLIP: the gate resumes where an earlier activation left it.
WarmupGateResumed(m) ==
  /\ Running(m)
  /\ state = "STANDBY" /\ standby_reason # "REST"
  /\ warmup_time' = Tock(warmup_time)
  /\ IF warmup_time' >= config.warmup
     THEN Enter("BULK", "OFF")
     ELSE Enter("STANDBY", "WARMUP")
  /\ ah_since_charged' = AhIntegrated(m)

\* STANDBY/off, /fault or /warmup: the gate restarts unless it was already counting.
WarmupGate(m) ==
  /\ Running(m)
  /\ state = "STANDBY" /\ standby_reason # "REST"
  /\ warmup_time' = Tock(IF standby_reason = "WARMUP" THEN warmup_time ELSE 0)
  /\ IF config.warmup = 0 \/ warmup_time' >= config.warmup
     THEN IF SkipBulkIfFull(m)
          THEN EnterRest
          ELSE Enter("BULK", "OFF") /\ ah_since_charged' = AhIntegrated(m)
     ELSE /\ IF standby_reason = "WARMUP" THEN Stay /\ UNCHANGED holds
                                          ELSE Enter("STANDBY", "WARMUP")
          /\ ah_since_charged' = AhIntegrated(m)

\* revert_met(): the voltage path (through its hold), trusted SOC, or net Ah.
RevertHold == IF AtMost(v_revert_f', config.vRevert) THEN Tock(revert_hold) ELSE 0

RevertMet(m) ==
  \/ AtMost(v_revert_f', config.vRevert) /\ RevertHold >= config.tRevert
  \/ config.socRevert >= 0 /\ m.socTrusted /\ m.soc \in 0..config.socRevert
  \/ /\ TierBatteryTruth(m.isrc) /\ config.ahRevert > 0
     /\ AhIntegrated(m) >= config.ahRevert

RestOrRevert(m) ==
  /\ Running(m) /\ Resting
  /\ IF RevertMet(m)
     THEN Enter("BULK", "OFF")
     ELSE Stay /\ revert_hold' = RevertHold /\ UNCHANGED <<tail_hold, vclamp_hold>>
  /\ ah_since_charged' = AhIntegrated(m)
  /\ UNCHANGED warmup_time

Clamped == AtLeast(v_ctrl_f', config.cvTarget - CV_BAND)
TailLow(m) == TierBatteryTruth(m.isrc) /\ Clamped /\ AtMost(p_tail_f', config.pTail)
VclampHold == IF Clamped THEN Tock(vclamp_hold) ELSE 0
TailHold(m) == IF config.exitAtCv THEN tail_hold
               ELSE IF TailLow(m) THEN Tock(tail_hold) ELSE 0
\* SLIP: the time limit only backs up the CV and tail exits, not the solar one.
ChargedNoBackstop(m) ==
  \/ config.exitAtCv /\ VclampHold >= config.tVclamp
  \/ /\ ~config.exitAtCv
     /\ \/ config.cvHold > 0 /\ VclampHold >= config.cvHold
        \/ TailLow(m) /\ TailHold(m) >= config.tTail
        \/ Tock(time_in_state) >= config.tChargeMax

Charged(m) ==
  \/ config.exitAtCv /\ VclampHold >= config.tVclamp
  \/ /\ ~config.exitAtCv
     /\ \/ config.cvHold > 0 /\ VclampHold >= config.cvHold
        \/ TailLow(m) /\ TailHold(m) >= config.tTail
        \/ config.socTarget >= 0 /\ m.socTrusted /\ m.soc >= config.socTarget
  \/ Tock(time_in_state) >= config.tChargeMax

BulkOrCharged(m) ==
  /\ Running(m) /\ state = "BULK"
  /\ IF Charged(m)
     THEN EnterRest
     ELSE /\ Stay
          /\ vclamp_hold' = VclampHold /\ tail_hold' = TailHold(m)
          /\ ah_since_charged' = AhIntegrated(m)
          /\ UNCHANGED revert_hold
  /\ UNCHANGED warmup_time

StateMachine(m) ==
  \/ Disabled(m) \/ LimpHome(m)
  \/ WarmupGate(m) \/ RestOrRevert(m) \/ BulkOrCharged(m)

-----------------------------------------------------------------------------
(* Field control *)

StageWatts == CASE state' = "BULK"  -> config.maxPower
                [] state' # "BULK" /\ Limp(faults')  -> config.limpCap
                [] state' # "BULK" /\ ~Limp(faults') -> config.restCap
TargetV    == CASE state' = "BULK"  -> config.cvTarget
                [] state' # "BULK" /\ Limp(faults')  -> config.limpV
                [] state' # "BULK" /\ ~Limp(faults') -> config.restV

\* The command is regulated only with the field closed and a usable voltage.
Regulating == state' # "STANDBY" /\ v_ctrl_f' # NaN

\* Commanded power ramps up, and steps down at once.
RampedPower(m) == LET w == ArbWatts(StageWatts, m.ceiling)
                  IN  IF w > cmd_power THEN Lesser(cmd_power + config.ramp, w) ELSE w

\* The lower demand of the CV and the power loop; a NaN demand yields zero.
EffortLaw(m) ==
  LET fromV == effort + KV * (TargetV - v_ctrl_f')
      fromP == effort + KP * (RampedPower(m) - m.watts)
  IN  IF m.watts = NaN \/ ArbWatts(StageWatts, m.ceiling) <= 0
      THEN 0
      ELSE Clip(Lesser(fromV, fromP), 0, EFFORT_FULL)

LawEffort(m) == IF Regulating THEN EffortLaw(m) ELSE 0
\* SLIP: losing the voltage stops the effort but keeps the commanded power.
LawPowerKept(m) == IF Regulating THEN RampedPower(m) ELSE cmd_power
LawPower(m)  == IF Regulating THEN RampedPower(m) ELSE 0

\* The stationary-rotor gate: without rotation only a probe pulse gets through.
Gated(m) == state' # "STANDBY" /\ ~m.running
\* SLIP: the pulse is on for one tick too many.
ProbeBudgetLong == IF run_probe' <= PROBE_ON THEN DETECT_EFFORT ELSE 0
ProbeBudget == IF run_probe' < PROBE_ON THEN DETECT_EFFORT ELSE 0

FieldControl(m) ==
  /\ field_open' = (state' = "STANDBY")
  /\ run_probe' = IF Gated(m) /\ run_probe + 1 < PROBE_PERIOD THEN run_probe + 1 ELSE 0
  /\ effort' = IF Gated(m) THEN Lesser(LawEffort(m), ProbeBudget) ELSE LawEffort(m)
  /\ cmd_power' = IF Gated(m) THEN 0 ELSE LawPower(m)

-----------------------------------------------------------------------------
Init ==
  /\ config \in Configs
  /\ state = "STANDBY" /\ standby_reason = "OFF"
  /\ faults = {}
  /\ v_ctrl_f = NaN /\ v_revert_f = NaN /\ p_tail_f = NaN
  /\ time_in_state = 0 /\ warmup_time = 0
  /\ tail_hold = 0 /\ revert_hold = 0 /\ vclamp_hold = 0
  /\ ah_since_charged = 0
  /\ effort = 0 /\ cmd_power = 0 /\ run_probe = 0
  /\ field_open = TRUE    \* no command yet: the drive starts at 0 %

\* ctrl_tick
Tick(m) ==
  /\ DampSignals(m)
  /\ LatchFaults(m)
  /\ StateMachine(m)
  /\ FieldControl(m)
  /\ UNCHANGED config

\* config_publish: another set of settings, between two ticks.
Publish(g) == config' = g /\ UNCHANGED engineVars

Next == (\E m \in Inputs : Tick(m)) \/ (\E g \in Configs : Publish(g))

\* The main loop calls ctrl_tick every 10 ms for as long as it runs.
Spec == Init /\ [][Next]_vars /\ WF_vars(\E m \in Inputs : Tick(m))

-----------------------------------------------------------------------------
\* The engine is a ChargeCycle: STANDBY split by its reason, BULK and FLOAT.
Mode == IF state = "STANDBY" THEN standby_reason ELSE state
Cycle == INSTANCE ChargeCycle WITH mode <- Mode
CycleSpec == Cycle!Spec

\* An open-class fault takes the field for good: the engine reports fault in STANDBY,
\* the field is open, and neither effort nor power is commanded (CONTROL_SPEC 7).
OpenFaultKillsField ==
  Open(faults) => /\ field_open /\ effort = 0 /\ cmd_power = 0
                  /\ state = "STANDBY" /\ standby_reason = "FAULT"

\* ... and the fault stays reported until the engine is initialised again.
OpenFaultLatches == [][faults \cap OPEN_MASK \subseteq faults']_vars

\* No hold is longer than the stay it is counted in: limp home and Solar Finish leave
\* holds standing that they do not count (ctrl_tick), but what was held in an earlier
\* stay, before a rest, a stop or a revert, never ends a later one.
HoldsOfThisStay ==
  /\ tail_hold <= time_in_state
  /\ revert_hold <= time_in_state
  /\ vclamp_hold <= time_in_state

TypeOK ==
  /\ config \in Configs
  /\ state \in {"STANDBY", "BULK", "FLOAT"}
  /\ standby_reason \in {"OFF", "WARMUP", "REST", "FAULT"}
  /\ faults \subseteq FaultBits
  /\ v_ctrl_f \in Reading /\ v_revert_f \in Reading /\ p_tail_f \in Reading
  /\ time_in_state \in 0..TimerCap /\ warmup_time \in 0..TimerCap
  /\ tail_hold \in 0..TimerCap /\ revert_hold \in 0..TimerCap
  /\ vclamp_hold \in 0..TimerCap
  /\ ah_since_charged \in 0..AhCap
  /\ effort \in 0..EFFORT_FULL /\ cmd_power \in Nat
  /\ run_probe \in 0..(PROBE_PERIOD - 1)
  /\ field_open \in BOOLEAN
=============================================================================
