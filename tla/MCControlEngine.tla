--------------------------- MODULE MCControlEngine ---------------------------
(***************************************************************************)
(* ControlEngine with observers: counters that watch the measurements and  *)
(* the states the engine visits without looking at the engine's own        *)
(* timers, so that a property can say "continuously for n ticks" and mean  *)
(* it.  Also the small input and configuration sets of the TLC runs.       *)
(***************************************************************************)
EXTENDS ControlEngine, FiniteSets

VARIABLES
  clampedFor,   \* consecutive BULK ticks at the CV target
  tailFor,      \* the same with tail power, over the ticks whose profile watches the tail
  bulkFor,      \* BULK ticks since BULK was entered
  enabledFor,   \* consecutive ticks with nothing that forbids normal charging
  drivenFor,    \* consecutive ticks the regulated, rotating field was driven
  lit           \* of the ticks that the rotor has now stood still with the field closed, up
                \* to a probe period of them: the ages of those in which it was excited

observers == <<clampedFor, tailFor, bulkFor, enabledFor, drivenFor, lit>>

Count(n, cond) == IF cond THEN Tock(n) ELSE 0

\* Read off the measurements: ignition on, no condition that stops or limits charging,
\* and no hard fault from the past.
Permitted(m) ==
  /\ m.ignition /\ m.vbat # NaN /\ ~Open(faults')
  /\ m.battTemp = "normal" \/ (m.battTemp = "none" /\ ~config.requireTemp)
  /\ m.ext \cap (LIMP_MASK \cup BLOCK_MASK) = {}

Observe(m) ==
  LET inBulk == state = "BULK" /\ Running(m)
  IN  /\ clampedFor' = Count(clampedFor, inBulk /\ Clamped)
      /\ tailFor' = IF inBulk /\ config.exitAtCv THEN tailFor
                                               ELSE Count(tailFor, inBulk /\ TailLow(m))
      /\ bulkFor' = Count(bulkFor, inBulk)
      /\ enabledFor' = Count(enabledFor, Permitted(m))
      /\ drivenFor' = Count(drivenFor, Regulating /\ m.running)
      /\ lit' = IF state' # "STANDBY" /\ ~m.running
                THEN {a + 1 : a \in {b \in lit : b + 1 < PROBE_PERIOD}}
                       \cup {a \in {0} : effort' > 0}
                ELSE {}

InitO == /\ Init
         /\ clampedFor = 0 /\ tailFor = 0 /\ bulkFor = 0
         /\ enabledFor = 0 /\ drivenFor = 0 /\ lit = {}
TickO == \E m \in Inputs : Tick(m) /\ Observe(m)
PublishO == \E g \in Configs : Publish(g) /\ UNCHANGED observers
NextO == TickO \/ PublishO
SpecO == InitO /\ [][NextO]_<<vars, observers>> /\ WF_<<vars, observers>>(TickO)

-----------------------------------------------------------------------------
(* Properties *)

\* A charged exit is earned: BULK is left for a rest only after the BULK time limit,
\* a trusted SOC, or a CV hold or tail hold that lasted without a break (control.c T2).
\* Solar Finish does not look at the tail: a switch to it and back inside one BULK leaves
\* the tail hold where it was, and only the ticks of the watching profile count.
ChargedExitEarned ==
  [][ (state = "BULK" /\ bulkFor' > 0 /\ state' # "BULK")
      => \/ bulkFor' >= config.tChargeMax
         \/ config.socTarget >= 0
         \/ config.exitAtCv /\ clampedFor' >= config.tVclamp
         \/ ~config.exitAtCv /\ config.cvHold > 0 /\ clampedFor' >= config.cvHold
         \/ ~config.exitAtCv /\ tailFor' >= config.tTail ]_<<vars, observers>>

\* The warmup gate holds: the first BULK or rest of an activation comes only after
\* the enable, with no limp fault, has lasted the whole warmup time (control.c T1).
WarmupHeld ==
  [][ (state = "STANDBY" /\ standby_reason # "REST" /\ Limp(faults') = FALSE
         /\ (state' # "STANDBY" \/ standby_reason' = "REST"))
      => enabledFor' >= config.warmup ]_<<vars, observers>>

\* Both together: every timer that lets the charge cycle move on was run from its beginning.
ExitsAreEarned == ChargedExitEarned /\ WarmupHeld

\* Soft start: however the field was stopped (standby, lost voltage, stationary rotor),
\* the commanded power climbs again from zero, one ramp step per driven tick, and no
\* faster than the steepest ramp that was ever published (§3.5).
SoftStart == drivenFor = TimerCap \/ \E g \in Configs : cmd_power <= drivenFor * g.ramp

\* Bulk charging always ends: the time limit, if nothing else, takes BULK away (T2c).
BulkEnds == state = "BULK" ~> state # "BULK"

\* A block resumes by itself: once nothing has forbidden charging for the whole warmup
\* time, the engine has left off, fault and warmup, whatever stopped it before, short of
\* a hard fault (CONTROL_SPEC 9.1, "BLOCK charge (auto-resume)").
AutoResumes ==
  [][ (config' = config /\ enabledFor' > 0 /\ enabledFor' >= config.warmup)
      => state' # "STANDBY" \/ standby_reason' = "REST" ]_<<vars, observers>>

\* A stationary rotor never gets more than the detect effort, and of any run of ticks as
\* long as a probe period, wherever it begins, it is excited in at most PROBE_ON: however
\* the phase wraps and the law swings, no two pulses touch (control.c 5.2).
StationaryBudget ==
  /\ (state # "STANDBY" /\ drivenFor = 0 /\ v_ctrl_f # NaN) => effort <= DETECT_EFFORT
  /\ Cardinality(lit) <= PROBE_ON

-----------------------------------------------------------------------------
(* Instances *)

base == [vbat |-> 2, vcomp |-> 2, amps |-> 0, watts |-> 0, isrc |-> "NONE",
         vsupBad |-> FALSE, altTemp |-> "normal", driverTemp |-> "normal",
         battTemp |-> "normal", running |-> TRUE, soc |-> -1, socTrusted |-> FALSE,
         ignition |-> TRUE, ext |-> {}, ceiling |-> NaN]
volts(v) == [base EXCEPT !.vbat = v, !.vcomp = v]

lfp == [cvTarget |-> 3, exitAtCv |-> FALSE, restZero |-> FALSE, restV |-> 2,
        restCap |-> 2, vRevert |-> 1, tRevert |-> 2, socRevert |-> -1,
        ahRevert |-> 0, maxPower |-> 3, ramp |-> 1, pTail |-> 0, tTail |-> 2,
        tVclamp |-> 2, cvHold |-> 3, tChargeMax |-> 5, warmup |-> 2,
        socTarget |-> -1, skipV |-> 0, skipSoc |-> -1, limpV |-> 2,
        limpCap |-> 1, requireTemp |-> FALSE]

\* The charge cycle: voltages through every threshold, tail power, and the
\* interruptions (key off, a temperature block, a limp fault, a hard fault).
cycleInputs ==
  {volts(v) : v \in 1..3}
  \cup {[volts(3) EXCEPT !.isrc = "BATT_SHUNT", !.watts = w, !.amps = w] : w \in 0..1}
  \cup {[volts(1) EXCEPT !.isrc = "NMEA_BATT", !.amps = -1]}
  \cup {[base EXCEPT !.ignition = FALSE],
        [base EXCEPT !.battTemp = "cold"],
        [volts(3) EXCEPT !.ext = {"LOST_BMS"}],
        [volts(NaN) EXCEPT !.watts = NaN],
        [base EXCEPT !.driverTemp = "crit"], volts(4)}
cycleConfigs == {lfp, [lfp EXCEPT !.restZero = TRUE, !.skipV = 2, !.ahRevert = 2,
                                  !.tTail = 4],
                 [lfp EXCEPT !.exitAtCv = TRUE, !.restZero = TRUE]}

\* The field: stationary rotor, lost voltage or power reading, ceilings, key off; and a
\* full charge with a trusted SOC.
fieldInputs ==
  {[volts(v) EXCEPT !.running = r] : v \in 1..2, r \in BOOLEAN}
  \cup {[volts(1) EXCEPT !.running = r, !.watts = 1] : r \in BOOLEAN}
  \cup {[volts(1) EXCEPT !.ceiling = c] : c \in {1, -1}}
  \cup {[volts(NaN) EXCEPT !.vbat = 2], [volts(1) EXCEPT !.watts = NaN],
        [base EXCEPT !.ignition = FALSE],
        [base EXCEPT !.battTemp = "none", !.vsupBad = TRUE]}
  \cup {[volts(3) EXCEPT !.soc = s, !.socTrusted = TRUE] : s \in {0, 9}}

\* A standard profile with no CV hold and no tail exit, which a SOC target ends, and
\* beside it Solar Finish, which skips BULK at a full SOC.
quick == [lfp EXCEPT !.warmup = 0, !.tChargeMax = 3, !.tTail = 1, !.tRevert = 1]
fieldConfigs == {[quick EXCEPT !.requireTemp = TRUE, !.cvHold = 0, !.pTail = -1,
                               !.socRevert = 0, !.socTarget = 9],
                 [quick EXCEPT !.exitAtCv = TRUE, !.skipSoc = 9, !.ramp = 2]}
=============================================================================
