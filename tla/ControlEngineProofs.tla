------------------------- MODULE ControlEngineProofs -------------------------
(***************************************************************************)
(* Theorems of ControlEngine, for every set of inputs, every set of        *)
(* configurations and every value of the gains and bounds; then of the     *)
(* engine beside its observers (MCControlEngine).                          *)
(***************************************************************************)
EXTENDS MCControlEngine, FiniteSetTheorems, TLAPS

\* STANDBY is annotated "fault" only while an open-class fault is latched.
FaultReason == (state = "STANDBY" /\ standby_reason = "FAULT") => Open(faults)

IInv == TypeOK /\ OpenFaultKillsField /\ FaultReason

USE NaNAssumption, InputsAssumption, ConfigsAssumption, GainsAssumption

-----------------------------------------------------------------------------
(* What the helpers return *)

LEMMA TockType == ASSUME NEW n \in 0..TimerCap PROVE Tock(n) \in 0..TimerCap
BY DEF Tock, Lesser

LEMMA EmaType == ASSUME NEW p \in Reading, NEW x \in Reading, NEW y \in Ema(p, x)
                 PROVE  y \in Reading
BY DEF Ema, Reading

LEMMA ArbType == ASSUME NEW stage \in Nat, NEW c \in Reading
                 PROVE  ArbWatts(stage, c) \in Nat
BY DEF ArbWatts, Reading

LEMMA TickFaults ==
  ASSUME TypeOK, NEW m \in Inputs, LatchFaults(m)
  PROVE  faults' \subseteq FaultBits /\ faults \cap OPEN_MASK \subseteq faults'
<1>1. DOMAIN Detected(m) \subseteq FaultBits
  BY DEF Detected, FaultBits, OPEN_MASK, LIMP_MASK, BLOCK_MASK, WARN_MASK
<1>2. m.ext \subseteq FaultBits
  BY DEF Measured
<1>3. QED
  BY <1>1, <1>2 DEF LatchFaults, TypeOK

LEMMA TickSignals ==
  ASSUME TypeOK, NEW m \in Inputs, DampSignals(m)
  PROVE  v_ctrl_f' \in Reading /\ v_revert_f' \in Reading /\ p_tail_f' \in Reading
<1>1. m.vcomp \in Reading /\ m.watts \in Reading
  BY DEF Measured
<1>2. QED
  BY <1>1, EmaType DEF DampSignals, TypeOK

LEMMA AhType ==
  ASSUME TypeOK, NEW m \in Inputs
  PROVE  AhIntegrated(m) \in 0..AhCap
<1>1. m.amps \in Reading
  BY DEF Measured
<1>2. CASE m.amps = NaN
  BY <1>2 DEF AhIntegrated, TypeOK
<1>3. CASE m.amps # NaN
  <2>1. ah_since_charged - m.amps \in Int
    BY <1>1, <1>3 DEF Reading, TypeOK
  <2>2. Clip(ah_since_charged - m.amps, 0, AhCap) \in 0..AhCap
    BY <2>1 DEF Clip
  <2>3. QED
    BY <2>2 DEF AhIntegrated, TypeOK
<1>4. QED
  BY <1>2, <1>3

\* The part of TypeOK the state machine assigns.
ModeType ==
  /\ state \in {"STANDBY", "BULK", "FLOAT"}
  /\ standby_reason \in {"OFF", "WARMUP", "REST", "FAULT"}
  /\ time_in_state \in 0..TimerCap /\ warmup_time \in 0..TimerCap
  /\ tail_hold \in 0..TimerCap /\ revert_hold \in 0..TimerCap
  /\ vclamp_hold \in 0..TimerCap
  /\ ah_since_charged \in 0..AhCap

LEMMA TickMode ==
  ASSUME TypeOK, NEW m \in Inputs, StateMachine(m)
  PROVE  ModeType'
<1> DEFINE T == 0..TimerCap
<1>1. AhIntegrated(m) \in 0..AhCap /\ 0 \in 0..AhCap /\ 0 \in T
  BY AhType
<1>2. Tock(time_in_state) \in T /\ Tock(warmup_time) \in T /\ Tock(0) \in T
  BY <1>1, TockType DEF TypeOK
<1>3. RevertHold \in T /\ VclampHold \in T /\ TailHold(m) \in T
  BY <1>1, TockType DEF TypeOK, RevertHold, VclampHold, TailHold
<1>4. CASE Disabled(m)
  BY <1>1, <1>4 DEF Disabled, Enter, ModeType, TypeOK
<1>5. CASE LimpHome(m)
  BY <1>1, <1>2, <1>5 DEF LimpHome, Enter, Stay, holds, ModeType, TypeOK
<1>6. CASE WarmupGate(m)
  BY <1>1, <1>2, <1>6 DEF WarmupGate, EnterRest, Enter, Stay, holds, ModeType, TypeOK
<1>7. CASE RestOrRevert(m)
  BY <1>1, <1>2, <1>3, <1>7 DEF RestOrRevert, Enter, Stay, ModeType, TypeOK
<1>8. CASE BulkOrCharged(m)
  BY <1>1, <1>2, <1>3, <1>8 DEF BulkOrCharged, EnterRest, Enter, Stay, ModeType, TypeOK
<1>9. QED
  BY <1>4, <1>5, <1>6, <1>7, <1>8 DEF StateMachine

LEMMA TickField ==
  ASSUME TypeOK, NEW m \in Inputs, v_ctrl_f' \in Reading, FieldControl(m)
  PROVE  /\ effort' \in 0..EFFORT_FULL /\ cmd_power' \in Nat
         /\ run_probe' \in 0..(PROBE_PERIOD - 1) /\ field_open' \in BOOLEAN
<1>1. config \in Config
  BY DEF TypeOK
<1>2. StageWatts \in Nat /\ TargetV \in Int
  BY <1>1 DEF StageWatts, TargetV, Config
<1>3. m.ceiling \in Reading /\ m.watts \in Reading
  BY DEF Measured
<1>4. ArbWatts(StageWatts, m.ceiling) \in Nat
  BY <1>2, <1>3, ArbType
<1>5. RampedPower(m) \in Nat
  BY <1>1, <1>4 DEF RampedPower, Lesser, TypeOK, Config
<1>6. LawPower(m) \in Nat
  BY <1>5 DEF LawPower
<1>7. LawEffort(m) \in 0..EFFORT_FULL
  <2>1. CASE ~Regulating \/ m.watts = NaN
    BY <2>1 DEF LawEffort, EffortLaw
  <2>2. CASE Regulating /\ m.watts # NaN
    <3> DEFINE dv == TargetV - v_ctrl_f'
               dp == RampedPower(m) - m.watts
    <3>1. dv \in Int /\ dp \in Int
      BY <1>2, <1>3, <1>5, <2>2 DEF Regulating, Reading
    <3>2. KV * dv \in Int /\ KP * dp \in Int
      <4> HIDE DEF dv, dp
      <4>1. QED
        BY <3>1
    <3>3. effort + KV * dv \in Int /\ effort + KP * dp \in Int
      BY <3>2 DEF TypeOK
    <3>4. Lesser(effort + KV * dv, effort + KP * dp) \in Int
      BY <3>3 DEF Lesser
    <3>5. Clip(Lesser(effort + KV * dv, effort + KP * dp), 0, EFFORT_FULL)
            \in 0..EFFORT_FULL
      BY <3>4 DEF Clip
    <3>6. QED
      BY <3>5 DEF LawEffort, EffortLaw
  <2>3. QED
    BY <2>1, <2>2
<1>8. effort' \in 0..EFFORT_FULL
  BY <1>7 DEF FieldControl, ProbeBudget, Lesser
<1>9. run_probe' \in 0..(PROBE_PERIOD - 1)
  BY DEF FieldControl, TypeOK
<1>10. QED
  BY <1>6, <1>8, <1>9 DEF FieldControl

-----------------------------------------------------------------------------
(* The invariant *)

LEMMA TickType == ASSUME TypeOK, NEW m \in Inputs, Tick(m) PROVE TypeOK'
<1>1. v_ctrl_f' \in Reading /\ v_revert_f' \in Reading /\ p_tail_f' \in Reading
  BY TickSignals DEF Tick
<1>2. faults' \subseteq FaultBits
  BY TickFaults DEF Tick
<1>3. ModeType'
  BY TickMode DEF Tick
<1>4. /\ effort' \in 0..EFFORT_FULL /\ cmd_power' \in Nat
      /\ run_probe' \in 0..(PROBE_PERIOD - 1) /\ field_open' \in BOOLEAN
  BY <1>1, TickField DEF Tick
<1>5. config' \in Configs
  BY DEF Tick, TypeOK
<1>6. QED
  BY <1>1, <1>2, <1>3, <1>4, <1>5 DEF TypeOK, ModeType

\* With an open-class fault the only way through the state machine is Disabled.
LEMMA OpenDisables ==
  ASSUME NEW m \in Inputs, StateMachine(m), Open(faults')
  PROVE  state' = "STANDBY" /\ standby_reason' = "FAULT"
<1>1. ~Enable(m)
  BY DEF Enable
<1>2. Disabled(m)
  BY <1>1 DEF StateMachine, LimpHome, WarmupGate, RestOrRevert, BulkOrCharged, Running
<1>3. QED
  BY <1>2 DEF Disabled, Enter

LEMMA StandbyOpensField ==
  ASSUME TypeOK, NEW m \in Inputs, FieldControl(m), state' = "STANDBY"
  PROVE  field_open' /\ effort' = 0 /\ cmd_power' = 0
<1>1. ~Gated(m) /\ LawEffort(m) = 0 /\ LawPower(m) = 0
  BY DEF Gated, LawEffort, LawPower, Regulating
<1>2. QED
  BY <1>1 DEF FieldControl

\* Only Disabled annotates STANDBY with "fault", and only for an open-class fault;
\* the other actions that keep the annotation are not enabled while one is latched.
LEMMA TickFaultReason ==
  ASSUME IInv, NEW m \in Inputs, Tick(m)
  PROVE  FaultReason'
<1>1. SUFFICES ASSUME state' = "STANDBY", standby_reason' = "FAULT", ~Open(faults')
               PROVE  FALSE
  BY DEF FaultReason
<1>2. faults \cap OPEN_MASK \subseteq faults'
  BY TickFaults DEF Tick, IInv
<1>3. ~Open(faults)
  BY <1>1, <1>2 DEF Open
<1>4. ~(state = "STANDBY" /\ standby_reason = "FAULT")
  BY <1>3 DEF IInv, FaultReason
<1>5. CASE Disabled(m)
  BY <1>1, <1>5 DEF Disabled, Enter
<1>6. CASE LimpHome(m)
  BY <1>1, <1>4, <1>6 DEF LimpHome, Enter, Stay
<1>7. CASE WarmupGate(m)
  BY <1>1, <1>4, <1>7 DEF WarmupGate, EnterRest, Enter, Stay
<1>8. CASE RestOrRevert(m)
  BY <1>1, <1>4, <1>8 DEF RestOrRevert, Enter, Stay
<1>9. CASE BulkOrCharged(m)
  BY <1>1, <1>4, <1>9 DEF BulkOrCharged, EnterRest, Enter, Stay
<1>10. QED
  BY <1>5, <1>6, <1>7, <1>8, <1>9 DEF Tick, StateMachine

LEMMA InitIInv == Init => IInv
<1>1. SUFFICES ASSUME Init PROVE IInv
  OBVIOUS
<1>2. TypeOK
  BY <1>1 DEF Init, TypeOK, Reading
<1>3. OpenFaultKillsField /\ FaultReason
  BY <1>1 DEF Init, OpenFaultKillsField, FaultReason, Open
<1>4. QED
  BY <1>2, <1>3 DEF IInv

LEMMA NextIInv == IInv /\ [Next]_vars => IInv'
<1>1. SUFFICES ASSUME IInv, [Next]_vars PROVE IInv'
  OBVIOUS
<1>2. ASSUME NEW m \in Inputs, Tick(m) PROVE IInv'
  <2>1. TypeOK'
    BY <1>1, <1>2, TickType DEF IInv
  <2>2. OpenFaultKillsField'
    BY <1>1, <1>2, OpenDisables, StandbyOpensField DEF IInv, OpenFaultKillsField, Tick
  <2>3. FaultReason'
    BY <1>1, <1>2, TickFaultReason
  <2>4. QED
    BY <2>1, <2>2, <2>3 DEF IInv
<1>3. ASSUME NEW g \in Configs, Publish(g) PROVE IInv'
  BY <1>1, <1>3 DEF IInv, TypeOK, OpenFaultKillsField, FaultReason, Open, Publish,
                    engineVars, signals, holds, fieldVars
<1>4. CASE UNCHANGED vars
  BY <1>1, <1>4 DEF IInv, TypeOK, OpenFaultKillsField, FaultReason, Open, vars,
                    engineVars, signals, holds, fieldVars
<1>5. QED
  BY <1>1, <1>2, <1>3, <1>4 DEF Next

\* Every reachable state satisfies the invariant.
THEOREM Invariance == Spec => []IInv
BY InitIInv, NextIInv, PTL DEF Spec

\* Every variable keeps its type, whatever is measured or published.
THEOREM TypeCorrect == Spec => []TypeOK
<1>1. IInv => TypeOK
  BY DEF IInv
<1>2. QED
  BY <1>1, Invariance, PTL

\* While an open-class fault is latched the field is open and nothing is commanded.
THEOREM OpenFaultSafety == Spec => []OpenFaultKillsField
<1>1. IInv => OpenFaultKillsField
  BY DEF IInv
<1>2. QED
  BY <1>1, Invariance, PTL

\* Entering a state clears the holds and its clock; a stay counts both or the clock alone.
LEMMA TickHolds ==
  ASSUME TypeOK, HoldsOfThisStay, NEW m \in Inputs, StateMachine(m)
  PROVE  HoldsOfThisStay'
<1>1. /\ 0 <= Tock(time_in_state)
      /\ tail_hold <= Tock(time_in_state) /\ Tock(tail_hold) <= Tock(time_in_state)
      /\ revert_hold <= Tock(time_in_state) /\ Tock(revert_hold) <= Tock(time_in_state)
      /\ vclamp_hold <= Tock(time_in_state) /\ Tock(vclamp_hold) <= Tock(time_in_state)
  BY DEF TypeOK, HoldsOfThisStay, Tock, Lesser
<1>2. /\ RevertHold <= Tock(time_in_state)
      /\ VclampHold <= Tock(time_in_state)
      /\ TailHold(m) <= Tock(time_in_state)
  BY <1>1 DEF RevertHold, VclampHold, TailHold
<1>3. ASSUME NEW s, NEW r, Enter(s, r) PROVE HoldsOfThisStay'
  BY <1>3 DEF Enter, HoldsOfThisStay
<1>4. CASE Stay /\ UNCHANGED holds
  BY <1>1, <1>4 DEF Stay, holds, HoldsOfThisStay
<1>5. CASE Disabled(m)
  BY <1>3, <1>5 DEF Disabled
<1>6. CASE LimpHome(m)
  BY <1>3, <1>4, <1>6 DEF LimpHome
<1>7. CASE WarmupGate(m)
  BY <1>3, <1>4, <1>7 DEF WarmupGate, EnterRest
<1>8. CASE RestOrRevert(m)
  BY <1>1, <1>2, <1>3, <1>8 DEF RestOrRevert, Stay, HoldsOfThisStay
<1>9. CASE BulkOrCharged(m)
  BY <1>1, <1>2, <1>3, <1>9 DEF BulkOrCharged, EnterRest, Stay, HoldsOfThisStay
<1>10. QED
  BY <1>5, <1>6, <1>7, <1>8, <1>9 DEF StateMachine

\* What was held in an earlier stay never ends a later one.
THEOREM HoldsBelongToStay == Spec => []HoldsOfThisStay
<1>1. Init => HoldsOfThisStay
  BY DEF Init, HoldsOfThisStay
<1>2. IInv /\ HoldsOfThisStay /\ [Next]_vars => HoldsOfThisStay'
  <2>1. SUFFICES ASSUME IInv, HoldsOfThisStay, [Next]_vars PROVE HoldsOfThisStay'
    OBVIOUS
  <2>2. ASSUME NEW m \in Inputs, Tick(m) PROVE HoldsOfThisStay'
    BY <2>1, <2>2, TickHolds DEF IInv, Tick
  <2>3. ASSUME NEW g \in Configs, Publish(g) PROVE HoldsOfThisStay'
    BY <2>1, <2>3 DEF Publish, engineVars, holds, HoldsOfThisStay
  <2>4. CASE UNCHANGED vars
    BY <2>1, <2>4 DEF vars, engineVars, holds, HoldsOfThisStay
  <2>5. QED
    BY <2>1, <2>2, <2>3, <2>4 DEF Next
<1>3. QED
  BY <1>1, <1>2, Invariance, PTL DEF Spec

\* Open-class faults are never withdrawn by a tick or by a configuration.
THEOREM OpenFaultLatching == Spec => OpenFaultLatches
<1>1. IInv /\ [Next]_vars => [faults \cap OPEN_MASK \subseteq faults']_vars
  <2>1. SUFFICES ASSUME IInv, Next PROVE faults \cap OPEN_MASK \subseteq faults'
    OBVIOUS
  <2>2. ASSUME NEW m \in Inputs, Tick(m) PROVE faults \cap OPEN_MASK \subseteq faults'
    BY <2>1, <2>2, TickFaults DEF Tick, IInv
  <2>3. ASSUME NEW g \in Configs, Publish(g) PROVE faults \cap OPEN_MASK \subseteq faults'
    BY <2>3 DEF Publish, engineVars
  <2>4. QED
    BY <2>1, <2>2, <2>3 DEF Next
<1>2. QED
  BY <1>1, Invariance, PTL DEF Spec, OpenFaultLatches

-----------------------------------------------------------------------------
(* Refinement: the engine is a ChargeCycle *)

LEMMA TickCycle == ASSUME IInv, NEW m \in Inputs, Tick(m) PROVE [Cycle!Next]_Mode
<1> USE DEF Cycle!Next, Cycle!StartWarmup, Cycle!StartBulk, Cycle!StartRest,
            Cycle!StartFloat, Cycle!SwitchOff, Cycle!Trip
<1>1. faults \cap OPEN_MASK \subseteq faults'
  BY TickFaults DEF Tick, IInv
<1>2. (state = "STANDBY" /\ standby_reason = "FAULT") => Open(faults')
  BY <1>1 DEF IInv, FaultReason, Open
<1>3. state \in {"STANDBY", "BULK", "FLOAT"}
      /\ standby_reason \in {"OFF", "WARMUP", "REST", "FAULT"}
  BY DEF IInv, TypeOK
<1>4. CASE Disabled(m)
  <2>1. CASE Open(faults')
    BY <1>4, <2>1 DEF Disabled, Enter, Mode
  <2>2. CASE ~Open(faults')
    BY <1>2, <1>3, <1>4, <2>2 DEF Disabled, Enter, Mode
  <2>3. QED
    BY <2>1, <2>2
<1>5. CASE LimpHome(m)
  BY <1>2, <1>3, <1>5 DEF LimpHome, Limp, Enter, Stay, Mode
<1>6. CASE WarmupGate(m)
  <2>1. standby_reason \in {"OFF", "WARMUP"}
    BY <1>2, <1>3, <1>6 DEF WarmupGate, Running, Enable
  <2>2. QED
    BY <2>1, <1>6 DEF WarmupGate, EnterRest, Enter, Stay, Mode
<1>7. CASE RestOrRevert(m)
  BY <1>3, <1>7 DEF RestOrRevert, Resting, Enter, Stay, Mode
<1>8. CASE BulkOrCharged(m)
  BY <1>8 DEF BulkOrCharged, EnterRest, Enter, Stay, Mode
<1>9. QED
  BY <1>4, <1>5, <1>6, <1>7, <1>8 DEF Tick, StateMachine

\* The engine implements the abstract charge cycle: fault is never left, BULK is entered
\* only from the gate or a rest, a rest follows BULK or the gate.
THEOREM EngineIsChargeCycle == Spec => CycleSpec
<1>1. Init => Cycle!Init
  BY DEF Init, Cycle!Init, Mode
<1>2. IInv /\ [Next]_vars => [Cycle!Next]_Mode
  <2>1. SUFFICES ASSUME IInv, [Next]_vars PROVE [Cycle!Next]_Mode
    OBVIOUS
  <2>2. ASSUME NEW m \in Inputs, Tick(m) PROVE [Cycle!Next]_Mode
    BY <2>1, <2>2, TickCycle
  <2>3. ASSUME NEW g \in Configs, Publish(g) PROVE [Cycle!Next]_Mode
    BY <2>3 DEF Publish, engineVars, Mode
  <2>4. CASE UNCHANGED vars
    BY <2>4 DEF vars, engineVars, Mode
  <2>5. QED
    BY <2>1, <2>2, <2>3, <2>4 DEF Next
<1>3. QED
  BY <1>1, <1>2, Invariance, PTL DEF Spec, CycleSpec, Cycle!Spec

-----------------------------------------------------------------------------
(* The engine and its observers: what the engine's own timers and commands say is *)
(* what the observers, which look at the measurements alone, have counted.         *)

\* The observers count up to the cap of the engine's timers.
Counters ==
  /\ clampedFor \in 0..TimerCap /\ tailFor \in 0..TimerCap /\ bulkFor \in 0..TimerCap
  /\ enabledFor \in 0..TimerCap /\ drivenFor \in 0..TimerCap

\* No timer of BULK is ahead of what was observed since BULK was entered.
BulkTimed ==
  state = "BULK" => /\ time_in_state <= bulkFor
                    /\ vclamp_hold <= clampedFor
                    /\ tail_hold <= tailFor

\* The warmup timer is the time since charging was last forbidden; outside the gate
\* a STANDBY that is not a rest has just been forbidden to charge.
WarmupTimed ==
  state = "STANDBY" => /\ standby_reason = "WARMUP" => warmup_time = enabledFor
                       /\ standby_reason \in {"OFF", "FAULT"} => enabledFor = 0

\* SoftStart, and nothing is commanded when nothing was driven.
Ramped == SoftStart /\ (drivenFor = 0 => cmd_power = 0)

\* A rotor that is regulated and not driven stands still.
ProbeOnly ==
  (state # "STANDBY" /\ drivenFor = 0 /\ v_ctrl_f # NaN) => effort <= DETECT_EFFORT

\* The phase of the probe a ticks ago.
PhaseAt(a) == IF a <= run_probe THEN run_probe - a ELSE run_probe - a + PROBE_PERIOD

\* The rotor was excited only at phases of the pulse, of the present round or of the last.
LitInPulse == lit \subseteq 0..PROBE_PERIOD - 1 /\ \A a \in lit : PhaseAt(a) < PROBE_ON

ObsInv == Counters /\ BulkTimed /\ WarmupTimed /\ Ramped /\ ProbeOnly /\ LitInPulse

-----------------------------------------------------------------------------
(* What the observers see of one tick *)

LEMMA CountType == ASSUME NEW n \in 0..TimerCap, NEW c \in BOOLEAN
                   PROVE  /\ Count(n, c) \in 0..TimerCap
                          /\ Count(n, c) = 0 <=> ~c
BY DEF Count, Tock, Lesser

LEMMA TickCounters ==
  ASSUME TypeOK, Counters, NEW m \in Inputs, Observe(m)
  PROVE  Counters'
<1> DEFINE inBulk == state = "BULK" /\ Running(m)
<1>1. /\ (inBulk /\ Clamped) \in BOOLEAN /\ (inBulk /\ TailLow(m)) \in BOOLEAN
      /\ inBulk \in BOOLEAN /\ Permitted(m) \in BOOLEAN /\ (Regulating /\ m.running) \in BOOLEAN
  BY DEF Clamped, AtLeast, TailLow, Permitted, Regulating, Running
<1>2. QED
  BY <1>1, CountType DEF Counters, Observe

\* What lets the engine run normally is exactly what the observer reads off the input:
\* of a tick's faults only the open class is remembered.
LEMMA PermittedIsRunning ==
  ASSUME TypeOK, NEW m \in Inputs, LatchFaults(m)
  PROVE  Permitted(m) <=> Running(m)
<1> DEFINE D == {f \in DOMAIN Detected(m) : Detected(m)[f]}
<1>1. faults' = (faults \cap OPEN_MASK) \cup m.ext \cup D
  BY DEF LatchFaults
<1>2. /\ "LOST_VBAT_SENSE" \in D <=> m.vbat = NaN
      /\ "BATT_LOWTEMP" \in D <=> m.battTemp = "cold"
      /\ "BATT_HIGHTEMP" \in D <=> m.battTemp = "hot"
      /\ "BATT_TEMP_REQUIRED" \in D <=> m.battTemp = "none" /\ config.requireTemp
  BY DEF Detected
<1>3. D \cap LIMP_MASK = D \cap {"LOST_VBAT_SENSE"}
  BY DEF Detected, LIMP_MASK
<1>5. OPEN_MASK \cap LIMP_MASK = {} /\ OPEN_MASK \cap BLOCK_MASK = {}
  BY DEF OPEN_MASK, LIMP_MASK, BLOCK_MASK
<1>6. Blocked(faults') <=> \/ m.ext \cap BLOCK_MASK # {}
                           \/ m.battTemp \in {"cold", "hot"}
                           \/ m.battTemp = "none" /\ config.requireTemp
  <2>1. Blocked(faults') <=> m.ext \cap BLOCK_MASK # {} \/ D \cap BLOCK_MASK # {}
    <3> HIDE DEF D
    <3>1. QED
      BY <1>1, <1>5 DEF Blocked
  <2>2. D \cap BLOCK_MASK # {} <=> \/ "BATT_LOWTEMP" \in D \/ "BATT_HIGHTEMP" \in D
                                   \/ "BATT_TEMP_REQUIRED" \in D
    <3> HIDE DEF D
    <3>1. QED
      BY DEF BLOCK_MASK
  <2>3. QED
    BY <1>2, <2>1, <2>2
<1>7. faults' \cap LIMP_MASK # {} <=> m.ext \cap LIMP_MASK # {} \/ m.vbat = NaN
  <2>1. faults' \cap LIMP_MASK # {} <=> m.ext \cap LIMP_MASK # {} \/ D \cap LIMP_MASK # {}
    <3> HIDE DEF D
    <3>1. QED
      BY <1>1, <1>5
  <2>2. D \cap LIMP_MASK # {} <=> "LOST_VBAT_SENSE" \in D
    <3> HIDE DEF D
    <3>1. QED
      BY <1>3 DEF LIMP_MASK
  <2>3. QED
    BY <1>2, <2>1, <2>2
<1>8. m.battTemp \in {"none", "cold", "normal", "hot"}
  BY DEF Measured
<1>9. m.ext \cap (LIMP_MASK \cup BLOCK_MASK) = {}
        <=> m.ext \cap LIMP_MASK = {} /\ m.ext \cap BLOCK_MASK = {}
  OBVIOUS
<1>10. QED
  BY <1>6, <1>7, <1>8, <1>9 DEF Permitted, Running, Enable, Limp

-----------------------------------------------------------------------------
(* One tick, one conjunct of the invariant after the other *)

\* BULK is kept only by BulkOrCharged; every other way into it clears the timers.
LEMMA TickBulk ==
  ASSUME TypeOK, Counters, BulkTimed, NEW m \in Inputs, StateMachine(m), Observe(m)
  PROVE  BulkTimed'
<1> DEFINE Cleared == time_in_state' = 0 /\ vclamp_hold' = 0 /\ tail_hold' = 0
<1>1. Counters'
  BY TickCounters
<1>2. CASE state' # "BULK"
  BY <1>2 DEF BulkTimed
<1>3. CASE Cleared
  BY <1>1, <1>3 DEF BulkTimed, Counters
<1>4. CASE BulkOrCharged(m) /\ state' = "BULK"
  <2>1. state = "BULK" /\ Running(m) /\ ~Charged(m)
    BY <1>4 DEF BulkOrCharged, EnterRest, Enter
  <2>2. /\ time_in_state' = Tock(time_in_state)
        /\ vclamp_hold' = VclampHold /\ tail_hold' = TailHold(m)
    BY <1>4, <2>1 DEF BulkOrCharged, Stay
  <2>3. /\ bulkFor' = Tock(bulkFor)
        /\ clampedFor' = (IF Clamped THEN Tock(clampedFor) ELSE 0)
        /\ tailFor' = (IF config.exitAtCv THEN tailFor
                       ELSE IF TailLow(m) THEN Tock(tailFor) ELSE 0)
    BY <2>1 DEF Observe, Count
  <2>4. /\ time_in_state <= bulkFor /\ vclamp_hold <= clampedFor /\ tail_hold <= tailFor
    BY <2>1 DEF BulkTimed
  <2>5. /\ Tock(time_in_state) <= Tock(bulkFor) /\ Tock(vclamp_hold) <= Tock(clampedFor)
        /\ Tock(tail_hold) <= Tock(tailFor)
    BY <2>4 DEF Tock, Lesser, TypeOK, Counters
  <2>6. QED
    BY <2>2, <2>3, <2>4, <2>5 DEF BulkTimed, VclampHold, TailHold
<1>5. CASE Disabled(m)
  BY <1>2, <1>5 DEF Disabled, Enter
<1>6. CASE LimpHome(m)
  BY <1>2, <1>6 DEF LimpHome, Enter, Stay
<1>7. CASE WarmupGate(m)
  BY <1>2, <1>3, <1>7 DEF WarmupGate, EnterRest, Enter, Stay
<1>8. CASE RestOrRevert(m)
  BY <1>2, <1>3, <1>8 DEF RestOrRevert, Resting, Enter, Stay
<1>9. QED
  BY <1>2, <1>4, <1>5, <1>6, <1>7, <1>8 DEF StateMachine

LEMMA TickWarmup ==
  ASSUME TypeOK, Counters, WarmupTimed, NEW m \in Inputs,
         LatchFaults(m), StateMachine(m), Observe(m)
  PROVE  WarmupTimed'
<1>1. /\ Running(m) => enabledFor' = Tock(enabledFor)
      /\ ~Running(m) => enabledFor' = 0
  BY PermittedIsRunning DEF Observe, Count
<1>2. CASE Disabled(m)
  <2>1. enabledFor' = 0 /\ standby_reason' # "WARMUP"
    BY <1>1, <1>2 DEF Disabled, Enter, Running
  <2>2. QED
    BY <2>1 DEF WarmupTimed
<1>3. CASE LimpHome(m)
  <2>1. state' = "FLOAT"
    BY <1>3 DEF LimpHome, Enter, Stay
  <2>2. QED
    BY <2>1 DEF WarmupTimed
<1>4. CASE WarmupGate(m)
  <2>1. standby_reason \in {"OFF", "WARMUP", "FAULT"}
    BY <1>4 DEF WarmupGate, TypeOK
  <2>2. warmup_time' = enabledFor'
    BY <1>1, <1>4, <2>1 DEF WarmupGate, WarmupTimed
  <2>3. state' = "STANDBY" => standby_reason' \in {"WARMUP", "REST"}
    BY <1>4 DEF WarmupGate, EnterRest, Enter, Stay
  <2>4. QED
    BY <2>2, <2>3 DEF WarmupTimed
<1>5. CASE RestOrRevert(m)
  <2>1. state' = "STANDBY" => standby_reason' = "REST"
    BY <1>5 DEF RestOrRevert, Resting, Enter, Stay
  <2>2. QED
    BY <2>1 DEF WarmupTimed
<1>6. CASE BulkOrCharged(m)
  <2>1. state' = "STANDBY" => standby_reason' = "REST"
    BY <1>6 DEF BulkOrCharged, EnterRest, Enter, Stay
  <2>2. QED
    BY <2>1 DEF WarmupTimed
<1>7. QED
  BY <1>2, <1>3, <1>4, <1>5, <1>6 DEF StateMachine

\* One tick raises the commanded power by one ramp step at most, and only a tick that
\* the observer counts as driven commands any.
LEMMA TickRamp ==
  ASSUME TypeOK, NEW m \in Inputs, FieldControl(m)
  PROVE  /\ cmd_power' <= cmd_power + config.ramp
         /\ ~(Regulating /\ m.running) => cmd_power' = 0
<1>1. config \in Config /\ m.ceiling \in Reading
  BY DEF TypeOK, Measured
<1>2. StageWatts \in Nat
  BY <1>1 DEF StageWatts, Config
<1>3. ArbWatts(StageWatts, m.ceiling) \in Nat
  BY <1>1, <1>2, ArbType
<1>4. config.ramp \in Nat /\ cmd_power \in Nat
  BY <1>1 DEF TypeOK, Config
<1>5. RampedPower(m) <= cmd_power + config.ramp
  BY <1>3, <1>4 DEF RampedPower, Lesser
<1>6. cmd_power' <= cmd_power + config.ramp
  BY <1>4, <1>5 DEF FieldControl, LawPower
<1>7. ~(Regulating /\ m.running) => cmd_power' = 0
  BY DEF FieldControl, LawPower, Gated, Regulating
<1>8. QED
  BY <1>6, <1>7

LEMMA StepsAdd ==
  ASSUME NEW n \in Nat, NEW a \in Nat, NEW r \in Nat, NEW s \in Nat, NEW p \in Nat,
         p <= n * a + r, a <= s, r <= s
  PROVE  p <= (n + 1) * s
<1>1. n * a <= n * s
  <2>1. n * (s - a) \in Nat /\ n * (s - a) = n * s - n * a
    OBVIOUS
  <2>2. QED
    BY <2>1
<1>2. (n + 1) * s = n * s + s
  OBVIOUS
<1>3. n * a \in Nat /\ n * s \in Nat
  OBVIOUS
<1>4. QED
  BY <1>1, <1>2, <1>3

LEMMA TickRamped ==
  ASSUME TypeOK, TypeOK', Counters, Ramped, NEW m \in Inputs, FieldControl(m), Observe(m)
  PROVE  Ramped'
<1>1. /\ cmd_power' <= cmd_power + config.ramp
      /\ ~(Regulating /\ m.running) => cmd_power' = 0
  BY TickRamp
<1>2. drivenFor' = (IF Regulating /\ m.running THEN Tock(drivenFor) ELSE 0)
  BY DEF Observe, Count
<1>3. CASE ~(Regulating /\ m.running)
  <2>1. cmd_power' = 0 /\ drivenFor' = 0
    BY <1>1, <1>2, <1>3
  <2>2. config \in Configs /\ config.ramp \in Nat
    BY DEF TypeOK, Config
  <2>3. 0 <= 0 * config.ramp
    BY <2>2
  <2>4. QED
    BY <2>1, <2>2, <2>3 DEF Ramped, SoftStart
<1>4. CASE Regulating /\ m.running /\ drivenFor + 1 < TimerCap
  <2>1. drivenFor' = drivenFor + 1 /\ drivenFor # TimerCap /\ drivenFor \in Nat
    BY <1>2, <1>4 DEF Tock, Lesser, Counters
  <2>2. PICK g \in Configs : cmd_power <= drivenFor * g.ramp
    BY <2>1 DEF Ramped, SoftStart
  <2>3. /\ config \in Configs /\ config.ramp \in Nat /\ g.ramp \in Nat
        /\ cmd_power \in Nat /\ cmd_power' \in Nat
    BY DEF TypeOK, Config
  <2>4. cmd_power' <= drivenFor * g.ramp + config.ramp
    <3> DEFINE x == drivenFor * g.ramp
    <3>1. x \in Nat /\ cmd_power <= x
      BY <2>1, <2>2, <2>3
    <3> HIDE DEF x
    <3>2. cmd_power' <= x + config.ramp
      BY <1>1, <2>3, <3>1
    <3>3. QED
      BY <3>2 DEF x
  <2>5. \E h \in Configs : cmd_power' <= (drivenFor + 1) * h.ramp
    <3>1. CASE g.ramp <= config.ramp
      <4>1. cmd_power' <= (drivenFor + 1) * config.ramp
        BY <2>1, <2>3, <2>4, <3>1, StepsAdd
      <4>2. QED
        BY <2>3, <4>1
    <3>2. CASE config.ramp <= g.ramp
      <4>1. g.ramp <= g.ramp
        BY <2>3
      <4>2. cmd_power' <= (drivenFor + 1) * g.ramp
        BY <2>1, <2>3, <2>4, <3>2, <4>1, StepsAdd
      <4>3. QED
        BY <4>2
    <3>3. QED
      BY <2>3, <3>1, <3>2
  <2>6. QED
    BY <2>1, <2>5 DEF Ramped, SoftStart, Counters
<1>5. CASE Regulating /\ m.running /\ drivenFor + 1 >= TimerCap
  <2>1. drivenFor' = TimerCap
    BY <1>2, <1>5 DEF Tock, Lesser, Counters
  <2>2. QED
    BY <2>1 DEF Ramped, SoftStart
<1>6. drivenFor + 1 < TimerCap \/ drivenFor + 1 >= TimerCap
  BY DEF Counters
<1>7. QED
  BY <1>3, <1>4, <1>5, <1>6

\* Behind the gate no more gets through than the probe's budget.
LEMMA GatedEffort ==
  ASSUME TypeOK', NEW m \in Inputs, FieldControl(m), Gated(m)
  PROVE  effort' \in Nat /\ ProbeBudget \in Nat /\ effort' <= ProbeBudget
<1>1. effort' = Lesser(LawEffort(m), ProbeBudget) /\ effort' \in Nat
  BY DEF FieldControl, TypeOK
<1>2. ProbeBudget \in Nat
  BY DEF ProbeBudget
<1>3. CASE LawEffort(m) <= ProbeBudget
  BY <1>1, <1>2, <1>3 DEF Lesser
<1>4. CASE ~(LawEffort(m) <= ProbeBudget)
  BY <1>1, <1>2, <1>4 DEF Lesser
<1>5. QED
  BY <1>1, <1>2, <1>3, <1>4

\* A field that is regulated but not counted as driven belongs to a stationary rotor.
LEMMA TickProbe ==
  ASSUME TypeOK, TypeOK', Counters, NEW m \in Inputs, FieldControl(m), Observe(m)
  PROVE  ProbeOnly'
<1>1. SUFFICES ASSUME state' # "STANDBY", drivenFor' = 0, v_ctrl_f' # NaN
               PROVE  effort' <= DETECT_EFFORT
  BY DEF ProbeOnly
<1>2. Regulating
  BY <1>1 DEF Regulating
<1>3. ~m.running
  BY <1>1, <1>2, CountType DEF Observe, Count, Counters, Tock, Lesser
<1>4. Gated(m)
  BY <1>1, <1>3 DEF Gated
<1>5. QED
  BY <1>4, GatedEffort DEF ProbeBudget

\* With every tick that it stands still, the phase of each excited tick stays what it was,
\* while its age and the phase of the probe go on together.
LEMMA TickLit ==
  ASSUME TypeOK, TypeOK', LitInPulse, NEW m \in Inputs, FieldControl(m), Observe(m)
  PROVE  LitInPulse'
<1>1. /\ run_probe \in 0..PROBE_PERIOD - 1 /\ run_probe' \in 0..PROBE_PERIOD - 1
      /\ PROBE_PERIOD \in Nat \ {0} /\ PROBE_ON \in Nat
  BY DEF TypeOK
<1>2. CASE ~Gated(m)
  <2>1. lit' = {}
    BY <1>2 DEF Gated, Observe
  <2>2. QED
    BY <2>1 DEF LitInPulse
<1>3. CASE Gated(m)
  <2>1. /\ lit' = {a + 1 : a \in {b \in lit : b + 1 < PROBE_PERIOD}}
                    \cup {a \in {0} : effort' > 0}
        /\ run_probe' = IF run_probe + 1 < PROBE_PERIOD THEN run_probe + 1 ELSE 0
    BY <1>3 DEF Gated, Observe, FieldControl
  <2>2. ASSUME NEW a \in lit, a + 1 < PROBE_PERIOD
        PROVE  a + 1 \in 0..PROBE_PERIOD - 1 /\ PhaseAt(a + 1)' < PROBE_ON
    <3>1. a \in 0..PROBE_PERIOD - 1 /\ PhaseAt(a) < PROBE_ON
      BY DEF LitInPulse
    <3>2. CASE run_probe + 1 < PROBE_PERIOD
      BY <1>1, <2>1, <2>2, <3>1, <3>2 DEF PhaseAt
    <3>3. CASE run_probe + 1 = PROBE_PERIOD
      BY <1>1, <2>1, <2>2, <3>1, <3>3 DEF PhaseAt
    <3>4. QED
      BY <1>1, <3>2, <3>3
  <2>3. ASSUME effort' > 0 PROVE 0 \in 0..PROBE_PERIOD - 1 /\ PhaseAt(0)' < PROBE_ON
    <3>1. effort' \in Nat /\ ProbeBudget \in Nat /\ effort' <= ProbeBudget
      BY <1>3, GatedEffort
    <3>2. run_probe' < PROBE_ON
      <4>1. CASE ~(run_probe' < PROBE_ON)
        <5>1. ProbeBudget = 0
          BY <4>1 DEF ProbeBudget
        <5>2. QED
          BY <2>3, <3>1, <5>1
      <4>2. QED
        BY <4>1
    <3>3. 0 \in 0..PROBE_PERIOD - 1
      BY <1>1
    <3>4. run_probe' \in Nat
      BY <1>1
    <3>5. 0 <= run_probe' /\ run_probe' - 0 = run_probe'
      <4>1. \A n \in Nat : 0 <= n /\ n - 0 = n
        OBVIOUS
      <4>2. QED
        BY <3>4, <4>1
    <3>6. PhaseAt(0)' = run_probe'
      BY <3>5 DEF PhaseAt
    <3>7. QED
      BY <3>2, <3>3, <3>6
  <2>4. QED
    BY <2>1, <2>2, <2>3 DEF LitInPulse
<1>4. QED
  BY <1>2, <1>3

-----------------------------------------------------------------------------
(* The invariant *)

LEMMA InitObs == InitO => ObsInv
<1>1. SUFFICES ASSUME InitO PROVE ObsInv
  OBVIOUS
<1>2. config \in Configs /\ config.ramp \in Nat
  BY <1>1 DEF InitO, Init, Config
<1>3. Ramped
  BY <1>1, <1>2 DEF InitO, Init, Ramped, SoftStart
<1>4. QED
  BY <1>1, <1>3 DEF InitO, Init, ObsInv, Counters, BulkTimed, WarmupTimed, ProbeOnly, LitInPulse

\* Nothing the invariant speaks of is touched by a publication or a stutter.
LEMMA KeptObs == ASSUME ObsInv, UNCHANGED engineVars, UNCHANGED observers PROVE ObsInv'
<1>1. Counters' /\ BulkTimed'
  BY DEF ObsInv, Counters, BulkTimed, engineVars, holds, observers
<1>2. WarmupTimed' /\ ProbeOnly'
  BY DEF ObsInv, WarmupTimed, ProbeOnly, engineVars, signals, fieldVars, observers
<1>3. Ramped'
  BY DEF ObsInv, Ramped, SoftStart, engineVars, fieldVars, observers
<1>4. LitInPulse'
  BY DEF ObsInv, LitInPulse, PhaseAt, engineVars, fieldVars, observers
<1>5. QED
  BY <1>1, <1>2, <1>3, <1>4 DEF ObsInv

LEMMA NextObs == IInv /\ ObsInv /\ [NextO]_<<vars, observers>> => ObsInv'
<1>1. SUFFICES ASSUME IInv, ObsInv, [NextO]_<<vars, observers>> PROVE ObsInv'
  OBVIOUS
<1>2. ASSUME NEW m \in Inputs, Tick(m), Observe(m) PROVE ObsInv'
  <2>1. TypeOK /\ TypeOK'
    BY <1>1, <1>2, TickType DEF IInv
  <2>2. Counters'
    BY <1>1, <1>2, <2>1, TickCounters DEF ObsInv
  <2>3. BulkTimed'
    BY <1>1, <1>2, <2>1, TickBulk DEF ObsInv, Tick
  <2>4. WarmupTimed'
    BY <1>1, <1>2, <2>1, TickWarmup DEF ObsInv, Tick
  <2>5. Ramped'
    BY <1>1, <1>2, <2>1, TickRamped DEF ObsInv, Tick
  <2>6. ProbeOnly'
    BY <1>1, <1>2, <2>1, TickProbe DEF ObsInv, Tick
  <2>7. LitInPulse'
    BY <1>1, <1>2, <2>1, TickLit DEF ObsInv, Tick
  <2>8. QED
    BY <2>2, <2>3, <2>4, <2>5, <2>6, <2>7 DEF ObsInv
<1>3. ASSUME NEW g \in Configs, Publish(g), UNCHANGED observers PROVE ObsInv'
  BY <1>1, <1>3, KeptObs DEF Publish
<1>4. CASE UNCHANGED <<vars, observers>>
  BY <1>1, <1>4, KeptObs DEF vars
<1>5. QED
  BY <1>1, <1>2, <1>3, <1>4 DEF NextO, TickO, PublishO

\* Watching the engine does not change it: its own invariant holds beside the observers'.
THEOREM ObservedInvariance == SpecO => [](IInv /\ ObsInv)
<1>1. InitO => IInv /\ ObsInv
  BY InitIInv, InitObs DEF InitO
<1>2. [NextO]_<<vars, observers>> => [Next]_vars
  BY DEF NextO, TickO, PublishO, Next
<1>3. IInv /\ ObsInv /\ [NextO]_<<vars, observers>> => (IInv /\ ObsInv)'
  BY <1>2, NextIInv, NextObs
<1>4. QED
  BY <1>1, <1>3, PTL DEF SpecO

\* However the field was stopped, the commanded power climbs again from zero, and in n
\* driven ticks by at most n steps of the steepest ramp.
THEOREM SoftStartAlways == SpecO => []SoftStart
<1>1. ObsInv => SoftStart
  BY DEF ObsInv, Ramped
<1>2. QED
  BY <1>1, ObservedInvariance, PTL

-----------------------------------------------------------------------------
(* What a step may never do *)

LEMMA TickEarned ==
  ASSUME TypeOK, TypeOK', Counters, BulkTimed, NEW m \in Inputs, Tick(m), Observe(m),
         state = "BULK", bulkFor' > 0, state' # "BULK"
  PROVE  \/ bulkFor' >= config.tChargeMax
         \/ config.socTarget >= 0
         \/ config.exitAtCv /\ clampedFor' >= config.tVclamp
         \/ ~config.exitAtCv /\ config.cvHold > 0 /\ clampedFor' >= config.cvHold
         \/ ~config.exitAtCv /\ tailFor' >= config.tTail
<1>1. Running(m)
  BY DEF Observe, Count
<1>2. BulkOrCharged(m)
  BY <1>1 DEF Tick, StateMachine, Disabled, LimpHome, WarmupGate, RestOrRevert, Resting, Running
<1>3. Charged(m)
  BY <1>2 DEF BulkOrCharged, Stay
<1>4. /\ bulkFor' = Tock(bulkFor)
      /\ clampedFor' = (IF Clamped THEN Tock(clampedFor) ELSE 0)
      /\ tailFor' = (IF config.exitAtCv THEN tailFor
                     ELSE IF TailLow(m) THEN Tock(tailFor) ELSE 0)
  BY <1>1 DEF Observe, Count
<1>5. /\ Tock(time_in_state) <= Tock(bulkFor) /\ Tock(vclamp_hold) <= Tock(clampedFor)
      /\ Tock(tail_hold) <= Tock(tailFor)
  BY DEF BulkTimed, Tock, Lesser, TypeOK, Counters
<1>6. /\ config.tChargeMax \in Nat /\ config.tVclamp \in Nat /\ config.cvHold \in Nat
      /\ config.tTail \in Nat
  BY DEF TypeOK, Config
<1>7. /\ Tock(time_in_state) \in Nat /\ Tock(bulkFor) \in Nat /\ Tock(vclamp_hold) \in Nat
      /\ Tock(clampedFor) \in Nat /\ Tock(tail_hold) \in Nat /\ Tock(tailFor) \in Nat
  BY TockType DEF TypeOK, Counters
<1>8. VclampHold <= clampedFor'
  BY <1>4, <1>5, <1>7 DEF VclampHold
<1>9. (TailLow(m) /\ ~config.exitAtCv) => TailHold(m) <= tailFor'
  BY <1>4, <1>5 DEF TailHold
<1>10. VclampHold \in Nat /\ clampedFor' \in Nat
  BY <1>4, <1>7 DEF VclampHold
<1>11. CASE Tock(time_in_state) >= config.tChargeMax
  BY <1>4, <1>5, <1>6, <1>7, <1>11
<1>12. CASE config.exitAtCv /\ VclampHold >= config.tVclamp
  BY <1>6, <1>8, <1>10, <1>12
<1>13. CASE ~config.exitAtCv /\ config.cvHold > 0 /\ VclampHold >= config.cvHold
  BY <1>6, <1>8, <1>10, <1>13
<1>14. CASE ~config.exitAtCv /\ TailLow(m) /\ TailHold(m) >= config.tTail
  <2>1. TailHold(m) = Tock(tail_hold) /\ tailFor' = Tock(tailFor)
    BY <1>4, <1>14 DEF TailHold
  <2>2. QED
    BY <1>5, <1>6, <1>7, <1>14, <2>1
<1>15. QED
  BY <1>3, <1>11, <1>12, <1>13, <1>14 DEF Charged

LEMMA TickGate ==
  ASSUME TypeOK, TypeOK', Counters, WarmupTimed, NEW m \in Inputs, Tick(m), Observe(m)
  PROVE  /\ (state = "STANDBY" /\ standby_reason # "REST" /\ Limp(faults') = FALSE
               /\ (state' # "STANDBY" \/ standby_reason' = "REST"))
            => enabledFor' >= config.warmup
         /\ enabledFor' > 0 /\ enabledFor' >= config.warmup
            => state' # "STANDBY" \/ standby_reason' = "REST"
<1>1. /\ Running(m) => enabledFor' = Tock(enabledFor)
      /\ ~Running(m) => enabledFor' = 0
  BY PermittedIsRunning DEF Tick, Observe, Count
<1>2. config.warmup \in Nat /\ enabledFor' \in Nat
  <2>1. Tock(enabledFor) \in Nat
    BY TockType DEF Counters
  <2>2. QED
    BY <1>1, <2>1 DEF TypeOK, Config
<1>3. CASE ~Running(m)
  BY <1>1, <1>2, <1>3 DEF Tick, StateMachine, Disabled, LimpHome, WarmupGate,
       RestOrRevert, BulkOrCharged, Running, Enter
<1>4. CASE Running(m) /\ state = "STANDBY" /\ standby_reason # "REST"
  <2>1. WarmupGate(m)
    BY <1>4 DEF Tick, StateMachine, Disabled, LimpHome, RestOrRevert, Resting,
         BulkOrCharged, Running
  <2>2. standby_reason \in {"OFF", "WARMUP", "FAULT"}
    BY <1>4 DEF TypeOK
  <2>3. warmup_time' = enabledFor'
    BY <1>1, <1>4, <2>1, <2>2 DEF WarmupGate, WarmupTimed
  <2>4. CASE config.warmup = 0 \/ warmup_time' >= config.warmup
    <3>1. state' # "STANDBY" \/ standby_reason' = "REST"
      BY <2>1, <2>4 DEF WarmupGate, EnterRest, Enter
    <3>2. enabledFor' >= config.warmup
      BY <1>2, <2>3, <2>4
    <3>3. QED
      BY <3>1, <3>2
  <2>5. CASE ~(config.warmup = 0 \/ warmup_time' >= config.warmup)
    <3>1. state' = "STANDBY" /\ standby_reason' = "WARMUP"
      BY <1>4, <2>1, <2>5 DEF WarmupGate, Enter, Stay
    <3>2. QED
      BY <2>3, <2>5, <3>1
  <2>6. QED
    BY <2>4, <2>5
<1>5. CASE Running(m) /\ ~(state = "STANDBY" /\ standby_reason # "REST")
  <2>1. state' # "STANDBY" \/ standby_reason' = "REST"
    BY <1>5 DEF Tick, StateMachine, Disabled, LimpHome, WarmupGate, RestOrRevert, Resting,
         BulkOrCharged, Running, EnterRest, Enter, Stay
  <2>2. QED
    BY <1>5, <2>1
<1>6. QED
  BY <1>3, <1>4, <1>5

\* What the three action properties need of one step of the system.
LEMMA StepO ==
  ASSUME IInv, ObsInv, NextO, <<vars, observers>>' # <<vars, observers>>
  PROVE  \/ \E m \in Inputs : Tick(m) /\ Observe(m)
         \/ UNCHANGED engineVars /\ UNCHANGED observers /\ config' # config
<1>1. ASSUME NEW g \in Configs, Publish(g), UNCHANGED observers
      PROVE  UNCHANGED engineVars /\ UNCHANGED observers /\ config' # config
  BY <1>1 DEF Publish, vars
<1>2. QED
  BY <1>1 DEF NextO, TickO, PublishO

\* BULK is left for a rest only on earned grounds, and the gate opens only after an
\* unbroken warmup, across every reconfiguration.
THEOREM ExitsEarned == SpecO => ExitsAreEarned
<1>1. IInv /\ ObsInv /\ [NextO]_<<vars, observers>> =>
        /\ [ (state = "BULK" /\ bulkFor' > 0 /\ state' # "BULK")
             => \/ bulkFor' >= config.tChargeMax
                \/ config.socTarget >= 0
                \/ config.exitAtCv /\ clampedFor' >= config.tVclamp
                \/ ~config.exitAtCv /\ config.cvHold > 0 /\ clampedFor' >= config.cvHold
                \/ ~config.exitAtCv /\ tailFor' >= config.tTail ]_<<vars, observers>>
        /\ [ (state = "STANDBY" /\ standby_reason # "REST" /\ Limp(faults') = FALSE
                /\ (state' # "STANDBY" \/ standby_reason' = "REST"))
             => enabledFor' >= config.warmup ]_<<vars, observers>>
  <2> SUFFICES ASSUME IInv, ObsInv, NextO, <<vars, observers>>' # <<vars, observers>>
      PROVE  /\ (state = "BULK" /\ bulkFor' > 0 /\ state' # "BULK")
                => \/ bulkFor' >= config.tChargeMax
                   \/ config.socTarget >= 0
                   \/ config.exitAtCv /\ clampedFor' >= config.tVclamp
                   \/ ~config.exitAtCv /\ config.cvHold > 0 /\ clampedFor' >= config.cvHold
                   \/ ~config.exitAtCv /\ tailFor' >= config.tTail
             /\ (state = "STANDBY" /\ standby_reason # "REST" /\ Limp(faults') = FALSE
                   /\ (state' # "STANDBY" \/ standby_reason' = "REST"))
                => enabledFor' >= config.warmup
    OBVIOUS
  <2>1. CASE UNCHANGED engineVars /\ UNCHANGED observers
    BY <2>1 DEF engineVars
  <2>2. ASSUME NEW m \in Inputs, Tick(m), Observe(m)
        PROVE  TypeOK /\ TypeOK'
    BY <2>2, TickType DEF IInv
  <2>3. QED
    BY <2>1, <2>2, StepO, TickEarned, TickGate DEF ObsInv
<1>2. QED
  BY <1>1, ObservedInvariance, PTL DEF SpecO, ExitsAreEarned, ChargedExitEarned, WarmupHeld

\* Once charging has been allowed for the whole warmup time the engine is out of off,
\* fault and warmup, whatever stopped it before.
THEOREM BlocksResume == SpecO => AutoResumes
<1>1. IInv /\ ObsInv /\ [NextO]_<<vars, observers>> =>
        [ (config' = config /\ enabledFor' > 0 /\ enabledFor' >= config.warmup)
          => state' # "STANDBY" \/ standby_reason' = "REST" ]_<<vars, observers>>
  <2> SUFFICES ASSUME IInv, ObsInv, NextO, <<vars, observers>>' # <<vars, observers>>,
                      config' = config, enabledFor' > 0, enabledFor' >= config.warmup
               PROVE  state' # "STANDBY" \/ standby_reason' = "REST"
    OBVIOUS
  <2>1. PICK m \in Inputs : Tick(m) /\ Observe(m)
    BY StepO
  <2>2. TypeOK /\ TypeOK'
    BY <2>1, TickType DEF IInv
  <2>3. QED
    BY <2>1, <2>2, TickGate DEF ObsInv
<1>2. QED
  BY <1>1, ObservedInvariance, PTL DEF SpecO, AutoResumes

\* A stationary rotor gets the detect effort at most, and of any run of ticks as long as a
\* probe period, wherever it begins, it is excited in at most PROBE_ON: no two of them are at
\* the same phase.
THEOREM StationaryOnBudget == SpecO => []StationaryBudget
<1>1. TypeOK /\ LitInPulse => Cardinality(lit) <= PROBE_ON
  <2>1. SUFFICES ASSUME TypeOK, LitInPulse PROVE Cardinality(lit) <= PROBE_ON
    OBVIOUS
  <2> DEFINE phases == 0..PROBE_ON - 1
             f == [a \in lit |-> PhaseAt(a)]
  <2>2. /\ run_probe \in 0..PROBE_PERIOD - 1 /\ PROBE_PERIOD \in Nat \ {0} /\ PROBE_ON \in Nat
        /\ lit \subseteq 0..PROBE_PERIOD - 1
    BY <2>1 DEF TypeOK, LitInPulse
  <2>3. f \in [lit -> phases]
    <3>1. ASSUME NEW a \in lit PROVE PhaseAt(a) \in phases
      <4>1. a \in 0..PROBE_PERIOD - 1 /\ PhaseAt(a) < PROBE_ON
        BY <2>1, <2>2 DEF LitInPulse
      <4>2. PhaseAt(a) \in Nat
        BY <2>2, <4>1 DEF PhaseAt
      <4>3. QED
        BY <2>2, <4>1, <4>2
    <3>2. QED
      BY <3>1
  <2>4. ASSUME NEW a \in lit, NEW b \in lit, PhaseAt(a) = PhaseAt(b) PROVE a = b
    <3>1. a \in 0..PROBE_PERIOD - 1 /\ b \in 0..PROBE_PERIOD - 1
      BY <2>2
    <3>2. QED
      BY <2>2, <2>4, <3>1 DEF PhaseAt
  <2>5. /\ IsFiniteSet(lit) /\ Cardinality(lit) \in Nat
        /\ IsFiniteSet(phases) /\ Cardinality(phases) = PROBE_ON
    <3>1. IsFiniteSet(0..PROBE_PERIOD - 1)
      BY <2>2, FS_Interval
    <3>2. IsFiniteSet(lit)
      BY <2>2, <3>1, FS_Subset
    <3>3. IsFiniteSet(phases) /\ Cardinality(phases) = PROBE_ON
      BY <2>2, FS_Interval
    <3>4. QED
      BY <3>2, <3>3, FS_CardinalityType
  <2>6. ASSUME Cardinality(phases) < Cardinality(lit) PROVE FALSE
    <3>1. \E a, b \in lit : a # b /\ f[a] = f[b]
      <4> HIDE DEF f, phases
      <4>1. QED
        BY <2>3, <2>5, <2>6, FS_PigeonHole
    <3>2. QED
      BY <2>4, <3>1
  <2>7. QED
    BY <2>2, <2>5, <2>6
<1>2. IInv /\ ObsInv => StationaryBudget
  BY <1>1 DEF IInv, ObsInv, ProbeOnly, StationaryBudget
<1>3. QED
  BY <1>2, ObservedInvariance, PTL
=============================================================================
