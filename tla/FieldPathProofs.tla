--------------------------- MODULE FieldPathProofs ---------------------------
(***************************************************************************)
(* Theorems of FieldPath: what reaches the field pin, for every set of     *)
(* inputs, configurations and duty clamps, and wherever the brown-out      *)
(* interrupt strikes.                                                      *)
(***************************************************************************)
EXTENDS FieldPath, ControlEngineProofs

USE DutyMaxAssumption

\* Once the funnel has run, the pin is taken; it cannot run before the pin was set up.
PinTaken == /\ safe => pin = "LOW"
            /\ pc \in {"BOARD", "PVD"} => ~safe

\* Before the loop the engine is as initialised and the duty is zero.
BootQuiet == pc \in Booting => (faults = {} /\ ~s_faulted /\ ccr = 0)

\* The latch is set before the duty is cleared, and the duty stays clear.
LatchQuiet == /\ pc = "CUTOFF" => s_faulted
              /\ (s_faulted /\ pc # "CUTOFF") => ccr = 0

\* A hard fault has the latch set by the time the loop is back at its top.
FaultLatched == (pc = "POLL" /\ Open(faults)) => s_faulted

\* In a LIMP boot the funnel has run before the loop starts, and every tick opens the field.
LimpQuiet == limp => /\ pc \in Looping => safe
                     /\ pc \in {"APPLY", "CUTOFF"} => Open(faults)

PInv == IInv /\ PathTypeOK /\ PinTaken /\ BootQuiet /\ LatchQuiet /\ FaultLatched /\ LimpQuiet

USE DEF Booting, Looping

-----------------------------------------------------------------------------
LEMMA PathInitInv == PathInit => PInv
<1>1. SUFFICES ASSUME PathInit PROVE PInv
  OBVIOUS
<1>2. IInv
  BY <1>1, InitIInv DEF PathInit
<1>3. faults = {}
  BY <1>1 DEF PathInit, Init
<1>4. QED
  BY <1>1, <1>2, <1>3 DEF PathInit, AtReset, PInv, IInv, PathTypeOK, PinTaken, BootQuiet,
                          LatchQuiet, FaultLatched, LimpQuiet

\* The engine's own invariant, through every step of the path.
LEMMA PathEngine == ASSUME IInv, PathNext PROVE IInv'
<1>1. CASE UNCHANGED vars
  BY <1>1, NextIInv
<1>2. CASE \E m \in Inputs : Tick(m)
  BY <1>2, NextIInv DEF Next
<1>3. CASE \E g \in Configs : Publish(g)
  BY <1>3, NextIInv DEF Next
<1>4. CASE EngineReset
  <2>1. TypeOK'
    BY <1>4, NaNAssumption, ConfigsAssumption, GainsAssumption
       DEF EngineReset, TypeOK, Reading
  <2>2. OpenFaultKillsField' /\ FaultReason'
    BY <1>4 DEF EngineReset, OpenFaultKillsField, FaultReason, Open
  <2>3. QED
    BY <2>1, <2>2 DEF IInv
<1>5. QED
  BY <1>1, <1>2, <1>3, <1>4
     DEF PathNext, MainStep, BoardInit, PvdInit, ConfigChannel, PwmStart, MoeEnable,
         DriveOff, WatchdogInit, RunTick, ApplyDuty, CutoffLatch, CutoffDuty, HostPublish,
         BrownOut, Reset, Keep

\* The boot steps change registers only.
LEMMA BootStep ==
  ASSUME PInv, IInv',
         BoardInit \/ PvdInit \/ ConfigChannel \/ PwmStart \/ MoeEnable \/ DriveOff
         \/ WatchdogInit
  PROVE  PInv'
<1>1. Keep /\ pc \in Booting /\ pc' \in Booting \cup {"POLL"} /\ ccr' \in {0, ccr}
  BY DEF BoardInit, PvdInit, ConfigChannel, PwmStart, MoeEnable, DriveOff, WatchdogInit,
         EnterSafeState, Goto, hardware, timer
<1>2. faults' = faults /\ faults = {} /\ limp' = limp /\ ~s_faulted /\ ~s_faulted' /\ ccr' = 0
  BY <1>1 DEF Keep, vars, engineVars, PInv, BootQuiet
<1>3. PathTypeOK'
  BY <1>2 DEF BoardInit, PvdInit, ConfigChannel, PwmStart, MoeEnable, DriveOff,
              WatchdogInit, EnterSafeState, Goto, Keep, hardware, timer, PInv, PathTypeOK,
              IInv
<1>4. PinTaken'
  BY DEF BoardInit, PvdInit, ConfigChannel, PwmStart, MoeEnable, DriveOff, WatchdogInit,
         EnterSafeState, Goto, hardware, timer, PInv, PinTaken
<1>5. BootQuiet' /\ LatchQuiet'
  <2>1. pc' # "CUTOFF"
    BY <1>1
  <2>2. QED
    BY <1>2, <2>1 DEF BootQuiet, LatchQuiet
<1>6. FaultLatched'
  BY <1>2 DEF FaultLatched, Open
<1>7. LimpQuiet'
  BY <1>1, <1>2 DEF BoardInit, PvdInit, ConfigChannel, PwmStart, MoeEnable, DriveOff,
                    WatchdogInit, EnterSafeState, Goto, LimpQuiet
<1>8. QED
  BY <1>3, <1>4, <1>5, <1>6, <1>7 DEF PInv

\* A LIMP boot hands the watchdog fault to the engine, which latches it.
LEMMA TickInLimp ==
  ASSUME limp, NEW m \in Inputs, Assembled(m), Tick(m)
  PROVE  Open(faults')
<1>1. "WATCHDOG" \in m.ext
  BY DEF Assembled, ExtFaults
<1>2. m.ext \subseteq faults'
  BY DEF Tick, LatchFaults
<1>3. QED
  BY <1>1, <1>2 DEF Open, OPEN_MASK

LEMMA RunTickStep == ASSUME PInv, IInv', RunTick PROVE PInv'
<1>1. PICK m \in Inputs : Assembled(m) /\ Tick(m)
  BY DEF RunTick
<1>2. limp => Open(faults')
  BY <1>1, TickInLimp
<1>3. QED
  BY <1>2 DEF RunTick, Goto, hardware, timer, PInv, IInv, PathTypeOK, PinTaken, BootQuiet,
              LatchQuiet, FaultLatched, LimpQuiet

\* Applying a command: duty only without the latch, and never with a hard fault.
LEMMA ApplyStep == ASSUME PInv, IInv', ApplyDuty PROVE PInv'
<1>1. ~Open(faults)
  BY DEF ApplyDuty, PInv, IInv, OpenFaultKillsField
<1>2. PICK d \in DutyMax : FieldDriveSet(d)
  BY DEF ApplyDuty
<1>3. ccr' \in Nat
  <2>1. effort \in Nat /\ d \in Nat
    BY DEF PInv, IInv, TypeOK
  <2>2. effort * d \in Nat
    BY <2>1
  <2>3. QED
    BY <1>2, <2>2 DEF FieldDriveSet
<1>4. s_faulted => ccr' = 0
  BY <1>2 DEF FieldDriveSet
<1>5. QED
  BY <1>1, <1>3, <1>4
     DEF ApplyDuty, Goto, Keep, vars, engineVars, PInv, IInv, PathTypeOK, PinTaken,
         BootQuiet, LatchQuiet, FaultLatched, LimpQuiet, Open

LEMMA CutoffStep == ASSUME PInv, IInv', CutoffLatch \/ CutoffDuty PROVE PInv'
<1>1. faults' = faults /\ limp' = limp /\ safe' = safe /\ pin' = pin /\ cc1e' = cc1e
  BY DEF CutoffLatch, CutoffDuty, Keep, vars, engineVars
<1>2. \/ pc = "APPLY" /\ pc' = "CUTOFF" /\ ccr' = ccr
      \/ pc = "CUTOFF" /\ pc' = "POLL" /\ ccr' = 0
  BY DEF CutoffLatch, CutoffDuty, Goto
<1>3. s_faulted' = TRUE
  <2>1. CASE CutoffLatch
    BY <2>1 DEF CutoffLatch
  <2>2. CASE CutoffDuty
    <3>1. s_faulted = TRUE
      BY <2>2 DEF CutoffDuty, PInv, PathTypeOK, LatchQuiet
    <3>2. QED
      BY <2>2, <3>1 DEF CutoffDuty, Keep
  <2>3. QED
    BY <2>1, <2>2
<1>4. moe' \in BOOLEAN
  <2>1. moe \in BOOLEAN
    BY DEF PInv, PathTypeOK
  <2>2. moe' = FALSE \/ moe' = moe
    BY DEF CutoffLatch, CutoffDuty
  <2>3. QED
    BY <2>1, <2>2
<1>5. PathTypeOK'
  <2>1. ccr' \in Nat /\ pc' \in Looping
    <3>1. ccr \in Nat
      BY DEF PInv, PathTypeOK
    <3>2. QED
      BY <1>2, <3>1
  <2>2. limp' \in BOOLEAN /\ safe' \in BOOLEAN /\ pin' \in {"INPUT", "AF", "LOW"}
        /\ cc1e' \in BOOLEAN
    <3>1. limp \in BOOLEAN /\ safe \in BOOLEAN /\ pin \in {"INPUT", "AF", "LOW"}
          /\ cc1e \in BOOLEAN
      BY DEF PInv, PathTypeOK
    <3>2. QED
      BY <1>1, <3>1
  <2>3. s_faulted' \in BOOLEAN /\ TypeOK'
    BY <1>3 DEF IInv
  <2>4. QED
    BY <1>4, <2>1, <2>2, <2>3 DEF PathTypeOK
<1>6. PinTaken' /\ BootQuiet' /\ LatchQuiet' /\ FaultLatched'
  BY <1>1, <1>2, <1>3 DEF PInv, PinTaken, BootQuiet, LatchQuiet, FaultLatched
<1>7. LimpQuiet'
  BY <1>1, <1>2 DEF PInv, LimpQuiet, Open
<1>8. QED
  BY <1>5, <1>6, <1>7 DEF PInv

LEMMA PublishStep == ASSUME PInv, IInv', HostPublish PROVE PInv'
BY DEF HostPublish, Publish, engineVars, pathVars, hardware, timer, PInv, IInv,
       PathTypeOK, PinTaken, BootQuiet, LatchQuiet, FaultLatched, LimpQuiet, Open

LEMMA InterruptStep == ASSUME PInv, IInv', BrownOut \/ Reset PROVE PInv'
<1>1. CASE BrownOut
  BY <1>1 DEF BrownOut, EnterSafeState, vars, engineVars, PInv, IInv, PathTypeOK, PinTaken,
              BootQuiet, LatchQuiet, FaultLatched, LimpQuiet, Open
<1>2. CASE Reset
  <2>1. faults' = {}
    BY <1>2 DEF Reset, EngineReset
  <2>2. QED
    BY <1>2, <2>1 DEF Reset, PInv, IInv, PathTypeOK, PinTaken, BootQuiet, LatchQuiet,
                      FaultLatched, LimpQuiet
<1>3. QED
  BY <1>1, <1>2

LEMMA PathNextInv == PInv /\ [PathNext]_allVars => PInv'
<1>1. SUFFICES ASSUME PInv, [PathNext]_allVars PROVE PInv'
  OBVIOUS
<1>2. CASE PathNext
  <2>1. IInv'
    BY <1>1, <1>2, PathEngine DEF PInv
  <2>2. QED
    BY <1>1, <1>2, <2>1, BootStep, RunTickStep, ApplyStep, CutoffStep, PublishStep,
       InterruptStep DEF PathNext, MainStep
<1>3. CASE UNCHANGED allVars
  <2>1. IInv'
    BY <1>1, <1>3, NextIInv DEF PInv, allVars
  <2>2. QED
    BY <1>1, <1>3, <2>1
       DEF allVars, vars, engineVars, pathVars, hardware, timer, PInv, IInv, PathTypeOK,
           PinTaken, BootQuiet, LatchQuiet, FaultLatched, LimpQuiet, Open
<1>4. QED
  BY <1>1, <1>2, <1>3

THEOREM PathInvariance == PathSpec => []PInv
BY PathInitInv, PathNextInv, PTL DEF PathSpec

\* The compare value, the latch and the program counter keep their types from any boot on.
THEOREM PathTypeCorrect == PathSpec => []PathTypeOK
<1>1. PInv => PathTypeOK
  BY DEF PInv
<1>2. QED
  BY <1>1, PathInvariance, PTL

\* A brown-out anywhere stays in force until a reset.
THEOREM BrownOutSafety == PathSpec => []SafeStateHolds
<1>1. PInv => SafeStateHolds
  BY DEF PInv, PinTaken, SafeStateHolds, Energized
<1>2. QED
  BY <1>1, PathInvariance, PTL

\* A hard fault reaches the pin by the end of the tick that detected it.
THEOREM HardFaultSafety == PathSpec => []HardFaultCutsPin
<1>1. PInv => HardFaultCutsPin
  BY DEF PInv, FaultLatched, LatchQuiet, HardFaultCutsPin, Energized
<1>2. QED
  BY <1>1, PathInvariance, PTL

\* No command energizes the field once the cutoff has latched.
THEOREM CutoffSafety == PathSpec => []CutoffLatches
<1>1. PInv => CutoffLatches
  BY DEF PInv, LatchQuiet, CutoffLatches, Energized
<1>2. QED
  BY <1>1, PathInvariance, PTL

\* A LIMP boot never energizes the field, and its engine reports the fault.
THEOREM LimpSafety == PathSpec => []LimpBootParks
<1>1. PInv => LimpBootParks
  BY DEF PInv, IInv, OpenFaultKillsField, PathTypeOK, LimpQuiet, PinTaken, BootQuiet,
         LimpBootParks, Energized
<1>2. QED
  BY <1>1, PathInvariance, PTL
=============================================================================
