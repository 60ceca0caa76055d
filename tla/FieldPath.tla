------------------------------ MODULE FieldPath ------------------------------
(***************************************************************************)
(* From the engine's command to the field pin: the boot sequence and the   *)
(* 10 ms loop of main.c, the TIM1 driver (field_drive.c), the safe-state   *)
(* funnel (safe_state.c) and its callers, the brown-out interrupt (pvd.c)  *)
(* and the fault handlers.  The interrupt may strike between any two       *)
(* register writes of the main thread; it runs to completion.              *)
(*                                                                         *)
(* The engine is ControlEngine, whose field_open and effort hold the       *)
(* command of the last tick.  A fault handler, the watchdog or the supply  *)
(* resets the part: registers and RAM return to their reset values, and    *)
(* whether the new boot is a LIMP boot is for crash_record_boot to say.    *)
(***************************************************************************)
EXTENDS ControlEngine

CONSTANT DutyMax     \* what ctrl_duty_max may return, as a factor of the effort
ASSUME DutyMaxAssumption == DutyMax \subseteq Nat

VARIABLES
  pc,          \* where the main thread is
  limp,        \* s_limp: this boot is parked field-off
  safe,        \* enter_safe_state has run in this boot
  s_faulted,   \* the driver's cutoff latch
  pin,         \* GPIOA->MODER of PA8: "INPUT", "AF" (TIM1) or "LOW" (output, low)
  cc1e, moe,   \* TIM1 channel enable and main output enable
  ccr          \* TIM1 compare value: the duty

timer    == <<cc1e, moe, ccr>>
hardware == <<safe, pin, timer>>
pathVars == <<pc, limp, s_faulted, hardware>>
allVars  == <<vars, pathVars>>

Booting == {"BOARD", "PVD", "CHANNEL", "START", "MOE", "DUTY", "WATCHDOG"}
Looping == {"POLL", "APPLY", "CUTOFF"}

\* Current flows in the field: the pin belongs to the timer, and the timer drives it.
Energized == pin = "AF" /\ cc1e /\ moe /\ ccr > 0

-----------------------------------------------------------------------------
(* Reset, and the boot sequence of main() *)

\* RAM and peripheral registers as the startup code leaves them.
AtReset ==
  /\ pc = "BOARD" /\ limp \in BOOLEAN /\ safe = FALSE /\ s_faulted = FALSE
  /\ pin = "INPUT" /\ cc1e = FALSE /\ moe = FALSE /\ ccr = 0

PathInit == Init /\ AtReset

\* SLIP: the funnel stops the timer but leaves it the pins.
EnterSafeStateTimerOnly ==
  /\ safe' = TRUE /\ moe' = FALSE /\ ccr' = 0 /\ cc1e' = FALSE
  /\ UNCHANGED pin

\* enter_safe_state(): timer output off, duty 0, channel off, pin taken and driven low.
EnterSafeState ==
  /\ safe' = TRUE /\ moe' = FALSE /\ ccr' = 0 /\ cc1e' = FALSE
  /\ pin' = "LOW"

Goto(next) == pc' = next
Keep == UNCHANGED <<vars, limp, s_faulted>>

BoardInit == pc = "BOARD" /\ Goto("PVD") /\ pin' = "AF" /\ Keep /\ UNCHANGED <<safe, timer>>
PvdInit   == pc = "PVD" /\ Goto("CHANNEL") /\ Keep /\ UNCHANGED hardware

\* field_drive_init(): compare value 0, then the channel, the main output, and 0 again.
ConfigChannel ==
  pc = "CHANNEL" /\ Goto("START") /\ ccr' = 0 /\ Keep /\ UNCHANGED <<safe, pin, cc1e, moe>>
PwmStart ==
  pc = "START" /\ Goto("MOE") /\ cc1e' = TRUE /\ Keep /\ UNCHANGED <<safe, pin, moe, ccr>>
MoeEnable ==
  pc = "MOE" /\ Goto("DUTY") /\ moe' = TRUE /\ Keep /\ UNCHANGED <<safe, pin, cc1e, ccr>>
DriveOff ==
  pc = "DUTY" /\ Goto("WATCHDOG") /\ ccr' = 0 /\ Keep /\ UNCHANGED <<safe, pin, cc1e, moe>>

\* watchdog_init(), the last step: a LIMP boot does not wait for the first tick.
WatchdogInit ==
  /\ pc = "WATCHDOG" /\ Goto("POLL") /\ Keep
  /\ IF limp THEN EnterSafeState ELSE UNCHANGED hardware

-----------------------------------------------------------------------------
(* The loop *)

\* SLIP: the escalation is not handed to the engine.
ExtFaultsNoEscalation(shuntLost) == IF shuntLost THEN {"IMPLAUSIBLE_SHUNT"} ELSE {}

\* app_ext_faults(): LIMP boots, and a current shunt whose error budget is spent.
ExtFaults(shuntLost) ==
  (IF limp THEN {"WATCHDOG"} ELSE {}) \cup (IF shuntLost THEN {"IMPLAUSIBLE_SHUNT"} ELSE {})

\* What the loop assembles for the engine: no current source, no SOC, and the
\* compensated voltage is the measured one.
Assembled(m) ==
  /\ m.isrc = "NONE" /\ ~m.socTrusted /\ m.vcomp = m.vbat
  /\ \E shuntLost \in BOOLEAN : m.ext = ExtFaults(shuntLost)

RunTick ==
  /\ pc = "POLL" /\ Goto("APPLY")
  /\ \E m \in Inputs : Assembled(m) /\ Tick(m)
  /\ UNCHANGED <<limp, s_faulted, hardware>>

\* field_drive_set(): the clamped duty, or nothing once the cutoff has latched.
FieldDriveSet(d) == ccr' = IF s_faulted THEN 0 ELSE effort * d

ApplyDuty ==
  /\ pc = "APPLY" /\ ~field_open /\ Goto("POLL")
  /\ \E d \in DutyMax : FieldDriveSet(d)
  /\ Keep /\ UNCHANGED <<safe, pin, cc1e, moe>>

\* SLIP: the latch is set and the main output left to the macro, but the compare value stays.
CutoffDutyKept == pc = "CUTOFF" /\ Goto("POLL") /\ Keep /\ UNCHANGED hardware

\* field_drive_fault_cutoff(): latch, main output, duty.  The HAL's disable macro skips
\* the register write while a channel is enabled, so MOE may stay set; the duty decides.
CutoffLatch ==
  /\ pc = "APPLY" /\ field_open /\ Goto("CUTOFF")
  /\ s_faulted' = TRUE /\ moe' \in {FALSE, moe}
  /\ UNCHANGED <<vars, limp, safe, pin, cc1e, ccr>>
CutoffDuty ==
  pc = "CUTOFF" /\ Goto("POLL") /\ ccr' = 0 /\ Keep /\ UNCHANGED <<safe, pin, cc1e, moe>>

\* config_poll(), between two ticks.
HostPublish ==
  pc = "POLL" /\ (\E g \in Configs : Publish(g)) /\ UNCHANGED pathVars

-----------------------------------------------------------------------------
(* Interrupts and resets *)

\* PVD_VDDIO2_IRQHandler: field off, seal the record, return to the main thread.
BrownOut ==
  /\ pc \notin {"BOARD", "PVD"}
  /\ EnterSafeState
  /\ UNCHANGED <<vars, pc, limp, s_faulted>>

\* ctrl_init() on fresh RAM, and some stored configuration (config_init()).
EngineReset ==
  /\ config' \in Configs
  /\ state' = "STANDBY" /\ standby_reason' = "OFF" /\ faults' = {}
  /\ v_ctrl_f' = NaN /\ v_revert_f' = NaN /\ p_tail_f' = NaN
  /\ time_in_state' = 0 /\ warmup_time' = 0
  /\ tail_hold' = 0 /\ revert_hold' = 0 /\ vclamp_hold' = 0
  /\ ah_since_charged' = 0
  /\ effort' = 0 /\ cmd_power' = 0 /\ run_probe' = 0 /\ field_open' = TRUE

\* A HardFault, NMI, unexpected interrupt or assertion (fault_finish: safe state, record,
\* reset), a watchdog or a supply reset: the registers fall back in one instant.
Reset ==
  /\ pc # "BOARD"
  /\ EngineReset
  /\ pc' = "BOARD" /\ limp' \in BOOLEAN /\ safe' = FALSE /\ s_faulted' = FALSE
  /\ pin' = "INPUT" /\ cc1e' = FALSE /\ moe' = FALSE /\ ccr' = 0

MainStep ==
  \/ BoardInit \/ PvdInit \/ ConfigChannel \/ PwmStart \/ MoeEnable \/ DriveOff
  \/ WatchdogInit \/ RunTick \/ ApplyDuty \/ CutoffLatch \/ CutoffDuty

PathNext == MainStep \/ HostPublish \/ BrownOut \/ Reset

PathSpec == PathInit /\ [][PathNext]_allVars

-----------------------------------------------------------------------------
(* Properties *)

PathTypeOK ==
  /\ TypeOK
  /\ pc \in Booting \cup Looping
  /\ limp \in BOOLEAN /\ safe \in BOOLEAN /\ s_faulted \in BOOLEAN
  /\ pin \in {"INPUT", "AF", "LOW"}
  /\ cc1e \in BOOLEAN /\ moe \in BOOLEAN /\ ccr \in Nat

\* A brown-out anywhere, in the middle of the boot sequence or between a command and its
\* application, stays in force: nothing that main does afterwards, re-enabling the timer
\* and commanding duty included, energizes the field before a reset (main.c, pvd_init).
SafeStateHolds == safe => ~Energized

\* A hard fault reaches the pin: whenever the loop is back at its top with an open-class
\* fault latched, the driver has latched too and no current flows (§7).
HardFaultCutsPin == (pc = "POLL" /\ Open(faults)) => (s_faulted /\ ~Energized)

\* The driver's latch outlives the command that set it: until a reset no later command
\* energizes the field (field_drive.c).
CutoffLatches == (s_faulted /\ pc \in {"POLL", "APPLY"}) => ~Energized

\* A boot that the escalation parks field-off is parked: the engine reports the fault
\* from its first tick, and the field is never energized (§7 R1).
LimpBootParks ==
  limp => /\ ~Energized
          /\ (pc \in {"APPLY", "CUTOFF"}) => (state = "STANDBY" /\ standby_reason = "FAULT")

\* What the fault table says of blocks: charging resumes by itself.  Without a brown-out,
\* a regulating command with effort reaches the field (CONTROL_SPEC 9.1).
BlockResumes ==
  (pc = "POLL" /\ ~safe /\ ~field_open /\ effort > 0) => Energized
=============================================================================
