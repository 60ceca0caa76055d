------------------------------- MODULE Ina226 -------------------------------
(***************************************************************************)
(* The current monitor (ina2xx.c) on its error budget: two samples in      *)
(* every control cycle, each of up to three register transactions, and the *)
(* re-initialisation of the bus with its replay of CONFIG.  A transaction  *)
(* is one step; the device and the bus change between any two.             *)
(*                                                                         *)
(* A transaction either succeeds at some attempt or spends them all: an    *)
(* attempt that fails before one that succeeds leaves no trace.  Readings  *)
(* are reduced to "a value" and NAN, and to the age of the sample.         *)
(***************************************************************************)
EXTENDS ErrBudget

CONSTANTS
  Attempts,     \* INA_XACT_ATTEMPTS
  FailLimit,    \* INA_FAIL_LIMIT
  Troubles,     \* what may befall the device: "DEAD", "WRITES", "NOCONV"
  StaleAfter    \* bound of the runs: how far the histories count cycles

ASSUME DriverAssumption ==
  /\ Attempts \in Nat \ {0} /\ FailLimit \in Nat \ {0} /\ StaleAfter \in Nat \ {0}
  /\ Troubles \subseteq {"DEAD", "WRITES", "NOCONV"}

VARIABLES
  budget,       \* s_dom[ERRB_INA226]
  s_fail_consec, s_have_sample, s_reinit_busy,
  pc,           \* "IDLE", or the register of the transaction: "MASK_ENABLE", "SHUNT_V", ...
  caller,       \* the accessor whose sample runs: "CURRENT" or "BUS"
  amps,         \* what ina2xx_current_a() returned in this cycle
  device,       \* "OK" or one of Troubles
  cvrf,         \* the device: a conversion is ready
  age,          \* history: cycles in a row begun in trouble, since the last refresh
  answered,     \* history: a transaction of this cycle succeeded
  dead,         \* history: cycles in a row without one
  okRun         \* history: successful transactions in a row

driver  == <<budget, s_fail_consec, s_have_sample, s_reinit_busy>>
history == <<age, answered, dead, okRun>>
vars    == <<driver, pc, caller, amps, device, cvrf, history>>

ina2xx_ok(consec) == consec < FailLimit

\* Whether the device answers a transaction: one of the troubles spoils the reads only.
Answers(kind) == device \in {"OK", "NOCONV"} \/ (device = "WRITES" /\ kind = "WRITE")

-----------------------------------------------------------------------------
(* The outcome of a transaction *)

Succeeded ==
  /\ budget' = Ok(budget) /\ s_fail_consec' = 0
  /\ answered' = TRUE /\ okRun' = UpTo(RecoverOk, okRun + 1)

Failed ==
  /\ budget' = Fail(budget) /\ s_fail_consec' = UpTo(FailLimit, s_fail_consec + Attempts)
  /\ okRun' = 0 /\ UNCHANGED answered

\* What an accessor makes of the cached sample.
Reading(have, consec) == IF have /\ ina2xx_ok(consec) THEN "VALUE" ELSE "NAN"

\* ina_sample() returns to its caller: after the second the cycle is over.
Return(have, consec) ==
  IF caller = "CURRENT"
    THEN /\ amps' = Reading(have, consec)
         /\ caller' = "BUS" /\ pc' = "MASK_ENABLE"
    ELSE /\ pc' = "IDLE" /\ UNCHANGED <<amps, caller>>

\* A failed transaction ends the sample, by way of ina_bus_reinit() if the budget asks.
GiveUp ==
  IF Action(budget') = "REINIT" /\ ~s_reinit_busy
    THEN /\ s_reinit_busy' = TRUE
         /\ pc' = "CONFIG" /\ UNCHANGED <<amps, caller>>
    ELSE /\ Return(s_have_sample, s_fail_consec') /\ UNCHANGED s_reinit_busy

-----------------------------------------------------------------------------
(* A control cycle: sensors_read() calls the two accessors *)

Init ==
  /\ budget = Unspent /\ s_fail_consec = 0 /\ s_have_sample = FALSE /\ s_reinit_busy = FALSE
  /\ pc = "IDLE" /\ caller = "CURRENT" /\ amps = "NAN"
  /\ device = "OK" /\ cvrf = FALSE
  /\ age = 0 /\ answered = TRUE /\ dead = 0 /\ okRun = 0

Cycle ==
  /\ pc = "IDLE" /\ pc' = "MASK_ENABLE" /\ caller' = "CURRENT"
  /\ age' = IF device = "OK" THEN 0 ELSE UpTo(StaleAfter, age + 1)
  /\ dead' = IF answered THEN 0 ELSE UpTo(StaleAfter, dead + 1)
  /\ answered' = FALSE
  /\ UNCHANGED <<driver, amps, device, cvrf, okRun>>

\* Reading MASK_ENABLE clears CVRF.
ReadMask ==
  /\ pc = "MASK_ENABLE"
  /\ IF Answers("READ")
       THEN /\ Succeeded /\ cvrf' = FALSE
            /\ IF cvrf THEN pc' = "SHUNT_V" /\ UNCHANGED <<amps, caller>>
                       ELSE Return(s_have_sample, 0)
            /\ UNCHANGED s_reinit_busy
       ELSE Failed /\ GiveUp /\ UNCHANGED cvrf
  /\ UNCHANGED <<s_have_sample, device, age, dead>>

ReadShunt ==
  /\ pc = "SHUNT_V"
  /\ IF Answers("READ")
       THEN Succeeded /\ pc' = "BUS_V" /\ UNCHANGED <<amps, caller, s_reinit_busy>>
       ELSE Failed /\ GiveUp
  /\ UNCHANGED <<s_have_sample, device, cvrf, age, dead>>

ReadBus ==
  /\ pc = "BUS_V"
  /\ IF Answers("READ")
       THEN /\ Succeeded /\ s_have_sample' = TRUE /\ age' = 0
            /\ Return(TRUE, 0) /\ UNCHANGED s_reinit_busy
       ELSE Failed /\ GiveUp /\ UNCHANGED <<s_have_sample, age>>
  /\ UNCHANGED <<device, cvrf, dead>>

\* The replay of CONFIG inside the re-initialisation, and the return from both.
Replay ==
  /\ pc = "CONFIG" /\ s_reinit_busy' = FALSE
  /\ IF Answers("WRITE") THEN Succeeded ELSE Failed
  /\ Return(s_have_sample, s_fail_consec')
  /\ UNCHANGED <<s_have_sample, device, cvrf, age, dead>>

-----------------------------------------------------------------------------
(* The device *)

Convert ==
  /\ ~cvrf /\ device # "NOCONV" /\ cvrf' = TRUE
  /\ UNCHANGED <<driver, pc, caller, amps, device, history>>

Befall ==
  /\ device' \in (Troubles \cup {"OK"}) \ {device}
  /\ UNCHANGED <<driver, pc, caller, amps, cvrf, history>>

Step == Cycle \/ ReadMask \/ ReadShunt \/ ReadBus \/ Replay
Next == Step \/ Convert \/ Befall

Spec == Init /\ [][Next]_vars

\* The control cycle runs, and a device that converts goes on doing so.
FairSpec == Spec /\ WF_vars(Step) /\ WF_vars(Convert)

-----------------------------------------------------------------------------
(* Properties *)

TypeOK ==
  /\ budget \in Budgets /\ s_fail_consec \in 0..FailLimit
  /\ s_have_sample \in BOOLEAN /\ s_reinit_busy \in BOOLEAN
  /\ pc \in {"IDLE", "MASK_ENABLE", "SHUNT_V", "BUS_V", "CONFIG"}
  /\ caller \in {"CURRENT", "BUS"} /\ amps \in {"VALUE", "NAN"}
  /\ device \in Troubles \cup {"OK"} /\ cvrf \in BOOLEAN
  /\ age \in 0..StaleAfter /\ dead \in 0..StaleAfter /\ answered \in BOOLEAN
  /\ okRun \in 0..RecoverOk

\* Cycles a bus may be silent for before the fault is latched.
Grace == 3

\* A bus that has been silent for three cycles has its fault latched, and its readings
\* are NAN: the engine never regulates on a value of a bus that is gone.
DeadBusIsReported ==
  (pc = "IDLE" /\ ~answered /\ dead >= Grace - 1) => budget.faulted /\ amps = "NAN"

\* The fault is released only by an unbroken run of answers.
FaultDoesNotFlap ==
  [][(budget.faulted /\ ~budget'.faulted) => okRun' >= RecoverOk]_vars

\* A device that stays well is, from some cycle on, without a fault and with a value.
Recovers ==
  <>[](device = "OK") => <>[](~budget.faulted /\ amps = "VALUE")

\* What err_budget.h says the budget is for: a reading that is no longer refreshed is not
\* handed out endlessly without a fault.
NoEndlesslyStaleReading ==
  (pc = "IDLE" /\ amps = "VALUE" /\ device # "OK" /\ age >= StaleAfter) => budget.faulted
=============================================================================
