------------------------------ MODULE Watchdog ------------------------------
(***************************************************************************)
(* The windowed watchdog and the loop that feeds it (watchdog.c, main.c).  *)
(* Time is in milliseconds of HAL_GetTick and passes inside the phases of  *)
(* the main loop, each of which takes any of the durations of a constant.  *)
(* Instants are kept relative to now: the age of each checkpoint, the time *)
(* since the last refresh, and the lag of the loop behind its deadline.    *)
(*                                                                         *)
(* A tick counts whole milliseconds, so between two of its values the      *)
(* watchdog's own clock has run up to one millisecond more or less; its    *)
(* period and its window are ranges over the tolerance of its oscillator.  *)
(***************************************************************************)
EXTENDS Integers

CONSTANTS
  CommsTime, SensorTime, ControlTime, PublishTime,   \* durations of the phases
  Nominal,      \* by phase: the duration it is designed to keep
  SavePages,    \* EEPROM pages of a record; 0: no save is asked for
  PageTime,     \* write-cycle wait of a page
  MayHang,      \* whether a phase may never return
  Period,       \* LOOP_PERIOD_MS
  Floor,        \* WDG_MIN_KICK_INTERVAL_MS
  Budget,       \* s_budget_ms, by checkpoint
  HwWindow,     \* earliest accepted refresh, slow oscillator, rounded up
  TimeoutMin,   \* ticks after which a fast oscillator may have run out
  TimeoutMax,   \* ticks by which a slow one has
  BootLag,      \* most time watchdog_init takes after the loop's first deadline
  MaxLag        \* bound of the runs: a lag beyond it is forgotten

Checkpoints == {"CONTROL", "SENSORS", "COMMS"}
Timed       == {"COMMS", "SENSORS", "CONTROL", "PUBLISH"}
Phases      == {"COMMS", "GATE", "SENSORS", "CONTROL", "PUBLISH", "SERVICE", "SAVE"}

\* The values of the runs: the budgets of watchdog.c, and a nominal cycle, in which the
\* current monitor may be dead (45 ms of bounded attempts).
s_budget_ms == [c \in Checkpoints |-> IF c = "COMMS" THEN 60 ELSE 30]
NominalTimes == [p \in Timed |-> CASE p = "COMMS" -> 3 [] p = "SENSORS" -> 45 [] OTHER -> 1]

ASSUME TimesAssumption ==
  /\ CommsTime \subseteq Nat /\ SensorTime \subseteq Nat
  /\ ControlTime \subseteq Nat /\ PublishTime \subseteq Nat
  /\ Nominal \in [Timed -> Nat]
  /\ SavePages \in Nat /\ PageTime \in Nat /\ MayHang \in BOOLEAN

ASSUME WatchdogAssumption ==
  /\ Period \in Nat \ {0} /\ Floor \in Nat /\ HwWindow \in Nat
  /\ Budget \in [Checkpoints -> Nat]
  /\ TimeoutMin \in Nat /\ TimeoutMax \in Nat /\ TimeoutMin <= TimeoutMax
  /\ BootLag \in Nat /\ MaxLag \in Nat /\ BootLag <= MaxLag

VARIABLES
  pc,           \* a phase of the loop, "HUNG" in one, or reset: "BITTEN", "EARLY"
  lag,          \* HAL_GetTick() - next
  age,          \* now - s_last_report
  s_reported,
  sinceKick,    \* now - s_last_kick_ms
  pages,        \* pages of a save still to write
  kept          \* history: since the boot every phase has kept its nominal duration

vars == <<pc, lag, age, s_reported, sinceKick, pages, kept>>

Running == pc \in Phases
Lesser(a, b) == IF a < b THEN a ELSE b

\* watchdog_init(), the last step of the boot.
Init ==
  /\ pc = "COMMS" /\ lag \in 0..BootLag /\ pages = 0
  /\ age = [c \in Checkpoints |-> 0] /\ s_reported = [c \in Checkpoints |-> FALSE]
  /\ sinceKick = 0 /\ kept = TRUE

\* d milliseconds pass on the way to phase `to`: the watchdog may run out, and must.
Elapse(d, to) ==
  /\ lag' = Lesser(lag + d, MaxLag)
  /\ sinceKick' = Lesser(sinceKick + d, TimeoutMax)
  /\ \/ sinceKick + d < TimeoutMax /\ pc' = to
     \/ sinceKick + d >= TimeoutMin /\ pc' = "BITTEN"

Aged(d) == [c \in Checkpoints |-> age[c] + d]

\* A phase that ends with watchdog_checkpoint(cp).
Phase(from, to, times, cp) ==
  /\ pc = from
  /\ \E d \in times : /\ Elapse(d, to) /\ age' = [Aged(d) EXCEPT ![cp] = 0]
                     /\ kept' = (kept /\ d <= Nominal[from])
  /\ s_reported' = [s_reported EXCEPT ![cp] = TRUE]
  /\ UNCHANGED pages

-----------------------------------------------------------------------------
(* The loop of main() *)

\* can_n2k_poll(), config_poll(), telem_stream_poll()
Comms == Phase("COMMS", "GATE", CommsTime, "COMMS")

\* config_poll() reaches eeprom24c16_write(), which waits out every page.
BeginSave ==
  /\ pc = "COMMS" /\ SavePages > 0
  /\ pc' = "SAVE" /\ pages' = SavePages /\ kept' = FALSE
  /\ UNCHANGED <<lag, age, s_reported, sinceKick>>

SavePage ==
  /\ pc = "SAVE" /\ pages > 0 /\ pages' = pages - 1
  /\ Elapse(PageTime, IF pages' = 0 THEN "COMMS" ELSE "SAVE")
  /\ age' = Aged(PageTime)
  /\ UNCHANGED <<s_reported, kept>>

NotDue ==
  /\ pc = "GATE" /\ lag < 0
  /\ pc' = "COMMS" /\ UNCHANGED <<lag, age, s_reported, sinceKick, pages, kept>>

\* The deadline of the cycle has come; the next one is a period after it.
Due ==
  /\ pc = "GATE" /\ lag >= 0
  /\ pc' = "SENSORS" /\ lag' = lag - Period
  /\ UNCHANGED <<age, s_reported, sinceKick, pages, kept>>

\* sensors_update() to sensors_read()
Sensors == Phase("SENSORS", "CONTROL", SensorTime, "SENSORS")

\* ctrl_tick() and its command to the field drive
Control == Phase("CONTROL", "PUBLISH", ControlTime, "CONTROL")

\* Telemetry, the crash snapshot, the stack scan.
Publish ==
  /\ pc = "PUBLISH"
  /\ \E d \in PublishTime : /\ Elapse(d, "SERVICE") /\ age' = Aged(d)
                           /\ kept' = (kept /\ d <= Nominal["PUBLISH"])
  /\ UNCHANGED <<s_reported, pages>>

-----------------------------------------------------------------------------
(* watchdog_service() *)

\* SLIP: the loop over the checkpoints ends one too early.
StaleShort ==
  {c \in Checkpoints \ {"COMMS"} : ~s_reported[c] \/ age[c] > Budget[c]}

\* SLIP: one budget for all, the tightest.
StaleTight ==
  {c \in Checkpoints : ~s_reported[c] \/ age[c] > Budget["SENSORS"]}

Stale == {c \in Checkpoints : ~s_reported[c] \/ age[c] > Budget[c]}

Starve ==
  /\ pc = "SERVICE" /\ Stale # {}
  /\ pc' = "COMMS" /\ UNCHANGED <<lag, age, s_reported, sinceKick, pages, kept>>

\* SLIP: the software floor is left to the period of the loop.
FloorOpen == TRUE

FloorPassed == sinceKick >= Floor

HoldOff ==
  /\ pc = "SERVICE" /\ Stale = {} /\ ~FloorPassed
  /\ pc' = "COMMS" /\ UNCHANGED <<lag, age, s_reported, sinceKick, pages, kept>>

\* The refresh: the watchdog's clock may have run a millisecond less than the tick.
Kick ==
  /\ pc = "SERVICE" /\ Stale = {} /\ FloorPassed
  /\ pc' = IF sinceKick - 1 < HwWindow THEN "EARLY" ELSE "COMMS"
  /\ sinceKick' = 0
  /\ UNCHANGED <<lag, age, s_reported, pages, kept>>

-----------------------------------------------------------------------------
(* A phase that never returns, and the reset *)

Hang ==
  /\ Running /\ MayHang
  /\ pc' = "HUNG" /\ kept' = FALSE
  /\ UNCHANGED <<lag, age, s_reported, sinceKick, pages>>

\* SLIP: the timer interrupt refreshes the watchdog.
TickKicks ==
  /\ pc = "HUNG" /\ sinceKick' = 0
  /\ UNCHANGED <<pc, lag, age, s_reported, pages, kept>>

Tick ==
  /\ pc = "HUNG" /\ Elapse(1, "HUNG") /\ age' = Aged(1)
  /\ UNCHANGED <<s_reported, pages, kept>>

Reboot ==
  /\ pc \in {"BITTEN", "EARLY"}
  /\ pc' = "COMMS" /\ lag' \in 0..BootLag /\ pages' = 0
  /\ age' = [c \in Checkpoints |-> 0] /\ s_reported' = [c \in Checkpoints |-> FALSE]
  /\ sinceKick' = 0 /\ kept' = TRUE

Loop ==
  \/ Comms \/ BeginSave \/ SavePage \/ NotDue \/ Due
  \/ Sensors \/ Control \/ Publish \/ Starve \/ HoldOff \/ Kick

Next == Loop \/ Hang \/ Tick \/ Reboot

Spec == Init /\ [][Next]_vars

\* Time passes, in a loop that runs and in one that hangs.
FairSpec == Spec /\ WF_vars(Loop) /\ WF_vars(Tick)

-----------------------------------------------------------------------------
(* Properties *)

TypeOK ==
  /\ pc \in Phases \cup {"HUNG", "BITTEN", "EARLY"}
  /\ lag \in Int /\ lag <= MaxLag /\ lag >= 0 - Period
  /\ age \in [Checkpoints -> Nat] /\ s_reported \in [Checkpoints -> BOOLEAN]
  /\ sinceKick \in 0..TimeoutMax /\ pages \in 0..SavePages
  /\ kept \in BOOLEAN

\* No subsystem of a regulator that is not reset has been silent for longer than its
\* budget and one period of the slowest watchdog, wherever the loop hangs or crawls.
NoSilentSubsystem ==
  pc \in Phases \cup {"HUNG"} => \A c \in Checkpoints : age[c] <= Budget[c] + TimeoutMax

\* A refresh never falls into the closed window, not even in the back-to-back cycles
\* that catch up after an overrun.
NoEarlyKick == pc # "EARLY"

\* The watchdog runs out only on a loop one of whose phases outran its nominal duration,
\* saved or hung since the boot: overruns of the period that it catches up with do not.
BiteIsEarned == pc = "BITTEN" => ~kept

\* What the derivation of the constants says: a config write can never trip the watchdog.
SaveNeverBites == ~(pc = "BITTEN" /\ pages > 0)

\* A loop that hangs is reset.
HangIsReset == pc = "HUNG" ~> pc = "BITTEN"

\* A loop that runs is refreshed again and again, or reset: it is never left alone.
KickedOrReset == []<>(sinceKick = 0 \/ ~Running)
=============================================================================
