--------------------------- MODULE WatchdogProofs ---------------------------
(***************************************************************************)
(* What the watchdog guarantees for every choice of durations, budgets and *)
(* periods: no subsystem is silent for longer than its budget and one      *)
(* period, no refresh is early, and where the nominal durations fit into   *)
(* the fastest period only a loop that leaves them is ever reset.          *)
(***************************************************************************)
EXTENDS Watchdog, TLAPS

\* The age of a checkpoint is paid for by its budget and the time since the refresh.
AgesArePaid ==
  pc \notin {"BITTEN", "EARLY"} => \A c \in Checkpoints : age[c] <= Budget[c] + sinceKick

IInv == TypeOK /\ AgesArePaid

USE TimesAssumption, WatchdogAssumption

-----------------------------------------------------------------------------
(* Steps in which time passes, and steps in which none does *)

LEMMA LesserIsLesser ==
  ASSUME NEW a \in Int, NEW b \in Int
  PROVE  Lesser(a, b) \in Int /\ Lesser(a, b) <= a /\ Lesser(a, b) <= b /\ Lesser(a, b) \in {a, b}
BY DEF Lesser

LEMMA ElapseClocks ==
  ASSUME TypeOK, NEW d \in Nat, NEW to, Elapse(d, to)
  PROVE  /\ pc' \in {to, "BITTEN"}
         /\ lag' \in Int /\ lag' <= MaxLag /\ lag' >= 0 - Period
         /\ sinceKick' \in 0..TimeoutMax
         /\ pc' = to => sinceKick' = sinceKick + d \/ pc' = "BITTEN"
<1>1. lag \in Int /\ lag <= MaxLag /\ lag >= 0 - Period /\ sinceKick \in 0..TimeoutMax
  BY DEF TypeOK
<1>2. pc' \in {to, "BITTEN"}
  BY DEF Elapse
<1>3. lag' \in Int /\ lag' <= MaxLag /\ lag' >= 0 - Period
  BY <1>1, LesserIsLesser DEF Elapse, Lesser
<1>4. sinceKick' \in 0..TimeoutMax
  BY <1>1 DEF Elapse, Lesser
<1>5. pc' = to => sinceKick' = sinceKick + d \/ pc' = "BITTEN"
  BY <1>1 DEF Elapse, Lesser
<1>6. QED
  BY <1>2, <1>3, <1>4, <1>5

LEMMA AgedType ==
  ASSUME TypeOK, NEW d \in Nat
  PROVE  Aged(d) \in [Checkpoints -> Nat] /\ \A c \in Checkpoints : Aged(d)[c] = age[c] + d
BY DEF Aged, TypeOK

\* A phase keeps the invariant: the ages grow with the time since the refresh, but for
\* that of its checkpoint.
LEMMA PhaseKeeps ==
  ASSUME IInv, NEW from \in Phases, NEW to \in Phases, NEW times \in SUBSET Nat,
         NEW cp \in Checkpoints, Phase(from, to, times, cp)
  PROVE  IInv'
<1>1. PICK d \in times : Elapse(d, to) /\ age' = [Aged(d) EXCEPT ![cp] = 0]
  BY DEF Phase
<1>2. d \in Nat /\ TypeOK /\ pc = from
  BY DEF Phase, IInv
<1>3. Aged(d) \in [Checkpoints -> Nat] /\ \A c \in Checkpoints : Aged(d)[c] = age[c] + d
  BY <1>2, AgedType
<1>4. age' \in [Checkpoints -> Nat]
  BY <1>1, <1>3
<1>5. s_reported' \in [Checkpoints -> BOOLEAN] /\ pages' \in 0..SavePages /\ kept' \in BOOLEAN
  BY <1>2 DEF Phase, TypeOK
<1>6. TypeOK'
  BY <1>1, <1>2, <1>4, <1>5, ElapseClocks DEF TypeOK
<1>7. ASSUME pc' \notin {"BITTEN", "EARLY"}, NEW c \in Checkpoints
      PROVE  age'[c] <= Budget[c] + sinceKick'
  <2>1. age[c] <= Budget[c] + sinceKick
    BY <1>2 DEF IInv, AgesArePaid, Phases
  <2>2. sinceKick' = sinceKick + d
    BY <1>1, <1>2, <1>7, ElapseClocks
  <2>3. age'[c] \in {0, age[c] + d}
    BY <1>1, <1>3
  <2>4. age[c] \in Nat /\ sinceKick \in Nat /\ Budget[c] \in Nat
    BY <1>2 DEF TypeOK
  <2>5. QED
    BY <1>2, <2>1, <2>2, <2>3, <2>4
<1>8. QED
  BY <1>6, <1>7 DEF IInv, AgesArePaid

\* So does a stretch of time without a checkpoint.
LEMMA StretchKeeps ==
  ASSUME IInv, pc \notin {"BITTEN", "EARLY"}, NEW d \in Nat, NEW to \in Phases \cup {"HUNG"},
         Elapse(d, to), age' = Aged(d), s_reported' = s_reported, pages' \in 0..SavePages,
         kept' \in BOOLEAN
  PROVE  IInv'
<1>1. TypeOK
  BY DEF IInv
<1>2. Aged(d) \in [Checkpoints -> Nat] /\ \A c \in Checkpoints : Aged(d)[c] = age[c] + d
  BY <1>1, AgedType
<1>3. TypeOK'
  BY <1>1, <1>2, ElapseClocks DEF TypeOK
<1>4. ASSUME pc' \notin {"BITTEN", "EARLY"}, NEW c \in Checkpoints
      PROVE  age'[c] <= Budget[c] + sinceKick'
  <2>1. age[c] <= Budget[c] + sinceKick
    BY DEF IInv, AgesArePaid
  <2>2. sinceKick' = sinceKick + d
    BY <1>1, <1>4, ElapseClocks
  <2>3. age[c] \in Nat /\ sinceKick \in Nat /\ Budget[c] \in Nat
    BY <1>1 DEF TypeOK
  <2>4. QED
    BY <1>2, <2>1, <2>2, <2>3
<1>5. QED
  BY <1>3, <1>4 DEF IInv, AgesArePaid

-----------------------------------------------------------------------------
(* The invariant *)

LEMMA InitEstablishes == Init => IInv
<1>1. ASSUME Init PROVE TypeOK
  BY <1>1 DEF Init, TypeOK, Phases
<1>2. ASSUME Init PROVE AgesArePaid
  BY <1>2 DEF Init, AgesArePaid
<1>3. QED
  BY <1>1, <1>2 DEF IInv

LEMMA StepPreserves == IInv /\ [Next]_vars => IInv'
<1> SUFFICES ASSUME IInv, [Next]_vars PROVE IInv'
  OBVIOUS
<1>0. TypeOK /\ AgesArePaid
  BY DEF IInv
<1>1. CASE Comms
  BY <1>1, PhaseKeeps DEF Comms, Phases, Checkpoints
<1>2. CASE Sensors
  BY <1>2, PhaseKeeps DEF Sensors, Phases, Checkpoints
<1>3. CASE Control
  BY <1>3, PhaseKeeps DEF Control, Phases, Checkpoints
<1>4. CASE Publish
  <2>1. PICK d \in PublishTime : Elapse(d, "SERVICE") /\ age' = Aged(d) /\ kept' \in BOOLEAN
    BY <1>0, <1>4 DEF Publish, TypeOK
  <2>2. pc = "PUBLISH" /\ s_reported' = s_reported /\ pages' \in 0..SavePages
    BY <1>0, <1>4 DEF Publish, TypeOK
  <2>3. d \in Nat /\ "SERVICE" \in Phases \cup {"HUNG"}
    BY DEF Phases
  <2>4. QED
    BY <2>1, <2>2, <2>3, StretchKeeps
<1>5. CASE SavePage
  <2>1. pc = "SAVE" /\ pages' = pages - 1 /\ s_reported' = s_reported /\ age' = Aged(PageTime)
    BY <1>5 DEF SavePage
  <2>2. PICK to \in {"COMMS", "SAVE"} : Elapse(PageTime, to)
    BY <1>5 DEF SavePage
  <2>3. pages' \in 0..SavePages /\ kept' \in BOOLEAN
    BY <1>0, <1>5 DEF SavePage, TypeOK
  <2>4. to \in Phases \cup {"HUNG"} /\ PageTime \in Nat
    BY DEF Phases
  <2>5. QED
    BY <2>1, <2>2, <2>3, <2>4, StretchKeeps
<1>6. CASE Tick
  BY <1>0, <1>6, StretchKeeps DEF Tick, TypeOK
<1>7. CASE BeginSave \/ NotDue \/ Due \/ Starve \/ HoldOff \/ Hang
  <2>1. /\ pc' \in Phases \cup {"HUNG"} /\ pc \notin {"BITTEN", "EARLY"}
        /\ lag' \in {lag, lag - Period} /\ (lag' = lag \/ lag >= 0)
        /\ pages' \in {pages, SavePages} /\ kept' \in BOOLEAN
        /\ UNCHANGED <<age, s_reported, sinceKick>>
    BY <1>0, <1>7 DEF BeginSave, NotDue, Due, Starve, HoldOff, Hang, Running, Phases, TypeOK
  <2>2. TypeOK'
    BY <1>0, <2>1 DEF TypeOK
  <2>3. AgesArePaid'
    BY <1>0, <2>1 DEF AgesArePaid
  <2>4. QED
    BY <2>2, <2>3 DEF IInv
<1>8. CASE Kick
  <2>1. pc = "SERVICE" /\ Stale = {} /\ pc' \in {"EARLY", "COMMS"} /\ sinceKick' = 0
        /\ UNCHANGED <<lag, age, s_reported, pages, kept>>
    BY <1>8 DEF Kick
  <2>2. \A c \in Checkpoints : age[c] <= Budget[c]
    BY <1>0, <2>1 DEF Stale, TypeOK
  <2>3. TypeOK'
    BY <1>0, <2>1 DEF TypeOK, Phases
  <2>4. AgesArePaid'
    BY <2>1, <2>2, <2>3 DEF AgesArePaid, TypeOK
  <2>5. QED
    BY <2>3, <2>4 DEF IInv
<1>9. CASE Reboot
  <2>1. TypeOK'
    BY <1>9 DEF Reboot, TypeOK, Phases
  <2>2. AgesArePaid'
    BY <1>9 DEF Reboot, AgesArePaid
  <2>3. QED
    BY <2>1, <2>2 DEF IInv
<1>10. CASE UNCHANGED vars
  BY <1>0, <1>10 DEF IInv, TypeOK, AgesArePaid, vars
<1>11. QED
  BY <1>1, <1>2, <1>3, <1>4, <1>5, <1>6, <1>7, <1>8, <1>9, <1>10 DEF Next, Loop

THEOREM Invariance == Spec => []IInv
BY InitEstablishes, StepPreserves, PTL DEF Spec

\* Every variable keeps its type.
THEOREM TypeCorrect == Spec => []TypeOK
<1>1. IInv => TypeOK
  BY DEF IInv
<1>2. QED
  BY <1>1, Invariance, PTL

\* No subsystem of a regulator that is not reset has been silent for longer than its
\* budget and one period of the slowest watchdog (watchdog_service).
THEOREM Freshness == Spec => []NoSilentSubsystem
<1>1. IInv => NoSilentSubsystem
  <2> SUFFICES ASSUME IInv, pc \in Phases \cup {"HUNG"}, NEW c \in Checkpoints
               PROVE  age[c] <= Budget[c] + TimeoutMax
    BY DEF NoSilentSubsystem
  <2>1. age[c] <= Budget[c] + sinceKick
    BY DEF IInv, AgesArePaid, Phases
  <2>2. age[c] \in Nat /\ Budget[c] \in Nat /\ sinceKick \in 0..TimeoutMax
    BY DEF IInv, TypeOK
  <2>3. QED
    BY <2>1, <2>2
<1>2. QED
  BY <1>1, Invariance, PTL

-----------------------------------------------------------------------------
(* The window *)

\* With a software floor more than a tick above the hardware's window no refresh is early.
THEOREM WindowRespected ==
  ASSUME Floor - 1 >= HwWindow
  PROVE  Spec => []NoEarlyKick
<1>1. Init => NoEarlyKick
  BY DEF Init, NoEarlyKick
<1>2. TypeOK /\ NoEarlyKick /\ [Next]_vars => NoEarlyKick'
  <2> SUFFICES ASSUME TypeOK, NoEarlyKick, [Next]_vars PROVE pc' # "EARLY"
    BY DEF NoEarlyKick
  <2>1. CASE Kick
    BY <2>1 DEF Kick, FloorPassed, TypeOK
  <2>2. CASE Comms \/ Sensors \/ Control \/ Publish \/ SavePage \/ Tick
    BY <2>2 DEF Comms, Sensors, Control, Publish, SavePage, Tick, Phase, Elapse
  <2>3. CASE BeginSave \/ NotDue \/ Due \/ Starve \/ HoldOff \/ Hang \/ Reboot
    BY <2>3 DEF BeginSave, NotDue, Due, Starve, HoldOff, Hang, Reboot
  <2>4. CASE UNCHANGED vars
    BY <2>4 DEF vars, NoEarlyKick
  <2>5. QED
    BY <2>1, <2>2, <2>3, <2>4 DEF Next, Loop
<1>3. QED
  BY <1>1, <1>2, TypeCorrect, PTL DEF Spec

-----------------------------------------------------------------------------
(* A loop that fits into the fastest period *)

C == Nominal["COMMS"]
S == Nominal["SENSORS"]
K == Nominal["CONTROL"]
V == Nominal["PUBLISH"]

\* The nominal durations fit into the budgets, and, after the longest wait a refresh can
\* have behind it when the cycle falls due, into the fastest period of the watchdog.
Fits ==
  /\ Floor >= 1
  /\ S + K + V <= Budget["COMMS"] /\ K + V <= Budget["SENSORS"] /\ V <= Budget["CONTROL"]
  /\ (Floor - 1) + (Period - 1) + C + S + K + V < TimeoutMin

\* How old a refresh is before the cycle: it waits no longer than for its deadline.
Waited == IF lag < 0 THEN (Floor - 1) + Period + lag ELSE Floor - 1

late == (Floor - 1) + (Period - 1) + C

\* By phase: how old the refresh and the checkpoints can be in a loop that keeps to the
\* nominal durations.
Pace ==
  /\ pc \notin {"HUNG", "BITTEN", "SAVE"}
  /\ pc = "COMMS" => sinceKick <= Waited
  /\ pc = "GATE" => /\ lag < 0 => sinceKick <= Waited
                    /\ lag >= 0 => sinceKick <= late
                    /\ age["COMMS"] = 0
  /\ pc = "SENSORS" => sinceKick <= late /\ age["COMMS"] = 0
  /\ pc = "CONTROL" => /\ sinceKick <= late + S /\ age["COMMS"] <= S
                       /\ age["SENSORS"] = 0
  /\ pc = "PUBLISH" => /\ sinceKick <= late + S + K /\ age["COMMS"] <= S + K
                       /\ age["SENSORS"] <= K /\ age["CONTROL"] = 0
  /\ pc = "SERVICE" => /\ age["COMMS"] <= S + K + V
                       /\ age["SENSORS"] <= K + V /\ age["CONTROL"] <= V

Paced == kept => Pace

\* Every checkpoint has reported by the time it is looked at.
Reported ==
  /\ pc \in {"GATE", "SENSORS", "CONTROL", "PUBLISH", "SERVICE"} => s_reported["COMMS"]
  /\ pc \in {"CONTROL", "PUBLISH", "SERVICE"} => s_reported["SENSORS"]
  /\ pc \in {"PUBLISH", "SERVICE"} => s_reported["CONTROL"]

\* The clocks across a stretch of a loop in which the watchdog cannot have run out.
LEMMA ElapseInTime ==
  ASSUME TypeOK, NEW d \in Nat, NEW to, Elapse(d, to), sinceKick + d < TimeoutMin
  PROVE  pc' = to /\ sinceKick' = sinceKick + d /\ lag' = Lesser(lag + d, MaxLag)
BY DEF Elapse, Lesser, TypeOK

LEMMA ReportedPreserved ==
  ASSUME TypeOK, Reported, [Next]_vars
  PROVE  Reported'
<1>1. CASE Comms
  BY <1>1 DEF Comms, Phase, Elapse, Reported, TypeOK, Checkpoints
<1>2. CASE Sensors
  BY <1>2 DEF Sensors, Phase, Elapse, Reported, TypeOK, Checkpoints
<1>3. CASE Control
  BY <1>3 DEF Control, Phase, Elapse, Reported, TypeOK, Checkpoints
<1>4. CASE Publish \/ SavePage \/ Tick
  BY <1>4 DEF Publish, SavePage, Tick, Elapse, Reported
<1>5. CASE BeginSave \/ NotDue \/ Due \/ Starve \/ HoldOff \/ Hang \/ Kick \/ Reboot
  BY <1>5 DEF BeginSave, NotDue, Due, Starve, HoldOff, Hang, Kick, Reboot, Reported
<1>6. CASE UNCHANGED vars
  BY <1>6 DEF vars, Reported
<1>7. QED
  BY <1>1, <1>2, <1>3, <1>4, <1>5, <1>6 DEF Next, Loop

\* Each phase hands the next one a refresh that is older by at most its duration.
LEMMA PacedPreserved ==
  ASSUME Fits, TypeOK, Reported, Paced, [Next]_vars
  PROVE  Paced'
<1> SUFFICES ASSUME kept' PROVE Pace'
  BY DEF Paced
<1>n. C \in Nat /\ S \in Nat /\ K \in Nat /\ V \in Nat
  BY DEF C, S, K, V, Timed
<1>p. ~Reboot => kept /\ Pace
  <2>1. ~Reboot => kept
    BY DEF Next, Loop, vars, Comms, Sensors, Control, Phase, Publish, BeginSave, SavePage,
           NotDue, Due, Starve, HoldOff, Kick, Hang, Tick
  <2>2. QED
    BY <2>1 DEF Paced
<1>t. /\ lag \in Int /\ lag <= MaxLag /\ lag >= 0 - Period /\ sinceKick \in Nat
      /\ age \in [Checkpoints -> Nat]
  BY DEF TypeOK
<1>f. /\ Floor >= 1 /\ Floor \in Nat /\ Period >= 1 /\ Period \in Nat /\ MaxLag \in Nat
      /\ TimeoutMin \in Nat /\ late \in Int /\ late = (Floor - 1) + (Period - 1) + C
      /\ late + S + K + V < TimeoutMin
      /\ C \in Nat /\ S \in Nat /\ K \in Nat /\ V \in Nat
  BY <1>n DEF Fits, late
<1>1. CASE Comms
  <2>1. PICK d \in CommsTime : /\ Elapse(d, "GATE") /\ age' = [Aged(d) EXCEPT !["COMMS"] = 0]
                             /\ kept' = (kept /\ d <= Nominal["COMMS"])
    BY <1>1 DEF Comms, Phase
  <2>2. d \in Nat /\ d <= C /\ pc = "COMMS" /\ Pace
    BY <1>1, <1>p, <2>1 DEF C, Comms, Phase, Reboot
  <2>3. sinceKick <= Waited
    BY <2>2 DEF Pace
  <2>4. sinceKick + d <= late \/ lag + d < 0
    BY <1>t, <1>f, <2>2, <2>3 DEF Waited
  <2>5. lag < 0 => sinceKick <= (Floor - 1) + Period + lag
    BY <2>3 DEF Waited
  <2>6. sinceKick + d <= late
    BY <1>t, <1>f, <2>2, <2>3, <2>4 DEF Waited
  <2>7. pc' = "GATE" /\ sinceKick' = sinceKick + d /\ lag' = Lesser(lag + d, MaxLag)
    BY <1>f, <2>1, <2>2, <2>6, ElapseInTime, <1>t
  <2>8. age'["COMMS"] = 0
    BY <2>1 DEF Aged, Checkpoints
  <2>9. lag' < 0 => sinceKick' <= (Floor - 1) + Period + lag'
    BY <1>t, <1>f, <2>2, <2>5, <2>7 DEF Lesser
  <2>10. QED
    BY <2>6, <2>7, <2>8, <2>9 DEF Pace, Waited
<1>2. CASE Sensors
  <2>1. PICK d \in SensorTime : /\ Elapse(d, "CONTROL") /\ age' = [Aged(d) EXCEPT !["SENSORS"] = 0]
                             /\ kept' = (kept /\ d <= Nominal["SENSORS"])
    BY <1>2 DEF Sensors, Phase
  <2>0. pc = "SENSORS" /\ Pace
    BY <1>2, <1>p DEF Sensors, Phase, Reboot
  <2>2. d \in Nat /\ d <= S /\ sinceKick <= late /\ age["COMMS"] = 0
    BY <2>0, <2>1 DEF S, Pace
  <2>3. pc' = "CONTROL" /\ sinceKick' = sinceKick + d
    BY <1>f, <1>t, <2>1, <2>2, ElapseInTime
  <2>4. age'["COMMS"] = d /\ age'["SENSORS"] = 0
    BY <2>1, <2>2 DEF Aged, Checkpoints
  <2>5. QED
    BY <1>t, <1>f, <2>2, <2>3, <2>4 DEF Pace
<1>3. CASE Control
  <2>1. PICK d \in ControlTime : /\ Elapse(d, "PUBLISH") /\ age' = [Aged(d) EXCEPT !["CONTROL"] = 0]
                             /\ kept' = (kept /\ d <= Nominal["CONTROL"])
    BY <1>3 DEF Control, Phase
  <2>0. pc = "CONTROL" /\ Pace
    BY <1>3, <1>p DEF Control, Phase, Reboot
  <2>2. d \in Nat /\ d <= K /\ sinceKick <= late + S /\ age["COMMS"] <= S /\ age["SENSORS"] = 0
    BY <2>0, <2>1 DEF K, Pace
  <2>3. pc' = "PUBLISH" /\ sinceKick' = sinceKick + d
    BY <1>f, <1>t, <2>1, <2>2, ElapseInTime
  <2>4. age'["COMMS"] = age["COMMS"] + d /\ age'["SENSORS"] = d /\ age'["CONTROL"] = 0
    BY <1>t, <2>1, <2>2 DEF Aged, Checkpoints
  <2>5. age["COMMS"] \in Nat
    BY <1>t DEF Checkpoints
  <2>6. QED
    BY <1>t, <1>f, <2>2, <2>3, <2>4, <2>5 DEF Pace
<1>4. CASE Publish
  <2>1. PICK d \in PublishTime : /\ Elapse(d, "SERVICE") /\ age' = Aged(d)
                               /\ kept' = (kept /\ d <= Nominal["PUBLISH"])
    BY <1>4 DEF Publish
  <2>0. pc = "PUBLISH" /\ Pace
    BY <1>4, <1>p DEF Publish, Reboot
  <2>2. /\ d \in Nat /\ d <= V /\ sinceKick <= late + S + K
        /\ age["COMMS"] <= S + K /\ age["SENSORS"] <= K /\ age["CONTROL"] = 0
    BY <2>0, <2>1 DEF V, Pace
  <2>3. pc' = "SERVICE"
    BY <1>f, <1>t, <2>1, <2>2, ElapseInTime
  <2>4. age' = [c \in Checkpoints |-> age[c] + d]
    BY <2>1 DEF Aged
  <2>5. age["COMMS"] \in Nat /\ age["SENSORS"] \in Nat /\ age["CONTROL"] \in Nat
    BY <1>t DEF Checkpoints
  <2>6. /\ age'["COMMS"] = age["COMMS"] + d /\ age'["SENSORS"] = age["SENSORS"] + d
        /\ age'["CONTROL"] = age["CONTROL"] + d
    BY <2>4 DEF Checkpoints
  <2>7. QED
    BY <1>n, <2>2, <2>3, <2>5, <2>6 DEF Pace
<1>5. CASE NotDue \/ Due
  <2>0. Pace
    BY <1>5, <1>p DEF NotDue, Due, Reboot
  <2>1. CASE NotDue
    BY <2>0, <2>1 DEF NotDue, Pace, Waited
  <2>2. CASE Due
    BY <2>0, <2>2 DEF Due, Pace
  <2>3. QED
    BY <1>5, <2>1, <2>2
<1>6. CASE Starve
  <2>1. pc = "SERVICE" /\ Stale # {} /\ Pace
    BY <1>6, <1>p DEF Starve, Reboot
  <2>2. \A c \in Checkpoints : age[c] <= Budget[c]
    <3>1. age["COMMS"] <= S + K + V /\ age["SENSORS"] <= K + V /\ age["CONTROL"] <= V
      BY <2>1 DEF Pace
    <3>2. age["COMMS"] \in Nat /\ age["SENSORS"] \in Nat /\ age["CONTROL"] \in Nat
      BY <1>t DEF Checkpoints
    <3>3. Budget["COMMS"] \in Nat /\ Budget["SENSORS"] \in Nat /\ Budget["CONTROL"] \in Nat
      BY DEF Checkpoints
    <3>4. QED
      BY <1>n, <3>1, <3>2, <3>3 DEF Fits, Checkpoints
  <2>3. \A c \in Checkpoints : s_reported[c]
    BY <2>1 DEF Reported, Checkpoints
  <2>4. \A c \in Checkpoints : ~(age[c] > Budget[c])
    BY <1>t, <2>2
  <2>5. QED
    BY <2>1, <2>3, <2>4 DEF Stale
<1>7. CASE HoldOff
  BY <1>t, <1>f, <1>7 DEF HoldOff, FloorPassed, Pace, Waited
<1>8. CASE Kick
  <2>1. pc' \in {"EARLY", "COMMS"} /\ sinceKick' = 0 /\ lag' = lag
    BY <1>8 DEF Kick
  <2>2. sinceKick' <= Waited'
    BY <1>t, <1>f, <2>1 DEF Waited
  <2>3. QED
    BY <2>1, <2>2 DEF Pace
<1>9. CASE Reboot
  <2>1. pc' = "COMMS" /\ sinceKick' = 0 /\ lag' \in 0..BootLag
    BY <1>9 DEF Reboot
  <2>2. ~(lag' < 0)
    BY <2>1
  <2>3. Waited' = Floor - 1
    BY <2>2 DEF Waited
  <2>4. sinceKick' <= Waited'
    BY <1>f, <2>1, <2>3
  <2>5. QED
    BY <2>1, <2>4 DEF Pace
<1>10. CASE BeginSave \/ SavePage \/ Hang \/ Tick
  <2>1. ~Reboot /\ kept'
    BY <1>10 DEF BeginSave, SavePage, Hang, Tick, Reboot, Running, Phases
  <2>2. QED
    BY <1>10, <1>p, <2>1 DEF BeginSave, SavePage, Hang, Tick, Pace
<1>11. CASE UNCHANGED vars
  <2>1. Pace
    BY <1>11 DEF vars, Paced
  <2>2. QED
    BY <1>11, <2>1 DEF vars, Pace, Waited
<1>12. QED
  BY <1>1, <1>2, <1>3, <1>4, <1>5, <1>6, <1>7, <1>8, <1>9, <1>10, <1>11 DEF Next, Loop

\* Where the nominal durations fit into the budgets and the fastest period, only a loop that
\* has left them is reset by the watchdog: overruns of the period that it catches up with
\* are not enough.
THEOREM HealthyLoopSurvives ==
  ASSUME Fits
  PROVE  Spec => []BiteIsEarned
<1>1. Init => Reported /\ Paced
  <2>1. ASSUME Init PROVE Reported
    BY <2>1 DEF Init, Reported
  <2>2. ASSUME Init PROVE sinceKick <= Waited
    BY <2>2 DEF Init, Waited, Fits
  <2>3. ASSUME Init PROVE Paced
    BY <2>2, <2>3 DEF Init, Paced, Pace
  <2>4. QED
    BY <2>1, <2>3
<1>2. TypeOK /\ Reported /\ Paced /\ [Next]_vars => (Reported /\ Paced)'
  BY ReportedPreserved, PacedPreserved
<1>3. Paced => BiteIsEarned
  BY DEF Paced, Pace, BiteIsEarned
<1>4. QED
  BY <1>1, <1>2, <1>3, TypeCorrect, PTL DEF Spec
=============================================================================
