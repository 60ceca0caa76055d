----------------------------- MODULE StatorRpm -----------------------------
(***************************************************************************)
(* stator_rpm.c: the edges of the stator, timed by an interrupt, and the   *)
(* speed the main loop makes of the last few periods.  The machine turns,  *)
(* changes speed, stops and starts; now and then an edge is missed or an   *)
(* extra one is heard.  Time goes in units of the timer; a speed is its    *)
(* period.                                                                 *)
(***************************************************************************)
EXTENDS Naturals, FiniteSets, Sequences

CONSTANTS
    Window,           \* STATOR_WINDOW_N
    MinPeriod,        \* STATOR_MIN_PERIOD_TICKS
    Stale, Lost,      \* STATOR_STALE_MS, STATOR_LOST_MS
    Wrap,             \* the range of TIM2
    Speeds,           \* the periods the machine may turn with
    Pause             \* bound: a stopped machine stays so for multiples of this

\* The machine turns at speeds that are read as fresh from one edge to the next even if
\* one is missed, and the window outvotes the two periods that a disturbance spoils.
StatorAssumption ==
    /\ Window \in Nat /\ Window >= 5
    /\ MinPeriod \in Nat \ {0} /\ Wrap \in Nat \ {0} /\ Stale \in Nat /\ Lost \in Nat /\ Pause \in Nat
    /\ Stale <= Lost
    /\ \A p \in Speeds : p \in Nat /\ p >= MinPeriod /\ 2 * p < Stale /\ 2 * p < Wrap

VARIABLES
    s_have_prev, since,     \* the edge before, and the counter since then
    s_period_ticks,         \* the window, oldest first
    age,                    \* since s_last_edge_ms, up to Lost
    speed, phase,           \* the machine: its period or 0, and the time to its next edge
    edges, calm             \* history: its edges since its speed last changed, and since a disturbance

statorVars == <<s_have_prev, since, s_period_ticks, age, speed, phase, edges, calm>>

NAN == 0
\* The edges of a speed that have pushed everything older out of the window.
Full == Window + 1
AtMost(n, m) == IF n < m THEN n ELSE m

\* stator_rpm_init
StatorInit ==
    /\ s_have_prev = FALSE /\ since = 0 /\ s_period_ticks = <<>> /\ age = 0
    /\ speed = 0 /\ phase = 0 /\ edges = 0 /\ calm = 0

Pushed(w, p) == IF Len(w) < Window THEN Append(w, p) ELSE Append(Tail(w), p)

Plausible(p) == p >= MinPeriod

\* HAL_GPIO_EXTI_Callback
Exti ==
    /\ s_have_prev' = TRUE /\ since' = 0
    /\ IF s_have_prev /\ Plausible(since)
         THEN s_period_ticks' = Pushed(s_period_ticks, since) /\ age' = 0
         ELSE /\ UNCHANGED s_period_ticks
              /\ age' = IF s_have_prev THEN age ELSE 0

\* The machine passes an edge, heard or missed; noise makes one of its own.  One
\* disturbance is over, for a whole window, before the next one comes.
Edge ==
    /\ speed # 0 /\ phase = 0 /\ phase' = speed
    /\ Exti
    /\ edges' = AtMost(Full, edges + 1) /\ calm' = AtMost(Full, calm + 1)
    /\ UNCHANGED <<speed>>

Missed ==
    /\ speed # 0 /\ phase = 0 /\ phase' = speed
    /\ calm = Full /\ calm' = 0
    /\ UNCHANGED <<s_have_prev, since, s_period_ticks, age, speed, edges>>

Noise ==
    /\ speed # 0 /\ phase \in 1 .. speed - 1
    /\ calm = Full /\ calm' = 0
    /\ Exti
    /\ UNCHANGED <<speed, phase, edges>>

\* Bound: a speed is left only after a window of its edges.
Turns(p) ==
    /\ p # speed /\ (speed # 0 => edges = Full)
    /\ speed' = p /\ phase' = p
    /\ edges' = 0 /\ calm' = 0
    /\ UNCHANGED <<s_have_prev, since, s_period_ticks, age>>

Elapse ==
    /\ speed # 0 => phase > 0
    /\ LET d == IF speed = 0 THEN Pause ELSE 1 IN
       /\ since' = (since + d) % Wrap
       /\ age' = AtMost(Lost, age + d)
       /\ phase' = IF speed = 0 THEN 0 ELSE phase - 1
    /\ UNCHANGED <<s_have_prev, s_period_ticks, speed, edges, calm>>

\* SLIP: the middle of the window as it came in.
MedianUnsorted(w) == w[Len(w) \div 2 + 1]

\* median_of: the middle of the window once it is sorted, which no more than half of the
\* entries are below and more than half are not above.
Median(w) ==
    CHOOSE m \in {w[i] : i \in DOMAIN w} :
        /\ Cardinality({i \in DOMAIN w : w[i] < m}) <= Len(w) \div 2
        /\ Len(w) \div 2 < Cardinality({i \in DOMAIN w : w[i] <= m})

\* stator_rpm_update, at any moment: what it makes of the edges.
State == IF ~s_have_prev \/ age >= Lost THEN "lost" ELSE IF age >= Stale THEN "stale" ELSE "fresh"
Freq  == IF State = "lost" \/ s_period_ticks = <<>> THEN NAN ELSE Median(s_period_ticks)

StatorNext ==
    \/ Edge \/ Missed \/ Noise \/ Elapse
    \/ \E p \in Speeds \cup {0} : Turns(p)

-----------------------------------------------------------------------------
\* "reject a single noisy outlier via median-of-N" (stator_rpm.c): once the machine has
\* turned at a speed for a window of edges, that speed is read, although an edge was
\* missed or an extra one was heard among them, and whatever stood in the window before.
SteadySpeedIsRead ==
    speed # 0 /\ edges = Full => Freq = speed /\ State = "fresh"
=============================================================================
