---------------------------- MODULE SupplyGuard ----------------------------
(***************************************************************************)
(* field.c: the voltage the rotor clamp is computed from, and the clamp.   *)
(* Two channels read the bus, and either may read anything, or nothing, at *)
(* any tick.  Voltages are tenths of a volt per cell; duty is per mille.   *)
(***************************************************************************)
EXTENDS Integers

CONSTANTS
    NaN,
    Readings,              \* what the channels may read, NaN among them
    Buses,                 \* the voltages the bus may have
    MaxV, MinV, FloorV,    \* CTRL_VSUP_MAX_VCELL, ..._MIN_VCELL, ..._FLOOR_VCELL
    Distrust,              \* CTRL_VSUP_DISTRUST_MAX_MS, in ticks
    Rotor                  \* the voltage the rotor is rated for

SupplyAssumption ==
    /\ NaN \notin Int /\ Readings \subseteq Int \cup {NaN} /\ Buses \subseteq Nat
    /\ MinV \in Nat /\ MaxV \in Nat /\ FloorV \in Nat /\ MinV <= FloorV /\ MinV <= MaxV
    /\ Distrust \in Nat \ {0} /\ Rotor \in Nat

VARIABLES
    bus,                       \* the voltage of the bus
    v_track, distrust_ms,      \* ctrl_vsup_guard_t
    clamp,                     \* what ctrl_vsup_guard returned
    duty,                      \* the duty at full effort
    honest,                    \* history: a channel read the bus at the last tick
    low                        \* history: ticks the bus read low since it last read as trusted

guardVars == <<bus, v_track, distrust_ms, clamp, duty, honest, low>>

Higher(a, b) == IF a = NaN THEN b ELSE IF b = NaN \/ b < a THEN a ELSE b

\* ctrl_duty_max and ctrl_effort_to_duty, at full effort and without the 48 V option.
DutyMax(v) ==
    IF v = NaN \/ v <= 0 THEN 0
    ELSE IF Rotor >= v THEN 1000 ELSE (1000 * Rotor) \div v

CrossCheck(supply, vbat) == Higher(supply, vbat)

\* CTRL_VSUP_STEP_FRAC: within 4 % of the track.
InBand(v, track) == 100 * v >= 96 * track

Saturated(v) == IF v < MaxV THEN v ELSE MaxV
Floored(v)   == IF v < FloorV THEN FloorV ELSE v

\* SLIP: a reading in the band leaves the distrust standing.
AfterFollowKept == distrust_ms

AfterFollow == 0

\* ctrl_vsup_guard, from the higher reading v: no reading, an absurd one, one that is
\* followed (the first one too), and one that is too low to be believed at once.
NoReading(v) == v = NaN /\ clamp' = NaN /\ UNCHANGED <<v_track, distrust_ms>>

Absurd(v) ==
    /\ v # NaN /\ v < MinV
    /\ clamp' = Floored(IF v_track # NaN /\ v_track >= MinV THEN v_track ELSE MaxV)
    /\ UNCHANGED <<v_track, distrust_ms>>

Follows(v) ==
    /\ v # NaN /\ v >= MinV
    /\ v_track # NaN => InBand(v, v_track)
    /\ v_track' = Saturated(v) /\ distrust_ms' = AfterFollow
    /\ clamp' = Floored(Higher(v, v_track'))

Distrusts(v) ==
    /\ v # NaN /\ v >= MinV
    /\ v_track # NaN /\ ~InBand(v, v_track)
    /\ LET anchors == distrust_ms + 1 >= Distrust IN
       /\ v_track' = IF anchors THEN v ELSE v_track
       /\ distrust_ms' = IF anchors THEN 0 ELSE distrust_ms + 1
    /\ clamp' = Floored(Higher(v, v_track'))

\* One tick of the engine.
Guard(supply, vbat) ==
    LET v == CrossCheck(supply, vbat) IN
    /\ NoReading(v) \/ Absurd(v) \/ Follows(v) \/ Distrusts(v)
    /\ duty' = DutyMax(clamp')
    /\ honest' = (bus \in {supply, vbat})
    /\ low' = LET seen == Higher(supply, vbat) IN
              IF seen = NaN \/ v_track = NaN THEN low
              ELSE IF seen >= MinV /\ InBand(seen, v_track) THEN 0
              ELSE IF seen >= MinV /\ low < Distrust THEN low + 1 ELSE low
    /\ UNCHANGED bus

\* The load on the bus changes; the reading of the last tick is old then.
Sags(v) == v # bus /\ bus' = v /\ honest' = FALSE
           /\ UNCHANGED <<v_track, distrust_ms, clamp, duty, low>>

\* ctrl_vsup_guard_init
GuardInit ==
    /\ bus \in Buses /\ v_track = NaN /\ distrust_ms = 0
    /\ clamp = NaN /\ duty = 0 /\ honest = FALSE /\ low = 0

GuardNext ==
    \/ \E supply, vbat \in Readings : Guard(supply, vbat)
    \/ \E v \in Buses : Sags(v)

-----------------------------------------------------------------------------
\* "can only make the clamp tighter, so a false-low on one channel never loosens it"
\* (ctrl_vsup_guard): while one channel reads the bus, whatever the other one does and
\* whatever came before, full effort puts no more on the rotor than it is rated for.
OneGoodChannelIsEnough == honest => duty * bus <= 1000 * Rotor

\* Both channels false: what the rotor sees is bounded by the floor of the clamp all the
\* same, and the clamp leaves the last level it trusted only for one that was read for the
\* whole distrust hold, with no reading in the band in between.
TightUntilProven ==
    [][/\ clamp' # NaN => clamp' >= FloorV
       /\ v_track # NaN /\ ~InBand(v_track', v_track) => low' >= Distrust]_guardVars
=============================================================================
