------------------------------ MODULE Thermal ------------------------------
(***************************************************************************)
(* thermal.c: the ceiling that follows where the temperature is heading.   *)
(* A sample is taken every dt; temperatures and powers are integers, gain  *)
(* and dt are one.                                                         *)
(***************************************************************************)
EXTENDS Integers

CONSTANTS
    NaN,
    Temps,                    \* what the sensor may read, NaN when it is lost
    Tau, Target, Hard,        \* tau_s, target_c, hard_c
    Floor, Ceiling            \* derate_floor_w, ceiling_max_w

ThermalAssumption ==
    /\ NaN \notin Int /\ Temps \subseteq Int \cup {NaN}
    /\ Tau \in Nat /\ Target \in Int /\ Hard \in Int
    /\ Floor \in Nat /\ Ceiling \in Nat /\ Floor <= Ceiling

VARIABLES
    t_prev, ceiling_w,     \* ctrl_thermal_t
    before                 \* history: what the sensor read one sample ago

thermalVars == <<t_prev, ceiling_w, before>>

Loses(hotspot) == hotspot

\* ctrl_thermal_init
ThermalInit == t_prev = NaN /\ ceiling_w = Ceiling /\ before = NaN

Slope(hotspot) == IF t_prev = NaN THEN 0 ELSE hotspot - t_prev
Clamped(w) == IF w < Floor THEN Floor ELSE IF w > Ceiling THEN Ceiling ELSE w

\* ctrl_thermal_update
Sample(hotspot) ==
    /\ before' = hotspot
    /\ t_prev' = Loses(hotspot)
    /\ ceiling_w' =
         IF hotspot = NaN THEN ceiling_w
         ELSE IF hotspot >= Hard THEN Floor
         ELSE Clamped(ceiling_w + Target - (hotspot + Tau * Slope(hotspot)))

ThermalNext == \E hotspot \in Temps : Sample(hotspot)

-----------------------------------------------------------------------------
\* A machine that is hot gains no power unless two samples in a row show that it cools:
\* a sensor that was lost and comes back hot never counts as one that has cooled since.
HotGainsNoPower ==
    [][/\ before' # NaN /\ before' >= Target
       /\ before # NaN => before' >= before
       => ceiling_w' <= ceiling_w]_thermalVars
=============================================================================
