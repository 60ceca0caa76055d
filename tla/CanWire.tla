------------------------------ MODULE CanWire ------------------------------
(***************************************************************************)
(* n2k_encode.c and rvc_encode.c: what a display of either dialect reads   *)
(* of the telemetry.  A message is the sequence of its fields, each with   *)
(* its width in bytes and its code; a reader knows the offsets and the     *)
(* resolutions of the standard and nothing else.                           *)
(*                                                                         *)
(* All readings of a snapshot have the same number, in units finer than    *)
(* any resolution, or are not finite; it sweeps over its range before the  *)
(* state, the fault bits and the binding ceiling of the snapshot change.   *)
(* The codes are scaled down; text and the NAME are widths only.           *)
(***************************************************************************)
EXTENDS Integers, FiniteSets, Sequences

CONSTANTS
    NotFinite,    \* NaN and the infinities
    Low, High,    \* the readings
    Res,          \* Res[f]: the units of one bit of field f
    Top8, Top16, Top32,    \* the highest code of a width
    Full, FullPct,         \* the code of full effort, and of the highest percentage
    Zero16, Zero32,        \* the codes of no current in RV-C
    Kelvin, Warm,          \* the offsets of temperatures
    FaultBits,    \* the faults: the class and whether it is about heat, by bit
    AtOnce        \* how many faults there are at most at once

\* Codes are even in number, currents of both signs have codes in RV-C, and its currents
\* are not coarser than those of NMEA 2000.
WireAssumption ==
    /\ NotFinite \notin Int /\ Low \in Int /\ High \in Int /\ Low <= High
    /\ Res \in [{"n2kV", "n2kA", "n2kT", "rpm", "pct", "watts", "rvcV", "rvcA", "mA", "rvcT", "deg"}
                -> Nat \ {0}]
    /\ Res.mA <= Res.n2kA /\ Res.rvcA <= Res.n2kA
    /\ Top8 \in Nat \ {0} /\ Top16 \in Nat /\ Top16 >= 7 /\ Top16 % 2 = 1 /\ Top32 \in Nat
    /\ Full \in 0 .. Top8 - 1 /\ FullPct \in 0 .. Top8 - 1
    /\ Zero16 \in 1 .. Top16 - 2 /\ Zero32 \in 1 .. Top32 - 2
    /\ Kelvin \in Nat /\ Warm \in Nat
    /\ DOMAIN FaultBits \subseteq Nat
    /\ \A b \in DOMAIN FaultBits :
          FaultBits[b].class \in {"open", "limp", "block", "warn"} /\ FaultBits[b].hot \in BOOLEAN

VARIABLES x, mode

wireVars == <<x, mode>>

Bits == DOMAIN FaultBits
Modes == [state : {"standby", "bulk", "float"}, binding : {"clamp", "thermal", "other"},
          faults : {S \in SUBSET Bits : Cardinality(S) <= AtOnce}, tach : {"valid", "stale"}]
Calm == [state |-> "standby", binding |-> "other", faults |-> {}, tach |-> "stale"]

WireInit == x = NotFinite /\ mode = Calm

WireNext ==
    \/ x = NotFinite /\ x' = Low /\ UNCHANGED mode
    \/ x # NotFinite /\ x < High /\ x' = x + 1 /\ UNCHANGED mode
    \/ x = High /\ mode = Calm /\ x' = NotFinite /\ mode' \in Modes
    \/ x = High /\ mode # Calm /\ x' = NotFinite /\ mode' = Calm

-----------------------------------------------------------------------------
Finite(v) == v # NotFinite
Clamp(lo, hi, n) == IF n < lo THEN lo ELSE IF n > hi THEN hi ELSE n

\* SLIP: the conversion to an integer cuts the fraction off.
RoundDown(v, res) == IF v >= 0 THEN v \div res ELSE -((-v) \div res)

\* llround: to the nearest, halves away from zero.
Round(v, res) == IF v >= 0 THEN (2 * v + res) \div (2 * res) ELSE -((res - 2 * v) \div (2 * res))

\* NMEA 2000: the codes above the highest value are reserved.
EncU16(v, res) == IF ~Finite(v) THEN Top16 ELSE Clamp(0, Top16 - 3, Round(v, res))
Half == (Top16 + 1) \div 2
EncS16(v, res) == IF ~Finite(v) THEN Half - 1
                  ELSE Clamp(-Half, Half - 4, Round(v, res)) % (Top16 + 1)
EncTempC(v, res) == EncU16(IF Finite(v) THEN v + Kelvin ELSE v, res)
EncEffort(v, res) == IF ~Finite(v) THEN Top8 ELSE Clamp(0, Full, Round(v, res))

\* RV-C: the highest code is "not available"; currents have an offset.
RvcU16(v, res) == IF ~Finite(v) THEN Top16 ELSE Clamp(0, Top16 - 1, Round(v, res))
RvcOffset(v, res, zero, top) == IF ~Finite(v) THEN top ELSE Clamp(0, top - 1, zero + Round(v, res))
RvcPct(v, res) == IF ~Finite(v) THEN Top8 ELSE Clamp(0, FullPct, Round(v, res))
RvcTemp(v, res) == RvcU16(IF Finite(v) THEN v + Kelvin ELSE v, res)
RvcTemp8(v, res) == IF ~Finite(v) THEN Top8 ELSE Clamp(0, Top8 - 1, Round(v, res) + Warm)

-----------------------------------------------------------------------------
Of(class) == {b \in mode.faults : FaultBits[b].class = class}

\* ctrl_fault_severity, as a number: 0 is INFO, 3 is CRITICAL.
SeverityOf(S) ==
    IF \E b \in S : FaultBits[b].class = "open" THEN 3
    ELSE IF \E b \in S : FaultBits[b].class \in {"limp", "block"} THEN 2
    ELSE IF \E b \in S : FaultBits[b].class = "warn" THEN 1
    ELSE 0
Severity == SeverityOf(mode.faults)

\* ctrl_fault_top_code; the bits are counted from 1, as the codes are.
TopCode == CHOOSE b \in mode.faults : \A c \in mode.faults :
              SeverityOf({c}) < SeverityOf({b}) \/ (SeverityOf({c}) = SeverityOf({b}) /\ b <= c)

\* n2k_alert_from_telemetry, alert_type_for, alert_prio_for.
HasAlert == mode.faults # {}
AlertType == <<8, 5, 2, 1>>[SeverityOf({TopCode}) + 1]
AlertPrio == <<200, 128, 32, 1>>[SeverityOf({TopCode}) + 1]

\* n2k_encode_127750: the operating state and the state of the temperature.
N2kState ==
    IF Severity >= 2 THEN 2
    ELSE IF mode.state = "bulk" THEN (IF mode.binding = "clamp" THEN 4 ELSE 3)
    ELSE IF mode.state = "float" THEN 5 ELSE 0
TempState == IF \E b \in mode.faults : FaultBits[b].hot THEN 2
             ELSE IF mode.binding = "thermal" THEN 1 ELSE 0

\* rvc_operating_state
RvcState ==
    IF Severity >= 2 THEN 1
    ELSE IF mode.state = "bulk" THEN (IF mode.binding = "clamp" THEN 3 ELSE 2)
    ELSE IF mode.state = "float" THEN 6 ELSE 1

\* The tachometer of 127488 and of the proprietary message.
Tach == IF mode.tach = "valid" THEN x ELSE NotFinite

\* The current of a DC source is positive when it flows from the source.
SourceAmps(v) == IF Finite(v) THEN -v ELSE v

\* The desired current of a charger is never negative.
ChargerAmps(v) == IF Finite(v) THEN (IF v < 0 THEN 0 ELSE v) ELSE v

-----------------------------------------------------------------------------
F(bytes, code) == [bytes |-> bytes, code |-> code]
NA8 == F(1, Top8)
NA16 == F(2, Top16)

\* rvc_encode_charger_status
Charger ==
    << F(1, 1), F(2, RvcU16(x, Res.rvcV)), F(2, RvcOffset(ChargerAmps(x), Res.rvcA, Zero16, Top16)),
       F(1, RvcPct(x, Res.pct)), F(1, RvcState), F(1, Top8) >>

\* The other encoders of single frames, by the number or the name of the message.
S127508 == << F(1, 0), F(2, EncS16(x, Res.n2kV)), F(2, EncS16(x, Res.n2kA)),
              F(2, EncTempC(x, Res.n2kT)), F(1, 0) >>
S127488 == << F(1, 0), F(2, EncU16(Tach, Res.rpm)), NA16, F(1, Top8 \div 2), NA8, NA8 >>
S127750 == << F(1, 0), F(1, 0), F(1, N2kState), F(1, TempState), NA8, NA8, NA8, NA8 >>
Charger2 == << F(1, 1), F(1, 1), F(1, 0), F(2, RvcU16(x, Res.rvcV)),
               F(2, RvcOffset(x, Res.rvcA, Zero16, Top16)), F(1, RvcTemp8(x, Res.deg)) >>
Dc1 == << F(1, 1), F(1, 0), F(2, RvcU16(x, Res.rvcV)),
          F(4, RvcOffset(SourceAmps(x), Res.mA, Zero32, Top32)) >>
Dc2 == << F(1, 1), F(1, 0), F(2, RvcTemp(x, Res.rvcT)), NA8, NA16, NA8 >>
Dc3 == << F(1, 1), F(1, 0), NA8, NA16, NA8, NA16 >>

\* The payloads of the fast packets; the first eight fields of an alert are put_alert_ident.
P127506 == << F(1, 0), F(1, 0), F(1, 0), NA8, NA8, NA16, NA16, NA16 >>
P126983 == << F(1, AlertType), F(1, 0), F(1, 0), F(2, TopCode), F(8, 0), F(1, 0), F(1, 0), F(1, 1),
              F(1, 0), F(8, 0), F(1, 0), F(1, AlertPrio), F(1, 2) >>
P126996 == << F(2, 0), F(2, 0), F(32, 0), F(32, 0), F(32, 0), F(32, 0), F(1, 0), F(1, 1) >>
P130816 == << F(2, 0), F(1, 0), F(1, 0), F(1, 0), F(1, 0), F(1, EncEffort(x, Res.pct)), F(1, 0),
              F(2, EncU16(x, Res.watts)), F(2, EncTempC(x, Res.n2kT)), F(2, EncTempC(x, Res.n2kT)),
              F(2, EncU16(Tach, Res.rpm)), F(1, 0), F(4, 0), F(1, Severity) >>

\* Ends(m)[i]: the bytes of the first i fields.
Ends(m) ==
    LET upTo[i \in 0 .. Len(m)] == IF i = 0 THEN 0 ELSE upTo[i - 1] + m[i].bytes
    IN upTo

Bytes(m) == Ends(m)[Len(m)]

\* A reader takes the code at its offset, or nothing of that width is there.
At(m, off, bytes) ==
    LET there == {i \in 1 .. Len(m) : Ends(m)[i - 1] = off /\ m[i].bytes = bytes}
    IN IF there = {} THEN -1 ELSE m[CHOOSE i \in there : TRUE].code

-----------------------------------------------------------------------------
\* What a gauge shows: nothing for what is not finite, the nearest code in its
\* range, and the end of the range for what is beyond it.
Shows(code, v, res, zero, lowest, highest, na) ==
    IF v = NotFinite THEN code = na
    ELSE /\ code \in (lowest .. highest) \ {na}
         /\ LET err == (code - zero) * res - v IN
               \/ 2 * err <= res /\ -2 * err <= res
               \/ code = lowest /\ err > 0
               \/ code = highest /\ err < 0

Signed(code) == IF code >= (Top16 + 1) \div 2 THEN code - (Top16 + 1) ELSE code

\* "a pegged gauge is more honest than a blank one" (n2k_encode.h): every number
\* is read as the nearest that the field can hold, at the place where the standard
\* has it, and a reading is blank exactly when there is none.
GaugesReadTrue ==
    LET h == (Top16 + 1) \div 2
        k == IF x = NotFinite THEN x ELSE x + Kelvin
        tach == IF mode.tach = "valid" THEN x ELSE NotFinite
        less == IF x = NotFinite THEN x ELSE -x
        wants == IF x # NotFinite /\ x < 0 THEN 0 ELSE x
    IN /\ Shows(Signed(At(S127508, 1, 2)), x, Res.n2kV, 0, -h, h - 4, h - 1)
       /\ Shows(Signed(At(S127508, 3, 2)), x, Res.n2kA, 0, -h, h - 4, h - 1)
       /\ Shows(At(S127508, 5, 2), k, Res.n2kT, 0, 0, Top16 - 3, Top16)
       /\ Shows(At(S127488, 1, 2), tach, Res.rpm, 0, 0, Top16 - 3, Top16)
       /\ Shows(At(P130816, 6, 1), x, Res.pct, 0, 0, Full, Top8)
       /\ Shows(At(P130816, 8, 2), x, Res.watts, 0, 0, Top16 - 3, Top16)
       /\ Shows(At(P130816, 14, 2), tach, Res.rpm, 0, 0, Top16 - 3, Top16)
       /\ Shows(At(Charger, 1, 2), x, Res.rvcV, 0, 0, Top16 - 1, Top16)
       /\ Shows(At(Charger, 3, 2), wants, Res.rvcA, Zero16, 0, Top16 - 1, Top16)
       /\ Shows(At(Charger, 5, 1), x, Res.pct, 0, 0, FullPct, Top8)
       /\ Shows(At(Charger2, 5, 2), x, Res.rvcA, Zero16, 0, Top16 - 1, Top16)
       /\ Shows(At(Charger2, 7, 1), x, Res.deg, Warm, 0, Top8 - 1, Top8)
       /\ Shows(At(Dc1, 4, 4), less, Res.mA, Zero32, 0, Top32 - 1, Top32)
       /\ Shows(At(Dc2, 2, 2), k, Res.rvcT, 0, 0, Top16 - 1, Top16)

\* The messages have the lengths that a receiver expects of them.
FramesAreWhole ==
    /\ \A m \in {S127508, S127488, S127750, Charger, Charger2, Dc1, Dc2, Dc3} : Bytes(m) = 8
    /\ Bytes(P127506) = 11 /\ Bytes(P130816) = 22 /\ Bytes(P126996) = 134
    /\ mode.faults # {} => Bytes(P126983) = 28

\* A display of either dialect is told the same: neither shows a charge state
\* during a fault that opens the field or limps, both show the same stage
\* otherwise, a derating for heat is shown, and a battery that is charged is not shown as discharging.
DialectsAgree ==
    LET n == At(S127750, 2, 1)
        r == At(Charger, 6, 1)
        stopped == \E b \in mode.faults : FaultBits[b].class \in {"open", "limp", "block"}
        charge == Signed(At(S127508, 3, 2))
        hot == mode.binding = "thermal" \/ \E b \in mode.faults : FaultBits[b].hot
    IN /\ stopped => n = 2 /\ r = 1
       /\ ~stopped => <<n, r>> \in {<<0, 1>>, <<3, 2>>, <<4, 3>>, <<5, 6>>}
       /\ hot <=> At(S127750, 3, 1) # 0
       /\ x # NotFinite => /\ charge > 0 => At(Dc1, 4, 4) < Zero32
                           /\ charge < 0 => At(Dc1, 4, 4) > Zero32
                           /\ charge > 0 => At(Charger, 3, 2) > Zero16
                           /\ charge < 0 => At(Charger2, 5, 2) < Zero16

\* "picks the highest-severity active fault (lowest bit index breaks ties)"
\* (n2k_encode.h): the alert names a fault that is active, no other active fault is
\* graver or as grave with a lower code, and its type and its priority say how grave.
AlertNamesTheWorst ==
    LET grave(b) == CASE FaultBits[b].class = "open" -> 3
                      [] FaultBits[b].class = "warn" -> 1
                      [] OTHER -> 2
        code == At(P126983, 3, 2)
    IN mode.faults # {} =>
         /\ code \in mode.faults
         /\ \A b \in mode.faults : grave(b) <= grave(code) /\ (grave(b) = grave(code) => code <= b)
         /\ <<grave(code), At(P126983, 0, 1), At(P126983, 26, 1)>> \in
               {<<1, 5, 128>>, <<2, 2, 32>>, <<3, 1, 1>>}
=============================================================================
