----------------------------- MODULE FastPacket -----------------------------
(***************************************************************************)
(* The fast packets of n2k_encode.c that carry text, 126985 and 126998:    *)
(* a head, then texts with their lengths, split into as many frames as     *)
(* they need, or refused when the payload or the frames do not fit.  A     *)
(* receiver puts the frames together and reads the texts.                  *)
(***************************************************************************)
EXTENDS Naturals, Sequences

CONSTANTS
    Lead,      \* the bytes before the texts
    Cap,       \* N2K_FP_MAX_PAYLOAD
    Longest    \* the longest text

TextAssumption == Lead \in Nat \ {0} /\ Cap \in Nat /\ Longest \in Nat

VARIABLES a, b, room    \* the lengths of two texts, and the frames that are left

fpVars == <<a, b, room>>

\* Every combination in turn.
FpInit == a = 0 /\ b = 0 /\ room = 0
FpNext ==
    /\ a' = (a + 1) % (Longest + 1)
    /\ b' = IF a = Longest THEN (b + 1) % (Longest + 1) ELSE b
    /\ room' = IF a = Longest /\ b = Longest THEN (room + 1) % (Cap \div 7 + 3) ELSE room

Refused == <<>>

\* put_var_str, after what is there; an earlier refusal stays one.
PutVarStr(p, tag, n) ==
    IF p = Refused \/ Len(p) + n + 2 > Cap THEN Refused
    ELSE p \o <<<<"len", n + 2>>, <<"ascii", 0>>>> \o [i \in 1 .. n |-> <<tag, i>>]

Payload == PutVarStr(PutVarStr([i \in 1 .. Lead |-> <<"head", i>>], "a", a), "b", b)

\* The frames of a payload: six bytes in the first, seven in each other.
FramesOf(n) == 1 + (IF n > 6 THEN (n - 6 + 6) \div 7 ELSE 0)

Pad == <<"pad", 0>>

\* n2k_fp_split
Split(p) ==
    IF p = Refused \/ Len(p) > Cap \/ FramesOf(Len(p)) > room THEN <<>>
    ELSE [f \in 1 .. FramesOf(Len(p)) |->
            IF f = 1 THEN <<<<"len", Len(p)>>>> \o [i \in 1 .. 6 |-> IF i <= Len(p) THEN p[i] ELSE Pad]
            ELSE [i \in 1 .. 7 |-> LET k == 6 + 7 * (f - 2) + i IN IF k <= Len(p) THEN p[k] ELSE Pad]]

-----------------------------------------------------------------------------
\* What the receiver reads: as many bytes as the first frame says, each from its frame, and
\* in them a text at an offset.
Received(fs) ==
    LET n == fs[1][1][2] IN
    IF FramesOf(n) > Len(fs) THEN <<>>
    ELSE [k \in 1 .. n |-> IF k <= 6 THEN fs[1][k + 1] ELSE fs[2 + (k - 7) \div 7][1 + ((k - 7) % 7)]]
TextAt(p, off) == SubSeq(p, off + 3, off + p[off + 1][2])

\* A message with texts of any length arrives whole or is not sent at all: it is
\* sent exactly when its texts and its frames fit, and both texts come back.
TextsArriveWhole ==
    LET fs == Split(Payload)
        n == Lead + a + b + 4
        fits == n <= Cap /\ 6 + 7 * (room - 1) >= n /\ room > 0
        p == Received(fs)
    IN IF ~fits THEN fs = <<>>
       ELSE /\ fs # <<>> /\ Len(p) = n
            /\ Len(TextAt(p, Lead)) = a /\ \A i \in 1 .. a : TextAt(p, Lead)[i] = <<"a", i>>
            /\ Len(TextAt(p, Lead + a + 2)) = b /\ \A i \in 1 .. b : TextAt(p, Lead + a + 2)[i] = <<"b", i>>
=============================================================================
