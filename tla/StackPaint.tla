----------------------------- MODULE StackPaint -----------------------------
(***************************************************************************)
(* integrity.c: the stack painted at boot, and the scan that looks, a few  *)
(* words in every control cycle, for the deepest word that is no longer    *)
(* painted.  The stack grows down to word 1 from word Words; the program   *)
(* writes the words of a call, all or some of them, and returns.           *)
(***************************************************************************)
EXTENDS FiniteSetsExt

CONSTANTS
    Words,     \* the words of the stack
    Unpainted, \* STACK_PAINT_GUARD_WORDS
    Step       \* STACK_SCAN_STEP_WORDS

StackAssumption == Words \in Nat \ {0} /\ Unpainted \in Nat /\ Step \in Nat \ {0}

VARIABLES
    painted,         \* the words that still hold STACK_PAINT_WORD
    s_scan,          \* the word the scan looks at next, Words + 1 past the last
    s_used_max,      \* in words
    deepest          \* history: the lowest word the stack has been down to

stackVars == <<painted, s_scan, s_used_max, deepest>>

\* paint_stack, called with the stack at `frame`: the words of the guard below it keep
\* what they held.
PaintStack(frame) ==
    /\ painted = 1 .. frame - Unpainted - 1 /\ deepest = frame
    /\ s_scan = 1 /\ s_used_max = 0

\* The words one call looks at, to where it stops.
Stops == {w \in s_scan .. s_scan + Step - 1 : w > Words \/ w \notin painted}

Reports(stops, at) == stops # {}

\* integrity_housekeeping
Housekeeping ==
    LET at == IF Stops # {} THEN Min(Stops) ELSE s_scan + Step IN
    /\ s_scan' = at
    /\ s_used_max' = IF Reports(Stops, at) THEN Max({s_used_max, Words + 1 - at}) ELSE s_used_max
    /\ UNCHANGED <<painted, deepest>>

\* A call that needs the stack down to word d, and writes that word and some others.
Call(d, written) ==
    /\ painted' = painted \ (written \cup {d}) /\ deepest' = Min({deepest, d})
    /\ UNCHANGED <<s_scan, s_used_max>>

StackInit == PaintStack(Words)
StackNext ==
    \/ Housekeeping
    \/ \E d \in 1 .. Words : \E written \in {{}, d .. Words} : Call(d, written)

-----------------------------------------------------------------------------
\* "publishing that would latch a permanent over-estimate" (integrity_housekeeping): of
\* what is reported no more was not used than the guard below the frame that painted.
NeverOverstates ==
    \/ s_used_max <= Words + 1 - deepest
    \/ s_used_max <= Unpainted + 1
=============================================================================
