------------------------------- MODULE Annunc -------------------------------
(***************************************************************************)
(* annunc.c: the lamp that blinks the code of the worst fault, floor(code  *)
(* / 10) long flashes and code mod 10 short ones, or a heartbeat; and a    *)
(* watcher who tells long from short by the time the lamp is lit, and one  *)
(* code from the next by the time it is dark.                              *)
(***************************************************************************)
EXTENDS Naturals

CONSTANTS
    Codes,     \* what ctrl_fault_top_code may return, 0 for no fault
    Long, Short, Gap, Repeat, BeatOn, BeatPeriod,     \* CTRL_ANNUNC_*_MS
    Steps      \* the times dt_ms between two calls

\* A call comes at least once in each phase, and the phases that a watcher tells apart by
\* their length differ by more than the times of two calls.
AnnuncAssumption ==
    /\ Codes \subseteq Nat /\ Steps \subseteq Nat \ {0}
    /\ {Long, Short, Gap, Repeat, BeatOn, BeatPeriod} \subseteq Nat
    /\ Short < Long /\ Repeat <= BeatPeriod - BeatOn
    /\ \A d \in Steps :
          /\ d <= BeatOn /\ d <= Gap
          /\ 2 * d < Long - Short /\ 2 * d < Short - BeatOn /\ 2 * d < Repeat - Gap

VARIABLES
    top,                     \* ctrl_fault_top_code(faults)
    code, flash_idx, phase, phase_ms,     \* ctrl_annunc_t; longs and total follow from code
    lamp,                    \* what the last call returned
    onFor, offFor,           \* the watcher: how long the lamp has been as it is
    seen                     \* the watcher: long and short flashes of this code

annuncVars == <<top, code, flash_idx, phase, phase_ms, lamp, onFor, offFor, seen>>

Least(m, n) == IF m < n THEN m ELSE n
Longs(c) == c \div 10
Total(c) == IF c = 0 THEN 1 ELSE Longs(c) + (c % 10)

\* annunc_flash_ms, annunc_repeat_gap_ms and the gap between two flashes.
Lasts(c, idx, ph) ==
    CASE ph = "flash" -> IF c = 0 THEN BeatOn ELSE IF idx < Longs(c) THEN Long ELSE Short
      [] ph = "inter" -> Gap
      [] ph = "gap"   -> IF c = 0 THEN BeatPeriod - BeatOn ELSE Repeat

Pick(a) == IF a.ph = "gap" THEN top ELSE a.code

\* One turn of the loop in ctrl_annunc_update, from a phase that is over.
Turn(a) ==
    [code |-> Pick(a), ms |-> a.ms - Lasts(a.code, a.idx, a.ph),
     idx  |-> IF a.ph = "flash" THEN a.idx + 1 ELSE IF a.ph = "gap" THEN 0 ELSE a.idx,
     ph   |-> IF a.ph # "flash" THEN "flash"
              ELSE IF a.idx + 1 >= Total(a.code) THEN "gap" ELSE "inter"]

\* The loop: as long as a phase is over, the next one begins; each takes time off.
Walk(start) ==
    LET turned[k \in 0 .. start.ms] ==
            IF k = 0 THEN start
            ELSE LET a == turned[k - 1] IN IF a.ms < Lasts(a.code, a.idx, a.ph) THEN a ELSE Turn(a)
    IN turned[start.ms]

\* ctrl_annunc_init
AnnuncInit ==
    /\ top \in Codes
    /\ code = 0 /\ flash_idx = 0 /\ phase = "flash" /\ phase_ms = 0
    /\ lamp = FALSE /\ onFor = 0 /\ offFor = 0 /\ seen = <<0, 0>>

\* ctrl_annunc_update, and what the watcher makes of it: when the lamp goes out, a flash
\* as long as the middle between Long and Short is long; one under half of Short is the
\* heartbeat; after dark for longer than a Gap may seem the next flash starts a new code.
Update(dt) ==
    LET a == Walk([code |-> code, ms |-> phase_ms + dt, idx |-> flash_idx, ph |-> phase])
        on == a.ph = "flash"
        fresh == offFor > (Gap + Repeat) \div 2
    IN /\ code' = a.code /\ flash_idx' = a.idx /\ phase' = a.ph /\ phase_ms' = a.ms
       /\ lamp' = on
       /\ onFor' = IF on THEN (IF lamp THEN Least(onFor + dt, Long) ELSE 0) ELSE 0
       /\ offFor' = IF on THEN 0 ELSE Least(offFor + dt, Repeat + 1)
       /\ seen' = IF on /\ ~lamp /\ fresh THEN <<0, 0>>
                  ELSE IF lamp /\ ~on
                       THEN IF 2 * (onFor + dt) > Long + Short THEN <<seen[1] + 1, seen[2]>>
                            ELSE IF 2 * (onFor + dt) > BeatOn + Short THEN <<seen[1], seen[2] + 1>>
                            ELSE seen
                  ELSE seen
       /\ UNCHANGED top

Worst(c) == top' = c /\ c # top
            /\ UNCHANGED <<code, flash_idx, phase, phase_ms, lamp, onFor, offFor, seen>>

AnnuncNext == (\E dt \in Steps : Update(dt)) \/ \E c \in Codes : Worst(c)

-----------------------------------------------------------------------------
\* What the watcher has counted when the lamp stays dark is the code of one fault (or
\* nothing, for the heartbeat), whenever faults came and went while it blinked and
\* however unevenly the calls came: "never truncate or splice the pattern currently on
\* screen into a malformed hybrid" (annunc.h).
CodeIsReadable == phase = "gap" => 10 * seen[1] + seen[2] = code
=============================================================================
