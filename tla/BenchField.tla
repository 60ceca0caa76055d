----------------------------- MODULE BenchField -----------------------------
(***************************************************************************)
(* The bench firmware (test-fw) as far as it moves the field: the lines of *)
(* the console, the guard every field command goes through, and the main   *)
(* loop between the interrupts of the USB port.  The host sends lines,     *)
(* whole or in halves, opens and closes the port.  What a command only     *)
(* prints is left out.                                                     *)
(***************************************************************************)
EXTENDS Integers, Sequences

CONSTANTS
    Percents,      \* what `field <pct>` asks for
    Cap,           \* FIELD_GUARD_DUTY_CAP, per cent
    Timeout,       \* FIELD_GUARD_TIMEOUT_MS, in loop periods
    Backlog        \* the lines the receive ring holds

BenchAssumption ==
    /\ Cap \in Nat /\ Timeout \in Nat \ {0} /\ Backlog \in Nat
    /\ Percents \subseteq Int

VARIABLES
    pc,                                \* where the main loop is
    rx, s_line,                        \* the receive ring; is a half line assembled
    link_up, link_was_up,              \* usb_cdc_link_up(), and the loop's copy
    s_commanded, s_applied_duty, s_last_cmd,     \* field_guard.c; s_last_cmd as an age
    ccr, s_faulted,                    \* field_drive.c
    due                                \* loop periods that have begun and not been served

console == <<rx, s_line>>
link    == <<link_up, link_was_up>>
guard   == <<s_commanded, s_applied_duty, s_last_cmd, ccr, s_faulted>>
benchVars == <<pc, console, link, guard, due>>

\* Lines: a field command, `field off`, `cutoff`, any other; or half a line.
Field(pct) == [cmd |-> "field", pct |-> pct]
Line(cmd)  == [cmd |-> cmd, pct |-> 0]
Lines == {Field(p) : p \in Percents} \cup {Line(c) : c \in {"off", "cutoff", "other", "half"}}

-----------------------------------------------------------------------------
(* field_guard.c, on what it keeps: g.on, g.duty, g.age, g.ccr, g.faulted *)

Guarded == [on |-> s_commanded, duty |-> s_applied_duty, age |-> s_last_cmd,
            ccr |-> ccr, faulted |-> s_faulted]

\* SLIP: the clamp looks at the sign only.
ClampOpen(pct) == IF pct > 0 THEN pct ELSE 0

Clamp(pct) == IF pct > 0 THEN (IF pct < Cap THEN pct ELSE Cap) ELSE 0

\* field_guard_set, and field_drive_set below it
GuardSet(g, pct) ==
    IF g.faulted THEN [g EXCEPT !.on = FALSE, !.duty = 0, !.ccr = 0]
    ELSE [g EXCEPT !.on = Clamp(pct) > 0, !.duty = Clamp(pct), !.age = 0, !.ccr = Clamp(pct)]

\* field_guard_off
GuardOff(g) == [g EXCEPT !.on = FALSE, !.duty = 0, !.ccr = 0]

\* field_guard_poll
GuardPoll(g) == IF g.on /\ g.age >= Timeout THEN GuardOff(g) ELSE g

\* field_guard_link_lost
GuardLinkLost(g) == IF g.on THEN GuardOff(g) ELSE g

Guard(g) ==
    /\ s_commanded' = g.on /\ s_applied_duty' = g.duty /\ s_last_cmd' = g.age
    /\ ccr' = g.ccr /\ s_faulted' = g.faulted

-----------------------------------------------------------------------------
(* console.c *)

\* dispatch, with cmd_field and cmd_cutoff: half a line before it spoils a command.
Dispatch(s, l) ==
    LET g == s.g IN
    IF l.cmd = "half" \/ s.half THEN [s EXCEPT !.half = (l.cmd = "half")]
    ELSE CASE l.cmd = "field"  -> [s EXCEPT !.g = GuardSet(g, l.pct)]
           [] l.cmd = "off"    -> [s EXCEPT !.g = GuardOff(g)]
           [] l.cmd = "cutoff" -> [s EXCEPT !.g = GuardOff([g EXCEPT !.faulted = TRUE])]
           [] OTHER            -> s

\* console_poll: nothing came, or one line after the other, as many as 64 bytes hold.
ConsolePoll ==
    /\ pc = "poll"
    /\ \/ rx = <<>> /\ pc' = "link" /\ UNCHANGED <<console, guard>>
       \/ LET s == Dispatch([g |-> Guarded, half |-> s_line], Head(rx)) IN
          /\ rx # <<>> /\ rx' = Tail(rx)
          /\ s_line' = s.half /\ Guard(s.g)
          /\ pc' \in {"poll", "link"}
    /\ UNCHANGED <<link, due>>

Drops == link_was_up /\ ~link_up

\* main: the look at the link, and console_greet on its rising edge.
LookAtLink ==
    /\ pc = "link"
    /\ Guard(IF Drops THEN GuardLinkLost(Guarded) ELSE Guarded)
    /\ s_line' = IF ~link_was_up /\ link_up THEN FALSE ELSE s_line
    /\ link_was_up' = link_up
    /\ pc' = IF due > 0 THEN "tick" ELSE "poll"
    /\ UNCHANGED <<rx, link_up, due>>

\* main: the work of a loop period.
Tick ==
    /\ pc = "tick" /\ pc' = "poll"
    /\ due' = due - 1
    /\ Guard(GuardPoll(Guarded))
    /\ UNCHANGED <<console, link>>

-----------------------------------------------------------------------------
(* The host, and the time; a loop period is long for the main loop *)

Receive(l) ==
    /\ link_up /\ Len(rx) < Backlog
    /\ rx' = Append(rx, l)
    /\ UNCHANGED <<pc, s_line, link, guard, due>>

OpensOrCloses ==
    /\ link_up' = ~link_up
    /\ UNCHANGED <<pc, console, link_was_up, guard, due>>

Elapse ==
    /\ due = 0 /\ due' = 1
    /\ s_last_cmd' = IF s_last_cmd < Timeout THEN s_last_cmd + 1 ELSE Timeout
    /\ UNCHANGED <<pc, console, link, s_commanded, s_applied_duty, ccr, s_faulted>>

\* The inits of main; a unit that boots into LIMP has its drive faulted.
BenchInit ==
    /\ pc = "poll" /\ rx = <<>> /\ s_line = FALSE
    /\ link_up = FALSE /\ link_was_up = FALSE
    /\ s_commanded = FALSE /\ s_applied_duty = 0 /\ s_last_cmd = 0
    /\ ccr = 0 /\ s_faulted \in BOOLEAN
    /\ due = 0

BenchLoop == ConsolePoll \/ LookAtLink \/ Tick
BenchNext == BenchLoop \/ (\E l \in Lines : Receive(l)) \/ OpensOrCloses \/ Elapse

BenchSpec == BenchInit /\ [][BenchNext]_benchVars

-----------------------------------------------------------------------------
\* field_guard.h, guarantees 1 and 2: no line puts more than the cap on the field, and the
\* field is live only while the guard knows of a command to let expire, for a window and
\* the loop period in which it ends.
FieldIsGuarded ==
    /\ ccr <= Cap
    /\ ccr > 0 => s_commanded /\ (s_last_cmd < Timeout \/ due > 0)

\* "it really is off" (field_guard_set): what the console reports as applied is on the pin,
\* and after a cutoff nothing is, whatever is typed then.
StatusIsTrue == s_applied_duty = ccr /\ (s_commanded <=> ccr > 0) /\ (s_faulted => ccr = 0)

\* "cut the field the instant DTR drops" (main.c): a loop that finds the session gone
\* leaves the field off.
DropCuts == [][LookAtLink /\ link_was_up /\ ~link_up => ccr' = 0]_benchVars
=============================================================================
