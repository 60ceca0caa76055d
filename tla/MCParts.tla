------------------------------ MODULE MCParts ------------------------------
(***************************************************************************)
(* The instances that TLC checks of the parts that are small: what reads   *)
(* and writes configurations, the sensors and the lamps, the image's own   *)
(* checks, and the bench firmware.  One run checks them all: `part` names  *)
(* the one that moves, and the variables of the others stand still.        *)
(* The current monitor is extended, the others are instances.  The parts   *)
(* that PartsProofs is about take their constants from here, the others    *)
(* are given values.                                                       *)
(***************************************************************************)
EXTENDS Ina226

CONSTANTS
    NaN,
    Profiles, Off, Wide, Docs, LineMax, None,                       \* of ConfigMsg
    Ticks, Levels,                                                  \* of Debounce
    Codes, Long, Short, Gap, Repeat, BeatOn, BeatPeriod, Steps,     \* of Annunc
    Readings, Buses, MaxV, MinV, FloorV, Distrust, Rotor,           \* of SupplyGuard
    Window, MinPeriod, Stale, Lost, Wrap, Speeds, Pause,            \* of StatorRpm
    Temps, Tau, Target, Hard, Floor, Ceiling,                       \* of Thermal
    Words, Unpainted, ScanStep,                                     \* of StackPaint
    Percents, Cap, Timeout, Backlog,                                \* of BenchField
    LoopTime, EchoTime, First, Last, Parts                          \* of BenchTests

VARIABLES
    part,
    s_cfg, durable, len, junk, overflow, asking, sent, fresh, reply,
    cfg, at, cut,
    text, w,
    n,
    painted, s_scan, s_used_max, deepest,
    pin, debounced, candidate, stable, steady,
    top, code, flash_idx, blink, phase_ms, lamp, onFor, offFor, seen,
    bus, v_track, distrust_ms, clamp, duty, honest, low,
    s_have_prev, since, s_period_ticks, s_last_edge, speed, phase, edges, calm,
    t_prev, ceiling_w, before,
    loop, rx, s_line, link_up, link_was_up, s_commanded, s_applied_duty, s_last_cmd, ccr,
        s_faulted, due,
    s_run, s_is_echo, s_left, s_can_up, can_mode, fifo, s_pass, s_was_echo,
        scanning, s_addr, s_bus_up, s_found, untold

host    == <<s_cfg, durable, len, junk, overflow, asking, sent, fresh, reply>>
record  == <<cfg, at, cut>>
json    == <<text, w>>
stack   == <<painted, s_scan, s_used_max, deepest>>
inputs  == <<pin, debounced, candidate, stable, steady>>
led     == <<top, code, flash_idx, blink, phase_ms, lamp, onFor, offFor, seen>>
supply  == <<bus, v_track, distrust_ms, clamp, duty, honest, low>>
stator  == <<s_have_prev, since, s_period_ticks, s_last_edge, speed, phase, edges, calm>>
thermal == <<t_prev, ceiling_w, before>>
bench   == <<loop, rx, s_line, link_up, link_was_up, s_commanded, s_applied_duty, s_last_cmd,
             ccr, s_faulted, due>>
tests   == <<s_run, s_is_echo, s_left, s_can_up, can_mode, fifo, s_pass, s_was_echo,
             scanning, s_addr, s_bus_up, s_found, untold>>
AllVars == <<part, vars, host, record, json, n, stack, inputs, led, supply, stator, thermal,
             bench, tests>>

Documents == INSTANCE MCConfigDocs
docs == Documents!docs

Host  == INSTANCE ConfigMsg
Codec == INSTANCE ConfigCodec WITH Slots <- 2, Version <- 2
Json  == INSTANCE JsonText WITH DepthMax <- 2, NumCharsMax <- 2, EveryText <- 3, ReadOn <- 6,
                                Written <- 10, Chunk <- 3
Numb  == INSTANCE JsonNumber WITH Digits <- 2, ExactDigits <- 3, MantDigits <- 7,
                                  Exponents <- (0 - 7) .. 2
Stack == INSTANCE StackPaint WITH Step <- ScanStep
Dio   == INSTANCE Debounce
Led   == INSTANCE Annunc WITH phase <- blink
Vsup  == INSTANCE SupplyGuard
Rpm   == INSTANCE StatorRpm WITH age <- s_last_edge
Hot   == INSTANCE Thermal
Bench == INSTANCE BenchField WITH pc <- loop
Tests == INSTANCE BenchTests WITH mode <- can_mode

\* Values for the constants.
levels   == [dip |-> {0, 1, 2}, ctrl |-> {0, 1}]
readings == {NaN, 0, 10, 22, 31, 33, 36, 39, 40, 45}
temps    == {NaN} \cup 94 .. 106
present  == [b \in {"1", "2"} |-> IF b = "1" THEN {} ELSE {1, 3}]

\* What the theorems of PartsProofs assume of the constants.
ASSUME PartsConstants ==
    /\ Dio!DioAssumption /\ Vsup!SupplyAssumption /\ Hot!ThermalAssumption
    /\ Rpm!StatorAssumption /\ Led!AnnuncAssumption /\ Host!HostAssumption
    /\ Host!DocsAssumption
    /\ Stack!StackAssumption /\ Bench!BenchAssumption /\ Tests!TestAssumption

Rest(p) ==
    /\ part = p /\ UNCHANGED part
    /\ IF p = "ina"     THEN TRUE ELSE UNCHANGED vars
    /\ IF p = "host"    THEN TRUE ELSE UNCHANGED host
    /\ IF p = "record"  THEN TRUE ELSE UNCHANGED record
    /\ IF p = "json"    THEN TRUE ELSE UNCHANGED json
    /\ IF p = "number"  THEN TRUE ELSE UNCHANGED n
    /\ IF p = "stack"   THEN TRUE ELSE UNCHANGED stack
    /\ IF p = "inputs"  THEN TRUE ELSE UNCHANGED inputs
    /\ IF p = "led"     THEN TRUE ELSE UNCHANGED led
    /\ IF p = "supply"  THEN TRUE ELSE UNCHANGED supply
    /\ IF p = "stator"  THEN TRUE ELSE UNCHANGED stator
    /\ IF p = "thermal" THEN TRUE ELSE UNCHANGED thermal
    /\ IF p = "bench"   THEN TRUE ELSE UNCHANGED bench
    /\ IF p = "tests"   THEN TRUE ELSE UNCHANGED tests

PartsInit ==
    /\ part \in {"ina", "host", "record", "json", "number", "stack", "inputs", "led", "supply",
                 "stator", "thermal", "bench", "tests"}
    /\ Init /\ Host!Init /\ Codec!CodecInit /\ Json!JsonInit /\ Numb!NumberInit
    /\ Stack!StackInit
    /\ Dio!DioInit /\ (part # "inputs" => pin = [dip |-> 0, ctrl |-> 0])
    /\ Led!AnnuncInit /\ (part # "led" => top = 0)
    /\ Vsup!GuardInit /\ (part # "supply" => bus = 36)
    /\ Rpm!StatorInit /\ Hot!ThermalInit
    /\ Bench!BenchInit /\ (part # "bench" => ~s_faulted)
    /\ Tests!TestInit

PartsNext ==
    \/ Rest("ina") /\ Next
    \/ Rest("host") /\ Host!Next
    \/ Rest("record") /\ Codec!CodecNext
    \/ Rest("json") /\ Json!JsonNext
    \/ Rest("number") /\ Numb!NumberNext
    \/ Rest("stack") /\ Stack!StackNext
    \/ Rest("inputs") /\ Dio!DioNext
    \/ Rest("led") /\ Led!AnnuncNext
    \/ Rest("supply") /\ Vsup!GuardNext
    \/ Rest("stator") /\ Rpm!StatorNext
    \/ Rest("thermal") /\ Hot!ThermalNext
    \/ Rest("bench") /\ Bench!BenchNext
    \/ Rest("tests") /\ Tests!TestNext

PartsSpec ==
    /\ PartsInit /\ [][PartsNext]_AllVars
    /\ WF_vars(part = "ina" /\ Step) /\ WF_vars(part = "ina" /\ Convert)
    /\ WF_<<asking, sent>>(part = "host" /\ Host!GoesOn)
    /\ WF_tests(part = "tests" /\ Tests!Serve) /\ WF_tests(part = "tests" /\ Tests!Wait)

-----------------------------------------------------------------------------
(* What the instances promise together; each conjunct is stated and explained in its module. *)

\* The current monitor that is well again loses its fault, every line of a host and every
\* test of the bench is answered.
PartsMoveOn == (part = "ina" => Recovers) /\ Host!AnswerComes /\ Tests!TestsAreReported

\* cfg_doc_parse: what cfg-get shows can be sent back and changes nothing; the order of
\* members means nothing; one member can be edited alone; nothing is repaired in silence.
DocumentsAreSafe ==
    part = "host" => /\ Host!EchoIsIdentity /\ Host!OrderFree
                     /\ Host!OneKeyEdits /\ Host!NoSilentRepair

\* config_host_save: what runs is within the rails, no line is glued to the one before it, a
\* refused line changes nothing, an acknowledged save is what runs and what the store holds.
SavesAreHonest ==
    /\ [](Host!RunsWithinRails /\ Host!NextLineIsClean)
    /\ Host!RefusedChangesNothing /\ Host!OkIsDurable

\* What is written is what is read: the record of the EEPROM, whole or damaged; documents
\* of every nesting against the grammar, whole or cut; and every number.
WrittenIsRead ==
    /\ part = "record" => Codec!RecordReadsBack
    /\ part = "json" => Json!ReadsTheGrammar /\ Json!NoLineInALine /\ Json!WrittenIsRead
    /\ part = "number" => Numb!NumberComesBack /\ Numb!MantissaIsNearest

\* What the engine and a person are told is so: the speed, though edges are missed or
\* false; the code on the lamp.
SensorsReadTrue ==
    /\ part = "stator" => Rpm!SteadySpeedIsRead
    /\ part = "led" => Led!CodeIsReadable

\* What a signal permits is earned: a switch by seven equal readings, a looser clamp by a
\* supply that was low for long enough, more power by a machine that is not getting hotter.
SignalsAreEarned == Dio!NoBouncePasses /\ Vsup!TightUntilProven /\ Hot!HotGainsNoPower

\* The guards: the rotor's voltage, though one channel of the supply lies; the bench's
\* field, never live past its window, and reported as it is; the stack, of which no more
\* is reported than was used or never painted; and the buses, of which a scan leaves none
\* up, and a test at most a bxCAN whose bring-up failed.
GuardsHold ==
    /\ Vsup!OneGoodChannelIsEnough
    /\ Bench!FieldIsGuarded /\ Bench!StatusIsTrue
    /\ Stack!NeverOverstates
    /\ Tests!RestsIdle

\* A scan and a test report what was there, and a test is off when it is over; a session's
\* end cuts the field.
BenchTellsTruth ==
    Bench!DropCuts /\ Tests!ScanTellsTruth /\ Tests!HeardIsPassed /\ Tests!OverIsOff
=============================================================================
