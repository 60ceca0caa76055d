----------------------------- MODULE BenchTests -----------------------------
(***************************************************************************)
(* The two self-tests of the bench firmware: a frame on bxCAN, looped back *)
(* or on the bus (can_test.c), and the scan of the two I2C buses           *)
(* (i2c_scan.c), both started by a command and served once in every loop   *)
(* period.  bxCAN in loopback receives what it sends; on the bus a frame   *)
(* is received only if another node sends it.                              *)
(***************************************************************************)
EXTENDS Naturals

CONSTANTS
    LoopTime, EchoTime,     \* CAN_TEST_LOOP_TIMEOUT_MS, CAN_TEST_ECHO_TIMEOUT_MS, in ticks
    First, Last,            \* I2C_SCAN_ADDR_MIN, I2C_SCAN_ADDR_MAX
    Parts                   \* Parts[b]: the addresses that answer on bus b

TestAssumption ==
    /\ LoopTime \in Nat /\ EchoTime \in Nat
    /\ First \in Nat /\ Last \in Nat /\ First <= Last
    /\ \A b \in DOMAIN Parts : Parts[b] \subseteq First .. Last

VARIABLES
    s_run, s_is_echo, s_left,      \* can_test.c; s_left: the ticks to s_deadline_ms
    s_can_up, mode,                \* s_can_up; bxCAN: "off", "loop", "normal"
    fifo,                          \* bxCAN: the test frame is in FIFO 0
    s_pass, s_was_echo,            \* the last result: "none" before there is one
    scanning, s_addr, s_bus_up, s_found,     \* i2c_scan.c
    untold                         \* history: tests and scans started and not yet reported

can  == <<s_run, s_is_echo, s_left, s_can_up, mode, fifo, s_pass, s_was_echo>>
scan == <<scanning, s_addr, s_bus_up, s_found>>
testVars == <<can, scan, untold>>

Wires == DOMAIN Parts

TestInit ==
    /\ s_run = FALSE /\ s_is_echo = FALSE /\ s_left = 0
    /\ s_can_up = FALSE /\ mode = "off" /\ fifo = FALSE
    /\ s_pass = "none" /\ s_was_echo = FALSE
    /\ scanning = FALSE /\ s_addr = First
    /\ s_bus_up = [b \in Wires |-> FALSE] /\ s_found = [b \in Wires |-> {}]
    /\ untold = {}

\* can_test_teardown: HAL_CAN_Stop and DeInit, unless nothing was brought up.
Teardown(up) ==
    /\ s_can_up' = FALSE
    /\ IF up THEN mode' = "off" /\ fifo' = FALSE ELSE UNCHANGED <<mode, fifo>>

\* can_test_bring_up and can_test_start with it: the test runs.  HAL_CAN_Init is not
\* known to empty the FIFO of a bxCAN that was not torn down.
Begins(echo) ==
    /\ s_run' = TRUE /\ s_is_echo' = echo
    /\ s_left' = IF echo THEN EchoTime ELSE LoopTime
    /\ s_can_up' = TRUE /\ mode' = IF echo THEN "normal" ELSE "loop"
    /\ fifo' \in {FALSE, fifo /\ ~s_can_up}
    /\ untold' = untold \cup {"can"}

\* A step of the bring-up fails, and nothing is undone: a bxCAN that HAL_CAN_Init could not
\* wake, or HAL_CAN_Start not start while the bus is held, still joins when it frees.
BringUpFails ==
    /\ s_can_up' = FALSE /\ mode' \in {"off", "normal"}
    /\ fifo' \in {FALSE, fifo /\ ~s_can_up}
    /\ UNCHANGED <<s_run, s_is_echo, s_left, untold>>

\* HAL_CAN_AddTxMessage fails, after the bring-up.
FirstFrameFails == Teardown(TRUE) /\ UNCHANGED <<s_run, s_is_echo, s_left, untold>>

\* cmd_can and can_test_start.
CanStart(echo) ==
    /\ ~s_run
    /\ Begins(echo) \/ BringUpFails \/ FirstFrameFails
    /\ UNCHANGED <<s_pass, s_was_echo, scan>>

\* SLIP: the deadline is judged before the FIFO.
PassedInTime == fifo /\ s_left > 0

Passed == fifo

\* SLIP: a test waits for its frame.
EndsHeard == fifo

Ends == fifo \/ s_left = 0

\* can_test_poll, and console_report_can_result
CanPoll ==
    IF s_run /\ Ends
      THEN /\ s_pass' = (IF Passed THEN "pass" ELSE "fail") /\ s_was_echo' = s_is_echo
           /\ s_run' = FALSE
           /\ Teardown(s_can_up)
           /\ UNCHANGED <<s_is_echo, s_left>>
      ELSE UNCHANGED can

\* cmd_i2cscan and i2c_scan_start; a bus may fail to come up.
ScanStart(up) ==
    /\ ~scanning
    /\ scanning' = TRUE /\ s_addr' = First
    /\ s_bus_up' = up /\ s_found' = [b \in Wires |-> {}]
    /\ untold' = untold \cup {"scan"}
    /\ UNCHANGED can

Probes(b) == s_bus_up[b] /\ s_addr \in Parts[b]

\* i2c_scan_poll, and console_report_i2c_result
ScanPoll ==
    IF scanning
      THEN /\ s_found' = [b \in Wires |-> s_found[b] \cup (IF Probes(b) THEN {s_addr} ELSE {})]
           /\ scanning' = (s_addr < Last)
           /\ s_addr' = IF s_addr < Last THEN s_addr + 1 ELSE s_addr
           /\ s_bus_up' = [b \in Wires |-> s_bus_up[b] /\ s_addr < Last]
      ELSE UNCHANGED scan

\* main: the tests' share of a loop period.
Serve ==
    /\ CanPoll /\ ScanPoll
    /\ untold' = untold \ ((IF s_run /\ ~s_run' THEN {"can"} ELSE {})
                           \cup (IF scanning /\ ~scanning' THEN {"scan"} ELSE {}))

\* Time passes to the next loop period.
Wait ==
    /\ s_run /\ s_left > 0
    /\ s_left' = s_left - 1
    /\ UNCHANGED <<s_run, s_is_echo, s_can_up, mode, fifo, s_pass, s_was_echo, scan, untold>>

\* bxCAN: its own frame in loopback, another node's on the bus.
Arrives ==
    /\ mode # "off" /\ ~fifo /\ fifo' = TRUE
    /\ UNCHANGED <<s_run, s_is_echo, s_left, s_can_up, mode, s_pass, s_was_echo, scan, untold>>

TestNext ==
    \/ \E echo \in BOOLEAN : CanStart(echo)
    \/ \E up \in [Wires -> BOOLEAN] : ScanStart(up)
    \/ Serve \/ Wait \/ Arrives

-----------------------------------------------------------------------------
\* A test leaves bxCAN off and a scan its buses down, for the drivers to have them back.
\* A bring-up that failed may leave bxCAN listening, though can_test_teardown is said to be
\* there "so the bus is never left transmitting/listening between commands" (can_test.c).
RestsIdle ==
    /\ s_can_up => s_run
    /\ mode # "off" => s_run \/ mode = "normal"
    /\ scanning \/ \A b \in Wires : ~s_bus_up[b]

\* After a test that ran it is not even that, until a bring-up fails.
OverIsOff == [][s_run /\ ~s_run' => mode' = "off" /\ ~fifo']_testVars

\* A scan that has ended found, on every bus that came up, the parts that are there.
ScanTellsTruth ==
    [][scanning /\ ~scanning' => \A b \in Wires : s_bus_up[b] => s_found'[b] = Parts[b]]_testVars

\* A frame that came before the test was looked at for the last time is a pass, however
\* late: a slow loop fails no bus that works.
HeardIsPassed == [][s_run /\ ~s_run' /\ fifo => s_pass' = "pass"]_testVars

\* "Returns true on EXACTLY the tick a running test concludes" (can_test.h): every test
\* and every scan that was started is reported in the end.
TestsAreReported == \A t \in {"can", "scan"} : t \in untold ~> t \notin untold
=============================================================================
