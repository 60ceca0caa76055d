------------------------------ MODULE MCComms ------------------------------
(***************************************************************************)
(* The instances of the two ports that TLC checks, USB and CAN, in one     *)
(* run: `part` names the module that moves, and the variables of the       *)
(* others stand still.  The two of USB and that of bus-off are extended,   *)
(* the rest are instances, which take their constants from here.           *)
(***************************************************************************)
EXTENDS UsbCdc, UsbControl, CanBusOff

CONSTANTS
    NaN,
    Messages, Wrap, Batch, Timeout, AwayMax, QuietMax, Late,        \* of TxSched
    Kinds, Parts, Rank, Ring, Numbers, MaxSends,                    \* of CanPort
    Low, High, Res, Top8, Top16, Top32, Full, FullPct, Zero16, Zero32,
        Kelvin, Warm, FaultBits, AtOnce,                            \* of CanWire
    Lead, Cap, Longest,                                             \* of FastPacket
    Pgns, Senders, Dests                                            \* of CanId

VARIABLES
    part,
    now, next, master_seen, master_last, away, ready, wasFault, silent, quiet, sent,
    ring, mbox, seq, sends, got, reused,
    reading, snapshot,
    first, second, room,
    frame

sched   == <<now, next, master_seen, master_last, away, ready, wasFault, silent, quiet, sent>>
canPort == <<ring, mbox, seq, sends, got, reused>>
wire    == <<reading, snapshot>>
text    == <<first, second, room>>

AllVars == <<part, vars, controlVars, sched, canPort, boffVars, wire, text, frame>>

Sched == INSTANCE TxSched
Port == INSTANCE CanPort

Wire == INSTANCE CanWire WITH x <- reading, mode <- snapshot, NotFinite <- NaN
Text == INSTANCE FastPacket WITH a <- first, b <- second
Ids == INSTANCE CanId

\* Values for the constants.
Msg(frames, period, gate) == [frames |-> frames, period |-> period, gate |-> gate]
messages == <<Msg(1, 1, "none"), Msg(2, 3, "alert"), Msg(1, 2, "source"), Msg(3, 4, "none")>>
kinds    == <<"rapid", "info">>
parts    == [rapid |-> 1, info |-> 3]
rank     == [rapid |-> 1, info |-> 2]
lowest   == 0 - 18
units    == [n2kV |-> 2, n2kA |-> 3, n2kT |-> 2, rpm |-> 3, pct |-> 4, watts |-> 6,
             rvcV |-> 2, rvcA |-> 2, mA |-> 2, rvcT |-> 3, deg |-> 7]
faults   == <<[class |-> "warn", hot |-> TRUE], [class |-> "open", hot |-> FALSE],
              [class |-> "block", hot |-> TRUE], [class |-> "limp", hot |-> FALSE]>>
pgns     == {59392, 59904, 60160, 60928, 65532, 125440, 126208, 126976, 126996, 127508,
             130816, 131067, 131068, 131069, 131070}

\* What the theorems of CommsProofs assume of the constants.
ASSUME CommsConstants ==
    /\ Sched!SchedAssumption /\ Port!PortAssumption
    /\ Wire!WireAssumption /\ Text!TextAssumption /\ Ids!IdAssumption

Rest(p) ==
    /\ part = p /\ UNCHANGED part
    /\ IF p = "rings"   THEN TRUE ELSE UNCHANGED vars
    /\ IF p = "control" THEN TRUE ELSE UNCHANGED controlVars
    /\ IF p = "sched"   THEN TRUE ELSE UNCHANGED sched
    /\ IF p = "port"    THEN TRUE ELSE UNCHANGED canPort
    /\ IF p = "bus-off" THEN TRUE ELSE UNCHANGED boffVars
    /\ IF p = "wire"    THEN TRUE ELSE UNCHANGED wire
    /\ IF p = "text"    THEN TRUE ELSE UNCHANGED text
    /\ IF p = "ids"     THEN TRUE ELSE UNCHANGED frame

CommsInit ==
    /\ part \in {"rings", "control", "sched", "port", "bus-off", "wire", "text", "ids"}
    /\ Init /\ ControlInit /\ Sched!SchedInit /\ Port!PortInit /\ BoffInit
    /\ Wire!WireInit /\ Text!FpInit /\ Ids!IdInit

CommsNext ==
    \/ Rest("rings") /\ Next
    \/ Rest("control") /\ ControlNext
    \/ Rest("sched") /\ Sched!SchedNext
    \/ Rest("port") /\ Port!PortNext
    \/ Rest("bus-off") /\ BoffNext
    \/ Rest("wire") /\ Wire!WireNext
    \/ Rest("text") /\ Text!FpNext
    \/ Rest("ids") /\ Ids!IdNext

CommsSpec ==
    /\ CommsInit /\ [][CommsNext]_AllVars
    /\ SF_vars(part = "rings" /\ ReadBegin)
    /\ WF_vars(part = "rings" /\ ~At_("idle") /\ (Read \/ Write))
    /\ WF_vars(part = "rings" /\ DataIn)
    /\ WF_controlVars(part = "control" /\ Poll) /\ WF_controlVars(part = "control" /\ Tick)

-----------------------------------------------------------------------------
(* What the instances promise together; each conjunct is stated and explained in its module. *)

\* The rings and the telemetry line get on: a pause of reception ends, a queued byte reaches
\* a host that stays, a link that stays up hears a line again and again, one per period.
PortMovesOn == PauseEnds /\ QueuedIsSent /\ LinkUpHears /\ LinesAreSpaced

\* n2k_sched_tick, rvc_sched_tick: no message waits longer than its period and a few cycles,
\* though no publication is larger than its batch.
NoneStarves == part = "sched" => Sched!NoneStarves /\ Sched!BatchHolds

\* A fault that is raised is told in the next cycle, and what a better source tells is left
\* to it, both at any time of a clock that wraps.
RaisedIsTold == Sched!RaisedIsTold /\ Sched!LeavesItToTheBetter

\* can_n2k.c: what a receiver puts together is one packet, parts of two only where an outage
\* lets the number come round; a bus-off is counted once, and its fault takes a streak of them.
CanPortSound ==
    /\ [](part = "port" => Port!PacketIsOneSend)
    /\ [](part = "bus-off" => EventCountedOnce)
    /\ BusFaultIsEarned

\* The encoders: every reading arrives as its nearest code or as "no value", in both
\* dialects, with its text whole, under an identifier that the filters of a reader admit.
WireReadsTrue ==
    /\ part = "wire" => /\ Wire!GaugesReadTrue /\ Wire!FramesAreWhole
                        /\ Wire!DialectsAgree /\ Wire!AlertNamesTheWorst
    /\ part = "text" => Text!TextsArriveWhole
    /\ part = "ids" => Ids!IdsComeBack /\ Ids!FiltersMatchReaders
=============================================================================
