----------------------------- MODULE UsbControl -----------------------------
(***************************************************************************)
(* The control endpoint of usb_cdc.c, the DTR gate it sets, and the 1 Hz   *)
(* telemetry line that telem_stream.c sends behind that gate.  The host    *)
(* starts a control transfer whenever it likes, also in the middle of      *)
(* another; it resets, suspends and resumes the bus.  What a descriptor    *)
(* says is left out: a data stage is the number of packets it has left.    *)
(***************************************************************************)
EXTENDS Naturals

CONSTANTS Period   \* TELEM_PERIOD_MS, in ticks

VARIABLES
    is_configured, dtr,       \* s_configured, s_dtr
    ep0, rem, of,          \* s_ep0_state, the packets of s_ep0_rem, the request of s_ep0_ptr
    inq, outq,             \* the peripheral: the request of an IN packet; is OUT armed
    asked, stage,          \* the host: its request, and the token it sends next
    opened, suspended,     \* the host: it asserts DTR; the bus is suspended
    next_ms,                  \* s_next_ms, as the ticks until it is due
    unheard, lines           \* history: ticks since a line or a look at a link that is down

control     == <<ep0, rem, of, inq, outq, asked, stage>>
link        == <<is_configured, dtr, opened, suspended>>
telem       == <<next_ms, unheard, lines>>
controlVars == <<control, link, telem>>

Nothing == "none"
\* The requests, by what the device does with them: a data stage of one packet
\* (the device descriptor) or two (the configuration); s_line_coding gates nothing.
Gets     == {"device", "configuration"}
Packets  == [r \in Gets |-> IF r = "device" THEN 1 ELSE 2]
Statuses == {"address", "configure", "deconfigure", "open", "close"}
Requests == Gets \cup Statuses \cup {"set_coding", "unknown"}

-----------------------------------------------------------------------------
\* ep0_send: the first packet of the data stage.
Ep0Send(r) ==
    /\ ep0' = "data_in" /\ rem' = Packets[r] - 1 /\ of' = r
    /\ inq' = r /\ UNCHANGED outq

Ep0StatusIn(r) == ep0' = "status_in" /\ inq' = r /\ UNCHANGED <<rem, of, outq>>

Ep0Stall == ep0' = "idle" /\ inq' = Nothing /\ outq' = FALSE /\ UNCHANGED <<rem, of>>

\* setup_set_configuration, setup_class: what a request does besides its answer.
SetupEffect(r) ==
    /\ is_configured' = IF r = "configure" THEN TRUE ELSE IF r = "deconfigure" THEN FALSE ELSE is_configured
    /\ dtr' = IF r = "open" THEN TRUE ELSE IF r \in {"close", "deconfigure"} THEN FALSE ELSE dtr
    /\ opened' = IF r = "open" THEN TRUE ELSE IF r \in {"close", "deconfigure"} THEN FALSE ELSE opened

\* HAL_PCD_SetupStageCallback: any request, whatever transfer it cuts short.
Setup(r) ==
    /\ ~suspended
    /\ r \in {"open", "close"} => is_configured
    /\ asked' = r
    /\ \/ r \in Gets /\ Ep0Send(r) /\ stage' = "in"
       \/ r \in Statuses /\ Ep0StatusIn(r) /\ stage' = "in"
       \/ /\ r = "set_coding"
          /\ ep0' = "data_out" /\ outq' = TRUE /\ inq' = Nothing /\ UNCHANGED <<rem, of>>
          /\ stage' = "out"
       \/ r = "unknown" /\ Ep0Stall /\ stage' = Nothing
    /\ SetupEffect(r)
    /\ UNCHANGED <<suspended, telem>>

\* SLIP: what is left of a data stage is sent without a look at the state.
Ep0InBlind ==
    /\ stage = "in" /\ inq # Nothing
    /\ \/ /\ rem > 0
          /\ rem' = rem - 1 /\ inq' = of
          /\ UNCHANGED <<ep0, outq>>
       \/ /\ ep0 = "data_in" /\ rem = 0
          /\ ep0' = "status_out" /\ inq' = Nothing /\ outq' = TRUE
          /\ UNCHANGED rem
       \/ /\ ep0 # "data_in" /\ rem = 0
          /\ inq' = Nothing
          /\ UNCHANGED <<ep0, rem, outq>>
    /\ stage' = IF asked \in Gets /\ rem = 0 THEN "out" ELSE IF asked \in Gets THEN "in" ELSE Nothing
    /\ UNCHANGED <<of, asked, link, telem>>

\* HAL_PCD_DataInStageCallback on endpoint 0: the host has taken a packet.
Ep0In ==
    /\ stage = "in" /\ inq # Nothing
    /\ \/ /\ ep0 = "data_in" /\ rem > 0
          /\ rem' = rem - 1 /\ inq' = of
          /\ UNCHANGED <<ep0, outq>>
       \/ /\ ep0 = "data_in" /\ rem = 0
          /\ ep0' = "status_out" /\ inq' = Nothing /\ outq' = TRUE
          /\ UNCHANGED rem
       \/ /\ ep0 # "data_in"
          /\ inq' = Nothing
          /\ UNCHANGED <<ep0, rem, outq>>
    /\ stage' = IF asked \in Gets /\ rem = 0 THEN "out" ELSE IF asked \in Gets THEN "in" ELSE Nothing
    /\ UNCHANGED <<of, asked, link, telem>>

\* HAL_PCD_DataOutStageCallback on endpoint 0: a line coding, or a status.
Ep0Out ==
    /\ stage = "out" /\ outq
    /\ outq' = FALSE
    /\ \/ /\ ep0 = "data_out"
          /\ ep0' = "status_in" /\ inq' = asked /\ UNCHANGED <<rem, of>>
          /\ stage' = "in"
       \/ /\ ep0 # "data_out"
          /\ stage' = Nothing
          /\ UNCHANGED <<ep0, rem, of, inq>>
    /\ UNCHANGED <<asked, link, telem>>

\* HAL_PCD_ResetCallback; a host that resets the bus has to open the port again.
BusReset ==
    /\ is_configured' = FALSE /\ dtr' = FALSE /\ ep0' = "idle"
    /\ inq' = Nothing /\ outq' = FALSE /\ asked' = Nothing /\ stage' = Nothing
    /\ opened' = FALSE /\ suspended' = FALSE
    /\ UNCHANGED <<rem, of, telem>>

\* HAL_PCD_SuspendCallback; resume has no callback.
Suspend ==
    /\ ~suspended
    /\ suspended' = TRUE /\ dtr' = FALSE
    /\ UNCHANGED <<control, is_configured, opened, telem>>

Resume ==
    /\ suspended
    /\ suspended' = FALSE
    /\ UNCHANGED <<control, is_configured, dtr, opened, telem>>

-----------------------------------------------------------------------------
usb_cdc_link_up == is_configured /\ dtr

\* telem_stream_poll: while nobody listens, the first line is a period away.
Poll ==
    /\ next_ms' = IF ~usb_cdc_link_up \/ next_ms = 0 THEN Period ELSE next_ms
    /\ unheard' = IF ~usb_cdc_link_up \/ next_ms = 0 THEN 0 ELSE unheard
    /\ lines' = (usb_cdc_link_up /\ next_ms = 0)
    /\ UNCHANGED <<control, link>>

\* HAL_GetTick: quiet counts to Period and stays there.
Tick ==
    /\ next_ms' = IF next_ms = 0 THEN 0 ELSE next_ms - 1
    /\ unheard' = IF unheard = Period THEN Period ELSE unheard + 1
    /\ UNCHANGED <<control, link, lines>>

ControlInit ==
    /\ is_configured = FALSE /\ dtr = FALSE
    /\ ep0 = "idle" /\ rem = 0 /\ of = Nothing
    /\ inq = Nothing /\ outq = FALSE /\ asked = Nothing /\ stage = Nothing
    /\ opened = FALSE /\ suspended = FALSE
    /\ next_ms = 0 /\ unheard = Period /\ lines = FALSE

ControlNext ==
    \/ \E r \in Requests : Setup(r)
    \/ Ep0In \/ Ep0Out \/ BusReset \/ Suspend \/ Resume
    \/ Poll \/ Tick

\* The host finishes the transfers it does not cut short; the main loop polls.
ControlSpec ==
    /\ ControlInit /\ [][ControlNext]_controlVars
    /\ WF_controlVars(Ep0In) /\ WF_controlVars(Ep0Out)
    /\ WF_controlVars(Poll) /\ WF_controlVars(Tick)

-----------------------------------------------------------------------------
ControlTypeOK ==
    /\ {is_configured, dtr, outq, opened, suspended, lines} \subseteq BOOLEAN
    /\ ep0 \in {"idle", "data_in", "data_out", "status_in", "status_out"}
    /\ rem \in 0..1 /\ {next_ms, unheard} \subseteq 0..Period

\* The device has queued what the host asks for next, whatever transfer was cut
\* short before: no control transfer waits for ever on a stage the device is not in.
StagesAgree == (stage = "in" => inq # Nothing) /\ (stage = "out" => outq)

\* A packet on endpoint 0 answers the request under way, never the rest of one
\* that was cut short.
AnswersWhatWasAsked == inq \in {Nothing, asked}

\* The gate is open only for a host that asserts DTR in a configured device.
GateNeedsHost == dtr => opened /\ is_configured

\* Together: whatever the host cuts short, resets or suspends, device and host agree on
\* the transfer under way, and nobody is sent telemetry who has not opened the port.
ControlHolds == StagesAgree /\ AnswersWhatWasAsked /\ GateNeedsHost

\* telem_stream_poll's comment, "not a burst of backlog": between two lines, and
\* between a poll that saw no link and the first line, there is a whole period.
LinesAreSpaced == [][Poll /\ lines' => unheard = Period]_controlVars

\* A link that stays up hears a line again and again.
LinkUpHears == <>[]usb_cdc_link_up => []<>lines
=============================================================================
