----------------------------- MODULE CanBusOff -----------------------------
(***************************************************************************)
(* can_poll_bus_off: the flag that bxCAN raises and clears by itself, the  *)
(* events the poll makes of it, and the error budget of the bus, which a   *)
(* frame that finds a mailbox pays back.                                   *)
(***************************************************************************)
EXTENDS ErrBudget

VARIABLES
    boff,             \* CAN_FLAG_BOF
    boff_latched,     \* s_bus_off_latched
    can_errb,         \* the domain ERRB_CAN
    counted,          \* history: how often the present bus-off has been counted
    streak            \* history: the bus-offs counted since a frame found a mailbox

boffVars == <<boff, boff_latched, can_errb, counted, streak>>

BoffInit ==
    /\ boff = FALSE /\ boff_latched = FALSE /\ can_errb = Unspent
    /\ counted = 0 /\ streak = 0

Counts == boff /\ ~boff_latched

\* can_drain_tx_ring, when a frame is waiting and a mailbox is free, or not.
Paid(e, moved) == IF moved THEN Ok(e) ELSE e

\* can_n2k_poll: the drain, then the flag; can_n2k_note_bus_off.
PollBoff(moved) ==
    LET paid == Paid(can_errb, moved) IN
    /\ can_errb' = IF Counts THEN Fail(paid) ELSE paid
    /\ streak' = UpTo(FaultAt, (IF moved THEN 0 ELSE streak) + (IF Counts THEN 1 ELSE 0))
    /\ counted' = IF Counts THEN UpTo(2, counted + 1) ELSE counted
    /\ boff_latched' = boff
    /\ UNCHANGED boff

GoesOff == ~boff /\ boff' = TRUE /\ counted' = 0 /\ UNCHANGED <<boff_latched, can_errb, streak>>
ComesBack == boff /\ boff' = FALSE /\ UNCHANGED <<boff_latched, can_errb, counted, streak>>

BoffNext == GoesOff \/ ComesBack \/ \E moved \in BOOLEAN : PollBoff(moved)

-----------------------------------------------------------------------------
\* "count each bus-off EVENT once, not once per poll while the bus happens to
\* still be off" (can_poll_bus_off).
EventCountedOnce == counted <= 1

\* The fault of the bus is raised by FaultAt bus-offs with no frame between them
\* and by nothing less: a single long bus-off never raises it.
BusFaultIsEarned ==
    [][can_errb'.faulted /\ ~can_errb.faulted => streak' >= FaultAt]_boffVars
=============================================================================
