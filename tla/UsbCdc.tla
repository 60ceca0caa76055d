------------------------------- MODULE UsbCdc -------------------------------
(***************************************************************************)
(* usb_cdc.c, cfg_stream.c and telem_stream.c: the two byte rings between  *)
(* the main loop and the bulk endpoints, the interrupt handlers that run   *)
(* between any two steps of the main loop, and a host that resets,         *)
(* configures and deconfigures the device whenever it likes.  Control      *)
(* transfers, DTR and suspend are in UsbControl.                           *)
(*                                                                         *)
(* A byte is the number, modulo twice its ring, that it got when it was    *)
(* accepted: enough to see a byte lost, repeated or overtaken.             *)
(***************************************************************************)
EXTENDS Naturals, Sequences

CONSTANTS
    RxRing, TxRing,   \* CDC_RX_RING, CDC_TX_RING
    Mps,              \* CDC_EP_MPS: the bytes of a full packet
    ReadCap,          \* the most bytes one usb_cdc_read asks for
    LineLen,          \* the bytes of the line that one usb_cdc_write queues
    Resets            \* how often the host resets or deconfigures the bus

ASSUME UsbAssumption ==
    /\ RxRing \in Nat /\ TxRing \in Nat \ {0, 1} /\ Mps \in Nat \ {0}
    /\ ReadCap \in Nat \ {0} /\ LineLen \in Nat \ {0} /\ Resets \in Nat
    /\ Mps < RxRing

VARIABLES
    configured,                                \* s_configured
    rx_ring, rx_w, rx_r, rx_paused,            \* the OUT side
    tx_ring, tx_w, tx_r, tx_busy, tx_last_len, \* the IN side
    armed, flight,    \* the peripheral: may OUT receive; the IN packet under way
    main,             \* the main loop: what it is at, its local index and count
    sentRx, wantRx,   \* history: the next byte the host sends, the main loop expects
    sentTx, wantTx,   \* history: the next byte the main loop queues, the host expects
    resets

rx   == <<rx_ring, rx_w, rx_r, rx_paused, armed, sentRx>>
tx   == <<tx_ring, tx_w, tx_r, tx_busy, tx_last_len, flight, wantTx>>
port == <<configured, resets>>
vars == <<rx, tx, port, main, wantRx, sentTx>>

At(i, k, size) == (i + k) % size
Number(j, k, size) == (j + k) % (2 * size)
Distance(from, to, size) == IF to >= from THEN to - from ELSE to - from + size

rx_used == Distance(rx_r, rx_w, RxRing)
tx_used == Distance(tx_r, tx_w, TxRing)
tx_free == TxRing - 1 - tx_used

-----------------------------------------------------------------------------
(* What the handlers, and the main loop with the interrupt masked, do to    *)
(* the rings: each of these is part of one uninterrupted step.             *)

\* rx_arm, when the ring's write index is w.
RxArm(w) ==
    LET room == RxRing - 1 - Distance(rx_r, w, RxRing) >= Mps IN
    /\ rx_paused' = ~room
    /\ armed' = room

\* SLIP: an empty ring needs nothing more, whatever the last packet was.
TxKickNoZlp(isConfigured, busy, last) ==
    LET n == IF tx_used > Mps THEN Mps ELSE tx_used
        starts == isConfigured /\ ~busy /\ n > 0
    IN
    /\ tx_busy' = (busy \/ starts)
    /\ tx_last_len' = IF starts THEN n ELSE last
    /\ tx_r' = IF starts THEN At(tx_r, n, TxRing) ELSE tx_r
    /\ flight' = IF starts THEN [k \in 1..n |-> tx_ring[At(tx_r, k - 1, TxRing)]]
                 ELSE IF busy THEN flight ELSE <<>>

\* tx_kick: the next packet, or the empty one that ends a transfer of full ones.
TxKick(isConfigured, busy, last) ==
    LET n == IF tx_used > Mps THEN Mps ELSE tx_used
        starts == isConfigured /\ ~busy /\ (n > 0 \/ last = Mps)
    IN
    /\ tx_busy' = (busy \/ starts)
    /\ tx_last_len' = IF starts THEN n ELSE last
    /\ tx_r' = IF starts THEN At(tx_r, n, TxRing) ELSE tx_r
    /\ flight' = IF starts THEN [k \in 1..n |-> tx_ring[At(tx_r, k - 1, TxRing)]]
                 ELSE IF busy THEN flight ELSE <<>>

-----------------------------------------------------------------------------
(* The interrupt handlers, in any order the host provokes.                 *)

\* HAL_PCD_DataOutStageCallback: the n bytes of a packet go to the ring.
DataOut(n) ==
    /\ configured /\ armed
    /\ rx_ring' = [i \in 0..RxRing - 1 |->
                     IF Distance(rx_w, i, RxRing) < n
                     THEN Number(sentRx, Distance(rx_w, i, RxRing), RxRing) ELSE rx_ring[i]]
    /\ rx_w' = At(rx_w, n, RxRing)
    /\ sentRx' = Number(sentRx, n, RxRing)
    /\ RxArm(rx_w')
    /\ UNCHANGED <<rx_r, tx, port, main, wantRx, sentTx>>

\* HAL_PCD_DataInStageCallback: the host has taken the packet.
DataIn ==
    /\ configured /\ tx_busy
    /\ wantTx' = Number(wantTx, Len(flight), TxRing)
    /\ TxKick(TRUE, FALSE, tx_last_len)
    /\ UNCHANGED <<rx, tx_ring, tx_w, port, main, wantRx, sentTx>>

\* The bytes of the packet under way never arrive.
Abandoned == Number(wantTx, Len(flight), TxRing)

\* HAL_PCD_ResetCallback: the rings keep what they hold.
Reset ==
    /\ resets < Resets
    /\ configured' = FALSE
    /\ tx_busy' = FALSE /\ tx_last_len' = 0 /\ flight' = <<>> /\ wantTx' = Abandoned
    /\ rx_paused' = FALSE /\ armed' = FALSE
    /\ resets' = resets + 1
    /\ UNCHANGED <<rx_ring, rx_w, rx_r, sentRx, tx_ring, tx_w, tx_r, main, wantRx, sentTx>>

\* setup_set_configuration with value 1, as often as the host sends it.
SetConfiguration ==
    /\ ~configured \/ resets < Resets
    /\ configured' = TRUE
    /\ resets' = IF configured THEN resets + 1 ELSE resets
    /\ RxArm(rx_w)
    /\ TxKick(TRUE, FALSE, 0)
    /\ wantTx' = Abandoned
    /\ UNCHANGED <<rx_ring, rx_w, rx_r, sentRx, tx_ring, tx_w, main, wantRx, sentTx>>

\* setup_set_configuration with value 0: the endpoints are closed.
Deconfigure ==
    /\ configured /\ resets < Resets
    /\ configured' = FALSE /\ armed' = FALSE
    /\ flight' = <<>> /\ wantTx' = Abandoned
    /\ resets' = resets + 1
    /\ UNCHANGED <<rx_ring, rx_w, rx_r, rx_paused, sentRx, tx_ring, tx_w, tx_r,
                   tx_busy, tx_last_len, main, wantRx, sentTx>>

-----------------------------------------------------------------------------
(* The main loop.  Every access to an index the handlers write is a step.   *)

At_(pc) == main.at = pc
Go(pc) == main' = [main EXCEPT !.at = pc]
GoFresh(pc) == main' = [at |-> pc, i |-> 0, n |-> 0]

\* usb_cdc_read: the local index starts at the shared one.
ReadBegin ==
    /\ At_("idle")
    /\ main' = [at |-> "read", i |-> rx_r, n |-> 0]
    /\ UNCHANGED <<rx, tx, port, wantRx, sentTx>>

ReadByte ==
    /\ At_("read") /\ main.n < ReadCap /\ main.i # rx_w
    /\ wantRx' = Number(wantRx, 1, RxRing)
    /\ main' = [main EXCEPT !.i = At(@, 1, RxRing), !.n = @ + 1]
    /\ UNCHANGED <<rx, tx, port, sentTx>>

\* SLIP: the ring is declared empty, though a packet came after the last look.
ReadEndDrains ==
    /\ At_("read") /\ (main.n = ReadCap \/ main.i = rx_w)
    /\ rx_r' = rx_w
    /\ GoFresh("resume")
    /\ UNCHANGED <<rx_ring, rx_w, rx_paused, armed, sentRx, tx, port, wantRx, sentTx>>

\* The bytes are given up only when the loop has copied them.
ReadEnd ==
    /\ At_("read") /\ (main.n = ReadCap \/ main.i = rx_w)
    /\ rx_r' = main.i
    /\ GoFresh("resume")
    /\ UNCHANGED <<rx_ring, rx_w, rx_paused, armed, sentRx, tx, port, wantRx, sentTx>>

\* The first, unmasked look at s_rx_paused.
ReadLook ==
    /\ At_("resume")
    /\ GoFresh(IF rx_paused THEN "masked" ELSE "idle")
    /\ UNCHANGED <<rx, tx, port, wantRx, sentTx>>

\* The second look and rx_arm, with the interrupt masked.
ReadResume ==
    /\ At_("masked")
    /\ IF rx_paused THEN RxArm(rx_w) ELSE UNCHANGED <<rx_paused, armed>>
    /\ GoFresh("idle")
    /\ UNCHANGED <<rx_ring, rx_w, rx_r, sentRx, tx, port, wantRx, sentTx>>

\* usb_cdc_write through cfg_proto_tx: unconfigured, the whole line is dropped.
WriteBegin ==
    /\ At_("idle")
    /\ main' = IF configured THEN [at |-> "store", i |-> tx_w, n |-> 0] ELSE main
    /\ UNCHANGED <<rx, tx, port, wantRx, sentTx>>

\* The byte first, ...
WriteStore ==
    /\ At_("store") /\ main.n < LineLen /\ tx_free > 0
    /\ tx_ring' = [tx_ring EXCEPT ![main.i] = sentTx]
    /\ sentTx' = Number(sentTx, 1, TxRing)
    /\ main' = [at |-> "publish", i |-> At(main.i, 1, TxRing), n |-> main.n + 1]
    /\ UNCHANGED <<rx, tx_w, tx_r, tx_busy, tx_last_len, flight, wantTx, port, wantRx>>

\* ... then the index that gives it to the handlers.
WritePublish ==
    /\ At_("publish")
    /\ tx_w' = main.i
    /\ Go("store")
    /\ UNCHANGED <<rx, tx_ring, tx_r, tx_busy, tx_last_len, flight, wantTx, port, wantRx, sentTx>>

\* SLIP: the next interrupt is left to send it.
WriteEndNoKick ==
    /\ At_("store") /\ (main.n = LineLen \/ tx_free = 0)
    /\ GoFresh("idle")
    /\ UNCHANGED <<rx, tx, port, wantRx, sentTx>>

\* What did not fit is dropped; what did is kicked, with the interrupt masked.
WriteEnd ==
    /\ At_("store") /\ (main.n = LineLen \/ tx_free = 0)
    /\ GoFresh("idle")
    /\ IF main.n > 0 THEN TxKick(configured, tx_busy, tx_last_len)
                     ELSE UNCHANGED <<tx_r, tx_busy, tx_last_len, flight>>
    /\ UNCHANGED <<rx, tx_ring, tx_w, wantTx, port, wantRx, sentTx>>

Init ==
    /\ configured = FALSE /\ resets = 0
    /\ rx_ring = [i \in 0..RxRing - 1 |-> 0] /\ rx_w = 0 /\ rx_r = 0 /\ rx_paused = FALSE
    /\ tx_ring = [i \in 0..TxRing - 1 |-> 0] /\ tx_w = 0 /\ tx_r = 0
    /\ tx_busy = FALSE /\ tx_last_len = 0
    /\ armed = FALSE /\ flight = <<>>
    /\ main = [at |-> "idle", i |-> 0, n |-> 0]
    /\ sentRx = 0 /\ wantRx = 0 /\ sentTx = 0 /\ wantTx = 0

Read == ReadBegin \/ ReadByte \/ ReadEnd \/ ReadLook \/ ReadResume
Write == WriteBegin \/ WriteStore \/ WritePublish \/ WriteEnd
Handler ==
    \/ \E n \in 1..Mps : DataOut(n)
    \/ DataIn \/ Reset \/ SetConfiguration \/ Deconfigure
Next == Read \/ Write \/ Handler

(* The main loop never stops calling usb_cdc_read, a call of usb_cdc_write is
   a bounded loop, and a configured host keeps polling its IN endpoint.     *)
Fairness ==
    /\ SF_vars(ReadBegin) /\ WF_vars(ReadByte \/ ReadEnd \/ ReadLook \/ ReadResume)
    /\ WF_vars(WriteStore \/ WritePublish \/ WriteEnd)
    /\ WF_vars(DataIn)

Spec == Init /\ [][Next]_vars /\ Fairness

-----------------------------------------------------------------------------
TypeOK ==
    /\ {configured, rx_paused, armed, tx_busy} \subseteq BOOLEAN
    /\ {rx_w, rx_r} \subseteq 0..RxRing - 1
    /\ {tx_w, tx_r} \subseteq 0..TxRing - 1
    /\ rx_ring \in [0..RxRing - 1 -> 0..2 * RxRing - 1]
    /\ tx_ring \in [0..TxRing - 1 -> 0..2 * TxRing - 1]
    /\ tx_last_len \in 0..Mps /\ Len(flight) \in 0..Mps
    /\ main.at \in {"idle", "read", "resume", "masked", "store", "publish"}
    /\ resets \in 0..Resets

\* rx_arm's promise: an armed OUT endpoint always has room for a full packet,
\* whatever the main loop does between the arming and the packet.
ArmedHasRoom == armed => RxRing - 1 - rx_used >= Mps

\* Flow control never loses the port: a configured OUT endpoint that is not
\* armed is remembered as paused, so the next usb_cdc_read looks again.
PausedOrArmed == configured => armed \/ rx_paused

\* What usb_cdc_read has yet to hand over is exactly what the host sent after
\* the last byte handed over: nothing lost, nothing twice, nothing overtaken.
RxInOrder ==
    LET r == IF At_("read") THEN main.i ELSE rx_r
        n == Distance(r, rx_w, RxRing)
    IN  /\ sentRx = Number(wantRx, n, RxRing)
        /\ \A k \in 0..n - 1 : rx_ring[At(r, k, RxRing)] = Number(wantRx, k, RxRing)

\* The bytes on their way to the host - the packet under way, then the ring -
\* are consecutive, though a handler may take a packet between the store of a
\* byte and the publication of its index.
TxInOrder ==
    LET f == Len(flight) IN
    /\ \A k \in 1..f : flight[k] = Number(wantTx, k - 1, TxRing)
    /\ \A k \in 0..tx_used - 1 : tx_ring[At(tx_r, k, TxRing)] = Number(wantTx, f + k, TxRing)

\* An idle IN endpoint of a configured port owes the host nothing: the ring is
\* empty, and a transfer that ended on a full packet was ended by an empty one.
IdleOwesNothing ==
    configured /\ ~tx_busy /\ main.at \notin {"store", "publish"}
        => tx_used = 0 /\ tx_last_len # Mps

\* Both directions together: no interleaving of the handlers with the reads and writes of
\* the main loop, and no reset in between, loses, repeats or reorders a byte.
BytesInOrder == RxInOrder /\ TxInOrder

\* Flow control on both sides: what may come fits, what is held back is remembered, and
\* what is idle owes nothing.
FlowControlHolds == ArmedHasRoom /\ PausedOrArmed /\ IdleOwesNothing

\* Reception that stopped on a full ring starts again: no order of the look at
\* s_rx_paused and the interrupt leaves the host waiting for ever.
PauseEnds == rx_paused ~> ~rx_paused

\* A queued byte reaches a host that leaves the port configured.
QueuedIsSent ==
    \A i \in 0..TxRing - 1 :
        (configured /\ Distance(tx_r, i, TxRing) < tx_used)
            ~> (~configured \/ Distance(tx_r, i, TxRing) >= tx_used)
=============================================================================
