------------------------------ MODULE TxSched ------------------------------
(***************************************************************************)
(* n2k_sched.c and rvc_sched.c: which messages a publication sends, on a   *)
(* clock that wraps, with room for a batch of frames, alerts that are due  *)
(* at once when a fault comes up, and the messages about the battery that  *)
(* RV-C leaves to a node of higher priority.                               *)
(*                                                                         *)
(* A message: its frames, its period, and whether it is sent only during a *)
(* fault ("alert") or only while no better node reports ("source").        *)
(***************************************************************************)
EXTENDS Integers, Sequences

CONSTANTS
    Messages,    \* in the order in which they are encoded
    Wrap,        \* 2^32: where the clock wraps
    Batch,       \* N2K_SCHED_BATCH, or what it leaves
    Timeout,     \* RVC_RBM_TIMEOUT_MS
    AwayMax,     \* how much more of the time the address is not ready than ready
    QuietMax,    \* longer quiet times of the better node are not told apart
    Late         \* how late a message may be

VARIABLES
    now,                   \* HAL_GetTick
    next,                  \* the next_*_ms
    master_seen, master_last,    \* the rvc_rbm_t
    away,                  \* how much more of the time the address was not ready than ready
    ready,                 \* whether it was at the last publication
    wasFault,              \* history: was there a fault at the last publication
    silent,                \* history: the time since each message was sent, or due
    quiet,                 \* history: the time since the better node was heard
    sent                   \* history: the messages of the last publication

schedVars == <<now, next, master_seen, master_last, away, ready, wasFault, silent, quiet, sent>>

Ids == DOMAIN Messages

\* FramesOf(S)[m]: the frames of those of the first m messages that are in S.
FramesOf(S) ==
    LET upTo[m \in 0 .. Len(Messages)] ==
            IF m = 0 THEN 0
            ELSE upTo[m - 1] + (IF m \in S THEN Messages[m].frames ELSE 0)
    IN upTo

Alerts == {m \in Ids : Messages[m].gate = "alert"}
Sources == {m \in Ids : Messages[m].gate = "source"}

\* One alert finds room even if everything before it is sent; no timer is half a turn of
\* the clock in the past before the address is back.
SchedAssumption ==
    /\ Messages \in Seq([frames : Nat \ {0}, period : Nat, gate : {"none", "alert", "source"}])
    /\ Wrap \in Nat /\ Batch \in Nat /\ Timeout \in Nat /\ AwayMax \in Nat /\ QuietMax \in Nat
    /\ AwayMax + 1 < Wrap \div 2
    /\ Timeout <= QuietMax /\ Timeout <= Wrap
    /\ \E m \in Alerts : FramesOf(Ids)[m] <= Batch

\* due(): the signed difference of two ticks.
Due(at, t) == (at - t) % Wrap < Wrap \div 2

\* SLIP: a better node that was ever heard counts for ever.
DeferForever(at) == master_seen

\* rvc_rbm_defer, at a time.
Defer(at) == master_seen /\ (at - master_last) % Wrap < Timeout

\* SLIP: they are set to zero, which is not always in the past.
HeldBackZero(at, m) == 0

\* The timer of a message that is held back: due at the next opportunity.
HeldBack(at, m) == at

Held(at, fault, m) == \/ m \in Alerts /\ ~fault
                      \/ m \in Sources /\ Defer(at)

\* Room for a whole message; the encoders refuse a part of one.
Fits(used, m) == used + Messages[m].frames <= Batch

\* The messages that a tick sends, in their order, within the batch.
Chosen(at, fault) ==
    LET upTo[m \in 0 .. Len(Messages)] ==
            IF m = 0 THEN [set |-> {}, used |-> 0]
            ELSE IF ~Held(at, fault, m) /\ Due(at, next[m]) /\ Fits(upTo[m - 1].used, m)
            THEN [set |-> upTo[m - 1].set \cup {m},
                  used |-> upTo[m - 1].used + Messages[m].frames]
            ELSE upTo[m - 1]
    IN upTo[Len(Messages)]

\* What the code means to hold back, in terms of the history.
Waits(fault, m) == \/ m \in Alerts /\ ~fault
                   \/ m \in Sources /\ master_seen /\ quiet' < Timeout

\* n2k_sched_tick and rvc_sched_tick, at a time, with the address ready.
Tick(at, fault) ==
    /\ sent' = Chosen(at, fault).set
    /\ next' = [m \in Ids |-> IF m \in sent' THEN (at + Messages[m].period) % Wrap
                              ELSE IF Held(at, fault, m) THEN HeldBack(at, m) ELSE next[m]]
    /\ silent' = [m \in Ids |-> IF m \in sent' \/ Waits(fault, m) THEN 0 ELSE silent[m] + 1]
    /\ wasFault' = fault

\* can_n2k_publish, once per unit of time.
Publish(up, fault) ==
    LET at == (now + 1) % Wrap IN
    /\ now' = at
    /\ quiet' = IF quiet < QuietMax THEN quiet + 1 ELSE quiet
    /\ away' = IF ~up THEN away + 1 ELSE IF away = 0 THEN 0 ELSE away - 1
    /\ up \/ away < AwayMax
    /\ ready' = up
    /\ \/ up /\ Tick(at, fault)
       \/ /\ ~up
          /\ sent' = {}
          /\ silent' = [m \in Ids |-> 0]
          /\ UNCHANGED <<next, wasFault>>
    /\ UNCHANGED <<master_seen, master_last>>

\* rvc_rbm_rx, of a frame of a source with a higher priority than ours.
Hear ==
    /\ master_seen' = TRUE
    /\ master_last' = now
    /\ quiet' = 0
    /\ UNCHANGED <<now, next, away, ready, wasFault, silent, sent>>

SchedInit ==
    /\ now = 0 /\ next = [m \in Ids |-> 0]
    /\ master_seen = FALSE /\ master_last = 0
    /\ away = 0 /\ ready = FALSE /\ wasFault = FALSE /\ quiet = 0 /\ sent = {}
    /\ silent = [m \in Ids |-> 0]

SchedNext ==
    \/ Hear
    \/ \E up, fault \in BOOLEAN : Publish(up, fault)

-----------------------------------------------------------------------------
\* Whatever the batch leaves out, wherever the clock wraps and however often a
\* message was held back before, one that is not held back is sent at most Late
\* after its period has passed (the order and the retries of n2k_sched_tick).
NoneStarves == \A m \in Ids : silent[m] <= Messages[m].period + Late

\* "a newly-raised fault alerts on the very next cycle" (n2k_sched_tick), at any
\* time of the clock.
RaisedIsTold ==
    [][now' # now /\ ready' /\ wasFault' /\ ~wasFault => sent' \cap Alerts # {}]_schedVars

\* A message about the battery is never sent while a better node was heard within
\* the timeout (rvc_rbm_defer), also when that was before the clock wrapped.
LeavesItToTheBetter ==
    [][now' # now /\ master_seen /\ quiet' < Timeout => sent' \cap Sources = {}]_schedVars

\* A publication never holds more frames than the batch has room for.
BatchHolds == FramesOf(sent)[Len(Messages)] <= Batch
=============================================================================
