------------------------------ MODULE CanPort ------------------------------
(***************************************************************************)
(* can_n2k.c below the address claim: the frames of a publication go into  *)
(* the transmit ring, a full ring drops them, each poll moves what fits    *)
(* into the three mailboxes, and bxCAN sends the mailbox with the lowest   *)
(* identifier.  A receiver puts the fast packets together again.  Bus-off  *)
(* is in CanBusOff.                                                        *)
(*                                                                         *)
(* A packet is a kind of message, split into the frames of n2k_fp_split.   *)
(***************************************************************************)
EXTENDS Integers, Sequences

CONSTANTS
    Kinds,     \* the messages, in the order n2k_sched_tick encodes them
    Parts,     \* Parts[k]: the number of frames of message k
    Rank,      \* Rank[k]: the place of its identifier; the lower one is sent first
    Ring,      \* N2K_TX_RING
    Numbers,   \* 8: the sequence numbers of fast packets
    MaxSends   \* bound: the fast packets of a kind that are published

VARIABLES
    ring, mbox,    \* s_tx_ring; the mailboxes, None or a frame
    seq,           \* the sequence number of the next packet, by kind
    sends,         \* history: how many fast packets of its kind went before it
    got,           \* the receiver: the packet it is putting together, by kind
    reused         \* history: a packet was published under the number of an older frame
                   \* of its kind that was still about; until none of them is, by kind

portVars == <<ring, mbox, seq, sends, got, reused>>

None == [kind |-> "none"]
Nothing == [seq |-> 0, part |-> 0, tag |-> 0, torn |-> FALSE]
KindSet == {Kinds[i] : i \in DOMAIN Kinds}

PortAssumption ==
    /\ Kinds \in Seq(KindSet) /\ "none" \notin KindSet
    /\ \A k \in KindSet : Parts[k] \in Nat \ {0} /\ Rank[k] \in Nat
    /\ Ring \in Nat \ {0} /\ Numbers \in Nat \ {0} /\ MaxSends \in Nat

\* SLIP: every packet of a kind has the same number.
NextSeqStuck(k) == seq[k]

\* The seq_* counters.
NextSeq(k) == IF Parts[k] = 1 THEN 0 ELSE (seq[k] + 1) % Numbers

\* n2k_fp_split.
Frames(k) == [p \in 1 .. Parts[k] |->
                [kind |-> k, part |-> p, seq |-> seq[k], tag |-> sends[k]]]

\* can_tx_enqueue: what does not fit is dropped, frame by frame.
Enqueued(q, fs) ==
    LET room == Ring - 1 - Len(q) IN
    q \o SubSeq(fs, 1, IF room < Len(fs) THEN room ELSE Len(fs))

\* The frames of a kind that are still about, in the ring, in a mailbox or with a
\* receiver that waits for the rest.
Underway(k) == {f \in {mbox[i] : i \in 1 .. 3} \cup {ring[i] : i \in DOMAIN ring} : f.kind = k}
                 \cup (IF got[k].part \in 1 .. Parts[k] - 1 THEN {got[k]} ELSE {})

\* None of them is of a packet that had the next number before.  The code does
\* not ask: after eight packets on a bus that is dead the answer is no.
Fresh(k) == Parts[k] > 1 => \A f \in Underway(k) : f.tag % Numbers # sends[k] % Numbers

\* n2k_sched_tick: the frames of the messages that are due, in their order.
Encoded(due) ==
    LET upTo[i \in 0 .. Len(Kinds)] ==
            IF i = 0 THEN <<>>
            ELSE IF Kinds[i] \in due THEN upTo[i - 1] \o Frames(Kinds[i]) ELSE upTo[i - 1]
    IN upTo[Len(Kinds)]

\* can_n2k_publish, when the given messages are due: the numbers advance whatever
\* the ring drops.
Publish(due) ==
    /\ \A k \in due : sends[k] < MaxSends
    /\ ring' = Enqueued(ring, Encoded(due))
    /\ seq' = [k \in KindSet |-> IF k \in due THEN NextSeq(k) ELSE seq[k]]
    /\ sends' = [k \in KindSet |-> IF k \in due /\ Parts[k] > 1 THEN sends[k] + 1
                                   ELSE sends[k]]
    /\ reused' = [k \in KindSet |->
                    IF k \in due THEN ~Fresh(k) \/ (reused[k] /\ (Underway(k) # {} \/ got[k].torn))
                    ELSE reused[k]]
    /\ UNCHANGED <<mbox, got>>

Free(b) == {i \in 1 .. 3 : b[i] = None}
Lowest(S) == CHOOSE i \in S : \A j \in S : i <= j

\* can_drain_tx_ring: frames go to free mailboxes in the order of the ring.
Moved(s) ==
    IF s.ring = <<>> \/ Free(s.mbox) = {} THEN s
    ELSE [ring |-> Tail(s.ring), mbox |-> [s.mbox EXCEPT ![Lowest(Free(s.mbox))] = Head(s.ring)]]
Drained == Moved(Moved(Moved([ring |-> ring, mbox |-> mbox])))

\* can_n2k_poll, below the address claim.
Poll ==
    /\ ring # <<>> /\ Free(mbox) # {}
    /\ ring' = Drained.ring /\ mbox' = Drained.mbox
    /\ UNCHANGED <<seq, sends, got, reused>>

\* bxCAN: the lowest identifier first, and of equal ones the lowest mailbox.
Place(i) == 4 * Rank[mbox[i].kind] + i
Next1 == CHOOSE i \in {1, 2, 3} \ Free(mbox) :
            \A j \in {1, 2, 3} \ Free(mbox) : Place(i) <= Place(j)

\* A receiver of fast packets: the first frame starts one, a frame that is not
\* the next one of the same sequence number ends the attempt.
Taken(g, f) ==
    IF f.part = 1 THEN [seq |-> f.seq, part |-> 1, tag |-> f.tag, torn |-> FALSE]
    ELSE IF f.seq = g.seq /\ f.part = g.part + 1
         THEN [g EXCEPT !.part = f.part, !.torn = @ \/ f.tag # g.tag]
         ELSE Nothing

Send ==
    /\ Free(mbox) # {1, 2, 3}
    /\ LET f == mbox[Next1] IN got' = [got EXCEPT ![f.kind] = Taken(@, f)]
    /\ mbox' = [mbox EXCEPT ![Next1] = None]
    /\ UNCHANGED <<ring, seq, sends, reused>>

PortInit ==
    /\ ring = <<>> /\ mbox = [i \in 1 .. 3 |-> None]
    /\ seq = [k \in KindSet |-> 0] /\ sends = [k \in KindSet |-> 0]
    /\ got = [k \in KindSet |-> Nothing] /\ reused = [k \in KindSet |-> FALSE]

PortNext ==
    \/ \E due \in (SUBSET KindSet) \ {{}} : Publish(due)
    \/ Poll \/ Send

-----------------------------------------------------------------------------
\* "seq must change between successive transmissions" (n2k_encode.h): whatever
\* the ring drops and in whatever order the mailboxes send, a receiver takes the
\* frames of two packets for one only where the 3-bit number has come round while
\* a frame was still about.  Then it can: the old first part and the new second
\* part of a packet that the ring cut have the same number.
PacketIsOneSend ==
    \A k \in KindSet : got[k].part = Parts[k] /\ ~reused[k] => ~got[k].torn
=============================================================================
