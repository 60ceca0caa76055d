---------------------------- MODULE AddressClaim ----------------------------
(***************************************************************************)
(* n2k_addrclaim.c run by several nodes on one bus, as can_n2k_poll drives *)
(* it: drain the received frames, tick, queue what the tick produced.  A   *)
(* node is powered up and reset at any time, its plug is pulled and put    *)
(* back, its receive FIFO overruns, a display asks who is there.           *)
(* What else goes over the port, and the mailboxes, are in CanPort.        *)
(***************************************************************************)
EXTENDS Integers, FiniteSets, SequencesExt

CONSTANTS
    Node,          \* the devices on the bus; a node is its NAME
    Rank,          \* Rank[n]: the place of n's NAME, no two alike; the lower one wins
    Pref,          \* pref_addr: one of the addresses 0 .. NumAddrs - 1
    NumAddrs,      \* 254: the addresses that can be claimed
    Settle,        \* N2K_AC_SETTLE_MS, in units of time
    Shaky,         \* the nodes that are reset, lose their plug, overrun or have no room
    Events         \* how often one of that or a request happens between two nights

\* NAMEs are unique by their serial number; the window is at least one unit of time.
ClaimAssumption ==
    /\ Rank \in [Node -> Int]
    /\ \A m, n \in Node : m # n => Rank[m] # Rank[n]
    /\ NumAddrs \in Nat \ {0} /\ Settle \in Nat \ {0} /\ Events \in Nat
    /\ Pref \in [Node -> 0 .. NumAddrs - 1]
    /\ Shaky \subseteq Node

VARIABLES
    ac,        \* s_ac of each node, or Off
    age,       \* the time since claim_ms, as far as the window looks
    tx,        \* the claims that a node has queued, not sent yet
    plugged,   \* is the node on the bus
    lost,      \* history: the addresses a node has lost since it came up
    heard,     \* history: has a claim of this node's address been on the bus
    deaf,      \* history: has the node been off the bus, or missed a frame or lost its own
    owed,      \* history: a request the node received as owner, and can still answer
    events     \* how many of them there were

claimVars == <<ac, age, tx, plugged, lost, heard, deaf, owed, events>>

Null == NumAddrs                                    \* N2K_ADDR_NULL
Off == [state |-> "OFF", addr |-> Null, tries |-> 0,
        need_claim_tx |-> FALSE, need_repeat_tx |-> FALSE]
Frames == [kind : {"claim"}, from : Node, addr : 0 .. NumAddrs - 1]
          \cup {[kind |-> "request"]}

\* n2k_ac_init: the first address, to be claimed at the next tick.
AcInit(n) == [state |-> "CLAIMING", addr |-> Pref[n], tries |-> 0,
              need_claim_tx |-> TRUE, need_repeat_tx |-> FALSE]

\* The candidate after the given number of attempts: the modulus, taken once.
Candidate(n, tries) ==
    IF Pref[n] + tries >= NumAddrs THEN Pref[n] + tries - NumAddrs
                                   ELSE Pref[n] + tries

\* SLIP: goes round and round the addresses.
RestartClaimForever(n, c) ==
    LET tries == IF c.tries + 1 >= NumAddrs THEN 0 ELSE c.tries + 1 IN
    [c EXCEPT !.state = "CLAIMING", !.addr = Candidate(n, tries),
              !.tries = tries, !.need_claim_tx = TRUE]

\* restart_claim: on to the next address, or silent when all were lost.
RestartClaim(n, c) ==
    LET tries == c.tries + 1 IN
    IF tries >= NumAddrs
    THEN [state |-> "NULL", addr |-> Null, tries |-> tries,
          need_claim_tx |-> FALSE, need_repeat_tx |-> FALSE]
    ELSE [c EXCEPT !.state = "CLAIMING", !.addr = Candidate(n, tries),
                   !.tries = tries, !.need_claim_tx = TRUE]

Settled(n) == ac[n].state = "CLAIMED"

Contests(c, f) == f.kind = "claim" /\ f.addr = c.addr /\ c.state # "NULL"
Loses(n, c, f) == Contests(c, f) /\ Rank[f.from] < Rank[n]

\* SLIP: the winner stays silent.
AcRxSilent(n, c, f) ==
    CASE Loses(n, c, f) -> RestartClaim(n, c)
      [] f.kind = "request" /\ c.state = "CLAIMED" -> [c EXCEPT !.need_repeat_tx = TRUE]
      [] OTHER -> c

\* n2k_ac_rx: lose, defend by repeating the claim, or answer a request.
AcRx(n, c, f) ==
    CASE Loses(n, c, f) -> RestartClaim(n, c)
      [] Contests(c, f) /\ ~Loses(n, c, f) -> [c EXCEPT !.need_repeat_tx = TRUE]
      [] f.kind = "request" /\ c.state = "CLAIMED" -> [c EXCEPT !.need_repeat_tx = TRUE]
      [] OTHER -> c

\* n2k_ac_tick with room: the claim, the repetition, and the promotion.
Sent(c, e) ==
    [frames |-> (IF c.state # "NULL" /\ c.need_claim_tx THEN 1 ELSE 0)
              + (IF c.state # "NULL" /\ c.need_repeat_tx THEN 1 ELSE 0),
     age    |-> IF c.need_claim_tx THEN 0 ELSE e]

AcTick(c, e) ==
    [c EXCEPT !.need_claim_tx = FALSE, !.need_repeat_tx = FALSE,
              !.state = IF @ = "CLAIMING" /\ Sent(c, e).age >= Settle THEN "CLAIMED" ELSE @]

ClaimOf(n, a) == [kind |-> "claim", from |-> n, addr |-> a]
Copies(f, k) == [i \in 1 .. k |-> f]

-----------------------------------------------------------------------------
ClaimInit ==
    /\ ac = [n \in Node |-> Off]
    /\ age = [n \in Node |-> 0]
    /\ tx = [n \in Node |-> <<>>]
    /\ plugged = [n \in Node |-> TRUE]
    /\ lost = [n \in Node |-> {}]
    /\ heard = [n \in Node |-> FALSE]
    /\ deaf = [n \in Node |-> FALSE]
    /\ owed = [n \in Node |-> FALSE]
    /\ events = 0

\* can_n2k_init, at power-up.
CanInit(n) ==
    /\ ac' = [ac EXCEPT ![n] = AcInit(n)]
    /\ age' = [age EXCEPT ![n] = 0]
    /\ tx' = [tx EXCEPT ![n] = <<>>]
    /\ lost' = [lost EXCEPT ![n] = {}]
    /\ heard' = [heard EXCEPT ![n] = FALSE]
    /\ deaf' = [deaf EXCEPT ![n] = ~plugged[n]]
    /\ owed' = [owed EXCEPT ![n] = FALSE]
    /\ UNCHANGED plugged

PowerUp(n) == ac[n] = Off /\ CanInit(n) /\ UNCHANGED events

Reset(n) ==
    /\ n \in Shaky /\ ac[n] # Off /\ events < Events
    /\ events' = events + 1
    /\ CanInit(n)

\* can_n2k_poll: the tick, and what it produced is queued, but for the frames that
\* can_tx_enqueue drops when the ring is full of other traffic.
Poll(n) ==
    LET s == Sent(ac[n], age[n])  c == AcTick(ac[n], age[n]) IN
    /\ ac[n] # Off /\ c # ac[n]
    /\ ac' = [ac EXCEPT ![n] = c]
    /\ age' = [age EXCEPT ![n] = IF c.state = "CLAIMING" THEN s.age ELSE 0]
    /\ \E queued \in 0 .. s.frames :
         /\ events' = events + s.frames - queued
         /\ queued < s.frames => n \in Shaky /\ events' <= Events
         /\ tx' = [tx EXCEPT ![n] = @ \o Copies(ClaimOf(n, c.addr), queued)]
         /\ deaf' = [deaf EXCEPT ![n] = @ \/ queued < s.frames]
         /\ owed' = [owed EXCEPT ![n] = @ /\ (queued > 0 \/ s.frames = 0)]
    /\ UNCHANGED <<plugged, lost, heard>>

\* A frame on the bus: every node that is up and plugged in takes it, except one
\* whose FIFO overran meanwhile.  Until it is drained a frame changes nothing, so
\* n2k_ac_rx is applied as it arrives: a poll in between could have come first.
Receivers(from) == {m \in Node \ from : plugged[m] /\ ac[m] # Off}
Broadcast(f, from, missed) ==
    LET to == Receivers(from) \ missed
        beaten == {m \in to : Loses(m, ac[m], f)} IN
    /\ ac' = [m \in Node |-> IF m \in to THEN AcRx(m, ac[m], f) ELSE ac[m]]
    /\ lost' = [m \in Node |-> IF m \in beaten THEN lost[m] \cup {ac[m].addr} ELSE lost[m]]
    /\ heard' = [m \in Node |-> \/ heard[m] /\ m \notin beaten
                                \/ m \in from /\ f.addr = ac[m].addr]
    /\ owed' = [m \in Node |-> \/ m \in to /\ f.kind = "request" /\ Settled(m)
                               \/ /\ owed[m] /\ m \notin beaten
                                  /\ m \in from => f.addr # ac[m].addr]
    /\ deaf' = [m \in Node |-> deaf[m] \/ m \in missed]

\* The mailboxes of node n win the bus in the order of their identifiers: of the
\* frames that they hold, the one that claims the lowest address.
Mailboxes(n) == 1 .. (IF Len(tx[n]) < 3 THEN Len(tx[n]) ELSE 3)
Place(n, i) == 4 * tx[n][i].addr + i
First(n) == CHOOSE i \in Mailboxes(n) : \A j \in Mailboxes(n) : Place(n, i) <= Place(n, j)
Transmit(n) ==
    /\ plugged[n] /\ tx[n] # <<>>
    /\ \E missed \in SUBSET (Receivers({n}) \cap Shaky) :
         /\ events' = events + Cardinality(missed) /\ events' <= Events
         /\ Broadcast(tx[n][First(n)], {n}, missed)
    /\ tx' = [tx EXCEPT ![n] = RemoveAt(@, First(n))]
    /\ UNCHANGED <<age, plugged>>

Unplug(n) ==
    /\ n \in Shaky /\ plugged[n] /\ events < Events
    /\ events' = events + 1
    /\ plugged' = [plugged EXCEPT ![n] = FALSE]
    /\ deaf' = [deaf EXCEPT ![n] = TRUE]
    /\ UNCHANGED <<ac, age, tx, lost, heard, owed>>

Plug(n) ==
    /\ ~plugged[n]
    /\ plugged' = [plugged EXCEPT ![n] = TRUE]
    /\ UNCHANGED <<ac, age, tx, lost, heard, deaf, owed, events>>

\* The main loop and the bus are done, many times over, inside one unit of
\* time: whatever a node that is plugged in has queued has gone out by then.
Idle(n) ==
    ac[n] # Off => /\ AcTick(ac[n], age[n]) = ac[n]
                   /\ plugged[n] => tx[n] = <<>>
Waits(n) == ac[n].state = "CLAIMING" /\ age[n] < Settle
Elapse ==
    /\ \A n \in Node : Idle(n)
    /\ \E n \in Node : Waits(n)
    /\ age' = [n \in Node |-> IF Waits(n) THEN age[n] + 1 ELSE age[n]]
    /\ UNCHANGED <<ac, tx, plugged, lost, heard, deaf, owed, events>>

\* A display asks every node for its claim.
Request ==
    /\ events < Events /\ events' = events + 1
    /\ Broadcast([kind |-> "request"], {}, {})
    /\ UNCHANGED <<age, tx, plugged>>

\* All is switched off, when nothing is going on any more.
SwitchOff ==
    /\ \A n \in Node : ac[n] # Off /\ plugged[n] /\ Idle(n) /\ ~Waits(n)
    /\ ac' = [n \in Node |-> Off]
    /\ lost' = [n \in Node |-> {}]
    /\ heard' = [n \in Node |-> FALSE] /\ deaf' = heard'
    /\ events' = 0
    /\ UNCHANGED <<age, tx, plugged, owed>>

ClaimNext ==
    \/ \E n \in Node : \/ PowerUp(n) \/ Reset(n)  \/ Poll(n)
                       \/ Unplug(n) \/ Plug(n)
                       \/ Transmit(n)
    \/ Request \/ SwitchOff
    \/ Elapse

\* While a node has something to do, some node does something; else time goes on.
Goes == (\E n \in Node : Poll(n) \/ Transmit(n)) \/ Elapse
ClaimSpec == ClaimInit /\ [][ClaimNext]_claimVars /\ WF_claimVars(Goes)

-----------------------------------------------------------------------------
Claims == [state : {"OFF", "CLAIMING", "CLAIMED", "NULL"}, addr : 0 .. NumAddrs,
           tries : 0 .. NumAddrs, need_claim_tx : BOOLEAN, need_repeat_tx : BOOLEAN]

ClaimTypeOK ==
    /\ ac \in [Node -> Claims]
    /\ age \in [Node -> 0 .. Settle]
    /\ tx \in [Node -> Seq(Frames)]
    /\ plugged \in [Node -> BOOLEAN] /\ heard \in [Node -> BOOLEAN]
    /\ deaf \in [Node -> BOOLEAN] /\ owed \in [Node -> BOOLEAN]
    /\ lost \in [Node -> SUBSET (0 .. NumAddrs - 1)]
    /\ events \in 0 .. Events

\* "every node must claim a unique 8-bit source address" (n2k_addrclaim.h): two
\* nodes that were never off the bus, missed no frame and had room for their own never
\* both hold an address as theirs, whatever order they came up, lost and reset in.
SoleOwner ==
    \A m, n \in Node :
        m # n /\ Settled(m) /\ Settled(n) /\ ac[m].addr = ac[n].addr => deaf[m] \/ deaf[n]

\* A node holds no address that it has lost and, if it missed nothing and had room for
\* its frames, holds its address only after the bus has carried a claim for it.
OwnsWhatItClaimed ==
    \A n \in Node : Settled(n) => /\ ac[n].addr \notin lost[n]
                                  /\ heard[n] \/ deaf[n]

\* A node falls silent only when it has lost every address there is.
GaveUpAfterAll ==
    \A n \in Node : ac[n].state = "NULL" => lost[n] = 0 .. NumAddrs - 1

\* All of what holds of an address while the nodes claim it.
AddressIsSound == SoleOwner /\ OwnsWhatItClaimed /\ GaveUpAfterAll

\* A node leaves an address it holds only because a better NAME claimed that
\* very address, or because its power went; a silent node stays silent.
LeavesOnlyBeaten ==
    [][\A n \in Node :
         /\ Settled(n) /\ ac'[n].addr # ac[n].addr =>
                \/ ac'[n] \in {AcInit(n), Off}
                \/ \E m \in Node : \E i \in 1 .. Len(tx[m]) :
                        tx[m][i].addr = ac[n].addr /\ Rank[m] < Rank[n]
         /\ ac[n].state = "NULL" /\ ac'[n].state # "NULL" =>
                ac'[n] \in {AcInit(n), Off}]_claimVars

\* Again and again every node that is up owns an address or has given up: no two
\* nodes keep each other claiming.
EveryoneSettles == []<>(\A n \in Node : ac[n].state # "CLAIMING")

\* A node that was asked while it owned its address answers, unless it loses the
\* address, is reset or is off the bus first, or a full ring swallows the answer.
RequestsAreAnswered == \A n \in Node : owed[n] ~> ~owed[n] \/ ~plugged[n]
=============================================================================
