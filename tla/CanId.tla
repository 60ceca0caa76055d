-------------------------------- MODULE CanId --------------------------------
(***************************************************************************)
(* The 29-bit identifiers of n2k_encode.c, and the filter banks that       *)
(* can_n2k_init gives the peripheral.  The bits are those of the wire.     *)
(***************************************************************************)
EXTENDS Naturals

CONSTANTS
    Pgns,       \* the PGNs on the bus, of this node and of others
    Senders,    \* addresses of senders
    Dests       \* addresses of receivers

Octet == {n \in Nat : n < 256}

\* The PGNs that can be sent: 17 bits, and one that is addressed leaves the low byte free.
IdAssumption ==
    /\ Senders \subseteq Octet /\ Dests \subseteq Octet
    /\ \A p \in Pgns : p \in Nat /\ p < 2 ^ 17 /\ ((p \div 256) % 256 < 240 => p % 256 = 0)

VARIABLE frame    \* what the bus carries: the parts of an identifier

idVars == <<frame>>

Claim == 60928       \* N2K_PGN_ADDR_CLAIM
Request == 59904     \* N2K_PGN_ISO_REQUEST
Dc1Dgn == 131069     \* RVC_DGN_DC_SOURCE_STATUS_1
Dc2Dgn == 131068     \* RVC_DGN_DC_SOURCE_STATUS_2

\* Below 240 the low byte of the PGN is a destination.
Addressed(pgn) == (pgn \div 256) % 256 < 240

\* n2k_can_id
CanIdOf(prio, pgn, src, dest) ==
    LET low == pgn % 2 ^ 17
        field == IF Addressed(low) THEN (low - (low % 256)) + dest ELSE low
    IN prio * 2 ^ 26 + field * 256 + src

\* n2k_can_id_prio, n2k_can_id_pgn, n2k_can_id_src
PrioOf(id) == (id \div 2 ^ 26) % 8
PgnOf(id) == LET pgn == (id \div 256) % 2 ^ 17 IN IF Addressed(pgn) THEN pgn - (pgn % 256) ELSE pgn
SrcOf(id) == id % 256

\* N2K_FILTER_PGN_MASK and RVC_FILTER_DC_SOURCE_MASK: the bits a bank compares.
FilterPgn(id) == (id \div 2 ^ 16) % 2 ^ 9

FilterDc(id) == (id \div 2 ^ 9) % 2 ^ 16

\* can_n2k_init, the banks that can_filter_pair describes.
Admitted(id) ==
    \/ FilterPgn(id) = FilterPgn(CanIdOf(0, Claim, 0, 0))
    \/ FilterPgn(id) = FilterPgn(CanIdOf(0, Request, 0, 0))
    \/ FilterDc(id) = FilterDc(CanIdOf(0, Dc2Dgn, 0, 0))

\* n2k_ac_rx and rvc_rbm_rx, what they look at.
Reads(id) == PgnOf(id) \in {Claim, Request, Dc1Dgn, Dc2Dgn}

-----------------------------------------------------------------------------
\* Any frame of the bus after any other, one part changed at a time.
IdInit == frame = [prio |-> 0, pgn |-> Claim, src |-> 0, dest |-> 255]
IdNext == \/ \E p \in Pgns : frame' = [frame EXCEPT !.pgn = p]
          \/ \E p \in {0, 2, 6, 7} : frame' = [frame EXCEPT !.prio = p]
          \/ \E a \in Senders : frame' = [frame EXCEPT !.src = a]
          \/ \E a \in Dests : frame' = [frame EXCEPT !.dest = a]

Id == CanIdOf(frame.prio, frame.pgn, frame.src, frame.dest)

-----------------------------------------------------------------------------
\* A receiver reads in an identifier the priority, the PGN and the source that it
\* was composed of, whoever is addressed, on both sides of the border at 240.
IdsComeBack == PrioOf(Id) = frame.prio /\ PgnOf(Id) = frame.pgn /\ SrcOf(Id) = frame.src

\* "widen the Rx filters only as much as the RBM election actually needs"
\* (RVC_FILTER_DC_SOURCE_MASK): the banks admit a frame exactly when one of its
\* readers looks at it, whatever its priority, sender and receiver.
FiltersMatchReaders == Admitted(Id) <=> Reads(Id)
=============================================================================
