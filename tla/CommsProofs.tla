---------------------------- MODULE CommsProofs -----------------------------
(***************************************************************************)
(* Theorems of the two ports that MCComms instantiates, for every value of *)
(* their constants.  UsbCdc, for rings, packets and lines of every size:   *)
(* types, flow control, and the order of the bytes on both sides, with the *)
(* handlers running between any two steps of the main loop.  UsbControl:   *)
(* whatever requests the host sends, whichever of them it cuts short and   *)
(* whenever it resets or suspends the bus, device and host agree on the    *)
(* stage of the transfer, and the DTR gate is never open without a host    *)
(* behind it.  CanBusOff, CanPort and TxSched: bus-off events, the packets *)
(* that a receiver puts together, and what a publication sends.            *)
(***************************************************************************)
EXTENDS MCComms, WellFoundedInduction, SequenceTheorems, TLAPS

USE UsbAssumption

\* Types, of the history and of the main loop's locals too: the index it works with
\* is one of the ring it is at.
Steps == {"idle", "read", "resume", "masked", "store", "publish"}

RxTypes ==
    /\ rx_paused \in BOOLEAN /\ armed \in BOOLEAN
    /\ rx_w \in 0..RxRing - 1 /\ rx_r \in 0..RxRing - 1
    /\ rx_ring \in [0..RxRing - 1 -> 0..2 * RxRing - 1]
    /\ sentRx \in 0..2 * RxRing - 1 /\ wantRx \in 0..2 * RxRing - 1

FlightTypes ==
    /\ tx_busy \in BOOLEAN /\ tx_last_len \in 0..Mps /\ tx_r \in 0..TxRing - 1
    /\ flight \in Seq(0..2 * TxRing - 1)
    /\ Len(flight) \in 0..TxRing - 1 /\ Len(flight) \in 0..Mps
    /\ ~tx_busy => flight = <<>>

TxTypes ==
    /\ tx_w \in 0..TxRing - 1
    /\ tx_ring \in [0..TxRing - 1 -> 0..2 * TxRing - 1]
    /\ sentTx \in 0..2 * TxRing - 1 /\ wantTx \in 0..2 * TxRing - 1

PortTypes == configured \in BOOLEAN /\ resets \in 0..Resets

MainTypes ==
    /\ main \in [at : Steps, i : Nat, n : Nat]
    /\ main.at = "read" => main.i \in 0..RxRing - 1
    /\ main.at \in {"store", "publish"} => main.i \in 0..TxRing - 1

CdcTypes == RxTypes /\ FlightTypes /\ TxTypes /\ PortTypes /\ MainTypes

-----------------------------------------------------------------------------
(* Index arithmetic *)

LEMMA AtWraps ==
    ASSUME NEW size \in Nat \ {0}, NEW i \in 0..size - 1, NEW k \in 0..size
    PROVE  /\ At(i, k, size) = IF i + k < size THEN i + k ELSE i + k - size
           /\ At(i, k, size) \in 0..size - 1
<1>1. CASE i + k < size
  BY <1>1 DEF At
<1>2. CASE i + k >= size
  BY <1>2 DEF At
<1> QED
  BY <1>1, <1>2

LEMMA NumberWraps ==
    ASSUME NEW size \in Nat \ {0}, NEW j \in 0..2 * size - 1, NEW k \in 0..2 * size
    PROVE  /\ Number(j, k, size) = IF j + k < 2 * size THEN j + k ELSE j + k - 2 * size
           /\ Number(j, k, size) \in 0..2 * size - 1
<1>1. CASE j + k < 2 * size
  BY <1>1 DEF Number
<1>2. CASE j + k >= 2 * size
  BY <1>2 DEF Number
<1> QED
  BY <1>1, <1>2

LEMMA DistanceBound ==
    ASSUME NEW size \in Nat \ {0}, NEW i \in 0..size - 1, NEW j \in 0..size - 1
    PROVE  Distance(i, j, size) \in 0..size - 1 /\ (Distance(i, j, size) = 0 <=> i = j)
  BY DEF Distance

\* What is appended adds to the distance, while the ring is not full.
LEMMA DistanceGrows ==
    ASSUME NEW size \in Nat \ {0}, NEW i \in 0..size - 1, NEW j \in 0..size - 1,
           NEW n \in 0..size - 1 - Distance(i, j, size)
    PROVE  Distance(i, At(j, n, size), size) = Distance(i, j, size) + n
<1>1. Distance(i, j, size) \in 0..size - 1
  BY DistanceBound
<1>2. n \in 0..size
  BY <1>1
<1>3. /\ At(j, n, size) = IF j + n < size THEN j + n ELSE j + n - size
      /\ At(j, n, size) \in 0..size - 1
  BY <1>2, AtWraps
<1> QED
  BY <1>1, <1>3 DEF Distance

\* What is taken shortens it.
LEMMA DistanceShrinks ==
    ASSUME NEW size \in Nat \ {0}, NEW i \in 0..size - 1, NEW j \in 0..size - 1,
           NEW n \in 0..Distance(i, j, size)
    PROVE  Distance(At(i, n, size), j, size) = Distance(i, j, size) - n
<1>1. Distance(i, j, size) \in 0..size - 1
  BY DistanceBound
<1>2. n \in 0..size
  BY <1>1
<1>3. /\ At(i, n, size) = IF i + n < size THEN i + n ELSE i + n - size
      /\ At(i, n, size) \in 0..size - 1
  BY <1>2, AtWraps
<1> QED
  BY <1>1, <1>3 DEF Distance

LEMMA AtAdds ==
    ASSUME NEW size \in Nat \ {0}, NEW i \in 0..size - 1,
           NEW m \in 0..size, NEW n \in 0..size - m
    PROVE  At(At(i, m, size), n, size) = At(i, m + n, size)
<1> DEFINE b == At(i, m, size)
<1>1. n \in 0..size /\ m + n \in 0..size
  OBVIOUS
<1>2. b = (IF i + m < size THEN i + m ELSE i + m - size) /\ b \in 0..size - 1
  BY AtWraps
<1>3. At(b, n, size) = IF b + n < size THEN b + n ELSE b + n - size
  BY <1>1, <1>2, AtWraps
<1>4. At(i, m + n, size) = IF i + (m + n) < size THEN i + (m + n) ELSE i + (m + n) - size
  BY <1>1, AtWraps
<1> QED
  BY <1>1, <1>2, <1>3, <1>4

LEMMA NumberAdds ==
    ASSUME NEW size \in Nat \ {0}, NEW j \in 0..2 * size - 1,
           NEW m \in 0..2 * size, NEW n \in 0..2 * size - m
    PROVE  Number(Number(j, m, size), n, size) = Number(j, m + n, size)
<1> DEFINE b == Number(j, m, size)
<1>1. n \in 0..2 * size /\ m + n \in 0..2 * size
  OBVIOUS
<1>2. b = (IF j + m < 2 * size THEN j + m ELSE j + m - (2 * size)) /\ b \in 0..2 * size - 1
  BY NumberWraps
<1>3. Number(b, n, size) = IF b + n < 2 * size THEN b + n ELSE b + n - (2 * size)
  BY <1>1, <1>2, NumberWraps
<1>4. Number(j, m + n, size) = IF j + (m + n) < 2 * size THEN j + (m + n) ELSE j + (m + n) - (2 * size)
  BY <1>1, NumberWraps
<1> QED
  BY <1>1, <1>2, <1>3, <1>4

-----------------------------------------------------------------------------
(* The handlers' part of a step *)

\* The packet that tx_kick takes out of the ring.
PacketLen == IF tx_used > Mps THEN Mps ELSE tx_used

LEMMA Used ==
    ASSUME CdcTypes
    PROVE  /\ rx_used \in 0..RxRing - 1 /\ tx_used \in 0..TxRing - 1
           /\ PacketLen \in 0..Mps /\ PacketLen \in 0..tx_used
<1>1. rx_used \in 0..RxRing - 1
  <2>1. RxRing \in Nat \ {0} /\ rx_r \in 0..RxRing - 1 /\ rx_w \in 0..RxRing - 1
    BY DEF CdcTypes, RxTypes
  <2> QED
    BY <2>1, DistanceBound DEF rx_used
<1>2. tx_used \in 0..TxRing - 1
  BY DistanceBound DEF CdcTypes, TxTypes, FlightTypes, tx_used
<1> QED
  BY <1>1, <1>2 DEF PacketLen

\* What tx_kick leaves: a packet under way, or a port that is as it was.
LEMMA KickTypes ==
    ASSUME CdcTypes, NEW isConfigured \in BOOLEAN, NEW busy \in BOOLEAN, NEW last \in 0..Mps,
           ~busy \/ busy = tx_busy, TxKick(isConfigured, busy, last)
    PROVE  FlightTypes'
<1> DEFINE starts == isConfigured /\ ~busy /\ (PacketLen > 0 \/ last = Mps)
           packet == [k \in 1..PacketLen |-> tx_ring[At(tx_r, k - 1, TxRing)]]
<1>1. /\ tx_busy' = (busy \/ starts)
      /\ tx_last_len' = (IF starts THEN PacketLen ELSE last)
      /\ tx_r' = (IF starts THEN At(tx_r, PacketLen, TxRing) ELSE tx_r)
      /\ flight' = (IF starts THEN packet ELSE IF busy THEN flight ELSE <<>>)
  BY DEF TxKick, PacketLen
<1>2. PacketLen \in 0..Mps /\ PacketLen \in 0..TxRing - 1
  BY Used
<1>3. tx_r \in 0..TxRing - 1 /\ tx_ring \in [0..TxRing - 1 -> 0..2 * TxRing - 1]
  BY DEF CdcTypes, FlightTypes, TxTypes
<1>4. packet \in Seq(0..2 * TxRing - 1) /\ Len(packet) = PacketLen
  <2>1. ASSUME NEW k \in 1..PacketLen
        PROVE  tx_ring[At(tx_r, k - 1, TxRing)] \in 0..2 * TxRing - 1
    <3>1. k - 1 \in 0..TxRing
      BY <1>2
    <3>2. At(tx_r, k - 1, TxRing) \in 0..TxRing - 1
      BY <1>3, <3>1, AtWraps
    <3> QED
      BY <1>3, <3>2
  <2> QED
    BY <1>2, <2>1
<1>5. At(tx_r, PacketLen, TxRing) \in 0..TxRing - 1
  <2>1. PacketLen \in 0..TxRing
    BY <1>2
  <2> QED
    BY <1>3, <2>1, AtWraps
<1>6. CASE starts
  BY <1>1, <1>2, <1>4, <1>5, <1>6 DEF FlightTypes
<1>7. CASE ~starts /\ busy
  BY <1>1, <1>3, <1>7 DEF CdcTypes, FlightTypes
<1>8. CASE ~starts /\ ~busy
  <2>1. flight' = <<>>
    BY <1>1, <1>8
  <2>2. <<>> \in Seq(0..2 * TxRing - 1) /\ Len(<<>>) = 0
    OBVIOUS
  <2>3. tx_busy' \in BOOLEAN /\ tx_last_len' \in 0..Mps /\ tx_r' \in 0..TxRing - 1
    BY <1>1, <1>3, <1>8
  <2> QED
    BY <2>1, <2>2, <2>3 DEF FlightTypes
<1> QED
  BY <1>6, <1>7, <1>8

-----------------------------------------------------------------------------
(* Types *)

\* rx_arm leaves two flags, and one of them is set.
LEMMA ArmTypes ==
    ASSUME NEW w, RxArm(w)
    PROVE  /\ armed' \in BOOLEAN /\ rx_paused' \in BOOLEAN /\ (armed' \/ rx_paused')
           /\ armed' => RxRing - 1 - Distance(rx_r, w, RxRing) >= Mps
<1> DEFINE space == RxRing - 1 - Distance(rx_r, w, RxRing) >= Mps
<1>1. rx_paused' = ~space /\ armed' = space
  BY DEF RxArm
<1>2. space \in BOOLEAN
  OBVIOUS
<1> HIDE DEF space
<1>3. armed' \in BOOLEAN /\ rx_paused' \in BOOLEAN /\ (armed' \/ rx_paused') /\ (armed' => space)
  BY <1>1, <1>2, Zenon
<1> QED
  BY <1>3 DEF space

LEMMA MainStep ==
    ASSUME NEW at \in Steps, NEW i \in Nat, NEW n \in Nat,
           main' = [at |-> at, i |-> i, n |-> n],
           at = "read" => i \in 0..RxRing - 1,
           at \in {"store", "publish"} => i \in 0..TxRing - 1
    PROVE  MainTypes'
  BY DEF MainTypes

LEMMA FreshMain ==
    ASSUME NEW at \in Steps \ {"read", "store", "publish"}, GoFresh(at)
    PROVE  MainTypes'
  BY MainStep DEF GoFresh, Steps

LEMMA DataOutTypes ==
    ASSUME CdcTypes, NEW n \in 1..Mps, DataOut(n)
    PROVE  CdcTypes'
<1>1. n \in 0..RxRing /\ n \in 0..2 * RxRing /\ RxRing \in Nat \ {0}
  OBVIOUS
<1>2. rx_w \in 0..RxRing - 1 /\ sentRx \in 0..2 * RxRing - 1
  BY DEF CdcTypes, RxTypes
<1>3. rx_w' \in 0..RxRing - 1
  BY <1>1, <1>2, AtWraps DEF DataOut
<1>4. sentRx' \in 0..2 * RxRing - 1
  BY <1>1, <1>2, NumberWraps DEF DataOut
<1>5. rx_ring' \in [0..RxRing - 1 -> 0..2 * RxRing - 1]
  <2>1. ASSUME NEW i \in 0..RxRing - 1
        PROVE  /\ Number(sentRx, Distance(rx_w, i, RxRing), RxRing) \in 0..2 * RxRing - 1
               /\ rx_ring[i] \in 0..2 * RxRing - 1
    <3>1. Distance(rx_w, i, RxRing) \in 0..2 * RxRing
      BY <1>1, <1>2, DistanceBound
    <3>2. Number(sentRx, Distance(rx_w, i, RxRing), RxRing) \in 0..2 * RxRing - 1
      BY <1>1, <1>2, <3>1, NumberWraps
    <3> QED
      BY <3>2 DEF CdcTypes, RxTypes
  <2> QED
    BY <2>1 DEF DataOut
<1>6. armed' \in BOOLEAN /\ rx_paused' \in BOOLEAN
  BY ArmTypes DEF DataOut
<1>7. RxTypes'
  BY <1>3, <1>4, <1>5, <1>6 DEF DataOut, CdcTypes, RxTypes
<1>8. UNCHANGED <<configured, resets, tx, main, sentTx>>
  BY DEF DataOut, port
<1> QED
  BY <1>7, <1>8 DEF CdcTypes, FlightTypes, TxTypes, PortTypes, MainTypes, tx

\* The packet under way is given up, or has arrived: the host goes on after it.
LEMMA FlightAbandoned ==
    ASSUME CdcTypes
    PROVE  Abandoned \in 0..2 * TxRing - 1
<1>1. Len(flight) \in 0..2 * TxRing /\ wantTx \in 0..2 * TxRing - 1
  BY DEF CdcTypes, FlightTypes, TxTypes
<1> QED
  BY <1>1, NumberWraps DEF Abandoned

LEMMA DataInTypes ==
    ASSUME CdcTypes, DataIn
    PROVE  CdcTypes'
<1>1. FlightTypes'
  <2>1. tx_last_len \in 0..Mps
    BY DEF CdcTypes, FlightTypes
  <2> QED
    BY <2>1, KickTypes DEF DataIn
<1>2. TxTypes'
  BY FlightAbandoned DEF DataIn, Abandoned, CdcTypes, TxTypes
<1>3. UNCHANGED <<rx, wantRx, port, main>>
  BY DEF DataIn
<1> QED
  BY <1>1, <1>2, <1>3 DEF CdcTypes, RxTypes, PortTypes, MainTypes, rx, port

LEMMA SetConfigurationTypes ==
    ASSUME CdcTypes, SetConfiguration
    PROVE  CdcTypes'
<1>1. FlightTypes'
  <2>1. TxKick(TRUE, FALSE, 0)
    BY DEF SetConfiguration
  <2>2. 0 \in 0..Mps
    OBVIOUS
  <2> QED
    BY <2>1, <2>2, KickTypes
<1>2. TxTypes'
  BY FlightAbandoned DEF SetConfiguration, CdcTypes, TxTypes
<1>3. RxTypes'
  BY ArmTypes DEF SetConfiguration, CdcTypes, RxTypes
<1>4. PortTypes'
  <2>1. configured \in BOOLEAN /\ resets \in 0..Resets
    BY DEF CdcTypes, PortTypes
  <2>2. CASE configured
    BY <2>1, <2>2 DEF SetConfiguration, PortTypes
  <2>3. CASE ~configured
    BY <2>1, <2>3 DEF SetConfiguration, PortTypes
  <2> QED
    BY <2>2, <2>3
<1> QED
  BY <1>1, <1>2, <1>3, <1>4 DEF SetConfiguration, CdcTypes, MainTypes

LEMMA ClosingTypes ==
    ASSUME CdcTypes, Reset \/ Deconfigure
    PROVE  CdcTypes'
<1>1. flight' = <<>> /\ wantTx' = Abandoned
  BY DEF Reset, Deconfigure
<1>2. UNCHANGED <<rx_ring, rx_w, rx_r, sentRx, tx_ring, tx_w, tx_r, main, wantRx, sentTx>>
  BY DEF Reset, Deconfigure
<1>3. flight' \in Seq(0..2 * TxRing - 1) /\ Len(flight') = 0
  BY <1>1
<1>4. PortTypes'
  <2>1. configured' \in BOOLEAN
    BY DEF Reset, Deconfigure
  <2>2. resets' \in 0..Resets
    BY DEF Reset, Deconfigure, CdcTypes, PortTypes
  <2> QED
    BY <2>1, <2>2 DEF PortTypes
<1>5. armed' \in BOOLEAN /\ rx_paused' \in BOOLEAN /\ tx_busy' \in BOOLEAN
  <2>1. CASE Reset
    BY <2>1 DEF Reset
  <2>2. CASE Deconfigure
    BY <2>2 DEF Deconfigure, CdcTypes, RxTypes, FlightTypes
  <2> QED
    BY <2>1, <2>2
<1>6. tx_last_len' \in 0..Mps
  BY DEF Reset, Deconfigure, CdcTypes, FlightTypes
<1>7. FlightTypes'
  BY <1>1, <1>2, <1>3, <1>5, <1>6 DEF CdcTypes, FlightTypes
<1>8. TxTypes'
  BY <1>1, <1>2, FlightAbandoned DEF CdcTypes, TxTypes
<1>9. RxTypes' /\ MainTypes'
  BY <1>2, <1>5 DEF CdcTypes, RxTypes, MainTypes
<1> QED
  BY <1>4, <1>7, <1>8, <1>9 DEF CdcTypes

\* The main loop reads: the handlers' half of the port stays as it is.
LEMMA ReadTypes ==
    ASSUME CdcTypes, Read
    PROVE  CdcTypes'
<1>1. FlightTypes' /\ TxTypes' /\ PortTypes'
  BY DEF Read, ReadBegin, ReadByte, ReadEnd, ReadLook, ReadResume, tx, port,
         CdcTypes, FlightTypes, TxTypes, PortTypes
<1>2. RxTypes /\ MainTypes
  BY DEF CdcTypes
<1>3. CASE ReadBegin
  <2>1. MainTypes'
    BY <1>2, <1>3, MainStep DEF ReadBegin, RxTypes, Steps
  <2> QED
    BY <1>1, <1>2, <1>3, <2>1 DEF ReadBegin, CdcTypes, RxTypes, rx
<1>4. CASE ReadByte
  <2>1. main.i \in 0..RxRing - 1 /\ wantRx \in 0..2 * RxRing - 1 /\ main.n \in Nat
    BY <1>2, <1>4 DEF ReadByte, RxTypes, MainTypes, At_
  <2>2. 1 \in 0..RxRing /\ 1 \in 0..2 * RxRing /\ RxRing \in Nat \ {0}
    OBVIOUS
  <2>3. At(main.i, 1, RxRing) \in 0..RxRing - 1
    BY <2>1, <2>2, AtWraps
  <2>4. wantRx' \in 0..2 * RxRing - 1
    BY <1>4, <2>1, <2>2, NumberWraps DEF ReadByte
  <2>5. main' = [at |-> "read", i |-> At(main.i, 1, RxRing), n |-> main.n + 1]
    BY <1>2, <1>4 DEF ReadByte, MainTypes, At_
  <2>6. MainTypes'
    BY <2>1, <2>3, <2>5, MainStep DEF Steps
  <2> QED
    BY <1>1, <1>2, <1>4, <2>4, <2>6 DEF ReadByte, CdcTypes, RxTypes, rx
<1>5. CASE ReadEnd
  <2>1. MainTypes'
    BY <1>5, FreshMain DEF ReadEnd, Steps
  <2> QED
    BY <1>1, <1>2, <1>5, <2>1 DEF ReadEnd, CdcTypes, RxTypes, MainTypes, At_
<1>6. CASE ReadLook
  <2>1. MainTypes'
    BY <1>6, FreshMain DEF ReadLook, Steps
  <2> QED
    BY <1>1, <1>2, <1>6, <2>1 DEF ReadLook, CdcTypes, RxTypes, rx
<1>7. CASE ReadResume
  <2>1. MainTypes'
    BY <1>7, FreshMain DEF ReadResume, Steps
  <2>2. armed' \in BOOLEAN /\ rx_paused' \in BOOLEAN
    BY <1>2, <1>7, ArmTypes DEF ReadResume, RxTypes
  <2> QED
    BY <1>1, <1>2, <1>7, <2>1, <2>2 DEF ReadResume, CdcTypes, RxTypes
<1> QED
  BY <1>3, <1>4, <1>5, <1>6, <1>7 DEF Read

\* The main loop writes: reception stays as it is.
LEMMA WriteTypes ==
    ASSUME CdcTypes, Write
    PROVE  CdcTypes'
<1>1. RxTypes' /\ PortTypes'
  BY DEF Write, WriteBegin, WriteStore, WritePublish, WriteEnd, rx, port,
         CdcTypes, RxTypes, PortTypes
<1>2. FlightTypes /\ TxTypes /\ MainTypes
  BY DEF CdcTypes
<1>3. CASE WriteBegin
  <2>1. CASE configured
    <3>1. MainTypes'
      BY <1>2, <1>3, <2>1, MainStep DEF WriteBegin, TxTypes, Steps
    <3> QED
      BY <1>1, <1>2, <1>3, <3>1 DEF WriteBegin, CdcTypes, FlightTypes, TxTypes, tx
  <2>2. CASE ~configured
    BY <1>1, <1>2, <1>3, <2>2 DEF WriteBegin, CdcTypes, FlightTypes, TxTypes, MainTypes, tx
  <2> QED
    BY <2>1, <2>2
<1>4. CASE WriteStore
  <2>1. main.i \in 0..TxRing - 1 /\ sentTx \in 0..2 * TxRing - 1 /\ main.n \in Nat
    BY <1>2, <1>4 DEF WriteStore, TxTypes, MainTypes, At_
  <2>2. 1 \in 0..TxRing /\ 1 \in 0..2 * TxRing
    OBVIOUS
  <2>3. At(main.i, 1, TxRing) \in 0..TxRing - 1
    BY <2>1, <2>2, AtWraps
  <2>4. sentTx' \in 0..2 * TxRing - 1
    BY <1>4, <2>1, <2>2, NumberWraps DEF WriteStore
  <2>5. MainTypes'
    <3>1. main' = [at |-> "publish", i |-> At(main.i, 1, TxRing), n |-> main.n + 1]
      BY <1>4 DEF WriteStore
    <3> QED
      BY <2>1, <2>3, <3>1, MainStep DEF Steps
  <2>6. tx_ring' \in [0..TxRing - 1 -> 0..2 * TxRing - 1]
    BY <1>2, <1>4, <2>1 DEF WriteStore, TxTypes
  <2>7. FlightTypes' /\ TxTypes'
    BY <1>2, <1>4, <2>4, <2>6 DEF WriteStore, FlightTypes, TxTypes
  <2> QED
    BY <1>1, <2>5, <2>7 DEF CdcTypes
<1>5. CASE WritePublish
  <2>1. main' = [at |-> "store", i |-> main.i, n |-> main.n]
    BY <1>2, <1>5 DEF WritePublish, Go, MainTypes
  <2>2. main.i \in 0..TxRing - 1 /\ main.n \in Nat
    BY <1>2, <1>5 DEF WritePublish, MainTypes, At_
  <2>3. MainTypes'
    BY <2>1, <2>2, MainStep DEF Steps
  <2>4. FlightTypes' /\ TxTypes'
    BY <1>2, <1>5, <2>2 DEF WritePublish, FlightTypes, TxTypes
  <2> QED
    BY <1>1, <2>3, <2>4 DEF CdcTypes
<1>6. CASE WriteEnd
  <2>1. MainTypes'
    BY <1>6, FreshMain DEF WriteEnd, Steps
  <2>2. FlightTypes'
    <3>1. CASE main.n > 0
      <4>1. TxKick(configured, tx_busy, tx_last_len)
        BY <1>6, <3>1 DEF WriteEnd
      <4>2. configured \in BOOLEAN /\ tx_busy \in BOOLEAN /\ tx_last_len \in 0..Mps
        BY DEF CdcTypes, FlightTypes, PortTypes
      <4> QED
        BY <4>1, <4>2, KickTypes
    <3>2. CASE ~(main.n > 0)
      BY <1>2, <1>6, <3>2 DEF WriteEnd, FlightTypes
    <3> QED
      BY <3>1, <3>2
  <2> QED
    BY <1>1, <1>2, <1>6, <2>1, <2>2 DEF WriteEnd, CdcTypes, TxTypes
<1> QED
  BY <1>3, <1>4, <1>5, <1>6 DEF Write

LEMMA StartTypes == Init => CdcTypes
<1> SUFFICES ASSUME Init PROVE CdcTypes
  OBVIOUS
<1>1. flight \in Seq(0..2 * TxRing - 1) /\ Len(flight) = 0
  BY DEF Init
<1>2. /\ configured \in BOOLEAN /\ rx_paused \in BOOLEAN
      /\ armed \in BOOLEAN /\ tx_busy \in BOOLEAN
  BY DEF Init
<1>3. FlightTypes /\ TxTypes
  BY <1>1, <1>2 DEF Init, FlightTypes, TxTypes
<1>4. RxTypes /\ PortTypes
  BY <1>2 DEF Init, RxTypes, PortTypes
<1>5. MainTypes
  BY DEF Init, MainTypes, Steps
<1> QED
  BY <1>3, <1>4, <1>5 DEF CdcTypes

LEMMA StepTypes ==
    ASSUME CdcTypes, [Next]_vars
    PROVE  CdcTypes'
<1>1. CASE Handler
  BY <1>1, DataOutTypes, DataInTypes, SetConfigurationTypes, ClosingTypes DEF Handler
<1>2. CASE UNCHANGED vars
  BY <1>2 DEF vars, rx, tx, port, CdcTypes, RxTypes, FlightTypes, TxTypes, PortTypes, MainTypes
<1> QED
  BY <1>1, <1>2, ReadTypes, WriteTypes DEF Next

THEOREM CdcTyped == Spec => []CdcTypes
  BY StartTypes, StepTypes, PTL DEF Spec

\* Indices stay in their rings, and no packet is longer than the endpoint takes.
THEOREM CdcTypeCorrect == Spec => []TypeOK
<1>1. CdcTypes => TypeOK
  BY DEF CdcTypes, RxTypes, FlightTypes, TxTypes, PortTypes, MainTypes, Steps, TypeOK
<1> QED
  BY <1>1, CdcTyped, PTL

-----------------------------------------------------------------------------
(* Reception *)

\* Where the next byte for the main loop is: usb_cdc_read's local index, or the shared one.
Cursor == IF main.at = "read" THEN main.i ELSE rx_r
Ahead  == Distance(Cursor, rx_w, RxRing)

\* A reader is between the bytes it may still give back and the ones it has not seen.
ReaderBetween ==
    main.at = "read" => Distance(rx_r, main.i, RxRing) + Distance(main.i, rx_w, RxRing) = rx_used

BytesNumbered ==
    /\ sentRx = Number(wantRx, Ahead, RxRing)
    /\ \A k \in 0..Ahead - 1 : rx_ring[At(Cursor, k, RxRing)] = Number(wantRx, k, RxRing)

RxSide == ReaderBetween /\ ArmedHasRoom /\ PausedOrArmed /\ BytesNumbered

\* Of the bytes from c on, those before w lie behind it, by the whole ring less what
\* is between, and the others ahead of it.
LEMMA BehindOrAhead ==
    ASSUME NEW size \in Nat \ {0}, NEW c \in 0..size - 1, NEW w \in 0..size - 1,
           NEW k \in 0..size - 1
    PROVE  LET d == Distance(c, w, size) IN
           Distance(w, At(c, k, size), size) = IF k < d THEN size - d + k ELSE k - d
<1>1. k \in 0..size
  OBVIOUS
<1>2. /\ At(c, k, size) = IF c + k < size THEN c + k ELSE c + k - size
      /\ At(c, k, size) \in 0..size - 1
  BY <1>1, AtWraps
<1> QED
  BY <1>2 DEF Distance

LEMMA RxFacts ==
    ASSUME CdcTypes, RxSide
    PROVE  /\ RxRing \in Nat \ {0} /\ Cursor \in 0..RxRing - 1 /\ rx_w \in 0..RxRing - 1
           /\ rx_r \in 0..RxRing - 1 /\ rx_used \in 0..RxRing - 1
           /\ Ahead \in 0..rx_used
           /\ sentRx \in 0..2 * RxRing - 1 /\ wantRx \in 0..2 * RxRing - 1
<1>1. /\ RxRing \in Nat \ {0} /\ Cursor \in 0..RxRing - 1 /\ rx_w \in 0..RxRing - 1
      /\ rx_r \in 0..RxRing - 1
      /\ sentRx \in 0..2 * RxRing - 1 /\ wantRx \in 0..2 * RxRing - 1
  BY DEF CdcTypes, RxTypes, MainTypes, Cursor
<1>2. rx_used \in 0..RxRing - 1 /\ Ahead \in 0..RxRing - 1
  BY <1>1, DistanceBound DEF rx_used, Ahead
<1>3. Ahead <= rx_used
  <2>1. CASE main.at = "read"
    <3>1. main.i \in 0..RxRing - 1
      BY <2>1 DEF CdcTypes, MainTypes
    <3>2. Distance(rx_r, main.i, RxRing) \in 0..RxRing - 1
      BY <1>1, <3>1, DistanceBound
    <3>3. Distance(rx_r, main.i, RxRing) + Ahead = rx_used
      BY <2>1 DEF RxSide, ReaderBetween, Ahead, Cursor
    <3> QED
      BY <1>2, <3>2, <3>3
  <2>2. CASE main.at # "read"
    BY <1>2, <2>2 DEF Ahead, Cursor, rx_used
  <2> QED
    BY <2>1, <2>2
<1> QED
  BY <1>1, <1>2, <1>3

\* A packet goes behind what is there: the space it was armed with is still there.
LEMMA DataOutKeeps ==
    ASSUME CdcTypes, RxSide, NEW n \in 1..Mps, DataOut(n)
    PROVE  RxSide'
<1>1. /\ RxRing \in Nat \ {0} /\ Cursor \in 0..RxRing - 1 /\ rx_w \in 0..RxRing - 1
      /\ rx_r \in 0..RxRing - 1 /\ rx_used \in 0..RxRing - 1 /\ Ahead \in 0..rx_used
      /\ sentRx \in 0..2 * RxRing - 1 /\ wantRx \in 0..2 * RxRing - 1
  BY RxFacts
<1>2. n \in Nat /\ n > 0 /\ n <= RxRing - 1 - rx_used
  BY <1>1 DEF DataOut, RxSide, ArmedHasRoom
<1>3. UNCHANGED <<rx_r, main, wantRx, configured>> /\ rx_w' = At(rx_w, n, RxRing) /\ RxArm(rx_w')
  BY DEF DataOut, port
<1>4. Cursor' = Cursor
  BY <1>3 DEF Cursor
<1>5. Ahead' = Ahead + n /\ rx_used' = rx_used + n
  <2>1. n \in 0..RxRing - 1 - Ahead /\ n \in 0..RxRing - 1 - rx_used
    BY <1>1, <1>2
  <2>2. Distance(Cursor, At(rx_w, n, RxRing), RxRing) = Ahead + n
    BY <1>1, <2>1, DistanceGrows DEF Ahead
  <2>3. Distance(rx_r, At(rx_w, n, RxRing), RxRing) = rx_used + n
    BY <1>1, <2>1, DistanceGrows DEF rx_used
  <2> QED
    BY <1>3, <1>4, <2>2, <2>3 DEF Ahead, rx_used
<1>6. ReaderBetween'
  <2> SUFFICES ASSUME main.at = "read"
               PROVE  Distance(rx_r, main.i, RxRing) + Distance(main.i, rx_w', RxRing) = rx_used + n
    BY <1>3, <1>5 DEF ReaderBetween
  <2>1. Distance(main.i, rx_w', RxRing) = Distance(main.i, rx_w, RxRing) + n
    BY <1>4, <1>5 DEF Ahead, Cursor
  <2>2. Distance(rx_r, main.i, RxRing) + Distance(main.i, rx_w, RxRing) = rx_used
    BY DEF RxSide, ReaderBetween
  <2>3. main.i \in 0..RxRing - 1
    BY DEF CdcTypes, MainTypes
  <2>4. Distance(rx_r, main.i, RxRing) \in 0..RxRing - 1 /\ Distance(main.i, rx_w, RxRing) \in 0..RxRing - 1
    BY <1>1, <2>3, DistanceBound
  <2> QED
    BY <1>1, <1>2, <2>1, <2>2, <2>4
<1>7. ArmedHasRoom' /\ PausedOrArmed'
  BY <1>3, ArmTypes DEF ArmedHasRoom, PausedOrArmed, rx_used
<1>8. sentRx' = Number(wantRx', Ahead', RxRing)
  <2>1. sentRx' = Number(Number(wantRx, Ahead, RxRing), n, RxRing)
    BY DEF DataOut, RxSide, BytesNumbered
  <2>2. Ahead \in 0..2 * RxRing /\ n \in 0..2 * RxRing - Ahead
    BY <1>1, <1>2
  <2> QED
    BY <1>1, <1>3, <1>5, <2>1, <2>2, NumberAdds
<1>9. ASSUME NEW k \in 0..Ahead + n - 1
      PROVE  rx_ring'[At(Cursor, k, RxRing)] = Number(wantRx, k, RxRing)
  <2> DEFINE i == At(Cursor, k, RxRing)
  <2>1. k \in 0..RxRing - 1 /\ k \in 0..RxRing
    BY <1>1, <1>2
  <2>2. i \in 0..RxRing - 1
    BY <1>1, <2>1, AtWraps
  <2>3. Distance(rx_w, i, RxRing) = IF k < Ahead THEN RxRing - Ahead + k ELSE k - Ahead
    BY <1>1, <2>1, BehindOrAhead DEF Ahead
  <2>4. rx_ring'[i] = IF Distance(rx_w, i, RxRing) < n
                      THEN Number(sentRx, Distance(rx_w, i, RxRing), RxRing) ELSE rx_ring[i]
    BY <2>2 DEF DataOut
  <2>5. CASE k < Ahead
    <3>1. ~(Distance(rx_w, i, RxRing) < n)
      BY <1>1, <1>2, <2>1, <2>3, <2>5
    <3>2. k \in 0..Ahead - 1
      BY <1>1, <2>1, <2>5
    <3> QED
      BY <2>4, <3>1, <3>2 DEF RxSide, BytesNumbered
  <2>6. CASE k >= Ahead
    <3>1. Distance(rx_w, i, RxRing) = k - Ahead
      BY <1>1, <2>1, <2>3, <2>6
    <3>2. k - Ahead < n
      BY <1>1, <1>2, <2>1
    <3>3. rx_ring'[i] = Number(Number(wantRx, Ahead, RxRing), k - Ahead, RxRing)
      BY <2>4, <3>1, <3>2 DEF RxSide, BytesNumbered
    <3>4. Ahead \in 0..2 * RxRing /\ k - Ahead \in 0..2 * RxRing - Ahead /\ Ahead + (k - Ahead) = k
      BY <1>1, <2>1, <2>6
    <3>5. Number(Number(wantRx, Ahead, RxRing), k - Ahead, RxRing) = Number(wantRx, Ahead + (k - Ahead), RxRing)
      BY <1>1, <3>4, NumberAdds
    <3> QED
      BY <3>3, <3>4, <3>5
  <2> QED
    BY <1>1, <2>1, <2>5, <2>6
<1>10. BytesNumbered'
  <2>1. \A k \in 0..Ahead' - 1 : rx_ring'[At(Cursor', k, RxRing)] = Number(wantRx', k, RxRing)
    <3> TAKE k \in 0..Ahead' - 1
    <3>1. k \in 0..Ahead + n - 1
      BY <1>1, <1>2, <1>5
    <3>2. rx_ring'[At(Cursor, k, RxRing)] = Number(wantRx, k, RxRing)
      BY <1>9, <3>1
    <3> QED
      BY <1>3, <1>4, <3>2
  <2> QED
    BY <1>8, <2>1 DEF BytesNumbered
<1> QED
  BY <1>6, <1>7, <1>10 DEF RxSide

\* What the main loop reads is the oldest byte; the ring keeps the others.
LEMMA ReadByteKeeps ==
    ASSUME CdcTypes, RxSide, ReadByte
    PROVE  RxSide'
<1>1. /\ RxRing \in Nat \ {0} /\ Cursor \in 0..RxRing - 1 /\ rx_w \in 0..RxRing - 1
      /\ rx_r \in 0..RxRing - 1 /\ rx_used \in 0..RxRing - 1 /\ Ahead \in 0..rx_used
      /\ sentRx \in 0..2 * RxRing - 1 /\ wantRx \in 0..2 * RxRing - 1
  BY RxFacts
<1>2. UNCHANGED <<configured, rx_ring, rx_w, rx_r, rx_paused, armed, sentRx>>
  BY DEF ReadByte, rx, port
<1>3. main.at = "read" /\ Cursor = main.i /\ main.i # rx_w /\ wantRx' = Number(wantRx, 1, RxRing)
  BY DEF ReadByte, At_, Cursor
<1>4. main'.at = "read" /\ main'.i = At(main.i, 1, RxRing)
  BY <1>3 DEF ReadByte, CdcTypes, MainTypes
<1>5. Ahead >= 1
  <2>1. Distance(Cursor, rx_w, RxRing) # 0
    BY <1>1, <1>3 DEF Distance
  <2> QED
    BY <1>1, <2>1 DEF Ahead
<1>6. Cursor' = At(Cursor, 1, RxRing) /\ Ahead' = Ahead - 1
  <2>1. Cursor' = At(Cursor, 1, RxRing)
    BY <1>3, <1>4 DEF Cursor
  <2>2. 1 \in 0..Ahead
    BY <1>1, <1>5
  <2>3. Distance(At(Cursor, 1, RxRing), rx_w, RxRing) = Ahead - 1
    BY <1>1, <2>2, DistanceShrinks DEF Ahead
  <2> QED
    BY <1>2, <2>1, <2>3 DEF Ahead
<1>7. ReaderBetween'
  <2> DEFINE d == Distance(rx_r, Cursor, RxRing)
  <2>1. d + Ahead = rx_used
    BY <1>3 DEF RxSide, ReaderBetween, Ahead
  <2>2. d \in 0..RxRing - 1
    BY <1>1, DistanceBound
  <2>3. 1 \in 0..RxRing - 1 - d
    BY <1>1, <1>5, <2>1, <2>2
  <2>4. Distance(rx_r, At(Cursor, 1, RxRing), RxRing) = d + 1
    BY <1>1, <2>3, DistanceGrows
  <2>5. Distance(rx_r, main'.i, RxRing) + Ahead' = rx_used
    BY <1>1, <1>3, <1>4, <1>6, <2>1, <2>2, <2>4
  <2>6. Ahead' = Distance(main'.i, rx_w, RxRing) /\ rx_used' = rx_used
    BY <1>2, <1>3, <1>4, <1>6 DEF Ahead, rx_used
  <2> QED
    BY <1>2, <2>5, <2>6 DEF ReaderBetween
<1>8. ArmedHasRoom' /\ PausedOrArmed'
  BY <1>2 DEF RxSide, ArmedHasRoom, PausedOrArmed, rx_used
<1>9. ASSUME NEW k \in 0..Ahead - 1
      PROVE  Number(Number(wantRx, 1, RxRing), k, RxRing) = Number(wantRx, 1 + k, RxRing)
  <2>1. 1 \in 0..2 * RxRing /\ k \in 0..2 * RxRing - 1
    BY <1>1
  <2> QED
    BY <1>1, <2>1, NumberAdds
<1>10. sentRx' = Number(wantRx', Ahead', RxRing)
  <2>1. Ahead - 1 \in 0..Ahead - 1 /\ 1 + (Ahead - 1) = Ahead
    BY <1>1, <1>5
  <2>2. Number(Number(wantRx, 1, RxRing), Ahead - 1, RxRing) = Number(wantRx, 1 + (Ahead - 1), RxRing)
    BY <1>9, <2>1
  <2> QED
    BY <1>2, <1>3, <1>6, <2>1, <2>2 DEF RxSide, BytesNumbered
<1>11. ASSUME NEW k \in 0..Ahead' - 1
       PROVE  rx_ring'[At(Cursor', k, RxRing)] = Number(wantRx', k, RxRing)
  <2>1. k \in 0..Ahead - 1 /\ 1 + k \in 0..Ahead - 1
    BY <1>1, <1>5, <1>6
  <2>2. At(At(Cursor, 1, RxRing), k, RxRing) = At(Cursor, 1 + k, RxRing)
    <3>1. 1 \in 0..RxRing /\ k \in 0..RxRing - 1
      BY <1>1, <2>1
    <3> QED
      BY <1>1, <3>1, AtAdds
  <2>3. rx_ring[At(Cursor, 1 + k, RxRing)] = Number(wantRx, 1 + k, RxRing)
    BY <2>1 DEF RxSide, BytesNumbered
  <2> QED
    BY <1>2, <1>3, <1>6, <1>9, <2>1, <2>2, <2>3
<1>12. BytesNumbered'
  BY <1>10, <1>11 DEF BytesNumbered
<1> QED
  BY <1>7, <1>8, <1>12 DEF RxSide

\* A reader that ends gives back what it has copied, and no more.
LEMMA ReadEndKeeps ==
    ASSUME CdcTypes, RxSide, ReadEnd
    PROVE  RxSide'
<1>1. /\ RxRing \in Nat \ {0} /\ Cursor \in 0..RxRing - 1 /\ rx_w \in 0..RxRing - 1
      /\ rx_used \in 0..RxRing - 1 /\ Ahead \in 0..rx_used
  BY RxFacts
<1>2. UNCHANGED <<configured, rx_ring, rx_w, rx_paused, armed, sentRx, wantRx>> /\ rx_r' = Cursor
  BY DEF ReadEnd, At_, Cursor, port
<1>3. main'.at = "resume"
  BY DEF ReadEnd, GoFresh
<1>4. Cursor' = Cursor
  BY <1>2, <1>3 DEF Cursor
<1>5. Ahead' = Ahead /\ rx_used' = Ahead
  BY <1>2, <1>4 DEF Ahead, rx_used
<1>6. ArmedHasRoom'
  BY <1>1, <1>2, <1>5 DEF RxSide, ArmedHasRoom
<1> QED
  BY <1>2, <1>3, <1>4, <1>5, <1>6 DEF RxSide, ReaderBetween, PausedOrArmed, BytesNumbered

\* The steps that leave the ring and the reader's place in it alone.
LEMMA RxFrame ==
    ASSUME RxSide, UNCHANGED <<rx_ring, rx_w, rx_r, sentRx, wantRx>>,
           Cursor' = Cursor, main'.at = "read" => main' = main,
           ArmedHasRoom', PausedOrArmed'
    PROVE  RxSide'
<1>1. Ahead' = Ahead /\ rx_used' = rx_used
  BY DEF Ahead, rx_used
<1>2. ReaderBetween'
  BY <1>1 DEF RxSide, ReaderBetween
<1> QED
  BY <1>1, <1>2 DEF RxSide, BytesNumbered

LEMMA RxKeeps ==
    ASSUME CdcTypes, RxSide, [Next]_vars
    PROVE  RxSide'
<1>1. CASE \E n \in 1..Mps : DataOut(n)
  BY <1>1, DataOutKeeps
<1>2. CASE ReadByte
  BY <1>2, ReadByteKeeps
<1>3. CASE ReadEnd
  BY <1>3, ReadEndKeeps
<1>4. CASE SetConfiguration \/ Reset \/ Deconfigure
  <2>1. UNCHANGED <<rx_ring, rx_w, rx_r, sentRx, wantRx, main>>
    BY <1>4 DEF SetConfiguration, Reset, Deconfigure
  <2>2. ArmedHasRoom' /\ PausedOrArmed'
    <3>1. CASE SetConfiguration
      BY <2>1, <3>1, ArmTypes DEF SetConfiguration, ArmedHasRoom, PausedOrArmed, rx_used
    <3>2. CASE Reset \/ Deconfigure
      BY <3>2 DEF Reset, Deconfigure, ArmedHasRoom, PausedOrArmed
    <3> QED
      BY <1>4, <3>1, <3>2
  <2> QED
    BY <2>1, <2>2, RxFrame DEF Cursor
<1>5. CASE ReadResume
  <2>1. UNCHANGED <<configured, rx_ring, rx_w, rx_r, sentRx, wantRx>> /\ main.at # "read" /\ main'.at # "read"
    BY <1>5 DEF ReadResume, GoFresh, At_, port
  <2>2. ArmedHasRoom' /\ PausedOrArmed'
    <3>1. CASE rx_paused
      BY <1>5, <2>1, <3>1, ArmTypes DEF ReadResume, ArmedHasRoom, PausedOrArmed, rx_used
    <3>2. CASE ~rx_paused
      BY <1>5, <2>1, <3>2 DEF ReadResume, RxSide, ArmedHasRoom, PausedOrArmed, rx_used
    <3> QED
      BY <3>1, <3>2
  <2> QED
    BY <2>1, <2>2, RxFrame DEF Cursor
<1>6. CASE ReadBegin
  <2>1. UNCHANGED <<configured, rx_ring, rx_w, rx_r, rx_paused, armed, sentRx, wantRx>>
    BY <1>6 DEF ReadBegin, rx, port
  <2>2. main.at = "idle" /\ main'.at = "read" /\ main'.i = rx_r
    BY <1>6 DEF ReadBegin, At_
  <2>3. Cursor' = Cursor
    BY <2>2 DEF Cursor
  <2>4. Ahead' = Ahead /\ rx_used' = rx_used
    BY <2>1, <2>3 DEF Ahead, rx_used
  <2>5. ReaderBetween'
    <3>1. Distance(rx_r, rx_r, RxRing) = 0 /\ rx_used \in Nat
      BY RxFacts DEF Distance
    <3> QED
      BY <2>1, <2>2, <2>4, <3>1 DEF ReaderBetween, rx_used
  <2> QED
    BY <2>1, <2>3, <2>4, <2>5 DEF RxSide, ArmedHasRoom, PausedOrArmed, BytesNumbered
<1>7. CASE ReadLook \/ Write \/ DataIn \/ UNCHANGED vars
  <2>1. UNCHANGED <<configured, rx_ring, rx_w, rx_r, rx_paused, armed, sentRx, wantRx>>
    BY <1>7 DEF ReadLook, Write, WriteBegin, WriteStore, WritePublish, WriteEnd, DataIn, vars, rx, port
  <2>2. main' = main \/ (main.at # "read" /\ main'.at # "read")
    <3>1. CASE ReadLook
      BY <3>1 DEF ReadLook, At_, GoFresh
    <3>2. CASE WriteBegin
      BY <3>2 DEF WriteBegin, At_
    <3>3. CASE WriteStore
      BY <3>3 DEF WriteStore, At_
    <3>4. CASE WritePublish
      <4>1. main \in [at : Steps, i : Nat, n : Nat]
        BY DEF CdcTypes, MainTypes
      <4> QED
        BY <3>4, <4>1 DEF WritePublish, At_, Go
    <3>5. CASE WriteEnd
      BY <3>5 DEF WriteEnd, At_, GoFresh
    <3>6. CASE DataIn \/ UNCHANGED vars
      BY <3>6 DEF DataIn, vars
    <3> QED
      BY <1>7, <3>1, <3>2, <3>3, <3>4, <3>5, <3>6 DEF Write
  <2> QED
    BY <2>1, <2>2, RxFrame DEF Cursor, RxSide, ArmedHasRoom, PausedOrArmed, rx_used
<1> QED
  BY <1>1, <1>2, <1>3, <1>4, <1>5, <1>6, <1>7 DEF Next, Read, Handler

LEMMA RxInvariance == Spec => []RxSide
<1>1. Init => RxSide
  <2> SUFFICES ASSUME Init PROVE RxSide
    OBVIOUS
  <2>1. Cursor = 0 /\ Ahead = 0
    BY DEF Init, Cursor, Ahead, Distance
  <2>2. Number(0, 0, RxRing) = 0
    BY 0 \in 0..2 * RxRing - 1, 0 \in 0..2 * RxRing, RxRing \in Nat \ {0}, NumberWraps
  <2> QED
    BY <2>1, <2>2 DEF Init, RxSide, ReaderBetween, ArmedHasRoom, PausedOrArmed, BytesNumbered
<1> QED
  BY <1>1, RxKeeps, CdcTyped, PTL DEF Spec

\* rx_arm's promise, for every ring and packet size: whatever the main loop does
\* between the arming and the packet, there is space for a full one.
THEOREM ArmedMeansRoom == Spec => []ArmedHasRoom
  BY RxInvariance, PTL DEF RxSide

\* Flow control never loses the port: reception that is not armed is remembered as paused.
THEOREM NeverForgotten == Spec => []PausedOrArmed
  BY RxInvariance, PTL DEF RxSide

\* usb_cdc_read hands over the bytes the host sent: none lost, none twice, none overtaken,
\* wherever in its loop the packets arrive.
THEOREM ReceivesInOrder == Spec => []RxInOrder
<1>1. RxSide => RxInOrder
  BY DEF RxSide, BytesNumbered, RxInOrder, Cursor, Ahead, At_
<1> QED
  BY <1>1, RxInvariance, PTL

-----------------------------------------------------------------------------
(* Transmission *)

Flying == Len(flight)

FlightInOrder == \A k \in 1..Flying : flight[k] = Number(wantTx, k - 1, TxRing)
RingInOrder ==
    \A k \in 0..tx_used - 1 : tx_ring[At(tx_r, k, TxRing)] = Number(wantTx, Flying + k, TxRing)

\* What usb_cdc_write is about to add: a byte is in its slot before the index moves.
NextByte ==
    /\ main.at # "publish" => sentTx = Number(wantTx, Flying + tx_used, TxRing)
    /\ main.at = "store" => main.i = tx_w
    /\ main.at = "publish" =>
         /\ main.n > 0 /\ tx_used < TxRing - 1 /\ main.i = At(tx_w, 1, TxRing)
         /\ tx_ring[tx_w] = Number(wantTx, Flying + tx_used, TxRing)
         /\ sentTx = Number(wantTx, Flying + tx_used + 1, TxRing)

\* A line under way ends in a kick; otherwise an idle endpoint owes nothing.
Writing == main.at \in {"store", "publish"} /\ main.n > 0
IdleSettled == configured /\ ~tx_busy /\ ~Writing => tx_used = 0 /\ tx_last_len # Mps

TxSide == FlightInOrder /\ RingInOrder /\ NextByte /\ IdleSettled

LEMMA TxFacts ==
    ASSUME CdcTypes
    PROVE  /\ TxRing \in Nat \ {0} /\ Flying \in 0..TxRing - 1 /\ tx_used \in 0..TxRing - 1
           /\ tx_r \in 0..TxRing - 1 /\ tx_w \in 0..TxRing - 1
           /\ wantTx \in 0..2 * TxRing - 1 /\ sentTx \in 0..2 * TxRing - 1
           /\ PacketLen \in 0..tx_used /\ PacketLen \in 0..Mps
           /\ ~tx_busy => Flying = 0
<1>1. ~tx_busy => Flying = 0
  BY DEF CdcTypes, FlightTypes, Flying
<1> QED
  BY <1>1, Used DEF CdcTypes, FlightTypes, TxTypes, Flying

\* The host goes on after the packet under way: the same bytes, counted from there.
LEMMA Recounted ==
    ASSUME CdcTypes, wantTx' = Number(wantTx, Flying, TxRing), NEW j \in 0..TxRing + 1
    PROVE  Number(wantTx', j, TxRing) = Number(wantTx, Flying + j, TxRing)
<1>1. Flying \in 0..2 * TxRing /\ j \in 0..2 * TxRing - Flying
  BY TxFacts
<1> QED
  BY <1>1, TxFacts, NumberAdds

\* Whoever has the packet, what usb_cdc_write is about to add comes after the rest.
LEMMA NextByteMoves ==
    ASSUME CdcTypes, NextByte, UNCHANGED <<tx_ring, tx_w, sentTx>>,
           wantTx' = Number(wantTx, Flying, TxRing),
           Flying' + tx_used' = tx_used, tx_used' \in 0..tx_used,
           main' = main \/ (main.at # "publish" /\ main'.at = "idle")
    PROVE  NextByte'
<1>1. tx_used \in 0..TxRing + 1 /\ tx_used + 1 \in 0..TxRing + 1
  BY TxFacts
<1>2. Number(wantTx', tx_used, TxRing) = Number(wantTx, Flying + tx_used, TxRing)
  BY <1>1, Recounted
<1>3. Number(wantTx', tx_used + 1, TxRing) = Number(wantTx, Flying + tx_used + 1, TxRing)
  <2>1. Flying + (tx_used + 1) = Flying + tx_used + 1
    BY TxFacts
  <2> QED
    BY <1>1, <2>1, Recounted
<1>4. main'.at # "publish" => sentTx' = Number(wantTx', Flying' + tx_used', TxRing)
  BY <1>2 DEF NextByte
<1>5. main'.at = "store" => main'.i = tx_w'
  BY DEF NextByte
<1>6. ASSUME main'.at = "publish"
      PROVE  /\ main'.n > 0 /\ tx_used' < TxRing - 1 /\ main'.i = At(tx_w', 1, TxRing)
             /\ tx_ring'[tx_w'] = Number(wantTx', Flying' + tx_used', TxRing)
             /\ sentTx' = Number(wantTx', Flying' + tx_used' + 1, TxRing)
  <2>1. main' = main
    BY <1>6
  <2>2. tx_used' < TxRing - 1
    BY <1>6, <2>1, TxFacts DEF NextByte
  <2> QED
    BY <1>2, <1>3, <1>6, <2>1, <2>2 DEF NextByte
<1> QED
  BY <1>4, <1>5, <1>6 DEF NextByte

\* tx_kick after the packet under way has gone: the next packet is the oldest part of
\* the ring, and an endpoint that stays idle owes nothing.
LEMMA KickKeeps ==
    ASSUME CdcTypes, TxSide, NEW isConfigured \in BOOLEAN, NEW last \in 0..Mps,
           TxKick(isConfigured, FALSE, last), UNCHANGED <<tx_ring, tx_w>>,
           wantTx' = Number(wantTx, Flying, TxRing)
    PROVE  /\ FlightInOrder' /\ RingInOrder'
           /\ Flying' + tx_used' = tx_used /\ tx_used' \in 0..tx_used
           /\ isConfigured /\ ~tx_busy' => tx_used' = 0 /\ tx_last_len' # Mps
<1> DEFINE starts == isConfigured /\ (PacketLen > 0 \/ last = Mps)
           n == IF starts THEN PacketLen ELSE 0
<1>1. /\ tx_busy' = starts
      /\ tx_last_len' = (IF starts THEN PacketLen ELSE last)
      /\ tx_r' = (IF starts THEN At(tx_r, PacketLen, TxRing) ELSE tx_r)
      /\ flight' = (IF starts THEN [k \in 1..PacketLen |-> tx_ring[At(tx_r, k - 1, TxRing)]] ELSE <<>>)
  BY DEF TxKick, PacketLen
<1>2. /\ TxRing \in Nat \ {0} /\ Flying \in 0..TxRing - 1 /\ tx_used \in 0..TxRing - 1
      /\ tx_r \in 0..TxRing - 1 /\ tx_w \in 0..TxRing - 1 /\ wantTx \in 0..2 * TxRing - 1
      /\ PacketLen \in 0..tx_used /\ PacketLen \in 0..Mps /\ n \in 0..tx_used
  BY TxFacts
<1>3. tx_r' = At(tx_r, n, TxRing) /\ Flying' = n
  <2>1. CASE starts
    BY <1>1, <1>2, <2>1 DEF Flying
  <2>2. CASE ~starts
    <3>1. At(tx_r, 0, TxRing) = tx_r
      BY <1>2, 0 \in 0..TxRing, AtWraps
    <3>2. flight' = <<>>
      BY <1>1, <2>2
    <3>3. Flying' = 0
      BY <3>2 DEF Flying
    <3> QED
      BY <1>1, <2>2, <3>1, <3>3
  <2> QED
    BY <2>1, <2>2
<1>4. tx_used' = tx_used - n
  <2>1. n \in 0..Distance(tx_r, tx_w, TxRing)
    BY <1>2 DEF tx_used
  <2>2. Distance(At(tx_r, n, TxRing), tx_w, TxRing) = Distance(tx_r, tx_w, TxRing) - n
    BY <1>2, <2>1, DistanceShrinks
  <2> QED
    BY <1>3, <2>2 DEF tx_used
<1>5. FlightInOrder'
  <2> SUFFICES ASSUME NEW k \in 1..n
               PROVE  flight'[k] = Number(wantTx', k - 1, TxRing)
    BY <1>3 DEF FlightInOrder
  <2>1. starts /\ n = PacketLen /\ k \in 1..PacketLen
    BY <1>2
  <2>2. flight'[k] = tx_ring[At(tx_r, k - 1, TxRing)]
    BY <1>1, <2>1
  <2>3. k - 1 \in 0..tx_used - 1 /\ k - 1 \in 0..TxRing + 1
    BY <1>2, <2>1
  <2>4. tx_ring[At(tx_r, k - 1, TxRing)] = Number(wantTx, Flying + (k - 1), TxRing)
    BY <2>3 DEF TxSide, RingInOrder
  <2>5. Number(wantTx', k - 1, TxRing) = Number(wantTx, Flying + (k - 1), TxRing)
    BY <2>3, Recounted
  <2> QED
    BY <2>2, <2>4, <2>5
<1>6. RingInOrder'
  <2> SUFFICES ASSUME NEW k \in 0..tx_used - n - 1
               PROVE  tx_ring'[At(tx_r', k, TxRing)] = Number(wantTx', n + k, TxRing)
    BY <1>3, <1>4 DEF RingInOrder
  <2>1. /\ n + k \in 0..tx_used - 1 /\ n + k \in 0..TxRing + 1
        /\ n \in 0..TxRing /\ k \in 0..TxRing - n
    BY <1>2
  <2>2. At(tx_r', k, TxRing) = At(tx_r, n + k, TxRing)
    BY <1>2, <1>3, <2>1, AtAdds
  <2>3. tx_ring[At(tx_r, n + k, TxRing)] = Number(wantTx, Flying + (n + k), TxRing)
    BY <2>1 DEF TxSide, RingInOrder
  <2>4. Number(wantTx', n + k, TxRing) = Number(wantTx, Flying + (n + k), TxRing)
    BY <2>1, Recounted
  <2> QED
    BY <2>2, <2>3, <2>4
<1>7. ASSUME isConfigured, ~tx_busy'
      PROVE  tx_used' = 0 /\ tx_last_len' # Mps
  <2>1. ~starts
    BY <1>1, <1>7
  <2>2. PacketLen = 0 /\ last # Mps
    BY <1>2, <1>7, <2>1
  <2>3. tx_used = 0
    BY <1>2, <2>2 DEF PacketLen
  <2> QED
    BY <1>1, <1>2, <1>4, <2>1, <2>2, <2>3
<1> QED
  BY <1>2, <1>3, <1>4, <1>5, <1>6, <1>7

\* A completed packet, and a configuration that drops one.
LEMMA KickingKeeps ==
    ASSUME CdcTypes, TxSide, DataIn \/ SetConfiguration
    PROVE  TxSide'
<1>1. /\ wantTx' = Number(wantTx, Flying, TxRing)
      /\ UNCHANGED <<tx_ring, tx_w, sentTx, main>>
  BY DEF DataIn, SetConfiguration, Abandoned, Flying
<1>2. PICK last \in 0..Mps : TxKick(TRUE, FALSE, last)
  <2>1. tx_last_len \in 0..Mps /\ 0 \in 0..Mps
    BY DEF CdcTypes, FlightTypes
  <2>2. TxKick(TRUE, FALSE, tx_last_len) \/ TxKick(TRUE, FALSE, 0)
    BY DEF DataIn, SetConfiguration
  <2> QED
    BY <2>1, <2>2
<1>3. /\ FlightInOrder' /\ RingInOrder'
      /\ Flying' + tx_used' = tx_used /\ tx_used' \in 0..tx_used
      /\ ~tx_busy' => tx_used' = 0 /\ tx_last_len' # Mps
  BY <1>1, <1>2, KickKeeps
<1>4. NextByte'
  BY <1>1, <1>3, NextByteMoves DEF TxSide
<1> QED
  BY <1>3, <1>4 DEF TxSide, IdleSettled

\* A port that closes loses the packet under way, and nothing behind it.
LEMMA ClosingKeeps ==
    ASSUME CdcTypes, TxSide, Reset \/ Deconfigure
    PROVE  TxSide'
<1>1. /\ wantTx' = Number(wantTx, Flying, TxRing) /\ flight' = <<>> /\ configured' = FALSE
      /\ UNCHANGED <<tx_ring, tx_w, tx_r, sentTx, main>>
  BY DEF Reset, Deconfigure, Abandoned, Flying
<1>2. Flying' = 0 /\ tx_used' = tx_used
  BY <1>1 DEF Flying, tx_used
<1>3. tx_used \in 0..TxRing - 1
  BY TxFacts
<1>4. NextByte'
  BY <1>1, <1>2, <1>3, NextByteMoves DEF TxSide
<1>5. FlightInOrder'
  BY <1>2 DEF FlightInOrder
<1>6. RingInOrder'
  <2> SUFFICES ASSUME NEW k \in 0..tx_used - 1
               PROVE  tx_ring[At(tx_r, k, TxRing)] = Number(wantTx', 0 + k, TxRing)
    BY <1>1, <1>2 DEF RingInOrder
  <2>1. k \in 0..TxRing + 1 /\ 0 + k = k
    BY <1>3
  <2>2. Number(wantTx', k, TxRing) = Number(wantTx, Flying + k, TxRing)
    BY <1>1, <2>1, Recounted
  <2> QED
    BY <2>1, <2>2 DEF TxSide, RingInOrder
<1> QED
  BY <1>1, <1>4, <1>5, <1>6 DEF TxSide, IdleSettled

\* The steps that leave the transmitter alone.
LEMMA TxFrame ==
    ASSUME TxSide, UNCHANGED <<configured, tx_ring, tx_w, tx_r, tx_busy, tx_last_len, flight, wantTx, sentTx>>,
           main' = main \/ (main.at \notin {"store", "publish"} /\ main'.at \notin {"store", "publish"})
    PROVE  TxSide'
<1>1. Flying' = Flying /\ tx_used' = tx_used
  BY DEF Flying, tx_used
<1>2. FlightInOrder' /\ RingInOrder'
  BY <1>1 DEF TxSide, FlightInOrder, RingInOrder
<1>3. NextByte'
  BY <1>1 DEF TxSide, NextByte
<1>4. IdleSettled'
  BY <1>1 DEF TxSide, IdleSettled, Writing
<1> QED
  BY <1>2, <1>3, <1>4 DEF TxSide

\* A byte goes into the slot after the last, which no handler reads yet.
LEMMA WriteStoreKeeps ==
    ASSUME CdcTypes, TxSide, WriteStore
    PROVE  TxSide'
<1>1. /\ TxRing \in Nat \ {0} /\ Flying \in 0..TxRing - 1 /\ tx_used \in 0..TxRing - 1
      /\ tx_r \in 0..TxRing - 1 /\ tx_w \in 0..TxRing - 1
      /\ wantTx \in 0..2 * TxRing - 1 /\ sentTx \in 0..2 * TxRing - 1
  BY TxFacts
<1>2. /\ main.at = "store" /\ main.i = tx_w /\ tx_used < TxRing - 1
      /\ sentTx = Number(wantTx, Flying + tx_used, TxRing)
  BY <1>1 DEF WriteStore, At_, tx_free, TxSide, NextByte
<1>3. /\ tx_ring' = [tx_ring EXCEPT ![tx_w] = sentTx]
      /\ sentTx' = Number(sentTx, 1, TxRing)
      /\ main'.at = "publish" /\ main'.i = At(tx_w, 1, TxRing) /\ main'.n = main.n + 1
      /\ UNCHANGED <<configured, tx_w, tx_r, tx_busy, tx_last_len, flight, wantTx>>
  BY <1>2 DEF WriteStore, port
<1>4. Flying' = Flying /\ tx_used' = tx_used
  BY <1>3 DEF Flying, tx_used
<1>5. FlightInOrder'
  BY <1>3, <1>4 DEF TxSide, FlightInOrder
<1>6. RingInOrder'
  <2> SUFFICES ASSUME NEW k \in 0..tx_used - 1
               PROVE  tx_ring'[At(tx_r, k, TxRing)] = Number(wantTx, Flying + k, TxRing)
    BY <1>3, <1>4 DEF RingInOrder
  <2>1. k \in 0..TxRing - 1 /\ k \in 0..TxRing
    BY <1>1
  <2>2. At(tx_r, k, TxRing) \in 0..TxRing - 1
    BY <1>1, <2>1, AtWraps
  <2>3. Distance(tx_w, At(tx_r, k, TxRing), TxRing) = TxRing - tx_used + k
    BY <1>1, <2>1, BehindOrAhead DEF tx_used
  <2>4. Distance(tx_w, tx_w, TxRing) = 0
    BY <1>1 DEF Distance
  <2>5. At(tx_r, k, TxRing) # tx_w
    BY <1>1, <2>1, <2>3, <2>4
  <2> QED
    BY <1>3, <2>2, <2>5 DEF TxSide, RingInOrder, CdcTypes, TxTypes
<1>7. NextByte'
  <2>1. tx_ring'[tx_w] = sentTx
    BY <1>1, <1>3 DEF CdcTypes, TxTypes
  <2>2. Flying + tx_used \in 0..2 * TxRing /\ 1 \in 0..2 * TxRing - (Flying + tx_used)
    BY <1>1
  <2>3. sentTx' = Number(wantTx, Flying + tx_used + 1, TxRing)
    BY <1>1, <1>2, <1>3, <2>2, NumberAdds
  <2>4. main.n + 1 > 0
    BY DEF CdcTypes, MainTypes
  <2> QED
    BY <1>2, <1>3, <1>4, <2>1, <2>3, <2>4 DEF NextByte
<1>8. IdleSettled'
  <2>1. main.n + 1 > 0
    BY DEF CdcTypes, MainTypes
  <2> QED
    BY <1>3, <2>1 DEF IdleSettled, Writing
<1> QED
  BY <1>5, <1>6, <1>7, <1>8 DEF TxSide

\* The index moves over a byte that is there.
LEMMA WritePublishKeeps ==
    ASSUME CdcTypes, TxSide, WritePublish
    PROVE  TxSide'
<1>1. /\ TxRing \in Nat \ {0} /\ Flying \in 0..TxRing - 1 /\ tx_used \in 0..TxRing - 1
      /\ tx_r \in 0..TxRing - 1 /\ tx_w \in 0..TxRing - 1
  BY TxFacts
<1>2. /\ main.at = "publish" /\ main.n > 0 /\ tx_used < TxRing - 1 /\ main.i = At(tx_w, 1, TxRing)
      /\ tx_ring[tx_w] = Number(wantTx, Flying + tx_used, TxRing)
      /\ sentTx = Number(wantTx, Flying + tx_used + 1, TxRing)
  BY DEF WritePublish, At_, TxSide, NextByte
<1>3. /\ main'.at = "store" /\ main'.i = main.i /\ main'.n = main.n
      /\ tx_w' = At(tx_w, 1, TxRing)
      /\ UNCHANGED <<configured, tx_ring, tx_r, tx_busy, tx_last_len, flight, wantTx, sentTx>>
  BY <1>2 DEF WritePublish, Go, CdcTypes, MainTypes, port
<1>4. Flying' = Flying /\ tx_used' = tx_used + 1
  <2>1. 1 \in 0..TxRing - 1 - Distance(tx_r, tx_w, TxRing)
    BY <1>1, <1>2 DEF tx_used
  <2>2. Distance(tx_r, At(tx_w, 1, TxRing), TxRing) = Distance(tx_r, tx_w, TxRing) + 1
    BY <1>1, <2>1, DistanceGrows
  <2> QED
    BY <1>3, <2>2 DEF Flying, tx_used
<1>5. FlightInOrder'
  BY <1>3, <1>4 DEF TxSide, FlightInOrder
<1>6. RingInOrder'
  <2> SUFFICES ASSUME NEW k \in 0..tx_used
               PROVE  tx_ring[At(tx_r, k, TxRing)] = Number(wantTx, Flying + k, TxRing)
    BY <1>1, <1>3, <1>4 DEF RingInOrder
  <2>1. CASE k < tx_used
    <3>1. k \in 0..tx_used - 1
      BY <1>1, <2>1
    <3> QED
      BY <3>1 DEF TxSide, RingInOrder
  <2>2. CASE k = tx_used
    <3>1. At(tx_r, tx_used, TxRing) = tx_w
      <4>1. tx_used \in 0..TxRing
        BY <1>1
      <4>2. At(tx_r, tx_used, TxRing) = IF tx_r + tx_used < TxRing THEN tx_r + tx_used ELSE tx_r + tx_used - TxRing
        BY <1>1, <4>1, AtWraps
      <4> QED
        BY <1>1, <4>2 DEF tx_used, Distance
    <3> QED
      BY <1>2, <2>2, <3>1
  <2> QED
    BY <1>1, <2>1, <2>2
<1>7. NextByte'
  <2>1. Flying + tx_used + 1 = Flying + (tx_used + 1)
    BY <1>1
  <2> QED
    BY <1>2, <1>3, <1>4, <2>1 DEF NextByte
<1>8. IdleSettled'
  BY <1>2, <1>3 DEF IdleSettled, Writing
<1> QED
  BY <1>5, <1>6, <1>7, <1>8 DEF TxSide

\* The kick at the end of a line; a line of which nothing fitted found a full ring, so
\* that a packet is under way or the port is closed.
LEMMA WriteEndKeeps ==
    ASSUME CdcTypes, TxSide, WriteEnd
    PROVE  TxSide'
<1>1. /\ Flying \in 0..TxRing - 1 /\ tx_used \in 0..TxRing - 1 /\ wantTx \in 0..2 * TxRing - 1
      /\ ~tx_busy => Flying = 0
  BY TxFacts
<1>2. /\ main.at = "store" /\ main'.at = "idle"
      /\ UNCHANGED <<configured, tx_ring, tx_w, wantTx, sentTx>>
  BY DEF WriteEnd, GoFresh, At_, port
<1>3. CASE main.n > 0 /\ ~tx_busy
  <2>1. TxKick(configured, FALSE, tx_last_len)
    BY <1>3 DEF WriteEnd, CdcTypes, FlightTypes
  <2>2. wantTx' = Number(wantTx, Flying, TxRing)
    <3>1. Number(wantTx, 0, TxRing) = wantTx
      BY <1>1, 0 \in 0..2 * TxRing, TxRing \in Nat \ {0}, NumberWraps
    <3> QED
      BY <1>1, <1>2, <1>3, <3>1
  <2>3. configured \in BOOLEAN /\ tx_last_len \in 0..Mps
    BY DEF CdcTypes, PortTypes, FlightTypes
  <2>4. /\ FlightInOrder' /\ RingInOrder'
        /\ Flying' + tx_used' = tx_used /\ tx_used' \in 0..tx_used
        /\ configured /\ ~tx_busy' => tx_used' = 0 /\ tx_last_len' # Mps
    BY <1>2, <2>1, <2>2, <2>3, KickKeeps
  <2>5. NextByte'
    BY <1>2, <2>2, <2>4, NextByteMoves DEF TxSide
  <2> QED
    BY <1>2, <2>4, <2>5 DEF TxSide, IdleSettled
<1>4. CASE ~(main.n > 0) \/ tx_busy
  <2>1. UNCHANGED <<tx_r, tx_busy, tx_last_len, flight>>
    <3>1. CASE main.n > 0
      <4>1. TxKick(configured, tx_busy, tx_last_len) /\ tx_busy = TRUE
        BY <1>4, <3>1 DEF WriteEnd, CdcTypes, FlightTypes
      <4> QED
        BY <4>1 DEF TxKick
    <3>2. CASE ~(main.n > 0)
      BY <3>2 DEF WriteEnd
    <3> QED
      BY <3>1, <3>2
  <2>2. Flying' = Flying /\ tx_used' = tx_used
    BY <1>2, <2>1 DEF Flying, tx_used
  <2>3. FlightInOrder' /\ RingInOrder'
    BY <1>2, <2>1, <2>2 DEF TxSide, FlightInOrder, RingInOrder
  <2>4. NextByte'
    BY <1>2, <2>2 DEF TxSide, NextByte
  <2>5. IdleSettled'
    <3>1. CASE tx_busy
      BY <2>1, <3>1 DEF IdleSettled
    <3>2. CASE ~tx_busy
      <4>1. ~Writing
        BY <1>4, <3>2 DEF Writing
      <4>2. tx_used > 0
        <5>1. main.n \in Nat
          BY DEF CdcTypes, MainTypes
        <5>2. tx_free = 0
          BY <1>4, <3>2, <5>1 DEF WriteEnd
        <5> QED
          BY <1>1, <5>2 DEF tx_free
      <4> QED
        BY <1>1, <1>2, <2>1, <2>2, <4>1, <4>2 DEF TxSide, IdleSettled
    <3> QED
      BY <3>1, <3>2
  <2> QED
    BY <2>3, <2>4, <2>5 DEF TxSide
<1> QED
  BY <1>3, <1>4

LEMMA TxKeeps ==
    ASSUME CdcTypes, TxSide, [Next]_vars
    PROVE  TxSide'
<1>1. CASE DataIn \/ SetConfiguration
  BY <1>1, KickingKeeps
<1>2. CASE Reset \/ Deconfigure
  BY <1>2, ClosingKeeps
<1>3. CASE WriteStore
  BY <1>3, WriteStoreKeeps
<1>4. CASE WritePublish
  BY <1>4, WritePublishKeeps
<1>5. CASE WriteEnd
  BY <1>5, WriteEndKeeps
<1>6. CASE WriteBegin
  <2>1. UNCHANGED <<configured, tx_ring, tx_w, tx_r, tx_busy, tx_last_len, flight, wantTx, sentTx>>
    BY <1>6 DEF WriteBegin, tx, port
  <2>2. CASE configured
    <3>1. main.at = "idle" /\ main'.at = "store" /\ main'.i = tx_w
      BY <1>6, <2>2 DEF WriteBegin, At_
    <3>2. Flying' = Flying /\ tx_used' = tx_used
      BY <2>1 DEF Flying, tx_used
    <3>3. FlightInOrder' /\ RingInOrder'
      BY <2>1, <3>2 DEF TxSide, FlightInOrder, RingInOrder
    <3>4. NextByte'
      BY <2>1, <3>1, <3>2 DEF TxSide, NextByte
    <3>5. IdleSettled'
      BY <2>1, <3>1, <3>2 DEF TxSide, IdleSettled, Writing
    <3> QED
      BY <3>3, <3>4, <3>5 DEF TxSide
  <2>3. CASE ~configured
    BY <1>6, <2>1, <2>3, TxFrame DEF WriteBegin
  <2> QED
    BY <2>2, <2>3
<1>7. CASE Read \/ (\E n \in 1..Mps : DataOut(n)) \/ UNCHANGED vars
  <2>1. UNCHANGED <<configured, tx_ring, tx_w, tx_r, tx_busy, tx_last_len, flight, wantTx, sentTx>>
    BY <1>7 DEF Read, ReadBegin, ReadByte, ReadEnd, ReadLook, ReadResume, DataOut, vars, tx, port
  <2>2. main' = main \/ (main.at \notin {"store", "publish"} /\ main'.at \notin {"store", "publish"})
    <3>1. CASE ReadBegin
      BY <3>1 DEF ReadBegin, At_
    <3>2. CASE ReadByte
      <4>1. main \in [at : Steps, i : Nat, n : Nat]
        BY DEF CdcTypes, MainTypes
      <4> QED
        BY <3>2, <4>1 DEF ReadByte, At_
    <3>3. CASE ReadEnd \/ ReadLook \/ ReadResume
      BY <3>3 DEF ReadEnd, ReadLook, ReadResume, At_, GoFresh
    <3>4. CASE (\E n \in 1..Mps : DataOut(n)) \/ UNCHANGED vars
      BY <3>4 DEF DataOut, vars
    <3> QED
      BY <1>7, <3>1, <3>2, <3>3, <3>4 DEF Read
  <2> QED
    BY <2>1, <2>2, TxFrame
<1> QED
  BY <1>1, <1>2, <1>3, <1>4, <1>5, <1>6, <1>7 DEF Next, Write, Handler

LEMMA TxInvariance == Spec => []TxSide
<1>1. Init => TxSide
  <2> SUFFICES ASSUME Init PROVE TxSide
    OBVIOUS
  <2>1. Flying = 0 /\ tx_used = 0
    <3>1. flight = <<>>
      BY DEF Init
    <3> QED
      BY <3>1 DEF Init, Flying, tx_used, Distance
  <2>2. Number(0, 0, TxRing) = 0
    BY 0 \in 0..2 * TxRing - 1, 0 \in 0..2 * TxRing, TxRing \in Nat \ {0}, NumberWraps
  <2> QED
    BY <2>1, <2>2 DEF Init, TxSide, FlightInOrder, RingInOrder, NextByte, IdleSettled
<1> QED
  BY <1>1, TxKeeps, CdcTyped, PTL DEF Spec

\* What is on its way to the host - the packet under way, then the ring - are the bytes
\* of usb_cdc_write in their order, though the handler takes packets out at any step.
THEOREM SendsInOrder == Spec => []TxInOrder
<1>1. TxSide => TxInOrder
  BY DEF TxSide, FlightInOrder, RingInOrder, Flying, TxInOrder
<1> QED
  BY <1>1, TxInvariance, PTL

\* tx_kick leaves nothing behind: an idle endpoint of a configured port has an empty
\* ring, and ended its last transfer with a short packet.
THEOREM IdleIsSettled == Spec => []IdleOwesNothing
<1>1. TxSide => IdleOwesNothing
  BY DEF TxSide, IdleSettled, Writing, IdleOwesNothing
<1> QED
  BY <1>1, TxInvariance, PTL

\* usb_cdc_read and usb_cdc_write against the handlers, in both directions: for rings,
\* packets and lines of every size no byte is lost, repeated or overtaken.
THEOREM BytesStayInOrder == Spec => []BytesInOrder
  BY ReceivesInOrder, SendsInOrder, PTL DEF BytesInOrder

\* rx_arm and tx_kick: an armed endpoint has space, a pause is remembered, an idle endpoint
\* owes nothing, wherever the interrupt falls.
THEOREM FlowControlIsKept == Spec => []FlowControlHolds
  BY ArmedMeansRoom, NeverForgotten, IdleIsSettled, PTL DEF FlowControlHolds

-----------------------------------------------------------------------------
(* Control transfers: UsbControl *)

\* The states of endpoint 0, as the request under way brings them about: a data
\* stage always belongs to the request that the host waits for.  What a cut-off
\* request leaves in ep0, rem and of is never read.
TransferInv ==
    /\ asked \in Requests \cup {Nothing}
    /\ stage \in {"in", "out", Nothing}
    /\ stage # Nothing => asked # Nothing
    /\ ep0 = "data_in" => asked \in Gets /\ of = asked
    /\ ep0 = "data_out" => asked = "set_coding"
    /\ stage = "in" /\ asked \in Gets => ep0 = "data_in"

\* What is proved to be inductive.
ControlInv == TransferInv /\ StagesAgree /\ AnswersWhatWasAsked

-----------------------------------------------------------------------------
\* A setup packet starts its transfer from nothing, whatever was under way.
LEMMA SetupKeeps ==
    ASSUME ControlInv, NEW r \in Requests, Setup(r)
    PROVE  ControlInv'
<1> USE DEF ControlInv, TransferInv, StagesAgree, AnswersWhatWasAsked, Requests, Gets, Statuses, Nothing
<1>1. asked' = r
  BY DEF Setup
<1>2. CASE r \in Gets
  BY <1>1, <1>2 DEF Setup, Ep0Send
<1>3. CASE r \in Statuses
  BY <1>1, <1>3 DEF Setup, Ep0StatusIn
<1>4. CASE r = "set_coding"
  BY <1>1, <1>4 DEF Setup
<1>5. CASE r = "unknown"
  BY <1>1, <1>5 DEF Setup, Ep0Stall
<1> QED
  BY <1>2, <1>3, <1>4, <1>5

\* A packet taken on the IN side is followed by the rest of the same data stage,
\* by its status, or by nothing.
LEMMA InKeeps ==
    ASSUME ControlInv, Ep0In
    PROVE  ControlInv'
<1> USE DEF ControlInv, TransferInv, StagesAgree, AnswersWhatWasAsked, Requests, Gets, Statuses, Nothing
<1>1. asked' = asked /\ of' = of
  BY DEF Ep0In
<1>2. CASE ep0 = "data_in" /\ rem > 0
  BY <1>1, <1>2 DEF Ep0In
<1>3. CASE ep0 = "data_in" /\ rem = 0
  BY <1>1, <1>3 DEF Ep0In
<1>4. CASE ep0 # "data_in"
  BY <1>1, <1>4 DEF Ep0In
<1> QED
  BY <1>2, <1>3, <1>4 DEF Ep0In

LEMMA OutKeeps ==
    ASSUME ControlInv, Ep0Out
    PROVE  ControlInv'
  BY DEF Ep0Out, ControlInv, TransferInv, StagesAgree, AnswersWhatWasAsked, Requests, Gets, Statuses, Nothing

LEMMA ControlInductive ==
    ASSUME ControlInv, [ControlNext]_controlVars
    PROVE  ControlInv'
<1>1. CASE \E r \in Requests : Setup(r)
  BY <1>1, SetupKeeps
<1>2. CASE Ep0In
  BY <1>2, InKeeps
<1>3. CASE Ep0Out
  BY <1>3, OutKeeps
<1>4. CASE BusReset
  BY <1>4 DEF BusReset, ControlInv, TransferInv, StagesAgree, AnswersWhatWasAsked, Nothing
<1>5. CASE UNCHANGED control
  BY <1>5 DEF control, ControlInv, TransferInv, StagesAgree, AnswersWhatWasAsked
<1> QED
  BY <1>1, <1>2, <1>3, <1>4, <1>5 DEF ControlNext, controlVars, Suspend, Resume, Poll, Tick

THEOREM ControlInvariance == ControlSpec => []ControlInv
<1>1. ControlInit => ControlInv
  BY DEF ControlInit, ControlInv, TransferInv, StagesAgree, AnswersWhatWasAsked, Nothing
<1> QED
  BY <1>1, ControlInductive, PTL DEF ControlSpec

\* HAL_PCD_SetupStageCallback and the two data stage callbacks: whichever transfer
\* a request cuts short, the device has queued what the host asks for next.
THEOREM StagesAlwaysAgree == ControlSpec => []StagesAgree
  BY ControlInvariance, PTL DEF ControlInv

\* No packet on endpoint 0 is left over from a request that was cut short.
THEOREM AnswersBelong == ControlSpec => []AnswersWhatWasAsked
  BY ControlInvariance, PTL DEF ControlInv

-----------------------------------------------------------------------------
\* usb_cdc_link_up: the gate of the telemetry is open only for a host that has the
\* port open in a configured device, through resets, suspends and reconfigurations.
THEOREM GateIsHosts == ControlSpec => []GateNeedsHost
<1>1. ControlInit => GateNeedsHost
  BY DEF ControlInit, GateNeedsHost
<1>2. ASSUME GateNeedsHost, [ControlNext]_controlVars
      PROVE  GateNeedsHost'
  <2>1. CASE \E r \in Requests : Setup(r)
    BY <1>2, <2>1 DEF GateNeedsHost, Setup, SetupEffect
  <2>2. CASE BusReset \/ Suspend
    BY <1>2, <2>2 DEF GateNeedsHost, BusReset, Suspend
  <2>3. CASE UNCHANGED <<is_configured, dtr, opened>>
    BY <1>2, <2>3 DEF GateNeedsHost
  <2> QED
    BY <1>2, <2>1, <2>2, <2>3 DEF ControlNext, controlVars, link, Ep0In, Ep0Out, Resume, Poll, Tick
<1> QED
  BY <1>1, <1>2, PTL DEF ControlSpec

\* Device and host agree on endpoint 0, and the gate of the telemetry is the host's.
THEOREM ControlIsHeld == ControlSpec => []ControlHolds
  BY StagesAlwaysAgree, AnswersBelong, GateIsHosts, PTL DEF ControlHolds

-----------------------------------------------------------------------------
(* Recursion over the messages of a publication *)

LEMMA NatMin ==
  ASSUME NEW S \in SUBSET Nat, S # {}
  PROVE  \E x \in S : \A y \in S : x <= y
<1> DEFINE R == OpToRel(<, Nat)
<1>1. IsWellFoundedOn(R, Nat)
  BY NatLessThanWellFounded
<1>2. \A x, y \in Nat : <<y, x>> \in R <=> y < x
  BY DEF OpToRel
<1> HIDE DEF R
<1>3. PICK x \in S : \A y \in S : <<y, x>> \notin R
  BY <1>1, WFMin
<1>4. ASSUME NEW y \in S PROVE x <= y
  <2>1. x \in Nat /\ y \in Nat
    OBVIOUS
  <2>2. ~(y < x)
    BY <1>2, <1>3, <2>1
  <2>3. QED
    BY <2>1, <2>2
<1>5. QED
  BY <1>4

\* A set of places of a sequence that holds the first and, with each, the next.
LEMMA Upward ==
  ASSUME NEW n \in Nat, NEW S, 0 \in S, \A i \in 1 .. n : i - 1 \in S => i \in S
  PROVE  0 .. n \subseteq S
<1>1. SUFFICES ASSUME (0 .. n) \ S # {} PROVE FALSE
  OBVIOUS
<1>2. PICK x \in (0 .. n) \ S : \A y \in (0 .. n) \ S : x <= y
  <2>1. (0 .. n) \ S \in SUBSET Nat
    OBVIOUS
  <2>2. QED
    BY <1>1, <2>1, NatMin
<1>3. x \in 1 .. n /\ x - 1 \in 0 .. n /\ ~(x <= x - 1)
  BY <1>2
<1>4. x - 1 \in S
  BY <1>2, <1>3
<1>5. QED
  BY <1>2, <1>3, <1>4

\* What is computed step by step exists.
Stepped(n, T, a, step, f) ==
    f \in [0 .. n -> T] /\ f[0] = a /\ \A i \in 1 .. n : f[i] = step[i][f[i - 1]]

LEMMA RecursionExists ==
  ASSUME NEW n \in Nat, NEW T, NEW a \in T, NEW step, step \in [1 .. n -> [T -> T]]
  PROVE  \E f : Stepped(n, T, a, step, f)
<1> DEFINE Good(m, f) == f[0] = a /\ \A i \in 1 .. m : f[i] = step[i][f[i - 1]]
           S == {m \in 0 .. n : \E f \in [0 .. m -> T] : Good(m, f)}
<1>1. 0 \in S
  <2>1. [i \in 0 .. 0 |-> a] \in [0 .. 0 -> T] /\ Good(0, [i \in 0 .. 0 |-> a])
    OBVIOUS
  <2> HIDE DEF Good
  <2>2. QED
    BY <2>1
<1>2. ASSUME NEW m \in 1 .. n, m - 1 \in S PROVE m \in S
  <2>1. PICK f \in [0 .. m - 1 -> T] : Good(m - 1, f)
    BY <1>2
  <2> DEFINE g == [i \in 0 .. m |-> IF i = m THEN step[m][f[m - 1]] ELSE f[i]]
  <2>2. m - 1 \in 0 .. m - 1 /\ f[m - 1] \in T /\ step[m] \in [T -> T]
    BY <1>2
  <2>3. g \in [0 .. m -> T]
    <3>1. \A i \in 0 .. m : i # m => i \in 0 .. m - 1
      OBVIOUS
    <3>2. QED
      BY <2>2, <3>1
  <2>4. g[0] = a
    BY <2>1, <1>2
  <2>5. ASSUME NEW i \in 1 .. m PROVE g[i] = step[i][g[i - 1]]
    <3>1. i - 1 \in 0 .. m /\ i - 1 # m /\ g[i - 1] = f[i - 1]
      BY <1>2
    <3>2. CASE i = m
      BY <3>1, <3>2
    <3>3. CASE i # m
      <4>1. i \in 1 .. m - 1 /\ i \in 0 .. m
        BY <3>3
      <4>2. f[i] = step[i][f[i - 1]] /\ g[i] = f[i]
        BY <2>1, <3>3, <4>1
      <4>3. QED
        BY <3>1, <4>2
    <3>4. QED
      BY <3>2, <3>3
  <2>6. Good(m, g)
    BY <2>4, <2>5
  <2> HIDE DEF Good, g
  <2>7. QED
    BY <2>3, <2>6
<1>3. n \in S
  <2> HIDE DEF S
  <2>1. 0 .. n \subseteq S
    BY <1>1, <1>2, Upward
  <2>2. QED
    BY <2>1
<1>4. QED
  BY <1>3 DEF Stepped
-----------------------------------------------------------------------------
(* BUS-OFF (CanBusOff) *)

\* The budget of the bus has counted no more bus-offs than the history has seen since a
\* frame found a mailbox, and an event that was counted is remembered while it lasts.
BoffInv ==
    /\ boff \in BOOLEAN /\ boff_latched \in BOOLEAN
    /\ counted \in 0 .. 1 /\ (boff /\ counted = 1 => boff_latched)
    /\ streak \in 0 .. FaultAt
    /\ can_errb \in Budgets /\ can_errb.consecutive <= streak

BoffSpec == BoffInit /\ [][BoffNext]_boffVars

LEMMA BoffInvInit == BoffInit => BoffInv
<1>1. FaultAt \in Nat \ {0} /\ RecoverOk \in Nat \ {0}
  BY BudgetAssumption
<1>2. Unspent \in Budgets /\ Unspent.consecutive = 0
  BY <1>1 DEF Unspent, Budgets
<1>3. SUFFICES ASSUME BoffInit PROVE BoffInv
  OBVIOUS
<1>4. boff = FALSE /\ boff_latched = FALSE /\ can_errb = Unspent /\ counted = 0 /\ streak = 0
  BY <1>3 DEF BoffInit
<1>5. counted \in 0 .. 1 /\ streak \in 0 .. FaultAt /\ can_errb.consecutive <= streak
  BY <1>1, <1>2, <1>4
<1>6. QED
  BY <1>2, <1>4, <1>5 DEF BoffInv

LEMMA BoffInvStep ==
  ASSUME BoffInv, [BoffNext]_boffVars
  PROVE  BoffInv' /\ (can_errb'.faulted /\ ~can_errb.faulted => streak' >= FaultAt)
<1>1. FaultAt \in Nat \ {0} /\ RecoverOk \in Nat \ {0}
  BY BudgetAssumption
<1>2. CASE GoesOff \/ ComesBack \/ UNCHANGED boffVars
  <2>1. /\ boff' \in BOOLEAN /\ counted' \in {0, counted} /\ boff_latched' = boff_latched
        /\ (boff' => counted' = 0 \/ (boff /\ counted' = counted))
        /\ can_errb' = can_errb /\ streak' = streak
    <3>1. CASE GoesOff
      BY <3>1 DEF GoesOff, BoffInv
    <3>2. CASE ComesBack
      BY <3>2 DEF ComesBack, BoffInv
    <3>3. CASE UNCHANGED boffVars
      BY <3>3 DEF boffVars, BoffInv
    <3>4. QED
      BY <1>2, <3>1, <3>2, <3>3
  <2>2. QED
    BY <2>1 DEF BoffInv
<1>3. ASSUME NEW moved \in BOOLEAN, PollBoff(moved)
      PROVE  BoffInv' /\ (can_errb'.faulted /\ ~can_errb.faulted => streak' >= FaultAt)
  <2> DEFINE e == Paid(can_errb, moved)
             s == IF moved THEN 0 ELSE streak
  <2>1. /\ e \in Budgets /\ e.consecutive <= s /\ (e.faulted => can_errb.faulted)
        /\ s \in 0 .. FaultAt
    BY <1>1 DEF Paid, Ok, BoffInv, Budgets, UpTo
  <2>2. /\ can_errb' = (IF Counts THEN Fail(e) ELSE e)
        /\ streak' = UpTo(FaultAt, s + (IF Counts THEN 1 ELSE 0))
        /\ counted' = (IF Counts THEN UpTo(2, counted + 1) ELSE counted)
        /\ boff_latched' = boff /\ boff' = boff
    BY <1>3 DEF PollBoff
  <2> HIDE DEF e, s
  <2>3. CASE Counts
    <3>1. boff /\ ~boff_latched /\ counted = 0
      BY <2>3 DEF Counts, BoffInv
    <3>2. /\ Fail(e) \in Budgets /\ Fail(e).consecutive = UpTo(FaultAt, e.consecutive + 1)
          /\ Fail(e).faulted => e.faulted \/ e.consecutive + 1 >= FaultAt
      BY <1>1, <2>1 DEF Fail, Budgets, UpTo
    <3>3. e.consecutive \in 0 .. FaultAt
      BY <2>1 DEF Budgets
    <3>4. /\ streak' \in 0 .. FaultAt /\ can_errb'.consecutive <= streak'
          /\ can_errb'.faulted /\ ~can_errb.faulted => streak' >= FaultAt
      BY <1>1, <2>1, <2>2, <2>3, <3>2, <3>3 DEF UpTo
    <3>5. counted' = 1
      BY <2>2, <2>3, <3>1 DEF UpTo
    <3>6. QED
      BY <2>2, <2>3, <3>1, <3>2, <3>4, <3>5 DEF BoffInv
  <2>4. CASE ~Counts
    BY <1>1, <2>1, <2>2, <2>4 DEF BoffInv, UpTo, Counts
  <2>5. QED
    BY <2>3, <2>4
<1>4. QED
  BY <1>2, <1>3 DEF BoffNext

\* A bus-off is counted once, and the fault of the bus takes a streak of them.
THEOREM BusOffIsHonest ==
  BoffSpec => []EventCountedOnce /\ BusFaultIsEarned
<1>1. BoffInv /\ [BoffNext]_boffVars =>
         BoffInv' /\ [can_errb'.faulted /\ ~can_errb.faulted => streak' >= FaultAt]_boffVars
  BY BoffInvStep
<1>2. BoffInv => EventCountedOnce
  BY DEF BoffInv, EventCountedOnce
<1>3. QED
  BY <1>1, <1>2, BoffInvInit, PTL DEF BoffSpec, BusFaultIsEarned
-----------------------------------------------------------------------------
(* THE RING AND THE MAILBOXES (CanPort) *)

PortSpec == Port!PortInit /\ [][Port!PortNext]_(Port!portVars)

\* A frame carries the number of its packet, and the history the tag of the same packet.
FrameSet ==
    {f \in [kind : Port!KindSet, part : Nat, seq : Nat, tag : Nat] :
        /\ f.part \in 1 .. Parts[f.kind] /\ f.seq = f.tag % Numbers
        /\ Parts[f.kind] = 1 => f.tag = 0}

\* So does the packet a receiver is at.
Taking ==
    {g \in [seq : Nat, part : Nat, tag : Nat, torn : BOOLEAN] : g.seq = g.tag % Numbers}

CanTypes ==
    /\ ring \in Seq(FrameSet) /\ mbox \in [1 .. 3 -> FrameSet \cup {Port!None}]
    /\ got \in [Port!KindSet -> Taking] /\ reused \in [Port!KindSet -> BOOLEAN]
    /\ seq \in [Port!KindSet -> Nat] /\ sends \in [Port!KindSet -> Nat]
    /\ \A k \in Port!KindSet : /\ seq[k] = sends[k] % Numbers
                               /\ Parts[k] = 1 => sends[k] = 0

\* The tags of the packets of a kind that are under way.
TagsOf(k) == {f.tag : f \in Port!Underway(k)}

\* No two of them have the same number, unless the number came round while a frame of the
\* first was still about.
Apart == \A k \in Port!KindSet :
            ~reused[k] => \A a, b \in TagsOf(k) : a % Numbers = b % Numbers => a = b

\* And what a receiver took is of one packet, but for that.
Whole == \A k \in Port!KindSet : ~reused[k] => ~got[k].torn

PortInv == CanTypes /\ Apart /\ Whole

LEMMA Remainder ==
  ASSUME NEW N \in Nat \ {0}, NEW q \in Nat, NEW r \in 0 .. N - 1
  PROVE  (N * q + r) % N = r
BY Z3

\* The number of the next packet is the next number.
LEMMA NextNumber ==
  ASSUME NEW N \in Nat \ {0}, NEW a \in Nat
  PROVE  a % N \in 0 .. N - 1 /\ ((a % N) + 1) % N = (a + 1) % N
<1> DEFINE S == {n \in 0 .. a : \E q \in Nat, r \in 0 .. N - 1 : n = N * q + r}
<1>1. 0 \in S
  <2>1. 0 = N * 0 + 0 /\ 0 \in 0 .. N - 1
    OBVIOUS
  <2>2. QED
    BY <2>1
<1>2. ASSUME NEW i \in 1 .. a, i - 1 \in S PROVE i \in S
  <2>1. PICK q \in Nat, r \in 0 .. N - 1 : i - 1 = N * q + r
    BY <1>2
  <2>2. CASE r + 1 < N
    <3>1. i = N * q + (r + 1) /\ r + 1 \in 0 .. N - 1
      BY <2>1, <2>2
    <3>2. QED
      BY <3>1
  <2>3. CASE r + 1 = N
    <3>1. i = N * (q + 1) + 0 /\ q + 1 \in Nat /\ 0 \in 0 .. N - 1
      BY <2>1, <2>3
    <3>2. QED
      BY <3>1
  <2>4. QED
    BY <2>2, <2>3
<1>3. a \in S
  <2> HIDE DEF S
  <2>1. 0 .. a \subseteq S
    BY <1>1, <1>2, Upward
  <2>2. QED
    BY <2>1
<1>4. PICK q \in Nat, r \in 0 .. N - 1 : a = N * q + r
  BY <1>3
<1>5. a % N = r
  BY <1>4, Remainder
<1>6. CASE r + 1 < N
  <2>1. a + 1 = N * q + (r + 1) /\ r + 1 \in 0 .. N - 1
    BY <1>4, <1>6
  <2>2. (a + 1) % N = r + 1
    BY <2>1, Remainder
  <2>3. QED
    BY <1>5, <2>1, <2>2
<1>7. CASE r + 1 = N
  <2>1. a + 1 = N * (q + 1) + 0 /\ q + 1 \in Nat /\ 0 \in 0 .. N - 1
    BY <1>4, <1>7
  <2>2. (a + 1) % N = 0
    BY <2>1, Remainder
  <2>3. N % N = 0
    OBVIOUS
  <2>4. QED
    BY <1>5, <1>7, <2>2, <2>3
<1>8. QED
  BY <1>6, <1>7

LEMMA PortInvInit ==
  ASSUME Port!PortAssumption, Port!PortInit
  PROVE  PortInv
<1>1. Numbers \in Nat \ {0} /\ 0 % Numbers = 0
  BY DEF Port!PortAssumption
<1>2. CanTypes
  <2>1. Port!Nothing \in Taking
    BY <1>1 DEF Taking, Port!Nothing
  <2>2. QED
    BY <1>1, <2>1 DEF Port!PortInit, CanTypes
<1>3. ASSUME NEW k \in Port!KindSet PROVE Port!Underway(k) = {}
  <2>1. \A i \in 1 .. 3 : mbox[i] = Port!None
    BY DEF Port!PortInit
  <2>2. Port!None.kind # k
    BY DEF Port!PortAssumption, Port!None
  <2>3. ring = <<>> /\ DOMAIN ring = {}
    BY DEF Port!PortInit
  <2>4. got[k].part = 0
    BY DEF Port!PortInit, Port!Nothing
  <2>5. QED
    BY <2>1, <2>2, <2>3, <2>4 DEF Port!Underway
<1>4. Whole
  BY DEF Whole, Port!PortInit, Port!Nothing
<1>5. QED
  BY <1>2, <1>3, <1>4 DEF PortInv, Apart, TagsOf

\* The frames of a publication carry the numbers that are next.
NewFrames(due) == {f \in FrameSet : f.kind \in due /\ f.tag = sends[f.kind]}

LEMMA FramesAreNew ==
  ASSUME Port!PortAssumption, CanTypes, NEW due \in SUBSET Port!KindSet, NEW k \in due
  PROVE  Port!Frames(k) \in Seq(NewFrames(due))
<1>1. Parts[k] \in Nat \ {0} /\ k \in Port!KindSet
  BY DEF Port!PortAssumption
<1>2. /\ seq[k] \in Nat /\ sends[k] \in Nat /\ seq[k] = sends[k] % Numbers
      /\ Parts[k] = 1 => sends[k] = 0
  BY <1>1 DEF CanTypes
<1>3. ASSUME NEW p \in 1 .. Parts[k]
      PROVE  [kind |-> k, part |-> p, seq |-> seq[k], tag |-> sends[k]] \in NewFrames(due)
  BY <1>1, <1>2 DEF NewFrames, FrameSet
<1>4. QED
  BY <1>1, <1>3 DEF Port!Frames

LEMMA EncodedAreNew ==
  ASSUME Port!PortAssumption, CanTypes, NEW due \in SUBSET Port!KindSet
  PROVE  Port!Encoded(due) \in Seq(NewFrames(due))
<1> DEFINE n == Len(Kinds)
           T == Seq(NewFrames(due))
           Next1(i, q) == IF Kinds[i] \in due THEN q \o Port!Frames(Kinds[i]) ELSE q
           step == [i \in 1 .. n |-> [q \in T |-> Next1(i, q)]]
           E(u) == [i \in 0 .. n |-> IF i = 0 THEN <<>> ELSE Next1(i, u[i - 1])]
           upTo[i \in 0 .. n] ==
             IF i = 0 THEN <<>>
             ELSE IF Kinds[i] \in due THEN upTo[i - 1] \o Port!Frames(Kinds[i]) ELSE upTo[i - 1]
<1>1. n \in Nat
  BY DEF Port!PortAssumption
<1>2. Port!Encoded(due) = upTo[n]
  BY DEF Port!Encoded
<1>3. ASSUME NEW i \in 1 .. n, NEW q \in T PROVE Next1(i, q) \in T
  BY <1>3, FramesAreNew
<1>4. step \in [1 .. n -> [T -> T]]
  BY <1>3
<1>5. \E f \in [0 .. n -> T] : f[0] = <<>> /\ \A i \in 1 .. n : f[i] = Next1(i, f[i - 1])
  <2>1. <<>> \in T
    OBVIOUS
  <2>2. \E f \in [0 .. n -> T] : f[0] = <<>> /\ \A i \in 1 .. n : f[i] = step[i][f[i - 1]]
    <3> DEFINE a == <<>>
    <3>1. n \in Nat /\ a \in T /\ step \in [1 .. n -> [T -> T]]
      BY <1>1, <1>4, <2>1
    <3> HIDE DEF n, T, step, a, upTo, E, Next1
    <3>2. \E f : Stepped(n, T, a, step, f)
      BY <3>1, RecursionExists
    <3>3. QED
      BY <3>2 DEF a, Stepped
  <2>3. PICK f \in [0 .. n -> T] : f[0] = <<>> /\ \A i \in 1 .. n : f[i] = step[i][f[i - 1]]
    BY <2>2
  <2>4. ASSUME NEW i \in 1 .. n PROVE f[i] = Next1(i, f[i - 1])
    <3>1. i - 1 \in 0 .. n
      BY <1>1
    <3>2. f[i - 1] \in T /\ f[i] = step[i][f[i - 1]]
      <4> HIDE DEF n, T, step
      <4>1. QED
        BY <2>3, <3>1
    <3> HIDE DEF Next1
    <3>3. QED
      BY <3>2
  <2> HIDE DEF Next1, n, T
  <2>5. QED
    BY <2>3, <2>4
<1>6. \E f : f = E(f)
  <2>1. PICK f \in [0 .. n -> T] : f[0] = <<>> /\ \A i \in 1 .. n : f[i] = Next1(i, f[i - 1])
    BY <1>5
  <2>2. \A i \in 0 .. n : i = 0 \/ i \in 1 .. n
    BY <1>1
  <2> HIDE DEF T, n, Next1
  <2>3. f = E(f)
    BY <2>1, <2>2
  <2>4. QED
    BY <2>3
<1>7. upTo = E(upTo)
  <2>1. upTo = CHOOSE u : u = E(u)
    OBVIOUS
  <2> HIDE DEF upTo, E
  <2>2. QED
    BY <1>6, <2>1
<1> HIDE DEF upTo
<1>8. upTo[0] = <<>> /\ \A i \in 1 .. n : upTo[i] = Next1(i, upTo[i - 1])
  <2>1. 0 \in 0 .. n /\ \A i \in 1 .. n : i \in 0 .. n /\ i # 0
    BY <1>1
  <2> HIDE DEF n, Next1
  <2>2. QED
    BY <1>7, <2>1
<1> DEFINE S == {i \in 0 .. n : upTo[i] \in T}
<1>9. 0 \in S
  <2>1. 0 \in 0 .. n /\ <<>> \in T
    BY <1>1
  <2> HIDE DEF n, T
  <2>2. QED
    BY <1>8, <2>1
<1>10. ASSUME NEW i \in 1 .. n, i - 1 \in S PROVE i \in S
  <2>1. upTo[i] = Next1(i, upTo[i - 1]) /\ upTo[i - 1] \in T /\ i \in 0 .. n
    BY <1>1, <1>8, <1>10
  <2>2. upTo[i] \in T
    <3> HIDE DEF Next1, T, n
    <3>1. QED
      BY <1>3, <2>1
  <2>3. QED
    BY <2>1, <2>2
<1>11. n \in S
  <2> HIDE DEF S, n
  <2>1. 0 .. n \subseteq S
    BY <1>1, <1>9, <1>10, Upward
  <2>2. QED
    BY <1>1, <2>1
<1>12. QED
  BY <1>2, <1>11

\* The frames in a ring and in mailboxes; None is in neither.
HeldIn(b, q) == {b[i] : i \in 1 .. 3} \cup {q[i] : i \in DOMAIN q}

LEMMA FrameKinds ==
  ASSUME Port!PortAssumption
  PROVE  /\ \A f \in FrameSet : f.kind \in Port!KindSet /\ f # Port!None
         /\ Port!None.kind \notin Port!KindSet
BY DEF FrameSet, Port!None, Port!PortAssumption

\* Whatever a step adds to what is under way has a number of its own.
LEMMA ApartStays ==
  ASSUME Apart, NEW k \in Port!KindSet, ~reused[k], NEW new,
         TagsOf(k)' \subseteq TagsOf(k) \cup new,
         \A a \in new : \A b \in TagsOf(k) \cup new : a % Numbers = b % Numbers => a = b
  PROVE  \A a, b \in TagsOf(k)' : a % Numbers = b % Numbers => a = b
BY DEF Apart

LEMMA MovedKeeps ==
  ASSUME NEW s, s.ring \in Seq(FrameSet), s.mbox \in [1 .. 3 -> FrameSet \cup {Port!None}]
  PROVE  LET t == Port!Moved(s)
         IN  /\ t.ring \in Seq(FrameSet) /\ t.mbox \in [1 .. 3 -> FrameSet \cup {Port!None}]
             /\ HeldIn(t.mbox, t.ring) \subseteq HeldIn(s.mbox, s.ring)
<1> DEFINE t == Port!Moved(s)
<1>1. CASE s.ring = <<>> \/ Port!Free(s.mbox) = {}
  BY <1>1 DEF Port!Moved
<1>2. CASE s.ring # <<>> /\ Port!Free(s.mbox) # {}
  <2> DEFINE j == Port!Lowest(Port!Free(s.mbox))
             h == Head(s.ring)
  <2>1. t.ring = Tail(s.ring) /\ t.mbox = [s.mbox EXCEPT ![j] = h]
    BY <1>2 DEF Port!Moved
  <2>2. /\ h \in FrameSet /\ 1 \in DOMAIN s.ring /\ h = s.ring[1]
        /\ Tail(s.ring) \in Seq(FrameSet)
        /\ \A i \in DOMAIN Tail(s.ring) : i + 1 \in DOMAIN s.ring /\ Tail(s.ring)[i] = s.ring[i + 1]
    BY <1>2
  <2> HIDE DEF j, h, t
  <2>3. /\ t.mbox \in [1 .. 3 -> FrameSet \cup {Port!None}]
        /\ \A i \in 1 .. 3 : t.mbox[i] \in {s.mbox[i], h}
    BY <2>1, <2>2
  <2>4. HeldIn(t.mbox, t.ring) \subseteq HeldIn(s.mbox, s.ring)
    BY <2>1, <2>2, <2>3 DEF HeldIn
  <2>5. QED
    BY <2>1, <2>2, <2>3, <2>4 DEF t
<1>3. QED
  BY <1>1, <1>2

LEMMA PollKeeps ==
  ASSUME Port!PortAssumption, PortInv, Port!Poll
  PROVE  PortInv'
<1> DEFINE s0 == [ring |-> ring, mbox |-> mbox]
           s1 == Port!Moved(s0)
           s2 == Port!Moved(s1)
           s3 == Port!Moved(s2)
           Kept(s) == /\ s.ring \in Seq(FrameSet) /\ s.mbox \in [1 .. 3 -> FrameSet \cup {Port!None}]
                      /\ HeldIn(s.mbox, s.ring) \subseteq HeldIn(mbox, ring)
<1>1. ring' = s3.ring /\ mbox' = s3.mbox /\ got' = got /\ seq' = seq /\ sends' = sends
      /\ reused' = reused
  BY DEF Port!Poll, Port!Drained
<1>2. Kept(s0)
  BY DEF PortInv, CanTypes
<1>3. Kept(s3)
  <2> HIDE DEF s0
  <2>1. Kept(s1)
    BY <1>2, MovedKeeps
  <2> HIDE DEF s1
  <2>2. Kept(s2)
    BY <2>1, MovedKeeps
  <2> HIDE DEF s2
  <2>3. QED
    BY <2>2, MovedKeeps
<1> HIDE DEF s3
<1>4. CanTypes'
  BY <1>1, <1>3 DEF PortInv, CanTypes, FrameSet, Taking, Port!KindSet, Port!None
<1>5. ASSUME NEW k \in Port!KindSet PROVE TagsOf(k)' \subseteq TagsOf(k)
  <2>1. HeldIn(mbox', ring') \subseteq HeldIn(mbox, ring)
    BY <1>1, <1>3
  <2>2. /\ Port!Underway(k) = {f \in HeldIn(mbox, ring) : f.kind = k}
                              \cup (IF got[k].part \in 1 .. Parts[k] - 1 THEN {got[k]} ELSE {})
        /\ Port!Underway(k)' = {f \in HeldIn(mbox', ring') : f.kind = k}
                              \cup (IF got[k].part \in 1 .. Parts[k] - 1 THEN {got[k]} ELSE {})
    BY <1>1 DEF Port!Underway, HeldIn
  <2>3. QED
    BY <2>1, <2>2 DEF TagsOf
<1>6. QED
  BY <1>1, <1>4, <1>5 DEF PortInv, Apart, Whole, Port!KindSet

LEMMA PublishKeeps ==
  ASSUME Port!PortAssumption, PortInv, NEW due \in SUBSET Port!KindSet, Port!Publish(due)
  PROVE  PortInv'
<1> DEFINE fs == Port!Encoded(due)
           space == Ring - 1 - Len(ring)
           cut == SubSeq(fs, 1, IF space < Len(fs) THEN space ELSE Len(fs))
<1>1. /\ Numbers \in Nat \ {0} /\ Ring \in Nat \ {0}
      /\ \A k \in Port!KindSet : Parts[k] \in Nat \ {0}
  BY DEF Port!PortAssumption
<1>2. CanTypes /\ Apart /\ Whole
  BY DEF PortInv
<1>3. fs \in Seq(NewFrames(due))
  BY <1>2, EncodedAreNew
<1>4. /\ ring' = ring \o cut /\ mbox' = mbox /\ got' = got
      /\ seq' = [k \in Port!KindSet |-> IF k \in due THEN Port!NextSeq(k) ELSE seq[k]]
      /\ sends' = [k \in Port!KindSet |-> IF k \in due /\ Parts[k] > 1
                                          THEN sends[k] + 1 ELSE sends[k]]
      /\ reused' = [k \in Port!KindSet |->
                       IF k \in due THEN \/ ~Port!Fresh(k)
                                         \/ reused[k] /\ (Port!Underway(k) # {} \/ got[k].torn)
                       ELSE reused[k]]
  BY DEF Port!Publish, Port!Enqueued
<1>5. cut \in Seq(NewFrames(due))
  <2> HIDE DEF fs
  <2>1. Len(fs) \in Nat /\ space \in Int
    BY <1>1, <1>2, <1>3 DEF CanTypes
  <2> HIDE DEF space
  <2>2. QED
    BY <1>3, <2>1
<1> HIDE DEF cut
<1>6. ring' \in Seq(FrameSet) /\ \A i \in DOMAIN ring' : \/ i \in DOMAIN ring /\ ring'[i] = ring[i]
                                                         \/ ring'[i] \in NewFrames(due)
  <2>1. ring \in Seq(FrameSet) /\ NewFrames(due) \subseteq FrameSet
    BY <1>2 DEF CanTypes, NewFrames
  <2>2. cut \in Seq(FrameSet)
    BY <1>5, <2>1
  <2>3. ASSUME NEW i \in DOMAIN ring' PROVE \/ i \in DOMAIN ring /\ ring'[i] = ring[i]
                                            \/ ring'[i] \in NewFrames(due)
    <3>1. i \in 1 .. Len(ring) + Len(cut)
      BY <1>4, <2>1, <2>2
    <3>2. CASE i <= Len(ring)
      BY <1>4, <2>1, <2>2, <3>1, <3>2
    <3>3. CASE i > Len(ring)
      <4>1. i - Len(ring) \in 1 .. Len(cut) /\ ring'[i] = cut[i - Len(ring)]
        BY <1>4, <2>1, <2>2, <3>1, <3>3
      <4>2. QED
        BY <1>5, <4>1
    <3>4. QED
      BY <2>1, <3>1, <3>2, <3>3
  <2>4. QED
    BY <1>4, <2>1, <2>2, <2>3
<1>7. ASSUME NEW k \in Port!KindSet
      PROVE  /\ seq'[k] \in Nat /\ sends'[k] \in Nat
             /\ seq'[k] = sends'[k] % Numbers /\ (Parts[k] = 1 => sends'[k] = 0)
  <2>1. /\ sends[k] \in Nat /\ seq[k] \in Nat /\ seq[k] = sends[k] % Numbers
        /\ Parts[k] = 1 => sends[k] = 0
    BY <1>1, <1>2 DEF CanTypes
  <2>2. CASE k \in due /\ Parts[k] > 1
    <3>1. seq'[k] = (seq[k] + 1) % Numbers /\ sends'[k] = sends[k] + 1
      BY <1>1, <1>4, <2>2 DEF Port!NextSeq
    <3>2. (seq[k] + 1) % Numbers = (sends[k] + 1) % Numbers
      BY <1>1, <2>1, NextNumber
    <3>3. (seq[k] + 1) % Numbers \in Nat
      BY <1>1, <2>1
    <3>4. QED
      BY <1>1, <2>1, <2>2, <3>1, <3>2, <3>3
  <2>3. CASE k \in due /\ Parts[k] = 1
    <3>1. seq'[k] = 0 /\ sends'[k] = 0 /\ 0 % Numbers = 0
      BY <1>1, <1>4, <2>1, <2>3 DEF Port!NextSeq
    <3>2. QED
      BY <1>1, <3>1
  <2>4. CASE k \notin due
    BY <1>1, <1>4, <2>1, <2>4
  <2>5. QED
    BY <1>1, <2>2, <2>3, <2>4
<1>8. CanTypes'
  <2>1. /\ seq' \in [Port!KindSet -> Nat] /\ sends' \in [Port!KindSet -> Nat]
        /\ reused' \in [Port!KindSet -> BOOLEAN]
    <3>1. \A k \in Port!KindSet : reused'[k] \in BOOLEAN
      BY <1>2, <1>4 DEF CanTypes
    <3>2. QED
      BY <1>4, <1>7, <3>1
  <2>2. QED
    BY <1>2, <1>4, <1>6, <1>7, <2>1 DEF CanTypes, FrameSet, Taking, Port!KindSet, Port!None
<1>9. ASSUME NEW k \in Port!KindSet
      PROVE  TagsOf(k)' \subseteq TagsOf(k) \cup (IF k \in due THEN {sends[k]} ELSE {})
  <2>1. ASSUME NEW f \in Port!Underway(k)'
        PROVE  f \in Port!Underway(k) \/ (k \in due /\ f.tag = sends[k])
    BY <1>4, <1>6, <2>1 DEF Port!Underway, NewFrames
  <2>2. QED
    BY <2>1 DEF TagsOf
<1>10. ASSUME NEW k \in due, ~reused'[k], reused[k]
       PROVE  TagsOf(k) = {} /\ ~got[k].torn
  <2>1. k \in Port!KindSet
    OBVIOUS
  <2>2. Port!Underway(k) = {} /\ ~got[k].torn
    BY <1>4, <1>10, <2>1
  <2>3. QED
    BY <2>2 DEF TagsOf
<1>11. ASSUME NEW k \in due, ~reused'[k], NEW f \in Port!Underway(k),
              f.tag % Numbers = sends[k] % Numbers
       PROVE  f.tag = sends[k]
  <2>1. k \in Port!KindSet /\ Port!Fresh(k)
    BY <1>4, <1>11
  <2>2. CASE Parts[k] > 1
    BY <1>11, <2>1, <2>2 DEF Port!Fresh
  <2>3. CASE Parts[k] = 1
    <3>1. f \in HeldIn(mbox, ring) /\ f.kind = k
      BY <2>3 DEF Port!Underway, HeldIn
    <3>2. HeldIn(mbox, ring) \subseteq FrameSet \cup {Port!None}
      BY <1>2 DEF CanTypes, HeldIn
    <3>3. f \in FrameSet
      BY <2>1, <3>1, <3>2, FrameKinds
    <3>4. QED
      BY <1>2, <2>1, <2>3, <3>1, <3>3 DEF CanTypes, FrameSet
  <2>4. QED
    BY <1>1, <2>1, <2>2, <2>3
<1>12. ASSUME NEW k \in Port!KindSet, ~reused'[k]
       PROVE  /\ \A a, b \in TagsOf(k)' : a % Numbers = b % Numbers => a = b
              /\ ~got'[k].torn
  <2> DEFINE new == IF k \in due THEN {sends[k]} ELSE {}
  <2>1. TagsOf(k)' \subseteq TagsOf(k) \cup new
    BY <1>9
  <2>2. CASE reused[k]
    <3>1. k \in due
      BY <1>4, <1>12, <2>2
    <3>2. QED
      BY <1>4, <1>10, <1>12, <2>1, <2>2, <3>1
  <2>3. CASE ~reused[k]
    <3>1. \A a \in new : \A b \in TagsOf(k) \cup new : a % Numbers = b % Numbers => a = b
      BY <1>11, <1>12 DEF TagsOf
    <3> HIDE DEF new
    <3>2. QED
      BY <1>2, <1>4, <2>1, <2>3, <3>1, ApartStays DEF Whole
  <2>4. QED
    BY <2>2, <2>3
<1>13. QED
  BY <1>8, <1>12 DEF PortInv, Apart, Whole, Port!KindSet

\* The mailbox whose frame goes first is not empty.
LEMMA SentIsAFrame ==
  ASSUME Port!PortAssumption, CanTypes, Port!Free(mbox) # {1, 2, 3}
  PROVE  Port!Next1 \in 1 .. 3 /\ mbox[Port!Next1] \in FrameSet
<1> DEFINE B == {1, 2, 3} \ Port!Free(mbox)
<1>1. ASSUME NEW i \in B PROVE mbox[i] \in FrameSet /\ Port!Place(i) \in Nat
  <2>1. i \in 1 .. 3 /\ mbox[i] \in FrameSet
    BY DEF Port!Free, CanTypes
  <2>2. Rank[mbox[i].kind] \in Nat
    BY <2>1 DEF FrameSet, Port!PortAssumption
  <2>3. QED
    BY <2>1, <2>2 DEF Port!Place
<1>2. B # {} /\ B \subseteq 1 .. 3
  BY DEF Port!Free
<1> HIDE DEF B
<1>3. \E i \in B : \A j \in B : Port!Place(i) <= Port!Place(j)
  <2> DEFINE S == {Port!Place(i) : i \in B}
  <2>1. S \in SUBSET Nat /\ S # {}
    BY <1>1, <1>2
  <2>2. PICK x \in S : \A y \in S : x <= y
    BY <2>1, NatMin
  <2>3. QED
    BY <2>2
<1>4. Port!Next1 \in B
  BY <1>3 DEF Port!Next1, B
<1>5. QED
  BY <1>1, <1>2, <1>4

LEMMA SendKeeps ==
  ASSUME Port!PortAssumption, PortInv, Port!Send
  PROVE  PortInv'
<1> DEFINE m == Port!Next1  f == mbox[m]  k == f.kind  g == got[k]
<1>1. CanTypes /\ Apart /\ Whole
  BY DEF PortInv
<1>2. m \in 1 .. 3 /\ f \in FrameSet
  BY <1>1, SentIsAFrame DEF Port!Send
<1>3. /\ got' = [got EXCEPT ![k] = Port!Taken(g, f)] /\ mbox' = [mbox EXCEPT ![m] = Port!None]
      /\ ring' = ring /\ seq' = seq /\ sends' = sends /\ reused' = reused
  BY DEF Port!Send
<1> HIDE DEF m
<1>4. /\ k \in Port!KindSet /\ f.part \in 1 .. Parts[k] /\ f.tag \in Nat
      /\ f.part \in Nat /\ f.seq \in Nat /\ f.seq = f.tag % Numbers /\ Parts[k] \in Nat \ {0}
  BY <1>2 DEF FrameSet, Port!PortAssumption
<1>5. g \in Taking /\ f \in Port!Underway(k)
  BY <1>1, <1>2, <1>4 DEF CanTypes, Port!Underway
<1> HIDE DEF f, g, k
<1>6. /\ Port!Taken(g, f) \in Taking
      /\ ~reused[k] => /\ ~Port!Taken(g, f).torn
                       /\ Port!Taken(g, f).part = 0 \/ Port!Taken(g, f).tag = f.tag
  <2>1. CASE f.part = 1
    BY <1>4, <2>1 DEF Port!Taken, Taking
  <2>2. CASE f.part # 1 /\ f.seq = g.seq /\ f.part = g.part + 1
    <3>1. g.part \in 1 .. Parts[k] - 1 /\ g.seq = g.tag % Numbers
      BY <1>4, <1>5, <2>2 DEF Taking
    <3>2. g \in Port!Underway(k)
      BY <3>1 DEF Port!Underway, g
    <3>3. ~reused[k] => g.tag = f.tag /\ ~g.torn
      BY <1>1, <1>4, <1>5, <2>2, <3>1, <3>2 DEF Apart, Whole, TagsOf, g
    <3>4. QED
      BY <1>4, <1>5, <2>2, <3>3 DEF Port!Taken, Taking
  <2>3. CASE f.part # 1 /\ ~(f.seq = g.seq /\ f.part = g.part + 1)
    <3>1. Numbers \in Nat \ {0}
      BY DEF Port!PortAssumption
    <3>2. Port!Nothing \in Taking
      BY <3>1 DEF Taking, Port!Nothing
    <3>3. QED
      BY <2>3, <3>2 DEF Port!Taken, Port!Nothing
  <2>4. QED
    BY <2>1, <2>2, <2>3
<1>7. CanTypes'
  BY <1>1, <1>2, <1>3, <1>4, <1>6 DEF CanTypes, FrameSet, Taking, Port!KindSet, Port!None
<1>8. ASSUME NEW j \in Port!KindSet, ~reused[j] PROVE TagsOf(j)' \subseteq TagsOf(j)
  <2>1. ASSUME NEW x \in Port!Underway(j)' PROVE \E y \in Port!Underway(j) : y.tag = x.tag
    <3>1. CASE x \in {mbox'[i] : i \in 1 .. 3} \cup {ring'[i] : i \in DOMAIN ring'} /\ x.kind = j
      <4>1. x # Port!None
        BY <3>1, FrameKinds
      <4>2. x \in Port!Underway(j)
        BY <1>1, <1>2, <1>3, <3>1, <4>1 DEF Port!Underway, CanTypes
      <4>3. QED
        BY <4>2
    <3>2. CASE got'[j].part \in 1 .. Parts[j] - 1 /\ x = got'[j]
      <4>1. CASE j = k
        <5>1. x = Port!Taken(g, f)
          BY <1>1, <1>3, <1>4, <3>2, <4>1 DEF CanTypes
        <5>2. x.tag = f.tag
          BY <1>6, <1>8, <3>2, <4>1, <5>1
        <5>3. QED
          BY <1>5, <4>1, <5>2
      <4>2. CASE j # k
        <5>1. x = got[j] /\ got[j].part \in 1 .. Parts[j] - 1
          BY <1>1, <1>3, <3>2, <4>2 DEF CanTypes
        <5>2. QED
          BY <5>1 DEF Port!Underway
      <4>3. QED
        BY <4>1, <4>2
    <3>3. QED
      BY <2>1, <3>1, <3>2 DEF Port!Underway
  <2>2. QED
    BY <2>1 DEF TagsOf
<1>9. ASSUME NEW j \in Port!KindSet, ~reused[j] PROVE ~got'[j].torn
  <2>1. CASE j = k
    BY <1>1, <1>3, <1>4, <1>6, <1>9, <2>1 DEF CanTypes
  <2>2. CASE j # k
    BY <1>1, <1>3, <1>9, <2>2 DEF CanTypes, Whole
  <2>3. QED
    BY <2>1, <2>2
<1>10. QED
  BY <1>1, <1>3, <1>7, <1>8, <1>9 DEF PortInv, Apart, Whole, Port!KindSet

LEMMA PortInvariance ==
  ASSUME Port!PortAssumption
  PROVE  PortSpec => []PortInv
<1>1. PortInv /\ [Port!PortNext]_(Port!portVars) => PortInv'
  <2>1. ASSUME PortInv, UNCHANGED Port!portVars PROVE PortInv'
    <3>1. ring' = ring /\ mbox' = mbox /\ seq' = seq /\ sends' = sends /\ got' = got
          /\ reused' = reused
      BY <2>1 DEF Port!portVars
    <3>2. CanTypes'
      BY <2>1, <3>1 DEF PortInv, CanTypes, FrameSet, Taking, Port!KindSet, Port!None
    <3>3. \A k \in Port!KindSet : TagsOf(k)' = TagsOf(k)
      BY <3>1 DEF TagsOf, Port!Underway
    <3>4. QED
      BY <2>1, <3>1, <3>2, <3>3 DEF PortInv, Apart, Whole, Port!KindSet
  <2>2. QED
    BY <2>1, PublishKeeps, PollKeeps, SendKeeps DEF Port!PortNext
<1>2. QED
  BY <1>1, PortInvInit, PTL DEF PortSpec

\* Whatever the ring drops and in whatever order the mailboxes send, a receiver of fast
\* packets takes the frames of two packets for one only where the number came round while a
\* frame was still about (n2k_fp_split, the seq_* counters).
THEOREM PacketsStayWhole ==
  ASSUME Port!PortAssumption
  PROVE  PortSpec => []Port!PacketIsOneSend
<1>1. PortInv => Port!PacketIsOneSend
  BY DEF PortInv, Whole, Port!PacketIsOneSend
<1>2. QED
  BY <1>1, PortInvariance, PTL
-----------------------------------------------------------------------------
(* THE SCHEDULERS (TxSched) *)

SchedSpec == Sched!SchedInit /\ [][Sched!SchedNext]_(Sched!schedVars)

Last == Len(Messages)

LEMMA MessageTypes ==
  ASSUME Sched!SchedAssumption
  PROVE  /\ Last \in Nat /\ Sched!Ids = 1 .. Last /\ Sched!Alerts \subseteq Sched!Ids
         /\ Wrap \in Nat \ {0} /\ Batch \in Nat /\ Timeout \in Nat /\ AwayMax \in Nat
         /\ QuietMax \in Nat /\ AwayMax + 1 < Wrap \div 2 /\ Timeout <= QuietMax /\ Timeout <= Wrap
         /\ \A m \in Sched!Ids : Messages[m].frames \in Nat /\ Messages[m].period \in Nat
<1> DEFINE M == [frames : Nat \ {0}, period : Nat, gate : {"none", "alert", "source"}]
<1>1. Messages \in Seq(M)
  BY DEF Sched!SchedAssumption
<1> HIDE DEF M
<1>2. Last \in Nat /\ Sched!Ids = 1 .. Last
  BY <1>1 DEF Last, Sched!Ids
<1>3. \A m \in 1 .. Last : Messages[m] \in M
  BY <1>1 DEF Last
<1>4. /\ Wrap \in Nat /\ Batch \in Nat /\ Timeout \in Nat /\ AwayMax \in Nat
      /\ QuietMax \in Nat /\ AwayMax + 1 < Wrap \div 2 /\ Timeout <= QuietMax /\ Timeout <= Wrap
  BY DEF Sched!SchedAssumption
<1>5. Wrap # 0
  BY <1>4
<1>6. QED
  BY <1>2, <1>3, <1>4, <1>5 DEF Sched!Alerts, M

\* The sum over the first messages of a set, step by step.
LEMMA FramesOfSteps ==
  ASSUME Sched!SchedAssumption, NEW S
  PROVE  /\ \A m \in 0 .. Last : Sched!FramesOf(S)[m] \in Nat
         /\ Sched!FramesOf(S)[0] = 0
         /\ \A m \in Sched!Ids : Sched!FramesOf(S)[m]
                = Sched!FramesOf(S)[m - 1] + (IF m \in S THEN Messages[m].frames ELSE 0)
<1> DEFINE n == Len(Messages)
           T == Nat
           Next1(i, q) == q + (IF i \in S THEN Messages[i].frames ELSE 0)
           step == [i \in 1 .. n |-> [q \in T |-> Next1(i, q)]]
           E(u) == [i \in 0 .. n |-> IF i = 0 THEN 0 ELSE Next1(i, u[i - 1])]
           upTo[i \in 0 .. n] ==
             IF i = 0 THEN 0 ELSE upTo[i - 1] + (IF i \in S THEN Messages[i].frames ELSE 0)
<1>1. n \in Nat /\ n = Last /\ Sched!Ids = 1 .. n /\ \A i \in 1 .. n : Messages[i].frames \in Nat
  BY MessageTypes DEF Last
<1>2. Sched!FramesOf(S) = upTo
  BY DEF Sched!FramesOf
<1>3. ASSUME NEW i \in 1 .. n, NEW q \in T PROVE Next1(i, q) \in T
  BY <1>1
<1>4. step \in [1 .. n -> [T -> T]]
  BY <1>3
<1>5. \E f \in [0 .. n -> T] : f[0] = 0 /\ \A i \in 1 .. n : f[i] = Next1(i, f[i - 1])
  <2> DEFINE a == 0
  <2>1. n \in Nat /\ a \in T /\ step \in [1 .. n -> [T -> T]]
    BY <1>1, <1>4
  <2>2. \E f : Stepped(n, T, a, step, f)
    <3> HIDE DEF n, T, step, a, upTo, E, Next1
    <3>1. QED
      BY <2>1, RecursionExists
  <2>3. PICK f : Stepped(n, T, a, step, f)
    BY <2>2
  <2>4. ASSUME NEW i \in 1 .. n PROVE f[i] = Next1(i, f[i - 1])
    <3>1. i - 1 \in 0 .. n
      BY <1>1
    <3>2. f[i - 1] \in T /\ f[i] = step[i][f[i - 1]]
      <4> HIDE DEF n, T, step
      <4>1. QED
        BY <2>3, <3>1 DEF Stepped
    <3> HIDE DEF Next1
    <3>3. QED
      BY <3>2
  <2> HIDE DEF Next1, n, T, step
  <2>5. QED
    BY <2>3, <2>4 DEF Stepped
<1>6. \E f : f = E(f)
  <2>1. PICK f \in [0 .. n -> T] : f[0] = 0 /\ \A i \in 1 .. n : f[i] = Next1(i, f[i - 1])
    BY <1>5
  <2>2. \A i \in 0 .. n : i = 0 \/ i \in 1 .. n
    BY <1>1
  <2> HIDE DEF T, n, Next1
  <2>3. f = E(f)
    BY <2>1, <2>2
  <2>4. QED
    BY <2>3
<1>7. upTo = E(upTo)
  <2>1. upTo = CHOOSE u : u = E(u)
    OBVIOUS
  <2> HIDE DEF upTo, E
  <2>2. QED
    BY <1>6, <2>1
<1> HIDE DEF upTo
<1>8. upTo[0] = 0 /\ \A i \in 1 .. n : upTo[i] = Next1(i, upTo[i - 1])
  <2>1. 0 \in 0 .. n /\ \A i \in 1 .. n : i \in 0 .. n /\ i # 0
    BY <1>1
  <2> HIDE DEF n, Next1
  <2>2. QED
    BY <1>7, <2>1
<1> DEFINE Q == {i \in 0 .. n : upTo[i] \in T}
<1>9. 0 \in Q /\ \A i \in 1 .. n : i - 1 \in Q => i \in Q
  BY <1>1, <1>8
<1>10. 0 .. n \subseteq Q
  <2> HIDE DEF Q, n
  <2>1. QED
    BY <1>1, <1>9, Upward
<1>11. QED
  BY <1>1, <1>2, <1>8, <1>10

\* What a tick has chosen after the first messages.
Step1(at, fault, m, q) ==
    IF ~Sched!Held(at, fault, m) /\ Sched!Due(at, next[m]) /\ Sched!Fits(q.used, m)
    THEN [set |-> q.set \cup {m}, used |-> q.used + Messages[m].frames]
    ELSE q

Picked == [set : SUBSET Sched!Ids, used : Nat]

LEMMA ChosenSteps ==
  ASSUME Sched!SchedAssumption, NEW at, NEW fault
  PROVE  \E u \in [0 .. Last -> Picked] :
           /\ u[0] = [set |-> {}, used |-> 0]
           /\ \A m \in Sched!Ids : u[m] = Step1(at, fault, m, u[m - 1])
           /\ Sched!Chosen(at, fault) = u[Last]
<1> DEFINE n == Len(Messages)
           a == [set |-> {}, used |-> 0]
           Next1(i, q) == Step1(at, fault, i, q)
           step == [i \in 1 .. n |-> [q \in Picked |-> Next1(i, q)]]
           E(u) == [i \in 0 .. n |-> IF i = 0 THEN a ELSE Next1(i, u[i - 1])]
           upTo[i \in 0 .. n] ==
             IF i = 0 THEN [set |-> {}, used |-> 0]
             ELSE IF ~Sched!Held(at, fault, i) /\ Sched!Due(at, next[i])
                     /\ Sched!Fits(upTo[i - 1].used, i)
             THEN [set |-> upTo[i - 1].set \cup {i},
                   used |-> upTo[i - 1].used + Messages[i].frames]
             ELSE upTo[i - 1]
<1>1. n \in Nat /\ n = Last /\ Sched!Ids = 1 .. n /\ \A i \in 1 .. n : Messages[i].frames \in Nat
  BY MessageTypes DEF Last
<1>2. Sched!Chosen(at, fault) = upTo[n]
  BY DEF Sched!Chosen
<1>3. ASSUME NEW i \in 1 .. n, NEW q \in Picked PROVE Next1(i, q) \in Picked
  BY <1>1, <1>3 DEF Picked, Step1
<1>4. step \in [1 .. n -> [Picked -> Picked]] /\ a \in Picked
  BY <1>3 DEF Picked
<1>5. \E f \in [0 .. n -> Picked] : f[0] = a /\ \A i \in 1 .. n : f[i] = Next1(i, f[i - 1])
  <2>2. \E f : Stepped(n, Picked, a, step, f)
    <3> HIDE DEF n, step, a, upTo, E, Next1
    <3>1. QED
      BY <1>1, <1>4, RecursionExists
  <2>3. PICK f : Stepped(n, Picked, a, step, f)
    BY <2>2
  <2>4. ASSUME NEW i \in 1 .. n PROVE f[i] = Next1(i, f[i - 1])
    <3>1. i - 1 \in 0 .. n
      BY <1>1
    <3>2. f[i - 1] \in Picked /\ f[i] = step[i][f[i - 1]]
      <4> HIDE DEF n, step, a
      <4>1. QED
        BY <2>3, <3>1 DEF Stepped
    <3> HIDE DEF Next1
    <3>3. QED
      BY <3>2
  <2> HIDE DEF Next1, n, step, a
  <2>5. QED
    BY <2>3, <2>4 DEF Stepped
<1>6. \E f : f = E(f)
  <2>1. PICK f \in [0 .. n -> Picked] : f[0] = a /\ \A i \in 1 .. n : f[i] = Next1(i, f[i - 1])
    BY <1>5
  <2>2. \A i \in 0 .. n : i = 0 \/ i \in 1 .. n
    BY <1>1
  <2> HIDE DEF n, Next1, a
  <2>3. f = E(f)
    BY <2>1, <2>2
  <2>4. QED
    BY <2>3
<1>7. upTo = E(upTo)
  <2>1. upTo = CHOOSE u : u = E(u)
    BY DEF Step1
  <2> HIDE DEF upTo, E
  <2>2. QED
    BY <1>6, <2>1
<1> HIDE DEF upTo
<1>8. /\ upTo[0] = a /\ \A i \in 1 .. n : upTo[i] = Next1(i, upTo[i - 1])
      /\ DOMAIN upTo = 0 .. n /\ upTo = [i \in 0 .. n |-> upTo[i]]
  <2>1. 0 \in 0 .. n /\ \A i \in 1 .. n : i \in 0 .. n /\ i # 0
    BY <1>1
  <2> HIDE DEF n, Next1, a
  <2>2. QED
    BY <1>7, <2>1
<1> DEFINE Q == {i \in 0 .. n : upTo[i] \in Picked}
<1>9. 0 \in Q /\ \A i \in 1 .. n : i - 1 \in Q => i \in Q
  <2>1. \A i \in 1 .. n : i - 1 \in 0 .. n /\ i \in 0 .. n
    BY <1>1
  <2>2. 0 \in 0 .. n
    BY <1>1
  <2> HIDE DEF n, a, Next1
  <2>3. QED
    BY <1>3, <1>4, <1>8, <2>1, <2>2
<1>10. 0 .. n \subseteq Q
  <2> HIDE DEF Q, n
  <2>1. QED
    BY <1>1, <1>9, Upward
<1>11. upTo \in [0 .. n -> Picked]
  <2> HIDE DEF n
  <2>1. QED
    BY <1>8, <1>10
<1>12. QED
  BY <1>1, <1>2, <1>8, <1>11

\* What is sent was due and not held back, and has space in the batch; and a message that
\* has space even after all those before it is not left out.
LEMMA ChosenIsRight ==
  ASSUME Sched!SchedAssumption, NEW at, NEW fault
  PROVE  LET C == Sched!Chosen(at, fault).set
         IN  /\ C \subseteq {m \in Sched!Ids : ~Sched!Held(at, fault, m)}
             /\ Sched!FramesOf(C)[Last] <= Batch
             /\ \A m \in Sched!Ids :
                  /\ ~Sched!Held(at, fault, m) /\ Sched!Due(at, next[m])
                  /\ Sched!FramesOf(Sched!Ids)[m] <= Batch
                  => m \in C
<1> DEFINE C == Sched!Chosen(at, fault).set
           n == Last
           total == Sched!FramesOf(Sched!Ids)
           held == [m \in Sched!Ids |-> Sched!Held(at, fault, m)]
           due == [m \in Sched!Ids |-> Sched!Due(at, next[m])]
           frames == [m \in Sched!Ids |-> Messages[m].frames]
<1>1. n \in Nat /\ Sched!Ids = 1 .. n /\ Batch \in Nat /\ \A i \in 1 .. n : frames[i] \in Nat
  BY MessageTypes
<1>2. PICK u \in [0 .. n -> Picked] :
        /\ u[0] = [set |-> {}, used |-> 0]
        /\ \A m \in 1 .. n : u[m] = Step1(at, fault, m, u[m - 1])
        /\ C = u[n].set
  <2>1. PICK u \in [0 .. Last -> Picked] :
           /\ u[0] = [set |-> {}, used |-> 0]
           /\ \A m \in Sched!Ids : u[m] = Step1(at, fault, m, u[m - 1])
           /\ Sched!Chosen(at, fault) = u[Last]
    BY ChosenSteps
  <2>2. QED
    BY <1>1, <2>1
<1> DEFINE Takes(m) == ~held[m] /\ due[m] /\ u[m - 1].used + frames[m] <= Batch
<1>3. ASSUME NEW m \in 1 .. n
      PROVE  /\ m - 1 \in 0 .. n /\ m \in 0 .. n
             /\ u[m - 1].set \subseteq 1 .. n /\ u[m - 1].used \in Nat
             /\ u[m].set = u[m - 1].set \cup (IF Takes(m) THEN {m} ELSE {})
             /\ u[m].used = u[m - 1].used + (IF Takes(m) THEN frames[m] ELSE 0)
  <2>1. m - 1 \in 0 .. n /\ m \in 0 .. n
    BY <1>1
  <2>2. u[m - 1] \in Picked /\ u[m] = Step1(at, fault, m, u[m - 1])
    BY <1>2, <2>1
  <2>3. u[m - 1].set \subseteq 1 .. n /\ u[m - 1].used \in Nat
    BY <1>1, <2>2 DEF Picked
  <2>4. /\ held[m] = Sched!Held(at, fault, m) /\ due[m] = Sched!Due(at, next[m])
        /\ Takes(m) <=> /\ ~Sched!Held(at, fault, m) /\ Sched!Due(at, next[m])
                        /\ Sched!Fits(u[m - 1].used, m)
    BY <1>1 DEF Sched!Fits
  <2>5. QED
    BY <1>1, <2>1, <2>2, <2>3, <2>4 DEF Step1
<1> HIDE DEF C, held, due, frames
<1> DEFINE S == {m \in 0 .. n : /\ u[m].set \subseteq {j \in 1 .. m : Takes(j)}
                                /\ \A j \in 1 .. m : Takes(j) => j \in u[m].set}
<1>4. S = 0 .. n
  <2>1. 0 \in S
    BY <1>1, <1>2
  <2>2. ASSUME NEW m \in 1 .. n, m - 1 \in S PROVE m \in S
    <3>1. /\ u[m - 1].set \subseteq {j \in 1 .. m - 1 : Takes(j)}
          /\ \A j \in 1 .. m - 1 : Takes(j) => j \in u[m - 1].set
          /\ u[m].set = u[m - 1].set \cup (IF Takes(m) THEN {m} ELSE {})
          /\ m \in 0 .. n
      BY <1>3, <2>2
    <3> HIDE DEF Takes
    <3>2. \A j \in 1 .. m : j = m \/ j \in 1 .. m - 1
      BY <1>1
    <3>3. \A j \in 1 .. m - 1 : j \in 1 .. m
      BY <1>1
    <3>4. m \in 1 .. m
      BY <1>1
    <3>5. QED
      BY <3>1, <3>2, <3>3, <3>4
  <2> HIDE DEF S, n
  <2>3. 0 .. n \subseteq S
    BY <1>1, <2>1, <2>2, Upward
  <2>4. S \subseteq 0 .. n
    BY DEF S
  <2>5. QED
    BY <2>3, <2>4
<1>5. C = {m \in 1 .. n : Takes(m)}
  <2>1. n \in S
    <3> HIDE DEF S
    <3>1. QED
      BY <1>1, <1>4
  <2> HIDE DEF Takes
  <2>2. QED
    BY <1>2, <2>1
<1> DEFINE sum == Sched!FramesOf(C)
<1>6. /\ sum[0] = 0 /\ total[0] = 0
      /\ \A m \in 1 .. n : /\ sum[m] = sum[m - 1] + (IF m \in C THEN frames[m] ELSE 0)
                           /\ total[m] = total[m - 1] + frames[m]
                           /\ sum[m - 1] \in Nat /\ total[m - 1] \in Nat
  <2>1. \A m \in 1 .. n : m - 1 \in 0 .. Last
    BY <1>1
  <2>2. QED
    BY <1>1, <2>1, FramesOfSteps DEF frames
<1> HIDE DEF sum, total
<1> DEFINE R == {m \in 0 .. n : u[m].used = sum[m] /\ u[m].used <= total[m] /\ u[m].used <= Batch}
<1>7. 0 \in R
  BY <1>1, <1>2, <1>6
<1>8. ASSUME NEW m \in 1 .. n, m - 1 \in R PROVE m \in R
  <2>1. /\ u[m].used = u[m - 1].used + (IF Takes(m) THEN frames[m] ELSE 0)
        /\ u[m - 1].used \in Nat /\ m \in 0 .. n /\ frames[m] \in Nat
        /\ Takes(m) => u[m - 1].used + frames[m] <= Batch
    BY <1>1, <1>3
  <2>2. m \in C <=> Takes(m)
    BY <1>5
  <2>3. u[m - 1].used = sum[m - 1] /\ u[m - 1].used <= total[m - 1] /\ u[m - 1].used <= Batch
    BY <1>8
  <2>4. /\ sum[m] = sum[m - 1] + (IF m \in C THEN frames[m] ELSE 0)
        /\ total[m] = total[m - 1] + frames[m] /\ sum[m - 1] \in Nat /\ total[m - 1] \in Nat
    BY <1>6
  <2> HIDE DEF Takes
  <2>5. u[m].used = sum[m] /\ u[m].used <= total[m] /\ u[m].used <= Batch
    BY <1>1, <2>1, <2>2, <2>3, <2>4
  <2>6. QED
    BY <2>1, <2>5
<1>9. 0 .. n \subseteq R
  <2> HIDE DEF R, n
  <2>1. QED
    BY <1>1, <1>7, <1>8, Upward
<1>10. C \subseteq {m \in Sched!Ids : ~Sched!Held(at, fault, m)}
  BY <1>1, <1>5 DEF held
<1>11. sum[n] <= Batch
  <2>1. n \in R
    BY <1>1, <1>9
  <2>2. QED
    BY <2>1
<1>12. ASSUME NEW m \in Sched!Ids, ~Sched!Held(at, fault, m), Sched!Due(at, next[m]),
              total[m] <= Batch
       PROVE  m \in C
  <2>1. m \in 1 .. n /\ m - 1 \in R /\ ~held[m] /\ due[m]
    BY <1>1, <1>3, <1>9, <1>12 DEF held, due
  <2>2. u[m - 1].used + frames[m] <= Batch
    BY <1>1, <1>3, <1>6, <1>12, <2>1
  <2>3. QED
    BY <1>5, <2>1, <2>2
<1>13. QED
  BY <1>10, <1>11, <1>12 DEF C, sum, total

\* An alert that is not being told is due at the next publication: its timer lags behind
\* the clock by no more than the address was away.  And what is known of the better node is
\* how long ago it was heard, as long as that matters.
SchedInv ==
    /\ now \in 0 .. Wrap - 1 /\ next \in [Sched!Ids -> 0 .. Wrap - 1]
    /\ master_seen \in BOOLEAN /\ master_last \in 0 .. Wrap - 1
    /\ away \in 0 .. AwayMax /\ quiet \in 0 .. QuietMax /\ wasFault \in BOOLEAN
    /\ ~wasFault => \E lag \in 0 .. away : \A m \in Sched!Alerts : (now - next[m]) % Wrap = lag
    /\ master_seen /\ quiet < Timeout => (now - master_last) % Wrap = quiet

LEMMA Ages ==
  ASSUME NEW W \in Nat \ {0}, NEW t \in 0 .. W - 1, NEW n \in 0 .. W - 1
  PROVE  /\ (n - t) % W = (IF t <= n THEN n - t ELSE n - t + W)
         /\ ((n - t) % W) + 1 < W => (((n + 1) % W) - t) % W = ((n - t) % W) + 1
         /\ (n + 1) % W \in 0 .. W - 1
         /\ (t - n) % W = (IF n <= t THEN t - n ELSE t - n + W)
<1>1. ASSUME NEW a \in 0 .. W - 1, NEW b \in 0 .. W - 1
      PROVE  (a - b) % W = (IF b <= a THEN a - b ELSE a - b + W)
  BY <1>1
<1>2. (n + 1) % W = (IF n + 1 < W THEN n + 1 ELSE 0)
  OBVIOUS
<1>3. (n + 1) % W \in 0 .. W - 1
  BY <1>2
<1> DEFINE n1 == (n + 1) % W
<1>4. n1 = (IF n + 1 < W THEN n + 1 ELSE 0) /\ n1 \in 0 .. W - 1
  BY <1>2, <1>3
<1> HIDE DEF n1
<1>5. (n1 - t) % W = (IF t <= n1 THEN n1 - t ELSE n1 - t + W)
  BY <1>1, <1>4
<1>6. (n - t) % W = (IF t <= n THEN n - t ELSE n - t + W)
  BY <1>1
<1>7. ((n - t) % W) + 1 < W => (n1 - t) % W = ((n - t) % W) + 1
  BY <1>4, <1>5, <1>6
<1>8. QED
  BY <1>1, <1>3, <1>7 DEF n1

LEMMA NothingIsEmpty ==
  ASSUME Sched!SchedAssumption
  PROVE  Sched!FramesOf({})[Last] = 0
<1> DEFINE n == Last
           sum == Sched!FramesOf({})
           S == {m \in 0 .. n : sum[m] = 0}
<1>1. n \in Nat /\ Sched!Ids = 1 .. n
  BY MessageTypes
<1>2. sum[0] = 0 /\ \A m \in 1 .. n : sum[m] = sum[m - 1] + 0
  BY <1>1, FramesOfSteps
<1> HIDE DEF n, sum
<1>3. 0 \in S /\ \A m \in 1 .. n : m - 1 \in S => m \in S
  BY <1>1, <1>2
<1>4. 0 .. n \subseteq S
  <2> HIDE DEF S
  <2>1. QED
    BY <1>1, <1>3, Upward
<1>5. QED
  BY <1>1, <1>4 DEF n, sum

LEMMA SchedInvInit ==
  ASSUME Sched!SchedAssumption, Sched!SchedInit
  PROVE  SchedInv /\ Sched!BatchHolds
<1>1. /\ Wrap \in Nat \ {0} /\ AwayMax \in Nat /\ QuietMax \in Nat /\ Batch \in Nat /\ Last \in Nat
      /\ Sched!Alerts \subseteq Sched!Ids
  BY MessageTypes
<1>2. /\ now = 0 /\ next = [m \in Sched!Ids |-> 0] /\ master_seen = FALSE /\ master_last = 0
      /\ away = 0 /\ wasFault = FALSE /\ quiet = 0 /\ sent = {}
  BY DEF Sched!SchedInit
<1>3. \A m \in Sched!Alerts : (now - next[m]) % Wrap = 0
  BY <1>1, <1>2
<1>4. SchedInv
  <2>1. now \in 0 .. Wrap - 1 /\ next \in [Sched!Ids -> 0 .. Wrap - 1] /\ master_last \in 0 .. Wrap - 1
    BY <1>1, <1>2
  <2>2. away \in 0 .. AwayMax /\ quiet \in 0 .. QuietMax /\ 0 \in 0 .. away
    BY <1>1, <1>2
  <2>3. \E lag \in 0 .. away : \A m \in Sched!Alerts : (now - next[m]) % Wrap = lag
    BY <1>3, <2>2
  <2>4. QED
    BY <1>2, <2>1, <2>2, <2>3 DEF SchedInv
<1>5. Sched!FramesOf({})[Last] = 0
  BY <1>1, NothingIsEmpty
<1>6. QED
  BY <1>1, <1>2, <1>4, <1>5 DEF Sched!BatchHolds, Last

\* A publication with the address ready.
LEMMA TickKeeps ==
  ASSUME Sched!SchedAssumption, SchedInv, NEW fault \in BOOLEAN, Sched!Publish(TRUE, fault),
         Sched!Tick((now + 1) % Wrap, fault)
  PROVE  /\ SchedInv' /\ Sched!BatchHolds'
         /\ wasFault' /\ ~wasFault => sent' \cap Sched!Alerts # {}
         /\ master_seen /\ quiet' < Timeout => sent' \cap Sched!Sources = {}
<1> DEFINE at == (now + 1) % Wrap
<1>1. /\ Wrap \in Nat \ {0} /\ AwayMax \in Nat /\ QuietMax \in Nat /\ Timeout \in Nat
      /\ AwayMax + 1 < Wrap \div 2 /\ Timeout <= QuietMax /\ Timeout <= Wrap
      /\ Sched!Alerts \subseteq Sched!Ids
      /\ \A m \in Sched!Ids : Messages[m].period \in Nat
  BY MessageTypes
<1>2. /\ now \in 0 .. Wrap - 1 /\ next \in [Sched!Ids -> 0 .. Wrap - 1]
      /\ master_seen \in BOOLEAN /\ master_last \in 0 .. Wrap - 1
      /\ away \in 0 .. AwayMax /\ quiet \in 0 .. QuietMax /\ wasFault \in BOOLEAN
      /\ ~wasFault => \E lag \in 0 .. away : \A m \in Sched!Alerts : (now - next[m]) % Wrap = lag
      /\ master_seen /\ quiet < Timeout => (now - master_last) % Wrap = quiet
  BY DEF SchedInv
<1>3. /\ now' = at /\ quiet' = (IF quiet < QuietMax THEN quiet + 1 ELSE quiet)
      /\ away' = (IF away = 0 THEN 0 ELSE away - 1)
      /\ master_seen' = master_seen /\ master_last' = master_last
  BY DEF Sched!Publish
<1>4. /\ sent' = Sched!Chosen(at, fault).set /\ wasFault' = fault
      /\ next' = [m \in Sched!Ids |-> IF m \in sent' THEN (at + Messages[m].period) % Wrap
                                      ELSE IF Sched!Held(at, fault, m) THEN at ELSE next[m]]
  BY DEF Sched!Tick, Sched!HeldBack
<1>5. at \in 0 .. Wrap - 1
  BY <1>1, <1>2, Ages
<1>6. /\ sent' \subseteq {m \in Sched!Ids : ~Sched!Held(at, fault, m)}
      /\ Sched!FramesOf(sent')[Last] <= Batch
      /\ \A m \in Sched!Ids : /\ ~Sched!Held(at, fault, m) /\ Sched!Due(at, next[m])
                              /\ Sched!FramesOf(Sched!Ids)[m] <= Batch
                              => m \in sent'
  <2> HIDE DEF at
  <2>1. QED
    BY <1>4, ChosenIsRight
<1> HIDE DEF at
<1>7. next' \in [Sched!Ids -> 0 .. Wrap - 1]
  <2>1. \A m \in Sched!Ids : (at + Messages[m].period) % Wrap \in 0 .. Wrap - 1
    BY <1>1, <1>5
  <2>2. QED
    BY <1>2, <1>4, <1>5, <2>1
<1>8. away' \in 0 .. AwayMax /\ quiet' \in 0 .. QuietMax
  BY <1>1, <1>2, <1>3
<1>9. ~wasFault' => \E lag \in 0 .. away' : \A m \in Sched!Alerts : (now' - next'[m]) % Wrap = lag
  <2>1. ASSUME ~fault, NEW m \in Sched!Alerts PROVE (now' - next'[m]) % Wrap = 0
    <3>1. Sched!Held(at, fault, m)
      BY <2>1 DEF Sched!Held
    <3>2. next'[m] = at
      BY <1>1, <1>4, <1>6, <3>1
    <3>3. QED
      BY <1>1, <1>3, <1>5, <3>2
  <2>2. 0 \in 0 .. away'
    BY <1>8
  <2>3. QED
    BY <1>4, <2>1, <2>2
<1>10. master_seen /\ quiet' < Timeout => (at - master_last) % Wrap = quiet'
  <2>1. SUFFICES ASSUME master_seen, quiet' < Timeout PROVE (at - master_last) % Wrap = quiet'
    OBVIOUS
  <2>2. quiet' = quiet + 1 /\ quiet < Timeout /\ quiet + 1 < Wrap
    BY <1>1, <1>2, <1>3, <2>1
  <2>3. (now - master_last) % Wrap = quiet
    BY <1>2, <2>1, <2>2
  <2>4. QED
    BY <1>1, <1>2, <2>2, <2>3, Ages DEF at
<1>11. SchedInv'
  <2>1. Sched!Ids' = Sched!Ids /\ Sched!Alerts' = Sched!Alerts
    BY DEF Sched!Ids, Sched!Alerts
  <2>2. QED
    BY <1>2, <1>3, <1>4, <1>5, <1>7, <1>8, <1>9, <1>10, <2>1 DEF SchedInv
<1>12. wasFault' /\ ~wasFault => sent' \cap Sched!Alerts # {}
  <2>1. SUFFICES ASSUME fault = TRUE, ~wasFault PROVE sent' \cap Sched!Alerts # {}
    BY <1>4
  <2>2. PICK m \in Sched!Alerts : Sched!FramesOf(Sched!Ids)[m] <= Batch
    BY DEF Sched!SchedAssumption
  <2>3. ~Sched!Held(at, fault, m)
    BY <2>1, <2>2 DEF Sched!Held, Sched!Alerts, Sched!Sources
  <2>4. PICK lag \in 0 .. away : (now - next[m]) % Wrap = lag
    BY <1>2, <2>1
  <2>5. lag + 1 < Wrap \div 2 /\ lag + 1 < Wrap
    BY <1>1, <1>2, <2>4
  <2>6. (at - next[m]) % Wrap = lag + 1
    BY <1>1, <1>2, <2>4, <2>5, Ages DEF at
  <2>7. Sched!Due(at, next[m])
    BY <2>5, <2>6 DEF Sched!Due
  <2>8. QED
    BY <1>1, <1>6, <2>2, <2>3, <2>7
<1>13. master_seen /\ quiet' < Timeout => sent' \cap Sched!Sources = {}
  <2>1. SUFFICES ASSUME master_seen, quiet' < Timeout, NEW m \in Sched!Sources, m \in sent'
                 PROVE  FALSE
    BY <1>6
  <2>2. Sched!Held(at, fault, m)
    BY <1>10, <2>1 DEF Sched!Held, Sched!Defer
  <2>3. QED
    BY <1>6, <2>1, <2>2
<1>14. QED
  BY <1>6, <1>11, <1>12, <1>13 DEF Sched!BatchHolds, Last

LEMMA AwayKeeps ==
  ASSUME Sched!SchedAssumption, SchedInv, NEW fault \in BOOLEAN, Sched!Publish(FALSE, fault)
  PROVE  SchedInv' /\ Sched!BatchHolds' /\ ~ready' /\ sent' = {}
<1> DEFINE at == (now + 1) % Wrap
<1>1. /\ Wrap \in Nat \ {0} /\ AwayMax \in Nat /\ QuietMax \in Nat /\ Timeout \in Nat /\ Batch \in Nat
      /\ AwayMax + 1 < Wrap \div 2 /\ Timeout <= QuietMax /\ Timeout <= Wrap
      /\ Sched!Alerts \subseteq Sched!Ids
  BY MessageTypes
<1>2. /\ now \in 0 .. Wrap - 1 /\ next \in [Sched!Ids -> 0 .. Wrap - 1]
      /\ master_seen \in BOOLEAN /\ master_last \in 0 .. Wrap - 1
      /\ away \in 0 .. AwayMax /\ quiet \in 0 .. QuietMax /\ wasFault \in BOOLEAN
      /\ ~wasFault => \E lag \in 0 .. away : \A m \in Sched!Alerts : (now - next[m]) % Wrap = lag
      /\ master_seen /\ quiet < Timeout => (now - master_last) % Wrap = quiet
  BY DEF SchedInv
<1>3. /\ now' = at /\ quiet' = (IF quiet < QuietMax THEN quiet + 1 ELSE quiet)
      /\ away' = away + 1 /\ away < AwayMax /\ ready' = FALSE /\ sent' = {}
      /\ next' = next /\ wasFault' = wasFault
      /\ master_seen' = master_seen /\ master_last' = master_last
  BY DEF Sched!Publish
<1>4. at \in 0 .. Wrap - 1
  BY <1>1, <1>2, Ages
<1>5. ASSUME NEW t \in 0 .. Wrap - 1, NEW n \in Nat, (now - t) % Wrap = n, n + 1 < Wrap
      PROVE  (at - t) % Wrap = n + 1
  BY <1>1, <1>2, <1>5, Ages
<1> HIDE DEF at
<1>6. away' \in 0 .. AwayMax /\ quiet' \in 0 .. QuietMax
  BY <1>1, <1>2, <1>3
<1>7. ~wasFault' => \E lag \in 0 .. away' : \A m \in Sched!Alerts : (now' - next'[m]) % Wrap = lag
  <2>1. SUFFICES ASSUME ~wasFault
                 PROVE  \E lag \in 0 .. away' : \A m \in Sched!Alerts : (now' - next'[m]) % Wrap = lag
    BY <1>3
  <2>2. PICK lag \in 0 .. away : \A m \in Sched!Alerts : (now - next[m]) % Wrap = lag
    BY <1>2, <2>1
  <2>3. lag \in Nat /\ lag + 1 < Wrap /\ lag + 1 \in 0 .. away'
    BY <1>1, <1>2, <1>3, <2>2
  <2>4. \A m \in Sched!Alerts : (now' - next'[m]) % Wrap = lag + 1
    BY <1>1, <1>2, <1>3, <1>5, <2>2, <2>3
  <2>5. QED
    BY <2>3, <2>4
<1>8. master_seen' /\ quiet' < Timeout => (now' - master_last') % Wrap = quiet'
  <2>1. SUFFICES ASSUME master_seen, quiet' < Timeout PROVE (at - master_last) % Wrap = quiet'
    BY <1>3
  <2>2. quiet' = quiet + 1 /\ quiet < Timeout /\ quiet + 1 < Wrap /\ quiet \in Nat
    BY <1>1, <1>2, <1>3, <2>1
  <2>3. QED
    BY <1>2, <1>5, <2>1, <2>2
<1>9. SchedInv'
  <2>1. Sched!Ids' = Sched!Ids /\ Sched!Alerts' = Sched!Alerts
    BY DEF Sched!Ids, Sched!Alerts
  <2>2. QED
    BY <1>2, <1>3, <1>4, <1>6, <1>7, <1>8, <2>1 DEF SchedInv
<1>10. Sched!FramesOf({})[Last] = 0
  BY NothingIsEmpty
<1>11. QED
  BY <1>1, <1>3, <1>9, <1>10 DEF Sched!BatchHolds, Last

LEMMA HearKeeps ==
  ASSUME Sched!SchedAssumption, SchedInv, Sched!Hear
  PROVE  SchedInv' /\ now' = now /\ sent' = sent
<1>1. Wrap \in Nat \ {0} /\ QuietMax \in Nat
  BY MessageTypes
<1>2. /\ master_seen' = TRUE /\ master_last' = now /\ quiet' = 0
      /\ now' = now /\ next' = next /\ away' = away /\ wasFault' = wasFault /\ sent' = sent
  BY DEF Sched!Hear
<1>3. now \in 0 .. Wrap - 1
  BY DEF SchedInv
<1>4. (now - now) % Wrap = 0
  BY <1>1, <1>3
<1>5. QED
  BY <1>1, <1>2, <1>3, <1>4 DEF SchedInv, Sched!Ids, Sched!Alerts

\* What a step of the schedulers keeps, and what it may never do.
Told == now' # now /\ ready' /\ wasFault' /\ ~wasFault => sent' \cap Sched!Alerts # {}
Left == now' # now /\ master_seen /\ quiet' < Timeout => sent' \cap Sched!Sources = {}

LEMMA SchedStep ==
  ASSUME Sched!SchedAssumption, SchedInv, Sched!BatchHolds, [Sched!SchedNext]_(Sched!schedVars)
  PROVE  SchedInv' /\ Sched!BatchHolds' /\ [Told]_(Sched!schedVars) /\ [Left]_(Sched!schedVars)
<1>1. CASE UNCHANGED Sched!schedVars
  <2>1. /\ now' = now /\ next' = next /\ master_seen' = master_seen /\ master_last' = master_last
        /\ away' = away /\ quiet' = quiet /\ wasFault' = wasFault /\ sent' = sent
    BY <1>1 DEF Sched!schedVars
  <2>2. QED
    BY <1>1, <2>1 DEF SchedInv, Sched!BatchHolds, Sched!FramesOf, Sched!Ids, Sched!Alerts
<1>2. CASE Sched!Hear
  BY <1>2, HearKeeps DEF Told, Left, Sched!BatchHolds
<1>3. ASSUME NEW fault \in BOOLEAN, Sched!Publish(FALSE, fault)
      PROVE  SchedInv' /\ Sched!BatchHolds' /\ Told /\ Left
  BY <1>3, AwayKeeps DEF Told, Left
<1>4. ASSUME NEW fault \in BOOLEAN, Sched!Publish(TRUE, fault)
      PROVE  SchedInv' /\ Sched!BatchHolds' /\ Told /\ Left
  <2>1. Sched!Tick((now + 1) % Wrap, fault)
    BY <1>4 DEF Sched!Publish
  <2>2. QED
    BY <1>4, <2>1, TickKeeps DEF Told, Left
<1>5. QED
  BY <1>1, <1>2, <1>3, <1>4 DEF Sched!SchedNext

LEMMA SchedInvariance ==
  ASSUME Sched!SchedAssumption
  PROVE  SchedSpec => [](SchedInv /\ Sched!BatchHolds)
<1>1. (SchedInv /\ Sched!BatchHolds) /\ [Sched!SchedNext]_(Sched!schedVars)
        => (SchedInv /\ Sched!BatchHolds)'
  BY SchedStep
<1>2. QED
  BY <1>1, SchedInvInit, PTL DEF SchedSpec

\* A fault that comes up is told by the next publication, though the address was away and
\* the clock wrapped; and what a better node tells is left to it.
THEOREM AlertsAreTold ==
  ASSUME Sched!SchedAssumption
  PROVE  SchedSpec => Sched!RaisedIsTold /\ Sched!LeavesItToTheBetter
<1>1. (SchedInv /\ Sched!BatchHolds) /\ [Sched!SchedNext]_(Sched!schedVars)
        => [Told]_(Sched!schedVars) /\ [Left]_(Sched!schedVars)
  BY SchedStep
<1>2. QED
  BY <1>1, SchedInvariance, PTL
     DEF SchedSpec, Sched!RaisedIsTold, Sched!LeavesItToTheBetter, Told, Left

\* A publication never has more frames than the batch has space for.
THEOREM BatchAlwaysHolds ==
  ASSUME Sched!SchedAssumption
  PROVE  SchedSpec => []Sched!BatchHolds
BY SchedInvariance, PTL
-----------------------------------------------------------------------------
(* IDENTIFIERS (CanId) *)

IdSpec == Ids!IdInit /\ [][Ids!IdNext]_(Ids!idVars)

Sendable(p) == p \in Nat /\ p < 131072 /\ ((p \div 256) % 256 < 240 => p % 256 = 0)
Pgn == {p \in Nat : Sendable(p)}

IdInv == frame \in [prio : {n \in Nat : n < 8}, pgn : Pgn, src : Ids!Octet, dest : Ids!Octet]

LEMMA IdInvariance ==
  ASSUME Ids!IdAssumption
  PROVE  IdSpec => []IdInv
<1>1. Pgns \subseteq Pgn /\ Senders \subseteq Ids!Octet /\ Dests \subseteq Ids!Octet
  <2>1. 2 ^ 17 = 131072
    BY SMT
  <2>2. QED
    BY SMT, <2>1 DEF Ids!IdAssumption, Pgn, Sendable
<1>2. Ids!IdInit => IdInv
  <2>1. Ids!Claim \in Pgn
    BY SMT DEF Ids!Claim, Pgn, Sendable
  <2>2. 0 \in Ids!Octet /\ 255 \in Ids!Octet
    BY SMT DEF Ids!Octet
  <2>3. QED
    BY SMT, <2>1, <2>2 DEF Ids!IdInit, IdInv
<1>3. ASSUME IdInv, [Ids!IdNext]_(Ids!idVars) PROVE IdInv'
  <2>1. ASSUME NEW p \in Pgns, frame' = [frame EXCEPT !.pgn = p] PROVE IdInv'
    BY SMT, <1>1, <1>3, <2>1 DEF IdInv
  <2>2. ASSUME NEW p \in {0, 2, 6, 7}, frame' = [frame EXCEPT !.prio = p] PROVE IdInv'
    BY SMT, <1>3, <2>2 DEF IdInv
  <2>3. ASSUME NEW a \in Senders, frame' = [frame EXCEPT !.src = a] PROVE IdInv'
    BY SMT, <1>1, <1>3, <2>3 DEF IdInv
  <2>4. ASSUME NEW a \in Dests, frame' = [frame EXCEPT !.dest = a] PROVE IdInv'
    BY SMT, <1>1, <1>3, <2>4 DEF IdInv
  <2>5. QED
    BY <1>3, <2>1, <2>2, <2>3, <2>4 DEF Ids!IdNext, Ids!idVars, IdInv
<1>4. QED
  BY <1>2, <1>3, PTL DEF IdSpec

\* The identifier as a number: a field of 17 bits stands between priority and source, and
\* its upper nine bits are those of the PGN.
Composed(id, prio, field, src) ==
    /\ prio \in Nat /\ prio < 8 /\ field \in Nat /\ field < 131072 /\ src \in Nat /\ src < 256
    /\ id = prio * 67108864 + field * 256 + src
Carries(field, pgn) ==
    /\ field \div 256 = pgn \div 256
    /\ IF (pgn \div 256) % 256 < 240 THEN field - (field % 256) = pgn ELSE field = pgn

LEMMA IdParts ==
  ASSUME NEW prio \in Nat, prio < 8, NEW pgn \in Pgn, NEW src \in Ids!Octet,
         NEW dest \in Ids!Octet
  PROVE  \E field : Composed(Ids!CanIdOf(prio, pgn, src, dest), prio, field, src)
                      /\ Carries(field, pgn)
<1>1. 2 ^ 17 = 131072 /\ 2 ^ 26 = 67108864
  BY SMT
<1>2. pgn % 131072 = pgn /\ pgn \in Nat /\ pgn < 131072
  BY SMT DEF Pgn, Sendable
<1>3. dest \in Nat /\ dest < 256 /\ src \in Nat /\ src < 256
  BY SMT DEF Ids!Octet
<1> DEFINE field == IF (pgn \div 256) % 256 < 240 THEN (pgn - (pgn % 256)) + dest ELSE pgn
<1>4. Ids!CanIdOf(prio, pgn, src, dest) = prio * 67108864 + field * 256 + src
  BY SMT, <1>1, <1>2 DEF Ids!CanIdOf, Ids!Addressed
<1>5. CASE (pgn \div 256) % 256 < 240
  <2>1. pgn % 256 = 0 /\ field = pgn + dest
    BY SMT, <1>5, <1>2 DEF Pgn, Sendable
  <2> DEFINE q == pgn \div 256
  <2>2. pgn = q * 256 /\ q \in Nat /\ q < 512
    BY SMT, <1>2, <2>1
  <2> HIDE DEF q, field
  <2>3. field \in Nat /\ field < 131072 /\ field \div 256 = q /\ field % 256 = dest
    BY SMT, <1>3, <2>1, <2>2
  <2>4. field - (field % 256) = pgn
    BY SMT, <1>3, <2>1, <2>3, <1>2
  <2>5. Composed(Ids!CanIdOf(prio, pgn, src, dest), prio, field, src)
    BY SMT, <1>3, <1>4, <2>3 DEF Composed
  <2>6. field \div 256 = pgn \div 256
    BY <2>3 DEF q
  <2>7. Carries(field, pgn)
    BY SMT, <1>5, <2>4, <2>6 DEF Carries
  <2>8. QED
    BY <2>5, <2>7
<1>6. CASE ~((pgn \div 256) % 256 < 240)
  BY SMT, <1>2, <1>3, <1>4, <1>6 DEF Composed, Carries
<1>7. QED
  BY SMT, <1>5, <1>6

\* What the readers of an identifier take out of it.
ReadBack(id, prio, field, src) ==
    /\ (id \div 67108864) % 8 = prio /\ (id \div 256) % 131072 = field /\ id % 256 = src
    /\ (id \div 65536) % 512 = field \div 256 /\ (id \div 512) % 65536 = field \div 2

LEMMA IdReads ==
  ASSUME NEW id, NEW prio, NEW field, NEW src, Composed(id, prio, field, src)
  PROVE  ReadBack(id, prio, field, src)
<1>0. /\ prio \in Nat /\ prio < 8 /\ field \in Nat /\ field < 131072 /\ src \in Nat /\ src < 256
      /\ id = prio * 67108864 + field * 256 + src
  BY SMT DEF Composed
<1>1. id \in Nat /\ id = (prio * 262144 + field) * 256 + src /\ id % 256 = src
      /\ id \div 256 = prio * 262144 + field
  BY SMT, <1>0
<1>2. (id \div 256) % 131072 = field
  BY SMT, <1>0, <1>1
<1>3. (id \div 67108864) % 8 = prio
  BY SMT, <1>0
<1>4. (id \div 65536) % 512 = field \div 256
  <2> DEFINE q == field \div 256
             r == field % 256
  <2>1. field = q * 256 + r /\ q \in Nat /\ q < 512 /\ r \in Nat /\ r < 256
    BY SMT, <1>0
  <2> HIDE DEF q, r
  <2>2. id = (prio * 1024 + q) * 65536 + (r * 256 + src) /\ r * 256 + src < 65536
    BY SMT, <1>0, <2>1
  <2>3. id \div 65536 = prio * 1024 + q
    BY SMT, <1>0, <2>1, <2>2
  <2>4. QED
    BY SMT, <1>0, <2>1, <2>3 DEF q
<1>5. (id \div 512) % 65536 = field \div 2
  <2> DEFINE q == field \div 2
             r == field % 2
  <2>1. field = q * 2 + r /\ q \in Nat /\ q < 65536 /\ r \in Nat /\ r < 2
    BY SMT, <1>0
  <2> HIDE DEF q, r
  <2>2. id = (prio * 131072 + q) * 512 + (r * 256 + src) /\ r * 256 + src < 512
    BY SMT, <1>0, <2>1
  <2>3. id \div 512 = prio * 131072 + q
    BY SMT, <1>0, <2>1, <2>2
  <2>4. QED
    BY SMT, <1>0, <2>1, <2>3 DEF q
<1>6. QED
  BY SMT, <1>1, <1>2, <1>3, <1>4, <1>5 DEF ReadBack

\* The frame of the bus, as its readers see it.
LEMMA IdIsRead ==
  ASSUME IdInv
  PROVE  Ids!IdsComeBack /\ Ids!FiltersMatchReaders
<1> DEFINE prio == frame.prio
           pgn  == frame.pgn
           src  == frame.src
           dest == frame.dest
           id   == Ids!Id
<1>1. /\ prio \in Nat /\ prio < 8 /\ pgn \in Pgn /\ src \in Ids!Octet /\ dest \in Ids!Octet
      /\ src \in Nat /\ src < 256 /\ id = Ids!CanIdOf(prio, pgn, src, dest)
  BY SMT DEF IdInv, Ids!Octet, Ids!Id
<1>2. pgn \in Nat /\ pgn < 131072 /\ ((pgn \div 256) % 256 < 240 => pgn % 256 = 0)
  BY SMT, <1>1 DEF Pgn, Sendable
<1>3. 2 ^ 8 = 256 /\ 2 ^ 9 = 512 /\ 2 ^ 16 = 65536 /\ 2 ^ 17 = 131072 /\ 2 ^ 26 = 67108864
  BY SMT
<1> HIDE DEF prio, pgn, src, dest, id
<1>4. PICK field : Composed(id, prio, field, src) /\ Carries(field, pgn)
  BY <1>1, IdParts
<1>5. ReadBack(id, prio, field, src)
  BY <1>4, IdReads
<1>5a. field \in Nat /\ field < 131072
  BY SMT, <1>4 DEF Composed
<1>6. Ids!PgnOf(id) = pgn
  BY SMT, <1>3, <1>4, <1>5 DEF Ids!PgnOf, Ids!Addressed, ReadBack, Carries
<1>7. Ids!PrioOf(id) = prio /\ Ids!SrcOf(id) = src
  BY SMT, <1>3, <1>5 DEF Ids!PrioOf, Ids!SrcOf, ReadBack
<1>8. Ids!FilterPgn(id) = pgn \div 256 /\ Ids!FilterDc(id) = field \div 2
  BY SMT, <1>3, <1>4, <1>5 DEF Ids!FilterPgn, Ids!FilterDc, ReadBack, Carries
<1>9. ASSUME NEW p \in Pgn
      PROVE  Ids!FilterPgn(Ids!CanIdOf(0, p, 0, 0)) = p \div 256
  <2>1. 0 \in Ids!Octet /\ 0 \in Nat /\ 0 < 8
    BY SMT DEF Ids!Octet
  <2>2. PICK g : Composed(Ids!CanIdOf(0, p, 0, 0), 0, g, 0) /\ Carries(g, p)
    BY <1>9, <2>1, IdParts
  <2>3. ReadBack(Ids!CanIdOf(0, p, 0, 0), 0, g, 0)
    BY <2>2, IdReads
  <2>4. QED
    BY SMT, <1>3, <2>2, <2>3 DEF Ids!FilterPgn, ReadBack, Carries
<1>10. Ids!Claim \in Pgn /\ Ids!Request \in Pgn /\ Ids!Claim \div 256 = 238 /\ Ids!Request \div 256 = 234
  BY SMT DEF Ids!Claim, Ids!Request, Pgn, Sendable
<1>11. Ids!FilterDc(Ids!CanIdOf(0, Ids!Dc2Dgn, 0, 0)) = 65534
  BY SMT, <1>3 DEF Ids!FilterDc, Ids!CanIdOf, Ids!Dc2Dgn, Ids!Addressed
<1>12. Ids!Admitted(id) <=> pgn \div 256 = 238 \/ pgn \div 256 = 234 \/ field \div 2 = 65534
  BY SMT, <1>8, <1>9, <1>10, <1>11 DEF Ids!Admitted
<1>13. Ids!Reads(id) <=> pgn = 60928 \/ pgn = 59904 \/ pgn = 131069 \/ pgn = 131068
  BY SMT, <1>6 DEF Ids!Reads, Ids!Claim, Ids!Request, Ids!Dc1Dgn, Ids!Dc2Dgn
<1>14. pgn = 60928 <=> pgn \div 256 = 238
  BY SMT, <1>2
<1>15. pgn = 59904 <=> pgn \div 256 = 234
  BY SMT, <1>2
<1>16. field \div 2 = 65534 <=> pgn = 131069 \/ pgn = 131068
  <2>1. field \div 2 = 65534 => pgn \div 256 = 511
    BY SMT, <1>4, <1>5a DEF Carries
  <2>2. pgn = 131069 \/ pgn = 131068 => pgn \div 256 = 511
    BY SMT, <1>2
  <2>3. pgn \div 256 = 511 => field = pgn
    BY SMT, <1>4, <1>5a DEF Carries
  <2>4. QED
    BY SMT, <1>2, <1>5a, <2>1, <2>2, <2>3
<1>17. Ids!FiltersMatchReaders
  BY SMT, <1>12, <1>13, <1>14, <1>15, <1>16 DEF Ids!FiltersMatchReaders, id
<1>18. QED
  BY SMT, <1>6, <1>7, <1>17 DEF Ids!IdsComeBack, id, prio, pgn, src
-----------------------------------------------------------------------------
(* TEXTS (FastPacket) *)

TextSpec == Text!FpInit /\ [][Text!FpNext]_(Text!fpVars)

TextInv == first \in Nat /\ second \in Nat /\ room \in Nat

LEMMA TextInvariance ==
  ASSUME Text!TextAssumption
  PROVE  TextSpec => []TextInv
<1>1. Text!FpInit => TextInv
  BY DEF Text!FpInit, TextInv
<1>2. ASSUME TextInv, [Text!FpNext]_(Text!fpVars) PROVE TextInv'
  <2>1. ASSUME NEW n \in Nat, NEW m \in Nat PROVE (n + 1) % (m + 1) \in Nat
    OBVIOUS
  <2>2. Longest \in Nat /\ Cap \div 7 + 2 \in Nat /\ Cap \div 7 + 3 = (Cap \div 7 + 2) + 1
    BY DEF Text!TextAssumption
  <2>3. (room + 1) % (Cap \div 7 + 3) \in Nat
    BY <1>2, <2>1, <2>2 DEF TextInv
  <2>4. (first + 1) % (Longest + 1) \in Nat /\ (second + 1) % (Longest + 1) \in Nat
    BY <1>2, <2>1, <2>2 DEF TextInv
  <2>5. QED
    BY <1>2, <2>3, <2>4 DEF TextInv, Text!FpNext, Text!fpVars
<1>3. QED
  BY <1>1, <1>2, PTL DEF TextSpec

\* The bytes of a payload, and a payload with one more text.
Byte == {"head", "a", "b", "len", "ascii", "pad"} \X Nat

Extends(q, p, tag, n) ==
    /\ q \in Seq(Byte) /\ Len(q) = Len(p) + n + 2
    /\ \A i \in 1 .. Len(p) : q[i] = p[i]
    /\ q[Len(p) + 1] = <<"len", n + 2>>
    /\ \A i \in 1 .. n : q[Len(p) + 2 + i] = <<tag, i>>

LEMMA PutExtends ==
  ASSUME Text!TextAssumption, NEW p \in Seq(Byte), p # <<>>, NEW n \in Nat, NEW tag \in {"a", "b"},
         Len(p) + n + 2 <= Cap
  PROVE  Extends(Text!PutVarStr(p, tag, n), p, tag, n)
<1> DEFINE h == <<<<"len", n + 2>>, <<"ascii", 0>>>>
           t == [i \in 1 .. n |-> <<tag, i>>]
<1>1. h \in Seq(Byte) /\ Len(h) = 2 /\ h[1] = <<"len", n + 2>>
  BY DEF Byte
<1>2. t \in Seq(Byte) /\ Len(t) = n /\ \A i \in 1 .. n : t[i] = <<tag, i>>
  BY DEF Byte
<1>3. Text!PutVarStr(p, tag, n) = p \o h \o t
  BY DEF Text!PutVarStr, Text!Refused, Text!TextAssumption
<1> HIDE DEF h, t
<1>4. p \o h \in Seq(Byte) /\ Len(p \o h) = Len(p) + 2
      /\ \A i \in 1 .. Len(p) + 2 : (p \o h)[i] = IF i <= Len(p) THEN p[i] ELSE h[i - Len(p)]
  <2>1. p \o h \in Seq(Byte) /\ Len(p \o h) = Len(p) + Len(h)
        /\ \A i \in 1 .. Len(p) + Len(h) : (p \o h)[i] = IF i <= Len(p) THEN p[i] ELSE h[i - Len(p)]
    BY <1>1, ConcatProperties
  <2>2. QED
    BY <1>1, <2>1
<1> DEFINE g == p \o h
<1> HIDE DEF g
<1>5. g \o t \in Seq(Byte) /\ Len(g \o t) = Len(g) + n
      /\ \A i \in 1 .. Len(g) + n : (g \o t)[i] = IF i <= Len(g) THEN g[i] ELSE t[i - Len(g)]
  BY <1>2, <1>4, ConcatProperties DEF g
<1>6. Len(p) \in Nat /\ Len(g) = Len(p) + 2
  BY <1>4 DEF g
<1>7. \A i \in 1 .. Len(p) : (g \o t)[i] = p[i]
  BY <1>4, <1>5, <1>6 DEF g
<1>8. (g \o t)[Len(p) + 1] = <<"len", n + 2>>
  BY <1>1, <1>4, <1>5, <1>6 DEF g
<1>9. \A i \in 1 .. n : (g \o t)[Len(p) + 2 + i] = <<tag, i>>
  BY <1>2, <1>5, <1>6
<1>10. Len(g \o t) = Len(p) + n + 2
  BY <1>5, <1>6
<1>11. QED
  BY <1>3, <1>5, <1>7, <1>8, <1>9, <1>10 DEF Extends, g

\* What is sent, and that what does not fit is refused.
Size == Lead + first + second + 4

Holds(p) ==
    /\ p \in Seq(Byte) /\ Len(p) = Size
    /\ p[Lead + 1] = <<"len", first + 2>> /\ \A i \in 1 .. first : p[Lead + 2 + i] = <<"a", i>>
    /\ p[Lead + first + 3] = <<"len", second + 2>>
    /\ \A i \in 1 .. second : p[Lead + first + 4 + i] = <<"b", i>>

LEMMA PayloadHolds ==
  ASSUME Text!TextAssumption, TextInv
  PROVE  /\ Size <= Cap => Holds(Text!Payload)
         /\ Size > Cap => Text!Payload = <<>>
<1> DEFINE p == [i \in 1 .. Lead |-> <<"head", i>>]
           q == Text!PutVarStr(p, "a", first)
           r == Text!PutVarStr(q, "b", second)
<1>1. Lead \in Nat \ {0} /\ Cap \in Nat /\ first \in Nat /\ second \in Nat
  BY DEF Text!TextAssumption, TextInv
<1>2. p \in Seq(Byte) /\ Len(p) = Lead /\ p # <<>>
  BY <1>1 DEF Byte
<1>3. Text!Payload = r
  BY DEF Text!Payload
<1> HIDE DEF p, q, r
<1>4. CASE Lead + first + 2 > Cap
  <2>1. q = <<>>
    BY <1>2, <1>4, <1>1 DEF q, Text!PutVarStr, Text!Refused
  <2>2. r = <<>>
    BY <2>1 DEF r, Text!PutVarStr, Text!Refused
  <2>3. Size > Cap
    BY <1>1, <1>4 DEF Size
  <2>4. QED
    BY <1>1, <1>3, <2>2, <2>3 DEF Size
<1>5. CASE Lead + first + 2 <= Cap
  <2>1. Extends(q, p, "a", first)
    BY <1>1, <1>2, <1>5, PutExtends DEF q
  <2>2. q \in Seq(Byte) /\ Len(q) = Lead + first + 2 /\ q # <<>>
    BY <1>1, <1>2, <2>1 DEF Extends
  <2>3. CASE Size > Cap
    <3>1. r = <<>>
      BY <1>1, <2>2, <2>3 DEF r, Text!PutVarStr, Text!Refused, Size
    <3>2. QED
      BY <1>1, <1>3, <2>3, <3>1 DEF Size
  <2>4. CASE Size <= Cap
    <3>1. Len(q) + second + 2 <= Cap
      BY <1>1, <2>2, <2>4 DEF Size
    <3>2. Extends(r, q, "b", second)
      BY <1>1, <2>2, <3>1, PutExtends DEF r
    <3>3. Len(r) = Size /\ r \in Seq(Byte)
      BY <1>1, <2>2, <3>2 DEF Extends, Size
    <3>4. r[Lead + 1] = <<"len", first + 2>>
      <4>1. Lead + 1 \in 1 .. Len(q)
        BY <1>1, <2>2
      <4>2. r[Lead + 1] = q[Lead + 1]
        BY <3>2, <4>1 DEF Extends
      <4>3. QED
        BY <1>2, <2>1, <4>2 DEF Extends
    <3>5. ASSUME NEW i \in 1 .. first PROVE r[Lead + 2 + i] = <<"a", i>>
      <4>1. Lead + 2 + i \in 1 .. Len(q)
        BY <1>1, <2>2
      <4>2. r[Lead + 2 + i] = q[Lead + 2 + i]
        BY <3>2, <4>1 DEF Extends
      <4>3. QED
        BY <1>2, <2>1, <4>2 DEF Extends
    <3>6. r[Lead + first + 3] = <<"len", second + 2>>
      <4>1. Len(q) + 1 = Lead + first + 3
        BY <1>1, <2>2
      <4>2. QED
        BY <3>2, <4>1 DEF Extends
    <3>7. ASSUME NEW i \in 1 .. second PROVE r[Lead + first + 4 + i] = <<"b", i>>
      <4>1. Len(q) + 2 + i = Lead + first + 4 + i
        BY <1>1, <2>2
      <4>2. QED
        BY <3>2, <4>1 DEF Extends
    <3>8. Holds(r)
      BY <3>3, <3>4, <3>5, <3>6, <3>7 DEF Holds
    <3>9. ~(Size > Cap)
      BY <1>1, <2>4 DEF Size
    <3>10. QED
      BY <1>3, <3>8, <3>9
  <2>5. QED
    BY <1>1, <2>3, <2>4 DEF Size
<1>6. QED
  BY <1>1, <1>4, <1>5

\* The frames of a payload, as the encoder counts them, and as a receiver puts them together.
LEMMA FramesFit ==
  ASSUME NEW n \in Nat, n > 0, NEW r \in Nat
  PROVE  /\ Text!FramesOf(n) \in Nat \ {0}
         /\ Text!FramesOf(n) <= r <=> 6 + 7 * (r - 1) >= n /\ r > 0
         /\ \A k \in 7 .. n : 2 + (k - 7) \div 7 \in 2 .. Text!FramesOf(n)
<1>1. CASE n > 6
  <2>1. Text!FramesOf(n) = 1 + n \div 7
    BY <1>1 DEF Text!FramesOf
  <2> DEFINE q == n \div 7
  <2>2. q \in Nat /\ 7 * q <= n /\ n < 7 * q + 7
    OBVIOUS
  <2> HIDE DEF q
  <2>3. 1 + q <= r <=> 6 + 7 * (r - 1) >= n /\ r > 0
    BY <2>2
  <2>4. ASSUME NEW k \in 7 .. n PROVE 2 + (k - 7) \div 7 \in 2 .. 1 + q
    <3> DEFINE d == (k - 7) \div 7
    <3>1. d \in Nat /\ 7 * d <= k - 7
      OBVIOUS
    <3> HIDE DEF d
    <3>2. 2 + d \in 2 .. 1 + q
      BY <2>2, <3>1
    <3>3. QED
      BY <3>2 DEF d
  <2>5. QED
    BY <2>1, <2>2, <2>3, <2>4 DEF q
<1>2. CASE n <= 6
  BY <1>2 DEF Text!FramesOf
<1>3. QED
  BY <1>1, <1>2

LEMMA ReceivedIsSent ==
  ASSUME Text!TextAssumption, TextInv, NEW p \in Seq(Byte), Len(p) > 0, Len(p) <= Cap,
         Text!FramesOf(Len(p)) <= room
  PROVE  /\ Text!Split(p) # <<>>
         /\ DOMAIN Text!Received(Text!Split(p)) = 1 .. Len(p)
         /\ \A k \in 1 .. Len(p) : Text!Received(Text!Split(p))[k] = p[k]
         /\ Text!Received(Text!Split(p)) \in Seq(Byte)
<1> DEFINE n == Len(p)
           w == Text!FramesOf(n)
           one == [i \in 1 .. 6 |-> IF i <= n THEN p[i] ELSE Text!Pad]
           len == <<<<"len", n>>>>
           more(f) == [i \in 1 .. 7 |-> IF 6 + 7 * (f - 2) + i <= n THEN p[6 + 7 * (f - 2) + i]
                                        ELSE Text!Pad]
           fs == Text!Split(p)
           got1 == Text!Received(fs)
<1>1. n \in Nat /\ n > 0 /\ w \in Nat \ {0} /\ \A k \in 7 .. n : 2 + (k - 7) \div 7 \in 2 .. w
  BY FramesFit DEF TextInv
<1>2. fs = [f \in 1 .. w |-> IF f = 1 THEN len \o one ELSE more(f)]
  <2>1. ~(p = Text!Refused \/ Len(p) > Cap \/ w > room)
    BY <1>1 DEF Text!Refused, Text!TextAssumption, TextInv
  <2> HIDE DEF w, one, len
  <2>2. QED
    BY <2>1 DEF Text!Split, w, one, len
<1>3. Text!Pad \in Byte /\ <<"len", n>> \in Byte /\ \A i \in 1 .. n : p[i] \in Byte
  <2>1. n \in Nat /\ \A i \in 1 .. n : p[i] \in Byte
    BY <1>1
  <2>2. Text!Pad \in Byte /\ \A k \in Nat : <<"len", k>> \in Byte
    BY DEF Byte, Text!Pad
  <2>3. QED
    BY <2>1, <2>2
<1>4. one \in Seq(Byte) /\ Len(one) = 6 /\ \A i \in 1 .. 6 : i <= n => one[i] = p[i]
  <2>1. \A i \in 1 .. 6 : (IF i <= n THEN p[i] ELSE Text!Pad) \in Byte
    BY <1>1, <1>3
  <2>2. QED
    BY <2>1
<1>5. len \in Seq(Byte) /\ Len(len) = 1 /\ len[1] = <<"len", n>>
  BY <1>3
<1> HIDE DEF n, w, one, len, fs, more
<1>6. (len \o one)[1] = <<"len", n>> /\ \A i \in 1 .. 6 : (len \o one)[i + 1] = one[i]
  <2>1. \A i \in 1 .. Len(len) + Len(one) :
           (len \o one)[i] = IF i <= Len(len) THEN len[i] ELSE one[i - Len(len)]
    BY <1>4, <1>5, ConcatProperties
  <2> DEFINE whole == len \o one
  <2> HIDE DEF whole
  <2>2. \A i \in 1 .. 1 + 6 : whole[i] = IF i <= 1 THEN len[i] ELSE one[i - 1]
    BY <1>4, <1>5, <2>1 DEF whole
  <2>3. whole[1] = len[1]
    BY <2>2
  <2>4. ASSUME NEW i \in 1 .. 6 PROVE whole[i + 1] = one[i]
    <3>1. i + 1 \in 1 .. 1 + 6 /\ ~(i + 1 <= 1) /\ (i + 1) - 1 = i
      OBVIOUS
    <3>2. QED
      BY <2>2, <3>1
  <2>5. QED
    BY <1>5, <2>3, <2>4 DEF whole
<1>7. fs[1] = len \o one /\ \A f \in 2 .. w : fs[f] = more(f)
  BY <1>1, <1>2
<1>8. Len(fs) = w /\ fs # <<>>
  <2>1. Len(fs) = w
    BY <1>1, <1>2
  <2>2. QED
    BY <1>1, <2>1
<1>9. fs[1][1][2] = n
  <2>1. fs[1][1] = <<"len", n>>
    BY <1>6, <1>7
  <2>2. QED
    BY <2>1
<1>10. got1 = [k \in 1 .. n |-> IF k <= 6 THEN fs[1][k + 1]
                                ELSE fs[2 + (k - 7) \div 7][1 + ((k - 7) % 7)]]
  BY <1>1, <1>8, <1>9 DEF Text!Received, w
<1>11. ASSUME NEW k \in 1 .. n PROVE got1[k] = p[k]
  <2>1. CASE k <= 6
    <3>1. k \in 1 .. 6
      BY <1>1, <2>1
    <3>2. got1[k] = fs[1][k + 1]
      BY <1>10, <2>1
    <3> HIDE DEF got1
    <3>3. fs[1][k + 1] = one[k]
      BY <1>6, <1>7, <3>1
    <3>4. one[k] = p[k]
      BY <1>1, <1>4, <3>1
    <3>5. QED
      BY <3>2, <3>3, <3>4
  <2>2. CASE k > 6
    <3> DEFINE d == (k - 7) \div 7
               e == (k - 7) % 7
    <3>1. k \in 7 .. n
      BY <1>1, <2>2
    <3>2. 2 + d \in 2 .. w
      BY <1>1, <3>1
    <3>3. d \in Nat /\ e \in 0 .. 6 /\ k - 7 = 7 * d + e
      BY <1>1, <3>1
    <3>4. got1[k] = fs[2 + d][1 + e]
      BY <1>1, <1>10, <2>2
    <3> HIDE DEF d, e, got1
    <3>5. fs[2 + d] = more(2 + d)
      BY <1>7, <3>2
    <3>6. 1 + e \in 1 .. 7 /\ 6 + 7 * ((2 + d) - 2) + (1 + e) = k /\ k <= n
      BY <1>1, <3>3
    <3>7. more(2 + d)[1 + e] = p[k]
      BY <3>6 DEF more
    <3>8. QED
      BY <3>4, <3>5, <3>7
  <2>3. QED
    BY <1>1, <2>1, <2>2
<1>12. DOMAIN got1 = 1 .. n
  BY <1>10
<1>13. got1 \in Seq(Byte)
  <2> HIDE DEF got1
  <2>1. got1 = [k \in 1 .. n |-> got1[k]]
    BY <1>10
  <2>2. \A k \in 1 .. n : got1[k] \in Byte
    BY <1>3, <1>11
  <2>3. QED
    BY <1>1, <2>1, <2>2
<1>14. QED
  BY <1>8, <1>11, <1>12, <1>13 DEF n, fs

LEMMA TextsComeBack ==
  ASSUME Text!TextAssumption, TextInv
  PROVE  Text!TextsArriveWhole
<1> DEFINE fs == Text!Split(Text!Payload)
           p == Text!Received(fs)
           fits == Size <= Cap /\ 6 + 7 * (room - 1) >= Size /\ room > 0
<1>1. Lead \in Nat \ {0} /\ Cap \in Nat /\ first \in Nat /\ second \in Nat /\ room \in Nat
      /\ Size \in Nat /\ Size > 0
  BY DEF Text!TextAssumption, TextInv, Size
<1>2. CASE ~fits
  <2>1. ASSUME Size > Cap PROVE fs = <<>>
    BY <2>1, PayloadHolds DEF Text!Split, Text!Refused
  <2>2. ASSUME Size <= Cap PROVE fs = <<>>
    <3>1. Len(Text!Payload) = Size
      BY <2>2, PayloadHolds DEF Holds
    <3>2. Text!FramesOf(Size) > room
      BY <1>1, <1>2, <2>2, FramesFit
    <3>3. QED
      BY <3>1, <3>2 DEF Text!Split
  <2>3. fs = <<>>
    BY <1>1, <2>1, <2>2
  <2>4. QED
    BY <1>2, <2>3 DEF Text!TextsArriveWhole, Size
<1>3. CASE fits
  <2> DEFINE q == Text!Payload
  <2>1. Holds(q)
    BY <1>3, PayloadHolds
  <2>2. q \in Seq(Byte) /\ Len(q) = Size
    BY <2>1 DEF Holds
  <2>3. Text!FramesOf(Size) <= room
    BY <1>1, <1>3, FramesFit
  <2> HIDE DEF q
  <2>4. /\ Text!Split(q) # <<>> /\ DOMAIN Text!Received(Text!Split(q)) = 1 .. Size
        /\ \A k \in 1 .. Size : Text!Received(Text!Split(q))[k] = q[k]
        /\ Text!Received(Text!Split(q)) \in Seq(Byte)
    BY <1>1, <1>3, <2>2, <2>3, ReceivedIsSent
  <2>5. fs # <<>> /\ p \in Seq(Byte) /\ Len(p) = Size /\ \A k \in 1 .. Size : p[k] = q[k]
    BY <1>1, <2>4 DEF q
  <2> HIDE DEF fs, p
  <2>6. p[Lead + 1] = <<"len", first + 2>> /\ p[Lead + first + 3] = <<"len", second + 2>>
    <3>1. Lead + 1 \in 1 .. Size /\ Lead + first + 3 \in 1 .. Size
      BY <1>1 DEF Size
    <3>2. QED
      BY <2>1, <2>5, <3>1 DEF Holds
  <2>7. /\ \A i \in 1 .. first : p[Lead + 2 + i] = <<"a", i>>
        /\ \A i \in 1 .. second : p[Lead + first + 4 + i] = <<"b", i>>
    <3>1. /\ \A i \in 1 .. first : Lead + 2 + i \in 1 .. Size
          /\ \A i \in 1 .. second : Lead + first + 4 + i \in 1 .. Size
      BY <1>1 DEF Size
    <3>2. QED
      BY <2>1, <2>5, <3>1 DEF Holds
  <2>8. Text!TextAt(p, Lead) = SubSeq(p, Lead + 3, Lead + first + 2)
    <3>1. p[Lead + 1][2] = first + 2 /\ Lead + (first + 2) = Lead + first + 2
      BY <1>1, <2>6
    <3>2. QED
      BY <3>1 DEF Text!TextAt
  <2>9. Text!TextAt(p, Lead + first + 2) = SubSeq(p, Lead + first + 5, Lead + first + second + 4)
    <3>1. /\ p[(Lead + first + 2) + 1][2] = second + 2 /\ (Lead + first + 2) + 3 = Lead + first + 5
          /\ (Lead + first + 2) + (second + 2) = Lead + first + second + 4
      <4>1. (Lead + first + 2) + 1 = Lead + first + 3
        BY <1>1
      <4>2. QED
        BY <1>1, <2>6, <4>1
    <3>2. QED
      BY <3>1 DEF Text!TextAt
  <2>10. ASSUME NEW m \in Nat, NEW l \in Nat, m + l <= Size, m + 1 \in Nat
         PROVE  /\ Len(SubSeq(p, m + 1, m + l)) = l
                /\ \A i \in 1 .. l : SubSeq(p, m + 1, m + l)[i] = p[m + i]
    BY <1>1, <2>5, <2>10
  <2>11. /\ Len(Text!TextAt(p, Lead)) = first
         /\ \A i \in 1 .. first : Text!TextAt(p, Lead)[i] = <<"a", i>>
    <3>1. /\ (Lead + 2) + 1 = Lead + 3 /\ (Lead + 2) + first = Lead + first + 2
          /\ (Lead + 2) + first <= Size /\ Lead + 2 \in Nat /\ Lead + 3 \in Nat
      BY <1>1 DEF Size
    <3>2. QED
      BY <1>1, <2>7, <2>8, <2>10, <3>1
  <2>12. /\ Len(Text!TextAt(p, Lead + first + 2)) = second
         /\ \A i \in 1 .. second : Text!TextAt(p, Lead + first + 2)[i] = <<"b", i>>
    <3>1. /\ (Lead + first + 4) + 1 = Lead + first + 5
          /\ (Lead + first + 4) + second = Lead + first + second + 4
          /\ (Lead + first + 4) + second <= Size /\ Lead + first + 4 \in Nat /\ Lead + first + 5 \in Nat
      BY <1>1 DEF Size
    <3>2. QED
      BY <1>1, <2>7, <2>9, <2>10, <3>1
  <2>13. QED
    BY <1>3, <2>5, <2>11, <2>12 DEF Text!TextsArriveWhole, Size, fs, p
<1>4. QED
  BY <1>2, <1>3
-----------------------------------------------------------------------------
(* TELEMETRY ON THE BUS (CanWire) *)

WireSpec == Wire!WireInit /\ [][Wire!WireNext]_(Wire!wireVars)

Snapshots == [state : {"standby", "bulk", "float"}, binding : {"clamp", "thermal", "other"},
              faults : SUBSET Wire!Bits, tach : {"valid", "stale"}]

WireInv == reading \in Int \cup {NaN} /\ snapshot \in Snapshots

LEMMA WireInvariance ==
  ASSUME Wire!WireAssumption
  PROVE  WireSpec => []WireInv
<1>1. Low \in Int /\ High \in Int
  BY DEF Wire!WireAssumption
<1>2. Wire!Calm \in Snapshots /\ \A m \in Wire!Modes : m \in Snapshots
  BY DEF Wire!Calm, Wire!Modes, Snapshots
<1>3. Wire!WireInit => WireInv
  BY <1>2 DEF Wire!WireInit, WireInv
<1>4. ASSUME WireInv, [Wire!WireNext]_(Wire!wireVars) PROVE WireInv'
  <2>1. QED
    BY <1>1, <1>2, <1>4 DEF WireInv, Wire!WireNext, Wire!wireVars
<1>5. QED
  BY <1>3, <1>4, PTL DEF WireSpec

\* A message with fields of some width, and how far its first fields reach.
Message(m) == Len(m) \in Nat /\ \A i \in 1 .. Len(m) : m[i].bytes \in Nat \ {0}

LEMMA EndsSteps ==
  ASSUME NEW m, Message(m)
  PROVE  /\ \A i \in 0 .. Len(m) : Wire!Ends(m)[i] \in Nat
         /\ Wire!Ends(m)[0] = 0
         /\ \A i \in 1 .. Len(m) : Wire!Ends(m)[i] = Wire!Ends(m)[i - 1] + m[i].bytes
<1> DEFINE n == Len(m)
           T == Nat
           Next1(i, q) == q + m[i].bytes
           step == [i \in 1 .. n |-> [q \in T |-> Next1(i, q)]]
           E(u) == [i \in 0 .. n |-> IF i = 0 THEN 0 ELSE Next1(i, u[i - 1])]
           upTo[i \in 0 .. n] == IF i = 0 THEN 0 ELSE upTo[i - 1] + m[i].bytes
<1>1. n \in Nat /\ \A i \in 1 .. n : m[i].bytes \in Nat
  BY DEF Message
<1>2. Wire!Ends(m) = upTo
  BY DEF Wire!Ends
<1>3. ASSUME NEW i \in 1 .. n, NEW q \in T PROVE Next1(i, q) \in T
  BY <1>1
<1>4. step \in [1 .. n -> [T -> T]]
  BY <1>3
<1>5. \E f \in [0 .. n -> T] : f[0] = 0 /\ \A i \in 1 .. n : f[i] = Next1(i, f[i - 1])
  <2> DEFINE a == 0
  <2>1. n \in Nat /\ a \in T /\ step \in [1 .. n -> [T -> T]]
    BY <1>1, <1>4
  <2>2. \E f : Stepped(n, T, a, step, f)
    <3> HIDE DEF n, T, step, a, upTo, E, Next1
    <3>1. QED
      BY <2>1, RecursionExists
  <2>3. PICK f : Stepped(n, T, a, step, f)
    BY <2>2
  <2>4. ASSUME NEW i \in 1 .. n PROVE f[i] = Next1(i, f[i - 1])
    <3>1. i - 1 \in 0 .. n
      BY <1>1
    <3>2. f[i - 1] \in T /\ f[i] = step[i][f[i - 1]]
      <4> HIDE DEF n, T, step
      <4>1. QED
        BY <2>3, <3>1 DEF Stepped
    <3> HIDE DEF Next1
    <3>3. QED
      BY <3>2
  <2> HIDE DEF Next1, n, T, step
  <2>5. QED
    BY <2>3, <2>4 DEF Stepped
<1>6. \E f : f = E(f)
  <2>1. PICK f \in [0 .. n -> T] : f[0] = 0 /\ \A i \in 1 .. n : f[i] = Next1(i, f[i - 1])
    BY <1>5
  <2>2. \A i \in 0 .. n : i = 0 \/ i \in 1 .. n
    BY <1>1
  <2> HIDE DEF T, n, Next1
  <2>3. f = E(f)
    BY <2>1, <2>2
  <2>4. QED
    BY <2>3
<1>7. upTo = E(upTo)
  <2>1. upTo = CHOOSE u : u = E(u)
    OBVIOUS
  <2> HIDE DEF upTo, E
  <2>2. QED
    BY <1>6, <2>1
<1> HIDE DEF upTo
<1>8. upTo[0] = 0 /\ \A i \in 1 .. n : upTo[i] = Next1(i, upTo[i - 1])
  <2>1. 0 \in 0 .. n /\ \A i \in 1 .. n : i \in 0 .. n /\ i # 0
    BY <1>1
  <2> HIDE DEF n, Next1
  <2>2. QED
    BY <1>7, <2>1
<1> DEFINE Q == {i \in 0 .. n : upTo[i] \in T}
<1>9. 0 \in Q /\ \A i \in 1 .. n : i - 1 \in Q => i \in Q
  BY <1>1, <1>8
<1>10. 0 .. n \subseteq Q
  <2> HIDE DEF Q, n
  <2>1. QED
    BY <1>1, <1>9, Upward
<1>11. QED
  BY <1>1, <1>2, <1>8, <1>10

LEMMA EndsGrow ==
  ASSUME NEW m, Message(m), NEW i \in 0 .. Len(m), NEW j \in 0 .. Len(m), i < j
  PROVE  Wire!Ends(m)[i] < Wire!Ends(m)[j]
<1> DEFINE n == Len(m)
           E == Wire!Ends(m)
           Q == {k \in 0 .. n : i < k => E[i] < E[k]}
<1>1. /\ n \in Nat /\ \A k \in 0 .. n : E[k] \in Nat
      /\ \A k \in 1 .. n : E[k] = E[k - 1] + m[k].bytes /\ m[k].bytes \in Nat \ {0}
  BY EndsSteps DEF Message
<1> HIDE DEF E, n
<1>2. i \in 0 .. n /\ j \in 0 .. n
  BY DEF n
<1>3. ASSUME NEW k \in 1 .. n, k - 1 \in Q PROVE k \in Q
  <2>1. k - 1 \in 0 .. n /\ k \in 0 .. n /\ E[k - 1] \in Nat /\ E[k] \in Nat /\ E[k - 1] < E[k]
    <3>1. k - 1 \in 0 .. n /\ k \in 0 .. n
      BY <1>1
    <3>2. E[k] = E[k - 1] + m[k].bytes /\ m[k].bytes \in Nat \ {0}
      BY <1>1
    <3>3. E[k - 1] \in Nat /\ E[k] \in Nat
      BY <1>1, <3>1
    <3>4. QED
      BY <3>1, <3>2, <3>3
  <2>2. CASE i < k - 1
    BY <1>1, <1>2, <1>3, <2>1, <2>2
  <2>3. CASE i = k - 1
    BY <2>1, <2>3
  <2>4. CASE i >= k
    BY <1>1, <1>2, <2>1, <2>4
  <2>5. QED
    BY <1>2, <2>2, <2>3, <2>4
<1>4. 0 \in Q
  BY <1>1, <1>2
<1>5. 0 .. n \subseteq Q
  <2> HIDE DEF Q
  <2>1. QED
    BY <1>1, <1>3, <1>4, Upward
<1>6. QED
  BY <1>2, <1>5 DEF E

\* A reader who knows where a field begins takes its code, and no other's.
LEMMA FieldAt ==
  ASSUME NEW m, Message(m), NEW k \in 1 .. Len(m), NEW off, off = Wire!Ends(m)[k - 1],
         NEW bytes, bytes = m[k].bytes
  PROVE  Wire!At(m, off, bytes) = m[k].code
<1> DEFINE there == {i \in 1 .. Len(m) : Wire!Ends(m)[i - 1] = off /\ m[i].bytes = bytes}
<1>1. k \in there
  OBVIOUS
<1>2. ASSUME NEW i \in there PROVE i = k
  <2>1. i - 1 \in 0 .. Len(m) /\ k - 1 \in 0 .. Len(m) /\ Len(m) \in Nat
    BY DEF Message
  <2>2. Wire!Ends(m)[i - 1] = Wire!Ends(m)[k - 1]
    BY <1>2
  <2>3. Wire!Ends(m)[k - 1] \in Nat
    BY <2>1, EndsSteps
  <2>4. ~(i - 1 < k - 1) /\ ~(k - 1 < i - 1)
    BY <2>1, <2>2, <2>3, EndsGrow
  <2>5. QED
    BY <2>1, <2>4
<1>3. there = {k} /\ there # {}
  BY <1>1, <1>2
<1>4. Wire!At(m, off, bytes) = m[CHOOSE i \in there : TRUE].code
  BY <1>3 DEF Wire!At
<1>5. (CHOOSE i \in there : TRUE) = k
  BY <1>3
<1>6. QED
  BY <1>4, <1>5

\* Rounding is to the nearest, and has the sign of what is rounded; what half a unit
\* reaches does not come out as nothing.
LEMMA Rounded ==
  ASSUME NEW v \in Int, NEW res \in Nat \ {0}
  PROVE  /\ Wire!Round(v, res) \in Int
         /\ 2 * (Wire!Round(v, res) * res) - 2 * v <= res
         /\ 2 * v - 2 * (Wire!Round(v, res) * res) <= res
         /\ Wire!Round(v, res) > 0 <=> 2 * v >= res
         /\ Wire!Round(v, res) < 0 <=> -(2 * v) >= res
<1>1. ASSUME NEW n \in Nat, NEW d \in Nat \ {0}
      PROVE  /\ n \div d \in Nat /\ d * (n \div d) <= n /\ n < d * (n \div d) + d
             /\ n \div d > 0 <=> n >= d
  <2>1. n \div d \in Int /\ d * (n \div d) <= n /\ n < d * (n \div d) + d
    OBVIOUS
  <2> DEFINE q == n \div d
  <2> HIDE DEF q
  <2>2. q \in Int /\ d * q <= n /\ n < d * q + d
    BY <2>1 DEF q
  <2>3. q >= 0
    <3>1. SUFFICES ASSUME q <= -1 PROVE FALSE
      BY <2>2
    <3>2. d * q <= -d
      BY <2>2, <3>1
    <3>3. QED
      BY <2>2, <3>2
  <2>4. q > 0 => d * q >= d
    BY <2>2
  <2>5. q = 0 => d * q = 0
    BY <2>2
  <2>6. q > 0 <=> n >= d
    BY <2>2, <2>3, <2>4, <2>5
  <2>7. QED
    BY <2>2, <2>3, <2>6 DEF q
<1>2. ASSUME NEW u \in Nat
      PROVE  LET q == (2 * u + res) \div (2 * res)
             IN /\ q \in Nat /\ 2 * (q * res) <= 2 * u + res /\ 2 * u < 2 * (q * res) + res
                /\ q > 0 <=> 2 * u >= res
  <2> DEFINE n == 2 * u + res
             d == 2 * res
             q == n \div d
  <2>1. n \in Nat /\ d \in Nat \ {0} /\ n = 2 * u + res /\ d = 2 * res
    OBVIOUS
  <2> HIDE DEF n, d
  <2>2. q \in Nat /\ d * q <= n /\ n < d * q + d /\ (q > 0 <=> n >= d)
    BY <1>1, <2>1
  <2> HIDE DEF q
  <2>3. d * q = 2 * (q * res)
    BY <2>1, <2>2
  <2>4. q * res \in Int
    BY <2>2
  <2> DEFINE z == q * res
  <2> HIDE DEF z
  <2>5. z \in Int /\ 2 * z <= n /\ n < 2 * z + d
    BY <2>2, <2>3, <2>4 DEF z
  <2>6. 2 * z <= 2 * u + res /\ 2 * u < 2 * z + res /\ (q > 0 <=> 2 * u >= res)
    BY <2>1, <2>2, <2>5
  <2>7. QED
    BY <2>2, <2>6 DEF z, q, n, d
<1>3. CASE v >= 0
  <2> DEFINE q == (2 * v + res) \div (2 * res)
  <2>1. Wire!Round(v, res) = q
    BY <1>3 DEF Wire!Round
  <2>2. /\ q \in Nat /\ 2 * (q * res) <= 2 * v + res /\ 2 * v < 2 * (q * res) + res
        /\ q > 0 <=> 2 * v >= res
    BY <1>2, <1>3
  <2> HIDE DEF q
  <2>3. q * res \in Int
    BY <2>2
  <2>4. QED
    BY <1>3, <2>1, <2>2, <2>3
<1>4. CASE v < 0
  <2> DEFINE u == -v
             q == (2 * u + res) \div (2 * res)
  <2>1. u \in Nat /\ v = -u /\ u > 0
    BY <1>4
  <2>2. Wire!Round(v, res) = -q
    <3>1. 2 * u + res = res - 2 * v
      OBVIOUS
    <3>2. QED
      BY <1>4, <3>1 DEF Wire!Round
  <2> HIDE DEF u
  <2>3. /\ q \in Nat /\ 2 * (q * res) <= 2 * u + res /\ 2 * u < 2 * (q * res) + res
        /\ q > 0 <=> 2 * u >= res
    BY <1>2, <2>1
  <2> HIDE DEF q
  <2>4. q * res \in Int /\ (-q) * res = -(q * res)
    BY <2>3
  <2>5. QED
    BY <2>1, <2>2, <2>3, <2>4
<1>5. QED
  BY <1>3, <1>4

LEMMA FartherOff ==
  ASSUME NEW a \in Int, NEW b \in Int, NEW res \in Nat \ {0}, a < b
  PROVE  a * res + res <= b * res
<1>1. (b - a - 1) * res >= 0
  OBVIOUS
<1>2. (b - a - 1) * res = b * res - a * res - res /\ a * res \in Int /\ b * res \in Int
  OBVIOUS
<1>3. QED
  BY <1>1, <1>2

\* The nearest code that a field can hold.
LEMMA Clamped ==
  ASSUME Wire!WireAssumption, NEW v \in Int, NEW res \in Nat \ {0}, NEW zero \in Int,
         NEW lo \in Int, NEW hi \in Int, lo <= hi, NEW na, na \notin lo .. hi
  PROVE  Wire!Shows(Wire!Clamp(lo, hi, zero + Wire!Round(v, res)), v, res, zero, lo, hi, na)
<1> DEFINE r == Wire!Round(v, res)
           code == Wire!Clamp(lo, hi, zero + r)
           off(c) == (c - zero) * res
<1>1. v # NaN
  BY DEF Wire!WireAssumption
<1>2. r \in Int /\ 2 * (r * res) - 2 * v <= res /\ 2 * v - 2 * (r * res) <= res
  BY Rounded
<1> HIDE DEF r
<1>3. r * res \in Int /\ res > 0
  BY <1>2
<1>4. CASE zero + r < lo
  <2>1. code = lo
    BY <1>4 DEF Wire!Clamp
  <2>2. r * res + res <= off(lo) /\ off(lo) \in Int
    BY <1>2, <1>4, FartherOff
  <2>3. off(lo) - v > 0
    BY <1>2, <1>3, <2>2
  <2>4. code \in (lo .. hi) \ {na}
    BY <2>1
  <2>5. QED
    BY <1>1, <2>1, <2>3, <2>4 DEF Wire!Shows, r
<1>5. CASE zero + r > hi
  <2>1. code = hi
    BY <1>2, <1>5 DEF Wire!Clamp
  <2>2. off(hi) + res <= r * res /\ off(hi) \in Int
    BY <1>2, <1>5, FartherOff
  <2>3. off(hi) - v < 0
    BY <1>2, <1>3, <2>2
  <2>4. code \in (lo .. hi) \ {na}
    BY <2>1
  <2>5. QED
    BY <1>1, <2>1, <2>3, <2>4 DEF Wire!Shows, r
<1>6. CASE zero + r >= lo /\ zero + r <= hi
  <2>1. code = zero + r
    BY <1>2, <1>6 DEF Wire!Clamp
  <2>2. code - zero = r
    BY <1>2, <2>1
  <2>3. off(code) = r * res
    BY <2>2
  <2> DEFINE err == off(code) - v
  <2>4. 2 * err <= res /\ -2 * err <= res
    BY <1>2, <1>3, <2>3
  <2>5. code \in (lo .. hi) \ {na}
    BY <1>2, <1>6, <2>1
  <2>6. QED
    BY <1>1, <2>4, <2>5 DEF Wire!Shows, r
<1>7. QED
  BY <1>2, <1>4, <1>5, <1>6

Value == Int \cup {NaN}

LEMMA WireFacts ==
  ASSUME Wire!WireAssumption
  PROVE  /\ NaN \notin Int
         /\ Top8 \in Nat \ {0} /\ Top16 \in Nat /\ Top16 >= 7 /\ Top16 % 2 = 1 /\ Top32 \in Nat
         /\ Full \in 0 .. Top8 - 1 /\ FullPct \in 0 .. Top8 - 1
         /\ Zero16 \in 1 .. Top16 - 2 /\ Zero32 \in 1 .. Top32 - 2
         /\ Kelvin \in Nat /\ Warm \in Nat
         /\ Wire!Half \in Nat /\ 2 * Wire!Half = Top16 + 1 /\ Wire!Half >= 4
<1>1. /\ NaN \notin Int
      /\ Top8 \in Nat \ {0} /\ Top16 \in Nat /\ Top16 >= 7 /\ Top16 % 2 = 1 /\ Top32 \in Nat
      /\ Full \in 0 .. Top8 - 1 /\ FullPct \in 0 .. Top8 - 1
      /\ Zero16 \in 1 .. Top16 - 2 /\ Zero32 \in 1 .. Top32 - 2
      /\ Kelvin \in Nat /\ Warm \in Nat
  BY DEF Wire!WireAssumption
<1>2. Wire!Half \in Nat /\ 2 * Wire!Half = Top16 + 1 /\ Wire!Half >= 4
  BY <1>1 DEF Wire!Half
<1>3. QED
  BY <1>1, <1>2

LEMMA Resolutions ==
  ASSUME Wire!WireAssumption
  PROVE  /\ Res.n2kV \in Nat \ {0} /\ Res.n2kA \in Nat \ {0} /\ Res.n2kT \in Nat \ {0}
         /\ Res.rpm \in Nat \ {0} /\ Res.pct \in Nat \ {0} /\ Res.watts \in Nat \ {0}
         /\ Res.rvcV \in Nat \ {0} /\ Res.rvcA \in Nat \ {0} /\ Res.mA \in Nat \ {0}
         /\ Res.rvcT \in Nat \ {0} /\ Res.deg \in Nat \ {0}
         /\ Res.mA <= Res.n2kA /\ Res.rvcA <= Res.n2kA
BY DEF Wire!WireAssumption

\* Each encoder, read by a gauge of its kind.
LEMMA EncodersShow ==
  ASSUME Wire!WireAssumption, NEW v \in Value, NEW res \in Nat \ {0}
  PROVE  /\ Wire!Shows(Wire!EncU16(v, res), v, res, 0, 0, Top16 - 3, Top16)
         /\ Wire!Shows(Wire!EncEffort(v, res), v, res, 0, 0, Full, Top8)
         /\ Wire!Shows(Wire!RvcU16(v, res), v, res, 0, 0, Top16 - 1, Top16)
         /\ Wire!Shows(Wire!RvcPct(v, res), v, res, 0, 0, FullPct, Top8)
         /\ Wire!Shows(Wire!RvcTemp8(v, res), v, res, Warm, 0, Top8 - 1, Top8)
         /\ Wire!Shows(Wire!RvcOffset(v, res, Zero16, Top16), v, res, Zero16, 0, Top16 - 1, Top16)
         /\ Wire!Shows(Wire!RvcOffset(v, res, Zero32, Top32), v, res, Zero32, 0, Top32 - 1, Top32)
<1>1. CASE v = NaN
  BY <1>1 DEF Wire!Shows, Wire!EncU16, Wire!EncEffort, Wire!RvcU16, Wire!RvcPct, Wire!RvcTemp8,
     Wire!RvcOffset, Wire!Finite
<1>2. CASE v # NaN
  <2> DEFINE r == Wire!Round(v, res)
  <2>1. v \in Int /\ Wire!Finite(v)
    BY <1>2 DEF Value, Wire!Finite
  <2>2. r \in Int
    BY <2>1, Rounded
  <2> HIDE DEF r
  <2>3. r = 0 + r /\ r + Warm = Warm + r
    BY <2>2, WireFacts
  <2>4. /\ 0 <= Top16 - 3 /\ 0 <= Full /\ 0 <= Top16 - 1 /\ 0 <= FullPct /\ 0 <= Top8 - 1
        /\ 0 <= Top32 - 1
        /\ Top16 - 3 \in Int /\ Full \in Int /\ Top16 - 1 \in Int /\ FullPct \in Int
        /\ Top8 - 1 \in Int /\ Top32 - 1 \in Int /\ Warm \in Int /\ Zero16 \in Int /\ Zero32 \in Int
        /\ Top16 \notin 0 .. Top16 - 3 /\ Top8 \notin 0 .. Full /\ Top16 \notin 0 .. Top16 - 1
        /\ Top8 \notin 0 .. FullPct /\ Top8 \notin 0 .. Top8 - 1 /\ Top32 \notin 0 .. Top32 - 1
    BY WireFacts
  <2> DEFINE Nearest(zero, hi, na) ==
               Wire!Shows(Wire!Clamp(0, hi, zero + r), v, res, zero, 0, hi, na)
  <2>a. ASSUME NEW zero \in Int, NEW hi \in Int, 0 <= hi, NEW na, na \notin 0 .. hi
        PROVE  Nearest(zero, hi, na)
    <3> DEFINE lo == 0
    <3>1. lo \in Int /\ lo <= hi /\ na \notin lo .. hi
      BY <2>a
    <3> HIDE DEF lo
    <3>2. Wire!Shows(Wire!Clamp(lo, hi, zero + Wire!Round(v, res)), v, res, zero, lo, hi, na)
      BY <2>1, <2>a, <3>1, Clamped
    <3>3. QED
      BY <3>2 DEF lo, r
  <2> HIDE DEF Nearest
  <2>b. /\ Nearest(0, Top16 - 3, Top16) /\ Nearest(0, Full, Top8) /\ Nearest(0, Top16 - 1, Top16)
        /\ Nearest(0, FullPct, Top8) /\ Nearest(Warm, Top8 - 1, Top8)
        /\ Nearest(Zero16, Top16 - 1, Top16) /\ Nearest(Zero32, Top32 - 1, Top32)
    BY <2>4, <2>a
  <2>5. Wire!Shows(Wire!EncU16(v, res), v, res, 0, 0, Top16 - 3, Top16)
    <3>1. Wire!EncU16(v, res) = Wire!Clamp(0, Top16 - 3, 0 + r)
      BY <2>1, <2>3 DEF Wire!EncU16, r
    <3>2. QED
      BY <3>1, <2>b DEF Nearest
  <2>6. Wire!Shows(Wire!EncEffort(v, res), v, res, 0, 0, Full, Top8)
    <3>1. Wire!EncEffort(v, res) = Wire!Clamp(0, Full, 0 + r)
      BY <2>1, <2>3 DEF Wire!EncEffort, r
    <3>2. QED
      BY <3>1, <2>b DEF Nearest
  <2>7. Wire!Shows(Wire!RvcU16(v, res), v, res, 0, 0, Top16 - 1, Top16)
    <3>1. Wire!RvcU16(v, res) = Wire!Clamp(0, Top16 - 1, 0 + r)
      BY <2>1, <2>3 DEF Wire!RvcU16, r
    <3>2. QED
      BY <3>1, <2>b DEF Nearest
  <2>8. Wire!Shows(Wire!RvcPct(v, res), v, res, 0, 0, FullPct, Top8)
    <3>1. Wire!RvcPct(v, res) = Wire!Clamp(0, FullPct, 0 + r)
      BY <2>1, <2>3 DEF Wire!RvcPct, r
    <3>2. QED
      BY <3>1, <2>b DEF Nearest
  <2>9. Wire!Shows(Wire!RvcTemp8(v, res), v, res, Warm, 0, Top8 - 1, Top8)
    <3>1. Wire!RvcTemp8(v, res) = Wire!Clamp(0, Top8 - 1, Warm + r)
      BY <2>1, <2>3 DEF Wire!RvcTemp8, r
    <3>2. QED
      BY <3>1, <2>b DEF Nearest
  <2>10. Wire!Shows(Wire!RvcOffset(v, res, Zero16, Top16), v, res, Zero16, 0, Top16 - 1, Top16)
    <3>1. Wire!RvcOffset(v, res, Zero16, Top16) = Wire!Clamp(0, Top16 - 1, Zero16 + r)
      BY <2>1 DEF Wire!RvcOffset, r
    <3>2. QED
      BY <3>1, <2>b DEF Nearest
  <2>11. Wire!Shows(Wire!RvcOffset(v, res, Zero32, Top32), v, res, Zero32, 0, Top32 - 1, Top32)
    <3>1. Wire!RvcOffset(v, res, Zero32, Top32) = Wire!Clamp(0, Top32 - 1, Zero32 + r)
      BY <2>1 DEF Wire!RvcOffset, r
    <3>2. QED
      BY <3>1, <2>b DEF Nearest
  <2>12. QED
    BY <2>5, <2>6, <2>7, <2>8, <2>9, <2>10, <2>11
<1>3. QED
  BY <1>1, <1>2

\* A signed code, as a receiver takes it out of its bits.
LEMMA SignedCode ==
  ASSUME Wire!WireAssumption, NEW v \in Int, NEW res \in Nat \ {0}
  PROVE  Wire!Signed(Wire!EncS16(v, res)) = Wire!Clamp(-Wire!Half, Wire!Half - 4, Wire!Round(v, res))
<1> DEFINE h == Wire!Half
           c == Wire!Clamp(-h, h - 4, Wire!Round(v, res))
           size == Top16 + 1
<1>1. h \in Nat /\ h >= 4 /\ size = 2 * h /\ size \in Nat \ {0}
  BY WireFacts
<1>2. Wire!Round(v, res) \in Int
  BY Rounded
<1> HIDE DEF h
<1>3. c \in Int /\ -h <= c /\ c <= h - 4
  BY <1>1, <1>2 DEF Wire!Clamp
<1> HIDE DEF c
<1>4. Wire!EncS16(v, res) = c % size
  <2>1. Wire!Finite(v)
    BY WireFacts DEF Wire!Finite
  <2>2. QED
    BY <2>1 DEF Wire!EncS16, c, h
<1> HIDE DEF size
<1>5. c % size = IF c >= 0 THEN c ELSE c + size
  <2>1. c >= 0 => c < size
    BY <1>1, <1>3
  <2>2. c < 0 => c + size >= 0 /\ c + size < size
    BY <1>1, <1>3
  <2>3. QED
    BY <1>1, <1>3, <2>1, <2>2
<1>6. Wire!Signed(c % size) = c
  <2>1. c >= 0 => ~(c >= h)
    BY <1>1, <1>3
  <2>2. c < 0 => c + size >= h /\ (c + size) - size = c
    BY <1>1, <1>3
  <2>3. \A k : Wire!Signed(k) = IF k >= h THEN k - size ELSE k
    BY DEF Wire!Signed, Wire!Half, h, size
  <2>4. QED
    BY <1>3, <1>5, <2>1, <2>2, <2>3
<1>7. QED
  BY <1>4, <1>6 DEF c, h

LEMMA SignedShows ==
  ASSUME Wire!WireAssumption, NEW v \in Value, NEW res \in Nat \ {0}
  PROVE  Wire!Shows(Wire!Signed(Wire!EncS16(v, res)), v, res, 0, -Wire!Half, Wire!Half - 4,
                    Wire!Half - 1)
<1> DEFINE h == Wire!Half
<1>1. h \in Nat /\ h >= 4 /\ -h \in Int /\ h - 4 \in Int /\ -h <= h - 4 /\ h - 1 \notin -h .. h - 4
      /\ ~(h - 1 >= h)
  BY WireFacts
<1>2. CASE v = NaN
  <2>1. Wire!EncS16(v, res) = h - 1
    BY <1>2 DEF Wire!EncS16, Wire!Finite
  <2>2. Wire!Signed(h - 1) = h - 1
    BY <1>1 DEF Wire!Signed, Wire!Half
  <2>3. QED
    BY <1>2, <2>1, <2>2 DEF Wire!Shows
<1>3. CASE v # NaN
  <2>1. v \in Int
    BY <1>3 DEF Value
  <2>2. Wire!Round(v, res) = 0 + Wire!Round(v, res)
    BY <2>1, Rounded
  <2>3. Wire!Signed(Wire!EncS16(v, res)) = Wire!Clamp(-h, h - 4, 0 + Wire!Round(v, res))
    BY <2>1, <2>2, SignedCode
  <2> DEFINE lo == -h
             hi == h - 4
             na == h - 1
  <2>4. lo \in Int /\ hi \in Int /\ lo <= hi /\ na \notin lo .. hi /\ 0 \in Int
    BY <1>1
  <2> HIDE DEF h, lo, hi, na
  <2>5. Wire!Shows(Wire!Clamp(lo, hi, 0 + Wire!Round(v, res)), v, res, 0, lo, hi, na)
    BY <2>1, <2>4, Clamped
  <2>6. QED
    BY <2>3, <2>5 DEF lo, hi, na, h
<1>4. QED
  BY <1>2, <1>3

-----------------------------------------------------------------------------
(* Where the fields of each message are, and what their codes are *)

LEMMA OnS127508 ==
  /\ Wire!Bytes(Wire!S127508) = 8
  /\ Wire!At(Wire!S127508, 1, 2) = Wire!EncS16(reading, Res.n2kV)
  /\ Wire!At(Wire!S127508, 3, 2) = Wire!EncS16(reading, Res.n2kA)
  /\ Wire!At(Wire!S127508, 5, 2) = Wire!EncTempC(reading, Res.n2kT)
<1> DEFINE m == Wire!S127508
<1>1. /\ Len(m) = 5 /\ m[1].bytes = 1 /\ m[2].bytes = 2 /\ m[3].bytes = 2 /\ m[4].bytes = 2
      /\ m[5].bytes = 1
  BY DEF Wire!S127508, Wire!F
<1>2. /\ m[2].code = Wire!EncS16(reading, Res.n2kV)
      /\ m[3].code = Wire!EncS16(reading, Res.n2kA)
      /\ m[4].code = Wire!EncTempC(reading, Res.n2kT)
  BY DEF Wire!S127508, Wire!F
<1> HIDE DEF m
<1>3. Message(m)
  BY <1>1 DEF Message
<1>4. /\ Wire!Ends(m)[0] = 0 /\ Wire!Ends(m)[1] = 1 /\ Wire!Ends(m)[2] = 3
      /\ Wire!Ends(m)[3] = 5 /\ Wire!Ends(m)[4] = 7 /\ Wire!Ends(m)[5] = 8
  <2> DEFINE E == Wire!Ends(m)
  <2>1. E[0] = 0 /\ \A i \in 1 .. 5 : E[i] = E[i - 1] + m[i].bytes
    BY <1>1, <1>3, EndsSteps
  <2> HIDE DEF E
  <2>2. QED
    BY <1>1, <2>1 DEF E
<1>5. Wire!At(m, 1, 2) = m[2].code
  <2>1. 2 \in 1 .. Len(m) /\ Wire!Ends(m)[2 - 1] = 1 /\ m[2].bytes = 2
    BY <1>1, <1>4
  <2>2. QED
    BY <1>3, <2>1, FieldAt
<1>6. Wire!At(m, 3, 2) = m[3].code
  <2>1. 3 \in 1 .. Len(m) /\ Wire!Ends(m)[3 - 1] = 3 /\ m[3].bytes = 2
    BY <1>1, <1>4
  <2>2. QED
    BY <1>3, <2>1, FieldAt
<1>7. Wire!At(m, 5, 2) = m[4].code
  <2>1. 4 \in 1 .. Len(m) /\ Wire!Ends(m)[4 - 1] = 5 /\ m[4].bytes = 2
    BY <1>1, <1>4
  <2>2. QED
    BY <1>3, <2>1, FieldAt
<1>8. QED
  BY <1>1, <1>2, <1>4, <1>5, <1>6, <1>7 DEF m, Wire!Bytes

LEMMA OnS127488 ==
  /\ Wire!Bytes(Wire!S127488) = 8
  /\ Wire!At(Wire!S127488, 1, 2) = Wire!EncU16(Wire!Tach, Res.rpm)
<1> DEFINE m == Wire!S127488
<1>1. /\ Len(m) = 6 /\ m[1].bytes = 1 /\ m[2].bytes = 2 /\ m[3].bytes = 2 /\ m[4].bytes = 1
      /\ m[5].bytes = 1 /\ m[6].bytes = 1
  BY DEF Wire!S127488, Wire!F, Wire!NA16, Wire!NA8
<1>2. /\ m[2].code = Wire!EncU16(Wire!Tach, Res.rpm)
  BY DEF Wire!S127488, Wire!F, Wire!NA16, Wire!NA8
<1> HIDE DEF m
<1>3. Message(m)
  BY <1>1 DEF Message
<1>4. /\ Wire!Ends(m)[0] = 0 /\ Wire!Ends(m)[1] = 1 /\ Wire!Ends(m)[2] = 3
      /\ Wire!Ends(m)[3] = 5 /\ Wire!Ends(m)[4] = 6 /\ Wire!Ends(m)[5] = 7
      /\ Wire!Ends(m)[6] = 8
  <2> DEFINE E == Wire!Ends(m)
  <2>1. E[0] = 0 /\ \A i \in 1 .. 6 : E[i] = E[i - 1] + m[i].bytes
    BY <1>1, <1>3, EndsSteps
  <2> HIDE DEF E
  <2>2. QED
    BY <1>1, <2>1 DEF E
<1>5. Wire!At(m, 1, 2) = m[2].code
  <2>1. 2 \in 1 .. Len(m) /\ Wire!Ends(m)[2 - 1] = 1 /\ m[2].bytes = 2
    BY <1>1, <1>4
  <2>2. QED
    BY <1>3, <2>1, FieldAt
<1>6. QED
  BY <1>1, <1>2, <1>4, <1>5 DEF m, Wire!Bytes

LEMMA OnS127750 ==
  /\ Wire!Bytes(Wire!S127750) = 8
  /\ Wire!At(Wire!S127750, 2, 1) = Wire!N2kState
  /\ Wire!At(Wire!S127750, 3, 1) = Wire!TempState
<1> DEFINE m == Wire!S127750
<1>1. /\ Len(m) = 8 /\ m[1].bytes = 1 /\ m[2].bytes = 1 /\ m[3].bytes = 1 /\ m[4].bytes = 1
      /\ m[5].bytes = 1 /\ m[6].bytes = 1 /\ m[7].bytes = 1 /\ m[8].bytes = 1
  BY DEF Wire!S127750, Wire!F, Wire!NA8
<1>2. /\ m[3].code = Wire!N2kState
      /\ m[4].code = Wire!TempState
  BY DEF Wire!S127750, Wire!F, Wire!NA8
<1> HIDE DEF m
<1>3. Message(m)
  BY <1>1 DEF Message
<1>4. /\ Wire!Ends(m)[0] = 0 /\ Wire!Ends(m)[1] = 1 /\ Wire!Ends(m)[2] = 2
      /\ Wire!Ends(m)[3] = 3 /\ Wire!Ends(m)[4] = 4 /\ Wire!Ends(m)[5] = 5
      /\ Wire!Ends(m)[6] = 6 /\ Wire!Ends(m)[7] = 7 /\ Wire!Ends(m)[8] = 8
  <2> DEFINE E == Wire!Ends(m)
  <2>1. E[0] = 0 /\ \A i \in 1 .. 8 : E[i] = E[i - 1] + m[i].bytes
    BY <1>1, <1>3, EndsSteps
  <2> HIDE DEF E
  <2>2. QED
    BY <1>1, <2>1 DEF E
<1>5. Wire!At(m, 2, 1) = m[3].code
  <2>1. 3 \in 1 .. Len(m) /\ Wire!Ends(m)[3 - 1] = 2 /\ m[3].bytes = 1
    BY <1>1, <1>4
  <2>2. QED
    BY <1>3, <2>1, FieldAt
<1>6. Wire!At(m, 3, 1) = m[4].code
  <2>1. 4 \in 1 .. Len(m) /\ Wire!Ends(m)[4 - 1] = 3 /\ m[4].bytes = 1
    BY <1>1, <1>4
  <2>2. QED
    BY <1>3, <2>1, FieldAt
<1>7. QED
  BY <1>1, <1>2, <1>4, <1>5, <1>6 DEF m, Wire!Bytes

LEMMA OnCharger ==
  /\ Wire!Bytes(Wire!Charger) = 8
  /\ Wire!At(Wire!Charger, 1, 2) = Wire!RvcU16(reading, Res.rvcV)
  /\ Wire!At(Wire!Charger, 3, 2) = Wire!RvcOffset(Wire!ChargerAmps(reading), Res.rvcA, Zero16, Top16)
  /\ Wire!At(Wire!Charger, 5, 1) = Wire!RvcPct(reading, Res.pct)
  /\ Wire!At(Wire!Charger, 6, 1) = Wire!RvcState
<1> DEFINE m == Wire!Charger
<1>1. /\ Len(m) = 6 /\ m[1].bytes = 1 /\ m[2].bytes = 2 /\ m[3].bytes = 2 /\ m[4].bytes = 1
      /\ m[5].bytes = 1 /\ m[6].bytes = 1
  BY DEF Wire!Charger, Wire!F
<1>2. /\ m[2].code = Wire!RvcU16(reading, Res.rvcV)
      /\ m[3].code = Wire!RvcOffset(Wire!ChargerAmps(reading), Res.rvcA, Zero16, Top16)
      /\ m[4].code = Wire!RvcPct(reading, Res.pct)
      /\ m[5].code = Wire!RvcState
  BY DEF Wire!Charger, Wire!F
<1> HIDE DEF m
<1>3. Message(m)
  BY <1>1 DEF Message
<1>4. /\ Wire!Ends(m)[0] = 0 /\ Wire!Ends(m)[1] = 1 /\ Wire!Ends(m)[2] = 3
      /\ Wire!Ends(m)[3] = 5 /\ Wire!Ends(m)[4] = 6 /\ Wire!Ends(m)[5] = 7
      /\ Wire!Ends(m)[6] = 8
  <2> DEFINE E == Wire!Ends(m)
  <2>1. E[0] = 0 /\ \A i \in 1 .. 6 : E[i] = E[i - 1] + m[i].bytes
    BY <1>1, <1>3, EndsSteps
  <2> HIDE DEF E
  <2>2. QED
    BY <1>1, <2>1 DEF E
<1>5. Wire!At(m, 1, 2) = m[2].code
  <2>1. 2 \in 1 .. Len(m) /\ Wire!Ends(m)[2 - 1] = 1 /\ m[2].bytes = 2
    BY <1>1, <1>4
  <2>2. QED
    BY <1>3, <2>1, FieldAt
<1>6. Wire!At(m, 3, 2) = m[3].code
  <2>1. 3 \in 1 .. Len(m) /\ Wire!Ends(m)[3 - 1] = 3 /\ m[3].bytes = 2
    BY <1>1, <1>4
  <2>2. QED
    BY <1>3, <2>1, FieldAt
<1>7. Wire!At(m, 5, 1) = m[4].code
  <2>1. 4 \in 1 .. Len(m) /\ Wire!Ends(m)[4 - 1] = 5 /\ m[4].bytes = 1
    BY <1>1, <1>4
  <2>2. QED
    BY <1>3, <2>1, FieldAt
<1>8. Wire!At(m, 6, 1) = m[5].code
  <2>1. 5 \in 1 .. Len(m) /\ Wire!Ends(m)[5 - 1] = 6 /\ m[5].bytes = 1
    BY <1>1, <1>4
  <2>2. QED
    BY <1>3, <2>1, FieldAt
<1>9. QED
  BY <1>1, <1>2, <1>4, <1>5, <1>6, <1>7, <1>8 DEF m, Wire!Bytes

LEMMA OnCharger2 ==
  /\ Wire!Bytes(Wire!Charger2) = 8
  /\ Wire!At(Wire!Charger2, 5, 2) = Wire!RvcOffset(reading, Res.rvcA, Zero16, Top16)
  /\ Wire!At(Wire!Charger2, 7, 1) = Wire!RvcTemp8(reading, Res.deg)
<1> DEFINE m == Wire!Charger2
<1>1. /\ Len(m) = 6 /\ m[1].bytes = 1 /\ m[2].bytes = 1 /\ m[3].bytes = 1 /\ m[4].bytes = 2
      /\ m[5].bytes = 2 /\ m[6].bytes = 1
  BY DEF Wire!Charger2, Wire!F
<1>2. /\ m[5].code = Wire!RvcOffset(reading, Res.rvcA, Zero16, Top16)
      /\ m[6].code = Wire!RvcTemp8(reading, Res.deg)
  BY DEF Wire!Charger2, Wire!F
<1> HIDE DEF m
<1>3. Message(m)
  BY <1>1 DEF Message
<1>4. /\ Wire!Ends(m)[0] = 0 /\ Wire!Ends(m)[1] = 1 /\ Wire!Ends(m)[2] = 2
      /\ Wire!Ends(m)[3] = 3 /\ Wire!Ends(m)[4] = 5 /\ Wire!Ends(m)[5] = 7
      /\ Wire!Ends(m)[6] = 8
  <2> DEFINE E == Wire!Ends(m)
  <2>1. E[0] = 0 /\ \A i \in 1 .. 6 : E[i] = E[i - 1] + m[i].bytes
    BY <1>1, <1>3, EndsSteps
  <2> HIDE DEF E
  <2>2. QED
    BY <1>1, <2>1 DEF E
<1>5. Wire!At(m, 5, 2) = m[5].code
  <2>1. 5 \in 1 .. Len(m) /\ Wire!Ends(m)[5 - 1] = 5 /\ m[5].bytes = 2
    BY <1>1, <1>4
  <2>2. QED
    BY <1>3, <2>1, FieldAt
<1>6. Wire!At(m, 7, 1) = m[6].code
  <2>1. 6 \in 1 .. Len(m) /\ Wire!Ends(m)[6 - 1] = 7 /\ m[6].bytes = 1
    BY <1>1, <1>4
  <2>2. QED
    BY <1>3, <2>1, FieldAt
<1>7. QED
  BY <1>1, <1>2, <1>4, <1>5, <1>6 DEF m, Wire!Bytes

LEMMA OnDc1 ==
  /\ Wire!Bytes(Wire!Dc1) = 8
  /\ Wire!At(Wire!Dc1, 4, 4) = Wire!RvcOffset(Wire!SourceAmps(reading), Res.mA, Zero32, Top32)
<1> DEFINE m == Wire!Dc1
<1>1. /\ Len(m) = 4 /\ m[1].bytes = 1 /\ m[2].bytes = 1 /\ m[3].bytes = 2 /\ m[4].bytes = 4
  BY DEF Wire!Dc1, Wire!F
<1>2. /\ m[4].code = Wire!RvcOffset(Wire!SourceAmps(reading), Res.mA, Zero32, Top32)
  BY DEF Wire!Dc1, Wire!F
<1> HIDE DEF m
<1>3. Message(m)
  BY <1>1 DEF Message
<1>4. /\ Wire!Ends(m)[0] = 0 /\ Wire!Ends(m)[1] = 1 /\ Wire!Ends(m)[2] = 2
      /\ Wire!Ends(m)[3] = 4 /\ Wire!Ends(m)[4] = 8
  <2> DEFINE E == Wire!Ends(m)
  <2>1. E[0] = 0 /\ \A i \in 1 .. 4 : E[i] = E[i - 1] + m[i].bytes
    BY <1>1, <1>3, EndsSteps
  <2> HIDE DEF E
  <2>2. QED
    BY <1>1, <2>1 DEF E
<1>5. Wire!At(m, 4, 4) = m[4].code
  <2>1. 4 \in 1 .. Len(m) /\ Wire!Ends(m)[4 - 1] = 4 /\ m[4].bytes = 4
    BY <1>1, <1>4
  <2>2. QED
    BY <1>3, <2>1, FieldAt
<1>6. QED
  BY <1>1, <1>2, <1>4, <1>5 DEF m, Wire!Bytes

LEMMA OnDc2 ==
  /\ Wire!Bytes(Wire!Dc2) = 8
  /\ Wire!At(Wire!Dc2, 2, 2) = Wire!RvcTemp(reading, Res.rvcT)
<1> DEFINE m == Wire!Dc2
<1>1. /\ Len(m) = 6 /\ m[1].bytes = 1 /\ m[2].bytes = 1 /\ m[3].bytes = 2 /\ m[4].bytes = 1
      /\ m[5].bytes = 2 /\ m[6].bytes = 1
  BY DEF Wire!Dc2, Wire!F, Wire!NA16, Wire!NA8
<1>2. /\ m[3].code = Wire!RvcTemp(reading, Res.rvcT)
  BY DEF Wire!Dc2, Wire!F, Wire!NA16, Wire!NA8
<1> HIDE DEF m
<1>3. Message(m)
  BY <1>1 DEF Message
<1>4. /\ Wire!Ends(m)[0] = 0 /\ Wire!Ends(m)[1] = 1 /\ Wire!Ends(m)[2] = 2
      /\ Wire!Ends(m)[3] = 4 /\ Wire!Ends(m)[4] = 5 /\ Wire!Ends(m)[5] = 7
      /\ Wire!Ends(m)[6] = 8
  <2> DEFINE E == Wire!Ends(m)
  <2>1. E[0] = 0 /\ \A i \in 1 .. 6 : E[i] = E[i - 1] + m[i].bytes
    BY <1>1, <1>3, EndsSteps
  <2> HIDE DEF E
  <2>2. QED
    BY <1>1, <2>1 DEF E
<1>5. Wire!At(m, 2, 2) = m[3].code
  <2>1. 3 \in 1 .. Len(m) /\ Wire!Ends(m)[3 - 1] = 2 /\ m[3].bytes = 2
    BY <1>1, <1>4
  <2>2. QED
    BY <1>3, <2>1, FieldAt
<1>6. QED
  BY <1>1, <1>2, <1>4, <1>5 DEF m, Wire!Bytes

LEMMA OnDc3 ==
  Wire!Bytes(Wire!Dc3) = 8
<1> DEFINE m == Wire!Dc3
<1>1. /\ Len(m) = 6 /\ m[1].bytes = 1 /\ m[2].bytes = 1 /\ m[3].bytes = 1 /\ m[4].bytes = 2
      /\ m[5].bytes = 1 /\ m[6].bytes = 2
  BY DEF Wire!Dc3, Wire!F, Wire!NA16, Wire!NA8
<1> HIDE DEF m
<1>2. Message(m)
  BY <1>1 DEF Message
<1>3. /\ Wire!Ends(m)[0] = 0 /\ Wire!Ends(m)[1] = 1 /\ Wire!Ends(m)[2] = 2
      /\ Wire!Ends(m)[3] = 3 /\ Wire!Ends(m)[4] = 5 /\ Wire!Ends(m)[5] = 6
      /\ Wire!Ends(m)[6] = 8
  <2> DEFINE E == Wire!Ends(m)
  <2>1. E[0] = 0 /\ \A i \in 1 .. 6 : E[i] = E[i - 1] + m[i].bytes
    BY <1>1, <1>2, EndsSteps
  <2> HIDE DEF E
  <2>2. QED
    BY <1>1, <2>1 DEF E
<1>4. QED
  BY <1>1, <1>3 DEF m, Wire!Bytes

LEMMA OnP127506 ==
  Wire!Bytes(Wire!P127506) = 11
<1> DEFINE m == Wire!P127506
<1>1. /\ Len(m) = 8 /\ m[1].bytes = 1 /\ m[2].bytes = 1 /\ m[3].bytes = 1 /\ m[4].bytes = 1
      /\ m[5].bytes = 1 /\ m[6].bytes = 2 /\ m[7].bytes = 2 /\ m[8].bytes = 2
  BY DEF Wire!P127506, Wire!F, Wire!NA16, Wire!NA8
<1> HIDE DEF m
<1>2. Message(m)
  BY <1>1 DEF Message
<1>3. /\ Wire!Ends(m)[0] = 0 /\ Wire!Ends(m)[1] = 1 /\ Wire!Ends(m)[2] = 2
      /\ Wire!Ends(m)[3] = 3 /\ Wire!Ends(m)[4] = 4 /\ Wire!Ends(m)[5] = 5
      /\ Wire!Ends(m)[6] = 7 /\ Wire!Ends(m)[7] = 9 /\ Wire!Ends(m)[8] = 11
  <2> DEFINE E == Wire!Ends(m)
  <2>1. E[0] = 0 /\ \A i \in 1 .. 8 : E[i] = E[i - 1] + m[i].bytes
    BY <1>1, <1>2, EndsSteps
  <2> HIDE DEF E
  <2>2. QED
    BY <1>1, <2>1 DEF E
<1>4. QED
  BY <1>1, <1>3 DEF m, Wire!Bytes

LEMMA OnP126983 ==
  /\ Wire!Bytes(Wire!P126983) = 28
  /\ Wire!At(Wire!P126983, 0, 1) = Wire!AlertType
  /\ Wire!At(Wire!P126983, 3, 2) = Wire!TopCode
  /\ Wire!At(Wire!P126983, 26, 1) = Wire!AlertPrio
<1> DEFINE m == Wire!P126983
<1>1. /\ Len(m) = 13 /\ m[1].bytes = 1 /\ m[2].bytes = 1 /\ m[3].bytes = 1 /\ m[4].bytes = 2
      /\ m[5].bytes = 8 /\ m[6].bytes = 1 /\ m[7].bytes = 1 /\ m[8].bytes = 1
      /\ m[9].bytes = 1 /\ m[10].bytes = 8 /\ m[11].bytes = 1 /\ m[12].bytes = 1
      /\ m[13].bytes = 1
  BY DEF Wire!P126983, Wire!F
<1>2. /\ m[1].code = Wire!AlertType
      /\ m[4].code = Wire!TopCode
      /\ m[12].code = Wire!AlertPrio
  BY DEF Wire!P126983, Wire!F
<1> HIDE DEF m
<1>3. Message(m)
  BY <1>1 DEF Message
<1>4. /\ Wire!Ends(m)[0] = 0 /\ Wire!Ends(m)[1] = 1 /\ Wire!Ends(m)[2] = 2
      /\ Wire!Ends(m)[3] = 3 /\ Wire!Ends(m)[4] = 5 /\ Wire!Ends(m)[5] = 13
      /\ Wire!Ends(m)[6] = 14 /\ Wire!Ends(m)[7] = 15 /\ Wire!Ends(m)[8] = 16
      /\ Wire!Ends(m)[9] = 17 /\ Wire!Ends(m)[10] = 25 /\ Wire!Ends(m)[11] = 26
      /\ Wire!Ends(m)[12] = 27 /\ Wire!Ends(m)[13] = 28
  <2> DEFINE E == Wire!Ends(m)
  <2>1. E[0] = 0 /\ \A i \in 1 .. 13 : E[i] = E[i - 1] + m[i].bytes
    BY <1>1, <1>3, EndsSteps
  <2> HIDE DEF E
  <2>2. QED
    BY <1>1, <2>1 DEF E
<1>5. Wire!At(m, 0, 1) = m[1].code
  <2>1. 1 \in 1 .. Len(m) /\ Wire!Ends(m)[1 - 1] = 0 /\ m[1].bytes = 1
    BY <1>1, <1>4
  <2>2. QED
    BY <1>3, <2>1, FieldAt
<1>6. Wire!At(m, 3, 2) = m[4].code
  <2>1. 4 \in 1 .. Len(m) /\ Wire!Ends(m)[4 - 1] = 3 /\ m[4].bytes = 2
    BY <1>1, <1>4
  <2>2. QED
    BY <1>3, <2>1, FieldAt
<1>7. Wire!At(m, 26, 1) = m[12].code
  <2>1. 12 \in 1 .. Len(m) /\ Wire!Ends(m)[12 - 1] = 26 /\ m[12].bytes = 1
    BY <1>1, <1>4
  <2>2. QED
    BY <1>3, <2>1, FieldAt
<1>8. QED
  BY <1>1, <1>2, <1>4, <1>5, <1>6, <1>7 DEF m, Wire!Bytes

LEMMA OnP126996 ==
  Wire!Bytes(Wire!P126996) = 134
<1> DEFINE m == Wire!P126996
<1>1. /\ Len(m) = 8 /\ m[1].bytes = 2 /\ m[2].bytes = 2 /\ m[3].bytes = 32
      /\ m[4].bytes = 32 /\ m[5].bytes = 32 /\ m[6].bytes = 32 /\ m[7].bytes = 1
      /\ m[8].bytes = 1
  BY DEF Wire!P126996, Wire!F
<1> HIDE DEF m
<1>2. Message(m)
  BY <1>1 DEF Message
<1>3. /\ Wire!Ends(m)[0] = 0 /\ Wire!Ends(m)[1] = 2 /\ Wire!Ends(m)[2] = 4
      /\ Wire!Ends(m)[3] = 36 /\ Wire!Ends(m)[4] = 68 /\ Wire!Ends(m)[5] = 100
      /\ Wire!Ends(m)[6] = 132 /\ Wire!Ends(m)[7] = 133 /\ Wire!Ends(m)[8] = 134
  <2> DEFINE E == Wire!Ends(m)
  <2>1. E[0] = 0 /\ \A i \in 1 .. 8 : E[i] = E[i - 1] + m[i].bytes
    BY <1>1, <1>2, EndsSteps
  <2> HIDE DEF E
  <2>2. QED
    BY <1>1, <2>1 DEF E
<1>4. QED
  BY <1>1, <1>3 DEF m, Wire!Bytes

LEMMA OnP130816 ==
  /\ Wire!Bytes(Wire!P130816) = 22
  /\ Wire!At(Wire!P130816, 6, 1) = Wire!EncEffort(reading, Res.pct)
  /\ Wire!At(Wire!P130816, 8, 2) = Wire!EncU16(reading, Res.watts)
  /\ Wire!At(Wire!P130816, 14, 2) = Wire!EncU16(Wire!Tach, Res.rpm)
<1> DEFINE m == Wire!P130816
<1>1. /\ Len(m) = 14 /\ m[1].bytes = 2 /\ m[2].bytes = 1 /\ m[3].bytes = 1 /\ m[4].bytes = 1
      /\ m[5].bytes = 1 /\ m[6].bytes = 1 /\ m[7].bytes = 1 /\ m[8].bytes = 2
      /\ m[9].bytes = 2 /\ m[10].bytes = 2 /\ m[11].bytes = 2 /\ m[12].bytes = 1
      /\ m[13].bytes = 4 /\ m[14].bytes = 1
  BY DEF Wire!P130816, Wire!F
<1>2. /\ m[6].code = Wire!EncEffort(reading, Res.pct)
      /\ m[8].code = Wire!EncU16(reading, Res.watts)
      /\ m[11].code = Wire!EncU16(Wire!Tach, Res.rpm)
  BY DEF Wire!P130816, Wire!F
<1> HIDE DEF m
<1>3. Message(m)
  BY <1>1 DEF Message
<1>4. /\ Wire!Ends(m)[0] = 0 /\ Wire!Ends(m)[1] = 2 /\ Wire!Ends(m)[2] = 3
      /\ Wire!Ends(m)[3] = 4 /\ Wire!Ends(m)[4] = 5 /\ Wire!Ends(m)[5] = 6
      /\ Wire!Ends(m)[6] = 7 /\ Wire!Ends(m)[7] = 8 /\ Wire!Ends(m)[8] = 10
      /\ Wire!Ends(m)[9] = 12 /\ Wire!Ends(m)[10] = 14 /\ Wire!Ends(m)[11] = 16
      /\ Wire!Ends(m)[12] = 17 /\ Wire!Ends(m)[13] = 21 /\ Wire!Ends(m)[14] = 22
  <2> DEFINE E == Wire!Ends(m)
  <2>1. E[0] = 0 /\ \A i \in 1 .. 14 : E[i] = E[i - 1] + m[i].bytes
    BY <1>1, <1>3, EndsSteps
  <2> HIDE DEF E
  <2>2. QED
    BY <1>1, <2>1 DEF E
<1>5. Wire!At(m, 6, 1) = m[6].code
  <2>1. 6 \in 1 .. Len(m) /\ Wire!Ends(m)[6 - 1] = 6 /\ m[6].bytes = 1
    BY <1>1, <1>4
  <2>2. QED
    BY <1>3, <2>1, FieldAt
<1>6. Wire!At(m, 8, 2) = m[8].code
  <2>1. 8 \in 1 .. Len(m) /\ Wire!Ends(m)[8 - 1] = 8 /\ m[8].bytes = 2
    BY <1>1, <1>4
  <2>2. QED
    BY <1>3, <2>1, FieldAt
<1>7. Wire!At(m, 14, 2) = m[11].code
  <2>1. 11 \in 1 .. Len(m) /\ Wire!Ends(m)[11 - 1] = 14 /\ m[11].bytes = 2
    BY <1>1, <1>4
  <2>2. QED
    BY <1>3, <2>1, FieldAt
<1>8. QED
  BY <1>1, <1>2, <1>4, <1>5, <1>6, <1>7 DEF m, Wire!Bytes

\* What the encoders make of a reading before they encode it is a value as well.
LEMMA Taken ==
  ASSUME Wire!WireAssumption, WireInv
  PROVE  LET k == IF reading = NaN THEN reading ELSE reading + Kelvin
             tach == IF snapshot.tach = "valid" THEN reading ELSE NaN
             less == IF reading = NaN THEN reading ELSE -reading
             wants == IF reading # NaN /\ reading < 0 THEN 0 ELSE reading
         IN /\ reading \in Value /\ k \in Value /\ tach \in Value /\ less \in Value /\ wants \in Value
            /\ Wire!EncTempC(reading, Res.n2kT) = Wire!EncU16(k, Res.n2kT)
            /\ Wire!RvcTemp(reading, Res.rvcT) = Wire!RvcU16(k, Res.rvcT)
            /\ Wire!Tach = tach /\ Wire!SourceAmps(reading) = less
            /\ Wire!ChargerAmps(reading) = wants
<1>1. reading \in Int \cup {NaN} /\ NaN \notin Int /\ Kelvin \in Nat
  BY WireFacts DEF WireInv
<1>2. CASE reading = NaN
  BY <1>1, <1>2 DEF Value, Wire!EncTempC, Wire!RvcTemp, Wire!Tach, Wire!SourceAmps,
     Wire!ChargerAmps, Wire!Finite
<1>3. CASE reading # NaN
  BY <1>1, <1>3 DEF Value, Wire!EncTempC, Wire!RvcTemp, Wire!Tach, Wire!SourceAmps,
     Wire!ChargerAmps, Wire!Finite
<1>4. QED
  BY <1>2, <1>3

LEMMA GaugesAreRead ==
  ASSUME Wire!WireAssumption, WireInv
  PROVE  Wire!GaugesReadTrue
<1> DEFINE h == Wire!Half
           k == IF reading = NaN THEN reading ELSE reading + Kelvin
           tach == IF snapshot.tach = "valid" THEN reading ELSE NaN
           less == IF reading = NaN THEN reading ELSE -reading
           wants == IF reading # NaN /\ reading < 0 THEN 0 ELSE reading
<1>1. /\ reading \in Value /\ k \in Value /\ tach \in Value /\ less \in Value /\ wants \in Value
      /\ Wire!EncTempC(reading, Res.n2kT) = Wire!EncU16(k, Res.n2kT)
      /\ Wire!RvcTemp(reading, Res.rvcT) = Wire!RvcU16(k, Res.rvcT)
      /\ Wire!Tach = tach /\ Wire!SourceAmps(reading) = less
      /\ Wire!ChargerAmps(reading) = wants
  BY Taken
<1> HIDE DEF k, tach, less, wants, h
<1>2. /\ Wire!Shows(Wire!Signed(Wire!At(Wire!S127508, 1, 2)), reading, Res.n2kV, 0, -h, h - 4, h - 1)
      /\ Wire!Shows(Wire!Signed(Wire!At(Wire!S127508, 3, 2)), reading, Res.n2kA, 0, -h, h - 4, h - 1)
      /\ Wire!Shows(Wire!At(Wire!S127508, 5, 2), k, Res.n2kT, 0, 0, Top16 - 3, Top16)
  BY <1>1, OnS127508, Resolutions, SignedShows, EncodersShow DEF h
<1>3. /\ Wire!Shows(Wire!At(Wire!S127488, 1, 2), tach, Res.rpm, 0, 0, Top16 - 3, Top16)
      /\ Wire!Shows(Wire!At(Wire!P130816, 6, 1), reading, Res.pct, 0, 0, Full, Top8)
      /\ Wire!Shows(Wire!At(Wire!P130816, 8, 2), reading, Res.watts, 0, 0, Top16 - 3, Top16)
      /\ Wire!Shows(Wire!At(Wire!P130816, 14, 2), tach, Res.rpm, 0, 0, Top16 - 3, Top16)
  BY <1>1, OnS127488, OnP130816, Resolutions, EncodersShow
<1>4. /\ Wire!Shows(Wire!At(Wire!Charger, 1, 2), reading, Res.rvcV, 0, 0, Top16 - 1, Top16)
      /\ Wire!Shows(Wire!At(Wire!Charger, 3, 2), wants, Res.rvcA, Zero16, 0, Top16 - 1, Top16)
      /\ Wire!Shows(Wire!At(Wire!Charger, 5, 1), reading, Res.pct, 0, 0, FullPct, Top8)
  BY <1>1, OnCharger, Resolutions, EncodersShow
<1>5. /\ Wire!Shows(Wire!At(Wire!Charger2, 5, 2), reading, Res.rvcA, Zero16, 0, Top16 - 1, Top16)
      /\ Wire!Shows(Wire!At(Wire!Charger2, 7, 1), reading, Res.deg, Warm, 0, Top8 - 1, Top8)
  BY <1>1, OnCharger2, Resolutions, EncodersShow
<1>6. /\ Wire!Shows(Wire!At(Wire!Dc1, 4, 4), less, Res.mA, Zero32, 0, Top32 - 1, Top32)
      /\ Wire!Shows(Wire!At(Wire!Dc2, 2, 2), k, Res.rvcT, 0, 0, Top16 - 1, Top16)
  BY <1>1, OnDc1, OnDc2, Resolutions, EncodersShow
<1>7. QED
  BY <1>2, <1>3, <1>4, <1>5, <1>6
     DEF Wire!GaugesReadTrue, Wire!Half, h, k, tach, less, wants

LEMMA FramesHaveTheirLength == Wire!FramesAreWhole
BY OnS127508, OnS127488, OnS127750, OnCharger, OnCharger2, OnDc1, OnDc2, OnDc3, OnP127506,
   OnP130816, OnP126996, OnP126983 DEF Wire!FramesAreWhole

\* A fault that opens the field, or that limps or blocks, is what both dialects tell.
Stopped == \E b \in snapshot.faults : FaultBits[b].class \in {"open", "limp", "block"}

LEMMA StatesAgree ==
  ASSUME Wire!WireAssumption, WireInv
  PROVE  /\ Stopped => Wire!N2kState = 2 /\ Wire!RvcState = 1
         /\ ~Stopped => <<Wire!N2kState, Wire!RvcState>> \in {<<0, 1>>, <<3, 2>>, <<4, 3>>, <<5, 6>>}
         /\ (snapshot.binding = "thermal" \/ \E b \in snapshot.faults : FaultBits[b].hot)
               <=> Wire!TempState # 0
<1>1. Wire!Severity >= 2 <=> Stopped
  <2>1. CASE \E b \in snapshot.faults : FaultBits[b].class = "open"
    BY <2>1 DEF Wire!Severity, Wire!SeverityOf, Stopped
  <2>2. CASE ~ \E b \in snapshot.faults : FaultBits[b].class = "open"
    BY <2>2 DEF Wire!Severity, Wire!SeverityOf, Stopped
  <2>3. QED
    BY <2>1, <2>2
<1>2. snapshot.state \in {"standby", "bulk", "float"}
  BY DEF WireInv, Snapshots
<1>3. Stopped => Wire!N2kState = 2 /\ Wire!RvcState = 1
  BY <1>1 DEF Wire!N2kState, Wire!RvcState
<1>4. ~Stopped => <<Wire!N2kState, Wire!RvcState>> \in {<<0, 1>>, <<3, 2>>, <<4, 3>>, <<5, 6>>}
  BY <1>1, <1>2 DEF Wire!N2kState, Wire!RvcState
<1>5. (snapshot.binding = "thermal" \/ \E b \in snapshot.faults : FaultBits[b].hot)
         <=> Wire!TempState # 0
  BY DEF Wire!TempState
<1>6. QED
  BY <1>3, <1>4, <1>5

\* A current that NMEA 2000 shows to be other than nothing has the same direction in RV-C.
LEMMA CurrentsAgree ==
  ASSUME Wire!WireAssumption, NEW v \in Int
  PROVE  LET charge == Wire!Signed(Wire!EncS16(v, Res.n2kA))
         IN /\ charge > 0 => /\ Wire!RvcOffset(-v, Res.mA, Zero32, Top32) < Zero32
                             /\ v > 0 /\ Wire!RvcOffset(v, Res.rvcA, Zero16, Top16) > Zero16
            /\ charge < 0 => /\ Wire!RvcOffset(-v, Res.mA, Zero32, Top32) > Zero32
                             /\ Wire!RvcOffset(v, Res.rvcA, Zero16, Top16) < Zero16
<1> DEFINE h == Wire!Half
           r == Wire!Round(v, Res.n2kA)
           s == Wire!Round(-v, Res.mA)
           t == Wire!Round(v, Res.rvcA)
<1>1. Res.n2kA \in Nat \ {0} /\ Res.mA \in Nat \ {0} /\ Res.rvcA \in Nat \ {0}
      /\ Res.mA <= Res.n2kA /\ Res.rvcA <= Res.n2kA
  BY Resolutions
<1>2. r \in Int /\ (r > 0 <=> 2 * v >= Res.n2kA) /\ (r < 0 <=> -(2 * v) >= Res.n2kA)
  BY <1>1, Rounded
<1>3. s \in Int /\ (s > 0 <=> 2 * (-v) >= Res.mA) /\ (s < 0 <=> -(2 * (-v)) >= Res.mA)
  <2>1. -v \in Int
    OBVIOUS
  <2>2. QED
    BY <1>1, <2>1, Rounded
<1>4. t \in Int /\ (t > 0 <=> 2 * v >= Res.rvcA) /\ (t < 0 <=> -(2 * v) >= Res.rvcA)
  BY <1>1, Rounded
<1>5. h \in Nat /\ h >= 4 /\ Zero16 \in 1 .. Top16 - 2 /\ Zero32 \in 1 .. Top32 - 2
      /\ Top16 \in Nat /\ Top32 \in Nat
  BY WireFacts
<1>6. Wire!Signed(Wire!EncS16(v, Res.n2kA)) = Wire!Clamp(-h, h - 4, r)
  BY <1>1, SignedCode
<1>7. /\ Wire!RvcOffset(-v, Res.mA, Zero32, Top32) = Wire!Clamp(0, Top32 - 1, Zero32 + s)
      /\ Wire!RvcOffset(v, Res.rvcA, Zero16, Top16) = Wire!Clamp(0, Top16 - 1, Zero16 + t)
  <2>1. Wire!Finite(v) /\ Wire!Finite(-v)
    BY WireFacts DEF Wire!Finite
  <2>2. QED
    BY <2>1 DEF Wire!RvcOffset
<1> HIDE DEF h, r, s, t
<1>8. CASE Wire!Clamp(-h, h - 4, r) > 0
  <2>1. r > 0
    BY <1>2, <1>5, <1>8 DEF Wire!Clamp
  <2>2. s < 0 /\ t > 0 /\ v > 0
    BY <1>1, <1>2, <1>3, <1>4, <2>1
  <2>3. Wire!Clamp(0, Top32 - 1, Zero32 + s) < Zero32
    BY <1>3, <1>5, <2>2 DEF Wire!Clamp
  <2>4. Wire!Clamp(0, Top16 - 1, Zero16 + t) > Zero16
    BY <1>4, <1>5, <2>2 DEF Wire!Clamp
  <2>5. ~(Wire!Clamp(-h, h - 4, r) < 0)
    BY <1>2, <1>5, <1>8 DEF Wire!Clamp
  <2>6. QED
    BY <1>6, <1>7, <2>2, <2>3, <2>4, <2>5
<1>9. CASE Wire!Clamp(-h, h - 4, r) < 0
  <2>1. r < 0
    BY <1>2, <1>5, <1>9 DEF Wire!Clamp
  <2>2. s > 0 /\ t < 0
    BY <1>1, <1>2, <1>3, <1>4, <2>1
  <2>3. Wire!Clamp(0, Top32 - 1, Zero32 + s) > Zero32
    BY <1>3, <1>5, <2>2 DEF Wire!Clamp
  <2>4. Wire!Clamp(0, Top16 - 1, Zero16 + t) < Zero16
    BY <1>4, <1>5, <2>2 DEF Wire!Clamp
  <2>5. ~(Wire!Clamp(-h, h - 4, r) > 0)
    BY <1>2, <1>5, <1>9 DEF Wire!Clamp
  <2>6. QED
    BY <1>6, <1>7, <2>3, <2>4, <2>5
<1>10. QED
  BY <1>6, <1>8, <1>9

LEMMA DisplaysAgree ==
  ASSUME Wire!WireAssumption, WireInv
  PROVE  Wire!DialectsAgree
<1> DEFINE charge == Wire!Signed(Wire!At(Wire!S127508, 3, 2))
           dc == Wire!At(Wire!Dc1, 4, 4)
           wanted == Wire!At(Wire!Charger, 3, 2)
           actual == Wire!At(Wire!Charger2, 5, 2)
           n == Wire!At(Wire!S127750, 2, 1)
           r == Wire!At(Wire!Charger, 6, 1)
           t == Wire!At(Wire!S127750, 3, 1)
           hot == snapshot.binding = "thermal" \/ \E b \in snapshot.faults : FaultBits[b].hot
<1>1. n = Wire!N2kState /\ t = Wire!TempState /\ r = Wire!RvcState
  BY OnS127750, OnCharger
<1>2. ASSUME reading # NaN
      PROVE  /\ charge > 0 => dc < Zero32
             /\ charge < 0 => dc > Zero32
             /\ charge > 0 => wanted > Zero16
             /\ charge < 0 => actual < Zero16
  <2>1. reading \in Int
    BY <1>2 DEF WireInv
  <2>2. /\ charge = Wire!Signed(Wire!EncS16(reading, Res.n2kA))
        /\ dc = Wire!RvcOffset(-reading, Res.mA, Zero32, Top32)
        /\ actual = Wire!RvcOffset(reading, Res.rvcA, Zero16, Top16)
    BY <1>2, OnS127508, OnDc1, OnCharger2 DEF Wire!SourceAmps, Wire!Finite
  <2>3. reading > 0 => wanted = actual
    <3>1. ASSUME reading > 0 PROVE Wire!ChargerAmps(reading) = reading
      BY <1>2, <2>1, <3>1 DEF Wire!ChargerAmps, Wire!Finite
    <3>2. QED
      BY <2>2, <3>1, OnCharger
  <2> HIDE DEF charge, dc, wanted, actual
  <2>4. QED
    BY <2>1, <2>2, <2>3, CurrentsAgree
<1>3. /\ Stopped => n = 2 /\ r = 1
      /\ ~Stopped => <<n, r>> \in {<<0, 1>>, <<3, 2>>, <<4, 3>>, <<5, 6>>}
      /\ hot <=> t # 0
  BY <1>1, StatesAgree
<1> HIDE DEF charge, dc, wanted, actual, n, r, t
<1>4. QED
  BY <1>2, <1>3 DEF Wire!DialectsAgree, Stopped, charge, dc, wanted, actual, n, r, t

\* How grave a fault is, by its class.
Grave(b) == IF FaultBits[b].class = "open" THEN 3 ELSE IF FaultBits[b].class = "warn" THEN 1 ELSE 2

LEMMA SeverityOfOne ==
  ASSUME Wire!WireAssumption, NEW b \in Wire!Bits
  PROVE  Wire!SeverityOf({b}) = Grave(b) /\ Grave(b) \in 1 .. 3 /\ b \in Nat
<1>1. FaultBits[b].class \in {"open", "limp", "block", "warn"} /\ b \in Nat
  BY DEF Wire!WireAssumption, Wire!Bits
<1>2. QED
  BY <1>1 DEF Wire!SeverityOf, Grave

\* The worst fault exists, and the code that is chosen is its.
LEMMA WorstIsChosen ==
  ASSUME Wire!WireAssumption, WireInv, snapshot.faults # {}
  PROVE  /\ Wire!TopCode \in snapshot.faults /\ snapshot.faults \subseteq Wire!Bits
         /\ \A c \in snapshot.faults :
               Grave(c) < Grave(Wire!TopCode) \/ (Grave(c) = Grave(Wire!TopCode) /\ Wire!TopCode <= c)
<1> DEFINE S == snapshot.faults
           Worst(b) == \A c \in S : Grave(c) < Grave(b) \/ (Grave(c) = Grave(b) /\ b <= c)
           Chosen(b) == \A c \in S : Wire!SeverityOf({c}) < Wire!SeverityOf({b})
                           \/ (Wire!SeverityOf({c}) = Wire!SeverityOf({b}) /\ b <= c)
<1>1. S \subseteq Wire!Bits
  BY DEF WireInv, Snapshots
<1>2. \A b \in S : Wire!SeverityOf({b}) = Grave(b) /\ Grave(b) \in 1 .. 3 /\ b \in Nat
  BY <1>1, SeverityOfOne
<1>3. Wire!TopCode = CHOOSE b \in S : Chosen(b)
  BY DEF Wire!TopCode
<1> DEFINE Off == {3 - Grave(b) : b \in S}
<1>a. \A b \in S : Grave(b) \in Int /\ 3 - Grave(b) \in Nat /\ b \in Nat
  <2>1. ASSUME NEW b \in S PROVE Grave(b) \in 1 .. 3 /\ b \in Nat
    BY <1>2
  <2>2. QED
    BY <2>1
<1>4. \E b \in S : Worst(b)
  <2>1. Off \in SUBSET Nat /\ Off # {}
    BY <1>a
  <2> HIDE DEF Off
  <2>2. PICK least \in Off : \A y \in Off : least <= y
    BY <2>1, NatMin
  <2> DEFINE T == {b \in S : 3 - Grave(b) = least}
  <2>3. T \in SUBSET Nat /\ T # {}
    BY <1>2 DEF Off
  <2> HIDE DEF T
  <2>4. PICK b \in T : \A y \in T : b <= y
    BY <2>3, NatMin
  <2>5. b \in S /\ 3 - Grave(b) = least
    BY DEF T
  <2>6. ASSUME NEW c \in S PROVE Grave(c) < Grave(b) \/ (Grave(c) = Grave(b) /\ b <= c)
    <3>1. 3 - Grave(c) \in Off
      BY DEF Off
    <3>2. 3 - Grave(b) <= 3 - Grave(c) /\ Grave(b) \in Int /\ Grave(c) \in Int
      BY <1>a, <2>2, <2>5, <3>1
    <3>3. CASE Grave(c) = Grave(b)
      <4>1. c \in T
        BY <2>5, <3>3 DEF T
      <4>2. QED
        BY <2>4, <3>3, <4>1
    <3>4. QED
      BY <3>2, <3>3
  <2>7. QED
    BY <2>5, <2>6
<1>5. \A b \in S : Chosen(b) <=> Worst(b)
  <2> HIDE DEF S
  <2>1. QED
    BY <1>2
<1> HIDE DEF Chosen, Worst
<1>6. Wire!TopCode \in S /\ Chosen(Wire!TopCode)
  BY <1>3, <1>4, <1>5
<1>7. QED
  BY <1>1, <1>5, <1>6 DEF Worst

LEMMA AlertIsTheWorst ==
  ASSUME Wire!WireAssumption, WireInv
  PROVE  Wire!AlertNamesTheWorst
<1> DEFINE code == Wire!At(Wire!P126983, 3, 2)
           type == Wire!At(Wire!P126983, 0, 1)
           prio == Wire!At(Wire!P126983, 26, 1)
<1>1. SUFFICES ASSUME snapshot.faults # {} PROVE Wire!AlertNamesTheWorst
  BY DEF Wire!AlertNamesTheWorst
<1>2. /\ code \in snapshot.faults /\ snapshot.faults \subseteq Wire!Bits
      /\ \A c \in snapshot.faults : Grave(c) < Grave(code) \/ (Grave(c) = Grave(code) /\ code <= c)
  BY <1>1, WorstIsChosen, OnP126983
<1>3. \A b \in Wire!Bits : Grave(b) \in 1 .. 3 /\ b \in Nat /\ Wire!SeverityOf({b}) = Grave(b)
  BY SeverityOfOne
<1>4. type = <<8, 5, 2, 1>>[Grave(code) + 1] /\ prio = <<200, 128, 32, 1>>[Grave(code) + 1]
  <2>1. Wire!SeverityOf({code}) = Grave(code)
    BY <1>2, <1>3
  <2>2. code = Wire!TopCode /\ type = Wire!AlertType /\ prio = Wire!AlertPrio
    BY OnP126983
  <2>3. QED
    BY <2>1, <2>2 DEF Wire!AlertType, Wire!AlertPrio
<1> HIDE DEF code, type, prio
<1>5. <<Grave(code), type, prio>> \in {<<1, 5, 128>>, <<2, 2, 32>>, <<3, 1, 1>>}
  <2>1. Grave(code) \in 1 .. 3
    BY <1>2, <1>3
  <2>2. Grave(code) = 1 \/ Grave(code) = 2 \/ Grave(code) = 3
    BY <2>1
  <2>3. QED
    BY <1>4, <2>2
<1>6. \A b \in snapshot.faults : Grave(b) <= Grave(code) /\ (Grave(b) = Grave(code) => code <= b)
  <2>1. ASSUME NEW b \in snapshot.faults
        PROVE  Grave(b) <= Grave(code) /\ (Grave(b) = Grave(code) => code <= b)
    <3>1. Grave(b) \in 1 .. 3 /\ Grave(code) \in 1 .. 3
      BY <1>2, <1>3
    <3>2. QED
      BY <1>2, <3>1
  <2>2. QED
    BY <2>1
<1>7. \A b \in snapshot.faults \cup {code} :
         Grave(b) = CASE FaultBits[b].class = "open" -> 3
                      [] FaultBits[b].class = "warn" -> 1
                      [] OTHER -> 2
  BY DEF Grave
<1>8. QED
  BY <1>2, <1>5, <1>6, <1>7 DEF Wire!AlertNamesTheWorst, code, type, prio
-----------------------------------------------------------------------------
(* WHAT THE RUN OF THE PORTS CHECKS TOGETHER (MCComms) *)

\* A step of the run is a step of one part, and the others stand still.
LEMMA EachPartMoves ==
  ASSUME [CommsNext]_AllVars
  PROVE  /\ [Sched!SchedNext]_(Sched!schedVars) /\ [Port!PortNext]_(Port!portVars)
         /\ [BoffNext]_boffVars
         /\ [Wire!WireNext]_(Wire!wireVars) /\ [Text!FpNext]_(Text!fpVars)
         /\ [Ids!IdNext]_(Ids!idVars)
<1>1. CASE UNCHANGED AllVars
  BY <1>1 DEF AllVars, sched, canPort, wire, text, Sched!schedVars, Port!portVars,
     Wire!wireVars, Text!fpVars, Ids!idVars
<1>2. CASE CommsNext
  <2>1. Sched!SchedNext \/ UNCHANGED sched
    BY <1>2 DEF CommsNext, Rest
  <2>2. Port!PortNext \/ UNCHANGED canPort
    BY <1>2 DEF CommsNext, Rest
  <2>3. BoffNext \/ UNCHANGED boffVars
    BY <1>2 DEF CommsNext, Rest
  <2>4. Wire!WireNext \/ UNCHANGED wire
    BY <1>2 DEF CommsNext, Rest
  <2>5. Text!FpNext \/ UNCHANGED text
    BY <1>2 DEF CommsNext, Rest
  <2>6. Ids!IdNext \/ UNCHANGED frame
    BY <1>2 DEF CommsNext, Rest
  <2>7. QED
    BY <2>1, <2>2, <2>3, <2>4, <2>5, <2>6 DEF sched, canPort, wire, text, Sched!schedVars,
       Port!portVars, Wire!wireVars, Text!fpVars, Ids!idVars
<1>3. QED
  BY <1>1, <1>2

\* Every behaviour of the run is, part by part, a behaviour of the part's own specification.
LEMMA PartsAreTheirSpecs ==
  CommsSpec => SchedSpec /\ PortSpec /\ BoffSpec /\ WireSpec /\ TextSpec /\ IdSpec
<1>1. CommsSpec => CommsInit /\ [][CommsNext]_AllVars
  BY PTL DEF CommsSpec
<1>2. CommsInit => /\ Sched!SchedInit /\ Port!PortInit /\ BoffInit
                   /\ Wire!WireInit /\ Text!FpInit /\ Ids!IdInit
  BY DEF CommsInit
<1>3. QED
  BY <1>1, <1>2, EachPartMoves, PTL DEF SchedSpec, PortSpec, BoffSpec, WireSpec, TextSpec, IdSpec

\* A fault that is raised is told in the next cycle, and what a better source tells is left
\* to it, both at any time of a clock that wraps (n2k_sched_tick, rvc_rbm_defer).
THEOREM FaultsAreTold == CommsSpec => RaisedIsTold
BY CommsConstants, PartsAreTheirSpecs, AlertsAreTold DEF RaisedIsTold

\* What a receiver puts together is one packet, unless its number came round while a frame of
\* the one before was still about; and a bus-off is counted once, its fault raised by a
\* streak of them (can_n2k.c).
THEOREM PortIsSound == CommsSpec => CanPortSound
<1>1. CommsSpec => /\ []Port!PacketIsOneSend /\ []EventCountedOnce /\ BusFaultIsEarned
  BY CommsConstants, PartsAreTheirSpecs, PacketsStayWhole, BusOffIsHonest
<1>2. QED
  BY <1>1, PTL DEF CanPortSound

\* Whatever the telemetry reads and whatever it says of itself, every message of both
\* dialects shows it to the nearest code, with the gravest fault and the same state; a text
\* of any length arrives whole or not at all; and an identifier is read back as it was
\* composed, by the readers whose filters admit it (n2k_encode.c, rvc_encode.c, can_n2k.c).
THEOREM TelemetryReadsTrue == CommsSpec => []WireReadsTrue
<1>1. WireSpec => [](Wire!GaugesReadTrue /\ Wire!FramesAreWhole
                       /\ Wire!DialectsAgree /\ Wire!AlertNamesTheWorst)
  <2>1. WireInv => /\ Wire!GaugesReadTrue /\ Wire!FramesAreWhole
                   /\ Wire!DialectsAgree /\ Wire!AlertNamesTheWorst
    BY CommsConstants, GaugesAreRead, FramesHaveTheirLength, DisplaysAgree, AlertIsTheWorst
  <2>2. QED
    BY <2>1, CommsConstants, WireInvariance, PTL
<1>2. TextSpec => []Text!TextsArriveWhole
  <2>1. TextInv => Text!TextsArriveWhole
    BY CommsConstants, TextsComeBack
  <2>2. QED
    BY <2>1, CommsConstants, TextInvariance, PTL
<1>3. IdSpec => [](Ids!IdsComeBack /\ Ids!FiltersMatchReaders)
  <2>1. IdInv => Ids!IdsComeBack /\ Ids!FiltersMatchReaders
    BY IdIsRead
  <2>2. QED
    BY <2>1, CommsConstants, IdInvariance, PTL
<1>4. QED
  BY <1>1, <1>2, <1>3, PartsAreTheirSpecs, PTL DEF WireReadsTrue
=============================================================================
