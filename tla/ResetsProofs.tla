---------------------------- MODULE ResetsProofs ----------------------------
(***************************************************************************)
(* Proofs about what must come right again after any reset.  CrashRecord,  *)
(* for rings and limits of every size: the ring stays in order, a fault's  *)
(* record is the one that the next boot reads, and a boot is parked when,  *)
(* and only when, failures add up - wherever the resets and the brown-outs *)
(* fall.  ConfigStore, for records of any number of pages and generation   *)
(* counters of any width, on a part that answers at boot: a power cut at   *)
(* any point of a save finds the record the regulator runs on, an          *)
(* acknowledged save is what the next boot finds, and the two slots        *)
(* together are one durable configuration (DurableConfig).                 *)
(***************************************************************************)
EXTENDS CrashRecord, ConfigStore, SequenceTheorems, FiniteSetTheorems, TLAPS

USE ConstantsAssumption

\* A block: a record of these fields, whatever its seal is.
Block(b) ==
  /\ b = [next_seq |-> b.next_seq, seq_at_boot |-> b.seq_at_boot, head |-> b.head,
          count |-> b.count, iwdg_streak |-> b.iwdg_streak, fault_streak |-> b.fault_streak,
          ring |-> b.ring, crc |-> b.crc]
  /\ b.head \in Slots /\ b.count \in 0..RingLen
  /\ b.iwdg_streak \in 0..StreakCap /\ b.fault_streak \in 0..StreakCap
  /\ b.next_seq \in 1..MaxSeq /\ b.seq_at_boot \in 1..b.next_seq
  /\ b.ring \in [Slots -> [seq : 0..MaxSeq, kind : Kinds \cup {"NONE"}]]

Sealed(b) == b.crc = Digest(b)
Ordered(b) == \A i \in 0..(b.count - 1) : Get(b, i).seq = b.next_seq - 1 - i

-----------------------------------------------------------------------------
(* What the operations on a block do to it *)

LEMMA SealBlock ==
  ASSUME NEW b, Block(b)
  PROVE  /\ Block(Seal(b)) /\ Sealed(Seal(b))
         /\ Seal(b).next_seq = b.next_seq /\ Seal(b).seq_at_boot = b.seq_at_boot
         /\ Seal(b).head = b.head /\ Seal(b).count = b.count /\ Seal(b).ring = b.ring
         /\ Seal(b).iwdg_streak = b.iwdg_streak /\ Seal(b).fault_streak = b.fault_streak
BY DEF Seal, Block, Sealed, Digest, Header

LEMMA EmptyIsBlock ==
  /\ Block(EmptyBlock) /\ Sealed(EmptyBlock)
  /\ EmptyBlock.count = 0 /\ EmptyBlock.iwdg_streak = 0 /\ EmptyBlock.fault_streak = 0
<1> DEFINE b == [next_seq |-> 1, seq_at_boot |-> 1, head |-> 0, count |-> 0,
                 iwdg_streak |-> 0, fault_streak |-> 0, ring |-> [i \in Slots |-> None], crc |-> <<>>]
<1>1. Block(b)
  BY DEF Block, Slots, None
<1>2. EmptyBlock = Seal(b)
  BY DEF EmptyBlock
<1> HIDE DEF b
<1>3. b.count = 0 /\ b.iwdg_streak = 0 /\ b.fault_streak = 0
  BY DEF b
<1> QED
  BY <1>1, <1>2, <1>3, SealBlock

\* Field by field, what a new record makes of a block.
LEMMA AppendFields ==
  ASSUME NEW n, NEW s, NEW h, NEW c, NEW w, NEW f, NEW g, NEW x, NEW kind, NEW b, NEW d,
         b = [next_seq |-> n, seq_at_boot |-> s, head |-> h, count |-> c,
              iwdg_streak |-> w, fault_streak |-> f, ring |-> g, crc |-> x],
         d = AppendRecord(b, kind)
  PROVE  d = [next_seq |-> n + 1, seq_at_boot |-> s, head |-> (h + 1) % RingLen,
              count |-> Lesser(c + 1, RingLen), iwdg_streak |-> w, fault_streak |-> f,
              ring |-> [g EXCEPT ![h] = [seq |-> n, kind |-> kind]], crc |-> x]
<1> DEFINE l == Lesser(c + 1, RingLen)
           m == (h + 1) % RingLen
<1>1. d = [b EXCEPT !.ring = [@ EXCEPT ![b.head] = [seq |-> b.next_seq, kind |-> kind]],
                    !.next_seq = @ + 1, !.head = m, !.count = l]
  BY DEF AppendRecord
<1> HIDE DEF l, m
<1>2. d = [next_seq |-> n + 1, seq_at_boot |-> s, head |-> m, count |-> l,
           iwdg_streak |-> w, fault_streak |-> f,
           ring |-> [g EXCEPT ![h] = [seq |-> n, kind |-> kind]], crc |-> x]
  BY <1>1
<1> QED
  BY <1>2 DEF l, m

\* And what power-up noise does.
LEMMA DecayFields ==
  ASSUME NEW n, NEW s, NEW h, NEW c, NEW w, NEW f, NEW g, NEW x, NEW b, NEW d,
         b = [next_seq |-> n, seq_at_boot |-> s, head |-> h, count |-> c,
              iwdg_streak |-> w, fault_streak |-> f, ring |-> g, crc |-> x],
         d = [b EXCEPT !.count = RingLen, !.iwdg_streak = LimpStreak, !.crc = <<>>]
  PROVE  d = [next_seq |-> n, seq_at_boot |-> s, head |-> h, count |-> RingLen,
              iwdg_streak |-> LimpStreak, fault_streak |-> f, ring |-> g, crc |-> <<>>]
OBVIOUS

LEMMA DecayedBlock ==
  Block(Decayed) /\ ~Sealed(Decayed)
<1>1. Block(EmptyBlock)
  BY EmptyIsBlock
<1> DEFINE e == EmptyBlock
           d == [next_seq |-> e.next_seq, seq_at_boot |-> e.seq_at_boot, head |-> e.head,
                 count |-> RingLen, iwdg_streak |-> LimpStreak, fault_streak |-> e.fault_streak,
                 ring |-> e.ring, crc |-> <<>>]
<1> HIDE DEF e
<1>3. Decayed = d
  <2>1. e = [next_seq |-> e.next_seq, seq_at_boot |-> e.seq_at_boot, head |-> e.head,
             count |-> e.count, iwdg_streak |-> e.iwdg_streak,
             fault_streak |-> e.fault_streak, ring |-> e.ring, crc |-> e.crc]
    BY <1>1 DEF Block, e
  <2>2. Decayed = [e EXCEPT !.count = RingLen, !.iwdg_streak = LimpStreak, !.crc = <<>>]
    BY DEF Decayed, e
  <2> QED
    BY <2>1, <2>2, DecayFields
<1>4. RingLen \in 0..RingLen /\ LimpStreak \in 0..StreakCap
  OBVIOUS
<1>2. Block(Decayed) /\ Decayed.crc = <<>>
  <2>1. Block(e)
    BY <1>1 DEF e
  <2> QED
    BY <2>1, <1>3, <1>4 DEF Block
<1> QED
  BY <1>2 DEF Sealed, Digest

\* crash_record_write: the new record is the newest, at index 0, and moves the others on by one.
LEMMA RecordBlock ==
  ASSUME NEW b, Block(b), b.next_seq < MaxSeq, NEW kind \in Kinds
  PROVE  /\ Block(Record(b, kind)) /\ Sealed(Record(b, kind))
         /\ Record(b, kind).next_seq = b.next_seq + 1
         /\ Record(b, kind).seq_at_boot = b.seq_at_boot
         /\ Record(b, kind).iwdg_streak = b.iwdg_streak
         /\ Record(b, kind).fault_streak = b.fault_streak
         /\ Record(b, kind).count = Lesser(b.count + 1, RingLen)
         /\ Record(b, kind).head = (b.head + 1) % RingLen
         /\ Record(b, kind).ring = [b.ring EXCEPT ![b.head] = [seq |-> b.next_seq, kind |-> kind]]
<1> DEFINE r == [seq |-> b.next_seq, kind |-> kind]
           a == [next_seq |-> b.next_seq + 1, seq_at_boot |-> b.seq_at_boot,
                 head |-> (b.head + 1) % RingLen, count |-> Lesser(b.count + 1, RingLen),
                 iwdg_streak |-> b.iwdg_streak, fault_streak |-> b.fault_streak,
                 ring |-> [b.ring EXCEPT ![b.head] = r], crc |-> b.crc]
<1>1. AppendRecord(b, kind) = a
  <2>1. b = [next_seq |-> b.next_seq, seq_at_boot |-> b.seq_at_boot, head |-> b.head,
             count |-> b.count, iwdg_streak |-> b.iwdg_streak,
             fault_streak |-> b.fault_streak, ring |-> b.ring, crc |-> b.crc]
    BY DEF Block
  <2> QED
    BY <2>1, AppendFields
<1>2. (b.head + 1) % RingLen \in Slots
  BY DEF Block, Slots
<1>3. Lesser(b.count + 1, RingLen) \in 0..RingLen
  BY DEF Block, Lesser
<1>4. [b.ring EXCEPT ![b.head] = r] \in [Slots -> [seq : 0..MaxSeq, kind : Kinds \cup {"NONE"}]]
  BY DEF Block
<1>5. Block(a)
  BY <1>2, <1>3, <1>4 DEF Block
<1>6. Record(b, kind) = Seal(a)
  BY <1>1 DEF Record
<1>7. /\ a.next_seq = b.next_seq + 1 /\ a.seq_at_boot = b.seq_at_boot
      /\ a.iwdg_streak = b.iwdg_streak /\ a.fault_streak = b.fault_streak
      /\ a.count = Lesser(b.count + 1, RingLen) /\ a.head = (b.head + 1) % RingLen
      /\ a.ring = [b.ring EXCEPT ![b.head] = r]
  OBVIOUS
<1> HIDE DEF a
<1> QED
  BY <1>5, <1>6, <1>7, SealBlock

\* A position and a lap is the position.
LEMMA WrapsOnce ==
  ASSUME NEW k \in 0..RingLen - 1
  PROVE  (RingLen + k) % RingLen = k /\ k % RingLen = k
OBVIOUS

\* crash_record_get: index 0 is the slot before the head, wherever the ring has wrapped to.
LEMMA GetSlot ==
  ASSUME NEW b, Block(b), NEW i \in 0..RingLen - 1
  PROVE  Get(b, i) = b.ring[IF i < b.head THEN b.head - 1 - i ELSE b.head + RingLen - 1 - i]
<1>1. b.head \in 0..RingLen - 1 /\ RingLen \in Nat \ {0}
  BY DEF Block, Slots
<1>2. CASE i < b.head
  <2> DEFINE k == b.head - 1 - i
  <2>2. k \in 0..RingLen - 1 /\ b.head + RingLen - 1 - i = RingLen + k
    BY <1>1, <1>2
  <2>3. (RingLen + k) % RingLen = k
    BY <2>2, WrapsOnce
  <2>1. (b.head + RingLen - 1 - i) % RingLen = b.head - 1 - i
    BY <2>2, <2>3
  <2> QED
    BY <1>2, <2>1 DEF Get
<1>3. CASE ~(i < b.head)
  <2>2. b.head + RingLen - 1 - i \in 0..RingLen - 1
    BY <1>1, <1>3
  <2>1. (b.head + RingLen - 1 - i) % RingLen = b.head + RingLen - 1 - i
    BY <2>2, WrapsOnce
  <2> QED
    BY <1>3, <2>1 DEF Get
<1> QED
  BY <1>2, <1>3

LEMMA RecordIsNewest ==
  ASSUME NEW b, Block(b), b.next_seq < MaxSeq, NEW kind \in Kinds
  PROVE  /\ Record(b, kind).count > 0
         /\ Get(Record(b, kind), 0) = [seq |-> b.next_seq, kind |-> kind]
         /\ \A i \in 1..RingLen - 1 : Get(Record(b, kind), i) = Get(b, i - 1)
<1> DEFINE n == Record(b, kind)
           r == [seq |-> b.next_seq, kind |-> kind]
<1>1. /\ Block(n) /\ n.count = Lesser(b.count + 1, RingLen)
      /\ n.head = (b.head + 1) % RingLen /\ n.ring = [b.ring EXCEPT ![b.head] = r]
  BY RecordBlock
<1>2. /\ b.head \in 0..RingLen - 1 /\ RingLen \in Nat \ {0} /\ b.count \in Nat
      /\ b.ring \in [0..RingLen - 1 -> [seq : 0..MaxSeq, kind : Kinds \cup {"NONE"}]]
  BY DEF Block, Slots
<1>3. (b.head + 1) % RingLen = IF b.head + 1 = RingLen THEN 0 ELSE b.head + 1
  <2>1. CASE b.head + 1 = RingLen
    BY <1>2, <2>1
  <2>2. CASE b.head + 1 # RingLen
    <3>1. b.head + 1 \in 0..RingLen - 1
      BY <1>2, <2>2
    <3> QED
      BY <2>2, <3>1, WrapsOnce
  <2> QED
    BY <2>1, <2>2
<1> HIDE DEF n
<1>4. n.count > 0
  BY <1>1, <1>2 DEF Lesser
<1>5. ASSUME NEW i \in 0..RingLen - 1
      PROVE  Get(n, i) = n.ring[IF i <= b.head THEN b.head - i ELSE b.head + RingLen - i]
  <2>1. Get(n, i) = n.ring[IF i < n.head THEN n.head - 1 - i ELSE n.head + RingLen - 1 - i]
    BY <1>1, GetSlot
  <2>2. (IF i < n.head THEN n.head - 1 - i ELSE n.head + RingLen - 1 - i)
          = IF i <= b.head THEN b.head - i ELSE b.head + RingLen - i
    <3>1. CASE b.head + 1 = RingLen
      <4>1. n.head = 0
        BY <1>1, <1>3, <3>1
      <4>2. CASE i <= b.head
        BY <1>2, <3>1, <4>1, <4>2
      <4>3. CASE ~(i <= b.head)
        BY <1>2, <3>1, <4>1, <4>3
      <4> QED
        BY <4>2, <4>3
    <3>2. CASE b.head + 1 # RingLen
      <4>1. n.head = b.head + 1
        BY <1>1, <1>3, <3>2
      <4>2. CASE i <= b.head
        BY <1>2, <3>2, <4>1, <4>2
      <4>3. CASE ~(i <= b.head)
        BY <1>2, <3>2, <4>1, <4>3
      <4> QED
        BY <4>2, <4>3
    <3> QED
      BY <3>1, <3>2
  <2> QED
    BY <2>1, <2>2
<1>6. Get(n, 0) = r
  <2>1. 0 \in 0..RingLen - 1 /\ 0 <= b.head /\ b.head - 0 = b.head
    BY <1>2
  <2>2. Get(n, 0) = n.ring[b.head]
    BY <1>5, <2>1
  <2> QED
    BY <1>1, <1>2, <2>2
<1>7. ASSUME NEW i \in 1..RingLen - 1
      PROVE  Get(n, i) = Get(b, i - 1)
  <2> DEFINE k == IF i <= b.head THEN b.head - i ELSE b.head + RingLen - i
  <2>1. i \in 0..RingLen - 1 /\ i - 1 \in 0..RingLen - 1 /\ k \in 0..RingLen - 1 /\ k # b.head
    BY <1>2
  <2>2. Get(n, i) = n.ring[k]
    BY <1>5, <2>1
  <2>3. n.ring[k] = b.ring[k]
    BY <1>1, <1>2, <2>1
  <2>4. Get(b, i - 1) = b.ring[IF i - 1 < b.head THEN b.head - 1 - (i - 1) ELSE b.head + RingLen - 1 - (i - 1)]
    BY <2>1, GetSlot
  <2>5. (IF i - 1 < b.head THEN b.head - 1 - (i - 1) ELSE b.head + RingLen - 1 - (i - 1)) = k
    BY <1>2
  <2> QED
    BY <2>2, <2>3, <2>4, <2>5
<1> QED
  BY <1>4, <1>6, <1>7 DEF n

LEMMA RecordOrdered ==
  ASSUME NEW b, Block(b), b.next_seq < MaxSeq, NEW kind \in Kinds, Ordered(b)
  PROVE  Ordered(Record(b, kind))
<1> DEFINE n == Record(b, kind)
<1>1. n.count = Lesser(b.count + 1, RingLen) /\ n.next_seq = b.next_seq + 1
  BY RecordBlock
<1>2. /\ Get(n, 0) = [seq |-> b.next_seq, kind |-> kind]
      /\ \A i \in 1..RingLen - 1 : Get(n, i) = Get(b, i - 1)
  BY RecordIsNewest
<1>3. b.next_seq \in Nat /\ b.count \in 0..RingLen
  BY DEF Block
<1> HIDE DEF n
<1>4. ASSUME NEW i \in 0..(n.count - 1)
      PROVE  Get(n, i).seq = n.next_seq - 1 - i
  <2>1. CASE i = 0
    BY <1>1, <1>2, <1>3, <2>1
  <2>2. CASE i # 0
    <3>1. i \in 1..RingLen - 1 /\ i - 1 \in 0..(b.count - 1)
      BY <1>1, <1>3, <2>2 DEF Lesser
    <3>2. Get(b, i - 1).seq = b.next_seq - 1 - (i - 1)
      BY <3>1 DEF Ordered
    <3> QED
      BY <1>1, <1>2, <1>3, <3>1, <3>2
  <2> QED
    BY <2>1, <2>2
<1> QED
  BY <1>4 DEF Ordered, n

\* Two blocks with the same records.
SameRecords(b, d) ==
  d.next_seq = b.next_seq /\ d.head = b.head /\ d.count = b.count /\ d.ring = b.ring

LEMMA RecordsCarry ==
  ASSUME NEW b, NEW d, SameRecords(b, d)
  PROVE  (Ordered(b) => Ordered(d)) /\ Get(d, 0) = Get(b, 0)
BY DEF SameRecords, Ordered, Get

\* What a boot makes of the streaks.
WatchdogStreak(b, flags) ==
  IF "IWDG" \in flags THEN Lesser(b.iwdg_streak + 1, StreakCap)
  ELSE IF flags \cap {"POR", "PIN"} # {} THEN 0 ELSE b.iwdg_streak
FaultStreak(b, flags) ==
  IF "SOFTWARE" \in flags /\ b.next_seq # b.seq_at_boot THEN Lesser(b.fault_streak + 1, StreakCap)
  ELSE IF flags \cap {"POR", "PIN"} # {} THEN 0 ELSE b.fault_streak

LEMMA BootFields ==
  ASSUME NEW n, NEW s, NEW h, NEW c, NEW w, NEW f, NEW g, NEW x, NEW b, NEW m, NEW d, NEW w2, NEW f2,
         b = [next_seq |-> n, seq_at_boot |-> s, head |-> h, count |-> c,
              iwdg_streak |-> w, fault_streak |-> f, ring |-> g, crc |-> x],
         m = [b EXCEPT !.iwdg_streak = w2, !.fault_streak = f2],
         d = [m EXCEPT !.seq_at_boot = m.next_seq]
  PROVE  d = [next_seq |-> n, seq_at_boot |-> n, head |-> h, count |-> c,
              iwdg_streak |-> w2, fault_streak |-> f2, ring |-> g, crc |-> x]
<1>1. m = [next_seq |-> n, seq_at_boot |-> s, head |-> h, count |-> c,
           iwdg_streak |-> w2, fault_streak |-> f2, ring |-> g, crc |-> x]
  OBVIOUS
<1> QED
  BY <1>1

LEMMA BootBlock ==
  ASSUME NEW b, Block(b), NEW flags, NEW d,
         d = [Streaks(b, flags) EXCEPT !.seq_at_boot = Streaks(b, flags).next_seq]
  PROVE  /\ Block(d) /\ SameRecords(b, d)
         /\ d.iwdg_streak = WatchdogStreak(b, flags) /\ d.fault_streak = FaultStreak(b, flags)
<1> DEFINE w2 == WatchdogStreak(b, flags)
           f2 == FaultStreak(b, flags)
           m == Streaks(b, flags)
<1>1. w2 \in 0..StreakCap /\ f2 \in 0..StreakCap
  BY DEF WatchdogStreak, FaultStreak, Block, Lesser
<1>2. m = [b EXCEPT !.iwdg_streak = w2, !.fault_streak = f2]
  BY DEF Streaks, WatchdogStreak, FaultStreak
<1>3. b = [next_seq |-> b.next_seq, seq_at_boot |-> b.seq_at_boot, head |-> b.head,
           count |-> b.count, iwdg_streak |-> b.iwdg_streak,
           fault_streak |-> b.fault_streak, ring |-> b.ring, crc |-> b.crc]
  BY DEF Block
<1> HIDE DEF w2, f2, m
<1>4. d = [m EXCEPT !.seq_at_boot = m.next_seq]
  BY DEF m
<1>5. d = [next_seq |-> b.next_seq, seq_at_boot |-> b.next_seq, head |-> b.head,
           count |-> b.count, iwdg_streak |-> w2, fault_streak |-> f2,
           ring |-> b.ring, crc |-> b.crc]
  BY <1>2, <1>3, <1>4, BootFields
<1>6. /\ b.next_seq \in 1..MaxSeq /\ b.next_seq \in 1..b.next_seq /\ b.head \in Slots
      /\ b.count \in 0..RingLen
      /\ b.ring \in [Slots -> [seq : 0..MaxSeq, kind : Kinds \cup {"NONE"}]]
  BY DEF Block
<1>7. Block(d) /\ SameRecords(b, d) /\ d.iwdg_streak = w2 /\ d.fault_streak = f2
  <2>1. /\ d.next_seq = b.next_seq /\ d.seq_at_boot = b.next_seq /\ d.head = b.head
        /\ d.count = b.count /\ d.iwdg_streak = w2 /\ d.fault_streak = f2 /\ d.ring = b.ring
        /\ d.crc = b.crc
    BY <1>5
  <2>2. d = [next_seq |-> d.next_seq, seq_at_boot |-> d.seq_at_boot, head |-> d.head,
             count |-> d.count, iwdg_streak |-> d.iwdg_streak,
             fault_streak |-> d.fault_streak, ring |-> d.ring, crc |-> d.crc]
    BY <1>5
  <2> QED
    BY <1>1, <1>6, <2>1, <2>2 DEF Block, SameRecords
<1> QED
  BY <1>7 DEF w2, f2

LEMMA ClearFields ==
  ASSUME NEW n, NEW s, NEW h, NEW c, NEW w, NEW f, NEW g, NEW x, NEW y, NEW b, NEW i, NEW j, NEW k,
         b = [next_seq |-> n, seq_at_boot |-> s, head |-> h, count |-> c,
              iwdg_streak |-> w, fault_streak |-> f, ring |-> g, crc |-> x],
         i = [b EXCEPT !.iwdg_streak = 0], j = [b EXCEPT !.fault_streak = 0], k = [b EXCEPT !.crc = y]
  PROVE  /\ i = [next_seq |-> n, seq_at_boot |-> s, head |-> h, count |-> c,
                 iwdg_streak |-> 0, fault_streak |-> f, ring |-> g, crc |-> x]
         /\ j = [next_seq |-> n, seq_at_boot |-> s, head |-> h, count |-> c,
                 iwdg_streak |-> w, fault_streak |-> 0, ring |-> g, crc |-> x]
         /\ k = [next_seq |-> n, seq_at_boot |-> s, head |-> h, count |-> c,
                 iwdg_streak |-> w, fault_streak |-> f, ring |-> g, crc |-> y]
OBVIOUS

\* The three writes of crash_clear_streaks.
LEMMA ClearBlock ==
  ASSUME NEW b, Block(b), NEW y, NEW i, NEW j, NEW k,
         i = [b EXCEPT !.iwdg_streak = 0], j = [b EXCEPT !.fault_streak = 0], k = [b EXCEPT !.crc = y]
  PROVE  /\ Block(i) /\ SameRecords(b, i) /\ i.iwdg_streak = 0 /\ i.fault_streak = b.fault_streak
         /\ Block(j) /\ SameRecords(b, j) /\ j.iwdg_streak = b.iwdg_streak /\ j.fault_streak = 0
         /\ Block(k) /\ SameRecords(b, k) /\ k.iwdg_streak = b.iwdg_streak
         /\ k.fault_streak = b.fault_streak
<1>1. b = [next_seq |-> b.next_seq, seq_at_boot |-> b.seq_at_boot, head |-> b.head,
           count |-> b.count, iwdg_streak |-> b.iwdg_streak,
           fault_streak |-> b.fault_streak, ring |-> b.ring, crc |-> b.crc]
  BY DEF Block
<1>2. /\ b.next_seq \in 1..MaxSeq /\ b.seq_at_boot \in 1..b.next_seq /\ b.head \in Slots
      /\ b.count \in 0..RingLen /\ b.iwdg_streak \in 0..StreakCap /\ b.fault_streak \in 0..StreakCap
      /\ b.ring \in [Slots -> [seq : 0..MaxSeq, kind : Kinds \cup {"NONE"}]] /\ 0 \in 0..StreakCap
  BY DEF Block
<1>3. i = [next_seq |-> b.next_seq, seq_at_boot |-> b.seq_at_boot, head |-> b.head,
           count |-> b.count, iwdg_streak |-> 0, fault_streak |-> b.fault_streak,
           ring |-> b.ring, crc |-> b.crc]
  BY <1>1, ClearFields
<1>4. j = [next_seq |-> b.next_seq, seq_at_boot |-> b.seq_at_boot, head |-> b.head,
           count |-> b.count, iwdg_streak |-> b.iwdg_streak, fault_streak |-> 0,
           ring |-> b.ring, crc |-> b.crc]
  BY <1>1, ClearFields
<1>5. k = [next_seq |-> b.next_seq, seq_at_boot |-> b.seq_at_boot, head |-> b.head,
           count |-> b.count, iwdg_streak |-> b.iwdg_streak, fault_streak |-> b.fault_streak,
           ring |-> b.ring, crc |-> y]
  BY <1>1, ClearFields
<1>6. Block(i) /\ SameRecords(b, i) /\ i.iwdg_streak = 0 /\ i.fault_streak = b.fault_streak
  BY <1>2, <1>3 DEF Block, SameRecords
<1>7. Block(j) /\ SameRecords(b, j) /\ j.iwdg_streak = b.iwdg_streak /\ j.fault_streak = 0
  BY <1>2, <1>4 DEF Block, SameRecords
<1>8. /\ Block(k) /\ SameRecords(b, k) /\ k.iwdg_streak = b.iwdg_streak
      /\ k.fault_streak = b.fault_streak
  BY <1>2, <1>5 DEF Block, SameRecords
<1> QED
  BY <1>6, <1>7, <1>8

-----------------------------------------------------------------------------
(* Types *)

Flags == {"POR", "PIN", "SOFTWARE", "IWDG"}
Mechanisms == {"IWDG", "FAULT"}

Typed ==
  /\ Block(s_p) /\ cause \subseteq Flags
  /\ s_limp \in BOOLEAN /\ s_streaks_cleared \in BOOLEAN /\ s_events \in 0..2
  /\ failures \in 0..3 /\ run \in Seq(Mechanisms) /\ Len(run) <= 3

\* The history of one more failure boot.
LEMMA RunGrows ==
  ASSUME NEW w \in Mechanisms, NEW r \in Seq(Mechanisms), Len(r) <= 3
  PROVE  /\ Take3(<<w>> \o r) \in Seq(Mechanisms) /\ Len(Take3(<<w>> \o r)) = Lesser(3, Len(r) + 1)
         /\ \A i \in 1..Lesser(3, Len(r) + 1) : Take3(<<w>> \o r)[i] = IF i = 1 THEN w ELSE r[i - 1]
<1> DEFINE s == <<w>> \o r
           m == Lesser(3, Len(s))
<1>1. /\ s \in Seq(Mechanisms) /\ Len(s) = Len(r) + 1
      /\ \A i \in 1..Len(r) + 1 : s[i] = IF i = 1 THEN w ELSE r[i - 1]
  <2>1. <<w>> \in Seq(Mechanisms) /\ Len(<<w>>) = 1 /\ <<w>>[1] = w
    OBVIOUS
  <2> QED
    BY <2>1, ConcatProperties
<1> HIDE DEF s
<1>2. m \in 0..Len(s) /\ m = Lesser(3, Len(r) + 1)
  BY <1>1, LenProperties DEF Lesser
<1>3. /\ SubSeq(s, 1, m) \in Seq(Mechanisms) /\ Len(SubSeq(s, 1, m)) = m
      /\ \A i \in 1..m : SubSeq(s, 1, m)[i] = s[i]
  <2>1. 1 \in 1..m + 1 /\ m \in 1 - 1..Len(s)
    BY <1>2
  <2> QED
    BY <1>1, <1>2, <2>1, SubSeqProperties
<1>4. Take3(s) = SubSeq(s, 1, m)
  BY DEF Take3
<1>5. \A i \in 1..m : i \in 1..Len(r) + 1
  BY <1>1, <1>2, LenProperties
<1> HIDE DEF m
<1>6. /\ Take3(s) \in Seq(Mechanisms) /\ Len(Take3(s)) = Lesser(3, Len(r) + 1)
      /\ \A i \in 1..Lesser(3, Len(r) + 1) : Take3(s)[i] = IF i = 1 THEN w ELSE r[i - 1]
  BY <1>1, <1>2, <1>3, <1>4, <1>5
<1> QED
  BY <1>6 DEF s

\* The reset handlers leave the history and the flags in their types.
LEMMA FailedTyped ==
  ASSUME Typed, NEW w \in Mechanisms, Failed(w)
  PROVE  /\ failures' \in 0..3 /\ run' \in Seq(Mechanisms) /\ Len(run') <= 3
         /\ failures' = Lesser(failures + 1, 3)
         /\ Len(run') = Lesser(3, Len(run) + 1)
         /\ \A i \in 1..Lesser(3, Len(run) + 1) : run'[i] = IF i = 1 THEN w ELSE run[i - 1]
<1>1. run \in Seq(Mechanisms) /\ Len(run) <= 3 /\ Len(run) \in Nat /\ failures \in 0..3
  BY LenProperties DEF Typed
<1>2. run' = Take3(<<w>> \o run) /\ failures' = Lesser(failures + 1, 3)
  BY DEF Failed
<1>3. failures' \in 0..3
  BY <1>1, <1>2 DEF Lesser
<1>4. /\ run' \in Seq(Mechanisms) /\ Len(run') = Lesser(3, Len(run) + 1)
      /\ \A i \in 1..Lesser(3, Len(run) + 1) : run'[i] = IF i = 1 THEN w ELSE run[i - 1]
  BY <1>1, <1>2, RunGrows
<1>5. Len(run') <= 3
  BY <1>1, <1>4 DEF Lesser
<1> QED
  BY <1>2, <1>3, <1>4, <1>5

LEMMA RebootTyped ==
  ASSUME NEW flags, flags \subseteq Flags, cause \subseteq Flags, Rebooted(flags)
  PROVE  /\ cause' \subseteq Flags /\ pc' = "BOOT" /\ s_events' = 0 /\ ~s_limp'
         /\ s_limp' \in BOOLEAN /\ s_streaks_cleared' \in BOOLEAN
<1>1. cause' \subseteq Flags
  BY DEF Rebooted
<1> QED
  BY <1>1, Zenon DEF Rebooted

\* The operator's reset during a boot adds its flag to those that are waiting to be read; any
\* other reset by the operator starts a history.
LEMMA OperatorFlags ==
  ASSUME OperatorReset
  PROVE  /\ pc' = "BOOT" /\ cause' \cap {"POR", "PIN"} # {} /\ s_events' = 0
         /\ \/ /\ pc = "BOOT" /\ cause' = cause \cup {"PIN"}
               /\ UNCHANGED <<s_p, run, failures, last>>
            \/ /\ "SOFTWARE" \notin cause' /\ "IWDG" \notin cause' /\ run' = <<>> /\ failures' = 0
               /\ s_p' = s_p \/ s_p' = Decayed
<1>1. CASE PinReset
  <2>1. CASE pc = "BOOT"
    BY <1>1, <2>1 DEF PinReset, Rebooted
  <2>2. CASE pc # "BOOT"
    BY <1>1, <2>2 DEF PinReset, Rebooted
  <2> QED
    BY <2>1, <2>2
<1>2. CASE PowerReset
  BY <1>2 DEF PowerReset, Rebooted
<1> QED
  BY <1>1, <1>2 DEF OperatorReset

LEMMA InitTyped == Init => Typed
<1>1. <<>> \in Seq(Mechanisms) /\ Len(<<>>) = 0
  OBVIOUS
<1>2. {"POR", "PIN"} \subseteq Flags
  BY DEF Flags
<1>3. Init => Block(s_p)
  BY DecayedBlock DEF Init
<1>4. Init => run = <<>> /\ failures = 0 /\ s_events = 0 /\ cause = {"POR", "PIN"} /\ ~s_limp
              /\ ~s_streaks_cleared /\ s_limp = FALSE /\ s_streaks_cleared = FALSE
  BY DEF Init
<1>5. Init => cause \subseteq Flags /\ run \in Seq(Mechanisms) /\ Len(run) <= 3
  BY <1>1, <1>2, <1>4
<1>6. Init => s_limp \in BOOLEAN /\ s_streaks_cleared \in BOOLEAN
  BY Zenon DEF Init
<1>7. Init => failures \in 0..3 /\ s_events \in 0..2
  BY <1>4
<1> QED
  BY <1>3, <1>5, <1>6, <1>7, Zenon DEF Typed

LEMMA TrustedBlock ==
  ASSUME Block(s_p)
  PROVE  /\ Block(Trusted) /\ Sealed(Trusted)
         /\ Trusted = IF Sealed(s_p) THEN s_p ELSE EmptyBlock
BY EmptyIsBlock DEF Trusted, Sealed

LEMMA StepTyped ==
  ASSUME Typed, [Next]_vars
  PROVE  Typed'
<1>1. /\ Block(s_p) /\ cause \subseteq Flags /\ s_limp \in BOOLEAN /\ s_streaks_cleared \in BOOLEAN
      /\ s_events \in 0..2 /\ failures \in 0..3 /\ run \in Seq(Mechanisms) /\ Len(run) <= 3
  BY DEF Typed
<1> DEFINE Rest == /\ cause' \subseteq Flags /\ s_limp' \in BOOLEAN
                   /\ s_streaks_cleared' \in BOOLEAN /\ s_events' \in 0..2
           Past == failures' \in 0..3 /\ run' \in Seq(Mechanisms) /\ Len(run') <= 3
<1>2. ASSUME Block(s_p)', Rest, Past
      PROVE  Typed'
  BY <1>2 DEF Typed
<1>3. <<>> \in Seq(Mechanisms) /\ Len(<<>>) = 0
  OBVIOUS
<1>4. CASE Boot
  <2>1. Block(s_p)'
    BY <1>1, <1>4, TrustedBlock, BootBlock DEF Boot
  <2> QED
    BY <1>1, <1>2, <1>4, <2>1 DEF Boot, boot, history
<1>5. CASE BootSeal
  <2>1. Block(s_p)'
    BY <1>1, <1>5, SealBlock DEF BootSeal
  <2>2. s_limp' \in BOOLEAN
    BY <1>5 DEF BootSeal, Limp
  <2> QED
    BY <1>1, <1>2, <1>5, <2>1, <2>2 DEF BootSeal, history
<1>6. CASE Healthy
  <2>1. Past
    BY <1>1, <1>3, <1>6 DEF Healthy
  <2> QED
    BY <1>1, <1>2, <1>6, <2>1 DEF Healthy
<1>7. CASE ClearIwdg \/ ClearFault \/ WalkHeader \/ WalkRing
  <2>1. Block(s_p)'
    BY <1>1, <1>7, ClearBlock DEF ClearIwdg, ClearFault, WalkHeader, WalkRing, ClearStep
  <2>2. UNCHANGED <<cause, s_limp, s_streaks_cleared, s_events, run, failures>>
    BY <1>7 DEF ClearIwdg, ClearFault, WalkHeader, WalkRing, ClearStep, boot, history
  <2> QED
    BY <1>1, <1>2, <2>1, <2>2
<1>8. CASE StoreSeal
  <2>1. Block(s_p)'
    BY <1>1, <1>8, ClearBlock DEF StoreSeal
  <2> QED
    BY <1>1, <1>2, <1>8, <2>1 DEF StoreSeal
<1>9. CASE BrownOut
  <2>1. Block(s_p)'
    <3>1. CASE s_events = 0
      <4>1. "BROWNOUT" \in Kinds /\ s_p.next_seq < MaxSeq /\ s_p' = Record(s_p, "BROWNOUT")
        BY <1>9, <3>1 DEF BrownOut, Kinds
      <4> QED
        BY <1>1, <4>1, RecordBlock
    <3>2. CASE s_events # 0
      BY <1>1, <1>9, <3>2, SealBlock DEF BrownOut
    <3> QED
      BY <3>1, <3>2
  <2>2. s_events' \in 0..2
    BY <1>1, <1>9 DEF BrownOut, Lesser
  <2> QED
    BY <1>1, <1>2, <1>9, <2>1, <2>2 DEF BrownOut, boot
<1>10. CASE FaultReset
  <2>1. Block(s_p)'
    BY <1>1, <1>10, RecordBlock DEF FaultReset, Kinds
  <2>2. Past
    BY <1>10, FailedTyped DEF FaultReset, Mechanisms
  <2>3. Rest
    <3>1. PICK pin \in SUBSET {"PIN"} : Rebooted({"SOFTWARE"} \cup pin)
      BY <1>10 DEF FaultReset
    <3>2. {"SOFTWARE"} \cup pin \subseteq Flags
      BY DEF Flags
    <3>3. s_events' \in 0..2
      BY <3>1 DEF Rebooted
    <3> QED
      BY <1>1, <3>1, <3>2, <3>3, RebootTyped
  <2> QED
    BY <1>2, <2>1, <2>2, <2>3
<1>11. CASE WatchdogReset
  <2>1. Block(s_p)'
    BY <1>1, <1>11 DEF WatchdogReset
  <2>2. Past
    BY <1>11, FailedTyped DEF WatchdogReset, Mechanisms
  <2>3. Rest
    <3>1. PICK pin \in SUBSET {"PIN"} : Rebooted({"IWDG"} \cup pin)
      BY <1>11 DEF WatchdogReset
    <3>2. {"IWDG"} \cup pin \subseteq Flags
      BY DEF Flags
    <3>3. s_events' \in 0..2
      BY <3>1 DEF Rebooted
    <3> QED
      BY <1>1, <3>1, <3>2, <3>3, RebootTyped
  <2> QED
    BY <1>2, <2>1, <2>2, <2>3
<1>12. CASE OperatorReset
  <2>1. Block(s_p)'
    BY <1>1, <1>12, OperatorFlags, DecayedBlock
  <2>2. Past
    <3>1. CASE run' = <<>> /\ failures' = 0
      BY <1>3, <3>1
    <3>2. CASE UNCHANGED <<run, failures>>
      BY <1>1, <3>2
    <3> QED
      BY <1>12, <3>1, <3>2, OperatorFlags
  <2>3. Rest
    <3>1. PICK flags : flags \subseteq Flags /\ Rebooted(flags)
      BY <1>12 DEF OperatorReset, PinReset, PowerReset, Flags
    <3>2. s_events' \in 0..2
      BY <3>1 DEF Rebooted
    <3> QED
      BY <1>1, <3>1, <3>2, RebootTyped
  <2> QED
    BY <1>2, <2>1, <2>2, <2>3
<1>13. CASE UNCHANGED vars
  BY <1>1, <1>2, <1>13 DEF vars, boot, history
<1> QED
  BY <1>4, <1>5, <1>6, <1>7, <1>8, <1>9, <1>10, <1>11, <1>12, <1>13 DEF Next

LEMMA AlwaysTyped == Spec => []Typed
BY InitTyped, StepTyped, PTL DEF Spec

\* Every variable keeps its type: the head and the count stay within the ring, the streaks
\* within their byte, through every boot, reset, dip and clearing.
THEOREM RecordTypeCorrect == Spec => []TypeOK
<1>1. Typed => TypeOK
  <2> SUFFICES ASSUME Typed
               PROVE  TypeOK
    OBVIOUS
  <2>1. Block(s_p)
    BY DEF Typed
  <2>2. /\ s_p.head \in Slots /\ s_p.count \in 0..RingLen
        /\ s_p.iwdg_streak \in 0..StreakCap /\ s_p.fault_streak \in 0..StreakCap
        /\ s_p.next_seq \in 1..MaxSeq /\ s_p.seq_at_boot \in 1..MaxSeq
        /\ s_p.ring \in [Slots -> [seq : 0..MaxSeq, kind : Kinds \cup {"NONE"}]]
    BY <2>1 DEF Block
  <2> QED
    BY <2>2, Zenon DEF Typed, TypeOK, Flags
<1> QED
  BY <1>1, AlwaysTyped, PTL

-----------------------------------------------------------------------------
(* The ring *)

\* In the ring of a running boot, and under a seal, the records are in order.
RingKept == (pc = "BOOT" /\ ~Sealed(s_p)) \/ Ordered(s_p)

LEMMA InitRing == Init => RingKept
BY DecayedBlock DEF Init, RingKept

LEMMA EmptyOrdered == Ordered(EmptyBlock)
<1>1. EmptyBlock.count = 0
  BY EmptyIsBlock
<1> QED
  BY <1>1 DEF Ordered

LEMMA StepRing ==
  ASSUME Typed, RingKept, [Next]_vars
  PROVE  RingKept'
<1>1. Block(s_p)
  BY DEF Typed
<1>2. CASE Boot
  <2>1. Ordered(Trusted)
    BY <1>1, <1>2, TrustedBlock, EmptyOrdered DEF RingKept
  <2>2. SameRecords(Trusted, s_p')
    BY <1>1, <1>2, TrustedBlock, BootBlock DEF Boot
  <2> QED
    BY <2>1, <2>2, RecordsCarry DEF RingKept
<1>3. CASE BootSeal
  <2>1. Ordered(s_p) /\ SameRecords(s_p, s_p')
    BY <1>1, <1>3, SealBlock DEF BootSeal, RingKept, SameRecords
  <2> QED
    BY <2>1, RecordsCarry DEF RingKept
<1>4. CASE Healthy
  <2>1. Ordered(s_p) /\ s_p' = s_p
    BY <1>4 DEF Healthy, RingKept
  <2> QED
    BY <2>1 DEF RingKept
<1>5. CASE ClearIwdg \/ ClearFault \/ WalkHeader \/ WalkRing \/ StoreSeal
  <2>1. pc # "BOOT"
    BY <1>5 DEF ClearIwdg, ClearFault, WalkHeader, WalkRing, ClearStep, StoreSeal
  <2>2. SameRecords(s_p, s_p')
    <3>1. CASE WalkHeader \/ WalkRing
      BY <3>1 DEF WalkHeader, WalkRing, ClearStep, SameRecords
    <3>2. CASE ClearIwdg
      BY <1>1, <3>2, ClearBlock DEF ClearIwdg, ClearStep
    <3>3. CASE ClearFault
      BY <1>1, <3>3, ClearBlock DEF ClearFault, ClearStep
    <3>4. CASE StoreSeal
      BY <1>1, <3>4, ClearBlock DEF StoreSeal
    <3> QED
      BY <1>5, <3>1, <3>2, <3>3, <3>4
  <2> QED
    BY <2>1, <2>2, RecordsCarry DEF RingKept
<1>6. CASE BrownOut
  <2>1. Ordered(s_p)
    BY <1>6 DEF BrownOut, RingKept
  <2>2. CASE s_events = 0
    <3>1. "BROWNOUT" \in Kinds /\ s_p.next_seq < MaxSeq /\ s_p' = Record(s_p, "BROWNOUT")
      BY <1>6, <2>2 DEF BrownOut, Kinds
    <3> QED
      BY <1>1, <2>1, <3>1, RecordOrdered DEF RingKept
  <2>3. CASE s_events # 0
    <3>1. SameRecords(s_p, s_p')
      BY <1>1, <1>6, <2>3, SealBlock DEF BrownOut, SameRecords
    <3> QED
      BY <2>1, <3>1, RecordsCarry DEF RingKept
  <2> QED
    BY <2>2, <2>3
<1>7. CASE FaultReset
  <2>1. "FAULT" \in Kinds /\ s_p.next_seq < MaxSeq /\ s_p' = Record(s_p, "FAULT") /\ Ordered(s_p)
    BY <1>7 DEF FaultReset, Kinds, RingKept
  <2> QED
    BY <1>1, <2>1, RecordOrdered DEF RingKept
<1>8. CASE WatchdogReset
  <2>1. Ordered(s_p) /\ s_p' = s_p
    BY <1>8 DEF WatchdogReset, RingKept
  <2> QED
    BY <2>1 DEF RingKept
<1>9. CASE OperatorReset
  <2>1. pc' = "BOOT"
    BY <1>9, OperatorFlags
  <2>2. s_p' = s_p \/ s_p' = Decayed
    BY <1>9, OperatorFlags
  <2> QED
    BY <2>1, <2>2, DecayedBlock DEF RingKept
<1>10. CASE UNCHANGED vars
  BY <1>10 DEF vars, RingKept
<1> QED
  BY <1>2, <1>3, <1>4, <1>5, <1>6, <1>7, <1>8, <1>9, <1>10 DEF Next

\* The ring hands out its records newest first and without a gap, however many resets, dips
\* and faults have written it and wherever it has wrapped to.
THEOREM RingStaysInOrder == Spec => []RingInOrder
<1>1. RingKept => RingInOrder
  BY DEF RingKept, RingInOrder, Ordered
<1>2. Spec => []RingKept
  BY InitRing, StepRing, AlwaysTyped, PTL DEF Spec
<1> QED
  BY <1>1, <1>2, PTL

-----------------------------------------------------------------------------
(* The record of a fault *)

\* Until a dip of this boot adds its own, the newest record is the fault's, and up to the
\* boot that counts it the seal vouches for it.
FaultKept ==
  /\ ("SOFTWARE" \in cause /\ s_events = 0) =>
       s_p.count > 0 /\ Get(s_p, 0) = last /\ (pc = "BOOT" => Sealed(s_p))
  /\ pc = "BOOT" => s_events = 0

LEMMA InitFault == Init => FaultKept
BY DEF Init, FaultKept

LEMMA StepFault ==
  ASSUME Typed, FaultKept, [Next]_vars
  PROVE  FaultKept'
<1>1. Block(s_p) /\ s_events \in 0..2
  BY DEF Typed
<1>2. ASSUME SameRecords(s_p, s_p'), UNCHANGED <<cause, s_events, last>>, pc' # "BOOT"
      PROVE  FaultKept'
  <2>1. Get(s_p', 0) = Get(s_p, 0) /\ s_p'.count = s_p.count
    BY <1>2, RecordsCarry DEF SameRecords
  <2> QED
    BY <1>2, <2>1 DEF FaultKept
<1>3. CASE Boot
  <2>1. CASE "SOFTWARE" \in cause /\ s_events = 0
    <3>1. Trusted = s_p
      BY <1>1, <1>3, <2>1, TrustedBlock DEF Boot, FaultKept
    <3>2. SameRecords(s_p, s_p')
      BY <1>1, <1>3, <3>1, BootBlock DEF Boot
    <3> QED
      BY <1>2, <1>3, <3>2 DEF Boot, boot, history
  <2>2. CASE ~("SOFTWARE" \in cause /\ s_events = 0)
    BY <1>3, <2>2 DEF Boot, boot, FaultKept
  <2> QED
    BY <2>1, <2>2
<1>4. CASE BootSeal
  <2>1. SameRecords(s_p, s_p')
    BY <1>1, <1>4, SealBlock DEF BootSeal, SameRecords
  <2> QED
    BY <1>2, <1>4, <2>1 DEF BootSeal, history
<1>5. CASE Healthy
  <2>1. SameRecords(s_p, s_p') /\ pc' # "BOOT"
    BY <1>5 DEF Healthy, SameRecords
  <2> QED
    BY <1>2, <1>5, <2>1 DEF Healthy
<1>6. CASE WalkHeader \/ WalkRing
  <2>1. SameRecords(s_p, s_p') /\ pc' # "BOOT"
    BY <1>6 DEF WalkHeader, WalkRing, ClearStep, SameRecords
  <2> QED
    BY <1>2, <1>6, <2>1 DEF WalkHeader, WalkRing, ClearStep, boot, history
<1>7. CASE ClearIwdg
  <2>1. SameRecords(s_p, s_p')
    BY <1>1, <1>7, ClearBlock DEF ClearIwdg, ClearStep
  <2> QED
    BY <1>2, <1>7, <2>1 DEF ClearIwdg, ClearStep, boot, history
<1>8. CASE ClearFault
  <2>1. SameRecords(s_p, s_p')
    BY <1>1, <1>8, ClearBlock DEF ClearFault, ClearStep
  <2> QED
    BY <1>2, <1>8, <2>1 DEF ClearFault, ClearStep, boot, history
<1>9. CASE StoreSeal
  <2>1. SameRecords(s_p, s_p')
    BY <1>1, <1>9, ClearBlock DEF StoreSeal
  <2> QED
    BY <1>2, <1>9, <2>1 DEF StoreSeal
<1>10. CASE BrownOut
  <2>1. s_events' # 0 /\ pc' # "BOOT"
    BY <1>1, <1>10 DEF BrownOut, Lesser
  <2> QED
    BY <2>1 DEF FaultKept
<1>11. CASE FaultReset
  <2>1. /\ "FAULT" \in Kinds /\ s_p.next_seq < MaxSeq /\ s_p' = Record(s_p, "FAULT")
        /\ last' = [seq |-> s_p.next_seq, kind |-> "FAULT"]
    BY <1>11 DEF FaultReset, Kinds
  <2>2. Sealed(s_p')
    BY <1>1, <2>1, RecordBlock
  <2>3. s_p'.count > 0 /\ Get(s_p', 0) = last'
    BY <1>1, <2>1, RecordIsNewest
  <2>4. s_events' = 0
    BY <1>11 DEF FaultReset, Rebooted
  <2> QED
    BY <2>2, <2>3, <2>4 DEF FaultKept
<1>12. CASE WatchdogReset
  <2>1. PICK pin \in SUBSET {"PIN"} : Rebooted({"IWDG"} \cup pin)
    BY <1>12 DEF WatchdogReset
  <2>2. "SOFTWARE" \notin cause' /\ s_events' = 0
    BY <1>12, <2>1 DEF WatchdogReset, Rebooted
  <2> QED
    BY <2>2 DEF FaultKept
<1>13. CASE OperatorReset
  <2>1. s_events' = 0 /\ pc' = "BOOT"
    BY <1>13, OperatorFlags
  <2>2. CASE "SOFTWARE" \notin cause'
    BY <2>1, <2>2 DEF FaultKept
  <2>3. CASE pc = "BOOT" /\ cause' = cause \cup {"PIN"} /\ UNCHANGED <<s_p, last>>
    BY <2>1, <2>3 DEF FaultKept, Sealed
  <2> QED
    BY <1>13, <2>2, <2>3, OperatorFlags
<1>14. CASE UNCHANGED vars
  BY <1>14 DEF vars, boot, history, FaultKept
<1> QED
  BY <1>3, <1>4, <1>5, <1>6, <1>7, <1>8, <1>9, <1>10, <1>11, <1>12, <1>13, <1>14 DEF Next

\* A boot after a fault finds the record of that fault, and finds it newest, even when the
\* fault fell into the boot's own seal or into the clearing of the streaks.
THEOREM FaultsAreReadable == Spec => []FaultIsReadable
<1>1. FaultKept => FaultIsReadable
  BY DEF FaultKept, FaultIsReadable
<1>2. Spec => []FaultKept
  BY InitFault, StepFault, AlwaysTyped, PTL DEF Spec
<1> QED
  BY <1>1, <1>2, PTL

-----------------------------------------------------------------------------
(* No boot is parked without the failures *)

\* A streak, as far as three of it, is covered by failure boots.
Covered(streak) == Lesser(streak, 3) <= failures

\* Before a boot the streaks it will arrive at are covered; after it, the ones it holds.
\* While the streaks are being cleared, the ones already cleared stay so.
StreaksCovered ==
  /\ pc # "BOOT" => Covered(s_p.iwdg_streak) /\ Covered(s_p.fault_streak)
  /\ pc = "BOOT" =>
       /\ "IWDG" \in cause \/ "SOFTWARE" \in cause => failures >= 1
       /\ Sealed(s_p) => /\ Covered(WatchdogStreak(s_p, cause))
                         /\ Covered(FaultStreak(s_p, cause))
  /\ pc \in {"CLEAR_FAULT", "WALK_HEADER", "WALK_RING", "STORE"} => s_p.iwdg_streak = 0
  /\ pc \in {"WALK_HEADER", "WALK_RING", "STORE"} => s_p.fault_streak = 0

LEMMA InitCovered == Init => StreaksCovered
BY DecayedBlock DEF Init, StreaksCovered

\* The streaks of a clean block count the failure that brought the boot about.
LEMMA EmptyCovered ==
  ASSUME failures \in 0..3, NEW flags,
         "IWDG" \in flags \/ "SOFTWARE" \in flags => failures >= 1
  PROVE  Covered(WatchdogStreak(EmptyBlock, flags)) /\ Covered(FaultStreak(EmptyBlock, flags))
<1>1. EmptyBlock.iwdg_streak = 0 /\ EmptyBlock.fault_streak = 0
  BY EmptyIsBlock
<1> QED
  BY <1>1 DEF Covered, WatchdogStreak, FaultStreak, Lesser

LEMMA StepCovered ==
  ASSUME Typed, StreaksCovered, [Next]_vars
  PROVE  StreaksCovered'
<1>1. Block(s_p) /\ failures \in 0..3
  BY DEF Typed
<1>2. s_p.iwdg_streak \in 0..StreakCap /\ s_p.fault_streak \in 0..StreakCap
  BY <1>1 DEF Block
<1>3. CASE Boot
  <2>1. Covered(WatchdogStreak(Trusted, cause)) /\ Covered(FaultStreak(Trusted, cause))
    <3>1. CASE Sealed(s_p)
      BY <1>1, <1>3, <3>1, TrustedBlock DEF Boot, StreaksCovered
    <3>2. CASE ~Sealed(s_p)
      BY <1>1, <1>3, <3>2, TrustedBlock, EmptyCovered DEF Boot, StreaksCovered
    <3> QED
      BY <3>1, <3>2
  <2>2. /\ s_p'.iwdg_streak = WatchdogStreak(Trusted, cause)
        /\ s_p'.fault_streak = FaultStreak(Trusted, cause)
    BY <1>1, <1>3, TrustedBlock, BootBlock DEF Boot
  <2>3. failures' = failures /\ pc' = "SEAL"
    BY <1>3 DEF Boot, history
  <2> QED
    BY <2>1, <2>2, <2>3 DEF StreaksCovered, Covered
<1>4. CASE BootSeal
  <2>1. s_p'.iwdg_streak = s_p.iwdg_streak /\ s_p'.fault_streak = s_p.fault_streak
    BY <1>1, <1>4, SealBlock DEF BootSeal
  <2>2. failures' = failures /\ pc' = "RUN" /\ pc = "SEAL"
    BY <1>4 DEF BootSeal, history
  <2> QED
    BY <2>1, <2>2 DEF StreaksCovered, Covered
<1>5. CASE Healthy
  <2>1. s_p' = s_p /\ pc = "RUN" /\ pc' \in {"RUN", "CLEAR_IWDG"}
    BY <1>5 DEF Healthy
  <2>2. failures' = failures \/ (failures' = 0 /\ s_p.iwdg_streak = 0 /\ s_p.fault_streak = 0)
    BY <1>5 DEF Healthy
  <2> QED
    BY <1>1, <1>2, <2>1, <2>2 DEF StreaksCovered, Covered, Lesser
<1>6. CASE WalkHeader \/ WalkRing
  <2>1. /\ s_p' = s_p /\ failures' = failures /\ pc \in {"WALK_HEADER", "WALK_RING"}
        /\ pc' \in {"WALK_RING", "STORE"}
    BY <1>6 DEF WalkHeader, WalkRing, ClearStep, history
  <2> QED
    BY <2>1 DEF StreaksCovered, Covered
<1>7. CASE ClearIwdg
  <2>1. s_p'.iwdg_streak = 0 /\ s_p'.fault_streak = s_p.fault_streak
    BY <1>1, <1>7, ClearBlock DEF ClearIwdg, ClearStep
  <2>2. failures' = failures /\ pc = "CLEAR_IWDG" /\ pc' = "CLEAR_FAULT"
    BY <1>7 DEF ClearIwdg, ClearStep, history
  <2> QED
    BY <1>1, <2>1, <2>2 DEF StreaksCovered, Covered, Lesser
<1>8. CASE ClearFault
  <2>1. s_p'.iwdg_streak = s_p.iwdg_streak /\ s_p'.fault_streak = 0
    BY <1>1, <1>8, ClearBlock DEF ClearFault, ClearStep
  <2>2. failures' = failures /\ pc = "CLEAR_FAULT" /\ pc' = "WALK_HEADER"
    BY <1>8 DEF ClearFault, ClearStep, history
  <2> QED
    BY <1>1, <2>1, <2>2 DEF StreaksCovered, Covered, Lesser
<1>9. CASE StoreSeal
  <2>1. s_p'.iwdg_streak = s_p.iwdg_streak /\ s_p'.fault_streak = s_p.fault_streak
    BY <1>1, <1>9, ClearBlock DEF StoreSeal
  <2>2. failures' = 0 /\ pc = "STORE" /\ pc' = "RUN"
    BY <1>9 DEF StoreSeal
  <2> QED
    BY <2>1, <2>2 DEF StreaksCovered, Covered, Lesser
<1>10. CASE BrownOut
  <2>1. s_p'.iwdg_streak = s_p.iwdg_streak /\ s_p'.fault_streak = s_p.fault_streak
    <3>1. CASE s_events = 0
      <4>1. "BROWNOUT" \in Kinds /\ s_p.next_seq < MaxSeq /\ s_p' = Record(s_p, "BROWNOUT")
        BY <1>10, <3>1 DEF BrownOut, Kinds
      <4> QED
        BY <1>1, <4>1, RecordBlock
    <3>2. CASE s_events # 0
      BY <1>1, <1>10, <3>2, SealBlock DEF BrownOut
    <3> QED
      BY <3>1, <3>2
  <2>2. failures' = failures /\ pc' = pc /\ pc # "BOOT"
    BY <1>10 DEF BrownOut
  <2> QED
    BY <2>1, <2>2 DEF StreaksCovered, Covered
<1>11. CASE FaultReset
  <2>1. PICK pin \in SUBSET {"PIN"} : Rebooted({"SOFTWARE"} \cup pin)
    BY <1>11 DEF FaultReset
  <2>2. /\ pc # "BOOT" /\ pc' = "BOOT" /\ "IWDG" \notin cause' /\ failures' = Lesser(failures + 1, 3)
    BY <1>11, <2>1 DEF FaultReset, Failed, Rebooted
  <2>3. "FAULT" \in Kinds /\ s_p.next_seq < MaxSeq /\ s_p' = Record(s_p, "FAULT")
    BY <1>11 DEF FaultReset, Kinds
  <2>4. s_p'.iwdg_streak = s_p.iwdg_streak /\ s_p'.fault_streak = s_p.fault_streak
    BY <1>1, <2>3, RecordBlock
  <2>5. Covered(s_p.iwdg_streak) /\ Covered(s_p.fault_streak)
    BY <2>2 DEF StreaksCovered
  <2>6. WatchdogStreak(s_p', cause') \in {0, s_p.iwdg_streak}
    BY <2>2, <2>4 DEF WatchdogStreak
  <2>7. FaultStreak(s_p', cause') \in {0, s_p.fault_streak, Lesser(s_p.fault_streak + 1, StreakCap)}
    BY <2>4 DEF FaultStreak
  <2>8. Covered(WatchdogStreak(s_p, cause))' /\ Covered(FaultStreak(s_p, cause))'
    BY <1>1, <1>2, <2>2, <2>5, <2>6, <2>7 DEF Covered, Lesser
  <2>9. failures' >= 1
    BY <1>1, <2>2 DEF Lesser
  <2> QED
    BY <2>2, <2>8, <2>9 DEF StreaksCovered
<1>12. CASE WatchdogReset
  <2>1. PICK pin \in SUBSET {"PIN"} : Rebooted({"IWDG"} \cup pin)
    BY <1>12 DEF WatchdogReset
  <2>2. /\ pc # "BOOT" /\ pc' = "BOOT" /\ "SOFTWARE" \notin cause' /\ s_p' = s_p
        /\ failures' = Lesser(failures + 1, 3)
    BY <1>12, <2>1 DEF WatchdogReset, Failed, Rebooted
  <2>3. Covered(s_p.iwdg_streak) /\ Covered(s_p.fault_streak)
    BY <2>2 DEF StreaksCovered
  <2>4. WatchdogStreak(s_p', cause') \in {0, s_p.iwdg_streak, Lesser(s_p.iwdg_streak + 1, StreakCap)}
    BY <2>2 DEF WatchdogStreak
  <2>5. FaultStreak(s_p', cause') \in {0, s_p.fault_streak}
    BY <2>2 DEF FaultStreak
  <2>6. Covered(WatchdogStreak(s_p, cause))' /\ Covered(FaultStreak(s_p, cause))'
    BY <1>1, <1>2, <2>2, <2>3, <2>4, <2>5 DEF Covered, Lesser
  <2>7. failures' >= 1
    BY <1>1, <2>2 DEF Lesser
  <2> QED
    BY <2>2, <2>6, <2>7 DEF StreaksCovered
<1>13. CASE OperatorReset
  <2>1. pc' = "BOOT" /\ cause' \cap {"POR", "PIN"} # {}
    BY <1>13, OperatorFlags
  <2>2. CASE pc = "BOOT" /\ cause' = cause \cup {"PIN"} /\ UNCHANGED <<s_p, failures>>
    <3>1. /\ WatchdogStreak(s_p', cause') \in {0, WatchdogStreak(s_p, cause)}
          /\ FaultStreak(s_p', cause') \in {0, FaultStreak(s_p, cause)}
      BY <2>1, <2>2 DEF WatchdogStreak, FaultStreak
    <3>2. /\ "IWDG" \in cause' \/ "SOFTWARE" \in cause' => failures' >= 1
          /\ Sealed(s_p)' => Sealed(s_p)
      BY <2>2 DEF StreaksCovered, Sealed
    <3>3. Sealed(s_p) => /\ Covered(WatchdogStreak(s_p, cause)) /\ Covered(FaultStreak(s_p, cause))
      BY <2>2 DEF StreaksCovered
    <3> QED
      BY <1>1, <2>1, <2>2, <3>1, <3>2, <3>3 DEF StreaksCovered, Covered, Lesser
  <2>3. CASE "SOFTWARE" \notin cause' /\ "IWDG" \notin cause' /\ failures' = 0
    <3>1. WatchdogStreak(s_p', cause') = 0 /\ FaultStreak(s_p', cause') = 0
      BY <2>1, <2>3 DEF WatchdogStreak, FaultStreak
    <3> QED
      BY <2>1, <2>3, <3>1 DEF StreaksCovered, Covered, Lesser
  <2> QED
    BY <1>13, <2>2, <2>3, OperatorFlags
<1>14. CASE UNCHANGED vars
  BY <1>14 DEF vars, boot, history, StreaksCovered, Covered
<1> QED
  BY <1>3, <1>4, <1>5, <1>6, <1>7, <1>8, <1>9, <1>10, <1>11, <1>12, <1>13, <1>14 DEF Next

\* A boot is parked only after the failures it takes, with no reset by the operator and no
\* completed healthy minute in between - not by a corrupt block, not by brown-outs, and not by
\* a failure that falls into the clearing of the streaks.
THEOREM ParkedIsEarned == Spec => LimpIsEarned
<1>1. ASSUME Typed, StreaksCovered, [Next]_vars
      PROVE  ~s_limp /\ s_limp' => failures >= Lesser(LimpStreak, 3)
  <2> SUFFICES ASSUME ~s_limp, s_limp'
               PROVE  failures >= Lesser(LimpStreak, 3)
    OBVIOUS
  <2>1. CASE BootSeal
    <3>1. Limp(s_p) /\ pc = "SEAL"
      BY <2>1 DEF BootSeal
    <3>2. Covered(s_p.iwdg_streak) /\ Covered(s_p.fault_streak)
      BY <1>1, <3>1 DEF StreaksCovered
    <3>3. /\ s_p.iwdg_streak \in 0..StreakCap /\ s_p.fault_streak \in 0..StreakCap
          /\ failures \in 0..3
      BY <1>1 DEF Typed, Block
    <3> QED
      BY <3>1, <3>2, <3>3 DEF Limp, Covered, Lesser
  <2>2. CASE FaultReset \/ WatchdogReset \/ OperatorReset
    <3>1. ~s_limp'
      BY <2>2 DEF FaultReset, WatchdogReset, OperatorReset, PinReset, PowerReset, Rebooted
    <3> QED
      BY <3>1
  <2>3. CASE ~(BootSeal \/ FaultReset \/ WatchdogReset \/ OperatorReset)
    <3>1. s_limp' = s_limp
      BY <1>1, <2>3 DEF Next, Boot, Healthy, ClearIwdg, ClearFault, WalkHeader, WalkRing, ClearStep,
                  StoreSeal, BrownOut, boot, vars
    <3> QED
      BY <3>1
  <2> QED
    BY <2>1, <2>2, <2>3
<1>2. Spec => []StreaksCovered
  BY InitCovered, StepCovered, AlwaysTyped, PTL DEF Spec
<1>3. Typed /\ StreaksCovered /\ [Next]_vars
        => [~s_limp /\ s_limp' => failures >= Lesser(LimpStreak, 3)]_vars
  BY <1>1
<1> QED
  BY <1>2, <1>3, AlwaysTyped, PTL DEF Spec, LimpIsEarned

-----------------------------------------------------------------------------
(* A mechanism that keeps failing parks the boot *)

\* The last n boots were all failures of this mechanism.
Lead(w, n) == Len(run) >= n /\ \A i \in 1..n : run[i] = w

\* The streaks of a block count such boots, as far as they count.
Counts(w, f) ==
  \A n \in 1..3 : /\ Lead("IWDG", n) => w >= Lesser(n, StreakCap)
                  /\ Lead("FAULT", n) => f >= Lesser(n, StreakCap)

\* Before a boot its streaks-to-be count the run, for a reason that the operator's pin does not
\* take away; after it the streaks do; a run that goes on is under a seal; the clearing begins
\* only when the run is over.
RunCounted ==
  /\ pc = "BOOT" => Counts(WatchdogStreak(Trusted, cause), FaultStreak(Trusted, cause))
  /\ pc = "BOOT" /\ Lead("IWDG", 1) => "IWDG" \in cause
  /\ pc = "BOOT" /\ Lead("FAULT", 1) =>
       "SOFTWARE" \in cause /\ Trusted.next_seq # Trusted.seq_at_boot
  /\ pc # "BOOT" => Counts(s_p.iwdg_streak, s_p.fault_streak)
  /\ pc = "RUN" /\ run # <<>> => Sealed(s_p)
  /\ pc \notin {"BOOT", "SEAL", "RUN"} => run = <<>>
  /\ Booted /\ (Lead("IWDG", 3) \/ Lead("FAULT", 3)) => s_limp

LEMMA NoLead ==
  ASSUME run = <<>>, NEW w, NEW n \in 1..3
  PROVE  ~Lead(w, n)
<1>1. Len(run) = 0
  OBVIOUS
<1> QED
  BY <1>1 DEF Lead

LEMMA NoLeadAfter ==
  ASSUME run' = <<>>
  PROVE  \A n \in 1..3 : ~Lead("IWDG", n)' /\ ~Lead("FAULT", n)'
<1>1. Len(run') = 0
  OBVIOUS
<1> QED
  BY <1>1 DEF Lead

LEMMA InitCounted == Init => RunCounted
<1>1. Init => run = <<>> /\ pc = "BOOT"
  BY DEF Init
<1> QED
  BY <1>1, NoLead DEF RunCounted, Counts, Booted

\* One more failure by w: only w leads now, and it led by one less before.
LEMMA LeadGrows ==
  ASSUME Typed, NEW w \in Mechanisms, Failed(w), NEW v \in Mechanisms, NEW n \in 1..3, Lead(v, n)'
  PROVE  v = w /\ (n > 1 => Lead(w, n - 1) /\ run # <<>>)
<1>1. /\ Len(run') = Lesser(3, Len(run) + 1)
      /\ \A i \in 1..Lesser(3, Len(run) + 1) : run'[i] = IF i = 1 THEN w ELSE run[i - 1]
  BY FailedTyped
<1>2. Len(run) \in Nat
  BY LenProperties DEF Typed
<1>3. Len(run') >= n /\ \A i \in 1..n : run'[i] = v
  BY DEF Lead
<1>4. \A i \in 1..n : i \in 1..Lesser(3, Len(run) + 1)
  BY <1>1, <1>2, <1>3 DEF Lesser
<1>5. v = w
  <2>1. 1 \in 1..n
    OBVIOUS
  <2>2. run'[1] = v /\ run'[1] = w
    BY <1>1, <1>3, <1>4, <2>1
  <2> QED
    BY <2>2
<1>6. ASSUME n > 1
      PROVE  Lead(w, n - 1) /\ run # <<>>
  <2>1. Len(run) >= n - 1
    BY <1>1, <1>2, <1>3, <1>6 DEF Lesser
  <2>2. ASSUME NEW i \in 1..n - 1
        PROVE  run[i] = w
    <3>1. i + 1 \in 1..n /\ i + 1 # 1 /\ (i + 1) - 1 = i
      BY <1>6
    <3>2. run'[i + 1] = v /\ run'[i + 1] = run[(i + 1) - 1]
      BY <1>1, <1>3, <1>4, <3>1
    <3> QED
      BY <1>5, <3>1, <3>2
  <2>3. run # <<>>
    <3>1. Len(<<>>) = 0
      OBVIOUS
    <3> QED
      BY <1>2, <1>6, <2>1, <3>1
  <2> QED
    BY <2>1, <2>2, <2>3 DEF Lead
<1> QED
  BY <1>5, <1>6

LEMMA StepCounted ==
  ASSUME LimpStreak <= 3, Typed, RunCounted, [Next]_vars
  PROVE  RunCounted'
<1>1. Block(s_p)
  BY DEF Typed
<1>2. CASE Boot
  <2>1. /\ s_p'.iwdg_streak = WatchdogStreak(Trusted, cause)
        /\ s_p'.fault_streak = FaultStreak(Trusted, cause)
    BY <1>1, <1>2, TrustedBlock, BootBlock DEF Boot
  <2>2. pc = "BOOT" /\ pc' = "SEAL" /\ run' = run
    BY <1>2 DEF Boot, history
  <2> QED
    BY <2>1, <2>2 DEF RunCounted, Counts, Lead, Booted
<1>3. CASE BootSeal
  <2>1. /\ s_p' = Seal(s_p) /\ Sealed(s_p') /\ s_p'.iwdg_streak = s_p.iwdg_streak
        /\ s_p'.fault_streak = s_p.fault_streak
    BY <1>1, <1>3, SealBlock DEF BootSeal
  <2>2. pc = "SEAL" /\ pc' = "RUN" /\ run' = run /\ s_limp' = Limp(s_p)
    BY <1>3 DEF BootSeal, history
  <2>3. Counts(s_p.iwdg_streak, s_p.fault_streak)
    BY <2>2 DEF RunCounted
  <2>4. Lead("IWDG", 3) \/ Lead("FAULT", 3) => Limp(s_p)
    <3>1. s_p.iwdg_streak \in 0..StreakCap /\ s_p.fault_streak \in 0..StreakCap
      BY <1>1 DEF Block
    <3>2. /\ Lead("IWDG", 3) => s_p.iwdg_streak >= Lesser(3, StreakCap)
          /\ Lead("FAULT", 3) => s_p.fault_streak >= Lesser(3, StreakCap)
      BY <2>3 DEF Counts
    <3>3. Lesser(3, StreakCap) >= LimpStreak /\ Lesser(3, StreakCap) \in Nat
      BY DEF Lesser
    <3> HIDE DEF Lead
    <3> QED
      BY <3>1, <3>2, <3>3 DEF Limp
  <2> QED
    BY <2>1, <2>2, <2>3, <2>4 DEF RunCounted, Counts, Lead
<1>4. CASE Healthy
  <2>1. run' = <<>> /\ pc' # "BOOT"
    BY <1>4 DEF Healthy
  <2>2. \A n \in 1..3 : ~Lead("IWDG", n)' /\ ~Lead("FAULT", n)'
    BY <2>1, NoLeadAfter
  <2> QED
    BY <2>1, <2>2 DEF RunCounted, Counts
<1>5. CASE ClearIwdg \/ ClearFault \/ WalkHeader \/ WalkRing \/ StoreSeal
  <2>1. pc \notin {"BOOT", "SEAL", "RUN"} /\ pc' # "BOOT" /\ run' = run
    BY <1>5 DEF ClearIwdg, ClearFault, WalkHeader, WalkRing, ClearStep, StoreSeal, history
  <2>2. run' = <<>>
    BY <2>1 DEF RunCounted
  <2>3. \A n \in 1..3 : ~Lead("IWDG", n)' /\ ~Lead("FAULT", n)'
    BY <2>2, NoLeadAfter
  <2> QED
    BY <2>1, <2>2, <2>3 DEF RunCounted, Counts
<1>6. CASE BrownOut
  <2>1. /\ s_p'.iwdg_streak = s_p.iwdg_streak /\ s_p'.fault_streak = s_p.fault_streak
        /\ Sealed(s_p')
    <3>1. CASE s_events = 0
      <4>1. "BROWNOUT" \in Kinds /\ s_p.next_seq < MaxSeq /\ s_p' = Record(s_p, "BROWNOUT")
        BY <1>6, <3>1 DEF BrownOut, Kinds
      <4> QED
        BY <1>1, <4>1, RecordBlock
    <3>2. CASE s_events # 0
      BY <1>1, <1>6, <3>2, SealBlock DEF BrownOut
    <3> QED
      BY <3>1, <3>2
  <2>2. pc' = pc /\ pc # "BOOT" /\ run' = run /\ s_limp' = s_limp
    BY <1>6 DEF BrownOut, boot
  <2> QED
    BY <2>1, <2>2 DEF RunCounted, Counts, Lead, Booted
<1>7. CASE FaultReset
  <2>1. "FAULT" \in Kinds /\ s_p.next_seq < MaxSeq /\ s_p' = Record(s_p, "FAULT")
    BY <1>7 DEF FaultReset, Kinds
  <2>2. /\ Sealed(s_p)' /\ s_p'.fault_streak = s_p.fault_streak
        /\ s_p'.next_seq # s_p'.seq_at_boot /\ Block(s_p)'
    <3>1. /\ Sealed(s_p') /\ s_p'.fault_streak = s_p.fault_streak /\ Block(s_p')
          /\ s_p'.next_seq = s_p.next_seq + 1 /\ s_p'.seq_at_boot = s_p.seq_at_boot
      BY <1>1, <2>1, RecordBlock
    <3>2. s_p.next_seq \in Nat /\ s_p.seq_at_boot \in 1..s_p.next_seq
      BY <1>1 DEF Block
    <3>3. s_p'.next_seq # s_p'.seq_at_boot
      BY <3>1, <3>2
    <3> QED
      BY <3>1, <3>3
  <2>3. Trusted' = s_p'
    BY <2>2 DEF Trusted, Sealed
  <2>4. /\ pc' = "BOOT" /\ "SOFTWARE" \in cause' /\ pc # "BOOT" /\ Failed("FAULT")
    BY <1>7 DEF FaultReset, Rebooted
  <2>5. FaultStreak(Trusted, cause)' = Lesser(s_p.fault_streak + 1, StreakCap)
    BY <2>2, <2>3, <2>4 DEF FaultStreak
  <2>6. ASSUME NEW n \in 1..3
        PROVE  /\ ~Lead("IWDG", n)'
               /\ Lead("FAULT", n)' => Lesser(s_p.fault_streak + 1, StreakCap) >= Lesser(n, StreakCap)
    <3>1. "FAULT" \in Mechanisms /\ "IWDG" \in Mechanisms
      BY DEF Mechanisms
    <3>2. ~Lead("IWDG", n)'
      BY <2>4, <3>1, LeadGrows
    <3>3. Lead("FAULT", n)' => (n > 1 => Lead("FAULT", n - 1))
      BY <2>4, <3>1, LeadGrows
    <3>4. n > 1 => n - 1 \in 1..3
      OBVIOUS
    <3>5. n > 1 /\ Lead("FAULT", n - 1) => s_p.fault_streak >= Lesser(n - 1, StreakCap)
      BY <2>4, <3>4 DEF RunCounted, Counts
    <3>6. s_p.fault_streak \in 0..StreakCap
      BY <1>1 DEF Block
    <3>7. CASE n = 1
      BY <3>2, <3>6, <3>7 DEF Lesser
    <3>8. CASE n > 1 /\ Lead("FAULT", n)'
      <4>1. s_p.fault_streak >= Lesser(n - 1, StreakCap)
        BY <3>3, <3>5, <3>8
      <4> QED
        BY <3>2, <3>6, <3>8, <4>1 DEF Lesser
    <3> QED
      BY <3>2, <3>7, <3>8
  <2>7. Trusted'.next_seq # Trusted'.seq_at_boot /\ ~Lead("IWDG", 1)'
    BY <2>2, <2>3, <2>6
  <2> QED
    BY <2>4, <2>5, <2>6, <2>7 DEF RunCounted, Counts, Booted
<1>8. CASE WatchdogReset
  <2>1. PICK pin \in SUBSET {"PIN"} : Rebooted({"IWDG"} \cup pin)
    BY <1>8 DEF WatchdogReset
  <2>2. /\ pc' = "BOOT" /\ "IWDG" \in cause' /\ pc \notin {"BOOT", "SEAL"} /\ Failed("IWDG")
        /\ s_p' = s_p
    BY <1>8, <2>1 DEF WatchdogReset, Rebooted
  <2>3. Trusted' = Trusted
    BY <2>2 DEF Trusted
  <2>4. WatchdogStreak(Trusted, cause)' = Lesser(Trusted.iwdg_streak + 1, StreakCap)
    BY <2>2, <2>3 DEF WatchdogStreak
  <2>5. ASSUME NEW n \in 1..3
        PROVE  /\ ~Lead("FAULT", n)'
               /\ Lead("IWDG", n)' => Lesser(Trusted.iwdg_streak + 1, StreakCap) >= Lesser(n, StreakCap)
    <3>1. "FAULT" \in Mechanisms /\ "IWDG" \in Mechanisms
      BY DEF Mechanisms
    <3>2. ~Lead("FAULT", n)'
      BY <2>2, <3>1, LeadGrows
    <3>3. Lead("IWDG", n)' => (n > 1 => Lead("IWDG", n - 1) /\ run # <<>>)
      BY <2>2, <3>1, LeadGrows
    <3>4. Trusted.iwdg_streak \in 0..StreakCap
      BY <1>1, TrustedBlock DEF Block
    <3>5. CASE n = 1
      BY <3>2, <3>4, <3>5 DEF Lesser
    <3>6. CASE n > 1 /\ Lead("IWDG", n)'
      <4>1. Lead("IWDG", n - 1) /\ run # <<>>
        BY <3>3, <3>6
      <4>2. Trusted = s_p
        BY <1>1, <2>2, <4>1, TrustedBlock DEF RunCounted
      <4>3. n - 1 \in 1..3
        BY <3>6
      <4>4. s_p.iwdg_streak >= Lesser(n - 1, StreakCap)
        BY <2>2, <4>1, <4>3 DEF RunCounted, Counts
      <4> QED
        BY <3>2, <3>4, <3>6, <4>2, <4>4 DEF Lesser
    <3> QED
      BY <3>2, <3>5, <3>6
  <2>6. ~Lead("FAULT", 1)'
    BY <2>5
  <2> QED
    BY <2>2, <2>4, <2>5, <2>6 DEF RunCounted, Counts, Booted
<1>9. CASE OperatorReset
  <2>1. pc' = "BOOT" /\ cause' \cap {"POR", "PIN"} # {}
    BY <1>9, OperatorFlags
  <2>2. CASE run' = <<>>
    <3>1. \A n \in 1..3 : ~Lead("IWDG", n)' /\ ~Lead("FAULT", n)'
      BY <2>2, NoLeadAfter
    <3>2. 1 \in 1..3
      OBVIOUS
    <3> QED
      BY <2>1, <2>2, <3>1, <3>2 DEF RunCounted, Counts, Booted
  <2>3. CASE pc = "BOOT" /\ cause' = cause \cup {"PIN"} /\ UNCHANGED <<s_p, run>>
    <3>1. Trusted' = Trusted
      BY <2>3 DEF Trusted
    <3>2. \A w \in Mechanisms, n \in 1..3 : Lead(w, n)' = Lead(w, n) /\ (Lead(w, n) => Lead(w, 1))
      BY <2>3 DEF Lead
    <3>3. /\ Lead("IWDG", 1) => WatchdogStreak(Trusted, cause)' = WatchdogStreak(Trusted, cause)
          /\ Lead("FAULT", 1) => FaultStreak(Trusted, cause)' = FaultStreak(Trusted, cause)
      BY <2>3, <3>1 DEF RunCounted, WatchdogStreak, FaultStreak
    <3>4. Counts(WatchdogStreak(Trusted, cause), FaultStreak(Trusted, cause))'
      BY <2>3, <3>2, <3>3 DEF RunCounted, Counts, Mechanisms
    <3> QED
      BY <2>1, <2>3, <3>1, <3>2, <3>4 DEF RunCounted, Mechanisms, Booted
  <2> QED
    BY <1>9, <2>2, <2>3, OperatorFlags
<1>10. CASE UNCHANGED vars
  BY <1>10 DEF vars, boot, history, RunCounted, Counts, Lead, Booted, Trusted, Sealed
<1> QED
  BY <1>2, <1>3, <1>4, <1>5, <1>6, <1>7, <1>8, <1>9, <1>10 DEF Next

\* Three failure boots in a row by one mechanism park the boot, for every ring, cap and limit
\* up to three: neither brown-outs, nor the point of the clearing at which a reset falls, nor
\* the other mechanism's streak can keep the controller resetting for ever.
THEOREM RepeatedFailureParks ==
  ASSUME LimpStreak <= 3
  PROVE  Spec => []RepeatParks
<1>1. Typed /\ RunCounted => RepeatParks
  <2> SUFFICES ASSUME RunCounted, Booted, NEW w \in {"IWDG", "FAULT"}, run = <<w, w, w>>
               PROVE  s_limp
    BY DEF RepeatParks
  <2>1. Len(run) = 3 /\ run[1] = w /\ run[2] = w /\ run[3] = w
    OBVIOUS
  <2>2. Lead(w, 3)
    BY <2>1 DEF Lead
  <2> QED
    BY <2>2 DEF RunCounted
<1>2. Spec => []RunCounted
  BY InitCounted, StepCounted, AlwaysTyped, PTL DEF Spec
<1> QED
  BY <1>1, <1>2, AlwaysTyped, PTL

-----------------------------------------------------------------------------
(* The configuration store: ConfigStore *)

\* What the theorems need of the constants: the assumption, and slots that answer at boot.
Answering == StoreAssumption /\ BootReads \subseteq {0}

-----------------------------------------------------------------------------
(* Generations *)

LEMMA GenerationFacts ==
  ASSUME Answering, NEW g \in Generation
  PROVE  /\ NextGen(g) \in Generation /\ NextGen(g) # g
         /\ Newer(NextGen(g), g) /\ ~Newer(g, NextGen(g))
         /\ NextGen(NextGen(g)) # g
<1>1. GenHalf \in Nat /\ GenHalf >= 2
  BY DEF Answering, StoreAssumption
<1>2. g \in 0..(2 * GenHalf - 1)
  BY DEF Generation
<1>3. CASE g = 2 * GenHalf - 1
  <2>1. NextGen(g) = 0 /\ NextGen(0) = 1
    BY <1>1, <1>3 DEF NextGen
  <2>2. Newer(0, g) /\ ~Newer(g, 0)
    BY <1>1, <1>3 DEF Newer
  <2> QED
    BY <1>1, <1>3, <2>1, <2>2 DEF Generation
<1>4. CASE g # 2 * GenHalf - 1
  <2>1. NextGen(g) = g + 1 /\ g + 1 \in 0..(2 * GenHalf - 1)
    BY <1>1, <1>2, <1>4 DEF NextGen
  <2>2. Newer(g + 1, g) /\ ~Newer(g, g + 1)
    BY <1>1, <1>2, <2>1 DEF Newer
  <2>3. NextGen(g + 1) # g
    BY <1>1, <1>2, <2>1 DEF NextGen
  <2> QED
    BY <1>1, <1>2, <2>1, <2>2, <2>3 DEF Generation
<1> QED
  BY <1>3, <1>4

-----------------------------------------------------------------------------
(* The slots *)

Holds(s, r) == \A p \in PageNo : eeprom[s][p] = r
LiveRecord == [gen |-> generation, cfg |-> s_cfg]

\* What the pages of the standby slot may hold: nothing, pages of the record before the live
\* one, or pages of saves that have not been acknowledged.
Standing(x) ==
  \/ x = Torn
  \/ x \in SlotRecord /\ (x.gen = NextGen(generation) \/ NextGen(x.gen) = generation)

StoreTyped ==
  /\ eeprom \in [StoreSlots -> [PageNo -> SlotRecord \cup {Torn}]]
  /\ generation \in Generation /\ live_slot \in StoreSlots
  /\ s_store_status \in {"OK", "EMPTY", "IO"} /\ s_cfg \in Configs \cup {Defaults}
  /\ save \in {"BOOT", "IDLE", "WRITE", "VERIFY"} /\ page \in PageNo
  /\ asked \in Configs \cup {Defaults} /\ (save \in {"WRITE", "VERIFY"} => asked \in Configs)

\* Either the live slot holds the record that runs, or nothing was ever saved.
Live  == s_store_status = "OK" /\ s_cfg \in Configs /\ Holds(live_slot, LiveRecord)
Empty == /\ s_store_status = "EMPTY" /\ s_cfg = Defaults /\ generation = 0 /\ live_slot = 1
         /\ Holds(1, Torn)
         /\ \A p \in PageNo : eeprom[0][p] = Torn \/ eeprom[0][p].gen = NextGen(0)

Kept ==
  /\ StoreTyped /\ (Live \/ Empty)
  /\ \A p \in PageNo : Standing(eeprom[Standby][p])

LEMMA PagesFacts ==
  ASSUME Answering
  PROVE  /\ 1 \in PageNo /\ Torn \notin SlotRecord /\ Defaults \notin Configs
         /\ Pages \in Nat /\ Pages >= 1
BY DEF Answering, StoreAssumption, PageNo, Torn, SlotRecord, Generation

\* A slot is valid when all its pages are those of its first.
LEMMA ValidReads ==
  ASSUME Answering, NEW s \in StoreSlots
  PROVE  /\ Valid(s) <=> Read(s) \in SlotRecord /\ Holds(s, Read(s))
         /\ \A r : Holds(s, r) => Read(s) = r
BY PagesFacts DEF Valid, Read, Holds

\* The unacknowledged save has landed: every page of the standby slot is of one newer record.
Landed == Valid(Standby) /\ Read(Standby).gen = NextGen(generation)

LEMMA SlotFacts ==
  ASSUME Kept
  PROVE  /\ Standby \in StoreSlots /\ live_slot \in StoreSlots /\ Standby # live_slot
         /\ StoreSlots = {Standby, live_slot}
         /\ \/ live_slot = 0 /\ Standby = 1
            \/ live_slot = 1 /\ Standby = 0
<1>1. live_slot \in 0..1
  BY DEF Kept, StoreTyped, StoreSlots
<1>2. live_slot = 0 \/ live_slot = 1
  BY <1>1
<1>3. CASE live_slot = 0
  <2>1. Standby = 1 /\ StoreSlots = {0, 1}
    BY <1>3 DEF Standby, StoreSlots
  <2> QED
    BY <1>3, <2>1
<1>4. CASE live_slot = 1
  <2>1. Standby = 0 /\ StoreSlots = {0, 1}
    BY <1>4 DEF Standby, StoreSlots
  <2> QED
    BY <1>4, <2>1
<1> QED
  BY <1>2, <1>3, <1>4

\* In a valid standby slot stands one record, newer than the live one or the one before it.
LEMMA StandingRecord ==
  ASSUME Answering, Kept, Valid(Standby)
  PROVE  /\ Read(Standby) \in SlotRecord
         /\ Read(Standby).gen = NextGen(generation) \/ NextGen(Read(Standby).gen) = generation
<1>1. Read(Standby) \in SlotRecord
  BY SlotFacts, ValidReads
<1>2. Standing(Read(Standby))
  BY PagesFacts DEF Kept, Read
<1> QED
  BY <1>1, <1>2, PagesFacts DEF Standing

LEMMA LiveReads ==
  ASSUME Answering, Kept, Live
  PROVE  Valid(live_slot) /\ Read(live_slot) = LiveRecord /\ LiveRecord \in SlotRecord
<1>1. LiveRecord \in SlotRecord
  BY DEF LiveRecord, SlotRecord, Live, Kept, StoreTyped
<1>2. Holds(live_slot, LiveRecord)
  BY DEF Live
<1>3. Read(live_slot) = LiveRecord
  BY <1>2, SlotFacts, ValidReads
<1> QED
  BY <1>1, <1>2, <1>3, SlotFacts, ValidReads

-----------------------------------------------------------------------------
(* The winner *)

\* A valid slot beside an older one, or beside none, wins; the other does not.
LEMMA BestWins ==
  ASSUME NEW b \in StoreSlots, NEW o \in StoreSlots, b # o, StoreSlots = {b, o}, Valid(b),
         Valid(o) => /\ Newer(Read(b).gen, Read(o).gen) /\ ~Newer(Read(o).gen, Read(b).gen)
  PROVE  Winner(StoreSlots) = {b}
<1>1. b \in Winner(StoreSlots)
  BY DEF Winner
<1>2. o \notin Winner(StoreSlots)
  <2>1. CASE Valid(o)
    <3>1. b \in StoreSlots \ {o}
      OBVIOUS
    <3>2. ~(IF b < o THEN Newer(Read(o).gen, Read(b).gen) ELSE ~Newer(Read(b).gen, Read(o).gen))
      BY <2>1
    <3> QED
      BY <3>1, <3>2 DEF Winner
  <2>2. CASE ~Valid(o)
    BY <2>2 DEF Winner
  <2> QED
    BY <2>1, <2>2
<1>3. Winner(StoreSlots) \subseteq StoreSlots
  BY DEF Winner
<1> QED
  BY <1>1, <1>2, <1>3

LEMMA WinnerIs ==
  ASSUME Answering, Kept
  PROVE  /\ Landed => Winner(StoreSlots) = {Standby}
         /\ ~Landed /\ Live => Winner(StoreSlots) = {live_slot}
         /\ ~Landed /\ Empty => Winner(StoreSlots) = {}
<1>1. generation \in Generation
  BY DEF Kept, StoreTyped
<1>2. CASE Live
  <2>1. Valid(live_slot) /\ Read(live_slot).gen = generation
    BY <1>2, LiveReads DEF LiveRecord
  <2>2. CASE Landed
    <3>1. Valid(Standby) /\ Read(Standby).gen = NextGen(generation)
      BY <2>2 DEF Landed
    <3>2. /\ Newer(Read(Standby).gen, Read(live_slot).gen)
          /\ ~Newer(Read(live_slot).gen, Read(Standby).gen)
      BY <1>1, <2>1, <3>1, GenerationFacts
    <3> QED
      BY <2>2, <3>1, <3>2, SlotFacts, BestWins
  <2>3. CASE ~Landed
    <3>1. ASSUME Valid(Standby)
          PROVE  /\ Newer(Read(live_slot).gen, Read(Standby).gen)
                 /\ ~Newer(Read(Standby).gen, Read(live_slot).gen)
      <4>1. NextGen(Read(Standby).gen) = generation /\ Read(Standby) \in SlotRecord
        BY <2>3, <3>1, StandingRecord DEF Landed
      <4>2. Read(Standby).gen \in Generation
        BY <4>1 DEF SlotRecord
      <4> QED
        BY <2>1, <4>1, <4>2, GenerationFacts
    <3> HIDE DEF Landed
    <3> QED
      BY <1>2, <2>1, <2>3, <3>1, SlotFacts, BestWins DEF Live, Empty
  <2> QED
    BY <1>2, <2>2, <2>3 DEF Live, Empty
<1>3. CASE Empty
  <2>1. live_slot = 1 /\ Standby = 0 /\ StoreSlots = {0, 1} /\ generation = 0
    BY <1>3, SlotFacts DEF Empty
  <2>2. ~Valid(1)
    <3>1. Read(1) = Torn
      BY <1>3, <2>1, ValidReads DEF Empty
    <3> QED
      BY <2>1, <3>1, ValidReads, PagesFacts
  <2>3. Valid(0) => Landed
    <3> SUFFICES ASSUME Valid(0)
                 PROVE  Read(0).gen = NextGen(0)
      BY <2>1 DEF Landed
    <3>1. Read(0) # Torn
      BY <2>1, ValidReads, PagesFacts
    <3> QED
      BY <1>3, <3>1, PagesFacts DEF Empty, Read
  <2>4. CASE Landed
    <3>1. Valid(0) /\ 0 \in StoreSlots /\ 1 \in StoreSlots
      BY <2>1, <2>4 DEF Landed
    <3>2. Winner(StoreSlots) = {0}
      BY <2>1, <2>2, <3>1, BestWins
    <3> QED
      BY <2>1, <2>4, <3>2
  <2>5. CASE ~Landed
    <3>1. ~Valid(0)
      BY <2>3, <2>5
    <3>2. Winner(StoreSlots) = {}
      BY <2>1, <2>2, <3>1 DEF Winner
    <3> QED
      BY <1>3, <2>5, <3>2 DEF Live, Empty
  <2> QED
    BY <2>4, <2>5
<1> QED
  BY <1>2, <1>3 DEF Kept

\* What a boot would run on: a save that has landed, or else what runs.
LEMMA DurableIs ==
  ASSUME Answering, Kept
  PROVE  Durable = IF Landed THEN Read(Standby).cfg ELSE s_cfg
<1>1. CASE Landed
  <2>1. Winner(StoreSlots) = {Standby}
    BY <1>1, WinnerIs
  <2>2. (CHOOSE s \in Winner(StoreSlots) : TRUE) = Standby
    BY <2>1
  <2> QED
    BY <1>1, <2>1, <2>2 DEF Durable
<1>2. CASE ~Landed /\ Live
  <2>1. Winner(StoreSlots) = {live_slot}
    BY <1>2, WinnerIs
  <2>2. (CHOOSE s \in Winner(StoreSlots) : TRUE) = live_slot
    BY <2>1
  <2>3. Read(live_slot).cfg = s_cfg
    BY <1>2, LiveReads DEF LiveRecord
  <2> QED
    BY <1>2, <2>1, <2>2, <2>3 DEF Durable
<1>3. CASE ~Landed /\ Empty
  <2>1. Winner(StoreSlots) = {} /\ s_cfg = Defaults
    BY <1>3, WinnerIs DEF Empty
  <2> QED
    BY <1>3, <2>1 DEF Durable
<1> QED
  BY <1>1, <1>2, <1>3 DEF Kept

-----------------------------------------------------------------------------
(* The steps *)

LEMMA InitKept ==
  ASSUME Answering, StoreInit
  PROVE  Kept
<1>1. /\ eeprom = [s \in StoreSlots |-> [p \in PageNo |-> Torn]] /\ generation = 0 /\ live_slot = 1
      /\ s_store_status = "EMPTY" /\ s_cfg = Defaults /\ save = "BOOT" /\ page = 1 /\ asked = Defaults
  BY DEF StoreInit
<1>2. Standby = 0 /\ 0 \in StoreSlots /\ 1 \in StoreSlots
  BY <1>1 DEF Standby, StoreSlots
<1>3. 0 \in Generation
  BY DEF Answering, StoreAssumption, Generation
<1>4. StoreTyped
  BY <1>1, <1>2, <1>3, PagesFacts DEF StoreTyped
<1>5. \A p \in PageNo : eeprom[0][p] = Torn /\ eeprom[1][p] = Torn
  BY <1>1, <1>2
<1>6. Empty
  BY <1>1, <1>5 DEF Empty, Holds
<1> QED
  BY <1>2, <1>4, <1>5, <1>6 DEF Kept, Standing

\* Programming a page of the standby slot, with something that may stand there, leaves the
\* live record alone.
LEMMA ProgramKeeps ==
  ASSUME Answering, Kept, NEW x, x \in SlotRecord \cup {Torn}, x = Torn \/ x.gen = NextGen(generation),
         Program(x) \/ UNCHANGED eeprom,
         UNCHANGED <<generation, live_slot, s_store_status, s_cfg>>
  PROVE  /\ eeprom' \in [StoreSlots -> [PageNo -> SlotRecord \cup {Torn}]]
         /\ Live' \/ Empty'
         /\ \A p \in PageNo : Standing(eeprom[Standby][p])'
<1>1. /\ eeprom \in [StoreSlots -> [PageNo -> SlotRecord \cup {Torn}]] /\ page \in PageNo
      /\ \A p \in PageNo : Standing(eeprom[Standby][p])
  BY DEF Kept, StoreTyped
<1>2. Standby \in StoreSlots /\ live_slot \in StoreSlots /\ Standby # live_slot /\ Standby' = Standby
  BY SlotFacts DEF Standby
<1>3. eeprom' \in [StoreSlots -> [PageNo -> SlotRecord \cup {Torn}]]
  BY <1>1, <1>2 DEF Program
<1>4. /\ \A p \in PageNo : eeprom'[live_slot][p] = eeprom[live_slot][p]
      /\ \A p \in PageNo : eeprom'[Standby][p] = x \/ eeprom'[Standby][p] = eeprom[Standby][p]
  BY <1>1, <1>2 DEF Program
<1>5. Standing(x)
  BY DEF Standing
<1>6. ASSUME NEW p \in PageNo
      PROVE  Standing(eeprom[Standby][p])'
  <2>1. Standing(eeprom'[Standby][p])
    BY <1>1, <1>4, <1>5
  <2> QED
    BY <1>2, <2>1 DEF Standing
<1>7. Live => Live'
  BY <1>4 DEF Live, Holds, LiveRecord
<1>8. Empty => Empty'
  <2> SUFFICES ASSUME Empty
               PROVE  Empty'
    OBVIOUS
  <2>1. live_slot = 1 /\ Standby = 0 /\ generation = 0
    BY SlotFacts DEF Empty
  <2>2. \A p \in PageNo : eeprom'[1][p] = Torn
    BY <1>4, <2>1 DEF Empty, Holds
  <2>3. \A p \in PageNo : eeprom'[0][p] = Torn \/ eeprom'[0][p].gen = NextGen(0)
    BY <1>4, <2>1 DEF Empty
  <2> QED
    BY <2>1, <2>2, <2>3 DEF Empty, Holds
<1> QED
  BY <1>3, <1>6, <1>7, <1>8 DEF Kept

\* The record of a save may stand in the standby slot.
LEMMA SavingStands ==
  ASSUME Answering, Kept, save \in {"WRITE", "VERIFY"}
  PROVE  Saving \in SlotRecord /\ Saving.gen = NextGen(generation) /\ Saving.cfg = asked
BY GenerationFacts DEF Kept, StoreTyped, Saving, SlotRecord

\* A landed record takes over: it becomes the live one, and the live one stands by.
LEMMA TakeOver ==
  ASSUME Answering, Kept, Landed, UNCHANGED eeprom,
         generation' = Read(Standby).gen, live_slot' = Standby, s_cfg' = Read(Standby).cfg,
         s_store_status' = "OK"
  PROVE  /\ Live' /\ generation' \in Generation /\ live_slot' \in StoreSlots
         /\ \A p \in PageNo : Standing(eeprom[Standby][p])'
<1>1. Read(Standby) \in SlotRecord /\ Holds(Standby, Read(Standby))
  BY SlotFacts, ValidReads DEF Landed
<1>2. generation' \in Generation /\ s_cfg' \in Configs /\ generation' = NextGen(generation)
  BY <1>1 DEF SlotRecord, Landed
<1>3. Read(Standby) = [gen |-> generation', cfg |-> s_cfg']
  BY <1>1 DEF SlotRecord
<1>4. Live'
  BY <1>1, <1>2, <1>3 DEF Live, Holds, LiveRecord
<1>5. Standby' = live_slot
  BY SlotFacts DEF Standby
<1>6. ASSUME NEW p \in PageNo
      PROVE  Standing(eeprom[Standby][p])'
  <2>1. eeprom[live_slot][p] = Torn \/ (eeprom[live_slot][p] = LiveRecord /\ LiveRecord \in SlotRecord)
    <3>1. CASE Live
      BY <3>1, LiveReads DEF Live, Holds
    <3>2. CASE Empty
      BY <3>2 DEF Empty, Holds
    <3> QED
      BY <3>1, <3>2 DEF Kept
  <2>2. LiveRecord.gen = generation
    BY DEF LiveRecord
  <2>3. eeprom'[Standby'][p] = eeprom[live_slot][p]
    BY <1>5
  <2> QED
    BY <1>2, <2>1, <2>2, <2>3 DEF Standing
<1> QED
  BY <1>2, <1>4, <1>6, SlotFacts

LEMMA NobodySilent ==
  ASSUME Answering, NEW silent \in SUBSET StoreSlots, Cardinality(silent) \in BootReads
  PROVE  silent = {} /\ StoreSlots \ silent = StoreSlots /\ silent # StoreSlots
<1>1. Cardinality(silent) = 0
  BY DEF Answering
<1>2. IsFiniteSet(StoreSlots)
  <2>1. IsFiniteSet({0} \cup {1})
    BY FS_Singleton, FS_AddElement
  <2>2. StoreSlots = {0} \cup {1}
    BY DEF StoreSlots
  <2> QED
    BY <2>1, <2>2
<1>3. IsFiniteSet(silent)
  BY <1>2, FS_Subset
<1>4. silent = {}
  BY <1>1, <1>3, FS_EmptySet
<1> QED
  BY <1>4 DEF StoreSlots

\* A boot changes nothing, or takes over what has landed; it runs on what is durable.
LEMMA BootKeeps ==
  ASSUME Answering, Kept, LoadAtBoot
  PROVE  Kept' /\ s_cfg' = Durable
<1>1. PICK silent \in SUBSET StoreSlots :
        /\ Cardinality(silent) \in BootReads
        /\ \/ /\ Winner(StoreSlots \ silent) = {}
              /\ generation' = 0 /\ live_slot' = 1 /\ s_cfg' = Defaults
              /\ s_store_status' = IF silent = StoreSlots THEN "IO" ELSE "EMPTY"
           \/ \E s \in Winner(StoreSlots \ silent) :
              /\ generation' = Read(s).gen /\ live_slot' = s /\ s_cfg' = Read(s).cfg
              /\ s_store_status' = "OK"
  BY DEF LoadAtBoot
<1>2. save' = "IDLE" /\ eeprom' = eeprom /\ page' = page /\ asked' = asked
  BY DEF LoadAtBoot
<1>3. StoreSlots \ silent = StoreSlots /\ silent # StoreSlots
  BY <1>1, NobodySilent
<1>4. /\ eeprom \in [StoreSlots -> [PageNo -> SlotRecord \cup {Torn}]] /\ page \in PageNo
      /\ asked \in Configs \cup {Defaults}
  BY DEF Kept, StoreTyped
<1>5. CASE Landed
  <2>1. Winner(StoreSlots) = {Standby}
    BY <1>5, WinnerIs
  <2>2. /\ generation' = Read(Standby).gen /\ live_slot' = Standby /\ s_cfg' = Read(Standby).cfg
        /\ s_store_status' = "OK"
    BY <1>1, <1>3, <2>1
  <2>3. /\ Live' /\ generation' \in Generation /\ live_slot' \in StoreSlots
        /\ \A p \in PageNo : Standing(eeprom[Standby][p])'
    BY <1>2, <1>5, <2>2, TakeOver
  <2>4. s_cfg' \in Configs
    BY <2>3 DEF Live
  <2>5. StoreTyped'
    BY <1>2, <1>4, <2>2, <2>3, <2>4 DEF StoreTyped
  <2>6. s_cfg' = Durable
    BY <1>5, <2>2, DurableIs
  <2> QED
    BY <2>3, <2>5, <2>6 DEF Kept
<1>6. CASE ~Landed /\ Live
  <2>1. Winner(StoreSlots) = {live_slot}
    BY <1>6, WinnerIs
  <2>2. /\ generation' = Read(live_slot).gen /\ live_slot' = live_slot
        /\ s_cfg' = Read(live_slot).cfg /\ s_store_status' = "OK"
    BY <1>1, <1>3, <2>1
  <2>3. generation' = generation /\ s_cfg' = s_cfg /\ s_store_status' = s_store_status
    BY <1>6, <2>2, LiveReads DEF LiveRecord, Live
  <2>4. StoreTyped'
    BY <1>2, <2>2, <2>3 DEF Kept, StoreTyped
  <2>5. (Live \/ Empty)' /\ \A p \in PageNo : Standing(eeprom[Standby][p])'
    BY <1>2, <2>2, <2>3 DEF Kept, Live, Empty, Holds, LiveRecord, Standing, Standby
  <2>6. s_cfg' = Durable
    BY <1>6, <2>3, DurableIs
  <2> QED
    BY <2>4, <2>5, <2>6 DEF Kept
<1>7. CASE ~Landed /\ Empty
  <2>1. Winner(StoreSlots) = {}
    BY <1>7, WinnerIs
  <2>2. generation' = 0 /\ live_slot' = 1 /\ s_cfg' = Defaults /\ s_store_status' = "EMPTY"
    BY <1>1, <1>3, <2>1
  <2>3. UNCHANGED <<generation, live_slot, s_cfg, s_store_status>>
    BY <1>7, <2>2 DEF Empty
  <2>4. StoreTyped'
    BY <1>2, <2>3 DEF Kept, StoreTyped
  <2>5. (Live \/ Empty)' /\ \A p \in PageNo : Standing(eeprom[Standby][p])'
    BY <1>2, <2>3 DEF Kept, Live, Empty, Holds, LiveRecord, Standing, Standby
  <2>6. s_cfg' = Durable
    BY <1>7, <2>3, DurableIs
  <2> QED
    BY <2>4, <2>5, <2>6 DEF Kept
<1> QED
  BY <1>5, <1>6, <1>7 DEF Kept

\* A commit takes over what has landed.
LEMMA CommitLands ==
  ASSUME Answering, Kept, Commit
  PROVE  Landed /\ Read(Standby) = Saving
<1>1. Holds(Standby, Saving) /\ save = "VERIFY"
  BY DEF Commit, ReadsBack, Holds
<1>2. Saving \in SlotRecord /\ Saving.gen = NextGen(generation)
  BY <1>1, SavingStands
<1>3. Read(Standby) = Saving
  BY <1>1, SlotFacts, ValidReads
<1> QED
  BY <1>1, <1>2, <1>3, SlotFacts, ValidReads DEF Landed

LEMMA StepKept ==
  ASSUME Answering, Kept, [StoreNext]_storeVars
  PROVE  Kept'
<1>1. StoreTyped
  BY DEF Kept
<1>2. CASE LoadAtBoot
  BY <1>2, BootKeeps
<1>3. ASSUME UNCHANGED <<eeprom, generation, live_slot, s_store_status, s_cfg>>,
             save' \in {"BOOT", "IDLE", "WRITE", "VERIFY"}, page' \in PageNo,
             asked' \in Configs \cup {Defaults}, save' \in {"WRITE", "VERIFY"} => asked' \in Configs
      PROVE  Kept'
  <2>1. StoreTyped'
    BY <1>1, <1>3 DEF StoreTyped
  <2>2. (Live \/ Empty)' /\ \A p \in PageNo : Standing(eeprom[Standby][p])'
    BY <1>3 DEF Kept, Live, Empty, Holds, LiveRecord, Standing, Standby
  <2> QED
    BY <2>1, <2>2 DEF Kept
<1>4. ASSUME NEW x, x \in SlotRecord \cup {Torn}, x = Torn \/ x.gen = NextGen(generation),
             Program(x) \/ UNCHANGED eeprom,
             UNCHANGED <<generation, live_slot, s_store_status, s_cfg, asked>>,
             save' \in {"BOOT", "IDLE", "WRITE", "VERIFY"}, page' \in PageNo, save = "WRITE"
      PROVE  Kept'
  <2>1. /\ eeprom' \in [StoreSlots -> [PageNo -> SlotRecord \cup {Torn}]]
        /\ Live' \/ Empty'
        /\ \A p \in PageNo : Standing(eeprom[Standby][p])'
    BY <1>4, ProgramKeeps
  <2>2. StoreTyped'
    BY <1>1, <1>4, <2>1 DEF StoreTyped
  <2> QED
    BY <2>1, <2>2 DEF Kept
<1>5. CASE BeginSave
  BY <1>1, <1>3, <1>5, PagesFacts DEF BeginSave
<1>6. CASE WritePage
  <2>1. save = "WRITE" /\ (Program(Saving) \/ UNCHANGED eeprom)
    BY <1>6 DEF WritePage
  <2>2. Saving \in SlotRecord /\ Saving.gen = NextGen(generation)
    BY <2>1, SavingStands
  <2>3. save' \in {"BOOT", "IDLE", "WRITE", "VERIFY"} /\ page' \in PageNo
    BY <1>1, <1>6, PagesFacts DEF WritePage, StoreTyped, PageNo
  <2>4. UNCHANGED <<generation, live_slot, s_store_status, s_cfg, asked>>
    BY <1>6 DEF WritePage
  <2> QED
    BY <1>4, <2>1, <2>2, <2>3, <2>4
<1>7. CASE WriteFails
  <2>1. save = "WRITE" /\ (Program(Saving) \/ UNCHANGED eeprom)
    BY <1>7 DEF WriteFails
  <2>2. Saving \in SlotRecord /\ Saving.gen = NextGen(generation)
    BY <2>1, SavingStands
  <2>3. save' \in {"BOOT", "IDLE", "WRITE", "VERIFY"} /\ page' \in PageNo
    BY <1>7, PagesFacts DEF WriteFails
  <2>4. UNCHANGED <<generation, live_slot, s_store_status, s_cfg, asked>>
    BY <1>7 DEF WriteFails
  <2> QED
    BY <1>4, <2>1, <2>2, <2>3, <2>4
<1>8. CASE VerifyFails
  BY <1>1, <1>3, <1>8 DEF VerifyFails, StoreTyped
<1>9. CASE Commit
  <2>1. /\ save' = "IDLE" /\ generation' = Saving.gen /\ live_slot' = Standby /\ s_cfg' = asked
        /\ s_store_status' = "OK" /\ UNCHANGED <<eeprom, page, asked>> /\ save = "VERIFY"
    BY <1>9 DEF Commit
  <2>2. Landed /\ Read(Standby) = Saving
    BY <1>9, CommitLands
  <2>3. Saving.cfg = asked
    BY DEF Saving
  <2>4. /\ Live' /\ generation' \in Generation /\ live_slot' \in StoreSlots
        /\ \A p \in PageNo : Standing(eeprom[Standby][p])'
    BY <2>1, <2>2, <2>3, TakeOver
  <2>5. StoreTyped'
    BY <1>1, <2>1, <2>4 DEF StoreTyped
  <2> QED
    BY <2>4, <2>5 DEF Kept
<1>10. CASE Crash
  <2>1. /\ save' = "BOOT" /\ page' = 1 /\ UNCHANGED <<generation, live_slot, s_store_status, s_cfg, asked>>
    BY <1>10 DEF Crash
  <2>2. CASE save = "WRITE" /\ Program(Torn)
    BY <1>4, <2>1, <2>2, PagesFacts
  <2>3. CASE UNCHANGED eeprom
    BY <1>1, <1>3, <2>1, <2>3, PagesFacts DEF StoreTyped
  <2> QED
    BY <1>10, <2>2, <2>3 DEF Crash
<1>11. CASE UNCHANGED storeVars
  BY <1>1, <1>3, <1>11 DEF storeVars, StoreTyped
<1> QED
  BY <1>2, <1>5, <1>6, <1>7, <1>8, <1>9, <1>10, <1>11 DEF StoreNext

-----------------------------------------------------------------------------
(* The theorems *)

LEMMA AlwaysKept ==
  ASSUME Answering
  PROVE  StoreSpec => []Kept
BY InitKept, StepKept, PTL DEF StoreSpec

\* Every variable keeps its type through saves, failures and power cuts; the pages of the part
\* never hold anything but records.
THEOREM StoreTypeCorrect ==
  ASSUME Answering
  PROVE  StoreSpec => []StoreTypeOK
<1>1. Kept => StoreTypeOK
  BY DEF Kept, StoreTyped, StoreTypeOK
<1> QED
  BY <1>1, AlwaysKept, PTL

\* At every instant of a save, the record that a power cut would leave is the one the
\* regulator runs on: the slot that is not being written holds it, whole.
THEOREM PowerCutIsSafe ==
  ASSUME Answering
  PROVE  StoreSpec => []PowerCutKeepsRecord
<1>1. Kept => PowerCutKeepsRecord
  <2> SUFFICES ASSUME Kept, s_store_status = "OK"
               PROVE  \E s \in StoreSlots \ {Standby} : Valid(s) /\ Read(s).cfg = s_cfg
    BY DEF PowerCutKeepsRecord
  <2>1. Live
    BY DEF Kept, Empty
  <2>2. Valid(live_slot) /\ Read(live_slot).cfg = s_cfg
    BY <2>1, LiveReads DEF LiveRecord
  <2>3. live_slot \in StoreSlots \ {Standby}
    BY SlotFacts
  <2> QED
    BY <2>2, <2>3
<1> QED
  BY <1>1, AlwaysKept, PTL

\* The slot a save overwrites is never the newest record, unless that record is an earlier
\* attempt at this very save: across every wrap of the generation counter.
THEOREM OlderIsOverwritten ==
  ASSUME Answering
  PROVE  StoreSpec => []StandbyIsOlder
<1>1. Kept => StandbyIsOlder
  <2> SUFFICES ASSUME Kept, Standby \in Winner(StoreSlots)
               PROVE  Read(Standby).gen = NextGen(generation)
    BY DEF StandbyIsOlder
  <2>1. CASE Landed
    BY <2>1 DEF Landed
  <2>2. CASE ~Landed
    <3>1. Winner(StoreSlots) = {live_slot} \/ Winner(StoreSlots) = {}
      BY <2>2, WinnerIs DEF Kept
    <3> QED
      BY <3>1, SlotFacts
  <2> QED
    BY <2>1, <2>2
<1> QED
  BY <1>1, AlwaysKept, PTL

\* After a commit the next boot runs on the configuration that was saved.
LEMMA CommitIsDurable ==
  ASSUME Answering, Kept, Commit
  PROVE  Durable = asked /\ Durable' = asked
<1>1. Landed /\ Read(Standby) = Saving /\ Saving.cfg = asked
  BY CommitLands DEF Saving
<1>2. Durable = asked
  BY <1>1, DurableIs
<1>3. UNCHANGED eeprom
  BY DEF Commit
<1>4. Durable' = Durable
  BY <1>3 DEF Durable, Winner, Read, Valid
<1> QED
  BY <1>2, <1>4

\* A save that was acknowledged is what the next boot finds.
THEOREM AcknowledgedIsDurable ==
  ASSUME Answering
  PROVE  StoreSpec => AckedSaveSurvives
<1>1. Kept => [Commit => Durable' = asked]_storeVars
  BY CommitIsDurable
<1> QED
  BY <1>1, AlwaysKept, PTL DEF StoreSpec, AckedSaveSurvives

-----------------------------------------------------------------------------
(* The store implements DurableConfig *)

\* What is durable, stated of every state.
Known == Durable = IF Landed THEN Read(Standby).cfg ELSE s_cfg

\* Programming a page lands the save, undoes an earlier one, or neither.
LEMMA ProgramLands ==
  ASSUME Answering, Kept, Known', NEW x, Program(x), x = Torn \/ x.cfg = asked,
         UNCHANGED <<generation, live_slot, s_cfg, asked>>
  PROVE  Durable' \in {asked, s_cfg} /\ (x = Torn => Durable' = s_cfg)
<1>1. Standby' = Standby /\ Standby \in StoreSlots /\ page \in PageNo
  BY SlotFacts DEF Standby, Kept, StoreTyped
<1>2. eeprom'[Standby][page] = x
  BY <1>1 DEF Program, Kept, StoreTyped
<1>3. ASSUME Landed'
      PROVE  x \in SlotRecord /\ Read(Standby)' = x
  <2>1. Valid(Standby)'
    BY <1>3 DEF Landed
  <2>2. PICK r \in SlotRecord : \A p \in PageNo : eeprom'[Standby][p] = r
    BY <1>1, <2>1 DEF Valid
  <2>3. r = x /\ eeprom'[Standby][1] = r
    BY <1>1, <1>2, <2>2, PagesFacts
  <2> QED
    BY <1>1, <2>3 DEF Read
<1>4. CASE Landed'
  <2>1. Durable' = x.cfg /\ x # Torn
    BY <1>3, <1>4, PagesFacts DEF Known
  <2> QED
    BY <2>1
<1>5. CASE ~Landed'
  <2>1. Durable' = s_cfg
    BY <1>5 DEF Known
  <2> QED
    BY <2>1
<1> QED
  BY <1>4, <1>5

\* As long as the pages stay, so does what a boot would find.
LEMMA PagesStay ==
  ASSUME UNCHANGED eeprom
  PROVE  Durable' = Durable
BY DEF Durable, Winner, Read, Valid

request == IF save \in {"WRITE", "VERIFY"} THEN asked ELSE Defaults

LEMMA InitRefines ==
  ASSUME Answering, StoreInit, Known
  PROVE  Promise!Init
<1>1. s_cfg = Defaults /\ save = "BOOT"
  BY DEF StoreInit
<1>2. ~Landed
  <2>1. Standby \in StoreSlots /\ Read(Standby) = Torn
    BY PagesFacts DEF StoreInit, Standby, StoreSlots, Read
  <2> QED
    BY <2>1, ValidReads, PagesFacts DEF Landed
<1>3. Durable = Defaults
  BY <1>1, <1>2 DEF Known
<1> QED
  BY <1>1, <1>3 DEF Promise!Init

LEMMA StepRefines ==
  ASSUME Answering, Kept, Known, Known', [StoreNext]_storeVars
  PROVE  [Promise!Next]_<<Durable, s_cfg, request>>
<1>1. asked \in Configs \cup {Defaults} /\ (save \in {"WRITE", "VERIFY"} => asked \in Configs)
  BY DEF Kept, StoreTyped
<1>2. CASE LoadAtBoot
  <2>1. s_cfg' = Durable /\ Durable' = Durable
    BY <1>2, BootKeeps, PagesStay DEF LoadAtBoot
  <2>2. request = Defaults /\ request' = Defaults
    BY <1>2 DEF LoadAtBoot, request
  <2> QED
    BY <2>1, <2>2 DEF Promise!Next, Promise!Load, request
<1>3. CASE BeginSave
  <2>1. Durable' = Durable /\ s_cfg' = s_cfg
    BY <1>3, PagesStay DEF BeginSave
  <2>2. request = Defaults /\ request' \in Configs
    BY <1>3 DEF BeginSave, request
  <2> QED
    BY <2>1, <2>2 DEF Promise!Next, Promise!Ask, request
<1>4. CASE WritePage
  <2>1. /\ save = "WRITE" /\ save' \in {"WRITE", "VERIFY"} /\ asked' = asked /\ s_cfg' = s_cfg
        /\ UNCHANGED <<generation, live_slot>>
    BY <1>4 DEF WritePage
  <2>2. request = asked /\ request' = asked /\ asked # Defaults
    BY <1>1, <2>1, PagesFacts DEF request
  <2>3. CASE Program(Saving)
    <3>1. Durable' \in {asked, s_cfg}
      BY <2>1, <2>3, ProgramLands DEF Saving
    <3> QED
      BY <2>1, <2>2, <3>1 DEF Promise!Next, Promise!Land, request
  <2>4. CASE UNCHANGED eeprom
    BY <2>1, <2>2, <2>4, PagesStay
  <2> QED
    BY <1>4, <2>3, <2>4 DEF WritePage
<1>5. CASE WriteFails
  <2>1. /\ save = "WRITE" /\ save' = "IDLE" /\ asked' = asked /\ s_cfg' = s_cfg
        /\ UNCHANGED <<generation, live_slot>>
    BY <1>5 DEF WriteFails
  <2>2. request = asked /\ request' = Defaults /\ asked # Defaults
    BY <1>1, <2>1, PagesFacts DEF request
  <2>3. CASE Program(Saving)
    <3>1. Durable' \in {asked, s_cfg}
      BY <2>1, <2>3, ProgramLands DEF Saving
    <3> QED
      BY <2>1, <2>2, <3>1 DEF Promise!Next, Promise!Land, request
  <2>4. CASE UNCHANGED eeprom
    <3>1. Durable' = Durable
      BY <2>4, PagesStay
    <3> QED
      BY <2>1, <2>2, <3>1 DEF Promise!Next, Promise!Fail, request
  <2> QED
    BY <1>5, <2>3, <2>4 DEF WriteFails
<1>6. CASE VerifyFails
  <2>1. Durable' = Durable /\ s_cfg' = s_cfg
    BY <1>6, PagesStay DEF VerifyFails
  <2>2. request = asked /\ request' = Defaults /\ asked # Defaults
    BY <1>1, <1>6, PagesFacts DEF VerifyFails, request
  <2> QED
    BY <2>1, <2>2 DEF Promise!Next, Promise!Fail, request
<1>7. CASE Commit
  <2>1. Durable = asked /\ Durable' = asked
    BY <1>7, CommitIsDurable
  <2>2. /\ request = asked /\ request' = Defaults /\ asked # Defaults /\ s_cfg' = asked
    BY <1>1, <1>7, PagesFacts DEF Commit, request
  <2> QED
    BY <2>1, <2>2 DEF Promise!Next, Promise!Acknowledge, request
<1>8. CASE Crash
  <2>1. /\ save # "BOOT" /\ save' = "BOOT" /\ asked' = asked /\ s_cfg' = s_cfg
        /\ UNCHANGED <<generation, live_slot>>
    BY <1>8 DEF Crash
  <2>2. request' = Defaults
    BY <2>1 DEF request
  <2>3. CASE save = "WRITE" /\ Program(Torn)
    <3>1. Durable' = s_cfg
      BY <2>1, <2>3, ProgramLands
    <3>2. request = asked /\ asked # Defaults
      BY <1>1, <2>3, PagesFacts DEF request
    <3> QED
      BY <2>1, <2>2, <3>1, <3>2 DEF Promise!Next, Promise!Land, request
  <2>4. CASE UNCHANGED eeprom
    <3>1. Durable' = Durable
      BY <2>4, PagesStay
    <3>2. CASE request = Defaults
      BY <2>1, <2>2, <3>1, <3>2
    <3>3. CASE request # Defaults
      BY <2>1, <2>2, <3>1, <3>3 DEF Promise!Next, Promise!Fail, request
    <3> QED
      BY <3>2, <3>3
  <2> QED
    BY <1>8, <2>3, <2>4 DEF Crash
<1>9. CASE UNCHANGED storeVars
  <2>1. Durable' = Durable
    BY <1>9, PagesStay DEF storeVars
  <2> QED
    BY <1>9, <2>1 DEF storeVars, request
<1> QED
  BY <1>2, <1>3, <1>4, <1>5, <1>6, <1>7, <1>8, <1>9 DEF StoreNext

\* Slots, pages and generations together are one durable configuration: whatever is cut off,
\* it only ever jumps to the one being saved, or back to the one that runs, and an
\* acknowledged save has landed.
THEOREM StoreIsDurableConfig ==
  ASSUME Answering
  PROVE  StoreSpec => PromiseSpec
<1>1. Kept => Known
  BY DurableIs DEF Known
<1>2. StoreInit => Promise!Init
  BY InitKept, <1>1, InitRefines
<1>3. Kept /\ Known /\ Known' /\ [StoreNext]_storeVars => [Promise!Next]_<<Durable, s_cfg, request>>
  BY StepRefines
<1> QED
  BY <1>1, <1>2, <1>3, AlwaysKept, PTL DEF StoreSpec, PromiseSpec, Promise!Spec, request
=============================================================================
