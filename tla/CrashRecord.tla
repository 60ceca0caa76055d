---------------------------- MODULE CrashRecord ----------------------------
(***************************************************************************)
(* The crash-record block in .noinit RAM (crash_record.c): reset causes,   *)
(* the two escalation streaks and the ring of records, across resets.  The *)
(* main thread boots and, after a healthy minute, clears the streaks; the  *)
(* fault handlers write a record and reset; the brown-out interrupt writes *)
(* one and returns to wherever main was, the CRC walk included.            *)
(*                                                                         *)
(* The CRC is represented by the contents it was computed over.  Counters  *)
(* that are only reported (boot_count, cause_count) and the contents of a  *)
(* record beyond its kind are left out.                                    *)
(***************************************************************************)
EXTENDS Integers, Sequences

CONSTANTS
  RingLen,      \* CRASH_RING_LEN
  LimpStreak,   \* CRASH_LIMP_STREAK
  StreakCap,    \* 255: where a streak stops counting
  MaxSeq        \* bound of the runs: records ever written

ASSUME ConstantsAssumption ==
  /\ RingLen \in Nat \ {0} /\ LimpStreak \in Nat \ {0}
  /\ StreakCap \in Nat /\ StreakCap >= LimpStreak /\ MaxSeq \in Nat \ {0}

VARIABLES
  s_p,          \* the block, its seal in s_p.crc
  cause,        \* the reset flags of the current boot
  pc,           \* main: "BOOT", "SEAL", "RUN" and the steps of crash_clear_streaks
  walk,         \* what the CRC walk of main has read so far
  s_limp,       \* the verdict of this boot, once watchdog_init has taken it
  s_streaks_cleared,  \* watchdog.c: the healthy minute has been declared
  s_events,     \* brown-outs in this boot: 0, 1, many (2)
  run,          \* history: mechanisms of the failure boots in a row, newest first
  failures,     \* history: failure boots since the streaks were last gone
  last          \* history: the newest record written while RAM kept its contents

vars == <<s_p, cause, pc, walk, s_limp, s_streaks_cleared, s_events, run, failures, last>>
boot == <<cause, s_limp, s_streaks_cleared>>
history == <<run, failures, last>>

Slots == 0..(RingLen - 1)
Kinds == {"FAULT", "BROWNOUT"}
None  == [seq |-> 0, kind |-> "NONE"]

Lesser(a, b) == IF a < b THEN a ELSE b
Take3(s) == SubSeq(s, 1, Lesser(3, Len(s)))

-----------------------------------------------------------------------------
(* The block *)

\* What the CRC is computed over, in the order of the walk: counters, then the ring.
Header(b) == <<b.next_seq, b.seq_at_boot, b.head, b.count, b.iwdg_streak, b.fault_streak>>
Digest(b) == <<Header(b), b.ring>>
Seal(b)   == [b EXCEPT !.crc = Digest(b)]

\* block_reset()
EmptyBlock ==
  Seal([next_seq |-> 1, seq_at_boot |-> 1, head |-> 0, count |-> 0,
        iwdg_streak |-> 0, fault_streak |-> 0, ring |-> [i \in Slots |-> None], crc |-> <<>>])

\* The body of crash_record_write(), without the seal.
AppendRecord(b, kind) ==
  [b EXCEPT !.ring = [@ EXCEPT ![b.head] = [seq |-> b.next_seq, kind |-> kind]],
            !.next_seq = @ + 1,
            !.head = (@ + 1) % RingLen,
            !.count = Lesser(@ + 1, RingLen)]

\* SLIP: the record is written, the seal forgotten.
RecordUnsealed(b, kind) == AppendRecord(b, kind)

\* crash_record_write()
Record(b, kind) == Seal(AppendRecord(b, kind))

\* crash_record_get(idx): 0 is the newest.
Get(b, idx) == b.ring[(b.head + RingLen - 1 - idx) % RingLen]

\* SLIP: the streaks take no notice of an operator reset.
StreaksKept(b, flags) ==
  [b EXCEPT
     !.iwdg_streak  = IF "IWDG" \in flags THEN Lesser(@ + 1, StreakCap) ELSE @,
     !.fault_streak = IF "SOFTWARE" \in flags /\ b.next_seq # b.seq_at_boot
                      THEN Lesser(@ + 1, StreakCap) ELSE @]

\* SLIP: a watchdog boot ends the watchdog streak too.
StreaksOnce(b, flags) ==
  [b EXCEPT
     !.iwdg_streak  = IF flags \cap {"POR", "PIN"} # {} THEN 0
                      ELSE IF "IWDG" \in flags THEN Lesser(@ + 1, StreakCap) ELSE @,
     !.fault_streak = IF "SOFTWARE" \in flags /\ b.next_seq # b.seq_at_boot
                      THEN Lesser(@ + 1, StreakCap)
                      ELSE IF flags \cap {"POR", "PIN"} # {} THEN 0 ELSE @]

\* The streaks of a boot: a mechanism's own boots count, an operator's clear.
Streaks(b, flags) ==
  [b EXCEPT
     !.iwdg_streak  = IF "IWDG" \in flags THEN Lesser(@ + 1, StreakCap)
                      ELSE IF flags \cap {"POR", "PIN"} # {} THEN 0 ELSE @,
     !.fault_streak = IF "SOFTWARE" \in flags /\ b.next_seq # b.seq_at_boot
                      THEN Lesser(@ + 1, StreakCap)
                      ELSE IF flags \cap {"POR", "PIN"} # {} THEN 0 ELSE @]

Limp(b) == b.iwdg_streak >= LimpStreak \/ b.fault_streak >= LimpStreak

-----------------------------------------------------------------------------
(* Resets.  Any internal reset may raise the pin flag beside its own. *)

\* RAM keeps its contents, or, when the supply was gone, decays: a count of records that
\* were never written stands for whatever it holds, and no seal fits.
Decayed == [EmptyBlock EXCEPT !.count = RingLen, !.iwdg_streak = LimpStreak, !.crc = <<>>]

Init ==
  /\ s_p = Decayed /\ cause = {"POR", "PIN"} /\ pc = "BOOT" /\ walk = <<>>
  /\ s_limp = FALSE /\ s_streaks_cleared = FALSE /\ s_events = 0
  /\ run = <<>> /\ failures = 0 /\ last = None

\* The flags are sticky until crash_record_boot has read them; only power-on clears them.
Rebooted(flags) ==
  /\ cause' = flags \cup (IF pc = "BOOT" /\ "POR" \notin flags THEN cause ELSE {})
  /\ pc' = "BOOT" /\ walk' = <<>>
  /\ s_limp' = FALSE /\ s_streaks_cleared' = FALSE /\ s_events' = 0

\* One more failure boot is about to happen.
Failed(mechanism) ==
  run' = Take3(<<mechanism>> \o run) /\ failures' = Lesser(failures + 1, 3)

\* fault_finish(), and the two entries without a frame: record, then reset.
FaultReset ==
  /\ pc # "BOOT" /\ s_p.next_seq < MaxSeq
  /\ s_p' = Record(s_p, "FAULT")
  /\ \E pin \in SUBSET {"PIN"} : Rebooted({"SOFTWARE"} \cup pin)
  /\ Failed("FAULT") /\ last' = [seq |-> s_p.next_seq, kind |-> "FAULT"]

WatchdogReset ==
  /\ pc \notin {"BOOT", "SEAL"}
  /\ \E pin \in SUBSET {"PIN"} : Rebooted({"IWDG"} \cup pin)
  /\ Failed("IWDG") /\ UNCHANGED <<s_p, last>>

\* The operator's pin.  Before the flags of a reset are read it looks like a part of it.
PinReset ==
  /\ Rebooted({"PIN"}) /\ UNCHANGED <<s_p, last>>
  /\ IF pc = "BOOT" THEN UNCHANGED <<run, failures>> ELSE run' = <<>> /\ failures' = 0

\* The supply, with or without the RAM.
PowerReset ==
  /\ \E pin \in SUBSET {"PIN"} : Rebooted({"POR"} \cup pin)
  /\ \/ UNCHANGED <<s_p, last>>
     \/ s_p' = Decayed /\ last' = None
  /\ run' = <<>> /\ failures' = 0

OperatorReset == PinReset \/ PowerReset

-----------------------------------------------------------------------------
(* The main thread *)

\* The block, started clean when its seal does not fit.
Trusted == IF s_p.crc = Digest(s_p) THEN s_p ELSE EmptyBlock

\* crash_record_boot() up to its flush.
Boot ==
  /\ pc = "BOOT" /\ pc' = "SEAL"
  /\ LET b == Streaks(Trusted, cause)
     IN  s_p' = [b EXCEPT !.seq_at_boot = b.next_seq]
  /\ UNCHANGED <<boot, walk, s_events, history>>

\* The flush; and, with the interrupts not yet enabled in between, watchdog_init's verdict.
BootSeal ==
  /\ pc = "SEAL" /\ pc' = "RUN"
  /\ s_p' = Seal(s_p) /\ s_limp' = Limp(s_p)
  /\ UNCHANGED <<cause, s_streaks_cleared, walk, s_events, history>>

\* The healthy minute: crash_clear_streaks() returns at once, or begins.
Healthy ==
  /\ pc = "RUN" /\ ~s_streaks_cleared
  /\ run' = <<>>
  /\ IF s_p.iwdg_streak = 0 /\ s_p.fault_streak = 0
       THEN s_streaks_cleared' = TRUE /\ pc' = pc /\ failures' = 0
       ELSE s_streaks_cleared' = FALSE /\ pc' = "CLEAR_IWDG" /\ UNCHANGED failures
  /\ UNCHANGED <<s_p, cause, walk, s_limp, s_events, last>>

ClearStep(from, to, block, read) ==
  /\ pc = from /\ pc' = to /\ s_p' = block /\ walk' = read
  /\ UNCHANGED <<boot, s_events, history>>

ClearIwdg  == ClearStep("CLEAR_IWDG", "CLEAR_FAULT", [s_p EXCEPT !.iwdg_streak = 0], walk)
ClearFault == ClearStep("CLEAR_FAULT", "WALK_HEADER", [s_p EXCEPT !.fault_streak = 0], walk)
WalkHeader == ClearStep("WALK_HEADER", "WALK_RING", s_p, <<Header(s_p)>>)
WalkRing   == ClearStep("WALK_RING", "STORE", s_p, walk \o <<s_p.ring>>)

\* The walk is over: its result is stored, and watchdog_service notes that it is done.
StoreSeal ==
  /\ pc = "STORE" /\ pc' = "RUN" /\ walk' = <<>>
  /\ s_p' = [s_p EXCEPT !.crc = walk]
  /\ s_streaks_cleared' = TRUE /\ failures' = 0
  /\ UNCHANGED <<cause, s_limp, s_events, run, last>>

\* PVD_VDDIO2_IRQHandler: the first dip of a boot writes a record, the others seal.
BrownOut ==
  /\ pc \notin {"BOOT", "SEAL"}
  /\ s_events' = Lesser(s_events + 1, 2)
  /\ IF s_events = 0
       THEN /\ s_p.next_seq < MaxSeq
            /\ s_p' = Record(s_p, "BROWNOUT")
            /\ last' = [seq |-> s_p.next_seq, kind |-> "BROWNOUT"]
       ELSE s_p' = Seal(s_p) /\ UNCHANGED last
  /\ UNCHANGED <<boot, pc, walk, run, failures>>

Next ==
  \/ Boot \/ BootSeal \/ Healthy
  \/ ClearIwdg \/ ClearFault \/ WalkHeader \/ WalkRing \/ StoreSeal
  \/ BrownOut \/ FaultReset \/ WatchdogReset \/ OperatorReset

Spec == Init /\ [][Next]_vars

-----------------------------------------------------------------------------
(* Properties *)

Booted == pc \notin {"BOOT", "SEAL"}

TypeOK ==
  /\ s_p.head \in Slots /\ s_p.count \in 0..RingLen
  /\ s_p.iwdg_streak \in 0..StreakCap /\ s_p.fault_streak \in 0..StreakCap
  /\ s_p.next_seq \in 1..MaxSeq /\ s_p.seq_at_boot \in 1..MaxSeq
  /\ s_p.ring \in [Slots -> [seq : 0..MaxSeq, kind : Kinds \cup {"NONE"}]]
  /\ cause \subseteq {"POR", "PIN", "SOFTWARE", "IWDG"}
  /\ s_limp \in BOOLEAN /\ s_streaks_cleared \in BOOLEAN /\ s_events \in 0..2
  /\ failures \in 0..3 /\ Len(run) <= 3

\* watchdog_init parks a boot only after as many failure boots without an operator's reset
\* or a completed healthy minute in between.
LimpIsEarned == [][(~s_limp /\ s_limp') => failures >= Lesser(LimpStreak, 3)]_vars

\* Three failure boots in a row by one mechanism park the boot, whatever brown-outs did to
\* the block and wherever in the clearing of the streaks the resets fell.
RepeatParks ==
  (Booted /\ Len(run) = 3 /\ \E w \in {"IWDG", "FAULT"} : run = <<w, w, w>>) => s_limp

\* A boot after a fault finds the record of that fault as the newest one.
FaultIsReadable ==
  (pc = "RUN" /\ "SOFTWARE" \in cause /\ s_events = 0) =>
    /\ s_p.count > 0 /\ Get(s_p, 0) = last

\* The ring hands out its records newest first, without a gap.
RingInOrder ==
  pc # "BOOT" =>
    \A i \in 0..(s_p.count - 1) : Get(s_p, i).seq = s_p.next_seq - 1 - i

\* What the concurrency comment says of a brown-out that interrupts the clearing of the
\* streaks: harmless.  When main is done the block is sealed.
SealedAtRest == pc = "RUN" => s_p.crc = Digest(s_p)
=============================================================================
