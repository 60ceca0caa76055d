---------------------------- MODULE PartsProofs -----------------------------
(***************************************************************************)
(* Theorems of the parts that MCParts instantiates, for every value of     *)
(* their constants: the current monitor and its error budget, the          *)
(* debounced inputs, the supply guard, the thermal ceiling, the stator's   *)
(* speed, the lamp, the configuration and its host, the stack scan, and    *)
(* the guard and the tests of the bench firmware.  As there, the current   *)
(* monitor is extended and the others are instances.                       *)
(***************************************************************************)
EXTENDS MCParts, Sequences, WellFoundedInduction, FiniteSetTheorems, TLAPS

DioSpec     == Dio!DioInit /\ [][Dio!DioNext]_(Dio!dioVars)
GuardSpec   == Vsup!GuardInit /\ [][Vsup!GuardNext]_(Vsup!guardVars)
ThermalSpec == Hot!ThermalInit /\ [][Hot!ThermalNext]_(Hot!thermalVars)
StackSpec   == Stack!StackInit /\ [][Stack!StackNext]_(Stack!stackVars)
BenchSpec   == Bench!BenchInit /\ [][Bench!BenchNext]_(Bench!benchVars)
TestSpec    == Tests!TestInit /\ [][Tests!TestNext]_(Tests!testVars)
StatorSpec  == Rpm!StatorInit /\ [][Rpm!StatorNext]_(Rpm!statorVars)
LedSpec     == Led!AnnuncInit /\ [][Led!AnnuncNext]_(Led!annuncVars)
HostSpec    == Host!Init /\ [][Host!Next]_(Host!vars)

-----------------------------------------------------------------------------
(* Counting *)

LEMMA NatMin ==
  ASSUME NEW S \in SUBSET Nat, S # {}
  PROVE  \E x \in S : \A y \in S : x <= y
<1> DEFINE R == OpToRel(<, Nat)
<1>1. IsWellFoundedOn(R, Nat)
  BY NatLessThanWellFounded
<1>2. \A x, y \in Nat : <<y, x>> \in R <=> y < x
  BY DEF OpToRel
<1> HIDE DEF R
<1>3. PICK x \in S : \A y \in S : <<y, x>> \notin R
  BY <1>1, WFMin
<1>4. ASSUME NEW y \in S PROVE x <= y
  <2>1. x \in Nat /\ y \in Nat
    OBVIOUS
  <2>2. ~(y < x)
    BY <1>2, <1>3, <2>1
  <2>3. QED
    BY <2>1, <2>2
<1>5. QED
  BY <1>4

\* A set of steps that holds the first and, with each, the next.
LEMMA Upward ==
  ASSUME NEW m \in Nat, NEW S, 0 \in S, \A i \in 1 .. m : i - 1 \in S => i \in S
  PROVE  0 .. m \subseteq S
<1>1. SUFFICES ASSUME (0 .. m) \ S # {} PROVE FALSE
  OBVIOUS
<1>2. PICK x \in (0 .. m) \ S : \A y \in (0 .. m) \ S : x <= y
  <2>1. (0 .. m) \ S \in SUBSET Nat
    OBVIOUS
  <2>2. QED
    BY <1>1, <2>1, NatMin
<1>3. x \in 1 .. m /\ x - 1 \in 0 .. m /\ ~(x <= x - 1)
  BY <1>2
<1>4. x - 1 \in S
  BY <1>2, <1>3
<1>5. QED
  BY <1>2, <1>3, <1>4

-----------------------------------------------------------------------------
(* THE CURRENT MONITOR (Ina226) *)

USE BudgetAssumption, DriverAssumption

-----------------------------------------------------------------------------
(* The budget *)

\* A domain that has spent its budget is faulted, and has stayed within its counters.
Settled(s) == s \in Budgets /\ (s.consecutive >= FaultAt => s.faulted)

LEMMA FailSettles ==
  ASSUME NEW s, Settled(s)
  PROVE  /\ Settled(Fail(s)) /\ Fail(s).ok_streak = 0
         /\ Fail(s).consecutive = UpTo(FaultAt, s.consecutive + 1)
         /\ s.faulted => Fail(s).faulted
<1>1. s.consecutive \in 0..FaultAt /\ s.faulted \in BOOLEAN
  BY DEF Settled, Budgets
<1>2. UpTo(FaultAt, s.consecutive + 1) \in 0..FaultAt
  BY <1>1 DEF UpTo
<1>3. (s.faulted \/ s.consecutive + 1 >= FaultAt) \in BOOLEAN
  OBVIOUS
<1>4. Fail(s) \in Budgets
  BY <1>2, <1>3 DEF Fail, Budgets
<1>5. UpTo(FaultAt, s.consecutive + 1) >= FaultAt => s.consecutive + 1 >= FaultAt
  BY <1>1 DEF UpTo
<1> QED
  BY <1>4, <1>5 DEF Settled, Fail

LEMMA OkSettles ==
  ASSUME NEW s, Settled(s)
  PROVE  /\ Settled(Ok(s)) /\ Ok(s).consecutive = 0
         /\ Ok(s).ok_streak = UpTo(RecoverOk, s.ok_streak + 1)
         /\ (s.faulted /\ ~Ok(s).faulted) => s.ok_streak + 1 >= RecoverOk
<1>1. s.ok_streak \in 0..RecoverOk /\ s.faulted \in BOOLEAN
  BY DEF Settled, Budgets
<1>2. UpTo(RecoverOk, s.ok_streak + 1) \in 0..RecoverOk
  BY <1>1 DEF UpTo
<1>3. (s.faulted /\ s.ok_streak + 1 < RecoverOk) \in BOOLEAN
  OBVIOUS
<1>4. Ok(s) \in Budgets
  BY <1>2, <1>3 DEF Ok, Budgets
<1>5. Ok(s).consecutive = 0 /\ ~(0 >= FaultAt)
  BY DEF Ok
<1> QED
  BY <1>1, <1>4, <1>5 DEF Settled, Ok

-----------------------------------------------------------------------------
(* Types *)

Registers == {"IDLE", "MASK_ENABLE", "SHUNT_V", "BUS_V", "CONFIG"}

\* The types, the budget settled, and its streak no longer than the run of answers.
Typed == TypeOK /\ Settled(budget) /\ budget.ok_streak <= okRun

LEMMA InitTyped == Init => Typed
<1>1. Unspent \in Budgets /\ Unspent.consecutive = 0 /\ Unspent.ok_streak = 0
  BY DEF Unspent, Budgets
<1>2. Settled(Unspent)
  BY <1>1 DEF Settled
<1>3. Init => Settled(budget) /\ budget \in Budgets /\ budget.ok_streak <= okRun
  BY <1>1, <1>2 DEF Init
<1>4. Init => /\ s_fail_consec \in 0..FailLimit /\ age \in 0..StaleAfter /\ dead \in 0..StaleAfter
              /\ okRun \in 0..RecoverOk
  BY DEF Init
<1>5. Init => /\ s_have_sample \in BOOLEAN /\ s_reinit_busy \in BOOLEAN /\ cvrf \in BOOLEAN
              /\ answered \in BOOLEAN
  BY Zenon DEF Init
<1>6. Init => pc = "IDLE" /\ caller = "CURRENT" /\ amps = "NAN" /\ device = "OK"
  BY DEF Init
<1> QED
  BY <1>3, <1>4, <1>5, <1>6 DEF Typed, TypeOK

\* What a transaction leaves of the budget, the count of failed attempts and the histories.
Books ==
  /\ Settled(budget) /\ s_fail_consec \in 0..FailLimit
  /\ answered \in BOOLEAN /\ okRun \in 0..RecoverOk /\ budget.ok_streak <= okRun

LEMMA TypedBooks == Typed => Books
BY DEF Typed, TypeOK, Books

LEMMA SucceededBooks ==
  ASSUME Books, Succeeded
  PROVE  Books' /\ answered' = TRUE /\ s_fail_consec' = 0
         /\ (budget.faulted /\ ~budget'.faulted => okRun' >= RecoverOk)
<1>1. /\ budget' = Ok(budget) /\ s_fail_consec' = 0 /\ answered' = TRUE
      /\ okRun' = UpTo(RecoverOk, okRun + 1)
  BY DEF Succeeded
<1>2. /\ Settled(budget') /\ budget'.ok_streak = UpTo(RecoverOk, budget.ok_streak + 1)
      /\ budget.faulted /\ ~budget'.faulted => budget.ok_streak + 1 >= RecoverOk
  BY <1>1, OkSettles DEF Books
<1>3. /\ budget.ok_streak \in 0..RecoverOk /\ okRun \in 0..RecoverOk
      /\ budget.ok_streak <= okRun
  BY DEF Books, Settled, Budgets
<1>4. okRun' \in 0..RecoverOk /\ budget'.ok_streak <= okRun'
  BY <1>1, <1>2, <1>3 DEF UpTo
<1>5. budget.ok_streak + 1 >= RecoverOk => okRun' >= RecoverOk
  BY <1>1, <1>3 DEF UpTo
<1> QED
  BY <1>1, <1>2, <1>4, <1>5 DEF Books

LEMMA FailedBooks ==
  ASSUME Books, Failed
  PROVE  /\ Books' /\ answered' = answered
         /\ budget'.consecutive = UpTo(FaultAt, budget.consecutive + 1)
         /\ s_fail_consec' = UpTo(FailLimit, s_fail_consec + Attempts)
         /\ budget.faulted => budget'.faulted
<1>1. /\ budget' = Fail(budget) /\ okRun' = 0 /\ answered' = answered
      /\ s_fail_consec' = UpTo(FailLimit, s_fail_consec + Attempts)
  BY DEF Failed
<1>2. /\ Settled(budget') /\ budget'.ok_streak = 0
      /\ budget'.consecutive = UpTo(FaultAt, budget.consecutive + 1)
      /\ budget.faulted => budget'.faulted
  BY <1>1, FailSettles DEF Books
<1>3. s_fail_consec' \in 0..FailLimit
  BY <1>1 DEF Books, UpTo
<1> QED
  BY <1>1, <1>2, <1>3 DEF Books

\* Where a sample that ends leaves the program.
LEMMA ReturnTyped ==
  ASSUME NEW have, NEW consec, Return(have, consec), caller \in {"CURRENT", "BUS"},
         amps \in {"VALUE", "NAN"}
  PROVE  /\ caller' \in {"CURRENT", "BUS"} /\ amps' \in {"VALUE", "NAN"}
         /\ \/ caller = "CURRENT" /\ caller' = "BUS" /\ pc' = "MASK_ENABLE"
               /\ amps' = Reading(have, consec)
            \/ caller = "BUS" /\ caller' = "BUS" /\ pc' = "IDLE" /\ amps' = amps
BY DEF Return, Reading

LEMMA GiveUpTyped ==
  ASSUME GiveUp, caller \in {"CURRENT", "BUS"}, amps \in {"VALUE", "NAN"}, s_reinit_busy \in BOOLEAN
  PROVE  /\ caller' \in {"CURRENT", "BUS"} /\ amps' \in {"VALUE", "NAN"} /\ s_reinit_busy' \in BOOLEAN
         /\ \/ pc' = "CONFIG" /\ caller' = caller /\ amps' = amps
            \/ caller = "CURRENT" /\ caller' = "BUS" /\ pc' = "MASK_ENABLE"
               /\ amps' = Reading(s_have_sample, s_fail_consec')
            \/ caller = "BUS" /\ caller' = "BUS" /\ pc' = "IDLE" /\ amps' = amps
<1>1. CASE Action(budget') = "REINIT" /\ ~s_reinit_busy
  <2>1. s_reinit_busy' = TRUE /\ pc' = "CONFIG" /\ caller' = caller /\ amps' = amps
    BY <1>1 DEF GiveUp
  <2> QED
    BY <2>1
<1>2. CASE ~(Action(budget') = "REINIT" /\ ~s_reinit_busy)
  <2>1. Return(s_have_sample, s_fail_consec') /\ s_reinit_busy' = s_reinit_busy
    BY <1>2 DEF GiveUp
  <2> QED
    BY <2>1, ReturnTyped
<1> QED
  BY <1>1, <1>2

LEMMA StepTyped ==
  ASSUME Typed, [Next]_vars
  PROVE  Typed'
<1>1. /\ Books /\ s_have_sample \in BOOLEAN /\ s_reinit_busy \in BOOLEAN /\ pc \in Registers
      /\ caller \in {"CURRENT", "BUS"} /\ amps \in {"VALUE", "NAN"}
      /\ device \in Troubles \cup {"OK"} /\ cvrf \in BOOLEAN
      /\ age \in 0..StaleAfter /\ dead \in 0..StaleAfter
  BY TypedBooks DEF Typed, TypeOK, Registers
<1> DEFINE Sampling == /\ s_have_sample \in BOOLEAN /\ s_reinit_busy \in BOOLEAN /\ pc \in Registers
                       /\ caller \in {"CURRENT", "BUS"} /\ amps \in {"VALUE", "NAN"}
           World == /\ device \in Troubles \cup {"OK"} /\ cvrf \in BOOLEAN
                    /\ age \in 0..StaleAfter /\ dead \in 0..StaleAfter
<1>2. ASSUME Books', Sampling', World'
      PROVE  Typed'
  BY <1>2 DEF Books, Typed, TypeOK, Registers, Settled
<1>3. ASSUME Books, pc' \in Registers, UNCHANGED <<driver, okRun>>, answered' \in BOOLEAN
      PROVE  Books'
  BY <1>3 DEF Books, driver, Settled
<1>4. CASE Cycle
  <2>1. UNCHANGED <<budget, s_fail_consec, s_have_sample, s_reinit_busy, amps, device, cvrf, okRun>>
    BY <1>4 DEF Cycle, driver
  <2>2. pc' = "MASK_ENABLE" /\ caller' = "CURRENT" /\ answered' \in BOOLEAN
    BY <1>4 DEF Cycle
  <2>3. age' \in 0..StaleAfter /\ dead' \in 0..StaleAfter
    BY <1>1, <1>4 DEF Cycle, UpTo
  <2>4. Books'
    BY <1>1, <2>1, <2>2 DEF Books, Settled
  <2>5. Sampling' /\ World'
    BY <1>1, <2>1, <2>2, <2>3 DEF Registers
  <2> QED
    BY <1>2, <2>4, <2>5
<1>5. CASE ReadMask
  <2>1. s_have_sample' = s_have_sample /\ device' = device /\ age' = age /\ dead' = dead
    BY <1>5 DEF ReadMask
  <2>2. CASE Answers("READ")
    <3>1. Books'
      BY <1>1, <1>5, <2>2, SucceededBooks DEF ReadMask
    <3>2. cvrf' = FALSE /\ s_reinit_busy' = s_reinit_busy
      BY <1>5, <2>2 DEF ReadMask
    <3>3. pc' \in Registers /\ caller' \in {"CURRENT", "BUS"} /\ amps' \in {"VALUE", "NAN"}
      <4>1. CASE cvrf
        BY <1>1, <1>5, <2>2, <4>1 DEF ReadMask, Registers
      <4>2. CASE ~cvrf
        <5>1. Return(s_have_sample, 0)
          BY <1>5, <2>2, <4>2 DEF ReadMask
        <5> QED
          BY <1>1, <5>1, ReturnTyped DEF Registers
      <4> QED
        BY <4>1, <4>2
    <3>4. cvrf' \in BOOLEAN
      BY <3>2
    <3> QED
      BY <1>1, <1>2, <2>1, <3>1, <3>2, <3>3, <3>4
  <2>3. CASE ~Answers("READ")
    <3>1. Failed /\ GiveUp /\ cvrf' = cvrf
      BY <1>5, <2>3 DEF ReadMask
    <3>2. Books'
      BY <1>1, <3>1, FailedBooks
    <3>3. Sampling'
      BY <1>1, <2>1, <3>1, GiveUpTyped DEF Registers
    <3> QED
      BY <1>1, <1>2, <2>1, <3>1, <3>2, <3>3
  <2> QED
    BY <2>2, <2>3
<1>6. CASE ReadShunt
  <2>1. /\ s_have_sample' = s_have_sample /\ device' = device /\ cvrf' = cvrf /\ age' = age
        /\ dead' = dead
    BY <1>6 DEF ReadShunt
  <2>2. CASE Answers("READ")
    <3>1. Books'
      BY <1>1, <1>6, <2>2, SucceededBooks DEF ReadShunt
    <3>2. Sampling'
      BY <1>1, <1>6, <2>1, <2>2 DEF ReadShunt, Registers
    <3> QED
      BY <1>1, <1>2, <2>1, <3>1, <3>2
  <2>3. CASE ~Answers("READ")
    <3>1. Failed /\ GiveUp
      BY <1>6, <2>3 DEF ReadShunt
    <3>2. Books'
      BY <1>1, <3>1, FailedBooks
    <3>3. Sampling'
      BY <1>1, <2>1, <3>1, GiveUpTyped DEF Registers
    <3> QED
      BY <1>1, <1>2, <2>1, <3>2, <3>3
  <2> QED
    BY <2>2, <2>3
<1>7. CASE ReadBus
  <2>1. device' = device /\ cvrf' = cvrf /\ dead' = dead
    BY <1>7 DEF ReadBus
  <2>2. CASE Answers("READ")
    <3>1. Books'
      BY <1>1, <1>7, <2>2, SucceededBooks DEF ReadBus
    <3>2. /\ s_have_sample' = TRUE /\ age' = 0 /\ Return(TRUE, 0)
          /\ s_reinit_busy' = s_reinit_busy
      BY <1>7, <2>2 DEF ReadBus
    <3>3. Sampling'
      BY <1>1, <3>2, ReturnTyped DEF Registers
    <3> QED
      BY <1>1, <1>2, <2>1, <3>1, <3>2, <3>3
  <2>3. CASE ~Answers("READ")
    <3>1. Failed /\ GiveUp /\ s_have_sample' = s_have_sample /\ age' = age
      BY <1>7, <2>3 DEF ReadBus
    <3>2. Books'
      BY <1>1, <3>1, FailedBooks
    <3>3. Sampling'
      BY <1>1, <3>1, GiveUpTyped DEF Registers
    <3> QED
      BY <1>1, <1>2, <2>1, <3>1, <3>2, <3>3
  <2> QED
    BY <2>2, <2>3
<1>8. CASE Replay
  <2>1. /\ s_have_sample' = s_have_sample /\ device' = device /\ cvrf' = cvrf /\ age' = age
        /\ dead' = dead /\ s_reinit_busy' = FALSE /\ Return(s_have_sample, s_fail_consec')
    BY <1>8 DEF Replay
  <2>2. Books'
    BY <1>1, <1>8, SucceededBooks, FailedBooks DEF Replay
  <2>3. Sampling'
    BY <1>1, <2>1, ReturnTyped DEF Registers
  <2> QED
    BY <1>1, <1>2, <2>1, <2>2, <2>3
<1>9. CASE Convert
  <2>1. cvrf' \in BOOLEAN /\ UNCHANGED <<driver, pc, caller, amps, device, history>>
    BY <1>9 DEF Convert
  <2>2. Books'
    BY <1>1, <2>1 DEF Books, Settled, driver, history
  <2> QED
    BY <1>1, <1>2, <2>1, <2>2 DEF driver, history
<1>10. CASE Befall
  <2>1. device' \in Troubles \cup {"OK"} /\ UNCHANGED <<driver, pc, caller, amps, cvrf, history>>
    BY <1>10 DEF Befall
  <2>2. Books'
    BY <1>1, <2>1 DEF Books, Settled, driver, history
  <2> QED
    BY <1>1, <1>2, <2>1, <2>2 DEF driver, history
<1>11. CASE UNCHANGED vars
  <2>1. Books'
    BY <1>1, <1>11 DEF Books, Settled, vars, driver, history
  <2> QED
    BY <1>1, <1>2, <1>11, <2>1 DEF vars, driver, history
<1> QED
  BY <1>4, <1>5, <1>6, <1>7, <1>8, <1>9, <1>10, <1>11 DEF Next, Step

LEMMA AlwaysTyped == Spec => []Typed
BY InitTyped, StepTyped, PTL DEF Spec

\* Every variable keeps its type: the counters of the driver and of the budget stay within
\* their limits through every mix of answers, failures and re-initialisations.
THEOREM MonitorTypeCorrect == Spec => []TypeOK
<1>1. Typed => TypeOK
  BY DEF Typed
<1> QED
  BY <1>1, AlwaysTyped, PTL

-----------------------------------------------------------------------------
(* The release of the fault *)

\* The latched fault is released by an unbroken run of answers only: a bus that fails every
\* now and then keeps its fault, whatever the re-initialisations in between answer.
THEOREM FaultNeedsARun == Spec => FaultDoesNotFlap
<1>1. ASSUME Typed, [Next]_vars
      PROVE  budget.faulted /\ ~budget'.faulted => okRun' >= RecoverOk
  <2>1. Books
    BY <1>1, TypedBooks
  <2>2. CASE Succeeded
    BY <2>1, <2>2, SucceededBooks
  <2>3. CASE Failed
    BY <2>1, <2>3, FailedBooks
  <2>4. CASE budget' = budget
    BY <2>4
  <2>5. Succeeded \/ Failed \/ budget' = budget
    <3>1. CASE ReadMask
      BY <3>1 DEF ReadMask
    <3>2. CASE ReadShunt
      BY <3>2 DEF ReadShunt
    <3>3. CASE ReadBus
      BY <3>3 DEF ReadBus
    <3>4. CASE Replay
      BY <3>4 DEF Replay
    <3>5. CASE Cycle \/ Convert \/ Befall \/ UNCHANGED vars
      <4>1. budget' = budget
        BY <3>5 DEF Cycle, Convert, Befall, vars, driver
      <4> QED
        BY <4>1
    <3> QED
      BY <1>1, <3>1, <3>2, <3>3, <3>4, <3>5 DEF Next, Step
  <2> QED
    BY <2>2, <2>3, <2>4, <2>5
<1>2. Typed /\ [Next]_vars => [budget.faulted /\ ~budget'.faulted => okRun' >= RecoverOk]_vars
  BY <1>1
<1> QED
  BY <1>2, AlwaysTyped, PTL DEF Spec, FaultDoesNotFlap

-----------------------------------------------------------------------------
(* A bus that is gone *)

\* Transactions that a cycle without an answer has failed by now, at the least.
Progress ==
  IF pc = "IDLE" THEN 2
  ELSE (IF caller = "BUS" THEN 1 ELSE 0) + (IF pc = "CONFIG" THEN 1 ELSE 0)

\* And the cycles before it with it.
Silence == 2 * dead + Progress

\* While nothing answers, the budget and the count of attempts have kept pace, and by the
\* third cycle the accessor has seen enough to return NAN.
SilenceCounted ==
  /\ pc \in {"SHUNT_V", "BUS_V"} => answered
  /\ pc = "IDLE" /\ ~answered => caller = "BUS"
  /\ ~answered =>
       /\ budget.consecutive >= UpTo(FaultAt, Silence)
       /\ s_fail_consec >= FailLimit \/ s_fail_consec >= Attempts * Silence
       /\ dead >= 2 /\ caller = "BUS" => amps = "NAN"

LEMMA InitCounted == Init => SilenceCounted
BY DEF Init, SilenceCounted

LEMMA SilenceInNat ==
  ASSUME Typed
  PROVE  Progress \in 0..2 /\ Silence \in Nat /\ dead \in Nat
BY DEF Typed, TypeOK, Progress, Silence

\* One more failed transaction.
LEMMA PaceKept ==
  ASSUME NEW k \in Nat, NEW c \in Nat, NEW f \in Nat,
         c >= UpTo(FaultAt, k), f >= FailLimit \/ f >= Attempts * k
  PROVE  /\ UpTo(FaultAt, c + 1) >= UpTo(FaultAt, k + 1)
         /\ \/ UpTo(FailLimit, f + Attempts) >= FailLimit
            \/ UpTo(FailLimit, f + Attempts) >= Attempts * (k + 1)
<1>1. UpTo(FaultAt, c + 1) >= UpTo(FaultAt, k + 1)
  BY DEF UpTo
<1>2. Attempts * k \in Nat /\ Attempts * (k + 1) = Attempts * k + Attempts
  OBVIOUS
<1>3. \/ UpTo(FailLimit, f + Attempts) >= FailLimit
      \/ UpTo(FailLimit, f + Attempts) >= Attempts * (k + 1)
  BY <1>2 DEF UpTo
<1> QED
  BY <1>1, <1>3

\* Less may always be said.
LEMMA PaceWeaker ==
  ASSUME NEW k \in Nat, NEW j \in Nat, j <= k, NEW c \in Nat, NEW f \in Nat,
         c >= UpTo(FaultAt, k), f >= FailLimit \/ f >= Attempts * k
  PROVE  c >= UpTo(FaultAt, j) /\ (f >= FailLimit \/ f >= Attempts * j)
<1>1. c >= UpTo(FaultAt, j)
  BY DEF UpTo
<1>2. Attempts * j <= Attempts * k
  <2>1. k - j \in Nat /\ Attempts * (k - j) \in Nat
    OBVIOUS
  <2>2. Attempts * k = Attempts * j + Attempts * (k - j)
    OBVIOUS
  <2> QED
    BY <2>1, <2>2
<1> QED
  BY <1>1, <1>2

\* How soon the limits are reached: six failed transactions latch the fault, and five spend
\* the attempts of the accessor.
Prompt == FaultAt <= 6 /\ FailLimit <= 5 * Attempts

\* A failure in a silent cycle keeps the pace, if it does not get ahead by more than one.
LEMMA FailurePaces ==
  ASSUME Typed, SilenceCounted, Failed, ~answered, Silence' \in Nat, Silence' <= Silence + 1
  PROVE  /\ budget'.consecutive >= UpTo(FaultAt, Silence')
         /\ s_fail_consec' >= FailLimit \/ s_fail_consec' >= Attempts * Silence'
<1>1. /\ budget'.consecutive = UpTo(FaultAt, budget.consecutive + 1)
      /\ s_fail_consec' = UpTo(FailLimit, s_fail_consec + Attempts)
  BY TypedBooks, FailedBooks
<1>2. budget.consecutive \in Nat /\ s_fail_consec \in Nat /\ Silence \in Nat
  BY SilenceInNat DEF Typed, TypeOK, Budgets
<1>3. /\ budget.consecutive >= UpTo(FaultAt, Silence)
      /\ s_fail_consec >= FailLimit \/ s_fail_consec >= Attempts * Silence
  BY DEF SilenceCounted
<1> DEFINE k == Silence
           m == Silence'
           c == budget.consecutive
           f == s_fail_consec
           d == UpTo(FaultAt, c + 1)
           g == UpTo(FailLimit, f + Attempts)
<1>4. d \in Nat /\ g \in Nat
  BY <1>2 DEF UpTo
<1>5. k \in Nat /\ c \in Nat /\ f \in Nat /\ m \in Nat /\ m <= k + 1 /\ k + 1 \in Nat
  BY <1>2
<1>6. c >= UpTo(FaultAt, k) /\ (f >= FailLimit \/ f >= Attempts * k)
  BY <1>3
<1> HIDE DEF k, m, c, f
<1>7. d >= UpTo(FaultAt, k + 1) /\ (g >= FailLimit \/ g >= Attempts * (k + 1))
  BY <1>5, <1>6, PaceKept
<1> HIDE DEF d, g
<1>8. d >= UpTo(FaultAt, m) /\ (g >= FailLimit \/ g >= Attempts * m)
  BY <1>4, <1>5, <1>7, PaceWeaker
<1> QED
  BY <1>1, <1>8 DEF d, g, m, c, f

\* In the third silent cycle the first sample returns NAN.
LEMMA ThirdIsNan ==
  ASSUME Prompt, Typed, SilenceCounted, Failed, ~answered, dead >= 2, NEW have
  PROVE  Reading(have, s_fail_consec') = "NAN"
<1>1. s_fail_consec' = UpTo(FailLimit, s_fail_consec + Attempts)
  BY TypedBooks, FailedBooks
<1>2. s_fail_consec \in Nat /\ dead \in Nat /\ Silence \in Nat /\ Silence >= 4
  BY SilenceInNat DEF Typed, TypeOK, Silence
<1>3. s_fail_consec >= FailLimit \/ s_fail_consec >= Attempts * Silence
  BY DEF SilenceCounted
<1>4. Attempts * Silence >= 4 * Attempts
  <2> DEFINE k == Silence
  <2>1. k \in Nat /\ k >= 4
    BY <1>2
  <2> HIDE DEF k
  <2>2. k - 4 \in Nat /\ Attempts * (k - 4) \in Nat /\ Attempts * k = 4 * Attempts + Attempts * (k - 4)
    BY <2>1
  <2>3. Attempts * k >= 4 * Attempts
    BY <2>2
  <2> QED
    BY <2>3 DEF k
<1>5. s_fail_consec >= FailLimit \/ s_fail_consec >= 4 * Attempts
  <2> DEFINE x == Attempts * Silence
  <2>1. x \in Nat
    BY <1>2
  <2>2. x >= 4 * Attempts /\ (s_fail_consec >= FailLimit \/ s_fail_consec >= x)
    BY <1>3, <1>4
  <2> HIDE DEF x
  <2> QED
    BY <1>2, <2>1, <2>2
<1>6. s_fail_consec' >= FailLimit /\ s_fail_consec' \in Nat
  BY <1>1, <1>2, <1>5 DEF UpTo, Prompt
<1> QED
  BY <1>6 DEF Reading, ina2xx_ok

\* A transaction that fails and gives up, in a silent cycle.
LEMMA GiveUpCounted ==
  ASSUME Prompt, Typed, SilenceCounted, Failed, GiveUp, dead' = dead,
         pc \in {"MASK_ENABLE", "SHUNT_V", "BUS_V"}
  PROVE  SilenceCounted'
<1>1. caller \in {"CURRENT", "BUS"} /\ amps \in {"VALUE", "NAN"} /\ s_reinit_busy \in BOOLEAN
  BY DEF Typed, TypeOK
<1>2. \/ pc' = "CONFIG" /\ caller' = caller /\ amps' = amps
      \/ caller = "CURRENT" /\ caller' = "BUS" /\ pc' = "MASK_ENABLE"
         /\ amps' = Reading(s_have_sample, s_fail_consec')
      \/ caller = "BUS" /\ caller' = "BUS" /\ pc' = "IDLE" /\ amps' = amps
  BY <1>1, GiveUpTyped
<1>3. answered' = answered
  BY DEF Failed
<1>4. dead \in Nat /\ Progress \in 0..2
  BY SilenceInNat
<1>5. Progress' \in 0..2 /\ Progress' <= Progress + 1
  BY <1>1, <1>2 DEF Progress
<1>6. Silence' = 2 * dead + Progress' /\ Silence = 2 * dead + Progress
  BY DEF Silence
<1>7. Silence' \in Nat /\ Silence' <= Silence + 1
  <2> DEFINE p == Progress
             q == Progress'
  <2>1. p \in 0..2 /\ q \in 0..2 /\ q <= p + 1 /\ Silence' = 2 * dead + q /\ Silence = 2 * dead + p
    BY <1>4, <1>5, <1>6
  <2> HIDE DEF p, q
  <2>2. 2 * dead + q \in Nat /\ 2 * dead + q <= (2 * dead + p) + 1
    BY <1>4, <2>1
  <2> QED
    BY <2>1, <2>2
<1>8. CASE ~answered
  <2>1. /\ budget'.consecutive >= UpTo(FaultAt, Silence')
        /\ s_fail_consec' >= FailLimit \/ s_fail_consec' >= Attempts * Silence'
    BY <1>7, <1>8, FailurePaces
  <2>2. dead' >= 2 /\ caller' = "BUS" => amps' = "NAN"
    BY <1>2, <1>8, ThirdIsNan DEF SilenceCounted
  <2>3. pc' \notin {"SHUNT_V", "BUS_V"} /\ (pc' = "IDLE" => caller' = "BUS")
    BY <1>2
  <2> QED
    BY <2>1, <2>2, <2>3 DEF SilenceCounted
<1>9. CASE answered
  BY <1>3, <1>9 DEF SilenceCounted
<1> QED
  BY <1>8, <1>9

LEMMA StepCounted ==
  ASSUME Prompt, Typed, SilenceCounted, [Next]_vars
  PROVE  SilenceCounted'
<1>1. ASSUME answered' = TRUE
      PROVE  SilenceCounted'
  BY <1>1 DEF SilenceCounted
<1>2. /\ caller \in {"CURRENT", "BUS"} /\ amps \in {"VALUE", "NAN"} /\ dead \in 0..StaleAfter
      /\ s_fail_consec \in 0..FailLimit /\ budget.consecutive \in 0..FaultAt
      /\ Silence \in Nat /\ Progress \in 0..2
  BY SilenceInNat DEF Typed, TypeOK, Budgets
<1>3. CASE Cycle
  <2>1. /\ pc = "IDLE" /\ pc' = "MASK_ENABLE" /\ caller' = "CURRENT" /\ answered' = FALSE
        /\ budget' = budget /\ s_fail_consec' = s_fail_consec
        /\ dead' = IF answered THEN 0 ELSE UpTo(StaleAfter, dead + 1)
    BY <1>3 DEF Cycle, driver
  <2>2. Silence' = 2 * dead' /\ dead' \in 0..StaleAfter
    BY <1>2, <2>1 DEF Silence, Progress, UpTo
  <2>3. CASE answered
    <3>1. Silence' = 0
      BY <2>1, <2>2, <2>3
    <3>2. UpTo(FaultAt, 0) = 0 /\ Attempts * 0 = 0
      BY DEF UpTo
    <3>3. /\ budget'.consecutive >= UpTo(FaultAt, Silence')
          /\ s_fail_consec' >= Attempts * Silence'
      BY <1>2, <2>1, <3>1, <3>2
    <3> QED
      BY <2>1, <3>3 DEF SilenceCounted
  <2>4. CASE ~answered
    <3>1. Silence = 2 * dead + 2
      BY <2>1 DEF Silence, Progress
    <3>2. Silence' \in Nat /\ Silence' <= Silence
      BY <1>2, <2>1, <2>2, <2>4, <3>1 DEF UpTo
    <3>3. /\ budget.consecutive >= UpTo(FaultAt, Silence)
          /\ s_fail_consec >= FailLimit \/ s_fail_consec >= Attempts * Silence
      BY <2>4 DEF SilenceCounted
    <3> DEFINE k == Silence
               m == Silence'
    <3>4. k \in Nat /\ m \in Nat /\ m <= k /\ budget.consecutive \in Nat /\ s_fail_consec \in Nat
      BY <1>2, <3>2
    <3>5. /\ budget.consecutive >= UpTo(FaultAt, k)
          /\ s_fail_consec >= FailLimit \/ s_fail_consec >= Attempts * k
      BY <3>3
    <3> HIDE DEF k, m
    <3>6. /\ budget.consecutive >= UpTo(FaultAt, m)
          /\ s_fail_consec >= FailLimit \/ s_fail_consec >= Attempts * m
      BY <3>4, <3>5, PaceWeaker
    <3>7. /\ budget'.consecutive >= UpTo(FaultAt, Silence')
          /\ s_fail_consec' >= FailLimit \/ s_fail_consec' >= Attempts * Silence'
      BY <2>1, <3>6 DEF m
    <3> QED
      BY <2>1, <3>7 DEF SilenceCounted
  <2> QED
    BY <2>3, <2>4
<1>4. CASE ReadMask
  <2>1. CASE Answers("READ")
    BY <1>1, <1>4, <2>1 DEF ReadMask, Succeeded
  <2>2. CASE ~Answers("READ")
    BY <1>4, <2>2, GiveUpCounted DEF ReadMask
  <2> QED
    BY <2>1, <2>2
<1>5. CASE ReadShunt
  <2>1. CASE Answers("READ")
    BY <1>1, <1>5, <2>1 DEF ReadShunt, Succeeded
  <2>2. CASE ~Answers("READ")
    BY <1>5, <2>2, GiveUpCounted DEF ReadShunt
  <2> QED
    BY <2>1, <2>2
<1>6. CASE ReadBus
  <2>1. CASE Answers("READ")
    BY <1>1, <1>6, <2>1 DEF ReadBus, Succeeded
  <2>2. CASE ~Answers("READ")
    BY <1>6, <2>2, GiveUpCounted DEF ReadBus
  <2> QED
    BY <2>1, <2>2
<1>7. CASE Replay
  <2>1. /\ pc = "CONFIG" /\ dead' = dead /\ Return(s_have_sample, s_fail_consec')
        /\ (Succeeded \/ Failed)
    BY <1>7 DEF Replay
  <2>2. CASE Succeeded
    BY <1>1, <2>2 DEF Succeeded
  <2>3. CASE Failed
    <3>1. \/ caller = "CURRENT" /\ caller' = "BUS" /\ pc' = "MASK_ENABLE"
             /\ amps' = Reading(s_have_sample, s_fail_consec')
          \/ caller = "BUS" /\ caller' = "BUS" /\ pc' = "IDLE" /\ amps' = amps
      BY <1>2, <2>1, ReturnTyped
    <3>2. Progress' = Progress
      BY <2>1, <3>1 DEF Progress
    <3>3. Silence' \in Nat /\ Silence' <= Silence + 1
      BY <1>2, <2>1, <3>2 DEF Silence
    <3>4. answered' = answered
      BY <2>3 DEF Failed
    <3>5. CASE ~answered
      <4>1. /\ budget'.consecutive >= UpTo(FaultAt, Silence')
            /\ s_fail_consec' >= FailLimit \/ s_fail_consec' >= Attempts * Silence'
        BY <2>3, <3>3, <3>5, FailurePaces
      <4>2. dead' >= 2 /\ caller' = "BUS" => amps' = "NAN"
        BY <2>1, <2>3, <3>1, <3>5, ThirdIsNan DEF SilenceCounted
      <4>3. pc' \notin {"SHUNT_V", "BUS_V"} /\ (pc' = "IDLE" => caller' = "BUS")
        BY <3>1
      <4> QED
        BY <4>1, <4>2, <4>3 DEF SilenceCounted
    <3>6. CASE answered
      BY <3>4, <3>6 DEF SilenceCounted
    <3> QED
      BY <3>5, <3>6
  <2> QED
    BY <2>1, <2>2, <2>3
<1>8. CASE Convert \/ Befall \/ UNCHANGED vars
  <2>1. UNCHANGED <<budget, s_fail_consec, pc, caller, amps, answered, dead>>
    BY <1>8 DEF Convert, Befall, vars, driver, history
  <2> QED
    BY <2>1 DEF SilenceCounted, Silence, Progress
<1> QED
  BY <1>3, <1>4, <1>5, <1>6, <1>7, <1>8 DEF Next, Step

\* A bus that has been silent for three cycles has its fault latched and reads as NAN, for
\* every limit the third cycle can reach - even while the recovery keeps re-initialising it.
THEOREM DeadBusReports ==
  ASSUME Prompt
  PROVE  Spec => []DeadBusIsReported
<1>1. Typed /\ SilenceCounted => DeadBusIsReported
  <2> SUFFICES ASSUME Typed, SilenceCounted, pc = "IDLE", ~answered, dead >= 2
               PROVE  budget.faulted /\ amps = "NAN"
    BY DEF DeadBusIsReported, Grace
  <2>1. Silence >= 6 /\ Silence \in Nat
    BY SilenceInNat DEF Silence, Progress
  <2>2. budget.consecutive >= UpTo(FaultAt, Silence) /\ caller = "BUS"
    BY DEF SilenceCounted
  <2>3. budget.consecutive \in 0..FaultAt
    BY DEF Typed, TypeOK, Budgets
  <2>4. budget.consecutive >= FaultAt
    BY <2>1, <2>2, <2>3 DEF UpTo, Prompt
  <2> QED
    BY <2>2, <2>4 DEF Typed, Settled, SilenceCounted
<1>2. Spec => []SilenceCounted
  BY InitCounted, StepCounted, AlwaysTyped, PTL DEF Spec
<1> QED
  BY <1>1, <1>2, AlwaysTyped, PTL

-----------------------------------------------------------------------------
(* THE DEBOUNCED INPUTS (Debounce) *)

\* An input that differs from its candidate has been read as the candidate once more often
\* than the counter says, and a full run of equal readings has been taken.
DioInv ==
    /\ stable \in [Dio!Inputs -> 0 .. Ticks] /\ steady \in [Dio!Inputs -> 0 .. Dio!Needs]
    /\ \A i \in Dio!Inputs :
         /\ steady[i] <= stable[i] + 1 \/ stable[i] = Ticks
         /\ candidate[i] # debounced[i] => steady[i] >= stable[i] + 1
         /\ steady[i] = Dio!Needs => debounced[i] = candidate[i]

LEMMA DioInvInit ==
  ASSUME Dio!DioAssumption, Dio!DioInit
  PROVE  DioInv
BY DEF Dio!DioAssumption, Dio!DioInit, DioInv, Dio!Needs

LEMMA DioInvStep ==
  ASSUME Dio!DioAssumption, DioInv, [Dio!DioNext]_(Dio!dioVars)
  PROVE  DioInv' /\ [\A i \in Dio!Inputs :
                        /\ debounced'[i] # debounced[i] => steady'[i] = Dio!Needs
                        /\ steady'[i] = Dio!Needs => debounced'[i] = candidate'[i]]_(Dio!dioVars)
<1>1. Ticks \in Nat /\ Dio!Needs = Ticks + 2
  BY DEF Dio!DioAssumption, Dio!Needs
<1>2. CASE Dio!DioPoll
  <2>1. /\ stable' \in [Dio!Inputs -> 0 .. Ticks] /\ steady' \in [Dio!Inputs -> 0 .. Dio!Needs]
    BY <1>1, <1>2 DEF Dio!DioPoll, Dio!Restarts, DioInv
  <2>2. ASSUME NEW i \in Dio!Inputs
        PROVE  /\ steady'[i] <= stable'[i] + 1 \/ stable'[i] = Ticks
               /\ candidate'[i] # debounced'[i] => steady'[i] >= stable'[i] + 1
               /\ steady'[i] = Dio!Needs => debounced'[i] = candidate'[i]
               /\ debounced'[i] # debounced[i] => steady'[i] = Dio!Needs
    <3>1. /\ stable[i] \in 0 .. Ticks /\ steady[i] \in 0 .. Dio!Needs
          /\ steady[i] <= stable[i] + 1 \/ stable[i] = Ticks
          /\ candidate[i] # debounced[i] => steady[i] >= stable[i] + 1
          /\ steady[i] = Dio!Needs => debounced[i] = candidate[i]
      BY DEF DioInv
    <3>2. /\ stable'[i] = IF pin[i] # candidate[i] THEN 0
                          ELSE IF stable[i] < Ticks THEN stable[i] + 1 ELSE Ticks
          /\ debounced'[i] = IF pin[i] = candidate[i] /\ stable[i] = Ticks
                               THEN candidate[i] ELSE debounced[i]
          /\ candidate'[i] = pin[i]
          /\ steady'[i] = IF pin[i] # candidate[i] THEN 1
                          ELSE IF steady[i] < Dio!Needs THEN steady[i] + 1 ELSE Dio!Needs
      BY <1>2 DEF Dio!DioPoll, Dio!Restarts
    <3>3. CASE pin[i] # candidate[i]
      BY <1>1, <3>1, <3>2, <3>3
    <3>4. CASE pin[i] = candidate[i] /\ stable[i] = Ticks
      BY <1>1, <3>1, <3>2, <3>4
    <3>5. CASE pin[i] = candidate[i] /\ stable[i] # Ticks
      BY <1>1, <3>1, <3>2, <3>5
    <3>6. QED
      BY <3>3, <3>4, <3>5
  <2>3. QED
    BY <2>1, <2>2 DEF DioInv
<1>3. CASE \E i \in Dio!Inputs : \E level \in Levels[i] : Dio!Bounce(i, level)
  BY <1>3 DEF Dio!Bounce, DioInv
<1>4. CASE UNCHANGED Dio!dioVars
  BY <1>4 DEF Dio!dioVars, DioInv
<1>5. QED
  BY <1>2, <1>3, <1>4 DEF Dio!DioNext

\* A contact that bounces neither changes an input early nor holds its change up.
THEOREM BounceStaysOut ==
  ASSUME Dio!DioAssumption
  PROVE  DioSpec => Dio!NoBouncePasses
<1>1. Dio!DioInit => DioInv
  BY DioInvInit
<1>2. DioInv /\ [Dio!DioNext]_(Dio!dioVars) => DioInv'
  BY DioInvStep
<1>3. DioInv /\ [Dio!DioNext]_(Dio!dioVars) =>
        [\A i \in Dio!Inputs :
            /\ debounced'[i] # debounced[i] => steady'[i] = Dio!Needs
            /\ steady'[i] = Dio!Needs => debounced'[i] = candidate'[i]]_(Dio!dioVars)
  BY DioInvStep
<1>4. QED
  BY <1>1, <1>2, <1>3, PTL DEF DioSpec, Dio!NoBouncePasses

-----------------------------------------------------------------------------
(* THE THERMAL CEILING (Thermal) *)

\* What the loop compares with is what the sensor read last.
HotInv ==
    /\ t_prev = before /\ before \in Int \cup {NaN}
    /\ ceiling_w \in Floor .. Ceiling

LEMMA ProductPositive ==
  ASSUME NEW a \in Nat, NEW b \in Nat
  PROVE  a * b \in Nat
OBVIOUS

LEMMA HotInvStep ==
  ASSUME Hot!ThermalAssumption, HotInv, [Hot!ThermalNext]_(Hot!thermalVars)
  PROVE  /\ HotInv'
         /\ (/\ before' # NaN /\ before' >= Target
             /\ before # NaN => before' >= before)
            => ceiling_w' <= ceiling_w
<1>1. /\ NaN \notin Int /\ Temps \subseteq Int \cup {NaN}
      /\ Tau \in Nat /\ Target \in Int /\ Hard \in Int
      /\ Floor \in Nat /\ Ceiling \in Nat /\ Floor <= Ceiling
  BY DEF Hot!ThermalAssumption
<1>2. CASE UNCHANGED Hot!thermalVars
  BY <1>1, <1>2 DEF Hot!thermalVars, HotInv
<1>3. ASSUME NEW hotspot \in Temps, Hot!Sample(hotspot)
      PROVE  /\ HotInv'
             /\ (/\ before' # NaN /\ before' >= Target
                 /\ before # NaN => before' >= before)
                => ceiling_w' <= ceiling_w
  <2>1. before' = hotspot /\ t_prev' = hotspot /\ hotspot \in Int \cup {NaN}
    BY <1>1, <1>3 DEF Hot!Sample, Hot!Loses
  <2>2. CASE hotspot = NaN
    BY <2>1, <2>2, <1>3 DEF Hot!Sample, HotInv
  <2>3. CASE hotspot # NaN /\ hotspot >= Hard
    <3>1. ceiling_w' = Floor
      BY <2>3, <1>3 DEF Hot!Sample
    <3>2. Floor \in Floor .. Ceiling /\ Floor <= ceiling_w
      BY <1>1 DEF HotInv
    <3>3. QED
      BY <2>1, <3>1, <3>2 DEF HotInv
  <2>4. CASE hotspot # NaN /\ ~(hotspot >= Hard)
    <3> DEFINE s == Hot!Slope(hotspot)  k == Tau * s
    <3>1. /\ s \in Int /\ hotspot \in Int
          /\ (before # NaN => hotspot >= before) => s \in Nat
      BY <1>1, <2>1, <2>4 DEF HotInv, Hot!Slope
    <3>2. k \in Int /\ (s \in Nat => k \in Nat)
      BY <1>1, <3>1, ProductPositive
    <3>3. ceiling_w' = Hot!Clamped(ceiling_w + Target - (hotspot + k))
      BY <1>3, <2>4 DEF Hot!Sample
    <3> HIDE DEF s, k
    <3>4. ceiling_w' \in Floor .. Ceiling
      BY <1>1, <3>1, <3>2, <3>3 DEF Hot!Clamped, HotInv
    <3>5. (hotspot >= Target /\ k \in Nat) => ceiling_w' <= ceiling_w
      BY <1>1, <3>1, <3>2, <3>3 DEF Hot!Clamped, HotInv
    <3>6. QED
      BY <2>1, <3>1, <3>2, <3>4, <3>5 DEF HotInv
  <2>5. QED
    BY <2>2, <2>3, <2>4
<1>4. QED
  BY <1>2, <1>3 DEF Hot!ThermalNext

\* A hot machine gains no power unless two samples in a row show that it cools.
THEOREM HotNeverGains ==
  ASSUME Hot!ThermalAssumption
  PROVE  ThermalSpec => Hot!HotGainsNoPower
<1>1. Hot!ThermalInit => HotInv
  BY DEF Hot!ThermalInit, HotInv, Hot!ThermalAssumption
<1>2. HotInv /\ [Hot!ThermalNext]_(Hot!thermalVars) => HotInv'
  BY HotInvStep
<1>3. HotInv /\ [Hot!ThermalNext]_(Hot!thermalVars) =>
        [(/\ before' # NaN /\ before' >= Target
          /\ before # NaN => before' >= before)
         => ceiling_w' <= ceiling_w]_(Hot!thermalVars)
  BY HotInvStep
<1>4. QED
  BY <1>1, <1>2, <1>3, PTL DEF ThermalSpec, Hot!HotGainsNoPower

-----------------------------------------------------------------------------
(* THE SUPPLY GUARD (SupplyGuard) *)

\* The hold has lasted no longer than the bus has read low, and the level that is
\* trusted is one the guard can trust.
VsupInv ==
    /\ v_track \in Int \cup {NaN} /\ (v_track # NaN => v_track \in MinV .. MaxV)
    /\ distrust_ms \in Nat /\ low \in Nat /\ distrust_ms <= low
    /\ clamp \in Int \cup {NaN} /\ (clamp # NaN => clamp >= FloorV)
    /\ bus \in Nat /\ honest \in BOOLEAN

\* What one tick makes of the higher reading.
LEMMA HigherOfTwo ==
  ASSUME Vsup!SupplyAssumption, NEW a \in Int \cup {NaN}, NEW b \in Int \cup {NaN}
  PROVE  /\ Vsup!Higher(a, b) \in {a, b}
         /\ a # NaN => Vsup!Higher(a, b) \in Int /\ Vsup!Higher(a, b) >= a
         /\ b # NaN => Vsup!Higher(a, b) \in Int /\ Vsup!Higher(a, b) >= b
BY DEF Vsup!Higher, Vsup!SupplyAssumption

LEMMA TrackedBand ==
  ASSUME Vsup!SupplyAssumption, NEW v \in MinV .. MaxV
  PROVE  Vsup!InBand(v, v)
BY DEF Vsup!SupplyAssumption, Vsup!InBand

\* One tick, from the higher reading v.
LEMMA GuardTick ==
  ASSUME Vsup!SupplyAssumption, VsupInv, NEW v \in Int \cup {NaN},
         Vsup!NoReading(v) \/ Vsup!Absurd(v) \/ Vsup!Follows(v) \/ Vsup!Distrusts(v),
         low' = (IF v = NaN \/ v_track = NaN THEN low
                 ELSE IF v >= MinV /\ Vsup!InBand(v, v_track) THEN 0
                 ELSE IF v >= MinV /\ low < Distrust THEN low + 1 ELSE low)
  PROVE  /\ v_track' \in Int \cup {NaN} /\ (v_track' # NaN => v_track' \in MinV .. MaxV)
         /\ distrust_ms' \in Nat /\ low' \in Nat /\ distrust_ms' <= low'
         /\ clamp' \in Int \cup {NaN} /\ (clamp' # NaN => clamp' >= FloorV)
         /\ v # NaN => clamp' # NaN /\ clamp' >= v
         /\ (v_track # NaN /\ ~Vsup!InBand(v_track', v_track)) => low' >= Distrust
<1>1. /\ NaN \notin Int /\ MinV \in Nat /\ MaxV \in Nat /\ FloorV \in Nat
      /\ MinV <= FloorV /\ MinV <= MaxV /\ Distrust \in Nat \ {0}
  BY DEF Vsup!SupplyAssumption
<1>2. /\ v_track \in Int \cup {NaN} /\ (v_track # NaN => v_track \in MinV .. MaxV)
      /\ distrust_ms \in Nat /\ low \in Nat /\ distrust_ms <= low
  BY DEF VsupInv
<1>3. v_track # NaN => Vsup!InBand(v_track, v_track)
  BY <1>2, TrackedBand
<1>4. ASSUME NEW level \in Int PROVE Vsup!Floored(level) \in Int /\ Vsup!Floored(level) >= FloorV /\ Vsup!Floored(level) >= level
  BY <1>1 DEF Vsup!Floored
<1>5. CASE Vsup!NoReading(v)
  BY <1>1, <1>2, <1>3, <1>5 DEF Vsup!NoReading
<1>6. CASE Vsup!Absurd(v)
  <2>1. v # NaN /\ v \in Int /\ v < MinV /\ v_track' = v_track /\ distrust_ms' = distrust_ms
    BY <1>6 DEF Vsup!Absurd
  <2> DEFINE level == IF v_track # NaN /\ v_track >= MinV THEN v_track ELSE MaxV
  <2>2. level \in Int /\ clamp' = Vsup!Floored(level)
    BY <1>1, <1>2, <1>6 DEF Vsup!Absurd
  <2>3. clamp' \in Int /\ clamp' >= FloorV /\ clamp' >= v
    BY <1>1, <1>4, <2>1, <2>2
  <2>4. low' = low
    BY <1>1, <2>1
  <2>5. QED
    BY <1>1, <1>2, <1>3, <2>1, <2>3, <2>4
<1>7. CASE Vsup!Follows(v)
  <2>1. /\ v # NaN /\ v \in Int /\ v >= MinV
        /\ v_track # NaN => Vsup!InBand(v, v_track)
        /\ v_track' = Vsup!Saturated(v) /\ distrust_ms' = 0
        /\ clamp' = Vsup!Floored(Vsup!Higher(v, v_track'))
    BY <1>7 DEF Vsup!Follows, Vsup!AfterFollow
  <2>2. v_track' \in MinV .. MaxV /\ v_track' \in Int
    BY <1>1, <2>1 DEF Vsup!Saturated
  <2>3. Vsup!Higher(v, v_track') \in Int /\ Vsup!Higher(v, v_track') >= v
    BY <2>1, <2>2, HigherOfTwo
  <2>4. clamp' \in Int /\ clamp' >= FloorV /\ clamp' >= v
    BY <1>1, <1>4, <2>1, <2>3
  <2>5. low' \in Nat /\ 0 <= low'
    BY <1>1, <1>2, <2>1
  <2>6. v_track # NaN => Vsup!InBand(v_track', v_track)
    BY <1>1, <1>2, <2>1 DEF Vsup!Saturated, Vsup!InBand
  <2>7. QED
    BY <1>1, <2>1, <2>2, <2>4, <2>5, <2>6
<1>8. CASE Vsup!Distrusts(v)
  <2> DEFINE anchors == distrust_ms + 1 >= Distrust
  <2>1. /\ v # NaN /\ v \in Int /\ v >= MinV
        /\ v_track # NaN /\ ~Vsup!InBand(v, v_track)
        /\ v_track' = IF anchors THEN v ELSE v_track
        /\ distrust_ms' = IF anchors THEN 0 ELSE distrust_ms + 1
        /\ clamp' = Vsup!Floored(Vsup!Higher(v, v_track'))
    BY <1>8 DEF Vsup!Distrusts
  <2>2. v_track \in MinV .. MaxV /\ v \in MinV .. MaxV
    BY <1>1, <1>2, <2>1 DEF Vsup!InBand
  <2>3. v_track' \in MinV .. MaxV /\ v_track' \in Int
    BY <1>1, <2>1, <2>2
  <2>4. Vsup!Higher(v, v_track') \in Int /\ Vsup!Higher(v, v_track') >= v
    BY <2>1, <2>3, HigherOfTwo
  <2>5. clamp' \in Int /\ clamp' >= FloorV /\ clamp' >= v
    BY <1>1, <1>4, <2>1, <2>4
  <2>6. low' = IF low < Distrust THEN low + 1 ELSE low
    BY <1>1, <2>1
  <2>7. /\ distrust_ms' \in Nat /\ low' \in Nat /\ distrust_ms' <= low'
        /\ anchors => low' >= Distrust
    BY <1>1, <1>2, <2>1, <2>6
  <2>8. ~anchors => Vsup!InBand(v_track', v_track)
    BY <1>3, <2>1
  <2>9. QED
    BY <1>1, <2>1, <2>3, <2>5, <2>7, <2>8
<1>9. QED
  BY <1>5, <1>6, <1>7, <1>8

\* A share of a voltage puts no more on the rotor when the bus is lower.
LEMMA ShareOfBus ==
  ASSUME NEW r \in Nat, NEW v \in Nat \ {0}, NEW b \in Nat, b <= v
  PROVE  (r \div v) \in Nat /\ (r \div v) * b <= r
<1> DEFINE d == r \div v
<1>1. d \in Nat /\ d * v <= r
  OBVIOUS
<1> HIDE DEF d
<1>2. d * b <= d * v
  BY <1>1
<1>3. d * b \in Nat /\ d * v \in Nat
  BY <1>1
<1>4. (r \div v) \in Nat /\ (r \div v) * b <= r
  BY <1>1, <1>2, <1>3 DEF d
<1>5. QED
  BY <1>4

LEMMA DutyMaxRated ==
  ASSUME Vsup!SupplyAssumption, NEW v \in Int, NEW b \in Nat, b <= v
  PROVE  Vsup!DutyMax(v) * b <= 1000 * Rotor
<1>1. Rotor \in Nat /\ NaN \notin Int /\ 1000 * Rotor \in Nat
  BY DEF Vsup!SupplyAssumption
<1>2. CASE v <= 0
  BY <1>1, <1>2 DEF Vsup!DutyMax
<1>3. CASE v > 0 /\ Rotor >= v
  BY <1>1, <1>3 DEF Vsup!DutyMax
<1>4. CASE v > 0 /\ ~(Rotor >= v)
  <2>1. Vsup!DutyMax(v) = (1000 * Rotor) \div v
    BY <1>1, <1>4 DEF Vsup!DutyMax
  <2>2. v \in Nat \ {0}
    BY <1>4
  <2>3. QED
    BY <1>1, <2>1, <2>2, ShareOfBus
<1>5. QED
  BY <1>2, <1>3, <1>4

LEMMA VsupStep ==
  ASSUME Vsup!SupplyAssumption, VsupInv, Vsup!OneGoodChannelIsEnough,
         [Vsup!GuardNext]_(Vsup!guardVars)
  PROVE  /\ VsupInv' /\ Vsup!OneGoodChannelIsEnough'
         /\ clamp' # NaN => clamp' >= FloorV
         /\ v_track # NaN /\ ~Vsup!InBand(v_track', v_track) => low' >= Distrust
<1>1. /\ NaN \notin Int /\ Readings \subseteq Int \cup {NaN} /\ Buses \subseteq Nat
  BY DEF Vsup!SupplyAssumption
<1>2. ASSUME UNCHANGED <<v_track, distrust_ms, clamp, low>>
      PROVE  /\ clamp' # NaN => clamp' >= FloorV
             /\ v_track # NaN /\ ~Vsup!InBand(v_track', v_track) => low' >= Distrust
  BY <1>2, TrackedBand DEF VsupInv
<1>3. CASE UNCHANGED Vsup!guardVars
  BY <1>2, <1>3 DEF Vsup!guardVars, VsupInv, Vsup!OneGoodChannelIsEnough
<1>4. ASSUME NEW v \in Buses, Vsup!Sags(v)
      PROVE  /\ VsupInv' /\ Vsup!OneGoodChannelIsEnough'
             /\ UNCHANGED <<v_track, distrust_ms, clamp, low>>
  BY <1>1, <1>4 DEF Vsup!Sags, VsupInv, Vsup!OneGoodChannelIsEnough
<1>5. ASSUME NEW vsup \in Readings, NEW vbat \in Readings, Vsup!Guard(vsup, vbat)
      PROVE  /\ VsupInv' /\ Vsup!OneGoodChannelIsEnough'
             /\ clamp' # NaN => clamp' >= FloorV
             /\ v_track # NaN /\ ~Vsup!InBand(v_track', v_track) => low' >= Distrust
  <2> DEFINE v == Vsup!Higher(vsup, vbat)
  <2>1. /\ vsup \in Int \cup {NaN} /\ vbat \in Int \cup {NaN}
        /\ bus' = bus /\ bus \in Nat
    BY <1>1, <1>5 DEF Vsup!Guard, VsupInv
  <2>2. /\ v \in Int \cup {NaN}
        /\ bus \in {vsup, vbat} => v \in Int /\ v # NaN /\ v >= bus
    <3>1. /\ v \in {vsup, vbat}
          /\ vsup # NaN => v \in Int /\ v >= vsup
          /\ vbat # NaN => v \in Int /\ v >= vbat
      BY <2>1, HigherOfTwo
    <3>2. bus # NaN
      BY <1>1, <2>1
    <3> HIDE DEF v
    <3>3. bus \in {vsup, vbat} => v \in Int /\ v >= bus
      BY <3>1, <3>2
    <3>4. v \in Int \cup {NaN} /\ (v \in Int => v # NaN)
      BY <1>1, <2>1, <3>1
    <3>5. QED
      BY <3>3, <3>4
  <2>3. /\ Vsup!NoReading(v) \/ Vsup!Absurd(v) \/ Vsup!Follows(v) \/ Vsup!Distrusts(v)
        /\ low' = (IF v = NaN \/ v_track = NaN THEN low
                   ELSE IF v >= MinV /\ Vsup!InBand(v, v_track) THEN 0
                   ELSE IF v >= MinV /\ low < Distrust THEN low + 1 ELSE low)
        /\ duty' = Vsup!DutyMax(clamp')
        /\ honest' = (bus \in {vsup, vbat})
    BY <1>5 DEF Vsup!Guard, Vsup!CrossCheck
  <2> HIDE DEF v
  <2>4. /\ v_track' \in Int \cup {NaN} /\ (v_track' # NaN => v_track' \in MinV .. MaxV)
        /\ distrust_ms' \in Nat /\ low' \in Nat /\ distrust_ms' <= low'
        /\ clamp' \in Int \cup {NaN} /\ (clamp' # NaN => clamp' >= FloorV)
        /\ v # NaN => clamp' # NaN /\ clamp' >= v
        /\ (v_track # NaN /\ ~Vsup!InBand(v_track', v_track)) => low' >= Distrust
    BY <2>2, <2>3, GuardTick
  <2>5. honest' => clamp' \in Int /\ bus <= clamp'
    <3>1. SUFFICES ASSUME bus \in {vsup, vbat} PROVE clamp' \in Int /\ bus <= clamp'
      BY <2>3
    <3>2. v \in Int /\ v >= bus /\ clamp' \in Int /\ clamp' >= v
      BY <1>1, <2>2, <2>4, <3>1
    <3>3. QED
      BY <2>1, <3>2
  <2>6. honest' => Vsup!DutyMax(clamp') * bus <= 1000 * Rotor
    BY <2>1, <2>5, DutyMaxRated
  <2>7. Vsup!OneGoodChannelIsEnough'
    BY <2>1, <2>3, <2>6 DEF Vsup!OneGoodChannelIsEnough
  <2>8. VsupInv'
    BY <2>1, <2>3, <2>4 DEF VsupInv
  <2>9. QED
    BY <2>4, <2>7, <2>8
<1>6. QED
  BY <1>2, <1>3, <1>4, <1>5 DEF Vsup!GuardNext

LEMMA VsupInvariance ==
  ASSUME Vsup!SupplyAssumption
  PROVE  GuardSpec => [](VsupInv /\ Vsup!OneGoodChannelIsEnough)
<1>1. Vsup!GuardInit => VsupInv /\ Vsup!OneGoodChannelIsEnough
  <2>1. Vsup!GuardInit => bus \in Nat /\ honest = FALSE
    BY DEF Vsup!GuardInit, Vsup!SupplyAssumption
  <2>2. Vsup!GuardInit => Vsup!OneGoodChannelIsEnough
    BY <2>1 DEF Vsup!OneGoodChannelIsEnough
  <2>3. Vsup!GuardInit => VsupInv
    <3>1. SUFFICES ASSUME Vsup!GuardInit PROVE VsupInv
      OBVIOUS
    <3>2. v_track = NaN /\ clamp = NaN /\ distrust_ms = 0 /\ low = 0 /\ honest = FALSE
      BY <3>1 DEF Vsup!GuardInit
    <3>3. bus \in Nat /\ honest \in BOOLEAN
      BY <2>1, <3>1
    <3>4. distrust_ms \in Nat /\ low \in Nat /\ distrust_ms <= low
      BY <3>2
    <3>5. QED
      BY <3>2, <3>3, <3>4 DEF VsupInv
  <2>4. QED
    BY <2>2, <2>3
<1>2. (VsupInv /\ Vsup!OneGoodChannelIsEnough) /\ [Vsup!GuardNext]_(Vsup!guardVars)
        => (VsupInv /\ Vsup!OneGoodChannelIsEnough)'
  BY VsupStep
<1>3. QED
  BY <1>1, <1>2, PTL DEF GuardSpec

\* While one channel reads the bus, full effort puts no more on the rotor than its rating.
THEOREM OneChannelSuffices ==
  ASSUME Vsup!SupplyAssumption
  PROVE  GuardSpec => []Vsup!OneGoodChannelIsEnough
BY VsupInvariance, PTL

\* The clamp stays above its floor, and leaves a trusted level only for a proven one.
THEOREM TightAlways ==
  ASSUME Vsup!SupplyAssumption
  PROVE  GuardSpec => Vsup!TightUntilProven
<1>1. (VsupInv /\ Vsup!OneGoodChannelIsEnough) /\ [Vsup!GuardNext]_(Vsup!guardVars) =>
        [/\ clamp' # NaN => clamp' >= FloorV
         /\ v_track # NaN /\ ~Vsup!InBand(v_track', v_track) => low' >= Distrust]_(Vsup!guardVars)
  BY VsupStep
<1>2. QED
  BY <1>1, VsupInvariance, PTL DEF GuardSpec, Vsup!TightUntilProven

-----------------------------------------------------------------------------
(* THE STACK SCAN (StackPaint) *)

\* What lies below all that was used, and below the guard, is still painted.
StackInv ==
    /\ s_scan \in Nat \ {0} /\ s_used_max \in 0 .. Words /\ deepest \in 1 .. Words
    /\ \A word \in 1 .. Words : word < deepest /\ word + Unpainted < Words => word \in painted
    /\ Stack!NeverOverstates

LEMMA LeastOf ==
  ASSUME NEW S \in SUBSET Nat, S # {}
  PROVE  Stack!Min(S) \in S /\ \A y \in S : Stack!Min(S) <= y
BY NatMin DEF Stack!Min

LEMMA GreaterOf ==
  ASSUME NEW a \in Int, NEW b \in Int
  PROVE  Stack!Max({a, b}) \in {a, b} /\ Stack!Max({a, b}) >= a /\ Stack!Max({a, b}) >= b
<1>1. \E x \in {a, b} : \A y \in {a, b} : x >= y
  <2>1. CASE a >= b
    BY <2>1
  <2>2. CASE b >= a
    BY <2>2
  <2>3. QED
    BY <2>1, <2>2
<1>2. QED
  BY <1>1 DEF Stack!Max

LEMMA StackInvStep ==
  ASSUME Stack!StackAssumption, StackInv, [Stack!StackNext]_(Stack!stackVars)
  PROVE  StackInv'
<1>1. Words \in Nat \ {0} /\ Unpainted \in Nat /\ ScanStep \in Nat \ {0}
  BY DEF Stack!StackAssumption
<1>2. CASE Stack!Housekeeping
  <2> DEFINE stops == Stack!Stops
             stop == IF stops # {} THEN Stack!Min(stops) ELSE s_scan + ScanStep
  <2>1. /\ s_scan' = stop /\ painted' = painted /\ deepest' = deepest
        /\ s_used_max' = IF stops # {} THEN Stack!Max({s_used_max, Words + 1 - stop}) ELSE s_used_max
    BY <1>2 DEF Stack!Housekeeping, Stack!Reports
  <2>2. stops \in SUBSET (Nat \ {0}) /\ \A word \in stops : word > Words \/ word \notin painted
    BY <1>1 DEF Stack!Stops, StackInv
  <2> HIDE DEF stops
  <2>3. CASE stops = {}
    BY <1>1, <2>1, <2>3 DEF StackInv, Stack!NeverOverstates
  <2>4. CASE stops # {}
    <3>1. stop \in stops /\ stop = Stack!Min(stops)
      BY <2>2, <2>4, LeastOf
    <3>2. stop \in Nat \ {0} /\ (stop > Words \/ stop \notin painted)
      BY <2>2, <3>1
    <3> HIDE DEF stop
    <3> DEFINE m == Stack!Max({s_used_max, Words + 1 - stop})
    <3>3. s_used_max \in Int /\ Words + 1 - stop \in Int /\ s_used_max \in 0 .. Words
      BY <1>1, <3>2 DEF StackInv
    <3>4. m \in {s_used_max, Words + 1 - stop} /\ m >= s_used_max
      BY <3>3, GreaterOf
    <3>5. s_used_max' = m
      BY <2>1, <2>4
    <3> HIDE DEF m
    <3>6. CASE m = s_used_max
      BY <2>1, <3>2, <3>5, <3>6 DEF StackInv, Stack!NeverOverstates
    <3>7. CASE m = Words + 1 - stop /\ m # s_used_max
      <4>1. m > 0 /\ stop <= Words
        BY <1>1, <3>2, <3>3, <3>4, <3>7
      <4>2. stop \in 1 .. Words /\ stop \notin painted /\ m = Words + 1 - stop /\ m \in 0 .. Words
        BY <1>1, <3>2, <3>7, <4>1
      <4>3. deepest \in 1 .. Words /\ (stop >= deepest \/ stop + Unpainted >= Words)
        BY <1>1, <4>2 DEF StackInv
      <4>4. m <= Words + 1 - deepest \/ m <= Unpainted + 1
        BY <1>1, <4>2, <4>3
      <4>5. QED
        BY <2>1, <3>2, <3>5, <4>2, <4>4 DEF StackInv, Stack!NeverOverstates
    <3>8. QED
      BY <3>4, <3>6, <3>7
  <2>5. QED
    BY <2>3, <2>4
<1>3. CASE \E d \in 1 .. Words : \E written \in {{}, d .. Words} : Stack!Call(d, written)
  <2> PICK d \in 1 .. Words : \E written \in {{}, d .. Words} : Stack!Call(d, written)
    BY <1>3
  <2>1. PICK written \in {{}, d .. Words} : Stack!Call(d, written)
    OBVIOUS
  <2>2. /\ painted' = painted \ (written \cup {d}) /\ deepest' = Stack!Min({deepest, d})
        /\ s_scan' = s_scan /\ s_used_max' = s_used_max
    BY <2>1 DEF Stack!Call
  <2>3. deepest' \in {deepest, d} /\ deepest' <= deepest /\ deepest' <= d
    <3>1. {deepest, d} \in SUBSET Nat
      BY <1>1 DEF StackInv
    <3>2. QED
      BY <2>2, <3>1, LeastOf
  <2>4. deepest' \in 1 .. Words
    BY <2>3 DEF StackInv
  <2>5. ASSUME NEW word \in 1 .. Words, word < deepest', word + Unpainted < Words
        PROVE  word \in painted'
    <3>1. word < deepest /\ word < d
      BY <1>1, <2>3, <2>4, <2>5 DEF StackInv
    <3>2. word \in painted /\ word \notin written \cup {d}
      BY <1>1, <2>5, <3>1 DEF StackInv
    <3>3. QED
      BY <2>2, <3>2
  <2>6. Stack!NeverOverstates'
    BY <1>1, <2>2, <2>3, <2>4 DEF StackInv, Stack!NeverOverstates
  <2>7. QED
    BY <2>2, <2>4, <2>5, <2>6 DEF StackInv
<1>4. CASE UNCHANGED Stack!stackVars
  BY <1>4 DEF Stack!stackVars, StackInv, Stack!NeverOverstates
<1>5. QED
  BY <1>2, <1>3, <1>4 DEF Stack!StackNext

\* No more of the stack is reported than was used, but for the guard that is not painted.
THEOREM ScanNeverOverstates ==
  ASSUME Stack!StackAssumption
  PROVE  StackSpec => []Stack!NeverOverstates
<1>1. Stack!StackInit => StackInv
  BY DEF Stack!StackInit, Stack!PaintStack, StackInv, Stack!StackAssumption, Stack!NeverOverstates
<1>2. StackInv /\ [Stack!StackNext]_(Stack!stackVars) => StackInv'
  BY StackInvStep
<1>3. StackInv => Stack!NeverOverstates
  BY DEF StackInv
<1>4. QED
  BY <1>1, <1>2, <1>3, PTL DEF StackSpec

-----------------------------------------------------------------------------
(* THE FIELD GUARD OF THE BENCH (BenchField) *)

Guards == [on : BOOLEAN, duty : 0 .. Cap, age : 0 .. Timeout, ccr : 0 .. Cap, faulted : BOOLEAN]

\* The guard tells the truth, and the field is live only inside a window that it will end.
Watched(g, waiting) ==
    /\ g \in Guards
    /\ g.duty = g.ccr /\ (g.on <=> g.ccr > 0) /\ (g.faulted => g.ccr = 0)
    /\ g.ccr > 0 => g.age < Timeout \/ waiting > 0

BenchInv ==
    /\ Watched(Bench!Guarded, due)
    /\ rx \in Seq(Bench!Lines) /\ s_line \in BOOLEAN
    /\ due \in {0, 1} /\ (loop = "tick" => due = 1)

LEMMA OffWatched ==
  ASSUME Bench!BenchAssumption, NEW g, NEW d, g \in Guards
  PROVE  /\ Bench!GuardOff(g) \in Guards /\ Bench!GuardOff(g).ccr = 0
         /\ Watched(Bench!GuardOff(g), d)
<1> DEFINE h == Bench!GuardOff(g)
<1>1. h = [g EXCEPT !.on = FALSE, !.duty = 0, !.ccr = 0] /\ 0 \in 0 .. Cap
  BY DEF Bench!GuardOff, Bench!BenchAssumption
<1> HIDE DEF h
<1>2. h \in Guards /\ h.on = FALSE /\ h.duty = 0 /\ h.ccr = 0
  BY <1>1 DEF Guards
<1>3. Watched(h, d)
  BY <1>2 DEF Watched
<1>4. QED
  BY <1>2, <1>3 DEF h

LEMMA SetWatched ==
  ASSUME Bench!BenchAssumption, NEW g, NEW d, g \in Guards, NEW pct \in Int
  PROVE  Watched(Bench!GuardSet(g, pct), d)
<1> DEFINE h == Bench!GuardSet(g, pct)  c == Bench!Clamp(pct)
<1>1. Cap \in Nat /\ Timeout \in Nat \ {0} /\ 0 \in 0 .. Cap /\ 0 \in 0 .. Timeout
  BY DEF Bench!BenchAssumption
<1>2. c \in 0 .. Cap
  BY <1>1 DEF Bench!Clamp
<1>3. CASE g.faulted
  <2>1. h = [g EXCEPT !.on = FALSE, !.duty = 0, !.ccr = 0]
    BY <1>3 DEF Bench!GuardSet
  <2> HIDE DEF h
  <2>2. h \in Guards /\ h.on = FALSE /\ h.duty = 0 /\ h.ccr = 0
    BY <1>1, <2>1 DEF Guards
  <2>3. QED
    BY <2>2 DEF Watched, h
<1>4. CASE ~g.faulted
  <2> DEFINE live == c > 0
  <2>1. h = [g EXCEPT !.on = live, !.duty = c, !.age = 0, !.ccr = c] /\ live \in BOOLEAN
    BY <1>4 DEF Bench!GuardSet
  <2> HIDE DEF h, c, live
  <2>2. /\ h \in Guards /\ h.on = live /\ h.duty = c /\ h.ccr = c /\ h.age = 0
        /\ h.faulted = g.faulted
    BY <1>1, <1>2, <2>1 DEF Guards
  <2>3. h.age < Timeout
    BY <1>1, <2>2
  <2>4. h.on <=> h.ccr > 0
    BY <2>2, Zenon DEF live
  <2>5. QED
    BY <1>4, <2>2, <2>3, <2>4 DEF Watched, h
<1>5. QED
  BY <1>3, <1>4

LEMMA DispatchWatched ==
  ASSUME Bench!BenchAssumption, NEW g, NEW half \in BOOLEAN, NEW d,
         Watched(g, d), NEW l \in Bench!Lines
  PROVE  LET s == Bench!Dispatch([g |-> g, half |-> half], l) IN Watched(s.g, d) /\ s.half \in BOOLEAN
<1> DEFINE r == [g |-> g, half |-> half]  s == Bench!Dispatch(r, l)
<1>1. g \in Guards /\ r.g = g /\ r.half = half
  BY DEF Watched
<1>2. CASE l.cmd = "half" \/ half
  <2>1. s = [r EXCEPT !.half = (l.cmd = "half")]
    BY <1>1, <1>2 DEF Bench!Dispatch
  <2>2. s.g = g /\ s.half = (l.cmd = "half")
    BY <1>1, <2>1
  <2>3. QED
    BY <2>2
<1>4. CASE l.cmd = "field" /\ ~half
  <2>1. s = [r EXCEPT !.g = Bench!GuardSet(g, l.pct)]
    BY <1>1, <1>4 DEF Bench!Dispatch
  <2>2. l.pct \in Int
    <3>1. CASE \E p \in Percents : l = Bench!Field(p)
      BY <3>1 DEF Bench!Field, Bench!BenchAssumption
    <3>2. CASE \E c \in {"off", "cutoff", "other", "half"} : l = Bench!Line(c)
      BY <3>2 DEF Bench!Line
    <3>3. QED
      BY <3>1, <3>2 DEF Bench!Lines
  <2>3. Watched(Bench!GuardSet(g, l.pct), d)
    BY <1>1, <2>2, SetWatched
  <2>4. s.g = Bench!GuardSet(g, l.pct) /\ s.half = half
    BY <2>1
  <2>5. QED
    BY <2>3, <2>4
<1>5. CASE l.cmd = "off" /\ ~half
  <2>1. s = [r EXCEPT !.g = Bench!GuardOff(g)]
    BY <1>1, <1>5 DEF Bench!Dispatch
  <2>2. s.g = Bench!GuardOff(g) /\ s.half = half
    BY <2>1
  <2>3. QED
    BY <1>1, <2>2, OffWatched
<1>6. CASE l.cmd = "cutoff" /\ ~half
  <2> DEFINE f == [g EXCEPT !.faulted = TRUE]
  <2>1. s = [r EXCEPT !.g = Bench!GuardOff(f)]
    BY <1>1, <1>6 DEF Bench!Dispatch
  <2>2. f \in Guards /\ s.g = Bench!GuardOff(f) /\ s.half = half
    BY <1>1, <2>1 DEF Guards
  <2>3. QED
    BY <2>2, OffWatched
<1>7. CASE l.cmd \notin {"half", "field", "off", "cutoff"} /\ ~half
  <2>1. s = r
    BY <1>1, <1>7 DEF Bench!Dispatch
  <2>2. QED
    BY <1>1, <2>1
<1>8. QED
  BY <1>2, <1>4, <1>5, <1>6, <1>7

LEMMA BenchInvStep ==
  ASSUME Bench!BenchAssumption, BenchInv, [Bench!BenchNext]_(Bench!benchVars)
  PROVE  /\ BenchInv'
         /\ Bench!LookAtLink /\ link_was_up /\ ~link_up => ccr' = 0
<1> DEFINE g == Bench!Guarded
<1>1. Cap \in Nat /\ Timeout \in Nat \ {0}
  BY DEF Bench!BenchAssumption
<1>2. /\ g \in Guards /\ g.on = s_commanded /\ g.duty = s_applied_duty /\ g.age = s_last_cmd
      /\ g.ccr = ccr /\ g.faulted = s_faulted /\ Watched(g, due)
  BY DEF BenchInv, Watched, Bench!Guarded
\* What a step leaves is what it computes.
<1>3. ASSUME NEW h \in Guards, Bench!Guard(h) PROVE Bench!Guarded' = h
  BY <1>3 DEF Bench!Guard, Bench!Guarded, Guards
<1>4. UNCHANGED <<s_commanded, s_applied_duty, s_last_cmd, ccr, s_faulted>> => Bench!Guarded' = g
  BY DEF Bench!Guarded
<1> HIDE DEF g
<1>5. CASE Bench!ConsolePoll
  <2>1. /\ due' = due /\ due \in {0, 1} /\ rx \in Seq(Bench!Lines) /\ s_line \in BOOLEAN
        /\ loop' \in {"poll", "link"} /\ ~Bench!LookAtLink
    BY <1>5 DEF Bench!ConsolePoll, Bench!LookAtLink, BenchInv
  <2>2. CASE rx = <<>> /\ UNCHANGED <<rx, s_line, s_commanded, s_applied_duty, s_last_cmd, ccr, s_faulted>>
    BY <1>2, <1>4, <2>1, <2>2 DEF BenchInv
  <2>3. CASE rx # <<>> /\ rx' = Tail(rx)
             /\ LET s == Bench!Dispatch([g |-> g, half |-> s_line], Head(rx)) IN
                  s_line' = s.half /\ Bench!Guard(s.g)
    <3> DEFINE s == Bench!Dispatch([g |-> g, half |-> s_line], Head(rx))
    <3>1. Head(rx) \in Bench!Lines /\ rx' \in Seq(Bench!Lines)
      BY <2>1, <2>3
    <3>2. Watched(s.g, due) /\ s.half \in BOOLEAN /\ s_line' = s.half
      BY <1>2, <2>1, <2>3, <3>1, DispatchWatched
    <3>3. s.g \in Guards /\ Bench!Guard(s.g)
      BY <2>3, <3>2 DEF Watched
    <3> HIDE DEF s
    <3>4. Bench!Guarded' = s.g
      BY <1>3, <3>3
    <3>5. QED
      BY <2>1, <3>1, <3>2, <3>4 DEF BenchInv
  <2>4. QED
    BY <1>5, <2>2, <2>3 DEF Bench!ConsolePoll, Bench!console, Bench!guard, g
<1>6. CASE Bench!LookAtLink
  <2> DEFINE h == IF Bench!Drops THEN Bench!GuardLinkLost(g) ELSE g
  <2>1. /\ due' = due /\ rx' = rx /\ Bench!Guard(h)
        /\ loop' = (IF due > 0 THEN "tick" ELSE "poll")
        /\ s_line' = (IF ~link_was_up /\ link_up THEN FALSE ELSE s_line)
    BY <1>6 DEF Bench!LookAtLink, g
  <2>2. Watched(h, due) /\ (Bench!Drops => h.ccr = 0)
    <3>1. CASE Bench!Drops /\ g.on
      BY <1>2, <3>1, OffWatched DEF Bench!GuardLinkLost
    <3>2. CASE Bench!Drops /\ ~g.on
      <4>1. h = g /\ g.ccr \in 0 .. Cap /\ ~(g.ccr > 0)
        BY <1>2, <3>2 DEF Bench!GuardLinkLost, Watched, Guards
      <4>2. QED
        BY <1>1, <1>2, <4>1
    <3>3. CASE ~Bench!Drops
      BY <1>2, <3>3
    <3>4. QED
      BY <3>1, <3>2, <3>3
  <2> HIDE DEF h
  <2>3. Bench!Guarded' = h /\ ccr' = h.ccr
    BY <1>3, <2>1, <2>2 DEF Watched, Bench!Guard
  <2>4. link_was_up /\ ~link_up => ccr' = 0
    BY <2>2, <2>3 DEF Bench!Drops
  <2>5. s_line' \in BOOLEAN /\ (loop' = "tick" => due = 1) /\ due \in {0, 1}
    <3>1. s_line' = FALSE \/ s_line' = s_line
      BY <2>1, Zenon
    <3>2. s_line \in BOOLEAN /\ due \in {0, 1}
      BY DEF BenchInv
    <3>3. s_line' \in BOOLEAN
      BY <3>1, <3>2, Zenon
    <3>4. loop' = "tick" => due = 1
      BY <2>1, <3>2
    <3>5. QED
      BY <3>2, <3>3, <3>4
  <2>6. BenchInv'
    BY <2>1, <2>2, <2>3, <2>5 DEF BenchInv
  <2>7. QED
    BY <2>4, <2>6
<1>7. CASE Bench!Tick
  <2> DEFINE h == Bench!GuardPoll(g)
  <2>1. /\ due' = due - 1 /\ Bench!Guard(h) /\ loop = "tick" /\ loop' = "poll"
        /\ rx' = rx /\ s_line' = s_line
    BY <1>7 DEF Bench!Tick, Bench!console, g
  <2>2. \A d : Watched(h, d)
    <3>1. CASE g.on /\ g.age >= Timeout
      BY <1>2, <3>1, OffWatched DEF Bench!GuardPoll
    <3>2. CASE ~(g.on /\ g.age >= Timeout)
      <4>1. h = g
        BY <3>2 DEF Bench!GuardPoll
      <4>2. g.ccr > 0 => g.age < Timeout
        BY <1>1, <1>2, <3>2 DEF Watched, Guards
      <4>3. QED
        BY <1>2, <4>1, <4>2 DEF Watched
    <3>3. QED
      BY <3>1, <3>2
  <2> HIDE DEF h
  <2>3. Bench!Guarded' = h
    BY <1>3, <2>1, <2>2 DEF Watched
  <2>4. due = 1 /\ ~Bench!LookAtLink
    BY <2>1 DEF BenchInv, Bench!LookAtLink
  <2>5. QED
    BY <2>1, <2>2, <2>3, <2>4 DEF BenchInv
<1>8. CASE (\E l \in Bench!Lines : Bench!Receive(l)) \/ Bench!OpensOrCloses \/ UNCHANGED Bench!benchVars
  <2>1. /\ due' = due /\ loop' = loop /\ s_line' = s_line
        /\ UNCHANGED <<s_commanded, s_applied_duty, s_last_cmd, ccr, s_faulted>>
        /\ rx' = rx \/ \E l \in Bench!Lines : rx' = Append(rx, l)
    BY <1>8 DEF Bench!Receive, Bench!OpensOrCloses, Bench!benchVars, Bench!guard, Bench!console
  <2>2. rx' \in Seq(Bench!Lines)
    BY <2>1 DEF BenchInv
  <2>3. BenchInv'
    BY <1>2, <1>4, <2>1, <2>2 DEF BenchInv
  <2>4. Bench!LookAtLink /\ link_was_up /\ ~link_up => ccr' = 0
    BY <1>8 DEF Bench!LookAtLink, Bench!Receive, Bench!OpensOrCloses, Bench!benchVars
  <2>5. QED
    BY <2>3, <2>4
<1>9. CASE Bench!Elapse
  <2>1. /\ due' = 1 /\ s_last_cmd' = (IF s_last_cmd < Timeout THEN s_last_cmd + 1 ELSE Timeout)
        /\ UNCHANGED <<loop, rx, s_line, s_commanded, s_applied_duty, ccr, s_faulted>>
        /\ ~Bench!LookAtLink
    BY <1>9 DEF Bench!Elapse, Bench!console, Bench!LookAtLink
  <2> DEFINE h == [g EXCEPT !.age = s_last_cmd']
  <2>2. s_last_cmd' \in 0 .. Timeout
    BY <1>1, <1>2, <2>1 DEF Guards
  <2>3. Bench!Guarded' = h
    BY <2>1 DEF Bench!Guarded, g
  <2>4. Watched(h, 1)
    BY <1>2, <2>2 DEF Watched, Guards
  <2>5. QED
    BY <2>1, <2>3, <2>4 DEF BenchInv
<1>10. QED
  BY <1>5, <1>6, <1>7, <1>8, <1>9 DEF Bench!BenchNext, Bench!BenchLoop

LEMMA BenchInvariance ==
  ASSUME Bench!BenchAssumption
  PROVE  BenchSpec => []BenchInv
<1>1. Bench!BenchInit => BenchInv
  <2>1. SUFFICES ASSUME Bench!BenchInit PROVE BenchInv
    OBVIOUS
  <2>2. Bench!Guarded = [on |-> FALSE, duty |-> 0, age |-> 0, ccr |-> 0, faulted |-> s_faulted]
        /\ s_faulted \in BOOLEAN /\ rx = <<>> /\ due = 0 /\ s_line \in BOOLEAN
        /\ loop = "poll"
    BY <2>1 DEF Bench!BenchInit, Bench!Guarded
  <2>3. 0 \in 0 .. Cap /\ 0 \in 0 .. Timeout /\ ~(0 > 0)
    BY DEF Bench!BenchAssumption
  <2>4. Watched(Bench!Guarded, due)
    BY <2>2, <2>3 DEF Watched, Guards
  <2>5. QED
    BY <2>2, <2>4 DEF BenchInv
<1>2. BenchInv /\ [Bench!BenchNext]_(Bench!benchVars) => BenchInv'
  BY BenchInvStep
<1>3. QED
  BY <1>1, <1>2, PTL DEF BenchSpec

LEMMA BenchAlwaysGuarded ==
  ASSUME Bench!BenchAssumption
  PROVE  BenchSpec => [](Bench!FieldIsGuarded /\ Bench!StatusIsTrue)
<1>1. BenchInv => Bench!FieldIsGuarded /\ Bench!StatusIsTrue
  <2>1. SUFFICES ASSUME BenchInv PROVE Bench!FieldIsGuarded /\ Bench!StatusIsTrue
    OBVIOUS
  <2>2. /\ s_commanded \in BOOLEAN /\ s_applied_duty = ccr /\ ccr \in 0 .. Cap
        /\ (s_commanded <=> ccr > 0) /\ (s_faulted => ccr = 0)
        /\ ccr > 0 => s_last_cmd < Timeout \/ due > 0
    BY <2>1 DEF BenchInv, Watched, Guards, Bench!Guarded
  <2>3. ccr <= Cap
    BY <2>2 DEF Bench!BenchAssumption
  <2>4. QED
    BY <2>2, <2>3 DEF Bench!FieldIsGuarded, Bench!StatusIsTrue
<1>2. QED
  BY <1>1, BenchInvariance, PTL

\* A loop that finds the session gone leaves the field off.
THEOREM SessionEndCuts ==
  ASSUME Bench!BenchAssumption
  PROVE  BenchSpec => Bench!DropCuts
<1>1. BenchInv /\ [Bench!BenchNext]_(Bench!benchVars) =>
        [Bench!LookAtLink /\ link_was_up /\ ~link_up => ccr' = 0]_(Bench!benchVars)
  BY BenchInvStep
<1>2. QED
  BY <1>1, BenchInvariance, PTL DEF BenchSpec, Bench!DropCuts

-----------------------------------------------------------------------------
(* THE SELF-TESTS OF THE BENCH (BenchTests) *)

\* bxCAN is brought up for a test and torn down after it; without one it is off or, after
\* a bring-up that failed, left listening.
CanInv ==
    /\ s_run \in BOOLEAN /\ s_can_up = s_run
    /\ can_mode # "off" => s_run \/ can_mode = "normal"

\* The buses are up only for a scan, which has found on each of them the parts below the
\* address it is at.
ScanInv ==
    /\ scanning \in BOOLEAN /\ s_addr \in First .. Last
    /\ s_bus_up \in [Tests!Wires -> BOOLEAN] /\ DOMAIN s_found = Tests!Wires
    /\ scanning \/ \A b \in Tests!Wires : ~s_bus_up[b]
    /\ scanning => \A b \in Tests!Wires :
                      s_bus_up[b] => s_found[b] = {a \in Parts[b] : a < s_addr}

TestInv == CanInv /\ ScanInv

LEMMA CanPollKeeps ==
  ASSUME CanInv, Tests!CanPoll
  PROVE  /\ CanInv'
         /\ s_run /\ ~s_run' => can_mode' = "off" /\ ~fifo'
         /\ s_run /\ ~s_run' /\ fifo => s_pass' = "pass"
<1>1. CASE s_run /\ Tests!Ends
  <2>1. s_run' = FALSE /\ s_pass' = (IF fifo THEN "pass" ELSE "fail") /\ Tests!Teardown(s_can_up)
    BY <1>1 DEF Tests!CanPoll, Tests!Passed
  <2>2. s_can_up
    BY <1>1 DEF CanInv
  <2>3. s_can_up' = FALSE /\ can_mode' = "off" /\ fifo' = FALSE
    BY <2>1, <2>2 DEF Tests!Teardown
  <2>4. QED
    BY <2>1, <2>3 DEF CanInv
<1>2. CASE ~(s_run /\ Tests!Ends)
  <2>1. s_run' = s_run /\ can_mode' = can_mode /\ s_can_up' = s_can_up
    BY <1>2 DEF Tests!CanPoll, Tests!can
  <2>2. QED
    BY <2>1 DEF CanInv
<1>3. QED
  BY <1>1, <1>2

LEMMA CanStartKeeps ==
  ASSUME CanInv, NEW echo \in BOOLEAN, Tests!CanStart(echo)
  PROVE  CanInv'
<1>1. CASE Tests!Begins(echo)
  BY <1>1 DEF Tests!Begins, CanInv
<1>2. CASE Tests!BringUpFails
  <2>1. s_can_up' = FALSE /\ can_mode' \in {"off", "normal"} /\ s_run' = s_run /\ ~s_run
    BY <1>2 DEF Tests!BringUpFails, Tests!CanStart
  <2>2. QED
    BY <2>1 DEF CanInv
<1>3. CASE Tests!FirstFrameFails
  <2>1. s_can_up' = FALSE /\ can_mode' = "off" /\ s_run' = s_run /\ ~s_run
    BY <1>3 DEF Tests!FirstFrameFails, Tests!Teardown, Tests!CanStart
  <2>2. QED
    BY <2>1 DEF CanInv
<1>4. QED
  BY <1>1, <1>2, <1>3 DEF Tests!CanStart

LEMMA ScanPollKeeps ==
  ASSUME Tests!TestAssumption, ScanInv, Tests!ScanPoll
  PROVE  /\ ScanInv'
         /\ scanning /\ ~scanning' =>
              \A b \in Tests!Wires : s_bus_up[b] => s_found'[b] = Parts[b]
<1>1. /\ First \in Nat /\ Last \in Nat /\ First <= Last /\ s_addr \in First .. Last
      /\ \A b \in Tests!Wires : Parts[b] \subseteq First .. Last
  BY DEF Tests!TestAssumption, Tests!Wires, ScanInv
<1>2. CASE ~scanning
  <2>1. scanning' = scanning /\ UNCHANGED <<s_addr, s_bus_up, s_found>>
    BY <1>2 DEF Tests!ScanPoll, Tests!scan
  <2>2. QED
    BY <1>2, <2>1 DEF ScanInv
<1>3. CASE scanning
  <2> DEFINE more == s_addr < Last
  <2>1. /\ s_found' = [b \in Tests!Wires |->
                         s_found[b] \cup (IF Tests!Probes(b) THEN {s_addr} ELSE {})]
        /\ scanning' = more
        /\ s_addr' = (IF more THEN s_addr + 1 ELSE s_addr)
        /\ s_bus_up' = [b \in Tests!Wires |-> s_bus_up[b] /\ more]
    BY <1>3 DEF Tests!ScanPoll
  <2>2. more \in BOOLEAN /\ s_addr' \in First .. Last
    BY <1>1, <2>1
  \* The address just probed is the one below the next.
  <2>3. ASSUME NEW b \in Tests!Wires, s_bus_up[b]
        PROVE  s_found'[b] = {a \in Parts[b] : a <= s_addr}
    <3>1. s_found[b] = {a \in Parts[b] : a < s_addr} /\ Parts[b] \subseteq First .. Last
      BY <1>1, <1>3, <2>3 DEF ScanInv
    <3>2. s_found'[b] = s_found[b] \cup (IF s_addr \in Parts[b] THEN {s_addr} ELSE {})
      BY <2>1, <2>3 DEF Tests!Probes
    <3>3. QED
      BY <1>1, <3>1, <3>2
  <2>4. CASE more
    <3>1. ASSUME NEW b \in Tests!Wires, s_bus_up'[b]
          PROVE  s_found'[b] = {a \in Parts[b] : a < s_addr'}
      <4>1. s_bus_up[b] /\ Parts[b] \subseteq First .. Last /\ s_addr' = s_addr + 1
        BY <1>1, <2>1, <2>4, <3>1
      <4>2. QED
        BY <1>1, <2>3, <4>1
    <3>2. s_bus_up' \in [Tests!Wires -> BOOLEAN] /\ DOMAIN s_found' = Tests!Wires
      BY <2>1
    <3>3. scanning'
      BY <2>1, <2>4
    <3>4. QED
      BY <2>2, <3>1, <3>2, <3>3 DEF ScanInv
  <2>5. CASE ~more
    <3>1. ~scanning' /\ scanning' \in BOOLEAN
      BY <2>1, <2>2, <2>5
    <3>2. \A b \in Tests!Wires : ~s_bus_up'[b]
      BY <2>1, <2>5
    <3>3. s_bus_up' \in [Tests!Wires -> BOOLEAN] /\ DOMAIN s_found' = Tests!Wires
      BY <2>1
    <3>4. \A b \in Tests!Wires : s_bus_up[b] => s_found'[b] = Parts[b]
      BY <1>1, <2>3, <2>5
    <3>5. QED
      BY <2>2, <3>1, <3>2, <3>3, <3>4 DEF ScanInv
  <2>6. QED
    BY <2>4, <2>5
<1>4. QED
  BY <1>2, <1>3

LEMMA TestInvStep ==
  ASSUME Tests!TestAssumption, TestInv, [Tests!TestNext]_(Tests!testVars)
  PROVE  /\ TestInv'
         /\ scanning /\ ~scanning' =>
              \A b \in Tests!Wires : s_bus_up[b] => s_found'[b] = Parts[b]
         /\ s_run /\ ~s_run' => can_mode' = "off" /\ ~fifo'
         /\ s_run /\ ~s_run' /\ fifo => s_pass' = "pass"
<1>1. CanInv /\ ScanInv
  BY DEF TestInv
<1>2. UNCHANGED <<s_run, s_can_up, can_mode>> => CanInv'
  BY <1>1 DEF CanInv
<1>3. UNCHANGED Tests!scan => ScanInv' /\ scanning' = scanning
  BY <1>1 DEF ScanInv, Tests!scan
<1>4. CASE Tests!Serve
  BY <1>1, <1>4, CanPollKeeps, ScanPollKeeps DEF Tests!Serve, TestInv
<1>5. CASE \E echo \in BOOLEAN : Tests!CanStart(echo)
  <2>1. ~s_run /\ UNCHANGED Tests!scan
    BY <1>5 DEF Tests!CanStart
  <2>2. CanInv'
    BY <1>1, <1>5, CanStartKeeps
  <2>3. QED
    BY <1>3, <2>1, <2>2 DEF TestInv
<1>6. CASE \E up \in [Tests!Wires -> BOOLEAN] : Tests!ScanStart(up)
  <2>1. PICK up \in [Tests!Wires -> BOOLEAN] : Tests!ScanStart(up)
    BY <1>6
  <2>2. /\ UNCHANGED <<s_run, s_can_up, can_mode>> /\ ~scanning /\ scanning' = TRUE
        /\ s_addr' = First /\ s_bus_up' = up /\ s_found' = [b \in Tests!Wires |-> {}]
    BY <2>1 DEF Tests!ScanStart, Tests!can
  <2>3. /\ First \in First .. Last
        /\ \A b \in Tests!Wires : {a \in Parts[b] : a < First} = {}
    BY DEF Tests!TestAssumption, Tests!Wires
  <2>4. ScanInv'
    BY <2>2, <2>3 DEF ScanInv
  <2>5. QED
    BY <1>2, <2>2, <2>4 DEF TestInv
<1>7. CASE Tests!Wait \/ Tests!Arrives \/ UNCHANGED Tests!testVars
  <2>1. UNCHANGED <<s_run, s_can_up, can_mode>> /\ UNCHANGED Tests!scan
    BY <1>7 DEF Tests!Wait, Tests!Arrives, Tests!testVars, Tests!can
  <2>2. QED
    BY <1>2, <1>3, <2>1 DEF TestInv
<1>8. QED
  BY <1>4, <1>5, <1>6, <1>7 DEF Tests!TestNext

LEMMA TestInvariance ==
  ASSUME Tests!TestAssumption
  PROVE  TestSpec => []TestInv
<1>1. Tests!TestInit => TestInv
  <2>1. SUFFICES ASSUME Tests!TestInit PROVE CanInv /\ ScanInv
    BY DEF TestInv
  <2>2. CanInv
    BY <2>1 DEF Tests!TestInit, CanInv
  <2>3. First \in First .. Last
    BY DEF Tests!TestAssumption
  <2>4. /\ scanning = FALSE /\ s_addr = First
        /\ s_bus_up = [b \in Tests!Wires |-> FALSE] /\ s_found = [b \in Tests!Wires |-> {}]
    BY <2>1 DEF Tests!TestInit
  <2>5. ScanInv
    BY <2>3, <2>4 DEF ScanInv
  <2>6. QED
    BY <2>2, <2>5
<1>2. TestInv /\ [Tests!TestNext]_(Tests!testVars) => TestInv'
  BY TestInvStep
<1>3. QED
  BY <1>1, <1>2, PTL DEF TestSpec

LEMMA TestsRest ==
  ASSUME Tests!TestAssumption
  PROVE  TestSpec => []Tests!RestsIdle
<1>1. TestInv => Tests!RestsIdle
  BY DEF TestInv, CanInv, ScanInv, Tests!RestsIdle
<1>2. QED
  BY <1>1, TestInvariance, PTL

\* A scan that has ended found what is there, a frame that came in time is a pass, and a
\* test that is over has left bxCAN off and its FIFO empty.
THEOREM TestsTellTruth ==
  ASSUME Tests!TestAssumption
  PROVE  TestSpec => Tests!ScanTellsTruth /\ Tests!HeardIsPassed /\ Tests!OverIsOff
<1>1. TestInv /\ [Tests!TestNext]_(Tests!testVars) =>
        /\ [scanning /\ ~scanning' =>
              \A b \in Tests!Wires : s_bus_up[b] => s_found'[b] = Parts[b]]_(Tests!testVars)
        /\ [s_run /\ ~s_run' /\ fifo => s_pass' = "pass"]_(Tests!testVars)
        /\ [s_run /\ ~s_run' => can_mode' = "off" /\ ~fifo']_(Tests!testVars)
  BY TestInvStep
<1>2. QED
  BY <1>1, TestInvariance, PTL DEF TestSpec, Tests!ScanTellsTruth, Tests!HeardIsPassed,
     Tests!OverIsOff

-----------------------------------------------------------------------------
(* THE STATOR (StatorRpm) *)

LEMMA SameSize == \A S : Rpm!Cardinality(S) = Cardinality(S)
  BY DEF Rpm!Cardinality, Cardinality, Rpm!IsFiniteSet, IsFiniteSet

\* Two neighbours in a window of five or more cannot move its middle.
LEMMA MedianOfMost ==
  ASSUME NEW size \in Nat, size >= 5, NEW win \in [1 .. size -> Nat], Len(win) = size, NEW v \in Nat,
         NEW b \in Int, \A i \in 1 .. size : i # b /\ i # b + 1 => win[i] = v
  PROVE  Rpm!Median(win) = v
<1> DEFINE Less(m) == {i \in DOMAIN win : win[i] < m}
           Leq(m) == {i \in DOMAIN win : win[i] <= m}
           Mid(m) == /\ Cardinality(Less(m)) <= Len(win) \div 2
                     /\ Len(win) \div 2 < Cardinality(Leq(m))
           R == {win[i] : i \in DOMAIN win}
           B == {b} \cup {b + 1}
<1>1. IsFiniteSet(1 .. size) /\ Cardinality(1 .. size) = size
  BY FS_Interval
<1>2. ASSUME NEW m
      PROVE  /\ IsFiniteSet(Less(m)) /\ IsFiniteSet(Leq(m))
             /\ Cardinality(Less(m)) \in Nat /\ Cardinality(Leq(m)) \in Nat
  <2>1. Less(m) \in SUBSET (1 .. size) /\ Leq(m) \in SUBSET (1 .. size)
    OBVIOUS
  <2>2. QED
    BY <1>1, <2>1, FS_Subset, FS_CardinalityType
<1>3. IsFiniteSet(B) /\ Cardinality(B) = 2
  <2>0. b + 1 \notin {b}
    OBVIOUS
  <2>1. IsFiniteSet({b}) /\ Cardinality({b}) = 1 /\ b + 1 \notin {b}
    BY <2>0, FS_Singleton
  <2>2. /\ IsFiniteSet(B)
        /\ Cardinality(B) = IF b + 1 \in {b} THEN Cardinality({b}) ELSE Cardinality({b}) + 1
    BY <2>1, FS_AddElement
  <2> HIDE DEF B
  <2>3. QED
    BY <2>1, <2>2
<1>4. Cardinality(Less(v)) <= 2
  <2>1. Less(v) \in SUBSET B
    OBVIOUS
  <2>2. Cardinality(Less(v)) <= Cardinality(B)
    BY <1>3, <2>1, FS_Subset
  <2> HIDE DEF Less, B
  <2>3. QED
    BY <1>3, <2>2
<1>5. Cardinality(Leq(v)) >= size - 2
  <2> DEFINE C == (1 .. size) \ {b}
             D == C \ {b + 1}
  <2>1. /\ IsFiniteSet(C)
        /\ Cardinality(C) = IF b \in 1 .. size THEN Cardinality(1 .. size) - 1 ELSE Cardinality(1 .. size)
    BY <1>1, FS_RemoveElement
  <2>2. /\ IsFiniteSet(D)
        /\ Cardinality(D) = IF b + 1 \in C THEN Cardinality(C) - 1 ELSE Cardinality(C)
    <3> HIDE DEF C
    <3>1. QED
      BY <2>1, FS_RemoveElement
  <2>3. Cardinality(D) >= size - 2
    <3> HIDE DEF C, D
    <3>1. QED
      BY <1>1, <2>1, <2>2
  <2>4. D \in SUBSET Leq(v)
    OBVIOUS
  <2>5. Cardinality(D) \in Nat
    BY <2>2, FS_CardinalityType
  <2>6. Cardinality(D) <= Cardinality(Leq(v))
    BY <1>2, <2>4, FS_Subset
  <2>7. Cardinality(Leq(v)) \in Nat
    BY <1>2
  <2> HIDE DEF D, Leq
  <2>8. QED
    BY <2>3, <2>5, <2>6, <2>7
<1>6. v \in R /\ Mid(v)
  <2>1. v \in R
    <3>1. win[1] = v \/ win[3] = v
      OBVIOUS
    <3>2. QED
      BY <3>1
  <2>2. 2 <= size \div 2 /\ size \div 2 < size - 2
    OBVIOUS
  <2> HIDE DEF Less, Leq
  <2>3. QED
    BY <1>2, <1>4, <1>5, <2>1, <2>2
<1>7. ASSUME NEW m \in R, Mid(m), m # v PROVE FALSE
  <2>1. m \in Nat
    OBVIOUS
  <2>2. CASE m < v
    <3>1. Leq(m) \in SUBSET Less(v)
      BY <2>1, <2>2
    <3>2. Cardinality(Leq(m)) <= Cardinality(Less(v))
      BY <1>2, <3>1, FS_Subset
    <3> HIDE DEF Less, Leq
    <3>3. QED
      BY <1>2, <1>6, <1>7, <3>2
  <2>3. CASE v < m
    <3>1. Leq(v) \in SUBSET Less(m)
      BY <2>1, <2>3
    <3>2. Cardinality(Leq(v)) <= Cardinality(Less(m))
      BY <1>2, <3>1, FS_Subset
    <3> HIDE DEF Less, Leq
    <3>3. QED
      BY <1>2, <1>6, <1>7, <3>2
  <2>4. QED
    BY <1>7, <2>1, <2>2, <2>3
<1>8. Rpm!Median(win) = CHOOSE m \in R : Mid(m)
  BY SameSize DEF Rpm!Median
<1> HIDE DEF R, Mid
<1>9. QED
  BY <1>6, <1>7, <1>8

\* While a speed is new its edges fill the window from the end; after that the machine is
\* never more than two periods from a good edge, and the two entries that the last
\* disturbance spoiled wander through the window side by side.
StatorInv ==
    /\ s_have_prev \in BOOLEAN /\ since \in Nat /\ s_last_edge \in 0 .. Lost
    /\ s_period_ticks \in Seq(Nat) /\ Len(s_period_ticks) <= Window
    /\ speed \in Speeds \cup {0} /\ phase \in 0 .. speed
    /\ edges \in 0 .. Rpm!Full /\ calm \in 0 .. Rpm!Full
    /\ speed # 0 /\ edges # Rpm!Full =>
          /\ calm = edges
          /\ calm >= 1 =>
                /\ s_have_prev /\ since = speed - phase /\ Len(s_period_ticks) >= calm - 1
                /\ \A i \in 1 .. Len(s_period_ticks) :
                      i > Len(s_period_ticks) + 1 - calm => s_period_ticks[i] = speed
          /\ calm >= 2 => s_last_edge = speed - phase
    /\ speed # 0 /\ edges = Rpm!Full =>
          /\ s_have_prev /\ since <= 2 * speed - phase /\ s_last_edge <= 2 * speed - phase
          /\ calm >= 1 => since = speed - phase
          /\ calm >= 2 => s_last_edge = speed - phase
          /\ calm = 0 => \/ since = 2 * speed - phase
                         \/ s_last_edge <= speed - phase /\ since <= speed - phase
          /\ Len(s_period_ticks) = Window
          /\ \A i \in 1 .. Window :
                i # Window - calm /\ i # Window - calm + 1 => s_period_ticks[i] = speed

\* A window that takes a period in grows by it until it is full, and then moves on by one.
TakesIn(win, p, out) ==
    /\ out \in Seq(Nat)
    /\ Len(win) < Window => /\ Len(out) = Len(win) + 1
                            /\ \A i \in 1 .. Len(win) : out[i] = win[i]
                            /\ out[Len(win) + 1] = p
    /\ Len(win) = Window => /\ Len(out) = Window
                            /\ \A i \in 1 .. Window - 1 : out[i] = win[i + 1]
                            /\ out[Window] = p

LEMMA PushedWindow ==
  ASSUME Window \in Nat, Window >= 5, NEW w_ \in Seq(Nat), Len(w_) <= Window, NEW p \in Nat
  PROVE  TakesIn(w_, p, Rpm!Pushed(w_, p))
<1>1. CASE Len(w_) < Window
  BY <1>1 DEF TakesIn, Rpm!Pushed
<1>2. CASE Len(w_) = Window
  <2>1. w_ # <<>> /\ Tail(w_) \in Seq(Nat) /\ Len(Tail(w_)) = Window - 1
        /\ \A i \in 1 .. Window - 1 : Tail(w_)[i] = w_[i + 1]
    BY <1>2
  <2>2. Rpm!Pushed(w_, p) = Append(Tail(w_), p)
    BY <1>2 DEF Rpm!Pushed
  <2>3. QED
    BY <1>2, <2>1, <2>2 DEF TakesIn
<1>3. QED
  BY <1>1, <1>2

\* A speed is a period that is heard, and read as fresh though an edge is missed.
LEMMA SpeedIsTimely ==
  ASSUME Rpm!StatorAssumption, StatorInv
  PROVE  /\ Window \in Nat /\ Window >= 5 /\ MinPeriod \in Nat /\ Wrap \in Nat /\ Wrap > 0
         /\ Stale \in Nat /\ Lost \in Nat /\ Pause \in Nat /\ Stale <= Lost
         /\ speed \in Nat /\ phase \in Nat /\ phase <= speed
         /\ speed # 0 => speed >= MinPeriod /\ 2 * speed < Stale /\ 2 * speed < Wrap
         /\ 0 \notin Speeds
BY DEF Rpm!StatorAssumption, StatorInv

LEMMA StatorInvStep ==
  ASSUME Rpm!StatorAssumption, StatorInv, [Rpm!StatorNext]_(Rpm!statorVars)
  PROVE  StatorInv'
<1> USE DEF Rpm!Full
<1>1. /\ Window \in Nat /\ Window >= 5 /\ MinPeriod \in Nat /\ Wrap \in Nat /\ Wrap > 0
      /\ Stale \in Nat /\ Lost \in Nat /\ Pause \in Nat /\ Stale <= Lost
      /\ speed \in Nat /\ phase \in Nat /\ phase <= speed
      /\ speed # 0 => speed >= MinPeriod /\ 2 * speed < Stale /\ 2 * speed < Wrap
      /\ 0 \notin Speeds
  BY SpeedIsTimely
<1>2. /\ s_have_prev \in BOOLEAN /\ since \in Nat /\ s_last_edge \in Nat /\ s_last_edge <= Lost
      /\ s_period_ticks \in Seq(Nat) /\ Len(s_period_ticks) \in Nat
      /\ Len(s_period_ticks) <= Window
      /\ speed \in Speeds \cup {0} /\ phase \in 0 .. speed
      /\ edges \in Nat /\ edges <= Window + 1 /\ calm \in Nat /\ calm <= Window + 1
  BY <1>1 DEF StatorInv
<1> DEFINE pushed == Rpm!Pushed(s_period_ticks, since)
<1>0. TakesIn(s_period_ticks, since, pushed)
  <2>1. /\ Window \in Nat /\ Window >= 5 /\ s_period_ticks \in Seq(Nat)
        /\ Len(s_period_ticks) <= Window /\ since \in Nat
    BY <1>1, <1>2
  <2>2. QED
    BY <2>1, PushedWindow
<1> HIDE DEF pushed
<1>3. CASE UNCHANGED Rpm!statorVars
  BY <1>3 DEF Rpm!statorVars, StatorInv
<1>4. ASSUME Rpm!Exti
      PROVE  /\ s_have_prev' = TRUE /\ since' = 0
             /\ s_last_edge' \in Nat /\ s_last_edge' <= s_last_edge
             /\ \/ s_have_prev /\ since >= MinPeriod /\ s_last_edge' = 0
                   /\ s_period_ticks' = pushed
                \/ s_period_ticks' = s_period_ticks /\ ~(s_have_prev /\ since >= MinPeriod)
             /\ s_period_ticks' \in Seq(Nat) /\ Len(s_period_ticks') \in Nat
             /\ Len(s_period_ticks') <= Window
  <2>1. /\ pushed \in Seq(Nat)
        /\ Len(pushed) \in Nat
        /\ Len(pushed) <= Window
    BY <1>1, <1>2, <1>0 DEF TakesIn
  <2>2. QED
    BY <1>2, <1>4, <2>1 DEF Rpm!Exti, Rpm!Plausible, pushed
<1>5. CASE Rpm!Edge
  <2>1. /\ speed # 0 /\ phase = 0 /\ phase' = speed /\ speed' = speed
        /\ edges' = (IF Window + 1 < edges + 1 THEN Window + 1 ELSE edges + 1)
        /\ calm' = (IF Window + 1 < calm + 1 THEN Window + 1 ELSE calm + 1)
        /\ Rpm!Exti
    BY <1>5 DEF Rpm!Edge, Rpm!AtMost
  <2>2. CASE edges # Window + 1
    <3>1. calm = edges /\ calm' = calm + 1 /\ edges' = calm'
      BY <1>2, <2>1, <2>2 DEF StatorInv
    <3>2. CASE calm = 0
      BY <1>1, <1>2, <1>4, <2>1, <2>2, <3>1, <3>2 DEF StatorInv
    <3>3. CASE calm >= 1
      <4>1. /\ s_have_prev /\ since = speed /\ Len(s_period_ticks) >= calm - 1
            /\ \A i \in 1 .. Len(s_period_ticks) :
                  i > Len(s_period_ticks) + 1 - calm => s_period_ticks[i] = speed
        BY <2>1, <2>2, <3>3, <1>1 DEF StatorInv
      <4>2. s_last_edge' = 0 /\ s_period_ticks' = pushed
        BY <1>1, <1>4, <2>1, <4>1
      <4>3. /\ Len(s_period_ticks') >= calm
            /\ \A i \in 1 .. Len(s_period_ticks') :
                  i > Len(s_period_ticks') - calm => s_period_ticks'[i] = speed
        <5>1. CASE Len(s_period_ticks) < Window
          <6>1. /\ Len(s_period_ticks') = Len(s_period_ticks) + 1
                /\ \A i \in 1 .. Len(s_period_ticks) : s_period_ticks'[i] = s_period_ticks[i]
                /\ s_period_ticks'[Len(s_period_ticks) + 1] = speed
            BY <1>0, <4>1, <4>2, <5>1 DEF TakesIn
          <6>2. ASSUME NEW i \in 1 .. Len(s_period_ticks'), i > Len(s_period_ticks') - calm
                PROVE  s_period_ticks'[i] = speed
            <7>1. CASE i = Len(s_period_ticks) + 1
              BY <6>1, <7>1
            <7>2. CASE i # Len(s_period_ticks) + 1
              <8>1. i \in 1 .. Len(s_period_ticks) /\ i > Len(s_period_ticks) + 1 - calm
                BY <1>2, <6>1, <6>2, <7>2
              <8>2. QED
                BY <4>1, <6>1, <8>1
            <7>3. QED
              BY <7>1, <7>2
          <6>3. QED
            BY <1>2, <4>1, <6>1, <6>2
        <5>2. CASE Len(s_period_ticks) = Window
          <6>1. /\ Len(s_period_ticks') = Window
                /\ \A i \in 1 .. Window - 1 : s_period_ticks'[i] = s_period_ticks[i + 1]
                /\ s_period_ticks'[Window] = speed
            BY <1>0, <4>1, <4>2, <5>2 DEF TakesIn
          <6>2. ASSUME NEW i \in 1 .. Len(s_period_ticks'), i > Len(s_period_ticks') - calm
                PROVE  s_period_ticks'[i] = speed
            <7>1. CASE i = Window
              BY <6>1, <7>1
            <7>2. CASE i # Window
              <8>1. /\ i \in 1 .. Window - 1 /\ i + 1 \in 1 .. Len(s_period_ticks)
                    /\ i + 1 > Len(s_period_ticks) + 1 - calm
                BY <1>1, <1>2, <5>2, <6>1, <6>2, <7>2
              <8>2. QED
                BY <4>1, <6>1, <8>1
            <7>3. QED
              BY <7>1, <7>2
          <6>3. QED
            BY <1>1, <1>2, <2>2, <3>1, <6>1, <6>2
        <5>3. QED
          BY <1>1, <1>2, <5>1, <5>2
      <4>4. calm' = Window + 1 => Len(s_period_ticks') = Window
        BY <1>1, <1>2, <1>4, <2>1, <3>1, <4>3
      <4>5. /\ s_have_prev' = TRUE /\ since' = 0 /\ s_last_edge' = 0
            /\ speed' = speed /\ phase' = speed /\ calm' = calm + 1 /\ edges' = calm + 1
            /\ calm + 1 <= Window + 1 /\ Len(s_period_ticks') <= Window
            /\ s_period_ticks' \in Seq(Nat)
        BY <1>1, <1>2, <1>4, <2>1, <2>2, <3>1, <4>2
      <4>6. CASE calm + 1 # Window + 1
        BY <1>1, <1>2, <2>1, <4>3, <4>5, <4>6 DEF StatorInv
      <4>7. CASE calm + 1 = Window + 1
        <5>1. /\ Len(s_period_ticks') = Window
              /\ \A i \in 1 .. Window : s_period_ticks'[i] = speed
          <6>1. Len(s_period_ticks') = Window
            BY <4>4, <4>5, <4>7
          <6>2. ASSUME NEW i \in 1 .. Window PROVE s_period_ticks'[i] = speed
            <7>1. i \in 1 .. Len(s_period_ticks') /\ i > Len(s_period_ticks') - calm
              BY <1>1, <1>2, <4>7, <6>1
            <7>2. QED
              BY <4>3, <7>1
          <6>3. QED
            BY <6>1, <6>2
        <5>2. QED
          BY <1>1, <1>2, <2>1, <4>5, <4>7, <5>1 DEF StatorInv
      <4>8. QED
        BY <4>6, <4>7
    <3>4. QED
      BY <1>2, <3>2, <3>3
  <2>3. CASE edges = Window + 1
    <3>1. /\ s_have_prev /\ since <= 2 * speed /\ s_last_edge <= 2 * speed
          /\ calm >= 1 => since = speed
          /\ calm = 0 => since = 2 * speed \/ (s_last_edge <= speed /\ since <= speed)
          /\ Len(s_period_ticks) = Window
          /\ \A i \in 1 .. Window :
                i # Window - calm /\ i # Window - calm + 1 => s_period_ticks[i] = speed
      BY <1>1, <2>1, <2>3 DEF StatorInv
    <3>2. edges' = Window + 1
      BY <2>1, <2>3
    <3>3. /\ s_last_edge' <= speed
          /\ calm >= 1 => s_last_edge' = 0
      BY <1>1, <1>2, <1>4, <2>1, <3>1
    <3>4. /\ Len(s_period_ticks') = Window
          /\ \A i \in 1 .. Window :
                i # Window - calm' /\ i # Window - calm' + 1 => s_period_ticks'[i] = speed
      <4>1. CASE s_period_ticks' = s_period_ticks /\ ~(since >= MinPeriod)
        <5>1. calm = 0 /\ calm' = 1
          BY <1>1, <1>2, <2>1, <3>1, <4>1
        <5>2. s_period_ticks[Window] = speed \/ TRUE
          OBVIOUS
        <5>3. QED
          BY <1>1, <1>2, <3>1, <4>1, <5>1
      <4>2. CASE s_period_ticks' = pushed
        <5>1. /\ Len(s_period_ticks') = Window /\ s_period_ticks'[Window] = since
              /\ \A i \in 1 .. Window - 1 : s_period_ticks'[i] = s_period_ticks[i + 1]
          BY <1>1, <1>2, <3>1, <4>2, <1>0 DEF TakesIn
        <5>2. ASSUME NEW i \in 1 .. Window, i # Window - calm', i # Window - calm' + 1
              PROVE  s_period_ticks'[i] = speed
          <6>1. CASE i = Window
            <7>1. calm >= 1
              BY <1>1, <1>2, <2>1, <5>2, <6>1
            <7>2. QED
              BY <3>1, <5>1, <6>1, <7>1
          <6>2. CASE i # Window
            <7>1. i + 1 \in 1 .. Window /\ i + 1 # Window - calm /\ i + 1 # Window - calm + 1
              BY <1>1, <1>2, <2>1, <5>2, <6>2
            <7>2. QED
              BY <1>1, <3>1, <5>1, <6>2, <7>1
          <6>3. QED
            BY <6>1, <6>2
        <5>3. QED
          BY <5>1, <5>2
      <4>3. QED
        BY <1>4, <2>1, <3>1, <4>1, <4>2
    <3>5. QED
      BY <1>1, <1>2, <1>4, <2>1, <2>3, <3>1, <3>2, <3>3, <3>4 DEF StatorInv
  <2>4. QED
    BY <2>2, <2>3
<1>6. CASE Rpm!Missed
  <2>1. /\ speed # 0 /\ phase = 0 /\ phase' = speed /\ calm = Window + 1 /\ calm' = 0
        /\ UNCHANGED <<s_have_prev, since, s_period_ticks, s_last_edge, speed, edges>>
    BY <1>6 DEF Rpm!Missed
  <2>2. edges = Window + 1
    BY <1>1, <1>2, <2>1 DEF StatorInv
  <2>3. since = speed /\ s_last_edge = speed /\ s_have_prev /\ Len(s_period_ticks) = Window
        /\ \A i \in 1 .. Window : s_period_ticks[i] = speed
    BY <1>1, <1>2, <2>1, <2>2 DEF StatorInv
  <2>4. QED
    BY <1>1, <1>2, <2>1, <2>2, <2>3 DEF StatorInv
<1>7. CASE Rpm!Noise
  <2>1. /\ speed # 0 /\ phase \in 1 .. speed - 1 /\ calm = Window + 1 /\ calm' = 0
        /\ speed' = speed /\ phase' = phase /\ edges' = edges /\ Rpm!Exti
    BY <1>7 DEF Rpm!Noise
  <2>2. edges = Window + 1
    BY <1>1, <1>2, <2>1 DEF StatorInv
  <2>3. since = speed - phase /\ s_last_edge = speed - phase /\ s_have_prev
        /\ Len(s_period_ticks) = Window
        /\ \A i \in 1 .. Window : s_period_ticks[i] = speed
    BY <1>1, <1>2, <2>1, <2>2 DEF StatorInv
  <2>4. /\ Len(s_period_ticks') = Window
        /\ \A i \in 1 .. Window - 1 : s_period_ticks'[i] = speed
    <3>1. CASE s_period_ticks' = s_period_ticks
      BY <1>1, <2>3, <3>1
    <3>2. CASE s_period_ticks' = pushed
      BY <1>1, <1>2, <2>3, <3>2, <1>0 DEF TakesIn
    <3>3. QED
      BY <1>4, <2>1, <3>1, <3>2
  <2>5. QED
    BY <1>1, <1>2, <1>4, <2>1, <2>2, <2>3, <2>4 DEF StatorInv
<1>8. CASE Rpm!Elapse
  <2>1. CASE speed = 0
    <3>1. /\ speed' = 0 /\ phase' = 0 /\ since' = (since + Pause) % Wrap
          /\ s_last_edge' = (IF Lost < s_last_edge + Pause THEN Lost ELSE s_last_edge + Pause)
          /\ UNCHANGED <<s_have_prev, s_period_ticks, edges, calm>>
      BY <1>8, <2>1 DEF Rpm!Elapse, Rpm!AtMost
    <3>2. since' \in Nat /\ s_last_edge' \in 0 .. Lost
      BY <1>1, <1>2, <3>1
    <3>3. QED
      BY <1>1, <1>2, <3>1, <3>2 DEF StatorInv
  <2>2. CASE speed # 0
    <3>1. /\ speed' = speed /\ phase > 0 /\ phase' = phase - 1 /\ since' = (since + 1) % Wrap
          /\ s_last_edge' = (IF Lost < s_last_edge + 1 THEN Lost ELSE s_last_edge + 1)
          /\ UNCHANGED <<s_have_prev, s_period_ticks, edges, calm>>
      BY <1>8, <2>2 DEF Rpm!Elapse, Rpm!AtMost
    <3>2. since' \in Nat /\ s_last_edge' \in 0 .. Lost
      BY <1>1, <1>2, <3>1
    <3>3. since + 1 < Wrap => since' = since + 1
      BY <1>1, <1>2, <3>1
    <3>4. CASE edges # Window + 1
      BY <1>1, <1>2, <2>2, <3>1, <3>2, <3>3, <3>4 DEF StatorInv
    <3>5. CASE edges = Window + 1
      BY <1>1, <1>2, <2>2, <3>1, <3>2, <3>3, <3>5 DEF StatorInv
    <3>6. QED
      BY <3>4, <3>5
  <2>3. QED
    BY <2>1, <2>2
<1>9. ASSUME NEW p \in Speeds \cup {0}, Rpm!Turns(p) PROVE StatorInv'
  <2>1. p \in Nat /\ speed' = p /\ phase' = p /\ edges' = 0 /\ calm' = 0
        /\ UNCHANGED <<s_have_prev, since, s_period_ticks, s_last_edge>>
    BY <1>9 DEF Rpm!Turns, Rpm!StatorAssumption
  <2>2. QED
    BY <1>1, <1>2, <1>9, <2>1 DEF StatorInv
<1>10. QED
  BY <1>3, <1>5, <1>6, <1>7, <1>8, <1>9 DEF Rpm!StatorNext

\* A machine that has turned at one speed for a window of edges is read at that speed.
LEMMA StatorInvReads ==
  ASSUME Rpm!StatorAssumption, StatorInv
  PROVE  Rpm!SteadySpeedIsRead
<1>1. SUFFICES ASSUME speed # 0, edges = Window + 1
               PROVE  Rpm!Freq = speed /\ Rpm!State = "fresh"
  BY DEF Rpm!SteadySpeedIsRead, Rpm!Full
<1>2. /\ Window \in Nat /\ Window >= 5 /\ speed \in Nat /\ phase \in Nat /\ phase <= speed
      /\ Stale \in Nat /\ Lost \in Nat /\ Stale <= Lost /\ 2 * speed < Stale
  BY <1>1, SpeedIsTimely
<1>3. /\ s_have_prev /\ s_last_edge \in Nat /\ s_last_edge <= 2 * speed - phase
      /\ s_period_ticks \in Seq(Nat) /\ Len(s_period_ticks) = Window /\ calm \in Nat
      /\ \A i \in 1 .. Window :
            i # Window - calm /\ i # Window - calm + 1 => s_period_ticks[i] = speed
  BY <1>1, <1>2 DEF StatorInv, Rpm!Full
<1>4. Rpm!State = "fresh"
  BY <1>2, <1>3 DEF Rpm!State
<1>5. Rpm!Median(s_period_ticks) = speed
  <2> DEFINE b == Window - calm
  <2>1. b \in Int /\ \A i \in 1 .. Window : i # b /\ i # b + 1 => s_period_ticks[i] = speed
    BY <1>2, <1>3
  <2>2. s_period_ticks \in [1 .. Window -> Nat] /\ Len(s_period_ticks) = Window
    BY <1>2, <1>3
  <2> HIDE DEF b
  <2>3. QED
    BY <1>2, <2>1, <2>2, MedianOfMost
<1>6. s_period_ticks # <<>>
  BY <1>2, <1>3
<1>7. QED
  BY <1>4, <1>5, <1>6 DEF Rpm!Freq

LEMMA SpeedIsAlwaysRead ==
  ASSUME Rpm!StatorAssumption
  PROVE  StatorSpec => []Rpm!SteadySpeedIsRead
<1>1. Rpm!StatorInit => StatorInv
  <2>1. Window \in Nat /\ Lost \in Nat /\ <<>> \in Seq(Nat) /\ Len(<<>>) = 0
    BY DEF Rpm!StatorAssumption
  <2>2. SUFFICES ASSUME Rpm!StatorInit PROVE StatorInv
    OBVIOUS
  <2>3. /\ s_have_prev = FALSE /\ since = 0 /\ s_period_ticks = <<>> /\ s_last_edge = 0
        /\ speed = 0 /\ phase = 0 /\ edges = 0 /\ calm = 0
    BY <2>2 DEF Rpm!StatorInit
  <2>4. /\ s_have_prev \in BOOLEAN /\ s_last_edge \in 0 .. Lost
        /\ s_period_ticks \in Seq(Nat) /\ Len(s_period_ticks) <= Window
        /\ speed \in Speeds \cup {0} /\ phase \in 0 .. speed
        /\ edges \in 0 .. Rpm!Full /\ calm \in 0 .. Rpm!Full
    <3>0. s_have_prev \in BOOLEAN /\ speed \in Speeds \cup {0}
      BY Zenon, <2>3
    <3>1. s_last_edge \in 0 .. Lost /\ phase \in 0 .. speed
      BY <2>1, <2>3
    <3>2. s_period_ticks \in Seq(Nat) /\ Len(s_period_ticks) <= Window
      BY <2>1, <2>3
    <3>3. edges \in 0 .. Rpm!Full /\ calm \in 0 .. Rpm!Full
      BY <2>1, <2>3 DEF Rpm!Full
    <3>4. QED
      BY <3>0, <3>1, <3>2, <3>3
  <2>5. QED
    BY <2>3, <2>4 DEF StatorInv
<1>2. StatorInv /\ [Rpm!StatorNext]_(Rpm!statorVars) => StatorInv'
  BY StatorInvStep
<1>3. StatorInv => Rpm!SteadySpeedIsRead
  BY StatorInvReads
<1>4. QED
  BY <1>1, <1>2, <1>3, PTL DEF StatorSpec

-----------------------------------------------------------------------------
(* THE LAMP (Annunc) *)

\* The phase is over, or it is not.
Over(a) == ~(a.ms < Led!Lasts(a.code, a.idx, a.ph))
Later(a) == IF Over(a) THEN Led!Turn(a) ELSE a

\* The loop turns no more than once when the phase it turns to is not over as well.
LEMMA WalkIsOneTurn ==
  ASSUME NEW start, start.ms \in Nat \ {0}, ~Over(Later(start))
  PROVE  Led!Walk(start) = Later(start)
<1> DEFINE Rule(f) == [k \in 0 .. start.ms |->
                         IF k = 0 THEN start
                         ELSE LET a == f[k - 1] IN
                              IF a.ms < Led!Lasts(a.code, a.idx, a.ph) THEN a ELSE Led!Turn(a)]
           turned == CHOOSE f : f = Rule(f)
           g == [k \in 0 .. start.ms |-> IF k = 0 THEN start ELSE Later(start)]
<1>1. Led!Walk(start) = turned[start.ms]
  BY DEF Led!Walk
<1>2. ASSUME NEW f, NEW k \in 1 .. start.ms
      PROVE  Rule(f)[k] = Later(f[k - 1])
  BY DEF Later, Over
<1>3. g = Rule(g)
  <2>1. ASSUME NEW k \in 1 .. start.ms PROVE g[k] = Later(g[k - 1])
    <3>1. k - 1 \in 0 .. start.ms /\ k \in 0 .. start.ms /\ k # 0
      OBVIOUS
    <3>2. CASE k = 1
      BY <3>1, <3>2
    <3>3. CASE k # 1
      <4>1. g[k - 1] = Later(start) /\ g[k] = Later(start)
        BY <3>1, <3>3
      <4>2. Later(Later(start)) = Later(start)
        BY DEF Later
      <4>3. QED
        BY <4>1, <4>2
    <3>4. QED
      BY <3>2, <3>3
  <2>2. ASSUME NEW k \in 0 .. start.ms PROVE g[k] = Rule(g)[k]
    <3>1. CASE k = 0
      BY <3>1
    <3>2. CASE k # 0
      <4>1. k \in 1 .. start.ms
        BY <3>2
      <4> HIDE DEF g, Rule
      <4>2. QED
        BY <1>2, <2>1, <4>1
    <3>3. QED
      BY <3>1, <3>2
  <2>3. QED
    BY <2>2
<1>4. turned = Rule(turned)
  <2> HIDE DEF g, Rule
  <2>1. QED
    BY <1>3
<1> HIDE DEF turned
<1>5. turned[0] = start
  BY <1>4
<1>6. \A k \in 1 .. start.ms : turned[k] = Later(turned[k - 1])
  <2> HIDE DEF Rule
  <2>1. QED
    BY <1>2, <1>4
<1> HIDE DEF Rule, g
<1> DEFINE S == {k \in 0 .. start.ms : k = 0 \/ turned[k] = Later(start)}
<1>7. 0 \in S
  OBVIOUS
<1>8. \A i \in 1 .. start.ms : i - 1 \in S => i \in S
  <2>1. Later(Later(start)) = Later(start)
    BY DEF Later
  <2>2. QED
    BY <1>5, <1>6, <2>1
<1>9. 0 .. start.ms \subseteq S
  <2> HIDE DEF S
  <2>1. QED
    BY <1>7, <1>8, Upward
<1>10. QED
  BY <1>1, <1>9

\* The flashes of a code that have been shown when idx of them are over.
Shown(c, idx) ==
    IF c = 0 THEN <<0, 0>>
    ELSE IF idx <= Led!Longs(c) THEN <<idx, 0>> ELSE <<Led!Longs(c), idx - Led!Longs(c)>>

\* The watcher's clocks differ from the annunciator's by less than one call, and what he
\* has counted is what was shown.
LedInv ==
    /\ top \in Codes /\ code \in Nat /\ flash_idx \in Nat /\ blink \in {"flash", "inter", "gap"}
    /\ phase_ms \in Nat /\ lamp \in BOOLEAN /\ onFor \in Nat /\ offFor \in Nat
    /\ blink = "flash" => offFor = 0
    /\ blink = "flash" /\ lamp =>
          /\ flash_idx < Led!Total(code) /\ phase_ms < Led!Lasts(code, flash_idx, "flash")
          /\ onFor <= phase_ms /\ \E d \in Steps : phase_ms <= onFor + d
          /\ seen = Shown(code, flash_idx)
    /\ blink = "flash" /\ ~lamp =>
          /\ code = 0 /\ flash_idx = 0 /\ phase_ms = 0 /\ seen = <<0, 0>>
    /\ blink = "inter" =>
          /\ ~lamp /\ flash_idx < Led!Total(code) /\ code # 0 /\ phase_ms < Gap
          /\ \E d \in Steps : offFor <= phase_ms + d
          /\ seen = Shown(code, flash_idx)
    /\ blink = "gap" =>
          /\ ~lamp /\ flash_idx = Led!Total(code) /\ phase_ms < Led!Lasts(code, flash_idx, "gap")
          /\ phase_ms <= offFor \/ offFor = Repeat + 1
          /\ seen = Shown(code, flash_idx)

\* How long the phases last, whatever the code.
LEMMA Lengths ==
  ASSUME Led!AnnuncAssumption, NEW c \in Nat, NEW idx \in Nat
  PROVE  /\ Led!Longs(c) \in Nat /\ Led!Total(c) \in Nat /\ Led!Total(c) > 0
         /\ Led!Lasts(c, idx, "flash") \in {Long, Short, BeatOn}
         /\ Led!Lasts(c, idx, "flash") \in Nat
         /\ c = 0 => Led!Lasts(c, idx, "flash") = BeatOn /\ Led!Total(c) = 1
         /\ c # 0 /\ idx < Led!Longs(c) => Led!Lasts(c, idx, "flash") = Long
         /\ c # 0 /\ ~(idx < Led!Longs(c)) => Led!Lasts(c, idx, "flash") = Short
         /\ Led!Lasts(c, idx, "inter") = Gap
         /\ Led!Lasts(c, idx, "gap") \in Nat /\ Led!Lasts(c, idx, "gap") >= Repeat
BY DEF Led!AnnuncAssumption, Led!Longs, Led!Total, Led!Lasts

LEMMA Paces ==
  ASSUME Led!AnnuncAssumption, NEW d \in Steps
  PROVE  /\ d \in Nat \ {0} /\ d <= BeatOn /\ d <= Gap
         /\ 2 * d < Long - Short /\ 2 * d < Short - BeatOn /\ 2 * d < Repeat - Gap
         /\ Long \in Nat /\ Short \in Nat /\ Gap \in Nat /\ Repeat \in Nat /\ BeatOn \in Nat
         /\ BeatPeriod \in Nat
BY DEF Led!AnnuncAssumption

LEMMA CodeAdds ==
  ASSUME Led!AnnuncAssumption, LedInv
  PROVE  Led!CodeIsReadable
<1>1. SUFFICES ASSUME blink = "gap" PROVE 10 * seen[1] + seen[2] = code
  BY DEF Led!CodeIsReadable
<1>2. code \in Nat /\ seen = Shown(code, Led!Total(code))
  BY <1>1 DEF LedInv
<1>3. QED
  BY <1>2 DEF Shown, Led!Total, Led!Longs

\* From a phase that is not over, a call turns at most once: every phase lasts longer
\* than the time between two calls.
LEMMA OneTurn ==
  ASSUME Led!AnnuncAssumption, LedInv, NEW dt \in Steps,
         NEW a, a = [code |-> code, ms |-> phase_ms + dt, idx |-> flash_idx, ph |-> blink]
  PROVE  /\ Led!Walk(a) = Later(a) /\ ~Over(Later(a))
         /\ Over(a) => /\ a.ms - Led!Lasts(code, flash_idx, blink) < dt
                       /\ a.ms - Led!Lasts(code, flash_idx, blink) \in Nat
<1>1. /\ code \in Nat /\ flash_idx \in Nat /\ phase_ms \in Nat /\ blink \in {"flash", "inter", "gap"}
      /\ top \in Nat
      /\ a.code = code /\ a.ms = phase_ms + dt /\ a.idx = flash_idx /\ a.ph = blink
  BY DEF LedInv, Led!AnnuncAssumption
<1>2. /\ dt \in Nat \ {0} /\ dt <= BeatOn /\ dt <= Gap
      /\ 2 * dt < Long - Short /\ 2 * dt < Short - BeatOn /\ 2 * dt < Repeat - Gap
      /\ Long \in Nat /\ Short \in Nat /\ Gap \in Nat /\ Repeat \in Nat /\ BeatOn \in Nat
  BY Paces
<1>3. phase_ms < Led!Lasts(code, flash_idx, blink) /\ Led!Lasts(code, flash_idx, blink) \in Nat
  <2>1. CASE blink = "flash"
    <3>1. lamp \/ (code = 0 /\ phase_ms = 0)
      BY <2>1 DEF LedInv
    <3>2. lamp => phase_ms < Led!Lasts(code, flash_idx, blink)
      BY <2>1 DEF LedInv
    <3>3. QED
      BY <1>1, <1>2, <2>1, <3>1, <3>2, Lengths
  <2>2. CASE blink = "inter"
    <3>1. phase_ms < Gap
      BY <2>2 DEF LedInv
    <3>2. QED
      BY <1>1, <1>2, <2>2, <3>1, Lengths
  <2>3. CASE blink = "gap"
    <3>1. phase_ms < Led!Lasts(code, flash_idx, blink)
      BY <2>3 DEF LedInv
    <3>2. QED
      BY <1>1, <2>3, <3>1, Lengths
  <2>4. QED
    BY <1>1, <2>1, <2>2, <2>3
<1>4. Over(a) => /\ a.ms - Led!Lasts(code, flash_idx, blink) < dt
                 /\ a.ms - Led!Lasts(code, flash_idx, blink) \in Nat
  BY <1>1, <1>2, <1>3 DEF Over
<1>5. ~Over(Later(a))
  <2>1. CASE ~Over(a)
    BY <2>1 DEF Later
  <2>2. CASE Over(a)
    <3> DEFINE b == Led!Turn(a)
    <3>1. /\ b.ms < dt /\ b.ms \in Nat
          /\ b.ph = IF blink # "flash" THEN "flash"
                    ELSE IF flash_idx + 1 >= Led!Total(code) THEN "gap" ELSE "inter"
          /\ b.code \in Nat /\ b.idx \in Nat
      BY <1>1, <1>4, <2>2 DEF Led!Turn, Led!Pick
    <3> HIDE DEF b
    <3>2. b.ms < Led!Lasts(b.code, b.idx, b.ph)
      <4>1. CASE b.ph = "flash"
        <5>1. Led!Lasts(b.code, b.idx, "flash") \in {Long, Short, BeatOn}
          BY <3>1, Lengths
        <5>2. QED
          BY <1>2, <3>1, <4>1, <5>1
      <4>2. CASE b.ph = "inter"
        <5>1. Led!Lasts(b.code, b.idx, "inter") = Gap
          BY <3>1, Lengths
        <5>2. QED
          BY <1>2, <3>1, <4>2, <5>1
      <4>3. CASE b.ph = "gap"
        <5>1. Led!Lasts(b.code, b.idx, "gap") \in Nat /\ Led!Lasts(b.code, b.idx, "gap") >= Repeat
          BY <3>1, Lengths
        <5>2. QED
          BY <1>2, <3>1, <4>3, <5>1
      <4>4. QED
        BY <3>1, <4>1, <4>2, <4>3
    <3>3. QED
      BY <2>2, <3>2 DEF Later, Over, b
  <2>3. QED
    BY <2>1, <2>2
<1>6. Led!Walk(a) = Later(a)
  BY <1>1, <1>2, <1>5, WalkIsOneTurn
<1>7. QED
  BY <1>4, <1>5, <1>6

\* The watcher's count after a flash of that length.
CountedOn(counted, lit) ==
    IF 2 * lit > Long + Short THEN <<counted[1] + 1, counted[2]>>
    ELSE IF 2 * lit > BeatOn + Short THEN <<counted[1], counted[2] + 1>>
    ELSE counted

\* What the watcher makes of a flash that was shown: it is counted as what it is.
LEMMA FlashIsCounted ==
  ASSUME Led!AnnuncAssumption, NEW dt \in Steps, NEW d \in Steps, NEW c \in Nat, NEW idx \in Nat,
         NEW ms \in Nat, NEW lit \in Nat, NEW counted, counted = Shown(c, idx),
         idx < Led!Total(c), ms < Led!Lasts(c, idx, "flash"), lit <= ms, ms <= lit + d,
         ms + dt >= Led!Lasts(c, idx, "flash")
  PROVE  Shown(c, idx + 1) = CountedOn(counted, lit + dt)
<1> USE DEF CountedOn
<1>1. /\ dt \in Nat \ {0} /\ d \in Nat \ {0}
      /\ 2 * d < Long - Short /\ 2 * d < Short - BeatOn
      /\ 2 * dt < Long - Short /\ 2 * dt < Short - BeatOn
      /\ Long \in Nat /\ Short \in Nat /\ BeatOn \in Nat
  BY Paces
<1>2. Led!Longs(c) \in Nat
  BY Lengths
<1>3. CASE c = 0
  <2>1. Led!Lasts(c, idx, "flash") = BeatOn
    BY <1>3, Lengths
  <2>2. 2 * (lit + dt) <= BeatOn + Short /\ 2 * (lit + dt) <= Long + Short
    BY <1>1, <2>1
  <2>3. QED
    BY <1>1, <1>3, <2>2 DEF Shown
<1>4. CASE c # 0 /\ idx < Led!Longs(c)
  <2>1. Led!Lasts(c, idx, "flash") = Long
    BY <1>4, Lengths
  <2>2. 2 * (lit + dt) > Long + Short
    BY <1>1, <2>1
  <2>3. QED
    BY <1>1, <1>2, <1>4, <2>2 DEF Shown
<1>5. CASE c # 0 /\ ~(idx < Led!Longs(c))
  <2>1. Led!Lasts(c, idx, "flash") = Short
    BY <1>5, Lengths
  <2>2. 2 * (lit + dt) <= Long + Short /\ 2 * (lit + dt) > BeatOn + Short
    BY <1>1, <2>1
  <2>3. counted = <<Led!Longs(c), idx - Led!Longs(c)>>
    BY <1>2, <1>5 DEF Shown
  <2>4. Shown(c, idx + 1) = <<Led!Longs(c), idx + 1 - Led!Longs(c)>>
    BY <1>2, <1>5 DEF Shown
  <2>5. QED
    BY <1>1, <1>2, <2>2, <2>3, <2>4
<1>6. QED
  BY <1>3, <1>4, <1>5

LEMMA LedCall ==
  ASSUME Led!AnnuncAssumption, LedInv, NEW dt \in Steps, Led!Update(dt)
  PROVE  LedInv'
<1> DEFINE a == [code |-> code, ms |-> phase_ms + dt, idx |-> flash_idx, ph |-> blink]
           b == Later(a)
           on == b.ph = "flash"
           new == offFor > (Gap + Repeat) \div 2
<1>1. /\ code \in Nat /\ flash_idx \in Nat /\ phase_ms \in Nat /\ blink \in {"flash", "inter", "gap"}
      /\ top \in Codes /\ top \in Nat /\ lamp \in BOOLEAN /\ onFor \in Nat /\ offFor \in Nat
      /\ blink = "flash" => offFor = 0
  BY DEF LedInv, Led!AnnuncAssumption
<1>2. /\ dt \in Nat \ {0} /\ dt <= BeatOn /\ dt <= Gap
      /\ 2 * dt < Long - Short /\ 2 * dt < Short - BeatOn /\ 2 * dt < Repeat - Gap
      /\ Long \in Nat /\ Short \in Nat /\ Gap \in Nat /\ Repeat \in Nat /\ BeatOn \in Nat
  BY Paces
<1>3. /\ Led!Walk(a) = b /\ b.ms < Led!Lasts(b.code, b.idx, b.ph)
      /\ Over(a) => /\ a.ms - Led!Lasts(code, flash_idx, blink) < dt
                    /\ a.ms - Led!Lasts(code, flash_idx, blink) \in Nat
  <2>1. Led!Walk(a) = Later(a) /\ ~Over(Later(a))
        /\ (Over(a) => /\ a.ms - Led!Lasts(code, flash_idx, blink) < dt
                       /\ a.ms - Led!Lasts(code, flash_idx, blink) \in Nat)
    BY OneTurn
  <2> HIDE DEF a
  <2>2. QED
    BY <2>1 DEF Over
<1>4. /\ code' = b.code /\ flash_idx' = b.idx /\ blink' = b.ph /\ phase_ms' = b.ms /\ lamp' = on
      /\ onFor' = (IF on THEN (IF lamp THEN Led!Least(onFor + dt, Long) ELSE 0) ELSE 0)
      /\ offFor' = (IF on THEN 0 ELSE Led!Least(offFor + dt, Repeat + 1))
      /\ seen' = (IF on /\ ~lamp /\ new THEN <<0, 0>>
                  ELSE IF lamp /\ ~on
                       THEN IF 2 * (onFor + dt) > Long + Short THEN <<seen[1] + 1, seen[2]>>
                            ELSE IF 2 * (onFor + dt) > BeatOn + Short THEN <<seen[1], seen[2] + 1>>
                            ELSE seen
                  ELSE seen)
      /\ top' = top
  <2> HIDE DEF b
  <2>1. QED
    BY <1>3 DEF Led!Update
<1>5. a.code = code /\ a.ms = phase_ms + dt /\ a.idx = flash_idx /\ a.ph = blink
  OBVIOUS
<1>6. \A k \in Nat, m \in Nat : Led!Least(k, m) = IF k < m THEN k ELSE m
  BY DEF Led!Least
<1>7. CASE ~Over(a)
  <2>1. b = a
    BY <1>7 DEF Later
  <2>2. /\ code' = code /\ flash_idx' = flash_idx /\ blink' = blink /\ phase_ms' = phase_ms + dt
        /\ phase_ms' < Led!Lasts(code, flash_idx, blink) /\ on = (blink = "flash")
    BY <1>3, <1>4, <1>5, <2>1
  <2> HIDE DEF a, b, new
  <2>3. CASE blink = "flash" /\ lamp
    <3>1. /\ onFor <= phase_ms /\ \E d \in Steps : phase_ms <= onFor + d
          /\ flash_idx < Led!Total(code) /\ seen = Shown(code, flash_idx)
      BY <2>3 DEF LedInv
    <3>2. Led!Lasts(code, flash_idx, "flash") <= Long
      <4>1. Led!Lasts(code, flash_idx, "flash") \in {Long, Short, BeatOn}
        BY <1>1, Lengths
      <4>2. QED
        BY <1>2, <4>1
    <3>3. /\ onFor' = onFor + dt /\ lamp' = TRUE /\ offFor' = 0 /\ seen' = seen
      <4>1. Led!Lasts(code, flash_idx, "flash") \in Nat
        BY <1>1, Lengths
      <4>2. onFor + dt \in Nat /\ onFor + dt < Long
        BY <1>1, <1>2, <2>2, <2>3, <3>1, <3>2, <4>1
      <4>3. Led!Least(onFor + dt, Long) = onFor + dt
        BY <1>2, <1>6, <4>2
      <4>4. on = TRUE
        BY <2>2, <2>3
      <4> HIDE DEF on
      <4>5. QED
        BY <1>4, <2>3, <4>3, <4>4
    <3>4. \E d \in Steps : phase_ms' <= onFor' + d
      <4>1. PICK d \in Steps : phase_ms <= onFor + d
        BY <3>1
      <4>2. d \in Nat
        BY Paces
      <4>3. phase_ms' <= onFor' + d
        BY <1>1, <1>2, <2>2, <3>3, <4>1, <4>2
      <4>4. QED
        BY <4>3
    <3>5. QED
      BY <1>1, <1>2, <1>4, <2>2, <2>3, <3>1, <3>3, <3>4 DEF LedInv
  <2>4. CASE blink = "flash" /\ ~lamp
    <3>1. code = 0 /\ flash_idx = 0 /\ phase_ms = 0 /\ seen = <<0, 0>>
      BY <2>4 DEF LedInv
    <3>2. lamp' = TRUE /\ onFor' = 0 /\ offFor' = 0 /\ seen' = <<0, 0>>
      BY <1>1, <1>4, <2>2, <2>4, <3>1
    <3>3. phase_ms' <= onFor' + dt
      BY <1>2, <2>2, <3>1, <3>2
    <3>4. Led!Total(0) = 1 /\ Shown(0, 0) = <<0, 0>>
      BY DEF Led!Total, Shown
    <3>5. QED
      BY <1>1, <1>2, <1>4, <2>2, <2>4, <3>1, <3>2, <3>3, <3>4 DEF LedInv
  <2>5. CASE blink = "inter"
    <3>1. /\ ~lamp /\ flash_idx < Led!Total(code) /\ code # 0 /\ phase_ms < Gap
          /\ seen = Shown(code, flash_idx)
      BY <2>5 DEF LedInv
    <3>2. PICK d \in Steps : offFor <= phase_ms + d
      BY <2>5 DEF LedInv
    <3>3. /\ lamp' = FALSE /\ onFor' = 0 /\ seen' = seen
          /\ offFor' = Led!Least(offFor + dt, Repeat + 1)
      BY <1>4, <2>2, <2>5, <3>1
    <3>4. offFor' \in Nat /\ offFor' <= phase_ms' + d
      <4>1. d \in Nat
        BY Paces
      <4>2. QED
        BY <1>1, <1>2, <1>6, <2>2, <3>2, <3>3, <4>1
    <3>5. phase_ms' < Gap
      BY <1>1, <2>2, <2>5, Lengths
    <3>6. QED
      BY <1>1, <1>2, <1>4, <2>2, <2>5, <3>1, <3>3, <3>4, <3>5 DEF LedInv
  <2>6. CASE blink = "gap"
    <3>1. /\ ~lamp /\ flash_idx = Led!Total(code)
          /\ phase_ms <= offFor \/ offFor = Repeat + 1
          /\ seen = Shown(code, flash_idx)
      BY <2>6 DEF LedInv
    <3>2. /\ lamp' = FALSE /\ onFor' = 0 /\ seen' = seen
          /\ offFor' = Led!Least(offFor + dt, Repeat + 1)
      BY <1>4, <2>2, <2>6, <3>1
    <3>3. offFor' \in Nat /\ (phase_ms' <= offFor' \/ offFor' = Repeat + 1)
      BY <1>1, <1>2, <1>6, <2>2, <3>1, <3>2
    <3>4. QED
      BY <1>1, <1>2, <1>4, <2>2, <2>6, <3>1, <3>2, <3>3 DEF LedInv
  <2>7. QED
    BY <1>1, <2>3, <2>4, <2>5, <2>6
<1>8. CASE Over(a)
  <2>1. b = Led!Turn(a)
    BY <1>8 DEF Later
  <2> HIDE DEF a, b
  <2>2. /\ a.code = code /\ a.ms = phase_ms + dt /\ a.idx = flash_idx /\ a.ph = blink
        /\ a.ms \in Nat /\ dt \in Nat /\ phase_ms \in Nat
    BY <1>1, <1>2 DEF a
  <2>3. Led!Lasts(code, flash_idx, blink) \in Nat
    <3>1. /\ Led!Lasts(code, flash_idx, "flash") \in Nat
          /\ Led!Lasts(code, flash_idx, "inter") = Gap
          /\ Led!Lasts(code, flash_idx, "gap") \in Nat
      BY <1>1, Lengths
    <3>2. QED
      BY <1>1, <1>2, <3>1
  <2>4. /\ b.code = (IF blink = "gap" THEN top ELSE code)
        /\ b.ms = phase_ms + dt - Led!Lasts(code, flash_idx, blink)
        /\ b.idx = (IF blink = "flash" THEN flash_idx + 1 ELSE IF blink = "gap" THEN 0 ELSE flash_idx)
        /\ b.ph = (IF blink # "flash" THEN "flash"
                   ELSE IF flash_idx + 1 >= Led!Total(code) THEN "gap" ELSE "inter")
    <3>1. b = [code |-> Led!Pick(a), ms |-> a.ms - Led!Lasts(a.code, a.idx, a.ph),
               idx |-> IF a.ph = "flash" THEN a.idx + 1 ELSE IF a.ph = "gap" THEN 0 ELSE a.idx,
               ph |-> IF a.ph # "flash" THEN "flash"
                      ELSE IF a.idx + 1 >= Led!Total(a.code) THEN "gap" ELSE "inter"]
      BY <2>1 DEF Led!Turn
    <3>2. Led!Pick(a) = IF blink = "gap" THEN top ELSE code
      BY <2>2 DEF Led!Pick
    <3>3. QED
      BY <2>2, <2>3, <3>1, <3>2
  <2>5. b.ms \in Nat /\ b.ms < dt
    <3>1. b.ms = a.ms - Led!Lasts(code, flash_idx, blink)
      BY <2>2, <2>3, <2>4
    <3>2. QED
      BY <1>3, <1>8, <3>1
  <2>6. CASE blink = "flash"
    <3>1. /\ lamp' = FALSE /\ onFor' = 0 /\ code' = code /\ flash_idx' = flash_idx + 1
          /\ phase_ms' = b.ms /\ offFor' = dt
          /\ blink' = IF flash_idx + 1 >= Led!Total(code) THEN "gap" ELSE "inter"
      <4>1. on = FALSE /\ Led!Least(offFor + dt, Repeat + 1) = dt
        BY <1>1, <1>2, <1>6, <2>4, <2>6
      <4> HIDE DEF on, new
      <4>2. QED
        BY <1>4, <2>4, <2>6, <4>1
    <3>2. flash_idx < Led!Total(code)
      <4>1. CASE lamp
        BY <2>6, <4>1 DEF LedInv
      <4>2. CASE ~lamp
        BY <2>6, <4>2 DEF LedInv, Led!Total
      <4>3. QED
        BY <4>1, <4>2
    <3>3. seen' = Shown(code, flash_idx + 1)
      <4>1. CASE lamp
        <5>1. PICK d \in Steps : phase_ms <= onFor + d
          BY <2>6, <4>1 DEF LedInv
        <5>2. /\ seen = Shown(code, flash_idx) /\ phase_ms < Led!Lasts(code, flash_idx, "flash")
              /\ onFor <= phase_ms
          BY <2>6, <4>1 DEF LedInv
        <5>3. phase_ms + dt >= Led!Lasts(code, flash_idx, "flash")
          BY <1>1, <1>2, <2>3, <2>4, <2>5, <2>6
        <5>4. Shown(code, flash_idx + 1) = CountedOn(seen, onFor + dt)
          BY <1>1, <3>2, <5>1, <5>2, <5>3, FlashIsCounted
        <5>5. ~on
          BY <2>4, <2>6
        <5> HIDE DEF on
        <5>6. QED
          BY <1>4, <4>1, <5>4, <5>5 DEF CountedOn
      <4>2. CASE ~lamp
        <5>1. code = 0 /\ seen = <<0, 0>>
          BY <2>6, <4>2 DEF LedInv
        <5>2. ~on
          BY <2>4, <2>6
        <5> HIDE DEF on
        <5>3. seen' = seen
          BY <1>4, <4>2, <5>2
        <5>4. QED
          BY <5>1, <5>3 DEF Shown
      <4>3. QED
        BY <4>1, <4>2
    <3>4. phase_ms' \in Nat /\ offFor' \in Nat /\ offFor' <= phase_ms' + dt /\ phase_ms' <= offFor'
      BY <1>2, <2>5, <3>1
    <3>5. CASE flash_idx + 1 >= Led!Total(code)
      <4>1. blink' = "gap" /\ flash_idx' = Led!Total(code)
        <5>1. Led!Total(code) \in Nat
          BY <1>1, Lengths
        <5>2. QED
          BY <1>1, <3>1, <3>2, <3>5, <5>1
      <4>2. phase_ms' < Led!Lasts(code', flash_idx', "gap")
        BY <1>3, <1>4, <4>1
      <4>3. QED
        BY <1>1, <1>4, <3>1, <3>3, <3>4, <4>1, <4>2 DEF LedInv
    <3>6. CASE ~(flash_idx + 1 >= Led!Total(code))
      <4>1. blink' = "inter" /\ flash_idx' < Led!Total(code)
        BY <1>1, <3>1, <3>2, <3>6, Lengths
      <4>2. phase_ms' < Gap
        BY <1>2, <2>5, <3>1
      <4>3. code # 0
        BY <1>1, <3>6 DEF Led!Total
      <4>4. QED
        BY <1>1, <1>4, <3>1, <3>3, <3>4, <4>1, <4>2, <4>3 DEF LedInv
    <3>7. QED
      BY <3>5, <3>6
  <2>7. CASE blink = "inter"
    <3>1. /\ ~lamp /\ flash_idx < Led!Total(code) /\ code # 0 /\ phase_ms < Gap
          /\ seen = Shown(code, flash_idx)
      BY <2>7 DEF LedInv
    <3>2. PICK d \in Steps : offFor <= phase_ms + d
      BY <2>7 DEF LedInv
    <3>3. ~new
      <4>1. d \in Nat /\ 2 * d < Repeat - Gap
        BY Paces
      <4>2. QED
        BY <1>1, <1>2, <3>1, <3>2, <4>1
    <3> HIDE DEF new
    <3>4. /\ code' = code /\ flash_idx' = flash_idx /\ blink' = "flash" /\ phase_ms' = b.ms
          /\ lamp' = TRUE /\ onFor' = 0 /\ offFor' = 0 /\ seen' = seen
      BY <1>4, <2>4, <2>7, <3>1, <3>3
    <3>5. phase_ms' < Led!Lasts(code', flash_idx', "flash")
      BY <1>3, <1>4, <3>4
    <3>6. phase_ms' \in Nat /\ onFor' <= phase_ms' /\ phase_ms' <= onFor' + dt
      BY <1>2, <2>5, <3>4
    <3>7. QED
      BY <1>1, <1>4, <3>1, <3>4, <3>5, <3>6 DEF LedInv
  <2>8. CASE blink = "gap"
    <3>1. /\ ~lamp
          /\ phase_ms <= offFor \/ offFor = Repeat + 1
      BY <2>8 DEF LedInv
    <3>2. new
      <4>1. phase_ms + dt >= Led!Lasts(code, flash_idx, "gap")
            /\ Led!Lasts(code, flash_idx, "gap") \in Nat
            /\ Led!Lasts(code, flash_idx, "gap") >= Repeat
        BY <1>1, <1>2, <2>4, <2>5, <2>8, Lengths
      <4>2. offFor >= Repeat - dt
        BY <1>1, <1>2, <3>1, <4>1
      <4>3. QED
        BY <1>1, <1>2, <4>2
    <3> HIDE DEF new
    <3>3. ~lamp
      BY <2>8 DEF LedInv
    <3>4. /\ code' = top /\ flash_idx' = 0 /\ blink' = "flash" /\ phase_ms' = b.ms
          /\ lamp' = TRUE /\ onFor' = 0 /\ offFor' = 0 /\ seen' = <<0, 0>>
      BY <1>4, <2>4, <2>8, <3>2, <3>3
    <3>5. phase_ms' < Led!Lasts(code', flash_idx', "flash")
      BY <1>3, <1>4, <3>4
    <3>6. phase_ms' \in Nat /\ onFor' <= phase_ms' /\ phase_ms' <= onFor' + dt
      BY <1>2, <2>5, <3>4
    <3>7. Shown(top, 0) = <<0, 0>> /\ 0 < Led!Total(top)
      <4>1. Led!Longs(top) \in Nat
        BY <1>1, Lengths
      <4>2. QED
        BY <1>1, <4>1, Lengths DEF Shown
    <3>8. QED
      BY <1>1, <1>4, <3>4, <3>5, <3>6, <3>7 DEF LedInv
  <2>9. QED
    BY <1>1, <2>6, <2>7, <2>8
<1>9. QED
  BY <1>7, <1>8

LEMMA LedInvStep ==
  ASSUME Led!AnnuncAssumption, LedInv, [Led!AnnuncNext]_(Led!annuncVars)
  PROVE  LedInv'
<1>1. CASE UNCHANGED Led!annuncVars
  BY <1>1 DEF Led!annuncVars, LedInv
<1>2. ASSUME NEW dt \in Steps, Led!Update(dt) PROVE LedInv'
  BY <1>2, LedCall
<1>3. ASSUME NEW c \in Codes, Led!Worst(c) PROVE LedInv'
  BY <1>3 DEF Led!Worst, LedInv
<1>4. QED
  BY <1>1, <1>2, <1>3 DEF Led!AnnuncNext

LEMMA CodeIsAlwaysReadable ==
  ASSUME Led!AnnuncAssumption
  PROVE  LedSpec => []Led!CodeIsReadable
<1>1. Led!AnnuncInit => LedInv
  <2>1. SUFFICES ASSUME Led!AnnuncInit PROVE LedInv
    OBVIOUS
  <2>2. /\ top \in Codes /\ code = 0 /\ flash_idx = 0 /\ blink = "flash" /\ phase_ms = 0
        /\ lamp = FALSE /\ onFor = 0 /\ offFor = 0 /\ seen = <<0, 0>>
    BY <2>1 DEF Led!AnnuncInit
  <2>3. lamp \in BOOLEAN
    BY Zenon, <2>2
  <2>4. QED
    BY <2>2, <2>3 DEF LedInv
<1>2. LedInv /\ [Led!AnnuncNext]_(Led!annuncVars) => LedInv'
  BY LedInvStep
<1>3. LedInv => Led!CodeIsReadable
  BY CodeAdds
<1>4. QED
  BY <1>1, <1>2, <1>3, PTL DEF LedSpec

-----------------------------------------------------------------------------
(* THE CONFIGURATION AND ITS HOST (ConfigDoc, ConfigMsg) *)

Volts == Int \cup {Off}
Refs == Host!Primitives \cup {Host!NoRef}

LEMMA PrimitiveNames ==
  /\ Host!Primitives = {"v_bulk", "v_bulk_cons", "v_float", "v_float_cons", "v_limp"}
  /\ Host!NoRef \notin Host!Primitives
<1>1. /\ Host!PrimitiveOrder[1] = "v_bulk" /\ Host!PrimitiveOrder[2] = "v_bulk_cons"
      /\ Host!PrimitiveOrder[3] = "v_float" /\ Host!PrimitiveOrder[4] = "v_float_cons"
      /\ Host!PrimitiveOrder[5] = "v_limp"
  BY DEF Host!PrimitiveOrder
<1>2. DOMAIN Host!PrimitiveOrder = 1 .. 5
  BY DEF Host!PrimitiveOrder
<1>3. Host!Primitives = {Host!PrimitiveOrder[i] : i \in 1 .. 5}
  BY <1>2 DEF Host!Primitives, Host!ToSet
<1>4. QED
  BY <1>1, <1>3 DEF Host!NoRef

\* What the voltages of a configuration may be, whatever was stored in them.
ProfileTyped(p) ==
    /\ {"id", "reserved", "cv_ref", "cv", "mode", "rest_ref", "rest", "revert"} \subseteq DOMAIN p
    /\ p.cv_ref \in Refs /\ p.rest_ref \in Refs /\ p.cv \in Volts /\ p.rest \in Volts

ProfilesTyped(prof) ==
    DOMAIN prof = 1 .. Profiles /\ \A i \in 1 .. Profiles : ProfileTyped(prof[i])

CfgTyped(c) ==
    /\ {"prim", "limp_vcell", "f", "prof", "active"} \subseteq DOMAIN c
    /\ c.prim \in [Host!Primitives -> Volts] /\ c.limp_vcell \in Volts
    /\ ProfilesTyped(c.prof)

Rails(c) ==
    LET p == c.prof[c.active] IN
    /\ ~p.reserved /\ p.cv \in 320..365 /\ (p.mode = "hold" => p.rest \in 320..365)
    /\ c.limp_vcell = c.prim.v_limp /\ c.limp_vcell \in 320..335

\* A configuration the rules accept runs within the rails.
LEMMA ValidIsWithinRails ==
  ASSUME Host!HostAssumption, NEW c, CfgTyped(c), Host!Valid(c)
  PROVE  Rails(c)
<1> DEFINE rule(i) == Host!ProfileRule(c.prof[i], i, c.prim)
           bad == {i \in 1 .. Profiles : rule(i) # "CFG_OK"}
           p == c.prof[c.active]
<1>1. Profiles \in Nat
  BY DEF Host!HostAssumption
<1>2. bad # {} => Host!Min(bad) \in bad
  <2>1. SUFFICES ASSUME bad # {} PROVE Host!Min(bad) \in bad
    OBVIOUS
  <2>2. bad \in SUBSET Nat
    OBVIOUS
  <2> HIDE DEF bad
  <2>3. \E x \in bad : \A y \in bad : x <= y
    BY <2>1, <2>2, NatMin
  <2>4. QED
    BY <2>3 DEF Host!Min
<1>3. /\ Host!PrimitivesOK(c.prim) /\ c.limp_vcell = c.prim.v_limp
      /\ bad = {} /\ Host!ActiveOK(c)
  <2>1. bad # {} => rule(Host!Min(bad)) # "CFG_OK"
    BY <1>2
  <2>2. Host!Validate(c).rule = "CFG_OK"
    BY DEF Host!Valid
  <2>3. Host!Validate(c) =
          IF ~Host!PrimitivesOK(c.prim) THEN Host!Verdict("CFG_ERR_PRIMITIVES", 0)
          ELSE IF c.limp_vcell # c.prim.v_limp
               THEN Host!Verdict("CFG_ERR_LIMP_VCELL_MISMATCH", 0)
          ELSE IF \E k \in Host!Fields : ~Host!FieldOK(c.f, k) THEN Host!Verdict("CFG_ERR_RANGE", 0)
          ELSE IF bad # {} THEN Host!Verdict(rule(Host!Min(bad)), Host!Min(bad))
          ELSE IF ~Host!ActiveOK(c)
               THEN Host!Verdict("CFG_ERR_ACTIVE_PROFILE", IF c.active \in 1..Profiles THEN c.active ELSE 0)
          ELSE Host!Verdict("CFG_OK", 0)
    BY DEF Host!Validate
  <2>4. \A r, n_ : Host!Verdict(r, n_).rule = r
    BY DEF Host!Verdict
  <2> HIDE DEF bad, rule
  <2>5. QED
    BY <2>1, <2>2, <2>3, <2>4
<1>4. c.active \in 1 .. Profiles /\ ~p.reserved /\ rule(c.active) = "CFG_OK"
  BY <1>3 DEF Host!ActiveOK
<1>5. /\ Host!VoltageOK(p.cv, p.cv_ref, c.prim)
      /\ p.mode = "hold" => Host!VoltageOK(p.rest, p.rest_ref, c.prim)
  BY <1>4 DEF Host!ProfileRule
<1>6. ProfileTyped(p) /\ c.prim \in [Host!Primitives -> Volts]
  BY <1>4 DEF CfgTyped, ProfilesTyped
<1>7. c.prim.v_limp \in 320 .. 335 /\ \A ref \in Host!Primitives : c.prim[ref] \in 320 .. 365
  <2>2. /\ c.prim["v_bulk"] \in Volts /\ c.prim["v_bulk_cons"] \in Volts
        /\ c.prim["v_float"] \in Volts /\ c.prim["v_float_cons"] \in Volts
        /\ c.prim["v_limp"] \in Volts
    BY <1>6, PrimitiveNames
  <2>3. /\ Host!InSpan(c.prim["v_bulk"], 345, 365) /\ Host!InSpan(c.prim["v_bulk_cons"], 340, 358)
        /\ Host!InSpan(c.prim["v_float"], 333, 345) /\ Host!InSpan(c.prim["v_float_cons"], 328, 340)
        /\ Host!InSpan(c.prim["v_limp"], 320, 335)
    BY <1>3 DEF Host!PrimitivesOK
  <2>4. /\ c.prim["v_bulk"] \in 345 .. 365 /\ c.prim["v_bulk_cons"] \in 340 .. 358
        /\ c.prim["v_float"] \in 333 .. 345 /\ c.prim["v_float_cons"] \in 328 .. 340
        /\ c.prim["v_limp"] \in 320 .. 335
    <3>1. c.prim["v_bulk"] \in 345 .. 365
      BY <2>2, <2>3 DEF Host!InSpan, Volts
    <3>2. c.prim["v_bulk_cons"] \in 340 .. 358
      BY <2>2, <2>3 DEF Host!InSpan, Volts
    <3>3. c.prim["v_float"] \in 333 .. 345
      BY <2>2, <2>3 DEF Host!InSpan, Volts
    <3>4. c.prim["v_float_cons"] \in 328 .. 340
      BY <2>2, <2>3 DEF Host!InSpan, Volts
    <3>5. c.prim["v_limp"] \in 320 .. 335
      BY <2>2, <2>3 DEF Host!InSpan, Volts
    <3>6. QED
      BY <3>1, <3>2, <3>3, <3>4, <3>5
  <2>5. QED
    BY <2>4, PrimitiveNames
<1>8. ASSUME NEW v \in Volts, NEW ref \in Refs, Host!VoltageOK(v, ref, c.prim)
      PROVE  v \in 320 .. 365
  BY <1>7, <1>8 DEF Host!VoltageOK, Refs, Volts, Host!InSpan
<1>9. p.cv \in 320 .. 365 /\ (p.mode = "hold" => p.rest \in 320 .. 365)
  BY <1>5, <1>6, <1>8 DEF ProfileTyped
<1> HIDE DEF p
<1>10. QED
  BY <1>3, <1>4, <1>7, <1>9 DEF Rails, p


\* A profile q that is p but for its voltages.
WithVolts(p, a, b) == [p EXCEPT !.cv = a, !.rest = b]
Moved(q, p, a, b) ==
    /\ ProfileTyped(q) /\ q.cv = a /\ q.rest = b
    /\ q.mode = p.mode /\ q.reserved = p.reserved

LEMMA VoltagesPut ==
  ASSUME NEW p, ProfileTyped(p), NEW a \in Volts, NEW b \in Volts
  PROVE  Moved(WithVolts(p, a, b), p, a, b)
BY DEF ProfileTyped, Moved, WithVolts

LEMMA ResolvedTyped ==
  ASSUME NEW v \in Volts, NEW ref, NEW prim \in [Host!Primitives -> Volts]
  PROVE  Host!Resolved(v, ref, prim) \in Volts
BY DEF Host!Resolved

LEMMA PropagateTyped ==
  ASSUME NEW prof, ProfilesTyped(prof), NEW prim \in [Host!Primitives -> Volts]
  PROVE  /\ ProfilesTyped(Host!Propagate(prof, prim))
         /\ \A i \in 1 .. Profiles :
               Moved(Host!Propagate(prof, prim)[i], prof[i],
                     Host!Resolved(prof[i].cv, prof[i].cv_ref, prim),
                     Host!Resolved(prof[i].rest, prof[i].rest_ref, prim))
<1>1. ASSUME NEW i \in 1 .. Profiles
      PROVE  Moved(Host!Propagate(prof, prim)[i], prof[i],
                   Host!Resolved(prof[i].cv, prof[i].cv_ref, prim),
                   Host!Resolved(prof[i].rest, prof[i].rest_ref, prim))
  <2> DEFINE a == Host!Resolved(prof[i].cv, prof[i].cv_ref, prim)
             b == Host!Resolved(prof[i].rest, prof[i].rest_ref, prim)
  <2>1. ProfileTyped(prof[i]) /\ DOMAIN prof = 1 .. Profiles
    BY DEF ProfilesTyped
  <2>2. a \in Volts /\ b \in Volts
    BY <2>1, ResolvedTyped DEF ProfileTyped
  <2>3. Host!Propagate(prof, prim)[i] = WithVolts(prof[i], a, b)
    BY <2>1 DEF Host!Propagate, ProfileTyped, WithVolts
  <2> HIDE DEF a, b
  <2>4. Moved(Host!Propagate(prof, prim)[i], prof[i], a, b)
    BY <2>1, <2>2, <2>3, VoltagesPut
  <2>5. QED
    BY <2>4 DEF a, b
<1>2. DOMAIN Host!Propagate(prof, prim) = 1 .. Profiles
  BY DEF Host!Propagate, ProfilesTyped
<1>3. QED
  BY <1>1, <1>2 DEF Moved, ProfilesTyped

LEMMA DefaultsAreSafe ==
  ASSUME Host!HostAssumption
  PROVE  CfgTyped(Host!Defaults) /\ Rails(Host!Defaults)
<1> DEFINE prim == [v_bulk |-> 360, v_bulk_cons |-> 350, v_float |-> 340, v_float_cons |-> 335,
                    v_limp |-> 330]
           prof == [i \in 1 .. Profiles |-> Host!DefaultProfile(i)]
<1>1. Profiles \in Nat /\ Profiles > 1 /\ Off \notin Int
  BY DEF Host!HostAssumption
<1>2. prim \in [Host!Primitives -> Volts] /\ prim.v_limp = 330
      /\ prim["v_bulk"] = 360 /\ prim["v_float"] = 340
  BY PrimitiveNames DEF Volts
<1>3. ASSUME NEW i \in 1 .. Profiles
      PROVE  ProfileTyped(prof[i])
  BY PrimitiveNames DEF Host!DefaultProfile, Refs, Host!NoRef, ProfileTyped, Volts
<1>4. /\ ~prof[1].reserved /\ prof[1].cv_ref = "v_bulk" /\ prof[1].rest_ref = "v_float"
  <2>1. prof[1] = Host!DefaultProfile(1) /\ 1 # Profiles /\ 1 # 2
    BY <1>1
  <2>2. 1 \notin {2, Profiles}
    BY <2>1
  <2>3. /\ ~Host!DefaultProfile(1).reserved /\ Host!DefaultProfile(1).cv_ref = "v_bulk"
        /\ Host!DefaultProfile(1).rest_ref = "v_float"
    BY <2>1, <2>2 DEF Host!DefaultProfile
  <2>4. QED
    BY <2>1, <2>3
<1>5. /\ Host!Defaults.prim = prim /\ Host!Defaults.limp_vcell = 330
      /\ Host!Defaults.prof = Host!Propagate(prof, prim) /\ Host!Defaults.active = 1
      /\ {"prim", "limp_vcell", "f", "prof", "active"} \subseteq DOMAIN Host!Defaults
  BY DEF Host!Defaults
<1>6. ProfilesTyped(prof)
  BY <1>3 DEF ProfilesTyped
<1> HIDE DEF prim, prof
<1>7. CfgTyped(Host!Defaults)
  <2>1. ProfilesTyped(Host!Propagate(prof, prim))
    BY <1>2, <1>6, PropagateTyped
  <2>2. QED
    BY <1>2, <1>5, <2>1 DEF CfgTyped, Volts
<1>8. Host!Resolved(prof[1].cv, "v_bulk", prim) = 360
      /\ Host!Resolved(prof[1].rest, "v_float", prim) = 340
  BY <1>1, <1>2, PrimitiveNames DEF Host!Resolved
<1>9. Rails(Host!Defaults)
  <2>1. 1 \in 1 .. Profiles
    BY <1>1
  <2>2. /\ ~Host!Propagate(prof, prim)[1].reserved
        /\ Host!Propagate(prof, prim)[1].cv = 360 /\ Host!Propagate(prof, prim)[1].rest = 340
    BY <1>2, <1>4, <1>6, <1>8, <2>1, PropagateTyped DEF Moved
  <2>3. QED
    BY <1>2, <1>5, <2>2 DEF Rails
<1>10. QED
  BY <1>7, <1>9

-----------------------------------------------------------------------------
(* Reading a document *)

\* A member that carries a voltage carries a number or null.
MemberTyped(m) ==
    /\ Host!InVolts(m) /\ m.json.t = "num" => m.json.v \in Int
    /\ m.json.t = "null" => m.json.v = Off

ParseTyped(d) ==
    /\ {"cfg", "err", "unknown", "sawLimp", "sawLimpVcell"} \subseteq DOMAIN d
    /\ CfgTyped(d.cfg)

LEMMA BeginTyped ==
  ASSUME NEW c, CfgTyped(c)
  PROVE  ParseTyped(Host!Begin(c))
BY DEF Host!Begin, ParseTyped

LEMMA PutTyped ==
  ASSUME NEW d, ParseTyped(d), NEW fits, NEW c, fits => CfgTyped(c)
  PROVE  ParseTyped(Host!Put(d, fits, c))
BY DEF Host!Put, ParseTyped

LEMMA ProfileWithTyped ==
  ASSUME NEW p, ProfileTyped(p), NEW key, NEW j, Host!ProfileFits(key, j),
         key \in {"cv_target", "voltage"} /\ Host!Numeric(j) => j.v \in Volts
  PROVE  ProfileTyped(Host!ProfileWith(p, key, j))
<1>1. key \in {"cv_target", "voltage"} =>
        Host!RefOf(j) \in Refs /\ \A old \in Volts : Host!LiteralOf(j, old) \in Volts
  BY DEF Host!ProfileFits, Host!FitsRef, Host!RefOf, Host!LiteralOf, Host!Numeric, Refs
<1>2. CASE key = "cv_target"
  <2>1. Host!ProfileWith(p, key, j)
          = [p EXCEPT !.cv_ref = Host!RefOf(j), !.cv = Host!LiteralOf(j, p.cv)]
    BY <1>2 DEF Host!ProfileWith, ProfileTyped
  <2>2. Host!RefOf(j) \in Refs /\ Host!LiteralOf(j, p.cv) \in Volts
    BY <1>1, <1>2 DEF ProfileTyped
  <2>3. QED
    BY <2>1, <2>2 DEF ProfileTyped
<1>3. CASE key = "voltage"
  <2>1. Host!ProfileWith(p, key, j)
          = [p EXCEPT !.rest_ref = Host!RefOf(j), !.rest = Host!LiteralOf(j, p.rest)]
    BY <1>3 DEF Host!ProfileWith, ProfileTyped
  <2>2. Host!RefOf(j) \in Refs /\ Host!LiteralOf(j, p.rest) \in Volts
    BY <1>1, <1>3 DEF ProfileTyped
  <2>3. QED
    BY <2>1, <2>2 DEF ProfileTyped
<1>4. CASE key \in {"id", "reserved", "mode", "v_cell"}
  BY <1>4 DEF Host!ProfileWith, ProfileTyped
<1>5. CASE key \notin {"id", "reserved", "mode", "v_cell", "cv_target", "voltage"}
  BY <1>5 DEF Host!ProfileWith
<1>6. QED
  BY <1>2, <1>3, <1>4, <1>5

LEMMA ParseMemberTyped ==
  ASSUME NEW d, ParseTyped(d), NEW m, MemberTyped(m)
  PROVE  ParseTyped(Host!ParseMember(d, m))
<1> DEFINE c == d.cfg
           j == m.json
           r == Host!ParseMember(d, m)
<1>1. CfgTyped(c)
  BY DEF ParseTyped
<1>2. Host!InVolts(m) /\ Host!Numeric(j) => j.v \in Volts
  BY DEF MemberTyped, Host!Numeric, Volts
<1>3. ASSUME NEW e PROVE ParseTyped([d EXCEPT !.err = e])
  BY DEF ParseTyped
<1>4. ParseTyped(Host!Unknown(d))
  BY DEF ParseTyped, Host!Unknown
<1>5. \/ \E e : r = [d EXCEPT !.err = e]
      \/ r = d \/ r = Host!Unknown(d)
      \/ r = Host!Put(d, j.t = "num" /\ j.v # Wide, [c EXCEPT !.active = j.v])
      \/ /\ m.in = "primitives" /\ m.key \in Host!Primitives
         /\ \E x : r = [Host!Put(d, Host!Numeric(j), [c EXCEPT !.prim[m.key] = j.v])
                          EXCEPT !.sawLimp = x]
      \/ /\ m.in = "global" /\ m.key = "limp_vcell"
         /\ \E x : r = [Host!Put(d, Host!Numeric(j), [c EXCEPT !.limp_vcell = j.v])
                          EXCEPT !.sawLimpVcell = x]
      \/ \E x : r = Host!Put(d, Host!Fits(m.key, j), [c EXCEPT !.f[m.key] = x])
      \/ /\ m.slot \in 1 .. Profiles /\ m.key \in Host!ProfileKeys
         /\ r = Host!Put(d, Host!ProfileFits(m.key, j),
                         [c EXCEPT !.prof[m.slot] = Host!ProfileWith(c.prof[m.slot], m.key, j)])
  <2> DEFINE G1 == m.in = "top" /\ m.key = "schema_version"
             G2 == m.in = "top" /\ m.key \in {"primitives", "limits", "global", "profiles"}
             G3 == m.in = "top" /\ m.key = "active_profile"
             G4 == m.in = "top" /\ m.key = "fw"
             G5 == m.in = "primitives" /\ m.key \in Host!Primitives
             G6 == m.in = "global" /\ m.key = "limp_vcell"
             G7 == m.key \in Host!Fields /\ Host!BlockOf(m.key) = m.in
             G8 == m.in = "profiles" /\ m.slot \notin 1 .. Profiles
             G9 == m.in = "profiles" /\ m.slot \in 1 .. Profiles /\ m.key \in Host!ProfileKeys
             e1 == IF j.t # "num" THEN "TYPE" ELSE IF j.v = "ours" THEN "OK" ELSE "SCHEMA"
             p == Host!ProfileWith(c.prof[m.slot], m.key, j)
             r3 == Host!Put(d, j.t = "num" /\ j.v # Wide, [c EXCEPT !.active = j.v])
             r5(x) == [Host!Put(d, Host!Numeric(j), [c EXCEPT !.prim[m.key] = j.v])
                         EXCEPT !.sawLimp = x]
             r6(x) == [Host!Put(d, Host!Numeric(j), [c EXCEPT !.limp_vcell = j.v])
                         EXCEPT !.sawLimpVcell = x]
             r7(x) == Host!Put(d, Host!Fits(m.key, j), [c EXCEPT !.f[m.key] = x])
             r9 == Host!Put(d, Host!ProfileFits(m.key, j), [c EXCEPT !.prof[m.slot] = p])
             x5 == IF m.key = "v_limp" THEN Host!Numeric(j)
                   ELSE Host!Put(d, Host!Numeric(j), [c EXCEPT !.prim[m.key] = j.v]).sawLimp
             w1 == [d EXCEPT !.err = e1]
             x6 == Host!Numeric(j)
             x7 == Host!Stored(m.key, j)
  <2>1. r = CASE G1 -> [d EXCEPT !.err = e1]
              [] G2 -> [d EXCEPT !.err = "JSON"]
              [] G3 -> r3
              [] G4 -> d
              [] G5 -> r5(x5)
              [] G6 -> r6(x6)
              [] G7 -> r7(x7)
              [] G8 -> [d EXCEPT !.err = "TYPE"]
              [] G9 -> r9
              [] OTHER -> Host!Unknown(d)
    BY DEF Host!ParseMember
  <2> DEFINE err(e) == [d EXCEPT !.err = e]
  <2>2. r = CASE G1 -> w1 [] G2 -> err("JSON") [] G3 -> r3 [] G4 -> d [] G5 -> r5(x5)
              [] G6 -> r6(x6) [] G7 -> r7(x7)
              [] G8 -> err("TYPE") [] G9 -> r9 [] OTHER -> Host!Unknown(d)
    BY <2>1
  <2> HIDE DEF r, r3, r5, r6, r7, r9, x5, x6, x7, e1, w1, err
  <2>3. \/ r = w1 \/ r = err("JSON") \/ r = err("TYPE")
        \/ r = d \/ r = Host!Unknown(d) \/ r = r3
        \/ G5 /\ r = r5(x5)
        \/ G6 /\ r = r6(x6)
        \/ r = r7(x7)
        \/ G9 /\ r = r9
    <3> HIDE DEF G1, G2, G3, G4, G5, G6, G7, G8, G9, p
    <3>1. CASE G1
      <4>1. ~G2 /\ ~G3 /\ ~G4 /\ ~G5 /\ ~G6 /\ ~G7 /\ ~G8 /\ ~G9
        BY <3>1 DEF G1, G2, G3, G4, G5, G6, G7, G8, G9, Host!BlockOf
      <4>2. r = w1
        BY <2>2, <3>1, <4>1
      <4>3. QED
        BY Zenon, <4>2
    <3>2. CASE G2
      BY <2>2, <3>2
    <3>3. CASE G3
      BY <2>2, <3>3
    <3>4. CASE G4
      BY <2>2, <3>4
    <3>5. CASE G5
      BY <2>2, <3>5
    <3>6. CASE G6
      BY <2>2, <3>6
    <3>7. CASE G7
      BY <2>2, <3>7
    <3>8. CASE G8
      BY <2>2, <3>8
    <3>9. CASE G9
      BY <2>2, <3>9
    <3>10. CASE ~(G1 \/ G2 \/ G3 \/ G4 \/ G5 \/ G6 \/ G7 \/ G8 \/ G9)
      BY <2>2, <3>10
    <3>11. QED
      BY Zenon, <3>1, <3>2, <3>3, <3>4, <3>5, <3>6, <3>7, <3>8, <3>9, <3>10
  <2>4. \/ \E e : r = err(e)
        \/ r = d \/ r = Host!Unknown(d) \/ r = r3
        \/ G5 /\ \E x : r = r5(x)
        \/ G6 /\ \E x : r = r6(x)
        \/ \E x : r = r7(x)
        \/ G9 /\ r = r9
    <3>1. w1 = err(e1)
      BY DEF w1, err
    <3>2. QED
      BY <2>3, <3>1
  <2>5. QED
    BY <2>4 DEF r3, r5, r6, r7, r9, err
<1> HIDE DEF r
<1>6. CASE \E e : r = [d EXCEPT !.err = e]
  BY <1>3, <1>6 DEF r
<1>7. CASE r = d \/ r = Host!Unknown(d)
  BY <1>4, <1>7 DEF r
<1>8. CASE r = Host!Put(d, j.t = "num" /\ j.v # Wide, [c EXCEPT !.active = j.v])
  <2>1. CfgTyped([c EXCEPT !.active = j.v])
    BY <1>1 DEF CfgTyped
  <2>2. QED
    BY <1>8, <2>1, PutTyped DEF r
<1>9. CASE /\ m.in = "primitives" /\ m.key \in Host!Primitives
           /\ \E x : r = [Host!Put(d, Host!Numeric(j), [c EXCEPT !.prim[m.key] = j.v])
                            EXCEPT !.sawLimp = x]
  <2>1. Host!Numeric(j) => CfgTyped([c EXCEPT !.prim[m.key] = j.v])
    <3>1. SUFFICES ASSUME Host!Numeric(j) PROVE CfgTyped([c EXCEPT !.prim[m.key] = j.v])
      OBVIOUS
    <3>2. j.v \in Volts
      BY <1>2, <1>9, <3>1 DEF Host!InVolts
    <3>3. QED
      BY <1>1, <1>9, <3>2 DEF CfgTyped
  <2>2. ParseTyped(Host!Put(d, Host!Numeric(j), [c EXCEPT !.prim[m.key] = j.v]))
    BY <2>1, PutTyped
  <2>3. QED
    BY <1>9, <2>2 DEF r, ParseTyped
<1>10. CASE /\ m.in = "global" /\ m.key = "limp_vcell"
            /\ \E x : r = [Host!Put(d, Host!Numeric(j), [c EXCEPT !.limp_vcell = j.v])
                             EXCEPT !.sawLimpVcell = x]
  <2>1. Host!Numeric(j) => CfgTyped([c EXCEPT !.limp_vcell = j.v])
    BY <1>1, <1>2, <1>10 DEF CfgTyped, Host!InVolts
  <2>2. ParseTyped(Host!Put(d, Host!Numeric(j), [c EXCEPT !.limp_vcell = j.v]))
    BY <2>1, PutTyped
  <2>3. QED
    BY <1>10, <2>2 DEF r, ParseTyped
<1>11. CASE \E x : r = Host!Put(d, Host!Fits(m.key, j), [c EXCEPT !.f[m.key] = x])
  <2>1. PICK x : r = Host!Put(d, Host!Fits(m.key, j), [c EXCEPT !.f[m.key] = x])
    BY <1>11
  <2>2. CfgTyped([c EXCEPT !.f[m.key] = x])
    BY <1>1 DEF CfgTyped
  <2>3. QED
    BY <2>1, <2>2, PutTyped DEF r
<1>12. CASE /\ m.slot \in 1 .. Profiles /\ m.key \in Host!ProfileKeys
            /\ r = Host!Put(d, Host!ProfileFits(m.key, j),
                            [c EXCEPT !.prof[m.slot] = Host!ProfileWith(c.prof[m.slot], m.key, j)])
  <2> DEFINE p == Host!ProfileWith(c.prof[m.slot], m.key, j)
  <2>1. Host!ProfileFits(m.key, j) => ProfileTyped(p)
    <3>1. ProfileTyped(c.prof[m.slot])
      BY <1>1, <1>12 DEF CfgTyped, ProfilesTyped
    <3>2. m.key \in {"cv_target", "voltage"} /\ Host!Numeric(j) => j.v \in Volts
      BY <1>2 DEF Host!InVolts
    <3>3. QED
      BY <3>1, <3>2, ProfileWithTyped
  <2> HIDE DEF p
  <2>2. Host!ProfileFits(m.key, j) => CfgTyped([c EXCEPT !.prof[m.slot] = p])
    BY <1>1, <1>12, <2>1 DEF CfgTyped, ProfilesTyped
  <2>3. ParseTyped(Host!Put(d, Host!ProfileFits(m.key, j), [c EXCEPT !.prof[m.slot] = p]))
    BY <2>2, PutTyped
  <2>4. QED
    BY <1>12, <2>3 DEF r, p
<1>13. QED
  BY <1>5, <1>6, <1>7, <1>8, <1>9, <1>10, <1>11, <1>12

\* The parse that reads one member more.
ReadOn(d, m) == IF d.err = "OK" THEN Host!ParseMember(d, m) ELSE d

Reads(c, doc, k, f) ==
    /\ f = [i \in 0 .. k |-> IF i = 0 THEN Host!Begin(c) ELSE ReadOn(f[i - 1], doc[i])]

LEMMA ReadsExist ==
  ASSUME NEW c, NEW doc, NEW k \in Nat
  PROVE  \E f : Reads(c, doc, k, f)
<1> DEFINE S == {x \in 0 .. k : \E f : Reads(c, doc, x, f)}
<1>1. 0 \in S
  <2>1. Reads(c, doc, 0, [i \in 0 .. 0 |-> Host!Begin(c)])
    BY DEF Reads
  <2>2. QED
    BY <2>1
<1>2. ASSUME NEW x \in 1 .. k, x - 1 \in S PROVE x \in S
  <2>1. PICK f : Reads(c, doc, x - 1, f)
    BY <1>2
  <2> DEFINE g == [i \in 0 .. x |-> IF i = x THEN ReadOn(f[x - 1], doc[x]) ELSE f[i]]
  <2>2. ASSUME NEW i \in 0 .. x
        PROVE  g[i] = IF i = 0 THEN Host!Begin(c) ELSE ReadOn(g[i - 1], doc[i])
    <3>1. CASE i = x
      <4>1. x - 1 \in 0 .. x /\ x - 1 # x /\ i # 0
        BY <1>2, <3>1
      <4>2. QED
        BY <3>1, <4>1
    <3>2. CASE i # x
      <4>1. i \in 0 .. x - 1 /\ g[i] = f[i] /\ (i # 0 => i - 1 \in 0 .. x /\ i - 1 # x)
        BY <1>2, <3>2
      <4>2. i # 0 => g[i - 1] = f[i - 1]
        BY <4>1
      <4>3. f[i] = IF i = 0 THEN Host!Begin(c) ELSE ReadOn(f[i - 1], doc[i])
        BY <2>1, <4>1 DEF Reads
      <4> HIDE DEF g
      <4>4. QED
        BY <4>1, <4>2, <4>3
    <3>3. QED
      BY <3>1, <3>2
  <2>3. g = [i \in 0 .. x |-> g[i]]
    OBVIOUS
  <2> HIDE DEF g
  <2>4. Reads(c, doc, x, g)
    BY <2>2, <2>3 DEF Reads
  <2>5. QED
    BY <1>2, <2>4
<1>3. 0 .. k \subseteq S
  <2> HIDE DEF S
  <2>1. QED
    BY <1>1, <1>2, Upward
<1>4. k \in 0 .. k
  OBVIOUS
<1>5. QED
  BY <1>3, <1>4

\* A document leaves the voltages of a configuration numbers or off.
LEMMA OverlayTyped ==
  ASSUME NEW c, CfgTyped(c), NEW doc, Len(doc) \in Nat, \A k \in 1 .. Len(doc) : MemberTyped(doc[k])
  PROVE  ParseTyped(Host!Overlay(c, doc))
<1> DEFINE f == CHOOSE f : Reads(c, doc, Len(doc), f)
<1>1. Reads(c, doc, Len(doc), f)
  BY ReadsExist
<1>2. Host!Overlay(c, doc) = f[Len(doc)]
  BY DEF Host!Overlay, Reads, ReadOn
<1> HIDE DEF f
<1> DEFINE S == {i \in 0 .. Len(doc) : ParseTyped(f[i])}
<1>3. 0 \in S
  BY <1>1, BeginTyped DEF Reads
<1>4. ASSUME NEW i \in 1 .. Len(doc), i - 1 \in S PROVE i \in S
  <2>1. f[i] = ReadOn(f[i - 1], doc[i]) /\ ParseTyped(f[i - 1])
    BY <1>1, <1>4 DEF Reads
  <2>2. ParseTyped(ReadOn(f[i - 1], doc[i]))
    BY <2>1, ParseMemberTyped DEF ReadOn
  <2>3. QED
    BY <2>1, <2>2
<1>5. 0 .. Len(doc) \subseteq S
  <2> HIDE DEF S
  <2>1. QED
    BY <1>3, <1>4, Upward
<1>6. QED
  BY <1>2, <1>5

LEMMA ParsedTyped ==
  ASSUME NEW c, CfgTyped(c), NEW doc, Len(doc) \in Nat, \A k \in 1 .. Len(doc) : MemberTyped(doc[k])
  PROVE  CfgTyped(Host!Parse(c, doc).cfg)
<1> DEFINE d == Host!Overlay(c, doc)
           prof == Host!Propagate(d.cfg.prof, d.cfg.prim)
           limp == IF d.sawLimp /\ ~d.sawLimpVcell THEN d.cfg.prim.v_limp ELSE d.cfg.limp_vcell
<1>1. ParseTyped(d)
  BY OverlayTyped
<1>2. Host!Parse(c, doc) = IF d.err = "OK" THEN Host!ResolveAfter(d) ELSE d
  BY DEF Host!Parse
<1> HIDE DEF d
<1>3. Host!ResolveAfter(d) = [d EXCEPT !.cfg.prof = prof, !.cfg.limp_vcell = limp]
  BY <1>1 DEF Host!ResolveAfter, ParseTyped, CfgTyped
<1>4. ProfilesTyped(prof)
  BY <1>1, PropagateTyped DEF ParseTyped, CfgTyped
<1>5. limp \in Volts
  BY <1>1, PrimitiveNames DEF ParseTyped, CfgTyped
<1> HIDE DEF prof, limp
<1>6. CfgTyped([d EXCEPT !.cfg.prof = prof, !.cfg.limp_vcell = limp].cfg)
  BY <1>1, <1>4, <1>5 DEF ParseTyped, CfgTyped
<1>7. QED
  BY <1>1, <1>2, <1>3, <1>6 DEF ParseTyped

-----------------------------------------------------------------------------
(* The lines of a host *)

HostInv ==
    /\ CfgTyped(s_cfg) /\ Rails(s_cfg) /\ (durable # None => CfgTyped(durable))
    /\ asking \in Host!Messages \cup {None} /\ sent \in Nat /\ (asking = None => sent = 0)
    /\ fresh /\ sent = 0 => len = 0 /\ ~overflow

\* What an answer says of the save: a refusal keeps what runs, an "ok" is durable.
Honest ==
    /\ reply' # None /\ reply'.t = "err" => s_cfg' = s_cfg
    /\ reply' # None /\ reply'.t = "ok" => durable' = s_cfg'

LEMMA RequestIsAnswered ==
  ASSUME Host!HostAssumption, HostInv, NEW i \in DOMAIN Docs, Host!CfgSet(Docs[i])
  PROVE  /\ CfgTyped(s_cfg)' /\ Rails(s_cfg)' /\ (durable # None => CfgTyped(durable))'
         /\ Honest
<1> DEFINE d == Host!Parse(s_cfg, Docs[i])
           v == Host!Validate(d.cfg)
<1>1. CfgTyped(d.cfg)
  <2>1. Len(Docs[i]) \in Nat /\ \A k \in 1 .. Len(Docs[i]) : MemberTyped(Docs[i][k])
    BY DEF Host!HostAssumption, MemberTyped
  <2>2. QED
    BY <2>1, ParsedTyped DEF HostInv
<1>2. v.rule = "CFG_OK" => Rails(d.cfg)
  BY <1>1, ValidIsWithinRails DEF Host!Valid
<1>3. \/ d.err # "OK" /\ Host!Say(Host!Err(d.err, 0))
      \/ v.rule # "CFG_OK" /\ Host!Say(Host!Err(v.rule, v.profile))
      \/ v.rule = "CFG_OK" /\ Host!SaveOk(d.cfg)
      \/ v.rule = "CFG_OK" /\ Host!SaveFailed(d.cfg)
  BY DEF Host!CfgSet
<1> HIDE DEF d, v
<1>4. ASSUME NEW a, NEW b, Host!Say(Host!Err(a, b))
      PROVE  /\ CfgTyped(s_cfg)' /\ Rails(s_cfg)' /\ (durable # None => CfgTyped(durable))'
             /\ Honest
  BY <1>4 DEF Host!Say, Host!Err, Honest, HostInv
<1>5. CASE v.rule = "CFG_OK" /\ Host!SaveOk(d.cfg)
  BY <1>1, <1>2, <1>5 DEF Host!SaveOk, Host!Reply, Honest
<1>6. CASE v.rule = "CFG_OK" /\ Host!SaveFailed(d.cfg)
  <2>1. s_cfg' = s_cfg /\ durable' \in {durable, d.cfg} /\ reply'.t = "err"
    BY <1>6 DEF Host!SaveFailed, Host!Err
  <2>2. QED
    BY <1>1, <2>1 DEF Honest, HostInv
<1>7. QED
  BY <1>3, <1>4, <1>5, <1>6

LEMMA DispatchIsHonest ==
  ASSUME Host!HostAssumption, HostInv, NEW m \in Host!Messages, Host!Dispatch(m)
  PROVE  /\ CfgTyped(s_cfg)' /\ Rails(s_cfg)' /\ (durable # None => CfgTyped(durable))'
         /\ Honest \/ UNCHANGED <<s_cfg, durable, reply>>
<1> DEFINE Kept == /\ CfgTyped(s_cfg)' /\ Rails(s_cfg)' /\ (durable # None => CfgTyped(durable))'
<1>1. \/ m.t \in Host!Plain
      \/ m.t = "cfg-set" /\ m.doc \in {0} \cup DOMAIN Docs
  BY DEF Host!Messages, Host!Request, Host!SetRequest
<1>2. ASSUME NEW r, r.t # "ok", Host!Say(r) PROVE Kept /\ Honest
  BY <1>2 DEF Host!Say, Honest, HostInv
<1>3. ASSUME NEW a, NEW b PROVE Host!Err(a, b).t # "ok"
  BY DEF Host!Err
<1>4. CASE m.t = "blank"
  BY <1>4 DEF Host!Dispatch, HostInv
<1>5. CASE m.t \in {"junk", "no type", "unknown type", "cfg-set of a non-object"}
  <2>1. Host!Say(Host!Err("JSON", 0)) \/ Host!Say(Host!Err("MSG", 0))
    BY <1>5 DEF Host!Dispatch
  <2>2. QED
    BY <1>2, <1>3, <2>1
<1>6. CASE m.t \in {"hello", "cfg-get", "telem-get", "too long"}
  <2>1. Host!Say(Host!Reply(m.t))
    BY <1>6 DEF Host!Dispatch
  <2>2. Host!Reply(m.t).t # "ok"
    BY <1>6 DEF Host!Reply
  <2>3. QED
    BY <1>2, <2>1, <2>2
<1>7. CASE m.t = "cfg-set"
  <2>1. CASE m.doc = 0
    BY <1>2, <1>3, <1>7, <2>1 DEF Host!Dispatch
  <2>2. CASE m.doc # 0
    <3>1. m.doc \in DOMAIN Docs /\ Host!CfgSet(Docs[m.doc])
      BY <1>1, <1>7, <2>2 DEF Host!Dispatch, Host!Plain
    <3>2. QED
      BY <3>1, RequestIsAnswered
  <2>3. QED
    BY <2>1, <2>2
<1>8. QED
  BY <1>1, <1>4, <1>5, <1>6, <1>7 DEF Host!Plain

LEMMA HostStep ==
  ASSUME Host!HostAssumption, HostInv, [Host!Next]_(Host!vars)
  PROVE  HostInv' /\ (Honest \/ UNCHANGED <<s_cfg, durable, reply>>)
<1>1. CASE UNCHANGED Host!vars
  BY <1>1 DEF Host!vars, HostInv
<1>2. ASSUME NEW m \in Host!Messages, Host!Ask(m)
      PROVE  HostInv' /\ (Honest \/ UNCHANGED <<s_cfg, durable, reply>>)
  BY <1>2 DEF Host!Ask, Host!assembler, HostInv, Honest
<1>3. CASE Host!Piece
  BY <1>3 DEF Host!Piece, HostInv
<1>4. CASE Host!Newline
  <2>1. asking \in Host!Messages
    BY <1>4 DEF Host!Newline, HostInv
  <2>2. /\ asking' = None /\ sent' = 0 /\ len' = 0 /\ overflow' = FALSE
    BY <1>4 DEF Host!Newline, Host!Cleared
  <2>3. \/ Host!Say(Host!Err("JSON", 0))
        \/ \E m \in Host!Messages : Host!Dispatch(m)
    <3>1. Host!Request("blank") \in Host!Messages /\ Host!Request("junk") \in Host!Messages
      BY DEF Host!Messages, Host!Plain
    <3>2. QED
      BY <1>4, <2>1, <3>1 DEF Host!Newline, Host!OverLong
  <2>4. CASE Host!Say(Host!Err("JSON", 0))
    BY <2>2, <2>4 DEF HostInv, Host!Say, Host!Err, Honest
  <2>5. CASE \E m \in Host!Messages : Host!Dispatch(m)
    <3>1. /\ CfgTyped(s_cfg)' /\ Rails(s_cfg)' /\ (durable # None => CfgTyped(durable))'
          /\ Honest \/ UNCHANGED <<s_cfg, durable, reply>>
      BY <2>5, DispatchIsHonest
    <3>2. QED
      BY <2>2, <3>1 DEF HostInv
  <2>6. QED
    BY <2>3, <2>4, <2>5
<1>5. CASE Host!Abandon
  BY <1>5 DEF Host!Abandon, Host!Gone, Host!Reply, HostInv, Honest
<1>6. CASE Host!Boot
  <2>1. /\ asking' = None /\ sent' = 0 /\ len' = 0 /\ overflow' = FALSE /\ durable' = durable
        /\ reply'.t = "gone"
        /\ \/ durable # None /\ Host!Valid(durable) /\ s_cfg' = durable
           \/ s_cfg' = Host!Defaults
    BY <1>6 DEF Host!Boot, Host!Cleared, Host!Gone, Host!Reply
  <2>2. CfgTyped(s_cfg)' /\ Rails(s_cfg)'
    <3>1. CASE durable # None /\ Host!Valid(durable) /\ s_cfg' = durable
      BY <3>1, ValidIsWithinRails DEF HostInv
    <3>2. CASE s_cfg' = Host!Defaults
      BY <3>2, DefaultsAreSafe
    <3>3. QED
      BY <2>1, <3>1, <3>2
  <2>3. QED
    BY <2>1, <2>2 DEF HostInv, Honest
<1>7. QED
  BY <1>1, <1>2, <1>3, <1>4, <1>5, <1>6 DEF Host!Next

LEMMA HostInvariance ==
  ASSUME Host!HostAssumption
  PROVE  HostSpec => []HostInv
<1>1. Host!Init => HostInv
  BY DefaultsAreSafe DEF Host!Init, HostInv
<1>2. HostInv /\ [Host!Next]_(Host!vars) => HostInv'
  BY HostStep
<1>3. QED
  BY <1>1, <1>2, PTL DEF HostSpec

\* Whatever a host sends, what runs is within the rails, no line is glued to the one
\* before it, a refusal changes nothing and an acknowledged save is durable.
THEOREM HostSavesHonestly ==
  ASSUME Host!HostAssumption
  PROVE  HostSpec => SavesAreHonest
<1>1. HostInv => Host!RunsWithinRails /\ Host!NextLineIsClean
  BY DEF HostInv, Rails, Host!RunsWithinRails, Host!NextLineIsClean
<1>2. HostInv /\ [Host!Next]_(Host!vars) =>
        [reply' # None /\ reply'.t = "err" => s_cfg' = s_cfg]_(Host!vars)
  <2>1. SUFFICES ASSUME HostInv, [Host!Next]_(Host!vars)
                 PROVE  [reply' # None /\ reply'.t = "err" => s_cfg' = s_cfg]_(Host!vars)
    OBVIOUS
  <2>2. Honest \/ UNCHANGED <<s_cfg, durable, reply>>
    BY <2>1, HostStep
  <2>3. QED
    BY <2>2 DEF Honest
<1>3. HostInv /\ [Host!Next]_(Host!vars) =>
        [reply' # None /\ reply'.t = "ok" => durable' = s_cfg']_<<reply, s_cfg, durable>>
  <2>1. SUFFICES ASSUME HostInv, [Host!Next]_(Host!vars)
                 PROVE  [reply' # None /\ reply'.t = "ok" => durable' = s_cfg']_<<reply, s_cfg, durable>>
    OBVIOUS
  <2>2. Honest \/ UNCHANGED <<s_cfg, durable, reply>>
    BY <2>1, HostStep
  <2>3. QED
    BY <2>2 DEF Honest
<1>4. QED
  BY HostInvariance, <1>1, <1>2, <1>3, PTL
     DEF HostSpec, SavesAreHonest, Host!RefusedChangesNothing, Host!OkIsDurable

-----------------------------------------------------------------------------
(* WHAT THE RUN OF THE PARTS CHECKS TOGETHER (MCParts) *)

\* A step of the run is a step of one part, and the others stand still.
LEMMA EachPartMoves ==
  ASSUME [PartsNext]_AllVars
  PROVE  /\ [Next]_vars /\ [Stack!StackNext]_(Stack!stackVars) /\ [Dio!DioNext]_(Dio!dioVars)
         /\ [Vsup!GuardNext]_(Vsup!guardVars) /\ [Hot!ThermalNext]_(Hot!thermalVars)
         /\ [Bench!BenchNext]_(Bench!benchVars) /\ [Tests!TestNext]_(Tests!testVars)
         /\ [Rpm!StatorNext]_(Rpm!statorVars) /\ [Led!AnnuncNext]_(Led!annuncVars)
         /\ [Host!Next]_(Host!vars)
<1>1. CASE UNCHANGED AllVars
  BY <1>1 DEF AllVars, stack, inputs, supply, thermal, bench, tests, Stack!stackVars, Dio!dioVars,
              Vsup!guardVars, Hot!thermalVars, Bench!benchVars, Bench!console, Bench!link,
              Bench!guard, Tests!testVars, Tests!can, Tests!scan, stator, led, host,
              Rpm!statorVars, Led!annuncVars, Host!vars
<1>2. CASE PartsNext
  <2>1. Next \/ UNCHANGED vars
    BY <1>2 DEF PartsNext, Rest
  <2>2. Stack!StackNext \/ UNCHANGED stack
    BY <1>2 DEF PartsNext, Rest
  <2>3. Dio!DioNext \/ UNCHANGED inputs
    BY <1>2 DEF PartsNext, Rest
  <2>4. Vsup!GuardNext \/ UNCHANGED supply
    BY <1>2 DEF PartsNext, Rest
  <2>5. Hot!ThermalNext \/ UNCHANGED thermal
    BY <1>2 DEF PartsNext, Rest
  <2>6. Bench!BenchNext \/ UNCHANGED bench
    BY <1>2 DEF PartsNext, Rest
  <2>7. Tests!TestNext \/ UNCHANGED tests
    BY <1>2 DEF PartsNext, Rest
  <2>8. Rpm!StatorNext \/ UNCHANGED stator
    BY <1>2 DEF PartsNext, Rest
  <2>9. Led!AnnuncNext \/ UNCHANGED led
    BY <1>2 DEF PartsNext, Rest
  <2>10. Host!Next \/ UNCHANGED host
    BY <1>2 DEF PartsNext, Rest
  <2>11. QED
    BY <2>1, <2>2, <2>3, <2>4, <2>5, <2>6, <2>7, <2>8, <2>9, <2>10
       DEF stack, inputs, supply, thermal, bench, tests, Stack!stackVars, Dio!dioVars,
           Vsup!guardVars, Hot!thermalVars, Bench!benchVars, Bench!console, Bench!link,
           Bench!guard, Tests!testVars, Tests!can, Tests!scan, stator, led, host,
           Rpm!statorVars, Led!annuncVars, Host!vars
<1>3. QED
  BY <1>1, <1>2

\* Every behaviour of the run is, part by part, a behaviour of the part's own specification.
LEMMA PartsAreTheirSpecs ==
  PartsSpec => /\ Spec
               /\ StackSpec /\ DioSpec /\ GuardSpec /\ ThermalSpec /\ BenchSpec /\ TestSpec
               /\ StatorSpec /\ LedSpec /\ HostSpec
<1>1. PartsSpec => PartsInit /\ [][PartsNext]_AllVars
  BY PTL DEF PartsSpec
<1>2. PartsInit => /\ Init /\ Stack!StackInit /\ Dio!DioInit /\ Vsup!GuardInit
                   /\ Hot!ThermalInit /\ Bench!BenchInit /\ Tests!TestInit
                   /\ Rpm!StatorInit /\ Led!AnnuncInit /\ Host!Init
  BY DEF PartsInit
<1>3. QED
  BY <1>1, <1>2, EachPartMoves, PTL
     DEF Spec, StackSpec, DioSpec, GuardSpec, ThermalSpec, BenchSpec, TestSpec, StatorSpec,
         LedSpec, HostSpec

\* What a signal permits is earned: a switch by seven equal readings (Debounce), a looser
\* clamp by a supply that was low for long enough (SupplyGuard), more power by a machine
\* that is not getting hotter (Thermal).
THEOREM SignalsEarned == PartsSpec => SignalsAreEarned
BY PartsConstants, PartsAreTheirSpecs, BounceStaysOut, TightAlways, HotNeverGains
   DEF SignalsAreEarned

\* The guards hold: the rotor's voltage, though one channel of the supply lies; the bench's
\* field, never live past its window; the stack's mark; and the buses, which a test or a scan
\* that is over has left as they were.
THEOREM GuardsAlwaysHold == PartsSpec => []GuardsHold
<1>1. Vsup!OneGoodChannelIsEnough /\ (Bench!FieldIsGuarded /\ Bench!StatusIsTrue)
        /\ Stack!NeverOverstates /\ Tests!RestsIdle => GuardsHold
  BY DEF GuardsHold
<1>2. /\ Vsup!SupplyAssumption /\ Bench!BenchAssumption /\ Stack!StackAssumption
      /\ Tests!TestAssumption
  BY PartsConstants
<1>3. PartsSpec => /\ []Vsup!OneGoodChannelIsEnough
                   /\ [](Bench!FieldIsGuarded /\ Bench!StatusIsTrue)
                   /\ []Stack!NeverOverstates /\ []Tests!RestsIdle
  BY <1>2, PartsAreTheirSpecs, OneChannelSuffices, BenchAlwaysGuarded, ScanNeverOverstates,
     TestsRest
<1>4. QED
  BY <1>1, <1>3, PTL

\* The speed that is read is the machine's, and the code on the lamp the fault's.
THEOREM SensorsAlwaysReadTrue == PartsSpec => []SensorsReadTrue
<1>1. Rpm!StatorAssumption /\ Led!AnnuncAssumption
  BY PartsConstants
<1>2. PartsSpec => []Rpm!SteadySpeedIsRead /\ []Led!CodeIsReadable
  BY <1>1, PartsAreTheirSpecs, SpeedIsAlwaysRead, CodeIsAlwaysReadable
<1>3. Rpm!SteadySpeedIsRead /\ Led!CodeIsReadable => SensorsReadTrue
  BY DEF SensorsReadTrue
<1>4. QED
  BY <1>2, <1>3, PTL

\* The same of the run: what a host is told of its saves is so.
THEOREM SavesAlwaysHonest == PartsSpec => SavesAreHonest
BY PartsConstants, PartsAreTheirSpecs, HostSavesHonestly

\* A scan and a test report what was there; a session's end cuts the field.
THEOREM BenchAlwaysTellsTruth == PartsSpec => BenchTellsTruth
BY PartsConstants, PartsAreTheirSpecs, SessionEndCuts, TestsTellTruth DEF BenchTellsTruth
=============================================================================
