----------------------------- MODULE ErrBudget -----------------------------
(***************************************************************************)
(* The error budget of a peripheral (err_budget.c): what a failed and what *)
(* a successful transaction do to the record of its domain, and what the   *)
(* driver is told to do about a failure.  The counters saturate where they *)
(* stop mattering; total and reinits are only reported and left out.       *)
(***************************************************************************)
EXTENDS Integers

CONSTANTS
  ReinitAt,     \* ERRB_REINIT_AT
  FaultAt,      \* ERRB_FAULT_AT
  RecoverOk     \* ERRB_RECOVER_OK

ASSUME BudgetAssumption ==
  /\ ReinitAt \in Nat \ {0} /\ FaultAt \in Nat \ {0} /\ RecoverOk \in Nat \ {0}

Budgets == [consecutive : 0..FaultAt, ok_streak : 0..RecoverOk, faulted : BOOLEAN]
Unspent == [consecutive |-> 0, ok_streak |-> 0, faulted |-> FALSE]

UpTo(limit, n) == IF n < limit THEN n ELSE limit

\* SLIP: the count of failures starts anew at every re-initialisation.
FailRestarts(s) ==
  LET n == s.consecutive + 1
  IN  [consecutive |-> IF n % ReinitAt = 0 THEN 0 ELSE n, ok_streak |-> 0,
       faulted |-> s.faulted \/ n >= FaultAt]

\* errb_fail(), its effect on the domain.
Fail(s) ==
  [consecutive |-> UpTo(FaultAt, s.consecutive + 1),
   ok_streak   |-> 0,
   faulted     |-> s.faulted \/ s.consecutive + 1 >= FaultAt]

\* errb_fail(), its answer, from the domain as it leaves it.
Action(s) ==
  IF s.consecutive >= FaultAt THEN "FAULT"
  ELSE IF s.consecutive % ReinitAt = 0 THEN "REINIT"
  ELSE "NONE"

\* SLIP: the latch is never released.
OkLatched(s) ==
  [s EXCEPT !.consecutive = 0, !.ok_streak = UpTo(RecoverOk, @ + 1)]

\* errb_ok()
Ok(s) ==
  [consecutive |-> 0,
   ok_streak   |-> UpTo(RecoverOk, s.ok_streak + 1),
   faulted     |-> s.faulted /\ s.ok_streak + 1 < RecoverOk]
=============================================================================
