---------------------------- MODULE BudgetGuard ----------------------------
(***************************************************************************)
(* app/services/budget.py: the arithmetic that decides whether one more    *)
(* step may be paid for.  Amounts are whole numbers of the smallest unit   *)
(* the code keeps (it rounds to four digits after every operation), so     *)
(* EPSILON, which absorbs float noise, disappears.                         *)
(***************************************************************************)
EXTENDS Integers

CONSTANTS Budget,   \* budget_rub: the user's hard ceiling
          Margin    \* margin_rub: the part of it kept for price drift

ASSUME BudgetAssumption == Budget \in Nat /\ Margin \in 0..Budget

\* An account whose balance could not be read.
Unknown == -1

Spendable == Budget - Margin
Remaining(committed) == Spendable - committed
HardRemaining(committed) == Budget - committed

\* Mutant of Check: a step is held against the envelope on its own.
CheckStepAlone(cost, committed) == cost >= 0 /\ cost <= Spendable

\* BudgetGuard.check: fits the ceiling and the spendable envelope.
Check(cost, committed) ==
  /\ cost >= 0
  /\ cost <= HardRemaining(committed)
  /\ cost <= Remaining(committed)

\* BudgetGuard.check_account: an unknown account cannot pay.
CheckAccount(cost, account) == account # Unknown /\ cost <= account

CheckAll(cost, committed, account) ==
  Check(cost, committed) /\ CheckAccount(cost, account)

\* BudgetGuard.release, clamped at zero.
Release(committed, cost) == IF cost > committed THEN 0 ELSE committed - cost
=============================================================================
