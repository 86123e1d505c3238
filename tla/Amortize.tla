------------------------------ MODULE Amortize ------------------------------
(***************************************************************************)
(* build_schedule of lib/amortize.py, one action per row of the schedule.  *)
(* Money and its rounding are those of module Money.  Dates are left out.  *)
(***************************************************************************)
EXTENDS Money, Sequences

CONSTANTS
    Loans,      \* [principal, num, den, term]: the annual rate is num / den
    Plans,      \* sequences of [period, amount, recurring]: extra_principal
    Modes       \* of "monthly", "half-monthly", "biweekly"

VARIABLES
    loan, plan, mode,           \* the request
    period, balance,
    cumInt, cumPrin,            \* D-14 totals, which every row repeats
    cumExtra,                   \* history: extra principal paid
    rows,                       \* payments
    outcome                     \* "running", "paid" (a Schedule) or "raised"

request == <<loan, plan, mode>>
vars == <<loan, plan, mode, period, balance, cumInt, cumPrin, cumExtra, rows, outcome>>

-----------------------------------------------------------------------------
(* Payments.                                                               *)

MonthlyPi(l) == LevelPayment(l.principal, l.num, l.den, l.term)

PeriodsPerYear(m) == IF m = "biweekly" THEN 26 ELSE 12
\* Mutant: half of the monthly payment is rounded down.
MutantLevel(l, m) == IF m = "biweekly" THEN MonthlyPi(l) \div 2 ELSE MonthlyPi(l)
Level(l, m) == IF m = "biweekly" THEN Cents(MonthlyPi(l), 2) ELSE MonthlyPi(l)
Interest(l, m, b) == Cents(b * l.num, l.den * PeriodsPerYear(m))

\* The recurring extra in force is the one that started last; one-shot
\* extras of the period come on top.
RawExtra(x, p) ==
    LET active == {i \in DOMAIN x : x[i].recurring /\ x[i].period <= p}
        latest == CHOOSE i \in active : \A j \in active : x[j].period <= x[i].period
        upTo[i \in 0..Len(x)] ==
            IF i = 0 THEN IF active = {} THEN 0 ELSE x[latest].amount
            ELSE IF ~ x[i].recurring /\ x[i].period = p THEN upTo[i - 1] + x[i].amount
            ELSE upTo[i - 1]
    IN  upTo[Len(x)]

\* Mutant: an extra beyond the cap is dropped, not cut.
MutantDropped(x, p, cap) == IF RawExtra(x, p) <= cap THEN RawExtra(x, p) ELSE 0
ResolveExtra(x, p, cap) ==
    CASE cap <= 0 -> 0
      [] cap > 0 /\ RawExtra(x, p) <= cap -> RawExtra(x, p)
      [] OTHER -> cap

\* What the models of the request accept: rates of at most one, and extras of
\* at least a cent.
ASSUME LoanAssumption ==
    /\ \A l \in Loans : /\ l \in [principal : Nat, num : Nat, den : Nat \ {0}, term : Nat \ {0}]
                        /\ l.num <= l.den
    /\ Plans \subseteq Seq([period : Nat \ {0}, amount : Nat \ {0}, recurring : BOOLEAN])
    /\ Modes \subseteq {"monthly", "half-monthly", "biweekly"}

-----------------------------------------------------------------------------
Init == /\ loan \in Loans /\ plan \in Plans /\ mode \in Modes
        /\ period = 0 /\ balance = loan.principal
        /\ cumInt = 0 /\ cumPrin = 0 /\ cumExtra = 0
        /\ rows = <<>>
        /\ outcome = "running"

Raise == /\ outcome' = "raised"
         /\ UNCHANGED <<request, period, balance, cumInt, cumPrin, cumExtra, rows>>

\* The constructor of Payment accepts no negative amount.
AddRow(row, final) ==
    IF \E field \in DOMAIN row : row[field] < 0 THEN Raise
    ELSE /\ period' = period + 1
         /\ balance' = row.balance
         /\ cumInt' = row.cumInt /\ cumPrin' = row.cumPrin
         /\ cumExtra' = cumExtra + row.extra
         /\ rows' = Append(rows, row)
         /\ outcome' = IF final THEN "paid" ELSE "running"
         /\ UNCHANGED request

\* Mutant: the extra does not reduce the balance.
MutantRow(payoff) ==
    LET level == Level(loan, mode)
        interest == Interest(loan, mode, balance)
        principal == IF payoff THEN balance ELSE level - interest
        extra == ResolveExtra(plan, period + 1, balance - principal)
    IN  [interest |-> interest, principal |-> principal, extra |-> extra,
         payment |-> IF payoff THEN principal + interest ELSE level,
         cumInt |-> cumInt + interest, cumPrin |-> cumPrin + principal,
         balance |-> balance - principal]

\* One row: interest, principal, extra, balance (D-07).
Row(payoff) ==
    LET level == Level(loan, mode)
        interest == Interest(loan, mode, balance)
        principal == IF payoff THEN balance ELSE level - interest
        extra == ResolveExtra(plan, period + 1, balance - principal)
    IN  [interest |-> interest, principal |-> principal, extra |-> extra,
         payment |-> IF payoff THEN principal + interest ELSE level,
         cumInt |-> cumInt + interest, cumPrin |-> cumPrin + principal,
         balance |-> balance - principal - extra]

Overshoot == balance + Interest(loan, mode, balance) <= Level(loan, mode)

\* Mutant: the term ends the schedule, but does not pay off the balance.
MutantFixedRow ==
    LET last == period + 1 = loan.term
        row == Row(Overshoot)
    IN  /\ outcome = "running" /\ mode # "biweekly"
        /\ AddRow(row, last \/ Overshoot \/ (row.balance = 0 /\ row.extra > 0))

\* _build_fixed_monthly, also for half-monthly biweekly.  What is left after
\* the last row of the term would go to its principal (the drift cleanup).
FixedRow ==
    LET last == period + 1 = loan.term
        row == Row(last \/ Overshoot)
        drift == last /\ row.balance # 0
        cleaned == [row EXCEPT !.principal = @ + row.balance, !.cumPrin = @ + row.balance,
                               !.balance = 0,
                               !.payment = row.principal + row.balance + row.interest + row.extra]
    IN  /\ outcome = "running" /\ mode # "biweekly"
        /\ AddRow(IF drift THEN cleaned ELSE row,
                  last \/ Overshoot \/ (row.balance = 0 /\ row.extra > 0))

\* _build_biweekly_true.
BiweeklyRow ==
    /\ outcome = "running" /\ mode = "biweekly"
    /\ balance > 0 /\ period < 2 * loan.term + 10
    /\ LET row == Row(Overshoot) IN AddRow(row, Overshoot \/ row.balance = 0)

\* More rows than max_periods, or none at all: payments[-1] of an empty list.
BiweeklyRaise ==
    /\ outcome = "running" /\ mode = "biweekly"
    /\ balance = 0 \/ period = 2 * loan.term + 10
    /\ Raise

Done == outcome # "running" /\ UNCHANGED vars

Next == FixedRow \/ BiweeklyRow \/ BiweeklyRaise \/ Done

Spec == Init /\ [][Next]_vars

\* Mutant: the flag does not look at extras.
MutantAdjusted == Last(rows).principal # Level(loan, mode) - Last(rows).interest
\* Schedule.final_payment_adjusted (D-10).
Adjusted ==
    \/ Last(rows).principal # Level(loan, mode) - Last(rows).interest
    \/ \E i \in DOMAIN rows : rows[i].extra > 0

-----------------------------------------------------------------------------
(* Properties.                                                             *)

Cent == Nat
PaymentRow == [interest : Cent, principal : Cent, extra : Cent, payment : Cent, balance : Cent,
               cumInt : Cent, cumPrin : Cent]

\* Every variable has its type; in particular no Money field is negative.
TypeOK == /\ loan \in Loans /\ plan \in Plans /\ mode \in Modes
          /\ period \in Nat /\ balance \in Cent
          /\ cumInt \in Cent /\ cumPrin \in Cent /\ cumExtra \in Cent
          /\ rows \in Seq(PaymentRow)
          /\ outcome \in {"running", "paid", "raised"}

\* AMRT-07: principal and extras of the rows add up to the loan.  The balance
\* implements a debt that is only paid down.
Ledger == INSTANCE Debt WITH owed <- balance, paid <- cumPrin + cumExtra
ImplementsDebt == Ledger!Spec

\* D-09: a schedule ends at a balance of exactly zero, and no sooner.
EndsAtZero == outcome = "paid" => balance = 0 /\ cumPrin + cumExtra = loan.principal

\* A fixed schedule is always built, however rounding falls.
FixedNeverRaises == mode # "biweekly" => outcome # "raised"

\* D-08: an extra that is cut ends the schedule.
CutEndsSchedule == \A i \in DOMAIN rows :
    rows[i].extra < RawExtra(plan, i) => i = Len(rows) /\ rows[i].balance = 0

\* D-10: the flag is off exactly when every row is the level payment alone.
FlagIsHonest == outcome = "paid" =>
    (~ Adjusted <=> \A i \in DOMAIN rows : rows[i].payment = Level(loan, mode) /\ rows[i].extra = 0)

\* max_periods never stops a real loan: only a biweekly schedule is refused, of
\* a principal of zero, of a monthly payment of fewer cents than a fifth of the
\* months, or of a first payment that is all interest.
RefusedOnlyForCents == outcome = "raised" =>
    /\ mode = "biweekly"
    /\ \/ loan.principal = 0
       \/ 5 * MonthlyPi(loan) < loan.term
       \/ Level(loan, mode) <= Interest(loan, mode, loan.principal)
=============================================================================
