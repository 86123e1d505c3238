------------------------------- MODULE Quote -------------------------------
(***************************************************************************)
(* The way from a budget to a loan: the engine of lib/affordability.py     *)
(* finds the largest loan (reverse), the same engine confirms it on the    *)
(* value that goes with it (forward), and lib/stress.py repeats that with  *)
(* less income.  Each step is one call of scripts/affordability.py or      *)
(* scripts/stress_test.py; what one answers is given to the next.          *)
(***************************************************************************)
EXTENDS Stress

CONSTANTS
    Asks,       \* requests in reverse mode
    Cuts        \* the reductions of the income, in percent, in order

VARIABLES
    ask,        \* the request
    step,       \* the call that is next, or "done", or "raised"
    answer,     \* the reverse response
    back,       \* the forward response
    shocks,     \* the response of the income shock
    error

vars == <<ask, step, answer, back, shocks, error>>

\* What the models of the two requests accept, but for the premium that a high
\* LTV needs, and factors of at least five digits.
ASSUME AskAssumption ==
    /\ Unit >= 20000
    /\ Ratio \in Nat \ {0} /\ Ref.shortTerm \in Nat /\ Ref.longTerm \in Nat
    /\ Ref.qmHigh \in Nat /\ Ref.qmMid \in Nat
    /\ Asks \subseteq [mode : {"reverse"}, h : Household, maxDti : 0..Ratio, term : Nat \ {0},
                       target : {"conventional", "jumbo", "fha", "va", "usda"}, rate : 0..RateDen,
                       apr : Optional, apor : Optional, pmi : Optional, junior : Nat,
                       loan : Nat, value : Nat, down : Nat, ltv : 1..Ratio]
    /\ \A a \in Asks : a.apr = None <=> a.apor = None
    /\ Cuts \in Seq(0..99) /\ Scenarios(Cuts)

NoAnswer == <<>>

\* The request that confirms an answer.
Confirmation == [ask EXCEPT !.mode = "forward", !.loan = answer.loan,
                            !.value = ValueFor(ask, answer.loan)]

Fail(e) == step' = "raised" /\ error' = e

Init == /\ ask \in Asks
        /\ step = "ask" /\ error = "none"
        /\ answer = NoAnswer /\ back = NoAnswer /\ shocks = NoAnswer

\* A quote of nothing is not confirmed.
Ask ==
    /\ step = "ask"
    /\ \E result \in {Evaluate(ask)} :
           IF result.error # "none" THEN Fail(result.error) /\ UNCHANGED answer
           ELSE /\ answer' = result.value
                /\ step' = IF result.value.loan = 0 THEN "done" ELSE "confirm"
                /\ UNCHANGED error
    /\ UNCHANGED <<ask, back, shocks>>

Confirm ==
    /\ step = "confirm"
    /\ \E result \in {Evaluate(Confirmation)} :
           IF result.error # "none" THEN Fail(result.error) /\ UNCHANGED back
           ELSE back' = result.value /\ step' = "shock" /\ UNCHANGED error
    /\ UNCHANGED <<ask, answer, shocks>>

Shock ==
    /\ step = "shock"
    /\ \E result \in {IncomeShock(Confirmation, Cuts, ask.maxDti)} :
           IF result.error # "none" THEN Fail(result.error) /\ UNCHANGED shocks
           ELSE shocks' = result.value /\ step' = "done" /\ UNCHANGED error
    /\ UNCHANGED <<ask, answer, back>>

Next == Ask \/ Confirm \/ Shock

Spec == Init /\ [][Next]_vars

-----------------------------------------------------------------------------
(* Properties.                                                             *)

\* What rounding may cost: the quantum of a DTI and two cents of payment.
Slack == 1 + (2 * Ratio) \div ask.h.income

\* SC-2: a quote, fed back, is within the DTI that it was asked for.
QuoteCloses == back # NoAnswer => back.dti <= ask.maxDti + Slack

\* In cents, the value that goes with this loan takes it over 80 %.
Over(loan) == Above(loan, ValueFor(ask, loan), 800)

\* The same of every program but FHA's, whose upfront premium is financed when
\* the loan is confirmed and ignored when it is quoted.  A conventional quote for
\* more than 80 % may miss it by a premium where the cash binds and, in cents, the
\* value takes the quoted loan over 80 %, but not the loan of the whole budget.
OtherQuotesClose ==
    ask.target # "fha" =>
        \/ QuoteCloses
        \/ /\ ask.target = "conventional" /\ Above(ask.ltv, Ratio, 800)
           /\ "DOWN-PAYMENT-CASH-BINDING" \in answer.warnings
           /\ Over(answer.loan) /\ ~ Over(LoanFor(ask, Budget(ask)))

\* A quote leaves no money unused and needs none that is not there: the cash
\* covers the rest of the value, and unless it binds the payment is the budget
\* to within a cent, the premium that was assumed included.
QuoteUsesBudget ==
    answer # NoAnswer /\ answer.loan > 0 =>
        /\ ValueFor(ask, answer.loan) - answer.loan <= ask.down + 1 + (Ratio - ask.ltv) \div (2 * ask.ltv)
        /\ "DOWN-PAYMENT-CASH-BINDING" \in answer.warnings
           \/ answer.pi + answer.mi \in (Budget(ask) - 1)..(Budget(ask) + 1)

\* Both modes walk the same ladder: without junior liens, and where the value in
\* cents keeps the LTV, the confirmation is blocked by what blocked the quote, by
\* a cent of its DTI, or by the price of an FHA loan that its premium made larger.
ModesAgree ==
    /\ back # NoAnswer /\ ask.junior = 0
    /\ Quotient(answer.loan, ValueFor(ask, answer.loan)) = ask.ltv
    => \/ back.blocker = answer.blocker \/ back.blocker = "DTI-CAP"
       \/ ask.target = "fha" /\ back.blocker = "ATR-QM"

\* Less income never makes a loan better: the DTI grows with the cut, and what
\* was blocked stays blocked, unless by the income limit of USDA.
ShockOnlyTightens ==
    shocks # NoAnswer =>
        /\ \A i, j \in DOMAIN Cuts : Cuts[i] <= Cuts[j] => shocks.dti[i] <= shocks.dti[j]
        /\ \A i \in DOMAIN Cuts :
               /\ shocks.dti[i] >= back.dti
               /\ shocks.blocked[i] = "none" => back.blocker \in {"none", "USDA-INCOME-LIMIT"}

\* In cents, the value of this loan takes it over 80 % although the LTV is not.
OverInCents(loan) == Over(loan) /\ 10 * ask.ltv <= 8 * Ratio

\* A quote fails only for a county that is not listed, a limit of FHA, a term
\* beyond the premium table, a premium that is not given and that the LTV, or its
\* rounding at 80 %, needs, a household without the cash for any loan, and a cut
\* that leaves no income.
QuoteFailsOnlyFor ==
    /\ error \in {"none", "MissingCountyDataError", "NotImplementedError", "LookupError",
                  "AssertionError", "ValueError", "InvalidOperation", "ValidationError"}
    /\ error = "MissingCountyDataError" => ask.h.county \notin DOMAIN Ref.fha \cap DOMAIN Ref.fhfa
    /\ error = "NotImplementedError" => ask.target = "fha"
    /\ error = "LookupError" => ask.target = "fha" /\ ask.term > Ref.longTerm
    /\ error = "AssertionError" =>
           /\ ask.target = "conventional" /\ ask.pmi = None
           /\ OverInCents(LoanFor(ask, Budget(ask))) \/ OverInCents(CashLimit(ask))
    /\ error \in {"ValueError", "InvalidOperation"} => ask.ltv < Ratio /\ CashLimit(ask) = 0
    /\ error = "ValidationError" =>
           \/ /\ ask.target = "conventional" /\ ask.pmi = None
              /\ 10 * ask.ltv > 8 * Ratio \/ (answer # NoAnswer /\ OverInCents(answer.loan))
           \/ \E i \in DOMAIN Cuts : Cents(ask.h.income * (100 - Cuts[i]), 100) = 0
=============================================================================
