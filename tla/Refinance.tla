----------------------------- MODULE Refinance -----------------------------
(***************************************************************************)
(* lib/refinance.py and lib/points.py: what is paid at once against what   *)
(* is saved every month.  Both discount the months one after the other,    *)
(* remember the first one at which the sum is not negative, and compare    *)
(* that with the quotient of costs and savings.  An action is one month.   *)
(*                                                                         *)
(* A request has kind ("rate_and_term", "cash_out" or "points"), balance,  *)
(* oldRate, oldMonths, newRate, newMonths, costs, cash, discount, horizon, *)
(* override, direct (the saving, where it is given), marginal (tenths, or  *)
(* None before tax) and limit (the debt whose interest may be deducted).   *)
(* Rates are num / Den.  For points the new loan is the one with points    *)
(* and the horizon is the time that the loan is held.                      *)
(***************************************************************************)
EXTENDS Money, Sequences

CONSTANTS
    Den,
    Requests

VARIABLES
    req,
    month,      \* the months that are discounted
    factor,     \* the discount factor of that month, in 1 / Unit
    cum,        \* cumulative NPV, in cents / Unit
    cumTax,     \* the same with the tax shield
    breakeven,  \* the first month at which cum is not negative
    response    \* <<>> until the scan is done

vars == <<req, month, factor, cum, cumTax, breakeven, response>>

None == -1

-----------------------------------------------------------------------------
(* Loans and cash flows.                                                   *)

Principal(r) == r.balance + r.cash
OldPi(r) == LevelPayment(r.balance, r.oldRate, Den, r.oldMonths)
\* Mutant: the new loan runs for the months that the old one has left.
MutantNewPi(r) == IF r.override # None THEN r.override
                  ELSE LevelPayment(Principal(r), r.newRate, Den, r.oldMonths)
NewPi(r) == IF r.override # None THEN r.override
            ELSE LevelPayment(Principal(r), r.newRate, Den, r.newMonths)

\* monthly_savings; a points request may state them.
Saving(r) == IF r.direct.given THEN r.direct.saving ELSE OldPi(r) - NewPi(r)

Horizon(r) == IF r.horizon = None THEN r.newMonths ELSE r.horizon

\* Period 0.  A cash-out nets its costs when something is left, and else books
\* both: the sum is the same.
AtOnce(r) == r.cash - r.costs

\* The rows of build_schedule without extras; none after the payoff.
NextRow(before, num, pi, final) ==
    LET i == Cents(before.balance * num, 12 * Den)
        last == final \/ before.balance + i <= pi
    IN  [interest |-> i, cumInt |-> before.cumInt + i,
         balance |-> IF last THEN 0 ELSE before.balance - (pi - i)]
Rows(p, num, months) ==
    LET pi == LevelPayment(p, num, Den, months)
        row[t \in 0..months] ==
            IF t = 0 THEN [interest |-> 0, cumInt |-> 0, balance |-> p]
            ELSE NextRow(row[t - 1], num, pi, t = months)
    IN  row
OldRows(r) == Rows(r.balance, r.oldRate, r.oldMonths)
NewRows(r) == Rows(Principal(r), r.newRate, r.newMonths)

At(rows, t, field) == IF t \in DOMAIN rows THEN rows[t][field] ELSE 0

\* Mutant: the schedules are read in pairs, and the shorter one ends them.
MutantShield(r, t) ==
    LET Share(rows, p) == [n |-> At(rows, t, "interest") * r.marginal * (IF p < r.limit THEN p ELSE r.limit),
                           d |-> IF p = 0 THEN 1 ELSE 10 * p]
        old == Share(OldRows(r), r.balance)
        new == Share(NewRows(r), Principal(r))
    IN  IF r.marginal = None \/ t > r.oldMonths \/ t > r.newMonths THEN 0
        ELSE SignedCents(new.n * old.d - old.n * new.d, old.d * new.d)
\* _compute_tax_shield_cashflows: the change of the deductible interest of a
\* month, at the marginal rate; of a larger debt only the share in the limit.
Shield(r, t) ==
    LET Share(rows, p) == [n |-> At(rows, t, "interest") * r.marginal * (IF p < r.limit THEN p ELSE r.limit),
                           d |-> IF p = 0 THEN 1 ELSE 10 * p]
        old == Share(OldRows(r), r.balance)
        new == Share(NewRows(r), Principal(r))
    IN  IF r.marginal = None THEN 0 ELSE SignedCents(new.n * old.d - old.n * new.d, old.d * new.d)

-----------------------------------------------------------------------------
(* The scan.                                                               *)

\* What the models of a request accept.
ASSUME RequestAssumption ==
    /\ Den \in Nat \ {0}
    /\ \A r \in Requests :
         /\ r.balance \in Nat /\ r.costs \in Nat /\ r.cash \in Nat /\ r.limit \in Nat
         /\ r.oldRate \in 0..Den /\ r.newRate \in 0..Den /\ r.discount \in Nat
         /\ r.oldMonths \in Nat \ {0} /\ r.newMonths \in Nat \ {0}
         /\ r.horizon \in (Nat \ {0}) \cup {None} /\ r.override \in Nat \cup {None}
         /\ r.direct \in [given : BOOLEAN, saving : Int] /\ r.marginal \in Nat \cup {None}
         /\ r.kind = "points" => r.costs > 0 /\ r.cash = 0

Init == /\ req \in Requests
        /\ month = 0 /\ factor = Unit
        /\ cum = AtOnce(req) * Unit /\ cumTax = cum
        /\ breakeven = IF cum >= 0 THEN 0 ELSE None
        /\ response = <<>>

\* Mutant: the costs must be more than recovered.
MutantFirst(sum, t) == IF breakeven = None /\ sum > 0 THEN t ELSE breakeven
First(sum, t) == IF breakeven = None /\ sum >= 0 THEN t ELSE breakeven

Month ==
    /\ month < Horizon(req)
    /\ month' = month + 1
    /\ factor' = (factor * 12 * Den) \div (12 * Den + req.discount)
    /\ cum' = cum + Saving(req) * factor'
    /\ cumTax' = cumTax + (Saving(req) + Shield(req, month')) * factor'
    /\ breakeven' = First(cum', month')
    /\ UNCHANGED <<req, response>>

-----------------------------------------------------------------------------
(* The response.                                                           *)

\* simple_breakeven of points: not limited by the time of holding.
Ceil(n, d) == (n + d - 1) \div d
PointsSimple(r) == IF Saving(r) <= 0 THEN None ELSE Ceil(r.costs, Saving(r))

\* Mutant: a break-even in the last month of the horizon is refused.
MutantSimple(r) ==
    LET months == Ceil(r.costs, Saving(r))
    IN  CASE r.costs = 0 -> [months |-> 0, status |-> "zero_costs"]
          [] r.costs # 0 /\ Saving(r) <= 0 -> [months |-> None, status |-> "no_savings"]
          [] OTHER -> IF months >= Horizon(r) THEN [months |-> None, status |-> "never_breaks_even"]
                      ELSE [months |-> months, status |-> "ok"]
\* _compute_breakeven_simple.
Simple(r) ==
    LET months == Ceil(r.costs, Saving(r))
    IN  CASE r.costs = 0 -> [months |-> 0, status |-> "zero_costs"]
          [] r.costs # 0 /\ Saving(r) <= 0 -> [months |-> None, status |-> "no_savings"]
          [] OTHER -> IF months > Horizon(r) THEN [months |-> None, status |-> "never_breaks_even"]
                      ELSE [months |-> months, status |-> "ok"]

\* Mutant: points are bought whenever they pay in the end.
MutantDecision(npv, simple) == IF simple # None THEN "buy_points" ELSE "skip_points"
\* The sign of the rounded NPV decides, and points without savings never pay.
Decision(npv, simple) == IF npv >= 0 /\ simple # None THEN "buy_points" ELSE "skip_points"

Npv(sum) == SignedCents(sum, Unit)

\* total_interest_delta, over the whole terms; a cash-out states it.
InterestDelta(r) == NewRows(r)[r.newMonths].cumInt - OldRows(r)[r.oldMonths].cumInt

Respond ==
    /\ month = Horizon(req) /\ response = <<>>
    /\ response' =
           IF req.kind = "points"
           THEN LET simple == PointsSimple(req)
                IN  [simple |-> simple, npv |-> Npv(cum),
                     diverge |-> simple # None /\ breakeven # None /\ simple # breakeven,
                     decision |-> Decision(Npv(cum), simple)]
           ELSE [simple |-> Simple(req).months, status |-> Simple(req).status, npv |-> Npv(cum),
                 afterTax |-> IF req.marginal = None THEN None ELSE Npv(cumTax),
                 proceeds |-> IF AtOnce(req) > 0 THEN AtOnce(req) ELSE None,
                 interest |-> IF req.kind = "cash_out" THEN <<InterestDelta(req)>> ELSE <<>>]
    /\ UNCHANGED <<req, month, factor, cum, cumTax, breakeven>>

Next == Month \/ Respond
Spec == Init /\ [][Next]_vars

-----------------------------------------------------------------------------
(* Properties.                                                             *)

TypeOK == /\ req \in Requests
          /\ month \in 0..Horizon(req)
          /\ factor \in 0..Unit
          /\ cum \in Int /\ cumTax \in Int
          /\ breakeven \in 0..month \cup {None}

\* A break-even is not lost again: while a month saves anything, the scan has
\* found one exactly when the costs are recovered so far.  (A cash-out whose
\* months cost more breaks even at once, whatever the months add up to.)
BreakevenIsNow == Saving(req) >= 0 => (breakeven # None <=> cum >= 0)

\* Discounting only delays: the quotient comes first, and where it lies beyond
\* the horizon no discounted break-even is reported either.
SimpleFirst ==
    response # <<>> /\ req.cash = 0 /\ breakeven # None =>
        response.simple # None /\ response.simple <= breakeven

\* Points are bought exactly when the scan breaks even, unless the sum is less
\* than half a cent short, which the rounded NPV does not show.
PointsPay ==
    response # <<>> /\ req.kind = "points" =>
        /\ breakeven # None => response.decision = "buy_points"
        /\ response.decision = "buy_points" => breakeven # None \/ 2 * cum > -Unit

\* Over the whole of both terms the taxes give back, undiscounted, the marginal
\* rate of the change in total interest (what the response of a cash-out states
\* as its total_interest_delta), but for half a cent a month: every month of
\* either schedule has its shield, those after the other loan's payoff as well.
TaxFollowsInterest ==
    /\ response # <<>> /\ req.kind # "points" /\ req.marginal # None /\ req.discount = 0
    /\ Horizon(req) >= req.oldMonths /\ Horizon(req) >= req.newMonths
    /\ Principal(req) <= req.limit
    => Magnitude(10 * (response.afterTax - response.npv) - req.marginal * InterestDelta(req))
         <= 5 * Horizon(req)

\* What a schedule has been paid after t months: its interest, and what its
\* balance has gone down by.
Paid(rows, t) == rows[t].cumInt + rows[0].balance - rows[t].balance
\* By how much the last payment of the new loan exceeds the others.
Excess(r) == LET rows == NewRows(r)
                 last == Paid(rows, r.newMonths) - Paid(rows, r.newMonths - 1) - NewPi(r)
             IN  IF last > 0 THEN last ELSE 0

\* A break-even within the term of the old loan is real: with what the new
\* schedule really charges until then, less the excess of its last payment if
\* that lies before, the borrower has paid less by the costs, even where the new
\* loan has long been paid off.  (Beyond the old loan's payoff the scan books
\* payments that nobody would have made.)
BreakevenIsReal ==
    /\ breakeven # None /\ req.cash = 0 /\ ~ req.direct.given /\ req.override = None
    /\ breakeven <= req.oldMonths /\ OldRows(req)[breakeven].balance > 0
    => IF breakeven < req.newMonths
       THEN Paid(OldRows(req), breakeven) - Paid(NewRows(req), breakeven) >= req.costs
       ELSE Paid(OldRows(req), breakeven) - Paid(NewRows(req), req.newMonths) >= req.costs - Excess(req)
=============================================================================
