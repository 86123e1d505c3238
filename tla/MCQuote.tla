------------------------------ MODULE MCQuote ------------------------------
(* Instances of Quote for TLC: budgets of a few dollars, terms of two years, *)
(* limits among the loans that those budgets reach.                          *)
EXTENDS Quote

SmallRef ==
    [baseline |-> 7000, fhfa |-> [listed |-> 9000], fhaFloor |-> 4600, fha |-> [listed |-> 8000],
     mipTier |-> 7500, longTerm |-> 24, shortTerm |-> 12, qmHigh |-> 6000, qmMid |-> 4000,
     vaTier |-> 5000, vaBelow |-> <<40, 60, 70, 80, 90>>, vaAbove |-> <<50, 70, 80, 90, 100>>,
     vaExtra |-> <<7, 8>>, usda4 |-> 9000, usda8 |-> 12000, interestCap |-> 7500]

House(income, county, score, va) ==
    [income |-> income, debts |-> 20, escrow |-> 10, reserves |-> 0, county |-> county,
     knownState |-> TRUE, score |-> score, size |-> 3, va |-> va]

Asks24 ==
    {[mode |-> "reverse", h |-> House(income, county, 700, va), target |-> target,
      maxDti |-> 4300, term |-> term, rate |-> rate, apr |-> qm[1], apor |-> qm[2],
      pmi |-> pmi, junior |-> 0, loan |-> 0, value |-> 0, down |-> down, ltv |-> ltv] :
        income \in {500, 800, 1000}, county \in {"listed", "other"},
        va \in {NoVa, [family |-> 2, residual |-> 65]},
        target \in {"conventional", "jumbo", "fha", "va", "usda"}, term \in {12, 24},
        rate \in {0, 27}, qm \in {<<None, None>>, <<30, 20>>}, pmi \in {None, 3},
        down \in {0, 400, 2500}, ltv \in {8000, 9000, 9600, 10000}}
\* A term beyond the table of FHA premiums.
Asks36 == {[a EXCEPT !.term = 36] : a \in {b \in Asks24 : b.h.income = 500 /\ b.term = 24}}
\* A premium is due above 80 % only: of the loan that the cash allows, and in
\* cents not of the one that the budget carries.
Asks80 == {[a EXCEPT !.ltv = 8001, !.pmi = 60, !.down = down] :
             a \in {b \in Asks24 : b.h.income = 500 /\ b.target = "conventional" /\ b.term = 12},
             down \in {540, 550}}
SmallAsks == Asks24 \cup Asks36 \cup Asks80
ThreeCuts == <<10, 30, 60>>
=============================================================================
