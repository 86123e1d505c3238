----------------------------- MODULE MCAnalysis -----------------------------
(* Instances of Analysis for TLC.  A term is 24 months or 12, a limit 8000  *)
(* cents, and prices lie on both sides of it; products stay below 2^31.     *)
EXTENDS Analysis

SmallRef ==
    [baseline |-> 8000, fhfa |-> [listed |-> 9000], fhaFloor |-> 5200, fha |-> [listed |-> 9100],
     mipTier |-> 8500, longTerm |-> 24, shortTerm |-> 12, qmHigh |-> 6000, qmMid |-> 4000,
     vaTier |-> 5000, vaBelow |-> <<40, 60, 70, 80, 90>>, vaAbove |-> <<50, 70, 80, 90, 100>>,
     vaExtra |-> <<7, 8>>, usda4 |-> 9000, usda8 |-> 12000, interestCap |-> 7500]

House(income, debts, reserves, county) ==
    [income |-> income, debts |-> debts, escrow |-> 0, reserves |-> reserves, county |-> county,
     knownState |-> county # "territory", score |-> 700, size |-> 1, va |-> NoVa]

Rate(quarters) == [kind |-> "number", rate |-> quarters]

Base == [price |-> 8300, listing |-> [tax |-> 120, insurance |-> None, hoa |-> 3],
         h |-> House(1200, 20, 2500, "listed"), preferred |-> 2000, va |-> FALSE,
         filing |-> "single", given30 |-> 24, given15 |-> 20, fred30 |-> Rate(26), fred15 |-> Rate(22)]

\* Prices, incomes, reserves, counties and programs around every limit.
Buyers == {[Base EXCEPT !.price = price, !.h = House(income, 20, reserves, county), !.given30 = rate,
                        !.preferred = preferred, !.va = va] :
              price \in {5000, 8300, 9530, 10200}, income \in {500, 703, 1000, 1300},
              reserves \in {600, 1500, 2700}, county \in {"listed", "other"}, rate \in {12, 32},
              preferred \in {300, 500, 1200, 2000}, va \in BOOLEAN}

\* Rates from the cache and at both ends, purchases without a loan, and a
\* price whose loan at 20 % down is a cent too much.
Edges == {[Base EXCEPT !.price = price, !.h = House(9000, 20, 12000, county), !.given30 = given,
                       !.fred30 = entry, !.given15 = given, !.preferred = preferred, !.va = va] :
              price \in {8300, 10001}, county \in {"listed", "territory"},
              given \in {None, 0, 4, RateDen - 20, RateDen - 19},
              entry \in {Rate(3), Rate(24)}, preferred \in {2000, 10000}, va \in BOOLEAN}
\* Either series alone, whatever its entry.
Caches == {[Base EXCEPT !.given30 = given[1], !.given15 = given[2], !.fred30 = entry, !.fred15 = entry] :
              given \in {<<None, 20>>, <<24, None>>, <<24, 20>>},
              entry \in {Rate(3), Rate(-1)} \cup [kind : {"cold", "NaN", "naive"}, rate : {0}]}
SmallRequests == Buyers \cup Edges \cup Caches
=============================================================================
