---------------------------- MODULE MCRefinance ----------------------------
(* Instances of Refinance for TLC: loans of a few dollars over a few months, *)
(* at rates high enough for discounting to cost whole cents.                 *)
EXTENDS Refinance

Loans == [balance : {0, 130, 599}, oldRate : {24, 60}, oldMonths : {6, 12}, newRate : {0, 18},
          newMonths : {6, 12, 15}, discount : {0, 30}, horizon : {None, 4, 12}, override : {None, 17},
          limit : {300}]
With(l, kind, costs, cash, marginal, direct) ==
    [kind |-> kind, balance |-> l.balance, oldRate |-> l.oldRate, oldMonths |-> l.oldMonths,
     newRate |-> l.newRate, newMonths |-> l.newMonths, costs |-> costs, cash |-> cash,
     discount |-> l.discount, horizon |-> l.horizon, override |-> l.override, direct |-> direct,
     marginal |-> marginal, limit |-> l.limit]
Derived == [given |-> FALSE, saving |-> 0]

Refis == {With(l, "rate_and_term", costs, 0, m, Derived) : l \in Loans, costs \in {0, 35}, m \in {None, 3}}
    \cup {With(l, "cash_out", costs, cash, None, Derived) :
            l \in {x \in Loans : x.discount = 30}, costs \in {0, 35}, cash \in {20, 200}}
    \cup {With(l, "cash_out", 35, 20, 3, Derived) : l \in {x \in Loans : x.discount = 0}}

\* The new loan ends first: the costs are recovered only after that, and taxes
\* go on.
Short == [balance |-> 599, oldRate |-> 96, oldMonths |-> 30, newRate |-> 0, newMonths |-> 15,
          discount |-> 0, horizon |-> 30, override |-> None, limit |-> 599]
Late == {With([Short EXCEPT !.balance = balance, !.newRate = rate, !.newMonths = months, !.discount = discount],
              "rate_and_term", costs, 0, m, Derived) :
           balance \in {127, 599}, rate \in {0, 18}, months \in {15, 20}, discount \in {0, 6},
           costs \in {20, 45, 60, 100, 220}, m \in {None, 3}}
Points == {With(l, "points", costs, 0, None, d) :
             l \in {x \in Loans : x.override = None /\ x.horizon # None /\ x.oldMonths = x.newMonths},
             costs \in {1, 35}, d \in {Derived} \cup [given : {TRUE}, saving : {-2, 4, 7}]}
SmallRequests == Refis \cup Late \cup Points
=============================================================================
