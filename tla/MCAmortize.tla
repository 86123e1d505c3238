----------------------------- MODULE MCAmortize -----------------------------
(* Instances of Amortize for TLC.  Small loans at high rates, so that every *)
(* cent of rounding counts; products stay below 2^31.                       *)
EXTENDS Amortize

SmallLoans == [principal : {0, 1, 13, 50, 99, 100, 250, 1000}, num : {0, 7, 50, 100}, den : {100},
               term : {1, 2, 3, 4, 7}]
           \cup [principal : {72, 75, 150, 215}, num : {0, 12}, den : {100}, term : {10, 30}]
Once(p, a) == [period |-> p, amount |-> a, recurring |-> FALSE]
Every(p, a) == [period |-> p, amount |-> a, recurring |-> TRUE]
SmallPlans == {<<>>, <<Once(2, 30)>>, <<Every(1, 7)>>, <<Every(2, 40), Every(1, 1)>>,
               <<Once(1, 20), Once(1, 20), Every(3, 5)>>, <<Once(1, 300)>>}
AllModes == {"monthly", "half-monthly", "biweekly"}
=============================================================================
