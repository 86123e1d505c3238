-------------------------------- MODULE Debt --------------------------------
(***************************************************************************)
(* What a repayment schedule promises about principal, whatever the        *)
(* payments, rates and extras: the debt is only ever paid down, by amounts *)
(* that it covers, and what is paid and what is owed add up.               *)
(***************************************************************************)
EXTENDS Integers

VARIABLES owed,     \* principal not paid yet
          paid      \* principal paid, extras included

vars == <<owed, paid>>

Init == owed \in Nat /\ paid = 0

Pay == \E amount \in 0..owed :
          /\ owed' = owed - amount
          /\ paid' = paid + amount

Spec == Init /\ [][Pay]_vars
=============================================================================
