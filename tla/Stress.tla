------------------------------- MODULE Stress -------------------------------
(***************************************************************************)
(* lib/stress.py: a loan at other rates, a request with less income, and   *)
(* the index paths of an adjustable loan.                                  *)
(***************************************************************************)
EXTENDS Affordability

\* Python's max: the first index of the greatest value.
FirstMax(s) == SelectInSeq(s, LAMBDA v : \A j \in DOMAIN s : s[j] <= v)

\* The validators: scenarios are given, and no two are the same.
Scenarios(s) == s # <<>> /\ IsInjective(s)

-----------------------------------------------------------------------------
\* rate_shock: a payment per rate, its difference from the baseline, the worst
\* one, and the flag RATE_SHOCK_MONOTONE_PI (a higher rate that costs no more).
RateShock(principal, term, rates, baseline) ==
    LET pi == [i \in DOMAIN rates |-> LevelPayment(principal, rates[i], RateDen, term)]
        base == IF baseline = None THEN 1 ELSE SelectInSeq(rates, LAMBDA q : q = baseline)
    IN  CASE ~ Scenarios(rates) \/ \E i \in DOMAIN rates : rates[i] \notin 0..RateDen ->
               Raise("ValidationError")
          [] Scenarios(rates) /\ base = 0 -> Raise("ValueError")
          [] OTHER ->
               Result([pi |-> pi, worst |-> FirstMax(pi),
                       delta |-> [i \in DOMAIN rates |-> pi[i] - pi[base]],
                       flat |-> \E i, j \in DOMAIN rates : rates[i] > rates[j] /\ pi[i] <= pi[j]])

\* Mutant: the magnitude of the shock is taken for what is left.
MutantLessIncome(r, cut) == [r EXCEPT !.h.income = Cents(@ * cut, 100)]
LessIncome(r, cut) == [r EXCEPT !.h.income = Cents(@ * (100 - cut), 100)]

\* income_shock: the request is evaluated again for every cut (in percent).
Shocked(results, cuts, threshold) ==
    LET dti == [i \in DOMAIN cuts |-> IF results[i].value.dti = None THEN 0 ELSE results[i].value.dti]
    IN  Result([dti |-> dti, worst |-> FirstMax(dti),
                breaches |-> [i \in DOMAIN cuts |-> dti[i] > threshold],
                blocked |-> [i \in DOMAIN cuts |-> results[i].value.blocker]])
IncomeShock(r, cuts, threshold) ==
    LET Failed(res) == res.error # "none"
        Answers(results) ==
            LET first == SelectInSeq(results, Failed)
            IN  IF first # 0 THEN Raise(results[first].error) ELSE Shocked(results, cuts, threshold)
    IN  IF ~ Scenarios(cuts) \/ \E i \in DOMAIN cuts : cuts[i] \notin 0..99
        THEN Raise("ValidationError")
        ELSE Answers([i \in DOMAIN cuts |-> Evaluate(LessIncome(r, cuts[i]))])
=============================================================================
