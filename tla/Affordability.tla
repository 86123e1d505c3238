--------------------------- MODULE Affordability ---------------------------
(***************************************************************************)
(* lib/affordability.py: what a household may borrow.  Forward mode prices *)
(* a given loan; reverse mode finds the largest loan within a DTI; both    *)
(* then run the ladder of hard blockers and collect soft warnings.  A call *)
(* is one operator that returns Result(response) or Raise(exception).      *)
(*                                                                         *)
(* A request has mode, h (the household: income, debts, escrow, county,    *)
(* score, size, va), target, maxDti, term, rate, apr, apor, pmi, junior,   *)
(* and loan, value (forward) or down, ltv (reverse).  maxDti and ltv are   *)
(* multiples of 1 / Ratio, rates of 1 / RateDen.                           *)
(***************************************************************************)
EXTENDS Rules

RateDen == 400          \* rates in quarters of a percent
None == -1              \* an optional field that is not given
NoVa == [family |-> 0, residual |-> 0]

\* What the models Household and VAInputs accept; reserves and knownState are
\* those of lib/property_analysis.py.
Optional == Nat \cup {None}
Household == [income : Nat \ {0}, debts : Nat, escrow : Nat, reserves : Nat, county : STRING,
              knownState : BOOLEAN, score : Nat, size : Nat, va : [family : Nat, residual : Int]]

Quotient(n, d) == Cents(n * Ratio, d)           \* quantize_rate(n / d)

\* LTV_CEILING_BY_TARGET and CLTV_CEILING_BY_TARGET, per mille.
Ceiling(target) == CASE target = "conventional" -> 970
                     [] target = "jumbo" -> 900
                     [] target = "fha" -> 965
                     [] OTHER -> 1000
\* Mutant: the comparison is the wrong way round.
MutantOverCeiling(ltv, target) == ~ Above(ltv, Ratio, Ceiling(target))
OverCeiling(ltv, target) == Above(ltv, Ratio, Ceiling(target))

Accepted(target) == CASE target = "conventional" -> {"conforming", "high_balance"}
                      [] target = "jumbo" -> {"jumbo"}
                      [] target = "fha" -> {"fha_standard", "fha_high_balance"}
                      [] target = "va" -> {"va_standard", "va_high_balance"}
                      [] OTHER -> {"usda"}

-----------------------------------------------------------------------------
(* Requests.                                                               *)

Income(h) == IF h.income <= 0 THEN Raise("ValidationError") ELSE Result(h.income)

\* Mutant: a high LTV does not need a premium.
MutantValidate(r) ==
    IF (r.apr = None) # (r.apor = None) \/ r.rate \notin 0..RateDen \/ (r.mode = "forward" /\ r.value <= 0)
    THEN Raise("ValidationError") ELSE Income(r.h)
\* The validators of both modes; the LTV of a forward request is exact here.
Validate(r) ==
    LET forward == r.mode = "forward"
        over80 == IF forward THEN Above(r.loan, r.value, 800) ELSE Above(r.ltv, Ratio, 800)
        bad == \/ (r.apr = None) # (r.apor = None)
               \/ IF forward THEN r.value <= 0 ELSE r.ltv <= 0
               \/ r.target = "conventional" /\ over80 /\ r.pmi = None
               \/ r.rate \notin 0..RateDen
    IN  IF bad THEN Raise("ValidationError") ELSE Income(r.h)

-----------------------------------------------------------------------------
(* The parts of an evaluation.                                             *)

\* [class, blocker]: the limit that the loan misses, if its class is not one
\* of the target's.
ClassifyTarget(loan, county, target) ==
    Then(Classify(loan, county, target),
         LAMBDA class : Result([class |-> class, blocker |-> IF class \in Accepted(target) THEN "none" ELSE "LIMIT"]))

\* _compute_monthly_mi of a loan on a value.
MonthlyMi(r, loan, value) ==
    CASE r.target = "conventional" /\ value = 0 -> Raise("InvalidOperation")
      [] r.target = "conventional" /\ value # 0 ->
           CASE ~ Above(loan, value, 800) -> Result(0)
             [] Above(loan, value, 800) /\ r.pmi = None -> Raise("AssertionError")
             [] OTHER -> Result(r.pmi)
      [] r.target = "fha" -> Then(Mip(loan, value, r.term),
                                  LAMBDA mip : Result(Cents(loan * mip.bps, 120000)))
      [] r.target = "usda" ->
           Result(Cents(AverageBalance(loan, r.rate, RateDen, r.term) * 35, 120000))
      [] OTHER -> Result(0)

\* evaluate_forward.  An FHA loan finances its upfront premium, and its monthly
\* premium is the rate of the loan before that on the loan after it.
Priced(r, class, financed, pi, mi) ==
    LET piti == pi + mi + r.h.escrow
    IN  Result([class |-> class.class, blocker |-> class.blocker, warnings |-> {},
                loan |-> r.loan, financed |-> financed, pi |-> pi, mi |-> mi, piti |-> piti,
                ltv |-> Quotient(financed, r.value), cltv |-> Quotient(financed + r.junior, r.value),
                dti |-> Quotient(piti + r.h.debts, r.h.income)])
EvaluateForward(r) ==
    LET upfront == IF r.target = "fha" THEN Mip(r.loan, r.value, r.term)
                   ELSE Result([bps |-> 0, upfront |-> 0])
        Premium(financed, bps) == IF r.target = "fha" THEN Result(Cents(financed * bps, 120000))
                                  ELSE MonthlyMi(r, financed, r.value)
        Price(class, financed, bps) ==
            Then(Premium(financed, bps),
                 LAMBDA mi : Priced(r, class, financed, LevelPayment(financed, r.rate, RateDen, r.term), mi))
    IN  Then(ClassifyTarget(r.loan, r.h.county, r.target),
             LAMBDA class : Then(upfront, LAMBDA mip : Price(class, r.loan + mip.upfront, mip.bps)))

-----------------------------------------------------------------------------
(* evaluate_reverse: one present value, without iteration.                 *)

Budget(r) == (r.maxDti * r.h.income) \div Ratio - r.h.debts - r.h.escrow
LoanFor(r, pmt) == PresentValue(pmt, r.rate, RateDen, r.term)
ValueFor(r, loan) == Cents(loan * Ratio, r.ltv)

\* The loan that the cash of the down payment allows at this LTV.
CashLimit(r) == Cents(r.down * r.ltv, Ratio - r.ltv)

Answer(r, class, loan, pi, mi, warnings) ==
    Result([class |-> class.class, blocker |-> class.blocker, warnings |-> warnings, loan |-> loan,
            financed |-> loan, pi |-> pi, mi |-> mi, piti |-> None, ltv |-> r.ltv, cltv |-> None,
            dti |-> None])
NoBudget(r, mi) == Answer(r, [class |-> "none", blocker |-> "DTI-CAP"], 0, 0, mi, {})
Settle(r, loan, mi, warnings) ==
    Then(ClassifyTarget(loan, r.h.county, r.target),
         LAMBDA class : Answer(r, class, loan, LevelPayment(loan, r.rate, RateDen, r.term), mi, warnings))

\* The loan that the budget carries, or the smaller one that the cash allows,
\* with a premium of its own.
Capped(r, wanted, assumed) ==
    IF r.ltv < Ratio /\ CashLimit(r) < wanted
    THEN Then(MonthlyMi(r, CashLimit(r), ValueFor(r, CashLimit(r))),
              LAMBDA mi : Settle(r, CashLimit(r), mi, {"DOWN-PAYMENT-CASH-BINDING"}))
    ELSE Settle(r, wanted, assumed, {})

\* The premium of the loan that all of the budget would carry.
Assumed(r, loan) == MonthlyMi(r, loan, ValueFor(r, loan))

\* Mutant: the premium is not taken out of the budget.
MutantReverse(r) ==
    IF Budget(r) <= 0 THEN NoBudget(r, 0)
    ELSE Then(Assumed(r, LoanFor(r, Budget(r))), LAMBDA mi : Settle(r, LoanFor(r, Budget(r)), mi, {}))
EvaluateReverse(r) ==
    IF Budget(r) <= 0 THEN NoBudget(r, 0)
    ELSE Then(Assumed(r, LoanFor(r, Budget(r))),
              LAMBDA mi : IF Budget(r) - mi <= 0 THEN NoBudget(r, mi)
                          ELSE Capped(r, LoanFor(r, Budget(r) - mi), mi))

-----------------------------------------------------------------------------
(* _evaluate_blockers: the first citation of the ladder (D-11) that        *)
(* applies.  The ceilings of an FHA loan are those of its base loan; a     *)
(* reverse answer has no combined LTV and no DTI.                          *)

Ladder == <<"USDA-INCOME-LIMIT", "LTV-CEILING", "CLTV-CEILING", "DTI-CAP", "ATR-QM",
            "VA-RESIDUAL-NOT-SUPPLIED", "VA-RESIDUAL">>

\* Mutant: the ceilings are those of the financed loan.
MutantCeilingLtv(r, b, junior) == Quotient(b.financed + junior, r.value)
CeilingLtv(r, b, junior) == IF r.target = "fha" THEN Quotient(r.loan + junior, r.value)
                            ELSE IF junior = 0 THEN b.ltv ELSE b.cltv

Denies(check) == check.error = "none" /\ ~ check.value

Applies(citation, r, b) ==
    LET h == r.h
        forward == r.mode = "forward"
    IN  CASE citation = "USDA-INCOME-LIMIT" ->
               r.target = "usda" /\ Denies(UsdaEligible(12 * h.income, h.size, b.financed))
          [] citation = "LTV-CEILING" ->
               OverCeiling(IF forward THEN CeilingLtv(r, b, 0) ELSE r.ltv, r.target)
          [] citation = "CLTV-CEILING" -> forward /\ OverCeiling(CeilingLtv(r, b, r.junior), r.target)
          [] citation = "DTI-CAP" -> b.dti # None /\ b.dti > r.maxDti
          [] citation = "ATR-QM" -> r.apr # None /\ Denies(QmPasses(r.apr, r.apor, b.financed))
          [] citation = "VA-RESIDUAL-NOT-SUPPLIED" -> r.target = "va" /\ h.va = NoVa
          [] OTHER -> r.target = "va" /\ h.va # NoVa /\ Denies(ResidualPasses(h.va, b.financed))

\* The rules that refuse a loan of nothing, in the order of the ladder.
RefusesZero(r, b) ==
    /\ b.financed <= 0
    /\ \/ r.target = "usda"
       \/ /\ \A i \in 2..4 : ~ Applies(Ladder[i], r, b)
          /\ r.apr # None \/ (r.target = "va" /\ r.h.va # NoVa)

Blockers(r, b) ==
    LET Hit(citation) == Applies(citation, r, b)
        Cited(i) == Result([b EXCEPT !.blocker = IF i = 0 THEN "none" ELSE Ladder[i]])
    IN  CASE b.blocker # "none" -> Result(b)
          [] b.blocker = "none" /\ RefusesZero(r, b) -> Raise("ValueError")
          [] OTHER -> Cited(SelectInSeq(Ladder, Hit))

-----------------------------------------------------------------------------
(* _append_soft_warnings.                                                  *)

PerMille(ltv) == HalfEven(1000 * ltv, Ratio)    \* _ltv_to_percentage_points

\* The look-ups of the two agencies raise beyond their tables, and the engine
\* swallows that: no adjustment is reported then.
LlpaUnknown(r, b) == r.target \in {"conventional", "jumbo"} /\ PerMille(b.ltv) > 970

SoftWarnings(r, b) ==
    LET agencies == r.target \in {"conventional", "jumbo"} /\ ~ LlpaUnknown(r, b)
    IN  {w \in {"HPA-PMI-REQUIRED", "ATR-QM-NOT-EVALUATED", "FANNIE-LLPA", "FREDDIE-INELIGIBLE"} :
            CASE w = "HPA-PMI-REQUIRED" -> r.target = "conventional" /\ Above(b.ltv, Ratio, 800)
              [] w = "ATR-QM-NOT-EVALUATED" -> r.apr = None /\ r.apor = None
              [] w = "FANNIE-LLPA" -> agencies /\ FannieLlpa(r.h.score, PerMille(b.ltv)).value
              [] OTHER -> agencies /\ ~ FreddieEligible(r.h.score, PerMille(b.ltv)).value}

Evaluate(r) ==
    LET Judge(b) == Then(Blockers(r, b),
                         LAMBDA judged : Result([judged EXCEPT !.warnings = @ \cup SoftWarnings(r, judged)]))
    IN  Then(Validate(r),
             LAMBDA income : Then(IF r.mode = "forward" THEN EvaluateForward(r) ELSE EvaluateReverse(r), Judge))
=============================================================================
