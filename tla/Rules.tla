------------------------------- MODULE Rules -------------------------------
(***************************************************************************)
(* The program rules of lib/rules: loan limits, mortgage insurance, fees,  *)
(* eligibility.  A rule is an operator; one that may raise returns         *)
(* Result(value) or Raise(exception).  The dollar amounts of               *)
(* data/reference are the constant Ref, so that TLC can put them next to   *)
(* the small loans of an instance; percentages and score bands are the     *)
(* published ones.  Only purchases of one unit by its occupant are         *)
(* modelled, which is all that the engines ask for.                        *)
(***************************************************************************)
EXTENDS Money, Sequences

CONSTANTS
    Ref,        \* baseline, fhfa, fhaFloor, fha, mipTier, longTerm, shortTerm, qmHigh,
                \* qmMid, vaTier, vaBelow, vaAbove, vaExtra, usda4, usda8, interestCap
    Ratio       \* quantize_rate: ratios are multiples of 1 / Ratio

Result(v) == [error |-> "none", value |-> v]
Raise(e) == [error |-> e]
\* What follows is not reached after an exception.
Then(result, Go(_)) == IF result.error # "none" THEN Raise(result.error) ELSE Go(result.value)

\* The fraction n / d is more than pm per mille.
Above(n, d, pm) == 1000 * n > pm * d

-----------------------------------------------------------------------------
(* loan_type.classify.  A county is listed if it is in the domain of the   *)
(* limits; the others are the ones that the shipped subset lacks.          *)

ClassifyConventional(loan, county) ==
    CASE loan <= Ref.baseline -> Result("conforming")
      [] loan > Ref.baseline /\ county \notin DOMAIN Ref.fhfa -> Raise("MissingCountyDataError")
      [] OTHER -> Result(IF loan <= Ref.fhfa[county] THEN "high_balance" ELSE "jumbo")

ClassifyFha(loan, county) ==
    CASE loan <= Ref.fhaFloor -> Result("fha_standard")
      [] loan > Ref.fhaFloor /\ county \notin DOMAIN Ref.fha -> Raise("MissingCountyDataError")
      [] OTHER -> IF loan <= Ref.fha[county] THEN Result("fha_high_balance")
                                             ELSE Raise("NotImplementedError")

\* Full entitlement, the default that no engine overrides.
ClassifyVa(loan) == Result(IF loan <= Ref.baseline THEN "va_standard" ELSE "va_high_balance")

Classify(loan, county, target) ==
    CASE target \in {"conventional", "jumbo"} -> ClassifyConventional(loan, county)
      [] target = "fha" -> ClassifyFha(loan, county)
      [] target = "va" -> ClassifyVa(loan)
      [] OTHER -> Result("usda")

-----------------------------------------------------------------------------
(* fha_mip: the first row that matches term, LTV and amount.  Rows are     *)
(* <<long term, over, up to (per mille), amount, annual basis points>>.    *)

NoCap == 0
MipTable ==
    << <<TRUE, 950, 1000, Ref.mipTier, 55>>, <<TRUE, 900, 950, Ref.mipTier, 50>>,
       <<TRUE, 0, 900, Ref.mipTier, 50>>,
       <<FALSE, 900, 1000, Ref.mipTier, 40>>, <<FALSE, 780, 900, Ref.mipTier, 15>>,
       <<FALSE, 0, 780, Ref.mipTier, 15>>,
       <<TRUE, 950, 1000, NoCap, 75>>, <<TRUE, 900, 950, NoCap, 70>>,
       <<TRUE, 780, 900, NoCap, 70>>, <<TRUE, 0, 780, NoCap, 70>>,
       <<FALSE, 900, 1000, NoCap, 40>>, <<FALSE, 780, 900, NoCap, 40>>,
       <<FALSE, 0, 780, NoCap, 40>> >>

AnnualMip(loan, value, term) ==
    LET Matches(row) ==
            /\ IF row[1] THEN term \in (Ref.shortTerm + 1)..Ref.longTerm ELSE term \in 1..Ref.shortTerm
            /\ row[2] = 0 \/ Above(loan, value, row[2])
            /\ ~ Above(loan, value, row[3])
            /\ row[4] = NoCap \/ loan <= row[4]
        Rate(i) == IF i = 0 THEN Raise("LookupError") ELSE Result(MipTable[i][5])
    IN  Rate(SelectInSeq(MipTable, Matches))

\* [bps, upfront] of a loan; the date of endorsement is today's.
Mip(loan, value, term) ==
    IF value <= 0 \/ loan > value THEN Raise("ValueError")
    ELSE Then(AnnualMip(loan, value, term),
              LAMBDA bps : Result([bps |-> bps, upfront |-> Cents(loan * 175, 10000)]))

-----------------------------------------------------------------------------
(* The other programs.                                                     *)

\* va_funding_fee for a first purchase that is not exempt; down is a ratio.
FundingFee(loan, down) ==
    LET bps == CASE down * 20 < Ratio -> 215
                 [] down * 20 >= Ratio /\ down * 10 < Ratio -> 150
                 [] OTHER -> 125
    IN  IF loan <= 0 THEN Raise("ValueError") ELSE Result(Cents(loan * bps, 10000))

\* va_residual_income for one region.
MinimumResidual(family, loan) ==
    LET above == loan >= Ref.vaTier
        table == IF above THEN Ref.vaAbove ELSE Ref.vaBelow
    IN  IF family <= 5 THEN table[family]
        ELSE table[5] + (family - 5) * (IF above THEN Ref.vaExtra[2] ELSE Ref.vaExtra[1])

ResidualPasses(va, loan) ==
    IF loan <= 0 THEN Raise("ValueError") ELSE Result(va.residual >= MinimumResidual(va.family, loan))

\* usda: the limit grows with the household.
UsdaIncomeLimit(size) ==
    CASE size <= 4 -> Ref.usda4
      [] size \in 5..8 -> Ref.usda8
      [] OTHER -> Ref.usda8 + (Ref.usda8 * 8 * (size - 8)) \div 100

UsdaEligible(yearly, size, loan) ==
    IF loan <= 0 THEN Raise("ValueError") ELSE Result(yearly <= UsdaIncomeLimit(size))

\* average_scheduled_annual_balance: the mean balance after the rows of the
\* first year, or after all rows of a schedule that ends sooner.
AverageBalance(loan, num, den, term) ==
    LET pi == LevelPayment(loan, num, den, term)
        NextRow(acc, k) ==
            LET interest == Cents(acc.balance * num, 12 * den)
                left == IF k = term \/ acc.balance + interest <= pi THEN 0
                        ELSE acc.balance - (pi - interest)
            IN  IF acc.paid THEN acc
                ELSE [balance |-> left, sum |-> acc.sum + left, rows |-> k, paid |-> left = 0]
        months == IF term < 12 THEN term ELSE 12
        year[k \in 0..months] ==
            IF k = 0 THEN [balance |-> loan, sum |-> 0, rows |-> 0, paid |-> FALSE]
            ELSE NextRow(year[k - 1], k)
    IN  Cents(year[months].sum, year[months].rows)

\* atr_qm.general_qm_passes for a first lien; rates are num / 400.
QmPasses(apr, apor, loan) ==
    LET spread == CASE loan >= Ref.qmHigh -> 9
                    [] loan < Ref.qmHigh /\ loan >= Ref.qmMid -> 14
                    [] OTHER -> 26
    IN  IF loan <= 0 THEN Raise("ValueError") ELSE Result(apr - apor <= spread)

\* fannie_eligibility.compute_llpa is more than zero, for an LTV in per mille:
\* the LTV up to which each band of scores pays no adjustment.
FannieFree(score) == CASE score < 640 -> 300
                       [] score \in 640..759 -> 600
                       [] score \in 760..779 -> 700
                       [] OTHER -> 750
FannieLlpa(score, ltv) ==
    IF ltv > 970 THEN Raise("LookupError") ELSE Result(ltv > FannieFree(score))

\* freddie_eligibility.evaluate(...).eligible.
FreddieEligible(score, ltv) ==
    IF ltv > 970 THEN Raise("LookupError")
    ELSE Result(score >= 640 \/ (score >= 620 /\ ltv <= 900))

\* irs_pub936.qualified_loan_limit of debt that is not grandfathered.
QualifiedLoanLimit(filing) == IF filing = "mfs" THEN Ref.interestCap \div 2 ELSE Ref.interestCap
=============================================================================
