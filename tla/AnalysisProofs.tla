--------------------------- MODULE AnalysisProofs ---------------------------
(***************************************************************************)
(* Theorems about Analysis, for any listings, households, profiles and     *)
(* reference data that the assumptions of Analysis allow.  The first part, *)
(* on GO, rests on no property of the numbers: what a rule or an amount    *)
(* computes is left open.  The second follows the engine call by call,     *)
(* with the rounding of Money and the tables of Rules.                     *)
(***************************************************************************)
EXTENDS Analysis, TLAPS, FiniteSetTheorems

-----------------------------------------------------------------------------
(* The matrix.                                                             *)

\* What _build_program_result guarantees of a cell.
Judged(c, reserves) == /\ c.eligible <=> c.reasons = {}
                       /\ c.reasons = {} => c.program # "VA30" /\ ~ (c.cash > reserves)

\* A cell has no reason only if the reserves cover the cash to close, and a VA
\* cell always has one.
LEMMA NoReasons ==
  ASSUME NEW program, NEW response, NEW dti, NEW cash, Reasons(program, response, dti, cash) = {}
  PROVE  program # "VA30" /\ ~ (cash > req.h.reserves)
  BY DEF Reasons

\* What _build_program_result returns of a cell is judged.
LEMMA JudgeMarks ==
  ASSUME NEW program, NEW pct, NEW rate, NEW a, NEW response,
         Judge(Unjudged(program, pct, rate, a), response).error = "none"
  PROVE  Judged(Judge(Unjudged(program, pct, rate, a), response).value, req.h.reserves)
<1> DEFINE c == Unjudged(program, pct, rate, a)
           reasons == Reasons(c.program, response, c.dti, c.cash)
           marked == Mark(c, reasons)
<1>1. /\ marked.eligible = (reasons = {}) /\ marked.reasons = reasons
      /\ marked.program = c.program /\ marked.cash = c.cash
  BY DEF Mark, Unjudged
<1>2. reasons = {} => c.program # "VA30" /\ ~ (c.cash > req.h.reserves)
  BY NoReasons
<1>3. Judged(marked, req.h.reserves)
  <2> HIDE DEF c, reasons, marked
  <2> QED
    BY <1>1, <1>2 DEF Judged
<1>4. Judge(c, response) = IF response.error \notin {"none", "NotImplementedError"}
                           THEN Raise(response.error) ELSE Result(marked)
  BY Zenon DEF Judge
<1>5. Judge(c, response).error = "none"
  OBVIOUS
<1>6. Judge(c, response).value = marked
  <2> HIDE DEF c, reasons, marked
  <2> QED
    BY <1>4, <1>5 DEF Raise, Result
<1> QED
  BY <1>3, <1>6

\* A cell that is built is judged.
LEMMA CellIsJudged ==
  ASSUME NEW program, NEW pct, NEW rate, Cell(program, pct, rate).error = "none"
  PROVE  Judged(Cell(program, pct, rate).value, req.h.reserves)
<1> DEFINE amounts == Amounts(program, pct)
           a == amounts.value
           c == Unjudged(program, pct, rate, a)
           response == Evaluate(ForwardRequest(program, pct, Escrow(req.listing), c.mi, c.ltv, rate))
           judged == Judge(c, response)
<1>1. Cell(program, pct, rate) =
        IF rate \notin 0..RateDen THEN Raise("ValidationError")
        ELSE IF amounts.error # "none" THEN Raise(amounts.error)
        ELSE IF ~ req.h.knownState THEN Raise("KeyError")
        ELSE judged
  BY Zenon DEF Cell, Then
<1>2. Cell(program, pct, rate) = judged
  <2> HIDE DEF amounts, a, c, response, judged
  <2> QED
    BY <1>1 DEF Raise
<1> HIDE DEF amounts, response
<1> QED
  BY <1>2, JudgeMarks

-----------------------------------------------------------------------------
(* The blocks.                                                             *)

\* A stress block has an income row of every cell that it is done with.
IncomeRow(c, row) == /\ row.kind = "income_shock" /\ row.program = c.program
                     /\ row.breaches = (IncomeDti(c) > DtiCeiling(c.program))

Built == {"programs", "rates", "matrix"}
Later == {"points", "tax", "verdict", "done"}

AnalysisInv ==
    /\ \E S : cells \in Seq(S)
    /\ \A i \in DOMAIN cells : Judged(cells[i], req.h.reserves)
    /\ stage \in Built => stressed = {}
    /\ \A i \in stressed : \E row \in rows : IncomeRow(cells[i], row)
    /\ stressed \subseteq DOMAIN cells
    /\ stage \in Later => Passing \subseteq stressed
    /\ stage = "done" => verdict = Synthesize(cells, rows, req.preferred)

\* The rows of a cell include its income row.
LEMMA IncomeRowAdded ==
  ASSUME NEW c, NEW peak
  PROVE  \E row \in CellRows(c, peak) : IncomeRow(c, row)
<1> DEFINE row == StressRow(c, "income_shock", IncomeDti(c))
<1>1. row \in CellRows(c, peak)
  BY DEF CellRows
<1>2. IncomeRow(c, row)
  BY DEF IncomeRow, StressRow
<1> QED
  BY <1>1, <1>2

\* The matrix grows by a cell that is judged.
LEMMA CellAdded ==
  ASSUME AnalysisInv, NEW c, Judged(c, req.h.reserves), cells' = Append(cells, c), UNCHANGED req
  PROVE  /\ \E S : cells' \in Seq(S)
         /\ \A i \in DOMAIN cells' : Judged(cells'[i], req'.h.reserves)
<1> PICK S : cells \in Seq(S)
  BY DEF AnalysisInv
<1> DEFINE T == S \cup {c}
<1>1. cells \in Seq(T) /\ c \in T
  OBVIOUS
<1>2. cells' \in Seq(T)
  BY <1>1
<1>3. ASSUME NEW i \in DOMAIN cells' PROVE Judged(cells'[i], req'.h.reserves)
  <2>1. CASE i \in DOMAIN cells
    <3>1. cells'[i] = cells[i]
      BY <1>1, <2>1
    <3> QED
      BY <2>1, <3>1 DEF AnalysisInv, Judged
  <2>2. CASE i \notin DOMAIN cells
    <3>1. cells'[i] = c
      BY <1>1, <1>3, <2>2
    <3> QED
      BY <3>1 DEF Judged
  <2> QED
    BY <2>1, <2>2
<1> QED
  BY <1>2, <1>3

\* Nothing is built at the start.
LEMMA AnalysisInit == Init => AnalysisInv
<1> SUFFICES ASSUME Init PROVE AnalysisInv
  OBVIOUS
<1>1. cells = <<>> /\ cells \in Seq({}) /\ DOMAIN cells = {} /\ stressed = {} /\ stage = "programs"
  BY DEF Init
<1> QED
  BY <1>1 DEF AnalysisInv, Built, Later

\* Every step keeps what is built.
LEMMA AnalysisStep == AnalysisInv /\ [Next]_vars => AnalysisInv'
<1> SUFFICES ASSUME AnalysisInv, [Next]_vars PROVE AnalysisInv'
  OBVIOUS
<1> USE DEF Built, Later
<1>1. ASSUME UNCHANGED <<req, cells, stressed, rows>>,
             stage' \in Built => stage \in Built,
             stage' \in Later => Passing \subseteq stressed,
             stage' = "done" => verdict' = Synthesize(cells, rows, req.preferred)
      PROVE  AnalysisInv'
  <2>1. Passing' = Passing
    BY <1>1 DEF Passing
  <2>2. \A c, row : IncomeRow(c, row)' <=> IncomeRow(c, row)
    BY <1>1 DEF IncomeRow, IncomeDti, DtiCeiling
  <2> QED
    BY <1>1, <2>1, <2>2 DEF AnalysisInv
<1>2. CASE EvaluateCell
  <2>1. stage = "matrix" /\ UNCHANGED <<req, stressed, rows, verdict>> /\ stressed = {}
    BY <1>2 DEF EvaluateCell, AnalysisInv
  <2>2. CASE UNCHANGED cells
    <3>1. stage' \in {"matrix", "stress", "raised"}
      BY <1>2 DEF EvaluateCell, Fail
    <3> QED
      BY <1>1, <2>1, <2>2, <3>1
  <2>3. CASE ~ UNCHANGED cells
    <3>1. PICK c : Judged(c, req.h.reserves) /\ cells' = Append(cells, c)
      BY <1>2, <2>3, CellIsJudged DEF EvaluateCell
    <3>2. stage' \in {"matrix", "stress"}
      BY <1>2, <2>3 DEF EvaluateCell
    <3> QED
      BY <2>1, <3>1, <3>2, CellAdded DEF AnalysisInv
  <2> QED
    BY <2>2, <2>3
<1>3. CASE StressCell
  <2>1. stage = "stress" /\ UNCHANGED <<req, cells, verdict>>
    BY <1>3 DEF StressCell
  <2>2. CASE stage' = "raised"
    <3>1. UNCHANGED <<stressed, rows>>
      BY <1>3, <2>1, <2>2 DEF StressCell, Fail
    <3> QED
      BY <1>1, <2>1, <2>2, <3>1
  <2>3. CASE stage' # "raised"
    <3>0. PICK i \in Passing : /\ \E peak : rows' = rows \cup CellRows(cells[i], peak)
                               /\ stressed' = stressed \cup {i} /\ stage' = stage
      BY <1>3, <2>3 DEF StressCell, Fail
    <3>1. PICK peak : rows' = rows \cup CellRows(cells[i], peak)
      BY <3>0
    <3>2. \A c, row : IncomeRow(c, row)' <=> IncomeRow(c, row)
      BY <2>1 DEF IncomeRow, IncomeDti, DtiCeiling
    <3>3. \A j \in stressed' : \E row \in rows' : IncomeRow(cells[j], row)
      BY <3>0, <3>1, IncomeRowAdded DEF AnalysisInv
    <3>4. stressed' \subseteq DOMAIN cells'
      BY <2>1, <3>0 DEF Passing, AnalysisInv
    <3> QED
      BY <2>1, <3>0, <3>2, <3>3, <3>4 DEF AnalysisInv
  <2> QED
    BY <2>2, <2>3
<1>4. CASE DeterminePrograms \/ ReadRates
  BY <1>1, <1>4 DEF DeterminePrograms, ReadRates, Fail
<1>5. CASE BuildRefi
  BY <1>1, <1>5 DEF BuildRefi, Fail
<1>6. CASE BuildPoints \/ BuildTax \/ GiveVerdict
  BY <1>1, <1>6 DEF BuildPoints, BuildTax, GiveVerdict, Fail, AnalysisInv
<1>7. CASE UNCHANGED vars
  BY <1>1, <1>7 DEF vars, AnalysisInv
<1> QED
  BY <1>2, <1>3, <1>4, <1>5, <1>6, <1>7 DEF Next

-----------------------------------------------------------------------------
(* The verdict.                                                            *)

\* What a GO says of the matrix and the stress block.
LEMMA GoNeeds ==
  ASSUME NEW matrix, NEW block, NEW preferred, Synthesize(matrix, block, preferred).level = "GO"
  PROVE  /\ IncomeFails(matrix, block, preferred) = {}
         /\ \E i \in EligibleAt(matrix, preferred) : matrix[i].program # "FHA30"
<1> DEFINE some == \E i \in DOMAIN matrix : matrix[i].eligible
           eligible == EligibleAt(matrix, preferred)
           breached == IncomeFails(matrix, block, preferred) # {}
           fhaOnly == \A i \in eligible : matrix[i].program = "FHA30"
<1>1. Synthesize(matrix, block, preferred) =
        CASE ~ some -> [level |-> "NO_GO", code |-> "DTI-CEILING-ALL-PROGRAMS"]
          [] some /\ eligible = {} -> [level |-> "NO_GO", code |-> "NO-ELIGIBLE-AT-PREFERRED-DP"]
          [] eligible # {} /\ breached -> [level |-> "WATCH", code |-> "STRESS-INCOME-SHOCK"]
          [] eligible # {} /\ ~ breached /\ fhaOnly -> [level |-> "WATCH", code |-> "MIP-BURDEN-FHA"]
          [] OTHER -> [level |-> "GO", code |-> "GO-ALL-GREEN"]
  BY Zenon DEF Synthesize
<1>2. eligible # {} => some
  BY DEF EligibleAt
<1>3. ~ breached /\ ~ fhaOnly
  <2> HIDE DEF some, eligible, breached, fhaOnly
  <2> QED
    BY <1>1, <1>2
<1> QED
  BY <1>3

\* When all blocks are built a GO is safe.
LEMMA GoIsSafe == AnalysisInv => GoMeansSafe
<1> SUFFICES ASSUME AnalysisInv, stage = "done", verdict.level = "GO"
             PROVE  \E i \in DOMAIN cells :
                        /\ cells[i].pct = req.preferred /\ cells[i].program # "FHA30"
                        /\ cells[i].reasons = {} /\ ~ (cells[i].cash > req.h.reserves)
                        /\ ~ (IncomeDti(cells[i]) > DtiCeiling(cells[i].program))
  BY DEF GoMeansSafe
<1>1. Synthesize(cells, rows, req.preferred).level = "GO"
  BY DEF AnalysisInv
<1>2. PICK i \in EligibleAt(cells, req.preferred) : cells[i].program # "FHA30"
  BY <1>1, GoNeeds
<1>3. i \in DOMAIN cells /\ cells[i].pct = req.preferred /\ cells[i].eligible
  BY DEF EligibleAt
<1>4. cells[i].reasons = {} /\ ~ (cells[i].cash > req.h.reserves)
  BY <1>3 DEF AnalysisInv, Judged
<1>5. PICK row \in rows : IncomeRow(cells[i], row)
  BY <1>3 DEF AnalysisInv, Passing, Later
<1>6. ~ row.breaches
  BY <1>1, <1>5, GoNeeds DEF IncomeFails, IncomeRow
<1> QED
  BY <1>2, <1>3, <1>4, <1>5, <1>6 DEF IncomeRow

\* A GO is given only for a loan at the preferred down payment that is not
\* FHA's, that no rule blocks, that the reserves pay for and that 70 percent of
\* the income carries, whatever the rules and amounts compute.
THEOREM GoIsOnlyGivenSafely == Spec => []GoMeansSafe
  BY AnalysisInit, AnalysisStep, GoIsSafe, PTL DEF Spec

\* The lemmas of Amortize about amounts and annuities, which are of no loan in
\* particular.
P == INSTANCE AmortizeProofs WITH
        Loans <- {}, Plans <- {}, Modes <- {}, loan <- 0, plan <- 0, mode <- 0, period <- 0,
        balance <- 0, cumInt <- 0, cumPrin <- 0, cumExtra <- 0, rows <- 0, outcome <- 0

-----------------------------------------------------------------------------
(* Amounts.                                                                *)

\* The amounts of Amortize are the ones of Money.
LEMMA SameMoney ==
  /\ \A n, d : P!Cents(n, d) = Cents(n, d)
  /\ \A p, num, den, n : P!LevelPayment(p, num, den, n) = LevelPayment(p, num, den, n)
  /\ \A num, d, n : P!Annuity(num, d, n) = Annuity(num, d, n)
<1>1. \A n, d : P!Cents(n, d) = Cents(n, d)
  BY Zenon DEF P!Cents, Cents
<1>2. \A num, d, n : P!Annuity(num, d, n) = Annuity(num, d, n)
  BY Zenon DEF P!Annuity, Annuity
<1> QED
  BY <1>1, <1>2, Zenon DEF P!LevelPayment, LevelPayment

\* No loan in particular is one that Amortize is about.
LEMMA NoLoan ==
  /\ \A l \in {} : /\ l \in [principal : Nat, num : Nat, den : Nat \ {0}, term : Nat \ {0}]
                  /\ l.num <= l.den
  /\ {} \subseteq Seq([period : Nat \ {0}, amount : Nat \ {0}, recurring : BOOLEAN])
  /\ {} \subseteq {"monthly", "half-monthly", "biweekly"}
  OBVIOUS

\* A rounded amount is one, and of a smaller amount it is no larger.
LEMMA CentsType == ASSUME NEW n \in Nat, NEW d \in Nat \ {0} PROVE Cents(n, d) \in Nat
  BY NoLoan, UnitAssumption, P!CentsIsGreatest, SameMoney

\* A rounded amount grows with the amount.
LEMMA CentsGrow ==
  ASSUME NEW n \in Nat, NEW m \in Nat, n <= m, NEW d \in Nat \ {0}
  PROVE  Cents(n, d) <= Cents(m, d)
<1>1. n * d <= m * d
  <2>1. (m - n) * d >= 0
    OBVIOUS
  <2> QED
    BY <2>1
<1> QED
  BY <1>1, NoLoan, UnitAssumption, P!CentsMonotonic, SameMoney

\* What is taken off a price is at most the price.
LEMMA CentsBelow ==
  ASSUME NEW n \in Nat, NEW d \in Nat \ {0}, NEW q \in Nat, n <= q * d
  PROVE  Cents(n, d) <= q
<1> DEFINE c == Cents(n, d)
<1>1. c \in Nat /\ (2 * c - 1) * d <= 2 * n
  <2>1. Cents(n, d) \in Nat
    BY CentsType
  <2> QED
    BY <2>1, NoLoan, UnitAssumption, P!CentsIsGreatest, SameMoney
<1> HIDE DEF c
<1>2. SUFFICES ASSUME c >= q + 1 PROVE FALSE
  BY <1>1 DEF c
<1>3. (2 * c - 1 - (2 * q + 1)) * d >= 0
  BY <1>1, <1>2
<1>4. (2 * q + 1) * d <= 2 * n
  BY <1>1, <1>3
<1>5. (2 * q + 1) * d = 2 * (q * d) + d
  OBVIOUS
<1> QED
  BY <1>4, <1>5

\* The level payment of a loan is an amount, and of a smaller loan no larger.
LEMMA PaymentGrows ==
  ASSUME NEW p \in Nat, NEW q \in Nat, p <= q, NEW num \in Nat, NEW den \in Nat \ {0}, num <= den,
         NEW n \in Nat \ {0}
  PROVE  /\ LevelPayment(p, num, den, n) \in Nat
         /\ LevelPayment(p, num, den, n) <= LevelPayment(q, num, den, n)
<1> DEFINE d == 12 * den
           A == Annuity(num, d, n)
<1>1. d \in Nat \ {0} /\ num <= d
  OBVIOUS
<1>2. A \in Nat \ {0}
  <2> HIDE DEF d
  <2> QED
    BY <1>1, NoLoan, UnitAssumption, P!AnnuityBounds, SameMoney
<1>3. /\ LevelPayment(p, num, den, n) = Cents(p * Unit, A)
      /\ LevelPayment(q, num, den, n) = Cents(q * Unit, A)
  BY DEF LevelPayment
<1> HIDE DEF A
<1>4. p * Unit \in Nat /\ q * Unit \in Nat /\ p * Unit <= q * Unit
  <2>1. (q - p) * Unit >= 0
    BY UnitAssumption
  <2> QED
    BY <2>1, UnitAssumption
<1> QED
  BY <1>2, <1>3, <1>4, CentsType, CentsGrow

-----------------------------------------------------------------------------
(* The engine.                                                             *)

Class(r) == ClassifyTarget(r.loan, r.h.county, r.target)
Upfront(r) == IF r.target = "fha" THEN Mip(r.loan, r.value, r.term)
              ELSE Result([bps |-> 0, upfront |-> 0])
Financed(r) == r.loan + Upfront(r).value.upfront
Premium(r) == IF r.target = "fha" THEN Result(Cents(Financed(r) * Upfront(r).value.bps, 120000))
              ELSE MonthlyMi(r, Financed(r), r.value)
Payment(r) == LevelPayment(Financed(r), r.rate, RateDen, r.term)

\* evaluate_forward, one call after the other.
LEMMA ForwardIs ==
  ASSUME NEW r
  PROVE  EvaluateForward(r) =
            IF Class(r).error # "none" THEN Raise(Class(r).error)
            ELSE IF Upfront(r).error # "none" THEN Raise(Upfront(r).error)
            ELSE IF Premium(r).error # "none" THEN Raise(Premium(r).error)
            ELSE Priced(r, Class(r).value, Financed(r), Payment(r), Premium(r).value)
  BY DEF EvaluateForward, Then, Class, Upfront, Financed, Premium, Payment

\* A set of indices has a least one.
LEMMA LeastIndex ==
  ASSUME NEW n \in Nat, NEW I \in SUBSET (1..n), I # {}
  PROVE  \E x \in I : \A y \in I : x <= y
<1>1. I \subseteq Nat
  OBVIOUS
<1> QED
  BY <1>1, NoLoan, UnitAssumption, P!LeastNatural

\* The rules that apply to an answer, by their place on the ladder.
Rung(r, b) == {i \in 1..7 : Applies(Ladder[i], r, b)}

\* The ladder names the first of them.
LEMMA BlockersAre ==
  ASSUME NEW r, NEW b
  PROVE  /\ b.blocker # "none" => Blockers(r, b) = Result(b)
         /\ b.blocker = "none" /\ RefusesZero(r, b) => Blockers(r, b) = Raise("ValueError")
         /\ b.blocker = "none" /\ ~ RefusesZero(r, b) =>
               \E i \in 0..7 :
                  /\ Blockers(r, b) = Result([b EXCEPT !.blocker = IF i = 0 THEN "none" ELSE Ladder[i]])
                  /\ i = 0 => Rung(r, b) = {}
                  /\ i # 0 => i \in Rung(r, b) /\ \A j \in Rung(r, b) : i <= j
<1> DEFINE Hit(citation) == Applies(citation, r, b)
           I == {i \in 1..Len(Ladder) : Hit(Ladder[i])}
           k == SelectInSeq(Ladder, Hit)
           Cited(i) == Result([b EXCEPT !.blocker = IF i = 0 THEN "none" ELSE Ladder[i]])
<1>1. Blockers(r, b) = CASE b.blocker # "none" -> Result(b)
                         [] b.blocker = "none" /\ RefusesZero(r, b) -> Raise("ValueError")
                         [] OTHER -> Cited(k)
  BY Zenon DEF Blockers
<1>2. Len(Ladder) = 7
  BY DEF Ladder
<1>3. I = Rung(r, b)
  BY <1>2 DEF Rung
<1>4. k = IF I # {} THEN Min(I) ELSE 0
  BY Zenon DEF SelectInSeq
<1>5. I # {} => Min(I) \in I /\ \A j \in I : Min(I) <= j
  <2>1. I \subseteq 1..7
    BY <1>2
  <2> HIDE DEF I
  <2>2. ASSUME I # {} PROVE \E x \in I : \A y \in I : x <= y
    BY <2>1, <2>2, LeastIndex
  <2> QED
    BY <2>2, Zenon DEF Min
<1> HIDE DEF I, k, Cited
<1>6. k \in 0..7 /\ (k = 0 => Rung(r, b) = {})
      /\ (k # 0 => k \in Rung(r, b) /\ \A j \in Rung(r, b) : k <= j)
  <2>1. CASE I = {}
    BY <1>3, <1>4, <2>1
  <2>2. CASE I # {}
    <3>1. k = Min(I) /\ k \in I
      BY <1>4, <1>5, <2>2
    <3>2. k \in 1..7
      BY <1>3, <3>1 DEF Rung
    <3> QED
      BY <1>3, <1>5, <2>2, <3>1, <3>2
  <2> QED
    BY <2>1, <2>2
<1>7. b.blocker = "none" /\ ~ RefusesZero(r, b) => Blockers(r, b) = Cited(k)
  BY <1>1
<1>8. Cited(k) = Result([b EXCEPT !.blocker = IF k = 0 THEN "none" ELSE Ladder[k]])
  BY DEF Cited
<1> QED
  BY <1>1, <1>6, <1>7, <1>8

\* The answer of evaluate_forward, before the ladder.
Response(r) == Priced(r, Class(r).value, Financed(r), Payment(r), Premium(r).value).value

\* evaluate, one call after the other.
LEMMA EvaluateIs ==
  ASSUME NEW r, r.mode = "forward"
  PROVE  Evaluate(r) =
            IF Validate(r).error # "none" THEN Raise(Validate(r).error)
            ELSE IF EvaluateForward(r).error # "none" THEN Raise(EvaluateForward(r).error)
            ELSE IF Blockers(r, EvaluateForward(r).value).error # "none"
                 THEN Raise(Blockers(r, EvaluateForward(r).value).error)
            ELSE Result([Blockers(r, EvaluateForward(r).value).value EXCEPT !.warnings =
                           @ \cup SoftWarnings(r, Blockers(r, EvaluateForward(r).value).value)])
  BY DEF Evaluate, Then

\* An exception of the engine is one of its calls, or the refusal of a loan of
\* nothing.
LEMMA EvaluateFails ==
  ASSUME NEW r, r.mode = "forward", Evaluate(r).error # "none"
  PROVE  \/ Validate(r).error # "none" /\ Evaluate(r).error = Validate(r).error
         \/ /\ Validate(r).error = "none" /\ Class(r).error # "none"
            /\ Evaluate(r).error = Class(r).error
         \/ /\ Class(r).error = "none" /\ Upfront(r).error # "none"
            /\ Evaluate(r).error = Upfront(r).error
         \/ /\ Validate(r).error = "none" /\ Upfront(r).error = "none" /\ Premium(r).error # "none"
            /\ Evaluate(r).error = Premium(r).error
         \/ RefusesZero(r, Response(r)) /\ Evaluate(r).error = "ValueError"
<1> DEFINE f == EvaluateForward(r)
<1>1. \A e : Raise(e).error = e
  BY DEF Raise
<1>2. \A v : Result(v).error = "none" /\ Result(v).value = v
  BY DEF Result
<1>3. CASE Validate(r).error # "none"
  BY <1>1, <1>3, EvaluateIs
<1>4. CASE Validate(r).error = "none" /\ f.error # "none"
  <2>1. Evaluate(r).error = f.error
    BY <1>1, <1>4, EvaluateIs
  <2>2. Priced(r, Class(r).value, Financed(r), Payment(r), Premium(r).value).error = "none"
    BY DEF Priced, Result
  <2> QED
    BY <1>1, <1>4, <2>1, <2>2, ForwardIs
<1>5. CASE Validate(r).error = "none" /\ f.error = "none"
  <2>1. Blockers(r, f.value).error # "none" /\ Evaluate(r).error = Blockers(r, f.value).error
    <3> HIDE DEF f
    <3>1. Evaluate(r) = IF Blockers(r, f.value).error # "none" THEN Raise(Blockers(r, f.value).error)
                        ELSE Result([Blockers(r, f.value).value EXCEPT !.warnings =
                                       @ \cup SoftWarnings(r, Blockers(r, f.value).value)])
      BY <1>5, EvaluateIs DEF f
    <3> QED
      BY <1>1, <1>2, <3>1
  <2>2. \A i \in 0..7 : Result([f.value EXCEPT !.blocker = IF i = 0 THEN "none" ELSE Ladder[i]]).error = "none"
    BY <1>2
  <2>3. f.value.blocker = "none" /\ RefusesZero(r, f.value) /\ Evaluate(r).error = "ValueError"
    <3> HIDE DEF f
    <3>1. Blockers(r, f.value).error # "none"
      BY <2>1
    <3>2. f.value.blocker = "none"
      <4>1. f.value.blocker # "none" => Blockers(r, f.value) = Result(f.value)
        BY BlockersAre
      <4> QED
        BY <1>2, <3>1, <4>1
    <3>3. RefusesZero(r, f.value)
      <4> DEFINE b == f.value
      <4> HIDE DEF b
      <4>1. SUFFICES ASSUME ~ RefusesZero(r, b) PROVE FALSE
        BY DEF b
      <4>2. b.blocker = "none"
        BY <3>2 DEF b
      <4>3. PICK i \in 0..7 :
             /\ Blockers(r, b) = Result([b EXCEPT !.blocker = IF i = 0 THEN "none" ELSE Ladder[i]])
             /\ i = 0 => Rung(r, b) = {}
             /\ i # 0 => i \in Rung(r, b) /\ \A j \in Rung(r, b) : i <= j
        BY <4>1, <4>2, BlockersAre
      <4> QED
        BY <1>2, <3>1, <4>3 DEF b
    <3>4. Blockers(r, f.value) = Raise("ValueError")
      BY <3>2, <3>3, BlockersAre
    <3> QED
      BY <1>1, <2>1, <3>2, <3>3, <3>4
  <2>4. f.value = Response(r)
    BY <1>1, <1>5, ForwardIs DEF Response
  <2> QED
    BY <2>3, <2>4
<1> QED
  BY <1>3, <1>4, <1>5

\* What the engine answers where it does.
LEMMA Answers ==
  ASSUME NEW r, r.mode = "forward", Evaluate(r).error = "none"
  PROVE  /\ Validate(r).error = "none" /\ Class(r).error = "none"
         /\ Upfront(r).error = "none" /\ Premium(r).error = "none"
         /\ Evaluate(r).value.dti = Response(r).dti
         /\ Response(r).blocker # "none" => Evaluate(r).value.blocker = Response(r).blocker
         /\ Response(r).blocker = "none" =>
               \E i \in 0..7 :
                  /\ Evaluate(r).value.blocker = IF i = 0 THEN "none" ELSE Ladder[i]
                  /\ i = 0 => Rung(r, Response(r)) = {}
                  /\ i # 0 => i \in Rung(r, Response(r)) /\ \A j \in Rung(r, Response(r)) : i <= j
<1> DEFINE f == EvaluateForward(r)
           b == Response(r)
           judged == Blockers(r, b).value
<1>1. \A e : Raise(e).error = e
  BY DEF Raise
<1>2. \A v : Result(v).error = "none" /\ Result(v).value = v
  BY DEF Result
<1>3. Validate(r).error = "none" /\ f.error = "none"
  BY <1>1, EvaluateIs
<1>4. /\ Class(r).error = "none" /\ Upfront(r).error = "none" /\ Premium(r).error = "none"
      /\ f.value = b
  BY <1>1, <1>3, ForwardIs DEF Response
<1>5. Evaluate(r) = Result([judged EXCEPT !.warnings = @ \cup SoftWarnings(r, judged)])
      /\ Blockers(r, b).error = "none"
  <2>1. Evaluate(r) = IF Blockers(r, f.value).error # "none" THEN Raise(Blockers(r, f.value).error)
                      ELSE Result([Blockers(r, f.value).value EXCEPT !.warnings =
                                     @ \cup SoftWarnings(r, Blockers(r, f.value).value)])
    BY <1>3, EvaluateIs
  <2> HIDE DEF f, b
  <2> QED
    BY <1>1, <1>4, <2>1
<1>6. b = [class |-> b.class, blocker |-> b.blocker, warnings |-> b.warnings,
           loan |-> b.loan, financed |-> b.financed, pi |-> b.pi, mi |-> b.mi, piti |-> b.piti,
           ltv |-> b.ltv, cltv |-> b.cltv, dti |-> b.dti]
  BY DEF Response, Priced, Result
<1> HIDE DEF b
<1>7. \A x : [b EXCEPT !.blocker = x].dti = b.dti /\ [b EXCEPT !.blocker = x].blocker = x
  BY <1>6
<1>8. \A x, w : /\ [[b EXCEPT !.blocker = x] EXCEPT !.warnings = w].dti = b.dti
                /\ [[b EXCEPT !.blocker = x] EXCEPT !.warnings = w].blocker = x
                /\ [b EXCEPT !.warnings = w].dti = b.dti
                /\ [b EXCEPT !.warnings = w].blocker = b.blocker
  BY <1>6
<1>9. CASE b.blocker # "none"
  <2>1. Blockers(r, b) = Result(b)
    BY <1>9, BlockersAre
  <2>2. judged = b
    BY <1>2, <2>1
  <2> HIDE DEF judged
  <2>3. Evaluate(r).value.dti = b.dti /\ Evaluate(r).value.blocker = b.blocker
    <3> DEFINE w == b.warnings \cup SoftWarnings(r, judged)
    <3>1. Evaluate(r).value = [b EXCEPT !.warnings = w]
      BY <1>2, <1>5, <2>2
    <3> HIDE DEF w
    <3> QED
      BY <1>8, <3>1
  <2> QED
    BY <1>3, <1>4, <1>9, <2>3 DEF b
<1>10. CASE b.blocker = "none"
  <2>1. PICK i \in 0..7 :
            /\ Blockers(r, b) = Result([b EXCEPT !.blocker = IF i = 0 THEN "none" ELSE Ladder[i]])
            /\ i = 0 => Rung(r, b) = {}
            /\ i # 0 => i \in Rung(r, b) /\ \A j \in Rung(r, b) : i <= j
    BY <1>1, <1>5, <1>10, BlockersAre
  <2> DEFINE x == IF i = 0 THEN "none" ELSE Ladder[i]
  <2>2. judged = [b EXCEPT !.blocker = x]
    BY <1>2, <2>1
  <2> HIDE DEF judged, x
  <2>3. Evaluate(r).value.dti = b.dti /\ Evaluate(r).value.blocker = x
    <3> DEFINE w == [b EXCEPT !.blocker = x].warnings \cup SoftWarnings(r, judged)
    <3>1. Evaluate(r).value = [[b EXCEPT !.blocker = x] EXCEPT !.warnings = w]
      BY <1>2, <1>5, <2>2
    <3> HIDE DEF w
    <3> QED
      BY <1>8, <3>1
  <2> QED
    BY <1>3, <1>4, <1>10, <2>1, <2>3 DEF b, x
<1> QED
  BY <1>9, <1>10

-----------------------------------------------------------------------------
(* One cell.                                                               *)

Programs == {"Conv30", "Conv15", "Jumbo30", "FHA30", "VA30"}

\* A loan is an amount up to the price.
LEMMA LoanType ==
  ASSUME req \in Requests, NEW pct \in 0..Ratio
  PROVE  req.price \in Nat \ {0} /\ Borrowed(pct) \in 0..req.price
<1> DEFINE p == req.price
           n == p * pct
<1>1. p \in Nat \ {0} /\ Ratio \in Nat \ {0}
  BY RequestAssumption, RatioAssumption
<1> HIDE DEF p
<1>2. n \in Nat /\ n <= p * Ratio
  <2>1. p * (Ratio - pct) >= 0
    BY <1>1
  <2> QED
    BY <1>1, <2>1
<1> HIDE DEF n
<1>3. Cents(n, Ratio) \in Nat /\ Cents(n, Ratio) <= p
  BY <1>1, <1>2, CentsType, CentsBelow
<1> QED
  BY <1>1, <1>3 DEF Borrowed, n, p

\* Taxes, insurance and dues are amounts.
LEMMA EscrowType == ASSUME req \in Requests PROVE Escrow(req.listing) \in Nat
<1> DEFINE K(amount) == IF amount = None THEN 0 ELSE amount
           t == K(req.listing.tax)
           i == K(req.listing.insurance)
           h == K(req.listing.hoa)
<1>1. t \in Nat /\ i \in Nat /\ h \in Nat
  BY RequestAssumption DEF Optional, None
<1>2. Escrow(req.listing) = Cents(t, 12) + Cents(i, 12) + h
  BY DEF Escrow
<1> HIDE DEF t, i, h
<1> QED
  BY <1>1, <1>2, CentsType

\* What _build_program_result computes before it judges a cell.
Base(program, pct, rate) == Unjudged(program, pct, rate, Amounts(program, pct).value)
\* What it asks the engine.
Asked(program, pct, rate) ==
    ForwardRequest(program, pct, Escrow(req.listing), Base(program, pct, rate).mi,
                   Base(program, pct, rate).ltv, rate)

\* A cell that is built has amounts and a rate, and the answer of the engine is
\* its judgement.
LEMMA CellIs ==
  ASSUME NEW program, NEW pct, NEW rate, Cell(program, pct, rate).error = "none"
  PROVE  LET c == Base(program, pct, rate)
             answer == Evaluate(Asked(program, pct, rate))
         IN  /\ rate \in 0..RateDen /\ Amounts(program, pct).error = "none" /\ req.h.knownState
             /\ answer.error \in {"none", "NotImplementedError"}
             /\ Cell(program, pct, rate).value = Mark(c, Reasons(program, answer, c.dti, c.cash))
<1> DEFINE amounts == Amounts(program, pct)
           c == Base(program, pct, rate)
           answer == Evaluate(Asked(program, pct, rate))
<1>1. \A e : Raise(e).error = e
  BY DEF Raise
<1>2. \A v : Result(v).error = "none" /\ Result(v).value = v
  BY DEF Result
<1>3. Cell(program, pct, rate) =
        IF rate \notin 0..RateDen THEN Raise("ValidationError")
        ELSE IF amounts.error # "none" THEN Raise(amounts.error)
        ELSE IF ~ req.h.knownState THEN Raise("KeyError")
        ELSE Judge(c, answer)
  BY Zenon DEF Cell, Then, Base, Asked
<1>4. c.program = program
  BY DEF Base, Unjudged
<1>5. Judge(c, answer) = IF answer.error \notin {"none", "NotImplementedError"} THEN Raise(answer.error)
                         ELSE Result(Mark(c, Reasons(program, answer, c.dti, c.cash)))
  BY <1>4 DEF Judge
<1> HIDE DEF amounts, c, answer
<1>6. rate \in 0..RateDen /\ amounts.error = "none" /\ req.h.knownState
      /\ Cell(program, pct, rate) = Judge(c, answer)
  BY <1>1, <1>3
<1>7. answer.error \in {"none", "NotImplementedError"}
      /\ Cell(program, pct, rate) = Result(Mark(c, Reasons(program, answer, c.dti, c.cash)))
  BY <1>1, <1>5, <1>6
<1> QED
  BY <1>2, <1>6, <1>7 DEF amounts, c, answer

\* Judging a cell leaves its amounts alone.
LEMMA MarkKeeps ==
  ASSUME NEW program, NEW pct, NEW rate, NEW reasons
  PROVE  LET c == Base(program, pct, rate)
             m == Mark(c, reasons)
         IN  /\ m.program = program /\ m.pct = pct /\ m.financed = c.financed /\ m.pi = c.pi
             /\ m.mi = c.mi /\ m.piti = c.piti /\ m.cash = c.cash /\ m.dti = c.dti /\ m.ltv = c.ltv
             /\ m.estimated = c.estimated
             /\ m.reasons = reasons /\ m.eligible = (reasons = {})
  BY DEF Base, Mark, Unjudged

\* The rounded quotient of amounts by an income is one, and grows.
LEMMA QuotientGrows ==
  ASSUME NEW n \in Nat, NEW m \in Nat, n <= m, NEW d \in Nat \ {0}
  PROVE  Quotient(n, d) \in Nat /\ Quotient(n, d) <= Quotient(m, d)
<1> DEFINE x == n * Ratio
           y == m * Ratio
<1>1. x \in Nat /\ y \in Nat /\ x <= y
  <2>1. (m - n) * Ratio >= 0
    BY RatioAssumption
  <2> QED
    BY <2>1, RatioAssumption
<1> HIDE DEF x, y
<1>2. Cents(x, d) \in Nat /\ Cents(x, d) <= Cents(y, d)
  BY <1>1, CentsType, CentsGrow
<1> QED
  BY <1>2 DEF Quotient, x, y

\* What the amounts of a cell are, program by program.
LEMMA FamilyAmounts ==
  ASSUME NEW program \in Family, NEW pct
  PROVE  LET insured == Above(Borrowed(pct), req.price, 800)
         IN  Amounts(program, pct) =
               Result([financed |-> Borrowed(pct), estimated |-> insured,
                       mi |-> IF insured THEN Cents(Borrowed(pct) * 75, 120000) ELSE 0])
  BY DEF Amounts, Borrowed, Family

\* The financed amount and the premium of an FHA cell, or what Mip raises.
LEMMA FhaAmounts ==
  ASSUME NEW pct
  PROVE  LET mip == Mip(Borrowed(pct), req.price, Ref.longTerm)
             financed == Borrowed(pct) + mip.value.upfront
         IN  Amounts("FHA30", pct) =
               IF mip.error # "none" THEN Raise(mip.error)
               ELSE Result([financed |-> financed, estimated |-> FALSE,
                            mi |-> Cents(financed * mip.value.bps, 120000)])
  BY DEF Amounts, Borrowed, Then, Family

\* The financed amount of a VA cell, or what FundingFee raises.
LEMMA VaAmounts ==
  ASSUME NEW pct
  PROVE  LET fee == FundingFee(Borrowed(pct), pct)
         IN  Amounts("VA30", pct) =
               IF fee.error # "none" THEN Raise(fee.error)
               ELSE Result([financed |-> Borrowed(pct) + fee.value, estimated |-> FALSE, mi |-> 0])
  BY DEF Amounts, Borrowed, Then, Family

\* A request for the loan of a cell, with any income: the one of the matrix and
\* those of its stress.
RequestFor(r, program, pct, rate) ==
    /\ r.mode = "forward" /\ r.target = Target(program) /\ r.term = Term(program) /\ r.rate = rate
    /\ r.loan = Borrowed(pct) /\ r.value = req.price
    /\ r.pmi = Asked(program, pct, rate).pmi
    /\ r.apr = None /\ r.apor = None /\ r.junior = 0
    /\ r.h.escrow = Escrow(req.listing) /\ r.h.county = req.h.county /\ r.h.va = req.h.va
    /\ r.h.debts = req.h.debts

\* FHA's upfront premium and VA's fee are amounts.
LEMMA MipType ==
  ASSUME NEW loan \in Nat, NEW value, NEW term, Mip(loan, value, term).error = "none"
  PROVE  /\ Mip(loan, value, term).value.upfront \in Nat
         /\ Mip(loan, value, term).value.bps = AnnualMip(loan, value, term).value
         /\ AnnualMip(loan, value, term).error = "none"
<1> DEFINE bps == AnnualMip(loan, value, term)
<1>1. Mip(loan, value, term) =
        IF value <= 0 \/ loan > value THEN Raise("ValueError")
        ELSE IF bps.error # "none" THEN Raise(bps.error)
        ELSE Result([bps |-> bps.value, upfront |-> Cents(loan * 175, 10000)])
  BY DEF Mip, Then
<1> HIDE DEF bps
<1>2. Cents(loan * 175, 10000) \in Nat
  BY CentsType
<1> QED
  BY <1>1, <1>2 DEF Raise, Result, bps

\* The table: the first row that matches has its rate.
MipRates == {55, 50, 40, 15, 75, 70}
\* An annual premium is a rate of the table.
LEMMA MipRate ==
  ASSUME NEW loan, NEW value, NEW term, AnnualMip(loan, value, term).error = "none"
  PROVE  AnnualMip(loan, value, term).value \in MipRates
<1> DEFINE Matches(row) ==
              /\ IF row[1] THEN term \in (Ref.shortTerm + 1)..Ref.longTerm ELSE term \in 1..Ref.shortTerm
              /\ row[2] = 0 \/ Above(loan, value, row[2])
              /\ ~ Above(loan, value, row[3])
              /\ row[4] = NoCap \/ loan <= row[4]
           I == {i \in 1..Len(MipTable) : Matches(MipTable[i])}
           k == SelectInSeq(MipTable, Matches)
<1>1. AnnualMip(loan, value, term) = IF k = 0 THEN Raise("LookupError") ELSE Result(MipTable[k][5])
  BY DEF AnnualMip
<1>2. k = IF I # {} THEN Min(I) ELSE 0
  BY Zenon DEF SelectInSeq
<1>3. Len(MipTable) = 13
  BY DEF MipTable
<1>4. I # {} => Min(I) \in I /\ \A j \in I : Min(I) <= j
  <2>1. I \in SUBSET (1..13)
    BY <1>3
  <2> HIDE DEF I
  <2> QED
    BY <2>1, LeastIndex, Zenon DEF Min
<1> HIDE DEF I, k
<1>5. k \in 0..13
  <2>1. Min(I) \in I => Min(I) \in 1..13
    BY <1>3 DEF I
  <2> QED
    BY <1>2, <1>4, <2>1
<1>6. k # 0
  BY <1>1 DEF Raise
<1>7. AnnualMip(loan, value, term).value = MipTable[k][5]
  BY <1>1, <1>6 DEF Result
<1>8. \A i \in 1..13 : MipTable[i][5] \in MipRates
  BY DEF MipTable, MipRates
<1> QED
  BY <1>5, <1>6, <1>7, <1>8

\* VA's fee is an amount, of a loan that is not nothing.
LEMMA FeeType ==
  ASSUME NEW loan \in Nat, NEW down, FundingFee(loan, down).error = "none"
  PROVE  FundingFee(loan, down).value \in Nat /\ loan > 0
<1> DEFINE bps == CASE down * 20 < Ratio -> 215
                    [] down * 20 >= Ratio /\ down * 10 < Ratio -> 150
                    [] OTHER -> 125
<1>1. FundingFee(loan, down) = IF loan <= 0 THEN Raise("ValueError") ELSE Result(Cents(loan * bps, 10000))
  BY DEF FundingFee
<1>2. bps \in {215, 150, 125}
  OBVIOUS
<1> HIDE DEF bps
<1>3. Cents(loan * bps, 10000) \in Nat
  BY <1>2, CentsType
<1> QED
  BY <1>1, <1>3 DEF Raise, Result

\* The engine prices the loan of a cell as the matrix does; for VA it knows no
\* fee, and for Jumbo30 no premium.
LEMMA EngineLoan ==
  ASSUME req \in Requests, NEW program \in Programs, NEW pct \in 0..Ratio, NEW rate \in 0..RateDen,
         Amounts(program, pct).error = "none",
         NEW r, RequestFor(r, program, pct, rate), Upfront(r).error = "none", Premium(r).error = "none"
  PROVE  LET a == Amounts(program, pct).value
         IN  /\ a.financed \in Nat /\ a.mi \in Nat /\ Financed(r) \in Nat /\ Premium(r).value \in Nat
             /\ program \notin {"VA30", "Jumbo30"} =>
                    Financed(r) = a.financed /\ Premium(r).value = a.mi
             /\ program \in {"VA30", "Jumbo30"} =>
                    Financed(r) <= a.financed /\ Premium(r).value <= a.mi
             /\ program # "FHA30" => Financed(r) = Borrowed(pct)
<1> DEFINE a == Amounts(program, pct).value
           base == Borrowed(pct)
<1>1. req.price \in Nat \ {0} /\ base \in 0..req.price /\ base \in Nat
  BY LoanType
<1>2. r.target = Target(program) /\ r.loan = base /\ r.value = req.price /\ r.pmi = Asked(program, pct, rate).pmi
      /\ r.term = Term(program)
  BY DEF RequestFor
<1>3. \A v : Result(v).error = "none" /\ Result(v).value = v
  BY DEF Result
<1>4. \A e : Raise(e).error = e
  BY DEF Raise
<1> HIDE DEF base
<1>5. CASE program \in {"Conv30", "Conv15"}
  <2> DEFINE insured == Above(base, req.price, 800)
  <2>1. a = [financed |-> base, estimated |-> insured,
             mi |-> IF insured THEN Cents(base * 75, 120000) ELSE 0]
    BY <1>3, <1>5, FamilyAmounts DEF Family, base
  <2>2. Cents(base * 75, 120000) \in Nat
    BY <1>1, CentsType
  <2>3. a.financed = base /\ a.mi = IF insured THEN Cents(base * 75, 120000) ELSE 0
    BY <2>1
  <2>4. r.target = "conventional"
    BY <1>2, <1>5 DEF Target
  <2>5. Financed(r) = base
    BY <1>1, <1>2, <1>3, <2>4 DEF Financed, Upfront
  <2>6. Premium(r) = MonthlyMi(r, base, req.price)
    BY <1>2, <2>4, <2>5 DEF Premium
  <2>7. Premium(r) = IF ~ insured THEN Result(0) ELSE IF r.pmi = None THEN Raise("AssertionError")
                     ELSE Result(r.pmi)
    BY <1>1, <2>4, <2>6 DEF MonthlyMi
  <2>8. r.pmi \in {None, a.mi}
    BY <1>2 DEF Asked, ForwardRequest, Base, Unjudged
  <2> HIDE DEF a, insured
  <2>9. Premium(r).value = a.mi
    BY <1>3, <1>4, <2>3, <2>7, <2>8
  <2> QED
    BY <1>1, <1>5, <2>2, <2>3, <2>5, <2>9 DEF a, base
<1>6. CASE program = "FHA30"
  <2> DEFINE mip == Mip(base, req.price, Ref.longTerm)
  <2>1. r.target = "fha" /\ r.term = Ref.longTerm
    BY <1>2, <1>6 DEF Target, Term
  <2>2. Upfront(r) = mip
    BY <1>2, <2>1 DEF Upfront
  <2>3. mip.error = "none"
    BY <2>2
  <2>4. a = [financed |-> base + mip.value.upfront, estimated |-> FALSE,
             mi |-> Cents((base + mip.value.upfront) * mip.value.bps, 120000)]
    BY <1>3, <1>6, <2>3, FhaAmounts DEF base
  <2>5. Financed(r) = base + mip.value.upfront
    BY <1>2, <2>2 DEF Financed
  <2>6. Premium(r) = Result(Cents((base + mip.value.upfront) * mip.value.bps, 120000))
    BY <2>1, <2>2, <2>5 DEF Premium
  <2>7. mip.value.upfront \in Nat /\ mip.value.bps \in Nat
    <3>1. AnnualMip(base, req.price, Ref.longTerm).error = "none"
      BY <1>1, <2>3, MipType
    <3>2. AnnualMip(base, req.price, Ref.longTerm).value \in MipRates
      BY <3>1, MipRate
    <3> QED
      BY <1>1, <2>3, <3>2, MipType DEF MipRates
  <2> DEFINE financed == base + mip.value.upfront
             n == financed * mip.value.bps
  <2>8. financed \in Nat /\ n \in Nat
    BY <1>1, <2>7
  <2>9. Cents(n, 120000) \in Nat
    <3> HIDE DEF n
    <3> QED
      BY <2>8, CentsType
  <2>10. a.financed = financed /\ a.mi = Cents(n, 120000) /\ Premium(r).value = Cents(n, 120000)
    BY <1>3, <2>4, <2>6
  <2> QED
    BY <1>6, <2>5, <2>8, <2>9, <2>10 DEF a
<1>7. CASE program = "Jumbo30"
  <2> DEFINE insured == Above(base, req.price, 800)
  <2>1. a = [financed |-> base, estimated |-> insured,
             mi |-> IF insured THEN Cents(base * 75, 120000) ELSE 0]
    BY <1>3, <1>7, FamilyAmounts DEF Family, base
  <2>2. Cents(base * 75, 120000) \in Nat
    BY <1>1, CentsType
  <2>3. a.financed = base /\ a.mi \in Nat
    BY <2>1, <2>2
  <2>4. r.target = "jumbo"
    BY <1>2, <1>7 DEF Target
  <2>5. Financed(r) = base
    BY <1>1, <1>2, <1>3, <2>4 DEF Financed, Upfront
  <2>6. Premium(r).value = 0
    BY <1>3, <2>4 DEF Premium, MonthlyMi
  <2> QED
    BY <1>1, <1>7, <2>3, <2>5, <2>6 DEF a, base
<1>8. CASE program = "VA30"
  <2> DEFINE fee == FundingFee(base, pct)
  <2>1. fee.error = "none" /\ a = [financed |-> base + fee.value, estimated |-> FALSE, mi |-> 0]
    BY <1>3, <1>4, <1>8, VaAmounts DEF base
  <2>2. fee.value \in Nat
    BY <1>1, <2>1, FeeType
  <2>3. r.target = "va"
    BY <1>2, <1>8 DEF Target
  <2>4. Financed(r) = base
    BY <1>1, <1>2, <1>3, <2>3 DEF Financed, Upfront
  <2>5. Premium(r).value = 0
    BY <1>3, <2>3 DEF Premium, MonthlyMi
  <2>6. a.financed = base + fee.value /\ a.mi = 0
    BY <2>1
  <2> HIDE DEF fee, a
  <2> QED
    BY <1>1, <1>8, <2>2, <2>4, <2>5, <2>6 DEF a, base
<1> QED
  BY <1>5, <1>6, <1>7, <1>8 DEF Programs

-----------------------------------------------------------------------------
(* Exceptions.                                                             *)

\* The table of premiums has a row for every LTV and every term that it is for.
LEMMA MipIsListed ==
  ASSUME NEW loan \in Nat, NEW value \in Nat \ {0}, loan <= value, NEW term \in 1..Ref.longTerm,
         Ref.shortTerm \in Nat, Ref.longTerm \in Nat
  PROVE  Mip(loan, value, term).error = "none"
<1> DEFINE Matches(row) ==
              /\ IF row[1] THEN term \in (Ref.shortTerm + 1)..Ref.longTerm ELSE term \in 1..Ref.shortTerm
              /\ row[2] = 0 \/ Above(loan, value, row[2])
              /\ ~ Above(loan, value, row[3])
              /\ row[4] = NoCap \/ loan <= row[4]
           I == {i \in 1..Len(MipTable) : Matches(MipTable[i])}
           k == SelectInSeq(MipTable, Matches)
<1>1. AnnualMip(loan, value, term) = IF k = 0 THEN Raise("LookupError") ELSE Result(MipTable[k][5])
  BY DEF AnnualMip
<1>2. k = IF I # {} THEN Min(I) ELSE 0
  BY Zenon DEF SelectInSeq
<1>3. Len(MipTable) = 13
  BY DEF MipTable
<1>4. I # {} => Min(I) \in I
  <2>1. I \in SUBSET (1..13)
    BY <1>3
  <2> HIDE DEF I
  <2> QED
    BY <2>1, LeastIndex, Zenon DEF Min
<1>5. I # {}
  <2> USE DEF Above, NoCap
  <2>1. ~ Above(loan, value, 1000)
    OBVIOUS
  <2>2. CASE term \in 1..Ref.shortTerm
    <3>1. /\ MipTable[11] = <<FALSE, 900, 1000, NoCap, 40>>
          /\ MipTable[12] = <<FALSE, 780, 900, NoCap, 40>>
          /\ MipTable[13] = <<FALSE, 0, 780, NoCap, 40>>
      BY DEF MipTable
    <3> HIDE DEF Above
    <3>2. Matches(MipTable[11]) \/ Matches(MipTable[12]) \/ Matches(MipTable[13])
      BY <2>1, <2>2, <3>1
    <3> QED
      BY <1>3, <3>2
  <2>3. CASE term \notin 1..Ref.shortTerm
    <3>1. /\ MipTable[7] = <<TRUE, 950, 1000, NoCap, 75>> /\ MipTable[8] = <<TRUE, 900, 950, NoCap, 70>>
          /\ MipTable[9] = <<TRUE, 780, 900, NoCap, 70>> /\ MipTable[10] = <<TRUE, 0, 780, NoCap, 70>>
      BY DEF MipTable
    <3>2. term \in (Ref.shortTerm + 1)..Ref.longTerm
      BY <2>3
    <3> HIDE DEF Above
    <3>3. \/ Matches(MipTable[7]) \/ Matches(MipTable[8]) \/ Matches(MipTable[9])
          \/ Matches(MipTable[10])
      BY <2>1, <3>1, <3>2
    <3> QED
      BY <1>3, <3>3
  <2> QED
    BY <2>2, <2>3
<1>6. k # 0
  <2>1. I \subseteq 1..13
    BY <1>3
  <2> HIDE DEF I, k
  <2> QED
    BY <1>2, <1>4, <1>5, <2>1
<1> HIDE DEF I, k
<1>7. AnnualMip(loan, value, term).error = "none"
  BY <1>1, <1>6 DEF Result
<1> DEFINE bps == AnnualMip(loan, value, term)
<1>8. Mip(loan, value, term) =
        IF value <= 0 \/ loan > value THEN Raise("ValueError")
        ELSE IF bps.error # "none" THEN Raise(bps.error)
        ELSE Result([bps |-> bps.value, upfront |-> Cents(loan * 175, 10000)])
  BY DEF Mip, Then
<1> HIDE DEF bps
<1> QED
  BY <1>7, <1>8 DEF Result, bps

\* What a cell may fail for: CrashHasCause, of one exception.
Cause(e, program, pct, rate) ==
    /\ e \in {"KeyError", "MissingCountyDataError", "ValueError", "ValidationError"}
    /\ e = "KeyError" => ~ req.h.knownState
    /\ e = "MissingCountyDataError" =>
           req.price > Ref.fhaFloor /\ req.h.county \notin DOMAIN Ref.fha \cap DOMAIN Ref.fhfa
    /\ e = "ValueError" => program = "VA30" /\ Borrowed(pct) = 0
    /\ e = "ValidationError" => rate \notin 0..RateDen \/ OverInCents(pct)

\* The amounts of a cell fail only for VA, whose fee needs a loan.
LEMMA AmountsFail ==
  ASSUME req \in Requests, NEW program \in Programs, NEW pct \in 0..Ratio,
         Amounts(program, pct).error # "none"
  PROVE  program = "VA30" /\ Borrowed(pct) = 0 /\ Amounts(program, pct).error = "ValueError"
<1> DEFINE base == Borrowed(pct)
<1>1. req.price \in Nat \ {0} /\ base \in 0..req.price /\ base \in Nat
  BY LoanType
<1>2. \A v : Result(v).error = "none"
  BY DEF Result
<1>3. \A e : Raise(e).error = e
  BY DEF Raise
<1>4. program \notin Family
  BY FamilyAmounts DEF Result
<1>5. program # "FHA30"
  <2>1. Ref.longTerm \in 1..Ref.longTerm /\ Ref.shortTerm \in Nat /\ Ref.longTerm \in Nat
    BY RefAssumption
  <2>2. Mip(base, req.price, Ref.longTerm).error = "none"
    BY <1>1, <2>1, MipIsListed
  <2> QED
    BY <2>2, FhaAmounts DEF Result
<1>6. program = "VA30"
  BY <1>4, <1>5 DEF Programs, Family
<1>7. FundingFee(base, pct).error # "none"
      /\ Amounts(program, pct).error = FundingFee(base, pct).error
  <2> HIDE DEF base
  <2> QED
    BY <1>2, <1>3, <1>6, VaAmounts DEF base
<1>8. base <= 0 /\ FundingFee(base, pct).error = "ValueError"
  BY <1>2, <1>3, <1>7 DEF FundingFee
<1> QED
  BY <1>1, <1>6, <1>7, <1>8

\* The class of the loan of a cell is missing only from a table that does not
\* list the county, or because FHA does not insure the loan.
LEMMA ClassFails ==
  ASSUME req \in Requests, NEW program \in Programs, NEW pct \in 0..Ratio, NEW rate,
         NEW r, RequestFor(r, program, pct, rate), Class(r).error # "none"
  PROVE  \/ /\ Class(r).error = "MissingCountyDataError" /\ req.price > Ref.fhaFloor
            /\ req.h.county \notin DOMAIN Ref.fha \cap DOMAIN Ref.fhfa
         \/ Class(r).error = "NotImplementedError" /\ program = "FHA30"
<1> DEFINE base == Borrowed(pct)
           county == req.h.county
           target == Target(program)
           class == Classify(base, county, target)
<1>1. req.price \in Nat \ {0} /\ base \in 0..req.price /\ base \in Nat
  BY LoanType
<1>2. \A v : Result(v).error = "none"
  BY DEF Result
<1>3. \A e : Raise(e).error = e
  BY DEF Raise
<1>4. Class(r) = ClassifyTarget(base, county, target)
  BY DEF RequestFor, Class
<1>5. Class(r) = IF class.error # "none" THEN Raise(class.error)
                 ELSE Result([class |-> class.value,
                              blocker |-> IF class.value \in Accepted(target) THEN "none" ELSE "LIMIT"])
  BY <1>4 DEF ClassifyTarget, Then
<1>6. class.error # "none" /\ Class(r).error = class.error
  <2> HIDE DEF class
  <2> QED
    BY <1>2, <1>3, <1>5
<1>7. Ref.fhaFloor \in Nat /\ Ref.baseline \in Nat /\ Ref.fhaFloor <= Ref.baseline
  BY RefAssumption
<1> HIDE DEF base, county
<1>8. CASE program = "FHA30"
  <2>1. class = ClassifyFha(base, county)
    BY <1>8 DEF Classify, Target
  <2>2. \/ class.error = "MissingCountyDataError" /\ base > Ref.fhaFloor /\ county \notin DOMAIN Ref.fha
        \/ class.error = "NotImplementedError"
    BY <1>2, <1>3, <1>6, <2>1 DEF ClassifyFha
  <2> QED
    BY <1>1, <1>6, <1>7, <1>8, <2>2 DEF county
<1>9. CASE program \in Family
  <2>1. class = ClassifyConventional(base, county)
    BY <1>9 DEF Classify, Target, Family
  <2>2. class.error = "MissingCountyDataError" /\ base > Ref.baseline /\ county \notin DOMAIN Ref.fhfa
    BY <1>2, <1>3, <1>6, <2>1 DEF ClassifyConventional
  <2> QED
    BY <1>1, <1>6, <1>7, <2>2 DEF county
<1>10. program # "VA30"
  BY <1>2, <1>6 DEF Classify, Target, ClassifyVa
<1> QED
  BY <1>8, <1>9, <1>10 DEF Programs, Family

\* The engine refuses the loan of a cell for a cause, or because FHA does not
\* insure it.
LEMMA EngineFails ==
  ASSUME req \in Requests, NEW program \in Programs, NEW pct \in 0..Ratio, NEW rate \in 0..RateDen,
         Amounts(program, pct).error = "none",
         NEW r, RequestFor(r, program, pct, rate), r.h.income \in Nat \ {0},
         Evaluate(r).error # "none"
  PROVE  \/ Cause(Evaluate(r).error, program, pct, rate)
         \/ /\ program = "FHA30" /\ Class(r).error # "none"
            /\ Evaluate(r).error = "NotImplementedError"
<1> DEFINE base == Borrowed(pct)
           over == Above(base, req.price, 800)
<1>1. req.price \in Nat \ {0} /\ base \in 0..req.price /\ base \in Nat
  BY LoanType
<1>2. \A v : Result(v).error = "none"
  BY DEF Result
<1>3. \A e : Raise(e).error = e
  BY DEF Raise
<1>4. /\ r.mode = "forward" /\ r.target = Target(program) /\ r.loan = base /\ r.value = req.price
      /\ r.term = Term(program) /\ r.rate = rate
      /\ r.pmi = Asked(program, pct, rate).pmi /\ r.apr = None /\ r.apor = None
  BY DEF RequestFor
<1>5. Target(program) = "conventional" => program \in {"Conv30", "Conv15"}
  BY DEF Target, Programs
<1>6. ASSUME program \in {"Conv30", "Conv15"}, over, r.pmi = None
      PROVE  OverInCents(pct)
  <2>1. Amounts(program, pct) = Result([financed |-> base, estimated |-> over,
                                        mi |-> IF over THEN Cents(base * 75, 120000) ELSE 0])
    BY <1>6, FamilyAmounts DEF Family
  <2>2. Base(program, pct, rate).mi \in Nat
    <3>1. Cents(base * 75, 120000) \in Nat
      BY <1>1, CentsType
    <3>2. Base(program, pct, rate).mi = Amounts(program, pct).value.mi
      BY DEF Base, Unjudged
    <3> QED
      BY <2>1, <3>1, <3>2 DEF Result
  <2>3. Base(program, pct, rate).ltv = Quotient(base, req.price)
    <3>1. Base(program, pct, rate).ltv = Quotient(Amounts(program, pct).value.financed, req.price)
      BY DEF Base, Unjudged
    <3> QED
      BY <2>1, <3>1 DEF Result
  <2>4. r.pmi = IF 10 * Base(program, pct, rate).ltv > 8 * Ratio THEN Base(program, pct, rate).mi ELSE None
    <3>1. Target(program) = "conventional"
      BY <1>6 DEF Target
    <3> QED
      BY <1>4, <3>1 DEF Asked, ForwardRequest
  <2> DEFINE q == Quotient(base, req.price)
  <2>5. q \in Nat
    <3>1. base <= base
      BY <1>1
    <3> HIDE DEF base
    <3> QED
      BY <1>1, <3>1, QuotientGrows
  <2>6. 10 * q <= 8 * Ratio
    <3> HIDE DEF q
    <3>1. ~ (10 * q > 8 * Ratio)
      BY <1>6, <2>2, <2>3, <2>4 DEF None, q
    <3> QED
      BY <2>5, <3>1, RatioAssumption
  <2> QED
    BY <1>6, <2>6 DEF OverInCents
<1>7. CASE Validate(r).error # "none" /\ Evaluate(r).error = Validate(r).error
  <2>1. Income(r.h) = Result(r.h.income)
    BY DEF Income
  <2>2. r.target = "conventional" /\ over /\ r.pmi = None
    BY <1>1, <1>2, <1>4, <1>7, <2>1 DEF Validate
  <2>3. OverInCents(pct)
    BY <1>4, <1>5, <1>6, <2>2
  <2>4. Validate(r).error = "ValidationError"
    BY <1>3, <1>4, <2>2 DEF Validate
  <2> QED
    BY <1>7, <2>3, <2>4 DEF Cause
<1>8. CASE Class(r).error # "none" /\ Evaluate(r).error = Class(r).error
  BY <1>8, ClassFails DEF Cause
<1>9. Upfront(r).error = "none"
  <2>1. CASE program = "FHA30"
    <3>1. Upfront(r) = Mip(base, req.price, Ref.longTerm)
      BY <1>4, <2>1 DEF Upfront, Target, Term
    <3>2. Ref.longTerm \in 1..Ref.longTerm /\ Ref.shortTerm \in Nat /\ Ref.longTerm \in Nat
      BY RefAssumption
    <3>3. req.price \in Nat \ {0} /\ base \in Nat /\ base <= req.price
      BY <1>1
    <3> HIDE DEF base
    <3>4. Mip(base, req.price, Ref.longTerm).error = "none"
      BY <3>2, <3>3, MipIsListed
    <3> QED
      BY <3>1, <3>4
  <2>2. CASE program # "FHA30"
    <3>1. r.target # "fha"
      BY <1>4, <2>2 DEF Target, Programs
    <3> QED
      BY <1>2, <3>1 DEF Upfront
  <2> QED
    BY <2>1, <2>2
<1>10. ASSUME program # "FHA30" PROVE Financed(r) = base
  <2>1. r.target # "fha"
    BY <1>4, <1>10 DEF Target, Programs
  <2>2. Upfront(r).value.upfront = 0
    BY <2>1 DEF Upfront, Result
  <2> QED
    BY <1>1, <1>4, <2>2 DEF Financed
<1>11. CASE Validate(r).error = "none" /\ Premium(r).error # "none"
  <2>1. program # "FHA30"
    BY <1>2, <1>4, <1>11 DEF Premium, Target
  <2>2. Premium(r) = MonthlyMi(r, base, req.price)
    <3>1. r.target # "fha"
      BY <1>4, <2>1 DEF Target, Programs
    <3> QED
      BY <1>4, <1>10, <2>1, <3>1 DEF Premium
  <2>3. r.target = "conventional" /\ over /\ r.pmi = None
    <3>1. r.target \in {"conventional", "jumbo", "va"}
      BY <1>4, <2>1 DEF Target, Programs
    <3> QED
      BY <1>1, <1>2, <1>11, <2>2, <3>1 DEF MonthlyMi
  <2>4. Validate(r).error = "ValidationError"
    BY <1>3, <1>4, <2>3 DEF Validate
  <2> QED
    BY <1>11, <2>4
<1>12. ~ RefusesZero(r, Response(r))
  <2>1. Response(r).financed = Financed(r)
    BY DEF Response, Priced, Result
  <2>2. r.target # "usda"
    BY <1>4 DEF Target, Programs
  <2>3. CASE program = "VA30"
    <3>1. FundingFee(base, pct).error = "none"
      <4>1. Amounts("VA30", pct).error = "none"
        BY <2>3
      <4> DEFINE fee == FundingFee(base, pct)
      <4>2. Amounts("VA30", pct) =
               IF fee.error # "none" THEN Raise(fee.error)
               ELSE Result([financed |-> base + fee.value, estimated |-> FALSE, mi |-> 0])
        BY VaAmounts
      <4> HIDE DEF fee, base
      <4> QED
        BY <1>3, <4>1, <4>2 DEF fee
    <3>2. base > 0
      <4> HIDE DEF base
      <4> QED
        BY <1>1, <3>1, FeeType
    <3>3. Response(r).financed = base
      BY <1>10, <2>1, <2>3
    <3> HIDE DEF base
    <3>4. ~ (Response(r).financed <= 0)
      BY <1>1, <3>2, <3>3
    <3> QED
      BY <3>4 DEF RefusesZero
  <2>4. CASE program # "VA30"
    <3>1. r.target # "va"
      BY <1>4, <2>4 DEF Target, Programs
    <3> QED
      BY <1>4, <2>2, <3>1 DEF RefusesZero
  <2> QED
    BY <2>3, <2>4
<1> QED
  BY <1>4, <1>7, <1>8, <1>9, <1>11, <1>12, EvaluateFails

-----------------------------------------------------------------------------
(* What the engine says of a cell.                                         *)

\* The DTI of the engine is that of a payment which is the cell's, or for VA
\* and Jumbo30 no larger.
LEMMA EngineDti ==
  ASSUME req \in Requests, NEW program \in Programs, NEW pct \in 0..Ratio, NEW rate \in 0..RateDen,
         Amounts(program, pct).error = "none",
         NEW r, RequestFor(r, program, pct, rate), Upfront(r).error = "none", Premium(r).error = "none"
  PROVE  LET c == Base(program, pct, rate)
         IN  /\ c.piti \in Nat /\ Response(r).piti \in Nat /\ req.h.debts \in Nat
             /\ c.dti = Quotient(c.piti + req.h.debts, req.h.income)
             /\ Response(r).dti = Quotient(Response(r).piti + req.h.debts, r.h.income)
             /\ program \notin {"VA30", "Jumbo30"} => Response(r).piti = c.piti
             /\ Response(r).piti <= c.piti
<1> DEFINE c == Base(program, pct, rate)
           a == Amounts(program, pct).value
           escrow == Escrow(req.listing)
           paid == LevelPayment(a.financed, rate, RateDen, Term(program))
<1>1. escrow \in Nat /\ req.h.debts \in Nat
  BY EscrowType, RequestAssumption DEF Household
<1>2. c.piti = paid + a.mi + escrow /\ c.dti = Quotient(c.piti + req.h.debts, req.h.income)
  BY DEF Base, Unjudged
<1>3. /\ Response(r).piti = Payment(r) + Premium(r).value + escrow
      /\ Response(r).dti = Quotient(Response(r).piti + req.h.debts, r.h.income)
  BY DEF Response, Priced, Result, RequestFor
<1>4. /\ a.financed \in Nat /\ a.mi \in Nat /\ Financed(r) \in Nat /\ Premium(r).value \in Nat
      /\ program \notin {"VA30", "Jumbo30"} => Financed(r) = a.financed /\ Premium(r).value = a.mi
      /\ program \in {"VA30", "Jumbo30"} => Financed(r) <= a.financed /\ Premium(r).value <= a.mi
  BY EngineLoan
<1>5. Payment(r) = LevelPayment(Financed(r), rate, RateDen, Term(program))
  BY DEF Payment, RequestFor
<1>6. Financed(r) <= a.financed /\ Premium(r).value <= a.mi
  BY <1>4
<1>7. Term(program) \in Nat \ {0} /\ rate \in Nat /\ RateDen \in Nat \ {0} /\ rate <= RateDen
  BY RefAssumption DEF Term, RateDen
<1> HIDE DEF a, c, escrow
<1>8. Payment(r) \in Nat /\ paid \in Nat /\ Payment(r) <= paid
  <2>1. LevelPayment(Financed(r), rate, RateDen, Term(program)) \in Nat
        /\ LevelPayment(Financed(r), rate, RateDen, Term(program)) <= paid
    BY <1>4, <1>6, <1>7, PaymentGrows
  <2>2. a.financed <= a.financed
    BY <1>4
  <2>3. paid \in Nat
    BY <1>4, <1>7, <2>2, PaymentGrows
  <2> QED
    BY <1>5, <2>1, <2>3
<1>9. program \notin {"VA30", "Jumbo30"} => Payment(r) = paid
  BY <1>4, <1>5
<1> HIDE DEF paid
<1> QED
  BY <1>1, <1>2, <1>3, <1>4, <1>6, <1>8, <1>9 DEF c

\* The request of the matrix is one for the loan of the cell.
LEMMA AskedIsRequest ==
  ASSUME req \in Requests, NEW program, NEW pct, NEW rate
  PROVE  LET r == Asked(program, pct, rate)
         IN  RequestFor(r, program, pct, rate) /\ r.h.income = req.h.income /\ r.maxDti = DtiCeiling(program)
<1>1. req.h = [income |-> req.h.income, debts |-> req.h.debts, escrow |-> req.h.escrow,
               reserves |-> req.h.reserves, county |-> req.h.county, knownState |-> req.h.knownState,
               score |-> req.h.score, size |-> req.h.size, va |-> req.h.va]
  BY RequestAssumption DEF Household
<1> DEFINE h == [req.h EXCEPT !.escrow = Escrow(req.listing)]
<1>2. /\ h.income = req.h.income /\ h.escrow = Escrow(req.listing) /\ h.county = req.h.county
      /\ h.va = req.h.va /\ h.debts = req.h.debts
  BY <1>1
<1>3. Asked(program, pct, rate).h = h
  BY DEF Asked, ForwardRequest
<1> HIDE DEF h
<1> QED
  BY <1>2, <1>3 DEF RequestFor, Asked, ForwardRequest, Borrowed

\* Nothing but the class of the loan is called a LIMIT.
LEMMA LimitIsClass ==
  ASSUME NEW program, NEW r, NEW dti, NEW cash, r.mode = "forward",
         "LIMIT" \in Reasons(program, Evaluate(r), dti, cash)
  PROVE  Class(r).error = "none" /\ Class(r).value.blocker = "LIMIT"
<1> DEFINE e == Evaluate(r)
<1>1. e.error = "none" /\ e.value.blocker = "LIMIT"
  <2> HIDE DEF e
  <2> QED
    BY Zenon DEF Reasons, e
<1>2. Response(r).blocker = Class(r).value.blocker
  BY DEF Response, Priced, Result
<1>3. Class(r).error = "none"
  BY <1>1, Answers
<1>4. CASE Response(r).blocker # "none"
  BY <1>1, <1>2, <1>3, <1>4, Answers
<1>5. CASE Response(r).blocker = "none"
  <2>1. PICK i \in 0..7 :
            /\ Evaluate(r).value.blocker = IF i = 0 THEN "none" ELSE Ladder[i]
            /\ i = 0 => Rung(r, Response(r)) = {}
            /\ i # 0 => i \in Rung(r, Response(r)) /\ \A j \in Rung(r, Response(r)) : i <= j
    BY <1>1, <1>5, Answers
  <2>2. \A j \in 1..7 : Ladder[j] # "LIMIT"
    BY DEF Ladder
  <2> QED
    BY <1>1, <2>1, <2>2
<1> QED
  BY <1>4, <1>5

-----------------------------------------------------------------------------
(* The down payments.                                                      *)

\* The elements of a finite set of numbers, in order: there is one of each rank.
LEMMA Ranks ==
  ASSUME NEW S, S \subseteq Nat, IsFiniteSet(S), NEW k \in 1..Cardinality(S)
  PROVE  \E x \in S : Cardinality({y \in S : y < x}) = k - 1
<1> DEFINE Below(x) == {y \in S : y < x}
           n == Cardinality(S)
           T == 0..(n - 1)
           rank == [x \in S |-> Cardinality(Below(x))]
<1>1. n \in Nat
  BY FS_CardinalityType
<1>2. ASSUME NEW x \in S
      PROVE  IsFiniteSet(Below(x)) /\ Cardinality(Below(x)) \in Nat /\ Cardinality(Below(x)) < n
  <2>1. Below(x) \subseteq S \ {x}
    BY <1>2
  <2>2. IsFiniteSet(S \ {x}) /\ Cardinality(S \ {x}) = n - 1
    BY FS_RemoveElement
  <2> HIDE DEF Below, n
  <2>3. IsFiniteSet(Below(x)) /\ Cardinality(Below(x)) <= Cardinality(S \ {x})
    BY <2>1, <2>2, FS_Subset
  <2>4. Cardinality(Below(x)) \in Nat
    BY <2>3, FS_CardinalityType
  <2> QED
    BY <1>1, <2>2, <2>3, <2>4
<1>3. ASSUME NEW x \in S, NEW y \in S, x < y
      PROVE  Cardinality(Below(x)) < Cardinality(Below(y))
  <2>1. Below(x) \cup {x} \subseteq Below(y) /\ x \notin Below(x)
    <3>1. x \in Nat /\ y \in Nat
      OBVIOUS
    <3>2. \A z \in S : z < x => z < y
      BY <1>3, <3>1
    <3>3. \A z \in Below(x) : z \in Below(y)
      BY <3>2
    <3>4. x \in Below(y)
      BY <1>3
    <3>5. x \notin Below(x)
      BY <3>1
    <3> HIDE DEF Below
    <3> QED
      BY <3>3, <3>4, <3>5
  <2> HIDE DEF Below, n
  <2>2. Cardinality(Below(x) \cup {x}) = Cardinality(Below(x)) + 1
    BY <1>2, <2>1, FS_AddElement
  <2>3. Cardinality(Below(x) \cup {x}) <= Cardinality(Below(y))
    BY <1>2, <2>1, FS_Subset
  <2>4. Cardinality(Below(x)) \in Nat /\ Cardinality(Below(y)) \in Nat
    BY <1>2
  <2> QED
    BY <2>2, <2>3, <2>4
<1>4. rank \in Injection(S, T)
  <2>1. rank \in [S -> T]
    <3>1. \A x \in S : Cardinality(Below(x)) \in T
      <4> HIDE DEF Below, n
      <4> QED
        BY <1>1, <1>2
    <3> QED
      BY <3>1
  <2>2. ASSUME NEW x \in S, NEW y \in S, rank[x] = rank[y] PROVE x = y
    <3>1. Cardinality(Below(x)) = Cardinality(Below(y)) /\ x \in Nat /\ y \in Nat
      BY <2>2
    <3>2. Cardinality(Below(x)) \in Nat /\ Cardinality(Below(y)) \in Nat
      BY <1>2
    <3> HIDE DEF Below
    <3>3. ~ (x < y) /\ ~ (y < x)
      BY <1>3, <3>1, <3>2
    <3> QED
      BY <3>1, <3>3
  <2> HIDE DEF rank, T
  <2> QED
    BY <2>1, <2>2 DEF Injection, IsInjective
<1>5. IsFiniteSet(T) /\ Cardinality(T) = n
  <2>1. IsFiniteSet(T) /\ Cardinality(T) = IF 0 > n - 1 THEN 0 ELSE n - 1 - 0 + 1
    <3> HIDE DEF n
    <3> QED
      BY <1>1, FS_Interval
  <2> HIDE DEF T, n
  <2> QED
    BY <1>1, <2>1
<1>6. rank \in Surjection(S, T)
  <2> HIDE DEF rank, T
  <2> QED
    BY <1>4, <1>5, FS_Injection
<1>7. k - 1 \in T
  <2> HIDE DEF n
  <2>1. k \in 1..n
    BY DEF n
  <2> QED
    BY <1>1, <2>1
<1>8. PICK x \in S : rank[x] = k - 1
  <2> HIDE DEF rank, T
  <2> QED
    BY <1>6, <1>7 DEF Surjection
<1> QED
  BY <1>8

Downs == DownPayments \cup {req.preferred}

\* Percentages is a sequence of ratios.
LEMMA PercentagesAre ==
  ASSUME req \in Requests
  PROVE  /\ Len(Percentages) \in Nat \ {0} /\ DOMAIN Percentages = 1..Len(Percentages)
         /\ \A q \in 1..Len(Percentages) : Percentages[q] \in 0..Ratio
<1>1. Ratio \in Nat /\ req.preferred \in 0..Ratio
  BY RatioAssumption, RequestAssumption
<1>2. Downs \subseteq 0..Ratio
  <2>1. ASSUME NEW pct \in {3, 5, 10, 15, 20, 25} PROVE (Ratio * pct) \div 100 \in 0..Ratio
    BY <1>1, <2>1
  <2> QED
    BY <1>1, <2>1 DEF Downs, DownPayments
<1> DEFINE n == Cardinality(Downs)
<1>3. IsFiniteSet(Downs) /\ n \in Nat \ {0}
  <2>1. IsFiniteSet(0..Ratio)
    BY <1>1, FS_Interval
  <2>2. IsFiniteSet(Downs)
    BY <1>2, <2>1, FS_Subset
  <2>3. Downs # {}
    BY DEF Downs
  <2> QED
    BY <2>2, <2>3, FS_EmptySet, FS_CardinalityType
<1>4. Percentages = [k \in 1..n |-> CHOOSE pct \in Downs : Cardinality({other \in Downs : other < pct}) = k - 1]
  BY Zenon DEF Percentages, Downs
<1>5. ASSUME NEW k \in 1..n
      PROVE  (CHOOSE pct \in Downs : Cardinality({other \in Downs : other < pct}) = k - 1) \in 0..Ratio
  <2>1. \E pct \in Downs : Cardinality({other \in Downs : other < pct}) = k - 1
    <3>1. Downs \subseteq Nat
      BY <1>1, <1>2
    <3>2. k \in 1..Cardinality(Downs)
      BY <1>5
    <3> HIDE DEF n
    <3> QED
      BY <1>3, <3>1, <3>2, Ranks
  <2>2. (CHOOSE pct \in Downs : Cardinality({other \in Downs : other < pct}) = k - 1) \in Downs
    BY <2>1
  <2> QED
    BY <1>2, <2>2
<1> HIDE DEF n
<1>6. DOMAIN Percentages = 1..n /\ Len(Percentages) = n
  BY <1>3, <1>4
<1> QED
  BY <1>3, <1>4, <1>5, <1>6

-----------------------------------------------------------------------------
(* Where a cell is.                                                        *)

\* The place of a cell, row by row, is a place of the matrix.
LEMMA Places ==
  ASSUME NEW n \in Nat \ {0}, NEW m \in Nat, NEW k \in Nat, k < n * m
  PROVE  (k \div n) + 1 \in 1..m /\ (k % n) + 1 \in 1..n
<1> DEFINE d == k \div n
           r == k % n
<1>1. d \in Int /\ r \in 0..(n - 1) /\ k = n * d + r
  OBVIOUS
<1> HIDE DEF d, r
<1>2. d >= 0
  <2>1. SUFFICES ASSUME d <= -1 PROVE FALSE
    BY <1>1
  <2>2. (-1 - d) * n >= 0
    BY <1>1, <2>1
  <2> QED
    BY <1>1, <2>2
<1>3. d < m
  <2>1. SUFFICES ASSUME d >= m PROVE FALSE
    BY <1>1
  <2>2. (d - m) * n >= 0
    BY <1>1, <2>1
  <2> QED
    BY <1>1, <2>2
<1> QED
  BY <1>1, <1>2, <1>3 DEF d, r

Size(n, m) == n * m
RowOf(n, i) == ((i - 1) \div n) + 1
ColumnOf(n, i) == ((i - 1) % n) + 1
Place(n, p, q) == (p - 1) * n + q

\* And every place of the matrix has a cell.
LEMMA PlaceOf ==
  ASSUME NEW n \in Nat \ {0}, NEW m \in Nat, NEW p \in 1..m, NEW q \in 1..n
  PROVE  /\ Place(n, p, q) \in 1..Size(n, m)
         /\ RowOf(n, Place(n, p, q)) = p /\ ColumnOf(n, Place(n, p, q)) = q
<1> DEFINE i == (p - 1) * n + q
           d == (i - 1) \div n
           r == (i - 1) % n
           x == (p - 1) * n
<1>1. x \in Nat /\ x + n <= n * m
  <2>1. (p - 1) * n >= 0
    OBVIOUS
  <2>2. (m - p) * n >= 0
    OBVIOUS
  <2> QED
    BY <2>1, <2>2
<1>2. i \in 1..(n * m)
  <2> HIDE DEF x
  <2>1. i = x + q
    BY DEF x
  <2> HIDE DEF i
  <2> QED
    BY <1>1, <2>1
<1>3. d \in Int /\ r \in 0..(n - 1) /\ i - 1 = n * d + r
  BY <1>2
<1>4. n * (d - (p - 1)) = q - 1 - r
  <2> HIDE DEF d, r
  <2> QED
    BY <1>3
<1> HIDE DEF d, r
<1>5. d = p - 1
  <2>1. ~ (d - (p - 1) >= 1)
    <3>1. SUFFICES ASSUME d - (p - 1) - 1 >= 0 PROVE FALSE
      BY <1>3
    <3>2. n * (d - (p - 1) - 1) >= 0
      BY <1>3, <3>1
    <3> QED
      BY <1>3, <1>4, <3>2
  <2>2. ~ (d - (p - 1) <= -1)
    <3>1. SUFFICES ASSUME -1 - (d - (p - 1)) >= 0 PROVE FALSE
      BY <1>3
    <3>2. n * (-1 - (d - (p - 1))) >= 0
      BY <1>3, <3>1
    <3> QED
      BY <1>3, <1>4, <3>2
  <2> QED
    BY <1>3, <2>1, <2>2
<1>6. r = q - 1
  BY <1>3, <1>4, <1>5
<1> QED
  BY <1>2, <1>3, <1>5, <1>6 DEF d, r, Place, Size, RowOf, ColumnOf

-----------------------------------------------------------------------------
(* The matrix.                                                             *)

Program(i) == programs[RowOf(Len(Percentages), i)]
Down(i) == Percentages[ColumnOf(Len(Percentages), i)]
CellAt(i) == Cell(Program(i), Down(i), rates[Program(i)])
Total == Size(Len(Percentages), Len(programs))

RateNames == {"Conv30", "Conv15", "FHA30", "VA30", "Jumbo30", "Conv30-ARM-5-1"}
RatesRead == rates \in [RateNames -> Int] /\ rates["Conv30-ARM-5-1"] = rates["Conv30"] - 1

Complete == {"stress", "points", "tax", "verdict", "done"}

MatrixInv ==
    /\ req \in Requests
    /\ stage \in {"programs", "rates", "matrix", "raised"} \cup Complete
    /\ stage # "programs" => programs = Offered(ClassifyConventional(req.price, req.h.county))
    /\ stage \in {"programs", "rates"} => rates = <<>>
    /\ \/ rates = <<>> /\ cells = <<>>
       \/ stage # "programs" /\ RatesRead
    /\ stage \in {"matrix"} \cup Complete => RatesRead
    /\ \E S : cells \in Seq(S)
    /\ stage = "matrix" => Len(cells) < Total
    /\ stage \in Complete => Len(cells) = Total
    /\ \A i \in DOMAIN cells : i <= Total /\ CellAt(i).error = "none" /\ cells[i] = CellAt(i).value

\* The down payments and the loans depend on the request alone.
LEMMA SameDowns ==
  ASSUME UNCHANGED req
  PROVE  /\ Percentages' = Percentages
         /\ \A pct : Borrowed(pct)' = Borrowed(pct) /\ OverInCents(pct)' = OverInCents(pct)
<1>1. Downs' = Downs
  BY Zenon DEF Downs, DownPayments
<1>2. Percentages' = Percentages
  BY <1>1 DEF Percentages, Downs
<1>3. \A pct : Borrowed(pct)' = Borrowed(pct)
  BY Zenon DEF Borrowed
<1>4. \A pct : OverInCents(pct)' = OverInCents(pct)
  BY <1>3, Zenon DEF OverInCents
<1> QED
  BY <1>2, <1>3, <1>4

\* And so do the cells.
LEMMA SameCell ==
  ASSUME UNCHANGED req
  PROVE  \A program, pct, rate : Cell(program, pct, rate)' = Cell(program, pct, rate)
<1>1. \A program, pct : Amounts(program, pct)' = Amounts(program, pct)
  BY DEF Amounts, Then
<1>2. \A program, pct, rate, a : Unjudged(program, pct, rate, a)' = Unjudged(program, pct, rate, a)
  BY DEF Unjudged, Escrow, CashToClose
<1>3. \A program, pct, escrow, mi, ltv, rate :
        ForwardRequest(program, pct, escrow, mi, ltv, rate)' = ForwardRequest(program, pct, escrow, mi, ltv, rate)
  BY Zenon DEF ForwardRequest
<1>4. \A program, response, dti, cash :
        Reasons(program, response, dti, cash)' = Reasons(program, response, dti, cash)
  BY DEF Reasons
<1>5. \A c, response : Judge(c, response)' = Judge(c, response)
  BY <1>4, Zenon DEF Judge
<1> SUFFICES ASSUME NEW program, NEW pct, NEW rate
             PROVE  Cell(program, pct, rate)' = Cell(program, pct, rate)
  OBVIOUS
<1>6. Escrow(req.listing)' = Escrow(req.listing) /\ req' = req
  BY Zenon DEF Escrow
<1> QED
  BY <1>1, <1>2, <1>3, <1>5, <1>6, Zenon DEF Cell, Then

IsJoin(s, a, b) == /\ Len(s) = Len(a) + Len(b)
                   /\ \A p \in 1..Len(a) : s[p] = a[p]
                   /\ \A p \in 1..Len(b) : s[Len(a) + p] = b[p]

\* A sequence followed by another.
LEMMA Joined ==
  ASSUME NEW S, NEW a \in Seq(S), NEW b \in Seq(S)
  PROVE  a \o b \in Seq(S) /\ IsJoin(a \o b, a, b)
  BY DEF IsJoin

\* The programs that are offered.
LEMMA OfferedAre ==
  ASSUME NEW class
  PROVE  LET s == Offered(class)
         IN  /\ Len(s) \in Nat \ {0} /\ DOMAIN s = 1..Len(s)
             /\ \A p \in 1..Len(s) : s[p] \in Programs /\ (s[p] = "VA30" => req.va)
             /\ 1 \in 1..Len(s) /\ s[1] = "Conv30"
             /\ class = Result("jumbo") => \E p \in 1..Len(s) : s[p] = "Jumbo30"
<1> DEFINE a == <<"Conv30", "Conv15", "FHA30">>
           b == IF req.va THEN <<"VA30">> ELSE <<>>
           c == IF class = Result("jumbo") THEN <<"Jumbo30">> ELSE <<>>
           s == (a \o b) \o c
<1>1. Offered(class) = s
  BY DEF Offered
<1>2. a \in Seq(Programs) /\ Len(a) = 3 /\ a[1] = "Conv30" /\ a[2] = "Conv15" /\ a[3] = "FHA30"
  BY DEF Programs
<1>3. b \in Seq(Programs) /\ Len(b) = (IF req.va THEN 1 ELSE 0) /\ (req.va => b[1] = "VA30")
  <2>1. CASE req.va
    <3>1. b = <<"VA30">>
      BY <2>1
    <3> HIDE DEF b
    <3> QED
      BY <2>1, <3>1 DEF Programs
  <2>2. CASE ~ req.va
    <3>1. b = <<>>
      BY <2>2
    <3> HIDE DEF b
    <3> QED
      BY <2>2, <3>1
  <2> QED
    BY <2>1, <2>2
<1>4. c \in Seq(Programs) /\ Len(c) = (IF class = Result("jumbo") THEN 1 ELSE 0)
      /\ (class = Result("jumbo") => c[1] = "Jumbo30")
  <2>1. CASE class = Result("jumbo")
    <3>1. c = <<"Jumbo30">>
      BY <2>1
    <3> HIDE DEF c
    <3> QED
      BY <2>1, <3>1 DEF Programs
  <2>2. CASE class # Result("jumbo")
    <3>1. c = <<>>
      BY <2>2
    <3> HIDE DEF c
    <3> QED
      BY <2>2, <3>1
  <2> QED
    BY <2>1, <2>2
<1> HIDE DEF a, b, c
<1>5. /\ a \o b \in Seq(Programs) /\ Len(a \o b) = 3 + Len(b)
      /\ \A p \in 1..3 : (a \o b)[p] = a[p]
      /\ \A p \in 4..Len(a \o b) : p = 4 /\ (a \o b)[p] = "VA30" /\ req.va
  <2>0. a \in Seq(Programs) /\ b \in Seq(Programs) /\ Len(a) = 3
    BY <1>2, <1>3
  <2>1. /\ a \o b \in Seq(Programs) /\ Len(a \o b) = Len(a) + Len(b)
        /\ \A x \in 1..Len(a) : (a \o b)[x] = a[x]
        /\ \A x \in 1..Len(b) : (a \o b)[Len(a) + x] = b[x]
    <3>1. a \o b \in Seq(Programs) /\ IsJoin(a \o b, a, b)
      BY <2>0, Joined
    <3> QED
      BY <3>1 DEF IsJoin
  <2>2. a \o b \in Seq(Programs) /\ Len(a \o b) = 3 + Len(b)
    BY <2>0, <2>1
  <2>3. \A x \in 1..3 : (a \o b)[x] = a[x]
    BY <2>0, <2>1
  <2>4. ASSUME NEW x \in 4..Len(a \o b) PROVE x = 4 /\ (a \o b)[x] = "VA30" /\ req.va
    <3>1. req.va /\ Len(b) = 1 /\ x = 4 /\ b[1] = "VA30"
      BY <1>3, <2>2
    <3>2. (a \o b)[3 + 1] = b[1]
      <4>1. 1 \in 1..Len(b)
        BY <3>1
      <4> QED
        BY <2>0, <2>1, <4>1
    <3> QED
      BY <3>1, <3>2
  <2> QED
    BY <2>2, <2>3, <2>4
<1> DEFINE ab == a \o b
<1>6. /\ s \in Seq(Programs) /\ Len(s) = Len(ab) + Len(c)
      /\ \A p \in 1..Len(ab) : s[p] = ab[p]
      /\ class = Result("jumbo") => s[Len(ab) + 1] = "Jumbo30"
      /\ \A p \in (Len(ab) + 1)..Len(s) : s[p] = "Jumbo30"
  <2> HIDE DEF ab
  <2>1. ab \in Seq(Programs) /\ s = ab \o c
    BY <1>5 DEF ab
  <2> HIDE DEF s
  <2> QED
    BY <1>4, <2>1
<1>7. Len(ab) \in {3, 4}
  BY <1>3, <1>5
<1>8. \A p \in 1..Len(ab) : ab[p] = "VA30" => req.va
  BY <1>2, <1>5, <1>7
<1>9. ab[1] = "Conv30"
  BY <1>2, <1>5
<1> HIDE DEF ab, s
<1>10. Len(s) \in Nat \ {0} /\ DOMAIN s = 1..Len(s)
  BY <1>4, <1>6, <1>7
<1>11. \A p \in 1..Len(s) : s[p] \in Programs /\ (s[p] = "VA30" => req.va)
  <2>1. ASSUME NEW p \in 1..Len(s) PROVE s[p] \in Programs
    BY <1>6
  <2>2. ASSUME NEW p \in 1..Len(s), s[p] = "VA30" PROVE req.va
    <3>1. p \in 1..Len(ab)
      BY <1>6, <1>7, <1>10, <2>2
    <3> QED
      BY <1>6, <1>8, <2>2, <3>1
  <2> QED
    BY <2>1, <2>2
<1>12. class = Result("jumbo") => \E p \in 1..Len(s) : s[p] = "Jumbo30"
  <2>1. SUFFICES ASSUME class = Result("jumbo") PROVE Len(ab) + 1 \in 1..Len(s)
    BY <1>6
  <2> QED
    BY <1>4, <1>6, <1>7, <2>1
<1>13. 1 \in 1..Len(s) /\ s[1] = "Conv30"
  BY <1>6, <1>7, <1>9, <1>10
<1> QED
  BY <1>1, <1>10, <1>11, <1>12, <1>13

\* What a cell of the matrix is, by its place.
LEMMA PlaceIs ==
  ASSUME MatrixInv, stage # "programs", NEW i \in Nat \ {0}, i <= Total
  PROVE  /\ Program(i) \in Programs /\ Down(i) \in 0..Ratio
         /\ Program(i) = "VA30" => req.va
         /\ \E q \in DOMAIN Percentages : Down(i) = Percentages[q]
<1> DEFINE n == Len(Percentages)
           m == Len(programs)
           k == i - 1
<1>1. programs = Offered(ClassifyConventional(req.price, req.h.county)) /\ req \in Requests
  BY DEF MatrixInv
<1>2. /\ m \in Nat \ {0}
      /\ \A p \in 1..m : programs[p] \in Programs /\ (programs[p] = "VA30" => req.va)
  BY <1>1, OfferedAre
<1>3. n \in Nat \ {0} /\ DOMAIN Percentages = 1..n /\ \A q \in 1..n : Percentages[q] \in 0..Ratio
  BY <1>1, PercentagesAre
<1>4. k \in Nat /\ k < n * m
  BY <1>2, <1>3 DEF Total, Size
<1>5. (k \div n) + 1 \in 1..m /\ (k % n) + 1 \in 1..n
  <2> HIDE DEF n, m, k
  <2> QED
    BY <1>2, <1>3, <1>4, Places
<1> QED
  BY <1>2, <1>3, <1>5 DEF Program, Down, RowOf, ColumnOf

\* Nothing is built at the start.
LEMMA MatrixInit == Init => MatrixInv
<1> SUFFICES ASSUME Init PROVE MatrixInv
  OBVIOUS
<1>1. cells = <<>> /\ cells \in Seq({}) /\ DOMAIN cells = {} /\ stage = "programs" /\ rates = <<>>
      /\ req \in Requests
  BY DEF Init
<1>2. \E S : cells \in Seq(S)
  <2>1. cells \in Seq({})
    BY <1>1
  <2> QED
    BY <2>1
<1>3. rates = <<>> /\ cells = <<>>
  BY <1>1
<1>4. \A i \in DOMAIN cells : i <= Total /\ CellAt(i).error = "none" /\ cells[i] = CellAt(i).value
  BY <1>1
<1>5. stage \notin {"rates", "matrix", "raised"} \cup Complete
  BY <1>1 DEF Complete
<1> QED
  BY <1>1, <1>2, <1>3, <1>4, <1>5, Zenon DEF MatrixInv

\* The places of the matrix depend on the request, the programs and the rates.
LEMMA SamePlaces ==
  ASSUME UNCHANGED <<req, programs>>
  PROVE  /\ Total' = Total /\ Percentages' = Percentages
         /\ \A i : Program(i)' = Program(i) /\ Down(i)' = Down(i)
         /\ rates' = rates => \A i : CellAt(i)' = CellAt(i)
         /\ Offered(ClassifyConventional(req.price, req.h.county))'
              = Offered(ClassifyConventional(req.price, req.h.county))
<1>1. Percentages' = Percentages
  BY SameDowns
<1>2. Total' = Total /\ \A i : Program(i)' = Program(i) /\ Down(i)' = Down(i)
  BY <1>1, Zenon DEF Total, Program, Down
<1>3. ASSUME rates' = rates, NEW i PROVE CellAt(i)' = CellAt(i)
  BY <1>2, <1>3, SameCell, Zenon DEF CellAt
<1>4. Offered(ClassifyConventional(req.price, req.h.county))'
              = Offered(ClassifyConventional(req.price, req.h.county))
  BY DEF Offered, ClassifyConventional
<1> QED
  BY <1>1, <1>2, <1>3, <1>4

\* A rate that is read without an exception is a number.
LEMMA TodaysIs ==
  ASSUME NEW given \in Optional, NEW entry \in Entry, NEW lock,
         Todays(given, entry, lock).error = "none"
  PROVE  Todays(given, entry, lock).value \in Int
<1>1. CASE given # None
  BY <1>1 DEF Todays, Result, Optional, None
<1>2. CASE given = None
  <2>1. Todays(given, entry, lock) \in {Raise(lock), FromFred(entry)}
    BY <1>2 DEF Todays
  <2>2. Todays(given, entry, lock) = FromFred(entry)
    <3>1. CASE lock = "none"
      BY <1>2, <3>1 DEF Todays
    <3>2. CASE lock # "none"
      <4>1. Todays(given, entry, lock) = Raise(lock)
        BY <1>2, <3>2 DEF Todays
      <4> QED
        BY <3>2, <4>1 DEF Raise
    <3> QED
      BY <3>1, <3>2
  <2>3. FromFred(entry).error = "none"
    BY <2>2
  <2>4. entry.kind = "number" /\ entry.rate \in Int
    BY <2>3 DEF Entry, FromFred, Raise
  <2>5. FromFred(entry) = Result(IF entry.rate > 4 THEN entry.rate ELSE 100 * entry.rate)
    BY <2>4 DEF FromFred
  <2> QED
    BY <2>2, <2>4, <2>5 DEF Result
<1> QED
  BY <1>1, <1>2

\* What reading a rate may fail for: CrashHasCause, of the cache.
ReadCause(e) ==
    \/ e \in LockErrors /\ Cached # {}
    \/ e \in {"ValueError", "InvalidOperation", "TypeError"} /\ \E entry \in Cached : FromFred(entry).error = e

\* A rate fails for the lock of the cache or for what its entry is.
LEMMA TodaysFails ==
  ASSUME NEW given \in Optional, NEW entry \in Entry, NEW lock \in LockErrors \cup {"none"},
         Todays(given, entry, lock).error # "none"
  PROVE  /\ given = None
         /\ \/ Todays(given, entry, lock).error \in LockErrors
            \/ /\ Todays(given, entry, lock).error \in {"ValueError", "InvalidOperation", "TypeError"}
               /\ Todays(given, entry, lock).error = FromFred(entry).error
<1>1. given = None
  BY DEF Todays, Result
<1>2. CASE lock # "none"
  <2>1. Todays(given, entry, lock).error = lock
    BY <1>1, <1>2 DEF Todays, Raise
  <2> QED
    BY <1>1, <1>2, <2>1
<1>3. CASE lock = "none"
  <2>1. Todays(given, entry, lock) = FromFred(entry)
    BY <1>1, <1>3 DEF Todays
  <2>2. entry.kind \in {"cold", "NaN", "naive"}
    BY <2>1 DEF FromFred, Entry, Result
  <2>3. FromFred(entry).error \in {"ValueError", "InvalidOperation", "TypeError"}
    BY <2>2 DEF FromFred, Raise
  <2> QED
    BY <1>1, <2>1, <2>3
<1> QED
  BY <1>2, <1>3

\* Every step keeps the matrix.
LEMMA MatrixStep == MatrixInv /\ [Next]_vars => MatrixInv'
<1> SUFFICES ASSUME MatrixInv, [Next]_vars PROVE MatrixInv'
  OBVIOUS
<1> USE DEF Complete
<1>1. ASSUME UNCHANGED <<req, programs, rates, cells>>,
             stage \in {"matrix"} \cup Complete,
             stage' # "raised" => stage' \in Complete /\ stage \in Complete
      PROVE  MatrixInv'
  <2>1. Total' = Total /\ \A i : CellAt(i)' = CellAt(i)
    BY <1>1, SamePlaces
  <2>2. Offered(ClassifyConventional(req.price, req.h.county))'
              = Offered(ClassifyConventional(req.price, req.h.county))
    BY <1>1, SamePlaces
  <2>3. RatesRead' <=> RatesRead
    BY <1>1 DEF RatesRead
  <2> QED
    BY <1>1, <2>1, <2>2, <2>3 DEF MatrixInv
<1>2. CASE DeterminePrograms
  <2>1. /\ stage = "programs" /\ stage' = "rates" /\ UNCHANGED <<req, rates, cells>>
        /\ programs' = Offered(ClassifyConventional(req.price, req.h.county))
    BY <1>2 DEF DeterminePrograms
  <2>2. rates = <<>> /\ cells = <<>>
    BY <2>1 DEF MatrixInv
  <2>3. Offered(ClassifyConventional(req.price, req.h.county))'
              = Offered(ClassifyConventional(req.price, req.h.county))
    BY <2>1 DEF Offered, ClassifyConventional
  <2>4. DOMAIN cells' = {} /\ \E S : cells' \in Seq(S)
    <3>1. cells' = <<>> /\ <<>> \in Seq({})
      BY <2>1, <2>2
    <3> QED
      BY <3>1
  <2> QED
    BY <2>1, <2>2, <2>3, <2>4 DEF MatrixInv
<1>3. CASE ReadRates
  <2>1. stage = "rates" /\ UNCHANGED <<req, programs, cells>>
    BY <1>3 DEF ReadRates
  <2>2. rates = <<>> /\ cells = <<>> /\ programs = Offered(ClassifyConventional(req.price, req.h.county))
    BY <2>1 DEF MatrixInv, RatesRead, RateNames
  <2>3. CASE stage' = "raised" /\ UNCHANGED rates
    <3>1. DOMAIN cells' = {} /\ \E S : cells' \in Seq(S)
      <4>1. cells' = <<>> /\ <<>> \in Seq({})
        BY <2>1, <2>2
      <4> QED
        BY <4>1
    <3>2. Offered(ClassifyConventional(req.price, req.h.county))'
              = Offered(ClassifyConventional(req.price, req.h.county))
      BY <2>1, SamePlaces
    <3> QED
      BY <2>1, <2>2, <2>3, <3>1, <3>2 DEF MatrixInv
  <2>4. CASE stage' = "matrix"
    <3>1. RatesRead'
      <4>1. req.given30 \in Optional /\ req.given15 \in Optional /\ req.fred30 \in Entry /\ req.fred15 \in Entry
        BY RequestAssumption DEF MatrixInv
      <4>2. PICK lock30, lock15 \in LockErrors \cup {"none"} :
                /\ Todays(req.given30, req.fred30, lock30).error = "none"
                /\ Todays(req.given15, req.fred15, lock15).error = "none"
                /\ rates' = [p \in {"Conv30", "Conv15", "FHA30", "VA30", "Jumbo30", "Conv30-ARM-5-1"} |->
                               CASE p = "Conv15" -> Todays(req.given15, req.fred15, lock15).value
                                 [] p = "Conv30-ARM-5-1" -> Todays(req.given30, req.fred30, lock30).value - 1
                                 [] OTHER -> Todays(req.given30, req.fred30, lock30).value]
        BY <1>3, <2>4 DEF ReadRates, Fail
      <4> DEFINE rate30 == Todays(req.given30, req.fred30, lock30)
                 rate15 == Todays(req.given15, req.fred15, lock15)
      <4>3. rate30.value \in Int /\ rate15.value \in Int
        BY <4>1, <4>2, TodaysIs
      <4>4. /\ RateNames = {"Conv30", "Conv15", "FHA30", "VA30", "Jumbo30", "Conv30-ARM-5-1"}
            /\ rates' = [p \in RateNames |-> CASE p = "Conv15" -> rate15.value
                                               [] p = "Conv30-ARM-5-1" -> rate30.value - 1
                                               [] OTHER -> rate30.value]
        BY <4>2 DEF RateNames
      <4> HIDE DEF rate30, rate15
      <4> QED
        BY <4>3, <4>4 DEF RatesRead, RateNames
    <3>2. Len(cells') = 0 /\ DOMAIN cells' = {} /\ \E S : cells' \in Seq(S)
      BY <2>1, <2>2
    <3>3. Total' = Total /\ Total > 0
      <4>1. Len(programs) \in Nat \ {0}
        BY <2>2, OfferedAre
      <4>2. Len(Percentages) \in Nat \ {0}
        BY PercentagesAre DEF MatrixInv
      <4> DEFINE n == Len(Percentages)
                 m == Len(programs)
      <4>3. n * m > 0
        <5> HIDE DEF n, m
        <5>1. n \in Nat \ {0} /\ m \in Nat \ {0}
          BY <4>1, <4>2 DEF n, m
        <5> QED
          BY <5>1
      <4>4. Total' = Total
        BY <2>1, SamePlaces
      <4> QED
        BY <4>3, <4>4 DEF Total, Size
    <3>4. Offered(ClassifyConventional(req.price, req.h.county))'
              = Offered(ClassifyConventional(req.price, req.h.county))
      BY <2>1, SamePlaces
    <3> QED
      BY <2>1, <2>2, <2>4, <3>1, <3>2, <3>3, <3>4 DEF MatrixInv
  <2> QED
    BY <1>3, <2>3, <2>4 DEF ReadRates, Fail
<1>4. CASE EvaluateCell
  <2>1. stage = "matrix" /\ UNCHANGED <<req, programs, rates>>
    BY <1>4 DEF EvaluateCell
  <2>2. CASE stage' = "raised"
    <3> DEFINE new == Cell(programs[(Len(cells) \div Len(Percentages)) + 1],
                           Percentages[(Len(cells) % Len(Percentages)) + 1],
                           rates[programs[(Len(cells) \div Len(Percentages)) + 1]])
               last == Len(cells) + 1 = Len(Percentages) * Len(programs)
    <3>1. UNCHANGED cells
      <4>1. IF new.error # "none" THEN UNCHANGED cells
            ELSE stage' = IF last THEN "stress" ELSE "matrix"
        <5> HIDE DEF last
        <5> QED
          BY <1>4, Zenon DEF EvaluateCell, last
      <4> HIDE DEF new, last
      <4> QED
        BY <2>2, <4>1
    <3> HIDE DEF new, last
    <3> QED
      BY <1>1, <2>1, <2>2, <3>1
  <2>3. CASE stage' # "raised"
    <3> DEFINE k == Len(cells)
               new == CellAt(k + 1)
    <3>1. PICK S : cells \in Seq(S)
      BY DEF MatrixInv
    <3>2. k \in Nat /\ k < Total /\ DOMAIN cells = 1..k
      BY <2>1, <3>1 DEF MatrixInv
    <3>3. /\ new.error = "none" /\ cells' = Append(cells, new.value)
          /\ stage' = IF k + 1 = Total THEN "stress" ELSE "matrix"
      <4>1. (k + 1) - 1 = k
        BY <3>2
      <4>2. new = Cell(programs[(k \div Len(Percentages)) + 1], Percentages[(k % Len(Percentages)) + 1],
                       rates[programs[(k \div Len(Percentages)) + 1]])
        BY <4>1, Zenon DEF CellAt, Program, Down, RowOf, ColumnOf
      <4> HIDE DEF new
      <4> QED
        BY <1>4, <2>3, <4>2 DEF EvaluateCell, Fail, Total, Size
    <3>4. Total \in Nat
      <4>1. Len(programs) \in Nat
        BY <2>1, OfferedAre DEF MatrixInv
      <4>2. Len(Percentages) \in Nat
        BY PercentagesAre DEF MatrixInv
      <4> QED
        BY <4>1, <4>2 DEF Total, Size
    <3> HIDE DEF new
    <3>5. /\ Len(cells') = k + 1 /\ DOMAIN cells' = 1..(k + 1) /\ cells'[k + 1] = new.value
          /\ \A i \in 1..k : cells'[i] = cells[i]
          /\ \E T : cells' \in Seq(T)
      <4> DEFINE T == S \cup {new.value}
      <4>1. cells \in Seq(T) /\ new.value \in T
        BY <3>1
      <4> HIDE DEF T
      <4>2. cells' \in Seq(T)
        BY <3>3, <4>1
      <4> QED
        BY <3>2, <3>3, <4>1, <4>2
    <3>6. Total' = Total /\ \A i : CellAt(i)' = CellAt(i)
      BY <2>1, SamePlaces
    <3>7. Offered(ClassifyConventional(req.price, req.h.county))'
              = Offered(ClassifyConventional(req.price, req.h.county))
      BY <2>1, SamePlaces
    <3>8. RatesRead' <=> RatesRead
      BY <2>1 DEF RatesRead
    <3>9. \A i \in DOMAIN cells' :
             i <= Total' /\ CellAt(i)'.error = "none" /\ cells'[i] = CellAt(i)'.value
      <4>1. ASSUME NEW i \in 1..k
            PROVE  i <= Total /\ CellAt(i).error = "none" /\ cells'[i] = CellAt(i).value
        BY <3>2, <3>5 DEF MatrixInv
      <4>2. ASSUME NEW i \in 1..(k + 1), i \notin 1..k
            PROVE  i <= Total /\ CellAt(i).error = "none" /\ cells'[i] = CellAt(i).value
        <5>1. i = k + 1
          BY <3>2, <4>2
        <5> QED
          BY <3>2, <3>3, <3>4, <3>5, <5>1 DEF new
      <4> QED
        BY <3>5, <3>6, <4>1, <4>2
    <3>10. stage' = "matrix" => Len(cells') < Total'
      BY <3>2, <3>3, <3>4, <3>5, <3>6
    <3>11. stage' \in {"matrix", "stress"} /\ (stage' # "matrix" => Len(cells') = Total')
      BY <3>3, <3>5, <3>6
    <3> QED
      BY <2>1, <3>5, <3>6, <3>7, <3>8, <3>9, <3>10, <3>11 DEF MatrixInv
  <2> QED
    BY <2>2, <2>3
<1>5. CASE StressCell
  BY <1>1, <1>5 DEF StressCell, Fail
<1>6. CASE BuildRefi \/ BuildPoints \/ BuildTax \/ GiveVerdict
  BY <1>1, <1>6 DEF BuildRefi, BuildPoints, BuildTax, GiveVerdict, Fail
<1>7. CASE UNCHANGED vars
  <2>1. UNCHANGED <<req, programs, rates, cells, stage>>
    BY <1>7 DEF vars
  <2>2. Total' = Total /\ (\A i : CellAt(i)' = CellAt(i))
        /\ Offered(ClassifyConventional(req.price, req.h.county))'
              = Offered(ClassifyConventional(req.price, req.h.county))
    BY <2>1, SamePlaces
  <2>3. RatesRead' <=> RatesRead
    BY <2>1 DEF RatesRead
  <2> QED
    BY <2>1, <2>2, <2>3 DEF MatrixInv
<1> QED
  BY <1>2, <1>3, <1>4, <1>5, <1>6, <1>7 DEF Next

\* What the invariant says of a cell: it is the loan that its place asks for,
\* judged by the engine's answer to the request that the later blocks repeat.
LEMMA CellFacts ==
  ASSUME MatrixInv, NEW i \in DOMAIN cells
  PROVE  LET program == Program(i)
             pct == Down(i)
             rate == rates[program]
             c == Base(program, pct, rate)
             r == Asked(program, pct, rate)
             reasons == Reasons(program, Evaluate(r), c.dti, c.cash)
         IN  /\ program \in Programs /\ pct \in 0..Ratio /\ rate \in 0..RateDen
             /\ Amounts(program, pct).error = "none" /\ RatesRead /\ stage # "programs"
             /\ program = "VA30" => req.va
             /\ \E q \in DOMAIN Percentages : pct = Percentages[q]
             /\ Evaluate(r).error \in {"none", "NotImplementedError"}
             /\ CellRequest(cells[i]) = r
             /\ cells[i].program = program /\ cells[i].pct = pct /\ cells[i].financed = c.financed
             /\ cells[i].pi = c.pi /\ cells[i].piti = c.piti /\ cells[i].dti = c.dti /\ cells[i].cash = c.cash
             /\ cells[i].reasons = reasons /\ cells[i].eligible = (reasons = {})
<1> DEFINE program == Program(i)
           pct == Down(i)
           rate == rates[program]
           c == Base(program, pct, rate)
           r == Asked(program, pct, rate)
           reasons == Reasons(program, Evaluate(r), c.dti, c.cash)
<1>1. PICK S : cells \in Seq(S)
  BY DEF MatrixInv
<1>2. i \in Nat \ {0} /\ i <= Total /\ CellAt(i).error = "none" /\ cells[i] = CellAt(i).value
  BY <1>1 DEF MatrixInv
<1>3. RatesRead /\ stage # "programs"
  BY <1>1 DEF MatrixInv
<1>4. /\ program \in Programs /\ pct \in 0..Ratio /\ (program = "VA30" => req.va)
      /\ \E q \in DOMAIN Percentages : pct = Percentages[q]
  BY <1>2, <1>3, PlaceIs
<1>5. Cell(program, pct, rate).error = "none" /\ cells[i] = Cell(program, pct, rate).value
  BY <1>2, Zenon DEF CellAt
<1> HIDE DEF program, pct
<1>6. /\ rate \in 0..RateDen /\ Amounts(program, pct).error = "none"
      /\ Evaluate(r).error \in {"none", "NotImplementedError"}
      /\ cells[i] = Mark(c, reasons)
  BY <1>5, CellIs
<1>7. /\ cells[i].program = program /\ cells[i].pct = pct /\ cells[i].financed = c.financed
      /\ cells[i].pi = c.pi /\ cells[i].piti = c.piti /\ cells[i].dti = c.dti /\ cells[i].cash = c.cash
      /\ cells[i].mi = c.mi /\ cells[i].ltv = c.ltv
      /\ cells[i].reasons = reasons /\ cells[i].eligible = (reasons = {})
  BY <1>6, MarkKeeps
<1> HIDE DEF c, reasons
<1>8. CellRequest(cells[i]) = r
  BY <1>7 DEF CellRequest, Asked, c
<1> HIDE DEF r
<1> QED
  BY <1>3, <1>4, <1>6, <1>7, <1>8 DEF program, pct, c, r, reasons

\* A cell's DTI is the engine's, but for VA30 and Jumbo30, where it is no less.
LEMMA AgreesInv == MatrixInv => EngineAgrees
<1> SUFFICES ASSUME MatrixInv, NEW i \in DOMAIN cells, Evaluate(CellRequest(cells[i])).error = "none"
             PROVE  LET engine == Evaluate(CellRequest(cells[i]))
                    IN  IF cells[i].program \in {"VA30", "Jumbo30"} THEN engine.value.dti <= cells[i].dti
                                                            ELSE engine.value.dti = cells[i].dti
  BY Zenon DEF EngineAgrees
<1> DEFINE program == Program(i)
           pct == Down(i)
           rate == rates[program]
           c == Base(program, pct, rate)
           r == Asked(program, pct, rate)
           reasons == Reasons(program, Evaluate(r), c.dti, c.cash)
<1>1. /\ program \in Programs /\ pct \in 0..Ratio /\ rate \in 0..RateDen
      /\ Amounts(program, pct).error = "none"
      /\ CellRequest(cells[i]) = r
      /\ cells[i].program = program /\ cells[i].dti = c.dti
  BY CellFacts
<1>2. req \in Requests /\ req.h.income \in Nat \ {0}
  BY RequestAssumption DEF MatrixInv, Household
<1> HIDE DEF program, pct, rate
<1>3. RequestFor(r, program, pct, rate) /\ r.h.income = req.h.income
  BY <1>2, AskedIsRequest
<1>4. r.mode = "forward" /\ Evaluate(r).error = "none"
  BY <1>1, <1>3 DEF RequestFor
<1>5. Upfront(r).error = "none" /\ Premium(r).error = "none" /\ Evaluate(r).value.dti = Response(r).dti
  BY <1>4, Answers
<1>6. /\ c.piti \in Nat /\ Response(r).piti \in Nat /\ req.h.debts \in Nat
      /\ c.dti = Quotient(c.piti + req.h.debts, req.h.income)
      /\ Response(r).dti = Quotient(Response(r).piti + req.h.debts, r.h.income)
      /\ program \notin {"VA30", "Jumbo30"} => Response(r).piti = c.piti
      /\ Response(r).piti <= c.piti
  BY <1>1, <1>2, <1>3, <1>5, EngineDti
<1> HIDE DEF c, r
<1>7. Response(r).dti <= c.dti
  <2> DEFINE n == Response(r).piti + req.h.debts
             m == c.piti + req.h.debts
  <2>1. n \in Nat /\ m \in Nat /\ n <= m
    BY <1>6
  <2> HIDE DEF n, m
  <2>2. Quotient(n, req.h.income) <= Quotient(m, req.h.income)
    BY <1>2, <2>1, QuotientGrows
  <2> QED
    BY <1>3, <1>6, <2>2 DEF n, m
<1>8. program \notin {"VA30", "Jumbo30"} => Response(r).dti = c.dti
  BY <1>3, <1>6
<1> QED
  BY <1>1, <1>5, <1>7, <1>8

\* The matrix of a finished stage has a cell of every program and down payment.
LEMMA EveryCell ==
  ASSUME MatrixInv, stage \in Complete, NEW p \in DOMAIN programs, NEW q \in DOMAIN Percentages
  PROVE  \E j \in DOMAIN cells : Program(j) = programs[p] /\ Down(j) = Percentages[q]
<1> DEFINE n == Len(Percentages)
           m == Len(programs)
           j == Place(n, p, q)
<1>1. n \in Nat \ {0} /\ q \in 1..n
  BY PercentagesAre DEF MatrixInv
<1>2. m \in Nat \ {0} /\ p \in 1..m
  <2>1. programs = Offered(ClassifyConventional(req.price, req.h.county))
    BY DEF MatrixInv, Complete
  <2> QED
    BY <2>1, OfferedAre
<1>3. j \in 1..Size(n, m) /\ RowOf(n, j) = p /\ ColumnOf(n, j) = q
  <2> HIDE DEF n, m
  <2>1. n \in Nat \ {0} /\ m \in Nat /\ p \in 1..m /\ q \in 1..n
    BY <1>1, <1>2
  <2> QED
    BY <2>1, PlaceOf
<1>4. DOMAIN cells = 1..Size(n, m)
  BY DEF MatrixInv, Total
<1> QED
  BY <1>3, <1>4 DEF Program, Down

\* A down payment whose loan is not of the class of one of Conv30 and Jumbo30 has
\* a cell of the other, whose class it is.
LEMMA LimitInv == MatrixInv => LimitLeavesAProgram
<1> SUFFICES ASSUME MatrixInv, NEW i \in DOMAIN cells, stage \notin {"matrix", "raised"},
                    cells[i].program \in {"Conv30", "Jumbo30"}, cells[i].reasons = {"LIMIT"}
             PROVE  \E j \in DOMAIN cells :
                       /\ cells[j].program \in {"Conv30", "Jumbo30"} \ {cells[i].program}
                       /\ cells[j].pct = cells[i].pct /\ "LIMIT" \notin cells[j].reasons
  BY DEF LimitLeavesAProgram
<1> DEFINE pct == Down(i)
           base == Borrowed(pct)
           county == req.h.county
           class == ClassifyConventional(base, county)
           other == IF Program(i) = "Conv30" THEN "Jumbo30" ELSE "Conv30"
<1>1. req \in Requests /\ stage \in Complete
  <2>1. RatesRead
    BY CellFacts
  <2>2. stage \notin {"programs", "rates"}
    <3>1. "Conv30" \in DOMAIN rates
      BY <2>1 DEF RatesRead, RateNames
    <3>2. rates # <<>>
      BY <3>1
    <3> QED
      BY <3>2 DEF MatrixInv
  <2> QED
    BY <2>2 DEF MatrixInv
<1>2. ASSUME NEW j \in DOMAIN cells, Program(j) \in {"Conv30", "Jumbo30"}, Down(j) = pct,
             "LIMIT" \in cells[j].reasons
      PROVE  /\ class.error = "none"
             /\ class.value \notin Accepted(Target(Program(j)))
  <2> DEFINE program == Program(j)
             rate == rates[program]
             r == Asked(program, pct, rate)
             c == Base(program, pct, rate)
  <2>1. cells[j].reasons = Reasons(program, Evaluate(r), c.dti, c.cash)
    BY <1>2, CellFacts
  <2>2. RequestFor(r, program, pct, rate)
    BY <1>1, AskedIsRequest
  <2> HIDE DEF r, c, program
  <2>3. Class(r).error = "none" /\ Class(r).value.blocker = "LIMIT"
    BY <1>2, <2>1, <2>2, LimitIsClass DEF RequestFor
  <2>4. Class(r) = ClassifyTarget(base, county, Target(program))
    BY <2>2 DEF RequestFor, Class
  <2>5. Classify(base, county, Target(program)) = class
    BY <1>2 DEF program, Target, Classify
  <2> DEFINE target == Target(program)
  <2>6. ClassifyTarget(base, county, target) =
          IF class.error # "none" THEN Raise(class.error)
          ELSE Result([class |-> class.value,
                       blocker |-> IF class.value \in Accepted(target) THEN "none" ELSE "LIMIT"])
    <3> HIDE DEF class, target
    <3> QED
      BY <2>5 DEF ClassifyTarget, Then, target
  <2> HIDE DEF class, target
  <2> QED
    BY <2>3, <2>4, <2>6 DEF Raise, Result, target, program
<1>3. Program(i) \in {"Conv30", "Jumbo30"} /\ pct \in 0..Ratio
      /\ cells[i].pct = pct /\ cells[i].program = Program(i)
      /\ \E q \in DOMAIN Percentages : pct = Percentages[q]
  BY CellFacts
<1>4. class.error = "none" /\ class.value \notin Accepted(Target(Program(i)))
  BY <1>2, <1>3
<1>5. class.value \in Accepted(Target(other)) /\ (other = "Jumbo30" => class.value = "jumbo")
  <2>1. class.value \in {"conforming", "high_balance", "jumbo"}
    BY <1>4 DEF ClassifyConventional, Raise, Result
  <2> HIDE DEF class
  <2> QED
    BY <1>3, <1>4, <2>1 DEF Target, Accepted
<1>6. \E p \in DOMAIN programs : programs[p] = other
  <2>1. programs = Offered(ClassifyConventional(req.price, county))
    BY <1>1 DEF MatrixInv, Complete
  <2>2. CASE other = "Conv30"
    BY <2>1, <2>2, OfferedAre
  <2>3. CASE other = "Jumbo30"
    <3>1. base \in 0..req.price /\ req.price \in Nat
      BY <1>1, <1>3, LoanType
    <3>2. class.value = "jumbo"
      BY <1>5, <2>3
    <3>3. Ref.baseline \in Nat /\ \A x \in DOMAIN Ref.fhfa : Ref.fhfa[x] \in Nat
      BY RefAssumption
    <3> HIDE DEF base, county
    <3>4. base > Ref.baseline /\ county \in DOMAIN Ref.fhfa /\ base > Ref.fhfa[county]
      BY <1>4, <3>1, <3>2, <3>3 DEF ClassifyConventional, Raise, Result
    <3>5. ClassifyConventional(req.price, county) = Result("jumbo")
      BY <3>1, <3>3, <3>4 DEF ClassifyConventional, Result
    <3> QED
      BY <2>1, <2>3, <3>5, OfferedAre
  <2> QED
    BY <2>2, <2>3
<1>7. PICK j \in DOMAIN cells : Program(j) = other /\ Down(j) = pct
  BY <1>1, <1>3, <1>6, EveryCell
<1>8. cells[j].program = other /\ cells[j].pct = pct
  BY <1>7, CellFacts
<1>9. "LIMIT" \notin cells[j].reasons
  BY <1>2, <1>5, <1>7
<1> HIDE DEF pct, other
<1>10. other \in {"Conv30", "Jumbo30"} \ {cells[i].program}
  BY <1>3 DEF other
<1> QED
  BY <1>3, <1>8, <1>9, <1>10

-----------------------------------------------------------------------------
(* The stress block.                                                       *)

\* 70 percent of an income, in cents, is one.
LEMMA LessIncomeIs ==
  ASSUME req \in Requests, NEW program, NEW pct, NEW rate
  PROVE  LET r == Asked(program, pct, rate)
             s == LessIncome(r, 30)
         IN  /\ RequestFor(s, program, pct, rate) /\ s.h.income = Cents(70 * req.h.income, 100)
             /\ s.h.income \in Nat \ {0} /\ Class(s) = Class(r)
<1> DEFINE r == Asked(program, pct, rate)
           s == LessIncome(r, 30)
           left == Cents(r.h.income * (100 - 30), 100)
<1>1. RequestFor(r, program, pct, rate) /\ r.h.income = req.h.income
  BY AskedIsRequest
<1>2. req.h.income \in Nat \ {0}
  BY RequestAssumption DEF Household
<1>3. left = Cents(70 * req.h.income, 100)
  <2>1. r.h.income * (100 - 30) = 70 * req.h.income
    BY <1>1, <1>2
  <2> QED
    BY <2>1
<1>4. left \in Nat \ {0}
  <2> DEFINE n == 70 * req.h.income
  <2>1. n \in Nat /\ n >= 70
    BY <1>2
  <2> HIDE DEF n
  <2>2. Cents(n, 100) \in Nat /\ 1 <= Cents(n, 100)
    <3>1. (2 * 1 - 1) * 100 <= 2 * n
      BY <2>1
    <3> QED
      BY <2>1, <3>1, NoLoan, UnitAssumption, P!CentsIsGreatest, SameMoney
  <2> QED
    BY <1>3, <2>2 DEF n
<1> DEFINE h == [req.h EXCEPT !.escrow = Escrow(req.listing)]
<1>5. /\ r.h = h
      /\ r = [mode |-> r.mode, h |-> r.h, target |-> r.target, maxDti |-> r.maxDti, term |-> r.term,
              rate |-> r.rate, apr |-> r.apr, apor |-> r.apor, junior |-> r.junior, pmi |-> r.pmi,
              loan |-> r.loan, value |-> r.value]
  BY DEF Asked, ForwardRequest
<1>6. h = [income |-> h.income, debts |-> h.debts, escrow |-> h.escrow,
           reserves |-> h.reserves, county |-> h.county, knownState |-> h.knownState,
           score |-> h.score, size |-> h.size, va |-> h.va]
  <2>1. req.h = [income |-> req.h.income, debts |-> req.h.debts, escrow |-> req.h.escrow,
               reserves |-> req.h.reserves, county |-> req.h.county, knownState |-> req.h.knownState,
               score |-> req.h.score, size |-> req.h.size, va |-> req.h.va]
    BY RequestAssumption DEF Household
  <2> QED
    BY <2>1
<1>7. s = [r EXCEPT !.h = [r.h EXCEPT !.income = left]]
  BY DEF LessIncome
<1> HIDE DEF left, h, r, s
<1>8. /\ s.mode = r.mode /\ s.target = r.target /\ s.term = r.term /\ s.rate = r.rate
      /\ s.loan = r.loan /\ s.value = r.value /\ s.pmi = r.pmi /\ s.apr = r.apr /\ s.apor = r.apor
      /\ s.junior = r.junior /\ s.h = [r.h EXCEPT !.income = left]
  BY <1>5, <1>7
<1>9. /\ s.h.income = left /\ s.h.escrow = r.h.escrow /\ s.h.county = r.h.county /\ s.h.va = r.h.va
      /\ s.h.debts = r.h.debts
  BY <1>5, <1>6, <1>8
<1>10. RequestFor(s, program, pct, rate)
  BY <1>1, <1>8, <1>9 DEF RequestFor, r
<1> QED
  BY <1>3, <1>4, <1>8, <1>9, <1>10 DEF Class, r, s

\* The engine's row of a shock of 30 percent is one evaluation.
LEMMA UpstreamIs ==
  ASSUME NEW c
  PROVE  LET e == Evaluate(LessIncome(CellRequest(c), 30))
         IN  /\ e.error # "none" => Upstream(c).error = e.error
             /\ e.error = "none" =>
                    /\ Upstream(c).error = "none"
                    /\ Upstream(c).value.breaches[1]
                         = ((IF e.value.dti = None THEN 0 ELSE e.value.dti) > DtiCeiling(c.program))
<1> DEFINE cuts == <<30>>
           e == Evaluate(LessIncome(CellRequest(c), 30))
           results == [i \in DOMAIN cuts |-> Evaluate(LessIncome(CellRequest(c), cuts[i]))]
           ceiling == DtiCeiling(c.program)
           Failed(res) == res.error # "none"
           I == {i \in 1..Len(results) : Failed(results[i])}
           first == SelectInSeq(results, Failed)
<1>1. DOMAIN cuts = {1} /\ cuts[1] = 30 /\ Len(results) = 1 /\ results[1] = e
  OBVIOUS
<1>2. ~ (~ Scenarios(cuts) \/ \E i \in DOMAIN cuts : cuts[i] \notin 0..99)
  BY DEF Scenarios, IsInjective
<1>3. Upstream(c) = IF first # 0 THEN Raise(results[first].error) ELSE Shocked(results, cuts, ceiling)
  <2>1. Upstream(c) = IF ~ Scenarios(cuts) \/ \E i \in DOMAIN cuts : cuts[i] \notin 0..99
                      THEN Raise("ValidationError")
                      ELSE IF first # 0 THEN Raise(results[first].error)
                      ELSE Shocked(results, cuts, ceiling)
    BY Zenon DEF Upstream, IncomeShock
  <2> HIDE DEF first, results, cuts
  <2> QED
    BY <1>2, <2>1
<1>4. first = IF I # {} THEN Min(I) ELSE 0
  BY Zenon DEF SelectInSeq
<1>5. I = IF e.error # "none" THEN {1} ELSE {}
  <2> HIDE DEF results
  <2> QED
    BY <1>1
<1>6. I = {1} => Min(I) = 1
  <2>1. I = {1} => Min(I) \in {1}
    <3> HIDE DEF I
    <3>1. SUFFICES ASSUME I = {1} PROVE Min(I) \in {1}
      OBVIOUS
    <3>2. \E x \in I : \A y \in I : x <= y
      BY <3>1
    <3> QED
      BY <3>1, <3>2 DEF Min
  <2> QED
    BY <2>1
<1>7. Shocked(results, cuts, ceiling).error = "none"
      /\ Shocked(results, cuts, ceiling).value.breaches[1]
           = ((IF results[1].value.dti = None THEN 0 ELSE results[1].value.dti) > ceiling)
  <2> DEFINE dti == [i \in DOMAIN cuts |->
                       IF results[i].value.dti = None THEN 0 ELSE results[i].value.dti]
             breaches == [i \in DOMAIN cuts |-> dti[i] > ceiling]
  <2>1. Shocked(results, cuts, ceiling) =
          Result([dti |-> dti, worst |-> FirstMax(dti), breaches |-> breaches,
                  blocked |-> [i \in DOMAIN cuts |-> results[i].value.blocker]])
    BY Zenon DEF Shocked
  <2>2. dti[1] = (IF results[1].value.dti = None THEN 0 ELSE results[1].value.dti)
    <3> HIDE DEF results
    <3> QED
      BY <1>1
  <2>3. breaches[1] = (dti[1] > ceiling)
    <3> HIDE DEF dti
    <3> QED
      BY <1>1
  <2> HIDE DEF dti, breaches, results, cuts, ceiling
  <2> QED
    BY <2>1, <2>2, <2>3 DEF Result
<1> HIDE DEF I, first, e, results, cuts, ceiling
<1>8. CASE e.error # "none"
  BY <1>1, <1>3, <1>4, <1>5, <1>6, <1>8 DEF Raise, e
<1>9. CASE e.error = "none"
  BY <1>1, <1>3, <1>4, <1>5, <1>7, <1>9 DEF e, ceiling
<1> QED
  BY <1>8, <1>9 DEF e

StressInv ==
    /\ stage \in {"programs", "rates", "matrix"} => stressed = {} /\ rows = {}
    /\ stressed \subseteq Passing
    /\ stage \in {"points", "tax", "verdict", "done"} => Passing \subseteq stressed
    /\ \A i \in stressed : Upstream(cells[i]).error = "none"
    /\ \A row \in rows : row.kind = "income_shock" =>
           \E i \in stressed : row = StressRow(cells[i], "income_shock", IncomeDti(cells[i]))

\* No row is built at the start.
LEMMA StressInit == Init => StressInv
  BY DEF Init, StressInv

\* The rows of a cell depend on the request and the rates.
LEMMA SameRows ==
  ASSUME UNCHANGED <<req, rates>>
  PROVE  \A c : CellRequest(c)' = CellRequest(c) /\ Upstream(c)' = Upstream(c)
                /\ IncomeDti(c)' = IncomeDti(c)
<1>1. ASSUME NEW c PROVE CellRequest(c)' = CellRequest(c)
  BY Zenon DEF CellRequest, ForwardRequest
<1>2. ASSUME NEW c PROVE Upstream(c)' = Upstream(c)
  BY <1>1, Zenon DEF Upstream
<1>3. ASSUME NEW c PROVE IncomeDti(c)' = IncomeDti(c)
  BY Zenon DEF IncomeDti
<1> QED
  BY <1>1, <1>2, <1>3

\* Every step keeps the rows and whose they are.
LEMMA StressStep == StressInv /\ [Next]_vars => StressInv'
<1> SUFFICES ASSUME StressInv, [Next]_vars PROVE StressInv'
  OBVIOUS
<1>1. ASSUME UNCHANGED <<req, rates, cells, stressed, rows>>,
             stage' \in {"programs", "rates", "matrix"} => stage \in {"programs", "rates", "matrix"},
             stage' \in {"points", "tax", "verdict", "done"} => Passing \subseteq stressed
      PROVE  StressInv'
  <2>1. Passing' = Passing
    BY <1>1 DEF Passing
  <2>2. /\ \A i \in stressed : Upstream(cells[i])' = Upstream(cells[i])
        /\ \A i \in stressed : IncomeDti(cells[i])' = IncomeDti(cells[i])
    <3>1. \A i \in stressed : cells'[i] = cells[i]
      BY <1>1
    <3> QED
      BY <1>1, <3>1, SameRows
  <2> QED
    BY <1>1, <2>1, <2>2 DEF StressInv
<1>2. ASSUME stage \in {"programs", "rates", "matrix"}, UNCHANGED <<stressed, rows>>,
             stage' \notin {"points", "tax", "verdict", "done"}
      PROVE  StressInv'
  BY <1>2 DEF StressInv
<1>3. CASE DeterminePrograms
  BY <1>2, <1>3 DEF DeterminePrograms
<1>4. CASE ReadRates
  BY <1>2, <1>4 DEF ReadRates, Fail
<1>5. CASE EvaluateCell
  <2>1. stage = "matrix" /\ UNCHANGED <<stressed, rows>>
    BY <1>5 DEF EvaluateCell
  <2>2. stage' \in {"matrix", "stress", "raised"}
    BY <1>5, Zenon DEF EvaluateCell, Fail
  <2> QED
    BY <1>2, <2>1, <2>2
<1>6. CASE StressCell
  <2>1. stage = "stress" /\ UNCHANGED <<req, rates, cells>>
    BY <1>6 DEF StressCell
  <2>2. PICK i \in Passing \ stressed :
           \E refusal \in {IF Refused(cells[i]) THEN "ValidationError" ELSE Upstream(cells[i]).error} :
               IF refusal # "none" THEN Fail(refusal) /\ UNCHANGED <<stressed, rows>>
               ELSE /\ \E peak : rows' = rows \cup CellRows(cells[i], peak)
                    /\ stressed' = stressed \cup {i}
                    /\ UNCHANGED <<stage, error>>
    BY <1>6, Zenon DEF StressCell
  <2>3. CASE stage' = "raised"
    <3>1. UNCHANGED <<stressed, rows>>
      BY <2>1, <2>2, <2>3
    <3> QED
      BY <1>1, <2>1, <2>3, <3>1
  <2>4. CASE stage' # "raised"
    <3>1. Upstream(cells[i]).error = "none" /\ stressed' = stressed \cup {i} /\ stage' = stage
          /\ \E peak : rows' = rows \cup CellRows(cells[i], peak)
      BY <2>2, <2>4 DEF Fail
    <3>2. PICK peak : rows' = rows \cup CellRows(cells[i], peak)
      BY <3>1
    <3>3. \A row \in CellRows(cells[i], peak) : row.kind = "income_shock" =>
             row = StressRow(cells[i], "income_shock", IncomeDti(cells[i]))
      BY DEF CellRows, StressRow
    <3>4. Passing' = Passing
      BY <2>1 DEF Passing
    <3>5. \A j : /\ Upstream(cells[j])' = Upstream(cells[j])
                 /\ StressRow(cells[j], "income_shock", IncomeDti(cells[j]))'
                      = StressRow(cells[j], "income_shock", IncomeDti(cells[j]))
      <4>1. \A j : cells'[j] = cells[j]
        BY <2>1
      <4>2. \A j : IncomeDti(cells[j])' = IncomeDti(cells[j]) /\ Upstream(cells[j])' = Upstream(cells[j])
        BY <2>1, <4>1, SameRows
      <4> QED
        BY <4>1, <4>2 DEF StressRow
    <3>6. \A j \in stressed' : Upstream(cells[j])'.error = "none"
      BY <3>1, <3>5 DEF StressInv
    <3>7. \A row \in rows' : row.kind = "income_shock" =>
             \E j \in stressed' : row = StressRow(cells[j], "income_shock", IncomeDti(cells[j]))'
      BY <3>1, <3>2, <3>3, <3>5 DEF StressInv
    <3>8. stressed' \subseteq Passing'
      BY <3>1, <3>4 DEF StressInv
    <3> QED
      BY <2>1, <3>1, <3>6, <3>7, <3>8 DEF StressInv
  <2> QED
    BY <2>3, <2>4
<1>7. CASE BuildRefi
  BY <1>1, <1>7 DEF BuildRefi, Fail
<1>8. CASE BuildPoints \/ BuildTax \/ GiveVerdict
  BY <1>1, <1>8 DEF BuildPoints, BuildTax, GiveVerdict, Fail, StressInv
<1>9. CASE UNCHANGED vars
  BY <1>1, <1>9 DEF vars, StressInv
<1> QED
  BY <1>3, <1>4, <1>5, <1>6, <1>7, <1>8, <1>9 DEF Next

\* The income row of a cell says what the engine says of 70 % of the income.
LEMMA StressAgreesInv == MatrixInv /\ StressInv => StressAgrees
<1> SUFFICES ASSUME MatrixInv, StressInv, stage = "done", (70 * req.h.income) % 100 = 0,
                    NEW i \in Passing, NEW row \in rows,
                    row.program = cells[i].program, row.kind = "income_shock",
                    row.program \notin {"VA30", "Jumbo30"}
             PROVE  row.breaches = Upstream(cells[i]).value.breaches[1]
  BY DEF StressAgrees
<1> DEFINE program == Program(i)
           pct == Down(i)
           rate == rates[program]
           c == Base(program, pct, rate)
           s == LessIncome(CellRequest(cells[i]), 30)
           income == req.h.income
           left == Cents(70 * income, 100)
           n == c.piti + req.h.debts
<1>1. i \in stressed /\ Upstream(cells[i]).error = "none" /\ i \in DOMAIN cells
  BY DEF StressInv, Passing
<1>2. /\ program \in Programs /\ pct \in 0..Ratio /\ rate \in 0..RateDen
      /\ Amounts(program, pct).error = "none"
      /\ CellRequest(cells[i]) = Asked(program, pct, rate)
      /\ cells[i].program = program /\ cells[i].pct = pct /\ cells[i].piti = c.piti
  BY <1>1, CellFacts
<1>3. PICK j \in stressed : row = StressRow(cells[j], "income_shock", IncomeDti(cells[j]))
  BY DEF StressInv
<1>4. cells[j] = cells[i]
  <2>1. j \in DOMAIN cells /\ cells[j].pct = req.preferred /\ cells[i].pct = req.preferred
    BY <1>3 DEF StressInv, Passing
  <2>2. cells[j].program = Program(j) /\ cells[j].pct = Down(j)
    BY <2>1, CellFacts
  <2>3. cells[j].program = cells[i].program
    BY <1>3 DEF StressRow
  <2>4. Program(j) = Program(i) /\ Down(j) = Down(i)
    BY <1>2, <2>1, <2>2, <2>3
  <2>5. CellAt(j) = CellAt(i)
    BY <2>4, Zenon DEF CellAt
  <2> QED
    BY <1>1, <2>1, <2>5 DEF MatrixInv
<1>5. row.breaches = (IncomeDti(cells[i]) > DtiCeiling(program))
  BY <1>2, <1>3, <1>4 DEF StressRow
<1>6. req \in Requests /\ income \in Nat \ {0}
  BY RequestAssumption DEF MatrixInv, Household
<1> HIDE DEF program, pct, rate
<1>7. RequestFor(s, program, pct, rate) /\ s.h.income = left /\ left \in Nat \ {0}
  BY <1>2, <1>6, LessIncomeIs
<1>8. /\ Evaluate(s).error = "none"
      /\ Upstream(cells[i]).value.breaches[1]
           = ((IF Evaluate(s).value.dti = None THEN 0 ELSE Evaluate(s).value.dti) > DtiCeiling(program))
  BY <1>1, <1>2, UpstreamIs
<1>9. Upfront(s).error = "none" /\ Premium(s).error = "none" /\ Evaluate(s).value.dti = Response(s).dti
  <2>1. s.mode = "forward"
    BY <1>7 DEF RequestFor
  <2> HIDE DEF s
  <2> QED
    BY <1>8, <2>1, Answers
<1>10. n \in Nat /\ Response(s).dti = Quotient(n, left)
  <2>1. program \notin {"VA30", "Jumbo30"}
    BY <1>2
  <2> HIDE DEF s, c, n, left
  <2>2. /\ c.piti \in Nat /\ req.h.debts \in Nat
        /\ Response(s).dti = Quotient(Response(s).piti + req.h.debts, s.h.income)
        /\ program \notin {"VA30", "Jumbo30"} => Response(s).piti = c.piti
    BY <1>2, <1>6, <1>7, <1>9, EngineDti DEF c
  <2> QED
    BY <1>7, <2>1, <2>2 DEF n
<1>11. 10 * left = 7 * income
  <2> DEFINE t == (70 * income) \div 100
  <2>1. t \in Nat /\ 70 * income = 100 * t
    BY <1>6
  <2> HIDE DEF t
  <2>2. Cents(70 * income, 100) = t
    BY <2>1 DEF Cents
  <2> QED
    BY <1>6, <2>1, <2>2
<1>12. Cents(n * Ratio, left) = Cents(n * Ratio * 10, 7 * income)
  <2> DEFINE x == n * Ratio
  <2> HIDE DEF left, n, income
  <2>1. x \in Nat /\ x * 10 \in Nat /\ 7 * income \in Nat \ {0} /\ left \in Nat \ {0}
    BY <1>6, <1>7, <1>10, RatioAssumption
  <2> HIDE DEF x
  <2>2. x * (7 * income) = (x * 10) * left
    <3>1. x * (7 * income) = x * (10 * left)
      BY <1>11
    <3> QED
      BY <2>1, <3>1
  <2> DEFINE a == x * 10
             b == 7 * income
  <2>3. a \in Nat /\ b \in Nat \ {0} /\ x * b <= a * left /\ a * left <= x * b
    <3>1. x * b \in Nat
      BY <2>1
    <3> QED
      BY <2>1, <2>2, <3>1
  <2> HIDE DEF a, b
  <2>4. Cents(x, left) <= Cents(a, b) /\ Cents(a, b) <= Cents(x, left)
    BY <2>1, <2>3, NoLoan, UnitAssumption, P!CentsMonotonic, SameMoney
  <2>5. Cents(x, left) \in Nat /\ Cents(a, b) \in Nat
    BY <2>1, <2>3, CentsType
  <2>6. Cents(x, left) = Cents(a, b)
    BY <2>4, <2>5
  <2> QED
    BY <2>6 DEF a, b, x
<1>13. IncomeDti(cells[i]) = Cents(n * Ratio * 10, 7 * income)
  BY <1>2 DEF IncomeDti
<1>14. Response(s).dti = IncomeDti(cells[i]) /\ Response(s).dti \in Nat
  <2>1. Quotient(n, left) = Cents(n * Ratio, left)
    BY DEF Quotient
  <2>2. Quotient(n, left) \in Nat
    <3> HIDE DEF n, left
    <3>1. n <= n
      BY <1>10
    <3> QED
      BY <1>7, <1>10, <3>1, QuotientGrows
  <2> HIDE DEF n, left, s
  <2> QED
    BY <1>10, <1>12, <1>13, <2>1, <2>2
<1> HIDE DEF s
<1> QED
  BY <1>5, <1>8, <1>9, <1>14 DEF None

-----------------------------------------------------------------------------
(* The exceptions of analyze.                                              *)

\* A cell fails for a cause.
LEMMA CellFails ==
  ASSUME req \in Requests, NEW program \in Programs, NEW pct \in 0..Ratio, NEW rate \in Int,
         Cell(program, pct, rate).error # "none"
  PROVE  Cause(Cell(program, pct, rate).error, program, pct, rate)
<1> DEFINE amounts == Amounts(program, pct)
           c == Base(program, pct, rate)
           r == Asked(program, pct, rate)
           answer == Evaluate(r)
<1>1. \A e : Raise(e).error = e
  BY DEF Raise
<1>2. \A v : Result(v).error = "none"
  BY DEF Result
<1>3. Cell(program, pct, rate) =
        IF rate \notin 0..RateDen THEN Raise("ValidationError")
        ELSE IF amounts.error # "none" THEN Raise(amounts.error)
        ELSE IF ~ req.h.knownState THEN Raise("KeyError")
        ELSE Judge(c, answer)
  BY Zenon DEF Cell, Then, Base, Asked
<1>4. Judge(c, answer) = IF answer.error \notin {"none", "NotImplementedError"} THEN Raise(answer.error)
                         ELSE Result(Mark(c, Reasons(c.program, answer, c.dti, c.cash)))
  BY Zenon DEF Judge
<1>5. req.h.income \in Nat \ {0} /\ RequestFor(r, program, pct, rate) /\ r.h.income = req.h.income
  BY AskedIsRequest, RequestAssumption DEF Household
<1> HIDE DEF amounts, c, r, answer
<1>6. CASE rate \notin 0..RateDen
  BY <1>1, <1>3, <1>6 DEF Cause
<1>7. CASE rate \in 0..RateDen /\ amounts.error # "none"
  <2>1. program = "VA30" /\ Borrowed(pct) = 0 /\ amounts.error = "ValueError"
    BY <1>7, AmountsFail DEF amounts
  <2> QED
    BY <1>1, <1>3, <1>7, <2>1 DEF Cause
<1>8. CASE rate \in 0..RateDen /\ amounts.error = "none" /\ ~ req.h.knownState
  BY <1>1, <1>3, <1>8 DEF Cause
<1>9. CASE rate \in 0..RateDen /\ amounts.error = "none" /\ req.h.knownState
  <2>1. Cell(program, pct, rate) = Judge(c, answer)
    BY <1>3, <1>9
  <2>2. answer.error \notin {"none", "NotImplementedError"} /\ Cell(program, pct, rate).error = answer.error
    BY <1>1, <1>2, <1>4, <2>1
  <2>3. \/ Cause(answer.error, program, pct, rate)
        \/ answer.error = "NotImplementedError"
    BY <1>5, <1>9, <2>2, EngineFails DEF amounts, answer
  <2> QED
    BY <2>2, <2>3
<1> QED
  BY <1>6, <1>7, <1>8, <1>9

\* Without an exception there is nothing to explain.
LEMMA NoCrash == error = "none" => CrashHasCause
  BY Zenon DEF CrashHasCause, LockErrors

\* What reading the rates fails for is a cause of the analysis.
LEMMA ReadIsCause ==
  ASSUME ReadCause(error'), UNCHANGED req
  PROVE  CrashHasCause'
<1>1. Cached' = Cached /\ \A entry : FromFred(entry)' = FromFred(entry)
  BY DEF Cached, FromFred
<1>2. CASE error' \in LockErrors /\ Cached # {}
  <2>1. error' \in {"FredCacheLockError", "OSError"}
    BY <1>2 DEF LockErrors
  <2> QED
    BY <1>1, <1>2, <2>1 DEF CrashHasCause, LockErrors
<1>3. CASE /\ error' \in {"ValueError", "InvalidOperation", "TypeError"}
           /\ \E entry \in Cached : FromFred(entry).error = error'
  <2>1. \E entry \in Cached' : FromFred(entry)'.error = error'
    BY <1>1, <1>3
  <2> QED
    BY <1>3, <2>1 DEF CrashHasCause, LockErrors
<1> QED
  BY <1>2, <1>3 DEF ReadCause

\* The cause of a cell is one of the analysis.
LEMMA CauseIsOne ==
  ASSUME MatrixInv, RatesRead, NEW program \in Programs, NEW pct, NEW q \in DOMAIN Percentages,
         pct = Percentages[q], program = "VA30" => req.va,
         UNCHANGED <<req, rates>>, Cause(error', program, pct, rates[program])
  PROVE  CrashHasCause'
<1> DEFINE pcts == {Percentages[i] : i \in DOMAIN Percentages}
<1>1. Percentages' = Percentages
  BY SameDowns
<1>2. pct \in pcts
  OBVIOUS
<1>3. \A x : Borrowed(x)' = Borrowed(x) /\ OverInCents(x)' = OverInCents(x)
  BY SameDowns
<1>4. program \in DOMAIN rates \ {"Conv30-ARM-5-1"} /\ rates[program] \in Int
  BY DEF RatesRead, RateNames, Programs
<1> DEFINE e == error'
<1>5. e = "ValidationError" =>
        \/ \E p \in DOMAIN rates \ {"Conv30-ARM-5-1"} : rates[p] \notin 4..(RateDen - 20)
        \/ \E x \in pcts : Cents(Borrowed(x), 100) = 0 \/ OverInCents(x)
  <2>1. rates[program] \notin 0..RateDen => rates[program] \notin 4..(RateDen - 20)
    BY <1>4 DEF RateDen
  <2> HIDE DEF pcts, e
  <2>2. e = "ValidationError" => rates[program] \notin 0..RateDen \/ OverInCents(pct)
    BY DEF Cause, e
  <2> QED
    BY <1>2, <1>4, <2>1, <2>2
<1>6. e = "ValueError" => req.va /\ \E x \in pcts : Borrowed(x) = 0
  <2> HIDE DEF pcts
  <2> QED
    BY <1>2 DEF Cause
<1>7. /\ e \in {"none", "KeyError", "MissingCountyDataError", "ValueError", "ValidationError"}
      /\ e = "KeyError" => ~ req.h.knownState
      /\ e = "MissingCountyDataError" =>
             req.price > Ref.fhaFloor /\ req.h.county \notin DOMAIN Ref.fha \cap DOMAIN Ref.fhfa
  BY DEF Cause
<1> DEFINE pctsNext == {Percentages'[i] : i \in DOMAIN Percentages'}
<1>8. pctsNext = pcts
  BY <1>1
<1>9. CrashHasCause' <=>
        /\ e \in {"none", "KeyError", "MissingCountyDataError", "ValueError", "ValidationError",
                  "InvalidOperation", "TypeError"} \cup LockErrors
        /\ e = "KeyError" => ~ req'.h.knownState
        /\ e = "MissingCountyDataError" =>
               req'.price > Ref.fhaFloor /\ req'.h.county \notin DOMAIN Ref.fha \cap DOMAIN Ref.fhfa
        /\ e \in LockErrors => Cached' # {}
        /\ e \in {"InvalidOperation", "TypeError"} => \E entry \in Cached' : FromFred(entry)'.error = e
        /\ e = "ValueError" => \/ \E entry \in Cached' : FromFred(entry)'.error = e
                               \/ req'.va /\ \E x \in pctsNext : Borrowed(x)' = 0
        /\ e = "ValidationError" =>
               \/ \E p \in DOMAIN rates' \ {"Conv30-ARM-5-1"} : rates'[p] \notin 4..(RateDen - 20)
               \/ \E x \in pctsNext : Cents(Borrowed(x)', 100) = 0 \/ OverInCents(x)'
  BY Zenon DEF CrashHasCause
<1> HIDE DEF pcts, pctsNext, e
<1>10. e \notin LockErrors \cup {"InvalidOperation", "TypeError"}
  BY <1>7 DEF LockErrors
<1> QED
  BY <1>3, <1>5, <1>6, <1>7, <1>8, <1>9, <1>10

\* A rate of which a variation leaves 0 to 100 percent is a cause.
LEMMA RateIsCause ==
  ASSUME NEW p \in DOMAIN rates \ {"Conv30-ARM-5-1"}, rates[p] \notin 4..(RateDen - 20),
         UNCHANGED <<req, rates>>, error' = "ValidationError"
  PROVE  CrashHasCause'
<1>1. \E x \in DOMAIN rates' \ {"Conv30-ARM-5-1"} : rates'[x] \notin 4..(RateDen - 20)
  BY Zenon
<1> QED
  BY <1>1 DEF CrashHasCause, LockErrors

\* And so is a loan of which a point is nothing.
LEMMA PointIsCause ==
  ASSUME NEW q \in DOMAIN Percentages, Cents(Borrowed(Percentages[q]), 100) = 0,
         UNCHANGED req, error' = "ValidationError"
  PROVE  CrashHasCause'
<1>1. Percentages' = Percentages /\ \A pct : Borrowed(pct)' = Borrowed(pct)
  BY SameDowns
<1>2. \E pct \in {Percentages'[i] : i \in DOMAIN Percentages'} : Cents(Borrowed(pct)', 100) = 0
  BY <1>1
<1> QED
  BY <1>2, Zenon DEF CrashHasCause, LockErrors

CrashInv ==
    /\ error = "none" <=> stage # "raised"
    /\ CrashHasCause

\* Nothing has failed at the start.
LEMMA CrashInit == Init => CrashInv
<1> SUFFICES ASSUME Init PROVE CrashInv
  OBVIOUS
<1>1. error = "none" /\ stage = "programs"
  BY DEF Init
<1> QED
  BY <1>1, NoCrash DEF CrashInv

\* Every step that fails does so for a cause.
LEMMA CrashStep == MatrixInv /\ StressInv /\ CrashInv /\ [Next]_vars => CrashInv'
<1> SUFFICES ASSUME MatrixInv, StressInv, CrashInv, [Next]_vars PROVE CrashInv'
  OBVIOUS
<1>1. ASSUME error' = "none", stage' # "raised" PROVE CrashInv'
  <2>1. CrashHasCause'
    BY <1>1, Zenon DEF CrashHasCause, LockErrors
  <2> QED
    BY <1>1, <2>1 DEF CrashInv
<1>2. ASSUME error' # "none", stage' = "raised", CrashHasCause' PROVE CrashInv'
  BY <1>2 DEF CrashInv
<1>3. CASE DeterminePrograms
  BY <1>1, <1>3 DEF DeterminePrograms, CrashInv
<1>4. CASE ReadRates
  <2>1. stage = "rates" /\ UNCHANGED req /\ error = "none"
    BY <1>4 DEF ReadRates, CrashInv
  <2>2. CASE stage' = "matrix"
    BY <1>1, <1>4, <2>1, <2>2 DEF ReadRates, Fail
  <2>3. CASE stage' # "matrix"
    <3>1. PICK lock30, lock15 \in LockErrors \cup {"none"} :
              /\ stage' = "raised" /\ error' # "none"
              /\ \/ error' = Todays(req.given30, req.fred30, lock30).error
                 \/ error' = Todays(req.given15, req.fred15, lock15).error
      BY <1>4, <2>3 DEF ReadRates, Fail
    <3>2. /\ req.given30 \in Optional /\ req.fred30 \in Entry
          /\ req.given15 \in Optional /\ req.fred15 \in Entry
      BY RequestAssumption DEF MatrixInv
    <3>3. CASE error' = Todays(req.given30, req.fred30, lock30).error
      <4>1. req.given30 = None /\ (\/ error' \in LockErrors
                                   \/ /\ error' \in {"ValueError", "InvalidOperation", "TypeError"}
                                      /\ error' = FromFred(req.fred30).error)
        BY <3>1, <3>2, <3>3, TodaysFails
      <4>2. req.fred30 \in Cached
        BY <4>1 DEF Cached
      <4> QED
        BY <1>2, <2>1, <3>1, <4>1, <4>2, ReadIsCause DEF ReadCause
    <3>4. CASE error' = Todays(req.given15, req.fred15, lock15).error
      <4>1. req.given15 = None /\ (\/ error' \in LockErrors
                                   \/ /\ error' \in {"ValueError", "InvalidOperation", "TypeError"}
                                      /\ error' = FromFred(req.fred15).error)
        BY <3>1, <3>2, <3>4, TodaysFails
      <4>2. req.fred15 \in Cached
        BY <4>1 DEF Cached
      <4> QED
        BY <1>2, <2>1, <3>1, <4>1, <4>2, ReadIsCause DEF ReadCause
    <3> QED
      BY <3>1, <3>3, <3>4
  <2> QED
    BY <2>2, <2>3
<1>5. CASE EvaluateCell
  <2> DEFINE i == Len(cells) + 1
             program == Program(i)
             pct == Down(i)
             cell == Cell(program, pct, rates[program])
             last == i = Len(Percentages) * Len(programs)
  <2>1. stage = "matrix" /\ UNCHANGED <<req, programs, rates>> /\ error = "none"
    BY <1>5 DEF EvaluateCell, CrashInv
  <2>2. PICK S : cells \in Seq(S)
    BY DEF MatrixInv
  <2>3. i \in Nat \ {0} /\ i <= Total /\ RatesRead /\ i - 1 = Len(cells)
    <3>1. Len(cells) \in Nat /\ Len(cells) < Total /\ RatesRead
      BY <2>1, <2>2 DEF MatrixInv
    <3>2. Total \in Nat
      <4>1. Len(programs) \in Nat
        BY <2>1, OfferedAre DEF MatrixInv
      <4>2. Len(Percentages) \in Nat
        BY PercentagesAre DEF MatrixInv
      <4> QED
        BY <4>1, <4>2 DEF Total, Size
    <3> QED
      BY <3>1, <3>2
  <2>4. cell = Cell(programs[(Len(cells) \div Len(Percentages)) + 1],
                    Percentages[(Len(cells) % Len(Percentages)) + 1],
                    rates[programs[(Len(cells) \div Len(Percentages)) + 1]])
    <3> HIDE DEF i
    <3> QED
      BY <2>3, Zenon DEF Program, Down, RowOf, ColumnOf
  <2> HIDE DEF cell, last
  <2>5. IF cell.error # "none" THEN stage' = "raised" /\ error' = cell.error
        ELSE stage' = (IF last THEN "stress" ELSE "matrix") /\ error' = error
    BY <1>5, <2>4, Zenon DEF EvaluateCell, Fail, last
  <2>6. CASE cell.error = "none"
    BY <1>1, <2>1, <2>5, <2>6
  <2>7. CASE cell.error # "none"
    <3> HIDE DEF i
    <3>1. /\ program \in Programs /\ pct \in 0..Ratio /\ (program = "VA30" => req.va)
          /\ \E q \in DOMAIN Percentages : pct = Percentages[q]
      BY <2>1, <2>3, PlaceIs
    <3> HIDE DEF program, pct
    <3>2. rates[program] \in Int /\ req \in Requests
      BY <2>3, <3>1 DEF RatesRead, RateNames, Programs, MatrixInv
    <3>3. Cause(cell.error, program, pct, rates[program])
      BY <2>7, <3>1, <3>2, CellFails DEF cell
    <3>4. error' = cell.error /\ stage' = "raised"
      BY <2>5, <2>7
    <3>5. CrashHasCause'
      BY <2>1, <2>3, <3>1, <3>3, <3>4, CauseIsOne
    <3> QED
      BY <1>2, <2>7, <3>4, <3>5
  <2> QED
    BY <2>6, <2>7
<1>6. CASE StressCell
  <2>1. stage = "stress" /\ UNCHANGED <<req, rates, cells>> /\ error = "none"
    BY <1>6 DEF StressCell, CrashInv
  <2>2. PICK i \in Passing \ stressed :
           \E refusal \in {IF Refused(cells[i]) THEN "ValidationError" ELSE Upstream(cells[i]).error} :
               IF refusal # "none" THEN Fail(refusal) /\ UNCHANGED <<stressed, rows>>
               ELSE /\ \E peak : rows' = rows \cup CellRows(cells[i], peak)
                    /\ stressed' = stressed \cup {i}
                    /\ UNCHANGED <<stage, error>>
    BY <1>6, Zenon DEF StressCell
  <2>3. CASE error' = "none"
    BY <1>1, <2>1, <2>2, <2>3 DEF Fail
  <2>4. CASE error' # "none"
    <3> DEFINE program == Program(i)
               pct == Down(i)
               rate == rates[program]
               c == Base(program, pct, rate)
               r == Asked(program, pct, rate)
               s == LessIncome(r, 30)
               reasons == Reasons(program, Evaluate(r), c.dti, c.cash)
    <3>1. stage' = "raised" /\ error' = (IF Refused(cells[i]) THEN "ValidationError" ELSE Upstream(cells[i]).error)
      BY <2>1, <2>2, <2>4 DEF Fail
    <3>2. i \in DOMAIN cells /\ (cells[i].eligible \/ cells[i].program = "VA30")
      BY <2>2 DEF Passing
    <3>3. /\ program \in Programs /\ pct \in 0..Ratio /\ rate \in 0..RateDen
          /\ Amounts(program, pct).error = "none" /\ RatesRead
          /\ program = "VA30" => req.va
          /\ \E q \in DOMAIN Percentages : pct = Percentages[q]
          /\ CellRequest(cells[i]) = r
          /\ cells[i].program = program
          /\ cells[i].eligible = (reasons = {})
      BY <3>2, CellFacts
    <3> HIDE DEF program, pct
    <3>4. req \in Requests
      BY DEF MatrixInv
    <3>5. CASE Refused(cells[i])
      <4>1. error' = "ValidationError"
        BY <3>1, <3>5
      <4>2. /\ program \in DOMAIN rates \ {"Conv30-ARM-5-1"} /\ "Conv30" \in DOMAIN rates \ {"Conv30-ARM-5-1"}
            /\ rates["Conv30"] \in Int /\ rates["Conv30-ARM-5-1"] = rates["Conv30"] - 1
        BY <3>3 DEF RatesRead, RateNames, Programs
      <4>3. CASE rates[program] + 8 > RateDen
        <5>1. rates[program] \notin 4..(RateDen - 20)
          BY <3>3, <4>3 DEF RateDen
        <5> QED
          BY <1>2, <2>1, <3>1, <4>1, <4>2, <5>1, RateIsCause
      <4>4. CASE program = "Conv30" /\ (rates["Conv30-ARM-5-1"] < 0 \/ rates[program] + 20 > RateDen)
        <5>1. rates["Conv30"] \notin 4..(RateDen - 20)
          BY <4>2, <4>4 DEF RateDen
        <5> QED
          BY <1>2, <2>1, <3>1, <4>1, <4>2, <5>1, RateIsCause
      <4> QED
        BY <3>3, <3>5, <4>3, <4>4 DEF Refused
    <3>6. CASE ~ Refused(cells[i])
      <4>1. error' = Upstream(cells[i]).error
        BY <3>1, <3>6
      <4>2. Evaluate(s).error # "none" /\ error' = Evaluate(s).error
        BY <2>4, <3>3, <4>1, UpstreamIs
      <4>3. RequestFor(s, program, pct, rate) /\ s.h.income \in Nat \ {0} /\ Class(s) = Class(r)
        BY <3>4, LessIncomeIs
      <4>4. r.mode = "forward"
        BY DEF Asked, ForwardRequest
      <4> HIDE DEF s, rate
      <4>5. \/ Cause(Evaluate(s).error, program, pct, rate)
            \/ program = "FHA30" /\ Class(s).error # "none"
        BY <3>3, <3>4, <4>2, <4>3, EngineFails
      <4>6. CASE program = "FHA30" /\ Class(s).error # "none"
        <5> HIDE DEF r, c
        <5>1. reasons = {}
          BY <3>2, <3>3, <4>6
        <5>2. Evaluate(r).error = "none"
          BY <5>1 DEF Reasons
        <5>3. Class(r).error = "none"
          BY <4>4, <5>2, Answers
        <5> QED
          BY <4>3, <4>6, <5>3
      <4>7. CASE Cause(Evaluate(s).error, program, pct, rate)
        <5>1. CrashHasCause'
          BY <2>1, <3>3, <4>2, <4>7, CauseIsOne DEF rate
        <5> QED
          BY <1>2, <2>4, <3>1, <5>1
      <4> QED
        BY <4>5, <4>6, <4>7
    <3> QED
      BY <3>5, <3>6
  <2> QED
    BY <2>3, <2>4
<1>7. CASE BuildRefi
  <2>1. stage = "stress" /\ UNCHANGED <<req, rates, cells>> /\ error = "none"
    BY <1>7 DEF BuildRefi, CrashInv
  <2>2. CASE ~ \E i \in Passing : rates[cells[i].program] < 4
    BY <1>1, <1>7, <2>1, <2>2 DEF BuildRefi
  <2>3. ASSUME NEW i \in Passing, rates[cells[i].program] < 4 PROVE CrashInv'
    <3>1. stage' = "raised" /\ error' = "ValidationError"
      BY <1>7, <2>3 DEF BuildRefi, Fail
    <3>2. i \in DOMAIN cells
      BY DEF Passing
    <3>3. cells[i].program \in Programs /\ RatesRead
      BY <3>2, CellFacts
    <3>4. cells[i].program \in DOMAIN rates \ {"Conv30-ARM-5-1"} /\ rates[cells[i].program] \in Int
      BY <3>3 DEF RatesRead, RateNames, Programs
    <3>5. rates[cells[i].program] \notin 4..(RateDen - 20)
      BY <2>3, <3>4
    <3>6. CrashHasCause'
      BY <2>1, <3>1, <3>4, <3>5, RateIsCause
    <3> QED
      BY <1>2, <3>1, <3>6
  <2> QED
    BY <2>2, <2>3
<1>8. CASE BuildPoints
  <2> DEFINE Cost(c, n) == IF c.program \in Family THEN Cents(c.financed * n, 100) ELSE None
  <2>1. stage = "points" /\ UNCHANGED <<req, rates, cells>> /\ error = "none"
    BY <1>8 DEF BuildPoints, CrashInv
  <2>2. CASE ~ \E i \in Passing : Cost(cells[i], 1) = 0
    BY <1>1, <1>8, <2>1, <2>2 DEF BuildPoints
  <2>3. ASSUME NEW i \in Passing, Cost(cells[i], 1) = 0 PROVE CrashInv'
    <3> DEFINE program == Program(i)
               pct == Down(i)
               rate == rates[program]
    <3>1. stage' = "raised" /\ error' = "ValidationError"
      BY <1>8, <2>3 DEF BuildPoints, Fail
    <3>2. i \in DOMAIN cells
      BY DEF Passing
    <3>3. cells[i].program = program /\ program \in Programs /\ pct \in 0..Ratio /\ rate \in 0..RateDen
          /\ Amounts(program, pct).error = "none" /\ RatesRead
          /\ (program = "VA30" => req.va)
          /\ (\E q \in DOMAIN Percentages : pct = Percentages[q])
          /\ cells[i].financed = Base(program, pct, rate).financed
      BY <3>2, CellFacts
    <3> HIDE DEF program, pct, rate
    <3>4. program \in Family
      BY <2>3, <3>3 DEF None
    <3>5. cells[i].financed = Borrowed(pct) /\ Borrowed(pct) \in Nat
      <4>1. Base(program, pct, rate).financed = Amounts(program, pct).value.financed
        BY DEF Base, Unjudged
      <4>2. Amounts(program, pct).value.financed = Borrowed(pct)
        BY <3>4, FamilyAmounts DEF Result
      <4>3. Borrowed(pct) \in Nat
        BY <3>3, LoanType DEF MatrixInv
      <4> QED
        BY <3>3, <4>1, <4>2, <4>3
    <3>6. Cents(Borrowed(pct), 100) = 0
      <4>1. cells[i].financed * 1 = Borrowed(pct)
        BY <3>5
      <4> QED
        BY <2>3, <3>3, <3>4, <4>1
    <3>7. CrashHasCause'
      BY <2>1, <3>1, <3>3, <3>6, PointIsCause
    <3> QED
      BY <1>2, <3>1, <3>7
  <2> QED
    BY <2>2, <2>3
<1>9. CASE BuildTax \/ GiveVerdict
  BY <1>1, <1>9 DEF BuildTax, GiveVerdict, CrashInv
<1>10. CASE UNCHANGED vars
  <2>1. CrashHasCause'
    <3>1. UNCHANGED <<req, rates, error>>
      BY <1>10 DEF vars
    <3>2. Percentages' = Percentages
      BY <3>1, SameDowns
    <3>3. \A x : Borrowed(x)' = Borrowed(x) /\ OverInCents(x)' = OverInCents(x)
      BY <3>1, SameDowns
    <3>4. Cached' = Cached /\ \A entry : FromFred(entry)' = FromFred(entry)
      BY <3>1 DEF Cached, FromFred
    <3>5. CrashHasCause
      BY DEF CrashInv
    <3> QED
      BY <3>1, <3>2, <3>3, <3>4, <3>5 DEF CrashHasCause, LockErrors
  <2> QED
    BY <1>10, <2>1 DEF CrashInv, vars
<1> QED
  BY <1>3, <1>4, <1>5, <1>6, <1>7, <1>8, <1>9, <1>10 DEF Next

\* _programs_present chooses the programs by the class of the price and the
\* engine classifies the loan: no listing, household or table of limits leaves a
\* down payment whose loan is too large for Conv30 and too small for Jumbo30.
THEOREM MatrixIsAnOffer == Spec => []LimitLeavesAProgram
  BY MatrixInit, MatrixStep, LimitInv, PTL DEF Spec

\* The DTI that _build_program_result shows is the one that evaluate_forward
\* judges, to the last digit, for conventional and FHA cells; for VA30 and
\* Jumbo30 it is never below the engine's.
THEOREM MatrixIsJudged == Spec => []EngineAgrees
  BY MatrixInit, MatrixStep, AgreesInv, PTL DEF Spec

\* _stress_row_from_income_shock computes its own DTI of 70 % of the income, and
\* its breach is that of lib/stress.income_shock on the request of the cell,
\* where 70 % of the income is a number of cents.
THEOREM StressIsJudged == Spec => []StressAgrees
  BY MatrixInit, MatrixStep, StressInit, StressStep, StressAgreesInv, PTL DEF Spec

\* The invariant explains every exception.
LEMMA CrashIs == CrashInv => CrashHasCause
  BY DEF CrashInv

\* Every exception of analyze has a cause in the listing, the household, the
\* tables, or a series of the cache that it reads, its entry or its lock; none
\* comes from the rules and the engine for amounts that they accept.
THEOREM CrashIsExplained == Spec => []CrashHasCause
  BY MatrixInit, MatrixStep, StressInit, StressStep, CrashInit, CrashStep, CrashIs, PTL DEF Spec

-----------------------------------------------------------------------------
(* A larger down payment.                                                  *)

\* The annual premium of a long term, by the LTV and the amount.
LEMMA LongMip ==
  ASSUME NEW loan \in Nat, NEW value \in Nat \ {0}, loan <= value
  PROVE  AnnualMip(loan, value, Ref.longTerm).value =
           IF Ref.mipTier = NoCap \/ loan <= Ref.mipTier
           THEN IF Above(loan, value, 950) THEN 55 ELSE 50
           ELSE IF Above(loan, value, 950) THEN 75 ELSE 70
<1> DEFINE term == Ref.longTerm
           Matches(row) ==
              /\ IF row[1] THEN term \in (Ref.shortTerm + 1)..Ref.longTerm ELSE term \in 1..Ref.shortTerm
              /\ row[2] = 0 \/ Above(loan, value, row[2])
              /\ ~ Above(loan, value, row[3])
              /\ row[4] = NoCap \/ loan <= row[4]
           I == {i \in 1..Len(MipTable) : Matches(MipTable[i])}
           k == SelectInSeq(MipTable, Matches)
           capped == Ref.mipTier = NoCap \/ loan <= Ref.mipTier
           over(pm) == Above(loan, value, pm)
<1>1. AnnualMip(loan, value, term) = IF k = 0 THEN Raise("LookupError") ELSE Result(MipTable[k][5])
  BY DEF AnnualMip
<1>2. k = IF I # {} THEN Min(I) ELSE 0
  BY Zenon DEF SelectInSeq
<1>3. Len(MipTable) = 13
  BY DEF MipTable
<1>4. I # {} => Min(I) \in I /\ \A j \in I : Min(I) <= j
  <2>1. I \in SUBSET (1..13)
    BY <1>3
  <2> HIDE DEF I
  <2> QED
    BY <2>1, LeastIndex, Zenon DEF Min
<1>5. term \in (Ref.shortTerm + 1)..Ref.longTerm /\ term \notin 1..Ref.shortTerm
  BY RefAssumption
<1>6. ~ over(1000) /\ (over(950) => over(900)) /\ (over(900) => over(780))
  BY DEF Above
<1> HIDE DEF over
<1>7. /\ Matches(MipTable[1]) <=> capped /\ over(950)
      /\ Matches(MipTable[2]) <=> capped /\ over(900) /\ ~ over(950)
      /\ Matches(MipTable[3]) <=> capped /\ ~ over(900)
  <2>1. /\ MipTable[1] = <<TRUE, 950, 1000, Ref.mipTier, 55>>
        /\ MipTable[2] = <<TRUE, 900, 950, Ref.mipTier, 50>>
        /\ MipTable[3] = <<TRUE, 0, 900, Ref.mipTier, 50>>
    BY DEF MipTable
  <2> HIDE DEF term
  <2> QED
    BY <1>5, <1>6, <2>1 DEF over
<1>8. \A i \in {4, 5, 6} : ~ Matches(MipTable[i])
  <2>1. /\ MipTable[4] = <<FALSE, 900, 1000, Ref.mipTier, 40>>
        /\ MipTable[5] = <<FALSE, 780, 900, Ref.mipTier, 15>>
        /\ MipTable[6] = <<FALSE, 0, 780, Ref.mipTier, 15>>
    BY DEF MipTable
  <2> HIDE DEF term
  <2>2. ~ Matches(MipTable[4])
    BY <1>5, <2>1
  <2>3. ~ Matches(MipTable[5])
    BY <1>5, <2>1
  <2>4. ~ Matches(MipTable[6])
    BY <1>5, <2>1
  <2> QED
    BY <2>2, <2>3, <2>4
<1>9. /\ Matches(MipTable[7]) <=> over(950)
      /\ Matches(MipTable[8]) <=> over(900) /\ ~ over(950)
      /\ Matches(MipTable[9]) <=> over(780) /\ ~ over(900)
      /\ Matches(MipTable[10]) <=> ~ over(780)
  <2>1. /\ MipTable[7] = <<TRUE, 950, 1000, NoCap, 75>> /\ MipTable[8] = <<TRUE, 900, 950, NoCap, 70>>
        /\ MipTable[9] = <<TRUE, 780, 900, NoCap, 70>> /\ MipTable[10] = <<TRUE, 0, 780, NoCap, 70>>
    BY DEF MipTable
  <2> HIDE DEF term
  <2> QED
    BY <1>5, <1>6, <2>1 DEF over, NoCap
<1>10. \A i \in 1..13 : i \in I <=> Matches(MipTable[i])
  BY <1>3
<1> DEFINE Rate(i) == MipTable[i][5]
<1>11. Rate(1) = 55 /\ Rate(2) = 50 /\ Rate(3) = 50 /\ Rate(7) = 75
       /\ Rate(8) = 70 /\ Rate(9) = 70 /\ Rate(10) = 70
  BY DEF MipTable
<1>12. I \subseteq 1..13
  BY <1>3
<1>13. k # 0 => AnnualMip(loan, value, term).value = Rate(k)
  BY <1>1 DEF Result
<1>14. /\ 1 \in I <=> capped /\ over(950)
       /\ 2 \in I <=> capped /\ over(900) /\ ~ over(950)
       /\ 3 \in I <=> capped /\ ~ over(900)
       /\ 4 \notin I /\ 5 \notin I /\ 6 \notin I
       /\ 7 \in I <=> over(950)
       /\ 8 \in I <=> over(900) /\ ~ over(950)
       /\ 9 \in I <=> over(780) /\ ~ over(900)
       /\ 10 \in I <=> ~ over(780)
  <2> HIDE DEF Matches, I, capped
  <2> QED
    BY <1>7, <1>8, <1>9, <1>10
<1> HIDE DEF I, k, capped, Rate, Matches
<1>20. ASSUME NEW i \in I PROVE k \in I /\ k \in 1..13 /\ i \in 1..13 /\ \A j \in I : k <= j
  <2>1. k = Min(I) /\ Min(I) \in I /\ \A j \in I : Min(I) <= j
    BY <1>2, <1>4, <1>20
  <2> QED
    BY <1>12, <1>20, <2>1
<1>15. capped => k # 0 /\ Rate(k) = IF over(950) THEN 55 ELSE 50
  <2>1. SUFFICES ASSUME capped PROVE k # 0 /\ Rate(k) = IF over(950) THEN 55 ELSE 50
    OBVIOUS
  <2>2. CASE over(950)
    <3>1. 1 \in I
      BY <1>14, <2>1, <2>2
    <3>2. k = 1
      BY <1>20, <3>1
    <3> QED
      BY <1>11, <2>2, <3>2
  <2>3. CASE ~ over(950)
    <3>1. 1 \notin I /\ (2 \in I \/ 3 \in I)
      BY <1>14, <2>1, <2>3
    <3>2. k = 2 \/ k = 3
      BY <1>20, <3>1
    <3> QED
      BY <1>11, <2>3, <3>2
  <2> QED
    BY <2>2, <2>3
<1>16. ~ capped => k # 0 /\ Rate(k) = IF over(950) THEN 75 ELSE 70
  <2>1. SUFFICES ASSUME ~ capped PROVE k # 0 /\ Rate(k) = IF over(950) THEN 75 ELSE 70
    OBVIOUS
  <2>2. 1 \notin I /\ 2 \notin I /\ 3 \notin I /\ 4 \notin I /\ 5 \notin I /\ 6 \notin I
    BY <1>14, <2>1
  <2>3. CASE over(950)
    <3>1. 7 \in I
      BY <1>14, <2>3
    <3>2. k = 7
      BY <1>20, <2>2, <3>1
    <3> QED
      BY <1>11, <2>3, <3>2
  <2>4. CASE ~ over(950)
    <3>1. 7 \notin I /\ (8 \in I \/ 9 \in I \/ 10 \in I)
      BY <1>6, <1>14, <2>4
    <3>2. k \in {8, 9, 10}
      BY <1>20, <2>2, <3>1
    <3> QED
      BY <1>11, <2>4, <3>2
  <2> QED
    BY <2>3, <2>4
<1> QED
  BY <1>13, <1>15, <1>16 DEF capped, over

Insured == {"Conv30", "Conv15", "FHA30"}

\* A larger down payment leaves a loan that is no larger.
LEMMA BorrowedShrinks ==
  ASSUME req \in Requests, NEW x \in 0..Ratio, NEW y \in 0..Ratio, x <= y
  PROVE  Borrowed(y) <= Borrowed(x)
<1> DEFINE p == req.price
<1>1. p \in Nat /\ Ratio \in Nat \ {0}
  BY RequestAssumption, RatioAssumption
<1> HIDE DEF p
<1> DEFINE n == p * x
           m == p * y
<1>2. n \in Nat /\ m \in Nat /\ n <= m
  <2>1. p * (y - x) >= 0
    BY <1>1
  <2> QED
    BY <1>1, <2>1
<1> HIDE DEF n, m
<1>3. Cents(n, Ratio) \in Nat /\ Cents(m, Ratio) \in Nat /\ Cents(n, Ratio) <= Cents(m, Ratio)
  BY <1>1, <1>2, CentsType, CentsGrow
<1>4. Borrowed(x) = p - Cents(n, Ratio) /\ Borrowed(y) = p - Cents(m, Ratio)
  BY DEF Borrowed, p, n, m
<1> QED
  BY <1>1, <1>3, <1>4

\* Nor is its premium.
LEMMA AmountsShrink ==
  ASSUME req \in Requests, NEW program \in Insured, NEW x \in 0..Ratio, NEW y \in 0..Ratio, x <= y
  PROVE  LET a == Amounts(program, x).value
             b == Amounts(program, y).value
         IN  /\ a.financed \in Nat /\ b.financed \in Nat /\ b.financed <= a.financed
             /\ a.mi \in Nat /\ b.mi \in Nat /\ b.mi <= a.mi
<1> DEFINE a == Amounts(program, x).value
           b == Amounts(program, y).value
           s == Borrowed(x)
           t == Borrowed(y)
<1>1. /\ req.price \in Nat \ {0} /\ s \in Nat /\ t \in Nat /\ s <= req.price /\ t <= req.price
      /\ t <= s
  BY LoanType, BorrowedShrinks
<1>2. \A v : Result(v).error = "none" /\ Result(v).value = v
  BY DEF Result
<1>3. \A pm \in Nat : Above(t, req.price, pm) => Above(s, req.price, pm)
  <2> HIDE DEF s, t
  <2> QED
    BY <1>1 DEF Above
<1>4. CASE program # "FHA30"
  <2>1. /\ a.financed = s /\ a.mi = (IF Above(s, req.price, 800) THEN Cents(s * 75, 120000) ELSE 0)
        /\ b.financed = t /\ b.mi = (IF Above(t, req.price, 800) THEN Cents(t * 75, 120000) ELSE 0)
    <3>1. program \in Family
      BY <1>4 DEF Family, Insured
    <3>2. a = [financed |-> s, estimated |-> Above(s, req.price, 800),
               mi |-> IF Above(s, req.price, 800) THEN Cents(s * 75, 120000) ELSE 0]
      BY <1>2, <3>1, FamilyAmounts
    <3>3. b = [financed |-> t, estimated |-> Above(t, req.price, 800),
               mi |-> IF Above(t, req.price, 800) THEN Cents(t * 75, 120000) ELSE 0]
      BY <1>2, <3>1, FamilyAmounts
    <3> HIDE DEF s, t, a, b
    <3> QED
      BY <3>2, <3>3
  <2> HIDE DEF s, t, a, b
  <2> DEFINE n == s * 75
             m == t * 75
  <2>2. n \in Nat /\ m \in Nat /\ m <= n
    BY <1>1
  <2> HIDE DEF n, m
  <2>3. Cents(n, 120000) \in Nat /\ Cents(m, 120000) \in Nat /\ Cents(m, 120000) <= Cents(n, 120000)
    BY <2>2, CentsType, CentsGrow
  <2> QED
    BY <1>1, <1>3, <2>1, <2>3 DEF n, m, a, b
<1>5. CASE program = "FHA30"
  <2> DEFINE ms == Mip(s, req.price, Ref.longTerm)
             mt == Mip(t, req.price, Ref.longTerm)
             u == Cents(s * 175, 10000)
             w == Cents(t * 175, 10000)
  <2>1. Ref.longTerm \in 1..Ref.longTerm /\ Ref.shortTerm \in Nat /\ Ref.longTerm \in Nat
    BY RefAssumption
  <2>2. ms.error = "none" /\ mt.error = "none"
    <3> HIDE DEF s, t
    <3> QED
      BY <1>1, <2>1, MipIsListed
  <2>3. ASSUME NEW l \in {s, t}
        PROVE  /\ Mip(l, req.price, Ref.longTerm).value.upfront = Cents(l * 175, 10000)
               /\ Mip(l, req.price, Ref.longTerm).value.bps = AnnualMip(l, req.price, Ref.longTerm).value
               /\ AnnualMip(l, req.price, Ref.longTerm).error = "none"
    <3> DEFINE bps == AnnualMip(l, req.price, Ref.longTerm)
    <3>1. Mip(l, req.price, Ref.longTerm) =
            IF req.price <= 0 \/ l > req.price THEN Raise("ValueError")
            ELSE IF bps.error # "none" THEN Raise(bps.error)
            ELSE Result([bps |-> bps.value, upfront |-> Cents(l * 175, 10000)])
      BY DEF Mip, Then
    <3>2. Mip(l, req.price, Ref.longTerm).error = "none"
      BY <2>2, <2>3
    <3> HIDE DEF bps
    <3> QED
      BY <3>1, <3>2 DEF Raise, Result, bps
  <2> DEFINE p == AnnualMip(s, req.price, Ref.longTerm).value
             q == AnnualMip(t, req.price, Ref.longTerm).value
  <2>4. p \in Nat /\ q \in Nat /\ q <= p
    <3> HIDE DEF s, t
    <3>1. p = IF Ref.mipTier = NoCap \/ s <= Ref.mipTier
              THEN IF Above(s, req.price, 950) THEN 55 ELSE 50
              ELSE IF Above(s, req.price, 950) THEN 75 ELSE 70
      BY <1>1, LongMip
    <3>2. q = IF Ref.mipTier = NoCap \/ t <= Ref.mipTier
              THEN IF Above(t, req.price, 950) THEN 55 ELSE 50
              ELSE IF Above(t, req.price, 950) THEN 75 ELSE 70
      BY <1>1, LongMip
    <3>3. Ref.mipTier \in Nat
      BY RefAssumption
    <3> HIDE DEF p, q
    <3>4. Above(t, req.price, 950) => Above(s, req.price, 950)
      BY <1>3
    <3>5. s <= Ref.mipTier => t <= Ref.mipTier
      BY <1>1, <3>3
    <3> QED
      BY <3>1, <3>2, <3>4, <3>5
  <2>5. u \in Nat /\ w \in Nat /\ w <= u
    <3> DEFINE n == s * 175
               m == t * 175
    <3>1. n \in Nat /\ m \in Nat /\ m <= n
      <4> HIDE DEF s, t
      <4> QED
        BY <1>1
    <3> HIDE DEF n, m
    <3>2. Cents(n, 10000) \in Nat /\ Cents(m, 10000) \in Nat /\ Cents(m, 10000) <= Cents(n, 10000)
      BY <3>1, CentsType, CentsGrow
    <3> QED
      BY <3>2 DEF n, m
  <2> DEFINE f == s + u
             g == t + w
             n == f * p
             m == g * q
  <2>6. /\ a = [financed |-> s + ms.value.upfront, estimated |-> FALSE,
                mi |-> Cents((s + ms.value.upfront) * ms.value.bps, 120000)]
        /\ b = [financed |-> t + mt.value.upfront, estimated |-> FALSE,
                mi |-> Cents((t + mt.value.upfront) * mt.value.bps, 120000)]
    <3>1. \A pct : LET mip == Mip(Borrowed(pct), req.price, Ref.longTerm)
                   IN  mip.error = "none" =>
                         Amounts("FHA30", pct).value =
                            [financed |-> Borrowed(pct) + mip.value.upfront, estimated |-> FALSE,
                             mi |-> Cents((Borrowed(pct) + mip.value.upfront) * mip.value.bps, 120000)]
      BY <1>2, FhaAmounts
    <3> QED
      BY <1>5, <2>2, <3>1
  <2>7. ms.value.upfront = u /\ ms.value.bps = p /\ mt.value.upfront = w /\ mt.value.bps = q
    BY <2>3
  <2>8. a.financed = f /\ a.mi = Cents(n, 120000) /\ b.financed = g /\ b.mi = Cents(m, 120000)
    <3> HIDE DEF a, b, ms, mt, u, w, p, q, s, t
    <3> QED
      BY <2>6, <2>7
  <2> HIDE DEF a, b, ms, mt, u, w, p, q, s, t
  <2>9. f \in Nat /\ g \in Nat /\ g <= f
    BY <1>1, <2>5
  <2> HIDE DEF f, g
  <2>10. n \in Nat /\ m \in Nat /\ m <= n
    <3>1. (f - g) * p >= 0 /\ g * (p - q) >= 0
      BY <2>4, <2>9
    <3> QED
      BY <2>4, <2>9, <3>1
  <2> HIDE DEF n, m
  <2>11. Cents(n, 120000) \in Nat /\ Cents(m, 120000) \in Nat /\ Cents(m, 120000) <= Cents(n, 120000)
    BY <2>10, CentsType, CentsGrow
  <2> QED
    BY <2>8, <2>9, <2>11 DEF a, b
<1> QED
  BY <1>4, <1>5

\* A smaller loan is of a class that the target accepts when a larger one is.
LEMMA ClassShrinks ==
  ASSUME NEW s \in Nat, NEW t \in Nat, t <= s, NEW county, NEW target \in {"conventional", "fha"},
         ClassifyTarget(s, county, target).error = "none",
         ClassifyTarget(s, county, target).value.blocker = "none"
  PROVE  /\ ClassifyTarget(t, county, target).error = "none"
         /\ ClassifyTarget(t, county, target).value.blocker = "none"
<1> DEFINE Of(l) == Classify(l, county, target)
<1>1. \A l : ClassifyTarget(l, county, target) =
               IF Of(l).error # "none" THEN Raise(Of(l).error)
               ELSE Result([class |-> Of(l).value,
                            blocker |-> IF Of(l).value \in Accepted(target) THEN "none" ELSE "LIMIT"])
  BY Zenon DEF ClassifyTarget, Then
<1>2. Of(s).error = "none" /\ Of(s).value \in Accepted(target)
  <2> HIDE DEF Of
  <2> QED
    BY <1>1 DEF Raise, Result
<1>3. /\ Ref.fhaFloor \in Nat /\ Ref.baseline \in Nat
      /\ \A x \in DOMAIN Ref.fhfa : Ref.fhfa[x] \in Nat
      /\ \A x \in DOMAIN Ref.fha : Ref.fha[x] \in Nat
  BY RefAssumption
<1>4. Of(t).error = "none" /\ Of(t).value \in Accepted(target)
  <2>1. CASE target = "conventional"
    <3>1. Of(s) = ClassifyConventional(s, county) /\ Of(t) = ClassifyConventional(t, county)
      BY <2>1 DEF Classify
    <3>2. Accepted(target) = {"conforming", "high_balance"}
      BY <2>1 DEF Accepted
    <3> HIDE DEF Of
    <3> QED
      BY <1>2, <1>3, <3>1, <3>2 DEF ClassifyConventional, Raise, Result
  <2>2. CASE target = "fha"
    <3>1. Of(s) = ClassifyFha(s, county) /\ Of(t) = ClassifyFha(t, county)
      BY <2>2 DEF Classify
    <3>2. Accepted(target) = {"fha_standard", "fha_high_balance"}
      BY <2>2 DEF Accepted
    <3> HIDE DEF Of
    <3> QED
      BY <1>2, <1>3, <3>1, <3>2 DEF ClassifyFha, Raise, Result
  <2> QED
    BY <2>1, <2>2
<1> HIDE DEF Of
<1> QED
  BY <1>1, <1>4 DEF Result

\* The answer's limit is that of its class.
LEMMA ResponseIs ==
  ASSUME NEW r
  PROVE  /\ Response(r).blocker = Class(r).value.blocker
         /\ Response(r).ltv = Quotient(Financed(r), r.value)
  BY DEF Response, Priced, Result

\* A cell without a reason: the engine finds nothing against its loan.
LEMMA CleanIs ==
  ASSUME NEW program, NEW r, r.mode = "forward", NEW dti, NEW cash,
         Reasons(program, Evaluate(r), dti, cash) = {}
  PROVE  /\ program # "VA30" /\ Evaluate(r).error = "none"
         /\ Class(r).error = "none" /\ Class(r).value.blocker = "none"
         /\ Rung(r, Response(r)) = {}
<1>1. /\ program # "VA30" /\ Evaluate(r).error = "none" /\ Evaluate(r).value.blocker = "none"
  BY DEF Reasons
<1>2. Response(r).blocker = "none"
  BY <1>1, Answers
<1>3. PICK i \in 0..7 : /\ Evaluate(r).value.blocker = IF i = 0 THEN "none" ELSE Ladder[i]
                        /\ i = 0 => Rung(r, Response(r)) = {}
                        /\ i # 0 => i \in Rung(r, Response(r)) /\ \A j \in Rung(r, Response(r)) : i <= j
  BY <1>1, <1>2, Answers
<1>4. \A k \in 1..7 : Ladder[k] # "none"
  BY DEF Ladder
<1>5. i = 0
  BY <1>1, <1>3, <1>4
<1> QED
  BY <1>1, <1>2, <1>3, <1>5, Answers, ResponseIs

\* And the converse: nothing against the loan leaves only the cash.
LEMMA CleanGives ==
  ASSUME NEW program, program # "VA30", NEW r, r.mode = "forward", NEW dti, NEW cash,
         Evaluate(r).error = "none", Class(r).value.blocker = "none", Rung(r, Response(r)) = {}
  PROVE  Reasons(program, Evaluate(r), dti, cash) \subseteq {"CASH-TO-CLOSE-RESERVES"}
<1>1. Response(r).blocker = "none"
  BY ResponseIs
<1>2. PICK i \in 0..7 : /\ Evaluate(r).value.blocker = IF i = 0 THEN "none" ELSE Ladder[i]
                        /\ i = 0 => Rung(r, Response(r)) = {}
                        /\ i # 0 => i \in Rung(r, Response(r)) /\ \A j \in Rung(r, Response(r)) : i <= j
  BY <1>1, Answers
<1>3. Evaluate(r).value.blocker = "none"
  BY <1>2
<1> QED
  BY <1>3 DEF Reasons

\* Of the ladder only the LTV and the DTI can speak against an insured loan.
LEMMA RungIs ==
  ASSUME NEW program \in Insured, NEW pct, NEW rate, NEW r, RequestFor(r, program, pct, rate),
         program # "FHA30" => Financed(r) = Borrowed(pct), Response(r).dti \in Nat, Borrowed(pct) \in Nat
  PROVE  Rung(r, Response(r)) = {} <=>
           /\ ~ OverCeiling(Quotient(Borrowed(pct), req.price), Target(program))
           /\ ~ (Response(r).dti > r.maxDti)
<1> DEFINE b == Response(r)
           over == OverCeiling(Quotient(Borrowed(pct), req.price), Target(program))
<1>1. /\ r.mode = "forward" /\ r.target = Target(program) /\ r.loan = Borrowed(pct)
      /\ r.value = req.price /\ r.apr = None /\ r.junior = 0
  BY DEF RequestFor
<1>2. /\ r.target \in {"conventional", "fha"} /\ (r.target = "fha" <=> program = "FHA30")
  BY <1>1 DEF Target, Insured
<1>3. CeilingLtv(r, b, 0) = Quotient(Borrowed(pct), req.price)
  <2>1. b.ltv = Quotient(Financed(r), r.value)
    BY ResponseIs
  <2>2. CASE program = "FHA30"
    <3> HIDE DEF b
    <3>1. CeilingLtv(r, b, 0) = Quotient(r.loan + 0, r.value)
      BY <1>2, <2>2 DEF CeilingLtv
    <3>2. r.loan + 0 = r.loan
      BY <1>1
    <3> QED
      BY <1>1, <3>1, <3>2
  <2>3. CASE program # "FHA30"
    <3> HIDE DEF b
    <3> QED
      BY <1>1, <1>2, <2>1, <2>3 DEF CeilingLtv
  <2> QED
    BY <2>2, <2>3
<1>4. b.dti \in Nat /\ b.dti # None
  BY DEF None
<1> HIDE DEF b
<1> HIDE DEF over
<1>5. /\ Ladder[1] = "USDA-INCOME-LIMIT" /\ Ladder[2] = "LTV-CEILING" /\ Ladder[3] = "CLTV-CEILING"
      /\ Ladder[4] = "DTI-CAP" /\ Ladder[5] = "ATR-QM" /\ Ladder[6] = "VA-RESIDUAL-NOT-SUPPLIED"
      /\ Ladder[7] = "VA-RESIDUAL"
  BY DEF Ladder
<1>6. ~ Applies(Ladder[1], r, b)
  BY <1>2, <1>5 DEF Applies
<1>7. Applies(Ladder[2], r, b) <=> over
  BY <1>1, <1>3, <1>5 DEF Applies, over
<1>8. Applies(Ladder[3], r, b) <=> over
  BY <1>1, <1>3, <1>5 DEF Applies, over
<1>9. Applies(Ladder[4], r, b) <=> b.dti > r.maxDti
  BY <1>4, <1>5 DEF Applies
<1>10. ~ Applies(Ladder[5], r, b)
  BY <1>1, <1>5 DEF Applies
<1>11. ~ Applies(Ladder[6], r, b)
  BY <1>2, <1>5 DEF Applies
<1>12. ~ Applies(Ladder[7], r, b)
  BY <1>2, <1>5 DEF Applies
<1>13. \A i \in 1..7 : Applies(Ladder[i], r, b) <=> (i \in {2, 3} /\ over) \/ (i = 4 /\ b.dti > r.maxDti)
  <2> SUFFICES ASSUME NEW i \in 1..7
               PROVE  Applies(Ladder[i], r, b) <=> (i \in {2, 3} /\ over) \/ (i = 4 /\ b.dti > r.maxDti)
    OBVIOUS
  <2>1. i = 1 \/ i = 2 \/ i = 3 \/ i = 4 \/ i = 5 \/ i = 6 \/ i = 7
    OBVIOUS
  <2> QED
    BY <1>6, <1>7, <1>8, <1>9, <1>10, <1>11, <1>12, <2>1
<1>14. Rung(r, b) = {} <=> \A i \in 1..7 : ~ Applies(Ladder[i], r, b)
  BY Zenon DEF Rung
<1>15. Rung(r, b) = {} <=> ~ over /\ ~ (b.dti > r.maxDti)
  BY <1>13, <1>14
<1> QED
  BY <1>15 DEF over, b

\* A larger down payment lowers neither the LTV's nor the DTI's headroom.
LEMMA LighterCell ==
  ASSUME req \in Requests, NEW program \in Insured, NEW rate \in 0..RateDen,
         NEW x \in 0..Ratio, NEW y \in 0..Ratio, x <= y
  PROVE  /\ Quotient(Borrowed(y), req.price) \in Nat
         /\ Quotient(Borrowed(y), req.price) <= Quotient(Borrowed(x), req.price)
         /\ Base(program, y, rate).dti \in Nat /\ Base(program, x, rate).dti \in Nat
         /\ Base(program, y, rate).dti <= Base(program, x, rate).dti
<1> DEFINE s == Borrowed(x)
           t == Borrowed(y)
           a == Amounts(program, x).value
           b == Amounts(program, y).value
           n == Term(program)
           debts == req.h.debts
           income == req.h.income
           escrow == Escrow(req.listing)
           p == LevelPayment(a.financed, rate, RateDen, n)
           q == LevelPayment(b.financed, rate, RateDen, n)
<1>1. /\ s \in Nat /\ t \in Nat /\ t <= s /\ req.price \in Nat \ {0}
  BY LoanType, BorrowedShrinks
<1>2. /\ a.financed \in Nat /\ b.financed \in Nat /\ b.financed <= a.financed
      /\ a.mi \in Nat /\ b.mi \in Nat /\ b.mi <= a.mi
  BY AmountsShrink
<1>3. debts \in Nat /\ income \in Nat \ {0} /\ escrow \in Nat
  BY RequestAssumption, EscrowType DEF Household
<1>4. /\ Base(program, x, rate).dti = Quotient(p + a.mi + escrow + debts, income)
      /\ Base(program, y, rate).dti = Quotient(q + b.mi + escrow + debts, income)
  BY DEF Base, Unjudged
<1>5. n \in Nat \ {0} /\ RateDen \in Nat \ {0} /\ rate \in Nat /\ rate <= RateDen
  BY RefAssumption DEF Term, RateDen
<1> HIDE DEF s, t, a, b, n, debts, income, escrow
<1>6. p \in Nat /\ q \in Nat /\ q <= p
  <2> DEFINE f == a.financed
             g == b.financed
  <2>1. f \in Nat /\ g \in Nat /\ g <= f
    BY <1>2
  <2> HIDE DEF f, g
  <2>2. /\ LevelPayment(g, rate, RateDen, n) \in Nat /\ LevelPayment(f, rate, RateDen, n) \in Nat
        /\ LevelPayment(g, rate, RateDen, n) <= LevelPayment(f, rate, RateDen, n)
    BY <1>5, <2>1, PaymentGrows
  <2> QED
    BY <2>2 DEF f, g
<1> HIDE DEF p, q
<1>7. Quotient(t, req.price) \in Nat /\ Quotient(t, req.price) <= Quotient(s, req.price)
  BY <1>1, QuotientGrows
<1> DEFINE v == p + a.mi + escrow + debts
           w == q + b.mi + escrow + debts
<1>8. v \in Nat /\ w \in Nat /\ w <= v
  BY <1>2, <1>3, <1>6
<1> HIDE DEF v, w
<1>9. /\ Quotient(w, income) \in Nat /\ Quotient(v, income) \in Nat
      /\ Quotient(w, income) <= Quotient(v, income)
  BY <1>3, <1>8, QuotientGrows
<1> QED
  BY <1>4, <1>7, <1>9 DEF s, t, v, w

\* The reasons against an insured loan at a down payment, when a smaller down
\* payment has none.
LEMMA MoreDown ==
  ASSUME req \in Requests, NEW program \in Insured, NEW rate \in 0..RateDen,
         NEW x \in 0..Ratio, NEW y \in 0..Ratio, x <= y,
         Amounts(program, x).error = "none", Amounts(program, y).error = "none",
         NEW dti, NEW cash, NEW other, NEW owed,
         Reasons(program, Evaluate(Asked(program, x, rate)), dti, cash) = {},
         Evaluate(Asked(program, y, rate)).error \in {"none", "NotImplementedError"}
  PROVE  Reasons(program, Evaluate(Asked(program, y, rate)), other, owed) \subseteq {"CASH-TO-CLOSE-RESERVES"}
<1> DEFINE r == Asked(program, x, rate)
           u == Asked(program, y, rate)
           c == Base(program, x, rate)
           d == Base(program, y, rate)
<1>1. /\ RequestFor(r, program, x, rate) /\ r.h.income = req.h.income /\ r.maxDti = DtiCeiling(program)
      /\ RequestFor(u, program, y, rate) /\ u.h.income = req.h.income /\ u.maxDti = DtiCeiling(program)
  BY AskedIsRequest
<1>2. /\ program \in Programs /\ program \notin {"VA30", "Jumbo30"} /\ Target(program) \in {"conventional", "fha"}
  BY DEF Programs, Insured, Target
<1>3. /\ Borrowed(x) \in Nat /\ Borrowed(y) \in Nat /\ Borrowed(y) <= Borrowed(x)
  BY LoanType, BorrowedShrinks
<1>4. /\ Quotient(Borrowed(y), req.price) \in Nat /\ Quotient(Borrowed(x), req.price) \in Nat
      /\ Quotient(Borrowed(y), req.price) <= Quotient(Borrowed(x), req.price)
      /\ d.dti \in Nat /\ c.dti \in Nat /\ d.dti <= c.dti
  BY LighterCell
<1>5. r.mode = "forward" /\ u.mode = "forward"
  BY <1>1 DEF RequestFor
<1>6. req.h.income \in Nat \ {0}
  BY RequestAssumption DEF Household
<1> HIDE DEF r, u, c, d
<1>7. /\ Evaluate(r).error = "none" /\ Class(r).error = "none" /\ Class(r).value.blocker = "none"
      /\ Rung(r, Response(r)) = {}
  BY <1>5, CleanIs DEF r
<1>8. Upfront(r).error = "none" /\ Premium(r).error = "none"
  BY <1>5, <1>7, Answers
<1>9. Response(r).dti = c.dti /\ (program # "FHA30" => Financed(r) = Borrowed(x))
  BY <1>1, <1>2, <1>8, EngineDti, EngineLoan DEF c
<1>10. ~ OverCeiling(Quotient(Borrowed(x), req.price), Target(program)) /\ ~ (c.dti > DtiCeiling(program))
  BY <1>1, <1>3, <1>4, <1>7, <1>9, RungIs
<1>11. Class(u).error = "none" /\ Class(u).value.blocker = "none"
  <2>1. /\ Class(r) = ClassifyTarget(Borrowed(x), req.h.county, Target(program))
        /\ Class(u) = ClassifyTarget(Borrowed(y), req.h.county, Target(program))
    BY <1>1 DEF RequestFor, Class
  <2> QED
    BY <1>2, <1>3, <1>7, <2>1, ClassShrinks
<1>12. Evaluate(u).error = "none"
  <2>1. SUFFICES ASSUME Evaluate(u).error = "NotImplementedError" PROVE FALSE
    BY DEF u
  <2>2. Cause(Evaluate(u).error, program, y, rate) \/ Class(u).error # "none"
    BY <1>1, <1>2, <1>6, <2>1, EngineFails
  <2> QED
    BY <1>11, <2>1, <2>2 DEF Cause
<1>13. Upfront(u).error = "none" /\ Premium(u).error = "none"
  BY <1>5, <1>12, Answers
<1>14. Response(u).dti = d.dti /\ (program # "FHA30" => Financed(u) = Borrowed(y))
  BY <1>1, <1>2, <1>13, EngineDti, EngineLoan DEF d
<1>15. ~ OverCeiling(Quotient(Borrowed(y), req.price), Target(program)) /\ ~ (d.dti > DtiCeiling(program))
  <2>1. Ceiling(Target(program)) \in Nat /\ DtiCeiling(program) \in Int /\ Ratio \in Nat
    BY RatioAssumption DEF Ceiling, DtiCeiling
  <2> QED
    BY <1>4, <1>10, <2>1 DEF OverCeiling, Above
<1>16. Rung(u, Response(u)) = {}
  BY <1>1, <1>3, <1>4, <1>14, <1>15, RungIs
<1> QED
  BY <1>2, <1>5, <1>11, <1>12, <1>16, CleanGives DEF u

\* The matrix, therefore, never loses a program to a larger down payment.
LEMMA MoreDownInv == MatrixInv => MoreDownNeverHurts
<1> SUFFICES ASSUME MatrixInv, NEW i \in DOMAIN cells, NEW j \in DOMAIN cells,
                    cells[i].program = cells[j].program, cells[i].program # "Jumbo30",
                    cells[i].eligible, cells[i].pct < cells[j].pct
             PROVE  cells[j].reasons \subseteq {"CASH-TO-CLOSE-RESERVES"}
  BY Zenon DEF MoreDownNeverHurts
<1> DEFINE program == Program(i)
           rate == rates[program]
           x == Down(i)
           y == Down(j)
<1>1. /\ program \in Programs /\ x \in 0..Ratio /\ rate \in 0..RateDen
      /\ Amounts(program, x).error = "none"
      /\ cells[i].program = program /\ cells[i].pct = x
      /\ cells[i].reasons = Reasons(program, Evaluate(Asked(program, x, rate)),
                                    Base(program, x, rate).dti, Base(program, x, rate).cash)
      /\ cells[i].eligible = (cells[i].reasons = {})
  BY CellFacts
<1>2. /\ Program(j) = cells[j].program /\ cells[j].pct = y /\ y \in 0..Ratio
  BY CellFacts
<1>3. Program(j) = program
  BY <1>1, <1>2
<1>4. /\ Amounts(program, y).error = "none"
      /\ Evaluate(Asked(program, y, rate)).error \in {"none", "NotImplementedError"}
      /\ cells[j].reasons = Reasons(program, Evaluate(Asked(program, y, rate)),
                                    Base(program, y, rate).dti, Base(program, y, rate).cash)
  BY <1>3, CellFacts
<1>5. x <= y
  <2>1. Ratio \in Nat
    BY RatioAssumption
  <2> QED
    BY <1>1, <1>2, <2>1
<1> HIDE DEF program, rate, x, y
<1>6. program # "VA30"
  BY <1>1 DEF Reasons
<1>7. program \in Insured
  BY <1>1, <1>6 DEF Programs, Insured
<1>8. req \in Requests
  BY DEF MatrixInv
<1> DEFINE c == Base(program, x, rate)
           d == Base(program, y, rate)
           before == Evaluate(Asked(program, x, rate))
           after == Evaluate(Asked(program, y, rate))
<1>9. Reasons(program, before, c.dti, c.cash) = {}
  BY <1>1
<1>10. Reasons(program, after, d.dti, d.cash) \subseteq {"CASH-TO-CLOSE-RESERVES"}
  <2> HIDE DEF c, d
  <2>1. \A other, owed : Reasons(program, after, other, owed) \subseteq {"CASH-TO-CLOSE-RESERVES"}
    BY <1>1, <1>2, <1>4, <1>5, <1>7, <1>8, <1>9, MoreDown
  <2> QED
    BY <2>1
<1> HIDE DEF c, d, before, after
<1> QED
  BY <1>4, <1>10 DEF c, d, before, after

\* No bracket of LTV, premium table, loan limit or rounding of the cents lets a
\* larger down payment make an eligible program ineligible, but for the cash.
THEOREM MoreDownIsSafe == Spec => []MoreDownNeverHurts
<1>1. Init => MatrixInv
  BY MatrixInit
<1>2. MatrixInv /\ [Next]_vars => MatrixInv'
  BY MatrixStep
<1>3. MatrixInv => MoreDownNeverHurts
  BY MoreDownInv
<1> QED
  BY <1>1, <1>2, <1>3, PTL DEF Spec

-----------------------------------------------------------------------------
(* Stress only tightens: no row of the stress block shows less than the    *)
(* cell that it shocks.                                                    *)

\* The financed loan of a cell and its premium are amounts.
LEMMA AmountsType ==
  ASSUME req \in Requests, NEW program \in Programs, NEW pct \in 0..Ratio,
         Amounts(program, pct).error = "none"
  PROVE  Amounts(program, pct).value.financed \in Nat /\ Amounts(program, pct).value.mi \in Nat
<1>1. /\ req.price \in Nat \ {0} /\ Borrowed(pct) \in Nat /\ pct \in 0..Ratio /\ pct <= pct
  BY LoanType, RatioAssumption
<1>2. CASE program \in Insured
  BY <1>1, <1>2, AmountsShrink
<1>3. CASE program = "Jumbo30"
  <2> DEFINE b == Borrowed(pct)
             x == b * 75
  <2>1. x \in Nat /\ b \in Nat
    BY <1>1
  <2> HIDE DEF x
  <2>2. Cents(x, 120000) \in Nat
    BY <2>1, CentsType
  <2>3. Amounts(program, pct) =
          Result([financed |-> b, estimated |-> Above(b, req.price, 800),
                  mi |-> IF Above(b, req.price, 800) THEN Cents(x, 120000) ELSE 0])
    BY <1>3, FamilyAmounts DEF Family, x
  <2> QED
    BY <2>1, <2>2, <2>3 DEF Result
<1>4. CASE program = "VA30"
  <2> DEFINE fee == FundingFee(Borrowed(pct), pct)
  <2>1. Amounts(program, pct) =
          IF fee.error # "none" THEN Raise(fee.error)
          ELSE Result([financed |-> Borrowed(pct) + fee.value, estimated |-> FALSE, mi |-> 0])
    BY <1>4, VaAmounts
  <2>2. fee.error # "none" => Raise(fee.error).error # "none"
    BY DEF Raise
  <2>3. fee.error = "none"
    <3> HIDE DEF fee
    <3> QED
      BY <2>1, <2>2
  <2>4. fee.value \in Nat
    BY <1>1, <2>3, FeeType
  <2> HIDE DEF fee
  <2> QED
    BY <1>1, <2>1, <2>3, <2>4 DEF Result
<1> QED
  BY <1>2, <1>3, <1>4 DEF Programs, Insured

\* The numbers of a cell of the matrix.
CellNumbers(c) ==
    /\ c.program \in Programs /\ rates[c.program] \in 0..RateDen
    /\ Term(c.program) \in Nat \ {0} /\ c.financed \in Nat
    /\ c.pi = LevelPayment(c.financed, rates[c.program], RateDen, Term(c.program))
    /\ c.pi \in Nat /\ c.piti - c.pi \in Nat /\ c.piti \in Nat
    /\ c.dti = Quotient(c.piti + req.h.debts, req.h.income)

LEMMA CellsAreNumbers ==
  ASSUME MatrixInv, NEW i \in DOMAIN cells
  PROVE  CellNumbers(cells[i])
<1> DEFINE program == Program(i)
           pct == Down(i)
           rate == rates[program]
           a == Amounts(program, pct).value
           c == Base(program, pct, rate)
<1>1. /\ program \in Programs /\ pct \in 0..Ratio /\ rate \in 0..RateDen
      /\ Amounts(program, pct).error = "none"
      /\ cells[i].program = program /\ cells[i].financed = c.financed /\ cells[i].pi = c.pi
      /\ cells[i].piti = c.piti /\ cells[i].dti = c.dti
  BY CellFacts
<1>2. req \in Requests
  BY DEF MatrixInv
<1> HIDE DEF program, pct, rate
<1>3. a.financed \in Nat /\ a.mi \in Nat
  BY <1>1, <1>2, AmountsType
<1>4. Escrow(req.listing) \in Nat
  BY <1>2, EscrowType
<1>5. Term(program) \in Nat \ {0}
  BY RefAssumption DEF Term
<1>6. c.financed = a.financed /\ c.pi = LevelPayment(a.financed, rate, RateDen, Term(program))
      /\ c.piti = c.pi + a.mi + Escrow(req.listing)
      /\ c.dti = Quotient(c.piti + req.h.debts, req.h.income)
  BY DEF Base, Unjudged
<1> HIDE DEF a, c
<1>7. LevelPayment(a.financed, rate, RateDen, Term(program)) \in Nat
  <2> DEFINE p == a.financed
             n == Term(program)
             d == RateDen
  <2>1. p \in Nat /\ p <= p /\ n \in Nat \ {0} /\ rate \in Nat /\ rate <= d /\ d \in Nat \ {0}
    BY <1>1, <1>3, <1>5 DEF RateDen
  <2> HIDE DEF p, n, d
  <2>2. LevelPayment(p, rate, d, n) \in Nat
    BY <2>1, PaymentGrows
  <2> QED
    BY <2>2 DEF p, n, d
<1>8. c.pi \in Nat /\ c.piti - c.pi \in Nat /\ c.piti \in Nat
  BY <1>3, <1>4, <1>6, <1>7
<1> QED
  BY <1>1, <1>3, <1>5, <1>6, <1>8 DEF CellNumbers, rate

\* A payment that is no lower leaves a DTI that is no lower.
LEMMA MorePayment ==
  ASSUME req \in Requests, NEW c, CellNumbers(c), NEW pi \in Nat, c.pi <= pi
  PROVE  c.dti <= DtiWith(c, pi) /\ c.dti \in Nat /\ DtiWith(c, pi) \in Nat
<1> DEFINE n == c.piti + req.h.debts
           m == c.piti - c.pi + pi + req.h.debts
<1>1. req.h.debts \in Nat /\ req.h.income \in Nat \ {0}
  BY RequestAssumption DEF Household
<1>2. n \in Nat /\ m \in Nat /\ n <= m
  BY <1>1 DEF CellNumbers
<1>3. c.dti = Quotient(n, req.h.income) /\ DtiWith(c, pi) = Quotient(m, req.h.income)
  BY DEF CellNumbers, DtiWith
<1>4. n <= n /\ m <= m
  BY <1>2
<1> HIDE DEF n, m
<1>5. /\ Quotient(n, req.h.income) \in Nat /\ Quotient(m, req.h.income) \in Nat
      /\ Quotient(n, req.h.income) <= Quotient(m, req.h.income)
  BY <1>1, <1>2, <1>4, QuotientGrows
<1> QED
  BY <1>3, <1>5

\* So does 70 % of the income.
LEMMA LessIncomeDti ==
  ASSUME req \in Requests, NEW c, CellNumbers(c)
  PROVE  c.dti <= IncomeDti(c) /\ c.dti \in Nat /\ IncomeDti(c) \in Nat
<1> DEFINE n == c.piti + req.h.debts
           x == n * Ratio
           income == req.h.income
<1>1. req.h.debts \in Nat /\ income \in Nat \ {0}
  BY RequestAssumption DEF Household
<1>2. x \in Nat
  BY <1>1, RatioAssumption DEF CellNumbers
<1>3. c.dti = Cents(x, income) /\ IncomeDti(c) = Cents(x * 10, 7 * income)
  BY DEF CellNumbers, Quotient, IncomeDti
<1> HIDE DEF x, income
<1> DEFINE y == x * 10
           d == 7 * income
<1>4. y \in Nat /\ d \in Nat \ {0} /\ x * d <= y * income
  <2>1. x * d = 7 * (x * income) /\ y * income = 10 * (x * income) /\ x * income \in Nat
    BY <1>1, <1>2
  <2> QED
    BY <1>1, <1>2, <2>1
<1> HIDE DEF y, d
<1>5. Cents(x, income) <= Cents(y, d)
  BY <1>1, <1>2, <1>4, NoLoan, UnitAssumption, P!CentsMonotonic, SameMoney
<1>6. Cents(x, income) \in Nat /\ Cents(y, d) \in Nat
  BY <1>1, <1>2, <1>4, CentsType
<1> QED
  BY <1>3, <1>5, <1>6 DEF y, d

\* rate_shock of a list of rates, when it answers.
ShockAnswer(principal, term, shocks, answer) ==
    /\ \A i \in DOMAIN shocks : shocks[i] \in 0..RateDen
    /\ \A i \in DOMAIN shocks : answer.pi[i] = LevelPayment(principal, shocks[i], RateDen, term)
    /\ answer.flat = (\E i, j \in DOMAIN shocks :
                         shocks[i] > shocks[j]
                         /\ LevelPayment(principal, shocks[i], RateDen, term)
                              <= LevelPayment(principal, shocks[j], RateDen, term))

LEMMA RateShockIs ==
  ASSUME NEW principal, NEW term, NEW shocks, NEW baseline,
         RateShock(principal, term, shocks, baseline).error = "none"
  PROVE  ShockAnswer(principal, term, shocks, RateShock(principal, term, shocks, baseline).value)
<1> DEFINE pi == [i \in DOMAIN shocks |-> LevelPayment(principal, shocks[i], RateDen, term)]
           base == IF baseline = None THEN 1 ELSE SelectInSeq(shocks, LAMBDA q : q = baseline)
           delta == [i \in DOMAIN shocks |-> pi[i] - pi[base]]
           bad == ~ Scenarios(shocks) \/ \E i \in DOMAIN shocks : shocks[i] \notin 0..RateDen
           flat == \E i, j \in DOMAIN shocks : shocks[i] > shocks[j] /\ pi[i] <= pi[j]
           r == RateShock(principal, term, shocks, baseline)
<1>1. r = CASE bad -> Raise("ValidationError")
            [] Scenarios(shocks) /\ base = 0 -> Raise("ValueError")
            [] OTHER -> Result([pi |-> pi, worst |-> FirstMax(pi), delta |-> delta, flat |-> flat])
  BY Zenon DEF RateShock
<1>2. \A e : Raise(e).error = e
  BY DEF Raise
<1> HIDE DEF base, delta, flat, pi, r
<1>3. bad => r \in {Raise("ValidationError"), Raise("ValueError")}
  BY <1>1
<1>4. ~ bad /\ base = 0 => r = Raise("ValueError")
  BY <1>1
<1>5. r.error = "none"
  BY DEF r
<1>6. ~ bad /\ base # 0
  BY <1>2, <1>3, <1>4, <1>5
<1>7. r = Result([pi |-> pi, worst |-> FirstMax(pi), delta |-> delta, flat |-> flat])
  BY <1>1, <1>6
<1>8. r.value.pi = pi /\ r.value.flat = flat
  BY <1>7 DEF Result
<1>9. flat = (\E i, j \in DOMAIN shocks :
                shocks[i] > shocks[j]
                /\ LevelPayment(principal, shocks[i], RateDen, term)
                     <= LevelPayment(principal, shocks[j], RateDen, term))
  BY DEF flat, pi
<1>10. \A i \in DOMAIN shocks : pi[i] = LevelPayment(principal, shocks[i], RateDen, term)
  BY DEF pi
<1> QED
  BY <1>6, <1>8, <1>9, <1>10 DEF r, ShockAnswer

\* A higher rate never costs less, so the flag RATE_SHOCK_MONOTONE_PI is only up
\* for two rates that cost the same, to the cent: whatever the loan, the term and
\* the rates, and wherever the factors of the annuities are cut off.
THEOREM ShockIsMonotone ==
  ASSUME NEW principal \in Nat, NEW term \in Nat \ {0}, NEW shocks, NEW baseline,
         RateShock(principal, term, shocks, baseline).error = "none"
  PROVE  LET answer == RateShock(principal, term, shocks, baseline).value
         IN  /\ \A i, j \in DOMAIN shocks :
                    shocks[i] <= shocks[j] => answer.pi[i] <= answer.pi[j]
             /\ answer.flat => \E i, j \in DOMAIN shocks :
                    shocks[i] > shocks[j] /\ answer.pi[i] = answer.pi[j]
<1> DEFINE answer == RateShock(principal, term, shocks, baseline).value
<1>1. ShockAnswer(principal, term, shocks, answer)
  BY RateShockIs, Zenon
<1> HIDE DEF answer
<1>2. ASSUME NEW i \in DOMAIN shocks, NEW j \in DOMAIN shocks, shocks[i] <= shocks[j]
      PROVE  answer.pi[i] \in Nat /\ answer.pi[j] \in Nat /\ answer.pi[i] <= answer.pi[j]
  <2> DEFINE x == shocks[i]
             y == shocks[j]
             d == RateDen
  <2>1. x \in Nat /\ y \in Nat /\ x <= y /\ d \in Nat \ {0} /\ y <= 12 * d /\ principal <= principal
    BY <1>1, <1>2 DEF RateDen, ShockAnswer
  <2>2. answer.pi[i] = LevelPayment(principal, x, d, term)
        /\ answer.pi[j] = LevelPayment(principal, y, d, term)
    BY <1>1 DEF ShockAnswer
  <2> HIDE DEF x, y, d
  <2>3. /\ LevelPayment(principal, x, d, term) \in Nat /\ LevelPayment(principal, y, d, term) \in Nat
        /\ LevelPayment(principal, x, d, term) <= LevelPayment(principal, y, d, term)
    BY <2>1, NoLoan, UnitAssumption, P!PaymentRises, SameMoney
  <2> QED
    BY <2>2, <2>3
<1>3. ASSUME NEW i \in DOMAIN shocks, NEW j \in DOMAIN shocks, shocks[i] > shocks[j],
             answer.pi[i] <= answer.pi[j]
      PROVE  answer.pi[i] = answer.pi[j]
  <2> DEFINE x == shocks[i]
             y == shocks[j]
  <2>1. y <= x
    <3>1. x \in Int /\ y \in Int /\ x > y
      BY <1>1, <1>3 DEF ShockAnswer
    <3> HIDE DEF x, y
    <3> QED
      BY <3>1
  <2>2. answer.pi[i] \in Nat /\ answer.pi[j] \in Nat /\ answer.pi[j] <= answer.pi[i]
    BY <1>2, <2>1
  <2> QED
    BY <1>3, <2>2
<1>4. answer.flat => \E i, j \in DOMAIN shocks : shocks[i] > shocks[j] /\ answer.pi[i] = answer.pi[j]
  <2> SUFFICES ASSUME answer.flat
               PROVE  \E i, j \in DOMAIN shocks : shocks[i] > shocks[j] /\ answer.pi[i] = answer.pi[j]
    OBVIOUS
  <2>1. PICK i \in DOMAIN shocks, j \in DOMAIN shocks :
           shocks[i] > shocks[j]
           /\ LevelPayment(principal, shocks[i], RateDen, term)
                <= LevelPayment(principal, shocks[j], RateDen, term)
    BY <1>1, Zenon DEF ShockAnswer
  <2>2. answer.pi[i] <= answer.pi[j]
    BY <1>1, <2>1 DEF ShockAnswer
  <2> QED
    BY <1>3, <2>1, <2>2
<1> QED
  BY <1>2, <1>4 DEF answer

\* The two rates of a cell's rate row are always answered.
LEMMA ShockAnswers ==
  ASSUME NEW principal, NEW term, NEW rate \in 0..RateDen, rate + 8 <= RateDen
  PROVE  RateShock(principal, term, <<rate, rate + 8>>, rate).error = "none"
<1> DEFINE shocks == <<rate, rate + 8>>
           pi == [i \in DOMAIN shocks |-> LevelPayment(principal, shocks[i], RateDen, term)]
           base == IF rate = None THEN 1 ELSE SelectInSeq(shocks, LAMBDA q : q = rate)
           delta == [i \in DOMAIN shocks |-> pi[i] - pi[base]]
           bad == ~ Scenarios(shocks) \/ \E i \in DOMAIN shocks : shocks[i] \notin 0..RateDen
           flat == \E i, j \in DOMAIN shocks : shocks[i] > shocks[j] /\ pi[i] <= pi[j]
           I == {i \in 1..Len(shocks) : shocks[i] = rate}
<1>1. RateShock(principal, term, shocks, rate) =
        CASE bad -> Raise("ValidationError")
          [] Scenarios(shocks) /\ base = 0 -> Raise("ValueError")
          [] OTHER -> Result([pi |-> pi, worst |-> FirstMax(pi), delta |-> delta, flat |-> flat])
  BY Zenon DEF RateShock
<1>2. DOMAIN shocks = {1, 2} /\ shocks[1] = rate /\ shocks[2] = rate + 8 /\ Len(shocks) = 2
      /\ shocks # <<>>
  OBVIOUS
<1> HIDE DEF shocks
<1>3. rate + 8 # rate /\ rate + 8 \in 0..RateDen
  BY DEF RateDen
<1>4. ~ bad
  <2>1. Scenarios(shocks)
    BY <1>2, <1>3 DEF Scenarios, IsInjective
  <2> QED
    BY <1>2, <1>3, <2>1
<1>5. base # 0
  <2>1. SelectInSeq(shocks, LAMBDA q : q = rate) = IF I # {} THEN Min(I) ELSE 0
    BY Zenon DEF SelectInSeq
  <2>2. I \in SUBSET (1..2) /\ 1 \in I
    BY <1>2
  <2> HIDE DEF I
  <2>3. Min(I) \in I
    <3>1. \E x \in I : \A y \in I : x <= y
      <4>1. \A y \in I : 1 <= y
        BY <2>2
      <4> QED
        BY <2>2, <4>1
    <3> QED
      BY <3>1 DEF Min
  <2>4. Min(I) # 0
    BY <2>2, <2>3
  <2> HIDE DEF shocks
  <2> QED
    BY <2>1, <2>2, <2>4
<1> HIDE DEF bad, base, pi, delta, flat
<1>6. RateShock(principal, term, shocks, rate)
        = Result([pi |-> pi, worst |-> FirstMax(pi), delta |-> delta, flat |-> flat])
  BY <1>1, <1>4, <1>5
<1>7. \A v : Result(v).error = "none"
  BY DEF Result
<1>8. RateShock(principal, term, shocks, rate).error = "none"
  BY <1>6, <1>7
<1> QED
  BY <1>8 DEF shocks

\* A row of a cell shows at least the cell's DTI, and breaches its ceiling where
\* the cell's own DTI does.
Tightens(c, row) == /\ row.program = c.program /\ c.dti <= row.dti
                    /\ c.dti \in Nat /\ row.dti \in Nat
                    /\ row.breaches = (row.dti > DtiCeiling(c.program))

\* The rows of a cell tighten it.
LEMMA RowsTighten ==
  ASSUME MatrixInv, NEW i \in DOMAIN cells, ~ Refused(cells[i]),
         NEW peak \in {cells[i].pi, LevelPayment(cells[i].financed, rates[cells[i].program] + 20, RateDen,
                                                 Term(cells[i].program))},
         NEW row \in CellRows(cells[i], peak)
  PROVE  Tightens(cells[i], row)
<1> DEFINE c == cells[i]
           rate == rates[c.program]
           term == Term(c.program)
           p == c.financed
           shock == RateShock(p, term, <<rate, rate + 8>>, rate)
           d == RateDen
<1>1. CellNumbers(c) /\ req \in Requests
  BY CellsAreNumbers DEF MatrixInv
<1> HIDE DEF c
<1>2. /\ rate \in 0..d /\ term \in Nat \ {0} /\ p \in Nat /\ p <= p /\ d \in Nat \ {0}
      /\ c.pi = LevelPayment(p, rate, d, term) /\ c.pi \in Nat
  BY <1>1 DEF CellNumbers, RateDen
<1>3. rate + 8 <= d
  <2>1. ~ rate + 8 > d
    BY DEF Refused, c
  <2> QED
    BY <1>2, <2>1
<1>4. shock.value.pi[2] = LevelPayment(p, rate + 8, d, term)
  <2> DEFINE shocks == <<rate, rate + 8>>
  <2>1. shock.error = "none"
    BY <1>2, <1>3, ShockAnswers
  <2>2. ShockAnswer(p, term, shocks, shock.value)
    BY <2>1, RateShockIs, Zenon
  <2>3. 2 \in DOMAIN shocks /\ shocks[2] = rate + 8
    OBVIOUS
  <2> HIDE DEF shocks, shock
  <2> QED
    BY <2>2, <2>3 DEF ShockAnswer
<1>5. ASSUME NEW more \in Nat, rate <= more, more <= 12 * d
      PROVE  LevelPayment(p, more, d, term) \in Nat /\ c.pi <= LevelPayment(p, more, d, term)
  <2>1. rate \in Nat
    BY <1>2
  <2> HIDE DEF rate, term, p, d
  <2>2. LevelPayment(p, rate, d, term) <= LevelPayment(p, more, d, term)
        /\ LevelPayment(p, more, d, term) \in Nat
    BY <1>2, <1>5, <2>1, NoLoan, UnitAssumption, P!PaymentRises, SameMoney
  <2> QED
    BY <1>2, <2>2
<1>6. ASSUME NEW pi \in Nat, c.pi <= pi PROVE c.dti <= DtiWith(c, pi) /\ c.dti \in Nat /\ DtiWith(c, pi) \in Nat
  BY <1>1, <1>6, MorePayment
<1>7. c.dti <= DtiWith(c, shock.value.pi[2]) /\ DtiWith(c, shock.value.pi[2]) \in Nat
  <2> DEFINE more == rate + 8
  <2>1. more \in Nat /\ rate <= more /\ more <= 12 * d
    BY <1>2, <1>3
  <2> HIDE DEF more
  <2>2. LevelPayment(p, more, d, term) \in Nat /\ c.pi <= LevelPayment(p, more, d, term)
    BY <1>5, <2>1
  <2>3. shock.value.pi[2] = LevelPayment(p, more, d, term)
    BY <1>4 DEF more
  <2> HIDE DEF shock
  <2> QED
    BY <1>6, <2>2, <2>3
<1>8. c.program = "Conv30" => c.dti <= DtiWith(c, peak) /\ DtiWith(c, peak) \in Nat
  <2> SUFFICES ASSUME c.program = "Conv30" PROVE c.dti <= DtiWith(c, peak) /\ DtiWith(c, peak) \in Nat
    OBVIOUS
  <2> DEFINE more == rate + 20
  <2>1. more \in Nat /\ rate <= more /\ more <= 12 * d
    BY <1>2 DEF RateDen
  <2> HIDE DEF more
  <2>2. LevelPayment(p, more, d, term) \in Nat /\ c.pi <= LevelPayment(p, more, d, term)
    BY <1>5, <2>1
  <2>3. peak \in {c.pi, LevelPayment(p, more, d, term)}
    BY DEF c, more
  <2>4. peak \in Nat /\ c.pi <= peak
    BY <1>2, <2>2, <2>3
  <2> QED
    BY <1>6, <2>4
<1>9. c.dti <= IncomeDti(c) /\ c.dti \in Nat /\ IncomeDti(c) \in Nat
  BY <1>1, LessIncomeDti
<1>10. row \in {StressRow(c, "rate_shock", DtiWith(c, shock.value.pi[2])),
                StressRow(c, "income_shock", IncomeDti(c))}
               \cup (IF c.program = "Conv30" THEN {StressRow(c, "arm_reset", DtiWith(c, peak))} ELSE {})
  BY Zenon DEF CellRows, c
<1> HIDE DEF shock
<1>11. Tightens(c, row)
  BY <1>7, <1>8, <1>9, <1>10 DEF Tightens, StressRow
<1> QED
  BY <1>11 DEF c

\* Every row is one of a cell that is done with.
TightInv == \A row \in rows : \E i \in stressed : Tightens(cells[i], row)

\* Every step keeps the rows no looser than their cells.
LEMMA TightStep == MatrixInv /\ StressInv /\ TightInv /\ [Next]_vars => TightInv'
<1> SUFFICES ASSUME MatrixInv, StressInv, TightInv, [Next]_vars PROVE TightInv'
  OBVIOUS
<1>1. ASSUME UNCHANGED <<cells, stressed, rows>> PROVE TightInv'
  BY <1>1 DEF TightInv, Tightens
<1>2. ASSUME stage \in {"programs", "rates", "matrix"}, UNCHANGED rows PROVE TightInv'
  BY <1>2 DEF StressInv, TightInv
<1>3. CASE DeterminePrograms
  BY <1>1, <1>3 DEF DeterminePrograms
<1>4. CASE ReadRates
  BY <1>1, <1>4 DEF ReadRates
<1>5. CASE EvaluateCell
  BY <1>2, <1>5 DEF EvaluateCell
<1>6. CASE StressCell
  <2>1. UNCHANGED cells
    BY <1>6 DEF StressCell
  <2>2. PICK i \in Passing \ stressed :
           \E refusal \in {IF Refused(cells[i]) THEN "ValidationError" ELSE Upstream(cells[i]).error} :
               IF refusal # "none" THEN Fail(refusal) /\ UNCHANGED <<stressed, rows>>
               ELSE /\ \E peak \in {cells[i].pi,
                                    LevelPayment(cells[i].financed, rates[cells[i].program] + 20, RateDen,
                                                 Term(cells[i].program))} :
                         rows' = rows \cup CellRows(cells[i], peak)
                    /\ stressed' = stressed \cup {i}
                    /\ UNCHANGED <<stage, error>>
    BY <1>6, Zenon DEF StressCell
  <2>3. CASE UNCHANGED <<stressed, rows>>
    BY <1>1, <2>1, <2>3
  <2>4. CASE ~ UNCHANGED <<stressed, rows>>
    <3>1. /\ ~ Refused(cells[i]) /\ stressed' = stressed \cup {i}
          /\ \E peak \in {cells[i].pi,
                          LevelPayment(cells[i].financed, rates[cells[i].program] + 20, RateDen,
                                       Term(cells[i].program))} :
               rows' = rows \cup CellRows(cells[i], peak)
      BY <2>2, <2>4
    <3>2. PICK peak \in {cells[i].pi,
                         LevelPayment(cells[i].financed, rates[cells[i].program] + 20, RateDen,
                                      Term(cells[i].program))} :
               rows' = rows \cup CellRows(cells[i], peak)
      BY <3>1
    <3>3. i \in DOMAIN cells
      BY DEF Passing
    <3>4. \A row \in CellRows(cells[i], peak) : Tightens(cells[i], row)
      BY <3>1, <3>3, RowsTighten
    <3> QED
      BY <2>1, <3>1, <3>2, <3>4 DEF TightInv, Tightens
  <2> QED
    BY <2>3, <2>4
<1>7. CASE BuildRefi \/ BuildPoints \/ BuildTax \/ GiveVerdict
  BY <1>1, <1>7 DEF BuildRefi, BuildPoints, BuildTax, GiveVerdict
<1>8. CASE UNCHANGED vars
  BY <1>1, <1>8 DEF vars
<1> QED
  BY <1>3, <1>4, <1>5, <1>6, <1>7, <1>8 DEF Next

\* Two cells at the preferred down payment with the same program are the same.
LEMMA OneCellEach ==
  ASSUME MatrixInv, NEW i \in Passing, NEW j \in Passing, cells[i].program = cells[j].program
  PROVE  cells[i] = cells[j]
<1>1. /\ i \in DOMAIN cells /\ j \in DOMAIN cells
      /\ cells[i].pct = req.preferred /\ cells[j].pct = req.preferred
  BY DEF Passing
<1>2. /\ cells[i].program = Program(i) /\ cells[i].pct = Down(i)
      /\ cells[j].program = Program(j) /\ cells[j].pct = Down(j)
  BY <1>1, CellFacts
<1>3. CellAt(i) = CellAt(j)
  BY <1>1, <1>2, Zenon DEF CellAt
<1> QED
  BY <1>1, <1>3 DEF MatrixInv

\* A stress row of a cell never shows a DTI below the cell's own, whether the
\* rate rises, the ARM resets or the income falls; so no row passes a ceiling
\* that the loan of today misses.
StressOnlyTightens ==
    \A i \in stressed : \A row \in rows :
        row.program = cells[i].program =>
            /\ cells[i].dti <= row.dti
            /\ cells[i].dti > DtiCeiling(row.program) => row.breaches
THEOREM StressTightens == Spec => []StressOnlyTightens
<1>1. ASSUME MatrixInv, StressInv, TightInv, NEW i \in stressed, NEW row \in rows,
             row.program = cells[i].program
      PROVE  /\ cells[i].dti <= row.dti
             /\ cells[i].dti > DtiCeiling(row.program) => row.breaches
  <2>1. PICK j \in stressed : Tightens(cells[j], row)
    BY <1>1 DEF TightInv
  <2>2. i \in Passing /\ j \in Passing /\ cells[j].program = cells[i].program
    BY <1>1, <2>1 DEF StressInv, Tightens
  <2>3. Tightens(cells[i], row)
    BY <1>1, <2>1, <2>2, OneCellEach
  <2> DEFINE a == cells[i].dti
             b == row.dti
             t == DtiCeiling(row.program)
  <2>4. a <= b /\ row.breaches = (b > t)
    BY <1>1, <2>3 DEF Tightens
  <2>5. a \in Int /\ b \in Int /\ t \in Int
    BY <2>3, RatioAssumption DEF Tightens, DtiCeiling
  <2> HIDE DEF a, b, t
  <2>6. a > t => b > t
    BY <2>4, <2>5
  <2> QED
    BY <2>4, <2>6 DEF a, b, t
<1>2. MatrixInv /\ StressInv /\ TightInv => StressOnlyTightens
  BY <1>1, Zenon DEF StressOnlyTightens
<1>3. Init => TightInv
  BY DEF Init, TightInv
<1> QED
  BY <1>2, <1>3, MatrixInit, MatrixStep, StressInit, StressStep, TightStep, PTL DEF Spec
=============================================================================
