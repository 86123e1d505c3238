------------------------------ MODULE Analysis ------------------------------
(***************************************************************************)
(* analyze of lib/property_analysis.py: a matrix of programs by down       *)
(* payments, then the stress, refinance, points and tax blocks of the      *)
(* programs that pass at the preferred down payment, then the verdict.     *)
(* An action is one cell, one block or one step between them; an exception *)
(* of any of them is one of analyze.                                       *)
(***************************************************************************)
EXTENDS Stress, Verdict

CONSTANT
    Requests    \* [price, listing, h, preferred, va, filing, given30, given15, fred30, fred15]

VARIABLES
    req,        \* the listing, the household (h) and the profile
    stage,      \* the block that is next
    programs,   \* programs_present
    warnings,
    rates,      \* todays_rates
    cells,      \* the matrix, program by program
    stressed,   \* the cells whose stress rows are done
    rows,       \* the stress rows
    refi,       \* per passing cell: closing costs and the two target rates
    points,     \* per passing cell: the costs of one and of two points
    tax,        \* per passing cell: debt over the limit of Pub. 936
    verdict,
    error       \* the exception of analyze

vars == <<req, stage, programs, warnings, rates, cells, stressed, rows, refi, points, tax, verdict, error>>

ASSUME RatioAssumption == Ratio \in Nat \ {0}

\* The tables: the floor of FHA lies below the baseline, a short term is shorter.
ASSUME RefAssumption ==
    /\ Ref.fhaFloor \in Nat /\ Ref.baseline \in Nat /\ Ref.fhaFloor <= Ref.baseline
    /\ Ref.shortTerm \in Nat \ {0} /\ Ref.longTerm \in Nat /\ Ref.shortTerm < Ref.longTerm
    /\ Ref.fhfa \in [DOMAIN Ref.fhfa -> Nat] /\ Ref.fha \in [DOMAIN Ref.fha -> Nat]
    /\ Ref.mipTier \in Nat

\* What get_cached_or_fetch finds: no entry that is fresh and has a value
\* ("cold"), a rate in quarters of a percent, a decimal that is no number or
\* too long for one ("NaN"), a time without its zone ("naive").
Entry == [kind : {"cold", "number", "NaN", "naive"}, rate : Int]

\* What the models of a request accept.
ASSUME RequestAssumption ==
    \A r \in Requests :
        /\ r.price \in Nat \ {0} /\ r.preferred \in 0..Ratio /\ r.h \in Household
        /\ r.va \in BOOLEAN
        /\ r.listing.tax \in Optional /\ r.listing.insurance \in Optional /\ r.listing.hoa \in Optional
        /\ r.given30 \in Optional /\ r.given15 \in Optional /\ r.fred30 \in Entry /\ r.fred15 \in Entry

\* DOWN_PAYMENT_PCTS, in 1 / Ratio, and the preferred one, in order.
DownPayments == {(Ratio * pct) \div 100 : pct \in {3, 5, 10, 15, 20, 25}}
Percentages ==
    LET all == DownPayments \cup {req.preferred}
    IN  [k \in 1..Cardinality(all) |->
           CHOOSE pct \in all : Cardinality({other \in all : other < pct}) = k - 1]

Family == {"Conv30", "Conv15", "Jumbo30"}       \* _POINTS_CONV_FAMILY
Term(program) == IF program = "Conv15" THEN Ref.shortTerm ELSE Ref.longTerm
Target(program) == CASE program \in {"Conv30", "Conv15"} -> "conventional"
                     [] program = "Jumbo30" -> "jumbo"
                     [] program = "FHA30" -> "fha"
                     [] OTHER -> "va"

\* _DTI_CEILING_BY_PROGRAM.
DtiCeiling(program) == LET percent == CASE program \in {"Conv30", "Conv15"} -> 50
                                        [] program = "Jumbo30" -> 43
                                        [] program = "FHA30" -> 57
                                        [] OTHER -> 41
                       IN  (Ratio * percent) \div 100

Fail(e) == /\ stage' = "raised"
           /\ error' = e

-----------------------------------------------------------------------------
(* Programs and rates.                                                     *)

Init == /\ req \in Requests
        /\ stage = "programs"
        /\ programs = <<>> /\ warnings = {} /\ rates = <<>> /\ cells = <<>> /\ stressed = {} /\ rows = {}
        /\ refi = <<>> /\ points = <<>> /\ tax = <<>>
        /\ verdict = <<>> /\ error = "none"

\* Mutant: the jumbo program is offered for the loans below the limit.
MutantOffered(class) ==
    <<"Conv30", "Conv15", "FHA30">> \o (IF req.va THEN <<"VA30">> ELSE <<>>)
    \o (IF class = Result("high_balance") THEN <<"Jumbo30">> ELSE <<>>)
Offered(class) ==
    <<"Conv30", "Conv15", "FHA30">> \o (IF req.va THEN <<"VA30">> ELSE <<>>)
    \o (IF class = Result("jumbo") THEN <<"Jumbo30">> ELSE <<>>)

\* _determine_programs: by the price, not by a loan.  A county that is not
\* listed is a warning here.
DeterminePrograms ==
    LET class == ClassifyConventional(req.price, req.h.county)
    IN  /\ stage = "programs"
        /\ programs' = Offered(class)
        /\ warnings' = IF class.error = "none" THEN {} ELSE {class.error}
        /\ stage' = "rates"
        /\ UNCHANGED <<req, rates, cells, stressed, rows, refi, points, tax, verdict, error>>

\* What with_cache_lock raises: the deadline passes, or a call of the file
\* system fails, on the way in or out.
LockErrors == {"FredCacheLockError", "OSError"}

\* _todays_rate_per_program, of the entry that it read.  A value of no more
\* than 1 is taken for a fraction.
FromFred(entry) ==
    CASE entry.kind = "cold" -> Raise("ValueError")
      [] entry.kind = "NaN" -> Raise("InvalidOperation")
      [] entry.kind = "naive" -> Raise("TypeError")
      [] OTHER -> Result(IF entry.rate > 4 THEN entry.rate ELSE 100 * entry.rate)

\* The rate of a series: the given one, or the cache's, read under its lock.
Todays(given, entry, lock) ==
    IF given # None THEN Result(given)
    ELSE IF lock # "none" THEN Raise(lock)
    ELSE FromFred(entry)

ReadRates ==
    \E lock30, lock15 \in LockErrors \cup {"none"} :
        LET rate30 == Todays(req.given30, req.fred30, lock30)
            rate15 == Todays(req.given15, req.fred15, lock15)
            failure == IF rate30.error # "none" THEN rate30.error ELSE rate15.error
        IN  /\ stage = "rates"
            /\ IF failure # "none" THEN Fail(failure) /\ UNCHANGED rates
               ELSE /\ rates' = [p \in {"Conv30", "Conv15", "FHA30", "VA30", "Jumbo30", "Conv30-ARM-5-1"} |->
                                   CASE p = "Conv15" -> rate15.value
                                     [] p = "Conv30-ARM-5-1" -> rate30.value - 1
                                     [] OTHER -> rate30.value]
                    /\ stage' = "matrix"
                    /\ UNCHANGED error
            /\ UNCHANGED <<req, programs, warnings, cells, stressed, rows, refi, points, tax, verdict>>

-----------------------------------------------------------------------------
(* The matrix.                                                             *)

\* Mutant: the premium is never passed on.
MutantForwardRequest(program, pct, escrow, mi, ltv, rate) ==
    [mode |-> "forward", h |-> [req.h EXCEPT !.escrow = escrow], target |-> Target(program),
     maxDti |-> DtiCeiling(program), term |-> Term(program), rate |-> rate,
     apr |-> None, apor |-> None, junior |-> 0, pmi |-> None,
     loan |-> req.price - Cents(req.price * pct, Ratio), value |-> req.price]
\* _build_affordability_forward_request: the loan before upfront fees.  The
\* rounded LTV of the financed loan decides whether the premium is passed on.
ForwardRequest(program, pct, escrow, mi, ltv, rate) ==
    [mode |-> "forward", h |-> [req.h EXCEPT !.escrow = escrow], target |-> Target(program),
     maxDti |-> DtiCeiling(program), term |-> Term(program), rate |-> rate,
     apr |-> None, apor |-> None, junior |-> 0,
     pmi |-> IF Target(program) = "conventional" /\ 10 * ltv > 8 * Ratio THEN mi ELSE None,
     loan |-> req.price - Cents(req.price * pct, Ratio), value |-> req.price]

\* Mutant: the FHA premium is that of the loan before the upfront one.
MutantAmounts(program, pct) ==
    LET base == req.price - Cents(req.price * pct, Ratio)
        insured == Above(base, req.price, 800)
    IN  CASE program \in Family ->
               Result([financed |-> base, estimated |-> insured,
                       mi |-> IF insured THEN Cents(base * 75, 120000) ELSE 0])
          [] program = "FHA30" ->
               Then(Mip(base, req.price, Ref.longTerm),
                    LAMBDA mip : Result([financed |-> base + mip.upfront, estimated |-> FALSE,
                                         mi |-> Cents(base * mip.bps, 120000)]))
          [] OTHER ->
               Then(FundingFee(base, pct),
                    LAMBDA fee : Result([financed |-> base + fee, estimated |-> FALSE, mi |-> 0]))
\* The amounts of a cell, before it is judged: [financed, mi, estimated].
Amounts(program, pct) ==
    LET base == req.price - Cents(req.price * pct, Ratio)
        insured == Above(base, req.price, 800)
    IN  CASE program \in Family ->
               Result([financed |-> base, estimated |-> insured,
                       mi |-> IF insured THEN Cents(base * 75, 120000) ELSE 0])
          [] program = "FHA30" ->
               Then(Mip(base, req.price, Ref.longTerm),
                    LAMBDA mip : Result([financed |-> base + mip.upfront, estimated |-> FALSE,
                                         mi |-> Cents((base + mip.upfront) * mip.bps, 120000)]))
          [] OTHER ->
               Then(FundingFee(base, pct),
                    LAMBDA fee : Result([financed |-> base + fee, estimated |-> FALSE, mi |-> 0]))

\* tax and insurance of a year and dues of a month, as far as they are known.
Escrow(listing) ==
    LET Known(amount) == IF amount = None THEN 0 ELSE amount
    IN  Cents(Known(listing.tax), 12) + Cents(Known(listing.insurance), 12) + Known(listing.hoa)

\* _compute_cash_to_close: the down payment and three percent of the loan.
CashToClose(base, down) == Cents(100 * down + 3 * base, 100)

\* blocker_reasons: what the affordability engine says, then the reserves; a
\* VA cell is never approved without its residual income.
Reasons(program, response, dti, cash) ==
    LET short == IF cash > req.h.reserves THEN {"CASH-TO-CLOSE-RESERVES"} ELSE {}
        engine == CASE response.error # "none" -> {"LIMIT-CEILING-EXCEEDED"}
                    [] response.error = "none" /\ response.value.blocker # "none" ->
                         {response.value.blocker}
                    [] OTHER -> short
    IN  IF program # "VA30" THEN engine
        ELSE engine \cup short \cup {"VA-RESIDUAL-NOT-SUPPLIED"}
             \cup (IF dti > DtiCeiling(program) THEN {"DTI-CAP-VA"} ELSE {})

\* A cell before it is judged.
Unjudged(program, pct, rate, a) ==
    LET down == Cents(req.price * pct, Ratio)
        pi == LevelPayment(a.financed, rate, RateDen, Term(program))
        piti == pi + a.mi + Escrow(req.listing)
    IN  [program |-> program, pct |-> pct, financed |-> a.financed, pi |-> pi, mi |-> a.mi,
         estimated |-> a.estimated, piti |-> piti, cash |-> CashToClose(req.price - down, down),
         dti |-> Quotient(piti + req.h.debts, req.h.income), ltv |-> Quotient(a.financed, req.price),
         eligible |-> FALSE, reasons |-> {}]
Mark(c, reasons) == [c EXCEPT !.eligible = (reasons = {}), !.reasons = reasons]

\* _build_program_result.  Only NotImplementedError of the engine is caught.
Judge(c, response) ==
    IF response.error \notin {"none", "NotImplementedError"} THEN Raise(response.error)
    ELSE Result(Mark(c, Reasons(c.program, response, c.dti, c.cash)))
Cell(program, pct, rate) ==
    LET Asked(c) ==
            Judge(c, Evaluate(ForwardRequest(program, pct, Escrow(req.listing), c.mi, c.ltv, rate)))
    IN  IF rate \notin 0..RateDen THEN Raise("ValidationError")
        ELSE Then(Amounts(program, pct),
                  LAMBDA a : IF ~ req.h.knownState THEN Raise("KeyError")
                             ELSE Asked(Unjudged(program, pct, rate, a)))

\* The next cell of _build_matrix; after the last one the premium warning.
EvaluateCell ==
    LET pcts == Percentages
        k == Len(cells)
        program == programs[(k \div Len(pcts)) + 1]
        last == k + 1 = Len(pcts) * Len(programs)
    IN  /\ stage = "matrix"
        /\ \E cell \in {Cell(program, pcts[(k % Len(pcts)) + 1], rates[program])} :
               IF cell.error # "none" THEN Fail(cell.error) /\ UNCHANGED <<cells, warnings>>
               ELSE /\ cells' = Append(cells, cell.value)
                    /\ stage' = IF last THEN "stress" ELSE "matrix"
                    /\ warnings' = IF last /\ \E i \in DOMAIN cells' : cells'[i].estimated
                                   THEN warnings \cup {"PMI-RATE-ESTIMATED"} ELSE warnings
                    /\ UNCHANGED error
        /\ UNCHANGED <<req, programs, rates, stressed, rows, refi, points, tax, verdict>>

-----------------------------------------------------------------------------
(* The blocks of the programs that pass.                                   *)

\* _eligible_cells_at_preferred_dp: VA needs only the residual income.
Passing == {i \in DOMAIN cells :
               /\ cells[i].pct = req.preferred
               /\ \/ cells[i].eligible
                  \/ cells[i].program = "VA30" /\ cells[i].reasons = {"VA-RESIDUAL-NOT-SUPPLIED"}}

\* _construct_affordability_request_for_cell.
CellRequest(c) ==
    ForwardRequest(c.program, c.pct, Escrow(req.listing), c.mi, c.ltv, rates[c.program])

StressRow(c, kind, dti) ==
    [program |-> c.program, kind |-> kind, dti |-> dti, breaches |-> dti > DtiCeiling(c.program)]

\* The DTI of a cell with another payment of principal and interest.
DtiWith(c, pi) == Quotient(c.piti - c.pi + pi + req.h.debts, req.h.income)

\* Mutant: the row compares with the income before the shock.
MutantIncomeDti(c) == Quotient(c.piti + req.h.debts, req.h.income)
\* _stress_row_from_income_shock computes its own DTI at 70 % of the income.
IncomeDti(c) == Cents((c.piti + req.h.debts) * Ratio * 10, 7 * req.h.income)

\* What is no rate: one two points higher, and for the ARM a negative index
\* or a reset at the lifetime ceiling, five points above the rate of the loan.
Refused(c) ==
    LET rate == rates[c.program]
    IN  \/ rate + 8 > RateDen
        \/ c.program = "Conv30" /\ (rates["Conv30-ARM-5-1"] < 0 \/ rate + 20 > RateDen)

\* The rows of a cell.  The peak of the ARM lies between the payment of the
\* cell and the one at the lifetime cap (module Arm computes it).
CellRows(c, peak) ==
    LET rate == rates[c.program]
        shocked == RateShock(c.financed, Term(c.program), <<rate, rate + 8>>, rate)
    IN  {StressRow(c, "rate_shock", DtiWith(c, shocked.value.pi[2])),
         StressRow(c, "income_shock", IncomeDti(c))}
        \cup (IF c.program = "Conv30" THEN {StressRow(c, "arm_reset", DtiWith(c, peak))} ELSE {})

\* The engine's answer to 30 % less income.
Upstream(c) == IncomeShock(CellRequest(c), <<30>>, DtiCeiling(c.program))

\* _build_stress_block, the next cell.
StressCell ==
    \E i \in Passing \ stressed :
        LET c == cells[i]
        IN  /\ stage = "stress"
            /\ \A j \in Passing \ stressed : i <= j
            /\ \E refusal \in {IF Refused(c) THEN "ValidationError" ELSE Upstream(c).error} :
               IF refusal # "none" THEN Fail(refusal) /\ UNCHANGED <<stressed, rows>>
               ELSE /\ \E peak \in {c.pi, LevelPayment(c.financed, rates[c.program] + 20, RateDen,
                                                       Term(c.program))} :
                         rows' = rows \cup CellRows(c, peak)
                    /\ stressed' = stressed \cup {i}
                    /\ UNCHANGED <<stage, error>>
            /\ UNCHANGED <<req, programs, warnings, rates, cells, refi, points, tax, verdict>>

\* _build_refi_block: a rate one point lower, and one of 85 percent.
BuildRefi ==
    LET Row(c) == [closing |-> Cents(c.financed * 2, 100),
                   minus |-> rates[c.program] - 4, scaled |-> 85 * rates[c.program]]
    IN  /\ stage = "stress" /\ Passing \subseteq stressed
        /\ IF \E i \in Passing : rates[cells[i].program] < 4
           THEN Fail("ValidationError") /\ UNCHANGED refi
           ELSE /\ refi' = [i \in Passing |-> Row(cells[i])]
                /\ stage' = "points"
                /\ UNCHANGED error
        /\ UNCHANGED <<req, programs, warnings, rates, cells, stressed, rows, points, tax, verdict>>

\* _build_points_block: a point costs one percent and lowers the rate by a
\* quarter; FHA and VA rows hold a note.
BuildPoints ==
    LET Cost(c, n) == IF c.program \in Family THEN Cents(c.financed * n, 100) ELSE None
    IN  /\ stage = "points"
        /\ IF \E i \in Passing : Cost(cells[i], 1) = 0
           THEN Fail("ValidationError") /\ UNCHANGED points
           ELSE /\ points' = [i \in Passing |-> <<Cost(cells[i], 1), Cost(cells[i], 2)>>]
                /\ stage' = "tax"
                /\ UNCHANGED error
        /\ UNCHANGED <<req, programs, warnings, rates, cells, stressed, rows, refi, tax, verdict>>

\* _build_tax_block.
BuildTax ==
    /\ stage = "tax"
    /\ tax' = [i \in Passing |-> cells[i].financed > QualifiedLoanLimit(req.filing)]
    /\ stage' = "verdict"
    /\ UNCHANGED <<req, programs, warnings, rates, cells, stressed, rows, refi, points, verdict, error>>

GiveVerdict ==
    /\ stage = "verdict"
    /\ verdict' = Synthesize(cells, rows, req.preferred)
    /\ stage' = "done"
    /\ UNCHANGED <<req, programs, warnings, rates, cells, stressed, rows, refi, points, tax, error>>

Next == \/ DeterminePrograms \/ ReadRates \/ EvaluateCell \/ StressCell
        \/ BuildRefi \/ BuildPoints \/ BuildTax \/ GiveVerdict

Spec == Init /\ [][Next]_vars

-----------------------------------------------------------------------------
(* Properties.                                                             *)

\* The loan at a down payment, before upfront fees.
Borrowed(pct) == req.price - Cents(req.price * pct, Ratio)
\* The LTV is over 80 %, but not when it is rounded.
OverInCents(pct) == /\ Above(Borrowed(pct), req.price, 800)
                    /\ 10 * Quotient(Borrowed(pct), req.price) <= 8 * Ratio

\* The series of the cache that the analysis has to read.
Cached == (IF req.given30 = None THEN {req.fred30} ELSE {})
          \cup (IF req.given15 = None THEN {req.fred15} ELSE {})

\* An analysis fails only where it must: for a county or a state that the
\* tables lack; for a series that is not given, if its lock or its entry fails;
\* for a rate whose variations leave 0 to 100 %, a purchase with no loan to
\* speak of, and an LTV that rounds to 80 %.  No look-up of a table and no
\* division of the rules ever fails beneath it.
CrashHasCause ==
    LET pcts == {Percentages[i] : i \in DOMAIN Percentages}
        Read(e) == \E entry \in Cached : FromFred(entry).error = e
    IN  /\ error \in {"none", "KeyError", "MissingCountyDataError", "ValueError", "ValidationError",
                      "InvalidOperation", "TypeError"} \cup LockErrors
        /\ error = "KeyError" => ~ req.h.knownState
        /\ error = "MissingCountyDataError" =>
               req.price > Ref.fhaFloor /\ req.h.county \notin DOMAIN Ref.fha \cap DOMAIN Ref.fhfa
        /\ error \in LockErrors => Cached # {}
        /\ error \in {"InvalidOperation", "TypeError"} => Read(error)
        /\ error = "ValueError" => Read(error) \/ (req.va /\ \E pct \in pcts : Borrowed(pct) = 0)
        /\ error = "ValidationError" =>
               \/ \E p \in DOMAIN rates \ {"Conv30-ARM-5-1"} : rates[p] \notin 4..(RateDen - 20)
               \/ \E pct \in pcts : Cents(Borrowed(pct), 100) = 0 \/ OverInCents(pct)

\* A larger down payment can only run out of cash: it makes no program but
\* Jumbo30, whose loans may become too small for it, ineligible on other
\* grounds.  Brackets of LTV, premiums and limits all have to agree with that.
MoreDownNeverHurts ==
    \A i, j \in DOMAIN cells :
        /\ cells[i].program = cells[j].program /\ cells[i].program # "Jumbo30"
        /\ cells[i].eligible /\ cells[i].pct < cells[j].pct
        => cells[j].reasons \subseteq {"CASH-TO-CLOSE-RESERVES"}

\* A GO rests on a loan that is not FHA's, that the reserves pay for, and that
\* 70 percent of the income still carries.
GoMeansSafe ==
    stage = "done" /\ verdict.level = "GO" =>
        \E i \in DOMAIN cells :
            /\ cells[i].pct = req.preferred /\ cells[i].program # "FHA30"
            /\ cells[i].reasons = {} /\ ~ (cells[i].cash > req.h.reserves)
            /\ ~ (IncomeDti(cells[i]) > DtiCeiling(cells[i].program))

\* Programs are chosen by the price and limits applied to the loan: between
\* them, every down payment has a 30-year loan whose class it is.
LimitLeavesAProgram ==
    \A i \in DOMAIN cells :
        /\ stage \notin {"matrix", "raised"}
        /\ cells[i].program \in {"Conv30", "Jumbo30"} /\ cells[i].reasons = {"LIMIT"}
        => \E j \in DOMAIN cells :
               /\ cells[j].program \in {"Conv30", "Jumbo30"} \ {cells[i].program}
               /\ cells[j].pct = cells[i].pct /\ "LIMIT" \notin cells[j].reasons

\* The matrix prices a loan itself and asks the engine whether it is allowed.
\* The DTI it shows is the one that the engine judged; only for VA, whose fee
\* the engine does not know, and for Jumbo30, whose premium it does not ask,
\* does the engine judge a lower one.
EngineAgrees ==
    stage = "done" =>
        \A i \in DOMAIN cells : \A engine \in {Evaluate(CellRequest(cells[i]))} :
            engine.error = "none" =>
                IF cells[i].program \in {"VA30", "Jumbo30"} THEN engine.value.dti <= cells[i].dti
                                                            ELSE engine.value.dti = cells[i].dti

\* The income row, which ignores the engine's, breaches when the engine's does,
\* unless the engine rounds the income that is left to a cent.
StressAgrees ==
    stage = "done" /\ (70 * req.h.income) % 100 = 0 =>
        \A i \in Passing : \A row \in rows :
            /\ row.program = cells[i].program /\ row.kind = "income_shock"
            /\ row.program \notin {"VA30", "Jumbo30"}
            => row.breaches = Upstream(cells[i]).value.breaches[1]
=============================================================================
