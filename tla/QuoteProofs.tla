---------------------------- MODULE QuoteProofs -----------------------------
(***************************************************************************)
(* Theorems about Quote, for any requests, cuts and reference data that    *)
(* its assumption allows.  First the amounts, then what the engine answers *)
(* in each mode and why it raises, then the three calls of a quote.        *)
(***************************************************************************)
EXTENDS Quote, TLAPS

\* The lemmas of Amortize about amounts, annuities and recursion, which are of
\* no loan in particular.
P == INSTANCE AmortizeProofs WITH
        Loans <- {}, Plans <- {}, Modes <- {}, loan <- 0, plan <- 0, mode <- 0, period <- 0,
        balance <- 0, cumInt <- 0, cumPrin <- 0, cumExtra <- 0, rows <- 0, outcome <- 0

-----------------------------------------------------------------------------
(* Amounts.                                                                *)

\* The amounts of Amortize are the ones of Money.
LEMMA SameMoney ==
  /\ \A n, d : P!Cents(n, d) = Cents(n, d)
  /\ \A num, d, n : P!Annuity(num, d, n) = Annuity(num, d, n)
<1>1. \A n, d : P!Cents(n, d) = Cents(n, d)
  BY Zenon DEF P!Cents, Cents
<1>2. \A num, d, n : P!Annuity(num, d, n) = Annuity(num, d, n)
  BY Zenon DEF P!Annuity, Annuity
<1> QED
  BY <1>1, <1>2

\* No loan in particular is one that Amortize is about.
LEMMA NoLoan ==
  /\ \A l \in {} : /\ l \in [principal : Nat, num : Nat, den : Nat \ {0}, term : Nat \ {0}]
                  /\ l.num <= l.den
  /\ {} \subseteq Seq([period : Nat \ {0}, amount : Nat \ {0}, recurring : BOOLEAN])
  /\ {} \subseteq {"monthly", "half-monthly", "biweekly"}
  OBVIOUS

\* A rounded amount is the greatest that is at most half a cent too large.
LEMMA CentsAre ==
  ASSUME NEW n \in Nat, NEW d \in Nat \ {0}
  PROVE  /\ Cents(n, d) \in Nat
         /\ \A q \in Int : q <= Cents(n, d) <=> (2 * q - 1) * d <= 2 * n
  BY NoLoan, UnitAssumption, P!CentsIsGreatest, SameMoney

\* A rounded amount is one.
LEMMA CentsType == ASSUME NEW n \in Nat, NEW d \in Nat \ {0} PROVE Cents(n, d) \in Nat
  BY CentsAre

\* Rounding differs from the fraction by at most a half.
LEMMA CentsClose ==
  ASSUME NEW n \in Nat, NEW d \in Nat \ {0}
  PROVE  LET c == Cents(n, d) IN 2 * (c * d) <= 2 * n + d /\ 2 * n < 2 * (c * d) + d
<1> DEFINE c == Cents(n, d)
<1>1. c \in Nat /\ \A q \in Int : q <= c <=> (2 * q - 1) * d <= 2 * n
  BY CentsAre
<1> HIDE DEF c
<1>2. (2 * c - 1) * d <= 2 * n
  BY <1>1
<1>3. ~ ((2 * (c + 1) - 1) * d <= 2 * n)
  <2>1. c + 1 \in Int /\ ~ (c + 1 <= c)
    BY <1>1
  <2> QED
    BY <1>1, <2>1
<1>4. (2 * c - 1) * d = 2 * (c * d) - d /\ (2 * (c + 1) - 1) * d = 2 * (c * d) + d
  BY <1>1
<1>5. c * d \in Int
  BY <1>1
<1> QED
  BY <1>2, <1>3, <1>4, <1>5 DEF c

\* A rounded fraction of the same amount is no smaller for a smaller divisor,
\* and of a larger amount no smaller for the same divisor.
LEMMA CentsOrder ==
  ASSUME NEW n \in Nat, NEW d \in Nat \ {0}, NEW m \in Nat, NEW e \in Nat \ {0}, n <= m, e <= d
  PROVE  Cents(n, d) <= Cents(m, e)
<1>1. n * e <= m * d
  <2>1. (m - n) * d >= 0 /\ n * (d - e) >= 0
    BY SMT
  <2>2. (m - n) * d = m * d - n * d /\ n * (d - e) = n * d - n * e
    OBVIOUS
  <2>3. m * d \in Int /\ n * d \in Int /\ n * e \in Int
    OBVIOUS
  <2> QED
    BY <2>1, <2>2, <2>3
<1> QED
  BY <1>1, NoLoan, UnitAssumption, P!CentsMonotonic, SameMoney

\* A ratio in the digits of quantize_rate, in the order of the fractions.
LEMMA QuotientOrder ==
  ASSUME NEW n \in Nat, NEW d \in Nat \ {0}, NEW m \in Nat, NEW e \in Nat \ {0}, n <= m, e <= d
  PROVE  Quotient(n, d) \in Nat /\ Quotient(n, d) <= Quotient(m, e)
<1> DEFINE x == n * Ratio
           y == m * Ratio
<1>1. x \in Nat /\ y \in Nat /\ x <= y
  <2>1. (m - n) * Ratio >= 0
    BY AskAssumption
  <2> QED
    BY <2>1, AskAssumption
<1> HIDE DEF x, y
<1>2. Cents(x, d) \in Nat /\ Cents(x, d) <= Cents(y, e)
  BY <1>1, CentsType, CentsOrder
<1> QED
  BY <1>2 DEF Quotient, x, y

\* An annuity at a rate of no more than 100 percent is worth at least half of
\* one payment.
LEMMA AnnuityType ==
  ASSUME NEW num \in 0..RateDen, NEW n \in Nat \ {0}
  PROVE  Annuity(num, 12 * RateDen, n) \in Nat \ {0} /\ Unit <= 2 * Annuity(num, 12 * RateDen, n)
<1> DEFINE d == 12 * RateDen
<1>1. d \in Nat \ {0} /\ num \in Nat /\ num <= d /\ 12 * num <= d
  BY DEF RateDen
<1> HIDE DEF d
<1> QED
  BY <1>1, NoLoan, UnitAssumption, P!AnnuityBounds, P!AnnuityIsHalf, SameMoney DEF d

\* The level payment of a loan is an amount.
LEMMA PaymentType ==
  ASSUME NEW p \in Nat, NEW num \in 0..RateDen, NEW n \in Nat \ {0}
  PROVE  LevelPayment(p, num, RateDen, n) \in Nat
<1> DEFINE A == Annuity(num, 12 * RateDen, n)
<1>1. A \in Nat \ {0}
  BY AnnuityType
<1>2. LevelPayment(p, num, RateDen, n) = Cents(p * Unit, A)
  BY DEF LevelPayment
<1> HIDE DEF A
<1>3. p * Unit \in Nat
  BY UnitAssumption
<1> QED
  BY <1>1, <1>2, <1>3, CentsType

\* What a payment is worth is a loan, whose payment is that one but for a cent.
LEMMA WorthIsPaid ==
  ASSUME NEW pmt \in Nat \ {0}, NEW num \in 0..RateDen, NEW n \in Nat \ {0}
  PROVE  LET l == PresentValue(pmt, num, RateDen, n)
             p == LevelPayment(l, num, RateDen, n)
         IN  l \in Nat \ {0} /\ p \in Nat /\ pmt - 1 <= p /\ p <= pmt + 1
<1> DEFINE A == Annuity(num, 12 * RateDen, n)
           l == PresentValue(pmt, num, RateDen, n)
           p == LevelPayment(l, num, RateDen, n)
<1>1. A \in Nat \ {0} /\ Unit <= 2 * A /\ Unit \in Nat \ {0}
  BY AnnuityType, UnitAssumption
<1>2. l = Cents(pmt * A, Unit) /\ p = Cents(l * Unit, A)
  BY DEF PresentValue, LevelPayment
<1> HIDE DEF A, l, p
<1>3. pmt * A \in Nat /\ A <= pmt * A
  <2>1. (pmt - 1) * A >= 0
    BY <1>1
  <2> QED
    BY <1>1, <2>1
<1>4. l \in Nat /\ 2 * (l * Unit) <= 2 * (pmt * A) + Unit /\ 2 * (pmt * A) < 2 * (l * Unit) + Unit
  <2> DEFINE x == pmt * A
  <2>1. x \in Nat
    BY <1>3
  <2> HIDE DEF x
  <2>2. Cents(x, Unit) \in Nat
    BY <1>1, <2>1, CentsType
  <2>3. 2 * (Cents(x, Unit) * Unit) <= 2 * x + Unit /\ 2 * x < 2 * (Cents(x, Unit) * Unit) + Unit
    BY <1>1, <2>1, CentsClose
  <2> QED
    BY <1>2, <2>2, <2>3 DEF x
<1>5. l # 0
  BY <1>1, <1>3, <1>4
<1>6. l * Unit \in Nat
  BY <1>1, <1>4
<1>7. p \in Nat /\ 2 * (p * A) <= 2 * (l * Unit) + A /\ 2 * (l * Unit) < 2 * (p * A) + A
  <2> DEFINE x == l * Unit
  <2>1. x \in Nat
    BY <1>6
  <2> HIDE DEF x
  <2>2. Cents(x, A) \in Nat
    BY <1>1, <2>1, CentsType
  <2>3. 2 * (Cents(x, A) * A) <= 2 * x + A /\ 2 * x < 2 * (Cents(x, A) * A) + A
    BY <1>1, <2>1, CentsClose
  <2> QED
    BY <1>2, <2>2, <2>3 DEF x
<1>8. p * A \in Nat
  BY <1>1, <1>7
<1>9. 2 * (p * A) <= 2 * (pmt * A) + 3 * A /\ 2 * (pmt * A) < 2 * (p * A) + 3 * A
  BY <1>1, <1>3, <1>4, <1>6, <1>7, <1>8
<1>10. p <= pmt + 1
  <2> SUFFICES ASSUME p >= pmt + 2 PROVE FALSE
    BY <1>7
  <2>1. (p - pmt - 2) * A >= 0
    BY <1>1, <1>7
  <2>2. (p - pmt - 2) * A = p * A - pmt * A - 2 * A
    BY <1>1, <1>7
  <2> QED
    BY <1>1, <1>3, <1>8, <1>9, <2>1, <2>2
<1>11. pmt - 1 <= p
  <2> SUFFICES ASSUME pmt >= p + 2 PROVE FALSE
    BY <1>7
  <2>1. (pmt - p - 2) * A >= 0
    BY <1>1, <1>7
  <2>2. (pmt - p - 2) * A = pmt * A - p * A - 2 * A
    BY <1>1, <1>7
  <2> QED
    BY <1>1, <1>3, <1>8, <1>9, <2>1, <2>2
<1> QED
  BY <1>4, <1>5, <1>7, <1>10, <1>11 DEF l, p
-----------------------------------------------------------------------------
(* The average balance of the first year.                                  *)

\* A balance after some rows of a schedule.
Year == {v \in [balance : Nat, sum : Nat, rows : Nat, paid : BOOLEAN] : v.paid => v.rows > 0}

\* The rows of average_scheduled_annual_balance, one after the other.
RowAfter(pi, num, term, acc, k) ==
    LET interest == Cents(acc.balance * num, 12 * RateDen)
        left == IF k = term \/ acc.balance + interest <= pi THEN 0
                ELSE acc.balance - (pi - interest)
    IN  IF acc.paid THEN acc
        ELSE [balance |-> left, sum |-> acc.sum + left, rows |-> k, paid |-> left = 0]
InterestOf(acc, num) == Cents(acc.balance * num, 12 * RateDen)
Months(term) == IF term < 12 THEN term ELSE 12
FirstYear(u, loan, num, term) ==
    /\ \A k \in 0..Months(term) : u[k] \in Year
    /\ u[0] = [balance |-> loan, sum |-> 0, rows |-> 0, paid |-> FALSE]
    /\ \A k \in 1..Months(term) :
           u[k] = RowAfter(LevelPayment(loan, num, RateDen, term), num, term, u[k - 1], k)

\* A row of a schedule that goes on, that ends, and that has ended.
LEMMA RowIs ==
  ASSUME NEW pi \in Nat, NEW num \in 0..RateDen, NEW term \in Nat \ {0}, NEW v \in Year,
         NEW k \in Nat \ {0}
  PROVE  LET i == InterestOf(v, num)
             w == RowAfter(pi, num, term, v, k)
         IN  /\ i \in Nat /\ w \in Year /\ w.rows > 0
             /\ v.paid => w = v
             /\ ~ v.paid /\ (k = term \/ v.balance + i <= pi) =>
                    w.balance = 0 /\ w.sum = v.sum /\ w.rows = k /\ w.paid
             /\ ~ v.paid /\ k # term /\ v.balance + i > pi =>
                    /\ w.balance = v.balance + i - pi /\ w.sum = v.sum + w.balance
                    /\ w.rows = k /\ ~ w.paid
<1> DEFINE d == 12 * RateDen
           x == v.balance * num
           i == InterestOf(v, num)
           left == IF k = term \/ v.balance + i <= pi THEN 0 ELSE v.balance - (pi - i)
           w == RowAfter(pi, num, term, v, k)
<1>1. w = IF v.paid THEN v ELSE
            [balance |-> left, sum |-> v.sum + left, rows |-> k, paid |-> left = 0]
  BY Zenon DEF RowAfter, InterestOf
<1>2. v \in [balance : Nat, sum : Nat, rows : Nat, paid : BOOLEAN] /\ (v.paid => v.rows > 0)
  BY DEF Year
<1>3. x \in Nat /\ d \in Nat \ {0}
  BY <1>2 DEF RateDen
<1> HIDE DEF x, d
<1>4. i \in Nat
  BY <1>3, CentsType DEF InterestOf, x, d
<1> HIDE DEF i
<1>5. left \in Nat
  BY <1>2, <1>4
<1>6. k = term \/ v.balance + i <= pi => left = 0
  OBVIOUS
<1>7. k # term /\ v.balance + i > pi => left = v.balance + i - pi /\ left # 0
  BY <1>2, <1>4
<1> HIDE DEF left, w
<1>8. w \in Year /\ w.rows > 0
  BY <1>1, <1>2, <1>5 DEF Year
<1>9. v.paid => w = v
  BY <1>1
<1>10. ~ v.paid => w.balance = left /\ w.sum = v.sum + left /\ w.rows = k /\ (w.paid <=> left = 0)
  BY <1>1
<1>11. v.sum + 0 = v.sum
  BY <1>2
<1> QED
  BY <1>4, <1>6, <1>7, <1>8, <1>9, <1>10, <1>11 DEF w, i

\* The interest of a row is within half a cent of the fraction.
LEMMA InterestIs ==
  ASSUME NEW num \in 0..RateDen, NEW v \in Year
  PROVE  LET i == InterestOf(v, num)
         IN  /\ i \in Nat
             /\ 2 * (i * (12 * RateDen)) <= 2 * (v.balance * num) + 12 * RateDen
             /\ 2 * (v.balance * num) < 2 * (i * (12 * RateDen)) + 12 * RateDen
<1> DEFINE d == 12 * RateDen
           x == v.balance * num
<1>1. x \in Nat /\ d \in Nat \ {0}
  BY DEF RateDen, Year
<1> HIDE DEF x, d
<1>2. Cents(x, d) \in Nat
  BY <1>1, CentsType
<1>3. 2 * (Cents(x, d) * d) <= 2 * x + d /\ 2 * x < 2 * (Cents(x, d) * d) + d
  BY <1>1, CentsClose
<1> QED
  BY <1>2, <1>3 DEF x, d, InterestOf

\* The average is the sum of a first year by its rows.
LEMMA AverageIs ==
  ASSUME NEW loan \in Nat, NEW num \in 0..RateDen, NEW term \in Nat \ {0}
  PROVE  \E u : /\ FirstYear(u, loan, num, term) /\ u[Months(term)].rows > 0
                /\ AverageBalance(loan, num, RateDen, term)
                     = Cents(u[Months(term)].sum, u[Months(term)].rows)
<1> DEFINE pi == LevelPayment(loan, num, RateDen, term)
           Row(acc, k) == RowAfter(pi, num, term, acc, k)
           months == Months(term)
           base == [balance |-> loan, sum |-> 0, rows |-> 0, paid |-> FALSE]
           turn == [k \in 1..months |-> [v \in Year |-> Row(v, k)]]
           UpTo(u) == u = [k \in 0..months |-> IF k = 0 THEN base ELSE Row(u[k - 1], k)]
<1>1. pi \in Nat
  BY PaymentType
<1>2. base \in Year
  BY DEF Year
<1>3. months \in Nat \ {0}
  BY DEF Months
<1> HIDE DEF pi, months
<1>4. ASSUME NEW k \in Nat \ {0}, NEW v \in Year
      PROVE  Row(v, k) \in Year /\ (Row(v, k)).rows > 0
  BY <1>1, RowIs
<1> HIDE DEF Row
<1>5. turn \in [1..months -> [Year -> Year]]
  BY <1>4
<1>6. PICK w \in [0..months -> Year] : P!Recursive(w, base, turn, months)
  <2> HIDE DEF base, turn
  <2> QED
    BY <1>2, <1>3, <1>5, NoLoan, UnitAssumption, P!Recursion
<1>7. UpTo(w)
  <2>1. \A k \in 1..months : turn[k][w[k - 1]] = Row(w[k - 1], k)
    <3>1. \A k \in 1..months : w[k - 1] \in Year
      BY <1>3, <1>6
    <3> QED
      BY <3>1
  <2>2. w[0] = base /\ \A k \in 1..months : w[k] = Row(w[k - 1], k)
    <3> HIDE DEF base
    <3> QED
      BY <1>6, <2>1 DEF P!Recursive
  <2> HIDE DEF base
  <2> QED
    BY <2>2
<1>8. PICK u : u = CHOOSE v : UpTo(v)
  OBVIOUS
<1>9. UpTo(u)
  <2> HIDE DEF UpTo
  <2> QED
    BY <1>7, <1>8
<1> HIDE DEF base
<1>10. u[0] = base /\ \A k \in 1..months : u[k] = Row(u[k - 1], k)
  BY <1>3, <1>9
<1> DEFINE T == {k \in 0..months : u[k] \in Year /\ (k > 0 => u[k].rows > 0)}
<1>11. 0..months \subseteq T
  <2>1. 0 \in T /\ \A k \in 1..months : k - 1 \in T => k \in T
    BY <1>2, <1>3, <1>4, <1>10
  <2> HIDE DEF T
  <2> QED
    BY <1>3, <2>1, NoLoan, UnitAssumption, P!Reaches
<1>12. AverageBalance(loan, num, RateDen, term) = Cents(u[months].sum, u[months].rows)
  BY <1>8, Zenon DEF AverageBalance, RowAfter, Row, months, Months, base, pi
<1>13. \A k \in 0..months : u[k] \in Year
  BY <1>11
<1>14. u[months].rows > 0
  BY <1>3, <1>11
<1>15. FirstYear(u, loan, num, term)
  BY <1>10, <1>13, Zenon DEF FirstYear, base, Row, pi, months
<1> QED
  BY <1>12, <1>14, <1>15 DEF months

\* The average balance of the first year is an amount.
LEMMA AverageType ==
  ASSUME NEW loan \in Nat, NEW num \in 0..RateDen, NEW term \in Nat \ {0}
  PROVE  AverageBalance(loan, num, RateDen, term) \in Nat
<1> DEFINE m == Months(term)
<1>1. PICK u : /\ FirstYear(u, loan, num, term) /\ u[m].rows > 0
               /\ AverageBalance(loan, num, RateDen, term) = Cents(u[m].sum, u[m].rows)
  BY AverageIs
<1>2. m \in 0..m
  BY DEF Months
<1>3. u[m] \in Year
  BY <1>1, <1>2 DEF FirstYear
<1>4. u[m].sum \in Nat /\ u[m].rows \in Nat \ {0}
  BY <1>1, <1>3 DEF Year
<1> QED
  BY <1>1, <1>4, CentsType

\* A first year: the balance falls, no balance is left after the last row, and
\* there is one row for each month before that.
LEMMA YearFalls ==
  ASSUME NEW loan \in Nat, NEW num \in 0..RateDen, NEW term \in Nat \ {0}, NEW u,
         FirstYear(u, loan, num, term)
  PROVE  \A k \in 0..Months(term) :
            /\ u[k].balance \in 0..loan /\ u[k].rows \in 0..k /\ u[k].paid \in BOOLEAN
            /\ u[k].sum \in Nat /\ u[k].sum <= u[k].rows * loan
            /\ u[k].paid => u[k].balance = 0
            /\ ~ u[k].paid => u[k].rows = k
            /\ k > 0 => /\ u[k].balance <= u[k - 1].balance
                        /\ u[k - 1].paid => u[k] = u[k - 1]
<1> DEFINE m == Months(term)
           pi == LevelPayment(loan, num, RateDen, term)
           T == {k \in 0..m : /\ u[k].balance \in 0..loan /\ u[k].rows \in 0..k
                              /\ u[k].paid \in BOOLEAN /\ u[k].sum \in Nat
                              /\ u[k].sum <= u[k].rows * loan
                              /\ u[k].paid => u[k].balance = 0
                              /\ ~ u[k].paid => u[k].rows = k
                              /\ k > 0 => /\ u[k].balance <= u[k - 1].balance
                                          /\ u[k - 1].paid => u[k] = u[k - 1]}
<1>1. m \in Nat
  BY DEF Months
<1>2. 0 \in T
  <2>1. u[0] = [balance |-> loan, sum |-> 0, rows |-> 0, paid |-> FALSE]
    BY DEF FirstYear
  <2>2. u[0].balance = loan /\ u[0].sum = 0 /\ u[0].rows = 0 /\ u[0].paid = FALSE
    BY <2>1
  <2>3. loan \in 0..loan /\ 0 \in 0..0 /\ 0 \in Nat /\ 0 <= 0 * loan /\ ~ (0 > 0) /\ 0 \in 0..m
    BY <1>1
  <2>4. FALSE \in BOOLEAN
    OBVIOUS
  <2> QED
    BY <2>2, <2>3, <2>4, Zenon
<1>3. pi \in Nat /\ Cents(loan * num, 12 * RateDen) <= pi
  <2>1. num \in Nat /\ RateDen \in Nat \ {0} /\ num <= RateDen
    BY DEF RateDen
  <2>2. P!LevelPayment(loan, num, RateDen, term) \in Nat
        /\ P!Cents(loan * num, 12 * RateDen) <= P!LevelPayment(loan, num, RateDen, term)
    BY <2>1, NoLoan, UnitAssumption, P!PaymentCoversInterest
  <2>3. P!LevelPayment(loan, num, RateDen, term) = pi
    BY SameMoney, Zenon DEF P!LevelPayment, LevelPayment
  <2> QED
    BY <2>2, <2>3, SameMoney
<1> HIDE DEF pi
<1>4. ASSUME NEW k \in 1..m, k - 1 \in T PROVE k \in T
  <2> DEFINE v == u[k - 1]
             w == RowAfter(pi, num, term, v, k)
             x == v.balance * num
             y == loan * num
             i == InterestOf(v, num)
  <2>1. v \in Year /\ u[k] = w
    BY <1>1 DEF FirstYear, m, pi
  <2>2. /\ v.balance \in Nat /\ v.balance <= loan /\ v.rows \in Nat /\ v.rows <= k - 1
        /\ v.sum \in Nat /\ v.sum <= v.rows * loan
        /\ v.paid => v.balance = 0
        /\ ~ v.paid => v.rows = k - 1
        /\ v.paid \in BOOLEAN
    BY <1>1, <1>4
  <2>3. /\ i \in Nat /\ w \in Year
        /\ v.paid => w = v
        /\ ~ v.paid /\ (k = term \/ v.balance + i <= pi) =>
               w.balance = 0 /\ w.sum = v.sum /\ w.rows = k /\ w.paid
        /\ ~ v.paid /\ k # term /\ v.balance + i > pi =>
               /\ w.balance = v.balance + i - pi /\ w.sum = v.sum + w.balance
               /\ w.rows = k /\ ~ w.paid
    <3> HIDE DEF v
    <3>1. k \in Nat \ {0}
      BY <1>1
    <3> HIDE DEF m
    <3> QED
      BY <1>3, <2>1, <3>1, RowIs
  <2>4. i <= pi
    <3>0. i = Cents(x, 12 * RateDen)
      BY DEF InterestOf
    <3>1. x \in Nat /\ y \in Nat /\ x <= y
      <4>1. (loan - v.balance) * num >= 0
        BY <2>2
      <4> QED
        BY <2>2, <4>1
    <3> HIDE DEF x, y
    <3>2. Cents(x, 12 * RateDen) <= Cents(y, 12 * RateDen)
      BY <3>1, CentsOrder DEF RateDen
    <3>3. Cents(y, 12 * RateDen) \in Nat
      BY <3>1, CentsType DEF RateDen
    <3> QED
      BY <1>3, <2>3, <3>0, <3>2, <3>3 DEF y
  <2> HIDE DEF v, w, i
  <2>5. /\ w.balance \in Nat /\ w.rows \in Nat /\ w.sum \in Nat /\ w.paid \in BOOLEAN
    BY <2>3 DEF Year
  <2>6. CASE v.paid
    <3>1. u[k] = v /\ v = u[k - 1] /\ k \in Nat /\ k > 0
      BY <1>1, <2>1, <2>3, <2>6 DEF v
    <3>2. v.balance <= v.balance /\ v.rows <= k
      BY <2>2, <3>1
    <3>3. u[k].balance \in 0..loan /\ u[k].rows \in 0..k
      BY <2>2, <3>1, <3>2
    <3>4. k \in 0..m
      BY <1>1
    <3> HIDE DEF m
    <3> QED
      BY <2>2, <2>6, <3>1, <3>2, <3>3, <3>4, Zenon
  <2>7. CASE ~ v.paid
    <3>1. /\ w.balance <= v.balance /\ w.rows = k /\ w.sum <= v.sum + loan
          /\ w.paid => w.balance = 0
      BY <1>3, <2>2, <2>3, <2>4, <2>5, <2>7
    <3>2. k * loan = (k - 1) * loan + loan /\ (k - 1) * loan \in Nat /\ v.sum <= (k - 1) * loan
      BY <2>2, <2>7
    <3>3. w.sum <= k * loan
      BY <2>2, <2>5, <3>1, <3>2
    <3> QED
      BY <1>1, <2>1, <2>2, <2>5, <2>7, <3>1, <3>3 DEF v
  <2> QED
    BY <2>2, <2>6, <2>7
<1>5. 0..m \subseteq T
  <2> HIDE DEF T, m
  <2> QED
    BY <1>1, <1>2, <1>4, NoLoan, UnitAssumption, P!Reaches
<1> QED
  BY <1>5

\* The factors of an annuity: they lose no more than a thirteenth a month, and
\* the sums are no more than the months and grow.
LEMMA FactorsAre ==
  ASSUME NEW num \in 0..RateDen, NEW n \in Nat, NEW u, P!Discounts(u, num, 12 * RateDen, n)
  PROVE  /\ \A k \in 0..n : /\ u[k].factor \in 0..Unit
                            /\ u[k].sum \in Nat /\ u[k].sum <= k * Unit
                            /\ 169 * Unit <= 169 * u[k].factor + 13 * (k * Unit) + 169 * k
         /\ \A k \in 1..n : /\ u[k].sum = u[k - 1].sum + u[k].factor
                            /\ u[k].sum <= u[n].sum
                            /\ u[k - 1].factor * (12 * RateDen)
                                 <= (u[k].factor + 1) * (12 * RateDen + num)
<1> DEFINE d == 12 * RateDen
           e == d + num
<1>1. d \in Nat \ {0} /\ e \in Nat \ {0} /\ 12 * e <= 13 * d /\ d <= e /\ Unit \in Nat
  BY UnitAssumption DEF RateDen
<1>2. \A k \in 0..n : u[k].factor \in Nat /\ u[k].sum \in Nat
  BY DEF P!Discounts, P!Factor
<1>3. /\ u[0].factor = Unit /\ u[0].sum = 0
      /\ \A k \in 1..n : /\ u[k].factor = (u[k - 1].factor * d) \div e
                         /\ u[k].sum = u[k - 1].sum + u[k].factor
  BY Zenon DEF P!Discounts, d, e
<1> HIDE DEF d, e
<1>4. ASSUME NEW k \in 1..n
      PROVE  /\ u[k].factor * e <= u[k - 1].factor * d
             /\ u[k - 1].factor * d <= (u[k].factor + 1) * e
             /\ u[k].factor <= u[k - 1].factor
             /\ 12 * u[k - 1].factor <= 13 * u[k].factor + 13
  <2> DEFINE f == u[k - 1].factor
             g == u[k].factor
             a == f * d
  <2>1. f \in Nat /\ g \in Nat /\ a \in Nat
    BY <1>1, <1>2
  <2>2. g = a \div e
    BY <1>3
  <2> HIDE DEF f, g, a
  <2>3. a \div e \in Int /\ (a \div e) * e <= a /\ a < (a \div e) * e + e
    BY <1>1, <2>1
  <2>4. g * e <= a /\ a <= (g + 1) * e
    <3>1. (g + 1) * e = g * e + e /\ g * e \in Nat
      BY <1>1, <2>1
    <3>2. g * e <= a /\ a < g * e + e
      BY <2>2, <2>3, Zenon
    <3> QED
      BY <1>1, <2>1, <3>1, <3>2
  <2>5. a = f * d /\ a \in Nat /\ g * e \in Nat /\ (g + 1) * e \in Nat
    BY <1>1, <2>1 DEF a
  <2>6. g <= f
    <3> SUFFICES ASSUME g >= f + 1 PROVE FALSE
      BY <2>1
    <3>1. (g - f - 1) * e >= 0 /\ f * (e - d) >= 0
      BY <1>1, <2>1
    <3>2. (g - f - 1) * e = g * e - f * e - e /\ f * (e - d) = f * e - f * d /\ f * e \in Nat
      BY <1>1, <2>1
    <3> QED
      BY <1>1, <2>4, <2>5, <3>1, <3>2
  <2>7. 12 * f <= 13 * g + 13
    <3> SUFFICES ASSUME 12 * f >= 13 * g + 14 PROVE FALSE
      BY <2>1
    <3>1. (12 * f - 13 * g - 14) * d >= 0 /\ (13 * d - 12 * e) * (g + 1) >= 0
      BY <1>1, <2>1
    <3>2. /\ (12 * f - 13 * g - 14) * d = 12 * (f * d) - 13 * (g * d) - 14 * d
          /\ (13 * d - 12 * e) * (g + 1) = 13 * (g * d) + 13 * d - 12 * ((g + 1) * e)
          /\ g * d \in Nat
      BY <1>1, <2>1
    <3> QED
      BY <1>1, <2>4, <2>5, <3>1, <3>2
  <2> QED
    BY <2>4, <2>6, <2>7 DEF f, g, a
<1> DEFINE T == {k \in 0..n : /\ u[k].factor <= Unit /\ u[k].sum <= k * Unit
                              /\ 169 * Unit <= 169 * u[k].factor + 13 * (k * Unit) + 169 * k}
<1>5. ASSUME NEW k \in 1..n, k - 1 \in T PROVE k \in T
  <2> DEFINE f == u[k - 1].factor
             g == u[k].factor
             s == u[k - 1].sum
             x == (k - 1) * Unit
             y == k * Unit
  <2>1. /\ f \in Nat /\ g \in Nat /\ s \in Nat /\ u[k].sum = s + g
        /\ f <= Unit /\ s <= x /\ 169 * Unit <= 169 * f + 13 * x + 169 * (k - 1)
        /\ g <= f /\ 12 * f <= 13 * g + 13
    BY <1>2, <1>3, <1>4, <1>5
  <2>2. y = x + Unit /\ x \in Nat /\ x >= 0
    BY <1>1
  <2> HIDE DEF f, g, s, x, y
  <2>3. g <= Unit /\ s + g <= y
    BY <1>1, <2>1, <2>2
  <2>4. 169 * Unit <= 169 * g + 13 * y + 169 * k
    BY <1>1, <2>1, <2>2
  <2> QED
    BY <2>1, <2>3, <2>4 DEF g, y
<1>6. 0..n \subseteq T
  <2>1. 0 \in T
    BY <1>1, <1>3
  <2> HIDE DEF T
  <2> QED
    BY <1>5, <2>1, NoLoan, UnitAssumption, P!Reaches
<1>7. ASSUME NEW k \in 1..n PROVE u[k].sum <= u[n].sum
  <2> DEFINE R == {j \in 0..n : j >= k => u[k].sum <= u[j].sum}
  <2>1. 0 \in R
    OBVIOUS
  <2>2. ASSUME NEW j \in 1..n, j - 1 \in R PROVE j \in R
    <3>1. u[j].sum = u[j - 1].sum + u[j].factor /\ u[j].factor \in Nat /\ u[j - 1].sum \in Nat
          /\ u[j].sum \in Nat /\ u[k].sum \in Nat
      BY <1>2, <1>3
    <3>2. CASE j = k
      BY <3>1, <3>2
    <3>3. CASE j # k
      BY <2>2, <3>1, <3>3
    <3> QED
      BY <3>2, <3>3
  <2>3. 0..n \subseteq R
    <3> HIDE DEF R
    <3> QED
      BY <2>1, <2>2, NoLoan, UnitAssumption, P!Reaches
  <2> QED
    BY <2>3
<1>8. \A k \in 0..n : /\ u[k].factor \in 0..Unit /\ u[k].sum \in Nat /\ u[k].sum <= k * Unit
                      /\ 169 * Unit <= 169 * u[k].factor + 13 * (k * Unit) + 169 * k
  BY <1>1, <1>2, <1>6
<1> QED
  BY <1>3, <1>4, <1>7, <1>8 DEF d, e

\* A balance by its factor does not lose more in a month than the payment and
\* what rounding takes.
LEMMA WorthKept ==
  ASSUME NEW b \in Nat, NEW i \in Nat, NEW f \in Nat, NEW g \in Nat, NEW num \in Nat,
         NEW d \in Nat \ {0}, num <= d,
         2 * (b * num) <= 2 * (i * d) + d, f * d <= (g + 1) * (d + num)
  PROVE  4 * (b * f) <= 4 * (b * g) + 4 * (i * g) + 8 * b + 2 * g
<1> DEFINE bg == b * g
           bf == b * f
           ig == i * g
           bn == b * num
<1>1. bg \in Nat /\ bf \in Nat /\ ig \in Nat /\ bn \in Nat
  OBVIOUS
<1>2. bf * d <= bg * d + bn * g + b * d + bn
  <2>1. b * ((g + 1) * (d + num) - f * d) >= 0
    OBVIOUS
  <2>2. b * ((g + 1) * (d + num) - f * d) = bg * d + bn * g + b * d + bn - bf * d
    OBVIOUS
  <2>3. bg * d \in Nat /\ bn * g \in Nat /\ b * d \in Nat /\ bf * d \in Nat
    OBVIOUS
  <2> HIDE DEF bg, bf, bn
  <2> QED
    BY <1>1, <2>1, <2>2, <2>3
<1>3. 2 * (bn * g) <= 2 * (ig * d) + g * d
  <2>1. (2 * (i * d) + d - 2 * bn) * g >= 0
    OBVIOUS
  <2>2. (2 * (i * d) + d - 2 * bn) * g = 2 * (ig * d) + g * d - 2 * (bn * g)
    OBVIOUS
  <2>3. bn * g \in Nat /\ ig * d \in Nat /\ g * d \in Nat
    OBVIOUS
  <2> HIDE DEF bg, bf, bn, ig
  <2> QED
    BY <2>1, <2>2, <2>3
<1>4. bn <= b * d
  <2>1. b * (d - num) >= 0
    OBVIOUS
  <2>2. b * (d - num) = b * d - bn
    OBVIOUS
  <2>3. b * d \in Nat
    OBVIOUS
  <2> HIDE DEF bn
  <2> QED
    BY <1>1, <2>1, <2>2, <2>3
<1> HIDE DEF bg, bf, ig, bn
<1>5. 4 * (bf * d) <= 4 * (bg * d) + 4 * (ig * d) + 8 * (b * d) + 2 * (g * d)
  <2>1. /\ bf * d \in Nat /\ bg * d \in Nat /\ ig * d \in Nat /\ b * d \in Nat /\ g * d \in Nat
        /\ bn * g \in Nat
    BY <1>1
  <2> QED
    BY <1>1, <1>2, <1>3, <1>4, <2>1
<1>6. 4 * bf <= 4 * bg + 4 * ig + 8 * b + 2 * g
  <2> DEFINE z == 4 * bf - 4 * bg - 4 * ig - 8 * b - 2 * g
  <2>1. z * d <= 0 /\ z \in Int
    <3>1. z * d = 4 * (bf * d) - 4 * (bg * d) - 4 * (ig * d) - 8 * (b * d) - 2 * (g * d)
      BY <1>1
    <3>2. /\ bf * d \in Nat /\ bg * d \in Nat /\ ig * d \in Nat /\ b * d \in Nat /\ g * d \in Nat
      BY <1>1
    <3>3. z \in Int
      BY <1>1
    <3> HIDE DEF z
    <3> QED
      BY <1>5, <3>1, <3>2, <3>3
  <2>2. ~ (z >= 1)
    <3> HIDE DEF z
    <3> QED
      BY <2>1
  <2> QED
    BY <1>1, <2>1, <2>2
<1> QED
  BY <1>6 DEF bf, bg, ig

\* The rows of a schedule that has not ended.
RowsGoOn(pi, num, term) ==
    \A v \in Year, k \in Nat \ {0} : ~ v.paid =>
        LET i == InterestOf(v, num)
            w == RowAfter(pi, num, term, v, k)
        IN  /\ i \in Nat /\ v.balance \in Nat /\ w.rows = k
            /\ k = term \/ v.balance + i <= pi => w.balance = 0 /\ w.sum = v.sum /\ w.paid
            /\ k # term /\ v.balance + i > pi =>
                   w.balance = v.balance + i - pi /\ w.sum = v.sum + w.balance /\ ~ w.paid

LEMMA RowsAre ==
  ASSUME NEW pi \in Nat, NEW num \in 0..RateDen, NEW term \in Nat \ {0}
  PROVE  RowsGoOn(pi, num, term)
<1>1. ASSUME NEW v \in Year, NEW k \in Nat \ {0}, ~ v.paid
      PROVE  LET i == InterestOf(v, num)
                 w == RowAfter(pi, num, term, v, k)
             IN  /\ i \in Nat /\ v.balance \in Nat /\ w.rows = k
                 /\ k = term \/ v.balance + i <= pi => w.balance = 0 /\ w.sum = v.sum /\ w.paid
                 /\ k # term /\ v.balance + i > pi =>
                        w.balance = v.balance + i - pi /\ w.sum = v.sum + w.balance /\ ~ w.paid
  <2> DEFINE i == InterestOf(v, num)
             w == RowAfter(pi, num, term, v, k)
  <2>1. v.balance \in Nat
    BY DEF Year
  <2>2. /\ i \in Nat
        /\ ~ v.paid /\ (k = term \/ v.balance + i <= pi) =>
               w.balance = 0 /\ w.sum = v.sum /\ w.rows = k /\ w.paid
        /\ ~ v.paid /\ k # term /\ v.balance + i > pi =>
               /\ w.balance = v.balance + i - pi /\ w.sum = v.sum + w.balance
               /\ w.rows = k /\ ~ w.paid
    BY RowIs
  <2> HIDE DEF i, w
  <2>3. (k = term \/ v.balance + i <= pi) \/ (k # term /\ v.balance + i > pi)
    BY <2>1, <2>2
  <2> QED
    BY <1>1, <2>1, <2>2, <2>3 DEF i, w
<1> QED
  BY <1>1, Zenon DEF RowsGoOn

\* A loan of more than a few dollars is not paid within a year that its term
\* does not end in.
LEMMA YearIsFull ==
  ASSUME NEW loan \in Nat, loan >= 3429, NEW num \in 0..RateDen, NEW term \in Nat \ {0}, NEW u,
         FirstYear(u, loan, num, term), u[Months(term)].rows > 0
  PROVE  u[Months(term)].rows = Months(term)
<1> DEFINE m == Months(term)
           d == 12 * RateDen
           pi == LevelPayment(loan, num, RateDen, term)
           A == Annuity(num, d, term)
           once == 8 * loan + 2 * Unit
<1>1. /\ m \in 1..12 /\ m <= term /\ d \in Nat \ {0} /\ num \in Nat /\ num <= d
      /\ Unit \in Nat /\ Unit >= 20000 /\ once \in Nat
  BY UnitAssumption, AskAssumption DEF Months, RateDen
<1>2. A \in Nat \ {0}
  BY AnnuityType
<1>3. PICK w : P!Discounts(w, num, d, term) /\ A = w[term].sum
  <2>1. \E w : P!Discounts(w, num, d, term) /\ P!Annuity(num, d, term) = w[term].sum
    <3> HIDE DEF d
    <3> QED
      BY <1>1, NoLoan, UnitAssumption, P!AnnuitySteps
  <2> QED
    BY <2>1, SameMoney
<1>4. /\ \A k \in 0..term : /\ w[k].factor \in 0..Unit /\ w[k].sum \in Nat /\ w[k].sum <= k * Unit
                            /\ 169 * Unit <= 169 * w[k].factor + 13 * (k * Unit) + 169 * k
      /\ \A k \in 1..term : /\ w[k].sum = w[k - 1].sum + w[k].factor
                            /\ w[k].sum <= A
                            /\ w[k - 1].factor * d <= (w[k].factor + 1) * (d + num)
  BY <1>3, FactorsAre DEF d
<1>5. w[0].factor = Unit /\ w[0].sum = 0
  BY <1>3 DEF P!Discounts
<1>6. pi \in Nat /\ 2 * (pi * A) <= 2 * (loan * Unit) + A
  <2> DEFINE x == loan * Unit
  <2>1. pi = Cents(x, A) /\ x \in Nat
    BY <1>1 DEF LevelPayment, d
  <2> HIDE DEF x, A, pi
  <2>2. Cents(x, A) \in Nat
    BY <1>2, <2>1, CentsType
  <2>3. 2 * (Cents(x, A) * A) <= 2 * x + A
    BY <1>2, <2>1, CentsClose
  <2> QED
    BY <2>1, <2>2, <2>3 DEF x
<1>7. \A k \in 0..m : /\ u[k].balance \in 0..loan /\ u[k].rows \in 0..k /\ u[k].paid \in BOOLEAN
                      /\ ~ u[k].paid => u[k].rows = k
                      /\ u[k] \in Year
  <2>1. \A k \in 0..m : u[k] \in Year
    BY DEF FirstYear, m
  <2> QED
    BY <2>1, YearFalls
<1>8. /\ u[0].balance = loan /\ ~ u[0].paid
      /\ \A k \in 1..m : u[k] = RowAfter(pi, num, term, u[k - 1], k)
  <2>1. u[0] = [balance |-> loan, sum |-> 0, rows |-> 0, paid |-> FALSE]
    BY DEF FirstYear
  <2>2. \A k \in 1..m : u[k] = RowAfter(pi, num, term, u[k - 1], k)
    BY SMT DEF FirstYear, m, pi
  <2> QED
    BY <2>1, <2>2
<1> HIDE DEF A, pi, m, d, once
<1>9. RowsGoOn(pi, num, term)
  <2>1. pi \in Nat
    BY <1>6
  <2> QED
    BY <2>1, RowsAre
<1> DEFINE Worth(k, b) == 4 * (pi * A) <= 4 * (b * w[k].factor) + 4 * (pi * w[k].sum) + k * once + 2 * A
           T == {k \in 0..m : k < m => /\ ~ u[k].paid /\ Worth(k, u[k].balance)
                                       /\ loan <= u[k].balance + k * pi}
<1>10. 0 \in T
  <2>1. Worth(0, loan)
    <3>1. 4 * (pi * A) <= 4 * (loan * Unit) + 2 * A
      <4>1. pi * A \in Nat /\ loan * Unit \in Nat
        BY <1>1, <1>2, <1>6
      <4> QED
        BY <1>2, <1>6, <4>1
    <3>2. pi * w[0].sum = 0 /\ loan * w[0].factor = loan * Unit /\ 0 * once = 0
      BY <1>1, <1>5, <1>6
    <3>3. loan * Unit \in Nat /\ pi * A \in Nat
      BY <1>1, <1>2, <1>6
    <3> QED
      BY <1>2, <3>1, <3>2, <3>3
  <2>2. loan <= loan + 0 * pi
    BY <1>6
  <2> HIDE DEF Worth
  <2> QED
    BY <1>1, <1>8, <2>1, <2>2
<1>11. ASSUME NEW k \in 1..m, k - 1 \in T PROVE k \in T
  <2> SUFFICES ASSUME k < m
               PROVE  ~ u[k].paid /\ Worth(k, u[k].balance) /\ loan <= u[k].balance + k * pi
    OBVIOUS
  <2> DEFINE v == u[k - 1]
             b == v.balance
             x == b * num
             i == InterestOf(v, num)
             f == w[k - 1].factor
             g == w[k].factor
             s == w[k - 1].sum
             wb == b + i - pi
  <2>1. k \in 1..11 /\ k < term /\ k - 1 \in 0..m /\ k - 1 < m /\ k - 1 \in Nat
    BY <1>1
  <2>2. v \in Year /\ u[k] = RowAfter(pi, num, term, v, k) /\ b \in 0..loan
    BY <1>7, <1>8, <2>1
  <2>3. ~ v.paid /\ Worth(k - 1, b) /\ loan <= b + (k - 1) * pi
    BY <1>11, <2>1
  <2>4. /\ i \in Nat
        /\ 2 * x <= 2 * (i * d) + d
        /\ b + i <= pi => u[k].paid
        /\ b + i > pi => u[k].balance = wb /\ ~ u[k].paid
    <3> HIDE DEF v
    <3>1. k \in Nat \ {0} /\ k # term
      BY <2>1
    <3>2. /\ i \in Nat
          /\ ~ v.paid /\ b + i <= pi => u[k].paid
          /\ ~ v.paid /\ b + i > pi => u[k].balance = b + i - pi /\ ~ u[k].paid
      BY <1>9, <2>2, <2>3, <3>1 DEF RowsGoOn
    <3>3. 2 * x < 2 * (i * d) + d
      BY <2>2, InterestIs DEF d
    <3>4. x \in Nat /\ i * d \in Nat
      BY <1>1, <2>2, <3>2
    <3> HIDE DEF x, i
    <3> QED
      BY <1>1, <2>2, <2>3, <3>1, <3>2, <3>3, <3>4
  <2>5. f \in Nat /\ g \in 0..Unit /\ s \in Nat /\ w[k].sum = s + g /\ f * d <= (g + 1) * (d + num)
    BY <1>1, <1>4, <2>1
  <2> HIDE DEF v, i, f, g, s
  <2>6. Worth(k, wb)
    <3>1. 4 * (b * f) <= 4 * (b * g) + 4 * (i * g) + 8 * b + 2 * g
      <4>1. b \in Nat
        BY <2>2
      <4> HIDE DEF b
      <4> QED
        BY <1>1, <2>4, <2>5, <4>1, WorthKept
    <3>2. 4 * (pi * A) <= 4 * (b * f) + 4 * (pi * s) + (k - 1) * once + 2 * A
      BY <2>3 DEF f, s
    <3>3. wb * g = b * g + i * g - pi * g /\ pi * (s + g) = pi * s + pi * g
      BY <1>6, <2>2, <2>4, <2>5
    <3>4. k * once = (k - 1) * once + once /\ once = 8 * loan + 2 * Unit
      BY <1>1, <2>1 DEF once
    <3>5. /\ b * f \in Nat /\ b * g \in Nat /\ i * g \in Nat /\ pi * g \in Nat /\ pi * s \in Nat
          /\ pi * A \in Nat /\ (k - 1) * once \in Nat /\ A \in Nat
      BY <1>1, <1>2, <1>6, <2>1, <2>2, <2>4, <2>5
    <3>6. 8 * b + 2 * g <= once /\ b \in Nat /\ g \in Nat
      BY <1>1, <2>2, <2>5 DEF once
    <3> HIDE DEF wb, b
    <3>7. 4 * (pi * A) <= 4 * (wb * g) + 4 * (pi * (s + g)) + k * once + 2 * A
      BY <1>1, <3>1, <3>2, <3>3, <3>4, <3>5, <3>6
    <3> QED
      BY <2>5, <3>7 DEF g
  <2>7. loan <= wb + k * pi
    <3>1. k * pi = (k - 1) * pi + pi /\ (k - 1) * pi \in Nat
      BY <1>6, <2>1
    <3> QED
      BY <1>6, <2>2, <2>3, <2>4, <3>1
  <2>8. b + i > pi
    <3> SUFFICES ASSUME wb <= 0 PROVE FALSE
      BY <1>6, <2>2, <2>4
    <3> DEFINE r == w[k + 1].factor
               sk == w[k].sum
    <3>1. /\ r \in Nat /\ sk \in Nat /\ sk <= k * Unit /\ sk + r <= A
          /\ 169 * Unit <= 169 * r + 13 * ((k + 1) * Unit) + 169 * (k + 1)
      <4>1. k + 1 \in 1..term /\ k \in 0..term /\ k + 1 \in 0..term /\ (k + 1) - 1 = k
        BY <1>1, <2>1
      <4>2. w[k + 1].sum = w[k].sum + w[k + 1].factor /\ w[k + 1].sum <= A
        BY <1>4, <4>1
      <4> QED
        BY <1>4, <4>1, <4>2
    <3> HIDE DEF r, sk
    <3>2. sk <= 11 * Unit /\ Unit <= 13 * r + 156
      <4>1. k * Unit <= 11 * Unit /\ (k + 1) * Unit <= 12 * Unit /\ k * Unit \in Nat
            /\ (k + 1) * Unit \in Nat
        <5>1. (11 - k) * Unit >= 0
          BY <1>1, <2>1
        <5>2. (11 - k) * Unit = 11 * Unit - k * Unit /\ (k + 1) * Unit = k * Unit + Unit
          BY <1>1, <2>1
        <5>3. k * Unit \in Nat
          BY <1>1, <2>1
        <5> QED
          BY <1>1, <5>1, <5>2, <5>3
      <4> QED
        BY <1>1, <2>1, <3>1, <4>1
    <3>3. loan <= 11 * pi
      <4>1. (11 - k) * pi >= 0
        BY <1>6, <2>1
      <4>2. (11 - k) * pi = 11 * pi - k * pi /\ k * pi \in Nat
        BY <1>6, <2>1
      <4>3. wb \in Int
        BY <1>6, <2>2, <2>4
      <4> HIDE DEF wb
      <4> QED
        BY <1>6, <2>7, <4>1, <4>2, <4>3
    <3>4. pi >= 312
      BY <1>6, <3>3
    <3>5. wb * g <= 0
      <4>1. wb \in Int
        BY <1>6, <2>2, <2>4
      <4>2. (0 - wb) * g >= 0
        <5> HIDE DEF wb
        <5> QED
          BY <2>5, <4>1
      <4>3. (0 - wb) * g = 0 - wb * g /\ wb * g \in Int
        <5> HIDE DEF wb
        <5> QED
          BY <2>5, <4>1
      <4> HIDE DEF wb
      <4> QED
        BY <4>2, <4>3
    <3>6. 4 * (pi * (A - sk)) <= 11 * once + 2 * A
      <4>1. 4 * (pi * A) <= 4 * (wb * g) + 4 * (pi * sk) + k * once + 2 * A
        BY <2>6 DEF g, sk
      <4>2. pi * (A - sk) = pi * A - pi * sk /\ pi * A \in Nat /\ pi * sk \in Nat
        BY <1>2, <1>6, <3>1
      <4>3. k * once <= 11 * once /\ k * once \in Nat
        <5>1. (11 - k) * once >= 0
          BY <1>1, <2>1
        <5>2. (11 - k) * once = 11 * once - k * once /\ k * once \in Nat
          BY <1>1, <2>1
        <5> QED
          BY <1>1, <5>1, <5>2
      <4>4. wb * g \in Int
        BY <1>6, <2>2, <2>4, <2>5
      <4> HIDE DEF wb
      <4> QED
        BY <1>1, <1>2, <3>5, <4>1, <4>2, <4>3, <4>4
    <3> DEFINE R == A - sk
    <3>7. R \in Nat /\ R >= r /\ A = R + sk
      BY <1>2, <3>1
    <3> HIDE DEF R
    <3>8. (4 * pi - 2) * R <= 968 * pi + 44 * Unit
      <4>1. 4 * (pi * R) <= 11 * once + 2 * (R + sk)
        BY <3>6, <3>7 DEF R
      <4>2. (4 * pi - 2) * R = 4 * (pi * R) - 2 * R /\ pi * R \in Nat
        BY <1>6, <3>7
      <4>3. once = 8 * loan + 2 * Unit
        BY DEF once
      <4> QED
        BY <1>1, <1>6, <3>1, <3>2, <3>3, <3>7, <4>1, <4>2, <4>3
    <3>9. (4 * pi - 2) * Unit <= (4 * pi - 2) * (13 * R + 156)
      <4>1. (4 * pi - 2) * (13 * R + 156 - Unit) >= 0
        <5>1. 4 * pi - 2 \in Nat /\ 13 * R + 156 - Unit \in Nat
          BY <1>1, <1>6, <3>1, <3>2, <3>4, <3>7
        <5> QED
          BY <5>1
      <4>2. (4 * pi - 2) * (13 * R + 156 - Unit) = (4 * pi - 2) * (13 * R + 156) - (4 * pi - 2) * Unit
        BY <1>1, <1>6, <3>7
      <4>3. (4 * pi - 2) * (13 * R + 156) \in Int /\ (4 * pi - 2) * Unit \in Int
        BY <1>1, <1>6, <3>7
      <4> QED
        BY <4>1, <4>2, <4>3
    <3>10. (4 * pi - 2) * (13 * R + 156) = 13 * ((4 * pi - 2) * R) + 624 * pi - 312
           /\ (4 * pi - 2) * R \in Int
      BY <1>6, <3>7
    <3>11. 4 * (pi * Unit) <= 13208 * pi + 574 * Unit
      <4>1. (4 * pi - 2) * Unit = 4 * (pi * Unit) - 2 * Unit /\ pi * Unit \in Nat
        BY <1>1, <1>6
      <4> QED
        BY <1>1, <1>6, <3>8, <3>9, <3>10, <4>1
    <3>12. 20000 * pi <= pi * Unit /\ 312 * Unit <= pi * Unit
      <4>1. pi * (Unit - 20000) >= 0 /\ (pi - 312) * Unit >= 0
        BY <1>1, <1>6, <3>4
      <4>2. pi * (Unit - 20000) = pi * Unit - 20000 * pi /\ (pi - 312) * Unit = pi * Unit - 312 * Unit
            /\ pi * Unit \in Nat
        BY <1>1, <1>6
      <4> QED
        BY <1>1, <1>6, <4>1, <4>2
    <3>13. pi * Unit \in Nat
      BY <1>1, <1>6
    <3> QED
      BY <1>1, <1>6, <3>4, <3>11, <3>12, <3>13
  <2> HIDE DEF Worth
  <2> QED
    BY <2>4, <2>6, <2>7, <2>8
<1>12. 0..m \subseteq T
  <2> HIDE DEF T
  <2> QED
    BY <1>1, <1>10, <1>11, NoLoan, UnitAssumption, P!Reaches
<1>13. m - 1 \in T /\ m - 1 \in 0..m /\ m \in 0..m
  BY <1>1, <1>12
<1>14. ~ u[m - 1].paid
  BY <1>1, <1>13
<1>15. u[m].rows = m
  <2>1. m \in Nat \ {0} /\ m \in 1..m
    BY <1>1
  <2>2. u[m - 1] \in Year /\ u[m] = RowAfter(pi, num, term, u[m - 1], m)
    BY <1>7, <1>8, <1>13, <2>1
  <2> DEFINE v == u[m - 1]
             z == RowAfter(pi, num, term, v, m)
  <2>3. v \in Year
    BY <2>2
  <2> HIDE DEF v
  <2>4. z.rows = m
    BY <1>14, <1>9, <2>1, <2>3 DEF v, RowsGoOn
  <2> QED
    BY <2>2, <2>4 DEF v, z
<1> QED
  BY <1>15 DEF m

\* One row of two schedules of the same terms: what the smaller loan has left by
\* more than its share grows by two cents of the larger one, and a twelfth.
LEMMA ShareKept ==
  ASSUME NEW p \in Nat, NEW q \in Nat, p <= q, NEW b \in Nat, NEW c \in Nat, NEW i \in Nat, NEW j \in Nat,
         NEW x \in Nat, NEW y \in Nat, NEW A \in Nat \ {0}, NEW num \in Nat, NEW d \in Nat \ {0},
         12 * num <= d, NEW k \in 0..11,
         2 * (i * d) <= 2 * (b * num) + d, 2 * (c * num) <= 2 * (j * d) + d,
         2 * (p * Unit) <= 2 * (x * A) + A, 2 * (y * A) <= 2 * (q * Unit) + A,
         q * b <= p * c + 24 * (k * q)
  PROVE  q * (b + i - x) <= p * (c + j - y) + 24 * ((k + 1) * q)
<1>1. q * i <= p * j + 2 * (k * q) + q
  <2> DEFINE qi == q * i
             pj == p * j
             qb == q * b
             pc == p * c
             kq == k * q
  <2>1. qi \in Nat /\ pj \in Nat /\ qb \in Nat /\ pc \in Nat /\ kq \in Nat /\ qb <= pc + 24 * kq
    OBVIOUS
  <2>2. 2 * (qi * d) <= 2 * (qb * num) + q * d
    <3>1. q * (2 * (b * num) + d - 2 * (i * d)) >= 0
      OBVIOUS
    <3>2. q * (2 * (b * num) + d - 2 * (i * d)) = 2 * (qb * num) + q * d - 2 * (qi * d)
      OBVIOUS
    <3>3. qb * num \in Nat /\ q * d \in Nat /\ qi * d \in Nat
      OBVIOUS
    <3> HIDE DEF qi, qb
    <3> QED
      BY <3>1, <3>2, <3>3
  <2>3. 2 * (pc * num) <= 2 * (pj * d) + p * d
    <3>1. p * (2 * (j * d) + d - 2 * (c * num)) >= 0
      OBVIOUS
    <3>2. p * (2 * (j * d) + d - 2 * (c * num)) = 2 * (pj * d) + p * d - 2 * (pc * num)
      OBVIOUS
    <3>3. pc * num \in Nat /\ p * d \in Nat /\ pj * d \in Nat
      OBVIOUS
    <3> HIDE DEF pj, pc
    <3> QED
      BY <3>1, <3>2, <3>3
  <2> HIDE DEF qi, pj, qb, pc, kq
  <2>4. qb * num <= pc * num + 24 * (kq * num)
    <3>1. (pc + 24 * kq - qb) * num >= 0
      BY <2>1
    <3>2. (pc + 24 * kq - qb) * num = pc * num + 24 * (kq * num) - qb * num
      BY <2>1
    <3>3. pc * num \in Nat /\ kq * num \in Nat /\ qb * num \in Nat
      BY <2>1
    <3> QED
      BY <3>1, <3>2, <3>3
  <2>5. 12 * (kq * num) <= kq * d
    <3>1. kq * (d - 12 * num) >= 0
      BY <2>1
    <3>2. kq * (d - 12 * num) = kq * d - 12 * (kq * num) /\ kq * d \in Nat /\ kq * num \in Nat
      BY <2>1
    <3> QED
      BY <3>1, <3>2
  <2>6. p * d <= q * d
    <3>1. (q - p) * d >= 0
      OBVIOUS
    <3>2. (q - p) * d = q * d - p * d /\ q * d \in Nat /\ p * d \in Nat
      OBVIOUS
    <3> QED
      BY <3>1, <3>2
  <2>7. qi * d <= pj * d + 2 * (kq * d) + q * d
    <3>1. /\ qb * num \in Nat /\ pc * num \in Nat /\ kq * num \in Nat /\ kq * d \in Nat
          /\ qi * d \in Nat /\ pj * d \in Nat /\ q * d \in Nat /\ p * d \in Nat
      BY <2>1
    <3> QED
      BY <2>2, <2>3, <2>4, <2>5, <2>6, <3>1
  <2>8. qi <= pj + 2 * kq + q
    <3> DEFINE z == qi - pj - 2 * kq - q
    <3>1. z \in Int /\ z * d <= 0
      <4>1. z * d = qi * d - pj * d - 2 * (kq * d) - q * d
        BY <2>1
      <4>2. /\ kq * d \in Nat /\ qi * d \in Nat /\ pj * d \in Nat /\ q * d \in Nat /\ z \in Int
        BY <2>1
      <4> HIDE DEF z
      <4> QED
        BY <2>7, <4>1, <4>2
    <3>2. ~ (z >= 1)
      <4> HIDE DEF z
      <4> QED
        BY <3>1
    <3> QED
      BY <2>1, <3>1, <3>2
  <2> QED
    BY <2>8 DEF qi, pj, kq
<1>2. p * y <= q * x + q
  <2> DEFINE py == p * y
             qx == q * x
             pqU == (p * q) * Unit
  <2>1. py \in Nat /\ qx \in Nat /\ pqU \in Nat
    BY UnitAssumption
  <2>2. 2 * (py * A) <= 2 * pqU + p * A
    <3>1. p * (2 * (q * Unit) + A - 2 * (y * A)) >= 0
      BY UnitAssumption
    <3>2. p * (2 * (q * Unit) + A - 2 * (y * A)) = 2 * pqU + p * A - 2 * (py * A)
      BY UnitAssumption
    <3>3. py * A \in Nat /\ p * A \in Nat
      OBVIOUS
    <3> HIDE DEF py, pqU
    <3> QED
      BY <2>1, <3>1, <3>2, <3>3
  <2>3. 2 * pqU <= 2 * (qx * A) + q * A
    <3>1. q * (2 * (x * A) + A - 2 * (p * Unit)) >= 0
      BY UnitAssumption
    <3>2. q * (2 * (x * A) + A - 2 * (p * Unit)) = 2 * (qx * A) + q * A - 2 * pqU
      BY UnitAssumption
    <3>3. qx * A \in Nat /\ q * A \in Nat
      OBVIOUS
    <3> HIDE DEF qx, pqU
    <3> QED
      BY <2>1, <3>1, <3>2, <3>3
  <2>4. p * A <= q * A
    <3>1. (q - p) * A >= 0
      OBVIOUS
    <3>2. (q - p) * A = q * A - p * A /\ q * A \in Nat /\ p * A \in Nat
      OBVIOUS
    <3> QED
      BY <3>1, <3>2
  <2> HIDE DEF py, qx, pqU
  <2>5. py * A <= qx * A + q * A
    <3>1. py * A \in Nat /\ qx * A \in Nat /\ q * A \in Nat /\ p * A \in Nat
      BY <2>1
    <3> QED
      BY <2>1, <2>2, <2>3, <2>4, <3>1
  <2>6. py <= qx + q
    <3> DEFINE z == py - qx - q
    <3>1. z \in Int /\ z * A <= 0
      <4>1. z * A = py * A - qx * A - q * A
        BY <2>1
      <4>2. py * A \in Nat /\ qx * A \in Nat /\ q * A \in Nat /\ z \in Int
        BY <2>1
      <4> HIDE DEF z
      <4> QED
        BY <2>5, <4>1, <4>2
    <3>2. ~ (z >= 1)
      <4> HIDE DEF z
      <4> QED
        BY <3>1
    <3> QED
      BY <2>1, <3>1, <3>2
  <2> QED
    BY <2>6 DEF py, qx
<1>3. /\ q * (b + i - x) = q * b + q * i - q * x
      /\ p * (c + j - y) = p * c + p * j - p * y
      /\ (k + 1) * q = k * q + q
  OBVIOUS
<1>4. k * q <= 11 * q
  <2>1. (11 - k) * q >= 0
    OBVIOUS
  <2>2. (11 - k) * q = 11 * q - k * q /\ k * q \in Nat
    OBVIOUS
  <2> QED
    BY <2>1, <2>2
<1>5. /\ q * b \in Nat /\ q * i \in Nat /\ q * x \in Nat /\ p * c \in Nat /\ p * j \in Nat /\ p * y \in Nat
      /\ k * q \in Nat
  OBVIOUS
<1> DEFINE l == q * (b + i - x)
           r == p * (c + j - y)
           kq == k * q
           k1 == (k + 1) * q
<1>6. q * b <= p * c + 24 * kq
  OBVIOUS
<1>7. l = q * b + q * i - q * x /\ r = p * c + p * j - p * y /\ k1 = kq + q
  BY <1>3
<1> HIDE DEF l, r, kq, k1
<1>8. l <= r + 24 * k1
  BY <1>1, <1>2, <1>4, <1>5, <1>6, <1>7 DEF kq
<1> QED
  BY <1>8 DEF l, r, k1

\* The first years of two loans on the same terms: the smaller one never has more
\* than a few dollars above the balance of the larger one.
LEMMA YearsCompare ==
  ASSUME NEW p \in Nat, NEW q \in Nat \ {0}, p <= q, NEW num \in 0..RateDen, NEW term \in Nat \ {0},
         NEW u, NEW v, FirstYear(u, p, num, term), FirstYear(v, q, num, term)
  PROVE  \A k \in 0..Months(term) : u[k].sum <= v[k].sum + 288 * k
<1> DEFINE m == Months(term)
           d == 12 * RateDen
           A == Annuity(num, d, term)
           x == LevelPayment(p, num, RateDen, term)
           y == LevelPayment(q, num, RateDen, term)
<1>1. /\ m \in 1..12 /\ m <= term /\ d \in Nat \ {0} /\ num \in Nat /\ 12 * num <= d /\ Unit \in Nat
  BY UnitAssumption DEF Months, RateDen
<1>2. A \in Nat \ {0}
  BY AnnuityType
<1>3. ASSUME NEW l \in Nat
      PROVE  LET z == LevelPayment(l, num, RateDen, term)
             IN  z \in Nat /\ 2 * (l * Unit) <= 2 * (z * A) + A /\ 2 * (z * A) <= 2 * (l * Unit) + A
  <2> DEFINE n == l * Unit
             z == LevelPayment(l, num, RateDen, term)
  <2>1. z = Cents(n, A) /\ n \in Nat
    BY <1>1 DEF LevelPayment, d
  <2> HIDE DEF n, A, z
  <2>2. Cents(n, A) \in Nat
    BY <1>2, <2>1, CentsType
  <2>3. 2 * (Cents(n, A) * A) <= 2 * n + A /\ 2 * n < 2 * (Cents(n, A) * A) + A
    BY <1>2, <2>1, CentsClose
  <2>4. z * A \in Nat
    BY <1>2, <2>1, <2>2
  <2>5. 2 * (z * A) <= 2 * n + A /\ 2 * n < 2 * (z * A) + A
    BY <2>1, <2>3, Zenon
  <2> QED
    BY <1>2, <2>1, <2>2, <2>4, <2>5 DEF n, z
<1>4. /\ x \in Nat /\ 2 * (p * Unit) <= 2 * (x * A) + A
      /\ y \in Nat /\ 2 * (y * A) <= 2 * (q * Unit) + A
  <2> HIDE DEF A
  <2> QED
    BY <1>3
<1>5. /\ \A k \in 0..m : u[k] \in Year /\ v[k] \in Year
      /\ \A k \in 1..m : /\ u[k] = RowAfter(x, num, term, u[k - 1], k)
                         /\ v[k] = RowAfter(y, num, term, v[k - 1], k)
  BY SMT DEF FirstYear, m, x, y
<1>6. RowsGoOn(x, num, term) /\ RowsGoOn(y, num, term)
  <2> HIDE DEF x, y
  <2> QED
    BY <1>4, RowsAre
<1>7. \A k \in 0..m : /\ u[k].balance \in 0..p /\ u[k].sum \in Nat /\ u[k].paid \in BOOLEAN
                      /\ u[k].paid => u[k].balance = 0
                      /\ k > 0 => /\ u[k].balance <= u[k - 1].balance
                                  /\ u[k - 1].paid => u[k] = u[k - 1]
  <2>1. FirstYear(u, p, num, term)
    OBVIOUS
  <2> QED
    BY <2>1, YearFalls DEF m
<1>8. \A k \in 0..m : /\ v[k].balance \in 0..q /\ v[k].sum \in Nat /\ v[k].paid \in BOOLEAN
                      /\ v[k].paid => v[k].balance = 0
                      /\ k > 0 => /\ v[k].balance <= v[k - 1].balance
                                  /\ v[k - 1].paid => v[k] = v[k - 1]
  <2>1. FirstYear(v, q, num, term) /\ q \in Nat
    OBVIOUS
  <2> QED
    BY <2>1, YearFalls DEF m
<1>9. /\ u[0].balance = p /\ u[0].sum = 0 /\ ~ u[0].paid
      /\ v[0].balance = q /\ v[0].sum = 0 /\ ~ v[0].paid
  <2>1. /\ u[0] = [balance |-> p, sum |-> 0, rows |-> 0, paid |-> FALSE]
        /\ v[0] = [balance |-> q, sum |-> 0, rows |-> 0, paid |-> FALSE]
    BY DEF FirstYear
  <2> QED
    BY <2>1
<1> HIDE DEF m, d, A, x, y
<1> DEFINE Share(k, b, c) == q * b <= p * c + 24 * (k * q)
           T == {k \in 0..m : /\ u[k].balance <= v[k].balance + 288
                              /\ u[k].sum <= v[k].sum + 288 * k
                              /\ ~ u[k].paid /\ ~ v[k].paid => Share(k, u[k].balance, v[k].balance)}
<1>10. 0 \in T
  <2>1. Share(0, p, q)
    OBVIOUS
  <2> HIDE DEF Share
  <2> QED
    BY <1>1, <1>9, <2>1
<1>11. ASSUME NEW k \in 1..m, k - 1 \in T PROVE k \in T
  <2> DEFINE U == u[k - 1]
             V == v[k - 1]
             b == U.balance
             c == V.balance
             i == InterestOf(U, num)
             j == InterestOf(V, num)
             bb == u[k].balance
             cc == v[k].balance
             su == u[k - 1].sum
             sv == v[k - 1].sum
  <2>1. k \in 1..12 /\ k - 1 \in 0..11 /\ k - 1 \in 0..m /\ k \in 0..m /\ k \in Nat \ {0} /\ k > 0
    BY <1>1
  <2>2. /\ U \in Year /\ V \in Year
        /\ u[k] = RowAfter(x, num, term, U, k) /\ v[k] = RowAfter(y, num, term, V, k)
    BY <1>5, <2>1
  <2>3. /\ b \in Nat /\ c \in Nat /\ bb \in Nat /\ cc \in Nat /\ su \in Nat /\ sv \in Nat
        /\ u[k].sum \in Nat /\ v[k].sum \in Nat /\ bb <= b /\ cc <= c
        /\ U.paid \in BOOLEAN /\ V.paid \in BOOLEAN
        /\ U.paid => b = 0 /\ u[k] = U
        /\ V.paid => c = 0 /\ v[k] = V
    BY <1>7, <1>8, <2>1
  <2>4. /\ b <= c + 288 /\ su <= sv + 288 * (k - 1)
        /\ ~ U.paid /\ ~ V.paid => Share(k - 1, b, c)
    BY <1>11
  <2>5. ~ U.paid => /\ i \in Nat
                    /\ k = term \/ b + i <= x => bb = 0 /\ u[k].sum = su /\ u[k].paid
                    /\ k # term /\ b + i > x => bb = b + i - x /\ u[k].sum = su + bb
    BY <1>6, <2>1, <2>2 DEF RowsGoOn
  <2>6. ~ V.paid => /\ j \in Nat
                    /\ k = term \/ c + j <= y => cc = 0 /\ v[k].sum = sv /\ v[k].paid
                    /\ k # term /\ c + j > y => cc = c + j - y /\ v[k].sum = sv + cc
    BY <1>6, <2>1, <2>2 DEF RowsGoOn
  <2>7. ASSUME ~ U.paid, ~ V.paid
        PROVE  Share(k, b + i - x, c + j - y)
    <3>1. 2 * (i * d) <= 2 * (b * num) + d /\ 2 * (c * num) <= 2 * (j * d) + d
      <4>1. 2 * (i * d) <= 2 * (b * num) + d
        BY <2>2, InterestIs DEF d
      <4>2. 2 * (c * num) < 2 * (j * d) + d
        BY <2>2, InterestIs DEF d
      <4>3. c * num \in Nat /\ j * d \in Nat
        BY <1>1, <2>3, <2>6, <2>7
      <4> HIDE DEF i, j, b, c
      <4> QED
        BY <1>1, <4>1, <4>2, <4>3
    <3>2. q * b <= p * c + 24 * ((k - 1) * q)
      BY <2>4, <2>7
    <3>3. i \in Nat /\ j \in Nat
      BY <2>5, <2>6, <2>7
    <3> DEFINE e == k - 1
    <3>4. e \in 0..11 /\ k = e + 1
      BY <2>1
    <3> HIDE DEF U, V, b, c, i, j, e
    <3>5. q * (b + i - x) <= p * (c + j - y) + 24 * ((e + 1) * q)
      <4>1. q \in Nat /\ q * b <= p * c + 24 * (e * q)
        BY <3>2 DEF e
      <4> QED
        BY <1>1, <1>2, <1>4, <2>3, <3>1, <3>3, <3>4, <4>1, ShareKept
    <3> QED
      BY <3>4, <3>5
  <2> HIDE DEF U, V, b, c, i, j, su, sv
  <2> HIDE DEF bb, cc
  <2>8. ASSUME NEW z \in Int, NEW w \in Int, Share(k, z, w), w <= q PROVE z <= w + 288 \/ z <= 288
    <3> SUFFICES ASSUME z >= 289, z >= w + 289 PROVE FALSE
      BY <2>8
    <3>1. k * q <= 12 * q /\ k * q \in Nat
      <4>1. (12 - k) * q >= 0
        BY <2>1
      <4>2. (12 - k) * q = 12 * q - k * q /\ k * q \in Nat
        BY <2>1
      <4> QED
        BY <4>1, <4>2
    <3>2. q * z <= p * w + 288 * q
      <4>1. q * z \in Int /\ p * w \in Int
        BY <2>8
      <4> QED
        BY <2>8, <3>1, <4>1
    <3>3. CASE w <= 0
      <4>1. p * (0 - w) >= 0 /\ q * (z - 289) >= 0
        BY <2>8, <3>3
      <4>2. p * (0 - w) = 0 - p * w /\ q * (z - 289) = q * z - 289 * q /\ q * z \in Int /\ p * w \in Int
        BY <2>8
      <4> QED
        BY <3>2, <4>1, <4>2
    <3>4. CASE w > 0
      <4>1. (q - p) * w >= 0 /\ q * (z - w - 289) >= 0
        BY <2>8, <3>4
      <4>2. (q - p) * w = q * w - p * w /\ q * (z - w - 289) = q * z - q * w - 289 * q
            /\ q * z \in Int /\ p * w \in Int /\ q * w \in Int
        BY <2>8
      <4> QED
        BY <3>2, <4>1, <4>2
    <3> QED
      BY <2>8, <3>3, <3>4
  <2>9. bb <= cc + 288 /\ u[k].sum <= v[k].sum + 288 * k /\ (~ u[k].paid /\ ~ v[k].paid => Share(k, bb, cc))
    <3>1. CASE U.paid
      <4>1. bb = 0 /\ u[k].paid /\ u[k].sum = su
        BY <2>3, <3>1 DEF U, b, bb, su
      <4>2. sv <= v[k].sum
        <5>1. CASE V.paid
          BY <2>3, <5>1 DEF V, sv
        <5>2. CASE ~ V.paid
          <6>1. (k = term \/ c + j <= y) \/ (k # term /\ c + j > y)
            BY <1>4, <2>3, <2>6, <5>2
          <6> QED
            BY <2>3, <2>6, <5>2, <6>1
        <5> QED
          BY <5>1, <5>2
      <4>3. bb <= cc + 288 /\ u[k].sum <= v[k].sum + 288 * k
        BY <2>1, <2>3, <2>4, <4>1, <4>2
      <4> HIDE DEF Share
      <4> QED
        BY <4>1, <4>3
    <3>2. CASE ~ U.paid /\ V.paid
      <4>1. c = 0 /\ cc = 0 /\ v[k].paid /\ v[k].sum = sv
        BY <2>3, <3>2 DEF V, c, cc, sv
      <4>2. u[k].sum <= su + bb
        <5>1. (k = term \/ b + i <= x) \/ (k # term /\ b + i > x)
          BY <1>4, <2>3, <2>5, <3>2
        <5> QED
          BY <2>3, <2>5, <3>2, <5>1
      <4> QED
        BY <2>1, <2>3, <2>4, <4>1, <4>2
    <3>3. CASE ~ U.paid /\ ~ V.paid
      <4>1. i \in Nat /\ j \in Nat
        BY <2>5, <2>6, <3>3
      <4>2. sv <= v[k].sum /\ v[k].sum = sv + cc
        <5>1. (k = term \/ c + j <= y) \/ (k # term /\ c + j > y)
          BY <1>4, <2>3, <4>1
        <5> QED
          BY <2>3, <2>6, <3>3, <5>1
      <4>3. CASE k = term \/ b + i <= x
        <5>1. bb = 0 /\ u[k].sum = su /\ u[k].paid
          BY <2>5, <3>3, <4>3
        <5> QED
          BY <2>1, <2>3, <2>4, <4>2, <5>1
      <4>4. CASE k # term /\ b + i > x
        <5>1. bb = b + i - x /\ u[k].sum = su + bb
          BY <2>5, <3>3, <4>4
        <5>2. Share(k, bb, c + j - y)
          BY <2>7, <3>3, <5>1 DEF U, V
        <5>3. c + j - y <= cc /\ (c + j > y => cc = c + j - y) /\ (c + j <= y => cc = 0 /\ v[k].paid)
          BY <1>4, <2>3, <2>6, <3>3, <4>1, <4>4
        <5>4. cc \in 0..q
          BY <1>8, <2>1 DEF cc
        <5>5. c + j - y \in Int /\ bb \in Int
          BY <1>4, <2>3, <4>1
        <5>6. bb <= (c + j - y) + 288 \/ bb <= 288
          <6> DEFINE w == c + j - y
          <6>1. w \in Int /\ w <= q
            BY <2>3, <5>3, <5>4, <5>5
          <6> HIDE DEF w, Share
          <6>2. Share(k, bb, w)
            BY <5>2 DEF w
          <6> QED
            BY <2>8, <5>5, <6>1, <6>2 DEF w
        <5>7. bb <= cc + 288
          BY <2>3, <5>3, <5>5, <5>6
        <5>8. ~ v[k].paid => Share(k, bb, cc)
          <6>1. ~ v[k].paid => c + j > y
            BY <1>4, <2>3, <4>1, <5>3
          <6> HIDE DEF Share
          <6> QED
            BY <5>2, <5>3, <6>1
        <5> HIDE DEF Share
        <5> QED
          BY <2>1, <2>3, <2>4, <4>2, <5>1, <5>7, <5>8
      <4> QED
        BY <1>4, <2>3, <4>1, <4>3, <4>4
    <3> QED
      BY <2>3, <3>1, <3>2, <3>3
  <2> HIDE DEF Share
  <2> QED
    BY <2>1, <2>9 DEF bb, cc
<1>12. 0..m \subseteq T
  <2> HIDE DEF T
  <2> QED
    BY <1>1, <1>10, <1>11, NoLoan, UnitAssumption, P!Reaches
<1> QED
  BY <1>12 DEF m

\* The average balance of a smaller loan is no more than a few dollars above that of
\* a larger one: both have the same rows, or the smaller one is of a few dollars.
LEMMA AverageGrows ==
  ASSUME NEW p \in Nat, NEW q \in Nat \ {0}, p <= q, NEW num \in 0..RateDen, NEW term \in Nat \ {0}
  PROVE  AverageBalance(p, num, RateDen, term) <= AverageBalance(q, num, RateDen, term) + 3428
<1> DEFINE m == Months(term)
           a == AverageBalance(p, num, RateDen, term)
           b == AverageBalance(q, num, RateDen, term)
<1>1. PICK u : FirstYear(u, p, num, term) /\ u[m].rows > 0 /\ a = Cents(u[m].sum, u[m].rows)
  BY AverageIs
<1>2. PICK v : FirstYear(v, q, num, term) /\ v[m].rows > 0 /\ b = Cents(v[m].sum, v[m].rows)
  <2>1. q \in Nat
    OBVIOUS
  <2> QED
    BY <2>1, AverageIs
<1>3. m \in Nat /\ m \in 0..m
  BY DEF Months
<1>4. u[m].sum \in Nat /\ u[m].rows \in 0..m /\ u[m].sum <= u[m].rows * p
  <2>1. FirstYear(u, p, num, term)
    BY <1>1
  <2> QED
    BY <1>3, <2>1, YearFalls DEF m
<1>5. v[m].sum \in Nat /\ v[m].rows \in 0..m
  <2>1. FirstYear(v, q, num, term) /\ q \in Nat
    BY <1>2
  <2> QED
    BY <1>3, <2>1, YearFalls DEF m
<1>6. u[m].sum <= v[m].sum + 288 * m
  BY <1>1, <1>2, <1>3, YearsCompare DEF m
<1> DEFINE s == u[m].sum
           r == u[m].rows
           t == v[m].sum
           l == v[m].rows
<1>7. /\ s \in Nat /\ r \in Nat \ {0} /\ s <= r * p /\ t \in Nat /\ l \in Nat \ {0} /\ l <= m
      /\ s <= t + 288 * m /\ a = Cents(s, r) /\ b = Cents(t, l)
  BY <1>1, <1>2, <1>3, <1>4, <1>5, <1>6
<1>8. p >= 3429 => r = m
  BY <1>1, YearIsFull DEF m, r
<1> HIDE DEF m, a, b, s, r, t, l
<1>9. a \in Nat /\ (2 * a - 1) * r <= 2 * s
  <2>1. Cents(s, r) \in Nat /\ \A c \in Int : c <= Cents(s, r) <=> (2 * c - 1) * r <= 2 * s
    BY <1>7, CentsAre
  <2>2. a \in Int /\ a <= Cents(s, r) /\ a \in Nat
    BY <1>7, <2>1
  <2> QED
    BY <2>1, <2>2
<1>10. b \in Nat /\ \A c \in Int : (2 * c - 1) * l <= 2 * t => c <= b
  <2>1. Cents(t, l) \in Nat /\ \A c \in Int : c <= Cents(t, l) <=> (2 * c - 1) * l <= 2 * t
    BY <1>7, CentsAre
  <2> QED
    BY <1>7, <2>1
<1>11. a \in Nat /\ b \in Nat
  BY <1>9, <1>10
<1>12. ASSUME p < 3429 PROVE a <= b + 3428
  <2>1. a <= p
    <3> SUFFICES ASSUME a >= p + 1 PROVE FALSE
      BY <1>11
    <3>1. (a - p - 1) * r >= 0
      BY <1>7, <1>9
    <3>2. (a - p - 1) * r = a * r - r * p - r /\ (2 * a - 1) * r = 2 * (a * r) - r
          /\ a * r \in Nat /\ r * p \in Nat
      BY <1>7, <1>9
    <3> QED
      BY <1>7, <1>9, <3>1, <3>2
  <2> QED
    BY <1>11, <1>12, <2>1
<1>13. ASSUME p >= 3429 PROVE a <= b + 3428
  <2> DEFINE c == a - 288
             z == 2 * c - 1
  <2>1. z \in Int /\ z * m <= 2 * t
    <3>1. z * m = (2 * a - 1) * m - 576 * m /\ (2 * a - 1) * m \in Int
      BY <1>3, <1>9
    <3>2. (2 * a - 1) * m <= 2 * s
      BY <1>8, <1>9, <1>13
    <3>3. z \in Int /\ z * m \in Int
      BY <1>3, <1>9
    <3> HIDE DEF z
    <3> QED
      BY <1>3, <1>7, <3>1, <3>2, <3>3
  <2>2. z * l <= 2 * t
    <3> HIDE DEF z
    <3>1. CASE z <= 0
      <4>1. (0 - z) * l >= 0
        BY <1>7, <2>1, <3>1
      <4>2. (0 - z) * l = 0 - z * l /\ z * l \in Int
        BY <1>7, <2>1
      <4> QED
        BY <1>7, <4>1, <4>2
    <3>2. CASE z > 0
      <4>1. z * (m - l) >= 0
        BY <1>3, <1>7, <2>1, <3>2
      <4>2. z * (m - l) = z * m - z * l /\ z * l \in Int /\ z * m \in Int
        BY <1>3, <1>7, <2>1
      <4> QED
        BY <1>7, <2>1, <4>1, <4>2
    <3> QED
      BY <2>1, <3>1, <3>2
  <2>3. c \in Int /\ c <= b
    <3>1. c \in Int
      BY <1>9
    <3>2. (2 * c - 1) * l <= 2 * t
      BY <2>2
    <3> HIDE DEF c
    <3> QED
      BY <1>10, <3>1, <3>2
  <2> QED
    BY <1>11, <2>3
<1>14. a <= b + 3428
  BY <1>12, <1>13
<1> QED
  BY <1>14 DEF a, b

\* The annual fee of USDA, by the month, is no more than a cent above that of a
\* larger loan.
LEMMA FeeGrows ==
  ASSUME NEW p \in Nat, NEW q \in Nat \ {0}, p <= q, NEW num \in 0..RateDen, NEW term \in Nat \ {0}
  PROVE  Cents(AverageBalance(p, num, RateDen, term) * 35, 120000)
           <= Cents(AverageBalance(q, num, RateDen, term) * 35, 120000) + 1
<1> DEFINE a == AverageBalance(p, num, RateDen, term)
           b == AverageBalance(q, num, RateDen, term)
           x == a * 35
           y == b * 35
           c == Cents(x, 120000)
<1>1. a \in Nat /\ b \in Nat /\ a <= b + 3428
  BY AverageType, AverageGrows
<1> HIDE DEF a, b
<1>2. x \in Nat /\ y \in Nat /\ x <= y + 119980
  BY <1>1
<1> HIDE DEF x, y
<1>3. Cents(y, 120000) \in Nat /\ \A z \in Int : z <= Cents(y, 120000) <=> (2 * z - 1) * 120000 <= 2 * y
  BY <1>2, CentsAre
<1>4. c \in Nat /\ (2 * c - 1) * 120000 <= 2 * x
  <2>1. Cents(x, 120000) \in Nat /\ \A z \in Int : z <= Cents(x, 120000) <=> (2 * z - 1) * 120000 <= 2 * x
    BY <1>2, CentsAre
  <2>2. c \in Nat /\ c \in Int /\ c <= c
    BY <2>1
  <2> QED
    BY <2>1, <2>2
<1> HIDE DEF c
<1>5. c - 1 \in Int /\ (2 * (c - 1) - 1) * 120000 <= 2 * y
  BY <1>2, <1>4
<1>6. c - 1 <= Cents(y, 120000)
  BY <1>3, <1>5
<1> QED
  BY <1>3, <1>4, <1>6 DEF c, x, y, a, b
-----------------------------------------------------------------------------
(* The engine in both modes.                                               *)

\* evaluate_forward or evaluate_reverse, whichever the request asks for.
Raw(r) == IF r.mode = "forward" THEN EvaluateForward(r) ELSE EvaluateReverse(r)

\* The fields of a response.
Response(b) ==
    b = [class |-> b.class, blocker |-> b.blocker, warnings |-> b.warnings, loan |-> b.loan,
         financed |-> b.financed, pi |-> b.pi, mi |-> b.mi, piti |-> b.piti, ltv |-> b.ltv,
         cltv |-> b.cltv, dti |-> b.dti]

\* A set of indices has a least one.
LEMMA LeastIndex ==
  ASSUME NEW n \in Nat, NEW I \in SUBSET (1..n), I # {}
  PROVE  \E x \in I : \A y \in I : x <= y
<1>1. I \subseteq Nat
  OBVIOUS
<1> QED
  BY <1>1, NoLoan, UnitAssumption, P!LeastNatural

\* The index that SelectInSeq finds, if there is one.
LEMMA FirstIs ==
  ASSUME NEW n \in Nat, NEW I \in SUBSET (1..n), NEW k, k = IF I # {} THEN Min(I) ELSE 0
  PROVE  k \in 0..n /\ (k = 0 => I = {}) /\ (k # 0 => k \in I /\ \A j \in I : k <= j)
<1>1. CASE I = {}
  BY <1>1
<1>2. CASE I # {}
  <2>1. \E x \in I : \A y \in I : x <= y
    BY <1>2, LeastIndex
  <2>2. k = Min(I)
    BY <1>2
  <2>3. k \in I /\ \A j \in I : k <= j
    BY <2>1, <2>2, Zenon DEF Min
  <2>4. k \in 1..n
    BY <2>3
  <2> QED
    BY <1>2, <2>3, <2>4
<1> QED
  BY <1>1, <1>2

\* The rules that apply to an answer, by their place on the ladder.
Rung(r, b) == {i \in 1..7 : Applies(Ladder[i], r, b)}
Citation(i) == IF i = 0 THEN "none" ELSE Ladder[i]
FirstRung(r, b, i) ==
    /\ i \in 0..7
    /\ i = 0 => Rung(r, b) = {}
    /\ i # 0 => i \in Rung(r, b) /\ \A j \in Rung(r, b) : i <= j

\* The ladder names the first of them.
LEMMA BlockersAre ==
  ASSUME NEW r, NEW b
  PROVE  /\ b.blocker # "none" => Blockers(r, b) = Result(b)
         /\ b.blocker = "none" /\ RefusesZero(r, b) => Blockers(r, b) = Raise("ValueError")
         /\ b.blocker = "none" /\ ~ RefusesZero(r, b) =>
               \E i : FirstRung(r, b, i) /\ Blockers(r, b) = Result([b EXCEPT !.blocker = Citation(i)])
<1> DEFINE Hit(citation) == Applies(citation, r, b)
           I == {i \in 1..Len(Ladder) : Hit(Ladder[i])}
           k == SelectInSeq(Ladder, Hit)
           Cited(i) == Result([b EXCEPT !.blocker = IF i = 0 THEN "none" ELSE Ladder[i]])
<1>1. Blockers(r, b) = CASE b.blocker # "none" -> Result(b)
                         [] b.blocker = "none" /\ RefusesZero(r, b) -> Raise("ValueError")
                         [] OTHER -> Cited(k)
  BY Zenon DEF Blockers
<1>2. Len(Ladder) = 7
  BY DEF Ladder
<1>3. I = Rung(r, b)
  BY <1>2 DEF Rung
<1>4. k = IF I # {} THEN Min(I) ELSE 0
  BY Zenon DEF SelectInSeq
<1> HIDE DEF I, k, Cited
<1>5. FirstRung(r, b, k)
  <2>1. I \in SUBSET (1..7)
    BY <1>3 DEF Rung
  <2> QED
    BY <1>3, <1>4, <2>1, FirstIs DEF FirstRung
<1>6. b.blocker = "none" /\ ~ RefusesZero(r, b) => Blockers(r, b) = Cited(k)
  BY <1>1
<1>7. Cited(k) = Result([b EXCEPT !.blocker = Citation(k)])
  BY DEF Cited, Citation
<1> QED
  BY <1>1, <1>5, <1>6, <1>7

\* evaluate, one call after the other.
LEMMA EvaluateIs ==
  ASSUME NEW r
  PROVE  Evaluate(r) =
            IF Validate(r).error # "none" THEN Raise(Validate(r).error)
            ELSE IF Raw(r).error # "none" THEN Raise(Raw(r).error)
            ELSE IF Blockers(r, Raw(r).value).error # "none"
                 THEN Raise(Blockers(r, Raw(r).value).error)
            ELSE Result([Blockers(r, Raw(r).value).value EXCEPT !.warnings =
                           @ \cup SoftWarnings(r, Blockers(r, Raw(r).value).value)])
  BY DEF Evaluate, Then, Raw

\* An exception of the engine is one of its calls, or the refusal of a loan of
\* nothing.
LEMMA EvaluateFails ==
  ASSUME NEW r, Evaluate(r).error # "none"
  PROVE  \/ Validate(r).error # "none" /\ Evaluate(r).error = Validate(r).error
         \/ /\ Validate(r).error = "none" /\ Raw(r).error # "none"
            /\ Evaluate(r).error = Raw(r).error
         \/ /\ Validate(r).error = "none" /\ Raw(r).error = "none"
            /\ Raw(r).value.blocker = "none" /\ RefusesZero(r, Raw(r).value)
            /\ Evaluate(r).error = "ValueError"
<1> DEFINE f == Raw(r)
<1>1. \A e : Raise(e).error = e
  BY DEF Raise
<1>2. \A v : Result(v).error = "none" /\ Result(v).value = v
  BY DEF Result
<1>3. CASE Validate(r).error # "none"
  BY <1>1, <1>3, EvaluateIs
<1>4. CASE Validate(r).error = "none" /\ f.error # "none"
  BY <1>1, <1>4, EvaluateIs
<1>5. CASE Validate(r).error = "none" /\ f.error = "none"
  <2> DEFINE b == f.value
  <2>1. Evaluate(r) = IF Blockers(r, b).error # "none" THEN Raise(Blockers(r, b).error)
                      ELSE Result([Blockers(r, b).value EXCEPT !.warnings =
                                     @ \cup SoftWarnings(r, Blockers(r, b).value)])
    BY <1>5, EvaluateIs
  <2> HIDE DEF b
  <2>2. Blockers(r, b).error # "none" /\ Evaluate(r).error = Blockers(r, b).error
    BY <1>1, <1>2, <2>1
  <2>3. b.blocker = "none"
    BY <1>2, <2>2, BlockersAre
  <2>4. RefusesZero(r, b)
    <3>1. ASSUME ~ RefusesZero(r, b) PROVE FALSE
      <4>1. PICK i : FirstRung(r, b, i) /\ Blockers(r, b) = Result([b EXCEPT !.blocker = Citation(i)])
        BY <2>3, <3>1, BlockersAre
      <4> QED
        BY <1>2, <2>2, <4>1
    <3> QED
      BY <3>1
  <2>5. Evaluate(r).error = "ValueError"
    BY <1>1, <2>2, <2>3, <2>4, BlockersAre
  <2> QED
    BY <1>5, <2>3, <2>4, <2>5 DEF b
<1> QED
  BY <1>3, <1>4, <1>5

\* What the engine answers where it does.
LEMMA Answers ==
  ASSUME NEW r, Evaluate(r).error = "none", Response(Raw(r).value)
  PROVE  LET b == Raw(r).value
             v == Evaluate(r).value
         IN  /\ Validate(r).error = "none" /\ Raw(r).error = "none" /\ Response(v)
             /\ v.loan = b.loan /\ v.pi = b.pi /\ v.mi = b.mi /\ v.dti = b.dti
             /\ b.warnings \subseteq v.warnings
             /\ b.blocker # "none" => v.blocker = b.blocker
             /\ b.blocker = "none" => \E i : FirstRung(r, b, i) /\ v.blocker = Citation(i)
<1> DEFINE b == Raw(r).value
           judged == Blockers(r, b).value
           w == judged.warnings \cup SoftWarnings(r, judged)
<1>1. \A e : Raise(e).error = e
  BY DEF Raise
<1>2. \A v : Result(v).error = "none" /\ Result(v).value = v
  BY DEF Result
<1>3. Validate(r).error = "none" /\ Raw(r).error = "none"
  BY <1>1, EvaluateIs
<1>4. Evaluate(r) = Result([judged EXCEPT !.warnings = w]) /\ Blockers(r, b).error = "none"
  <2>1. Evaluate(r) = IF Blockers(r, b).error # "none" THEN Raise(Blockers(r, b).error)
                      ELSE Result([judged EXCEPT !.warnings = @ \cup SoftWarnings(r, judged)])
    BY <1>3, EvaluateIs
  <2> HIDE DEF b
  <2> QED
    BY <1>1, <2>1
<1>5. Response(b)
  OBVIOUS
<1> HIDE DEF b
<1>6. \E x : /\ judged = [b EXCEPT !.blocker = x]
             /\ b.blocker # "none" => x = b.blocker
             /\ b.blocker = "none" => \E i : FirstRung(r, b, i) /\ x = Citation(i)
  <2>1. CASE b.blocker # "none"
    <3>1. judged = b
      BY <1>2, <2>1, BlockersAre
    <3>2. b = [b EXCEPT !.blocker = b.blocker]
      BY <1>5 DEF Response
    <3> HIDE DEF judged
    <3> QED
      BY <2>1, <3>1, <3>2
  <2>2. CASE b.blocker = "none"
    <3>1. PICK i : FirstRung(r, b, i) /\ Blockers(r, b) = Result([b EXCEPT !.blocker = Citation(i)])
      BY <1>1, <1>4, <2>2, BlockersAre
    <3>2. judged = [b EXCEPT !.blocker = Citation(i)]
      BY <1>2, <3>1
    <3> HIDE DEF judged
    <3> QED
      BY <2>2, <3>1, <3>2
  <2> QED
    BY <2>1, <2>2
<1>7. PICK x : /\ judged = [b EXCEPT !.blocker = x]
               /\ b.blocker # "none" => x = b.blocker
               /\ b.blocker = "none" => \E i : FirstRung(r, b, i) /\ x = Citation(i)
  BY <1>6
<1> HIDE DEF judged
<1>8. judged.warnings = b.warnings
  BY <1>5, <1>7 DEF Response
<1>9. b.warnings \subseteq w
  BY <1>8
<1> HIDE DEF w
<1>10. Evaluate(r).value = [[b EXCEPT !.blocker = x] EXCEPT !.warnings = w]
  BY <1>2, <1>4, <1>7
<1> DEFINE v == Evaluate(r).value
<1>11. v = [class |-> b.class, blocker |-> x, warnings |-> w, loan |-> b.loan,
            financed |-> b.financed, pi |-> b.pi, mi |-> b.mi, piti |-> b.piti, ltv |-> b.ltv,
            cltv |-> b.cltv, dti |-> b.dti]
  BY <1>5, <1>10 DEF Response
<1> HIDE DEF v
<1>12. /\ Response(v) /\ v.loan = b.loan /\ v.pi = b.pi /\ v.mi = b.mi /\ v.dti = b.dti
       /\ v.warnings = w /\ v.blocker = x
  BY <1>11 DEF Response
<1> QED
  BY <1>3, <1>7, <1>9, <1>12 DEF b, v
-----------------------------------------------------------------------------
(* The rules that a request reaches.                                       *)

\* A request that the models accept, but for the premium.
IsRequest(r) ==
    /\ r \in [mode : {"forward", "reverse"}, h : Household, maxDti : 0..Ratio, term : Nat \ {0},
              target : {"conventional", "jumbo", "fha", "va", "usda"}, rate : 0..RateDen,
              apr : Optional, apor : Optional, pmi : Optional, junior : Nat,
              loan : Nat, value : Nat, down : Nat, ltv : 1..Ratio]
    /\ r.apr = None <=> r.apor = None

\* The classes fail for a county that is not listed and for a limit of FHA.
LEMMA ClassFails ==
  ASSUME NEW loan, NEW county, NEW target
  PROVE  LET c == ClassifyTarget(loan, county, target)
         IN  /\ c.error \in {"none", "MissingCountyDataError", "NotImplementedError"}
             /\ c.error = "MissingCountyDataError" => county \notin DOMAIN Ref.fha \cap DOMAIN Ref.fhfa
             /\ c.error = "NotImplementedError" => target = "fha"
             /\ c.error = "none" => c.value.blocker \in {"none", "LIMIT"}
<1> DEFINE class == Classify(loan, county, target)
           c == ClassifyTarget(loan, county, target)
<1>1. \A e : Raise(e).error = e
  BY DEF Raise
<1>2. \A v : Result(v).error = "none" /\ Result(v).value = v
  BY DEF Result
<1>3. c = IF class.error # "none" THEN Raise(class.error)
          ELSE Result([class |-> class.value,
                       blocker |-> IF class.value \in Accepted(target) THEN "none" ELSE "LIMIT"])
  BY DEF ClassifyTarget, Then
<1>4. /\ class.error \in {"none", "MissingCountyDataError", "NotImplementedError"}
      /\ class.error = "MissingCountyDataError" => county \notin DOMAIN Ref.fha \cap DOMAIN Ref.fhfa
      /\ class.error = "NotImplementedError" => target = "fha"
  <2>1. CASE target \in {"conventional", "jumbo"}
    <3>1. class = ClassifyConventional(loan, county)
      BY <2>1 DEF Classify
    <3> QED
      BY <1>1, <1>2, <3>1 DEF ClassifyConventional
  <2>2. CASE target = "fha"
    <3>1. class = ClassifyFha(loan, county)
      BY <2>2 DEF Classify
    <3> QED
      BY <1>1, <1>2, <2>2, <3>1 DEF ClassifyFha
  <2>3. CASE target \notin {"conventional", "jumbo", "fha"}
    BY <1>2, <2>3 DEF Classify, ClassifyVa
  <2> QED
    BY <2>1, <2>2, <2>3
<1> HIDE DEF class, c
<1>5. CASE class.error # "none"
  BY <1>1, <1>3, <1>4, <1>5 DEF c
<1>6. CASE class.error = "none"
  <2> DEFINE x == [class |-> class.value,
                   blocker |-> IF class.value \in Accepted(target) THEN "none" ELSE "LIMIT"]
  <2>1. x.blocker \in {"none", "LIMIT"}
    OBVIOUS
  <2> HIDE DEF x
  <2>2. c = Result(x)
    BY <1>3, <1>6 DEF x
  <2> QED
    BY <1>2, <2>1, <2>2 DEF c
<1> QED
  BY <1>5, <1>6

\* The table of premiums has a row for every LTV and every term that it is for.
LEMMA MipIs ==
  ASSUME NEW loan \in Nat, NEW value \in Nat, NEW term \in Nat \ {0}
  PROVE  LET mip == Mip(loan, value, term)
         IN  /\ mip.error \in {"none", "ValueError", "LookupError"}
             /\ mip.error = "ValueError" => value = 0 \/ loan > value
             /\ mip.error = "LookupError" => term > Ref.longTerm
             /\ mip.error = "none" => mip.value.upfront \in Nat /\ mip.value.bps \in Nat
<1> DEFINE Matches(row) ==
              /\ IF row[1] THEN term \in (Ref.shortTerm + 1)..Ref.longTerm ELSE term \in 1..Ref.shortTerm
              /\ row[2] = 0 \/ Above(loan, value, row[2])
              /\ ~ Above(loan, value, row[3])
              /\ row[4] = NoCap \/ loan <= row[4]
           I == {i \in 1..Len(MipTable) : Matches(MipTable[i])}
           k == SelectInSeq(MipTable, Matches)
           bps == AnnualMip(loan, value, term)
           mip == Mip(loan, value, term)
<1>1. bps = IF k = 0 THEN Raise("LookupError") ELSE Result(MipTable[k][5])
  BY DEF AnnualMip
<1>2. k = IF I # {} THEN Min(I) ELSE 0
  BY Zenon DEF SelectInSeq
<1>3. Len(MipTable) = 13
  BY DEF MipTable
<1>4. k \in 0..13 /\ (I # {} => k # 0)
  <2>1. I \in SUBSET (1..13)
    BY <1>3
  <2> HIDE DEF I, k
  <2> QED
    BY <1>2, <2>1, FirstIs
<1>5. ASSUME value > 0, loan <= value, term <= Ref.longTerm PROVE I # {}
  <2> USE DEF Above, NoCap
  <2>1. ~ Above(loan, value, 1000)
    BY <1>5
  <2>2. CASE term \in 1..Ref.shortTerm
    <3>1. /\ MipTable[11] = <<FALSE, 900, 1000, NoCap, 40>>
          /\ MipTable[12] = <<FALSE, 780, 900, NoCap, 40>>
          /\ MipTable[13] = <<FALSE, 0, 780, NoCap, 40>>
      BY DEF MipTable
    <3> HIDE DEF Above
    <3>2. Matches(MipTable[11]) \/ Matches(MipTable[12]) \/ Matches(MipTable[13])
      BY <2>1, <2>2, <3>1
    <3> QED
      BY <1>3, <3>2
  <2>3. CASE term \notin 1..Ref.shortTerm
    <3>1. /\ MipTable[7] = <<TRUE, 950, 1000, NoCap, 75>> /\ MipTable[8] = <<TRUE, 900, 950, NoCap, 70>>
          /\ MipTable[9] = <<TRUE, 780, 900, NoCap, 70>> /\ MipTable[10] = <<TRUE, 0, 780, NoCap, 70>>
      BY DEF MipTable
    <3>2. term \in (Ref.shortTerm + 1)..Ref.longTerm
      BY <1>5, <2>3, AskAssumption
    <3> HIDE DEF Above
    <3>3. \/ Matches(MipTable[7]) \/ Matches(MipTable[8]) \/ Matches(MipTable[9])
          \/ Matches(MipTable[10])
      BY <2>1, <3>1, <3>2
    <3> QED
      BY <1>3, <3>3
  <2> QED
    BY <2>2, <2>3
<1> HIDE DEF I, k, bps
<1>6. bps.error \in {"none", "LookupError"} /\ (bps.error = "LookupError" => k = 0)
      /\ (bps.error = "none" => bps.value \in Nat)
  <2>1. \A i \in 1..13 : MipTable[i][5] \in {55, 50, 40, 15, 75, 70}
    BY DEF MipTable
  <2>2. CASE k = 0
    BY <1>1, <2>2 DEF Raise
  <2>3. CASE k # 0
    <3>1. MipTable[k][5] \in Nat
      BY <1>4, <2>1, <2>3
    <3> QED
      BY <1>1, <2>3, <3>1 DEF Result
  <2> QED
    BY <2>2, <2>3
<1> DEFINE upfront == Cents(loan * 175, 10000)
<1>7. mip = IF value <= 0 \/ loan > value THEN Raise("ValueError")
            ELSE IF bps.error # "none" THEN Raise(bps.error)
            ELSE Result([bps |-> bps.value, upfront |-> upfront])
  BY DEF Mip, Then, bps
<1>8. upfront \in Nat
  BY CentsType
<1> HIDE DEF upfront, mip
<1>9. /\ \A e : Raise(e).error = e
      /\ \A v : Result(v).error = "none" /\ Result(v).value = v
  BY DEF Raise, Result
<1>10. CASE value <= 0 \/ loan > value
  BY <1>7, <1>9, <1>10 DEF mip
<1>11. CASE value > 0 /\ loan <= value /\ bps.error # "none"
  <2>1. mip.error = "LookupError" /\ term > Ref.longTerm
    BY <1>4, <1>5, <1>6, <1>7, <1>9, <1>11, AskAssumption
  <2> QED
    BY <2>1 DEF mip
<1>12. CASE value > 0 /\ loan <= value /\ bps.error = "none"
  <2> DEFINE x == [bps |-> bps.value, upfront |-> upfront]
  <2>1. x.bps \in Nat /\ x.upfront \in Nat
    BY <1>6, <1>8, <1>12
  <2> HIDE DEF x
  <2>2. mip = Result(x)
    BY <1>7, <1>12 DEF x
  <2> QED
    BY <1>9, <2>1, <2>2 DEF mip
<1> QED
  BY <1>10, <1>11, <1>12

\* A monthly premium is an amount, and why there is none.
LEMMA MiIs ==
  ASSUME NEW r, IsRequest(r), NEW loan \in Nat, NEW value \in Nat
  PROVE  LET mi == MonthlyMi(r, loan, value)
         IN  /\ mi.error \in {"none", "InvalidOperation", "AssertionError", "ValueError", "LookupError"}
             /\ mi.error = "InvalidOperation" => value = 0
             /\ mi.error = "AssertionError" =>
                    r.target = "conventional" /\ r.pmi = None /\ Above(loan, value, 800)
             /\ mi.error = "ValueError" => value = 0 \/ loan > value
             /\ mi.error = "LookupError" => r.target = "fha" /\ r.term > Ref.longTerm
             /\ mi.error = "none" => mi.value \in Nat
<1> DEFINE mi == MonthlyMi(r, loan, value)
<1>1. \A e : Raise(e).error = e
  BY DEF Raise
<1>2. \A v : Result(v).error = "none" /\ Result(v).value = v
  BY DEF Result
<1>3. r.pmi \in Optional /\ r.term \in Nat \ {0} /\ r.rate \in 0..RateDen
  BY DEF IsRequest
<1>4. CASE r.target = "conventional"
  <2>1. mi = IF value = 0 THEN Raise("InvalidOperation")
             ELSE IF ~ Above(loan, value, 800) THEN Result(0)
             ELSE IF r.pmi = None THEN Raise("AssertionError") ELSE Result(r.pmi)
    BY <1>4 DEF MonthlyMi
  <2> HIDE DEF mi
  <2>2. r.pmi # None => r.pmi \in Nat
    BY <1>3 DEF Optional
  <2> QED
    BY <1>1, <1>2, <1>4, <2>1, <2>2 DEF mi
<1>5. CASE r.target = "fha"
  <2> DEFINE mip == Mip(loan, value, r.term)
             n == loan * mip.value.bps
  <2>1. mi = IF mip.error # "none" THEN Raise(mip.error) ELSE Result(Cents(n, 120000))
    BY <1>5 DEF MonthlyMi, Then
  <2>2. /\ mip.error \in {"none", "ValueError", "LookupError"}
        /\ mip.error = "ValueError" => value = 0 \/ loan > value
        /\ mip.error = "LookupError" => r.term > Ref.longTerm
        /\ mip.error = "none" => mip.value.bps \in Nat
    BY <1>3, MipIs
  <2> HIDE DEF mi, mip
  <2>3. mip.error = "none" => n \in Nat
    BY <2>2
  <2> HIDE DEF n
  <2>4. mip.error = "none" => Cents(n, 120000) \in Nat
    BY <2>3, CentsType
  <2> QED
    BY <1>1, <1>2, <1>5, <2>1, <2>2, <2>4 DEF mi
<1>6. CASE r.target = "usda"
  <2> DEFINE average == AverageBalance(loan, r.rate, RateDen, r.term)
             n == average * 35
  <2>1. mi = Result(Cents(n, 120000))
    BY <1>6 DEF MonthlyMi
  <2>2. average \in Nat
    BY <1>3, AverageType
  <2> HIDE DEF mi, average
  <2>3. n \in Nat
    BY <2>2
  <2> HIDE DEF n
  <2>4. Cents(n, 120000) \in Nat
    BY <2>3, CentsType
  <2> QED
    BY <1>2, <2>1, <2>4 DEF mi
<1>7. CASE r.target \notin {"conventional", "fha", "usda"}
  <2>1. mi = Result(0)
    BY <1>7 DEF MonthlyMi
  <2> QED
    BY <1>2, <2>1
<1> QED
  BY <1>4, <1>5, <1>6, <1>7
-----------------------------------------------------------------------------
(* evaluate_forward.                                                       *)

Class(r) == ClassifyTarget(r.loan, r.h.county, r.target)
Upfront(r) == IF r.target = "fha" THEN Mip(r.loan, r.value, r.term)
              ELSE Result([bps |-> 0, upfront |-> 0])
Financed(r) == r.loan + Upfront(r).value.upfront
Premium(r) == IF r.target = "fha" THEN Result(Cents(Financed(r) * Upfront(r).value.bps, 120000))
              ELSE MonthlyMi(r, Financed(r), r.value)
Payment(r) == LevelPayment(Financed(r), r.rate, RateDen, r.term)
Piti(r) == Payment(r) + Premium(r).value + r.h.escrow

\* evaluate_forward, one call after the other.
LEMMA ForwardIs ==
  ASSUME NEW r
  PROVE  EvaluateForward(r) =
            IF Class(r).error # "none" THEN Raise(Class(r).error)
            ELSE IF Upfront(r).error # "none" THEN Raise(Upfront(r).error)
            ELSE IF Premium(r).error # "none" THEN Raise(Premium(r).error)
            ELSE Priced(r, Class(r).value, Financed(r), Payment(r), Premium(r).value)
  BY DEF EvaluateForward, Then, Class, Upfront, Financed, Premium, Payment

\* What a loan costs; only FHA finances more than the loan.
LEMMA ForwardAmounts ==
  ASSUME NEW r, IsRequest(r), Upfront(r).error = "none"
  PROVE  /\ Financed(r) \in Nat /\ r.loan <= Financed(r) /\ Payment(r) \in Nat
         /\ r.target # "fha" => Financed(r) = r.loan
         /\ Premium(r).error = "none" => Premium(r).value \in Nat /\ Piti(r) \in Nat
<1>1. \A v : Result(v).error = "none" /\ Result(v).value = v
  BY DEF Result
<1>2. /\ r.loan \in Nat /\ r.value \in Nat /\ r.term \in Nat \ {0} /\ r.rate \in 0..RateDen
      /\ r.h \in Household
  BY DEF IsRequest
<1>3. r.h.escrow \in Nat
  BY <1>2 DEF Household
<1>4. CASE r.target = "fha"
  <2> DEFINE n == Financed(r) * Upfront(r).value.bps
  <2>1. Upfront(r) = Mip(r.loan, r.value, r.term)
    BY <1>4 DEF Upfront
  <2>2. Upfront(r).value.upfront \in Nat /\ Upfront(r).value.bps \in Nat
    BY <1>2, <2>1, MipIs
  <2>3. Financed(r) \in Nat /\ r.loan <= Financed(r)
    BY <1>2, <2>2 DEF Financed
  <2>4. n \in Nat
    BY <2>2, <2>3
  <2>5. Premium(r) = Result(Cents(n, 120000))
    BY <1>4 DEF Premium
  <2> HIDE DEF n
  <2>6. Cents(n, 120000) \in Nat
    BY <2>4, CentsType
  <2>7. Premium(r).value \in Nat
    BY <1>1, <2>5, <2>6
  <2>8. Payment(r) \in Nat
    BY <1>2, <2>3, PaymentType DEF Payment
  <2> QED
    BY <1>3, <1>4, <2>3, <2>7, <2>8 DEF Piti
<1>5. CASE r.target # "fha"
  <2>1. Financed(r) = r.loan
    BY <1>1, <1>2, <1>5 DEF Financed, Upfront
  <2>2. Premium(r).error = "none" => Premium(r).value \in Nat
    BY <1>2, <1>5, <2>1, MiIs DEF Premium
  <2>3. Payment(r) \in Nat
    BY <1>2, <2>1, PaymentType DEF Payment
  <2> QED
    BY <1>2, <1>3, <1>5, <2>1, <2>2, <2>3 DEF Piti
<1> QED
  BY <1>4, <1>5

\* The response before the ladder.
LEMMA ForwardAnswers ==
  ASSUME NEW r, EvaluateForward(r).error = "none"
  PROVE  LET b == EvaluateForward(r).value
         IN  /\ Class(r).error = "none" /\ Upfront(r).error = "none" /\ Premium(r).error = "none"
             /\ Response(b) /\ b.blocker = Class(r).value.blocker /\ b.financed = Financed(r)
             /\ b.ltv = Quotient(Financed(r), r.value)
             /\ b.dti = Quotient(Piti(r) + r.h.debts, r.h.income)
<1> DEFINE b == EvaluateForward(r).value
<1>1. \A e : Raise(e).error = e
  BY DEF Raise
<1>2. \A v : Result(v).error = "none" /\ Result(v).value = v
  BY DEF Result
<1>3. /\ Class(r).error = "none" /\ Upfront(r).error = "none" /\ Premium(r).error = "none"
      /\ EvaluateForward(r) = Priced(r, Class(r).value, Financed(r), Payment(r), Premium(r).value)
  BY <1>1, ForwardIs
<1>4. b = [class |-> Class(r).value.class, blocker |-> Class(r).value.blocker, warnings |-> {},
           loan |-> r.loan, financed |-> Financed(r), pi |-> Payment(r), mi |-> Premium(r).value,
           piti |-> Piti(r), ltv |-> Quotient(Financed(r), r.value),
           cltv |-> Quotient(Financed(r) + r.junior, r.value),
           dti |-> Quotient(Piti(r) + r.h.debts, r.h.income)]
  BY <1>2, <1>3 DEF Priced, Piti
<1> HIDE DEF b
<1> QED
  BY <1>3, <1>4 DEF Response, b

\* Why a loan that is no more than the value is not priced.
LEMMA ForwardFails ==
  ASSUME NEW r, IsRequest(r), EvaluateForward(r).error # "none", r.value > 0, r.loan <= r.value
  PROVE  LET e == EvaluateForward(r).error
         IN  /\ e \in {"MissingCountyDataError", "NotImplementedError", "LookupError", "AssertionError"}
             /\ e = "MissingCountyDataError" => r.h.county \notin DOMAIN Ref.fha \cap DOMAIN Ref.fhfa
             /\ e = "NotImplementedError" => r.target = "fha"
             /\ e = "LookupError" => r.target = "fha" /\ r.term > Ref.longTerm
             /\ e = "AssertionError" =>
                    r.target = "conventional" /\ r.pmi = None /\ Above(r.loan, r.value, 800)
<1> DEFINE e == EvaluateForward(r).error
<1>1. \A x : Raise(x).error = x
  BY DEF Raise
<1>2. \A v : Result(v).error = "none" /\ Result(v).value = v
  BY DEF Result
<1>3. /\ r.loan \in Nat /\ r.value \in Nat /\ r.term \in Nat \ {0} /\ r.rate \in 0..RateDen
  BY DEF IsRequest
<1>4. Priced(r, Class(r).value, Financed(r), Payment(r), Premium(r).value).error = "none"
  BY <1>2 DEF Priced
<1>5. CASE Class(r).error # "none"
  <2>1. e = Class(r).error
    BY <1>1, <1>5, ForwardIs
  <2> QED
    BY <1>5, <2>1, ClassFails DEF Class
<1>6. CASE Class(r).error = "none" /\ Upfront(r).error # "none"
  <2>1. e = Upfront(r).error
    BY <1>1, <1>6, ForwardIs
  <2>2. r.target = "fha" /\ Upfront(r) = Mip(r.loan, r.value, r.term)
    BY <1>2, <1>6 DEF Upfront
  <2> HIDE DEF e
  <2>3. e = "LookupError" /\ r.term > Ref.longTerm
    BY <1>3, <1>6, <2>1, <2>2, MipIs
  <2> QED
    BY <2>2, <2>3 DEF e
<1>7. CASE Class(r).error = "none" /\ Upfront(r).error = "none"
  <2>1. Premium(r).error # "none" /\ e = Premium(r).error
    BY <1>1, <1>4, <1>7, ForwardIs
  <2>2. r.target # "fha"
    BY <1>2, <2>1 DEF Premium
  <2>3. Premium(r) = MonthlyMi(r, r.loan, r.value)
    BY <1>7, <2>2, ForwardAmounts DEF Premium
  <2> QED
    BY <1>3, <2>1, <2>2, <2>3, MiIs
<1> QED
  BY <1>5, <1>6, <1>7

-----------------------------------------------------------------------------
(* evaluate_reverse.                                                       *)

\* The loan that all of the budget would carry, its premium, the loan that the
\* rest carries, and whether the cash allows less.
AllOf(r) == LoanFor(r, Budget(r))
Wanted(r) == LoanFor(r, Budget(r) - Assumed(r, AllOf(r)).value)
Binds(r) == r.ltv < Ratio /\ CashLimit(r) < Wanted(r)
CashMi(r) == MonthlyMi(r, CashLimit(r), ValueFor(r, CashLimit(r)))

\* evaluate_reverse, one call after the other.
LEMMA ReverseIs ==
  ASSUME NEW r
  PROVE  EvaluateReverse(r) =
            IF Budget(r) <= 0 THEN NoBudget(r, 0)
            ELSE IF Assumed(r, AllOf(r)).error # "none" THEN Raise(Assumed(r, AllOf(r)).error)
            ELSE IF Budget(r) - Assumed(r, AllOf(r)).value <= 0 THEN NoBudget(r, Assumed(r, AllOf(r)).value)
            ELSE IF Binds(r)
                 THEN IF CashMi(r).error # "none" THEN Raise(CashMi(r).error)
                      ELSE Settle(r, CashLimit(r), CashMi(r).value, {"DOWN-PAYMENT-CASH-BINDING"})
                 ELSE Settle(r, Wanted(r), Assumed(r, AllOf(r)).value, {})
<1>1. EvaluateReverse(r) =
        IF Budget(r) <= 0 THEN NoBudget(r, 0)
        ELSE IF Assumed(r, AllOf(r)).error # "none" THEN Raise(Assumed(r, AllOf(r)).error)
        ELSE IF Budget(r) - Assumed(r, AllOf(r)).value <= 0 THEN NoBudget(r, Assumed(r, AllOf(r)).value)
        ELSE Capped(r, Wanted(r), Assumed(r, AllOf(r)).value)
  BY DEF EvaluateReverse, Then, AllOf, Wanted
<1>2. Capped(r, Wanted(r), Assumed(r, AllOf(r)).value) =
        IF Binds(r)
        THEN IF CashMi(r).error # "none" THEN Raise(CashMi(r).error)
             ELSE Settle(r, CashLimit(r), CashMi(r).value, {"DOWN-PAYMENT-CASH-BINDING"})
        ELSE Settle(r, Wanted(r), Assumed(r, AllOf(r)).value, {})
  BY DEF Capped, Then, Binds, CashMi
<1> QED
  BY <1>1, <1>2

\* A quote that is settled has the class of its loan.
LEMMA SettleIs ==
  ASSUME NEW r, NEW loan, NEW mi, NEW warnings
  PROVE  LET s == Settle(r, loan, mi, warnings)
             c == ClassifyTarget(loan, r.h.county, r.target)
         IN  /\ s.error = c.error
             /\ c.error = "none" =>
                    /\ Response(s.value) /\ s.value.loan = loan /\ s.value.financed = loan
                    /\ s.value.blocker = c.value.blocker /\ s.value.mi = mi
                    /\ s.value.pi = LevelPayment(loan, r.rate, RateDen, r.term)
                    /\ s.value.warnings = warnings /\ s.value.dti = None
<1> DEFINE s == Settle(r, loan, mi, warnings)
           c == ClassifyTarget(loan, r.h.county, r.target)
           pi == LevelPayment(loan, r.rate, RateDen, r.term)
           b == [class |-> c.value.class, blocker |-> c.value.blocker, warnings |-> warnings, loan |-> loan,
                 financed |-> loan, pi |-> pi, mi |-> mi, piti |-> None, ltv |-> r.ltv, cltv |-> None,
                 dti |-> None]
<1>1. s = IF c.error # "none" THEN Raise(c.error) ELSE Answer(r, c.value, loan, pi, mi, warnings)
  BY DEF Settle, Then
<1> HIDE DEF s, c, pi
<1>2. CASE c.error # "none"
  <2>1. s = Raise(c.error)
    BY <1>1, <1>2
  <2>2. s.error = c.error
    BY <2>1 DEF Raise
  <2> QED
    BY <1>2, <2>2 DEF s, c
<1>3. CASE c.error = "none"
  <2>1. s = Result(b)
    BY <1>1, <1>3 DEF Answer
  <2>2. /\ Response(b) /\ b.loan = loan /\ b.financed = loan
        /\ b.blocker = c.value.blocker /\ b.mi = mi /\ b.pi = pi
        /\ b.warnings = warnings /\ b.dti = None
    BY DEF Response
  <2> HIDE DEF b
  <2>3. s.error = "none" /\ s.value = b
    BY <2>1 DEF Result
  <2> QED
    BY <1>3, <2>2, <2>3 DEF s, c, pi
<1> QED
  BY <1>2, <1>3

\* A quote of nothing is blocked by the DTI.
LEMMA NoBudgetIs ==
  ASSUME NEW r, NEW mi
  PROVE  LET s == NoBudget(r, mi)
         IN  /\ s.error = "none" /\ Response(s.value) /\ s.value.loan = 0
             /\ s.value.blocker = "DTI-CAP" /\ s.value.dti = None
  BY DEF NoBudget, Answer, Result, Response

\* The amounts of a reverse request: a loan that something of the budget pays
\* for is not nothing, and a value is not below its loan.
LEMMA ReverseAmounts ==
  ASSUME NEW r, IsRequest(r)
  PROVE  /\ Budget(r) \in Int
         /\ \A pmt \in Nat \ {0} : LoanFor(r, pmt) \in Nat \ {0}
         /\ r.ltv < Ratio => CashLimit(r) \in Nat
         /\ \A loan \in Nat : ValueFor(r, loan) \in Nat /\ loan <= ValueFor(r, loan)
<1>1. /\ r.maxDti \in Nat /\ r.h \in Household /\ r.rate \in 0..RateDen /\ r.term \in Nat \ {0}
      /\ r.down \in Nat /\ r.ltv \in 1..Ratio /\ Ratio \in Nat \ {0}
  BY AskAssumption DEF IsRequest
<1>2. Budget(r) \in Int
  <2>1. r.h.income \in Nat /\ r.h.debts \in Nat /\ r.h.escrow \in Nat
    BY <1>1 DEF Household
  <2> DEFINE n == r.maxDti * r.h.income
  <2>2. n \in Nat
    BY <1>1, <2>1
  <2> HIDE DEF n
  <2>3. n \div Ratio \in Int
    BY <1>1, <2>2
  <2> QED
    BY <2>1, <2>3 DEF Budget, n
<1>3. ASSUME NEW pmt \in Nat \ {0} PROVE LoanFor(r, pmt) \in Nat \ {0}
  BY <1>1, WorthIsPaid DEF LoanFor
<1>4. ASSUME r.ltv < Ratio PROVE CashLimit(r) \in Nat
  <2> DEFINE n == r.down * r.ltv
             d == Ratio - r.ltv
  <2>1. n \in Nat /\ d \in Nat \ {0}
    BY <1>1, <1>4
  <2> HIDE DEF n, d
  <2>2. Cents(n, d) \in Nat
    BY <2>1, CentsType
  <2> QED
    BY <2>2 DEF CashLimit, n, d
<1>5. ASSUME NEW loan \in Nat PROVE ValueFor(r, loan) \in Nat /\ loan <= ValueFor(r, loan)
  <2> DEFINE n == loan * Ratio
             d == r.ltv
             x == 2 * loan - 1
  <2>1. n \in Nat /\ d \in Nat \ {0} /\ loan * d <= n
    <3>1. loan * (Ratio - d) >= 0
      BY <1>1
    <3>2. loan * (Ratio - d) = n - loan * d
      BY <1>1
    <3>3. n \in Nat /\ d \in Nat \ {0} /\ loan * d \in Nat
      BY <1>1
    <3> HIDE DEF n, d
    <3> QED
      BY <3>1, <3>2, <3>3
  <2>2. ValueFor(r, loan) = Cents(n, d)
    BY DEF ValueFor
  <2> HIDE DEF n, d
  <2>3. x * d <= 2 * n
    <3>1. x * d = 2 * (loan * d) - d
      BY <2>1
    <3> QED
      BY <2>1, <3>1
  <2>4. Cents(n, d) \in Nat /\ loan <= Cents(n, d)
    BY <2>1, <2>3, CentsAre
  <2> QED
    BY <2>2, <2>4
<1> QED
  BY <1>2, <1>3, <1>4, <1>5
\* The answer of a reverse request: a loan of nothing, the cash's loan, or the
\* loan that the budget carries after its premium.
LEMMA ReverseAnswers ==
  ASSUME NEW r, IsRequest(r), EvaluateReverse(r).error = "none"
  PROVE  LET b == EvaluateReverse(r).value
             c == ClassifyTarget(b.loan, r.h.county, r.target)
         IN  /\ Response(b) /\ b.loan \in Nat /\ b.dti = None
             /\ \/ b.loan = 0 /\ b.blocker = "DTI-CAP"
                \/ /\ c.error = "none" /\ b.blocker = c.value.blocker /\ b.financed = b.loan
                   /\ b.loan <= Wanted(r) /\ Assumed(r, AllOf(r)).value \in Nat
                   /\ Budget(r) - Assumed(r, AllOf(r)).value > 0
                   /\ \/ /\ r.ltv < Ratio /\ b.loan = CashLimit(r)
                         /\ "DOWN-PAYMENT-CASH-BINDING" \in b.warnings
                      \/ /\ b.loan > 0 /\ (r.ltv < Ratio => b.loan <= CashLimit(r))
                         /\ b.mi \in Nat /\ Budget(r) - b.mi > 0
                         /\ b.loan = LoanFor(r, Budget(r) - b.mi)
                         /\ b.pi = LevelPayment(b.loan, r.rate, RateDen, r.term)
<1> DEFINE s == EvaluateReverse(r)
           b == s.value
           all == Assumed(r, AllOf(r))
<1>1. \A e : Raise(e).error = e
  BY DEF Raise
<1>2. /\ Budget(r) \in Int
      /\ \A pmt \in Nat \ {0} : LoanFor(r, pmt) \in Nat \ {0}
      /\ r.ltv < Ratio => CashLimit(r) \in Nat
      /\ \A loan \in Nat : ValueFor(r, loan) \in Nat
  BY ReverseAmounts
<1>3. CASE Budget(r) <= 0
  <2>1. s = NoBudget(r, 0)
    BY <1>3, ReverseIs
  <2> QED
    BY <2>1, NoBudgetIs
<1>4. CASE Budget(r) > 0
  <2>1. AllOf(r) \in Nat /\ ValueFor(r, AllOf(r)) \in Nat
    BY <1>2, <1>4 DEF AllOf
  <2>2. all.error = "none"
    BY <1>1, <1>2, <1>4, ReverseIs
  <2>3. all.value \in Nat
    BY <2>1, <2>2, MiIs DEF Assumed
  <2>4. CASE Budget(r) - all.value <= 0
    <3>1. s = NoBudget(r, all.value)
      BY <1>2, <1>4, <2>2, <2>4, ReverseIs
    <3> QED
      BY <3>1, NoBudgetIs
  <2>5. CASE Budget(r) - all.value > 0 /\ Binds(r)
    <3>1. CashMi(r).error = "none"
      BY <1>1, <1>2, <1>4, <2>2, <2>3, <2>5, ReverseIs
    <3>2. s = Settle(r, CashLimit(r), CashMi(r).value, {"DOWN-PAYMENT-CASH-BINDING"})
      BY <1>2, <1>4, <2>2, <2>3, <2>5, <3>1, ReverseIs
    <3>3. r.ltv < Ratio /\ CashLimit(r) \in Nat /\ CashLimit(r) < Wanted(r)
      BY <1>2, <2>5 DEF Binds
    <3>4. Wanted(r) \in Nat
      BY <1>2, <2>3, <2>5 DEF Wanted
    <3>5. CashLimit(r) <= Wanted(r)
      BY <3>3, <3>4
    <3> QED
      BY <2>3, <2>5, <3>2, <3>3, <3>5, SettleIs
  <2>6. CASE Budget(r) - all.value > 0 /\ ~ Binds(r)
    <3> DEFINE left == Budget(r) - all.value
    <3>1. s = Settle(r, Wanted(r), all.value, {})
      BY <1>2, <1>4, <2>2, <2>3, <2>6, ReverseIs
    <3>2. left \in Nat \ {0}
      BY <1>2, <2>3, <2>6
    <3> HIDE DEF left
    <3>3. Wanted(r) = LoanFor(r, left) /\ Wanted(r) \in Nat \ {0}
      BY <1>2, <3>2 DEF Wanted, left
    <3>4. r.ltv < Ratio => Wanted(r) <= CashLimit(r)
      BY <1>2, <2>6, <3>3 DEF Binds
    <3> HIDE DEF s
    <3>5. /\ Response(b) /\ b.loan = Wanted(r) /\ b.financed = Wanted(r) /\ b.dti = None
          /\ ClassifyTarget(Wanted(r), r.h.county, r.target).error = "none"
          /\ b.blocker = ClassifyTarget(Wanted(r), r.h.county, r.target).value.blocker
          /\ b.mi = all.value /\ b.pi = LevelPayment(Wanted(r), r.rate, RateDen, r.term)
      BY <3>1, SettleIs DEF s
    <3>6. b.mi \in Nat /\ Budget(r) - b.mi > 0 /\ b.loan = LoanFor(r, Budget(r) - b.mi)
      BY <2>3, <2>6, <3>3, <3>5 DEF left
    <3> QED
      BY <2>3, <2>6, <3>3, <3>4, <3>5, <3>6 DEF s
  <2> QED
    BY <1>2, <2>3, <2>4, <2>5, <2>6
<1> QED
  BY <1>2, <1>3, <1>4

\* Why a reverse request has no answer.
LEMMA ReverseFails ==
  ASSUME NEW r, IsRequest(r), EvaluateReverse(r).error # "none"
  PROVE  LET e == EvaluateReverse(r).error
         IN  /\ e \in {"MissingCountyDataError", "NotImplementedError", "LookupError", "AssertionError",
                       "ValueError", "InvalidOperation"}
             /\ e = "MissingCountyDataError" => r.h.county \notin DOMAIN Ref.fha \cap DOMAIN Ref.fhfa
             /\ e = "NotImplementedError" => r.target = "fha"
             /\ e = "LookupError" => r.target = "fha" /\ r.term > Ref.longTerm
             /\ e = "AssertionError" =>
                    /\ r.target = "conventional" /\ r.pmi = None
                    /\ \/ Above(AllOf(r), ValueFor(r, AllOf(r)), 800)
                       \/ Above(CashLimit(r), ValueFor(r, CashLimit(r)), 800)
             /\ e \in {"ValueError", "InvalidOperation"} => r.ltv < Ratio /\ CashLimit(r) = 0
<1> DEFINE s == EvaluateReverse(r)
           e == s.error
           all == Assumed(r, AllOf(r))
<1>1. \A x : Raise(x).error = x
  BY DEF Raise
<1>2. /\ Budget(r) \in Int
      /\ \A pmt \in Nat \ {0} : LoanFor(r, pmt) \in Nat \ {0}
      /\ r.ltv < Ratio => CashLimit(r) \in Nat
      /\ \A loan \in Nat : ValueFor(r, loan) \in Nat /\ loan <= ValueFor(r, loan)
  BY ReverseAmounts
<1>3. Budget(r) > 0
  BY <1>2, ReverseIs, NoBudgetIs
<1>4. AllOf(r) \in Nat \ {0} /\ ValueFor(r, AllOf(r)) \in Nat /\ AllOf(r) <= ValueFor(r, AllOf(r))
  BY <1>2, <1>3 DEF AllOf
<1>5. CASE all.error # "none"
  <2>1. e = all.error
    BY <1>1, <1>2, <1>3, <1>5, ReverseIs
  <2>2. /\ e \in {"none", "InvalidOperation", "AssertionError", "ValueError", "LookupError"}
        /\ e = "InvalidOperation" => ValueFor(r, AllOf(r)) = 0
        /\ e = "AssertionError" =>
               /\ r.target = "conventional" /\ r.pmi = None
               /\ Above(AllOf(r), ValueFor(r, AllOf(r)), 800)
        /\ e = "ValueError" => ValueFor(r, AllOf(r)) = 0 \/ AllOf(r) > ValueFor(r, AllOf(r))
        /\ e = "LookupError" => r.target = "fha" /\ r.term > Ref.longTerm
    BY <1>4, <2>1, MiIs DEF Assumed
  <2>3. e \notin {"none", "InvalidOperation", "ValueError"}
    BY <1>4, <1>5, <2>1, <2>2
  <2> QED
    BY <2>2, <2>3
<1>6. CASE all.error = "none"
  <2>1. all.value \in Nat
    BY <1>4, <1>6, MiIs DEF Assumed
  <2>2. Budget(r) - all.value > 0
    BY <1>2, <1>3, <1>6, <2>1, ReverseIs, NoBudgetIs
  <2>3. CASE Binds(r) /\ CashMi(r).error # "none"
    <3> DEFINE cash == CashLimit(r)
    <3>1. e = CashMi(r).error
      BY <1>1, <1>2, <1>3, <1>6, <2>1, <2>2, <2>3, ReverseIs
    <3>2. r.ltv < Ratio /\ cash \in Nat /\ ValueFor(r, cash) \in Nat /\ cash <= ValueFor(r, cash)
      BY <1>2, <2>3 DEF Binds
    <3>3. /\ e \in {"none", "InvalidOperation", "AssertionError", "ValueError", "LookupError"}
          /\ e = "InvalidOperation" => ValueFor(r, cash) = 0
          /\ e = "AssertionError" =>
                 r.target = "conventional" /\ r.pmi = None /\ Above(cash, ValueFor(r, cash), 800)
          /\ e = "ValueError" => ValueFor(r, cash) = 0 \/ cash > ValueFor(r, cash)
          /\ e = "LookupError" => r.target = "fha" /\ r.term > Ref.longTerm
      BY <3>1, <3>2, MiIs DEF CashMi
    <3>4. e \in {"ValueError", "InvalidOperation"} => cash = 0
      <4> HIDE DEF cash, e
      <4> QED
        BY <3>2, <3>3
    <3> QED
      BY <2>3, <3>1, <3>2, <3>3, <3>4
  <2>4. ASSUME NEW loan, e = ClassifyTarget(loan, r.h.county, r.target).error PROVE
             /\ e \in {"MissingCountyDataError", "NotImplementedError"}
             /\ e = "MissingCountyDataError" => r.h.county \notin DOMAIN Ref.fha \cap DOMAIN Ref.fhfa
             /\ e = "NotImplementedError" => r.target = "fha"
    BY <2>4, ClassFails
  <2>5. CASE Binds(r) /\ CashMi(r).error = "none"
    <3>1. s = Settle(r, CashLimit(r), CashMi(r).value, {"DOWN-PAYMENT-CASH-BINDING"})
      BY <1>2, <1>3, <1>6, <2>1, <2>2, <2>5, ReverseIs
    <3>2. e = ClassifyTarget(CashLimit(r), r.h.county, r.target).error
      BY <3>1, SettleIs
    <3> QED
      BY <2>4, <3>2
  <2>6. CASE ~ Binds(r)
    <3>1. s = Settle(r, Wanted(r), all.value, {})
      BY <1>2, <1>3, <1>6, <2>1, <2>2, <2>6, ReverseIs
    <3>2. e = ClassifyTarget(Wanted(r), r.h.county, r.target).error
      BY <3>1, SettleIs
    <3> QED
      BY <2>4, <3>2
  <2> QED
    BY <2>3, <2>5, <2>6
<1> QED
  BY <1>5, <1>6
-----------------------------------------------------------------------------
(* The three calls.                                                        *)

Quoted == Evaluate(ask).error = "none" /\ answer = Evaluate(ask).value
Confirmed ==
    /\ Quoted /\ answer.loan # 0
    /\ Evaluate(Confirmation).error = "none" /\ back = Evaluate(Confirmation).value
Shocks == IncomeShock(Confirmation, Cuts, ask.maxDti)

\* What has been answered is what the engine answered to what was answered
\* before, and an exception is one of its calls.
QuoteInv ==
    /\ ask \in Asks
    /\ step = "ask" => answer = NoAnswer
    /\ step \in {"ask", "confirm"} => back = NoAnswer
    /\ step \in {"ask", "confirm", "shock"} => shocks = NoAnswer /\ error = "none"
    /\ answer # NoAnswer => Quoted
    /\ step = "confirm" => Quoted /\ answer.loan # 0
    /\ step = "shock" \/ back # NoAnswer => Confirmed
    /\ shocks # NoAnswer => Confirmed /\ Shocks.error = "none" /\ shocks = Shocks.value
    /\ error # "none" => \/ error = Evaluate(ask).error
                         \/ Quoted /\ answer.loan # 0 /\ error = Evaluate(Confirmation).error
                         \/ Confirmed /\ error = Shocks.error

\* Nothing is answered at the start.
LEMMA QuoteInit == Init => QuoteInv
  BY DEF Init, QuoteInv, NoAnswer

\* What the engine answers depends on the request and the answer before.
LEMMA SameCalls ==
  /\ UNCHANGED ask => Evaluate(ask)' = Evaluate(ask)
  /\ UNCHANGED <<ask, answer>> =>
        /\ Evaluate(Confirmation)' = Evaluate(Confirmation) /\ Shocks' = Shocks
        /\ Quoted' = Quoted
  /\ UNCHANGED <<ask, answer, back>> => Confirmed' = Confirmed
<1>1. UNCHANGED ask => Evaluate(ask)' = Evaluate(ask)
  OBVIOUS
<1>2. UNCHANGED <<ask, answer>> => Confirmation' = Confirmation
  BY Zenon DEF Confirmation
<1>3. UNCHANGED <<ask, answer>> =>
        /\ Evaluate(Confirmation)' = Evaluate(Confirmation) /\ Shocks' = Shocks
  BY <1>2, Zenon DEF Shocks
<1>4. UNCHANGED <<ask, answer>> => Quoted' = Quoted
  BY <1>1, Zenon DEF Quoted
<1>5. UNCHANGED <<ask, answer, back>> => Confirmed' = Confirmed
  <2>1. SUFFICES ASSUME UNCHANGED <<ask, answer, back>> PROVE Confirmed' = Confirmed
    OBVIOUS
  <2>2. Quoted' = Quoted /\ Evaluate(Confirmation)' = Evaluate(Confirmation)
    BY <1>3, <1>4, <2>1
  <2>3. answer' = answer /\ back' = back
    BY <2>1
  <2> QED
    BY <2>2, <2>3, Zenon DEF Confirmed
<1> QED
  BY <1>1, <1>3, <1>4, <1>5

\* Every call keeps the answers and whose they are.
LEMMA QuoteStep == QuoteInv /\ [Next]_vars => QuoteInv'
<1> SUFFICES ASSUME QuoteInv, [Next]_vars PROVE QuoteInv'
  OBVIOUS
<1> USE DEF QuoteInv
<1>1. CASE Ask
  <2>1. UNCHANGED <<ask, back, shocks>> /\ step = "ask"
    BY <1>1 DEF Ask
  <2>2. back' = NoAnswer /\ shocks' = NoAnswer /\ answer = NoAnswer /\ error = "none"
    BY <2>1
  <2>3. Evaluate(ask)' = Evaluate(ask)
    BY <2>1, SameCalls
  <2>4. CASE Evaluate(ask).error # "none"
    <3>1. step' = "raised" /\ error' = Evaluate(ask).error /\ answer' = NoAnswer
      BY <1>1, <2>2, <2>4 DEF Ask, Fail
    <3> QED
      BY <2>1, <2>2, <2>3, <3>1
  <2>5. CASE Evaluate(ask).error = "none"
    <3>1. /\ answer' = Evaluate(ask).value /\ error' = "none" /\ step' \in {"done", "confirm"}
          /\ step' = "confirm" => answer'.loan # 0
      BY <1>1, <2>2, <2>5 DEF Ask
    <3>2. Quoted'
      BY <2>3, <2>5, <3>1 DEF Quoted
    <3> QED
      BY <2>1, <2>2, <3>1, <3>2
  <2> QED
    BY <2>4, <2>5
<1>2. CASE Confirm
  <2>1. UNCHANGED <<ask, answer, shocks>> /\ step = "confirm"
    BY <1>2 DEF Confirm
  <2>2. shocks' = NoAnswer /\ back = NoAnswer /\ error = "none" /\ Quoted /\ answer.loan # 0
    BY <2>1
  <2>3. Evaluate(Confirmation)' = Evaluate(Confirmation) /\ Evaluate(ask)' = Evaluate(ask) /\ Quoted'
    BY <2>1, <2>2, SameCalls
  <2>4. CASE Evaluate(Confirmation).error # "none"
    <3>1. step' = "raised" /\ error' = Evaluate(Confirmation).error /\ back' = NoAnswer
      BY <1>2, <2>2, <2>4 DEF Confirm, Fail
    <3> QED
      BY <2>1, <2>2, <2>3, <3>1
  <2>5. CASE Evaluate(Confirmation).error = "none"
    <3>1. back' = Evaluate(Confirmation).value /\ error' = "none" /\ step' = "shock"
      BY <1>2, <2>2, <2>5 DEF Confirm
    <3>2. Confirmed'
      BY <2>1, <2>2, <2>3, <2>5, <3>1 DEF Confirmed
    <3> QED
      BY <2>1, <2>2, <2>3, <3>1, <3>2
  <2> QED
    BY <2>4, <2>5
<1>3. CASE Shock
  <2>1. UNCHANGED <<ask, answer, back>> /\ step = "shock"
    BY <1>3 DEF Shock
  <2>2. shocks = NoAnswer /\ error = "none" /\ Confirmed
    BY <2>1
  <2>3. Shocks' = Shocks /\ Evaluate(ask)' = Evaluate(ask) /\ Quoted' /\ Confirmed'
    BY <2>1, <2>2, SameCalls DEF Confirmed
  <2>4. CASE Shocks.error # "none"
    <3>1. step' = "raised" /\ error' = Shocks.error /\ shocks' = NoAnswer
      BY <1>3, <2>2, <2>4 DEF Shock, Fail, Shocks
    <3> QED
      BY <2>1, <2>2, <2>3, <3>1
  <2>5. CASE Shocks.error = "none"
    <3>1. shocks' = Shocks.value /\ error' = "none" /\ step' = "done"
      BY <1>3, <2>2, <2>5 DEF Shock, Shocks
    <3> QED
      BY <2>1, <2>2, <2>3, <2>5, <3>1
  <2> QED
    BY <2>4, <2>5
<1>4. CASE UNCHANGED vars
  <2>1. UNCHANGED <<ask, step, answer, back, shocks, error>>
    BY <1>4 DEF vars
  <2>2. /\ Evaluate(ask)' = Evaluate(ask) /\ Evaluate(Confirmation)' = Evaluate(Confirmation)
        /\ Shocks' = Shocks /\ Quoted' = Quoted /\ Confirmed' = Confirmed
    BY <2>1, SameCalls
  <2> QED
    BY <2>1, <2>2
<1> QED
  BY <1>1, <1>2, <1>3, <1>4 DEF Next
\* Requests are ones that the models accept.
LEMMA AskIs == QuoteInv => IsRequest(ask) /\ ask.mode = "reverse"
<1> SUFFICES ASSUME QuoteInv PROVE IsRequest(ask) /\ ask.mode = "reverse"
  OBVIOUS
<1>1. /\ ask \in [mode : {"reverse"}, h : Household, maxDti : 0..Ratio, term : Nat \ {0},
                  target : {"conventional", "jumbo", "fha", "va", "usda"}, rate : 0..RateDen,
                  apr : Optional, apor : Optional, pmi : Optional, junior : Nat,
                  loan : Nat, value : Nat, down : Nat, ltv : 1..Ratio]
      /\ ask.apr = None <=> ask.apor = None
  BY AskAssumption DEF QuoteInv
<1> QED
  BY <1>1 DEF IsRequest

\* An answer is the one of evaluate_reverse, after the ladder.
LEMMA QuotedIs ==
  ASSUME QuoteInv, Quoted
  PROVE  LET b == EvaluateReverse(ask).value
         IN  /\ EvaluateReverse(ask).error = "none" /\ Response(b) /\ Response(answer)
             /\ answer.loan = b.loan /\ answer.pi = b.pi /\ answer.mi = b.mi
             /\ b.warnings \subseteq answer.warnings
             /\ b.blocker # "none" => answer.blocker = b.blocker
             /\ b.blocker = "none" => \E i : FirstRung(ask, b, i) /\ answer.blocker = Citation(i)
<1>1. IsRequest(ask) /\ ask.mode = "reverse"
  BY AskIs
<1>2. Raw(ask) = EvaluateReverse(ask)
  BY <1>1 DEF Raw
<1>3. Evaluate(ask).error = "none" /\ answer = Evaluate(ask).value
  BY DEF Quoted
<1>4. EvaluateReverse(ask).error = "none"
  <2>1. \A e : Raise(e).error = e
    BY DEF Raise
  <2> QED
    BY <1>2, <1>3, <2>1, EvaluateIs
<1>5. Response(EvaluateReverse(ask).value)
  BY <1>1, <1>4, ReverseAnswers
<1> QED
  BY <1>2, <1>3, <1>4, <1>5, Answers

\* The confirmation is the request with the answer's loan and its value.
LEMMA ConfirmationIs ==
  ASSUME QuoteInv, Quoted, answer.loan # 0
  PROVE  LET r == Confirmation
         IN  /\ IsRequest(r) /\ r.mode = "forward" /\ answer.loan \in Nat \ {0}
             /\ r.loan = answer.loan /\ r.value = ValueFor(ask, answer.loan)
             /\ r.value \in Nat \ {0} /\ r.loan <= r.value
             /\ r.h = ask.h /\ r.target = ask.target /\ r.term = ask.term /\ r.rate = ask.rate
             /\ r.apr = ask.apr /\ r.apor = ask.apor /\ r.pmi = ask.pmi /\ r.junior = ask.junior
             /\ r.maxDti = ask.maxDti /\ r.ltv = ask.ltv
<1> DEFINE r == Confirmation
           v == ValueFor(ask, answer.loan)
           l == answer.loan
<1>1. IsRequest(ask) /\ ask.mode = "reverse"
  BY AskIs
<1>2. l \in Nat \ {0}
  <2>1. EvaluateReverse(ask).error = "none" /\ answer.loan = EvaluateReverse(ask).value.loan
    BY QuotedIs
  <2> QED
    BY <1>1, <2>1, ReverseAnswers
<1>3. v \in Nat \ {0} /\ l <= v
  BY <1>1, <1>2, ReverseAmounts
<1>4. r = [ask EXCEPT !.mode = "forward", !.loan = l, !.value = v]
  BY DEF Confirmation
<1> HIDE DEF v, l, r
<1>5. /\ ask \in [mode : {"forward", "reverse"}, h : Household, maxDti : 0..Ratio, term : Nat \ {0},
              target : {"conventional", "jumbo", "fha", "va", "usda"}, rate : 0..RateDen,
              apr : Optional, apor : Optional, pmi : Optional, junior : Nat,
              loan : Nat, value : Nat, down : Nat, ltv : 1..Ratio]
      /\ ask.apr = None <=> ask.apor = None
  BY <1>1 DEF IsRequest
<1>6. /\ r.mode = "forward" /\ r.loan = l /\ r.value = v
      /\ r.h = ask.h /\ r.target = ask.target /\ r.term = ask.term /\ r.rate = ask.rate
      /\ r.apr = ask.apr /\ r.apor = ask.apor /\ r.pmi = ask.pmi /\ r.junior = ask.junior
      /\ r.maxDti = ask.maxDti /\ r.ltv = ask.ltv
  BY <1>4, <1>5
<1>7. r \in [mode : {"forward", "reverse"}, h : Household, maxDti : 0..Ratio, term : Nat \ {0},
             target : {"conventional", "jumbo", "fha", "va", "usda"}, rate : 0..RateDen,
             apr : Optional, apor : Optional, pmi : Optional, junior : Nat,
             loan : Nat, value : Nat, down : Nat, ltv : 1..Ratio]
  BY <1>2, <1>3, <1>4, <1>5
<1>8. IsRequest(r)
  BY <1>5, <1>6, <1>7 DEF IsRequest
<1> QED
  BY <1>2, <1>3, <1>6, <1>8 DEF v, l, r

\* What a cut of some percent leaves of an income.
Left(income, cut) == Cents(income * (100 - cut), 100)

\* With less income a request is the same but for that.
LEMMA LessIncomeIs ==
  ASSUME NEW r, IsRequest(r), NEW cut \in 0..99
  PROVE  LET s == LessIncome(r, cut)
         IN  /\ s.h.income = Left(r.h.income, cut) /\ s.h.income \in Nat
             /\ s.h.income > 0 => IsRequest(s)
             /\ s.mode = r.mode /\ s.loan = r.loan /\ s.value = r.value /\ s.target = r.target
             /\ s.term = r.term /\ s.rate = r.rate /\ s.apr = r.apr /\ s.apor = r.apor
             /\ s.pmi = r.pmi /\ s.junior = r.junior /\ s.maxDti = r.maxDti /\ s.ltv = r.ltv
             /\ s.h.debts = r.h.debts /\ s.h.escrow = r.h.escrow /\ s.h.county = r.h.county
             /\ s.h.size = r.h.size /\ s.h.va = r.h.va
<1> DEFINE s == LessIncome(r, cut)
           left == Left(r.h.income, cut)
           h == r.h
<1>1. /\ r \in [mode : {"forward", "reverse"}, h : Household, maxDti : 0..Ratio, term : Nat \ {0},
              target : {"conventional", "jumbo", "fha", "va", "usda"}, rate : 0..RateDen,
              apr : Optional, apor : Optional, pmi : Optional, junior : Nat,
              loan : Nat, value : Nat, down : Nat, ltv : 1..Ratio]
      /\ r.apr = None <=> r.apor = None
  BY DEF IsRequest
<1>2. h \in [income : Nat \ {0}, debts : Nat, escrow : Nat, reserves : Nat, county : STRING,
             knownState : BOOLEAN, score : Nat, size : Nat, va : [family : Nat, residual : Int]]
  BY <1>1 DEF Household
<1>3. left \in Nat
  <2> DEFINE n == r.h.income * (100 - cut)
  <2>1. n \in Nat
    BY <1>2
  <2> HIDE DEF n
  <2> QED
    BY <2>1, CentsType DEF n, Left
<1>4. s = [r EXCEPT !.h = [h EXCEPT !.income = left]]
  BY DEF LessIncome, Left
<1> HIDE DEF left, h, s
<1> DEFINE g == [h EXCEPT !.income = left]
<1>5. /\ g.income = left /\ g.debts = h.debts /\ g.escrow = h.escrow /\ g.county = h.county
      /\ g.size = h.size /\ g.va = h.va
      /\ left > 0 => g \in Household
  BY <1>2, <1>3 DEF Household
<1> HIDE DEF g
<1>6. /\ s.mode = r.mode /\ s.loan = r.loan /\ s.value = r.value /\ s.target = r.target
      /\ s.term = r.term /\ s.rate = r.rate /\ s.apr = r.apr /\ s.apor = r.apor
      /\ s.pmi = r.pmi /\ s.junior = r.junior /\ s.maxDti = r.maxDti /\ s.ltv = r.ltv
      /\ s.h = g
      /\ g \in Household => s \in
             [mode : {"forward", "reverse"}, h : Household, maxDti : 0..Ratio, term : Nat \ {0},
              target : {"conventional", "jumbo", "fha", "va", "usda"}, rate : 0..RateDen,
              apr : Optional, apor : Optional, pmi : Optional, junior : Nat,
              loan : Nat, value : Nat, down : Nat, ltv : 1..Ratio]
  BY <1>1, <1>4 DEF g
<1>7. left > 0 => IsRequest(s)
  BY <1>1, <1>5, <1>6 DEF IsRequest
<1> QED
  BY <1>3, <1>5, <1>6, <1>7 DEF s, left, h

\* Less of an income, in cents, is no more of it, and a larger cut leaves no more.
LEMMA LessIsLess ==
  ASSUME NEW income \in Nat, NEW c \in 0..99, NEW d \in c..99
  PROVE  Left(income, d) <= Left(income, c) /\ Left(income, c) <= income
<1> DEFINE x == income * (100 - d)
           y == income * (100 - c)
<1>1. x \in Nat /\ y \in Nat /\ x <= y /\ y <= 100 * income
  <2>1. income * (d - c) >= 0 /\ income * c >= 0
    OBVIOUS
  <2>2. income * (d - c) = y - x /\ income * c = 100 * income - y
    OBVIOUS
  <2>3. x \in Nat /\ y \in Nat
    OBVIOUS
  <2> HIDE DEF x, y
  <2> QED
    BY <2>1, <2>2, <2>3
<1> HIDE DEF x, y
<1>2. Cents(x, 100) <= Cents(y, 100)
  BY <1>1, CentsOrder
<1>3. Cents(y, 100) <= income
  <2>1. Cents(y, 100) \in Nat /\ (2 * Cents(y, 100) - 1) * 100 <= 2 * y
    BY <1>1, CentsAre
  <2> QED
    BY <1>1, <2>1
<1> QED
  BY <1>2, <1>3 DEF x, y, Left
-----------------------------------------------------------------------------
(* Less income.                                                            *)

Poorer(i) == LessIncome(Confirmation, Cuts[i])

\* The cuts are percentages.
LEMMA CutsAre ==
  Len(Cuts) \in Nat /\ DOMAIN Cuts = 1..Len(Cuts) /\ \A i \in DOMAIN Cuts : Cuts[i] \in 0..99
<1> DEFINE S == 0..99
<1>1. Cuts \in Seq(S)
  BY AskAssumption
<1> HIDE DEF S
<1>2. Len(Cuts) \in Nat /\ DOMAIN Cuts = 1..Len(Cuts) /\ \A i \in DOMAIN Cuts : Cuts[i] \in S
  BY <1>1
<1> QED
  BY <1>2 DEF S

\* The shock evaluates the confirmation once for every cut, and fails as the
\* first of them that does.
LEMMA ShocksAre ==
  /\ Shocks.error # "none" =>
        \E i \in DOMAIN Cuts : Evaluate(Poorer(i)).error = Shocks.error
  /\ Shocks.error = "none" =>
        \A i \in DOMAIN Cuts :
            LET e == Evaluate(Poorer(i))
            IN  /\ e.error = "none" /\ Shocks.value.blocked[i] = e.value.blocker
                /\ Shocks.value.dti[i] = IF e.value.dti = None THEN 0 ELSE e.value.dti
<1> DEFINE results == [i \in DOMAIN Cuts |-> Evaluate(LessIncome(Confirmation, Cuts[i]))]
           Failed(res) == res.error # "none"
           I == {i \in 1..Len(results) : Failed(results[i])}
           first == SelectInSeq(results, Failed)
<1>1. Len(Cuts) \in Nat /\ DOMAIN Cuts = 1..Len(Cuts) /\ \A i \in DOMAIN Cuts : Cuts[i] \in 0..99
  BY CutsAre
<1>2. ~ (~ Scenarios(Cuts) \/ \E i \in DOMAIN Cuts : Cuts[i] \notin 0..99)
  BY <1>1, AskAssumption
<1>3. Shocks = IF first # 0 THEN Raise(results[first].error) ELSE Shocked(results, Cuts, ask.maxDti)
  <2>1. Shocks = IF ~ Scenarios(Cuts) \/ \E i \in DOMAIN Cuts : Cuts[i] \notin 0..99
                 THEN Raise("ValidationError")
                 ELSE IF first # 0 THEN Raise(results[first].error)
                 ELSE Shocked(results, Cuts, ask.maxDti)
    BY Zenon DEF Shocks, IncomeShock
  <2> HIDE DEF first, results
  <2> QED
    BY <1>2, <2>1
<1>4. first = IF I # {} THEN Min(I) ELSE 0
  BY Zenon DEF SelectInSeq
<1>5. \A i \in DOMAIN Cuts : results[i] = Evaluate(Poorer(i))
  BY Zenon DEF Poorer
<1>6. Len(results) = Len(Cuts)
  <2>1. DOMAIN results = 1..Len(Cuts)
    BY <1>1
  <2>2. results \in Seq({Evaluate(Poorer(i)) : i \in DOMAIN Cuts})
    <3> HIDE DEF results
    <3>1. results = [i \in 1..Len(Cuts) |-> Evaluate(Poorer(i))]
      BY <1>1, Zenon DEF results, Poorer
    <3> QED
      BY <1>1, <3>1
  <2> HIDE DEF results
  <2> QED
    BY <1>1, <2>1, <2>2
<1> DEFINE dti == [i \in DOMAIN Cuts |-> IF results[i].value.dti = None THEN 0 ELSE results[i].value.dti]
           blocked == [i \in DOMAIN Cuts |-> results[i].value.blocker]
           x == [dti |-> dti, worst |-> FirstMax(dti),
                 breaches |-> [i \in DOMAIN Cuts |-> dti[i] > ask.maxDti], blocked |-> blocked]
<1>7. Shocked(results, Cuts, ask.maxDti) = Result(x)
  BY Zenon DEF Shocked
<1>8. x.dti = dti /\ x.blocked = blocked
  <2> HIDE DEF dti, blocked
  <2> QED
    OBVIOUS
<1>9. /\ \A i \in DOMAIN Cuts : blocked[i] = Evaluate(Poorer(i)).value.blocker
      /\ \A i \in DOMAIN Cuts : dti[i] = IF Evaluate(Poorer(i)).value.dti = None THEN 0
                                        ELSE Evaluate(Poorer(i)).value.dti
  <2> HIDE DEF results
  <2> QED
    BY <1>5
<1> HIDE DEF I, results, first, x, dti, blocked
<1>10. first \in 0..Len(Cuts) /\ (first = 0 => I = {}) /\ (first # 0 => first \in I)
  <2>1. I \in SUBSET (1..Len(Cuts))
    BY <1>6 DEF I
  <2> QED
    BY <1>1, <1>4, <2>1, FirstIs
<1>11. I = {i \in DOMAIN Cuts : Evaluate(Poorer(i)).error # "none"}
  BY <1>1, <1>5, <1>6 DEF I
<1>12. /\ \A e : Raise(e).error = e
       /\ \A v : Result(v).error = "none" /\ Result(v).value = v
  BY DEF Raise, Result
<1>13. CASE first # 0
  <2>1. first \in DOMAIN Cuts /\ Evaluate(Poorer(first)).error # "none"
    BY <1>10, <1>11, <1>13
  <2>2. Shocks.error = Evaluate(Poorer(first)).error
    BY <1>3, <1>5, <1>12, <1>13, <2>1
  <2> QED
    BY <2>1, <2>2
<1>14. CASE first = 0
  <2>1. \A i \in DOMAIN Cuts : Evaluate(Poorer(i)).error = "none"
    BY <1>10, <1>11, <1>14
  <2>2. Shocks.error = "none" /\ Shocks.value = x
    BY <1>3, <1>7, <1>12, <1>14
  <2> QED
    BY <1>8, <1>9, <2>1, <2>2
<1> QED
  BY <1>13, <1>14
\* What a forward request with an answer has.
LEMMA ForwardEvaluated ==
  ASSUME NEW r, IsRequest(r), r.mode = "forward", r.loan > 0, Evaluate(r).error = "none"
  PROVE  LET b == EvaluateForward(r).value
             v == Evaluate(r).value
         IN  /\ Class(r).error = "none" /\ Upfront(r).error = "none" /\ Premium(r).error = "none"
             /\ r.value > 0 /\ r.h.income > 0 /\ Response(v)
             /\ b.blocker = Class(r).value.blocker /\ b.financed = Financed(r)
             /\ b.ltv = Quotient(Financed(r), r.value)
             /\ b.dti = Quotient(Piti(r) + r.h.debts, r.h.income) /\ b.dti \in Nat /\ v.dti = b.dti
             /\ Piti(r) \in Nat /\ r.h.debts \in Nat
             /\ b.blocker # "none" => v.blocker = b.blocker
             /\ b.blocker = "none" => \E i : FirstRung(r, b, i) /\ v.blocker = Citation(i)
<1>1. Raw(r) = EvaluateForward(r)
  BY DEF Raw
<1>2. \A e : Raise(e).error = e
  BY DEF Raise
<1>3. EvaluateForward(r).error = "none" /\ Validate(r).error = "none"
  BY <1>1, <1>2, EvaluateIs
<1>4. r.value > 0 /\ r.h.income > 0
  <2>1. r.value \in Nat /\ r.h \in Household
    BY DEF IsRequest
  <2>2. r.h.income \in Nat
    BY <2>1 DEF Household
  <2>3. ~ (r.value <= 0) /\ Income(r.h).error = "none"
    BY <1>2, <1>3 DEF Validate
  <2> QED
    BY <1>2, <2>1, <2>2, <2>3 DEF Income
<1> DEFINE b == EvaluateForward(r).value
<1>5. /\ Class(r).error = "none" /\ Upfront(r).error = "none" /\ Premium(r).error = "none"
      /\ Response(b) /\ b.blocker = Class(r).value.blocker /\ b.financed = Financed(r)
      /\ b.ltv = Quotient(Financed(r), r.value)
      /\ b.dti = Quotient(Piti(r) + r.h.debts, r.h.income)
  BY <1>3, ForwardAnswers
<1>6. Piti(r) \in Nat /\ r.h.debts \in Nat /\ r.h.income \in Nat \ {0}
  <2>1. r.h \in Household
    BY DEF IsRequest
  <2> QED
    BY <1>5, <2>1, ForwardAmounts DEF Household
<1>7. Quotient(Piti(r) + r.h.debts, r.h.income) \in Nat
  BY <1>6, QuotientOrder
<1> QED
  BY <1>1, <1>4, <1>5, <1>6, <1>7, Answers

\* The confirmation of a loan, and the same with less income, cost the same.
LEMMA PoorerIs ==
  ASSUME QuoteInv, Confirmed, NEW i \in DOMAIN Cuts, Evaluate(Poorer(i)).error = "none"
  PROVE  LET r == Confirmation
             s == Poorer(i)
         IN  /\ IsRequest(r) /\ r.mode = "forward" /\ r.loan > 0
             /\ IsRequest(s) /\ s.mode = "forward" /\ s.loan > 0
             /\ Class(s) = Class(r) /\ Financed(s) = Financed(r) /\ Piti(s) = Piti(r)
             /\ s.h.debts = r.h.debts /\ r.h.income \in Nat \ {0}
             /\ s.h.income = Left(r.h.income, Cuts[i]) /\ s.h.income \in Nat \ {0}
<1> DEFINE r == Confirmation
           s == Poorer(i)
<1>1. Quoted /\ answer.loan # 0
  BY DEF Confirmed
<1>2. /\ IsRequest(r) /\ r.mode = "forward" /\ r.loan > 0
  BY <1>1, ConfirmationIs
<1>3. Cuts[i] \in 0..99
  BY CutsAre
<1>4. r.h.income \in Nat \ {0}
  BY <1>2 DEF IsRequest, Household
<1> HIDE DEF r
<1>5. s = LessIncome(r, Cuts[i])
  BY DEF Poorer, r
<1> HIDE DEF s
<1>6. /\ s.h.income = Left(r.h.income, Cuts[i]) /\ s.h.income \in Nat
      /\ s.h.income > 0 => IsRequest(s)
      /\ s.mode = r.mode /\ s.loan = r.loan /\ s.value = r.value /\ s.target = r.target
      /\ s.term = r.term /\ s.rate = r.rate /\ s.pmi = r.pmi
      /\ s.h.debts = r.h.debts /\ s.h.escrow = r.h.escrow /\ s.h.county = r.h.county
  BY <1>2, <1>3, <1>5, LessIncomeIs
<1>7. s.h.income > 0
  <2>1. \A e : Raise(e).error = e
    BY DEF Raise
  <2>2. Evaluate(s).error = "none"
    BY DEF s
  <2>3. Validate(s).error = "none"
    BY <2>1, <2>2, EvaluateIs
  <2>4. Income(s.h).error = "none"
    BY <2>1, <2>3 DEF Validate
  <2> QED
    BY <1>6, <2>1, <2>4 DEF Income
<1>8. Class(s) = Class(r) /\ Upfront(s) = Upfront(r)
  BY <1>6 DEF Class, Upfront
<1>9. Financed(s) = Financed(r)
  BY <1>6, <1>8 DEF Financed
<1>10. \A loan, value : MonthlyMi(s, loan, value) = MonthlyMi(r, loan, value)
  BY <1>6 DEF MonthlyMi
<1>11. Premium(s) = Premium(r) /\ Payment(s) = Payment(r)
  BY <1>6, <1>8, <1>9, <1>10 DEF Premium, Payment
<1>12. Piti(s) = Piti(r)
  BY <1>6, <1>11 DEF Piti
<1> QED
  BY <1>2, <1>4, <1>6, <1>7, <1>8, <1>9, <1>12 DEF r, s
\* The rules, by their place.
LEMMA Rungs ==
  ASSUME NEW r, NEW b
  PROVE  /\ 1 \in Rung(r, b) <=> r.target = "usda" /\ Denies(UsdaEligible(12 * r.h.income, r.h.size, b.financed))
         /\ 2 \in Rung(r, b) <=> OverCeiling(IF r.mode = "forward" THEN CeilingLtv(r, b, 0) ELSE r.ltv, r.target)
         /\ 3 \in Rung(r, b) <=> r.mode = "forward" /\ OverCeiling(CeilingLtv(r, b, r.junior), r.target)
         /\ 4 \in Rung(r, b) <=> b.dti # None /\ b.dti > r.maxDti
         /\ 5 \in Rung(r, b) <=> r.apr # None /\ Denies(QmPasses(r.apr, r.apor, b.financed))
         /\ 6 \in Rung(r, b) <=> r.target = "va" /\ r.h.va = NoVa
         /\ 7 \in Rung(r, b) <=> r.target = "va" /\ r.h.va # NoVa /\ Denies(ResidualPasses(r.h.va, b.financed))
<1>1. /\ Ladder[1] = "USDA-INCOME-LIMIT" /\ Ladder[2] = "LTV-CEILING" /\ Ladder[3] = "CLTV-CEILING"
      /\ Ladder[4] = "DTI-CAP" /\ Ladder[5] = "ATR-QM" /\ Ladder[6] = "VA-RESIDUAL-NOT-SUPPLIED"
      /\ Ladder[7] = "VA-RESIDUAL"
  BY DEF Ladder
<1>2. 1 \in Rung(r, b) <=> r.target = "usda" /\ Denies(UsdaEligible(12 * r.h.income, r.h.size, b.financed))
  BY <1>1 DEF Rung, Applies
<1>3. 2 \in Rung(r, b) <=> OverCeiling(IF r.mode = "forward" THEN CeilingLtv(r, b, 0) ELSE r.ltv, r.target)
  BY <1>1 DEF Rung, Applies
<1>4. 3 \in Rung(r, b) <=> r.mode = "forward" /\ OverCeiling(CeilingLtv(r, b, r.junior), r.target)
  BY <1>1 DEF Rung, Applies
<1>5. 4 \in Rung(r, b) <=> b.dti # None /\ b.dti > r.maxDti
  BY <1>1 DEF Rung, Applies
<1>6. 5 \in Rung(r, b) <=> r.apr # None /\ Denies(QmPasses(r.apr, r.apor, b.financed))
  BY <1>1 DEF Rung, Applies
<1>7. 6 \in Rung(r, b) <=> r.target = "va" /\ r.h.va = NoVa
  BY <1>1 DEF Rung, Applies
<1>8. 7 \in Rung(r, b) <=> r.target = "va" /\ r.h.va # NoVa /\ Denies(ResidualPasses(r.h.va, b.financed))
  BY <1>1 DEF Rung, Applies
<1> QED
  BY <1>2, <1>3, <1>4, <1>5, <1>6, <1>7, <1>8

\* What blocks a loan blocks it with less income, but for the limit of USDA.
LEMMA RungsOfPoorer ==
  ASSUME QuoteInv, Confirmed, NEW i \in DOMAIN Cuts, Evaluate(Poorer(i)).error = "none"
  PROVE  Rung(Confirmation, EvaluateForward(Confirmation).value) \ {1}
            \subseteq Rung(Poorer(i), EvaluateForward(Poorer(i)).value)
<1> DEFINE r == Confirmation
           s == Poorer(i)
           b == EvaluateForward(r).value
           c == EvaluateForward(s).value
           n == Piti(r) + r.h.debts
<1>1. /\ IsRequest(r) /\ r.mode = "forward" /\ r.loan > 0
      /\ IsRequest(s) /\ s.mode = "forward" /\ s.loan > 0
      /\ Financed(s) = Financed(r) /\ Piti(s) = Piti(r)
      /\ s.h.debts = r.h.debts /\ r.h.income \in Nat \ {0}
      /\ s.h.income = Left(r.h.income, Cuts[i]) /\ s.h.income \in Nat \ {0}
  BY PoorerIs
<1>2. Cuts[i] \in 0..99
  BY CutsAre
<1>3. Evaluate(r).error = "none"
  BY DEF Confirmed
<1>4. /\ b.financed = Financed(r) /\ b.dti = Quotient(n, r.h.income) /\ b.dti \in Nat
      /\ b.ltv = Quotient(Financed(r), r.value) /\ Piti(r) \in Nat /\ r.h.debts \in Nat
  BY <1>1, <1>3, ForwardEvaluated
<1>5. /\ c.financed = Financed(s) /\ c.dti = Quotient(Piti(s) + s.h.debts, s.h.income) /\ c.dti \in Nat
      /\ c.ltv = Quotient(Financed(s), s.value)
  BY <1>1, ForwardEvaluated
<1>6. /\ s.mode = r.mode /\ s.loan = r.loan /\ s.value = r.value /\ s.target = r.target
      /\ s.apr = r.apr /\ s.apor = r.apor /\ s.junior = r.junior /\ s.maxDti = r.maxDti
      /\ s.h.va = r.h.va
  <2>1. s = LessIncome(r, Cuts[i])
    BY DEF Poorer
  <2> HIDE DEF r, s
  <2> QED
    BY <1>1, <1>2, <2>1, LessIncomeIs
<1>7. b.cltv = Quotient(Financed(r) + r.junior, r.value) /\ c.cltv = Quotient(Financed(s) + s.junior, s.value)
  <2>1. ASSUME NEW q, EvaluateForward(q).error = "none"
        PROVE  EvaluateForward(q).value.cltv = Quotient(Financed(q) + q.junior, q.value)
    <3>1. EvaluateForward(q) = Priced(q, Class(q).value, Financed(q), Payment(q), Premium(q).value)
      BY <2>1, ForwardIs DEF Raise
    <3> QED
      BY <3>1 DEF Priced, Result
  <2>2. EvaluateForward(r).error = "none" /\ EvaluateForward(s).error = "none"
    <3>1. Raw(r) = EvaluateForward(r) /\ Raw(s) = EvaluateForward(s)
      BY <1>1 DEF Raw
    <3> QED
      BY <1>3, <3>1, EvaluateIs DEF Raise
  <2> QED
    BY <2>1, <2>2
<1>8. s.h.income <= r.h.income
  <2>1. Cuts[i] \in Cuts[i]..99
    BY <1>2
  <2> QED
    BY <1>1, <1>2, <2>1, LessIsLess
<1> HIDE DEF r, s, b, c
<1>9. b.dti <= c.dti
  <2>1. n \in Nat
    BY <1>4
  <2> HIDE DEF n
  <2>2. Quotient(n, r.h.income) <= Quotient(n, s.h.income)
    BY <1>1, <1>8, <2>1, QuotientOrder
  <2> QED
    BY <1>1, <1>4, <1>5, <2>2 DEF n
<1>10. b.financed = c.financed /\ b.ltv = c.ltv /\ b.cltv = c.cltv
  BY <1>1, <1>4, <1>5, <1>6, <1>7
<1>11. \A junior : CeilingLtv(s, c, junior) = CeilingLtv(r, b, junior)
  BY <1>6, <1>10 DEF CeilingLtv
<1>12. 2 \in Rung(r, b) => 2 \in Rung(s, c)
  BY <1>1, <1>6, <1>11, Rungs
<1>13. 3 \in Rung(r, b) => 3 \in Rung(s, c)
  BY <1>1, <1>6, <1>11, Rungs
<1>14. 4 \in Rung(r, b) => 4 \in Rung(s, c)
  <2>1. r.maxDti \in Nat
    BY <1>1, AskAssumption DEF IsRequest
  <2>2. c.dti # None
    BY <1>5 DEF None
  <2> QED
    BY <1>4, <1>5, <1>6, <1>9, <2>1, <2>2, Rungs
<1>15. 5 \in Rung(r, b) => 5 \in Rung(s, c)
  BY <1>6, <1>10, Rungs
<1>16. 6 \in Rung(r, b) => 6 \in Rung(s, c)
  BY <1>6, Rungs
<1>17. 7 \in Rung(r, b) => 7 \in Rung(s, c)
  BY <1>6, <1>10, Rungs
<1>18. Rung(r, b) \subseteq 1..7
  BY DEF Rung
<1>19. Rung(r, b) \ {1} \subseteq Rung(s, c)
  BY <1>12, <1>13, <1>14, <1>15, <1>16, <1>17, <1>18
<1> QED
  BY <1>19 DEF r, s, b, c

\* The DTI of the confirmation grows with the cut.
LEMMA DtiOfPoorer ==
  ASSUME QuoteInv, Confirmed, NEW i \in DOMAIN Cuts, Evaluate(Poorer(i)).error = "none"
  PROVE  /\ back.dti \in Nat /\ Evaluate(Poorer(i)).value.dti \in Nat
         /\ back.dti <= Evaluate(Poorer(i)).value.dti
         /\ \A j \in DOMAIN Cuts : Evaluate(Poorer(j)).error = "none" /\ Cuts[i] <= Cuts[j] =>
                Evaluate(Poorer(i)).value.dti <= Evaluate(Poorer(j)).value.dti
<1> DEFINE r == Confirmation
           n == Piti(r) + r.h.debts
           left(k) == Left(r.h.income, Cuts[k])
           d(k) == Evaluate(Poorer(k)).value.dti
<1>1. back = Evaluate(r).value /\ Evaluate(r).error = "none"
  BY DEF Confirmed
<1>2. IsRequest(r) /\ r.mode = "forward" /\ r.loan > 0 /\ r.h.income \in Nat \ {0}
  BY PoorerIs
<1>3. back.dti = Quotient(n, r.h.income) /\ back.dti \in Nat /\ n \in Nat
  BY <1>1, <1>2, ForwardEvaluated
<1>4. ASSUME NEW k \in DOMAIN Cuts, Evaluate(Poorer(k)).error = "none"
      PROVE  d(k) = Quotient(n, left(k)) /\ d(k) \in Nat /\ left(k) \in Nat \ {0}
  <2> DEFINE s == Poorer(k)
  <2>1. /\ IsRequest(s) /\ s.mode = "forward" /\ s.loan > 0
        /\ Piti(s) = Piti(r) /\ s.h.debts = r.h.debts
        /\ s.h.income = left(k) /\ s.h.income \in Nat \ {0}
    BY <1>4, PoorerIs
  <2> HIDE DEF r
  <2>2. d(k) = Quotient(Piti(s) + s.h.debts, s.h.income) /\ d(k) \in Nat
    BY <1>4, <2>1, ForwardEvaluated
  <2> HIDE DEF s, d, left
  <2> QED
    BY <2>1, <2>2
<1> HIDE DEF r, n
<1>5. left(i) <= r.h.income
  <2>1. Cuts[i] \in 0..99
    BY CutsAre
  <2>2. Cuts[i] \in Cuts[i]..99
    BY <2>1
  <2> QED
    BY <1>2, <2>1, <2>2, LessIsLess
<1>6. ASSUME NEW j \in DOMAIN Cuts, Cuts[i] <= Cuts[j] PROVE left(j) <= left(i)
  <2>1. Cuts[i] \in 0..99 /\ Cuts[j] \in 0..99
    BY CutsAre
  <2>2. Cuts[j] \in Cuts[i]..99
    BY <1>6, <2>1
  <2> QED
    BY <1>2, <2>1, <2>2, LessIsLess
<1> HIDE DEF d, left
<1>7. d(i) = Quotient(n, left(i)) /\ d(i) \in Nat /\ left(i) \in Nat \ {0}
  BY <1>4
<1>8. back.dti <= d(i)
  BY <1>2, <1>3, <1>5, <1>7, QuotientOrder
<1>9. ASSUME NEW j \in DOMAIN Cuts, Evaluate(Poorer(j)).error = "none", Cuts[i] <= Cuts[j]
      PROVE  d(i) <= d(j)
  <2>1. d(j) = Quotient(n, left(j)) /\ left(j) \in Nat \ {0} /\ left(j) <= left(i)
    BY <1>4, <1>6, <1>9
  <2> QED
    BY <1>3, <1>7, <2>1, QuotientOrder
<1> QED
  BY <1>3, <1>7, <1>8, <1>9 DEF d

\* Less income never makes a loan better: the shock of a confirmed quote has a
\* DTI that grows with the cut, and where it is not blocked nor was the quote
\* (income_shock evaluates the same loan again).
THEOREM PoorerIsNoBetter == Spec => []ShockOnlyTightens
<1>1. ASSUME QuoteInv PROVE ShockOnlyTightens
  <2> SUFFICES ASSUME shocks # NoAnswer
               PROVE  /\ \A i, j \in DOMAIN Cuts : Cuts[i] <= Cuts[j] => shocks.dti[i] <= shocks.dti[j]
                      /\ \A i \in DOMAIN Cuts :
                             /\ shocks.dti[i] >= back.dti
                             /\ shocks.blocked[i] = "none" => back.blocker \in {"none", "USDA-INCOME-LIMIT"}
    BY DEF ShockOnlyTightens
  <2>1. Confirmed /\ Shocks.error = "none" /\ shocks = Shocks.value
    BY <1>1 DEF QuoteInv
  <2>2. ASSUME NEW i \in DOMAIN Cuts
        PROVE  /\ Evaluate(Poorer(i)).error = "none" /\ shocks.blocked[i] = Evaluate(Poorer(i)).value.blocker
               /\ shocks.dti[i] = Evaluate(Poorer(i)).value.dti
    <3>1. Evaluate(Poorer(i)).error = "none"
      BY <2>1, ShocksAre
    <3>2. Evaluate(Poorer(i)).value.dti # None
      BY <1>1, <2>1, <3>1, DtiOfPoorer DEF None
    <3> QED
      BY <2>1, <3>1, <3>2, ShocksAre
  <2>3. \A i, j \in DOMAIN Cuts : Cuts[i] <= Cuts[j] => shocks.dti[i] <= shocks.dti[j]
    BY <1>1, <2>1, <2>2, DtiOfPoorer
  <2>4. \A i \in DOMAIN Cuts : shocks.dti[i] >= back.dti
    BY <1>1, <2>1, <2>2, DtiOfPoorer
  <2>5. ASSUME NEW i \in DOMAIN Cuts, shocks.blocked[i] = "none"
        PROVE  back.blocker \in {"none", "USDA-INCOME-LIMIT"}
    <3> DEFINE r == Confirmation
               s == Poorer(i)
               b == EvaluateForward(r).value
               c == EvaluateForward(s).value
    <3>1. Evaluate(s).error = "none" /\ Evaluate(s).value.blocker = "none"
      BY <2>2, <2>5
    <3>2. back = Evaluate(r).value /\ Evaluate(r).error = "none"
      BY <2>1 DEF Confirmed
    <3>3. /\ IsRequest(r) /\ r.mode = "forward" /\ r.loan > 0
          /\ IsRequest(s) /\ s.mode = "forward" /\ s.loan > 0 /\ Class(s) = Class(r)
      BY <1>1, <2>1, <3>1, PoorerIs
    <3>4. /\ c.blocker = Class(s).value.blocker
          /\ c.blocker # "none" => Evaluate(s).value.blocker = c.blocker
          /\ c.blocker = "none" => \E k : FirstRung(s, c, k) /\ Evaluate(s).value.blocker = Citation(k)
      BY <3>1, <3>3, ForwardEvaluated
    <3>5. /\ b.blocker = Class(r).value.blocker
          /\ b.blocker = "none" => \E k : FirstRung(r, b, k) /\ back.blocker = Citation(k)
      BY <3>2, <3>3, ForwardEvaluated
    <3>6. Rung(r, b) \ {1} \subseteq Rung(s, c)
      BY <1>1, <2>1, <3>1, RungsOfPoorer
    <3> HIDE DEF r, s, b, c
    <3>7. c.blocker = "none" /\ b.blocker = "none"
      BY <3>1, <3>3, <3>4, <3>5
    <3>8. PICK k : FirstRung(s, c, k) /\ Evaluate(s).value.blocker = Citation(k)
      BY <3>4, <3>7
    <3>9. \A x \in 1..7 : Citation(x) # "none"
      BY DEF Citation, Ladder
    <3>10. k = 0 /\ Rung(s, c) = {}
      BY <3>1, <3>8, <3>9 DEF FirstRung
    <3>11. PICK x : FirstRung(r, b, x) /\ back.blocker = Citation(x)
      BY <3>5, <3>7
    <3>12. x \in {0, 1}
      BY <3>6, <3>10, <3>11 DEF FirstRung
    <3> QED
      BY <3>11, <3>12 DEF Citation, Ladder
  <2> QED
    BY <2>3, <2>4, <2>5
<1> QED
  BY <1>1, QuoteInit, QuoteStep, PTL DEF Spec
-----------------------------------------------------------------------------
(* A quote uses the budget.                                                *)

\* The rest of the value is covered by the cash, whose loan is rounded first.
LEMMA CashCovers ==
  ASSUME NEW r, IsRequest(r), NEW loan \in Nat, r.ltv < Ratio => loan <= CashLimit(r)
  PROVE  ValueFor(r, loan) - loan <= r.down + 1 + (Ratio - r.ltv) \div (2 * r.ltv)
<1> DEFINE l == r.ltv
           R == Ratio
           v == ValueFor(r, loan)
           k == (R - l) \div (2 * l)
           x == loan * R
<1>1. l \in Nat \ {0} /\ R \in Nat \ {0} /\ l <= R /\ r.down \in Nat
  BY AskAssumption DEF IsRequest
<1>2. v = Cents(x, l)
  BY DEF ValueFor
<1> HIDE DEF l, R, v, x, k
<1>3. x \in Nat
  BY <1>1 DEF x
<1>4. v \in Nat /\ 2 * (v * l) <= 2 * x + l
  <2>1. Cents(x, l) \in Nat /\ 2 * (Cents(x, l) * l) <= 2 * x + l
    BY <1>1, <1>3, CentsType, CentsClose
  <2> QED
    BY <1>2, <2>1
<1>5. 2 * (loan * (R - l)) <= 2 * (r.down * l) + (R - l)
  <2>1. CASE l = R
    <3>1. R - l = 0 /\ loan * (R - l) = 0 /\ r.down * l >= 0
      BY <1>1, <2>1
    <3> QED
      BY <1>1, <3>1
  <2>2. CASE l < R
    <3> DEFINE c == CashLimit(r)
               n == r.down * l
               d == R - l
    <3>1. c = Cents(n, d)
      BY DEF CashLimit, l, R
    <3>2. n \in Nat /\ d \in Nat \ {0}
      BY <1>1, <2>2
    <3> HIDE DEF n, d
    <3>3. c \in Nat /\ 2 * (c * d) <= 2 * n + d
      <4>1. Cents(n, d) \in Nat /\ 2 * (Cents(n, d) * d) <= 2 * n + d
        BY <3>2, CentsType, CentsClose
      <4> QED
        BY <3>1, <4>1
    <3>4. loan <= c
      BY <2>2 DEF l, R
    <3> HIDE DEF c
    <3>5. loan * d <= c * d
      <4>1. (c - loan) * d >= 0
        BY <3>2, <3>3, <3>4
      <4>2. (c - loan) * d = c * d - loan * d
        BY <3>2, <3>3
      <4>3. c * d \in Int /\ loan * d \in Int
        BY <3>2, <3>3
      <4> QED
        BY <4>1, <4>2, <4>3
    <3>6. c * d \in Int /\ loan * d \in Int
      BY <3>2, <3>3
    <3> QED
      BY <3>2, <3>3, <3>5, <3>6 DEF n, d
  <2> QED
    BY <1>1, <2>1, <2>2
<1>6. loan * (R - l) = x - loan * l /\ loan * l \in Nat /\ v * l \in Nat /\ r.down * l \in Nat
  BY <1>1, <1>4 DEF x
<1>7. 2 * (v * l) - 2 * (loan * l) - 2 * (r.down * l) <= (R - l) + l
  BY <1>1, <1>3, <1>4, <1>5, <1>6
<1>8. k \in Nat /\ R - l < 2 * (k * l) + 2 * l
  <2> DEFINE n == R - l
             d == 2 * l
  <2>1. n \in Nat /\ d \in Nat \ {0}
    BY <1>1
  <2>2. k = n \div d
    BY DEF k
  <2> HIDE DEF n, d
  <2>3. n \div d \in Nat /\ n < d * (n \div d) + d
    BY <2>1
  <2>4. k \in Nat /\ n < d * k + d
    BY <2>2, <2>3
  <2>5. d * k = 2 * (k * l) /\ d = 2 * l
    BY <1>1, <2>4 DEF d
  <2> QED
    BY <2>1, <2>4, <2>5 DEF n
<1>9. v - loan <= r.down + 1 + k
  <2> SUFFICES ASSUME v >= loan + r.down + k + 2 PROVE FALSE
    BY <1>1, <1>4, <1>8
  <2>1. (v - loan - r.down - k - 2) * l >= 0
    BY <1>1, <1>4, <1>8
  <2>2. (v - loan - r.down - k - 2) * l = v * l - loan * l - r.down * l - k * l - 2 * l
    BY <1>1, <1>4, <1>8
  <2>3. k * l \in Int
    BY <1>1, <1>8
  <2> QED
    BY <1>1, <1>6, <1>7, <1>8, <2>1, <2>2, <2>3
<1> QED
  BY <1>9 DEF l, R, v, k

\* A quote leaves no money unused and needs none that is not there: the cash
\* covers the rest of the value, and unless it binds, the payment is the budget
\* but for a cent (evaluate_reverse inverts the level payment once).
THEOREM BudgetIsUsed == Spec => []QuoteUsesBudget
<1>1. ASSUME QuoteInv PROVE QuoteUsesBudget
  <2> SUFFICES ASSUME answer # NoAnswer, answer.loan > 0
               PROVE  /\ ValueFor(ask, answer.loan) - answer.loan
                           <= ask.down + 1 + (Ratio - ask.ltv) \div (2 * ask.ltv)
                      /\ "DOWN-PAYMENT-CASH-BINDING" \in answer.warnings
                         \/ answer.pi + answer.mi \in (Budget(ask) - 1)..(Budget(ask) + 1)
    BY DEF QuoteUsesBudget
  <2> DEFINE b == EvaluateReverse(ask).value
  <2>1. Quoted
    BY <1>1 DEF QuoteInv
  <2>2. IsRequest(ask)
    BY <1>1, AskIs
  <2>3. /\ EvaluateReverse(ask).error = "none"
        /\ answer.loan = b.loan /\ answer.pi = b.pi /\ answer.mi = b.mi
        /\ b.warnings \subseteq answer.warnings
    BY <1>1, <2>1, QuotedIs
  <2>4. /\ b.loan \in Nat
        /\ \/ b.loan = 0
           \/ /\ ask.ltv < Ratio /\ b.loan = CashLimit(ask)
              /\ "DOWN-PAYMENT-CASH-BINDING" \in b.warnings
           \/ /\ ask.ltv < Ratio => b.loan <= CashLimit(ask)
              /\ b.mi \in Nat /\ Budget(ask) - b.mi > 0
              /\ b.loan = LoanFor(ask, Budget(ask) - b.mi)
              /\ b.pi = LevelPayment(b.loan, ask.rate, RateDen, ask.term)
    BY <2>2, <2>3, ReverseAnswers
  <2> HIDE DEF b
  <2>5. ask.ltv < Ratio => b.loan <= CashLimit(ask)
    BY <2>3, <2>4
  <2>6. ValueFor(ask, answer.loan) - answer.loan
          <= ask.down + 1 + (Ratio - ask.ltv) \div (2 * ask.ltv)
    BY <2>2, <2>3, <2>4, <2>5, CashCovers
  <2>7. CASE "DOWN-PAYMENT-CASH-BINDING" \in b.warnings
    BY <2>3, <2>6, <2>7
  <2>8. CASE /\ b.mi \in Nat /\ Budget(ask) - b.mi > 0
             /\ b.loan = LoanFor(ask, Budget(ask) - b.mi)
             /\ b.pi = LevelPayment(b.loan, ask.rate, RateDen, ask.term)
    <3> DEFINE left == Budget(ask) - b.mi
               p == LevelPayment(LoanFor(ask, left), ask.rate, RateDen, ask.term)
    <3>1. Budget(ask) \in Int /\ left \in Nat \ {0}
      BY <2>2, <2>8, ReverseAmounts
    <3>2. ask.rate \in 0..RateDen /\ ask.term \in Nat \ {0}
      BY <2>2 DEF IsRequest
    <3>3. b.pi = p
      BY <2>8
    <3> HIDE DEF left
    <3>4. p \in Nat /\ left - 1 <= p /\ p <= left + 1
      BY <3>1, <3>2, WorthIsPaid DEF LoanFor
    <3> HIDE DEF p
    <3>5. b.pi + b.mi \in (Budget(ask) - 1)..(Budget(ask) + 1)
      BY <2>8, <3>1, <3>3, <3>4 DEF left
    <3> QED
      BY <2>3, <2>6, <3>5
  <2> QED
    BY <2>3, <2>4, <2>7, <2>8
<1> QED
  BY <1>1, QuoteInit, QuoteStep, PTL DEF Spec
-----------------------------------------------------------------------------
(* Both modes agree.                                                       *)

\* A larger loan that passes ATR/QM has a smaller one pass it.
LEMMA QmTightens ==
  ASSUME NEW loan \in Nat \ {0}, NEW more \in Nat, loan <= more, NEW apr \in Int, NEW apor \in Int,
         Denies(QmPasses(apr, apor, loan))
  PROVE  Denies(QmPasses(apr, apor, more))
<1> DEFINE Spread(l) == CASE l >= Ref.qmHigh -> 9
                          [] l < Ref.qmHigh /\ l >= Ref.qmMid -> 14
                          [] OTHER -> 26
<1>1. ASSUME NEW l \in Nat \ {0}
      PROVE  Denies(QmPasses(apr, apor, l)) <=> apr - apor > Spread(l)
  <2>1. QmPasses(apr, apor, l) = Result(apr - apor <= Spread(l))
    BY DEF QmPasses
  <2>2. Spread(l) \in {9, 14, 26}
    OBVIOUS
  <2> HIDE DEF Spread
  <2> DEFINE passes == apr - apor <= Spread(l)
  <2>3. passes \in BOOLEAN /\ (~ passes <=> apr - apor > Spread(l))
    BY <2>2
  <2> HIDE DEF passes
  <2>4. Denies(Result(passes)) <=> ~ passes
    BY <2>3, Zenon DEF Denies, Result
  <2> QED
    BY <2>1, <2>3, <2>4 DEF passes
<1>2. Spread(more) <= Spread(loan) /\ Spread(more) \in Int /\ Spread(loan) \in Int
  BY AskAssumption
<1> HIDE DEF Spread
<1> QED
  BY <1>1, <1>2

\* Without junior liens and with the LTV that was asked for, the confirmation
\* fails the rules that the quote failed, and may fail that of the DTI; the rule
\* of the combined LTV is then that of the LTV.
LEMMA RungsOfBoth ==
  ASSUME QuoteInv, Confirmed, ask.junior = 0,
         Quotient(answer.loan, ValueFor(ask, answer.loan)) = ask.ltv,
         EvaluateReverse(ask).value.financed = answer.loan,
         EvaluateReverse(ask).value.dti = None
  PROVE  LET r == Confirmation
             a == Rung(ask, EvaluateReverse(ask).value)
             c == Rung(r, EvaluateForward(r).value)
         IN  /\ \A i \in {1, 2, 6, 7} : i \in a <=> i \in c
             /\ 3 \in c <=> 2 \in c
             /\ 3 \notin a /\ 4 \notin a
             /\ 5 \in a => 5 \in c
             /\ 5 \in c => 5 \in a \/ ask.target = "fha"
<1> DEFINE r == Confirmation
           b == EvaluateReverse(ask).value
           f == EvaluateForward(r).value
           a == Rung(ask, b)
           c == Rung(r, f)
<1>1. Quoted /\ answer.loan # 0 /\ Evaluate(r).error = "none"
  BY DEF Confirmed
<1>2. /\ IsRequest(r) /\ r.mode = "forward" /\ answer.loan \in Nat \ {0}
      /\ r.loan = answer.loan /\ r.value = ValueFor(ask, answer.loan)
      /\ r.h = ask.h /\ r.target = ask.target /\ r.apr = ask.apr /\ r.apor = ask.apor
      /\ r.junior = ask.junior /\ r.maxDti = ask.maxDti
  BY <1>1, ConfirmationIs
<1>3. ask.mode = "reverse" /\ IsRequest(ask)
  BY AskIs
<1>4. /\ f.financed = Financed(r) /\ f.ltv = Quotient(Financed(r), r.value) /\ f.dti \in Nat
      /\ Upfront(r).error = "none"
  BY <1>1, <1>2, ForwardEvaluated
<1>5. /\ Financed(r) \in Nat /\ r.loan <= Financed(r)
      /\ r.target # "fha" => Financed(r) = r.loan
  BY <1>2, <1>4, ForwardAmounts
<1>6. b.financed = answer.loan /\ b.dti = None
  OBVIOUS
<1> HIDE DEF r, b, f
<1>7. CeilingLtv(r, f, 0) = ask.ltv /\ CeilingLtv(r, f, r.junior) = ask.ltv
  <2>1. CASE r.target = "fha"
    <3>1. r.loan + 0 = r.loan
      BY <1>2
    <3> QED
      BY <1>2, <2>1, <3>1 DEF CeilingLtv
  <2>2. CASE r.target # "fha"
    BY <1>2, <1>4, <1>5, <2>2 DEF CeilingLtv
  <2> QED
    BY <2>1, <2>2
<1>8. 1 \in a <=> 1 \in c
  <2>1. CASE ask.target = "usda"
    BY <1>2, <1>4, <1>5, <1>6, <2>1, Rungs
  <2>2. CASE ask.target # "usda"
    BY <1>2, <2>2, Rungs
  <2> QED
    BY <2>1, <2>2
<1>9. 2 \in a <=> 2 \in c
  BY <1>2, <1>3, <1>7, Rungs
<1>10. 3 \in c <=> 2 \in c
  BY <1>2, <1>7, Rungs
<1>11. 3 \notin a
  BY <1>3, Rungs
<1>12. 4 \notin a
  BY <1>6, Rungs
<1>13. 6 \in a <=> 6 \in c
  BY <1>2, Rungs
<1>14. 7 \in a <=> 7 \in c
  <2>1. CASE ask.target = "va"
    BY <1>2, <1>4, <1>5, <1>6, <2>1, Rungs
  <2>2. CASE ask.target # "va"
    BY <1>2, <2>2, Rungs
  <2> QED
    BY <2>1, <2>2
<1>15. 5 \in a => 5 \in c
  <2>1. SUFFICES ASSUME 5 \in a PROVE 5 \in c
    OBVIOUS
  <2>2. ask.apr # None /\ Denies(QmPasses(ask.apr, ask.apor, answer.loan))
    BY <1>6, <2>1, Rungs
  <2>3. ask.apr \in Int /\ ask.apor \in Int
    BY <1>3 DEF IsRequest, Optional, None
  <2>4. Denies(QmPasses(ask.apr, ask.apor, Financed(r)))
    BY <1>2, <1>5, <2>2, <2>3, QmTightens
  <2> QED
    BY <1>2, <1>4, <2>2, <2>4, Rungs
<1>16. 5 \in c => 5 \in a \/ ask.target = "fha"
  BY <1>2, <1>4, <1>5, <1>6, Rungs
<1> QED
  BY <1>8, <1>9, <1>10, <1>11, <1>12, <1>13, <1>14, <1>15, <1>16 DEF r, b, f

\* Both modes walk the same ladder: without junior liens, and where the value in
\* cents keeps the LTV, the confirmation is blocked by what blocked the quote, by
\* a cent of its DTI, or by the price of an FHA loan that its premium made larger
\* (_evaluate_blockers, which each mode gives what it has).
THEOREM BothModesAgree == Spec => []ModesAgree
<1>1. ASSUME QuoteInv PROVE ModesAgree
  <2> SUFFICES ASSUME back # NoAnswer, ask.junior = 0,
                      Quotient(answer.loan, ValueFor(ask, answer.loan)) = ask.ltv
               PROVE  \/ back.blocker = answer.blocker \/ back.blocker = "DTI-CAP"
                      \/ ask.target = "fha" /\ back.blocker = "ATR-QM"
    BY DEF ModesAgree
  <2> DEFINE r == Confirmation
             b == EvaluateReverse(ask).value
             f == EvaluateForward(r).value
             a == Rung(ask, b)
             c == Rung(r, f)
  <2>1. Confirmed
    BY <1>1 DEF QuoteInv
  <2>2. Quoted /\ answer.loan # 0 /\ Evaluate(r).error = "none" /\ back = Evaluate(r).value
    BY <2>1 DEF Confirmed
  <2>3. /\ EvaluateReverse(ask).error = "none" /\ answer.loan = b.loan
        /\ b.blocker # "none" => answer.blocker = b.blocker
        /\ b.blocker = "none" => \E i : FirstRung(ask, b, i) /\ answer.blocker = Citation(i)
    BY <1>1, <2>2, QuotedIs
  <2>4. IsRequest(ask)
    BY <1>1, AskIs
  <2>5. /\ b.dti = None /\ b.financed = b.loan
        /\ b.blocker = ClassifyTarget(b.loan, ask.h.county, ask.target).value.blocker
    BY <2>2, <2>3, <2>4, ReverseAnswers
  <2>6. /\ IsRequest(r) /\ r.mode = "forward" /\ r.loan > 0
        /\ r.loan = answer.loan /\ r.h = ask.h /\ r.target = ask.target
    BY <1>1, <2>2, ConfirmationIs
  <2>7. /\ f.blocker = Class(r).value.blocker
        /\ f.blocker # "none" => back.blocker = f.blocker
        /\ f.blocker = "none" => \E i : FirstRung(r, f, i) /\ back.blocker = Citation(i)
    BY <2>2, <2>6, ForwardEvaluated
  <2>8. f.blocker = b.blocker
    BY <2>3, <2>5, <2>6, <2>7 DEF Class
  <2>9. CASE b.blocker # "none"
    BY <2>3, <2>7, <2>8, <2>9
  <2>10. CASE b.blocker = "none"
    <3>1. /\ \A i \in {1, 2, 6, 7} : i \in a <=> i \in c
          /\ 3 \in c <=> 2 \in c
          /\ 3 \notin a /\ 4 \notin a
          /\ 5 \in a => 5 \in c
          /\ 5 \in c => 5 \in a \/ ask.target = "fha"
      BY <1>1, <2>1, <2>3, <2>5, RungsOfBoth
    <3>2. PICK i : FirstRung(ask, b, i) /\ answer.blocker = Citation(i)
      BY <2>3, <2>10
    <3>3. PICK j : FirstRung(r, f, j) /\ back.blocker = Citation(j)
      BY <2>7, <2>8, <2>10
    <3>4. i \in 0..7 /\ (i = 0 => a = {}) /\ (i # 0 => i \in a /\ \A k \in a : i <= k)
      BY <3>2 DEF FirstRung
    <3>5. j \in 0..7 /\ (j = 0 => c = {}) /\ (j # 0 => j \in c /\ \A k \in c : j <= k)
      BY <3>3 DEF FirstRung
    <3> HIDE DEF a, c
    <3>6. CASE j = i
      BY <3>2, <3>3, <3>6
    <3>7. CASE j = 4
      BY <3>3, <3>7 DEF Citation, Ladder
    <3>8. CASE j = 5 /\ 5 \notin a
      BY <3>1, <3>3, <3>5, <3>8 DEF Citation, Ladder
    <3>9. ASSUME j # i, j # 4, ~ (j = 5 /\ 5 \notin a) PROVE FALSE
      <4>1. j # 3
        BY <3>1, <3>5
      <4>2. i # 0 => i \in c
        BY <3>1, <3>4
      <4>3. j # 0
        BY <3>4, <3>5, <3>9, <4>2
      <4>4. j \in a
        BY <3>1, <3>5, <3>9, <4>1, <4>3
      <4>5. i # 0 /\ i <= j /\ j <= i
        BY <3>4, <3>5, <4>2, <4>3, <4>4
      <4> QED
        BY <3>4, <3>5, <3>9, <4>5
    <3> QED
      BY <3>6, <3>7, <3>8, <3>9
  <2> QED
    BY <2>9, <2>10
<1> QED
  BY <1>1, QuoteInit, QuoteStep, PTL DEF Spec
-----------------------------------------------------------------------------
(* Why a quote fails.                                                      *)

\* The LTV is over 80 percent.
Over80 == 10 * ask.ltv > 8 * Ratio

\* Both modes want the premium of a conventional loan over 80 percent, and an
\* income.
LEMMA ValidateFails ==
  ASSUME NEW r, IsRequest(r), Validate(r).error # "none", r.mode = "forward" => r.value > 0
  PROVE  /\ Validate(r).error = "ValidationError"
         /\ r.target = "conventional" /\ r.pmi = None
         /\ IF r.mode = "forward" THEN Above(r.loan, r.value, 800) ELSE Above(r.ltv, Ratio, 800)
<1> DEFINE over80 == IF r.mode = "forward" THEN Above(r.loan, r.value, 800) ELSE Above(r.ltv, Ratio, 800)
           bad == \/ (r.apr = None) # (r.apor = None)
                  \/ IF r.mode = "forward" THEN r.value <= 0 ELSE r.ltv <= 0
                  \/ r.target = "conventional" /\ over80 /\ r.pmi = None
                  \/ r.rate \notin 0..RateDen
<1>1. Validate(r) = IF bad THEN Raise("ValidationError") ELSE Income(r.h)
  BY Zenon DEF Validate
<1>2. /\ r.apr = None <=> r.apor = None
      /\ r.rate \in 0..RateDen /\ r.ltv \in 1..Ratio /\ r.h \in Household /\ r.value \in Nat
      /\ r.mode \in {"forward", "reverse"}
  BY DEF IsRequest
<1>3. Income(r.h).error = "none"
  <2>1. r.h.income \in Nat \ {0}
    BY <1>2 DEF Household
  <2> QED
    BY <2>1 DEF Income, Result
<1> HIDE DEF bad, over80
<1>4. bad
  BY <1>1, <1>3
<1>5. Validate(r).error = "ValidationError"
  BY <1>1, <1>4 DEF Raise
<1>6. ~ ((r.apr = None) # (r.apor = None))
  BY <1>2
<1>7. ~ IF r.mode = "forward" THEN r.value <= 0 ELSE r.ltv <= 0
  BY <1>2, AskAssumption
<1>8. r.target = "conventional" /\ over80 /\ r.pmi = None
  BY <1>2, <1>4, <1>6, <1>7, Zenon DEF bad
<1> QED
  BY <1>5, <1>8 DEF over80

\* The loan of an answer is confirmed, with any income, but for a county, a
\* limit, a term, or a premium that the value in cents needs.
LEMMA ConfirmFails ==
  ASSUME NEW r, IsRequest(r), r.mode = "forward", r.loan > 0, r.value > 0, r.loan <= r.value,
         Evaluate(r).error # "none"
  PROVE  LET e == Evaluate(r).error
         IN  /\ e \in {"MissingCountyDataError", "NotImplementedError", "LookupError", "ValidationError"}
             /\ e = "MissingCountyDataError" => r.h.county \notin DOMAIN Ref.fha \cap DOMAIN Ref.fhfa
             /\ e = "NotImplementedError" => r.target = "fha"
             /\ e = "LookupError" => r.target = "fha" /\ r.term > Ref.longTerm
             /\ e = "ValidationError" =>
                    r.target = "conventional" /\ r.pmi = None /\ Above(r.loan, r.value, 800)
<1>1. Raw(r) = EvaluateForward(r)
  BY DEF Raw
<1>2. CASE Validate(r).error # "none"
  <2>1. Evaluate(r).error = Validate(r).error
    BY <1>2, EvaluateFails
  <2> QED
    BY <1>2, <2>1, ValidateFails
<1>3. CASE Validate(r).error = "none" /\ EvaluateForward(r).error # "none"
  <2>1. Evaluate(r).error = EvaluateForward(r).error
    BY <1>1, <1>3, EvaluateFails
  <2>2. ~ (r.target = "conventional" /\ r.pmi = None /\ Above(r.loan, r.value, 800))
    BY <1>3 DEF Validate, Raise
  <2> QED
    BY <1>3, <2>1, <2>2, ForwardFails
<1>4. CASE Validate(r).error = "none" /\ EvaluateForward(r).error = "none"
  <2>1. RefusesZero(r, EvaluateForward(r).value)
    BY <1>1, <1>4, EvaluateFails
  <2>2. EvaluateForward(r).value.financed = Financed(r) /\ Upfront(r).error = "none"
    BY <1>4, ForwardAnswers
  <2>3. Financed(r) \in Nat /\ r.loan <= Financed(r)
    BY <2>2, ForwardAmounts
  <2>4. r.loan \in Nat
    BY DEF IsRequest
  <2> QED
    BY <2>1, <2>2, <2>3, <2>4 DEF RefusesZero
<1> QED
  BY <1>2, <1>3, <1>4

\* A quote has no answer for one of these, and for a household without the cash
\* for any loan.
LEMMA AskFails ==
  ASSUME QuoteInv, Evaluate(ask).error # "none"
  PROVE  LET e == Evaluate(ask).error
         IN  /\ e \in {"MissingCountyDataError", "NotImplementedError", "LookupError",
                       "AssertionError", "ValueError", "InvalidOperation", "ValidationError"}
             /\ e = "MissingCountyDataError" => ask.h.county \notin DOMAIN Ref.fha \cap DOMAIN Ref.fhfa
             /\ e = "NotImplementedError" => ask.target = "fha"
             /\ e = "LookupError" => ask.target = "fha" /\ ask.term > Ref.longTerm
             /\ e = "AssertionError" =>
                    /\ ask.target = "conventional" /\ ask.pmi = None
                    /\ OverInCents(AllOf(ask)) \/ OverInCents(CashLimit(ask))
             /\ e \in {"ValueError", "InvalidOperation"} => ask.ltv < Ratio /\ CashLimit(ask) = 0
             /\ e = "ValidationError" => ask.target = "conventional" /\ ask.pmi = None /\ Over80
<1> DEFINE s == EvaluateReverse(ask)
           e == Evaluate(ask).error
<1>1. IsRequest(ask) /\ ask.mode = "reverse"
  BY AskIs
<1>2. Raw(ask) = s
  BY <1>1 DEF Raw
<1>3. ask.ltv \in Nat /\ Ratio \in Nat
  BY <1>1, AskAssumption DEF IsRequest
<1>4. Above(ask.ltv, Ratio, 800) <=> Over80
  BY <1>3 DEF Above, Over80
<1>5. CASE Validate(ask).error # "none"
  <2>1. e = Validate(ask).error
    BY <1>5, EvaluateFails
  <2> QED
    BY <1>1, <1>4, <1>5, <2>1, ValidateFails
<1>6. CASE Validate(ask).error = "none" /\ s.error # "none"
  <2>1. e = s.error
    BY <1>2, <1>6, EvaluateFails
  <2>2. ~ (ask.target = "conventional" /\ ask.pmi = None /\ Above(ask.ltv, Ratio, 800))
    BY <1>1, <1>6 DEF Validate, Raise
  <2>3. /\ e \in {"MissingCountyDataError", "NotImplementedError", "LookupError", "AssertionError",
                  "ValueError", "InvalidOperation"}
        /\ e = "MissingCountyDataError" => ask.h.county \notin DOMAIN Ref.fha \cap DOMAIN Ref.fhfa
        /\ e = "NotImplementedError" => ask.target = "fha"
        /\ e = "LookupError" => ask.target = "fha" /\ ask.term > Ref.longTerm
        /\ e = "AssertionError" =>
               /\ ask.target = "conventional" /\ ask.pmi = None
               /\ \/ Above(AllOf(ask), ValueFor(ask, AllOf(ask)), 800)
                  \/ Above(CashLimit(ask), ValueFor(ask, CashLimit(ask)), 800)
        /\ e \in {"ValueError", "InvalidOperation"} => ask.ltv < Ratio /\ CashLimit(ask) = 0
    BY <1>1, <1>6, <2>1, ReverseFails
  <2>4. e = "AssertionError" => 10 * ask.ltv <= 8 * Ratio
    BY <1>3, <1>4, <2>2, <2>3 DEF Over80
  <2> QED
    BY <2>3, <2>4 DEF OverInCents, Over
<1>7. CASE Validate(ask).error = "none" /\ s.error = "none"
  <2> DEFINE b == s.value
  <2>1. b.blocker = "none" /\ RefusesZero(ask, b) /\ e = "ValueError"
    BY <1>2, <1>7, EvaluateFails
  <2>2. /\ b.loan \in Nat
        /\ \/ b.loan = 0 /\ b.blocker = "DTI-CAP"
           \/ /\ b.financed = b.loan
              /\ \/ ask.ltv < Ratio /\ b.loan = CashLimit(ask)
                 \/ b.loan > 0
    BY <1>1, <1>7, ReverseAnswers
  <2> HIDE DEF b
  <2>3. b.financed <= 0
    BY <2>1 DEF RefusesZero
  <2>4. ask.ltv < Ratio /\ CashLimit(ask) = 0
    BY <2>1, <2>2, <2>3
  <2> QED
    BY <2>1, <2>4
<1> QED
  BY <1>5, <1>6, <1>7

\* A quote fails only for a county that is not listed, a limit of FHA, a term
\* beyond the premium table, a premium that is not given and that the LTV, or its
\* rounding at 80 percent, needs, a household without the cash for any loan, and
\* a cut that leaves no income (what the two modes and income_shock raise).
THEOREM FailsOnlyForCause == Spec => []QuoteFailsOnlyFor
<1>1. ASSUME QuoteInv PROVE QuoteFailsOnlyFor
  <2>1. CASE error = "none"
    BY <2>1 DEF QuoteFailsOnlyFor
  <2>2. CASE error # "none" /\ error = Evaluate(ask).error
    <3>1. Evaluate(ask).error # "none"
      BY <2>2
    <3> QED
      BY <1>1, <2>2, <3>1, AskFails DEF QuoteFailsOnlyFor, AllOf, Over80
  <2> DEFINE r == Confirmation
  <2>3. ASSUME Quoted, answer.loan # 0
        PROVE  /\ IsRequest(r) /\ r.mode = "forward" /\ r.loan > 0 /\ r.value > 0 /\ r.loan <= r.value
               /\ r.loan = answer.loan /\ r.value = ValueFor(ask, answer.loan)
               /\ r.h = ask.h /\ r.target = ask.target /\ r.term = ask.term /\ r.pmi = ask.pmi
    BY <1>1, <2>3, ConfirmationIs
  <2>4. ASSUME Quoted PROVE answer # NoAnswer
    <3>1. Response(answer)
      BY <1>1, <2>4, QuotedIs
    <3>2. "loan" \in DOMAIN answer
      BY <3>1 DEF Response
    <3>3. DOMAIN NoAnswer = {}
      BY DEF NoAnswer
    <3> QED
      BY <3>2, <3>3
  <2>5. ASSUME Quoted, answer.loan # 0, Above(answer.loan, ValueFor(ask, answer.loan), 800)
        PROVE  Over80 \/ (answer # NoAnswer /\ OverInCents(answer.loan))
    <3>1. ask.ltv \in Nat /\ Ratio \in Nat
      BY <1>1, AskIs, AskAssumption DEF IsRequest
    <3> QED
      BY <2>4, <2>5, <3>1 DEF Over80, OverInCents, Over
  <2> HIDE DEF r
  <2>6. CASE error # "none" /\ Quoted /\ answer.loan # 0 /\ error = Evaluate(r).error
    <3>1. /\ error \in {"MissingCountyDataError", "NotImplementedError", "LookupError", "ValidationError"}
          /\ error = "MissingCountyDataError" => ask.h.county \notin DOMAIN Ref.fha \cap DOMAIN Ref.fhfa
          /\ error = "NotImplementedError" => ask.target = "fha"
          /\ error = "LookupError" => ask.target = "fha" /\ ask.term > Ref.longTerm
          /\ error = "ValidationError" => /\ ask.target = "conventional" /\ ask.pmi = None
                                          /\ Above(answer.loan, ValueFor(ask, answer.loan), 800)
      BY <2>3, <2>6, ConfirmFails
    <3> QED
      BY <2>5, <2>6, <3>1 DEF QuoteFailsOnlyFor, Over80
  <2>7. CASE error # "none" /\ Confirmed /\ error = Shocks.error
    <3>1. Quoted /\ answer.loan # 0
      BY <2>7 DEF Confirmed
    <3>2. PICK i \in DOMAIN Cuts : Evaluate(Poorer(i)).error = error
      BY <2>7, ShocksAre
    <3> DEFINE s == Poorer(i)
    <3>3. s = LessIncome(r, Cuts[i]) /\ Cuts[i] \in 0..99
      BY CutsAre DEF Poorer, r
    <3> HIDE DEF s
    <3>4. IsRequest(r)
      BY <2>3, <3>1
    <3>5. /\ s.h.income = Left(r.h.income, Cuts[i]) /\ s.h.income \in Nat
          /\ s.h.income > 0 => IsRequest(s)
          /\ s.mode = r.mode /\ s.loan = r.loan /\ s.value = r.value /\ s.target = r.target
          /\ s.term = r.term /\ s.pmi = r.pmi /\ s.h.county = r.h.county
      BY <3>3, <3>4, LessIncomeIs
    <3>6. CASE s.h.income = 0
      <4>1. error = "ValidationError"
        <5>1. Validate(s).error = "ValidationError"
          BY <3>6 DEF Validate, Income, Raise
        <5>2. Evaluate(s) = Raise("ValidationError")
          BY <5>1, EvaluateIs
        <5> QED
          BY <3>2, <5>2 DEF Raise, s
      <4>2. Cents(ask.h.income * (100 - Cuts[i]), 100) = 0
        BY <2>3, <3>1, <3>5, <3>6 DEF Left
      <4> QED
        BY <4>1, <4>2 DEF QuoteFailsOnlyFor
    <3>7. CASE s.h.income # 0
      <4>1. IsRequest(s) /\ s.mode = "forward" /\ s.loan > 0 /\ s.value > 0 /\ s.loan <= s.value
        BY <2>3, <3>1, <3>5, <3>7
      <4>2. error = Evaluate(s).error
        BY <3>2 DEF s
      <4>3. /\ error \in {"MissingCountyDataError", "NotImplementedError", "LookupError", "ValidationError"}
            /\ error = "MissingCountyDataError" => s.h.county \notin DOMAIN Ref.fha \cap DOMAIN Ref.fhfa
            /\ error = "NotImplementedError" => s.target = "fha"
            /\ error = "LookupError" => s.target = "fha" /\ s.term > Ref.longTerm
            /\ error = "ValidationError" =>
                   s.target = "conventional" /\ s.pmi = None /\ Above(s.loan, s.value, 800)
        BY <2>7, <4>1, <4>2, ConfirmFails
      <4>4. /\ s.h.county = ask.h.county /\ s.target = ask.target /\ s.term = ask.term /\ s.pmi = ask.pmi
            /\ s.loan = answer.loan /\ s.value = ValueFor(ask, answer.loan)
        BY <2>3, <3>1, <3>5
      <4> QED
        BY <2>5, <3>1, <4>3, <4>4 DEF QuoteFailsOnlyFor, Over80
    <3> QED
      BY <3>6, <3>7
  <2> QED
    BY <1>1, <2>1, <2>2, <2>6, <2>7 DEF QuoteInv, r
<1> QED
  BY <1>1, QuoteInit, QuoteStep, PTL DEF Spec
-----------------------------------------------------------------------------
(* A quote closes.                                                         *)

\* The level payment grows with the loan.
LEMMA PaymentGrows ==
  ASSUME NEW p \in Nat, NEW q \in Nat, p <= q, NEW num \in 0..RateDen, NEW n \in Nat \ {0}
  PROVE  LevelPayment(p, num, RateDen, n) <= LevelPayment(q, num, RateDen, n)
<1> DEFINE A == Annuity(num, 12 * RateDen, n)
           x == p * Unit
           y == q * Unit
<1>1. A \in Nat \ {0}
  BY AnnuityType
<1>2. LevelPayment(p, num, RateDen, n) = Cents(x, A) /\ LevelPayment(q, num, RateDen, n) = Cents(y, A)
  BY DEF LevelPayment
<1>3. x \in Nat /\ y \in Nat /\ x <= y
  <2>1. (q - p) * Unit >= 0
    BY UnitAssumption
  <2>2. (q - p) * Unit = y - x /\ x \in Nat /\ y \in Nat
    BY UnitAssumption
  <2> HIDE DEF x, y
  <2> QED
    BY <2>1, <2>2
<1> HIDE DEF A, x, y
<1> QED
  BY <1>1, <1>2, <1>3, CentsOrder

\* Two cents above the budget are within the slack of the DTI.
LEMMA SlackIsEnough ==
  ASSUME NEW income \in Nat \ {0}, NEW maxDti \in Nat, NEW n \in Nat,
         n <= (maxDti * income) \div Ratio + 2
  PROVE  Quotient(n, income) <= maxDti + 1 + (2 * Ratio) \div income
<1> DEFINE q == (maxDti * income) \div Ratio
           x == n * Ratio
           c == Cents(x, income)
           k == (2 * Ratio) \div income
           most == maxDti * income
<1>1. Ratio \in Nat \ {0} /\ most \in Nat
  BY AskAssumption
<1>2. q \in Nat /\ q * Ratio <= most
  <2> HIDE DEF most
  <2>1. most \div Ratio \in Nat /\ (most \div Ratio) * Ratio <= most
    BY <1>1
  <2> QED
    BY <2>1 DEF most
<1>3. n <= q + 2
  OBVIOUS
<1> HIDE DEF q
<1>4. x \in Nat /\ x <= q * Ratio + 2 * Ratio
  <2>1. (q + 2 - n) * Ratio >= 0
    BY <1>1, <1>2, <1>3
  <2>2. (q + 2 - n) * Ratio = q * Ratio + 2 * Ratio - x /\ x \in Nat /\ q * Ratio \in Nat
    BY <1>1, <1>2
  <2> HIDE DEF x
  <2> QED
    BY <1>1, <2>1, <2>2
<1>5. k \in Nat /\ 2 * Ratio < k * income + income
  <2> DEFINE d == 2 * Ratio
  <2>1. d \in Nat
    BY <1>1
  <2> HIDE DEF d
  <2>2. d \div income \in Nat /\ d < (d \div income) * income + income
    BY <2>1
  <2> QED
    BY <2>2 DEF d
<1> HIDE DEF x, c, k
<1>6. c \in Nat /\ (2 * c - 1) * income <= 2 * x
  BY <1>4, CentsAre DEF c
<1>7. (2 * c - 1) * income = 2 * (c * income) - income /\ c * income \in Int /\ k * income \in Int
      /\ q * Ratio \in Int /\ most = maxDti * income
  BY <1>1, <1>2, <1>5, <1>6
<1>8. c <= maxDti + 1 + k
  <2> SUFFICES ASSUME c >= maxDti + k + 2 PROVE FALSE
    BY <1>5, <1>6
  <2>1. (c - maxDti - k - 2) * income >= 0
    BY <1>5, <1>6
  <2>2. (c - maxDti - k - 2) * income = c * income - maxDti * income - k * income - 2 * income
    BY <1>5, <1>6
  <2>3. maxDti * income \in Int
    OBVIOUS
  <2> HIDE DEF most
  <2> QED
    BY <1>1, <1>2, <1>4, <1>5, <1>6, <1>7, <2>1, <2>2, <2>3
<1> QED
  BY <1>8 DEF Quotient, c, x, k

\* The program has no premium, or the quote has assumed it: for a conventional
\* loan, the cents of the values keep both loans on one side of 80 percent.
NoNewPremium ==
  \/ ask.target \in {"va", "jumbo", "usda"}
  \/ ask.target = "conventional" /\ (Over(answer.loan) => Over(AllOf(ask)))

\* More payment is worth no less of a loan.
LEMMA WorthGrows ==
  ASSUME NEW x \in Nat, NEW y \in Nat, x <= y, NEW num \in 0..RateDen, NEW n \in Nat \ {0}
  PROVE  PresentValue(x, num, RateDen, n) <= PresentValue(y, num, RateDen, n)
<1> DEFINE A == Annuity(num, 12 * RateDen, n)
           v == x * A
           w == y * A
<1>1. A \in Nat \ {0}
  BY AnnuityType
<1>2. PresentValue(x, num, RateDen, n) = Cents(v, Unit) /\ PresentValue(y, num, RateDen, n) = Cents(w, Unit)
  BY DEF PresentValue
<1> HIDE DEF A
<1>3. v \in Nat /\ w \in Nat /\ v <= w
  <2>1. (y - x) * A >= 0
    BY <1>1
  <2>2. (y - x) * A = w - v /\ v \in Nat /\ w \in Nat
    BY <1>1
  <2> HIDE DEF v, w
  <2> QED
    BY <2>1, <2>2
<1>4. Unit \in Nat \ {0} /\ Unit <= Unit
  BY UnitAssumption
<1> HIDE DEF v, w
<1> QED
  BY <1>2, <1>3, <1>4, CentsOrder

\* The fee of USDA is the one that was assumed for the whole budget, or a cent more.
LEMMA SameFee ==
  ASSUME QuoteInv, Quoted, answer.loan # 0, ask.target = "usda",
         Financed(Confirmation) = answer.loan, answer.loan <= Wanted(ask),
         Assumed(ask, AllOf(ask)).value \in Nat, Budget(ask) - Assumed(ask, AllOf(ask)).value > 0
  PROVE  Premium(Confirmation).value <= Assumed(ask, AllOf(ask)).value + 1
<1> DEFINE r == Confirmation
           all == AllOf(ask)
           m == Assumed(ask, all).value
           left == Budget(ask) - m
<1>1. /\ r.target = "usda" /\ r.rate = ask.rate /\ r.term = ask.term
      /\ answer.loan \in Nat \ {0}
  BY ConfirmationIs
<1>2. ask.rate \in 0..RateDen /\ ask.term \in Nat \ {0} /\ Budget(ask) \in Int
  <2>1. IsRequest(ask)
    BY AskIs
  <2> QED
    BY <2>1, ReverseAmounts DEF IsRequest
<1>3. m \in Nat /\ left > 0 /\ left <= Budget(ask) /\ left \in Nat /\ Budget(ask) \in Nat \ {0}
  BY <1>2
<1>4. answer.loan <= all /\ all \in Nat \ {0}
  <2>1. Wanted(ask) = PresentValue(left, ask.rate, RateDen, ask.term)
    BY DEF Wanted, LoanFor
  <2>2. all = PresentValue(Budget(ask), ask.rate, RateDen, ask.term)
    BY DEF AllOf, LoanFor
  <2> HIDE DEF left, all
  <2>3. Wanted(ask) <= all
    BY <1>2, <1>3, <2>1, <2>2, WorthGrows
  <2>4. Wanted(ask) \in Nat /\ all \in Nat \ {0}
    BY <1>2, <1>3, <2>1, <2>2, WorthIsPaid
  <2> QED
    BY <1>1, <2>3, <2>4
<1> HIDE DEF all
<1>5. m = Cents(AverageBalance(all, ask.rate, RateDen, ask.term) * 35, 120000)
  <2>1. Assumed(ask, all) = Result(Cents(AverageBalance(all, ask.rate, RateDen, ask.term) * 35, 120000))
    BY DEF Assumed, MonthlyMi
  <2>2. \A z : Result(z).value = z
    BY DEF Result
  <2> QED
    BY <2>1, <2>2
<1>6. Premium(r).value = Cents(AverageBalance(answer.loan, ask.rate, RateDen, ask.term) * 35, 120000)
  <2>1. Premium(r) = MonthlyMi(r, answer.loan, r.value)
    BY <1>1 DEF Premium
  <2> HIDE DEF r
  <2>2. Premium(r) = Result(Cents(AverageBalance(answer.loan, ask.rate, RateDen, ask.term) * 35, 120000))
    BY <1>1, <2>1 DEF MonthlyMi
  <2>3. \A z : Result(z).value = z
    BY DEF Result
  <2> QED
    BY <2>2, <2>3
<1> HIDE DEF m
<1> QED
  BY <1>1, <1>2, <1>4, <1>5, <1>6, FeeGrows DEF m, all

\* A conventional premium is the one that was given, for both loans.
LEMMA SamePremium ==
  ASSUME QuoteInv, Quoted, answer.loan # 0, ask.target = "conventional",
         Over(answer.loan) => Over(AllOf(ask)), Premium(Confirmation).error = "none",
         Financed(Confirmation) = answer.loan, Assumed(ask, AllOf(ask)).value \in Nat
  PROVE  Premium(Confirmation).value <= Assumed(ask, AllOf(ask)).value
<1> DEFINE r == Confirmation
           all == Assumed(ask, AllOf(ask))
<1>1. /\ r.target = "conventional" /\ r.value = ValueFor(ask, answer.loan) /\ r.value # 0
      /\ r.pmi = ask.pmi
  BY ConfirmationIs
<1>2. Premium(r) = MonthlyMi(r, answer.loan, r.value)
  BY <1>1 DEF Premium
<1>3. all = MonthlyMi(ask, AllOf(ask), ValueFor(ask, AllOf(ask)))
  BY DEF Assumed
<1>4. all.error = "none"
  <2>1. EvaluateReverse(ask).error = "none" /\ answer.loan = EvaluateReverse(ask).value.loan
    BY QuotedIs
  <2>2. ~ (Budget(ask) <= 0)
    <3>1. Budget(ask) <= 0 => EvaluateReverse(ask).value.loan = 0
      BY NoBudgetIs, ReverseIs
    <3> QED
      BY <2>1, <3>1
  <2> QED
    BY <2>1, <2>2, ReverseIs DEF Raise
<1> HIDE DEF r, all
<1>5. CASE ~ Over(answer.loan)
  <2>1. Premium(r) = Result(0)
    BY <1>1, <1>2, <1>5 DEF MonthlyMi, Over
  <2> QED
    BY <2>1 DEF Result, all, r
<1>6. CASE Over(answer.loan)
  <2>1. Over(AllOf(ask))
    BY <1>6
  <2>2. Premium(r) = Result(ask.pmi)
    BY <1>1, <1>2, <1>6 DEF MonthlyMi, Over, Raise, r
  <2>3. all = Result(ask.pmi)
    BY <1>3, <1>4, <2>1 DEF MonthlyMi, Over, Raise
  <2> QED
    BY <2>2, <2>3 DEF all, r, Result
<1> QED
  BY <1>5, <1>6 DEF r

\* The cash of a down payment allows no loan over 80 % at a ratio that is not: its
\* value is, to the cent, the loan and the cash.
LEMMA CashIsUnder ==
  ASSUME NEW r, IsRequest(r), r.ltv < Ratio, ~ Above(r.ltv, Ratio, 800)
  PROVE  ~ Above(CashLimit(r), ValueFor(r, CashLimit(r)), 800)
<1> DEFINE l == r.ltv
           e == Ratio - l
           d == r.down
           n == d * l
           L == Cents(n, e)
           w == L * Ratio
           V == Cents(w, l)
<1>1. l \in Nat \ {0} /\ e \in Nat \ {0} /\ d \in Nat /\ Ratio \in Nat /\ Ratio = l + e /\ l <= 4 * e
  <2>1. r.ltv \in 1..Ratio /\ r.down \in Nat /\ Ratio \in Nat \ {0}
    BY AskAssumption DEF IsRequest
  <2>2. ~ (1000 * l > 800 * Ratio)
    BY DEF Above
  <2> QED
    BY <2>1, <2>2
<1>2. CashLimit(r) = L /\ ValueFor(r, CashLimit(r)) = V
  BY DEF CashLimit, ValueFor
<1> HIDE DEF l, e, d
<1>3. n \in Nat
  BY <1>1
<1> HIDE DEF n
<1>4. L \in Nat /\ 2 * (L * e) <= 2 * n + e /\ 2 * n < 2 * (L * e) + e
  BY <1>1, <1>3, CentsType, CentsClose
<1> HIDE DEF L
<1>5. w \in Nat /\ w = L * l + L * e /\ L * l \in Nat /\ L * e \in Nat
  BY <1>1, <1>4
<1> HIDE DEF w
<1>6. V \in Nat /\ \A q \in Int : q <= V <=> (2 * q - 1) * l <= 2 * w
  BY <1>1, <1>5, CentsAre
<1> HIDE DEF V
<1>7. CASE e <= l
  <2>1. L <= 4 * d
    <3> DEFINE x == 2 * L - 1 - 8 * d
    <3>1. x * e = 2 * (L * e) - e - 8 * (d * e) /\ x \in Int
      BY <1>1, <1>4
    <3>2. n <= 4 * (d * e)
      <4>1. d * (4 * e - l) >= 0
        BY <1>1
      <4>2. d * (4 * e - l) = 4 * (d * e) - n
        BY <1>1 DEF n
      <4>3. d * e \in Nat
        BY <1>1
      <4> QED
        BY <1>3, <4>1, <4>2, <4>3
    <3>3. x * e <= 0
      <4>1. d * e \in Nat
        BY <1>1
      <4> HIDE DEF x
      <4> QED
        BY <1>1, <1>3, <1>4, <1>5, <3>1, <3>2, <4>1
    <3>4. x <= 0
      <4> HIDE DEF x
      <4>1. ASSUME x > 0 PROVE FALSE
        <5>1. x * e > 0
          BY <1>1, <3>1, <4>1
        <5>2. x * e \in Int
          BY <1>1, <3>1
        <5> QED
          BY <3>3, <5>1, <5>2
      <4> QED
        BY <3>1, <4>1
    <3> QED
      BY <1>1, <1>4, <3>4
  <2>2. L + d <= V
    <3> DEFINE q == L + d
    <3>1. (2 * q - 1) * l = 2 * (L * l) + 2 * n - l
      BY <1>1, <1>4 DEF n
    <3>2. q \in Int /\ (2 * q - 1) * l <= 2 * w
      BY <1>1, <1>3, <1>4, <1>5, <1>7, <3>1
    <3> QED
      BY <1>6, <3>2
  <2>3. 5 * L <= 4 * V
    BY <1>1, <1>4, <1>6, <2>1, <2>2
  <2> QED
    BY <1>2, <1>4, <1>6, <2>3 DEF Above
<1>8. CASE l < e
  <2> DEFINE q == 2 * L
  <2>1. (2 * q - 1) * l = 4 * (L * l) - l
    BY <1>1, <1>4
  <2>2. L * l <= L * e
    <3>1. L * (e - l) >= 0
      BY <1>1, <1>4, <1>8
    <3>2. L * (e - l) = L * e - L * l
      BY <1>1, <1>4
    <3> QED
      BY <1>5, <3>1, <3>2
  <2>3. q \in Int /\ (2 * q - 1) * l <= 2 * w
    BY <1>1, <1>4, <1>5, <2>1, <2>2
  <2>4. q <= V
    BY <1>6, <2>3
  <2> QED
    BY <1>2, <1>4, <1>6, <2>4 DEF Above
<1> QED
  BY <1>1, <1>7, <1>8

\* A premium that the loan of the whole budget has not is that of a loan which the
\* cash limits, at a ratio of more than 80 %.
LEMMA NewPremium ==
  ASSUME QuoteInv, Quoted, answer.loan # 0, ask.target = "conventional",
         Over(answer.loan), ~ Over(AllOf(ask))
  PROVE  Above(ask.ltv, Ratio, 800) /\ "DOWN-PAYMENT-CASH-BINDING" \in answer.warnings
<1> DEFINE s == EvaluateReverse(ask)
           all == Assumed(ask, AllOf(ask))
           cash == {"DOWN-PAYMENT-CASH-BINDING"}
<1>1. IsRequest(ask)
  BY AskIs
<1>2. s.error = "none" /\ answer.loan = s.value.loan /\ s.value.warnings \subseteq answer.warnings
  BY QuotedIs
<1>3. Budget(ask) \in Int
  BY <1>1, ReverseAmounts
<1>4. ~ (Budget(ask) <= 0)
  <2>1. Budget(ask) <= 0 => s.value.loan = 0
    BY NoBudgetIs, ReverseIs
  <2> QED
    BY <1>2, <2>1
<1>5. all.error = "none"
  BY <1>2, <1>4, ReverseIs DEF Raise
<1>6. all = MonthlyMi(ask, AllOf(ask), ValueFor(ask, AllOf(ask)))
  BY DEF Assumed
<1>7. all.value = 0
  <2>1. all \in {Raise("InvalidOperation"), Result(0)}
    BY <1>6 DEF MonthlyMi, Over
  <2> HIDE DEF all
  <2>2. all = Result(0)
    BY <1>5, <2>1 DEF Raise
  <2> QED
    BY <2>2 DEF Result
<1>8. Wanted(ask) = AllOf(ask)
  <2> DEFINE budget == Budget(ask)
  <2>1. budget - 0 = budget
    BY <1>3
  <2> HIDE DEF budget, all
  <2>2. Wanted(ask) = LoanFor(ask, budget - 0)
    BY <1>7 DEF Wanted, budget, all
  <2> QED
    BY <2>1, <2>2 DEF AllOf, budget
<1>9. ~ (Budget(ask) - all.value <= 0)
  BY <1>3, <1>4, <1>7
<1> HIDE DEF all
<1>10. Binds(ask)
  <2>1. ASSUME ~ Binds(ask) PROVE FALSE
    <3>1. s = Settle(ask, Wanted(ask), all.value, {})
      BY <1>4, <1>5, <1>9, <2>1, ReverseIs DEF all
    <3> HIDE DEF s
    <3>2. s.value.loan = Wanted(ask)
      BY <1>2, <3>1, SettleIs
    <3> QED
      BY <1>2, <1>8, <3>2
  <2> QED
    BY <2>1
<1>11. s = Settle(ask, CashLimit(ask), CashMi(ask).value, cash)
  <2>1. CashMi(ask).error = "none"
    BY <1>2, <1>4, <1>5, <1>9, <1>10, ReverseIs DEF all, Raise
  <2> QED
    BY <1>4, <1>5, <1>9, <1>10, <2>1, ReverseIs DEF all
<1> HIDE DEF s, cash
<1>12. s.value.loan = CashLimit(ask) /\ s.value.warnings = cash
  BY <1>2, <1>11, SettleIs
<1>13. Above(ask.ltv, Ratio, 800)
  <2>1. ask.ltv < Ratio
    BY <1>10 DEF Binds
  <2>2. Above(CashLimit(ask), ValueFor(ask, CashLimit(ask)), 800)
    BY <1>2, <1>12 DEF Over
  <2> QED
    BY <1>1, <2>1, <2>2, CashIsUnder
<1> QED
  BY <1>2, <1>12, <1>13 DEF cash

\* SC-2, for every program but FHA: a quote, fed back, is within the DTI that it
\* was asked for.  evaluate_reverse takes the premium out of the budget once, for the
\* loan that the whole budget would carry: USDA's fee is then at most a cent more,
\* and a conventional premium is new only for more than 80 % of a value whose cents
\* make it so.
THEOREM OthersClose == Spec => []OtherQuotesClose
<1>1. ASSUME QuoteInv PROVE NoNewPremium => QuoteCloses
  <2> SUFFICES ASSUME NoNewPremium, back # NoAnswer
               PROVE  back.dti <= ask.maxDti + Slack
    BY Zenon DEF QuoteCloses
  <2> DEFINE r == Confirmation
             b == EvaluateReverse(ask).value
             m == Assumed(ask, AllOf(ask)).value
             left == Budget(ask) - m
             n == Piti(r) + r.h.debts
  <2>1. Quoted /\ answer.loan # 0 /\ Evaluate(r).error = "none" /\ back = Evaluate(r).value
    BY <1>1 DEF QuoteInv, Confirmed
  <2>2. IsRequest(ask)
    BY <1>1, AskIs
  <2>3. /\ IsRequest(r) /\ r.mode = "forward" /\ r.loan > 0 /\ answer.loan \in Nat \ {0}
        /\ r.loan = answer.loan /\ r.h = ask.h /\ r.target = ask.target
        /\ r.term = ask.term /\ r.rate = ask.rate
    BY <1>1, <2>1, ConfirmationIs
  <2>4. answer.loan <= Wanted(ask) /\ m \in Nat /\ left > 0
    <3>1. EvaluateReverse(ask).error = "none" /\ answer.loan = b.loan
      BY <1>1, <2>1, QuotedIs
    <3> QED
      BY <2>1, <2>2, <3>1, ReverseAnswers
  <2>5. Budget(ask) \in Int
    BY <2>2, ReverseAmounts
  <2>6. ask.rate \in 0..RateDen /\ ask.term \in Nat \ {0} /\ ask.maxDti \in Nat /\ ask.h \in Household
    BY <2>2, AskAssumption DEF IsRequest
  <2>7. ask.h.income \in Nat \ {0} /\ ask.h.debts \in Nat /\ ask.h.escrow \in Nat
    BY <2>6 DEF Household
  <2>8. /\ back.dti = Quotient(n, r.h.income) /\ Piti(r) \in Nat
        /\ Upfront(r).error = "none" /\ Premium(r).error = "none"
    BY <2>1, <2>3, ForwardEvaluated
  <2>9. Premium(r).value \in Nat /\ Payment(r) \in Nat /\ Financed(r) = r.loan
    <3>1. r.target # "fha"
      BY <2>3 DEF NoNewPremium
    <3> QED
      BY <2>3, <2>8, <3>1, ForwardAmounts
  <2> HIDE DEF r, m
  <2>10. Payment(r) <= left + 1
    <3>1. left \in Nat \ {0}
      BY <2>4, <2>5
    <3>2. Wanted(ask) = PresentValue(left, ask.rate, RateDen, ask.term)
      BY DEF Wanted, LoanFor, m
    <3> HIDE DEF left
    <3>3. /\ Wanted(ask) \in Nat
          /\ LevelPayment(Wanted(ask), ask.rate, RateDen, ask.term) \in Nat
          /\ LevelPayment(Wanted(ask), ask.rate, RateDen, ask.term) <= left + 1
      BY <2>6, <3>1, <3>2, WorthIsPaid
    <3>4. Payment(r) = LevelPayment(answer.loan, ask.rate, RateDen, ask.term)
      BY <2>3, <2>9 DEF Payment
    <3>5. LevelPayment(answer.loan, ask.rate, RateDen, ask.term)
            <= LevelPayment(Wanted(ask), ask.rate, RateDen, ask.term)
      BY <2>3, <2>4, <2>6, <3>3, PaymentGrows
    <3> QED
      BY <2>9, <3>1, <3>3, <3>4, <3>5
  <2>11. Premium(r).value <= m + 1
    <3>1. CASE ask.target \in {"va", "jumbo"}
      <4>1. Premium(r) = Result(0)
        BY <2>3, <3>1 DEF Premium, MonthlyMi
      <4> QED
        BY <2>4, <4>1 DEF Result
    <3>2. CASE ask.target = "usda"
      <4>1. Financed(r) = answer.loan
        BY <2>3, <2>9
      <4> QED
        BY <1>1, <2>1, <2>4, <3>2, <4>1, SameFee DEF r, m
    <3>3. CASE ask.target = "conventional" /\ (Over(answer.loan) => Over(AllOf(ask)))
      <4>1. Premium(r).value <= m
        BY <1>1, <2>1, <2>3, <2>4, <2>8, <2>9, <3>3, SamePremium DEF r, m
      <4> QED
        BY <2>4, <2>9, <4>1
    <3> QED
      BY <3>1, <3>2, <3>3 DEF NoNewPremium
  <2>12. n \in Nat /\ n <= Budget(ask) + ask.h.escrow + ask.h.debts + 2
    BY <2>3, <2>4, <2>5, <2>7, <2>8, <2>9, <2>10, <2>11 DEF Piti
  <2>13. n <= (ask.maxDti * ask.h.income) \div Ratio + 2
    <3> DEFINE most == (ask.maxDti * ask.h.income) \div Ratio
    <3>1. most \in Int
      <4> DEFINE x == ask.maxDti * ask.h.income
      <4>1. x \in Int
        BY <2>6, <2>7
      <4> HIDE DEF x
      <4>2. x \div Ratio \in Int
        BY <4>1, AskAssumption
      <4> QED
        BY <4>2 DEF x
    <3>2. Budget(ask) = most - ask.h.debts - ask.h.escrow
      BY DEF Budget
    <3> HIDE DEF most, n
    <3> QED
      BY <2>7, <2>12, <3>1, <3>2 DEF most
  <2> HIDE DEF n
  <2>14. Quotient(n, ask.h.income) <= ask.maxDti + 1 + (2 * Ratio) \div ask.h.income
    BY <2>6, <2>7, <2>12, <2>13, SlackIsEnough
  <2> DEFINE k == (2 * Ratio) \div ask.h.income
  <2>15. k \in Int
    <3> DEFINE x == 2 * Ratio
    <3>1. x \in Int
      BY AskAssumption
    <3> HIDE DEF x
    <3>2. x \div ask.h.income \in Int
      BY <2>7, <3>1
    <3> QED
      BY <3>2 DEF x
  <2>16. Slack = 1 + k /\ back.dti <= ask.maxDti + 1 + k
    BY <2>3, <2>8, <2>14 DEF Slack
  <2> HIDE DEF k
  <2> QED
    BY <2>6, <2>15, <2>16
<1>2. ASSUME QuoteInv PROVE OtherQuotesClose
  <2> SUFFICES ASSUME ask.target # "fha", ~ QuoteCloses
               PROVE  /\ ask.target = "conventional" /\ Above(ask.ltv, Ratio, 800)
                      /\ "DOWN-PAYMENT-CASH-BINDING" \in answer.warnings
                      /\ Over(answer.loan) /\ ~ Over(AllOf(ask))
    BY Zenon DEF OtherQuotesClose, AllOf
  <2>1. ask.target \in {"conventional", "jumbo", "fha", "va", "usda"}
    BY <1>2, AskIs DEF IsRequest
  <2>2. ask.target = "conventional" /\ Over(answer.loan) /\ ~ Over(AllOf(ask))
    BY <1>1, <1>2, <2>1 DEF NoNewPremium
  <2>3. Quoted /\ answer.loan # 0
    BY <1>2 DEF QuoteCloses, QuoteInv, Confirmed
  <2> QED
    BY <1>2, <2>2, <2>3, NewPremium
<1> QED
  BY <1>2, QuoteInit, QuoteStep, PTL DEF Spec
=============================================================================
