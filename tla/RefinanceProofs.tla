-------------------------- MODULE RefinanceProofs ---------------------------
(***************************************************************************)
(* Theorems about Refinance, for any requests that satisfy the assumption: *)
(* any amounts, rates, terms and horizons.                                 *)
(***************************************************************************)
EXTENDS Refinance, TLAPS

\* The lemmas of Amortize about amounts, annuities and recursion, which are of
\* no loan in particular.
P == INSTANCE AmortizeProofs WITH
        Loans <- {}, Plans <- {}, Modes <- {}, loan <- 0, plan <- 0, mode <- 0, period <- 0,
        balance <- 0, cumInt <- 0, cumPrin <- 0, cumExtra <- 0, rows <- 0, outcome <- 0

-----------------------------------------------------------------------------
(* Rounding and dividing.                                                  *)

\* The quotient of two numbers, by what it is.
LEMMA Quotients ==
  ASSUME NEW a \in Int, NEW d \in Nat \ {0}
  PROVE  /\ a \div d \in Int
         /\ d * (a \div d) <= a /\ a < d * (a \div d) + d
  OBVIOUS

\* Of two multiples of a positive number, the larger is that of the larger.
LEMMA Multiples ==
  ASSUME NEW d \in Nat \ {0}, NEW x \in Int, NEW y \in Int, d * x < d * y + d
  PROVE  x <= y
<1> SUFFICES ASSUME y + 1 <= x PROVE FALSE
  OBVIOUS
<1>1. d * (y + 1) <= d * x
  OBVIOUS
<1>2. d * (y + 1) = d * y + d
  OBVIOUS
<1> QED
  BY <1>1, <1>2

\* A product of amounts is one.
LEMMA Products == ASSUME NEW x \in Nat, NEW y \in Nat PROVE x * y \in Nat
  OBVIOUS

\* A share of a number is between zero and the number, of either sign.
LEMMA Shares ==
  ASSUME NEW x \in Int, NEW y \in Nat, NEW z \in Nat, y <= z
  PROVE  /\ x * y \in Int /\ x * z \in Int
         /\ x >= 0 => x * y >= 0 /\ x * y <= x * z
         /\ x < 0 => x * y <= 0
<1>1. x * y \in Int /\ x * z \in Int
  OBVIOUS
<1>2. ASSUME x >= 0 PROVE x * y >= 0 /\ x * y <= x * z
  <2>1. z - y \in Nat /\ x \in Nat
    BY <1>2
  <2>2. x * (z - y) \in Nat /\ x * y \in Nat
    BY <2>1, Products
  <2>3. x * (z - y) = x * z - x * y
    OBVIOUS
  <2> QED
    BY <1>1, <2>2, <2>3
<1>3. ASSUME x < 0 PROVE x * y <= 0
  <2>1. -x \in Nat
    BY <1>3
  <2>2. (-x) * y \in Nat
    BY <2>1, Products
  <2>3. (-x) * y = -(x * y)
    OBVIOUS
  <2> QED
    BY <1>1, <2>2, <2>3
<1> QED
  BY <1>1, <1>2, <1>3

\* A discount factor never grows.
LEMMA Discounted ==
  ASSUME NEW a \in Nat, NEW d \in Nat \ {0}, NEW e \in Nat
  PROVE  (a * d) \div (d + e) \in 0..a
<1> DEFINE b == d + e
           n == a * d
           q == n \div b
<1>1. b \in Nat \ {0} /\ n \in Nat /\ a * e \in Nat
  BY Products
<1>2. b * a = n + a * e
  OBVIOUS
<1> HIDE DEF n, b
<1>3. q \in Int /\ b * q <= n /\ n < b * q + b
  BY <1>1, Quotients
<1> HIDE DEF q
<1>4. q <= a
  <2>1. b * q < b * a + b
    BY <1>1, <1>2, <1>3
  <2> QED
    BY <1>1, <1>3, <2>1, Multiples
<1>5. 0 <= q
  <2>1. b * 0 < b * q + b
    BY <1>1, <1>3
  <2> QED
    BY <1>1, <1>3, <2>1, Multiples
<1> QED
  BY <1>3, <1>4, <1>5 DEF q, n, b

\* The months of a simple break-even are no more than any number of months
\* that recovers the costs.
LEMMA CeilIsLeast ==
  ASSUME NEW n \in Nat, NEW d \in Nat \ {0}, NEW k \in Int, n <= d * k
  PROVE  Ceil(n, d) \in Nat /\ Ceil(n, d) <= k
<1> DEFINE a == n + d - 1
           q == a \div d
<1>1. a \in Nat
  OBVIOUS
<1>2. q \in Int /\ d * q <= a /\ a < d * q + d
  BY <1>1, Quotients
<1> HIDE DEF q
<1>3. q <= k
  <2>1. d * q < d * k + d
    BY <1>2
  <2> QED
    BY <1>2, <2>1, Multiples
<1>4. 0 <= q
  <2>1. d * 0 < d * q + d
    BY <1>1, <1>2
  <2> QED
    BY <1>2, <2>1, Multiples
<1> QED
  BY <1>2, <1>3, <1>4 DEF Ceil, q

\* Rounding keeps the sign, but for what is less than half a cent.
LEMMA RoundedSign ==
  ASSUME NEW n \in Int, NEW d \in Nat \ {0}
  PROVE  /\ n >= 0 => SignedCents(n, d) >= 0
         /\ SignedCents(n, d) >= 0 => 2 * n > -d
<1> DEFINE e == 2 * d
<1>1. e \in Nat \ {0} /\ e = 2 * d
  OBVIOUS
<1> HIDE DEF e
<1>2. ASSUME n >= 0 PROVE SignedCents(n, d) >= 0
  <2> DEFINE m == 2 * n + d
             q == m \div e
  <2>0. m \in Nat
    BY <1>2
  <2>1. SignedCents(n, d) = q
    BY <1>1, <1>2 DEF SignedCents, Cents
  <2> HIDE DEF m
  <2>2. q \in Int /\ m < e * q + e
    BY <1>1, <2>0, Quotients
  <2> HIDE DEF q
  <2>3. e * 0 < e * q + e
    BY <1>1, <2>0, <2>2
  <2>4. 0 <= q
    BY <1>1, <2>2, <2>3, Multiples
  <2> QED
    BY <2>1, <2>4
<1>3. ASSUME SignedCents(n, d) >= 0, n < 0 PROVE 2 * n > -d
  <2> DEFINE m == 2 * (-n) + d
             q == m \div e
  <2>0. m \in Int /\ m = d - 2 * n
    OBVIOUS
  <2>1. SignedCents(n, d) = -q
    BY <1>1, <1>3 DEF SignedCents, Cents
  <2> HIDE DEF m
  <2>2. q \in Int /\ m < e * q + e
    BY <1>1, <2>0, Quotients
  <2> HIDE DEF q
  <2>3. -q >= 0 /\ e * q \in Int
    BY <1>1, <1>3, <2>1, <2>2
  <2>4. e * (-q) \in Nat /\ e * (-q) = -(e * q)
    BY <1>1, <2>2, <2>3, Products
  <2> QED
    BY <1>1, <2>0, <2>2, <2>3, <2>4
<1> QED
  BY <1>2, <1>3

-----------------------------------------------------------------------------
(* Amounts.                                                                *)

\* The amounts of Amortize are the ones of Money.
LEMMA SameMoney ==
  /\ \A n, d : P!Cents(n, d) = Cents(n, d)
  /\ \A num, d, n : P!Annuity(num, d, n) = Annuity(num, d, n)
<1>1. \A n, d : P!Cents(n, d) = Cents(n, d)
  BY Zenon DEF P!Cents, Cents
<1>2. \A num, d, n : P!Annuity(num, d, n) = Annuity(num, d, n)
  BY Zenon DEF P!Annuity, Annuity
<1> QED
  BY <1>1, <1>2

\* No loan in particular is one that Amortize is about.
LEMMA NoLoan ==
  /\ \A l \in {} : /\ l \in [principal : Nat, num : Nat, den : Nat \ {0}, term : Nat \ {0}]
                  /\ l.num <= l.den
  /\ {} \subseteq Seq([period : Nat \ {0}, amount : Nat \ {0}, recurring : BOOLEAN])
  /\ {} \subseteq {"monthly", "half-monthly", "biweekly"}
  OBVIOUS

\* A rounded amount is one.
LEMMA CentsType == ASSUME NEW n \in Nat, NEW d \in Nat \ {0} PROVE Cents(n, d) \in Nat
  BY NoLoan, UnitAssumption, P!CentsIsGreatest, SameMoney

\* The level payment of a loan is an amount.
LEMMA PaymentType ==
  ASSUME NEW p \in Nat, NEW num \in 0..Den, NEW n \in Nat \ {0}
  PROVE  LevelPayment(p, num, Den, n) \in Nat
<1> DEFINE d == 12 * Den
           A == Annuity(num, d, n)
<1>1. d \in Nat \ {0} /\ num <= d /\ num \in Nat
  BY RequestAssumption
<1>2. A \in Nat \ {0}
  <2> HIDE DEF d
  <2> QED
    BY <1>1, NoLoan, UnitAssumption, P!AnnuityBounds, SameMoney
<1>3. LevelPayment(p, num, Den, n) = Cents(p * Unit, A)
  BY DEF LevelPayment
<1> HIDE DEF A
<1>4. p * Unit \in Nat
  BY UnitAssumption
<1> QED
  BY <1>2, <1>3, <1>4, CentsType

-----------------------------------------------------------------------------
(* Schedules.                                                              *)

Row == [interest : Nat, cumInt : Nat, balance : Nat]
FirstRow(p) == [interest |-> 0, cumInt |-> 0, balance |-> p]

\* The next row of a schedule is one, and what it adds to the interest and takes
\* off a balance that it leaves is the level payment.
LEMMA NextRowIs ==
  ASSUME NEW before \in Row, NEW num \in 0..Den, NEW pi \in Nat, NEW final \in BOOLEAN
  PROVE  LET next == NextRow(before, num, pi, final)
         IN  /\ next \in Row
             /\ next.balance > 0 => /\ before.balance > 0
                                    /\ next.cumInt - next.balance = before.cumInt - before.balance + pi
<1> DEFINE b == before.balance
           d == 12 * Den
           i == Cents(b * num, d)
           last == final \/ b + i <= pi
           next == NextRow(before, num, pi, final)
<1>1. b \in Nat /\ before.cumInt \in Nat /\ d \in Nat \ {0} /\ b * num \in Nat
  BY RequestAssumption DEF Row
<1>2. i \in Nat /\ (b = 0 => i = 0)
  <2>1. i \in Nat
    <3> DEFINE n == b * num
    <3> HIDE DEF n, d
    <3> QED
      BY <1>1, CentsType DEF n
  <2>2. ASSUME b = 0 PROVE i = 0
    <3>1. b * num = 0
      BY <2>2
    <3>2. Cents(0, d) = 0
      <4> HIDE DEF d
      <4> QED
        BY <1>1 DEF Cents
    <3> QED
      BY <3>1, <3>2
  <2> QED
    BY <2>1, <2>2
<1>3. next = [interest |-> i, cumInt |-> before.cumInt + i, balance |-> IF last THEN 0 ELSE b - (pi - i)]
  BY DEF NextRow
<1> HIDE DEF b, d, i, next
<1>4. next.interest = i /\ next.cumInt = before.cumInt + i /\ next.balance = IF last THEN 0 ELSE b - (pi - i)
  BY <1>3
<1>5. ~ last => b + i > pi
  BY <1>1, <1>2
<1> HIDE DEF last
<1>6. next \in Row
  BY <1>1, <1>2, <1>3, <1>5 DEF Row
<1> QED
  BY <1>1, <1>2, <1>4, <1>5, <1>6 DEF next, b

\* The rows of a schedule are rows, one after the other.
LEMMA RowsAre ==
  ASSUME NEW p \in Nat, NEW num \in 0..Den, NEW n \in Nat \ {0}
  PROVE  /\ Rows(p, num, n) \in [0..n -> Row] /\ Rows(p, num, n)[0] = FirstRow(p)
         /\ \A t \in 1..n : Rows(p, num, n)[t] =
                NextRow(Rows(p, num, n)[t - 1], num, LevelPayment(p, num, Den, n), t = n)
<1> DEFINE pi == LevelPayment(p, num, Den, n)
           base == FirstRow(p)
           next(v, t) == NextRow(v, num, pi, t = n)
           step == [t \in 1..n |-> [v \in Row |-> next(v, t)]]
           UpTo(u) == u = [t \in 0..n |-> IF t = 0 THEN base ELSE next(u[t - 1], t)]
<1>1. pi \in Nat
  BY PaymentType
<1>2. base \in Row
  BY DEF FirstRow, Row
<1> HIDE DEF pi
<1>3. \A t : \A v \in Row : next(v, t) \in Row
  BY <1>1, NextRowIs
<1>4. step \in [1..n -> [Row -> Row]]
  <2> HIDE DEF next
  <2> QED
    BY <1>3
<1>5. PICK w \in [0..n -> Row] : P!Recursive(w, base, step, n)
  <2> HIDE DEF base, step
  <2> QED
    BY <1>2, <1>4, NoLoan, UnitAssumption, P!Recursion
<1>6. UpTo(w)
  <2>1. \A t \in 1..n : step[t][w[t - 1]] = next(w[t - 1], t)
    <3> HIDE DEF next
    <3> QED
      BY <1>5
  <2>2. w[0] = base /\ \A t \in 1..n : w[t] = next(w[t - 1], t)
    <3> HIDE DEF next, base
    <3> QED
      BY <1>5, <2>1 DEF P!Recursive
  <2> HIDE DEF base, next
  <2> QED
    BY <2>2
<1>7. PICK u : u = CHOOSE v : UpTo(v)
  OBVIOUS
<1>8. UpTo(u)
  <2> HIDE DEF UpTo
  <2> QED
    BY <1>6, <1>7
<1>9. u[0] = base /\ \A t \in 1..n : u[t] = next(u[t - 1], t)
  <2> HIDE DEF base, next
  <2> QED
    BY <1>8
<1>10. u \in [0..n -> Row]
  <2> DEFINE T == {t \in 0..n : u[t] \in Row}
  <2>1. 0 \in T /\ \A t \in 1..n : t - 1 \in T => t \in T
    <3> HIDE DEF next, base
    <3> QED
      BY <1>2, <1>3, <1>9
  <2>2. 0..n \subseteq T
    <3> HIDE DEF T
    <3> QED
      BY <2>1, NoLoan, UnitAssumption, P!Reaches
  <2> HIDE DEF base, next
  <2> QED
    BY <1>8, <2>2
<1>11. Rows(p, num, n) = u
  BY <1>7, Zenon DEF Rows, FirstRow, pi
<1> QED
  BY <1>9, <1>10, <1>11 DEF pi

\* Until it is paid off, a loan has been paid the level payment every month: the
\* interest charged so far and what the balance has gone down by add up to it.
LEMMA PaidSoFar ==
  ASSUME NEW p \in Nat, NEW num \in 0..Den, NEW n \in Nat \ {0}, NEW m \in 0..n,
         Rows(p, num, n)[m].balance > 0
  PROVE  LET rows == Rows(p, num, n)
         IN  rows[m].cumInt + rows[0].balance - rows[m].balance = m * LevelPayment(p, num, Den, n)
<1> DEFINE rows == Rows(p, num, n)
           pi == LevelPayment(p, num, Den, n)
           T == {t \in 0..n : rows[t].balance > 0 => rows[t].cumInt + p - rows[t].balance = t * pi}
<1>1. pi \in Nat
  BY PaymentType
<1>2. /\ rows \in [0..n -> Row] /\ rows[0] = FirstRow(p)
      /\ \A t \in 1..n : rows[t] = NextRow(rows[t - 1], num, pi, t = n)
  BY RowsAre
<1>3. rows[0].balance = p /\ rows[0].cumInt = 0
  BY <1>2 DEF FirstRow
<1> HIDE DEF rows, pi
<1>4. 0 \in T
  BY <1>1, <1>3
<1>5. ASSUME NEW t \in 1..n, t - 1 \in T PROVE t \in T
  <2> SUFFICES ASSUME rows[t].balance > 0 PROVE rows[t].cumInt + p - rows[t].balance = t * pi
    OBVIOUS
  <2> DEFINE before == rows[t - 1]
             after == rows[t]
  <2>1. before \in Row /\ after \in Row /\ after = NextRow(before, num, pi, t = n)
    BY <1>2
  <2> HIDE DEF before, after
  <2>2. /\ before.balance > 0
        /\ after.cumInt - after.balance = before.cumInt - before.balance + pi
    <3> DEFINE final == t = n
    <3>1. final \in BOOLEAN /\ after = NextRow(before, num, pi, final)
      BY <2>1
    <3>2. after.balance > 0
      BY DEF after
    <3> HIDE DEF final
    <3> QED
      BY <1>1, <2>1, <3>1, <3>2, NextRowIs
  <2>3. before.cumInt + p - before.balance = (t - 1) * pi
    BY <1>5, <2>2 DEF before
  <2>4. t * pi = (t - 1) * pi + pi
    BY <1>1
  <2>5. before.cumInt \in Nat /\ before.balance \in Nat /\ after.cumInt \in Nat /\ after.balance \in Nat
        /\ (t - 1) * pi \in Nat
    BY <1>1, <2>1 DEF Row
  <2> QED
    BY <1>1, <2>2, <2>3, <2>4, <2>5 DEF after
<1>6. 0..n \subseteq T
  <2> HIDE DEF T
  <2> QED
    BY <1>4, <1>5, NoLoan, UnitAssumption, P!Reaches
<1> QED
  BY <1>3, <1>6 DEF rows, pi

\* Before its last month no more than the level payment is paid in any month.
LEMMA PaidAtMost ==
  ASSUME NEW p \in Nat, NEW num \in 0..Den, NEW n \in Nat \ {0}, NEW m \in 0..n
  PROVE  LET rows == Rows(p, num, n)
         IN  /\ Paid(rows, m) \in Int
             /\ m < n => Paid(rows, m) <= m * LevelPayment(p, num, Den, n)
<1> DEFINE rows == Rows(p, num, n)
           pi == LevelPayment(p, num, Den, n)
           T == {t \in 0..n : t < n => rows[t].cumInt + p - rows[t].balance <= t * pi}
<1>1. pi \in Nat
  BY PaymentType
<1>2. /\ rows \in [0..n -> Row] /\ rows[0] = FirstRow(p)
      /\ \A t \in 1..n : rows[t] = NextRow(rows[t - 1], num, pi, t = n)
  BY RowsAre
<1>3. rows[0].balance = p /\ rows[0].cumInt = 0
  BY <1>2 DEF FirstRow
<1> HIDE DEF rows, pi
<1>4. 0 \in T
  BY <1>1, <1>3
<1>5. ASSUME NEW t \in 1..n, t - 1 \in T PROVE t \in T
  <2> SUFFICES ASSUME t < n PROVE rows[t].cumInt + p - rows[t].balance <= t * pi
    OBVIOUS
  <2> DEFINE before == rows[t - 1]
             after == rows[t]
             i == Cents(before.balance * num, 12 * Den)
             last == before.balance + i <= pi
  <2>1. before \in Row /\ after \in Row /\ after = NextRow(before, num, pi, t = n)
    BY <1>2
  <2>2. after = [interest |-> i, cumInt |-> before.cumInt + i,
                 balance |-> IF t = n \/ last THEN 0 ELSE before.balance - (pi - i)]
    <3> HIDE DEF before, after
    <3> QED
      BY <2>1 DEF NextRow
  <2>3. before.cumInt + p - before.balance <= (t - 1) * pi
    BY <1>5
  <2>4. i \in Nat
    <3> DEFINE a == before.balance * num
               d == 12 * Den
    <3>1. a \in Nat /\ d \in Nat \ {0}
      BY <2>1, RequestAssumption DEF Row
    <3> HIDE DEF a, d
    <3> QED
      BY <3>1, CentsType DEF a, d
  <2>5. /\ before.cumInt \in Nat /\ before.balance \in Nat /\ (t - 1) * pi \in Int
        /\ t * pi = (t - 1) * pi + pi
    BY <1>1, <2>1 DEF Row
  <2> HIDE DEF before, after, i, last
  <2>6. after.cumInt = before.cumInt + i /\ after.balance = IF last THEN 0 ELSE before.balance - (pi - i)
    BY <2>2
  <2>7. after.cumInt + p - after.balance <= t * pi
    BY <1>1, <2>3, <2>4, <2>5, <2>6 DEF last
  <2> QED
    BY <2>7 DEF after
<1>6. 0..n \subseteq T
  <2> HIDE DEF T
  <2> QED
    BY <1>4, <1>5, NoLoan, UnitAssumption, P!Reaches
<1>7. rows[m] \in Row
  BY <1>2
<1>8. Paid(rows, m) = rows[m].cumInt + p - rows[m].balance /\ Paid(rows, m) \in Int
  BY <1>3, <1>7 DEF Paid, Row
<1> QED
  BY <1>6, <1>8 DEF rows, pi

-----------------------------------------------------------------------------
(* The scan.                                                               *)

\* BreakevenIsNow is inductive by itself.  For the other theorems the scan also
\* bounds its sum by the undiscounted savings so far, which a break-even, once
\* found, keeps: its month is enough for them, too.
ScanInv ==
    /\ TypeOK
    /\ BreakevenIsNow
    /\ Saving(req) >= 0 => cum <= (AtOnce(req) + Saving(req) * month) * Unit
    /\ Saving(req) < 0 => cum <= AtOnce(req) * Unit
    /\ breakeven # None => IF Saving(req) < 0 THEN AtOnce(req) >= 0
                           ELSE AtOnce(req) + Saving(req) * breakeven >= 0
    /\ AtOnce(req) >= 0 => breakeven = 0

\* A sum that is not negative, of whole units, is of a number that is not.
LEMMA WholeUnits ==
  ASSUME NEW u \in Nat \ {0}, NEW x \in Int, x * u >= 0
  PROVE  x >= 0
<1> SUFFICES ASSUME x <= -1 PROVE FALSE
  OBVIOUS
<1>1. x * u <= (-1) * u
  OBVIOUS
<1> QED
  BY <1>1

\* What a schedule charges in a month is an amount, and nothing after its end.
LEMMA InterestType ==
  ASSUME NEW p \in Nat, NEW num \in 0..Den, NEW n \in Nat \ {0}, NEW t \in Int
  PROVE  At(Rows(p, num, n), t, "interest") \in Nat
<1> DEFINE rows == Rows(p, num, n)
<1>1. rows \in [0..n -> Row]
  BY RowsAre
<1> HIDE DEF rows
<1>2. ASSUME t \in DOMAIN rows PROVE rows[t]["interest"] \in Nat
  <2>1. rows[t] \in Row
    BY <1>1, <1>2
  <2> QED
    BY <2>1 DEF Row
<1>3. At(rows, t, "interest") \in Nat
  BY <1>2 DEF At
<1> QED
  BY <1>3 DEF rows

\* The part of a request that one of its loans has in the tax shield.
LEMMA ShareType ==
  ASSUME NEW i \in Nat, NEW rate \in Nat, NEW p \in Nat, NEW limit \in Nat
  PROVE  /\ i * rate * (IF p < limit THEN p ELSE limit) \in Nat
         /\ (IF p = 0 THEN 1 ELSE 10 * p) \in Nat \ {0}
<1>1. i * rate \in Nat /\ (IF p < limit THEN p ELSE limit) \in Nat
  BY Products
<1>2. i * rate * (IF p < limit THEN p ELSE limit) \in Nat
  BY <1>1, Products
<1> QED
  BY <1>2

\* A difference of fractions is rounded to an amount of either sign.
LEMMA DifferenceType ==
  ASSUME NEW a \in Nat, NEW b \in Nat \ {0}, NEW c \in Nat, NEW d \in Nat \ {0}
  PROVE  SignedCents(a * d - c * b, b * d) \in Int
<1> DEFINE n == a * d - c * b
           e == b * d
<1>1. n \in Int /\ e \in Nat \ {0}
  BY Products
<1> HIDE DEF n, e
<1>2. n >= 0 => Cents(n, e) \in Nat
  BY <1>1, CentsType
<1>3. n < 0 => Cents(-n, e) \in Nat
  <2> DEFINE k == -n
  <2>1. n < 0 => k \in Nat
    BY <1>1
  <2> HIDE DEF k
  <2>2. n < 0 => Cents(k, e) \in Nat
    BY <1>1, <2>1, CentsType
  <2> QED
    BY <2>2 DEF k
<1>4. SignedCents(n, e) \in Int
  BY <1>1, <1>2, <1>3 DEF SignedCents
<1> QED
  BY <1>4 DEF n, e

\* The tax shield of a month is an amount of either sign.
LEMMA ShieldType == ASSUME NEW r \in Requests, NEW t \in Int PROVE Shield(r, t) \in Int
<1>1. CASE r.marginal = None
  BY <1>1 DEF Shield
<1>2. CASE r.marginal # None
  <2> DEFINE i == At(OldRows(r), t, "interest")
             j == At(NewRows(r), t, "interest")
             Part(p) == IF p < r.limit THEN p ELSE r.limit
             Whole(p) == IF p = 0 THEN 1 ELSE 10 * p
             a == i * r.marginal * Part(r.balance)
             b == Whole(r.balance)
             c == j * r.marginal * Part(Principal(r))
             d == Whole(Principal(r))
  <2>1. /\ r.balance \in Nat /\ Principal(r) \in Nat /\ r.limit \in Nat /\ r.marginal \in Nat
        /\ r.oldRate \in 0..Den /\ r.newRate \in 0..Den
        /\ r.oldMonths \in Nat \ {0} /\ r.newMonths \in Nat \ {0}
    BY <1>2, RequestAssumption DEF Principal
  <2>2. i \in Nat /\ j \in Nat
    BY <2>1, InterestType DEF OldRows, NewRows
  <2>3. Shield(r, t) = SignedCents(c * b - a * d, b * d)
    BY <1>2, Zenon DEF Shield
  <2> HIDE DEF i, j
  <2>4. a \in Nat /\ b \in Nat \ {0}
    BY <2>1, <2>2, ShareType
  <2>5. c \in Nat /\ d \in Nat \ {0}
    <3> DEFINE p == Principal(r)
    <3> HIDE DEF p
    <3> QED
      BY <2>1, <2>2, ShareType DEF p
  <2> HIDE DEF a, b, c, d
  <2>6. SignedCents(c * b - a * d, d * b) \in Int
    BY <2>4, <2>5, DifferenceType
  <2>7. d * b = b * d
    BY <2>4, <2>5
  <2> QED
    BY <2>3, <2>6, <2>7, Zenon
<1> QED
  BY <1>1, <1>2

\* The payments of a request's loans are amounts.
LEMMA PiType == ASSUME NEW r \in Requests PROVE OldPi(r) \in Nat /\ NewPi(r) \in Nat
<1>1. /\ r.balance \in Nat /\ Principal(r) \in Nat /\ r.override \in Nat \cup {None}
      /\ r.oldRate \in 0..Den /\ r.newRate \in 0..Den
      /\ r.oldMonths \in Nat \ {0} /\ r.newMonths \in Nat \ {0}
  BY RequestAssumption DEF Principal
<1>2. OldPi(r) \in Nat
  BY <1>1, PaymentType DEF OldPi
<1>3. NewPi(r) \in Nat
  BY <1>1, PaymentType DEF NewPi
<1> QED
  BY <1>2, <1>3

\* The numbers of a request.
LEMMA RequestNumbers ==
  ASSUME NEW r \in Requests
  PROVE  /\ Saving(r) \in Int /\ AtOnce(r) \in Int /\ Horizon(r) \in Nat \ {0}
         /\ \A t \in 1..Horizon(r) : Shield(r, t) \in Int
<1>1. Saving(r) \in Int
  BY PiType, RequestAssumption DEF Saving
<1>2. AtOnce(r) \in Int /\ Horizon(r) \in Nat \ {0}
  BY RequestAssumption DEF AtOnce, Horizon
<1> QED
  BY <1>1, <1>2, ShieldType

\* Nothing is scanned at the start.
LEMMA ScanInit == Init => ScanInv
<1> SUFFICES ASSUME Init PROVE ScanInv
  OBVIOUS
<1> DEFINE s == Saving(req)
           a == AtOnce(req)
<1>1. s \in Int /\ a \in Int /\ Horizon(req) \in Nat \ {0} /\ Unit \in Nat \ {0}
  BY RequestNumbers, UnitAssumption DEF Init
<1>2. cum = a * Unit /\ month = 0 /\ factor = Unit /\ cumTax = cum /\ req \in Requests
      /\ breakeven = IF cum >= 0 THEN 0 ELSE None
  BY DEF Init
<1>3. TypeOK
  BY <1>1, <1>2 DEF TypeOK, None
<1>4. s * month = 0 /\ s * 0 = 0
  BY <1>1, <1>2
<1> HIDE DEF s, a
<1>5. cum >= 0 => a >= 0
  BY <1>1, <1>2, WholeUnits
<1>6. a >= 0 => cum >= 0
  BY <1>1, <1>2, Products
<1> QED
  BY <1>1, <1>2, <1>3, <1>4, <1>5, <1>6 DEF ScanInv, BreakevenIsNow, None, s, a

\* Every step keeps the scan.
LEMMA ScanStep == ScanInv /\ [Next]_vars => ScanInv'
<1> SUFFICES ASSUME ScanInv, [Next]_vars PROVE ScanInv'
  OBVIOUS
<1>1. CASE Month
  <2> DEFINE s == Saving(req)
             a == AtOnce(req)
  <2>1. /\ s \in Int /\ a \in Int /\ Horizon(req) \in Nat \ {0} /\ Unit \in Nat \ {0}
        /\ \A t \in 1..Horizon(req) : Shield(req, t) \in Int
    BY RequestNumbers, UnitAssumption DEF ScanInv, TypeOK
  <2>2. /\ month \in Nat /\ factor \in Nat /\ factor <= Unit /\ cum \in Int /\ cumTax \in Int
        /\ breakeven \in 0..month \cup {None} /\ month < Horizon(req)
    BY <1>1, <2>1 DEF ScanInv, TypeOK, Month
  <2>3. /\ month' = month + 1 /\ req' = req /\ response' = response
        /\ cum' = cum + s * factor' /\ cumTax' = cumTax + (s + Shield(req, month')) * factor'
        /\ breakeven' = IF breakeven = None /\ cum' >= 0 THEN month' ELSE breakeven
    BY <1>1 DEF Month, First
  <2>4. factor' \in 0..factor
    <3>1. 12 * Den \in Nat \ {0} /\ req.discount \in Nat /\ (factor * 12) * Den = factor * (12 * Den)
      BY <2>2, RequestAssumption DEF ScanInv, TypeOK
    <3>2. factor' = (factor * (12 * Den)) \div (12 * Den + req.discount)
      BY <1>1, <3>1 DEF Month
    <3> QED
      BY <2>2, <3>1, <3>2, Discounted
  <2>5. factor' \in Nat /\ factor' <= Unit /\ month' \in 1..Horizon(req) /\ s * factor' \in Int
        /\ cum' \in Int
    BY <2>1, <2>2, <2>3, <2>4
  <2>6. TypeOK'
    <3>1. Shield(req, month') \in Int
      BY <2>1, <2>5
    <3>2. cumTax' \in Int
      BY <2>1, <2>2, <2>3, <2>5, <3>1
    <3>3. Horizon(req') = Horizon(req) /\ req' \in Requests
      BY <2>3 DEF ScanInv, TypeOK
    <3>4. breakeven' \in 0..month' \cup {None}
      BY <2>2, <2>3
    <3> QED
      BY <2>1, <2>5, <3>2, <3>3, <3>4 DEF TypeOK
  <2>7. Saving(req') = s /\ AtOnce(req') = a
    BY <2>3
  <2>8. /\ s >= 0 => (breakeven # None <=> cum >= 0)
        /\ s >= 0 => cum <= (a + s * month) * Unit
        /\ s < 0 => cum <= a * Unit
        /\ breakeven # None => IF s < 0 THEN a >= 0 ELSE a + s * breakeven >= 0
    BY DEF ScanInv, BreakevenIsNow
  <2>0. a >= 0 => breakeven' = 0
    BY <2>3 DEF ScanInv, None
  <2> HIDE DEF s, a
  <2>9. /\ s >= 0 => s * factor' >= 0 /\ s * factor' <= s * Unit
        /\ s < 0 => s * factor' <= 0
    BY <2>1, <2>5, Shares
  <2>10. CASE s >= 0
    <3>1. s * factor' >= 0 /\ s * factor' <= s * Unit
      BY <2>10, <2>9
    <3>2. (a + s * month') * Unit = (a + s * month) * Unit + s * Unit
      <4>1. s * month' = s * month + s
        BY <2>1, <2>2, <2>3
      <4>2. s * month \in Int
        BY <2>1, <2>2
      <4> QED
        BY <2>1, <4>1, <4>2
    <3>3. cum' <= (a + s * month') * Unit
      <4>1. (a + s * month) * Unit \in Int /\ s * Unit \in Int
        BY <2>1, <2>2
      <4> QED
        BY <2>2, <2>3, <2>5, <2>8, <2>10, <3>1, <3>2, <4>1
    <3>4. breakeven' # None <=> cum' >= 0
      BY <2>2, <2>3, <2>5, <2>8, <2>10, <3>1 DEF None
    <3>5. breakeven' # None => a + s * breakeven' >= 0
      <4>1. CASE breakeven = None /\ cum' >= 0
        <5>1. a + s * month' \in Int /\ (a + s * month') * Unit \in Int
          BY <2>1, <2>5
        <5>2. (a + s * month') * Unit >= 0
          BY <2>5, <3>3, <4>1, <5>1
        <5>3. a + s * month' >= 0
          BY <2>1, <5>1, <5>2, WholeUnits
        <5> QED
          BY <2>3, <4>1, <5>3
      <4>2. CASE ~ (breakeven = None /\ cum' >= 0)
        <5>1. breakeven' = breakeven
          BY <2>3, <4>2
        <5>2. breakeven # None => a + s * breakeven >= 0
          BY <2>1, <2>8, <2>10
        <5> QED
          BY <5>1, <5>2
      <4> QED
        BY <4>1, <4>2
    <3> QED
      BY <2>0, <2>1, <2>6, <2>7, <2>10, <3>3, <3>4, <3>5 DEF ScanInv, BreakevenIsNow
  <2>11. CASE s < 0
    <3>1. s * factor' <= 0
      BY <2>11, <2>9
    <3>2. cum' <= a * Unit
      <4>1. a * Unit \in Int
        BY <2>1
      <4> QED
        BY <2>2, <2>3, <2>5, <2>8, <2>11, <3>1, <4>1
    <3>3. breakeven' # None => a >= 0
      <4>1. cum' >= 0 => a >= 0
        <5>1. a * Unit \in Int
          BY <2>1
        <5> QED
          BY <2>1, <2>5, <3>2, <5>1, WholeUnits
      <4> QED
        BY <2>3, <2>8, <2>11, <4>1
    <3> QED
      BY <2>0, <2>1, <2>6, <2>7, <2>11, <3>2, <3>3 DEF ScanInv, BreakevenIsNow
  <2> QED
    BY <2>1, <2>10, <2>11
<1>2. CASE Respond \/ UNCHANGED vars
  <2>1. UNCHANGED <<req, month, factor, cum, cumTax, breakeven>>
    BY <1>2 DEF Respond, vars
  <2> QED
    BY <2>1 DEF ScanInv, TypeOK, BreakevenIsNow
<1> QED
  BY <1>1, <1>2 DEF Next

\* Every variable of the scan keeps its type: the factors only shrink, and a
\* break-even is a month that was discounted.
THEOREM TypeCorrect == Spec => []TypeOK
<1>1. ScanInv => TypeOK
  BY DEF ScanInv
<1> QED
  BY <1>1, ScanInit, ScanStep, PTL DEF Spec

\* A break-even that was found is never lost again, for any loans and horizon
\* whose months save anything.
THEOREM BreakevenHolds == Spec => []BreakevenIsNow
<1>1. ScanInv => BreakevenIsNow
  BY DEF ScanInv
<1> QED
  BY <1>1, ScanInit, ScanStep, PTL DEF Spec

\* A break-even within the old loan's term has recovered the costs: the old
\* schedule has charged the level payment every month, and the new one no more
\* than its own, but for the excess of its last one.
LEMMA Spared == ScanInv => BreakevenIsReal
<1> DEFINE b == breakeven
           old == OldRows(req)
           new == NewRows(req)
           n == req.newMonths
           x == OldPi(req)
           y == NewPi(req)
           costs == req.costs
           e == Excess(req)
<1> SUFFICES ASSUME ScanInv, b # None, req.cash = 0, ~ req.direct.given, req.override = None,
                    b <= req.oldMonths, old[b].balance > 0
             PROVE  IF b < n THEN Paid(old, b) - Paid(new, b) >= costs
                             ELSE Paid(old, b) - Paid(new, n) >= costs - e
  BY Zenon DEF BreakevenIsReal
<1>1. /\ req \in Requests /\ b \in Nat
      /\ req.balance \in Nat /\ Principal(req) \in Nat /\ costs \in Nat
      /\ req.oldRate \in 0..Den /\ req.newRate \in 0..Den
      /\ req.oldMonths \in Nat \ {0} /\ n \in Nat \ {0}
  BY RequestAssumption DEF ScanInv, TypeOK, Principal
<1>2. x \in Nat /\ y \in Nat /\ Saving(req) = x - y /\ AtOnce(req) = -costs
      /\ y = LevelPayment(Principal(req), req.newRate, Den, n)
  <2>1. x \in Nat /\ y \in Nat
    BY <1>1, PiType
  <2> QED
    BY <1>1, <2>1 DEF Saving, AtOnce, NewPi
<1>3. Paid(old, b) = b * x
  BY <1>1, PaidSoFar DEF OldRows, OldPi, Paid
<1>4. \A t \in 0..n : Paid(new, t) \in Int /\ (t < n => Paid(new, t) <= t * y)
  BY <1>1, <1>2, PaidAtMost DEF NewRows
<1>5. costs <= b * x - b * y
  <2>1. CASE Saving(req) < 0
    <3>1. -costs >= 0 /\ b = 0
      BY <1>1, <1>2, <2>1 DEF ScanInv
    <3>2. b * x = 0 /\ b * y = 0
      BY <1>2, <3>1
    <3> QED
      BY <1>1, <3>1, <3>2
  <2>2. CASE ~ Saving(req) < 0
    <3>1. -costs + (x - y) * b >= 0
      BY <1>2, <2>2 DEF ScanInv
    <3>2. (x - y) * b = b * x - b * y /\ b * x \in Nat /\ b * y \in Nat
      BY <1>1, <1>2
    <3> QED
      BY <1>1, <3>1, <3>2
  <2> QED
    BY <2>1, <2>2
<1>6. b * x \in Nat /\ b * y \in Nat
  BY <1>1, <1>2
<1>7. CASE b < n
  <2>1. Paid(new, b) \in Int /\ Paid(new, b) <= b * y
    BY <1>1, <1>4, <1>7
  <2> HIDE DEF b, old, new, n, x, y, costs
  <2> QED
    BY <1>1, <1>3, <1>5, <1>6, <1>7, <2>1
<1>8. CASE ~ b < n
  <2> DEFINE before == Paid(new, n - 1)
             last == Paid(new, n)
  <2>1. before \in Int /\ last \in Int /\ before <= (n - 1) * y
    BY <1>1, <1>4
  <2>2. e \in Nat /\ last - before - y <= e
    <3>1. e = IF last - before - y > 0 THEN last - before - y ELSE 0
      BY Zenon DEF Excess
    <3> HIDE DEF e, last, before, y
    <3> QED
      BY <1>2, <2>1, <3>1
  <2>3. (n - 1) * y + y <= b * y
    <3> HIDE DEF b, n, y
    <3>1. (n - 1) * y + y = n * y
      BY <1>1, <1>2
    <3>2. b - n \in Nat /\ (b - n) * y \in Nat /\ (b - n) * y = b * y - n * y /\ n * y \in Nat
      BY <1>1, <1>2, <1>8
    <3> QED
      BY <1>6, <3>1, <3>2
  <2>4. (n - 1) * y \in Nat
    <3> HIDE DEF n, y
    <3> QED
      BY <1>1, <1>2
  <2>5. Paid(old, b) - last >= costs - e
    <3> HIDE DEF b, old, n, x, y, costs, e, before, last
    <3> QED
      BY <1>1, <1>2, <1>3, <1>5, <1>6, <2>1, <2>2, <2>3, <2>4
  <2> QED
    BY <1>8, <2>5 DEF last
<1> QED
  BY <1>7, <1>8

\* A break-even within the old loan's term is one of the two schedules, for any
\* loans, rates, terms and costs, also after the payoff of the new loan.
THEOREM BreakevenIsSaved == Spec => []BreakevenIsReal
  BY ScanInit, ScanStep, Spared, PTL DEF Spec

-----------------------------------------------------------------------------
(* The response.                                                           *)

\* The parts of a response that the theorems are about, once it is there.
Answered == response # <<>> =>
    /\ month = Horizon(req)
    /\ response.simple = IF req.kind = "points" THEN PointsSimple(req) ELSE Simple(req).months
    /\ req.kind = "points" => response.decision = Decision(Npv(cum), PointsSimple(req))

\* Every step keeps the response.
LEMMA AnsweredStep == TypeOK /\ Answered /\ [Next]_vars => Answered'
<1> SUFFICES ASSUME TypeOK, Answered, [Next]_vars PROVE Answered'
  OBVIOUS
<1>1. CASE Month
  <2>1. Horizon(req) \in Nat
    BY RequestNumbers DEF TypeOK
  <2>2. response = <<>> /\ response' = <<>>
    BY <1>1, <2>1 DEF Month, Answered
  <2> QED
    BY <2>2 DEF Answered
<1>2. CASE Respond
  <2>1. UNCHANGED <<req, month, cum>> /\ month = Horizon(req)
    BY <1>2 DEF Respond
  <2>2. CASE req.kind = "points"
    BY <1>2, <2>1, <2>2 DEF Respond, Answered
  <2>3. CASE req.kind # "points"
    BY <1>2, <2>1, <2>3 DEF Respond, Answered
  <2> QED
    BY <2>2, <2>3
<1>3. CASE UNCHANGED vars
  BY <1>3 DEF Answered, vars
<1> QED
  BY <1>1, <1>2, <1>3 DEF Next

\* Costs that the scan has recovered without cash are recovered by whole
\* savings in as many months.
LEMMA Recovered ==
  ASSUME ScanInv, breakeven # None, req.cash = 0, req.costs # 0
  PROVE  /\ Saving(req) \in Nat \ {0}
         /\ Ceil(req.costs, Saving(req)) \in Nat /\ Ceil(req.costs, Saving(req)) <= breakeven
<1> DEFINE s == Saving(req)
           c == req.costs
           k == breakeven
<1>1. s \in Int /\ c \in Nat \ {0} /\ AtOnce(req) = -c /\ k \in Nat
  BY RequestNumbers, RequestAssumption DEF ScanInv, TypeOK, AtOnce
<1>2. IF s < 0 THEN -c >= 0 ELSE -c + s * k >= 0
  BY <1>1 DEF ScanInv
<1> HIDE DEF s, c, k
<1>3. s # 0
  <2> SUFFICES ASSUME s = 0 PROVE FALSE
    OBVIOUS
  <2>1. s * k = 0
    BY <1>1
  <2> QED
    BY <1>1, <1>2, <2>1
<1>4. s \in Nat \ {0} /\ s * k \in Int /\ c <= s * k
  BY <1>1, <1>2, <1>3
<1>5. Ceil(c, s) \in Nat /\ Ceil(c, s) <= k
  BY <1>1, <1>4, CeilIsLeast
<1> QED
  BY <1>4, <1>5 DEF s, c, k

\* Discounting only delays: whatever the scan finds, the quotient of costs and
\* savings is no later.
LEMMA SimpleComesFirst == ScanInv /\ Answered => SimpleFirst
<1> SUFFICES ASSUME ScanInv, Answered, response # <<>>, req.cash = 0, breakeven # None
             PROVE  response.simple # None /\ response.simple <= breakeven
  BY DEF SimpleFirst
<1>1. /\ Horizon(req) \in Nat /\ breakeven \in Nat /\ breakeven <= Horizon(req)
      /\ (req.kind = "points" => req.costs # 0)
  BY RequestNumbers, RequestAssumption DEF ScanInv, TypeOK
<1>2. response.simple = IF req.kind = "points" THEN PointsSimple(req) ELSE Simple(req).months
  BY DEF Answered
<1>3. CASE req.costs = 0
  <2>1. response.simple = 0
    BY <1>1, <1>2, <1>3 DEF Simple
  <2> QED
    BY <1>1, <2>1 DEF None
<1>4. CASE req.costs # 0
  <2>1. /\ Saving(req) \in Nat \ {0}
        /\ Ceil(req.costs, Saving(req)) \in Nat /\ Ceil(req.costs, Saving(req)) <= breakeven
    BY <1>4, Recovered
  <2>2. response.simple = Ceil(req.costs, Saving(req))
    BY <1>1, <1>2, <1>4, <2>1 DEF PointsSimple, Simple
  <2> QED
    BY <2>1, <2>2 DEF None
<1> QED
  BY <1>3, <1>4

\* The simple break-even is never later than the discounted one, for any
\* request that takes no cash out.
THEOREM SimpleIsFirst == Spec => []SimpleFirst
<1>1. Init => Answered
  BY DEF Init, Answered
<1>2. ScanInv => TypeOK
  BY DEF ScanInv
<1> QED
  BY <1>1, <1>2, ScanInit, ScanStep, AnsweredStep, SimpleComesFirst, PTL DEF Spec

\* Points that break even are bought; points that are bought break even, to
\* within half a cent.
LEMMA PointsArePaid == ScanInv /\ Answered => PointsPay
<1> SUFFICES ASSUME ScanInv, Answered, response # <<>>, req.kind = "points"
             PROVE  /\ breakeven # None => response.decision = "buy_points"
                    /\ response.decision = "buy_points" => breakeven # None \/ 2 * cum > -Unit
  BY DEF PointsPay
<1>1. cum \in Int /\ Unit \in Nat \ {0} /\ req.costs # 0 /\ req.cash = 0
  BY RequestAssumption, UnitAssumption DEF ScanInv, TypeOK
<1>2. response.decision = Decision(Npv(cum), PointsSimple(req))
  BY DEF Answered
<1>3. /\ cum >= 0 => Npv(cum) >= 0
      /\ Npv(cum) >= 0 => 2 * cum > -Unit
  BY <1>1, RoundedSign DEF Npv
<1>4. response.decision = "buy_points" <=> Npv(cum) >= 0 /\ PointsSimple(req) # None
  BY <1>2 DEF Decision
<1>5. ASSUME breakeven # None PROVE response.decision = "buy_points"
  <2>1. Saving(req) \in Nat \ {0} /\ Ceil(req.costs, Saving(req)) \in Nat
    BY <1>1, <1>5, Recovered
  <2>2. cum >= 0
    BY <1>5, <2>1 DEF ScanInv, BreakevenIsNow
  <2>3. PointsSimple(req) # None
    BY <2>1 DEF PointsSimple, None
  <2> QED
    BY <1>3, <1>4, <2>2, <2>3
<1> QED
  BY <1>3, <1>4, <1>5

\* The decision about points is the sign of the scan, for any costs, savings,
\* rates and time of holding.
THEOREM PointsDecisionIsRight == Spec => []PointsPay
<1>1. Init => Answered
  BY DEF Init, Answered
<1>2. ScanInv => TypeOK
  BY DEF ScanInv
<1> QED
  BY <1>1, <1>2, ScanInit, ScanStep, AnsweredStep, PointsArePaid, PTL DEF Spec

-----------------------------------------------------------------------------
(* Taxes.                                                                  *)

\* A rounded amount lies within half of its unit, on either side of zero.
LEMMA Rounded ==
  ASSUME NEW n \in Int, NEW d \in Nat \ {0}
  PROVE  /\ SignedCents(n, d) \in Int
         /\ 2 * n - d <= 2 * d * SignedCents(n, d) /\ 2 * d * SignedCents(n, d) <= 2 * n + d
<1> DEFINE e == 2 * d
<1>1. e \in Nat \ {0}
  OBVIOUS
<1>2. ASSUME NEW k \in Int
      PROVE  /\ Cents(k, d) \in Int
             /\ 2 * k - d <= e * Cents(k, d) /\ e * Cents(k, d) <= 2 * k + d
  <2> DEFINE m == 2 * k + d
             q == m \div e
  <2>1. m \in Int /\ Cents(k, d) = q
    BY DEF Cents
  <2> HIDE DEF m, e
  <2>2. q \in Int /\ e * q <= m /\ m < e * q + e /\ e * q \in Int
    BY <1>1, <2>1, Quotients
  <2> HIDE DEF q
  <2>3. e = 2 * d /\ m = 2 * k + d
    BY DEF e, m
  <2> QED
    BY <2>1, <2>2, <2>3
<1>3. CASE n < 0
  <2> DEFINE c == Cents(-n, d)
  <2>1. -n \in Int
    OBVIOUS
  <2>2. c \in Int /\ 2 * (-n) - d <= e * c /\ e * c <= 2 * (-n) + d
    BY <1>2, <2>1
  <2>3. SignedCents(n, d) = -c
    BY <1>3 DEF SignedCents
  <2> HIDE DEF c, e
  <2>4. e * (-c) = -(e * c) /\ e * c \in Int
    BY <1>1, <2>2
  <2>5. -c \in Int /\ 2 * n - d <= e * (-c) /\ e * (-c) <= 2 * n + d
    BY <2>2, <2>4
  <2> QED
    BY <2>3, <2>5 DEF e
<1>4. CASE ~ n < 0
  BY <1>2, <1>4 DEF SignedCents
<1> QED
  BY <1>3, <1>4

\* A sum of whole units is rounded to their number.
LEMMA WholeNpv == ASSUME NEW x \in Int PROVE Npv(x * Unit) = x
<1> DEFINE u == Unit
           q == Npv(x * u)
           w == 2 * u
<1>1. u \in Nat \ {0} /\ x * u \in Int /\ w \in Nat \ {0}
  BY UnitAssumption
<1>2. q \in Int /\ 2 * (x * u) - u <= 2 * u * q /\ 2 * u * q <= 2 * (x * u) + u
  <2> DEFINE n == x * u
  <2> HIDE DEF n, u
  <2> QED
    BY <1>1, Rounded DEF Npv, n, u
<1> HIDE DEF q
<1>3. w * x = 2 * (x * u) /\ w * q = 2 * u * q /\ w = 2 * u
  BY <1>1, <1>2
<1> HIDE DEF u, w
<1>4. w * x \in Int /\ w * q \in Int
  BY <1>1, <1>2
<1>5. w * q < w * x + w /\ w * x < w * q + w
  BY <1>1, <1>2, <1>3, <1>4
<1>6. q <= x /\ x <= q
  BY <1>1, <1>2, <1>5, Multiples
<1>7. q = x
  BY <1>2, <1>6
<1> QED
  BY <1>7 DEF q, u

\* A loan of nothing charges nothing.
LEMMA NothingCharged ==
  ASSUME NEW num \in 0..Den, NEW n \in Nat \ {0}, NEW t \in Int
  PROVE  At(Rows(0, num, n), t, "interest") = 0
<1> DEFINE rows == Rows(0, num, n)
           pi == LevelPayment(0, num, Den, n)
           T == {k \in 0..n : rows[k].balance = 0 /\ rows[k].interest = 0}
<1>1. pi \in Nat
  BY PaymentType
<1>2. /\ rows \in [0..n -> Row] /\ rows[0] = FirstRow(0)
      /\ \A k \in 1..n : rows[k] = NextRow(rows[k - 1], num, pi, k = n)
  BY RowsAre
<1>3. 0 \in T
  BY <1>2 DEF FirstRow
<1> HIDE DEF rows, pi
<1>4. Cents(0 * num, 12 * Den) = 0
  <2> DEFINE d == 12 * Den
  <2>1. d \in Nat \ {0} /\ 0 * num = 0
    BY RequestAssumption
  <2> HIDE DEF d
  <2>2. Cents(0, d) = 0
    BY <2>1 DEF Cents
  <2> QED
    BY <2>1, <2>2 DEF d
<1>5. ASSUME NEW k \in 1..n, k - 1 \in T PROVE k \in T
  <2> DEFINE before == rows[k - 1]
             after == rows[k]
  <2>1. after = NextRow(before, num, pi, k = n) /\ before.balance = 0
    BY <1>2, <1>5
  <2> HIDE DEF before, after
  <2>2. after.interest = 0 /\ after.balance = IF k = n \/ 0 + 0 <= pi THEN 0 ELSE 0 - (pi - 0)
    BY <1>4, <2>1 DEF NextRow
  <2> QED
    BY <1>1, <2>2 DEF after
<1>6. 0..n \subseteq T
  <2> HIDE DEF T
  <2> QED
    BY <1>3, <1>5, NoLoan, UnitAssumption, P!Reaches
<1>7. DOMAIN rows = 0..n
  BY <1>2
<1>8. At(rows, t, "interest") = 0
  BY <1>6, <1>7 DEF At
<1> QED
  BY <1>8 DEF rows

\* The interest that a schedule of n months has charged by a month, also after
\* its end.
Charged(rows, n, t) == rows[IF t < n THEN t ELSE n].cumInt

\* A month adds its interest, of which there is none after the end.
LEMMA MonthCharged ==
  ASSUME NEW p \in Nat, NEW num \in 0..Den, NEW n \in Nat \ {0}, NEW t \in Nat \ {0}
  PROVE  LET rows == Rows(p, num, n)
         IN  /\ Charged(rows, n, t) \in Nat /\ Charged(rows, n, t - 1) \in Nat
             /\ Charged(rows, n, t) = Charged(rows, n, t - 1) + At(rows, t, "interest")
             /\ Charged(rows, n, 0) = 0
<1> DEFINE rows == Rows(p, num, n)
           pi == LevelPayment(p, num, Den, n)
<1>1. /\ rows \in [0..n -> Row] /\ rows[0] = FirstRow(p)
      /\ \A k \in 1..n : rows[k] = NextRow(rows[k - 1], num, pi, k = n)
  BY RowsAre
<1> HIDE DEF rows, pi
<1>2. Charged(rows, n, 0) = 0
  BY <1>1 DEF Charged, FirstRow
<1>3. Charged(rows, n, t) \in Nat /\ Charged(rows, n, t - 1) \in Nat
  <2>1. (IF t < n THEN t ELSE n) \in 0..n /\ (IF t - 1 < n THEN t - 1 ELSE n) \in 0..n
    OBVIOUS
  <2>2. \A k \in 0..n : rows[k].cumInt \in Nat
    BY <1>1 DEF Row
  <2> QED
    BY <2>1, <2>2 DEF Charged
<1>4. CASE t <= n
  <2> DEFINE before == rows[t - 1]
             after == rows[t]
  <2>1. after = NextRow(before, num, pi, t = n)
    BY <1>1, <1>4
  <2>2. (IF t < n THEN t ELSE n) = t /\ (IF t - 1 < n THEN t - 1 ELSE n) = t - 1 /\ t \in DOMAIN rows
    BY <1>1, <1>4
  <2>3. Charged(rows, n, t) = after.cumInt /\ Charged(rows, n, t - 1) = before.cumInt
        /\ At(rows, t, "interest") = after.interest
    BY <2>2 DEF Charged, At
  <2> HIDE DEF before, after
  <2>4. after.cumInt = before.cumInt + after.interest
    BY <2>1 DEF NextRow
  <2> QED
    BY <1>2, <1>3, <2>3, <2>4 DEF rows
<1>5. CASE ~ t <= n
  <2>1. (IF t < n THEN t ELSE n) = n /\ (IF t - 1 < n THEN t - 1 ELSE n) = n /\ t \notin DOMAIN rows
    BY <1>1, <1>5
  <2>2. Charged(rows, n, t) = Charged(rows, n, t - 1) /\ At(rows, t, "interest") = 0
    BY <2>1 DEF Charged, At
  <2> QED
    BY <1>2, <1>3, <2>2 DEF rows
<1> QED
  BY <1>4, <1>5

\* A fraction of the interest, within the limit, is a tenth of it at the rate.
LEMMA ShareIs ==
  ASSUME NEW i \in Nat, NEW rate \in Nat, NEW p \in Nat, NEW limit \in Nat, p <= limit, p = 0 => i = 0
  PROVE  10 * (i * rate * (IF p < limit THEN p ELSE limit)) = (IF p = 0 THEN 1 ELSE 10 * p) * (i * rate)
<1> DEFINE k == i * rate
<1>1. k \in Nat /\ (p = 0 => k = 0)
  BY Products
<1>2. (IF p < limit THEN p ELSE limit) = p
  OBVIOUS
<1> HIDE DEF k
<1>3. 10 * (k * p) = (IF p = 0 THEN 1 ELSE 10 * p) * k
  BY <1>1
<1> QED
  BY <1>2, <1>3 DEF k

\* The shield of a month, from two tenths of amounts at the marginal rate.
LEMMA TenthNear ==
  ASSUME NEW a \in Nat, NEW b \in Nat \ {0}, NEW c \in Nat, NEW d \in Nat \ {0},
         NEW x \in Nat, NEW y \in Nat, 10 * a = b * x, 10 * c = d * y
  PROVE  LET s == SignedCents(c * b - a * d, b * d)
         IN  s \in Int /\ -5 <= 10 * s - (y - x) /\ 10 * s - (y - x) <= 5
<1> DEFINE n == c * b - a * d
           e == b * d
           s == SignedCents(n, e)
           k == 10 * s - (y - x)
<1>1. n \in Int /\ e \in Nat \ {0}
  BY Products
<1>2. 10 * n = e * (y - x)
  <2>1. 10 * (c * b) = b * (d * y) /\ 10 * (a * d) = d * (b * x)
    <3>1. 10 * (c * b) = (10 * c) * b /\ 10 * (a * d) = (10 * a) * d
      OBVIOUS
    <3>2. (d * y) * b = b * (d * y) /\ (b * x) * d = d * (b * x)
      BY Products
    <3> QED
      BY <3>1, <3>2
  <2>2. b * (d * y) = e * y /\ d * (b * x) = e * x /\ e * (y - x) = e * y - e * x
    OBVIOUS
  <2>3. c * b \in Nat /\ a * d \in Nat
    BY Products
  <2> QED
    BY <2>1, <2>2, <2>3
<1> HIDE DEF n, e
<1>3. s \in Int /\ 2 * n - e <= 2 * e * s /\ 2 * e * s <= 2 * n + e
  BY <1>1, Rounded
<1> HIDE DEF s
<1>4. 2 * e * s \in Int /\ e * k = 5 * (2 * e * s) - e * (y - x) /\ e * (y - x) \in Int /\ k \in Int /\ e * k \in Int
  BY <1>1, <1>3
<1>5. e * k <= 5 * e /\ -(5 * e) <= e * k
  <2> DEFINE z == 2 * e * s
             v == e * (y - x)
             g == e * k
  <2>1. z \in Int /\ v \in Int /\ g = 5 * z - v /\ 10 * n = v /\ 2 * n - e <= z /\ z <= 2 * n + e
    BY <1>2, <1>3, <1>4
  <2> HIDE DEF z, v, g
  <2>2. g <= 5 * e /\ -(5 * e) <= g
    BY <1>1, <2>1
  <2> QED
    BY <2>2 DEF g
<1> HIDE DEF k
<1>6. k <= 5 /\ -5 <= k
  <2>1. e * 5 = 5 * e /\ e * (-5) = -(5 * e)
    BY <1>1
  <2>2. e * k < e * 5 + e /\ e * (-5) < e * k + e
    BY <1>1, <1>4, <1>5, <2>1
  <2> QED
    BY <1>1, <1>4, <2>2, Multiples
<1> QED
  BY <1>3, <1>6 DEF k, s, n, e

\* The shield of a month is the marginal rate of what the interest changes by,
\* while neither debt exceeds the limit.
LEMMA ShieldNear ==
  ASSUME NEW r \in Requests, NEW t \in Int, r.marginal # None, Principal(r) <= r.limit
  PROVE  LET k == 10 * Shield(r, t)
                  - r.marginal * (At(NewRows(r), t, "interest") - At(OldRows(r), t, "interest"))
         IN  Shield(r, t) \in Int /\ -5 <= k /\ k <= 5
<1> DEFINE i == At(OldRows(r), t, "interest")
           j == At(NewRows(r), t, "interest")
           m == r.marginal
           p == r.balance
           q == Principal(r)
           Part(x) == IF x < r.limit THEN x ELSE r.limit
           Whole(x) == IF x = 0 THEN 1 ELSE 10 * x
           a == i * m * Part(p)
           b == Whole(p)
           c == j * m * Part(q)
           d == Whole(q)
<1>1. /\ p \in Nat /\ q \in Nat /\ r.limit \in Nat /\ m \in Nat /\ p <= r.limit /\ q <= r.limit
      /\ r.oldRate \in 0..Den /\ r.newRate \in 0..Den
      /\ r.oldMonths \in Nat \ {0} /\ r.newMonths \in Nat \ {0}
  BY RequestAssumption DEF Principal
<1>2. i \in Nat /\ j \in Nat
  BY <1>1, InterestType DEF OldRows, NewRows
<1>3. (p = 0 => i = 0) /\ (q = 0 => j = 0)
  <2>1. ASSUME p = 0 PROVE i = 0
    BY <1>1, <2>1, NothingCharged DEF OldRows
  <2>2. ASSUME q = 0 PROVE j = 0
    BY <1>1, <2>2, NothingCharged DEF NewRows
  <2> QED
    BY <2>1, <2>2
<1>4. Shield(r, t) = SignedCents(c * b - a * d, b * d)
  <2>1. r.marginal # None
    OBVIOUS
  <2> QED
    BY <2>1, Zenon DEF Shield
<1> HIDE DEF i, j, q
<1>5. a \in Nat /\ b \in Nat \ {0} /\ 10 * a = b * (i * m)
  <2> DEFINE limit == r.limit
  <2>1. p \in Nat /\ m \in Nat /\ limit \in Nat /\ p <= limit /\ (p = 0 => i = 0)
    BY <1>1, <1>3
  <2> HIDE DEF p, m, limit
  <2>2. i * m * (IF p < limit THEN p ELSE limit) \in Nat /\ (IF p = 0 THEN 1 ELSE 10 * p) \in Nat \ {0}
    BY <1>2, <2>1, ShareType
  <2>3. 10 * (i * m * (IF p < limit THEN p ELSE limit)) = (IF p = 0 THEN 1 ELSE 10 * p) * (i * m)
    BY <1>2, <2>1, ShareIs
  <2> QED
    BY <2>2, <2>3, Zenon DEF limit
<1>6. c \in Nat /\ d \in Nat \ {0} /\ 10 * c = d * (j * m)
  <2> DEFINE limit == r.limit
  <2>1. q \in Nat /\ m \in Nat /\ limit \in Nat /\ q <= limit /\ (q = 0 => j = 0)
    BY <1>1, <1>3
  <2> HIDE DEF m, limit
  <2>2. j * m * (IF q < limit THEN q ELSE limit) \in Nat /\ (IF q = 0 THEN 1 ELSE 10 * q) \in Nat \ {0}
    BY <1>2, <2>1, ShareType
  <2>3. 10 * (j * m * (IF q < limit THEN q ELSE limit)) = (IF q = 0 THEN 1 ELSE 10 * q) * (j * m)
    BY <1>2, <2>1, ShareIs
  <2> QED
    BY <2>2, <2>3, Zenon DEF limit
<1> DEFINE x == i * m
           y == j * m
<1>7. x \in Nat /\ y \in Nat /\ y - x = m * (j - i)
  BY <1>1, <1>2
<1> HIDE DEF a, b, c, d, x, y
<1>8. 10 * a = b * x /\ 10 * c = d * y
  BY <1>5, <1>6 DEF x, y
<1> DEFINE s == SignedCents(c * b - a * d, b * d)
<1>9. s \in Int /\ -5 <= 10 * s - (y - x) /\ 10 * s - (y - x) <= 5
  BY <1>5, <1>6, <1>7, <1>8, TenthNear
<1>10. Shield(r, t) = s
  BY <1>4
<1> HIDE DEF s
<1> QED
  BY <1>7, <1>9, <1>10 DEF i, j

\* The change in interest that the two schedules have charged by a month.
Change(t) == Charged(NewRows(req), req.newMonths, t) - Charged(OldRows(req), req.oldMonths, t)
\* What the shields of t months are a tenth of, to half a cent a month.
Near(sum, t) == /\ 10 * sum - req.marginal * Change(t) <= 5 * t
                /\ -(5 * t) <= 10 * sum - req.marginal * Change(t)

\* Without discounting, and with both debts in the limit, the scan adds whole
\* savings, and its taxes follow the interest that has been charged.
Undiscounted == req.marginal # None /\ req.discount = 0 /\ Principal(req) <= req.limit
TaxInv == Undiscounted =>
    /\ factor = Unit
    /\ cum = (AtOnce(req) + Saving(req) * month) * Unit
    /\ \E sum \in Int : cumTax = cum + sum * Unit /\ Near(sum, month)

\* A factor of no discount is not rounded.
LEMMA NoDiscount == ASSUME NEW a \in Nat, NEW d \in Nat \ {0} PROVE (a * d) \div d = a
<1> DEFINE n == a * d
           q == n \div d
<1>1. n \in Int /\ d * a = n
  OBVIOUS
<1> HIDE DEF n
<1>2. q \in Int /\ d * q <= n /\ n < d * q + d
  BY <1>1, Quotients
<1> HIDE DEF q
<1>3. d * q \in Int /\ d * q < d * a + d /\ d * a < d * q + d
  BY <1>1, <1>2
<1>4. q <= a /\ a <= q
  BY <1>2, <1>3, Multiples
<1> QED
  BY <1>2, <1>4 DEF q, n

\* What changes in a month is the interest of that month.
LEMMA ChangeIs ==
  ASSUME req \in Requests, NEW t \in Nat \ {0}
  PROVE  /\ Change(0) = 0 /\ Change(t) \in Int /\ Change(t - 1) \in Int
         /\ Change(t) = Change(t - 1) + (At(NewRows(req), t, "interest") - At(OldRows(req), t, "interest"))
         /\ At(NewRows(req), t, "interest") \in Nat /\ At(OldRows(req), t, "interest") \in Nat
<1> DEFINE old == OldRows(req)
           new == NewRows(req)
           i == At(old, t, "interest")
           j == At(new, t, "interest")
<1>1. /\ req.balance \in Nat /\ Principal(req) \in Nat
      /\ req.oldRate \in 0..Den /\ req.newRate \in 0..Den
      /\ req.oldMonths \in Nat \ {0} /\ req.newMonths \in Nat \ {0}
  BY RequestAssumption DEF Principal
<1>2. i \in Nat /\ j \in Nat
  <2>1. t \in Int
    OBVIOUS
  <2>2. i \in Nat
    BY <1>1, <2>1, InterestType DEF OldRows
  <2>3. j \in Nat
    BY <1>1, <2>1, InterestType DEF NewRows
  <2> QED
    BY <2>2, <2>3
<1>3. /\ Charged(old, req.oldMonths, t) \in Nat /\ Charged(old, req.oldMonths, t - 1) \in Nat
      /\ Charged(old, req.oldMonths, t) = Charged(old, req.oldMonths, t - 1) + i
      /\ Charged(old, req.oldMonths, 0) = 0
  BY <1>1, MonthCharged DEF OldRows
<1>4. /\ Charged(new, req.newMonths, t) \in Nat /\ Charged(new, req.newMonths, t - 1) \in Nat
      /\ Charged(new, req.newMonths, t) = Charged(new, req.newMonths, t - 1) + j
      /\ Charged(new, req.newMonths, 0) = 0
  BY <1>1, MonthCharged DEF NewRows
<1> HIDE DEF old, new, i, j
<1>5. \A k : Change(k) = Charged(new, req.newMonths, k) - Charged(old, req.oldMonths, k)
  BY DEF Change, old, new
<1>6. Change(0) = 0 /\ Change(t) \in Int /\ Change(t - 1) \in Int /\ Change(t) = Change(t - 1) + (j - i)
  BY <1>2, <1>3, <1>4, <1>5
<1> QED
  BY <1>2, <1>6 DEF i, j, old, new

\* Nothing has been charged at the start.
LEMMA TaxInit == Init => TaxInv
<1> SUFFICES ASSUME Init PROVE TaxInv
  OBVIOUS
<1>1. req \in Requests /\ month = 0 /\ factor = Unit /\ cum = AtOnce(req) * Unit /\ cumTax = cum
  BY DEF Init
<1>2. AtOnce(req) \in Int /\ Saving(req) \in Int /\ Unit \in Nat
  BY <1>1, RequestNumbers, UnitAssumption
<1>3. cum = (AtOnce(req) + Saving(req) * month) * Unit /\ cumTax = cum + 0 * Unit
  <2> DEFINE a == AtOnce(req)
             s == Saving(req)
  <2>1. a \in Int /\ s \in Int /\ cum = a * Unit
    BY <1>1, <1>2
  <2> HIDE DEF a, s
  <2>2. s * month = 0 /\ cum = (a + 0) * Unit
    BY <1>1, <1>2, <2>1
  <2>3. cum = (a + s * month) * Unit
    BY <2>2
  <2>4. cum \in Int /\ 0 * Unit = 0
    BY <1>2, <2>1
  <2> QED
    BY <1>1, <2>3, <2>4 DEF a, s
<1>4. ASSUME req.marginal # None PROVE Near(0, 0)
  <2>1. Change(0) = 0 /\ req.marginal \in Nat
    BY <1>1, <1>4, ChangeIs, RequestAssumption
  <2> QED
    BY <2>1 DEF Near
<1> QED
  BY <1>1, <1>3, <1>4 DEF TaxInv, Undiscounted

\* A month adds its shield to the taxes and its change to the interest.
LEMMA TaxStep == TypeOK /\ TaxInv /\ [Next]_vars => TaxInv'
<1> SUFFICES ASSUME TypeOK, TaxInv, [Next]_vars PROVE TaxInv'
  OBVIOUS
<1>1. CASE Month
  <2> DEFINE s == Saving(req)
             a == AtOnce(req)
             x == Shield(req, month')
             m == req.marginal
  <2>1. req' = req /\ month' = month + 1 /\ req \in Requests /\ month \in Nat /\ month' \in Nat \ {0}
        /\ factor' = (factor * 12 * Den) \div (12 * Den + req.discount)
        /\ cum' = cum + s * factor' /\ cumTax' = cumTax + (s + x) * factor'
        /\ Undiscounted' = Undiscounted
    <3>1. month \in Nat
      BY RequestNumbers DEF TypeOK
    <3> QED
      BY <1>1, <3>1 DEF Month, TypeOK, Undiscounted
  <2> SUFFICES ASSUME Undiscounted
               PROVE  /\ factor' = Unit
                      /\ cum' = (a + s * month') * Unit
                      /\ \E sum \in Int : cumTax' = cum' + sum * Unit /\ Near(sum, month')
    <3>1. AtOnce(req)' = a /\ Saving(req)' = s /\ \A sum, t : Near(sum, t)' <=> Near(sum, t')
      BY <2>1 DEF Near, Change
    <3> QED
      BY <2>1, <3>1 DEF TaxInv, Near, Change
  <2>2. factor = Unit /\ cum = (a + s * month) * Unit /\ req.discount = 0
    BY DEF TaxInv, Undiscounted
  <2>3. PICK sum \in Int : cumTax = cum + sum * Unit /\ Near(sum, month)
    BY DEF TaxInv
  <2>4. s \in Int /\ a \in Int /\ Unit \in Nat \ {0} /\ m \in Nat /\ x \in Int
        /\ LET k == 10 * x - m * (At(NewRows(req), month', "interest") - At(OldRows(req), month', "interest"))
           IN  -5 <= k /\ k <= 5
    <3>1. m # None /\ Principal(req) <= req.limit
      BY DEF Undiscounted
    <3>2. m \in Nat
      BY <2>1, <3>1, RequestAssumption
    <3> QED
      BY <2>1, <3>1, <3>2, RequestNumbers, UnitAssumption, ShieldNear
  <2>5. factor' = Unit
    <3> DEFINE d == 12 * Den
    <3>1. d \in Nat \ {0} /\ (Unit * 12) * Den = Unit * d /\ d + 0 = d
      BY <2>4, RequestAssumption
    <3>2. factor' = (Unit * d) \div d
      BY <2>1, <2>2, <3>1
    <3> HIDE DEF d
    <3> QED
      BY <2>4, <3>1, <3>2, NoDiscount
  <2> DEFINE i == At(OldRows(req), month', "interest")
             j == At(NewRows(req), month', "interest")
             before == Change(month)
             after == Change(month')
  <2>6. i \in Nat /\ j \in Nat /\ before \in Int /\ after \in Int /\ after = before + (j - i)
    <3>1. month' - 1 = month
      BY <2>1
    <3> QED
      BY <2>1, <3>1, ChangeIs
  <2>7. -5 <= 10 * x - m * (j - i) /\ 10 * x - m * (j - i) <= 5
    BY <2>4
  <2>8. 10 * sum - m * before <= 5 * month /\ -(5 * month) <= 10 * sum - m * before
    BY <2>3 DEF Near
  <2> HIDE DEF s, a, x, m, i, j, before, after
  <2>9. cum' = (a + s * month') * Unit
    <3>1. s * month' = s * month + s /\ s * month \in Int
      BY <2>1, <2>4
    <3>2. (a + s * month') * Unit = (a + s * month) * Unit + s * Unit
      BY <2>4, <3>1
    <3> QED
      BY <2>1, <2>2, <2>5, <3>2
  <2>10. cumTax' = cum' + (sum + x) * Unit
    <3>1. (s + x) * Unit = s * Unit + x * Unit /\ (sum + x) * Unit = sum * Unit + x * Unit
      BY <2>3, <2>4
    <3>2. cum \in Int /\ s * Unit \in Int /\ x * Unit \in Int /\ sum * Unit \in Int
      BY <2>3, <2>4 DEF TypeOK
    <3> QED
      BY <2>1, <2>3, <2>5, <3>1, <3>2
  <2>11. Near(sum + x, month')
    <3>1. m * after = m * before + m * (j - i) /\ m * before \in Int /\ m * (j - i) \in Int
      BY <2>4, <2>6
    <3> DEFINE u == m * before
               v == m * (j - i)
               w == m * after
    <3>2. u \in Int /\ v \in Int /\ w = u + v /\ -5 <= 10 * x - v /\ 10 * x - v <= 5
          /\ 10 * sum - u <= 5 * month /\ -(5 * month) <= 10 * sum - u
      BY <2>7, <2>8, <3>1
    <3> HIDE DEF u, v, w
    <3>3. 10 * (sum + x) - w <= 5 * month' /\ -(5 * month') <= 10 * (sum + x) - w
      BY <2>1, <2>3, <2>4, <3>2
    <3> QED
      BY <3>3 DEF Near, w, m, after
  <2> QED
    BY <2>3, <2>4, <2>5, <2>9, <2>10, <2>11
<1>2. CASE Respond \/ UNCHANGED vars
  <2>1. UNCHANGED <<req, month, factor, cum, cumTax>>
    BY <1>2 DEF Respond, vars
  <2> QED
    BY <2>1 DEF TaxInv, Undiscounted, Near, Change
<1> QED
  BY <1>1, <1>2 DEF Next

\* The two sums of a response, before and after tax.
SumsAnswered == response # <<>> /\ req.kind # "points" =>
    /\ month = Horizon(req) /\ response.npv = Npv(cum)
    /\ response.afterTax = IF req.marginal = None THEN None ELSE Npv(cumTax)

\* Every step keeps them.
LEMMA SumsStep == TypeOK /\ Answered /\ SumsAnswered /\ [Next]_vars => SumsAnswered'
<1> SUFFICES ASSUME TypeOK, Answered, SumsAnswered, [Next]_vars PROVE SumsAnswered'
  OBVIOUS
<1>1. CASE Month
  <2>1. Horizon(req) \in Nat
    BY RequestNumbers DEF TypeOK
  <2>2. response = <<>> /\ response' = <<>>
    BY <1>1, <2>1 DEF Month, Answered
  <2> QED
    BY <2>2 DEF SumsAnswered
<1>2. CASE Respond
  <2>1. UNCHANGED <<req, month, cum, cumTax>> /\ month = Horizon(req)
    BY <1>2 DEF Respond
  <2> QED
    BY <1>2, <2>1 DEF Respond, SumsAnswered
<1>3. CASE UNCHANGED vars
  BY <1>3 DEF SumsAnswered, vars
<1> QED
  BY <1>1, <1>2, <1>3 DEF Next

\* At the end of both terms, what the schedules have charged is their total.
LEMMA TaxesAreInterest == TypeOK /\ TaxInv /\ SumsAnswered => TaxFollowsInterest
<1> DEFINE h == Horizon(req)
           delta == InterestDelta(req)
           m == req.marginal
           k == 10 * (response.afterTax - response.npv) - m * delta
<1> SUFFICES ASSUME TypeOK, TaxInv, SumsAnswered, response # <<>>, req.kind # "points", m # None,
                    req.discount = 0, h >= req.oldMonths, h >= req.newMonths,
                    Principal(req) <= req.limit
             PROVE  Magnitude(k) <= 5 * h
  BY Zenon DEF TaxFollowsInterest
<1>1. req \in Requests /\ h \in Nat \ {0} /\ month = h
      /\ req.oldMonths \in Nat \ {0} /\ req.newMonths \in Nat \ {0} /\ m \in Nat
  BY RequestNumbers, RequestAssumption DEF TypeOK, SumsAnswered
<1>2. Change(h) = delta /\ delta \in Int
  <2>1. (IF h < req.oldMonths THEN h ELSE req.oldMonths) = req.oldMonths
        /\ (IF h < req.newMonths THEN h ELSE req.newMonths) = req.newMonths
    BY <1>1
  <2>2. Change(h) = delta
    BY <2>1 DEF Change, Charged, InterestDelta
  <2>3. Change(h) \in Int
    BY <1>1, ChangeIs
  <2> QED
    BY <2>2, <2>3
<1>3. Undiscounted
  BY DEF Undiscounted
<1> DEFINE whole == AtOnce(req) + Saving(req) * month
<1>4. PICK sum \in Int : cumTax = cum + sum * Unit /\ Near(sum, month)
  BY <1>3 DEF TaxInv
<1>5. whole \in Int /\ cum = whole * Unit /\ Unit \in Nat
  <2>1. AtOnce(req) \in Int /\ Saving(req) \in Int /\ month \in Int
    BY <1>1, RequestNumbers
  <2> QED
    BY <1>3, <2>1, UnitAssumption DEF TaxInv
<1> HIDE DEF whole
<1>6. cumTax = (whole + sum) * Unit
  BY <1>4, <1>5
<1>7. Npv(cum) = whole /\ Npv(cumTax) = whole + sum
  BY <1>4, <1>5, <1>6, WholeNpv
<1>8. response.npv = whole /\ response.afterTax = whole + sum
  BY <1>7 DEF SumsAnswered
<1>9. 10 * sum - m * delta <= 5 * h /\ -(5 * h) <= 10 * sum - m * delta
  BY <1>1, <1>2, <1>4 DEF Near
<1> HIDE DEF delta, m, h
<1>10. m * delta \in Int /\ k = 10 * sum - m * delta
  BY <1>1, <1>2, <1>4, <1>5, <1>8
<1> HIDE DEF k
<1> DEFINE v == m * delta
<1>11. v \in Int /\ k = 10 * sum - v /\ 10 * sum - v <= 5 * h /\ -(5 * h) <= 10 * sum - v
  BY <1>9, <1>10
<1> HIDE DEF v
<1> QED
  BY <1>1, <1>4, <1>11 DEF Magnitude

\* Over both terms the after-tax value differs from the one before tax by the
\* marginal rate of the change in interest, for any two loans within the limit.
THEOREM TaxesFollow == Spec => []TaxFollowsInterest
<1>1. Init => Answered /\ SumsAnswered
  BY DEF Init, Answered, SumsAnswered
<1>2. ScanInv => TypeOK
  BY DEF ScanInv
<1> QED
  BY <1>1, <1>2, ScanInit, ScanStep, AnsweredStep, TaxInit, TaxStep, SumsStep, TaxesAreInterest, PTL DEF Spec
=============================================================================
