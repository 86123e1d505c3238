--------------------------- MODULE AmortizeProofs ---------------------------
(***************************************************************************)
(* Theorems about Amortize, for any loans, plans and modes that satisfy    *)
(* the assumptions.                                                        *)
(***************************************************************************)
EXTENDS Amortize, WellFoundedInduction, TLAPS

-----------------------------------------------------------------------------
(* Induction.  The induction theorems of the library are about a predicate; *)
(* these are about a set, which the provers can instantiate.                *)

\* The order of the naturals as a relation.
Less == {q \in Nat \X Nat : q[1] < q[2]}

\* A set of naturals has a least one.
LEMMA LeastNatural ==
  ASSUME NEW U, U \subseteq Nat, U # {}
  PROVE  \E x \in U : \A y \in U : x <= y
<1>1. IsWellFoundedOn(Less, Nat)
  BY NatLessThanWellFounded DEF OpToRel, Less
<1>2. \E x \in U : \A y \in U : <<y, x>> \notin Less
  BY <1>1, WFMin
<1>3. PICK x \in U : \A y \in U : <<y, x>> \notin Less
  BY <1>2
<1>4. ASSUME NEW y \in U PROVE x <= y
  <2>1. y < x => <<y, x>> \in Less
    BY DEF Less
  <2> QED
    BY <1>3, <2>1
<1> QED
  BY <1>3, <1>4

\* A set of naturals with 0 and all successors has every natural.
LEMMA SetInduction ==
  ASSUME NEW T \in SUBSET Nat, 0 \in T, \A n \in T : n + 1 \in T
  PROVE  Nat = T
<1> DEFINE U == Nat \ T
<1>1. SUFFICES ASSUME U # {} PROVE FALSE
  OBVIOUS
<1>2. PICK x \in U : \A y \in U : x <= y
  <2>1. U \subseteq Nat
    OBVIOUS
  <2> HIDE DEF U
  <2> QED
    BY <1>1, <2>1, LeastNatural
<1>3. x \in Nat /\ x # 0 /\ x - 1 \in U
  BY <1>2
<1> QED
  BY <1>2, <1>3

\* The same up to a bound.
LEMMA Reaches ==
  ASSUME NEW n \in Nat, NEW T, 0 \in T, \A k \in 1..n : k - 1 \in T => k \in T
  PROVE  0..n \subseteq T
<1> DEFINE U == {k \in Nat : k <= n => k \in T}
<1>1. 0 \in U
  OBVIOUS
<1>2. ASSUME NEW k \in U PROVE k + 1 \in U
  <2>1. k + 1 <= n => k + 1 \in 1..n /\ (k + 1) - 1 = k
    OBVIOUS
  <2> QED
    BY <2>1
<1>3. Nat = U
  <2>1. U \in SUBSET Nat
    OBVIOUS
  <2> HIDE DEF U
  <2> QED
    BY <1>1, <1>2, <2>1, SetInduction
<1> QED
  BY <1>3

\* f is defined by recursion from base, one step at a time.
Recursive(f, base, step, n) == f[0] = base /\ \A k \in 1..n : f[k] = step[k][f[k - 1]]

\* Such a function exists.
LEMMA Recursion ==
  ASSUME NEW S, NEW n \in Nat, NEW base \in S, NEW step \in [1..n -> [S -> S]]
  PROVE  \E f \in [0..n -> S] : Recursive(f, base, step, n)
<1> DEFINE T == {m \in 0..n : \E f \in [0..m -> S] : Recursive(f, base, step, m)}
<1>1. 0 \in T
  <2> DEFINE f == [k \in 0..0 |-> base]
  <2>1. f \in [0..0 -> S] /\ Recursive(f, base, step, 0)
    BY DEF Recursive
  <2> QED
    BY <2>1
<1>2. ASSUME NEW m \in 1..n, m - 1 \in T PROVE m \in T
  <2>1. PICK g \in [0..(m - 1) -> S] : Recursive(g, base, step, m - 1)
    BY <1>2
  <2> DEFINE f == [k \in 0..m |-> IF k = m THEN step[m][g[m - 1]] ELSE g[k]]
  <2>2. step[m] \in [S -> S] /\ g[m - 1] \in S
    OBVIOUS
  <2>3. f \in [0..m -> S]
    BY <2>2
  <2>4. f[0] = base /\ \A k \in 1..m : f[k] = step[k][f[k - 1]]
    BY <2>1, <2>2 DEF Recursive
  <2> HIDE DEF f
  <2>5. Recursive(f, base, step, m)
    BY <2>4 DEF Recursive
  <2> QED
    BY <2>3, <2>5
<1>3. 0..n \subseteq T
  <2> HIDE DEF T
  <2> QED
    BY <1>1, <1>2, Reaches
<1> QED
  BY <1>3

-----------------------------------------------------------------------------
(* Rounding.                                                               *)

\* A quotient is the greatest number that the divisor goes in.
LEMMA DivIsGreatest ==
  ASSUME NEW a \in Int, NEW d \in Nat \ {0}, NEW q \in Int
  PROVE  a \div d \in Int /\ (q <= a \div d <=> q * d <= a)
<1> DEFINE r == a \div d
<1>1. r \in Int /\ d * r <= a /\ a < d * r + d
  OBVIOUS
<1> HIDE DEF r
<1>2. CASE q <= r
  <2>1. (r - q) * d >= 0
    BY <1>1, <1>2
  <2> QED
    BY <1>1, <1>2, <2>1 DEF r
<1>3. CASE r + 1 <= q
  <2>1. (q - (r + 1)) * d >= 0
    BY <1>1, <1>3
  <2> QED
    BY <1>1, <1>3, <2>1 DEF r
<1> QED
  BY <1>1, <1>2, <1>3

\* Cents(n, d) is the greatest amount that is at most half a cent above n / d.
LEMMA CentsIsGreatest ==
  ASSUME NEW n \in Nat, NEW d \in Nat \ {0}, NEW q \in Int
  PROVE  /\ Cents(n, d) \in Nat
         /\ q <= Cents(n, d) <=> (2 * q - 1) * d <= 2 * n
<1> DEFINE a == 2 * n + d
           b == 2 * d
<1>1. a \in Int /\ b \in Nat \ {0} /\ Cents(n, d) = a \div b
  BY DEF Cents
<1>2. a \div b \in Int /\ \A k \in Int : k <= a \div b <=> k * b <= a
  <2> HIDE DEF a, b
  <2> QED
    BY <1>1, DivIsGreatest
<1>3. 0 <= Cents(n, d)
  BY <1>1, <1>2
<1>4. q <= Cents(n, d) <=> q * (2 * d) <= 2 * n + d
  BY <1>1, <1>2
<1> QED
  BY <1>1, <1>2, <1>3, <1>4

\* A larger quotient does not round to less.
LEMMA CentsMonotonic ==
  ASSUME NEW n \in Nat, NEW d \in Nat \ {0}, NEW m \in Nat, NEW e \in Nat \ {0},
         n * e <= m * d
  PROVE  Cents(n, d) <= Cents(m, e)
<1> DEFINE q == Cents(n, d)
           c == 2 * q - 1
<1>1. q \in Nat /\ c * d <= 2 * n
  BY CentsIsGreatest
<1> HIDE DEF q
<1>2. c \in Int
  BY <1>1
<1> HIDE DEF c
<1>3. (c * d) * e <= (2 * n) * e
  <2>1. (2 * n - c * d) * e >= 0
    BY <1>1, <1>2
  <2> QED
    BY <1>2, <2>1
<1>4. (c * e - 2 * m) * d <= 0
  BY <1>2, <1>3
<1>5. c * e <= 2 * m
  <2> DEFINE x == c * e - 2 * m
  <2>1. x \in Int /\ x * d <= 0
    BY <1>2, <1>4
  <2>2. ~ (x >= 1)
    <3> HIDE DEF x
    <3> QED
      BY <2>1
  <2> QED
    BY <1>2, <2>1, <2>2
<1> QED
  BY <1>1, <1>5, CentsIsGreatest DEF q, c

-----------------------------------------------------------------------------
(* Annuities.                                                              *)

Factor == [factor : Nat, sum : Nat]

\* u is the function that Annuity sums up.
Discounts(u, num, d, n) ==
    /\ u \in [0..n -> Factor]
    /\ u[0].factor = Unit /\ u[0].sum = 0
    /\ \A k \in 1..n : /\ u[k].factor = (u[k - 1].factor * d) \div (d + num)
                       /\ u[k].sum = u[k - 1].sum + u[k].factor

\* Annuity is the last sum of its function.
LEMMA AnnuitySteps ==
  ASSUME NEW num \in Nat, NEW d \in Nat \ {0}, NEW n \in Nat
  PROVE  \E u : Discounts(u, num, d, n) /\ Annuity(num, d, n) = u[n].sum
<1> DEFINE after(f) == (f * d) \div (d + num)
           next(v) == [factor |-> after(v.factor), sum |-> v.sum + after(v.factor)]
           base == [factor |-> Unit, sum |-> 0]
           step == [k \in 1..n |-> [v \in Factor |-> next(v)]]
           UpTo(u) == u = [k \in 0..n |-> IF k = 0 THEN base ELSE next(u[k - 1])]
<1>1. ASSUME NEW f \in Nat PROVE after(f) \in Nat
  <2> DEFINE a == f * d
             e == d + num
  <2>1. a \in Nat /\ e \in Nat \ {0}
    OBVIOUS
  <2> HIDE DEF a, e
  <2>2. a \div e \in Int /\ 0 <= a \div e
    BY <2>1, DivIsGreatest
  <2> QED
    BY <2>2 DEF a, e
<1> HIDE DEF after
<1>2. base \in Factor /\ \A v \in Factor : next(v) \in Factor
  BY <1>1, UnitAssumption DEF Factor
<1>3. step \in [1..n -> [Factor -> Factor]]
  BY <1>2
<1>4. PICK w \in [0..n -> Factor] : Recursive(w, base, step, n)
  <2> HIDE DEF base, step
  <2> QED
    BY <1>2, <1>3, Recursion
<1>5. UpTo(w)
  <2>1. \A k \in 1..n : step[k][w[k - 1]] = next(w[k - 1])
    BY <1>4
  <2>2. w[0] = base /\ \A k \in 1..n : w[k] = next(w[k - 1])
    BY <1>4, <2>1 DEF Recursive
  <2> HIDE DEF base, next
  <2> QED
    BY <2>2
<1>6. PICK u : u = CHOOSE v : UpTo(v)
  OBVIOUS
<1>7. UpTo(u)
  <2> HIDE DEF UpTo
  <2> QED
    BY <1>5, <1>6
<1>8. u[0] = base /\ \A k \in 1..n : u[k] = next(u[k - 1])
  <2> HIDE DEF base, next
  <2> QED
    BY <1>7
<1>9. u \in [0..n -> Factor]
  <2> DEFINE T == {k \in 0..n : u[k] \in Factor}
  <2>1. 0 \in T /\ \A k \in 1..n : k - 1 \in T => k \in T
    <3> HIDE DEF next, base
    <3> QED
      BY <1>2, <1>8
  <2>2. 0..n \subseteq T
    <3> HIDE DEF T
    <3> QED
      BY <2>1, Reaches
  <2> HIDE DEF base, next
  <2> QED
    BY <1>7, <2>2
<1>10. ASSUME NEW k \in 1..n
       PROVE  u[k].factor = after(u[k - 1].factor) /\ u[k].sum = u[k - 1].sum + u[k].factor
  <2> DEFINE v == u[k - 1]
  <2>1. u[k] = next(v)
    BY <1>8
  <2> HIDE DEF v
  <2>2. u[k].factor = after(v.factor) /\ u[k].sum = v.sum + after(v.factor)
    BY <2>1
  <2> QED
    BY <2>2 DEF v
<1>11. u[0].factor = Unit /\ u[0].sum = 0
  BY <1>8
<1>12. Annuity(num, d, n) = u[n].sum
  BY <1>6 DEF Annuity, after
<1>13. Discounts(u, num, d, n)
  BY <1>9, <1>10, <1>11 DEF Discounts, after
<1> QED
  BY <1>12, <1>13

\* An annuity is worth something, and no more than payments for ever.
LEMMA AnnuityBounds ==
  ASSUME NEW num \in Nat, NEW d \in Nat \ {0}, NEW n \in Nat \ {0}, num <= d
  PROVE  /\ Annuity(num, d, n) \in Nat \ {0}
         /\ num * Annuity(num, d, n) <= d * Unit
<1>1. PICK u : Discounts(u, num, d, n) /\ Annuity(num, d, n) = u[n].sum
  BY AnnuitySteps
<1>2. \A k \in 0..n : u[k].factor \in Nat /\ u[k].sum \in Nat
  BY <1>1 DEF Discounts, Factor
<1>3. u[0].sum = 0 /\ u[0].factor = Unit /\ \A k \in 1..n : u[k].sum = u[k - 1].sum + u[k].factor
  BY <1>1 DEF Discounts
<1>4. ASSUME NEW k \in 1..n, NEW q \in Nat
      PROVE  q <= u[k].factor <=> q * (d + num) <= u[k - 1].factor * d
  <2> DEFINE a == u[k - 1].factor * d
             e == d + num
  <2>1. a \in Int /\ e \in Nat \ {0} /\ u[k].factor = a \div e
    BY <1>1, <1>2 DEF Discounts
  <2> HIDE DEF a, e
  <2>2. q <= a \div e <=> q * e <= a
    BY <2>1, DivIsGreatest
  <2> QED
    BY <2>1, <2>2 DEF a, e
<1> DEFINE T == {k \in 0..n : num * u[k].sum + d * u[k].factor <= d * Unit}
           P == {k \in 0..n : k = 0 \/ u[k].sum >= 1}
<1>5. ASSUME NEW k \in 1..n, k - 1 \in T PROVE k \in T
  <2> DEFINE f == u[k - 1].factor
             g == u[k].factor
             s == u[k - 1].sum
  <2>1. /\ f \in Nat /\ g \in Nat /\ s \in Nat /\ u[k].sum = s + g
        /\ num * s + d * f <= d * Unit /\ g * (d + num) <= f * d
    BY <1>2, <1>3, <1>4, <1>5
  <2> HIDE DEF f, g, s
  <2>2. num * (s + g) + d * g <= d * Unit
    BY <2>1, UnitAssumption
  <2> QED
    BY <2>1, <2>2 DEF g, s
<1>6. 0..n \subseteq T
  <2>1. 0 \in T
    BY <1>3, UnitAssumption
  <2> HIDE DEF T
  <2> QED
    BY <1>5, <2>1, Reaches
<1>7. ASSUME NEW k \in 1..n, k - 1 \in P PROVE k \in P
  <2>1. CASE k = 1
    <3>1. 1 * (d + num) <= Unit * d
      <4>1. 2 * d <= Unit * d
        BY UnitAssumption
      <4> QED
        BY <4>1, UnitAssumption
    <3> QED
      BY <1>2, <1>3, <1>4, <2>1, <3>1
  <2>2. CASE k # 1
    BY <1>2, <1>3, <1>7, <2>2
  <2> QED
    BY <2>1, <2>2
<1>8. 0..n \subseteq P
  <2>1. 0 \in P
    OBVIOUS
  <2> HIDE DEF P
  <2> QED
    BY <1>7, <2>1, Reaches
<1> DEFINE s == u[n].sum
           f == u[n].factor
<1>9. s \in Nat \ {0} /\ f \in Nat /\ num * s + d * f <= d * Unit
  BY <1>2, <1>6, <1>8
<1> HIDE DEF s, f
<1>10. num * s <= d * Unit
  <2> DEFINE x == num * s
             y == d * f
             z == d * Unit
  <2>1. x \in Nat /\ y \in Nat /\ z \in Nat /\ x + y <= z
    BY <1>9, UnitAssumption
  <2> HIDE DEF x, y, z
  <2>2. x <= z
    BY <2>1
  <2> QED
    BY <2>2 DEF x, z
<1> QED
  BY <1>1, <1>9, <1>10 DEF s

\* At a yearly rate of no more than 100 percent, the first payment alone is worth
\* half of itself.
LEMMA AnnuityIsHalf ==
  ASSUME NEW num \in Nat, NEW d \in Nat \ {0}, NEW n \in Nat \ {0}, 12 * num <= d
  PROVE  Unit <= 2 * Annuity(num, d, n)
<1> DEFINE q == (Unit + 1) \div 2
<1>1. PICK u : Discounts(u, num, d, n) /\ Annuity(num, d, n) = u[n].sum
  BY AnnuitySteps
<1>2. \A k \in 0..n : u[k].factor \in Nat /\ u[k].sum \in Nat
  BY <1>1 DEF Discounts, Factor
<1>3. u[0].sum = 0 /\ u[0].factor = Unit /\ \A k \in 1..n : u[k].sum = u[k - 1].sum + u[k].factor
  BY <1>1 DEF Discounts
<1>4. q \in Nat /\ Unit <= 2 * q /\ 2 * q <= Unit + 1 /\ Unit \in Nat /\ Unit >= 2
  BY UnitAssumption
<1> HIDE DEF q
<1>5. q <= u[1].factor
  <2> DEFINE a == Unit * d
             e == d + num
  <2>1. a \in Int /\ e \in Nat \ {0} /\ u[1].factor = a \div e
    <3>1. 1 \in 1..n /\ 1 - 1 = 0
      OBVIOUS
    <3>2. u[1].factor = (u[1 - 1].factor * d) \div (d + num)
      BY <1>1, <3>1 DEF Discounts
    <3> QED
      BY <1>3, <1>4, <3>1, <3>2
  <2>2. q * e <= a
    <3>1. (13 * d - 12 * e) * q >= 0
      <4>1. 13 * d - 12 * e \in Nat
        OBVIOUS
      <4> HIDE DEF e
      <4> QED
        BY <1>4, <4>1
    <3>2. (12 * Unit - 13 * q) * d >= 0
      <4>1. 12 * Unit - 13 * q \in Nat
        BY <1>4
      <4> QED
        BY <4>1
    <3>3. (13 * d - 12 * e) * q = 13 * (d * q) - 12 * (q * e)
      <4>1. e \in Int
        OBVIOUS
      <4> HIDE DEF e
      <4> QED
        BY <1>4, <4>1
    <3>4. (12 * Unit - 13 * q) * d = 12 * a - 13 * (d * q)
      BY <1>4
    <3>5. d * q \in Int /\ q * e \in Int /\ a \in Int
      BY <1>4
    <3> HIDE DEF a, e
    <3> QED
      BY <3>1, <3>2, <3>3, <3>4, <3>5
  <2> HIDE DEF a, e
  <2>3. q <= a \div e
    BY <1>4, <2>1, <2>2, DivIsGreatest
  <2> QED
    BY <2>1, <2>3
<1> DEFINE T == {k \in 0..n : k = 0 \/ q <= u[k].sum}
<1>6. ASSUME NEW k \in 1..n, k - 1 \in T PROVE k \in T
  <2>1. CASE k = 1
    BY <1>2, <1>3, <1>5, <2>1
  <2>2. CASE k # 1
    BY <1>2, <1>3, <1>4, <1>6, <2>2
  <2> QED
    BY <2>1, <2>2
<1>7. 0..n \subseteq T
  <2>1. 0 \in T
    OBVIOUS
  <2> HIDE DEF T
  <2> QED
    BY <1>6, <2>1, Reaches
<1> QED
  BY <1>1, <1>2, <1>4, <1>7

\* At a higher rate an annuity is worth no more, wherever its factors are cut off.
LEMMA AnnuityFalls ==
  ASSUME NEW num \in Nat, NEW more \in Nat, num <= more, NEW d \in Nat \ {0}, NEW n \in Nat
  PROVE  Annuity(more, d, n) <= Annuity(num, d, n)
<1>1. PICK u : Discounts(u, num, d, n) /\ Annuity(num, d, n) = u[n].sum
  BY AnnuitySteps
<1>2. PICK v : Discounts(v, more, d, n) /\ Annuity(more, d, n) = v[n].sum
  BY AnnuitySteps
<1>3. /\ \A k \in 0..n : u[k].factor \in Nat /\ u[k].sum \in Nat
      /\ \A k \in 0..n : v[k].factor \in Nat /\ v[k].sum \in Nat
  BY <1>1, <1>2 DEF Discounts, Factor
<1> DEFINE T == {k \in 0..n : v[k].factor <= u[k].factor /\ v[k].sum <= u[k].sum}
<1>4. 0 \in T
  BY <1>1, <1>2, UnitAssumption DEF Discounts
<1>5. ASSUME NEW k \in 1..n, k - 1 \in T PROVE k \in T
  <2> DEFINE f == u[k - 1].factor
             g == v[k - 1].factor
             h == v[k].factor
             a == f * d
             b == g * d
             e == d + num
             c == d + more
  <2>1. f \in Nat /\ g \in Nat /\ h \in Nat /\ g <= f
    BY <1>3, <1>5
  <2>2. u[k].factor = a \div e /\ h = b \div c
    BY <1>1, <1>2 DEF Discounts
  <2>3. a \in Nat /\ b \in Nat /\ e \in Nat \ {0} /\ c \in Nat \ {0} /\ b <= a /\ h * e <= h * c
    <3>1. (f - g) * d >= 0 /\ h * (more - num) >= 0
      BY <2>1
    <3> HIDE DEF f, g, h
    <3> QED
      BY <2>1, <3>1
  <2> HIDE DEF f, g, h, a, b, e, c
  <2>4. h * c <= b
    BY <2>1, <2>2, <2>3, DivIsGreatest
  <2>5. h * e <= a
    <3> DEFINE x == h * c
               y == h * e
    <3>1. x \in Nat /\ y \in Nat /\ x <= b /\ y <= x
      BY <2>1, <2>3, <2>4
    <3> HIDE DEF x, y
    <3>2. y <= a
      BY <2>3, <3>1
    <3> QED
      BY <3>2 DEF y
  <2>6. h <= u[k].factor
    BY <2>1, <2>2, <2>3, <2>5, DivIsGreatest
  <2>7. u[k].sum = u[k - 1].sum + u[k].factor /\ v[k].sum = v[k - 1].sum + h
    BY <1>1, <1>2 DEF Discounts, h
  <2>8. v[k].factor <= u[k].factor /\ v[k].sum <= u[k].sum
    BY <1>3, <1>5, <2>6, <2>7 DEF h
  <2> QED
    BY <2>8
<1>6. 0..n \subseteq T
  <2> HIDE DEF T
  <2> QED
    BY <1>4, <1>5, Reaches
<1> QED
  BY <1>1, <1>2, <1>6

\* A larger loan, or one at a higher rate, is never cheaper by the month.
LEMMA PaymentRises ==
  ASSUME NEW p \in Nat, NEW q \in Nat, p <= q, NEW num \in Nat, NEW more \in Nat, num <= more,
         NEW den \in Nat \ {0}, more <= 12 * den, NEW n \in Nat \ {0}
  PROVE  /\ LevelPayment(p, num, den, n) \in Nat /\ LevelPayment(q, more, den, n) \in Nat
         /\ LevelPayment(p, num, den, n) <= LevelPayment(q, more, den, n)
<1> DEFINE d == 12 * den
           A == Annuity(num, d, n)
           B == Annuity(more, d, n)
           x == p * Unit
           y == q * Unit
<1>1. d \in Nat \ {0} /\ num <= d /\ more <= d
  OBVIOUS
<1>2. LevelPayment(p, num, den, n) = Cents(x, A) /\ LevelPayment(q, more, den, n) = Cents(y, B)
  BY DEF LevelPayment
<1>3. x \in Nat /\ y \in Nat /\ x <= y
  <2>1. (q - p) * Unit >= 0
    BY UnitAssumption
  <2> QED
    BY <2>1, UnitAssumption
<1>4. A \in Nat \ {0} /\ B \in Nat \ {0} /\ B <= A
  <2> HIDE DEF d
  <2> QED
    BY <1>1, AnnuityBounds, AnnuityFalls
<1> HIDE DEF x, y, A, B
<1>5. x * B <= y * A
  <2> DEFINE r == x * B
             s == y * B
             t == y * A
  <2>1. r \in Nat /\ s \in Nat /\ t \in Nat
    BY <1>3, <1>4
  <2>2. r <= s
    <3>1. (y - x) * B >= 0
      BY <1>3, <1>4
    <3> QED
      BY <1>3, <1>4, <3>1
  <2>3. s <= t
    <3>1. (A - B) * y >= 0
      BY <1>3, <1>4
    <3> QED
      BY <1>3, <1>4, <3>1
  <2> HIDE DEF r, s, t
  <2>4. r <= t
    BY <2>1, <2>2, <2>3
  <2> QED
    BY <2>4 DEF r, t
<1> QED
  BY <1>2, <1>3, <1>4, <1>5, CentsIsGreatest, CentsMonotonic

\* The level payment of a loan is an amount that covers the interest of its
\* first month, however the factors of the annuity are cut off.
LEMMA PaymentCoversInterest ==
  ASSUME NEW p \in Nat, NEW num \in Nat, NEW den \in Nat \ {0}, NEW n \in Nat \ {0}, num <= den
  PROVE  /\ LevelPayment(p, num, den, n) \in Nat
         /\ Cents(p * num, 12 * den) <= LevelPayment(p, num, den, n)
<1> DEFINE d == 12 * den
           A == Annuity(num, d, n)
<1>1. d \in Nat \ {0} /\ num <= d
  OBVIOUS
<1>2. A \in Nat \ {0} /\ num * A <= d * Unit
  <2> HIDE DEF d
  <2> QED
    BY <1>1, AnnuityBounds
<1>3. LevelPayment(p, num, den, n) = Cents(p * Unit, A)
  BY DEF LevelPayment
<1> HIDE DEF d, A
<1>4. p * num \in Nat /\ p * Unit \in Nat
  BY UnitAssumption
<1>5. (p * num) * A <= (p * Unit) * d
  <2>1. p * (d * Unit - num * A) >= 0
    BY <1>1, <1>2, UnitAssumption
  <2> QED
    BY <1>1, <1>2, <2>1, UnitAssumption
<1>6. Cents(p * num, d) <= Cents(p * Unit, A)
  <2> DEFINE x == p * num
             y == p * Unit
  <2> HIDE DEF x, y
  <2>1. x \in Nat /\ y \in Nat /\ x * A <= y * d
    BY <1>4, <1>5 DEF x, y
  <2>2. Cents(x, d) <= Cents(y, A)
    BY <1>1, <1>2, <2>1, CentsMonotonic
  <2> QED
    BY <2>2 DEF x, y
<1>7. Cents(p * Unit, A) \in Nat
  BY <1>2, <1>4, CentsIsGreatest
<1> QED
  BY <1>3, <1>6, <1>7 DEF d

-----------------------------------------------------------------------------
(* The amounts of a row.                                                   *)

\* The interest of a row is an amount, and of a smaller balance no larger.
LEMMA InterestMonotonic ==
  ASSUME NEW l \in Loans, NEW m \in Modes, NEW b \in Nat, NEW c \in Nat, b <= c
  PROVE  Interest(l, m, b) \in Nat /\ Interest(l, m, b) <= Interest(l, m, c)
<1> DEFINE d == l.den * PeriodsPerYear(m)
           x == b * l.num
           y == c * l.num
<1>1. l.num \in Nat /\ d \in Nat \ {0}
  BY LoanAssumption DEF PeriodsPerYear
<1>2. x \in Nat /\ y \in Nat /\ x <= y
  <2>1. (c - b) * l.num >= 0
    BY <1>1
  <2> QED
    BY <1>1, <2>1
<1> HIDE DEF d, x, y
<1>3. x * d <= y * d
  <2>1. (y - x) * d >= 0
    BY <1>1, <1>2
  <2> QED
    BY <1>1, <1>2, <2>1
<1>4. Cents(x, d) \in Nat /\ Cents(x, d) <= Cents(y, d)
  BY <1>1, <1>2, <1>3, CentsIsGreatest, CentsMonotonic
<1> QED
  BY <1>4 DEF Interest, d, x, y

\* The level payment of every mode covers the interest of the first row: half
\* of the payment that covers a month, rounded, covers two weeks.
LEMMA LevelCoversInterest ==
  ASSUME NEW l \in Loans, NEW m \in Modes
  PROVE  Level(l, m) \in Nat /\ Interest(l, m, l.principal) <= Level(l, m)
<1> DEFINE x == l.principal * l.num
           den == l.den
           M == MonthlyPi(l)
           i == Cents(x, 12 * den)
<1>1. /\ l.principal \in Nat /\ l.num \in Nat /\ den \in Nat \ {0} /\ l.term \in Nat \ {0}
      /\ l.num <= den /\ m \in {"monthly", "half-monthly", "biweekly"}
  BY LoanAssumption
<1>2. x \in Nat /\ 12 * den \in Nat \ {0} /\ 26 * den \in Nat \ {0}
  BY <1>1
<1>3. M \in Nat /\ i <= M
  <2>1. MonthlyPi(l) = LevelPayment(l.principal, l.num, l.den, l.term)
    BY DEF MonthlyPi
  <2> QED
    BY <1>1, <2>1, PaymentCoversInterest
<1> HIDE DEF x, den, M
<1>4. CASE m # "biweekly"
  <2>1. Level(l, m) = M /\ Interest(l, m, l.principal) = Cents(x, den * 12)
    BY <1>4 DEF Level, Interest, PeriodsPerYear, M, x, den
  <2> QED
    BY <1>1, <1>3, <2>1
<1>5. CASE m = "biweekly"
  <2> DEFINE q == Cents(x, 26 * den)
  <2>1. Level(l, m) = Cents(M, 2) /\ Interest(l, m, l.principal) = q
    <3>1. Interest(l, m, l.principal) = Cents(x, den * 26)
      BY <1>5 DEF Interest, PeriodsPerYear, x, den
    <3> QED
      BY <1>1, <1>5, <3>1 DEF Level, M
  <2>2. q \in Nat /\ (2 * q - 1) * (26 * den) <= 2 * x
    <3> DEFINE e == 26 * den
    <3>1. e \in Nat \ {0}
      BY <1>2
    <3> HIDE DEF e
    <3>2. Cents(x, e) \in Nat
      BY <1>2, <3>1, CentsIsGreatest
    <3>3. (2 * Cents(x, e) - 1) * e <= 2 * x
      BY <1>2, <3>1, <3>2, CentsIsGreatest
    <3> QED
      BY <3>2, <3>3, Zenon DEF e
  <2>3. i \in Nat /\ ~ ((2 * (i + 1) - 1) * (12 * den) <= 2 * x)
    <3> DEFINE e == 12 * den
    <3>1. e \in Nat \ {0}
      BY <1>2
    <3> HIDE DEF e
    <3>2. Cents(x, e) \in Nat
      BY <1>2, <3>1, CentsIsGreatest
    <3>3. ~ ((2 * (Cents(x, e) + 1) - 1) * e <= 2 * x)
      BY <1>2, <3>1, <3>2, CentsIsGreatest
    <3> QED
      BY <3>2, <3>3, Zenon DEF e
  <2> HIDE DEF q, i
  <2>4. 2 * q - 1 <= i
    <3> SUFFICES ASSUME i + 1 <= 2 * q - 1 PROVE FALSE
      BY <2>2, <2>3
    <3>1. (2 * i + 1) * 12 + 1 <= (2 * q - 1) * 26
      BY <2>2, <2>3
    <3>2. (2 * i + 1) * 12 * den + den <= (2 * q - 1) * 26 * den
      <4> DEFINE u == (2 * i + 1) * 12
                 v == (2 * q - 1) * 26
      <4>1. u \in Int /\ v \in Int /\ u + 1 <= v
        BY <2>2, <2>3, <3>1
      <4> HIDE DEF u, v
      <4>2. (v - (u + 1)) * den >= 0
        BY <1>1, <4>1
      <4>3. u * den + den <= v * den
        BY <1>1, <4>1, <4>2
      <4> QED
        BY <4>3 DEF u, v
    <3> QED
      BY <1>1, <1>2, <2>2, <2>3, <3>2
  <2>5. Cents(M, 2) \in Nat /\ (q <= Cents(M, 2) <=> (2 * q - 1) * 2 <= 2 * M)
    BY <1>3, <2>2, CentsIsGreatest
  <2>6. q <= Cents(M, 2)
    <3>1. i <= M
      BY <1>3 DEF i
    <3> QED
      BY <1>3, <2>2, <2>3, <2>4, <2>5, <3>1
  <2> QED
    BY <2>1, <2>5, <2>6
<1> QED
  BY <1>4, <1>5

\* An entry of extra_principal.
ExtraEntry == [period : Nat \ {0}, amount : Nat \ {0}, recurring : BOOLEAN]

\* A plan has a recurring extra in force that started last.
LEMMA LatestExists ==
  ASSUME NEW x \in Seq(ExtraEntry), NEW active \in SUBSET DOMAIN x, active # {}
  PROVE  \E i \in active : \A j \in active : x[j].period <= x[i].period
<1> DEFINE n == Len(x)
           Latest(k, i) == \A j \in active : j <= k => x[j].period <= x[i].period
           T == {k \in 0..n : (\E j \in active : j <= k) => \E i \in active : Latest(k, i)}
<1>1. n \in Nat /\ active \subseteq 1..n
  OBVIOUS
<1>2. \A j \in active : x[j].period \in Nat
  <2>1. \A j \in active : x[j] \in ExtraEntry
    OBVIOUS
  <2> QED
    BY <2>1 DEF ExtraEntry
<1> HIDE DEF n
<1>3. 0 \in T
  BY <1>1
<1>4. ASSUME NEW k \in 1..n, k - 1 \in T, \E j \in active : j <= k
      PROVE  \E i \in active : Latest(k, i)
  <2>1. \A j \in active : j <= k => j = k \/ j <= k - 1
    BY <1>1
  <2>2. CASE \A j \in active : j <= k => j = k
    <3>1. k \in active /\ Latest(k, k)
      BY <1>1, <1>2, <1>4, <2>2
    <3> HIDE DEF Latest
    <3> QED
      BY <3>1
  <2>3. CASE \E j \in active : j <= k - 1
    <3>1. PICK i \in active : Latest(k - 1, i)
      BY <1>4, <2>3
    <3>2. CASE k \in active /\ x[i].period <= x[k].period
      <4>1. Latest(k, k)
        BY <1>2, <2>1, <3>1, <3>2
      <4> HIDE DEF Latest
      <4> QED
        BY <3>2, <4>1
    <3>3. CASE ~ (k \in active /\ x[i].period <= x[k].period)
      <4>1. Latest(k, i)
        BY <1>2, <2>1, <3>1, <3>3
      <4> HIDE DEF Latest
      <4> QED
        BY <4>1
    <3> QED
      BY <3>2, <3>3
  <2> QED
    BY <2>1, <2>2, <2>3
<1>5. n \in T
  <2>1. \A k \in 1..n : k - 1 \in T => k \in T
    <3> SUFFICES ASSUME NEW k \in 1..n, k - 1 \in T PROVE k \in T
      OBVIOUS
    <3>1. (\E j \in active : j <= k) => \E i \in active : Latest(k, i)
      BY <1>4
    <3>2. k \in 0..n
      BY <1>1
    <3> HIDE DEF Latest
    <3> QED
      BY <3>1, <3>2
  <2> HIDE DEF T
  <2>2. n \in Nat /\ n \in 0..n
    BY <1>1
  <2>3. 0..n \subseteq T
    BY <1>3, <2>1, <2>2, Reaches
  <2> QED
    BY <2>2, <2>3
<1>6. PICK i \in active : Latest(n, i)
  BY <1>1, <1>5
<1> QED
  BY <1>1, <1>6

\* The extra of a period is an amount; without a plan there is none.
LEMMA ExtraIsAmount ==
  ASSUME NEW x \in Seq(ExtraEntry), NEW p \in Nat
  PROVE  RawExtra(x, p) \in Nat /\ (x = <<>> => RawExtra(x, p) = 0)
<1> DEFINE n == Len(x)
           active == {i \in DOMAIN x : x[i].recurring /\ x[i].period <= p}
           latest == CHOOSE i \in active : \A j \in active : x[j].period <= x[i].period
           base == IF active = {} THEN 0 ELSE x[latest].amount
           next(k, v) == IF ~ x[k].recurring /\ x[k].period = p THEN v + x[k].amount ELSE v
           step == [k \in 1..n |-> [v \in Nat |-> next(k, v)]]
           UpTo(u) == u = [k \in 0..n |-> IF k = 0 THEN base ELSE next(k, u[k - 1])]
<1>1. n \in Nat /\ DOMAIN x = 1..n /\ \A k \in 1..n : x[k].amount \in Nat
  <2>1. n \in Nat /\ DOMAIN x = 1..n /\ \A k \in 1..n : x[k] \in ExtraEntry
    OBVIOUS
  <2> QED
    BY <2>1 DEF ExtraEntry
<1>2. base \in Nat /\ (x = <<>> => base = 0)
  <2>1. CASE active = {}
    BY <2>1
  <2>2. CASE active # {}
    <3>1. active \in SUBSET DOMAIN x
      OBVIOUS
    <3> HIDE DEF active
    <3>2. latest \in active
      BY <2>2, <3>1, LatestExists
    <3> QED
      BY <1>1, <2>2, <3>1, <3>2
  <2> QED
    BY <2>1, <2>2
<1>3. \A k \in 1..n, v \in Nat : next(k, v) \in Nat
  BY <1>1
<1> HIDE DEF n, base
<1>4. PICK w \in [0..n -> Nat] : Recursive(w, base, step, n)
  <2>1. step \in [1..n -> [Nat -> Nat]]
    BY <1>3
  <2> HIDE DEF step
  <2> QED
    BY <1>1, <1>2, <2>1, Recursion
<1>5. UpTo(w)
  <2>1. \A k \in 1..n : step[k][w[k - 1]] = next(k, w[k - 1])
    BY <1>1, <1>4
  <2>2. w[0] = base /\ \A k \in 1..n : w[k] = next(k, w[k - 1])
    BY <1>4, <2>1 DEF Recursive
  <2> HIDE DEF next
  <2> QED
    BY <2>2
<1>6. PICK u : u = CHOOSE v : UpTo(v)
  OBVIOUS
<1>7. UpTo(u)
  <2> HIDE DEF UpTo
  <2> QED
    BY <1>5, <1>6
<1>8. u[0] = base /\ \A k \in 1..n : u[k] = next(k, u[k - 1])
  <2> HIDE DEF next
  <2> QED
    BY <1>1, <1>7
<1>9. u[n] \in Nat
  <2> DEFINE T == {k \in 0..n : u[k] \in Nat}
  <2>1. 0 \in T
    BY <1>1, <1>2, <1>8
  <2>2. ASSUME NEW k \in 1..n, k - 1 \in T PROVE k \in T
    <3>1. u[k - 1] \in Nat /\ k \in 0..n
      BY <1>1, <2>2
    <3>2. next(k, u[k - 1]) \in Nat
      BY <1>3, <3>1
    <3>3. u[k] = next(k, u[k - 1])
      BY <1>8
    <3> HIDE DEF next
    <3> QED
      BY <3>1, <3>2, <3>3
  <2>3. 0..n \subseteq T
    <3> HIDE DEF T
    <3> QED
      BY <1>1, <2>1, <2>2, Reaches
  <2> QED
    BY <1>1, <2>3
<1>10. RawExtra(x, p) = u[n]
  BY <1>6 DEF RawExtra, n, base
<1>11. x = <<>> => n = 0
  BY DEF n
<1> QED
  BY <1>2, <1>8, <1>9, <1>10, <1>11

\* The same of the plans of a request.
LEMMA PlanExtra ==
  ASSUME NEW x \in Plans, NEW p \in Nat
  PROVE  RawExtra(x, p) \in Nat
  BY LoanAssumption, ExtraIsAmount DEF ExtraEntry

-----------------------------------------------------------------------------
(* One row.                                                                *)

\* Principal is conserved and no more rows are built than are allowed.
SumInv == /\ TypeOK
          /\ cumPrin + cumExtra + balance = loan.principal
          /\ Len(rows) = period
          /\ outcome = "paid" => balance = 0
          /\ mode # "biweekly" =>
               /\ outcome # "raised"
               /\ outcome = "running" => period < loan.term

\* What is known of a row when it is added to the schedule.
Adds(row) ==
    /\ outcome = "running" /\ outcome' \in {"running", "paid"}
    /\ UNCHANGED request
    /\ period' = period + 1 /\ balance' = row.balance /\ rows' = Append(rows, row)
    /\ cumInt' = row.cumInt /\ cumPrin' = row.cumPrin /\ cumExtra' = cumExtra + row.extra
    /\ row.cumInt = cumInt + row.interest /\ row.cumPrin = cumPrin + row.principal
    /\ row.balance = balance - row.principal - row.extra
    /\ row.payment = row.principal + row.interest
    /\ row.extra < RawExtra(plan, period + 1) => row.balance = 0
    /\ row.extra <= RawExtra(plan, period + 1)
    /\ outcome' = "running" =>
         /\ row.payment = Level(loan, mode) /\ row.extra = RawExtra(plan, period + 1)
         /\ mode # "biweekly" => period + 1 < loan.term
         /\ row.balance # 0
    /\ outcome' = "paid" =>
         /\ row.balance = 0
         /\ mode # "biweekly" /\ period + 1 < loan.term /\ row.extra = 0 =>
              row.payment <= Level(loan, mode)

\* A row has no negative field; it pays the balance off, or it is the level
\* payment and leaves a balance unless an extra takes the rest.
LEMMA RowShape ==
  ASSUME SumInv, period + 1 \in 1..(2 * loan.term + 10),
         NEW payoff \in BOOLEAN, Overshoot => payoff,
         NEW row, row = Row(payoff)
  PROVE  /\ row \in PaymentRow
         /\ row.cumInt = cumInt + row.interest /\ row.cumPrin = cumPrin + row.principal
         /\ row.balance = balance - row.principal - row.extra
         /\ row.payment = row.principal + row.interest
         /\ row.extra < RawExtra(plan, period + 1) => row.balance = 0
         /\ row.extra <= RawExtra(plan, period + 1)
         /\ payoff => row.balance = 0 /\ row.payment = balance + Interest(loan, mode, balance)
         /\ ~ payoff => /\ row.payment = Level(loan, mode)
                        /\ row.balance = 0 => row.extra > 0
                        /\ row.extra # RawExtra(plan, period + 1) => row.balance = 0
<1> DEFINE level == Level(loan, mode)
           interest == Interest(loan, mode, balance)
           principal == IF payoff THEN balance ELSE level - interest
           raw == RawExtra(plan, period + 1)
           cap == balance - principal
           extra == ResolveExtra(plan, period + 1, cap)
<1>1. /\ loan \in Loans /\ mode \in Modes /\ plan \in Plans
      /\ balance \in Nat /\ loan.principal \in Nat /\ balance <= loan.principal
  BY LoanAssumption DEF SumInv, TypeOK, Cent
<1>2. level \in Nat /\ interest \in Nat /\ interest <= level
  <2>1. interest \in Nat /\ interest <= Interest(loan, mode, loan.principal)
    BY <1>1, InterestMonotonic
  <2>2. Interest(loan, mode, loan.principal) \in Nat
    BY <1>1, InterestMonotonic
  <2>3. level \in Nat /\ Interest(loan, mode, loan.principal) <= level
    BY <1>1, LevelCoversInterest
  <2> QED
    BY <2>1, <2>2, <2>3
<1>3. raw \in Nat
  <2>1. period + 1 \in Nat
    BY DEF SumInv, TypeOK
  <2> QED
    BY <1>1, <2>1, PlanExtra
<1>4. ~ payoff => balance + interest > level
  BY <1>1, <1>2 DEF Overshoot
<1> HIDE DEF level, interest, raw
<1>5. principal \in 0..balance /\ (payoff <=> cap = 0)
  BY <1>1, <1>2, <1>4
<1>6. extra = IF cap <= 0 THEN 0 ELSE IF raw <= cap THEN raw ELSE cap
  BY <1>1, <1>3, <1>5 DEF ResolveExtra, raw
<1>7. row = [interest |-> interest, principal |-> principal, extra |-> extra,
             payment |-> IF payoff THEN principal + interest ELSE level,
             cumInt |-> cumInt + interest, cumPrin |-> cumPrin + principal,
             balance |-> balance - principal - extra]
  BY DEF Row, level, interest
<1> HIDE DEF extra
<1>8. /\ extra \in 0..cap /\ extra <= raw
      /\ (cap > 0 => (extra < raw => extra = cap) /\ (extra # raw => extra = cap))
  BY <1>1, <1>3, <1>5, <1>6
<1>9. row.payment = IF payoff THEN principal + interest ELSE level
  BY <1>7
<1>10. /\ row.interest = interest /\ row.principal = principal
       /\ row.extra = extra /\ row.balance = balance - principal - extra
       /\ row.cumInt = cumInt + interest /\ row.cumPrin = cumPrin + principal
  BY <1>7
<1>11. row \in PaymentRow
  <2>1. row.payment \in Nat /\ row.balance \in Nat
    BY <1>1, <1>2, <1>5, <1>8, <1>9, <1>10
  <2>2. interest \in Nat /\ principal \in Nat /\ extra \in Nat
    BY <1>1, <1>2, <1>5, <1>8
  <2>3. row.cumInt \in Nat /\ row.cumPrin \in Nat
    BY <1>10, <2>2 DEF SumInv, TypeOK, Cent
  <2> QED
    BY <1>7, <2>1, <2>2, <2>3 DEF PaymentRow, Cent
<1>12. row.payment = row.principal + row.interest
  BY <1>1, <1>2, <1>5, <1>9, <1>10
<1>13. /\ ~ payoff => row.payment = level
       /\ payoff => row.balance = 0 /\ row.payment = balance + interest
       /\ ~ payoff => (row.balance = 0 => row.extra > 0)
       /\ ~ payoff => (row.extra # raw => row.balance = 0)
       /\ row.extra < raw => row.balance = 0
       /\ row.extra <= raw
  BY <1>1, <1>2, <1>3, <1>5, <1>8, <1>9, <1>10
<1> QED
  BY <1>10, <1>11, <1>12, <1>13 DEF level, interest, raw

\* The row of either builder is added: the constructor of Payment accepts it.
LEMMA RowAdded ==
  ASSUME SumInv, FixedRow \/ BiweeklyRow
  PROVE  \E row \in PaymentRow : Adds(row)
<1>1. /\ loan.term \in Nat \ {0} /\ period \in Nat /\ balance \in Nat
      /\ Overshoot \in BOOLEAN
  BY LoanAssumption DEF SumInv, TypeOK, Cent, Overshoot
<1>2. ASSUME NEW row \in PaymentRow, NEW final, AddRow(row, final)
      PROVE  /\ UNCHANGED request
             /\ period' = period + 1 /\ balance' = row.balance /\ rows' = Append(rows, row)
             /\ cumInt' = row.cumInt /\ cumPrin' = row.cumPrin
             /\ cumExtra' = cumExtra + row.extra
             /\ outcome' = IF final THEN "paid" ELSE "running"
  <2>1. \A field \in DOMAIN row : ~ row[field] < 0
    BY DEF PaymentRow, Cent
  <2> QED
    BY <1>2, <2>1 DEF AddRow
<1>3. CASE FixedRow
  <2> DEFINE last == period + 1 = loan.term
             row == Row(last \/ Overshoot)
             final == last \/ Overshoot \/ (row.balance = 0 /\ row.extra > 0)
  <2>1. outcome = "running" /\ mode # "biweekly" /\ period < loan.term
    BY <1>3 DEF FixedRow, SumInv
  <2>2. period + 1 \in 1..(2 * loan.term + 10)
    BY <1>1, <2>1
  <2>3. /\ row \in PaymentRow
        /\ row.cumInt = cumInt + row.interest /\ row.cumPrin = cumPrin + row.principal
        /\ row.balance = balance - row.principal - row.extra
        /\ row.payment = row.principal + row.interest
        /\ row.extra < RawExtra(plan, period + 1) => row.balance = 0
        /\ row.extra <= RawExtra(plan, period + 1)
        /\ last \/ Overshoot =>
             row.balance = 0 /\ row.payment = balance + Interest(loan, mode, balance)
        /\ ~ (last \/ Overshoot) => /\ row.payment = Level(loan, mode)
                                    /\ row.balance = 0 => row.extra > 0
                                    /\ row.extra # RawExtra(plan, period + 1) => row.balance = 0
    <3> DEFINE payoff == last \/ Overshoot
    <3>1. payoff \in BOOLEAN /\ (Overshoot => payoff)
      BY <1>1
    <3> HIDE DEF payoff
    <3>2. ASSUME NEW r, r = Row(payoff)
          PROVE  /\ r \in PaymentRow
                 /\ r.cumInt = cumInt + r.interest /\ r.cumPrin = cumPrin + r.principal
                 /\ r.balance = balance - r.principal - r.extra
                 /\ r.payment = r.principal + r.interest
                 /\ r.extra < RawExtra(plan, period + 1) => r.balance = 0
                 /\ r.extra <= RawExtra(plan, period + 1)
                 /\ payoff => r.balance = 0 /\ r.payment = balance + Interest(loan, mode, balance)
                 /\ ~ payoff => /\ r.payment = Level(loan, mode)
                                /\ r.balance = 0 => r.extra > 0
                                /\ r.extra # RawExtra(plan, period + 1) => r.balance = 0
      BY <2>2, <3>1, <3>2, RowShape
    <3> QED
      BY <3>2 DEF payoff
  <2> HIDE DEF row
  <2>4. AddRow(row, final)
    BY <1>3, <2>3 DEF FixedRow, row
  <2> HIDE DEF final
  <2>5. Adds(row)
    <3>1. ~ final => ~ last /\ ~ Overshoot /\ row.balance # 0
      BY <2>3 DEF final
    <3>2. final => row.balance = 0
      BY <2>3 DEF final
    <3>3. ~ last => period + 1 < loan.term
      BY <1>1, <2>1
    <3>4. final /\ ~ last /\ row.extra = 0 => row.payment <= Level(loan, mode)
      BY <2>3 DEF final, Overshoot
    <3>5. period + 1 < loan.term => ~ last
      BY <1>1, <2>1
    <3> QED
      BY <1>2, <2>1, <2>3, <2>4, <3>1, <3>2, <3>3, <3>4, <3>5 DEF Adds
  <2> QED
    BY <2>3, <2>5
<1>4. CASE BiweeklyRow
  <2> DEFINE row == Row(Overshoot)
             final == Overshoot \/ row.balance = 0
  <2>1. outcome = "running" /\ mode = "biweekly" /\ AddRow(row, final)
    BY <1>4 DEF BiweeklyRow
  <2>2. period + 1 \in 1..(2 * loan.term + 10)
    BY <1>1, <1>4 DEF BiweeklyRow
  <2>3. /\ row \in PaymentRow
        /\ row.cumInt = cumInt + row.interest /\ row.cumPrin = cumPrin + row.principal
        /\ row.balance = balance - row.principal - row.extra
        /\ row.payment = row.principal + row.interest
        /\ row.extra < RawExtra(plan, period + 1) => row.balance = 0
        /\ row.extra <= RawExtra(plan, period + 1)
        /\ Overshoot => row.balance = 0
        /\ ~ Overshoot => /\ row.payment = Level(loan, mode)
                          /\ row.extra # RawExtra(plan, period + 1) => row.balance = 0
    BY <1>1, <2>2, RowShape
  <2> HIDE DEF row
  <2>4. /\ ~ final => ~ Overshoot /\ row.balance # 0
        /\ final => row.balance = 0
    BY <2>3
  <2> HIDE DEF final
  <2>5. Adds(row)
    BY <1>2, <2>1, <2>3, <2>4 DEF Adds
  <2> QED
    BY <2>3, <2>5
<1> QED
  BY <1>3, <1>4

\* The numbers that a row changes.
LEMMA RowNumbers ==
  ASSUME SumInv, NEW row \in PaymentRow, Adds(row)
  PROVE  /\ balance \in Nat /\ balance' \in Nat
         /\ cumInt' \in Nat /\ cumPrin' \in Nat /\ cumExtra' \in Nat
         /\ row.principal + row.extra \in 0..balance
         /\ balance' = balance - (row.principal + row.extra)
         /\ cumPrin' + cumExtra' = cumPrin + cumExtra + (row.principal + row.extra)
<1>1. /\ balance \in Nat /\ cumInt \in Nat /\ cumPrin \in Nat /\ cumExtra \in Nat
  BY DEF SumInv, TypeOK, Cent
<1>2. /\ row.interest \in Nat /\ row.principal \in Nat /\ row.extra \in Nat /\ row.balance \in Nat
  BY DEF PaymentRow, Cent
<1>3. /\ balance' = row.balance /\ row.balance = balance - row.principal - row.extra
      /\ cumInt' = cumInt + row.interest
      /\ cumPrin' = cumPrin + row.principal /\ cumExtra' = cumExtra + row.extra
  BY DEF Adds
<1> QED
  BY <1>1, <1>2, <1>3

\* The sums hold at the start.
LEMMA SumInit == Init => SumInv
  BY LoanAssumption DEF Init, SumInv, TypeOK, Cent

\* Every step keeps the sums.
LEMMA SumStep == SumInv /\ [Next]_vars => SumInv'
<1> SUFFICES ASSUME SumInv, [Next]_vars PROVE SumInv'
  OBVIOUS
<1>1. CASE FixedRow \/ BiweeklyRow
  <2>1. PICK row \in PaymentRow : Adds(row)
    BY <1>1, RowAdded
  <2>2. rows' \in Seq(PaymentRow) /\ Len(rows') = Len(rows) + 1
    BY <2>1 DEF Adds, SumInv, TypeOK
  <2>3. TypeOK'
    <3>1. UNCHANGED request /\ period' = period + 1 /\ outcome' \in {"running", "paid"}
      BY <2>1 DEF Adds
    <3> QED
      BY <2>1, <2>2, <3>1, RowNumbers DEF SumInv, TypeOK, Cent, request
  <2>4. (cumPrin + cumExtra + balance = loan.principal)'
    <3>1. UNCHANGED request
      BY <2>1 DEF Adds
    <3>2. cumPrin \in Nat /\ cumExtra \in Nat /\ cumPrin + cumExtra + balance = loan.principal
      BY DEF SumInv, TypeOK, Cent
    <3> QED
      BY <2>1, <3>1, <3>2, RowNumbers DEF request
  <2>5. /\ (Len(rows) = period)' /\ (outcome = "paid" => balance = 0)'
        /\ (mode # "biweekly" => /\ outcome # "raised"
                                 /\ outcome = "running" => period < loan.term)'
    BY <2>1, <2>2 DEF Adds, SumInv, request
  <2> QED
    BY <2>3, <2>4, <2>5 DEF SumInv
<1>2. CASE BiweeklyRaise
  BY <1>2 DEF BiweeklyRaise, Raise, SumInv, TypeOK, request
<1>3. CASE UNCHANGED vars
  BY <1>3 DEF vars, SumInv, TypeOK
<1> QED
  BY <1>1, <1>2, <1>3 DEF Next, Done

-----------------------------------------------------------------------------
(* Theorems.                                                               *)

\* Every schedule keeps its sums.
THEOREM SumsHold == Spec => []SumInv
  BY SumInit, SumStep, PTL DEF Spec

\* Every variable keeps its type: no field of a payment is ever negative.
THEOREM TypeCorrect == Spec => []TypeOK
<1>1. SumInv => TypeOK
  BY DEF SumInv
<1> QED
  BY <1>1, SumsHold, PTL

\* A schedule that is returned ends at a balance of zero, and its principal
\* and extras add up to the loan.
THEOREM ScheduleEndsAtZero == Spec => []EndsAtZero
<1>1. SumInv => EndsAtZero
  BY LoanAssumption DEF SumInv, TypeOK, EndsAtZero, Cent
<1> QED
  BY <1>1, SumsHold, PTL

\* A fixed or half-monthly schedule is never refused: no rounding makes a
\* field negative or leaves a balance behind the last row.
THEOREM FixedIsBuilt == Spec => []FixedNeverRaises
<1>1. SumInv => FixedNeverRaises
  BY DEF SumInv, FixedNeverRaises
<1> QED
  BY <1>1, SumsHold, PTL

\* Until a schedule ends every row is the level payment, and no extra is cut.
RowsInv == /\ \A i \in 1..Len(rows) : rows[i].payment = rows[i].principal + rows[i].interest
           /\ \A i \in 1..Len(rows) : i < Len(rows) \/ outcome = "running" =>
                rows[i].payment = Level(loan, mode) /\ ~ rows[i].extra < RawExtra(plan, i)
           /\ outcome # "raised" => \A i \in 1..Len(rows) :
                rows[i].extra < RawExtra(plan, i) => rows[i].balance = 0
           /\ outcome = "paid" => Len(rows) > 0
           /\ outcome = "raised" => \A i \in 1..Len(rows) : ~ rows[i].extra < RawExtra(plan, i)

\* Every step keeps the rows so.
LEMMA RowsStep == SumInv /\ RowsInv /\ [Next]_vars => RowsInv'
<1> SUFFICES ASSUME SumInv, RowsInv, [Next]_vars PROVE RowsInv'
  OBVIOUS
<1>1. CASE FixedRow \/ BiweeklyRow
  <2>1. PICK row \in PaymentRow : Adds(row)
    BY <1>1, RowAdded
  <2>2. /\ rows \in Seq(PaymentRow) /\ Len(rows) = period /\ period \in Nat
        /\ rows' = Append(rows, row) /\ Len(rows') = period + 1
        /\ rows'[period + 1] = row /\ \A i \in 1..period : rows'[i] = rows[i]
    BY <2>1 DEF Adds, SumInv, TypeOK
  <2>3. loan' = loan /\ mode' = mode /\ plan' = plan /\ outcome = "running"
    BY <2>1 DEF Adds, request
  <2>4. plan \in Plans /\ RawExtra(plan, period + 1) \in Nat /\ row.extra \in Nat
    <3>1. period + 1 \in 1..(2 * loan.term + 10)
      BY <1>1, LoanAssumption DEF FixedRow, BiweeklyRow, SumInv, TypeOK
    <3> QED
      BY <3>1, PlanExtra DEF SumInv, TypeOK, PaymentRow, Cent
  <2>5. \A i \in 1..Len(rows') : i = period + 1 \/ i \in 1..period
    BY <2>2
  <2>6. \A i \in 1..period : /\ rows[i].payment = rows[i].principal + rows[i].interest
                             /\ rows[i].payment = Level(loan, mode)
                             /\ ~ rows[i].extra < RawExtra(plan, i)
    BY <2>2, <2>3 DEF RowsInv
  <2>7. /\ row.payment = row.principal + row.interest
        /\ row.extra < RawExtra(plan, period + 1) => row.balance = 0
        /\ outcome' = "running" =>
             row.payment = Level(loan, mode) /\ ~ row.extra < RawExtra(plan, period + 1)
        /\ outcome' \in {"running", "paid"}
    BY <2>1, <2>4 DEF Adds
  <2> QED
    BY <2>2, <2>3, <2>5, <2>6, <2>7 DEF RowsInv
<1>2. CASE BiweeklyRaise
  BY <1>2 DEF BiweeklyRaise, Raise, RowsInv, request
<1>3. CASE UNCHANGED vars
  BY <1>3 DEF vars, RowsInv
<1> QED
  BY <1>1, <1>2, <1>3 DEF Next, Done

\* The rows of every schedule are so.
THEOREM RowsHold == Spec => []RowsInv
<1>1. Init => RowsInv
  BY DEF Init, RowsInv
<1> QED
  BY <1>1, RowsStep, SumsHold, PTL DEF Spec

\* An extra is cut only in the last row, and leaves no balance.
THEOREM CutExtraEndsSchedule == Spec => []CutEndsSchedule
<1>1. SumInv /\ RowsInv => CutEndsSchedule
  <2> SUFFICES ASSUME SumInv, RowsInv, NEW i \in 1..Len(rows),
                      rows[i].extra < RawExtra(plan, i)
               PROVE  i = Len(rows) /\ rows[i].balance = 0
    BY DEF CutEndsSchedule, SumInv, TypeOK
  <2>1. Len(rows) \in Nat /\ outcome \in {"running", "paid", "raised"}
    BY DEF SumInv, TypeOK
  <2> QED
    BY <2>1 DEF RowsInv
<1> QED
  BY <1>1, SumsHold, RowsHold, PTL

\* final_payment_adjusted is false for exactly the schedules whose every row
\* is the level payment without an extra.
THEOREM AdjustedIsHonest == Spec => []FlagIsHonest
<1>1. SumInv /\ RowsInv => FlagIsHonest
  <2> SUFFICES ASSUME SumInv, RowsInv, outcome = "paid"
               PROVE  ~ Adjusted <=>
                        \A i \in 1..Len(rows) : rows[i].payment = Level(loan, mode) /\ rows[i].extra = 0
    BY DEF FlagIsHonest, SumInv, TypeOK
  <2> DEFINE n == Len(rows)
  <2>1. rows \in Seq(PaymentRow) /\ n \in 1..n /\ n \in Nat /\ Level(loan, mode) \in Nat
    BY LevelCoversInterest DEF SumInv, TypeOK, RowsInv
  <2>2. \A i \in 1..n : rows[i] \in PaymentRow
    BY <2>1
  <2>3. rows[n].interest \in Nat /\ rows[n].principal \in Nat
    BY <2>1, <2>2 DEF PaymentRow, Cent
  <2>4. \A i \in 1..n : rows[i].extra > 0 <=> rows[i].extra # 0
    BY <2>2 DEF PaymentRow, Cent
  <2>5. rows[n].payment = rows[n].principal + rows[n].interest
        /\ \A i \in 1..n : i # n => rows[i].payment = Level(loan, mode)
    BY <2>1 DEF RowsInv
  <2>6. rows[n].principal # Level(loan, mode) - rows[n].interest
          <=> rows[n].payment # Level(loan, mode)
    BY <2>1, <2>3, <2>5
  <2>7. Last(rows) = rows[n] /\ DOMAIN rows = 1..n
    BY <2>1 DEF Last
  <2> QED
    BY <2>1, <2>4, <2>5, <2>6, <2>7 DEF Adjusted
<1> QED
  BY <1>1, SumsHold, RowsHold, PTL

\* Every schedule implements the debt that is only paid down.
THEOREM Refinement == Spec => ImplementsDebt
<1>1. Init => Ledger!Init
  BY LoanAssumption DEF Init, Ledger!Init
<1>2. SumInv /\ [Next]_vars => [Ledger!Pay]_Ledger!vars
  <2> SUFFICES ASSUME SumInv, [Next]_vars PROVE Ledger!Pay \/ UNCHANGED Ledger!vars
    OBVIOUS
  <2>1. CASE FixedRow \/ BiweeklyRow
    <3>1. PICK row \in PaymentRow : Adds(row)
      BY <2>1, RowAdded
    <3> DEFINE amount == row.principal + row.extra
    <3>2. amount \in 0..balance /\ balance' = balance - amount
          /\ cumPrin' + cumExtra' = cumPrin + cumExtra + amount
      BY <3>1, RowNumbers
    <3> QED
      BY <3>2 DEF Ledger!Pay
  <2>2. CASE BiweeklyRaise
    BY <2>2 DEF BiweeklyRaise, Raise, Ledger!vars
  <2>3. CASE UNCHANGED vars
    BY <2>3 DEF vars, Ledger!vars
  <2> QED
    BY <2>1, <2>2, <2>3 DEF Next, Done
<1> QED
  BY <1>1, <1>2, SumsHold, PTL DEF Spec, ImplementsDebt, Ledger!Spec

-----------------------------------------------------------------------------
(* Real loans are repaid: two rows of a biweekly schedule reduce the       *)
(* balance by at least what a month of the annuity does.                   *)

\* The factors never rise: each is worth a month's interest less than the last.
LEMMA FactorsFall ==
  ASSUME NEW num \in Nat, NEW d \in Nat \ {0}, NEW n \in Nat, NEW u, Discounts(u, num, d, n),
         NEW k \in 1..n
  PROVE  /\ u[k - 1].factor \in Nat /\ u[k].factor \in Nat
         /\ u[k].factor * (d + num) <= u[k - 1].factor * d
<1> DEFINE f == u[k - 1].factor
           a == f * d
           e == d + num
<1>1. f \in Nat /\ u[k].factor \in Nat /\ u[k].factor = a \div e
  BY DEF Discounts, Factor
<1>2. a \in Int /\ e \in Nat \ {0}
  BY <1>1
<1> HIDE DEF a, e
<1>3. a \div e \in Int /\ (a \div e) * e <= a
  BY <1>2, DivIsGreatest
<1> QED
  BY <1>1, <1>3 DEF a, e

\* Once a factor is cut off to nothing the annuity adds up to no more.
LEMMA WorthLeft ==
  ASSUME NEW num \in Nat, NEW d \in Nat \ {0}, NEW n \in Nat, NEW u, Discounts(u, num, d, n),
         NEW k \in 0..n, u[n].sum > u[k].sum
  PROVE  k + 1 \in 1..n /\ u[k + 1].factor > 0
<1>1. /\ \A m \in 0..n : u[m].factor \in Nat /\ u[m].sum \in Nat
      /\ \A m \in 1..n : u[m].sum = u[m - 1].sum + u[m].factor
  BY DEF Discounts, Factor
<1>2. k # n /\ k + 1 \in 1..n
  BY <1>1
<1> DEFINE T == {m \in 0..n : m <= k \/ (u[m].factor = 0 /\ u[m].sum = u[k].sum)}
<1>3. ASSUME u[k + 1].factor = 0 PROVE FALSE
  <2>1. ASSUME NEW m \in 1..n, m - 1 \in T PROVE m \in T
    <3>1. CASE m <= k
      BY <3>1
    <3>2. CASE m = k + 1
      BY <1>1, <1>2, <1>3, <3>2
    <3>3. CASE m > k + 1
      <4>1. u[m - 1].factor = 0 /\ u[m - 1].sum = u[k].sum
        BY <2>1, <3>3
      <4> DEFINE g == u[m].factor
                 e == d + num
      <4>2. g \in Nat /\ e \in Nat \ {0} /\ g * e <= 0 * d
        BY <4>1, FactorsFall
      <4>3. g = 0
        <5> HIDE DEF g, e
        <5>1. g >= 1 => g * e >= e
          BY <4>2
        <5> QED
          BY <4>2, <5>1
      <4> QED
        BY <1>1, <4>1, <4>3
    <3> QED
      BY <3>1, <3>2, <3>3
  <2>2. 0..n \subseteq T
    <3>1. 0 \in T
      OBVIOUS
    <3> HIDE DEF T
    <3> QED
      BY <2>1, <3>1, Reaches
  <2>3. n <= k \/ u[n].sum = u[k].sum
    BY <2>2
  <2>4. u[n].sum \in Nat /\ u[k].sum \in Nat /\ ~ n <= k
    BY <1>1, <1>2
  <2> HIDE DEF T
  <2> QED
    BY <2>3, <2>4
<1> QED
  BY <1>1, <1>2, <1>3

\* Without interest an annuity is worth as much as it pays.
LEMMA AnnuityAtZero ==
  ASSUME NEW d \in Nat \ {0}, NEW n \in Nat
  PROVE  Annuity(0, d, n) = n * Unit
<1>1. PICK u : Discounts(u, 0, d, n) /\ Annuity(0, d, n) = u[n].sum
  BY AnnuitySteps
<1> DEFINE T == {k \in 0..n : u[k].factor = Unit /\ u[k].sum = k * Unit}
<1>2. 0 \in T
  BY <1>1, UnitAssumption DEF Discounts
<1>3. ASSUME NEW k \in 1..n, k - 1 \in T PROVE k \in T
  <2>1. u[k].factor = (Unit * d) \div (d + 0) /\ u[k].sum = (k - 1) * Unit + u[k].factor
    BY <1>1, <1>3 DEF Discounts
  <2>2. (Unit * d) \div (d + 0) = Unit
    <3> DEFINE a == Unit * d
               q == a \div d
    <3>1. a \in Nat
      BY UnitAssumption
    <3>2. q \in Int /\ (\A i \in Int : i <= q <=> i * d <= a)
      <4> HIDE DEF a
      <4> QED
        BY <3>1, DivIsGreatest
    <3> HIDE DEF q
    <3>3. Unit <= q
      BY <3>2, UnitAssumption
    <3>4. ~ (Unit + 1 <= q)
      <4>1. (Unit + 1) * d > Unit * d
        BY UnitAssumption
      <4> QED
        BY <3>2, <4>1, UnitAssumption
    <3>5. q = Unit
      BY <3>2, <3>3, <3>4, UnitAssumption
    <3> QED
      BY <3>5 DEF q
  <2> QED
    BY <2>1, <2>2, UnitAssumption
<1>4. 0..n \subseteq T
  <2> HIDE DEF T
  <2> QED
    BY <1>2, <1>3, Reaches
<1> QED
  BY <1>1, <1>4

\* The first row of a pair: what it leaves of the balance b is c, and what the
\* second row will make of c is worth, at the next factor g, no more than the
\* rest of the annuity then.  den is the rate's denominator, M the monthly and L
\* the biweekly payment, whose interest of a year is 40 cents or more.
LEMMA PairOpens ==
  ASSUME NEW num \in Nat, NEW den \in Nat \ {0}, num <= den,
         NEW M \in Nat, NEW L \in Nat, M <= 2 * L, 40 * den <= L * num,
         NEW b \in Nat, NEW c \in Nat, NEW f \in Nat, NEW g \in Nat, NEW a \in Nat,
         g * (12 * den + num) <= f * (12 * den),
         2 * b * f <= (2 * M + 1) * a,
         2 * (26 * den) * c <= 2 * b * (26 * den + num) + 26 * den - 2 * (26 * den) * L
  PROVE  (2 * c * (26 * den + num) + 26 * den - 2 * (26 * den) * L) * g
           <= (26 * den) * ((2 * M + 1) * (a - g))
<1> DEFINE e == 26 * den
           E == e + num
           r == e - 2 * e * L
           w == 2 * c * E + r
           N == 2 * M + 1
           y == 2 * b * E + r
           q == E * E
           s == e * e
           z == r * E + e * r
<1>1. /\ e \in Nat \ {0} /\ E \in Nat \ {0} /\ r \in Int /\ N \in Nat /\ L * num \in Nat
      /\ e * L \in Nat /\ s \in Nat \ {0} /\ q \in Nat
  BY SMTT(20)
\* E over e twice is no more than the factor of a month.
<1>2. q * g <= s * f
  <2>1. q = 676 * (den * den) + 52 * (den * num) + num * num /\ s = 676 * (den * den)
    OBVIOUS
  <2>2. num * num <= den * num
    <3>1. (den - num) * num >= 0
      OBVIOUS
    <3> QED
      BY <3>1
  <2>3. 12 * q <= 12 * s + 676 * (den * num)
    BY <2>1, <2>2
  <2>4. (12 * s + 676 * (den * num)) * g = 676 * (den * (g * (12 * den + num)))
    BY <2>1
  <2>5. den * (g * (12 * den + num)) <= den * (f * (12 * den))
    <3> DEFINE u == g * (12 * den + num)
               v == f * (12 * den)
    <3>1. u \in Nat /\ v \in Nat /\ u <= v
      OBVIOUS
    <3> HIDE DEF u, v
    <3>2. (v - u) * den >= 0
      BY <3>1
    <3>3. den * u <= den * v
      BY <3>1, <3>2
    <3> QED
      BY <3>3 DEF u, v
  <2>6. 676 * (den * (f * (12 * den))) = 12 * (s * f)
    BY <2>1
  <2>7. 12 * (q * g) <= (12 * s + 676 * (den * num)) * g
    <3> DEFINE u == 12 * q
               v == 12 * s + 676 * (den * num)
    <3>1. u \in Nat /\ v \in Nat /\ u <= v
      BY <1>1, <2>3
    <3> HIDE DEF u, v, q
    <3>2. (v - u) * g >= 0
      BY <3>1
    <3>3. u * g <= v * g
      BY <3>1, <3>2
    <3>4. u * g = 12 * (q * g)
      BY <1>1 DEF u
    <3> QED
      BY <3>3, <3>4 DEF v
  <2>8. q * g \in Nat /\ s * f \in Nat /\ den * (g * (12 * den + num)) \in Nat
        /\ den * (f * (12 * den)) \in Nat
    BY <1>1
  <2> HIDE DEF q, s
  <2> QED
    BY <2>4, <2>5, <2>6, <2>7, <2>8
\* The payments of the pair take a monthly payment and half a cent more.
<1>3. z <= - (s * N)
  <2>1. z = 2 * s + e * num - 4 * (s * L) - 2 * (e * (L * num))
    OBVIOUS
  <2>2. 2 * (s * M) <= 4 * (s * L)
    <3>1. (2 * L - M) * s >= 0
      BY <1>1
    <3> HIDE DEF s
    <3> QED
      BY <1>1, <3>1
  <2>3. e * num <= e * den /\ 3 * s = 78 * (e * den) /\ 40 * (e * den) <= e * (L * num)
    <3> DEFINE x == L * num
    <3>1. x \in Nat /\ 40 * den <= x
      BY <1>1
    <3> HIDE DEF x
    <3>2. (den - num) * e >= 0 /\ (x - 40 * den) * e >= 0
      BY <1>1, <3>1
    <3> QED
      BY <1>1, <3>1, <3>2 DEF x
  <2>4. s * N = 2 * (s * M) + s
    OBVIOUS
  <2>5. s * M \in Nat /\ s * L \in Nat /\ e * num \in Nat /\ e * den \in Nat /\ e * (L * num) \in Nat
    BY <1>1
  <2> HIDE DEF s, e, z
  <2> QED
    BY <1>1, <2>1, <2>2, <2>3, <2>4, <2>5
<1>4. e * w <= 2 * b * q + z
  <2>1. 2 * e * c <= y
    OBVIOUS
  <2>2. e * w = (2 * e * c) * E + e * r
    BY <1>1
  <2>3. (2 * e * c) * E <= y * E
    <3> DEFINE x == 2 * e * c
    <3>1. x \in Nat /\ y \in Int /\ x <= y
      BY <1>1, <2>1
    <3> HIDE DEF x, y, E
    <3>2. (y - x) * E >= 0
      BY <1>1, <3>1
    <3> QED
      BY <1>1, <3>1, <3>2 DEF x
  <2>4. y * E = 2 * b * q + r * E
    BY <1>1
  <2>5. (2 * e * c) * E \in Int /\ e * r \in Int /\ y * E \in Int /\ r * E \in Int /\ 2 * b * q \in Int
    BY <1>1
  <2> HIDE DEF w, y, E, q, e, r
  <2> QED
    BY <2>2, <2>3, <2>4, <2>5 DEF z
<1>5. w \in Int /\ z \in Int
  BY <1>1
<1> HIDE DEF w, z, N, q, s, r, y, E
<1>6. (2 * b * q) * g <= s * (N * a)
  <2>1. (2 * b) * (q * g) <= (2 * b) * (s * f)
    <3> DEFINE u == q * g
               v == s * f
    <3>1. u \in Nat /\ v \in Nat /\ u <= v
      BY <1>1, <1>2
    <3> HIDE DEF u, v
    <3>2. (v - u) * (2 * b) >= 0
      BY <3>1
    <3>3. (2 * b) * u <= (2 * b) * v
      BY <3>1, <3>2
    <3> QED
      BY <3>3 DEF u, v
  <2>2. s * (2 * b * f) <= s * (N * a)
    <3> DEFINE u == 2 * b * f
               v == N * a
    <3>1. u \in Nat /\ v \in Nat /\ u <= v
      BY <1>1 DEF N
    <3> HIDE DEF u, v
    <3>2. (v - u) * s >= 0
      BY <1>1, <3>1
    <3>3. s * u <= s * v
      BY <1>1, <3>1, <3>2
    <3> QED
      BY <3>3 DEF u, v
  <2>3. (2 * b) * (s * f) = s * (2 * b * f)
    BY <1>1
  <2>4. (2 * b * q) * g = (2 * b) * (q * g)
    BY <1>1
  <2>5. (2 * b * q) * g \in Int /\ s * (2 * b * f) \in Int /\ s * (N * a) \in Int
    BY <1>1
  <2>6. (2 * b * q) * g <= s * (2 * b * f)
    BY <2>1, <2>3, <2>4, Zenon
  <2> DEFINE u == (2 * b * q) * g
             v == s * (2 * b * f)
             t == s * (N * a)
  <2>7. u \in Int /\ v \in Int /\ t \in Int /\ u <= v /\ v <= t
    BY <2>2, <2>5, <2>6
  <2> HIDE DEF u, v, t
  <2>8. u <= t
    BY <2>7
  <2> QED
    BY <2>8 DEF u, t
<1>7. e * (w * g) <= e * (e * (N * (a - g)))
  <2>1. (e * w) * g <= (2 * b * q + z) * g
    <3> DEFINE u == e * w
               v == 2 * b * q + z
    <3>1. u \in Int /\ v \in Int /\ u <= v
      BY <1>1, <1>4, <1>5
    <3> HIDE DEF u, v
    <3>2. (v - u) * g >= 0
      BY <3>1
    <3>3. u * g <= v * g
      BY <3>1, <3>2
    <3> QED
      BY <3>3 DEF u, v
  <2>2. z * g <= (- (s * N)) * g
    <3> DEFINE v == - (s * N)
    <3>1. v \in Int /\ z <= v
      BY <1>1, <1>3
    <3> HIDE DEF v
    <3>2. (v - z) * g >= 0
      BY <1>5, <3>1
    <3>3. z * g <= v * g
      BY <1>5, <3>1, <3>2
    <3> QED
      BY <3>3 DEF v
  <2>3. (2 * b * q + z) * g = (2 * b * q) * g + z * g /\ (e * w) * g = e * (w * g)
    BY <1>1, <1>5
  <2>4. s * (N * a) + (- (s * N)) * g = e * (e * (N * (a - g)))
    BY <1>1 DEF s
  <2>5. e * (w * g) \in Int /\ (2 * b * q) * g \in Int /\ z * g \in Int /\ s * (N * a) \in Int
        /\ (- (s * N)) * g \in Int
    BY <1>1, <1>5
  <2> QED
    BY <1>6, <2>1, <2>2, <2>3, <2>4, <2>5
<1>8. w * g <= e * (N * (a - g))
  <2> DEFINE u == w * g
             v == e * (N * (a - g))
  <2>1. u \in Int /\ v \in Int /\ e * u <= e * v
    BY <1>1, <1>5, <1>7
  <2> HIDE DEF u, v, e
  <2>2. ~ (u >= v + 1)
    <3> SUFFICES ASSUME u >= v + 1 PROVE FALSE
      OBVIOUS
    <3>1. (u - (v + 1)) * e >= 0
      BY <1>1, <2>1
    <3> QED
      BY <1>1, <2>1, <3>1
  <2>3. u <= v
    BY <2>1, <2>2
  <2> QED
    BY <2>3 DEF u, v
<1>9. w = 2 * c * (26 * den + num) + 26 * den - 2 * (26 * den) * L
  BY DEF w, r, E
<1> QED
  BY <1>8, <1>9 DEF N

\* The second row: what it leaves, c, is worth no more than the rest, a.
LEMMA PairCloses ==
  ASSUME NEW e \in Nat \ {0}, NEW c \in Nat, NEW g \in Nat, NEW w \in Int, NEW x \in Int,
         2 * e * c <= w, w * g <= e * x
  PROVE  2 * c * g <= x
<1>1. (w - 2 * e * c) * g >= 0
  OBVIOUS
<1>2. e * (2 * c * g) <= e * x
  BY <1>1
<1> DEFINE u == 2 * c * g
<1>3. u \in Nat /\ e * u <= e * x
  BY <1>2
<1> HIDE DEF u
<1>4. ~ (u >= x + 1)
  <2> SUFFICES ASSUME u >= x + 1 PROVE FALSE
    OBVIOUS
  <2>1. (u - (x + 1)) * e >= 0
    BY <1>3
  <2> QED
    BY <1>3, <2>1
<1>5. u <= x
  BY <1>3, <1>4
<1> QED
  BY <1>5 DEF u

\* What a biweekly row that does not end the schedule leaves.
LEMMA RowLeaves ==
  ASSUME SumInv, BiweeklyRow, outcome' = "running"
  PROVE  /\ balance' \in Nat \ {0} /\ period' = period + 1 /\ UNCHANGED request
         /\ balance' + Level(loan, mode) <= balance + Interest(loan, mode, balance)
<1>1. PICK row \in PaymentRow : Adds(row)
  BY RowAdded
<1>2. /\ row.principal \in Nat /\ row.interest \in Nat /\ row.extra \in Nat /\ row.balance \in Nat
      /\ balance \in Nat /\ cumInt \in Nat
  BY DEF PaymentRow, Cent, SumInv, TypeOK
<1>3. cumInt' = cumInt + Interest(loan, mode, balance)
  <2>1. Row(Overshoot).cumInt = cumInt + Interest(loan, mode, balance)
    BY DEF Row
  <2>2. AddRow(Row(Overshoot), Overshoot \/ Row(Overshoot).balance = 0)
    BY DEF BiweeklyRow
  <2> QED
    BY <2>1, <2>2 DEF AddRow, Raise
<1>4. /\ cumInt' = cumInt + row.interest /\ balance' = row.balance /\ row.balance # 0
      /\ row.balance = balance - row.principal - row.extra
      /\ row.principal + row.interest = Level(loan, mode)
      /\ period' = period + 1 /\ UNCHANGED request
  BY <1>1 DEF Adds
<1>5. loan \in Loans /\ mode \in Modes
  BY DEF SumInv, TypeOK
<1>6. Interest(loan, mode, balance) \in Nat
  BY <1>2, <1>5, InterestMonotonic
<1> QED
  BY <1>2, <1>3, <1>4, <1>6

\* Half a month's payment, rounded, is at least half of it, and a row charges
\* no more than half a cent over its share of the year.
LEMMA BiweeklyAmounts ==
  ASSUME NEW l \in Loans, "biweekly" \in Modes, NEW b \in Nat
  PROVE  /\ MonthlyPi(l) \in Nat /\ Level(l, "biweekly") \in Nat
         /\ MonthlyPi(l) <= 2 * Level(l, "biweekly")
         /\ Interest(l, "biweekly", b) \in Nat
         /\ 2 * (26 * l.den) * Interest(l, "biweekly", b) <= 2 * (b * l.num) + 26 * l.den
<1> DEFINE M == MonthlyPi(l)
           L == Level(l, "biweekly")
           e == l.den * 26
           x == b * l.num
           i == Interest(l, "biweekly", b)
<1>1. /\ l.num \in Nat /\ l.den \in Nat \ {0} /\ l.term \in Nat \ {0} /\ l.principal \in Nat
      /\ l.num <= l.den
  BY LoanAssumption
<1>2. M \in Nat
  BY <1>1, PaymentCoversInterest DEF MonthlyPi
<1>3. L = Cents(M, 2) /\ i = Cents(x, e)
  BY DEF Level, Interest, PeriodsPerYear
<1>4. e \in Nat \ {0} /\ x \in Nat /\ e = 26 * l.den
  BY <1>1
<1> HIDE DEF M, L, e, x, i
<1>5. L \in Nat /\ M <= 2 * L
  <2>1. Cents(M, 2) \in Nat
    BY <1>2, CentsIsGreatest
  <2>2. ~ ((2 * (Cents(M, 2) + 1) - 1) * 2 <= 2 * M)
    BY <1>2, <2>1, CentsIsGreatest
  <2> QED
    BY <1>2, <1>3, <2>1, <2>2
<1>6. i \in Nat /\ (2 * i - 1) * e <= 2 * x
  <2>1. Cents(x, e) \in Nat
    BY <1>4, CentsIsGreatest
  <2>2. (2 * Cents(x, e) - 1) * e <= 2 * x
    BY <1>4, <2>1, CentsIsGreatest
  <2> QED
    BY <1>3, <2>1, <2>2
<1>7. 2 * e * i <= 2 * x + e
  BY <1>4, <1>6
<1>8. /\ M \in Nat /\ L \in Nat /\ M <= 2 * L /\ i \in Nat
      /\ 2 * (26 * l.den) * i <= 2 * x + 26 * l.den
  BY <1>2, <1>4, <1>5, <1>6, <1>7
<1> QED
  BY <1>8 DEF M, L, x, i

\* The monthly payment is less than half a cent below what the annuity asks.
LEMMA PaymentRepays ==
  ASSUME NEW l \in Loans
  PROVE  LET A == Annuity(l.num, 12 * l.den, l.term)
         IN  A \in Nat \ {0} /\ 2 * (l.principal * Unit) < (2 * MonthlyPi(l) + 1) * A
<1> DEFINE d == 12 * l.den
           A == Annuity(l.num, d, l.term)
           p == l.principal * Unit
           M == MonthlyPi(l)
<1>1. /\ l.num \in Nat /\ l.den \in Nat \ {0} /\ l.term \in Nat \ {0} /\ l.principal \in Nat
      /\ l.num <= l.den
  BY LoanAssumption
<1>2. d \in Nat \ {0} /\ l.num <= d /\ p \in Nat
  BY <1>1, UnitAssumption
<1>3. A \in Nat \ {0}
  <2> HIDE DEF d
  <2> QED
    BY <1>1, <1>2, AnnuityBounds
<1>4. M = Cents(p, A)
  BY DEF MonthlyPi, LevelPayment
<1> HIDE DEF p, A, M
<1>5. Cents(p, A) \in Nat
  BY <1>2, <1>3, CentsIsGreatest
<1>6. ~ ((2 * (Cents(p, A) + 1) - 1) * A <= 2 * p)
  BY <1>2, <1>3, <1>5, CentsIsGreatest
<1>7. 2 * p < (2 * M + 1) * A
  <2> DEFINE t == (2 * M + 1) * A
  <2>1. 2 * (Cents(p, A) + 1) - 1 = 2 * M + 1 /\ M \in Nat
    BY <1>4, <1>5
  <2>2. t \in Int /\ ~ t <= 2 * p
    BY <1>3, <1>6, <2>1
  <2> HIDE DEF t
  <2>3. 2 * p < t
    BY <1>2, <2>2
  <2> QED
    BY <2>3 DEF t
<1> QED
  BY <1>3, <1>7 DEF A, p, M

\* A loan of an amount that matters: without interest, of a payment of at least
\* a cent for every ten months; with interest, of a biweekly payment that earns
\* at least 40 cents a year (20 dollars at two percent).
Real(l) == /\ l.principal > 0
           /\ IF l.num = 0 THEN l.term <= 10 * MonthlyPi(l)
              ELSE 40 * l.den <= Level(l, "biweekly") * l.num

\* The factors of a loan's annuity.
Factors(l) == CHOOSE u : /\ Discounts(u, l.num, 12 * l.den, l.term)
                         /\ Annuity(l.num, 12 * l.den, l.term) = u[l.term].sum

\* While a biweekly schedule runs, the rest of the annuity is worth what is left
\* of the loan: after k pairs of rows, and between the rows of a pair.
PairsAre(l, b, k) ==
    LET u == Factors(l)
    IN  /\ u[k].factor > 0
        /\ 2 * b * u[k].factor <= (2 * MonthlyPi(l) + 1) * (u[l.term].sum - u[k].sum)
InPair(l, b, k) ==
    LET u == Factors(l)
        e == 26 * l.den
        w == 2 * b * (e + l.num) + e - 2 * e * Level(l, "biweekly")
    IN  /\ u[k + 1].factor > 0
        /\ w * u[k + 1].factor
             <= e * ((2 * MonthlyPi(l) + 1) * (u[l.term].sum - u[k].sum - u[k + 1].factor))

RepaidInv ==
    mode = "biweekly" /\ Real(loan) =>
        /\ outcome # "raised"
        /\ outcome = "running" /\ loan.num = 0 =>
             balance + period * Level(loan, mode) <= loan.principal
        /\ outcome = "running" /\ loan.num # 0 =>
             \E k \in 0..(loan.term - 1) : \/ period = 2 * k /\ PairsAre(loan, balance, k)
                                           \/ period = 2 * k + 1 /\ InPair(loan, balance, k)
        /\ outcome = "running" => balance > 0
        /\ loan.num # 0 => period <= 2 * loan.term

\* The factors are those of the annuity.
LEMMA FactorsExist ==
  ASSUME NEW l \in Loans
  PROVE  /\ Discounts(Factors(l), l.num, 12 * l.den, l.term)
         /\ Annuity(l.num, 12 * l.den, l.term) = Factors(l)[l.term].sum
         /\ \A m \in 0..l.term : Factors(l)[m].factor \in Nat /\ Factors(l)[m].sum \in Nat
<1> DEFINE P(u) == /\ Discounts(u, l.num, 12 * l.den, l.term)
                   /\ Annuity(l.num, 12 * l.den, l.term) = u[l.term].sum
<1>1. l.num \in Nat /\ 12 * l.den \in Nat \ {0} /\ l.term \in Nat
  BY LoanAssumption
<1>2. \E u : P(u)
  <2> DEFINE d == 12 * l.den
  <2>1. d \in Nat \ {0}
    BY <1>1
  <2> HIDE DEF d
  <2>2. \E u : Discounts(u, l.num, d, l.term) /\ Annuity(l.num, d, l.term) = u[l.term].sum
    BY <1>1, <2>1, AnnuitySteps
  <2> QED
    BY <2>2 DEF d
<1>3. Factors(l) = CHOOSE u : P(u)
  BY DEF Factors
<1> HIDE DEF P
<1>4. P(Factors(l))
  BY <1>2, <1>3
<1>5. ASSUME NEW u, P(u), NEW m \in 0..l.term PROVE u[m].factor \in Nat /\ u[m].sum \in Nat
  <2>1. u \in [0..l.term -> Factor]
    BY <1>5 DEF P, Discounts
  <2> QED
    BY <2>1 DEF Factor
<1> QED
  BY <1>4, <1>5 DEF P

\* While something is left of the loan something is left of the annuity.
LEMMA RestIsPositive ==
  ASSUME NEW b \in Nat \ {0}, NEW f \in Nat \ {0}, NEW N \in Nat, NEW a \in Int, 2 * b * f <= N * a
  PROVE  a \in Nat \ {0}
<1>1. b * f >= 1
  <2>1. (b - 1) * (f - 1) >= 0
    OBVIOUS
  <2>2. b * f = (b - 1) * (f - 1) + b + f - 1
    OBVIOUS
  <2>3. b * f \in Nat
    OBVIOUS
  <2> QED
    BY <2>1, <2>2, <2>3
<1>2. 1 <= N * a
  <2> DEFINE x == b * f
             y == N * a
  <2>1. x \in Nat /\ x >= 1 /\ y \in Int /\ 2 * x <= y
    BY <1>1
  <2> HIDE DEF x, y
  <2>2. 1 <= y
    BY <2>1
  <2> QED
    BY <2>2 DEF y
<1>3. ~ (a <= 0)
  <2> SUFFICES ASSUME a <= 0 PROVE FALSE
    OBVIOUS
  <2>1. N * (-a) >= 0
    OBVIOUS
  <2> QED
    BY <1>2, <2>1
<1> QED
  BY <1>3

\* A loan's numbers.
LEMMA LoanNumbers ==
  ASSUME NEW l \in Loans, "biweekly" \in Modes, NEW b \in Nat, NEW c \in Nat,
         c + Level(l, "biweekly") <= b + Interest(l, "biweekly", b)
  PROVE  /\ l.num \in Nat /\ l.den \in Nat \ {0} /\ l.term \in Nat \ {0} /\ l.num <= l.den
         /\ MonthlyPi(l) \in Nat /\ Level(l, "biweekly") \in Nat
         /\ MonthlyPi(l) <= 2 * Level(l, "biweekly")
         /\ 2 * (26 * l.den) * c
              <= 2 * b * (26 * l.den + l.num) + 26 * l.den
                   - 2 * (26 * l.den) * Level(l, "biweekly")
<1> DEFINE L == Level(l, "biweekly")
           i == Interest(l, "biweekly", b)
           e == 26 * l.den
           num == l.num
<1>1. /\ num \in Nat /\ l.den \in Nat \ {0} /\ l.term \in Nat \ {0} /\ num <= l.den
      /\ e \in Nat \ {0}
  BY LoanAssumption
<1>2. /\ MonthlyPi(l) \in Nat /\ L \in Nat /\ MonthlyPi(l) <= 2 * L /\ i \in Nat
      /\ 2 * e * i <= 2 * (b * num) + e
  BY BiweeklyAmounts
<1>3. c + L <= b + i
  OBVIOUS
<1> HIDE DEF L, i, e, num
<1>4. 2 * e * c <= 2 * b * (e + num) + e - 2 * e * L
  <2>1. ((b + i) - (c + L)) * e >= 0
    BY <1>1, <1>2, <1>3
  <2>2. ((b + i) - (c + L)) * e = b * e + e * i - e * c - e * L
    BY <1>1, <1>2
  <2>3. 2 * b * (e + num) = 2 * (b * e) + 2 * (b * num) /\ 2 * e * c = 2 * (e * c)
        /\ 2 * e * L = 2 * (e * L) /\ 2 * e * i = 2 * (e * i)
    BY <1>1, <1>2
  <2>4. b * e \in Nat /\ b * num \in Nat /\ e * c \in Nat /\ e * L \in Nat /\ e * i \in Nat
    BY <1>1, <1>2
  <2> QED
    BY <1>1, <1>2, <2>1, <2>2, <2>3, <2>4
<1>5. /\ num \in Nat /\ l.den \in Nat \ {0} /\ l.term \in Nat \ {0} /\ num <= l.den
      /\ MonthlyPi(l) \in Nat /\ L \in Nat /\ MonthlyPi(l) <= 2 * L
      /\ 2 * e * c <= 2 * b * (e + num) + e - 2 * e * L
  BY <1>1, <1>2, <1>4
<1> QED
  BY <1>5 DEF L, e, num

\* The first row of a pair.
LEMMA PairBegins ==
  ASSUME NEW l \in Loans, "biweekly" \in Modes, Real(l), l.num # 0, NEW k \in 0..(l.term - 1),
         NEW b \in Nat \ {0}, NEW c \in Nat, PairsAre(l, b, k),
         c + Level(l, "biweekly") <= b + Interest(l, "biweekly", b)
  PROVE  InPair(l, c, k)
<1> DEFINE u == Factors(l)
           n == l.term
           num == l.num
           den == l.den
           M == MonthlyPi(l)
           L == Level(l, "biweekly")
           f == u[k].factor
           g == u[k + 1].factor
           s == u[k].sum
           S == u[n].sum
<1>1. /\ num \in Nat /\ den \in Nat \ {0} /\ n \in Nat \ {0} /\ num <= den
      /\ M \in Nat /\ L \in Nat /\ M <= 2 * L
      /\ 2 * (26 * den) * c <= 2 * b * (26 * den + num) + 26 * den - 2 * (26 * den) * L
  BY LoanNumbers
<1>2. 40 * den <= L * num
  BY DEF Real
<1>3. Discounts(u, num, 12 * den, n)
  BY FactorsExist
<1>4. f > 0 /\ 2 * b * f <= (2 * M + 1) * (S - s)
  BY DEF PairsAre
<1>5. S \in Nat /\ s \in Nat /\ f \in Nat
  BY <1>1, FactorsExist
<1> HIDE DEF u, n, num, den, M, L, f, g, s, S
<1>6. S - s \in Nat \ {0}
  <2> DEFINE a == S - s
             N == 2 * M + 1
  <2>1. a \in Int /\ N \in Nat /\ 2 * b * f <= N * a
    BY <1>1, <1>4, <1>5
  <2> HIDE DEF a, N
  <2>2. a \in Nat \ {0}
    BY <1>4, <1>5, <2>1, RestIsPositive
  <2> QED
    BY <2>2 DEF a
<1>7. k \in 0..n /\ k + 1 \in 1..n /\ g > 0
  <2> DEFINE d == 12 * den
  <2>1. d \in Nat \ {0} /\ k \in 0..n /\ u[n].sum > u[k].sum
    BY <1>1, <1>5, <1>6 DEF S, s, n
  <2> HIDE DEF d
  <2>2. k + 1 \in 1..n /\ u[k + 1].factor > 0
    BY <1>1, <1>3, <2>1, WorthLeft DEF d
  <2> QED
    BY <2>1, <2>2 DEF g
<1>8. g \in Nat /\ g * (12 * den + num) <= f * (12 * den)
  <2> DEFINE d == 12 * den
             j == k + 1
  <2>1. d \in Nat \ {0} /\ j \in 1..n /\ Discounts(u, num, d, n) /\ j - 1 = k
    BY <1>1, <1>3, <1>7
  <2> HIDE DEF d, j
  <2>2. u[j].factor \in Nat /\ u[j].factor * (d + num) <= u[j - 1].factor * d
    BY <1>1, <2>1, FactorsFall
  <2> QED
    BY <2>1, <2>2 DEF f, g, d, j
<1>9. (2 * c * (26 * den + num) + 26 * den - 2 * (26 * den) * L) * g
        <= (26 * den) * ((2 * M + 1) * (S - s - g))
  <2> DEFINE a == S - s
  <2>1. a \in Nat /\ 2 * b * f <= (2 * M + 1) * a
    BY <1>4, <1>6
  <2> HIDE DEF a
  <2>2. f \in Nat /\ b \in Nat
    BY <1>5
  <2>3. (2 * c * (26 * den + num) + 26 * den - 2 * (26 * den) * L) * g
          <= (26 * den) * ((2 * M + 1) * (a - g))
    BY <1>1, <1>2, <1>8, <2>1, <2>2, PairOpens
  <2> QED
    BY <2>3 DEF a
<1> QED
  BY <1>7, <1>9 DEF InPair, u, n, num, den, M, L, g, s, S

\* The second row of a pair; when it leaves something the term is not over.
LEMMA PairEnds ==
  ASSUME NEW l \in Loans, "biweekly" \in Modes, Real(l), l.num # 0, NEW k \in 0..(l.term - 1),
         NEW b \in Nat, NEW c \in Nat \ {0}, InPair(l, b, k),
         c + Level(l, "biweekly") <= b + Interest(l, "biweekly", b)
  PROVE  k + 1 \in 0..(l.term - 1) /\ PairsAre(l, c, k + 1)
<1> DEFINE u == Factors(l)
           n == l.term
           num == l.num
           den == l.den
           N == 2 * MonthlyPi(l) + 1
           L == Level(l, "biweekly")
           e == 26 * den
           w == 2 * b * (e + num) + e - 2 * e * L
           g == u[k + 1].factor
           s == u[k].sum
           S == u[n].sum
           t == u[k + 1].sum
<1>1. /\ num \in Nat /\ den \in Nat \ {0} /\ n \in Nat \ {0} /\ num <= den
      /\ N \in Nat /\ L \in Nat /\ e \in Nat \ {0} /\ 2 * e * c <= w
  BY LoanNumbers
<1>2. Discounts(u, num, 12 * den, n)
  BY FactorsExist
<1>3. k + 1 \in 1..n /\ (k + 1) - 1 = k
  BY <1>1
<1>4. t = s + g
  BY <1>2, <1>3 DEF Discounts
<1>5. S \in Nat /\ s \in Nat /\ t \in Nat /\ g \in Nat
  BY <1>1, <1>3, FactorsExist
<1>6. g > 0 /\ w * g <= e * (N * (S - s - g))
  BY DEF InPair
<1>7. w \in Int
  BY <1>1
<1> HIDE DEF u, n, num, N, L, w, g, s, S, t, e, den
<1>8. 2 * c * g <= N * (S - t)
  <2> DEFINE x == N * (S - s - g)
  <2>1. x \in Int /\ w * g <= e * x
    BY <1>1, <1>5, <1>6
  <2> HIDE DEF x
  <2>2. 2 * c * g <= x
    BY <1>1, <1>5, <1>7, <2>1, PairCloses
  <2> QED
    BY <1>4, <1>5, <2>2 DEF x
<1>9. S - t \in Nat \ {0}
  <2> DEFINE a == S - t
  <2>1. a \in Int /\ 2 * c * g <= N * a /\ g \in Nat \ {0}
    BY <1>5, <1>6, <1>8
  <2> HIDE DEF a
  <2>2. a \in Nat \ {0}
    BY <1>1, <2>1, RestIsPositive
  <2> QED
    BY <2>2 DEF a
<1>10. k + 1 \in 0..(n - 1)
  <2>1. k + 1 # n
    BY <1>5, <1>9 DEF S, t
  <2> QED
    BY <1>1, <1>3, <2>1
<1> QED
  BY <1>6, <1>8, <1>10 DEF PairsAre, u, n, N, g, S, t

\* Without interest the payments of all the rows that are allowed are more than
\* the loan.
LEMMA RowsRepay ==
  ASSUME NEW l \in Loans, "biweekly" \in Modes, Real(l), l.num = 0
  PROVE  l.principal < (2 * l.term + 10) * Level(l, "biweekly")
<1> DEFINE M == MonthlyPi(l)
           L == Level(l, "biweekly")
           n == l.term
           p == l.principal
           A == Annuity(l.num, 12 * l.den, n)
           N == 2 * M + 1
<1>1. p \in Nat \ {0} /\ n \in Nat \ {0} /\ l.den \in Nat \ {0}
  BY LoanAssumption DEF Real
<1>2. M \in Nat /\ L \in Nat /\ M <= 2 * L
  BY BiweeklyAmounts, 0 \in Nat
<1>3. n <= 10 * M
  BY DEF Real
<1>4. A = n * Unit
  <2> DEFINE d == 12 * l.den
  <2>1. d \in Nat \ {0} /\ n \in Nat
    BY <1>1
  <2> HIDE DEF d
  <2>2. Annuity(0, d, n) = n * Unit
    BY <2>1, AnnuityAtZero
  <2> QED
    BY <2>2 DEF d
<1>5. 2 * (p * Unit) < N * A
  BY PaymentRepays
<1> HIDE DEF M, L, n, p, A
<1>6. 2 * p < N * n
  <2> DEFINE x == 2 * p
             y == N * n
  <2>1. x \in Int /\ y \in Int /\ x * Unit < y * Unit
    BY <1>1, <1>2, <1>4, <1>5, UnitAssumption
  <2> HIDE DEF x, y
  <2>2. ~ (x >= y)
    <3> SUFFICES ASSUME x >= y PROVE FALSE
      OBVIOUS
    <3>1. (x - y) * Unit >= 0
      BY <2>1, UnitAssumption
    <3> QED
      BY <2>1, <3>1, UnitAssumption
  <2>3. x < y
    BY <2>1, <2>2
  <2> QED
    BY <2>3 DEF x, y
<1>7. 2 * p < 2 * (M * n) + n
  BY <1>1, <1>2, <1>6
<1>8. M * n <= 2 * (n * L)
  <2>1. (2 * L - M) * n >= 0
    BY <1>1, <1>2
  <2> QED
    BY <1>1, <1>2, <2>1
<1>9. p < 2 * (n * L) + 10 * L
  <2> DEFINE x == M * n
             y == n * L
  <2>1. x \in Nat /\ y \in Nat
    BY <1>1, <1>2
  <2> HIDE DEF x, y
  <2>2. 2 * p < 2 * x + n /\ x <= 2 * y
    BY <1>7, <1>8 DEF x, y
  <2> HIDE DEF N
  <2>3. M >= 1
    BY <1>1, <1>2, <1>3
  <2>4. p < 2 * y + 10 * L
    BY <1>1, <1>2, <1>3, <2>1, <2>2, <2>3
  <2> QED
    BY <2>4 DEF y
<1>10. p < (2 * n + 10) * L
  BY <1>1, <1>2, <1>9
<1> QED
  BY <1>10 DEF p, n, L

\* At the start the annuity is worth the loan.
LEMMA RepaidInit == Init => RepaidInv
<1> SUFFICES ASSUME Init, mode = "biweekly", Real(loan)
             PROVE  /\ outcome # "raised"
                    /\ loan.num = 0 => balance + period * Level(loan, mode) <= loan.principal
                    /\ loan.num # 0 => 0 \in 0..(loan.term - 1) /\ period = 2 * 0
                                       /\ PairsAre(loan, balance, 0)
                    /\ balance > 0
                    /\ loan.num # 0 => period <= 2 * loan.term
  BY DEF RepaidInv
<1> DEFINE u == Factors(loan)
           n == loan.term
           p == loan.principal
           N == 2 * MonthlyPi(loan) + 1
           S == u[n].sum
<1>1. /\ loan \in Loans /\ "biweekly" \in Modes /\ balance = p /\ period = 0
      /\ outcome = "running"
  BY DEF Init
<1>2. p \in Nat \ {0} /\ n \in Nat \ {0}
  BY <1>1, LoanAssumption DEF Real
<1>3. Level(loan, mode) \in Nat
  BY <1>1, LevelCoversInterest
<1>4. u[0].factor = Unit /\ u[0].sum = 0
  BY <1>1, FactorsExist DEF Discounts
<1>5. 2 * (p * Unit) < N * S
  BY <1>1, PaymentRepays, FactorsExist
<1>6. S \in Nat /\ N \in Nat
  BY <1>1, <1>2, FactorsExist, BiweeklyAmounts, 0 \in Nat
<1> HIDE DEF u, n, p, N, S
<1>7. u[0].factor > 0 /\ 2 * p * u[0].factor <= N * (S - u[0].sum)
  <2> DEFINE x == 2 * p * Unit
             y == N * S
  <2>1. x = 2 * (p * Unit) /\ S - 0 = S /\ x \in Int /\ y \in Int
    BY <1>2, <1>6, UnitAssumption
  <2>2. x < y
    BY <1>5, <2>1
  <2> HIDE DEF x, y
  <2>3. x <= y
    BY <2>1, <2>2
  <2>4. 2 * p * Unit <= N * (S - 0)
    BY <2>1, <2>3 DEF x, y
  <2> QED
    BY <1>4, <2>4, UnitAssumption
<1>8. PairsAre(loan, balance, 0)
  BY <1>1, <1>7 DEF PairsAre, u, n, p, N, S
<1>9. balance + period * Level(loan, mode) <= p
  BY <1>1, <1>2, <1>3
<1> QED
  BY <1>1, <1>2, <1>8, <1>9 DEF n, p

\* Every row keeps the annuity ahead of the loan, so none is ever refused.
LEMMA RepaidStep == SumInv /\ RepaidInv /\ [Next]_vars => RepaidInv'
<1> SUFFICES ASSUME SumInv, RepaidInv, [Next]_vars PROVE RepaidInv'
  OBVIOUS
<1>1. CASE FixedRow
  <2>1. mode # "biweekly" /\ UNCHANGED request
    BY <1>1, RowAdded DEF FixedRow, Adds
  <2> QED
    BY <2>1 DEF RepaidInv, request
<1>2. CASE BiweeklyRow
  <2>1. PICK row \in PaymentRow : Adds(row)
    BY <1>2, RowAdded
  <2>2. /\ outcome = "running" /\ outcome' \in {"running", "paid"} /\ mode = "biweekly"
        /\ loan' = loan /\ mode' = mode /\ period' = period + 1
    BY <1>2, <2>1 DEF BiweeklyRow, Adds, request
  <2>3. SUFFICES ASSUME Real(loan)
                 PROVE  /\ outcome' # "raised"
                        /\ outcome' = "running" /\ loan.num = 0 =>
                             balance' + period' * Level(loan, mode) <= loan.principal
                        /\ outcome' = "running" /\ loan.num # 0 =>
                             \E k \in 0..(loan.term - 1) :
                                \/ period' = 2 * k /\ PairsAre(loan, balance', k)
                                \/ period' = 2 * k + 1 /\ InPair(loan, balance', k)
                        /\ outcome' = "running" => balance' > 0
                        /\ loan.num # 0 => period' <= 2 * loan.term
    BY <2>2 DEF RepaidInv
  <2>4. /\ loan \in Loans /\ "biweekly" \in Modes /\ balance \in Nat /\ period \in Nat
        /\ loan.term \in Nat \ {0} /\ balance > 0
    BY <2>2, <2>3, LoanAssumption DEF SumInv, TypeOK, Cent, RepaidInv
  <2>5. ASSUME outcome' = "running"
        PROVE  /\ balance' \in Nat \ {0}
               /\ balance' + Level(loan, "biweekly") <= balance + Interest(loan, "biweekly", balance)
    BY <1>2, <2>2, <2>5, RowLeaves
  <2>6. CASE loan.num = 0
    <3> DEFINE L == Level(loan, "biweekly")
    <3>1. L \in Nat /\ Interest(loan, "biweekly", balance) = 0
      <4> DEFINE e == loan.den * 26
      <4>1. e \in Nat \ {0}
        BY <2>4, LoanAssumption
      <4>2. Interest(loan, "biweekly", balance) = Cents(balance * 0, e)
        BY <2>6 DEF Interest, PeriodsPerYear
      <4> HIDE DEF e
      <4>3. balance * 0 = 0
        BY <2>4
      <4>4. Cents(0, e) \in Nat /\ (1 <= Cents(0, e) <=> (2 * 1 - 1) * e <= 2 * 0)
        BY <4>1, CentsIsGreatest
      <4>5. Cents(0, e) = 0
        BY <4>1, <4>4
      <4>6. Level(loan, "biweekly") \in Nat
        BY <2>4, BiweeklyAmounts
      <4> QED
        BY <4>2, <4>3, <4>5, <4>6
    <3>2. ASSUME outcome' = "running" PROVE balance' + period' * L <= loan.principal
      <4>1. balance + period * L <= loan.principal /\ loan.principal \in Nat
        BY <2>2, <2>3, <2>4, <2>6, LoanAssumption DEF RepaidInv
      <4> HIDE DEF L
      <4>2. balance' \in Nat /\ balance' + L <= balance
        BY <2>4, <2>5, <3>1, <3>2 DEF L
      <4> DEFINE x == period * L
                 y == period' * L
      <4>3. y = x + L /\ x \in Nat
        BY <2>2, <2>4, <3>1
      <4> DEFINE p == loan.principal
                 b == balance
                 c == balance'
      <4>4. b + x <= p /\ p \in Nat /\ L \in Nat /\ b \in Nat
        BY <2>4, <3>1, <4>1 DEF L
      <4>5. c \in Nat /\ c + L <= b
        BY <4>2
      <4> HIDE DEF x, y, p, b, c
      <4>6. c + y <= p
        BY <4>3, <4>4, <4>5
      <4> QED
        BY <4>6 DEF y, p, c
    <3> QED
      BY <2>2, <2>5, <2>6, <3>2
  <2>7. CASE loan.num # 0
    <3>1. PICK k \in 0..(loan.term - 1) : \/ period = 2 * k /\ PairsAre(loan, balance, k)
                                          \/ period = 2 * k + 1 /\ InPair(loan, balance, k)
      BY <2>2, <2>3, <2>7 DEF RepaidInv
    <3>2. period' <= 2 * loan.term
      BY <2>2, <2>4, <3>1
    <3>3. ASSUME outcome' = "running"
          PROVE  \E j \in 0..(loan.term - 1) : \/ period' = 2 * j /\ PairsAre(loan, balance', j)
                                               \/ period' = 2 * j + 1 /\ InPair(loan, balance', j)
      <4>1. CASE period = 2 * k /\ PairsAre(loan, balance, k)
        <5>1. InPair(loan, balance', k)
          BY <2>3, <2>4, <2>5, <2>7, <3>3, <4>1, PairBegins
        <5> QED
          BY <2>2, <4>1, <5>1
      <4>2. CASE period = 2 * k + 1 /\ InPair(loan, balance, k)
        <5>1. k + 1 \in 0..(loan.term - 1) /\ PairsAre(loan, balance', k + 1)
          BY <2>3, <2>4, <2>5, <2>7, <3>3, <4>2, PairEnds
        <5>2. period' = 2 * (k + 1)
          BY <2>2, <4>2
        <5> QED
          BY <5>1, <5>2
      <4> QED
        BY <3>1, <4>1, <4>2
    <3> QED
      BY <2>2, <2>5, <2>7, <3>2, <3>3
  <2> QED
    BY <2>6, <2>7
<1>3. CASE BiweeklyRaise
  <2>1. /\ outcome = "running" /\ mode = "biweekly" /\ loan' = loan /\ mode' = mode
        /\ balance = 0 \/ period = 2 * loan.term + 10
    BY <1>3 DEF BiweeklyRaise, Raise, request
  <2>2. ASSUME Real(loan) PROVE FALSE
    <3>1. /\ loan \in Loans /\ "biweekly" \in Modes /\ loan.term \in Nat \ {0}
          /\ balance \in Nat /\ period \in Nat /\ loan.principal \in Nat
      BY <2>1, LoanAssumption DEF SumInv, TypeOK, Cent
    <3>2. balance > 0 /\ period = 2 * loan.term + 10
      BY <2>1, <2>2, <3>1 DEF RepaidInv
    <3>3. CASE loan.num = 0
      <4> DEFINE x == period * Level(loan, "biweekly")
      <4>1. balance + x <= loan.principal
        BY <2>1, <2>2, <3>3 DEF RepaidInv
      <4>2. loan.principal < x
        BY <2>2, <3>1, <3>2, <3>3, RowsRepay
      <4>3. x \in Nat
        BY <3>1, BiweeklyAmounts
      <4> HIDE DEF x
      <4> QED
        BY <3>1, <3>2, <4>1, <4>2, <4>3
    <3>4. CASE loan.num # 0
      BY <2>2, <2>1, <3>1, <3>2, <3>4 DEF RepaidInv
    <3> QED
      BY <3>3, <3>4
  <2> QED
    BY <2>1, <2>2 DEF RepaidInv
<1>4. CASE UNCHANGED vars
  BY <1>4 DEF vars, request, RepaidInv
<1> QED
  BY <1>1, <1>2, <1>3, <1>4 DEF Next, Done

\* max_periods, twice the months and ten rows, never refuses a real loan, and
\* with interest the ten are not even needed: the balance is gone in twice the
\* months, whatever the cents that 26 payments a year round off.
RealLoansAreRepaid ==
    Real(loan) => /\ outcome # "raised"
                  /\ mode = "biweekly" /\ loan.num # 0 => period <= 2 * loan.term
THEOREM RealLoansRepaid == Spec => []RealLoansAreRepaid
<1>1. SumInv /\ RepaidInv => RealLoansAreRepaid
  BY DEF SumInv, RepaidInv, RealLoansAreRepaid
<1> QED
  BY <1>1, SumInit, SumStep, RepaidInit, RepaidStep, PTL DEF Spec
=============================================================================
