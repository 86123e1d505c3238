------------------------------- MODULE Money -------------------------------
(***************************************************************************)
(* lib/money.py and the annuity formulas of numpy_financial.  Money is an  *)
(* integer number of cents and a rate an exact fraction num / den.  The    *)
(* discount factors of an annuity carry the digits of Unit, where the code *)
(* has decimals of 28: an amount can differ only where it lies that close  *)
(* to the middle between two cents.                                        *)
(***************************************************************************)
EXTENDS Integers, SequencesExt

CONSTANT Unit       \* the present value of one payment at once, see Annuity

ASSUME UnitAssumption == Unit \in Nat /\ Unit > 1

Magnitude(x) == IF x < 0 THEN -x ELSE x

\* quantize_cents and quantize_rate of n / d: halves go away from zero.
Cents(n, d) == (2 * n + d) \div (2 * d)
SignedCents(n, d) == IF n < 0 THEN -Cents(-n, d) ELSE Cents(n, d)

\* quantize in the default context: halves go to the even neighbour.
HalfEven(n, d) ==
    LET q == n \div d
        r == 2 * (n % d)
    IN  IF r > d \/ (r = d /\ q % 2 = 1) THEN q + 1 ELSE q

\* The present value of n payments of one Unit at monthly rate num / d.
Annuity(num, d, n) ==
    LET upTo[k \in 0..n] ==
            IF k = 0 THEN [factor |-> Unit, sum |-> 0]
            ELSE LET before == upTo[k - 1]
                     factor == (before.factor * d) \div (d + num)
                 IN  [factor |-> factor, sum |-> before.sum + factor]
    IN  upTo[n].sum

\* -npf.pmt at rate / 12: the level payment whose present value is p.
LevelPayment(p, num, den, n) == Cents(p * Unit, Annuity(num, 12 * den, n))

\* -npf.pv at rate / 12: the present value of n payments of pmt.
PresentValue(pmt, num, den, n) == Cents(pmt * Annuity(num, 12 * den, n), Unit)
=============================================================================
