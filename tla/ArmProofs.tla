----------------------------- MODULE ArmProofs -----------------------------
(***************************************************************************)
(* Theorems about the resets of Arm, for any requests that satisfy the     *)
(* assumption and any number of resets.                                    *)
(***************************************************************************)
EXTENDS Arm, TLAPS

\* The theorems of Amortize about the schedule of an epoch.
P == INSTANCE AmortizeProofs WITH
        Loans <- AnyLoan, Plans <- {<<>>}, Modes <- {"monthly"},
        loan <- synthetic, plan <- <<>>, mode <- "monthly"

-----------------------------------------------------------------------------
(* One reset.                                                              *)

\* The terms of a request are numbers, and its floor is below its ceiling.
LEMMA TermTypes ==
  ASSUME NEW q \in Requests, Valid(q), NEW e \in Nat
  PROVE  /\ q.margin \in Nat /\ IndexValue(q, e) \in Nat /\ FullyIndexed(q, e) \in Nat
         /\ Floor(q) \in Nat /\ LifetimeCeiling(q) \in Int /\ CapOf(q, e) \in Nat
         /\ Floor(q) <= LifetimeCeiling(q)
<1>1. IndexValue(q, e) \in Nat /\ q.margin \in Nat /\ q.floor \in Nat
  BY RequestAssumption DEF IndexValue
<1>2. NoteRate(q) \in Int /\ q.caps.lifetime \in Nat
  BY RequestAssumption DEF NoteRate, NoNote
<1>3. CapOf(q, e) \in Nat
  BY RequestAssumption DEF CapOf
<1> QED
  BY <1>1, <1>2, <1>3 DEF FullyIndexed, Floor, LifetimeCeiling, Most, Valid

\* A new rate keeps the floor and the lifetime ceiling, and goes above the
\* cap of its reset only up to the floor.
LEMMA NewRateKeepsTerms ==
  ASSUME NEW q \in Requests, Valid(q), NEW e \in Nat, NEW r \in Nat
  PROVE  LET new == NewRate(q, e, r)
         IN  /\ new \in Nat /\ Floor(q) <= new /\ new <= LifetimeCeiling(q)
             /\ new <= r + CapOf(q, e) \/ new = Floor(q)
  BY TermTypes DEF NewRate, PeriodicCeiling, Least, Most

\* The label of a reset names what bound its rate.
LEMMA AppliedIsHonest ==
  ASSUME NEW q \in Requests, Valid(q), NEW e \in Nat \ {0}, NEW r \in Nat
  PROVE  LET new == NewRate(q, e, r)
             label == AppliedCap(q, e, r)
             full == IndexValue(q, e) + q.margin
         IN  /\ new > full <=> label = "floor"
             /\ label \in {"initial", "periodic", "lifetime"} => new < full
             /\ label \in {"initial", "periodic"} => new = r + CapOf(q, e)
             /\ label = "lifetime" => new = LifetimeCeiling(q)
             /\ label = "none" =>
                  new = full \/ (new = Floor(q) /\ new > r + CapOf(q, e))
<1> DEFINE new == NewRate(q, e, r)
           full == FullyIndexed(q, e)
           life == LifetimeCeiling(q)
           per == PeriodicCeiling(q, e, r)
           low == Floor(q)
           label == AppliedCap(q, e, r)
<1>1. full \in Nat /\ life \in Int /\ low \in Nat /\ low <= life /\ per \in Nat
      /\ per = r + CapOf(q, e) /\ full = IndexValue(q, e) + q.margin
  BY TermTypes DEF PeriodicCeiling, FullyIndexed
<1>2. new = Most(low, Least(full, Least(per, life)))
  BY DEF NewRate
<1>3. /\ label = "floor" <=> (new = low /\ new > full)
      /\ label = "lifetime" => (new = life /\ life <= per /\ new < full)
      /\ label \in {"initial", "periodic"} => (new = per /\ new < full)
      /\ label = "none" => /\ ~ (new = low /\ new > full)
                           /\ ~ (new = life /\ life <= per /\ new < full)
                           /\ ~ (new = per /\ new < full)
  BY DEF AppliedCap
<1> HIDE DEF new, full, life, per, low, label
<1>4. new \in Int /\ (new > full => new = low)
      /\ (new = full \/ new = low \/ (new = per /\ new < full)
            \/ (new = life /\ life <= per /\ new < full))
      /\ (new = low => new >= full \/ new >= per \/ (new >= life /\ life <= per))
  BY <1>1, <1>2 DEF Least, Most
<1>5. /\ new > full <=> label = "floor"
      /\ label \in {"initial", "periodic", "lifetime"} => new < full
      /\ label \in {"initial", "periodic"} => new = per
      /\ label = "lifetime" => new = life
  BY <1>1, <1>3, <1>4
<1>6. ASSUME label = "none" PROVE new = full \/ (new = low /\ new > per)
  BY <1>1, <1>3, <1>4, <1>6
<1> QED
  BY <1>1, <1>5, <1>6 DEF new, life, low, label

-----------------------------------------------------------------------------
(* All resets of a schedule.                                               *)

\* A reset recorded as the k-th.
IsReset(k, old, new, label, index) ==
    /\ old \in Nat /\ new = NewRate(req, k, old)
    /\ label = AppliedCap(req, k, old) /\ index = IndexValue(req, k)

\* One event is recorded for every reset but the one in force, which is
\* recorded when its rows are stitched on.
ResetInv ==
    /\ req \in Requests /\ Valid(req) /\ epoch \in Nat /\ rate \in Nat /\ prior \in Nat
    /\ DOMAIN events = 1..Len(events)
    /\ result = "running" => Len(events) = (IF epoch = 0 THEN 0 ELSE epoch - 1)
    /\ epoch > 0 => IsReset(epoch, prior, rate, applied, used)
    /\ \A k \in 1..Len(events) :
         IsReset(k, events[k].old, events[k].new, events[k].applied, events[k].used)

\* It holds at the start.
LEMMA ResetInit == Init => ResetInv
  BY RequestAssumption DEF Init, ResetInv

\* Stitching records the reset in force.
LEMMA StitchRecords ==
  ASSUME ResetInv, Stitch, req' = req
  PROVE  /\ DOMAIN events' = 1..Len(events') /\ Len(events') = epoch
         /\ \A k \in 1..Len(events') : IsReset(k, events'[k].old, events'[k].new,
                                               events'[k].applied, events'[k].used)
<1>1. CASE epoch = 0
  BY <1>1 DEF Stitch, ResetInv
<1>2. CASE epoch # 0
  <2>1. events' = Append(events, Event) /\ Len(events) = epoch - 1 /\ epoch \in Nat
    BY <1>2 DEF Stitch, ResetInv
  <2>2. Len(events') = epoch /\ DOMAIN events' = 1..epoch
        /\ events'[epoch] = Event /\ \A k \in 1..(epoch - 1) : events'[k] = events[k]
    BY <1>2, <2>1 DEF ResetInv
  <2>3. IsReset(epoch, Event.old, Event.new, Event.applied, Event.used)
    BY <1>2 DEF ResetInv, Event
  <2>4. \A k \in 1..epoch : k = epoch \/ k \in 1..(epoch - 1)
    BY <2>1
  <2> QED
    BY <2>1, <2>2, <2>3, <2>4 DEF ResetInv
<1> QED
  BY <1>1, <1>2

\* Every step keeps it.
LEMMA ResetStep == ResetInv /\ [Next]_vars => ResetInv'
<1> SUFFICES ASSUME ResetInv, [Next]_vars PROVE ResetInv'
  OBVIOUS
<1>1. CASE BuildRow
  BY <1>1 DEF BuildRow, ResetInv, IsReset, arm
<1>2. CASE Finish
  <2>1. UNCHANGED <<req, epoch, rate, prior, applied, used>> /\ result' = "built"
    BY <1>2 DEF Finish
  <2> QED
    BY <1>2, <2>1, StitchRecords DEF Finish, ResetInv, IsReset
<1>3. CASE NextEpoch
  <2>1. /\ req' = req /\ epoch' = epoch + 1 /\ prior' = rate
        /\ rate' = NewRate(req, epoch', rate) /\ applied' = AppliedCap(req, epoch', rate)
        /\ used' = IndexValue(req, epoch')
    BY <1>3 DEF NextEpoch
  <2>2. epoch' \in Nat /\ epoch' # 0 /\ epoch = epoch' - 1 /\ rate' \in Nat
    BY <2>1, NewRateKeepsTerms DEF ResetInv
  <2> QED
    BY <1>3, <2>1, <2>2, StitchRecords DEF NextEpoch, ResetInv, IsReset
<1>4. CASE UNCHANGED vars
  BY <1>4 DEF vars, arm, ResetInv, IsReset
<1> QED
  BY <1>1, <1>2, <1>3, <1>4 DEF Next, Done

\* Every event of every schedule is the reset that the formula gives for its
\* place in the sequence.
THEOREM ResetsFollowFormula == Spec => []ResetInv
  BY ResetInit, ResetStep, PTL DEF Spec

\* No reset takes the rate above the lifetime ceiling, below the floor, or
\* above the cap of that reset except to reach the floor.
THEOREM EveryResetKeepsTerms == Spec => []RateKeepsTerms
<1>1. ResetInv => RateKeepsTerms
  <2> SUFFICES ASSUME ResetInv, NEW k \in 1..Len(events)
               PROVE  LET e == events[k]
                      IN  /\ Floor(req) <= e.new /\ e.new <= LifetimeCeiling(req)
                          /\ e.new <= e.old + CapOf(req, k) \/ e.new = Floor(req)
    BY DEF ResetInv, RateKeepsTerms
  <2>1. events[k].old \in Nat /\ events[k].new = NewRate(req, k, events[k].old)
    BY DEF ResetInv, IsReset
  <2>2. k \in Nat /\ req \in Requests /\ Valid(req)
    BY DEF ResetInv
  <2> DEFINE r == events[k].old
             new == NewRate(req, k, r)
  <2>3. /\ Floor(req) <= new /\ new <= LifetimeCeiling(req)
        /\ new <= r + CapOf(req, k) \/ new = Floor(req)
    <3> HIDE DEF r
    <3> QED
      BY <2>1, <2>2, NewRateKeepsTerms DEF r
  <2> QED
    BY <2>1, <2>3
<1> QED
  BY <1>1, ResetsFollowFormula, PTL

\* applied_cap of every reset names the constraint that bound its rate.
THEOREM EveryLabelIsHonest == Spec => []LabelIsHonest
<1>1. ResetInv => LabelIsHonest
  BY AppliedIsHonest DEF ResetInv, LabelIsHonest, IsReset
<1> QED
  BY <1>1, ResetsFollowFormula, PTL

-----------------------------------------------------------------------------
(* The schedule of an epoch.                                               *)

\* The payment of LevelFrom is the one of Amortize.
LEMMA SameLevel == \A l, m : S!Level(l, m) = P!Level(l, m)
<1>1. \A n, d : S!Cents(n, d) = P!Cents(n, d)
  BY Zenon DEF S!Cents, P!Cents
<1>2. \A n, d, k : S!Annuity(n, d, k) = P!Annuity(n, d, k)
  BY Zenon DEF S!Annuity, P!Annuity
<1>3. \A l : S!MonthlyPi(l) = P!MonthlyPi(l)
  BY <1>1, <1>2, Zenon DEF S!MonthlyPi, P!MonthlyPi, S!LevelPayment, P!LevelPayment
<1> QED
  BY <1>1, <1>3, Zenon DEF S!Level, P!Level

\* BuildRow is the action of Amortize.
LEMMA SameRow == S!FixedRow <=> P!FixedRow
<1>1. \A n, d : S!Cents(n, d) = P!Cents(n, d)
  BY Zenon DEF S!Cents, P!Cents
<1>2. \A l, m : S!Level(l, m) = P!Level(l, m)
  BY SameLevel
<1>3. \A l, m, b : S!Interest(l, m, b) = P!Interest(l, m, b)
  BY <1>1, Zenon DEF S!Interest, P!Interest, S!PeriodsPerYear, P!PeriodsPerYear
<1>4. \A x, p : S!RawExtra(x, p) = P!RawExtra(x, p)
  BY Zenon DEF S!RawExtra, P!RawExtra
<1>5. \A x, p, c : S!ResolveExtra(x, p, c) = P!ResolveExtra(x, p, c)
  BY <1>4, Zenon DEF S!ResolveExtra, P!ResolveExtra
<1>6. S!Overshoot = P!Overshoot
  BY <1>2, <1>3, Zenon DEF S!Overshoot, P!Overshoot
<1>7. \A b : S!Row(b) = P!Row(b)
  BY <1>2, <1>3, <1>5, Zenon DEF S!Row, P!Row
<1>8. \A r, f : S!AddRow(r, f) <=> P!AddRow(r, f)
  BY Zenon DEF S!AddRow, P!AddRow, S!Raise, P!Raise, S!request, P!request
<1> QED
  BY <1>6, <1>7, <1>8, Zenon DEF S!FixedRow, P!FixedRow

\* The loan of an epoch is one that Amortize is about.
LEMMA EpochLoans ==
  /\ \A l \in AnyLoan : /\ l \in [principal : Nat, num : Nat, den : Nat \ {0}, term : Nat \ {0}]
                        /\ l.num <= l.den
  /\ {<<>>} \subseteq Seq([period : Nat \ {0}, amount : Nat \ {0}, recurring : BOOLEAN])
  /\ {"monthly"} \subseteq {"monthly", "half-monthly", "biweekly"}
<1>1. Den \in Nat \ {0}
  BY RequestAssumption
<1> QED
  BY <1>1 DEF AnyLoan

-----------------------------------------------------------------------------
(* Epochs.                                                                 *)

\* Every epoch starts after the one before it, and a reset comes after the
\* initial period.
LEMMA StartIncreases ==
  ASSUME NEW q \in Requests, NEW e \in Nat, NEW f \in Nat
  PROVE  /\ Start(q, 0) = 1 /\ Start(q, e) \in Nat \ {0}
         /\ e # 0 => Start(q, e) >= q.initial + e
         /\ e < f => Start(q, e) < Start(q, f)
<1> DEFINE c == q.cadence
           i == q.initial
<1>1. c \in Nat \ {0} /\ i \in Nat \ {0}
  BY RequestAssumption
<1>2. Start(q, 0) = 1 /\ \A k \in Nat : k # 0 => Start(q, k) = i + 1 + (k - 1) * c
  BY DEF Start
<1> HIDE DEF c, i
<1>3. ASSUME NEW k \in Nat, k # 0 PROVE Start(q, k) \in Nat \ {0} /\ Start(q, k) >= i + k
  <2>1. (k - 1) * (c - 1) >= 0
    BY <1>1, <1>3
  <2> QED
    BY <1>1, <1>2, <1>3, <2>1
<1>4. ASSUME e < f PROVE Start(q, e) < Start(q, f)
  <2>1. CASE e = 0
    BY <1>1, <1>2, <1>3, <1>4, <2>1
  <2>2. CASE e # 0
    <3>1. (f - e - 1) * c >= 0
      BY <1>1, <1>4
    <3> QED
      BY <1>1, <1>2, <1>4, <2>2, <3>1
  <2> QED
    BY <2>1, <2>2
<1> QED
  BY <1>2, <1>3, <1>4 DEF i

\* A row belongs to the epoch in whose window it lies.
LEMMA WindowsHoldNoReset ==
  ASSUME NEW q \in Requests, NEW e \in Nat, Start(q, e) <= q.term
  PROVE  /\ q.term \in Nat /\ End(q, e) \in Nat /\ Start(q, e) < End(q, e)
         /\ e # 0 => IsTrigger(q, Start(q, e))
         /\ \A p \in Nat : Start(q, e) < p /\ p < End(q, e) => ~ IsTrigger(q, p)
<1> DEFINE s == Start(q, e)
           t == Start(q, e + 1)
<1>1. q.term \in Nat \ {0} /\ q.initial \in Nat \ {0}
  BY RequestAssumption
<1>2. s \in Nat /\ t \in Nat /\ s < t /\ s <= q.term /\ (e # 0 => s >= q.initial + e)
  BY StartIncreases
<1>3. End(q, e) = IF e = 0 \/ t <= q.term THEN t ELSE q.term + 1
  BY DEF End
<1>4. ASSUME e # 0 PROVE IsTrigger(q, s)
  <2>1. e \in 1..q.term
    BY <1>1, <1>2, <1>4
  <2> QED
    BY <1>2, <2>1 DEF IsTrigger
<1>5. ASSUME NEW p \in Nat, s < p, p < End(q, e), IsTrigger(q, p) PROVE FALSE
  <2>1. PICK f \in 1..q.term : p = Start(q, f) /\ p <= q.term
    BY <1>5 DEF IsTrigger
  <2>2. f \in Nat
    BY <1>1
  <2>3. e < f
    <3>1. f < e => Start(q, f) < s
      BY <2>2, StartIncreases
    <3>2. f = e => Start(q, f) = s
      OBVIOUS
    <3> QED
      BY <1>2, <1>5, <2>1, <2>2, <3>1, <3>2
  <2>4. t <= p
    <3>1. e + 1 < f => t < Start(q, f)
      BY <2>2, StartIncreases
    <3> QED
      BY <1>2, <2>1, <2>2, <2>3, <3>1
  <2> QED
    BY <1>1, <1>2, <1>3, <1>5, <2>1, <2>4
<1> HIDE DEF s, t
<1>6. End(q, e) \in Nat /\ s < End(q, e)
  BY <1>1, <1>2, <1>3
<1> QED
  BY <1>1, <1>4, <1>5, <1>6 DEF s

\* What the schedule of an epoch keeps: running totals, a balance that they
\* leave, and a last row that is the only one without a balance.  Before the
\* last month of the term only a payment that covers all of it leaves none.
EpochInv ==
    /\ P!SumInv
    /\ synthetic \in AnyLoan
    /\ Len(rows) <= synthetic.term
    /\ rows = <<>> => cumInt = 0 /\ cumPrin = 0
    /\ cumExtra = 0
    /\ outcome = "paid" => rows # <<>>
    /\ \A i \in 1..Len(rows) :
         /\ rows[i].balance + rows[i].cumPrin = synthetic.principal
         /\ rows[i].cumInt = rows[i].interest + (IF i = 1 THEN 0 ELSE rows[i - 1].cumInt)
         /\ rows[i].cumPrin = rows[i].principal + (IF i = 1 THEN 0 ELSE rows[i - 1].cumPrin)
         /\ i = Len(rows) =>
              rows[i].cumInt = cumInt /\ rows[i].cumPrin = cumPrin /\ rows[i].balance = balance
         /\ rows[i].balance = 0 =>
              /\ i = Len(rows) /\ outcome = "paid"
              /\ i = synthetic.term \/ rows[i].payment <= P!Level(synthetic, "monthly")

\* What is known of the row that BuildRow adds.
LEMMA BuildRowAdds ==
  ASSUME EpochInv, BuildRow
  PROVE  /\ synthetic' = synthetic /\ P!SumInv'
         /\ outcome = "running" /\ cumExtra' = 0
         /\ \E row \in P!PaymentRow :
              /\ rows' = Append(rows, row)
              /\ cumInt' = row.cumInt /\ cumPrin' = row.cumPrin /\ balance' = row.balance
              /\ row.cumInt = cumInt + row.interest /\ row.cumPrin = cumPrin + row.principal
              /\ row.balance = balance - row.principal
              /\ outcome' = "running" => row.balance # 0 /\ Len(rows) + 1 < synthetic.term
              /\ outcome' \in {"running", "paid"}
              /\ outcome' = "paid" /\ Len(rows) + 1 < synthetic.term =>
                   row.payment <= P!Level(synthetic, "monthly")
<1>1. P!FixedRow /\ synthetic' = synthetic
  BY SameRow DEF BuildRow
<1>2. P!SumInv'
  <2>1. P!SumInv /\ [P!Next]_P!vars
    BY <1>1 DEF P!Next, EpochInv
  <2>2. P!SumInv /\ [P!Next]_P!vars => P!SumInv'
    BY EpochLoans, RequestAssumption, P!SumStep
  <2> QED
    BY <2>1, <2>2
<1>3. PICK row \in P!PaymentRow : P!Adds(row)
  <2>1. P!SumInv
    BY DEF EpochInv
  <2> QED
    BY <1>1, <2>1, EpochLoans, RequestAssumption, P!RowAdded
<1>4. P!RawExtra(<<>>, period + 1) = 0
  <2>1. <<>> \in Seq(P!ExtraEntry) /\ period + 1 \in Nat
    BY DEF EpochInv, P!SumInv, P!TypeOK
  <2>2. \A x \in Seq(P!ExtraEntry) : x = <<>> => P!RawExtra(x, period + 1) = 0
    BY <2>1, EpochLoans, RequestAssumption, P!ExtraIsAmount
  <2> QED
    BY <2>1, <2>2
<1>5. row.extra \in Nat /\ row.extra <= P!RawExtra(<<>>, period + 1)
  BY <1>3 DEF P!Adds, P!PaymentRow, P!Cent
<1>6. row.extra = 0
  BY <1>4, <1>5
<1>7. Len(rows) = period /\ balance \in Nat /\ row.principal \in Nat
  BY DEF EpochInv, P!SumInv, P!TypeOK, P!Cent, P!PaymentRow
<1>8. row.balance = balance - row.principal /\ cumExtra' = 0
  BY <1>3, <1>6, <1>7 DEF P!Adds, EpochInv
<1>9. /\ outcome = "running" /\ outcome' \in {"running", "paid"}
      /\ rows' = Append(rows, row)
      /\ cumInt' = row.cumInt /\ cumPrin' = row.cumPrin /\ balance' = row.balance
      /\ row.cumInt = cumInt + row.interest /\ row.cumPrin = cumPrin + row.principal
      /\ outcome' = "running" => row.balance # 0 /\ Len(rows) + 1 < synthetic.term
      /\ outcome' = "paid" /\ Len(rows) + 1 < synthetic.term =>
           row.payment <= P!Level(synthetic, "monthly")
  BY <1>3, <1>6, <1>7 DEF P!Adds
<1> QED
  BY <1>1, <1>2, <1>8, <1>9

\* A row keeps it.
LEMMA EpochBuild ==
  ASSUME EpochInv, BuildRow
  PROVE  EpochInv'
<1> DEFINE n == Len(rows)
<1>1. /\ synthetic' = synthetic /\ P!SumInv' /\ outcome = "running" /\ cumExtra' = 0
  BY BuildRowAdds
<1>2. PICK row \in P!PaymentRow :
              /\ rows' = Append(rows, row)
              /\ cumInt' = row.cumInt /\ cumPrin' = row.cumPrin /\ balance' = row.balance
              /\ row.cumInt = cumInt + row.interest /\ row.cumPrin = cumPrin + row.principal
              /\ row.balance = balance - row.principal
              /\ outcome' = "running" => row.balance # 0 /\ Len(rows) + 1 < synthetic.term
              /\ outcome' \in {"running", "paid"}
              /\ outcome' = "paid" /\ Len(rows) + 1 < synthetic.term =>
                   row.payment <= P!Level(synthetic, "monthly")
  BY BuildRowAdds
<1>3. /\ rows \in Seq(P!PaymentRow) /\ n \in Nat /\ rows = <<>> <=> n = 0
      /\ synthetic.term \in Nat /\ synthetic.principal \in Nat
      /\ cumInt \in Nat /\ cumPrin \in Nat /\ balance \in Nat
      /\ n < synthetic.term /\ cumPrin + balance = synthetic.principal
  BY <1>1 DEF EpochInv, P!SumInv, P!TypeOK, P!Cent, AnyLoan
<1>4. /\ Len(rows') = n + 1 /\ rows'[n + 1] = row /\ \A i \in 1..n : rows'[i] = rows[i]
      /\ rows' # <<>>
  BY <1>2, <1>3
<1>5. row.interest \in Nat /\ row.principal \in Nat /\ row.balance \in Nat
  BY DEF P!PaymentRow, P!Cent
<1>6. ASSUME NEW i \in 1..n
      PROVE  /\ rows[i].balance + rows[i].cumPrin = synthetic.principal
             /\ rows[i].cumInt = rows[i].interest + (IF i = 1 THEN 0 ELSE rows[i - 1].cumInt)
             /\ rows[i].cumPrin = rows[i].principal + (IF i = 1 THEN 0 ELSE rows[i - 1].cumPrin)
             /\ rows[i].balance # 0
             /\ i # n + 1
             /\ i # 1 => rows'[i - 1] = rows[i - 1]
  <2>1. i # 1 => rows'[i - 1] = rows[i - 1]
    <3>1. i # 1 => i - 1 \in 1..n
      BY <1>3
    <3> QED
      BY <1>4, <3>1
  <2>2. i # n + 1
    BY <1>3
  <2>3. /\ rows[i].balance + rows[i].cumPrin = synthetic.principal
        /\ rows[i].cumInt = rows[i].interest + (IF i = 1 THEN 0 ELSE rows[i - 1].cumInt)
        /\ rows[i].cumPrin = rows[i].principal + (IF i = 1 THEN 0 ELSE rows[i - 1].cumPrin)
        /\ rows[i].balance = 0 => outcome = "paid"
    BY DEF EpochInv
  <2> QED
    BY <1>1, <2>1, <2>2, <2>3
<1>7. /\ row.balance + row.cumPrin = synthetic.principal
      /\ row.cumInt = row.interest + (IF n + 1 = 1 THEN 0 ELSE rows'[n].cumInt)
      /\ row.cumPrin = row.principal + (IF n + 1 = 1 THEN 0 ELSE rows'[n].cumPrin)
  <2>1. CASE n = 0
    BY <1>2, <1>3, <1>5, <2>1 DEF EpochInv
  <2>2. CASE n # 0
    <3>1. n \in 1..n /\ rows'[n] = rows[n]
      BY <1>3, <1>4, <2>2
    <3>2. rows[n].cumInt = cumInt /\ rows[n].cumPrin = cumPrin
      BY <3>1 DEF EpochInv
    <3> QED
      BY <1>2, <1>3, <1>5, <2>2, <3>1, <3>2
  <2> QED
    BY <2>1, <2>2
<1>8. row.balance = 0 =>
        /\ outcome' = "paid"
        /\ n + 1 = synthetic.term \/ row.payment <= P!Level(synthetic, "monthly")
  BY <1>2, <1>3
<1>9. ASSUME NEW i \in 1..(n + 1)
      PROVE  /\ rows'[i].balance + rows'[i].cumPrin = synthetic.principal
             /\ rows'[i].cumInt = rows'[i].interest + (IF i = 1 THEN 0 ELSE rows'[i - 1].cumInt)
             /\ rows'[i].cumPrin = rows'[i].principal + (IF i = 1 THEN 0 ELSE rows'[i - 1].cumPrin)
             /\ i = n + 1 =>
                  rows'[i].cumInt = cumInt' /\ rows'[i].cumPrin = cumPrin' /\ rows'[i].balance = balance'
             /\ rows'[i].balance = 0 =>
                  /\ i = n + 1 /\ outcome' = "paid"
                  /\ i = synthetic.term \/ rows'[i].payment <= P!Level(synthetic, "monthly")
  <2>1. CASE i = n + 1
    BY <1>2, <1>3, <1>4, <1>7, <1>8, <2>1
  <2>2. CASE i \in 1..n
    BY <1>4, <1>6, <2>2
  <2> QED
    BY <1>3, <2>1, <2>2
<1> QED
  BY <1>1, <1>3, <1>4, <1>9 DEF EpochInv

-----------------------------------------------------------------------------
(* Rows of all epochs.                                                     *)

ArmPayment == [period : Nat, payment : Nat, principal : Nat, interest : Nat, balance : Nat,
               rate : Nat, cumInt : Nat, cumPrin : Nat]

\* remaining_balance.
Owed == IF payments = <<>> THEN req.principal ELSE Last(payments).balance

\* Where the next epoch goes on: the loan, the totals and the old payment are
\* those of the last row so far.
Place ==
    /\ Start(req, epoch) <= req.term /\ rate \in 0..Den
    /\ synthetic = SyntheticLoan(req, epoch, rate, Owed)
    /\ epoch = 0 => payments = <<>> /\ rate = req.rate /\ carryInt = 0 /\ carryPrin = 0
    /\ epoch # 0 =>
         /\ payments # <<>>
         /\ carryInt = Last(payments).cumInt /\ carryPrin = Last(payments).cumPrin
         /\ carryPmt = Last(payments).payment /\ prior = Last(payments).rate
         /\ Last(payments).period < Start(req, epoch)
         /\ Last(payments).period = Start(req, epoch) - 1 \/ Last(payments).balance = 0

\* What row i follows.
Before(i) == IF i = 1
             THEN [period |-> 0, cumInt |-> 0, cumPrin |-> 0, balance |-> req.principal]
             ELSE payments[i - 1]

\* Row i follows the row before it.
RowInv(i) ==
    /\ payments[i].cumInt = Before(i).cumInt + payments[i].interest
    /\ payments[i].cumPrin = Before(i).cumPrin + payments[i].principal
    /\ payments[i].period = Before(i).period + 1
         \/ (i > 1 /\ Before(i).balance = 0 /\ payments[i].period > Before(i).period)
    /\ payments[i].balance = 0 /\ payments[i].period < req.term =>
         \E j \in 1..i : StartsEpochOf(j, i) /\ payments[i].payment <= LevelFrom(j)
    /\ payments[i].balance + payments[i].cumPrin = req.principal
    /\ payments[i].period <= req.initial => payments[i].rate = req.rate
    /\ i > 1 /\ payments[i].rate # payments[i - 1].rate =>
         \E k \in 1..Len(events) : events[k].period = payments[i].period

\* Event k is that of a row that is not the first.
EventInv(k) ==
    \E i \in 2..Len(payments) :
      /\ payments[i].period = events[k].period
      /\ payments[i].rate = events[k].new /\ payments[i].payment = events[k].newPmt
      /\ payments[i - 1].rate = events[k].old /\ payments[i - 1].payment = events[k].oldPmt

ChainInv ==
    /\ payments \in Seq(ArmPayment)
    /\ result = "running" => Place
    /\ result = "built" => payments # <<>> /\ Last(payments).balance = 0
    /\ \A i \in 1..Len(payments) : RowInv(i)
    /\ \A k \in 1..Len(events) : EventInv(k)

\* The first m rows of the epoch are stitched on.
Stitches(m) ==
    /\ m \in 1..Len(rows) /\ m <= End(req, epoch) - Start(req, epoch)
    /\ m = Len(rows) \/ m = End(req, epoch) - Start(req, epoch)
    /\ Head(Sliced) = rows[1]
    /\ Stitched \in Seq(ArmPayment) /\ Len(Stitched) = m
    /\ \A i \in 1..m :
         /\ rows[i] \in P!PaymentRow
         /\ Stitched[i].period = Start(req, epoch) + i - 1 /\ Stitched[i].rate = rate
         /\ Stitched[i].payment = rows[i].payment /\ Stitched[i].principal = rows[i].principal
         /\ Stitched[i].interest = rows[i].interest /\ Stitched[i].balance = rows[i].balance
         /\ Stitched[i].cumInt = carryInt + rows[i].cumInt
         /\ Stitched[i].cumPrin = carryPrin + rows[i].cumPrin

\* What is carried over is a number.
LEMMA CarryTypes ==
  ASSUME ResetInv, ChainInv, result = "running"
  PROVE  /\ carryInt \in Nat /\ carryPrin \in Nat /\ Owed \in Nat /\ rate \in Nat
         /\ epoch # 0 => /\ Len(payments) \in 1..Len(payments)
                         /\ Last(payments) = payments[Len(payments)]
                         /\ Last(payments) \in ArmPayment
         /\ req.principal \in Nat
<1>1. req.principal \in Nat /\ rate \in Nat
  BY RequestAssumption DEF ResetInv
<1>2. CASE epoch = 0
  BY <1>1, <1>2 DEF ChainInv, Place, Owed
<1>3. CASE epoch # 0
  <2>1. Place /\ payments \in Seq(ArmPayment) /\ payments # <<>>
    BY <1>3 DEF ChainInv, Place
  <2>2. Len(payments) \in 1..Len(payments) /\ payments[Len(payments)] \in ArmPayment
    BY <2>1
  <2>3. Last(payments) = payments[Len(payments)]
    BY DEF Last
  <2>4. /\ Last(payments).cumInt \in Nat /\ Last(payments).cumPrin \in Nat
        /\ Last(payments).balance \in Nat
    BY <2>2, <2>3 DEF ArmPayment
  <2> QED
    BY <1>1, <1>3, <2>1, <2>2, <2>3, <2>4 DEF Place, Owed
<1> QED
  BY <1>2, <1>3

\* Some rows of every complete schedule are stitched on.
LEMMA StitchedRows ==
  ASSUME ResetInv, EpochInv, ChainInv, Stitch
  PROVE  \E m \in Nat : Stitches(m)
<1> DEFINE n == Len(rows)
           w == End(req, epoch) - Start(req, epoch)
           m == IF End(req, epoch) = req.term + 1 THEN n ELSE Least(n, w)
<1>1. /\ result = "running" /\ Place /\ outcome = "paid"
      /\ rows \in Seq(P!PaymentRow) /\ n \in Nat \ {0} /\ n <= synthetic.term
  BY DEF Stitch, ChainInv, EpochInv, P!SumInv, P!TypeOK
<1>2. req \in Requests /\ epoch \in Nat /\ Start(req, epoch) <= req.term
  BY <1>1 DEF ResetInv, Place
<1>3. synthetic.term = req.term - Start(req, epoch) + 1
  BY <1>1 DEF Place, SyntheticLoan
<1>4. w \in Nat \ {0} /\ req.term \in Nat /\ Start(req, epoch) \in Nat \ {0} /\ End(req, epoch) \in Nat
  BY <1>2, WindowsHoldNoReset, StartIncreases
<1>5. m \in 1..n /\ m <= w /\ (m = n \/ m = w)
  BY <1>1, <1>3, <1>4 DEF Least
<1>6. DOMAIN Sliced = 1..m /\ Head(Sliced) = rows[1]
  <2>1. CASE End(req, epoch) = req.term + 1
    BY <1>1, <2>1 DEF Sliced
  <2>2. CASE End(req, epoch) # req.term + 1
    <3>1. Sliced = SubSeq(rows, 1, m)
      BY <2>2 DEF Sliced
    <3> HIDE DEF m
    <3> QED
      BY <1>1, <1>5, <3>1
  <2> QED
    BY <2>1, <2>2
<1> HIDE DEF m
<1>7. \A i \in 1..m : rows[i] \in P!PaymentRow
  BY <1>1, <1>5
<1>8. carryInt \in Nat /\ carryPrin \in Nat /\ rate \in Nat
  BY <1>1, CarryTypes
<1> DEFINE at(i) == [period |-> Start(req, epoch) + i - 1, payment |-> rows[i].payment,
                     principal |-> rows[i].principal, interest |-> rows[i].interest,
                     balance |-> rows[i].balance, rate |-> rate,
                     cumInt |-> carryInt + rows[i].cumInt, cumPrin |-> carryPrin + rows[i].cumPrin]
<1>9. Stitched = [i \in 1..m |-> at(i)]
  BY <1>6 DEF Stitched
<1>10. ASSUME NEW i \in 1..m PROVE at(i) \in ArmPayment
  <2>1. i \in Nat \ {0} /\ Start(req, epoch) + i - 1 \in Nat
    BY <1>4, <1>5
  <2>2. /\ rows[i].payment \in Nat /\ rows[i].principal \in Nat /\ rows[i].interest \in Nat
        /\ rows[i].balance \in Nat /\ rows[i].cumInt \in Nat /\ rows[i].cumPrin \in Nat
    BY <1>7 DEF P!PaymentRow, P!Cent
  <2> QED
    BY <1>8, <2>1, <2>2 DEF ArmPayment
<1>11. Stitched \in Seq(ArmPayment) /\ Len(Stitched) = m
  <2> HIDE DEF at
  <2>1. m \in Nat
    BY <1>1, <1>5
  <2> QED
    BY <1>9, <1>10, <2>1
<1>12. ASSUME NEW i \in 1..m PROVE Stitched[i] = at(i)
  BY <1>9
<1> QED
  BY <1>1, <1>5, <1>6, <1>7, <1>11, <1>12 DEF Stitches

\* The rows and events so far, and what Stitch adds to them.
Appends(m) ==
    /\ req' = req /\ Stitches(m)
    /\ Len(payments) \in Nat /\ Len(payments') = Len(payments) + m
    /\ payments \in Seq(ArmPayment) /\ payments' \in Seq(ArmPayment)
    /\ \A i \in 1..Len(payments) : payments'[i] = payments[i]
    /\ \A i \in 1..m : payments'[Len(payments) + i] = Stitched[i]
    /\ Len(events) \in Nat /\ Len(events') = Len(events) + (IF epoch = 0 THEN 0 ELSE 1)
    /\ \A k \in 1..Len(events) : events'[k] = events[k]
    /\ epoch # 0 => events'[Len(events) + 1] = Event

\* What a concatenation holds.
LEMMA Joined ==
  ASSUME NEW A, NEW s \in Seq(A), NEW t \in Seq(A)
  PROVE  /\ Len(s) \in Nat /\ Len(s \o t) = Len(s) + Len(t) /\ s \o t \in Seq(A)
         /\ \A i \in 1..Len(s) : (s \o t)[i] = s[i]
         /\ \A i \in 1..Len(t) : (s \o t)[Len(s) + i] = t[i]
<1>1. Len(s) \in Nat /\ Len(t) \in Nat /\ s \o t \in Seq(A) /\ Len(s \o t) = Len(s) + Len(t)
  OBVIOUS
<1>2. \A i \in 1..Len(s) : (s \o t)[i] = s[i]
  OBVIOUS
<1>3. ASSUME NEW i \in 1..Len(t) PROVE (s \o t)[Len(s) + i] = t[i]
  <2>1. Len(s) + i \in 1..(Len(s) + Len(t)) /\ Len(s) + i > Len(s) /\ (Len(s) + i) - Len(s) = i
    BY <1>1
  <2> QED
    BY <1>1, <2>1
<1> QED
  BY <1>1, <1>2, <1>3

\* Stitch adds the rows and the event of the epoch.
LEMMA StitchAppends ==
  ASSUME ResetInv, EpochInv, ChainInv, Stitch, req' = req
  PROVE  \E m \in Nat : Appends(m)
<1>1. PICK m \in Nat : Stitches(m)
  BY StitchedRows
<1>2. /\ payments \in Seq(ArmPayment) /\ Stitched \in Seq(ArmPayment) /\ Len(Stitched) = m
      /\ payments' = payments \o Stitched
  BY <1>1 DEF ChainInv, Stitches, Stitch
<1>3. /\ Len(payments) \in Nat /\ Len(payments') = Len(payments) + m
      /\ payments' \in Seq(ArmPayment)
      /\ \A i \in 1..Len(payments) : payments'[i] = payments[i]
      /\ \A i \in 1..m : payments'[Len(payments) + i] = Stitched[i]
  <2> DEFINE st == Stitched
             both == payments \o st
  <2>1. /\ st \in Seq(ArmPayment) /\ Len(st) = m /\ payments' = both
        /\ payments \in Seq(ArmPayment)
    BY <1>2
  <2> HIDE DEF st
  <2>2. ASSUME NEW s \in Seq(ArmPayment), NEW t \in Seq(ArmPayment)
        PROVE  /\ Len(s) \in Nat /\ Len(s \o t) = Len(s) + Len(t) /\ s \o t \in Seq(ArmPayment)
               /\ \A i \in 1..Len(s) : (s \o t)[i] = s[i]
               /\ \A i \in 1..Len(t) : (s \o t)[Len(s) + i] = t[i]
    BY Joined
  <2>3. Len(payments) \in Nat /\ Len(both) = Len(payments) + Len(st) /\ both \in Seq(ArmPayment)
    BY <2>1, <2>2
  <2>4. \A i \in 1..Len(payments) : both[i] = payments[i]
    BY <2>1, <2>2
  <2>5. \A i \in 1..Len(st) : both[Len(payments) + i] = st[i]
    BY <2>1, <2>2
  <2> HIDE DEF both
  <2> QED
    BY <2>1, <2>3, <2>4, <2>5 DEF st
<1>4. /\ Len(events) \in Nat /\ Len(events') = Len(events) + (IF epoch = 0 THEN 0 ELSE 1)
      /\ \A k \in 1..Len(events) : events'[k] = events[k]
      /\ epoch # 0 => events'[Len(events) + 1] = Event
  <2>1. Len(events) = (IF epoch = 0 THEN 0 ELSE epoch - 1) /\ DOMAIN events = 1..Len(events)
        /\ epoch \in Nat
    BY DEF ResetInv, Stitch
  <2>2. CASE epoch = 0
    BY <2>1, <2>2 DEF Stitch
  <2>3. CASE epoch # 0
    <3>1. events' = Append(events, Event) /\ Len(events) \in Nat
      BY <2>1, <2>3 DEF Stitch
    <3> QED
      BY <2>1, <2>3, <3>1
  <2> QED
    BY <2>2, <2>3
<1> QED
  BY <1>1, <1>2, <1>3, <1>4 DEF Appends

\* Rows that are there stay as they follow each other.
LEMMA OldRows ==
  ASSUME ChainInv, NEW m \in Nat, Appends(m), NEW i \in 1..Len(payments)
  PROVE  RowInv(i)'
<1>1. RowInv(i) /\ i \in Nat \ {0} /\ Len(payments) \in Nat
  BY DEF ChainInv, Appends
<1>2. req' = req /\ \A j \in 1..i : payments'[j] = payments[j]
  BY <1>1 DEF Appends
<1>3. payments'[i] = payments[i] /\ (i > 1 => payments'[i - 1] = payments[i - 1])
  BY <1>1, <1>2
<1>4. Before(i)' = Before(i)
  BY <1>1, <1>2, <1>3 DEF Before
<1>5. ASSUME NEW j \in 1..i, StartsEpochOf(j, i), payments[i].payment <= LevelFrom(j)
      PROVE  (StartsEpochOf(j, i) /\ payments[i].payment <= LevelFrom(j))'
  <2>1. payments'[j] = payments[j] /\ (j # 1 => payments'[j - 1] = payments[j - 1])
    BY <1>1, <1>2
  <2>2. \A k \in (j + 1)..i : k \in 1..i
    BY <1>1
  <2>3. StartsEpochOf(j, i)'
    BY <1>2, <1>5, <2>1, <2>2 DEF StartsEpochOf
  <2>4. LevelFrom(j)' = LevelFrom(j)
    BY <1>2, <2>1 DEF LevelFrom
  <2> QED
    BY <1>3, <1>5, <2>3, <2>4
<1>6. (payments[i].balance = 0 /\ payments[i].period < req.term =>
         \E j \in 1..i : StartsEpochOf(j, i) /\ payments[i].payment <= LevelFrom(j))'
  BY <1>1, <1>2, <1>3, <1>5 DEF RowInv
<1>7. (i > 1 /\ payments[i].rate # payments[i - 1].rate =>
         \E k \in 1..Len(events) : events[k].period = payments[i].period)'
  <2> SUFFICES ASSUME i > 1, payments[i].rate # payments[i - 1].rate
               PROVE  \E k \in 1..Len(events') : events'[k].period = payments[i].period
    BY <1>3
  <2>1. PICK k \in 1..Len(events) : events[k].period = payments[i].period
    BY <1>1 DEF RowInv
  <2>2. k \in 1..Len(events') /\ events'[k] = events[k]
    BY DEF Appends
  <2> QED
    BY <2>1, <2>2
<1> QED
  BY <1>1, <1>2, <1>3, <1>4, <1>6, <1>7 DEF RowInv

\* So do events.
LEMMA OldEvents ==
  ASSUME ChainInv, NEW m \in Nat, Appends(m), NEW k \in 1..Len(events)
  PROVE  EventInv(k)'
<1>1. events'[k] = events[k] /\ Len(payments) \in Nat /\ Len(payments') = Len(payments) + m
  BY DEF Appends
<1>2. PICK i \in 2..Len(payments) :
        /\ payments[i].period = events[k].period
        /\ payments[i].rate = events[k].new /\ payments[i].payment = events[k].newPmt
        /\ payments[i - 1].rate = events[k].old /\ payments[i - 1].payment = events[k].oldPmt
  BY DEF ChainInv, EventInv
<1>3. i \in 2..Len(payments') /\ i \in 1..Len(payments) /\ i - 1 \in 1..Len(payments)
  BY <1>1
<1>4. payments'[i] = payments[i] /\ payments'[i - 1] = payments[i - 1]
  BY <1>3 DEF Appends
<1> QED
  BY <1>1, <1>2, <1>3, <1>4 DEF EventInv

\* The rows that Stitch adds.
LEMMA NewRowIs ==
  ASSUME NEW m \in Nat, Appends(m), NEW n \in Nat, n = Len(payments), NEW i \in 1..m
  PROVE  LET new == payments'[n + i]
         IN  /\ new.period = Start(req, epoch) + i - 1 /\ new.rate = rate
             /\ new.balance = rows[i].balance /\ new.payment = rows[i].payment
             /\ new.interest = rows[i].interest /\ new.principal = rows[i].principal
             /\ new.cumInt = carryInt + rows[i].cumInt
             /\ new.cumPrin = carryPrin + rows[i].cumPrin
             /\ rows[i] \in P!PaymentRow
<1>1. payments'[n + i] = Stitched[i]
  BY DEF Appends
<1>2. Stitches(m)
  BY DEF Appends
<1> QED
  BY <1>1, <1>2 DEF Stitches

\* What a row of an epoch leaves was covered by the level payment, unless it is
\* the last month of the term.
LEMMA NewRowCovered ==
  ASSUME ResetInv, EpochInv, ChainInv, result = "running", NEW m \in Nat, Appends(m), NEW i \in 1..m,
         NEW n \in Nat, n = Len(payments),
         rows[i].balance = 0, Start(req, epoch) + i - 1 < req.term
  PROVE  (\E j \in 1..(n + i) : StartsEpochOf(j, n + i) /\ payments[n + i].payment <= LevelFrom(j))'
<1> DEFINE s == Start(req, epoch)
<1>1. /\ n \in Nat /\ req' = req /\ i \in Nat \ {0} /\ i <= m /\ req \in Requests /\ epoch \in Nat
      /\ Stitches(m) /\ Place
  BY DEF Appends, ResetInv, ChainInv
<1>2. /\ s \in Nat \ {0} /\ End(req, epoch) \in Nat /\ m <= End(req, epoch) - s
      /\ s = 1 \/ IsTrigger(req, s)
      /\ \A p \in Nat : s < p /\ p < End(req, epoch) => ~ IsTrigger(req, p)
  BY <1>1, WindowsHoldNoReset, StartIncreases DEF Stitches, Place
<1>3. \A k \in 1..m : payments'[n + k].period = s + k - 1
  BY NewRowIs
<1> HIDE DEF s
<1>4. 1 \in 1..m /\ payments'[n + 1].period = s
  <2>1. 1 \in 1..m /\ s + 1 - 1 = s
    BY <1>1, <1>2
  <2> QED
    BY <1>3, <2>1
<1>5. ASSUME NEW k \in (n + 2)..(n + i) PROVE ~ IsTrigger(req, payments'[k].period)
  <2>1. k - n \in 1..m /\ n + (k - n) = k /\ k - n >= 2
    BY <1>1
  <2>2. payments'[k].period = s + (k - n) - 1
    BY <1>3, <2>1
  <2>3. s + (k - n) - 1 \in Nat /\ s < s + (k - n) - 1 /\ s + (k - n) - 1 < End(req, epoch)
    BY <1>2, <2>1
  <2> QED
    BY <1>2, <2>2, <2>3
<1>6. StartsEpochOf(n + 1, n + i)'
  BY <1>1, <1>2, <1>4, <1>5 DEF StartsEpochOf
<1>7. LevelFrom(n + 1)' = P!Level(synthetic, "monthly")
  <2> DEFINE l == [principal |-> IF n + 1 = 1 THEN req.principal ELSE payments'[n].balance,
                   num |-> rate, den |-> Den, term |-> req.term - s + 1]
  <2>1. payments'[n + 1].rate = rate
    BY <1>4, NewRowIs
  <2>2. LevelFrom(n + 1)' = S!Level(l, "monthly")
    BY <1>1, <1>4, <2>1 DEF LevelFrom
  <2>3. Owed = IF n + 1 = 1 THEN req.principal ELSE payments'[n].balance
    <3>1. payments = <<>> <=> n = 0
      BY DEF Appends
    <3>2. n # 0 => payments'[n] = payments[n] /\ Last(payments) = payments[n]
      BY <1>1 DEF Appends, Last
    <3> QED
      BY <1>1, <3>1, <3>2 DEF Owed
  <2>4. l = synthetic
    BY <1>1, <2>3 DEF Place, SyntheticLoan, s
  <2> QED
    BY <2>2, <2>4, SameLevel
<1>8. rows[i].payment <= P!Level(synthetic, "monthly")
  <2>1. i \in 1..Len(rows) /\ synthetic.term = req.term - s + 1 /\ req.term \in Nat
    BY <1>1, RequestAssumption DEF Stitches, Place, SyntheticLoan, s
  <2>2. i # synthetic.term
    BY <1>1, <1>2, <2>1 DEF s
  <2> QED
    BY <2>1, <2>2 DEF EpochInv
<1>9. payments'[n + i].payment = rows[i].payment
  BY NewRowIs
<1>10. n + 1 \in 1..(n + i)
  BY <1>1
<1> QED
  BY <1>6, <1>7, <1>8, <1>9, <1>10

\* The rows of an epoch follow those before it.
LEMMA NewRows ==
  ASSUME ResetInv, EpochInv, ChainInv, result = "running", NEW m \in Nat, Appends(m), NEW i \in 1..m,
         NEW n \in Nat, n = Len(payments)
  PROVE  RowInv(n + i)'
<1> DEFINE s == Start(req, epoch)
           a == n + i
           new == payments'[a]
           last == payments[n]
<1>1. /\ n \in Nat /\ req' = req /\ i \in Nat \ {0} /\ i <= m /\ m \in 1..Len(rows)
      /\ req \in Requests /\ epoch \in Nat /\ Stitches(m) /\ Place
      /\ payments = <<>> <=> n = 0
  BY DEF Appends, ResetInv, ChainInv, Stitches
<1>2. s \in Nat \ {0} /\ (epoch = 0 => s = 1) /\ (epoch # 0 => s > req.initial)
  <2>1. s \in Nat \ {0} /\ Start(req, 0) = 1 /\ (epoch # 0 => s >= req.initial + epoch)
    BY <1>1, StartIncreases
  <2>2. req.initial \in Nat
    BY <1>1, RequestAssumption
  <2> QED
    BY <1>1, <2>1, <2>2
<1>3. /\ carryInt \in Nat /\ carryPrin \in Nat /\ Owed \in Nat /\ req.principal \in Nat
      /\ epoch # 0 => n \in 1..n /\ last \in ArmPayment /\ Last(payments) = last
  BY CarryTypes
<1>4. epoch = 0 <=> n = 0
  BY <1>1 DEF Place
<1>5. /\ new.period = s + i - 1 /\ new.rate = rate /\ new.balance = rows[i].balance
      /\ new.interest = rows[i].interest /\ new.principal = rows[i].principal
      /\ new.cumInt = carryInt + rows[i].cumInt /\ new.cumPrin = carryPrin + rows[i].cumPrin
      /\ rows[i] \in P!PaymentRow
  BY NewRowIs
<1>6. /\ rows[i].balance + rows[i].cumPrin = Owed
      /\ rows[i].cumInt = rows[i].interest + (IF i = 1 THEN 0 ELSE rows[i - 1].cumInt)
      /\ rows[i].cumPrin = rows[i].principal + (IF i = 1 THEN 0 ELSE rows[i - 1].cumPrin)
  <2>1. i \in 1..Len(rows) /\ synthetic.principal = Owed
    BY <1>1 DEF Place, SyntheticLoan
  <2> QED
    BY <2>1 DEF EpochInv
<1>7. /\ rows[i].interest \in Nat /\ rows[i].principal \in Nat /\ rows[i].balance \in Nat
      /\ rows[i].cumInt \in Nat /\ rows[i].cumPrin \in Nat
  BY <1>5 DEF P!PaymentRow, P!Cent
<1>8. i # 1 => /\ payments'[a - 1].period = s + i - 2 /\ payments'[a - 1].rate = rate
               /\ payments'[a - 1].cumInt = carryInt + rows[i - 1].cumInt
               /\ payments'[a - 1].cumPrin = carryPrin + rows[i - 1].cumPrin
               /\ rows[i - 1].cumInt \in Nat /\ rows[i - 1].cumPrin \in Nat
  <2> SUFFICES ASSUME i # 1
               PROVE  /\ payments'[a - 1].period = s + i - 2 /\ payments'[a - 1].rate = rate
                      /\ payments'[a - 1].cumInt = carryInt + rows[i - 1].cumInt
                      /\ payments'[a - 1].cumPrin = carryPrin + rows[i - 1].cumPrin
                      /\ rows[i - 1].cumInt \in Nat /\ rows[i - 1].cumPrin \in Nat
    OBVIOUS
  <2> DEFINE j == i - 1
  <2>1. j \in 1..m /\ n + j = a - 1
    BY <1>1
  <2> HIDE DEF j
  <2>2. /\ payments'[n + j].period = s + j - 1 /\ payments'[n + j].rate = rate
        /\ payments'[n + j].cumInt = carryInt + rows[j].cumInt
        /\ payments'[n + j].cumPrin = carryPrin + rows[j].cumPrin
        /\ rows[j] \in P!PaymentRow
    BY <2>1, NewRowIs
  <2>3. rows[j].cumInt \in Nat /\ rows[j].cumPrin \in Nat
    BY <2>2 DEF P!PaymentRow, P!Cent
  <2>4. s + j - 1 = s + i - 2
    BY <1>1, <1>2 DEF j
  <2> QED
    BY <2>1, <2>2, <2>3, <2>4 DEF j
<1>9. i = 1 /\ n # 0 =>
        /\ payments'[a - 1] = last
        /\ last.cumInt = carryInt /\ last.cumPrin = carryPrin /\ last.period \in Nat
        /\ last.period < s /\ (last.period = s - 1 \/ last.balance = 0)
        /\ last.balance + last.cumPrin = req.principal /\ last.balance = Owed
  <2>1. i = 1 /\ n # 0 => n \in 1..n /\ a - 1 = n /\ payments'[n] = last
    BY <1>1 DEF Appends
  <2>2. n # 0 => last.period \in Nat /\ last.balance + last.cumPrin = req.principal
    BY <1>3, <1>4 DEF ArmPayment, ChainInv, RowInv
  <2> QED
    BY <1>1, <1>3, <1>4, <2>1, <2>2 DEF Place, Owed
<1>10. Before(a)' = IF a = 1
                    THEN [period |-> 0, cumInt |-> 0, cumPrin |-> 0, balance |-> req.principal]
                    ELSE payments'[a - 1]
  BY <1>1 DEF Before
<1>11. a = 1 <=> i = 1 /\ n = 0
  BY <1>1
<1>12. n = 0 => carryInt = 0 /\ carryPrin = 0 /\ Owed = req.principal /\ s = 1
  BY <1>1, <1>2, <1>4 DEF Place, Owed
<1>13. n # 0 => carryPrin + Owed = req.principal
  <2> SUFFICES ASSUME n # 0 PROVE carryPrin + Owed = req.principal
    OBVIOUS
  <2>1. n \in 1..n /\ Last(payments) = last /\ last \in ArmPayment /\ payments # <<>>
    BY <1>1, <1>3, <1>4
  <2>2. last.balance + last.cumPrin = req.principal /\ last.balance \in Nat /\ last.cumPrin \in Nat
    BY <2>1 DEF ChainInv, RowInv, ArmPayment
  <2>3. carryPrin = last.cumPrin /\ Owed = last.balance
    BY <1>1, <1>4, <2>1 DEF Place, Owed
  <2> QED
    BY <2>2, <2>3
<1> DEFINE b == Before(a)'
<1>14. /\ i # 1 => /\ b.period = s + i - 2 /\ b.cumInt = carryInt + rows[i - 1].cumInt
                   /\ b.cumPrin = carryPrin + rows[i - 1].cumPrin
       /\ i = 1 => /\ b.cumInt = carryInt /\ b.cumPrin = carryPrin /\ b.period \in Nat
                   /\ b.period < s /\ (b.period = s - 1 \/ (n # 0 /\ b.balance = 0))
  <2>1. CASE i # 1
    BY <1>8, <1>10, <1>11, <2>1
  <2>2. CASE i = 1 /\ n = 0
    BY <1>10, <1>11, <1>12, <2>2
  <2>3. CASE i = 1 /\ n # 0
    BY <1>9, <1>10, <1>11, <2>3
  <2> QED
    BY <2>1, <2>2, <2>3
<1> HIDE DEF b, s, new
<1>15. new.cumInt = b.cumInt + new.interest /\ new.cumPrin = b.cumPrin + new.principal
  <2>1. CASE i = 1
    BY <1>3, <1>5, <1>6, <1>7, <1>14, <2>1
  <2>2. CASE i # 1
    <3>1. rows[i].cumInt = rows[i].interest + rows[i - 1].cumInt
          /\ rows[i].cumPrin = rows[i].principal + rows[i - 1].cumPrin
      BY <1>6, <2>2
    <3>2. rows[i - 1].cumInt \in Nat /\ rows[i - 1].cumPrin \in Nat
      BY <1>8, <2>2
    <3>3. b.cumInt = carryInt + rows[i - 1].cumInt /\ b.cumPrin = carryPrin + rows[i - 1].cumPrin
      BY <1>14, <2>2
    <3>4. carryInt \in Nat /\ carryPrin \in Nat
      BY <1>3
    <3>5. new.interest = rows[i].interest /\ new.principal = rows[i].principal
          /\ new.cumInt = carryInt + rows[i].cumInt /\ new.cumPrin = carryPrin + rows[i].cumPrin
      BY <1>5
    <3>6. rows[i].interest \in Nat /\ rows[i].principal \in Nat
      BY <1>7
    <3>7. new.cumInt = b.cumInt + new.interest
      BY <3>1, <3>2, <3>3, <3>4, <3>5, <3>6
    <3>8. new.cumPrin = b.cumPrin + new.principal
      BY <3>1, <3>2, <3>3, <3>4, <3>5, <3>6
    <3> QED
      BY <3>7, <3>8
  <2> QED
    BY <2>1, <2>2
<1>16. new.period = b.period + 1 \/ (a > 1 /\ b.balance = 0 /\ new.period > b.period)
  BY <1>1, <1>2, <1>5, <1>14
<1>17. new.balance + new.cumPrin = req.principal
  <2>1. carryPrin + Owed = req.principal
    BY <1>3, <1>12, <1>13
  <2>2. carryPrin \in Nat /\ Owed \in Nat
    BY <1>3
  <2>3. rows[i].balance + rows[i].cumPrin = Owed
    BY <1>6
  <2>4. new.balance = rows[i].balance /\ new.cumPrin = carryPrin + rows[i].cumPrin
    BY <1>5
  <2>5. ASSUME NEW x \in Nat, NEW y \in Nat, NEW c \in Nat PROVE x + (c + y) = c + (x + y)
    OBVIOUS
  <2>6. rows[i].balance + (carryPrin + rows[i].cumPrin) = carryPrin + (rows[i].balance + rows[i].cumPrin)
    BY <1>7, <2>2, <2>5
  <2> QED
    BY <2>1, <2>3, <2>4, <2>6
<1>18. new.period <= req.initial => new.rate = req.rate
  <2>1. req.initial \in Nat
    BY <1>1, RequestAssumption
  <2> QED
    BY <1>1, <1>2, <1>5, <2>1 DEF Place
<1>19. a > 1 /\ new.rate # payments'[a - 1].rate =>
         \E k \in 1..Len(events') : events'[k].period = new.period
  <2> SUFFICES ASSUME a > 1, new.rate # payments'[a - 1].rate
               PROVE  \E k \in 1..Len(events') : events'[k].period = new.period
    OBVIOUS
  <2>1. i = 1
    BY <1>5, <1>8
  <2>2. n # 0 /\ new.period = s
    BY <1>1, <1>2, <1>5, <2>1
  <2>3. Len(events) + 1 \in 1..Len(events') /\ events'[Len(events) + 1] = Event
    BY <1>4, <2>2 DEF Appends
  <2>4. Event.period = s
    BY DEF Event, s
  <2> QED
    BY <2>2, <2>3, <2>4
<1>20. new.balance = 0 /\ new.period < req.term =>
         (\E j \in 1..a : StartsEpochOf(j, a) /\ payments[a].payment <= LevelFrom(j))'
  BY <1>5, NewRowCovered DEF s, new
<1> QED
  BY <1>1, <1>15, <1>16, <1>17, <1>18, <1>19, <1>20 DEF RowInv, b, new

\* The event of an epoch is that of its first row.
LEMMA NewEvent ==
  ASSUME ResetInv, EpochInv, ChainInv, result = "running", NEW m \in Nat, Appends(m), epoch # 0,
         NEW k \in Nat, k = Len(events) + 1
  PROVE  EventInv(k)'
<1>1. PICK n \in Nat : n = Len(payments)
  BY DEF Appends
<1>2. n \in 1..n /\ Last(payments) = payments[n]
  BY <1>1, CarryTypes
<1>3. carryPmt = Last(payments).payment /\ prior = Last(payments).rate
  BY DEF ChainInv, Place
<1>4. payments'[n] = payments[n] /\ Len(payments') = n + m
  BY <1>1, <1>2 DEF Appends
<1>5. m \in 1..m /\ 1 \in 1..m /\ Head(Sliced) = rows[1]
  BY DEF Appends, Stitches
<1>6. /\ payments'[n + 1].period = Start(req, epoch) + 1 - 1 /\ payments'[n + 1].rate = rate
      /\ payments'[n + 1].payment = rows[1].payment
  BY <1>1, <1>5, NewRowIs
<1>7. Start(req, epoch) + 1 - 1 = Start(req, epoch)
  BY StartIncreases DEF ResetInv
<1>8. events'[k] = Event
  BY DEF Appends
<1>9. n + 1 \in 2..Len(payments') /\ (n + 1) - 1 = n
  BY <1>2, <1>4, <1>5
<1>10. /\ Event.period = Start(req, epoch) /\ Event.new = rate /\ Event.newPmt = rows[1].payment
       /\ Event.old = payments[n].rate /\ Event.oldPmt = payments[n].payment
  BY <1>2, <1>3, <1>5 DEF Event
<1> QED
  BY <1>4, <1>6, <1>7, <1>8, <1>9, <1>10 DEF EventInv

\* Stitching an epoch keeps all rows and events.
LEMMA ChainStitch ==
  ASSUME ResetInv, EpochInv, ChainInv, Stitch, NEW m \in Nat, Appends(m)
  PROVE  /\ payments' \in Seq(ArmPayment) /\ payments' # <<>>
         /\ \A i \in 1..Len(payments') : RowInv(i)'
         /\ \A k \in 1..Len(events') : EventInv(k)'
         /\ Last(payments') = payments'[Len(payments) + m]
         /\ Last(Stitched) = payments'[Len(payments) + m]
<1>1. PICK n \in Nat : n = Len(payments)
  BY DEF Appends
<1>2. result = "running" /\ Len(payments') = n + m /\ m \in 1..m /\ Len(Stitched) = m
  BY <1>1 DEF Stitch, Appends, Stitches
<1>3. ASSUME NEW i \in 1..(n + m) PROVE RowInv(i)'
  <2>1. CASE i \in 1..n
    BY <1>1, <2>1, OldRows
  <2>2. CASE i - n \in 1..m
    <3> DEFINE j == i - n
    <3>1. j \in 1..m /\ n + j = i
      BY <1>1, <2>2
    <3> HIDE DEF j
    <3>2. RowInv(n + j)'
      BY <1>1, <1>2, <3>1, NewRows
    <3> QED
      BY <3>1, <3>2
  <2> QED
    BY <1>1, <2>1, <2>2
<1>4. ASSUME NEW k \in 1..Len(events') PROVE EventInv(k)'
  <2>1. k \in 1..Len(events) \/ (epoch # 0 /\ k \in Nat /\ k = Len(events) + 1)
    BY DEF Appends
  <2> QED
    BY <1>2, <2>1, OldEvents, NewEvent
<1>5. payments' # <<>> /\ payments' \in Seq(ArmPayment)
  BY <1>2 DEF Appends
<1>6. Last(payments') = payments'[n + m] /\ Last(Stitched) = Stitched[m]
  BY <1>2 DEF Last
<1>7. payments'[n + m] = Stitched[m]
  BY <1>1, <1>2 DEF Appends
<1> QED
  BY <1>1, <1>2, <1>3, <1>4, <1>5, <1>6, <1>7

\* The next epoch goes on where the last row is.
LEMMA PlaceNext ==
  ASSUME ResetInv, EpochInv, ChainInv, NextEpoch, result' = "running"
  PROVE  Place' /\ EpochInv'
<1>1. Stitch /\ req' = req /\ result = "running"
  BY DEF NextEpoch, Stitch
<1>2. PICK m \in Nat : Appends(m)
  BY <1>1, StitchAppends
<1>3. PICK n \in Nat : n = Len(payments)
  BY <1>2 DEF Appends
<1> DEFINE last == payments'[n + m]
<1>4. /\ payments' # <<>> /\ Last(payments') = last /\ Last(Stitched) = last
      /\ payments' \in Seq(ArmPayment)
  BY <1>1, <1>2, <1>3, ChainStitch
<1>5. /\ epoch' = epoch + 1 /\ epoch \in Nat /\ req \in Requests
      /\ Start(req, epoch + 1) <= req.term /\ prior' = rate /\ ~ rate' > Den
      /\ rate' = NewRate(req, epoch', rate)
      /\ carryInt' = last.cumInt /\ carryPrin' = last.cumPrin /\ carryPmt' = last.payment
      /\ synthetic' = SyntheticLoan(req, epoch', rate', last.balance)
      /\ period' = 0 /\ balance' = last.balance
      /\ cumInt' = 0 /\ cumPrin' = 0 /\ cumExtra' = 0
      /\ rows' = <<>> /\ outcome' = "running"
  <2>1. result' # "refused"
    OBVIOUS
  <2> QED
    BY <1>4, <2>1 DEF NextEpoch, Carry, ResetInv
<1>6. rate' \in 0..Den
  <2>1. rate' \in Nat
    BY <1>1, ResetStep DEF Next, ResetInv
  <2> QED
    BY <1>5, <2>1, RequestAssumption
<1>7. m \in 1..m /\ Stitches(m) /\ Place
  BY <1>1, <1>2 DEF Appends, Stitches, ChainInv
<1> DEFINE s == Start(req, epoch)
           t == Start(req, epoch + 1)
<1>8. s \in Nat /\ t \in Nat /\ s < t /\ End(req, epoch) = t
  <2>1. s \in Nat /\ t \in Nat /\ s < t
    BY <1>5, StartIncreases
  <2>2. End(req, epoch) = t
    BY <1>5 DEF End
  <2> QED
    BY <2>1, <2>2
<1>9. last.period = s + m - 1 /\ last.rate = rate /\ last.balance = rows[m].balance
  BY <1>2, <1>3, <1>7, NewRowIs
<1>10. last.period < t /\ (last.period = t - 1 \/ last.balance = 0)
  <2>1. m <= t - s /\ (m = t - s \/ m = Len(rows)) /\ m \in 1..Len(rows)
    BY <1>7, <1>8 DEF Stitches
  <2>2. m = Len(rows) => rows[m].balance = 0
    <3>1. m = Len(rows) => rows[m].balance = balance
      BY <2>1 DEF EpochInv
    <3>2. balance = 0
      BY <1>1 DEF Stitch, EpochInv, P!SumInv
    <3> QED
      BY <3>1, <3>2
  <2> QED
    BY <1>8, <1>9, <2>1, <2>2
<1>11. Owed' = last.balance /\ last.balance \in Nat
  <2>1. last \in ArmPayment
    BY <1>2, <1>3, <1>7 DEF Appends
  <2> QED
    BY <1>4, <2>1 DEF Owed, ArmPayment
<1>12. Place'
  <2>1. epoch' # 0
    BY <1>5
  <2>2. carryInt' = Last(payments').cumInt /\ carryPrin' = Last(payments').cumPrin
        /\ carryPmt' = Last(payments').payment /\ prior' = Last(payments').rate
    BY <1>4, <1>5, <1>9
  <2>3. Start(req', epoch') = t
    BY <1>1, <1>5
  <2>4. Last(payments').period < t /\ (Last(payments').period = t - 1 \/ Last(payments').balance = 0)
    BY <1>4, <1>10
  <2>5. synthetic' = SyntheticLoan(req', epoch', rate', Owed')
    BY <1>1, <1>5, <1>11
  <2> HIDE DEF last, t
  <2> QED
    BY <1>1, <1>4, <1>5, <1>6, <2>1, <2>2, <2>3, <2>4, <2>5 DEF Place, t
<1>13. EpochInv'
  <2>1. synthetic' \in AnyLoan /\ synthetic'.principal = last.balance
    <3>1. req.term - t + 1 \in Nat \ {0}
      BY <1>5, <1>8, RequestAssumption
    <3>2. synthetic' = [principal |-> last.balance, num |-> rate', den |-> Den, term |-> req.term - t + 1]
      BY <1>5 DEF SyntheticLoan
    <3> HIDE DEF last, t
    <3> QED
      BY <1>6, <1>11, <3>1, <3>2 DEF AnyLoan
  <2>2. synthetic'.term \in Nat \ {0}
    BY <2>1 DEF AnyLoan
  <2>3. P!TypeOK'
    <3>1. rows' \in Seq(P!PaymentRow)
      BY <1>5
    <3> QED
      BY <1>5, <1>11, <2>1, <3>1 DEF P!TypeOK, P!Cent
  <2>4. P!SumInv'
    BY <1>5, <1>11, <2>1, <2>2, <2>3 DEF P!SumInv
  <2> QED
    BY <1>5, <2>1, <2>2, <2>4 DEF EpochInv
<1> QED
  BY <1>12, <1>13

\* Nothing that the rows depend on has changed.
LEMMA ChainSame ==
  ASSUME ChainInv, UNCHANGED <<arm, synthetic>>
  PROVE  ChainInv'
<1>1. /\ req' = req /\ epoch' = epoch /\ rate' = rate /\ prior' = prior
      /\ payments' = payments /\ events' = events /\ result' = result
      /\ carryInt' = carryInt /\ carryPrin' = carryPrin /\ carryPmt' = carryPmt
      /\ synthetic' = synthetic
  BY DEF arm
<1>2. Place' <=> Place
  BY <1>1 DEF Place, Owed
<1>3. ASSUME NEW i \in 1..Len(payments) PROVE RowInv(i)'
  <2>1. Before(i)' = Before(i)
    BY <1>1 DEF Before
  <2>2. \A j \in 1..i : LevelFrom(j)' = LevelFrom(j)
    BY <1>1 DEF LevelFrom
  <2>3. \A j \in 1..i : StartsEpochOf(j, i)' <=> StartsEpochOf(j, i)
    BY <1>1 DEF StartsEpochOf
  <2> QED
    BY <1>1, <2>1, <2>2, <2>3 DEF ChainInv, RowInv
<1>4. ASSUME NEW k \in 1..Len(events) PROVE EventInv(k)'
  BY <1>1 DEF ChainInv, EventInv
<1> QED
  BY <1>1, <1>2, <1>3, <1>4 DEF ChainInv

LEMMA EpochSame ==
  ASSUME EpochInv, UNCHANGED <<synthetic, schedule>>
  PROVE  EpochInv'
<1>1. /\ synthetic' = synthetic /\ period' = period /\ balance' = balance /\ cumInt' = cumInt
      /\ cumPrin' = cumPrin /\ cumExtra' = cumExtra /\ rows' = rows /\ outcome' = outcome
  BY DEF schedule
<1>2. P!SumInv'
  BY <1>1 DEF EpochInv, P!SumInv, P!TypeOK
<1> QED
  BY <1>1, <1>2 DEF EpochInv

\* The rows of a schedule that is built end at a balance of zero.
LEMMA FinishEnds ==
  ASSUME ResetInv, EpochInv, ChainInv, Finish
  PROVE  ChainInv'
<1>1. Stitch /\ req' = req /\ result = "running" /\ result' = "built"
      /\ Start(req, epoch + 1) > req.term
  BY DEF Finish, Stitch
<1>2. PICK m \in Nat : Appends(m)
  BY <1>1, StitchAppends
<1>3. PICK n \in Nat : n = Len(payments)
  BY <1>2 DEF Appends
<1>4. /\ payments' # <<>> /\ Last(payments') = payments'[n + m]
      /\ payments' \in Seq(ArmPayment)
      /\ \A i \in 1..Len(payments') : RowInv(i)'
      /\ \A k \in 1..Len(events') : EventInv(k)'
  BY <1>1, <1>2, <1>3, ChainStitch
<1>5. m \in 1..m /\ Stitches(m) /\ Place /\ req \in Requests /\ epoch \in Nat
  BY <1>1, <1>2 DEF Appends, Stitches, ChainInv, ResetInv
<1>6. payments'[n + m].balance = rows[m].balance
  BY <1>2, <1>3, <1>5, NewRowIs
<1>7. m = Len(rows)
  <2>1. /\ Start(req, epoch) \in Nat /\ End(req, epoch) \in Nat /\ req.term \in Nat
        /\ Start(req, 1) \in Nat
    BY <1>5, WindowsHoldNoReset, StartIncreases DEF Place
  <2>2. End(req, epoch) >= req.term + 1
    <3>1. CASE epoch = 0
      BY <1>1, <2>1, <3>1 DEF End
    <3>2. CASE epoch # 0
      BY <1>1, <2>1, <3>2 DEF End
    <3> QED
      BY <3>1, <3>2
  <2>3. Len(rows) <= req.term - Start(req, epoch) + 1
    BY <1>5 DEF EpochInv, Place, SyntheticLoan
  <2>4. m \in 1..Len(rows) /\ (m = Len(rows) \/ m = End(req, epoch) - Start(req, epoch))
    BY <1>5 DEF Stitches
  <2> QED
    BY <2>1, <2>2, <2>3, <2>4
<1>8. rows[m].balance = 0
  <2>1. m \in 1..Len(rows)
    BY <1>5 DEF Stitches
  <2>2. rows[m].balance = balance
    BY <1>7, <2>1 DEF EpochInv
  <2>3. balance = 0
    BY <1>1 DEF Stitch, EpochInv, P!SumInv
  <2> QED
    BY <2>2, <2>3
<1> QED
  BY <1>1, <1>4, <1>6, <1>8 DEF ChainInv

\* All rows of all epochs hold at the start.
LEMMA ChainInit == Init => EpochInv /\ ChainInv
<1> SUFFICES ASSUME Init PROVE EpochInv /\ ChainInv
  OBVIOUS
<1>1. req \in Requests /\ req.term \in Nat \ {0} /\ req.principal \in Nat /\ req.rate \in 0..Den
  BY RequestAssumption DEF Init
<1>2. Start(req, 0) = 1 /\ 1 <= req.term
  BY <1>1 DEF Start
<1>3. synthetic = [principal |-> req.principal, num |-> req.rate, den |-> Den, term |-> req.term]
  BY <1>1, <1>2 DEF Init, SyntheticLoan
<1>4. synthetic \in AnyLoan /\ synthetic.principal = req.principal /\ synthetic.term = req.term
  BY <1>1, <1>3 DEF AnyLoan
<1>5. P!SumInv
  <2>1. P!TypeOK
    BY <1>1, <1>4 DEF Init, P!TypeOK, P!Cent
  <2> QED
    BY <1>1, <1>4, <2>1 DEF Init, P!SumInv
<1>6. EpochInv
  BY <1>1, <1>4, <1>5 DEF Init, EpochInv
<1>7. Place
  BY <1>1, <1>2 DEF Init, Place, Owed
<1>8. ChainInv
  BY <1>7 DEF Init, ChainInv
<1> QED
  BY <1>6, <1>8

\* Every step keeps them.
LEMMA ChainStep == ResetInv /\ EpochInv /\ ChainInv /\ [Next]_vars => EpochInv' /\ ChainInv'
<1> SUFFICES ASSUME ResetInv, EpochInv, ChainInv, [Next]_vars PROVE EpochInv' /\ ChainInv'
  OBVIOUS
<1>1. CASE BuildRow
  <2>1. UNCHANGED <<arm, synthetic>>
    BY <1>1 DEF BuildRow
  <2> QED
    BY <1>1, <2>1, EpochBuild, ChainSame
<1>2. CASE Finish
  BY <1>2, FinishEnds, EpochSame DEF Finish
<1>3. CASE NextEpoch
  <2>1. Stitch /\ req' = req /\ result = "running"
    BY <1>3 DEF NextEpoch, Stitch
  <2>2. PICK m \in Nat : Appends(m)
    BY <2>1, StitchAppends
  <2>3. /\ payments' \in Seq(ArmPayment) /\ payments' # <<>>
        /\ \A i \in 1..Len(payments') : RowInv(i)'
        /\ \A k \in 1..Len(events') : EventInv(k)'
    BY <2>1, <2>2, ChainStitch
  <2>4. CASE rate' > Den
    <3>1. result' = "refused" /\ UNCHANGED <<synthetic, schedule>>
      BY <1>3, <2>4 DEF NextEpoch
    <3> QED
      BY <2>3, <3>1, EpochSame DEF ChainInv
  <2>5. CASE ~ rate' > Den
    <3>1. result' = "running"
      BY <1>3, <2>1, <2>5 DEF NextEpoch
    <3> QED
      BY <1>3, <2>3, <3>1, PlaceNext DEF ChainInv
  <2> QED
    BY <2>4, <2>5
<1>4. CASE UNCHANGED vars
  BY <1>4, EpochSame, ChainSame DEF vars
<1> QED
  BY <1>1, <1>2, <1>3, <1>4 DEF Next, Done

\* The rows of every schedule follow each other, whatever its resets.
THEOREM ChainHolds == Spec => [](ResetInv /\ EpochInv /\ ChainInv)
<1>1. Init => ResetInv /\ EpochInv /\ ChainInv
  BY ResetInit, ChainInit
<1>2. (ResetInv /\ EpochInv /\ ChainInv) /\ [Next]_vars => (ResetInv /\ EpochInv /\ ChainInv)'
  BY ResetStep, ChainStep
<1> QED
  BY <1>1, <1>2, PTL DEF Spec

\* ARM-05 for any requests, terms and resets: one schedule, whose totals run on
\* and whose balance is zero at the end, and before only by overpayment.
THEOREM ScheduleRepaysInFull == Spec => []RepaidInFull
<1>1. ResetInv /\ EpochInv /\ ChainInv => RepaidInFull
  <2> SUFFICES ASSUME ChainInv, ResetInv PROVE RepaidInFull
    OBVIOUS
  <2>1. DOMAIN payments = 1..Len(payments) /\ Len(payments) \in Nat
    BY DEF ChainInv
  <2>2. result = "built" => Last(payments).balance = 0 /\ Last(payments).cumPrin = req.principal
    <3> SUFFICES ASSUME result = "built"
                 PROVE  Last(payments).balance = 0 /\ Last(payments).cumPrin = req.principal
      OBVIOUS
    <3>1. Len(payments) \in 1..Len(payments) /\ Last(payments) = payments[Len(payments)]
      BY DEF ChainInv, Last
    <3>2. Last(payments) \in ArmPayment /\ Last(payments).balance = 0
      BY <3>1 DEF ChainInv
    <3>3. Last(payments).balance + Last(payments).cumPrin = req.principal
      BY <3>1 DEF ChainInv, RowInv
    <3> QED
      BY <3>2, <3>3 DEF ArmPayment
  <2>3. \A i \in 1..Len(payments) : RowInv(i)
    BY DEF ChainInv
  <2> QED
    BY <2>1, <2>2, <2>3 DEF RepaidInFull, RowInv, Before
<1> QED
  BY <1>1, ChainHolds, PTL

\* Every event is in the rows: rate and payment change where it says, and the
\* rate nowhere else.
THEOREM EveryEventMatchesRows == Spec => []EventsMatchRows
<1>1. ResetInv /\ EpochInv /\ ChainInv => EventsMatchRows
  <2> SUFFICES ASSUME ChainInv, ResetInv PROVE EventsMatchRows
    OBVIOUS
  <2>1. DOMAIN payments = 1..Len(payments) /\ DOMAIN events = 1..Len(events)
        /\ Len(payments) \in Nat
    BY DEF ChainInv, ResetInv
  <2>2. \A i \in 2..Len(payments) : i \in 1..Len(payments) /\ i > 1
    BY <2>1
  <2>3. \A k \in 1..Len(events) : EventInv(k)
    BY DEF ChainInv
  <2>4. \A i \in 1..Len(payments) : RowInv(i)
    BY DEF ChainInv
  <2>5. \A i \in 2..Len(payments) : payments[i].rate # payments[i - 1].rate =>
          \E k \in 1..Len(events) : events[k].period = payments[i].period
    BY <2>2, <2>4 DEF RowInv
  <2>6. \A i \in 1..Len(payments) : payments[i].period <= req.initial => payments[i].rate = req.rate
    BY <2>4 DEF RowInv
  <2> QED
    BY <2>1, <2>3, <2>5, <2>6 DEF EventInv, EventsMatchRows
<1> QED
  BY <1>1, ChainHolds, PTL

\* Every stitched schedule implements the debt that is only paid down.
THEOREM Refinement == Spec => ImplementsDebt
<1> DEFINE owed == IF payments = <<>> THEN req.principal ELSE Last(payments).balance
           paid == IF payments = <<>> THEN 0 ELSE Last(payments).cumPrin
<1>1. Init => Ledger!Init
  BY RequestAssumption DEF Init, Ledger!Init
<1>2. ResetInv /\ ChainInv => owed \in Nat /\ paid \in Nat /\ owed + paid = req.principal
  <2> SUFFICES ASSUME ResetInv, ChainInv
               PROVE  owed \in Nat /\ paid \in Nat /\ owed + paid = req.principal
    OBVIOUS
  <2>1. CASE payments = <<>>
    BY <2>1, RequestAssumption DEF ResetInv
  <2>2. CASE payments # <<>>
    <3>1. Len(payments) \in 1..Len(payments) /\ Last(payments) = payments[Len(payments)]
      BY <2>2 DEF ChainInv, Last
    <3>2. Last(payments) \in ArmPayment
          /\ Last(payments).balance + Last(payments).cumPrin = req.principal
      BY <3>1 DEF ChainInv, RowInv
    <3> QED
      BY <2>2, <3>2 DEF ArmPayment
  <2> QED
    BY <2>1, <2>2
<1>3. ASSUME ResetInv, EpochInv, ChainInv, Stitch, req' = req PROVE paid <= paid'
  <2>1. PICK m \in Nat : Appends(m)
    BY <1>3, StitchAppends
  <2>2. PICK n \in Nat : n = Len(payments)
    BY <2>1 DEF Appends
  <2>3. payments' # <<>> /\ Last(payments') = payments'[n + m] /\ m \in 1..m /\ result = "running"
    <3>1. m \in 1..m
      BY <2>1 DEF Appends, Stitches
    <3>2. result = "running"
      BY <1>3 DEF Stitch
    <3> QED
      BY <1>3, <2>1, <2>2, <3>1, <3>2, ChainStitch
  <2>4. paid' = carryPrin + rows[m].cumPrin /\ rows[m].cumPrin \in Nat
    <3>1. payments'[n + m].cumPrin = carryPrin + rows[m].cumPrin /\ rows[m] \in P!PaymentRow
      BY <2>1, <2>2, <2>3, NewRowIs
    <3> QED
      BY <2>3, <3>1 DEF P!PaymentRow, P!Cent
  <2>5. carryPrin = paid /\ carryPrin \in Nat
    <3>1. Place
      BY <1>3, <2>3 DEF ChainInv
    <3> QED
      BY <1>3, <2>3, <3>1, CarryTypes DEF Place
  <2> QED
    BY <2>4, <2>5
<1>4. ASSUME ResetInv, EpochInv, ChainInv, [Next]_vars
      PROVE  Ledger!Pay \/ UNCHANGED Ledger!vars
  <2>1. CASE Finish \/ NextEpoch
    <3>1. Stitch /\ req' = req
      BY <2>1 DEF Finish, NextEpoch
    <3>2. ResetInv' /\ ChainInv'
      BY <1>4, ResetStep, ChainStep
    <3>3. owed' \in Nat /\ paid' \in Nat /\ owed' + paid' = req.principal
      <4>1. (ResetInv /\ ChainInv => owed \in Nat /\ paid \in Nat /\ owed + paid = req.principal)'
        BY <1>2, PTL
      <4> QED
        BY <3>1, <3>2, <4>1
    <3>4. owed \in Nat /\ paid \in Nat /\ owed + paid = req.principal /\ paid <= paid'
      BY <1>2, <1>3, <1>4, <3>1
    <3>5. ASSUME NEW o \in Nat, NEW p \in Nat, NEW o2 \in Nat, NEW p2 \in Nat,
                 o + p = o2 + p2, p <= p2
          PROVE  \E amount \in 0..o : o2 = o - amount /\ p2 = p + amount
      <4>1. p2 - p \in 0..o /\ o2 = o - (p2 - p) /\ p2 = p + (p2 - p)
        BY <3>5
      <4> QED
        BY <4>1
    <3>6. \E amount \in 0..owed : owed' = owed - amount /\ paid' = paid + amount
      <4>1. owed + paid = owed' + paid'
        BY <3>3, <3>4
      <4> HIDE DEF owed, paid
      <4> QED
        BY <3>3, <3>4, <3>5, <4>1
    <3> QED
      BY <3>6 DEF Ledger!Pay
  <2>2. CASE BuildRow \/ UNCHANGED vars
    <3>1. req' = req /\ payments' = payments
      BY <2>2 DEF BuildRow, vars, arm
    <3> QED
      BY <3>1 DEF Ledger!vars
  <2> QED
    BY <1>4, <2>1, <2>2 DEF Next, Done
<1>5. (ResetInv /\ EpochInv /\ ChainInv) /\ [Next]_vars => [Ledger!Pay]_Ledger!vars
  BY <1>4
<1> QED
  BY <1>1, <1>5, ChainHolds, PTL DEF Spec, ImplementsDebt, Ledger!Spec
=============================================================================
