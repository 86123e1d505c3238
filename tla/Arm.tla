-------------------------------- MODULE Arm --------------------------------
(***************************************************************************)
(* build_arm_schedule of lib/arm.py: an adjustable-rate schedule is cut    *)
(* from fixed ones.  In every epoch the engine calls build_schedule, which *)
(* is module Amortize, on the balance and the term that remain, keeps the  *)
(* rows of its window and carries their last balance into the next epoch.  *)
(*                                                                         *)
(* Money is in cents, periods are months, and rates are multiples of       *)
(* 1 / Den: sums of rates and caps are exact, as they are in the code,     *)
(* whose caps have four decimals and whose rates are rounded at six.       *)
(***************************************************************************)
EXTENDS Integers, Sequences, SequencesExt

CONSTANTS
    Unit,       \* precision of an annuity, see Money
    Den,
    Requests    \* [principal, rate, term, initial, cadence, caps : [initial, periodic,
                \*  lifetime], margin, floor, note, index, path]: an ARMRequest

NoNote == -1                        \* note_rate is None

\* The fields of a request as the models of the code constrain them.
ASSUME RequestAssumption ==
    /\ Unit \in Nat /\ Unit > 1
    /\ Den \in Nat \ {0}
    /\ \A q \in Requests :
         /\ q.principal \in Nat /\ q.rate \in 0..Den
         /\ q.term \in Nat \ {0} /\ q.initial \in Nat \ {0} /\ q.cadence \in Nat \ {0}
         /\ q.caps \in [initial : Nat, periodic : Nat, lifetime : Nat]
         /\ q.margin \in Nat /\ q.floor \in 0..Den
         /\ q.note \in 0..Den \cup {NoNote} /\ q.index \in 0..Den
         /\ \A p \in DOMAIN q.path : q.path[p] \in 0..Den

VARIABLES
    req,
    epoch,                          \* epoch_idx
    rate, prior,                    \* current_rate, prior_rate
    applied, used,                  \* applied_cap and index value of this epoch
    payments, events,               \* arm_payments, reset_events
    carryInt, carryPrin, carryPmt,  \* totals and payment at the end of the last epoch
    adjusted,                       \* final_payment_adjusted
    result,                         \* "running", "built" or "refused"
    synthetic,                      \* the loan of this epoch, and its schedule:
    period, balance, cumInt, cumPrin, cumExtra, rows, outcome

schedule == <<period, balance, cumInt, cumPrin, cumExtra, rows, outcome>>
arm == <<req, epoch, rate, prior, applied, used, payments, events, carryInt, carryPrin,
         carryPmt, adjusted, result>>
vars == <<arm, synthetic, schedule>>

AnyLoan == [principal : Nat, num : 0..Den, den : {Den}, term : Nat \ {0}]
S == INSTANCE Amortize WITH
        Loans <- AnyLoan, Plans <- {<<>>}, Modes <- {"monthly"},
        loan <- synthetic, plan <- <<>>, mode <- "monthly"

Least(a, b) == IF a <= b THEN a ELSE b
Most(a, b) == IF a <= b THEN b ELSE a

-----------------------------------------------------------------------------
(* Terms of the request.                                                   *)

NoteRate(q) == IF q.note = NoNote THEN q.rate ELSE q.note
Floor(q) == Most(q.margin, q.floor)
LifetimeCeiling(q) == NoteRate(q) + q.caps.lifetime

\* First period of an epoch: 1, or a reset trigger.
Start(q, e) == IF e = 0 THEN 1 ELSE q.initial + 1 + (e - 1) * q.cadence

IsTrigger(q, p) == \E e \in 1..q.term : p = Start(q, e) /\ p <= q.term

\* The first period after an epoch.
End(q, e) == IF e = 0 \/ Start(q, e + 1) <= q.term THEN Start(q, e + 1) ELSE q.term + 1

\* What the validators of ARMRequest accept.
Valid(q) == /\ \A p \in DOMAIN q.path : IsTrigger(q, p)
            /\ Floor(q) <= LifetimeCeiling(q)

-----------------------------------------------------------------------------
(* _compute_new_rate for epoch e of request q after rate r.                *)

IndexValue(q, e) ==
    IF Start(q, e) \in DOMAIN q.path THEN q.path[Start(q, e)] ELSE q.index
FullyIndexed(q, e) == IndexValue(q, e) + q.margin

CapOf(q, e) == IF e = 1 THEN q.caps.initial ELSE q.caps.periodic
\* Mutant: caps are measured from the first rate.
MutantPeriodic(q, e, r) == q.rate + CapOf(q, e)
PeriodicCeiling(q, e, r) == r + CapOf(q, e)

NewRate(q, e, r) ==
    Most(Floor(q), Least(FullyIndexed(q, e), Least(PeriodicCeiling(q, e, r), LifetimeCeiling(q))))

\* Mutant: a bound that is met exactly is named although it changed nothing.
MutantApplied(q, e, r) ==
    LET new == NewRate(q, e, r)
    IN  CASE new = Floor(q) -> "floor"
          [] new # Floor(q) /\ new = LifetimeCeiling(q) -> "lifetime"
          [] OTHER -> "none"
AppliedCap(q, e, r) ==
    LET new == NewRate(q, e, r)
        full == FullyIndexed(q, e)
        life == LifetimeCeiling(q)
        per == PeriodicCeiling(q, e, r)
        floored == new = Floor(q) /\ new > full
        atLife == new = life /\ life <= per /\ new < full
    IN  CASE floored -> "floor"
          [] ~ floored /\ atLife -> "lifetime"
          [] ~ floored /\ ~ atLife /\ new = per /\ new < full ->
               IF e = 1 THEN "initial" ELSE "periodic"
          [] OTHER -> "none"

-----------------------------------------------------------------------------
\* Mutant: the loan of an epoch has only the months of the epoch.
MutantSyntheticLoan(q, e, r, owed) ==
    [principal |-> owed, num |-> r, den |-> Den, term |-> End(q, e) - Start(q, e)]
\* The loan of an epoch: the balance over the whole term that remains.
SyntheticLoan(q, e, r, owed) ==
    [principal |-> owed, num |-> r, den |-> Den, term |-> q.term - Start(q, e) + 1]

Init == /\ req \in {q \in Requests : Valid(q)}
        /\ epoch = 0 /\ rate = req.rate /\ prior = req.rate
        /\ applied = "none" /\ used = req.index
        /\ payments = <<>> /\ events = <<>>
        /\ carryInt = 0 /\ carryPrin = 0 /\ carryPmt = 0
        /\ adjusted = FALSE
        /\ result = "running"
        /\ synthetic = SyntheticLoan(req, 0, req.rate, req.principal)
        /\ period = 0 /\ balance = req.principal
        /\ cumInt = 0 /\ cumPrin = 0 /\ cumExtra = 0
        /\ rows = <<>> /\ outcome = "running"

\* build_schedule adds a row to the schedule of the epoch.
BuildRow == /\ result = "running"
            /\ S!FixedRow
            /\ UNCHANGED <<arm, synthetic>>

\* The rows of the epoch's window, numbered and totalled across epochs.
Sliced == IF End(req, epoch) = req.term + 1 THEN rows
          ELSE SubSeq(rows, 1, Least(Len(rows), End(req, epoch) - Start(req, epoch)))

Stitched ==
    [i \in DOMAIN Sliced |->
        [period |-> Start(req, epoch) + i - 1, payment |-> rows[i].payment,
         principal |-> rows[i].principal, interest |-> rows[i].interest,
         balance |-> rows[i].balance, rate |-> rate,
         cumInt |-> carryInt + rows[i].cumInt, cumPrin |-> carryPrin + rows[i].cumPrin]]

\* Mutant: the old payment is read when the new rows are there.
MutantEvent == [period |-> Start(req, epoch), old |-> prior, new |-> rate,
                oldPmt |-> Last(payments \o Stitched).payment,
                newPmt |-> Head(Sliced).payment, used |-> used, applied |-> applied]
Event == [period |-> Start(req, epoch), old |-> prior, new |-> rate, oldPmt |-> carryPmt,
          newPmt |-> Head(Sliced).payment, used |-> used, applied |-> applied]

\* The schedule of the epoch is complete: its slice is stitched on.
Stitch == /\ result = "running" /\ outcome = "paid"
          /\ payments' = payments \o Stitched
          /\ events' = IF epoch = 0 THEN events ELSE Append(events, Event)

\* Mutant: the totals of the epoch replace those of the epochs before.
MutantCarry(last) ==
    /\ carryInt' = Last(Sliced).cumInt /\ carryPrin' = Last(Sliced).cumPrin
    /\ carryPmt' = last.payment
\* What an epoch that is not the last carries over.
Carry(last) == /\ carryInt' = last.cumInt /\ carryPrin' = last.cumPrin
               /\ carryPmt' = last.payment

\* The last epoch, or the only one: a loan whose term ends before its first
\* reset has no final epoch for the code, which then leaves the flag alone.
Finish == /\ Stitch
          /\ Start(req, epoch + 1) > req.term
          /\ adjusted' = IF End(req, epoch) = req.term + 1 THEN S!Adjusted ELSE adjusted
          /\ result' = "built"
          /\ UNCHANGED <<req, epoch, rate, prior, applied, used, carryInt, carryPrin, carryPmt,
                         synthetic, schedule>>

\* The next epoch: its rate, and a loan of what remains.  A rate above one is
\* refused by the constructor of Loan.
NextEpoch ==
    /\ Stitch
    /\ Start(req, epoch + 1) <= req.term
    /\ epoch' = epoch + 1
    /\ prior' = rate
    /\ rate' = NewRate(req, epoch', rate)
    /\ applied' = AppliedCap(req, epoch', rate)
    /\ used' = IndexValue(req, epoch')
    /\ Carry(Last(Stitched))
    /\ UNCHANGED <<req, adjusted>>
    /\ IF rate' > Den
       THEN result' = "refused" /\ UNCHANGED <<synthetic, schedule>>
       ELSE /\ UNCHANGED result
            /\ synthetic' = SyntheticLoan(req, epoch', rate', Last(Stitched).balance)
            /\ period' = 0 /\ balance' = Last(Stitched).balance
            /\ cumInt' = 0 /\ cumPrin' = 0 /\ cumExtra' = 0
            /\ rows' = <<>> /\ outcome' = "running"

Done == result # "running" /\ UNCHANGED vars

Next == BuildRow \/ Finish \/ NextEpoch \/ Done

Spec == Init /\ [][Next]_vars

-----------------------------------------------------------------------------
(* Properties.                                                             *)

\* The stitched schedule is a debt that is only paid down, epoch by epoch.
Ledger == INSTANCE Debt WITH
            owed <- IF payments = <<>> THEN req.principal ELSE Last(payments).balance,
            paid <- IF payments = <<>> THEN 0 ELSE Last(payments).cumPrin
ImplementsDebt == Ledger!Spec

\* The level payment of the loan whose first row is row j.
LevelFrom(j) ==
    S!Level([principal |-> IF j = 1 THEN req.principal ELSE payments[j - 1].balance,
             num |-> payments[j].rate, den |-> Den, term |-> req.term - payments[j].period + 1],
            "monthly")

\* Row i belongs to the epoch that row j starts.
StartsEpochOf(j, i) ==
    /\ payments[j].period = 1 \/ IsTrigger(req, payments[j].period)
    /\ \A k \in j + 1..i : ~ IsTrigger(req, payments[k].period)

\* ARM-05: the rows are one schedule.  Its periods and totals run on across the
\* resets; it ends at a balance of zero, before the last month of the term only
\* when the payment for the whole term that remains covers all that is owed,
\* never because an epoch ends.
RepaidInFull ==
    /\ result = "built" => Last(payments).balance = 0 /\ Last(payments).cumPrin = req.principal
    /\ \A i \in DOMAIN payments :
         LET row == payments[i]
             before == IF i = 1
                       THEN [period |-> 0, cumInt |-> 0, cumPrin |-> 0, balance |-> req.principal]
                       ELSE payments[i - 1]
         IN  /\ row.cumInt = before.cumInt + row.interest
             /\ row.cumPrin = before.cumPrin + row.principal
             /\ row.period = before.period + 1
                  \/ (i > 1 /\ before.balance = 0 /\ row.period > before.period)
             /\ row.balance = 0 /\ row.period < req.term =>
                  \E j \in 1..i : StartsEpochOf(j, i) /\ row.payment <= LevelFrom(j)

\* Every reset keeps the terms: never above the lifetime ceiling or below the
\* floor, and up by no more than the cap of that reset, except to the floor.
RateKeepsTerms == \A k \in DOMAIN events :
    LET e == events[k]
    IN  /\ Floor(req) <= e.new /\ e.new <= LifetimeCeiling(req)
        /\ e.new <= e.old + CapOf(req, k) \/ e.new = Floor(req)

\* applied_cap names the constraint that bound the rate.  "none" is said of a
\* rate that was held back only when the floor is above the periodic ceiling.
LabelIsHonest == \A k \in DOMAIN events :
    LET e == events[k]
        full == e.used + req.margin
    IN  /\ e.new > full <=> e.applied = "floor"
        /\ e.applied \in {"initial", "periodic", "lifetime"} => e.new < full
        /\ e.applied \in {"initial", "periodic"} => e.new = e.old + CapOf(req, k)
        /\ e.applied = "lifetime" => e.new = LifetimeCeiling(req)
        /\ e.applied = "none" =>
             e.new = full \/ (e.new = Floor(req) /\ e.new > e.old + CapOf(req, k))

\* A rate is in force from its event's row on: the row before has the old rate
\* and payment, the row of the event the new ones, and no other row changes
\* its rate.
EventsMatchRows ==
    /\ \A k \in DOMAIN events : \E i \in 2..Len(payments) :
         /\ payments[i].period = events[k].period
         /\ payments[i].rate = events[k].new /\ payments[i].payment = events[k].newPmt
         /\ payments[i - 1].rate = events[k].old /\ payments[i - 1].payment = events[k].oldPmt
    /\ \A i \in 2..Len(payments) : payments[i].rate # payments[i - 1].rate =>
         \E k \in DOMAIN events : events[k].period = payments[i].period
    /\ \A i \in DOMAIN payments : payments[i].period <= req.initial => payments[i].rate = req.rate
=============================================================================
