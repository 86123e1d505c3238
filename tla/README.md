# mortgage-ops in TLA+

A verification project for the mortgage-ops repository (`src/`): TLA+ modules of
its concurrent core, of its schedule engines and of the engines that decide what
a household may borrow, TLC configurations that check them on small instances,
and TLAPS proofs for every value of the constants. Line numbers refer to the
files under `src/`.

## 1. The system

mortgage-ops is a personal mortgage calculator. Python engines (`lib/`) compute
schedules, ratios and verdicts with exact decimals; command-line scripts wrap
them; Node commands (`orchestration/`) keep results in a DuckDB file; a cache
holds rates fetched from FRED. There is no server: every command is a process of
its own, and the processes meet only on the file system.

| Component | State | Operations | What makes it correct |
|---|---|---|---|
| Lock file: `orchestration/lockfile.mjs`, its port in `lib/fred_cache.py` | `data/.lock`, `data/.lock.stale-recovery` (and the pair of each cached series) | acquire with retry and deadline, stale recovery under a guard file, release, `withLock` | mutual exclusion; nothing left behind by a call that ended; a call ends |
| Database commands: `orchestration/db-write.mjs`, `init-db.mjs` | the DuckDB file, two rendered Markdown views | `insert-loan`, `insert-scenario`, `insert-report`, `render-markdown`, `query`, schema creation | no writer fails because of another; an insert that is reported is stored exactly once, one that fails is not; views show committed rows |
| Listing persistence: `lib/property_persistence.py` | table `properties` of the same file | `write_listing`, `read_latest_for_zpid` | shares the Node lock; a miss has one of the named causes |
| FRED cache: `lib/fred_cache.py` | one JSON file per series, one temporary file | `get_cached_or_fetch`, `_load_cache`, `_save_cache` | the cache file is always whole; errors are not cached; write-through |
| Amortization: `lib/amortize.py`, `lib/money.py` | none between calls; the loop carries balance and totals | `build_schedule` (monthly, true biweekly, half-monthly) with extras | principal conserved to the cent, the last balance exactly zero |
| ARM: `lib/arm.py` | as above, carried across epochs | `build_arm_schedule`, resets with caps and floors | repaid in full, caps and floors kept, labels and events true |
| Rules: `lib/rules/` | YAML tables, read only | loan limits, premiums, fees, eligibility, general QM | total and monotone where the engines call them |
| Affordability: `lib/affordability.py` | none | forward mode (price a loan), reverse mode (the largest loan), ladder of blockers | both modes agree; a quote fits its DTI and uses its budget |
| Stress: `lib/stress.py` | none | `rate_shock`, `income_shock`, `arm_reset` | a shock only tightens |
| Points, refinance: `lib/points.py`, `lib/refinance.py` | a running sum of discounted months | break-even, NPV, tax shield | break-even, decision and quotient agree |
| Property analysis and verdict: `lib/property_analysis.py`, `lib/property_verdict.py` | the blocks built so far | matrix, stress, refinance, points, tax, verdict | the matrix agrees with the engine that judges it; a GO is safe; only named causes end it |
| APR: `lib/apr.py` | none | Newton iteration with a bisection behind it | see section 6 |
| Extraction, block detection, report | none | HTML to a listing, an analysis to text | see section 6 |
| Observability: `lib/observability.py` | log handlers, event file | `observe` | see section 6 |
| Evaluation harness: `evals/` | result files | runner, metrics, gate | see section 6 |

How they interact: all database writers and `write_listing` take `data/.lock`
through two implementations, in two languages, of one protocol. The FRED cache
uses the Python one under another file name. `query` and `init-db.mjs` open the
database without the lock, `read_latest_for_zpid` opens it read-only. ARM calls
`build_schedule` once per epoch. `analyze` of property_analysis.py reads rates
from the FRED cache, prices each cell itself, asks affordability whether the cell
is allowed, hands the cells that pass to stress, refinance and points, and its
cells and stress rows to the verdict; stress calls affordability again with less
income. Affordability calls every rule.

The hard behaviours: processes of two languages interleaving between any two
file-system calls of a lock built from ordinary files; locks that turn stale
while their owner still works; crashes and failed writes anywhere; a temporary
file with one name for all writers; a transaction whose report can fail after
COMMIT; rounding in every row of a schedule, which must cancel to the cent in the
last one; and, in the engines above, one number computed in two places: a loan
priced by the matrix and by the engine, a DTI by the engine and by the stress
row, a limit chosen by price and applied to a loan, a break-even found by a scan,
by a quotient and by a sign. `PROJECT.json` lists each hazard at its line with
the properties that would catch it.

## 2. Modules

| Module | Models | Extends or instantiates |
|---|---|---|
| `LeaseLock` | abstract: a lock whose ownership can be reclaimed from the dead and, if `Revocable`, taken from the living | |
| `Lockfile` | both lock implementations, one action per file-system call | implements `LeaseLock` |
| `DbWriter` | every database command, over the abstract lock | uses `LeaseLock` |
| `FredCache` | `get_cached_or_fetch`, over the abstract lock | uses `LeaseLock` |
| `Money` | rounding and the annuity formulas | |
| `Debt` | abstract: a debt that is only paid down | |
| `Amortize` | `build_schedule`, one action per row | `Money`; implements `Debt` |
| `Arm` | `build_arm_schedule` | drives `Amortize` epoch by epoch, implements `Debt` |
| `Rules` | the rules that the engines call, as operators | `Money` |
| `Affordability` | a call of `evaluate`, as an operator that returns or raises | `Rules` |
| `Stress` | `rate_shock` and `income_shock`, as operators | `Affordability` |
| `Quote` | budget, quote, confirmation, shock: one action per call | `Stress` |
| `Verdict` | `synthesize` | |
| `Analysis` | `analyze`, one action per cell, block or step | `Stress`, `Verdict` |
| `Refinance` | refinance.py and points.py, one action per month | `Money` |
| `LockfileProofs`, `DbWriterProofs`, `FredCacheProofs`, `AmortizeProofs`, `ArmProofs`, `QuoteProofs`, `RefinanceProofs`, `AnalysisProofs` | theorems | TLAPS |
| `MCLockfile`, `MCDbWriter`, `MCFredCache`, `MCAmortize`, `MCArm`, `MCQuote`, `MCAnalysis`, `MCRefinance` | instances for TLC | |

So the composition is layered twice. `Lockfile` is shown to implement
`LeaseLock`, under which conditions it is revocable and under which it is a
mutex, and its two clients are then modelled over the revocable one, which is what
the code has (run `db_bypass` shows a failure that even a mutex leaves).
`Rules` are composed into `Affordability`, that into `Stress`, and both into the
two pipelines `Quote` and `Analysis`.

### Lockfile

A process is one call of `withLock` or `with_cache_lock`. `lock` and `guard` are
the two files; a file has an owner, a stamp (`acquired_at`), and a body that is
missing between the exclusive open and the write. A file without a body and an
absent file both read as null, as in the code. `pc` names the next call.

| Actions | Code |
|---|---|
| `Start`, `Expire`, `NodeCreate`, `NodeExists`, `NodeReadLock`, `WriteBody` | `acquireLock`, `writeJsonExclusive`, lockfile.mjs 52-63, 118-141 |
| `PyLook`, `PyLookExists`, `PyStampLock`, `PyCreate`, `PyExists` | `_acquire_lock` of fred_cache.py |
| `CreateGuard` ... `RemoveGuard` | `tryRemoveStaleLock`; `_try_remove_stale_lock`, `_try_remove_unreadable_lock` |
| `Leave`, `ReleaseRead`, `ReleaseUnlink` | `releaseLock`, `_release_lock` |
| `NodeWriteFails`, `PyWriteFails`, `PyGuardWriteFails`, `Crash` | failing writes; process death |

The differences between the two languages are kept: Node stamps its lock once,
before it waits, Python before each attempt; Node asks again whether a null
guard exists, Python takes it for stale; Node looks whose guard it drops, Python
does not; a failed body write throws in Node and is retried in Python.

Three constants separate the causes of trouble: `CreateWindow` (others run
between open and write), `UnlinkWindow` (others run between the re-check and the
unlink) and `LeaseKept` (every lock is given up before its stamp is stale).
`stolen` is a history variable: holders whose file was removed.

Abstractions: a read and the staleness test after it are one step; a process id
is never reused; errors of open other than "exists" are left out; the read of
the blocker for the timeout message is left out.

### DbWriter

DuckDB is external and modelled from how the code uses it: one process has the
file open for writing or any number for reading, any other open fails at once
(`OpenConflict`), a close or the death of the process rolls back. Every
subcommand is a walk through `pc`: lock, open, its body, report, close, release,
with the two `finally` blocks. `console.log` of success is a step of its own
(`Report`), after COMMIT and inside the `try`, and may fail. A view is truncated
and written in two steps. `rows` is in commit order, which stands for
`analyzed_at`. Argument parsing and the read-only filter of `query`, which keep
no state, are left out.

### FredCache

Files are inodes, so that `os.replace` moves the very file which another writer
may still have open. The freshness test and the fetch run without the lock. The
fetcher is external and answers with a value or an error envelope. `SaveFails`
is an `OSError` at any call of the save. `overlapped` is a history variable.

### Money, Amortize and Arm

Money is an integer number of cents and a rate an exact fraction. The level
payment (`numpy_financial.pmt`, external) is the loan divided by the present
value of an annuity with discount factors of six digits; the code has 28. A
result can differ only where an amount lies within that distance of the middle
between two cents; no property depends on such a case. Dates are left out.

`FixedRow` is one turn of `_build_fixed_monthly`, `BiweeklyRow` one of
`_build_biweekly_true`. The drift cleanup of lines 345-348 is modelled although
it never changes a row: `principal = balance` in the last row leaves nothing to
absorb. `BiweeklyRaise` are the two ways a biweekly schedule is refused.

`Arm` declares the state of both engines and calls `S!FixedRow` of `Amortize`
until the schedule of the epoch is complete; `NextEpoch` and `Finish` stitch the
slice on, carry totals, balance, payment and rate, and compute the next rate.
Rates are whole multiples of `1/Den`; caps have four decimals and rates six in
the code, so that its sums are exact as well and `quantize_rate` has nothing to
round.

### Rules, Affordability and Stress

A call is an operator whose value is `Result(response)` or `Raise(exception)`;
`Then` passes a result on and stops at an exception, as Python does. The dollar
amounts of `data/reference` are the constant `Ref`, so that limits can be put
next to the small loans of an instance; percentages, score bands and the premium
table are the published ones. Only purchases of one unit by its occupant are
modelled, as the engines ask for nothing else. A ratio is a multiple of
`1/Ratio` (`quantize_rate`), a rate a number of quarters of a percent.

`Validate`, `EvaluateForward`, `EvaluateReverse`, `Blockers` and `SoftWarnings`
are the parts of affordability.py. The ladder is a sequence of citations and
`Applies` says of each whether it blocks; the first one that does is reported.
One applicant stands for the joint income, one amount for the escrow. The budget
of reverse mode is cut to whole cents, where the code keeps its fraction. A quote
then misses the model's budget by at most a cent, which is the bound of
`QuoteUsesBudget`; `Slack` allows a second one for the premium. Warnings of stale
reference files are left out.

### Quote

A request in reverse mode is answered, the answer is confirmed in forward mode
on the value that goes with it, and shocked: what a user does with
scripts/affordability.py and scripts/stress_test.py, and what the round-trip
test of tests/test_affordability.py does. Each step is one action, and an
exception ends the pipeline.

### Analysis and Verdict

`stage` names the next block of `analyze`. `DeterminePrograms` and `ReadRates`
are its first two steps; `EvaluateCell` builds one cell of the matrix, the whole
of `_build_program_result` with its call of the engine; `StressCell` the stress
rows of one cell that passes; `BuildRefi`, `BuildPoints` and `BuildTax` the
blocks of the other engines; `GiveVerdict` calls `Synthesize`. An exception in
any of them is the exception of `analyze`; of the engine's only
NotImplementedError is caught. The matrix prices a loan (`Amounts`) apart from
the engine (`ForwardRequest`, `Evaluate`), as the code does. The ARM row takes
any of two peaks, the payment of the cell and the one at the lifetime cap: what
path leads there is `Arm`'s matter. `Refused` has the rates that the rows build
and `Loan` or `Rate` refuses: two points above the cell's, and for the ARM a
negative index or a reset five points above the loan.

A rate that is not given is read from the cache under its lock (`Todays`). The
lock may time out or a call of the file system fail (`LockErrors`), whatever the
entry; an entry (`Entry`) may be cold, hold NaN or a number too large to be
quantized (InvalidOperation), or a time without its zone, which cannot be
compared (TypeError). What the household and profile loaders raise, and reference
tables that do not load, are left out. What the refinance and points blocks ask of
their engines is recorded in `refi` and `points`; the engines themselves are
`Refinance`.

### Refinance

refinance.py and points.py discount one month after the other and remember the
first one at which the sum is not negative. `Month` is one turn, `Respond` the
response of the three kinds of request. `cum` is in cents times `Unit`, so that
only the discount factor is cut, where the code has 28 digits. `Rows` is the
schedule of build_schedule without extras, as a recursive function.

## 3. Runs

Passing runs:

| Run | Instance | Shows |
|---|---|---|
| `lock_open` | 1 Node and 1 Python call, clock to 4, one fault, all windows open | two processes are inside only if the file of one was removed; only crashes and failed writes leave files; refines the revocable lock; every call ends |
| `db_mixed` | 2 processes, eight commands, revocable lock, two faults | reported inserts are stored once, failed ones are not, nothing stays held, renders agree, a miss has a culprit, every command ends |
| `fred_open` | 2 calls, revocable lock, two faults | torn only after two calls wrote at once; write-through; temporary files have owners; every call ends |
| `amortize` | loans of 0 to 1000 cents, rates 0 to 100 %, 1 to 30 months, six plans of extras, three modes | ends at zero, a cut extra ends the schedule, honest flag, refusals only for loans of cents, refines `Debt` |
| `arm` | loans of 0 to 997 cents, 1 to 6 months, up to five resets, three cap structures, seven sets of terms, index paths | repaid in full across epochs, caps, labels, events match rows, refines `Debt` |
| `quote` | 5 targets, budgets of a few dollars, terms of 12, 24 and 36 months, LTVs of 80 to 100 %, with and without cash, premium, QM data, residual income, county; cash that binds barely over 80 % | quotes but FHA's fit their DTI, with one exception at 80 %; all use the budget or the cash; both modes are blocked alike; less income only tightens; failures have their causes |
| `analysis` | prices, incomes, reserves, rates, counties and down payments on both sides of every limit, and the edges of the cached rates | the matrix and the stress rows agree with the engine; more down never hurts; every loan has a program of its class; a GO is safe; exceptions have their causes |
| `refinance` | rate-and-term, cash-out and points requests of 0 to 6 dollars, 6 to 30 months, the new loan shorter or longer than the old, with horizon, override, tax | a break-even is not lost and never sooner than the quotient; the decision agrees; within the term of the old loan a break-even is one of the money really paid, also after the payoff of the new loan; over both terms the taxes follow the change in total interest |

Runs whose violation is expected, each the counterexample to a sentence of the
repository:

| Run | Shows |
|---|---|
| `lock_hand_off` | Three Node calls, no crash, no stale lock, every body written at once: a process that found the lock released by the time it read it unlinks the lock the next one has just created, and two are inside. |
| `lock_foreign_release` | `releaseLock` compares and unlinks in two calls; suspended in between past its lease, it deletes the lock of its successor. |
| `db_bypass` | `query` opens the database without the lock, and a locked writer meets the IO Error that the lock is there to prevent. |
| `round_trip` | Forward mode finances the upfront premium of an FHA loan, reverse mode solves without it: an FHA quote, fed back, exceeds the DTI it was asked for, beyond every tolerance. |

What the code guarantees in spite of the first three, in every run and for any
constants, is proved (section 4): the first loss of a lock is the work of a stale
recovery, a foreign lock is released only by a process that was robbed, a locked
open fails only where a culprit of two kinds has the database open, and readers
lose a good cache file to nothing but two calls that the lock let both inside.

### Bounds

- `StaleAfter = 2`, `Timeout = 1` keep the code's ratio of 60 s to 30 s. With the
  clock bounded at 4 a lock of time 0 turns stale at 3, and a call that starts
  then still times out. `Start` requires room for its timeout, so that no run
  ends inside a wait.
- Two processes meet every pairwise race of the lock; the hand-off needs three.
- One fault is enough to leave a lock or a guard; two in `DbWriter` and
  `FredCache` let a crash meet a failing report or save.
- `TTL = 2` with `MaxNow = 2`: an entry is fresh at age 1 and stale at exactly 2.
- Loans of at most ten dollars make every cent of rounding count; rates run to
  100 %, the largest a `Rate` admits. Products stay below 2^31. Thirty months
  with payments of two to five cents reach the refusal after `max_periods`.
- `arm` has a reset in the last month, a term that ends before the first reset,
  several one-month epochs, a teaser with a note rate, a floor above the first
  ceiling, and a rate above one, which `Loan` refuses.
- `Ref` of `quote` and `analysis` has limits of 46 to 91 dollars and terms of 24
  and 12 months for 30 and 15 years, so that every limit, tier and table edge
  lies among the loans of the instance, a loan a cent over a limit included. The
  factors of the annuity carry five digits there, more than amounts of four
  need. Prices run from 50 to 102 dollars.
- `quote` has a term beyond the premium table and cash of nothing; `analysis` a
  purchase without a loan, every kind of cache entry behind a lock that may fail,
  and rates at both ends: 0 %, and five points under 100 % with the first quarter
  of a percent on either side.
- `refinance` discounts at 0 and 30 % a year, so that discounting costs whole
  cents in the months of an instance, and has horizons before and after the
  break-evens.

A pipeline (`Quote`, `Analysis`, `Refinance`) is one call that ends, so its runs
do not check deadlock.

### Fairness

The operating system runs every started process (`WF` on `Step(p)`); in
`Lockfile` time passes (`WF` on `Tick`), since a wait ends by its deadline. A
fetcher answers: it has a timeout of ten seconds. Nothing forces a call to
start, a fault to happen or, in the clients of the abstract lock, a recovery to
run. `TimeOut` of the clients abstracts the deadline that `Lockfile` has and is
checked to reach (`Terminates`).

## 4. Proofs

For any sets of processes, any bounds, any requests, any reference data:

**Lockfile.** `TypeCorrect`; `FileInv` (each file at a path was created by its
owner, with the stamp it has, and its owner is at a control point where it may
hold it) is inductive and gives `Exclusion` and `CleanExit`. It also says what is
left of the two promises that runs refute, without any condition: a process
inside whose file nobody removed has it at the path (`Owned`), so that its own
unlink robs nobody. Hence `TheftHasCause`: the first theft is the unlink of a
stale recovery, any later one that of another recovery or of a process robbed
before; and `ReleaseIsOwn`: a release deletes another's lock only if its own was
taken.

`Refinement` maps the owner of the file at the path to the abstract owner. As the
code is, the lock is the revocable one. With the windows closed and the lease
kept (`Closed`), which the code does not ensure, it would be the mutex; this half
needs `SafeInv`: stamps in use are not stale (`LeaseInv`), a Node process that still
tries has not passed its deadline, and nobody about to unlink the lock looks at
the file of a holder (`NoTheft`), which depends on what a recovering process
remembers of the lock.

**DbWriter.** `Held` and `Holding` relate every control point to what its
process holds, in both directions; `CleanFinish` follows. `TxInv` says for every
control point how many rows its command has in the database: none before COMMIT,
one after it, none where it failed. With `Held` (nobody else is in a transaction)
it is inductive and gives `AckedIsStored` and `InsertIsAtomic`, for a revocable
lock and any faults.

Three promises are action properties. `ConflictIsExplained` is the other side of
run `db_bypass`: whoever has the database open for writing is a command without
the lock, or is inside (`Holding`), and so is the locked command whose open fails;
two are inside only where the lock was taken from one. `ViewsAgree`: `ViewInv` says for every control
point of a render that what it has selected, and the files it has written so far,
are what is stored, and by `Held` nobody else stores a row in between.
`MissIsHonest`: a row is in the table of its command (`Tagged`) and a reader only
opens and selects (`Reading`), so that with `TxInv` an acknowledged listing is
still there when it looks.

**FredCache.** `SaveInv` says what a save has done at each control point: who
writes to which inode, that the temporary inode is not the one at the cache path
(`Apart`), what it holds before the replace (`Prepared`). It is inductive for as
long as `overlapped` is false (`CalmInv`), whatever crashes, fails or takes the
lock away, and gives `CacheIsTornOnlyByOverlap` and `CacheIsWritten`.
`CacheStaysReadable` says the same of every step: up to an overlap none makes a
readable file unreadable. `OverlapHasCause` is the other half: the calls that save
are inside (`SaversInside`, inductive also where the lock is taken from them), so
two write at once only where the lock has let both in. `NoTmpLeftBehind` needs
none of it.

**Amortize.** Assumed is what the models of a request accept (`LoanAssumption`:
natural numbers, a rate of at most one, extras of at least a cent) and that the
annuity keeps at least one digit (`UnitAssumption`). That the first payment covers
its interest is a theorem about rounding: the present value of an annuity,
multiplied by its rate, is at most one, whatever is cut off the discount
factors, and an annuity is at least half a payment (`AnnuityIsHalf`). From there
interest never exceeds the level payment later either; `RowShape` and `RowAdded`
describe every row, `SumInv` (conservation) gives `TypeCorrect`,
`ScheduleEndsAtZero`, `FixedIsBuilt` and `Refinement`, and `RowsInv` (no row before
the last is cut or differs from the level payment) gives `CutExtraEndsSchedule`
and `AdjustedIsHonest`.

`RealLoansRepaid` answers when `max_periods` can stop a biweekly schedule: not for
a loan whose payments are worth something (without interest a cent for every ten
months; with interest a biweekly payment that earns 40 cents a year). The
invariant is what the exact calculation would have as an equation: after every two
rows, the rest of the annuity, at half a cent more than the level payment, is
worth at least what is left of the loan (`PairsAre`; `InPair` between the two). Each
row rounds against it by up to half a cent, and the two extra payments a year
earn it back, which is where the 40 cents come from. At the last month the rest
is worth nothing, so the loan ends within twice its months and the ten extra rows
are not used at all. `PaymentRises` (a higher rate never lowers a payment, however
the discount factors are cut) is the other lemma about annuities that later
modules need.

Recursive functions (the annuity, the schedule of `Refinance`, the sum of
extras) are shown to satisfy their equations in `AmortizeProofs`, from the least
element of a set of natural numbers: the induction theorems of the library take
an operator as parameter, but a set of the numbers for which a fact holds needs
none. The other proof modules instantiate these lemmas.

**Arm.** `ResetInv`: the k-th event is the formula's result for the k-th reset
after the rate before it. `EveryResetKeepsTerms` and `EveryLabelIsHonest` follow
from two lemmas about one reset. `EpochInv` is what `Amortize` proves of the
schedule of an epoch, so that its `SumInv` is used by instance and not proved
again. `ChainInv` is the seam: where an epoch stands among the stitched rows
(`Place`), what a row says of the row before it and of its epoch (`RowInv`), and
which rows an event lies between (`EventInv`). Together they are inductive
(`ChainHolds`) and give `ScheduleRepaysInFull`, `EveryEventMatchesRows` and the
refinement of `Debt`, where a whole epoch is one step: its rows are added at once
and pay no more than is owed.

**Refinance.** Assumed are the types of a request. `ScanInv` adds to
`BreakevenIsNow` that the discounted sum is at most the undiscounted one, month
by month, and that the undiscounted sum covers the costs at the break-even. The
factor only shrinks (`TypeCorrect` keeps it within `0..Unit`), so a sum that has
reached zero with savings stays there, and `SimpleIsFirst` and
`PointsDecisionIsRight` follow from what a quotient rounded up and a rounded sum
say.

`BreakevenIsSaved` compares the scan with the schedules. `ScanInv` bounds the
costs at the break-even by undiscounted savings; each saving is the difference of
two level payments, and `PaidAtMost` says what the schedules make of them: what a
loan has been paid never exceeds its level payments but in its last month. After
the payoff of the new loan the scan goes on booking its payment, which nobody
makes, so that the borrower has saved more than it shows (less the excess of the
last payment). After that of the old loan it books savings that nobody has: there
the property says nothing, and a break-even found there is not real.
`TaxesFollow` is the sum of the shields: each month's is off by half a cent, and
what they round adds up, over both schedules to their own ends, to the marginal
rate of the difference in total interest.

**Quote.** Assumed are the types of a request and the order of the cuts. The state
invariant (`QuoteInv`) says only which call each part of the state is the answer
of; what is hard is the engine itself, followed call by call with its rounding.
`PoorerIsNoBetter`: a quotient grows as its divisor falls, and each rung of the
ladder that blocks still does. `BothModesAgree`: the rungs that block a call are a
set, the one reported is the first in the ladder, so two calls agree where their
sets do up to the first. `BudgetIsUsed`: the level payment of a present value that
was rounded to a cent is the payment again to within a cent, because an annuity
is at least half a payment and so a half-cent of loan is at most one of payment.
`FailsOnlyForCause` goes through every exception of both modes.

`OthersClose` is SC-2 itself, for every program but FHA (whose violation is run
`round_trip`): a quote, fed back, keeps the DTI that it was asked for. The premium
is taken out of the budget once, for the loan that the whole budget would carry,
and the quoted loan is a smaller one. For VA and jumbo loans nothing is left to
show. USDA's fee is a share of the average balance of the first year; two
schedules are followed through twelve months, side by side, to show that the
smaller loan's is at most a cent more, whatever each row rounds. This needs an
annuity of four digits and a bit (`Unit >= 20000`, where the code has 28). A
conventional premium falls with the loan, but it may be new, for one kind of quote
(`NewPremium`): at a ratio of more than 80 %, where the cash binds, the cents of its
value can take the smaller loan over 80 % and those of the larger one not. At 80 %
and below the loan that the cash allows is never over (`CashIsUnder`).
`OtherQuotesClose` states exactly this exception, and the instance has such quotes.

**Analysis.** Assumed are the types of a request and of the tables, that FHA's
floor is at most the baseline, and that the short term is shorter. `AnalysisInv`:
every cell is judged (no reason left only where the reserves cover the cash, and
never for VA), every cell the stress block is done with has its income row, and
the block is done with all that pass before the later ones start. With `GoNeeds`,
what a GO of `Synthesize` excludes, this gives `GoIsOnlyGivenSafely`.

`MatrixInv` says that the matrix is complete and that its k-th cell is what
`Cell` returns for the k-th pair of program and down payment; that the down
payments are distinct and sorted is a pigeonhole argument on finite sets.
`MatrixIsAnOffer` then is about three limits applied to the price and to the
loan, `MatrixIsJudged` about an amount computed twice, and `MoreDownIsSafe`
about monotonicity: a loan falls with the down payment, and with it every
premium, payment, ratio and limit that could block, bracket by bracket.
`StressInv` adds that each income row belongs to a cell that passes and whose
shock the engine accepts (`StressIsJudged`), and `CrashInv` that the call which
failed has a cause (`CrashIsExplained`), for each class of exception: `TodaysIs` and
`ReadCause` for what a rate from the cache can raise, `ReadIsCause` for the step.

`StressTightens`: no row of the stress block shows a DTI below that of the cell
that it shocks, so that a row breaches its ceiling whenever the loan of today
does. It rests on `PaymentRises` and on the cells of a program being one
(`OneCellEach`). `ShockIsMonotone` is the same of `rate_shock` by itself, for any
list of rates: its flag RATE_SHOCK_MONOTONE_PI is up only for two rates that cost
the same, to the cent, and never for a higher one that costs less.

Model-checked only:

- all liveness properties: ENABLED is out of the prover's reach;
- `RefusedOnlyForCents` for loans below those of `RealLoansRepaid`: of a few
  cents a month, where half a cent of rounding is a tenth of a payment and more.
  The bound was found and is confirmed by TLC, not derived.

## 5. What the code does otherwise than its documents say

Besides the four violation runs, read in the source while modelling:

- lockfile.mjs:40: a lock whose owner has opened but not written it reads as
  null and counts as stale, so it can be removed while it is being taken. This
  is the window `CreateWindow`; in `lock_open` it shows as a stolen lock. Python
  has it as well (fred_cache.py:234), where lines 6-7 speak of an "atomic
  creation to avoid partial lock reads".
- lockfile.mjs:8-9: "Stale locks are removed only while holding" the guard. The
  guard itself can be cleared by a third process while its owner works.
- data-layer.md:107 has the stamp at write time; lockfile.mjs:125 takes it before
  a wait of up to 30 s.
- data-layer.md:116-145 describes flag `w`; the code opens with `wx`.
- fred_cache.py:20-22 says that concurrent fetches serialize through the lock;
  the fetch of line 546 runs outside it. A slow fetch may therefore replace a
  newer entry by its own; the code promises no order and none is checked.
- property_persistence.py:50 says that the Node writer always locks `data/.lock`;
  `MORTGAGE_OPS_LOCK_PATH` (lockfile.mjs:23) moves only Node's.
- amortize.py: a true biweekly schedule of principal zero ends in an IndexError,
  and one whose payment rounds to too few cents in a ValueError
  (`RefusedOnlyForCents` bounds which: fewer cents a month than a fifth of the
  months, or a first payment that is all interest).
- arm.py:205-211: `applied_cap` is documented as the constraint that bound the
  rate, and arm-mechanics.md section 2 has the smaller ceiling bind at every
  reset. When the floor is above the periodic ceiling the floor wins, the rate
  rises by more than its cap, and the label is "none". `LabelIsHonest` and
  `RateKeepsTerms` state exactly this exception.
- arm.py:407: a loan whose term ends before its first reset has no final epoch,
  so `final_payment_adjusted` stays False.
- arm.py:226: "payments[-1].period == loan.term_months" fails for loans of a few
  cents a month, which rounded payments pay off inside an epoch; later epochs
  then add rows of zeros. `RepaidInFull` allows it only where a payment has
  covered all that was owed.
- property_persistence.py:169-173 lists when `read_latest_for_zpid` returns None;
  line 182 does so as well for a database that a writer has open, though the row
  is there. `MissHasCulprit` makes this one exception.
- property_analysis.py:591 turns a county that the tables lack into a warning and
  goes on; the engine then raises for the first loan above the floor of FHA or
  the baseline (`CrashHasCause` has that price as its cause). A purchase without
  a loan ends in an exception too.
- property_analysis.py:668: whether the premium is passed on depends on the LTV
  rounded to four places, whether it is required on the exact one. A loan a cent
  over 80 % is refused with a ValidationError.
- property_analysis.py:558: a cached rate of 1 percent or less is taken for a
  fraction, so 1 % is read as 100 %.
- property_analysis.py:683-832 prices a VA loan with its funding fee and a jumbo
  loan with a premium, the engine judges both without: `EngineAgrees` says that
  its DTI is then the lower one.
- affordability.py:1138: a conventional quote at a ratio barely over 80 %, limited by
  the cash, can owe a premium that the larger loan of its budget did not, and then
  exceeds its DTI when confirmed (`OtherQuotesClose` excludes it).
- affordability.py:755: a quote at exactly 80 % without a premium can fail the
  assert, since loan and value are rounded after the LTV was validated.
- property_analysis.py:1472-1477: the docstring of `analyze` lists a ValueError for a
  cold cache and ValidationErrors. A rate that is not given is read inside
  `with_cache_lock` (line 538), so FredCacheLockError (fred_cache.py:361) and an
  OSError of the file system escape as well, and so do InvalidOperation and
  TypeError for an entry that `_load_cache` accepts. `CrashHasCause` lists them.
- property_analysis.py:1201: the ARM row resets to five points above the loan, and
  `Loan` refuses a rate over one, so a conventional loan at more than 95 % ends the
  analysis in a ValidationError.
- refinance.py:636: the monthly saving is booked up to the horizon, whatever is left
  of either loan. Beyond the payoff of the old one a break-even counts payments
  that nobody would have made; `BreakevenIsReal` stops there.
- refi-npv.md section 6.2 (lines 401-420) defines the tax shield as the deductible
  interest of the new loan, always an inflow, so that the NPV after taxes would
  never be below the one before. The introduction of the same section 6 (lines
  380-386) and refinance.py:800-848 take the difference of both loans, an outflow
  where the new loan bears less interest; `TaxFollowsInterest` states what the code
  computes.
- refinance.py: a cash-out whose months cost more than before breaks even in
  month 0, whatever its months add up to; `BreakevenIsNow` excludes it.

## 6. Not modelled

- The APR solver: a Newton iteration with a bisection behind it, on decimals of
  28 digits. Its control is a bounded loop that returns or raises; whether it
  converges is a question about the numbers, which the integers of TLC cannot
  carry. The tests compare it with published examples instead.
- Observability: a context manager that times and logs a run. No command of the
  repository enters it.
- Extraction, block detection and the report: patterns over HTML and layout of
  text. They keep no state.
- Of stress.py the synthesis of index paths from names and shifts (a path is any
  path of `Arm`); of amortize.py and arm.py the dates.
- Of the rules those that no engine calls: the state table of insurance but for
  the look-up, the cancellation dates of PMI, Regulation Z. The loader only warns
  of files that are old.
- Validation of the YAML files of household and profile, `compute_household_hash`,
  fixture generators, development hooks.
- The evaluation harness counts over the answers of a language model.

What is left to prove is `RefusedOnlyForCents` for the loans of a few cents. A run of `Lockfile` with two
calls of each language and of `DbWriter`
with three processes would be the next larger instances.
