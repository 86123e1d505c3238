------------------------------ MODULE Verdict ------------------------------
(***************************************************************************)
(* lib/property_verdict.py: the five levels of the verdict, from the cells *)
(* of the matrix and the rows of the stress block.                         *)
(***************************************************************************)
EXTENDS Integers, Sequences, FiniteSets

EligibleAt(cells, preferred) ==
    {i \in DOMAIN cells : cells[i].pct = preferred /\ cells[i].eligible}

\* The eligible programs whose income stress breaches their ceiling.
IncomeFails(cells, rows, preferred) ==
    {row \in rows : /\ row.kind = "income_shock" /\ row.breaches
                   /\ \E i \in EligibleAt(cells, preferred) :
                        cells[i].program = row.program}

\* Mutant: the income stress is not consulted.
MutantSynthesize(cells, rows, preferred) ==
    LET eligible == EligibleAt(cells, preferred)
    IN  CASE ~ \E i \in DOMAIN cells : cells[i].eligible ->
               [level |-> "NO_GO", code |-> "DTI-CEILING-ALL-PROGRAMS"]
          [] eligible = {} -> [level |-> "NO_GO", code |-> "NO-ELIGIBLE-AT-PREFERRED-DP"]
          [] \A i \in eligible : cells[i].program = "FHA30" ->
               [level |-> "WATCH", code |-> "MIP-BURDEN-FHA"]
          [] OTHER -> [level |-> "GO", code |-> "GO-ALL-GREEN"]

\* synthesize: the first level that applies.
Synthesize(cells, rows, preferred) ==
    LET some == \E i \in DOMAIN cells : cells[i].eligible
        eligible == EligibleAt(cells, preferred)
        breached == IncomeFails(cells, rows, preferred) # {}
        fhaOnly == \A i \in eligible : cells[i].program = "FHA30"
    IN  CASE ~ some -> [level |-> "NO_GO", code |-> "DTI-CEILING-ALL-PROGRAMS"]
          [] some /\ eligible = {} -> [level |-> "NO_GO", code |-> "NO-ELIGIBLE-AT-PREFERRED-DP"]
          [] eligible # {} /\ breached -> [level |-> "WATCH", code |-> "STRESS-INCOME-SHOCK"]
          [] eligible # {} /\ ~ breached /\ fhaOnly -> [level |-> "WATCH", code |-> "MIP-BURDEN-FHA"]
          [] OTHER -> [level |-> "GO", code |-> "GO-ALL-GREEN"]
=============================================================================
