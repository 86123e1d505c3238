----------------------------- MODULE LeaseLock ------------------------------
(***************************************************************************)
(* What the lock file promises, without the file: at most one process owns *)
(* the lock, a process enters only when nobody owns it, and it leaves by   *)
(* itself.  Ownership and being inside are two things, because a recovery  *)
(* can take the ownership of a process that is still inside (Revoke).      *)
(* With Revocable = FALSE this is a mutual-exclusion lock that also        *)
(* reclaims what dead owners leave behind.                                 *)
(***************************************************************************)
CONSTANTS Proc, Nobody, Revocable

VARIABLES owner,    \* the process whose lock is recorded, or Nobody
          inside    \* the processes that were let in and have not left

vars == <<owner, inside>>

Init == owner = Nobody /\ inside = {}

Enter(p) == /\ owner = Nobody
            /\ owner' = p
            /\ inside' = inside \cup {p}

\* Leaving gives the lock up, unless it already belongs to somebody else.
Exit(p) == /\ p \in inside
           /\ inside' = inside \ {p}
           /\ owner' = IF owner = p THEN Nobody ELSE owner

\* A process that dies or fails inside leaves its ownership behind ...
Abandon(p) == /\ p \in inside
              /\ inside' = inside \ {p}
              /\ owner' = owner

\* ... which anybody may take away,
Reclaim == /\ owner # Nobody
           /\ owner \notin inside
           /\ owner' = Nobody
           /\ inside' = inside

\* and, if leases can run out, so may the ownership of a process inside.
Revoke == /\ Revocable
          /\ owner \in inside
          /\ owner' = Nobody
          /\ inside' = inside

\* A process that leaves after its lease ran out may take the next owner's.
ExitAndRevoke(p) == /\ Revocable
                    /\ p \in inside
                    /\ inside' = inside \ {p}
                    /\ owner' = Nobody

Next == \/ \E p \in Proc : Enter(p) \/ Exit(p) \/ Abandon(p) \/ ExitAndRevoke(p)
        \/ Reclaim \/ Revoke

Spec == Init /\ [][Next]_vars
=============================================================================
