----------------------------- MODULE MCLockfile -----------------------------
(* Instances of Lockfile for TLC.                                          *)
EXTENDS Lockfile

CONSTANTS n1, n2, n3, p1
Empty == {}
Node1 == {n1}
Node2 == {n1, n2}
Node3 == {n1, n2, n3}
Py1 == {p1}
=============================================================================
