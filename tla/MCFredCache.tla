---------------------------- MODULE MCFredCache -----------------------------
(* Instances of FredCache for TLC. *)
EXTENDS FredCache

CONSTANTS a, b
Two == {a, b}
=============================================================================
