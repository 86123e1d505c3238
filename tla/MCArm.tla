------------------------------- MODULE MCArm -------------------------------
(* Instances of Arm for TLC: rates in steps of 1 / 100, loans of up to ten  *)
(* dollars over up to six months, with up to four resets.                   *)
EXTENDS Arm

Caps == {[initial |-> 0, periodic |-> 2, lifetime |-> 20],
         [initial |-> 5, periodic |-> 2, lifetime |-> 5],
         [initial |-> 20, periodic |-> 20, lifetime |-> 20]}

\* [principal, term, initial, cadence]: with and without a reset, one in the
\* last month, and terms that end before the first.
Shapes == {[principal |-> p, term |-> s[1], initial |-> s[2], cadence |-> s[3]] :
              p \in {0, 3, 100, 997},
              s \in {<<1, 1, 1>>, <<3, 1, 1>>, <<3, 2, 5>>, <<4, 5, 1>>, <<5, 1, 2>>, <<6, 2, 1>>}}

\* [rate, margin, floor, note, index]: ordinary terms, a teaser rate, a floor
\* above the first ceiling, and rates near zero and near one.
Terms == {[rate |-> t[1], margin |-> t[2], floor |-> t[3], note |-> t[4], index |-> t[5]] :
              t \in {<<6, 2, 2, NoNote, 3>>, <<6, 2, 2, NoNote, 12>>, <<3, 3, 3, 8, 9>>,
                     <<3, 2, 8, 5, 9>>, <<3, 2, 8, NoNote, 4>>, <<10, 0, 0, NoNote, 0>>,
                     <<90, 20, 0, NoNote, 95>>}}

Paths(s) == {<<>>, s.initial + 1 :> 7, (s.initial + 1 :> 15) @@ (s.initial + 1 + s.cadence :> 0)}

SomeRequests ==
    UNION {{s @@ t @@ [caps |-> c, path |-> x] : t \in Terms, c \in Caps, x \in Paths(s)} : s \in Shapes}
=============================================================================
