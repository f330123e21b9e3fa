------------------------------ MODULE MCExpand ------------------------------
(***************************************************************************)
(* Requests of one or two segments: numbers, dates around the end of a     *)
(* month, steps in both directions that do and do not meet the last value, *)
(* and times in units of ten minutes, six of which are a plain number.     *)
(***************************************************************************)
EXTENDS Expand

CONSTANTS WithMinutes   \* whether steps have a unit in some requests

N(k) == [unit |-> "", n |-> k]
D(k) == [unit |-> "d", n |-> k]
M(k) == [unit |-> "m", n |-> k]

MCDateNumber == [d \in 29..33 |-> IF d <= 31 THEN 20200100 + d ELSE 20200200 + d - 31]

Single(x) == [first |-> x, last |-> x, ranged |-> FALSE, by |-> <<>>]
Ranges(firsts, lasts, bys) ==
    {[first |-> a, last |-> b, ranged |-> TRUE, by |-> c] :
        a \in firsts, b \in lasts, c \in {<<>>} \cup {<<x>> : x \in bys}}
Segments ==
    {Single(N(0)), Single(N(6)), Single(M(3)), Single(D(31))}
        \cup Ranges({N(0), N(6)}, {N(0), N(5), N(6)}, {N(2), N(3), N(-2), N(-3), N(0)})
        \cup Ranges({D(30), D(32)}, {D(30), D(32), D(33)}, {N(1), N(2), N(-1), N(-2)})
        \cup IF WithMinutes THEN Ranges({N(0)}, {N(2)}, {M(1)}) ELSE {}
MCRequests == {<<s>> : s \in Segments} \cup {<<s, t>> : s, t \in Segments}
=============================================================================
