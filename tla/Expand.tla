------------------------------- MODULE Expand -------------------------------
(***************************************************************************)
(* The expansion of one key's values when metkit's is unavailable          *)
(* (backend._expand_items and _range), against what the request means: a   *)
(* list of single values and of to/by ranges of numbers, of dates, or of   *)
(* times with a unit.                                                      *)
(***************************************************************************)
EXTENDS Integers, Sequences, SequencesExt, FiniteSets

CONSTANTS
    Requests,    \* the values of a key: sequences of segments
    DateNumber,  \* [days -> Nat]: the number a YYYYMMDD date is written as
    Scale        \* units of a time that a plain number is

(* An item of the text: a value - a number ("6"), a date (unit "d", n its  *)
(* day), or a time with a unit ("10m") - or one of the words "to" and "by".*)
Value == [unit : {"", "d", "m"}, n : Int]
To == [unit |-> "to", n |-> 0]
By == [unit |-> "by", n |-> 0]

(* A segment: a value, first = last, or a range; by is <<>> or <<value>>.  *)
Segment ==
    {s \in [first : Value, last : Value, ranged : BOOLEAN, by : Seq(Value)] :
        Len(s.by) <= IF s.ranged THEN 1 ELSE 0}
ASSUME ExpandAssumption ==
    /\ Requests \subseteq Seq(Segment) \ {<<>>}
    /\ \A d \in DOMAIN DateNumber : d \in Nat /\ DateNumber[d] \in Nat
    /\ Scale \in Nat \ {0}

VARIABLES
    request,   \* the segments
    items,     \* their text, split at "/"
    pos,       \* i: the next item
    out        \* the values so far

expandVars == <<request, items, pos, out>>

Text(s) ==
    IF ~ s.ranged THEN <<s.first>>
    ELSE IF s.by = <<>> THEN <<s.first, To, s.last>>
    ELSE <<s.first, To, s.last, By, s.by[1]>>
TextOf(r) == FlattenSeq([k \in DOMAIN r |-> Text(r[k])])

-----------------------------------------------------------------------------
(* _range: the values, or <<>> for None.                                   *)
IsInteger(x) == x.unit \in {"", "d"}
Number(x) == IF x.unit = "d" THEN DateNumber[x.n] ELSE x.n

FloorDiv(a, b) == IF b > 0 THEN a \div b ELSE (- a) \div (- b)

(* From a to b in steps, both ends included; <<>> in the other direction.  *)
StepsOpen(a, b, step) ==  \* mutant: the end is left out
    [k \in 1..FloorDiv(b - a, step) |-> a + step * (k - 1)]
Steps(a, b, step) == [k \in 1..(FloorDiv(b - a, step) + 1) |-> a + step * (k - 1)]
Items(unit, numbers) == [k \in DOMAIN numbers |-> [unit |-> unit, n |-> numbers[k]]]

RangeOf(start, stop, by) ==
    IF \/ ~ IsInteger(start) \/ ~ IsInteger(stop) \/ ~ IsInteger(by)
       \/ Number(by) = 0
    THEN <<>>
    ELSE IF start.unit = "d" /\ stop.unit = "d"
    THEN Items("d", Steps(start.n, stop.n, Number(by)))
    ELSE Items("", Steps(Number(start), Number(stop), Number(by)))

-----------------------------------------------------------------------------
ExpandInit ==
    /\ request \in Requests
    /\ items = TextOf(request)
    /\ pos = 1
    /\ out = <<>>

(* The range at item pos, and where it ends.                               *)
HasTo == pos + 2 <= Len(items) /\ items[pos + 1] = To
HasBy == pos + 4 <= Len(items) /\ items[pos + 3] = By
One == [unit |-> "", n |-> 1]
Here == IF ~ HasTo THEN <<>>
        ELSE RangeOf(items[pos], items[pos + 2], IF HasBy THEN items[pos + 4] ELSE One)

TakeRange ==
    /\ Here # <<>>
    /\ out' = out \o Here
    /\ pos' = pos + IF HasBy THEN 5 ELSE 3
    /\ UNCHANGED <<request, items>>

TakeItem ==
    /\ pos <= Len(items)
    /\ Here = <<>>
    /\ out' = Append(out, items[pos])
    /\ pos' = pos + 1
    /\ UNCHANGED <<request, items>>

ExpandNext == TakeRange \/ TakeItem

ExpandSpec == ExpandInit /\ [][ExpandNext]_expandVars

-----------------------------------------------------------------------------
(* Properties.                                                             *)

Done == pos > Len(items)

(* What the request means to metkit: units of time, or days.               *)
Canonical(x) == [unit |-> IF x.unit = "d" THEN "d" ELSE "m",
                 n |-> IF x.unit = "" THEN Scale * x.n ELSE x.n]
Size(s) == IF s.by = <<>> THEN (IF s.first.unit = "d" THEN 1 ELSE Scale)
           ELSE IF s.first.unit = "d" THEN s.by[1].n ELSE Canonical(s.by[1]).n
Between(a, b) == IF a <= b THEN a..b ELSE b..a
Meaning(s) ==
    IF ~ s.ranged THEN {Canonical(s.first)}
    ELSE LET a == Canonical(s.first)
             b == Canonical(s.last)
         IN  {[a EXCEPT !.n = n] : n \in
                {m \in Between(a.n, b.n) : \E k \in 0..Cardinality(Between(a.n, b.n)) :
                    m = a.n + k * Size(s)}}
MeaningOf(values) == {Canonical(x) : x \in Range(values)}
Meant == UNION {Meaning(request[k]) : k \in DOMAIN request}

(* The size of E's factor: count_fields' distinct values of the key.       *)
Count == Cardinality(Range(out))

(* Ranges the fallback can read: integers, or dates, that lead from the    *)
(* first to the last value.                                                *)
Readable(s) ==
    s.ranged =>
        /\ {s.first.unit, s.last.unit} \in {{""}, {"d"}}
        /\ s.by # <<>> => s.by[1].unit = ""
        /\ (s.last.n - s.first.n) * (IF s.by = <<>> THEN 1 ELSE s.by[1].n) >= 0
        /\ s.by # <<>> => s.by[1].n # 0

(* Integer and date ranges are expanded to exactly the values metkit       *)
(* gives, both ends included where the step meets them, in either          *)
(* direction, across months, and anywhere in a list (fallback_expand).     *)
RangesExact ==
    Done /\ (\A k \in DOMAIN request : Readable(request[k])) =>
        MeaningOf(out) = Meant

(* "other ranges keep their items verbatim, which over-counts fields (the  *)
(* conservative direction for exists)" (fallback_expand).                  *)
OverCounts == Done => Count >= Cardinality(Meant)

-----------------------------------------------------------------------------
(* What RangesExact rests on: before each turn of the loop, the values are *)
(* those of the segments whose text is behind the next item.               *)
SegmentsTaken ==
    (\A k \in DOMAIN request : Readable(request[k])) =>
        \E k \in 0..Len(request) :
            /\ pos = Len(TextOf(SubSeq(request, 1, k))) + 1
            /\ out \in Seq(Value)
            /\ MeaningOf(out) = UNION {Meaning(request[j]) : j \in 1..k}

ExpandInv == request \in Requests /\ items = TextOf(request) /\ SegmentsTaken
=============================================================================
