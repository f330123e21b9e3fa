------------------------------ MODULE MCStore -------------------------------
(***************************************************************************)
(* A small FDB for TLC: fields have a step and perhaps a quantile; the     *)
(* origin of a message is a key the schema marks key-, local one it does   *)
(* not know.  Four outputs: a range, a list with a quantile, one step      *)
(* written in minutes, which overlaps the range, and a longer range that   *)
(* ends in minutes (0/to/180m), which the fallback takes for three values. *)
(***************************************************************************)
EXTENDS StoreStep, TLC

CONSTANTS t1, t2, OutputNames   \* which of the outputs below a run uses

ThreadSymmetry == Permutations(Thread)

MCKey == {"step", "quantile", "origin", "local"}
MCSpelling == {"0", "1", "2", "60m", "180m", "3", "q1", "a", "b", "to"}
MCValuesOf == [k \in MCKey |->
    CASE k = "step" -> {"0", "1", "2", "60m"}
                        \cup IF "long" \in OutputNames THEN {"3"} ELSE {}
      [] k = "quantile" -> {"q1"}
      [] OTHER -> {"a", "b"}]
MCCanonical == [v \in MCSpelling |->
    CASE v = "60m" -> "1" [] v = "180m" -> "3" [] OTHER -> v]
MCComparable == [v \in MCSpelling |-> v]
MCKindOf == [v \in MCSpelling |-> IF v \in {"0", "1", "2", "3"} THEN "int" ELSE "str"]
MCSchemaKey == {"step", "quantile", "origin"}
MCRemovedKey == {"origin"}
MCOptionalKey == {"quantile"}

Steps(values) == [k \in {"step"} |-> values]
RangeQuery == [vals |-> Steps({"0", "1"}), ranged |-> {"step"}, verbatim |-> <<>>]
LongQuery == [vals |-> Steps({"0", "1", "2", "3"}), ranged |-> {"step"},
              verbatim |-> Steps({"0", "to", "180m"})]
QuantileQuery == [vals |-> [k \in {"step", "quantile"} |->
                               IF k = "step" THEN {"0", "1"} ELSE {"q1"}],
                  ranged |-> {}, verbatim |-> <<>>]
MinuteQuery == [vals |-> Steps({"60m"}), ranged |-> {}, verbatim |-> <<>>]

Msg(step, origin) == [k \in {"step", "origin"} |-> IF k = "step" THEN step ELSE origin]
With(m, key, v) == [k \in DOMAIN m \cup {key} |-> IF k = key THEN v ELSE m[k]]

OutputOf(name) ==
    CASE name = "range" -> RangeQuery
      [] name = "quantile" -> QuantileQuery
      [] name = "minute" -> MinuteQuery
      [] name = "long" -> LongQuery
MCOutput == {OutputOf(n) : n \in OutputNames}

(* Good files, a step outside the query, messages that differ in a key FDB *)
(* does not index, a key the schema rejects, a missing message.            *)
MCFilesOf == [q \in MCOutput |->
    CASE q = RangeQuery ->
            {<<Msg("0", "a"), Msg("1", "a")>>, <<Msg("0", "a"), Msg("2", "a")>>,
             <<Msg("1", "a"), Msg("1", "b")>>,
             <<Msg("0", "a"), With(Msg("1", "a"), "local", "a")>>, <<Msg("0", "a")>>}
      [] q = QuantileQuery ->
            {<<Msg("0", "a"), Msg("1", "a")>>,
             <<With(Msg("0", "a"), "quantile", "q1"),
               With(Msg("1", "a"), "quantile", "q1")>>}
      [] q = LongQuery -> {<<Msg("0", "a"), Msg("1", "a"), Msg("2", "a")>>}
      [] q = MinuteQuery -> {<<Msg("1", "a")>>, <<Msg("0", "a")>>}]
=============================================================================
