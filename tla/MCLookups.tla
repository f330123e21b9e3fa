----------------------------- MODULE MCLookups ------------------------------
(***************************************************************************)
(* Two steps, the second with two spellings, perhaps with a quantile, and  *)
(* an origin the schema marks key-.  Outputs: one step written in          *)
(* minutes and canonically, both steps with the quantile, and with a value *)
(* of the origin.  Patterns: the step open at a quantile, and the quantile *)
(* open at a step.  One of FDB's roots, with the second step, may become   *)
(* unreadable.  The quantile and the origin have one value, which looks    *)
(* like a step's.                                                          *)
(***************************************************************************)
EXTENDS Lookups

CONSTANTS r1, OutputNames, PatternNames

MCKey == {"step", "quantile", "origin"}
MCSpelling == {"0", "6", "360m"}
MCValuesOf == [k \in MCKey |->
    IF k = "step" THEN {"0", "6", "360m"} ELSE {"0"}]
MCCanonical == [v \in MCSpelling |-> IF v = "360m" THEN "6" ELSE v]
MCComparable == [v \in MCSpelling |-> v]
MCKindOf == [v \in MCSpelling |-> "str"]
MCSchemaKey == {"step", "quantile", "origin"}
MCRemovedKey == {"origin"}
MCOptionalKey == {"quantile"}

Q(steps, others) ==
    [vals |-> [k \in {"step"} \cup others |->
                IF k = "step" THEN steps ELSE {"0"}],
     ranged |-> {}, verbatim |-> <<>>]
OutputOf(name) ==
    CASE name = "minute" -> Q({"360m"}, {})
      [] name = "six" -> Q({"6"}, {})
      [] name = "quantile" -> Q({"0", "6"}, {"quantile"})
      [] name = "origin" -> Q({"0", "6"}, {"origin"})
MCOutput == {OutputOf(n) : n \in OutputNames}

Open(key, vals) == [query |-> [vals |-> vals, ranged |-> {}, verbatim |-> <<>>],
                    wild |-> {key}]
PatternOf(name) ==
    CASE name = "step" -> Open("step", [k \in {"quantile"} |-> {"0"}])
      [] name = "quantile" -> Open("quantile", [k \in {"step"} |-> {"6"}])
MCPattern == {PatternOf(n) : n \in PatternNames}

(* One step, both steps, and both with the quantile.                       *)
Field(step, q) == [k \in {"step"} \cup (IF q THEN {"quantile"} ELSE {}) |->
                    IF k = "step" THEN step ELSE "0"]
MCWritten == {{Field("0", FALSE)}, {Field("6", FALSE)},
              {Field("0", TRUE), Field("6", TRUE)}}
MCRoot == {{Field("6", FALSE), Field("6", TRUE)}}

MCSettings == {[spelling |-> "warn", remove |-> "warn", required |-> {}],
               [spelling |-> "error", remove |-> "error", required |-> {"step"}]}
=============================================================================
