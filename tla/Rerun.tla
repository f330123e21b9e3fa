------------------------------- MODULE Rerun --------------------------------
(***************************************************************************)
(* The input-set rerun trigger (rerun.decide, covered_by, field_set): when *)
(* Snakemake's comparison of a job's inputs with the recorded ones finds a *)
(* difference, the plugin decides for the FDB inputs it tracks by lookup   *)
(* whether the job would read a field the recorded queries do not name.    *)
(* Between runs the Snakefile is edited; each run is a process of its own, *)
(* in which the expansion of a query may fail, for good.                   *)
(***************************************************************************)
EXTENDS Naturals, FiniteSets, Bags

CONSTANTS
    Text,        \* input texts: file names and queries
    Query,       \* ... those the plugin's grammar accepts
    Names,       \* [Query -> SUBSET Field]: the fields metkit expands a query to
    Words,       \* [Query -> SUBSET Word]: what fallback_expand makes of it
    Means,       \* [Word -> SUBSET Field]: what metkit expands such a word to
    RangeWord,   \* words that only stand in a range that is kept verbatim: "to"
    Huge,        \* queries that name more than COVERAGE_MAX fields
    MayFail,     \* queries whose expansion may fail in a process
    Versions,    \* input lists the Snakefile may give the job
    MaxEdits     \* bound on the edits

(* The queries with a range that fallback_expand cannot read: it keeps the *)
(* items as they are, the bounds, "to", "by" and the step.                 *)
Verbatim == {q \in Query : Words[q] \cap RangeWord # {}}

(* The other queries mean what their words mean, whatever the spelling.    *)
(* An input list: texts of the FDB objects tracked by lookup, and all the  *)
(* others, each as often as it occurs.                                     *)
ASSUME RerunAssumption ==
    /\ Query \subseteq Text
    /\ \A q \in Query : Names[q] # {} /\ Words[q] # {}
    /\ \A q \in Query \ Verbatim : Names[q] = UNION {Means[w] : w \in Words[q]}
    /\ Huge \subseteq Query /\ MayFail \subseteq Query
    /\ \A v \in Versions :
        /\ IsABag(v.tracked) /\ BagToSet(v.tracked) \subseteq Query
        /\ IsABag(v.plain) /\ BagToSet(v.plain) \subseteq Text
    /\ MaxEdits \in Nat

VARIABLES
    inputs,    \* the job's inputs as the Snakefile has them
    record,    \* the texts recorded when the job last ended
    failed,    \* queries this process could not expand: cached as None
    metkit,    \* whether this process has metkit's expansion
    made,      \* history: the inputs the job last ran with
    edits      \* history: edits

rerunVars == <<inputs, record, failed, metkit, made, edits>>

(* What persistence records and compares: the texts of all inputs.         *)
Texts(v) == v.tracked (+) v.plain

-----------------------------------------------------------------------------
(* field_set: the fields of a query, or None.  A field is one combination  *)
(* of the expanded values, without metkit of the fallback's.               *)
Expandable(q) == q \in Query \ (failed \cup Huge)
FieldSet(q) == IF metkit THEN Names[q] ELSE Words[q]

CoveredBySingle(q, pool) ==  \* mutant: one recorded query has to cover it alone
    \/ q \in pool
    \/ /\ Expandable(q)
       /\ \E r \in pool : Expandable(r) /\ FieldSet(q) \subseteq FieldSet(r)
CoveredUnlessUncovered(q, pool) ==  \* mutant: an own None taken for no fields
    \/ q \in pool
    \/ ~ Expandable(q)
    \/ FieldSet(q) \subseteq UNION {FieldSet(r) : r \in {p \in pool : Expandable(p)}}
(* covered_by: by its text, or all its fields by the pool's together.      *)
CoveredBy(q, pool) ==
    \/ q \in pool
    \/ /\ Expandable(q)
       /\ FieldSet(q) \subseteq UNION {FieldSet(r) : r \in {p \in pool : Expandable(p)}}

(* The current texts that are compared as Snakemake does, and the recorded *)
(* ones that comparison leaves over.                                       *)
Rest(v) == Texts(v) (-) v.tracked
Pool(v, recorded) == BagToSet(recorded (-) Rest(v))

Decide(v, recorded) ==
    \/ ~ Rest(v) \sqsubseteq recorded
    \/ ~ Pool(v, recorded) \subseteq Query
    \/ \E q \in BagToSet(v.tracked) : ~ CoveredBy(q, Pool(v, recorded))

(* The wrapped _input_changed: only its True is decided again.             *)
InputChanged(v, recorded) ==
    /\ Texts(v) # recorded
    /\ v.tracked = EmptyBag \/ Decide(v, recorded)

-----------------------------------------------------------------------------
RerunInit ==
    /\ inputs \in Versions
    /\ made = inputs
    /\ record = Texts(inputs)
    /\ failed \in SUBSET MayFail
    /\ metkit \in BOOLEAN
    /\ edits = 0

(* The Snakefile is edited and Snakemake starts again.                     *)
Edit ==
    /\ edits < MaxEdits
    /\ edits' = edits + 1
    /\ inputs' \in Versions \ {inputs}
    /\ failed' \in SUBSET MayFail
    /\ metkit' \in BOOLEAN
    /\ UNCHANGED <<record, made>>

(* The job runs again because its inputs changed.                          *)
RunJob ==
    /\ InputChanged(inputs, record)
    /\ made' = inputs
    /\ record' = Texts(inputs)
    /\ UNCHANGED <<inputs, failed, metkit, edits>>

RerunNext == Edit \/ RunJob

RerunSpec == RerunInit /\ [][RerunNext]_rerunVars

-----------------------------------------------------------------------------
(* Properties.                                                             *)

(* What the queries of a list name.  A query with a relative date names    *)
(* other fields on another day (L-28): what counts is the day of the       *)
(* decision, for the recorded queries too.                                 *)
FieldsOf(texts) == UNION {Names[q] : q \in BagToSet(texts) \cap Query}
Files(v) == [f \in BagToSet(v.plain) \ Query |-> v.plain[f]]

(* An output that stays was made from the same other files, and from       *)
(* queries that name every field its inputs name, after any number of      *)
(* edits that did not rerun the job and whatever a process can expand      *)
(* (FR-RERUN-001).  Excepted are decisions without metkit about recorded   *)
(* queries with a range the fallback keeps verbatim: its words may cover   *)
(* fields that were never read.                                            *)
NoMissedChange ==
    ~ InputChanged(inputs, record) =>
        /\ Files(inputs) = Files(made)
        /\ metkit \/ BagToSet(record) \cap Verbatim = {}
           => FieldsOf(inputs.tracked) \subseteq FieldsOf(Texts(made))

(* A job reruns only for a field it did not read or for another input      *)
(* Snakemake compares by its text: the order of values, their notation and *)
(* spelling, and how they are split into queries do not rerun it, if metkit*)
(* can expand the queries and one is left that is tracked by lookup.       *)
NoNeedlessRerun ==
    /\ InputChanged(inputs, record)
    /\ metkit
    /\ \A q \in BagToSet(Texts(inputs)) \cup BagToSet(record) : q \in Query => Expandable(q)
    /\ inputs.tracked # EmptyBag
    => \/ ~ FieldsOf(inputs.tracked) \subseteq FieldsOf(made.tracked)
       \/ inputs.plain # made.plain

(* What these rest on: the record is that of the inputs the job last ran   *)
(* with.                                                                   *)
RecordIsOfMade ==
    /\ inputs \in Versions /\ made \in Versions
    /\ record = Texts(made)
=============================================================================
