----------------------------- MODULE RunSummary -----------------------------
(***************************************************************************)
(* The end-of-run summary (summary.RunState) of the main process: lookups  *)
(* and the post-check of store steps feed it from several threads, in      *)
(* steps that are atomic only one by one, while jobs in other processes,   *)
(* and other users of FDB, archive fields it learns of through lookups     *)
(* alone.  Fields are told apart by their age: "old" ones were in FDB      *)
(* before the run's reference time, "fresh" ones look as if the run had    *)
(* archived them.  Queries share no fields: what two of them name counts   *)
(* for each.                                                               *)
(***************************************************************************)
EXTENDS Naturals, FiniteSets

CONSTANTS
    Query,       \* the queries of the workflow's outputs
    Size,        \* [Query -> Nat \ {0}]: fields a query expands to
    Thread,      \* threads of the main process
    StoresHere,  \* whether store steps run in the main process
    MaxLookups,  \* [Query -> Nat]: bounds on the lookups
    MaxFailures, \* bound on the queries whose jobs fail after archiving something
    MaxForeign   \* bound on the queries others archive fields of meanwhile

ASSUME SummaryAssumption ==
    /\ Query # {} /\ Size \in [Query -> Nat \ {0}]
    /\ StoresHere \in BOOLEAN
    /\ MaxLookups \in [Query -> Nat] /\ MaxFailures \in Nat /\ MaxForeign \in Nat

VARIABLES
    old, fresh,  \* [Query -> Nat]: the fields FDB holds of a query
    archived,    \* [Query -> Nat], 0 for a query not in the dict
    before,      \* [Query -> Nat]
    seen,        \* [Query -> SUBSET Nat]: {} for a query not in the dict
    incomplete,  \* the queries listed as incomplete
    direct,      \* the queries archived by the job itself
    plugin,      \* the queries archived by the store step
    pc,          \* [Thread -> {"idle", "record", "transition", "result", "stored"}]
    work,        \* [Thread -> what the thread read or stored]
    lookups,     \* history: [Query -> lookups begun]
    looked,      \* history: queries a lookup of which ended
    producer,    \* history: [Query -> {"none", "store", "job"}]: who archived it
    told,        \* history: produced queries this process learned of afterwards
    outdated,    \* history: queries whose last answer is older than their job
    start,       \* history: old and fresh as the first lookup finds them
    failed,      \* history: queries a failed job archived fields of
    foreign      \* history: queries others archived fields of after a lookup began

fdbVars == <<old, fresh>>
runVars == <<archived, before, seen, incomplete, direct, plugin>>
histVars == <<looked, producer, told, outdated, start, failed, foreign>>
vars == <<fdbVars, runVars, histVars, pc, work, lookups>>

Greater(m, n) == IF m >= n THEN m ELSE n
Smaller(m, n) == IF m <= n THEN m ELSE n
Amount == UNION {0..Size[q] : q \in Query}
Work == [query : Query, old : Nat, fresh : Nat, after : BOOLEAN, direct : BOOLEAN]

-----------------------------------------------------------------------------
(* Init: other processes may have archived fields before the run, in the   *)
(* second it starts, and later, before it looks for them.                  *)
Init ==
    /\ old \in [Query -> Amount] /\ fresh \in [Query -> Amount]
    /\ \A q \in Query : old[q] + fresh[q] <= Size[q]
    /\ archived = [q \in Query |-> 0]
    /\ before = [q \in Query |-> 0]
    /\ seen = [q \in Query |-> {}]
    /\ incomplete = {} /\ direct = {} /\ plugin = {}
    /\ pc = [t \in Thread |-> "idle"]
    /\ work = [t \in Thread |-> [query |-> CHOOSE q \in Query : TRUE, old |-> 0,
                                 fresh |-> 0, after |-> FALSE, direct |-> FALSE]]
    /\ lookups = [q \in Query |-> 0]
    /\ looked = {} /\ told = {} /\ outdated = {}
    /\ producer = [q \in Query |-> "none"]
    /\ start = [old |-> old, fresh |-> fresh]
    /\ failed = {} /\ foreign = {}

RecordArchiveSums(q, n, by) ==  \* mutant: counts are added up
    /\ archived' = [archived EXCEPT ![q] = @ + n]
    /\ IF by = {}
       THEN /\ direct' = IF q \in plugin THEN direct ELSE direct \cup {q}
            /\ UNCHANGED <<incomplete, plugin>>
       ELSE /\ incomplete' = incomplete \ {q}
            /\ direct' = IF TRUE \in by THEN direct \cup {q} ELSE direct
            /\ plugin' = IF TRUE \in by THEN plugin ELSE plugin \cup {q}
RecordArchiveKeepsFirst(q, n, by) ==  \* mutant: who archived a query is decided once
    /\ archived' = [archived EXCEPT ![q] = Greater(@, n)]
    /\ IF by = {}
       THEN /\ direct' = IF q \in plugin THEN direct ELSE direct \cup {q}
            /\ UNCHANGED <<incomplete, plugin>>
       ELSE /\ incomplete' = incomplete \ {q}
            /\ direct' = IF TRUE \in by THEN direct \cup {q} ELSE direct
            /\ plugin' = IF TRUE \in by \/ q \in direct THEN plugin ELSE plugin \cup {q}
(* record_archive with the lock held: direct is {} for None.               *)
RecordArchive(q, n, by) ==
    /\ archived' = [archived EXCEPT ![q] = Greater(@, n)]
    /\ IF by = {}
       THEN /\ direct' = IF q \in plugin THEN direct ELSE direct \cup {q}
            /\ UNCHANGED <<incomplete, plugin>>
       ELSE /\ incomplete' = incomplete \ {q}
            /\ direct' = IF TRUE \in by THEN direct \cup {q} ELSE direct
            /\ plugin' = IF TRUE \in by THEN plugin ELSE plugin \cup {q}

GoTo(t, label) == pc' = [pc EXCEPT ![t] = label]

-----------------------------------------------------------------------------
(* A lookup: inventory or exists.                                          *)

Inspect(t, q) ==
    /\ pc[t] = "idle"
    /\ lookups[q] < MaxLookups[q]
    /\ lookups' = [lookups EXCEPT ![q] = @ + 1]
    /\ work' = [work EXCEPT ![t] =
                [query |-> q, old |-> old[q], fresh |-> fresh[q],
                 after |-> producer[q] # "none", direct |-> FALSE]]
    /\ GoTo(t, "record")
    /\ UNCHANGED <<fdbVars, runVars, histVars>>

RecordLookupKeepsLast(t) ==  \* mutant: the last count of old fields, not the largest
    LET q == work[t].query IN
    /\ pc[t] = "record"
    /\ before' = [before EXCEPT ![q] = work[t].old]
    /\ seen' = [seen EXCEPT ![q] =
                {Greater(n, work[t].fresh) : n \in IF @ = {} THEN {0} ELSE @}]
    /\ GoTo(t, IF \E n \in seen[q] : work[t].fresh > n THEN "transition" ELSE "result")
    /\ UNCHANGED <<fdbVars, histVars, work, lookups, archived, incomplete, direct, plugin>>

RecordLookupCountsFirst(t) ==  \* mutant: fields that are fresh at once count
    LET q == work[t].query
        previous == IF seen[q] = {} THEN {0} ELSE seen[q] IN
    /\ pc[t] = "record"
    /\ before' = [before EXCEPT ![q] = Greater(@, work[t].old)]
    /\ seen' = [seen EXCEPT ![q] = {Greater(n, work[t].fresh) : n \in previous}]
    /\ GoTo(t, IF \E n \in previous : work[t].fresh > n THEN "transition" ELSE "result")
    /\ UNCHANGED <<fdbVars, histVars, work, lookups, archived, incomplete, direct, plugin>>

(* record_lookup up to the end of its locked part: fresh fields count once *)
(* a lookup sees more of them than an earlier one.                         *)
RecordLookup(t) ==
    LET q == work[t].query IN
    /\ pc[t] = "record"
    /\ before' = [before EXCEPT ![q] = Greater(@, work[t].old)]
    /\ seen' = [seen EXCEPT ![q] =
                {Greater(n, work[t].fresh) : n \in IF @ = {} THEN {0} ELSE @}]
    /\ GoTo(t, IF \E n \in seen[q] : work[t].fresh > n THEN "transition" ELSE "result")
    /\ UNCHANGED <<fdbVars, histVars, work, lookups, archived, incomplete, direct, plugin>>

RecordTransition(t) ==
    /\ pc[t] = "transition"
    /\ RecordArchive(work[t].query, work[t].fresh, {})
    /\ GoTo(t, "result")
    /\ UNCHANGED <<fdbVars, histVars, work, lookups, before, seen>>

RecordResultOnlyAdds(t) ==  \* mutant: record_complete is left out
    LET q == work[t].query IN
    /\ pc[t] = "result"
    /\ incomplete' = IF work[t].old + work[t].fresh = Size[q] THEN incomplete
                     ELSE incomplete \cup {q}
    /\ looked' = looked \cup {q}
    /\ told' = IF work[t].after THEN told \cup {q} ELSE told
    /\ outdated' = IF work[t].after \/ producer[q] = "none"
                   THEN outdated \ {q} ELSE outdated \cup {q}
    /\ GoTo(t, "idle")
    /\ UNCHANGED <<fdbVars, work, lookups, producer, start, failed, foreign,
                   archived, before, seen, direct, plugin>>

(* The answer of the lookup: record_complete or record_incomplete.         *)
RecordResult(t) ==
    LET q == work[t].query IN
    /\ pc[t] = "result"
    /\ incomplete' = IF work[t].old + work[t].fresh = Size[q]
                     THEN incomplete \ {q} ELSE incomplete \cup {q}
    /\ looked' = looked \cup {q}
    /\ told' = IF work[t].after THEN told \cup {q} ELSE told
    /\ outdated' = IF work[t].after \/ producer[q] = "none"
                   THEN outdated \ {q} ELSE outdated \cup {q}
    /\ GoTo(t, "idle")
    /\ UNCHANGED <<fdbVars, work, lookups, producer, start, failed, foreign,
                   archived, before, seen, direct, plugin>>

-----------------------------------------------------------------------------
(* Jobs.  An output is looked up before its job.                           *)

Produces(q, by) ==
    /\ q \in looked
    /\ producer[q] = "none"
    /\ producer' = [producer EXCEPT ![q] = by]
    /\ old' = [old EXCEPT ![q] = 0]
    /\ fresh' = [fresh EXCEPT ![q] = Size[q]]

(* A store step in this process: all fields are archived and flushed, then *)
(* the post-check records them, as direct for a marker or an empty file.   *)
Store(t, q) ==
    /\ StoresHere
    /\ pc[t] = "idle"
    /\ \E by \in {"store", "job"} :
        /\ Produces(q, by)
        /\ work' = [work EXCEPT ![t] =
                [query |-> q, old |-> 0, fresh |-> Size[q], after |-> TRUE,
                 direct |-> by = "job"]]
    /\ GoTo(t, "stored")
    /\ UNCHANGED <<runVars, lookups, looked, told, outdated, start, failed, foreign>>

RecordStore(t) ==
    LET q == work[t].query IN
    /\ pc[t] = "stored"
    /\ RecordArchive(q, work[t].fresh, {work[t].direct})
    /\ told' = told \cup {q}
    /\ outdated' = outdated \ {q}
    /\ GoTo(t, "idle")
    /\ UNCHANGED <<fdbVars, work, lookups, before, seen, looked, producer, start, failed,
                   foreign>>

(* A job in another process archives the query's fields itself, or its     *)
(* store step does, there.                                                 *)
JobElsewhere(q) ==
    /\ \E by \in IF StoresHere THEN {"job"} ELSE {"store", "job"} : Produces(q, by)
    /\ UNCHANGED <<runVars, lookups, looked, told, outdated, start, failed, foreign,
                   pc, work>>

(* New fields are archived, and some that mask older ones.                 *)
Archives(q) ==
    \E masks \in 0..old[q], adds \in 0..(Size[q] - old[q] - fresh[q]) :
        /\ masks + adds > 0
        /\ old' = [old EXCEPT ![q] = @ - masks]
        /\ fresh' = [fresh EXCEPT ![q] = @ + masks + adds]

(* A job fails after archiving some fields.                                *)
JobFails(q) ==
    /\ q \in looked
    /\ producer[q] = "none"
    /\ failed' = failed \cup {q}
    /\ Cardinality(failed') <= MaxFailures
    /\ Archives(q)
    /\ UNCHANGED <<runVars, lookups, looked, told, start, producer, outdated, foreign,
                   pc, work>>

(* Somebody who is not of this run archives fields of a query.             *)
ForeignArchives(q) ==
    /\ lookups[q] > 0
    /\ foreign' = foreign \cup {q}
    /\ Cardinality(foreign') <= MaxForeign
    /\ Archives(q)
    /\ UNCHANGED <<runVars, lookups, looked, told, start, producer, outdated, failed,
                   pc, work>>

Next ==
    \/ \E q \in Query : JobElsewhere(q) \/ JobFails(q) \/ ForeignArchives(q)
    \/ \E t \in Thread :
        \/ RecordLookup(t) \/ RecordTransition(t) \/ RecordResult(t) \/ RecordStore(t)
        \/ \E q \in Query : Inspect(t, q) \/ Store(t, q)

Spec == Init /\ [][Next]_vars

-----------------------------------------------------------------------------
(* Properties of the block logged when the threads have ended.             *)

Quiet == \A t \in Thread : pc[t] = "idle"
Masked(q) == Smaller(archived[q], before[q])

(* "Fields with an index timestamp from this run are what the run          *)
(* archived, fields older than it are what its archives masked": for a     *)
(* query produced after a lookup that did not see all its fields fresh,    *)
(* and known to this process, the counts are exact (FR-IFACE-007), if      *)
(* nobody else archived fields of it after its first lookup began.         *)
CountsAreExact ==
    Quiet => \A q \in told \ foreign :
        start.fresh[q] < Size[q] =>
            archived[q] = Size[q] /\ Masked(q) = start.old[q]

(* "A query a job produced is not listed as incomplete", once a lookup or  *)
(* a store step has seen it and no answer read before the job has come     *)
(* since: such an answer lists it again until the next one.                *)
ProducedNotIncomplete == told \cap incomplete \subseteq outdated

(* A query is counted only if fields of it were archived during the run:   *)
(* by a job, or by others after a lookup of it had begun, which look the   *)
(* same.  Others' fields of the start second are not counted (L-35).       *)
OthersNotCounted ==
    \A q \in Query : archived[q] > 0 =>
        producer[q] # "none" \/ q \in failed \/ q \in foreign

(* The line of an archive mode without effect, "every FDB output of this   *)
(* run was archived by its job, which the plugin's store step does not     *)
(* touch", is logged only when it is so, if the store steps run in this    *)
(* process: although lookups of other threads take the fields of a store   *)
(* step that has not recorded them yet for a job's.                        *)
ArchiveModeLineTrue ==
    StoresHere /\ Quiet /\ direct # {} /\ plugin = {} =>
        \A q \in told : producer[q] # "store"

(* Every variable has its type; counts are never more than a query's       *)
(* fields, however often it is looked up.                                  *)
TypeOK ==
    /\ old \in [Query -> Nat] /\ fresh \in [Query -> Nat]
    /\ \A q \in Query : old[q] + fresh[q] <= Size[q]
    /\ archived \in [Query -> Nat] /\ before \in [Query -> Nat]
    /\ \A q \in Query : archived[q] <= Size[q] /\ before[q] <= Size[q]
    /\ seen \in [Query -> SUBSET Nat] /\ \A q \in Query : Cardinality(seen[q]) <= 1
    /\ incomplete \subseteq Query /\ direct \subseteq Query /\ plugin \subseteq Query
    /\ pc \in [Thread -> {"idle", "record", "transition", "result", "stored"}]
    /\ work \in [Thread -> Work]

-----------------------------------------------------------------------------
(* What these rest on.  Every variable the block depends on has its type;  *)
(* a lookup is counted by one number.                                      *)
Busy(t, q) == pc[t] # "idle" /\ work[t].query = q
HistoryOK ==
    /\ looked \subseteq Query /\ told \subseteq Query
    /\ producer \in [Query -> {"none", "store", "job"}]
    /\ start \in [old : [Query -> Nat], fresh : [Query -> Nat]]
    /\ \A q \in Query : seen[q] = {} \/ \E n \in 0..Size[q] : seen[q] = {n}
    /\ \A t \in Thread : work[t].old + work[t].fresh <= Size[work[t].query]

(* Until a lookup of a query ends no job archives its fields: its first    *)
(* lookup saw them as the run found them, if nobody else did.              *)
FirstLookup ==
    \A q \in Query :
        /\ q \in looked => seen[q] # {}
        /\ q \in looked /\ q \notin foreign => before[q] = start.old[q]
        /\ q \notin looked =>
            /\ producer[q] = "none"
            /\ \A t \in Thread : Busy(t, q) => pc[t] # "stored" /\ ~ work[t].after
        /\ q \notin looked /\ q \notin foreign =>
            /\ old[q] = start.old[q] /\ fresh[q] = start.fresh[q]
            /\ seen[q] \subseteq {start.fresh[q]}
            /\ seen[q] # {} => before[q] = start.old[q]
            /\ \A t \in Thread : Busy(t, q) =>
                work[t].old = start.old[q] /\ work[t].fresh = start.fresh[q]

(* A lookup never sees more old fields than the run found.                 *)
OldOnlyMasked ==
    \A q \in Query :
        /\ old[q] <= start.old[q] /\ before[q] <= start.old[q]
        /\ \A t \in Thread : Busy(t, q) =>
            /\ work[t].old <= start.old[q]
            /\ pc[t] \in {"transition", "result"} =>
                seen[q] # {} /\ (q \notin foreign => before[q] = start.old[q])

(* While nobody archived fields of a query, lookups agree on the fresh     *)
(* ones.                                                                   *)
OthersSeenOnce ==
    \A q \in Query : producer[q] = "none" /\ q \notin failed /\ q \notin foreign =>
        /\ archived[q] = 0
        /\ fresh[q] = start.fresh[q] /\ seen[q] \subseteq {start.fresh[q]}
        /\ \A t \in Thread : Busy(t, q) =>
            /\ pc[t] \in {"record", "result"}
            /\ work[t].fresh = start.fresh[q]

(* A produced query is whole for every lookup that begins later.           *)
ProducedWhole ==
    \A q \in Query :
        /\ producer[q] # "none" => old[q] = 0 /\ fresh[q] = Size[q]
        /\ \A t \in Thread : Busy(t, q) /\ work[t].after =>
            producer[q] # "none" /\ work[t].old = 0 /\ work[t].fresh = Size[q]
        /\ \A t \in Thread : Busy(t, q) /\ pc[t] = "stored" => work[t].after
        /\ q \in told => producer[q] # "none"
        /\ q \in told \cap incomplete => q \in outdated

(* What a lookup saw beyond the fields of the start is counted, or the     *)
(* thread is about to, if nobody else archived; and what this process      *)
(* learned of was seen whole.                                              *)
SeenIsCounted ==
    \A q \in Query :
        /\ q \notin foreign => \A n \in seen[q] : n > start.fresh[q] =>
            \/ archived[q] >= n
            \/ \E t \in Thread : pc[t] = "transition" /\ work[t].query = q /\ work[t].fresh = n
        /\ q \in told => archived[q] = Size[q] \/ Size[q] \in seen[q]
        /\ \A t \in Thread : Busy(t, q) /\ work[t].after /\ pc[t] \in {"transition", "result"}
            => Size[q] \in seen[q]

(* A store step of this process is recorded, or about to be.               *)
StoresRecorded ==
    StoresHere => \A q \in Query : producer[q] = "store" =>
        \/ q \in plugin
        \/ \E t \in Thread : pc[t] = "stored" /\ work[t].query = q /\ ~ work[t].direct

(* The inductive invariant of the summary.                                 *)
SummaryInv ==
    /\ TypeOK /\ HistoryOK /\ FirstLookup /\ OldOnlyMasked /\ OthersSeenOnce
    /\ ProducedWhole /\ SeenIsCounted /\ StoresRecorded
=============================================================================
