------------------------------ MODULE Lookups -------------------------------
(***************************************************************************)
(* The read side on top of the abstract store: what Snakemake asks of      *)
(* storage objects (inventory, exists, remove), what Python code asks      *)
(* (api.exists) and glob_wildcards.  Each lookup is one read with a fresh  *)
(* handle, retried if its failure is of unknown cause, then the check of   *)
(* FDB's roots, then an answer computed from what the handle saw, while    *)
(* jobs and other processes go on archiving and roots become unreadable    *)
(* and readable again.                                                     *)
(***************************************************************************)
EXTENDS MaskingStore

CONSTANTS
    Reader,           \* threads that look fields up
    Pattern,          \* the patterns of glob_wildcards
    Written,          \* the sets of fields that are archived together
    Root,             \* the fields below each of FDB's local roots
    Settings,         \* the settings a provider may have, of the ones below
    Faults,           \* subset of {"known", "unknown"}: failures of reads
    MaxAttempts,      \* attempts of a read (the interface's retry decorator: 3)
    MaxClock,         \* bound on the FDB clock
    MaxStores,        \* bound on the store steps that succeed
    MaxChanges,       \* bound on the flushes and on the roots lost
    MaxLookups        \* bound on the lookups

(* canonical_spelling, remove_policy and glob_required_keys.               *)
Setting == [spelling : {"ignore", "warn", "error"},
            remove : {"ignore", "warn", "error"}, required : SUBSET Key]

ASSUME LookupsAssumption ==
    /\ Output # {} /\ \A q \in Output : IsQuery(q)
    /\ \A p \in Pattern :
        IsQuery(p.query) /\ p.wild \subseteq Key \ DOMAIN p.query.vals
    /\ Written \subseteq SUBSET FieldKey
    /\ Root \subseteq SUBSET FieldKey
    /\ Settings \subseteq Setting
    /\ Faults \subseteq {"known", "unknown"}
    /\ MaxAttempts \in Nat \ {0}
    /\ MaxClock \in Nat /\ MaxStores \in Nat /\ MaxChanges \in Nat /\ MaxLookups \in Nat

VARIABLES
    hidden,    \* fields under roots that cannot be read now
    settings,  \* the provider's settings
    caching,   \* Snakemake's IO cache is active: it builds the DAG
    cache,     \* what inventory() filled it with
    warned,    \* _REMOVE_WARNED
    pc,        \* [Reader -> {"idle", "read", "answer"}]
    asked,     \* [Reader -> Ask]: the lookup a thread works on or did last
    tries,     \* [Reader -> Nat]: failed attempts of its read
    saw,       \* [Reader -> [FieldKey -> Nat]]: the catalogue its handle read
    said,      \* [Reader -> Answer]: the answer to its last lookup
    due,       \* history: fields FDB had when a thread's lookup began
    begun,     \* history: the second a thread's lookup began in
    known,     \* history: queries some answer called complete
    listed,    \* history: queries glob_wildcards was given
    lookups,   \* history: lookups begun
    changes    \* history: flushes, and roots lost

(* What no lookup changes, what its beginning sets, its progress, and what *)
(* answers leave behind.                                                   *)
worldVars == <<maskVars, hidden, settings, caching, changes>>
askVars == <<warned, asked, due, begun, lookups>>
stepVars == <<pc, tries, saw, said>>
toldVars == <<cache, known, listed>>
allVars == <<worldVars, askVars, stepVars, toldVars>>

(* exists is exists(), mtime(), size() and api.exists.                     *)
Op == {"inventory", "exists", "remove", "glob"}

(* What a lookup is about: a query, or a pattern, whose wildcard-bearing   *)
(* keys are not in query.                                                  *)
Subject == {[query |-> q, wild |-> {}] : q \in Output} \cup Pattern
Ask == [op : Op, about : Subject]

(* none: not answered; raised: an error; unknown: remove() could not look  *)
(* the query up; told: the fields found.                                   *)
Answer == [kind : {"none", "raised", "unknown", "told"}, fields : SUBSET FieldKey]
Unanswered == [kind |-> "none", fields |-> {}]

Query(r) == asked[r].about.query

-----------------------------------------------------------------------------
(* What an answer is computed from.                                        *)

ListsThrough(q, f) ==  \* mutant: list matches as inspect does
    \A k \in DOMAIN q.vals \cap DOMAIN f : f[k] \in {Canonical[v] : v \in q.vals[k]}

(* list, unlike inspect, does not match through keys a field lacks, and    *)
(* omitted keys are wildcards.                                             *)
Lists(q, f) ==
    \A k \in DOMAIN q.vals :
        k \in DOMAIN f /\ f[k] \in {Canonical[v] : v \in q.vals[k]}

(* The fields an answer is about.  A glob skips those without a value for  *)
(* a wildcard-bearing key.                                                 *)
Concerns(r, f) ==
    IF asked[r].op = "glob"
    THEN Lists(Query(r), f) /\ asked[r].about.wild \subseteq DOMAIN f
    ELSE Counted(Query(r), f)
Found(r) == {f \in FieldKey : saw[r][f] > 0 /\ Concerns(r, f)}

(* _complete.                                                              *)
Complete(q, fields) == Expected(q) > 0 /\ Cardinality(fields) = Expected(q)

(* "This output therefore still looks complete", says remove().            *)
LooksComplete(q, fields) == fields # {} /\ Cardinality(fields) >= Expected(q)

LatestIsNow(r, fields) == clock  \* mutant: the time of the lookup
(* _mtime_of: the latest time of the fields.                               *)
Latest(r, fields) == CHOOSE n \in {saw[r][f] : f \in fields} :
                        \A f \in fields : saw[r][f] <= n

MissingAsWritten(q, fields) ==  \* mutant: the query's values, not the expansion's
    {c \in [DOMAIN q.vals -> Spelling] :
        /\ \A k \in DOMAIN c : c[k] \in q.vals[k]
        /\ \A f \in fields : \E k \in DOMAIN c : k \notin DOMAIN f \/ f[k] # c[k]}

(* The combinations of the query reported missing: those no field has the  *)
(* values of; a key the field lacks counts as empty.                       *)
Missing(q, fields) ==
    {c \in Combinations(q) :
        \A f \in fields : \E k \in DOMAIN c : k \notin DOMAIN f \/ f[k] # c[k]}

(* The candidates of a glob: the pattern with a field's canonical values.  *)
Substituted(p, f) ==
    [vals |-> [k \in DOMAIN p.query.vals \cup p.wild |->
                IF k \in p.wild THEN {f[k]} ELSE p.query.vals[k]],
     ranged |-> p.query.ranged, verbatim |-> p.query.verbatim]
Candidates(p, fields) == {Substituted(p, f) : f \in fields}

DiffsOfCounts(q) ==  \* mutant: only the numbers of values are compared
    {k \in DOMAIN q.vals \ q.ranged :
        Cardinality(Expanded(q)[k]) # Cardinality(q.vals[k])}
(* spelling_diffs: keys without to/by with a value that metkit spells      *)
(* otherwise.  The given list and the expanded one are compared item by    *)
(* item, whatever their order and however often an item occurs.            *)
Diffs(q) == {k \in DOMAIN q.vals \ q.ranged : \E v \in q.vals[k] : Canonical[v] # v}

(* FR-SPELL-001, where the policy makes it an error; not without metkit.   *)
Misspelt(q) == settings.spelling = "error" /\ MetkitAvailable /\ Diffs(q) # {}

(* glob_required_keys the pattern gives no constant value.                 *)
Unconstrained(p) == settings.required \ DOMAIN p.query.vals

(* remove() looks up and speaks, with remove_policy=warn once per query.   *)
Speaks(q) == settings.remove # "ignore" /\ q \notin warned

-----------------------------------------------------------------------------
LookupsInit ==
    /\ MaskInit
    /\ hidden = {}
    /\ settings \in Settings
    /\ caching = TRUE
    /\ cache = <<>>
    /\ warned = {}
    /\ pc = [r \in Reader |-> "idle"]
    /\ asked = [r \in Reader |-> [op |-> "exists",
                about |-> [query |-> CHOOSE q \in Output : TRUE, wild |-> {}]]]
    /\ tries = [r \in Reader |-> 0]
    /\ saw = [r \in Reader |-> [f \in FieldKey |-> 0]]
    /\ said = [r \in Reader |-> Unanswered]
    /\ due = [r \in Reader |-> {}]
    /\ begun = [r \in Reader |-> 1]
    /\ known = {}
    /\ listed = {}
    /\ lookups = 0
    /\ changes = 0

(* The store, by itself; its store steps promise the least they can.       *)
StoreMoves ==
    /\ \/ clock < MaxClock /\ MaskTick /\ UNCHANGED changes
       \/ /\ changes < MaxChanges
          /\ changes' = changes + 1
          /\ \E F \in Written : Masks(F)
          /\ UNCHANGED <<clock, accepted>>
       \/ /\ Cardinality(accepted) < MaxStores
          /\ \E q \in Output : MaskAccept(q, 1)
          /\ UNCHANGED changes
    /\ UNCHANGED <<hidden, settings, caching, askVars, stepVars, toldVars>>

(* A root becomes unreadable (one at a time), and readable again.          *)
RootLost ==
    /\ hidden = {} /\ changes < MaxChanges
    /\ changes' = changes + 1
    /\ \E F \in Root : hidden' = F
    /\ UNCHANGED <<maskVars, settings, caching, askVars, stepVars, toldVars>>
RootsBack ==
    /\ hidden # {}
    /\ hidden' = {}
    /\ due' = [r \in Reader |-> due[r] \ hidden]
    /\ UNCHANGED <<maskVars, settings, caching, changes, warned, asked, begun, lookups,
                   stepVars, toldVars>>

(* The DAG is built: Snakemake asks the objects themselves from now on.    *)
DagBuilt ==
    /\ caching
    /\ \A r \in Reader : asked[r].op = "inventory" => pc[r] = "idle"
    /\ caching' = FALSE
    /\ UNCHANGED <<maskVars, hidden, settings, changes, askVars, stepVars, toldVars>>

(* The lookup ends with an error; remove() does not fail on a lookup, and  *)
(* with remove_policy=error raises its own.                                *)
Raise(r, op) ==
    /\ tries' = [tries EXCEPT ![r] = 0]
    /\ pc' = [pc EXCEPT ![r] = "idle"]
    /\ said' = [said EXCEPT ![r] =
        [kind |-> IF op = "remove" /\ settings.remove = "warn"
                  THEN "unknown" ELSE "raised",
         fields |-> {}]]

(* Nothing is read for what is cached, for a removal that was spoken of,   *)
(* for a pattern that leaves a required key open, or a misspelt query.     *)
Begin(r, op, s) ==
    /\ pc[r] = "idle"
    /\ lookups < MaxLookups
    /\ lookups' = lookups + 1
    /\ op = "glob" <=> s \in Pattern
    /\ op = "inventory" => caching /\ s.query \notin DOMAIN cache
    /\ op = "remove" => ~ caching /\ Speaks(s.query)
    /\ warned' = IF op = "remove" /\ settings.remove = "warn"
                 THEN warned \cup {s.query} ELSE warned
    /\ asked' = [asked EXCEPT ![r] = [op |-> op, about |-> s]]
    /\ due' = [due EXCEPT ![r] = {f \in FieldKey : stamp[f] > 0}]
    /\ begun' = [begun EXCEPT ![r] = clock]
    /\ IF IF op = "glob" THEN Unconstrained(s) # {} ELSE Misspelt(s.query)
       THEN Raise(r, op)
       ELSE /\ pc' = [pc EXCEPT ![r] = "read"]
            /\ said' = [said EXCEPT ![r] = Unanswered]
            /\ UNCHANGED tries
    /\ UNCHANGED <<worldVars, saw, toldVars>>

ReadWithKeptHandle(r) ==  \* mutant: a handle is opened once, its catalogue stays
    /\ pc[r] = "read"
    /\ saw' = [saw EXCEPT ![r] = [f \in FieldKey |->
        IF \E g \in FieldKey : saw[r][g] > 0 THEN saw[r][f]
        ELSE IF f \in hidden THEN 0 ELSE stamp[f]]]
    /\ pc' = [pc EXCEPT ![r] = "answer"]
    /\ tries' = [tries EXCEPT ![r] = 0]
    /\ UNCHANGED <<worldVars, askVars, said, toldVars>>

(* A read with a fresh handle.  FDB leaves out what is under a root it     *)
(* cannot read.                                                            *)
Read(r) ==
    /\ pc[r] = "read"
    /\ saw' = [saw EXCEPT ![r] =
                [f \in FieldKey |-> IF f \in hidden THEN 0 ELSE stamp[f]]]
    /\ pc' = [pc EXCEPT ![r] = "answer"]
    /\ tries' = [tries EXCEPT ![r] = 0]
    /\ UNCHANGED <<worldVars, askVars, said, toldVars>>

ReadRetriedOnceMore(r) ==  \* mutant: one attempt too many
    /\ "unknown" \in Faults
    /\ pc[r] = "read"
    /\ tries[r] < MaxAttempts
    /\ tries' = [tries EXCEPT ![r] = @ + 1]
    /\ UNCHANGED <<worldVars, askVars, pc, saw, said, toldVars>>

(* A failure that map_error does not know is retried.                      *)
ReadRetried(r) ==
    /\ "unknown" \in Faults
    /\ pc[r] = "read"
    /\ tries[r] + 1 < MaxAttempts
    /\ tries' = [tries EXCEPT ![r] = @ + 1]
    /\ UNCHANGED <<worldVars, askVars, pc, saw, said, toldVars>>

(* The read raises: a failure map_error knows, like FDB's own report of an *)
(* unreadable root, or the last attempt.                                   *)
ReadFails(r) ==
    /\ pc[r] = "read"
    /\ \/ "known" \in Faults \/ hidden # {}
       \/ "unknown" \in Faults /\ tries[r] + 1 = MaxAttempts
    /\ Raise(r, asked[r].op)
    /\ UNCHANGED <<worldVars, askVars, saw, toldVars>>

(* check_roots: a lookup that comes back short while a root is unreadable  *)
(* is an error.                                                            *)
RootsUnreadable(r) ==
    /\ asked[r].op # "glob"
    /\ Cardinality(Found(r)) < Expected(Query(r))
    /\ hidden # {}
LookupRaises(r) ==
    /\ pc[r] = "answer"
    /\ RootsUnreadable(r)
    /\ Raise(r, asked[r].op)
    /\ UNCHANGED <<worldVars, askVars, saw, toldVars>>

(* The answers: what is found is told, an inventory is cached (with the    *)
(* second its lookup began in, which is history), a glob hands out its     *)
(* candidates, and remove_policy=error raises whatever is found.           *)
Tells(r) ==
    /\ pc[r] = "answer"
    /\ ~ RootsUnreadable(r)
    /\ pc' = [pc EXCEPT ![r] = "idle"]
    /\ said' = [said EXCEPT ![r] = [kind |-> "told", fields |-> Found(r)]]
    /\ UNCHANGED <<worldVars, askVars, tries, saw>>

TellExists(r) ==
    /\ asked[r].op \in {"inventory", "exists"}
    /\ Tells(r)
    /\ known' = IF Complete(Query(r), Found(r)) THEN known \cup {Query(r)} ELSE known
    /\ cache' =
        IF asked[r].op # "inventory" THEN cache
        ELSE [q \in DOMAIN cache \cup {Query(r)} |->
                IF q # Query(r) THEN cache[q]
                ELSE [exists |-> Complete(q, Found(r)),
                      mtime |-> IF Complete(q, Found(r)) THEN Latest(r, Found(r)) ELSE 0,
                      begun |-> begun[r]]]
    /\ UNCHANGED listed

TellRemoved(r) ==
    /\ asked[r].op = "remove"
    /\ Tells(r)
    /\ known' = IF LooksComplete(Query(r), Found(r)) THEN known \cup {Query(r)} ELSE known
    /\ UNCHANGED <<cache, listed>>

TellListed(r) ==
    /\ asked[r].op = "glob"
    /\ Tells(r)
    /\ listed' = listed \cup Candidates(asked[r].about, Found(r))
    /\ UNCHANGED <<cache, known>>

-----------------------------------------------------------------------------
ReaderStep(r) ==
    \/ Read(r) \/ ReadRetried(r) \/ ReadFails(r) \/ LookupRaises(r)
    \/ TellExists(r) \/ TellRemoved(r) \/ TellListed(r)

LookupsNext ==
    \/ StoreMoves \/ RootLost \/ RootsBack \/ DagBuilt
    \/ \E r \in Reader :
        (\E op \in Op, s \in Subject : Begin(r, op, s)) \/ ReaderStep(r)

LookupsSpec == LookupsInit /\ [][LookupsNext]_allVars

-----------------------------------------------------------------------------
(* Properties.                                                             *)

(* Every variable of the read side has its type.                           *)
LookupsTypeOK ==
    /\ clock \in Nat \ {0}
    /\ stamp \in [FieldKey -> Nat]
    /\ hidden \subseteq FieldKey
    /\ settings \in Settings
    /\ caching \in BOOLEAN
    /\ DOMAIN cache \subseteq Output
    /\ \A q \in DOMAIN cache : cache[q] \in [exists : BOOLEAN, mtime : Nat, begun : Nat]
    /\ warned \subseteq Output
    /\ pc \in [Reader -> {"idle", "read", "answer"}]
    /\ asked \in [Reader -> Ask]
    /\ \A r \in Reader : IF asked[r].op = "glob" THEN asked[r].about \in Pattern
                          ELSE Query(r) \in Output
    /\ tries \in [Reader -> 0..(MaxAttempts - 1)]
    /\ saw \in [Reader -> [FieldKey -> Nat]]
    /\ said \in [Reader -> Answer]
    /\ due \in [Reader -> SUBSET FieldKey]
    /\ begun \in [Reader -> Nat]
    /\ known \subseteq Output
    /\ \A q \in listed : \A k \in DOMAIN q.vals : q.vals[k] \subseteq Spelling
    /\ lookups \in Nat /\ changes \in Nat

(* What exists, the inventory, api.exists or the text of remove called     *)
(* complete is complete and stays so: all fields the query names are in    *)
(* FDB and no later archive can take the answer back, so that Snakemake    *)
(* may cache it (FR-READ-001, FR-READ-009).  It rests on the fields that   *)
(* are counted being fields the query names.                               *)
KnownStaysComplete ==
    SchemaReadable =>
        \A q \in known : Expandable(q) =>
            /\ Cardinality(Named(q)) = Expected(q)
            /\ \A f \in Named(q) : f \in FieldKey /\ stamp[f] > 0

(* "See fields archived after an earlier read in the same process"         *)
(* (FR-READ-010, FR-ERR-004): an answer that is no error is about every    *)
(* field FDB had when the lookup began, those under unreadable roots too.  *)
(* Excepted are what a root repaired during the lookup hid, and globs      *)
(* (list is not followed by the check of the roots).                       *)
FreshAnswers ==
    SchemaReadable =>
        \A r \in Reader :
            said[r].kind = "told" /\ asked[r].op # "glob" /\ Expandable(Query(r))
                => {f \in due[r] : Counted(Query(r), f)} \subseteq said[r].fields

(* A stored input is found: when a store step has succeeded, a lookup that *)
(* begins later and finds every root readable says that its output exists  *)
(* (FR-READ-010, "an input stored by its producer").                       *)
StoredIsFound ==
    [][SchemaReadable =>
        \A r \in Reader : \A a \in accepted :
            (/\ TellExists(r) /\ Query(r) = a.query /\ Expandable(a.query)
             /\ Named(a.query) \subseteq due[r])
            => a.query \in known']_allVars

(* What the inventory cached stays true while it is used (FR-READ-009): a  *)
(* cached object is complete; its cached time is not later than its newest *)
(* field, and no field of it is newer but those archived since the second  *)
(* its lookup began in, so that no update of the object before goes        *)
(* unnoticed.                                                              *)
InventoryHolds ==
    SchemaReadable =>
        \A q \in DOMAIN cache : cache[q].exists /\ Expandable(q) =>
            /\ Cardinality(Named(q)) = Expected(q)
            /\ \A f \in Named(q) :
                /\ f \in FieldKey /\ stamp[f] > 0
                /\ stamp[f] <= cache[q].mtime \/ stamp[f] >= cache[q].begun
            /\ \E f \in Named(q) : stamp[f] >= cache[q].mtime

(* The combinations reported missing are as many as the report counts,     *)
(* E less the fields found, so that "(and k more)" and api.exists' list    *)
(* are right, if FDB indexes every key of the query.                       *)
ReportsAddUp ==
    MetkitAvailable /\ SchemaReadable =>
        \A r \in Reader :
            (/\ said[r].kind = "told" /\ asked[r].op # "glob"
             /\ DOMAIN Query(r).vals \subseteq IndexedKey)
            => Cardinality(Missing(Query(r), said[r].fields))
                    + Cardinality(said[r].fields) = Expected(Query(r))

(* The candidates of a glob are there: if the pattern names every key FDB  *)
(* indexes, fields of each can be found then and later, all of them if the *)
(* pattern's constants are single values the plugin can expand.            *)
ListedAreFound ==
    SchemaReadable =>
        \A q \in listed : DOMAIN q.vals = IndexedKey =>
            LET here == {f \in FieldKey : stamp[f] > 0 /\ Counted(q, f)}
            IN  /\ here # {}
                /\ /\ Expandable(q)
                   /\ \A k \in DOMAIN q.vals : Cardinality(q.vals[k]) = 1
                   => Complete(q, here)

(* With canonical_spelling=error, outputs called complete that stand for   *)
(* the same fields have the same values: no field gets a second local path *)
(* by its spelling (FR-SPELL-001); the order and repetition of values may  *)
(* still give it one (L-1).                                                *)
OneSpelling ==
    settings.spelling = "error" /\ MetkitAvailable =>
        \A q, p \in known :
            /\ q.ranged = {} /\ p.ranged = {}
            /\ [k \in DOMAIN q.vals |-> {Canonical[v] : v \in q.vals[k]}]
                    = [k \in DOMAIN p.vals |-> {Canonical[v] : v \in p.vals[k]}]
            => q.vals = p.vals

-----------------------------------------------------------------------------
(* What these rest on.  A catalogue is never ahead of FDB, nor FDB of its  *)
(* clock.                                                                  *)
CataloguesPast ==
    \A f \in FieldKey :
        /\ stamp[f] <= clock
        /\ \A r \in Reader : saw[r][f] <= stamp[f]

(* A field that is newer than a lookup saw it was archived after the       *)
(* lookup began.                                                           *)
NewerIsSince ==
    /\ \A r \in Reader :
        /\ begun[r] <= clock
        /\ pc[r] = "answer" => \A f \in FieldKey :
                saw[r][f] = 0 \/ stamp[f] = saw[r][f] \/ stamp[f] >= begun[r]
    /\ \A q \in DOMAIN cache : cache[q].begun <= clock

(* What FDB had when a lookup began is read, or is under a lost root.      *)
DueIsRead ==
    \A r \in Reader : \A f \in due[r] :
        /\ pc[r] = "read" => stamp[f] > 0
        /\ pc[r] = "answer" => saw[r][f] > 0 \/ f \in hidden

(* What was accepted is all the query names, as many as it counts.         *)
AcceptedCounts ==
    \A a \in accepted :
        a.query \in Output /\ Cardinality(Named(a.query)) = Expected(a.query)

(* Answers but those of globs are made of fields that count.               *)
AnswersCount ==
    \A r \in Reader : said[r].kind = "told" /\ asked[r].op # "glob"
        => \A f \in said[r].fields : Counted(Query(r), f)

(* Under canonical_spelling=error, only canonical queries get an answer.   *)
AnsweredSpelling ==
    /\ \A r \in Reader :
        pc[r] # "idle" /\ asked[r].op # "glob" => ~ Misspelt(Query(r))
    /\ \A q \in known : ~ Misspelt(q)

(* The inductive invariant of the read side.                               *)
LookupsInv ==
    /\ LookupsTypeOK /\ CataloguesPast /\ NewerIsSince /\ DueIsRead /\ AcceptedCounts
    /\ AnswersCount /\ AnsweredSpelling
    /\ KnownStaysComplete /\ FreshAnswers /\ InventoryHolds /\ ListedAreFound
=============================================================================
