------------------------------ MODULE Requests ------------------------------
(***************************************************************************)
(* The data every part of the plugin reasons about: FDB's schema, field    *)
(* keys, queries, GRIB messages, and the pure functions the store and read *)
(* paths apply to them.  A value is a spelling ("0", "0m"); Canonical is   *)
(* metkit's canonical form and Comparable the plugin's own light           *)
(* normalisation.  A query gives each of its keys a set of values; a field *)
(* key and a message are partial functions from keys to values.            *)
(***************************************************************************)
EXTENDS Naturals, Sequences, FiniteSets

CONSTANTS
    Key,              \* MARS keys
    Spelling,         \* the spellings of their values
    ValuesOf,         \* [Key -> SUBSET Spelling]: the values a key may take
    Canonical,        \* [Spelling -> Spelling]: metkit's canonical spelling
    Comparable,       \* [Spelling -> Spelling]: one spelling per comparable()
    KindOf,           \* [Spelling -> {"int", "str", "none"}]: its result type
    SchemaKey,        \* the keys of FDB's schema rule
    RemovedKey,       \* ... those marked key-
    OptionalKey,      \* ... those marked key?
    SchemaReadable,   \* whether the plugin could read the schema
    MetkitAvailable,  \* whether metkit's request expansion is available
    ArchiveMode       \* "native" or "identifier"

(* Partial functions from some of the keys in D to values.                 *)
Labels(D) == UNION {[K -> Spelling] : K \in SUBSET D}

Message == {m \in Labels(Key) : \A k \in DOMAIN m : m[k] \in ValuesOf[k]}

(* A query: the values each key lists, the keys written as to/by, and, of  *)
(* those the plugin cannot expand without metkit (module Expand), the      *)
(* items of the text.                                                      *)
IsQuery(q) ==
    /\ DOMAIN q = {"vals", "ranged", "verbatim"}
    /\ DOMAIN q.vals \subseteq Key
    /\ q.vals \in [DOMAIN q.vals -> SUBSET Spelling]
    /\ \A k \in DOMAIN q.vals : q.vals[k] # {} /\ q.vals[k] \subseteq ValuesOf[k]
    /\ q.ranged \subseteq DOMAIN q.vals
    /\ DOMAIN q.verbatim \subseteq q.ranged
    /\ \A k \in DOMAIN q.verbatim :
        q.verbatim[k] # {} /\ q.verbatim[k] \subseteq Spelling

ASSUME RequestsAssumption ==
    /\ IsFiniteSet(Key) /\ IsFiniteSet(Spelling)
    /\ ValuesOf \in [Key -> SUBSET Spelling]
    /\ Canonical \in [Spelling -> Spelling]
    /\ \A v \in Spelling : Canonical[Canonical[v]] = Canonical[v]
    /\ Comparable \in [Spelling -> Spelling]
    /\ KindOf \in [Spelling -> {"int", "str", "none"}]
    /\ SchemaKey \subseteq Key
    /\ RemovedKey \subseteq SchemaKey
    /\ OptionalKey \subseteq SchemaKey
    /\ SchemaReadable \in BOOLEAN
    /\ MetkitAvailable \in BOOLEAN
    /\ ArchiveMode \in {"native", "identifier"}

-----------------------------------------------------------------------------
(* What FDB indexes.                                                       *)

(* The keys a field key can have: the rule keys not marked key-.           *)
IndexedKey == SchemaKey \ RemovedKey
MandatoryKey == IndexedKey \ OptionalKey

FieldKey ==
    {f \in Labels(IndexedKey) :
        /\ MandatoryKey \subseteq DOMAIN f
        /\ \A k \in DOMAIN f : f[k] \in {Canonical[v] : v \in ValuesOf[k]}}

(* inspect and retrieve: the field has no key the query lacks, and its     *)
(* values are among the query's.  Query keys the field lacks are matched   *)
(* through.                                                                *)
Matched(q, f) ==
    /\ DOMAIN f \subseteq DOMAIN q.vals
    /\ \A k \in DOMAIN f : f[k] \in {Canonical[v] : v \in q.vals[k]}

(* The fields the query names: one for each choice of values of the keys   *)
(* FDB indexes.                                                            *)
Named(q) ==
    {f \in [DOMAIN q.vals \cap IndexedKey -> Spelling] :
        \A k \in DOMAIN f : f[k] \in {Canonical[v] : v \in q.vals[k]}}

-----------------------------------------------------------------------------
(* The read helpers.                                                       *)

(* The expanded request: metkit's canonical values, or the values as       *)
(* written when metkit's expansion is unavailable.                         *)
Expansion(q, metkit) ==
    [k \in DOMAIN q.vals |->
        IF metkit THEN {Canonical[v] : v \in q.vals[k]}
        ELSE IF k \in DOMAIN q.verbatim THEN q.verbatim[k]
        ELSE q.vals[k]]
Expanded(q) == Expansion(q, MetkitAvailable)
Expandable(q) == MetkitAvailable \/ DOMAIN q.verbatim = {}

Combinations(q) ==
    {c \in [DOMAIN q.vals -> Spelling] :
        \A k \in DOMAIN c : c[k] \in Expanded(q)[k]}

(* E, the expected field count.                                            *)
Expected(q) == Cardinality(Combinations(q))

IndexedKeysWithRemoved(q) ==  \* mutant: keys marked key- are asked for too
    IF SchemaReadable THEN DOMAIN q.vals \cap SchemaKey ELSE {}

(* Query keys a field must carry to count; none without a schema.          *)
IndexedKeys(q) ==
    IF SchemaReadable THEN DOMAIN q.vals \cap IndexedKey ELSE {}

CountedThrough(q, f) == Matched(q, f)  \* mutant: no check of the field's keys
(* Whether an inspected field counts for the query.                        *)
Counted(q, f) == Matched(q, f) /\ IndexedKeys(q) \subseteq DOMAIN f

-----------------------------------------------------------------------------
(* The checks of archive_messages, from the messages and the query alone.  *)

(* Keys whose query values a message value is compared with: constant,     *)
(* without to/by, all comparable and of one kind.                          *)
AllowedKeys(q) ==
    {k \in DOMAIN q.vals \ q.ranged :
        \E kind \in {"int", "str"} : \A v \in q.vals[k] : KindOf[v] = kind}

(* The message carries a comparable value of the same kind that the query  *)
(* does not list.                                                          *)
Contradicts(q, m) ==
    \E k \in AllowedKeys(q) \cap DOMAIN m :
        \A v \in q.vals[k] :
            KindOf[m[k]] = KindOf[v] /\ Comparable[m[k]] # Comparable[v]

(* Query keys with one literal value, spelled as in the expansion.         *)
SingleKeys(q) ==
    {k \in DOMAIN q.vals \ q.ranged : Cardinality(q.vals[k]) = 1}
SingleValue(q, k) == CHOOSE v \in Expanded(q)[k] : TRUE

(* The keys of an identifier, and those of them nothing gives a value to.  *)
IdentifierKeys(q, m) ==
    IF SchemaReadable THEN IndexedKey ELSE DOMAIN q.vals \cup DOMAIN m
Undetermined(q, m) ==
    IdentifierKeys(q, m)
        \ (SingleKeys(q) \cup DOMAIN m
            \cup (IF SchemaReadable THEN OptionalKey ELSE {}))
Identifier(q, m) ==
    [k \in IdentifierKeys(q, m) \cap (SingleKeys(q) \cup DOMAIN m) |->
        IF k \in SingleKeys(q) THEN SingleValue(q, k) ELSE m[k]]

(* The keys a message is archived under, as duplicates are told apart.     *)
Keyed(q, m) == IF ArchiveMode = "identifier" THEN Identifier(q, m) ELSE m

(* Nothing is archived if a message's keys, an identifier or a duplicate   *)
(* is wrong (or, as module StoreStep adds, the count).                     *)
Misfits(q, msgs) ==
    \/ \E i \in DOMAIN msgs : Contradicts(q, msgs[i])
    \/ /\ ArchiveMode = "identifier"
       /\ \E i \in DOMAIN msgs : Undetermined(q, msgs[i]) # {}
    \/ /\ ArchiveMode = "native"
       /\ \E i \in DOMAIN msgs : ~ IndexedKeys(q) \subseteq DOMAIN msgs[i]
    \/ \E i, j \in DOMAIN msgs : i # j /\ Keyed(q, msgs[i]) = Keyed(q, msgs[j])

-----------------------------------------------------------------------------
(* What FDB does with an archived message.                                 *)

(* FDB rejects keys the schema does not use and a missing mandatory key.   *)
SchemaAccepts(keys) ==
    DOMAIN keys \subseteq SchemaKey /\ MandatoryKey \subseteq DOMAIN keys

(* The field keys become: FDB keeps the indexed ones, canonically.         *)
AsField(keys) == [k \in DOMAIN keys \cap IndexedKey |-> Canonical[keys[k]]]
=============================================================================
