------------------------------ MODULE LocalPath ------------------------------
(***************************************************************************)
(* Local paths of queries (query.local_suffix, query_of_path) and the      *)
(* objects Snakemake makes of them: a query of the Snakefile is normalised *)
(* and recorded, its path is matched with requested paths or substituted,  *)
(* and the object of a job is built from the substituted query without     *)
(* being normalised again.  A text is a sequence of tokens of one byte     *)
(* each: atoms, of which values consist, wildcards, keys ("step=") and     *)
(* the reserved "/", "+", "~" and ".grib".                                 *)
(***************************************************************************)
EXTENDS Naturals, Sequences, SequencesExt, FiniteSets

CONSTANTS
    KeyOrder,     \* the provider's keys in canonical order: <<"class=", ...>>
    Atom,         \* characters of values
    Wildcard,     \* wildcard tokens: "{s}"
    Written,      \* the queries of the Snakefile: sequences of <<key, value>>
    Digest(_),    \* the hash of a value, as one token: its digits are atoms
    NAME_MAX,     \* bytes of a path component
    Prefix,       \* the components of the local prefix
    Values,       \* wildcard values that do not come from a path of the plugin
    MaxObjects    \* bound on the objects

SUFFIX == ".grib"
HASH_MARK == "~"
Keys == Range(KeyOrder)
Token == Keys \cup Atom \cup Wildcard \cup {"/", "+", HASH_MARK, SUFFIX}

ASSUME PathAssumption ==
    /\ KeyOrder \in Seq(STRING) /\ IsInjective(KeyOrder)
    /\ Keys \cap {"/", "+", HASH_MARK, SUFFIX} = {}
    /\ \A S \in {Atom, Wildcard} : S \cap (Keys \cup {"/", "+", HASH_MARK, SUFFIX}) = {}
    /\ Atom \cap Wildcard = {}
    /\ NAME_MAX \in Nat /\ MaxObjects \in Nat
    /\ Prefix \in Seq(Seq(STRING)) \ {<<>>}
    /\ \A i \in DOMAIN Prefix : Head(Prefix[i]) \notin Keys
    /\ Values \subseteq Seq(Atom) \ {<<>>}
    /\ \A pairs \in Written : \A i \in DOMAIN pairs : Digest(pairs[i][2]) \in Atom

VARIABLES
    normalised,   \* _normalised: the queries postprocess_query returned
    objects       \* storage objects with the path of Snakemake's file

vars == <<normalised, objects>>

-----------------------------------------------------------------------------
(* The grammar.  A query is a function from its keys to values; its text   *)
(* lists the pairs in KeyOrder.                                            *)

IsValue(v) ==
    /\ v \in Seq(Atom \cup Wildcard \cup {"/"}) \ {<<>>}
    /\ Head(v) # "/" /\ Last(v) # "/"
    /\ \A i \in 1..(Len(v) - 1) : v[i] # "/" \/ v[i + 1] # "/"

IsQuery(q) == DOMAIN q # {} /\ DOMAIN q \subseteq Keys /\ \A k \in DOMAIN q : IsValue(q[k])

(* parse and normalize: pairs in any order, each key once.                 *)
Parses(pairs) ==
    /\ DOMAIN pairs # {}
    /\ \A i, j \in DOMAIN pairs : pairs[i][1] = pairs[j][1] => i = j
    /\ \A i \in DOMAIN pairs : pairs[i][1] \in Keys /\ IsValue(pairs[i][2])
Normalize(pairs) ==
    [k \in {pairs[i][1] : i \in DOMAIN pairs} |->
        pairs[CHOOSE i \in DOMAIN pairs : pairs[i][1] = k][2]]

KeysOf(q) ==
    FlattenSeq([i \in DOMAIN KeyOrder |->
        IF KeyOrder[i] \in DOMAIN q THEN <<KeyOrder[i]>> ELSE <<>>])
HasWildcard(v) == Range(v) \cap Wildcard # {}
WildcardsOf(q) == UNION {Range(q[k]) \cap Wildcard : k \in DOMAIN q}

-----------------------------------------------------------------------------
(* The local path: a sequence of components.                               *)

Replace(text, old, new) == [i \in DOMAIN text |-> IF text[i] = old THEN new ELSE text[i]]
Joined(v) == Replace(v, "/", "+")
Split(text) == Replace(text, "+", "/")

Component(q, k) ==
    <<k>> \o Joined(q[k]) \o IF k = Last(KeysOf(q)) THEN <<SUFFIX>> ELSE <<>>
Oversized(q) == {k \in DOMAIN q : Len(Component(q, k)) > NAME_MAX}

HashedUnmarked(q, k) ==  \* mutant: no mark before the digest
    <<k, Digest(q[k])>> \o IF k = Last(KeysOf(q)) THEN <<SUFFIX>> ELSE <<>>
Hashed(q, k) ==
    <<k, HASH_MARK, Digest(q[k])>> \o IF k = Last(KeysOf(q)) THEN <<SUFFIX>> ELSE <<>>
(* A long component with a wildcard is an error, and so is one that is too *)
(* long when it is hashed.                                                 *)
HasSuffix(q) ==
    \A k \in Oversized(q) : ~ HasWildcard(q[k]) /\ Len(Hashed(q, k)) <= NAME_MAX
LocalSuffix(q) ==
    [i \in DOMAIN KeysOf(q) |->
        LET k == KeysOf(q)[i]
        IN  IF k \in Oversized(q) THEN Hashed(q, k) ELSE Component(q, k)]

(* The file name Snakemake sees.                                           *)
FileName(components) ==
    FlattenSeq([i \in DOMAIN components |->
        IF i = 1 THEN components[i] ELSE <<"/">> \o components[i]])

(* query_of_path: {} for a QueryError.  The prefix ends at the last part   *)
(* that is not key=value.                                                  *)
NoQuery == {}
IsPair(part) == Len(part) > 1 /\ Head(part) \in Keys
Cut(parts) == [parts EXCEPT ![Len(parts)] = Front(@)]
FirstPair(cut) ==
    CHOOSE i \in 1..Len(cut) :
        /\ \A j \in i..Len(cut) : IsPair(cut[j])
        /\ i = 1 \/ ~ IsPair(cut[i - 1])
PairsFrom(cut, i) ==
    [j \in 1..(Len(cut) - i + 1) |->
        <<Head(cut[i + j - 1]), Split(Tail(cut[i + j - 1]))>>]
QueryOfPath(parts) ==
    LET cut == Cut(parts)
        pairs == PairsFrom(cut, FirstPair(cut))
    IN  IF \/ parts = <<>> \/ Last(Last(parts)) # SUFFIX \/ ~ IsPair(Last(cut))
           \/ ~ Parses(pairs)
        THEN NoQuery
        ELSE {Normalize(pairs)}

-----------------------------------------------------------------------------
Init == normalised = {} /\ objects = {}

(* storage.fdb(...) in the Snakefile or in an input function: the query is *)
(* normalised and recorded, its object made.                               *)
Declare(pairs) ==
    /\ Parses(pairs)
    /\ normalised' = normalised \cup {Normalize(pairs)}
    /\ Cardinality(objects) < MaxObjects
    /\ objects' = IF HasSuffix(Normalize(pairs))
                  THEN objects \cup {[query |-> Normalize(pairs),
                                      file |-> FileName(LocalSuffix(Normalize(pairs)))]}
                  ELSE objects

(* apply_wildcards on a text.                                              *)
Substituted(text, w) ==
    FlattenSeq([i \in DOMAIN text |->
        IF text[i] \in DOMAIN w THEN w[text[i]] ELSE <<text[i]>>])

(* Wildcard values: what a regular expression may match of a requested     *)
(* path, and others.                                                       *)
Parts(file) == {SubSeq(file, i, j) : i, j \in DOMAIN file} \ {<<>>}
Bindings(o) ==
    LET names == WildcardsOf(o.query)
    IN  [names -> Values]
          \cup UNION {{w \in [names -> Parts(r.file)] : Substituted(o.file, w) = r.file} :
                      r \in {x \in objects : WildcardsOf(x.query) = {}}}

AcceptedUnguarded(q) == HasSuffix(q)  \* mutant: long substituted values are hashed
(* The constructor: a query that was not recorded must not need a hash.    *)
Accepted(q) == HasSuffix(q) /\ (q \in normalised \/ Oversized(q) = {})

(* Snakemake builds the object of a job; a query that is not valid or not  *)
(* accepted is an error.                                                   *)
Apply(o) ==
    /\ Cardinality(objects) < MaxObjects
    /\ WildcardsOf(o.query) # {}
    /\ \E w \in Bindings(o) :
        LET q == [k \in DOMAIN o.query |-> Substituted(o.query[k], w)]
        IN  /\ IsQuery(q)
            /\ Accepted(q)
            /\ objects' = objects \cup {[query |-> q, file |-> Substituted(o.file, w)]}
    /\ UNCHANGED normalised

Next == (\E pairs \in Written : Declare(pairs)) \/ (\E o \in objects : Apply(o))

Spec == Init /\ [][Next]_vars

-----------------------------------------------------------------------------
(* Properties.                                                             *)

Constant == {o \in objects : WildcardsOf(o.query) = {}}

(* Commutation with wildcard substitution (FR-PATH-002): the path of a     *)
(* job's object is the file name Snakemake got by substituting in the      *)
(* pattern's path, wherever the wildcard values come from, unless the same *)
(* query, with a component that is hashed, was also declared without       *)
(* wildcards.                                                              *)
PathsCommuteUnlessDeclared ==
    \A o \in objects :
        o.file # FileName(LocalSuffix(o.query)) =>
            o.query \in normalised /\ Oversized(o.query) # {}

(* A job finds the query of an output in its path (api.query_of), unless a *)
(* component is hashed, behind any prefix: the text its store step         *)
(* compares the marker's with.  So different queries never share a local   *)
(* file, as long as their hashes differ.                                   *)
PathTellsQuery ==
    \A o \in Constant :
        QueryOfPath(Prefix \o LocalSuffix(o.query)) =
            IF Oversized(o.query) = {} THEN {o.query} ELSE NoQuery
=============================================================================
