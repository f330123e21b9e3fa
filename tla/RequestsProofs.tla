--------------------------- MODULE RequestsProofs ---------------------------
(***************************************************************************)
(* Lemmas about queries and fields, for every FDB schema: what counts for  *)
(* a query is a field it names, and the expansion never counts fewer       *)
(* combinations than the query names fields.                               *)
(***************************************************************************)
EXTENDS Requests, FiniteSetTheorems, TLAPS

(* A set of functions between finite sets is finite: each is its graph.    *)
LEMMA FunctionSetFinite ==
    ASSUME NEW D, IsFiniteSet(D), NEW V, IsFiniteSet(V)
    PROVE  IsFiniteSet([D -> V])
<1> DEFINE Graph(f) == {<<d, f[d]>> : d \in D}
           graphs == [f \in [D -> V] |-> Graph(f)]
<1>1. IsFiniteSet(SUBSET (D \X V))
    BY FS_Product, FS_SUBSET
<1>2. graphs \in [[D -> V] -> SUBSET (D \X V)]
    OBVIOUS
<1>3. ASSUME NEW f \in [D -> V], NEW g \in [D -> V], graphs[f] = graphs[g]
      PROVE  f = g
    <2>1. ASSUME NEW d \in D PROVE f[d] = g[d]
        <3>1. <<d, f[d]>> \in Graph(g)
            BY <1>3
        <3>. QED BY <3>1
    <2>. QED BY <2>1
<1>4. graphs \in Injection([D -> V], SUBSET (D \X V))
    BY <1>2, <1>3 DEF Injection, IsInjective
<1>. QED BY <1>1, <1>4, FS_Injection

(* A field key FDB indexes, seen as a function.                            *)
LEMMA FieldKeyFunction ==
    ASSUME NEW f \in FieldKey
    PROVE  /\ DOMAIN f \subseteq IndexedKey
           /\ f \in [DOMAIN f -> Spelling]
BY DEF FieldKey, Labels

(* With a schema the plugin can read, what counts for a query is one of    *)
(* the fields the query names.                                             *)
LEMMA CountedIsNamed ==
    ASSUME SchemaReadable, NEW q, NEW f \in FieldKey, Counted(q, f)
    PROVE  f \in Named(q)
<1>1. DOMAIN f = DOMAIN q.vals \cap IndexedKey
    BY FieldKeyFunction DEF Counted, Matched, IndexedKeys
<1>. QED BY <1>1, FieldKeyFunction DEF Named, Counted, Matched

(* The expansion of a query has at least as many combinations as the query *)
(* names fields: several combinations may be one field (a key FDB does not *)
(* index, two spellings of a value), never the other way round.            *)
LEMMA NamedAtMostExpected ==
    ASSUME NEW q, IsQuery(q), Expandable(q)
    PROVE  /\ IsFiniteSet(Named(q))
           /\ Expected(q) \in Nat
           /\ Cardinality(Named(q)) <= Expected(q)
<1> DEFINE Field(c) == [k \in DOMAIN q.vals \cap IndexedKey |-> Canonical[c[k]]]
           fields == [c \in Combinations(q) |-> Field(c)]
<1>a. /\ DOMAIN q.vals \subseteq Key
      /\ \A k \in DOMAIN q.vals : q.vals[k] # {} /\ q.vals[k] \subseteq Spelling
    BY RequestsAssumption DEF IsQuery
<1>1. IsFiniteSet(Combinations(q))
    <2>1. IsFiniteSet([DOMAIN q.vals -> Spelling])
        BY <1>a, RequestsAssumption, FS_Subset, FunctionSetFinite
    <2>. QED BY <2>1, FS_Subset DEF Combinations
<1>2. ASSUME NEW c \in Combinations(q) PROVE Field(c) \in Named(q)
    <2>1. ASSUME NEW k \in DOMAIN q.vals
          PROVE  /\ Canonical[c[k]] \in Spelling
                 /\ Canonical[c[k]] \in {Canonical[v] : v \in q.vals[k]}
        <3>1. c[k] \in Spelling /\ c[k] \in Expanded(q)[k]
            BY DEF Combinations
        <3>2. c[k] \in q.vals[k] \/ \E v \in q.vals[k] : c[k] = Canonical[v]
            BY <3>1 DEF Expanded, Expansion, Expandable
        <3>. QED BY <1>a, <3>1, <3>2, RequestsAssumption
    <2>. QED BY <2>1 DEF Named
<1>3. ASSUME NEW f \in Named(q) PROVE \E c \in Combinations(q) : Field(c) = f
    <2> DEFINE Origins(k) == {v \in Expanded(q)[k] :
                                 k \in IndexedKey => Canonical[v] = f[k]}
               c == [k \in DOMAIN q.vals |-> CHOOSE v \in Origins(k) : TRUE]
    <2>1. ASSUME NEW k \in DOMAIN q.vals PROVE Origins(k) # {} /\ Origins(k) \subseteq Spelling
        <3>1. PICK v \in q.vals[k] : k \in IndexedKey => Canonical[v] = f[k]
            BY <1>a DEF Named
        <3>2. v \in Spelling /\ Canonical[v] \in Spelling /\ Canonical[Canonical[v]] = Canonical[v]
            BY <1>a, RequestsAssumption
        <3>3. v \in Expanded(q)[k] \/ Canonical[v] \in Expanded(q)[k]
            BY DEF Expanded, Expansion, Expandable
        <3>4. Expanded(q)[k] \subseteq Spelling
            BY <1>a, RequestsAssumption DEF Expanded, Expansion, Expandable
        <3>. QED BY <3>1, <3>2, <3>3, <3>4
    <2>2. ASSUME NEW k \in DOMAIN q.vals
          PROVE  c[k] \in Expanded(q)[k] /\ c[k] \in Spelling
                 /\ (k \in IndexedKey => Canonical[c[k]] = f[k])
        BY <2>1
    <2>3. c \in Combinations(q)
        BY <2>2 DEF Combinations
    <2>4. Field(c) = f
        BY <2>2 DEF Named
    <2>. QED BY <2>3, <2>4
<1>4. fields \in Surjection(Combinations(q), Named(q))
    BY <1>2, <1>3 DEF Surjection
<1>5. /\ IsFiniteSet(Named(q))
      /\ Cardinality(Named(q)) <= Cardinality(Combinations(q))
    BY <1>1, <1>4, FS_Surjection
<1>6. Cardinality(Combinations(q)) \in Nat
    BY <1>1, FS_CardinalityType
<1>. QED BY <1>5, <1>6 DEF Expected

(* The pigeonhole of every completeness check: as many counted fields as   *)
(* the expansion has combinations are all the fields the query names, and  *)
(* then the two counts are equal.                                          *)
LEMMA CountingSuffices ==
    ASSUME SchemaReadable, NEW q, IsQuery(q), Expandable(q),
           NEW F \in SUBSET FieldKey, \A f \in F : Counted(q, f),
           Cardinality(F) >= Expected(q)
    PROVE  F = Named(q) /\ Cardinality(Named(q)) = Expected(q)
<1>1. F \subseteq Named(q)
    BY CountedIsNamed
<1>2. /\ IsFiniteSet(Named(q))
      /\ Expected(q) \in Nat
      /\ Cardinality(Named(q)) <= Expected(q)
    BY NamedAtMostExpected
<1>3. /\ Cardinality(F) <= Cardinality(Named(q))
      /\ Cardinality(Named(q)) = Cardinality(F) => Named(q) = F
      /\ Cardinality(Named(q)) \in Nat /\ Cardinality(F) \in Nat
    BY <1>1, <1>2, FS_Subset, FS_CardinalityType
<1>. QED BY <1>2, <1>3

(* A query expands to one combination at least.                            *)
LEMMA ExpectedPositive ==
    ASSUME NEW q, IsQuery(q), Expandable(q)
    PROVE  Expected(q) > 0
<1> DEFINE c == [k \in DOMAIN q.vals |-> CHOOSE v \in Expanded(q)[k] : TRUE]
<1>1. ASSUME NEW k \in DOMAIN q.vals
      PROVE  Expanded(q)[k] # {} /\ Expanded(q)[k] \subseteq Spelling
    BY RequestsAssumption DEF IsQuery, Expanded, Expansion, Expandable
<1>2. c \in Combinations(q)
    BY <1>1 DEF Combinations
<1>3. IsFiniteSet(Combinations(q))
    <2>1. IsFiniteSet([DOMAIN q.vals -> Spelling])
        BY RequestsAssumption, FS_Subset, FunctionSetFinite DEF IsQuery
    <2>. QED BY <2>1, FS_Subset DEF Combinations
<1>. HIDE DEF c
<1>. QED BY <1>2, <1>3, FS_EmptySet, FS_CardinalityType DEF Expected

(* The fields a query names count for it, if FDB has them.                 *)
LEMMA NamedIsCounted ==
    ASSUME NEW q, NEW f \in Named(q)
    PROVE  Counted(q, f)
BY DEF Named, Counted, Matched, IndexedKeys

(* If FDB indexes every key of a query, the combinations of its expansion  *)
(* by metkit are the fields it names.                                      *)
LEMMA CombinationsAreFields ==
    ASSUME MetkitAvailable, NEW q, DOMAIN q.vals \subseteq IndexedKey
    PROVE  Combinations(q) = Named(q)
<1>1. DOMAIN q.vals \cap IndexedKey = DOMAIN q.vals
    OBVIOUS
<1>. QED BY <1>1 DEF Combinations, Named, Expanded, Expansion
=============================================================================
