---------------------------- MODULE InputsProofs -----------------------------
(***************************************************************************)
(* What a job gets of its inputs: the file or the stream a retrieval makes *)
(* of a query, for every set of fields, every order of their archiving and *)
(* every fault, and the rerun when the inputs changed, for every set of    *)
(* queries, every history of edits and whatever a process can expand.      *)
(***************************************************************************)
EXTENDS Retrieve, Rerun, FiniteSetTheorems, WellFoundedInduction, TLAPS


-----------------------------------------------------------------------------
(* A read of FDB holds one message of every field FDB has.                 *)
LEMMA SnapshotType ==
    ASSUME TypeOK, NEW S \in SUBSET All
    PROVE  /\ Snapshot(S) \in Content
           /\ \A d, e \in Snapshot(S) : d[1] = e[1] => d = e
           /\ \A f \in S : version[f] > 0 => <<f, version[f]>> \in Snapshot(S)
<1>1. \A f \in S : version[f] \in 0..MaxVersion
    BY DEF TypeOK
<1>2. Snapshot(S) \in Content
    BY <1>1, RetrieveAssumption DEF Snapshot, Content
<1>3. \A e \in Snapshot(S) : e = <<e[1], version[e[1]]>>
    BY DEF Snapshot
<1>. QED BY <1>2, <1>3 DEF Snapshot

(* Messages of different fields are counted like the fields.               *)
LEMMA CountOfFields ==
    ASSUME NEW F, IsFiniteSet(F), NEW G, G \subseteq F \X Nat,
           \A d, e \in G : d[1] = e[1] => d = e
    PROVE  /\ IsFiniteSet({e[1] : e \in G})
           /\ Cardinality(G) = Cardinality({e[1] : e \in G})
<1>. DEFINE D == {e[1] : e \in G}
            first == [e \in G |-> e[1]]
<1>1. D \in SUBSET F
    OBVIOUS
<1>2. IsFiniteSet(D)
    BY <1>1, FS_Subset
<1>3. first \in Injection(G, D)
    BY DEF Injection, IsInjective
<1>4. first \in Surjection(G, D)
    BY DEF Surjection
<1>. QED BY <1>2, <1>3, <1>4, FS_Injection

(* A lookup that found as many fields as the query names found all.        *)
LEMMA CompleteLookup ==
    ASSUME TypeOK, Cardinality(Snapshot(Field)) = Cardinality(Field)
    PROVE  \A f \in Field : version[f] > 0 /\ \E d \in Snapshot(Field) : d[1] = f
<1>. DEFINE G == Snapshot(Field)
            D == {e[1] : e \in G}
<1>1. /\ G \in Content
      /\ \A d, e \in G : d[1] = e[1] => d = e
    BY SnapshotType DEF All
<1>2. G \subseteq Field \X Nat
    BY <1>1 DEF Snapshot, Content
<1>3. Cardinality(G) = Cardinality(D)
    BY <1>1, <1>2, RetrieveAssumption, CountOfFields
<1>4. D \in SUBSET Field
    BY <1>2
<1>5. D = Field
    BY <1>3, <1>4, RetrieveAssumption, FS_Subset
<1>6. \A e \in G : version[e[1]] > 0
    BY DEF Snapshot
<1>. QED BY <1>5, <1>6

-----------------------------------------------------------------------------
(* The inductive invariant.                                                *)

LEMMA InitRetrieveInv == Init => RetrieveInv
<1>. SUFFICES ASSUME Init PROVE RetrieveInv
    OBVIOUS
<1>1. version \in [All -> 0..MaxVersion]
    BY RetrieveAssumption DEF Init
<1>2. pc \in {"idle", "lookup", "open", "copy", "check", "done", "failed"} /\ mode \in {"file", "stream"}
    BY RetrieveAssumption DEF Init
<1>3. /\ found \in Content /\ view \in Content
      /\ part \in Content \cup {NoFile} /\ dest \in Content \cup {NoFile}
    BY DEF Init, Content
<1>4. killed \in BOOLEAN
    BY DEF Init
<1>5. tries \in 0..(MaxAttempts - 1)
    BY RetrieveAssumption DEF Init
<1>6. writes \in 0..MaxWrites /\ runs \in 0..MaxRuns
    BY RetrieveAssumption DEF Init
<1>. QED BY <1>1, <1>2, <1>3, <1>4, <1>5, <1>6
         DEF TypeOK, Init, RetrieveInv, LookupComplete, ViewOfFDB, StreamCounted, NoPartLeft

(* The end of an attempt leaves no part file and counts its failures.      *)
LEMMA AttemptFailsInv ==
    ASSUME RetrieveInv, pc \in {"copy", "check"}, NEW transient \in BOOLEAN,
           AttemptFails(transient),
           UNCHANGED <<version, mode, found, view, dest, killed, writes, runs>>
    PROVE  RetrieveInv'
<1>1. TypeOK'
    BY RetrieveAssumption DEF RetrieveInv, AttemptFails, TypeOK, All, Content
<1>2. LookupComplete'
    BY DEF RetrieveInv, AttemptFails, LookupComplete, All
<1>. QED BY <1>1, <1>2 DEF RetrieveInv, AttemptFails, ViewOfFDB, StreamCounted, NoPartLeft

LEMMA NextRetrieveInv == RetrieveInv /\ [Next]_vars => RetrieveInv'
<1>. SUFFICES ASSUME RetrieveInv, [Next]_vars PROVE RetrieveInv'
    OBVIOUS
<1>. USE DEF RetrieveInv
<1>1. CASE Rearchive
    <2>1. PICK S \in SUBSET All \ {{}} :
            /\ \A f \in S : version[f] < MaxVersion
            /\ version' = [f \in All |-> IF f \in S THEN version[f] + 1 ELSE version[f]]
        BY <1>1 DEF Rearchive
    <2>2. \A f \in All : version[f] \in 0..MaxVersion
        BY DEF TypeOK
    <2>3. \A f \in All : version'[f] \in 0..MaxVersion /\ version'[f] >= version[f]
        BY <2>1, <2>2, RetrieveAssumption
    <2>4. version' \in [All -> 0..MaxVersion]
        BY <2>1, <2>3
    <2>5. TypeOK'
        BY <1>1, <2>4, RetrieveAssumption DEF Rearchive, TypeOK
    <2>6. LookupComplete'
        BY <1>1, <2>2, <2>3, RetrieveAssumption DEF Rearchive, LookupComplete, All
    <2>. QED BY <1>1, <2>5, <2>6 DEF Rearchive, ViewOfFDB, StreamCounted, NoPartLeft
<1>2. CASE Start
    BY <1>2, RetrieveAssumption
       DEF Start, TypeOK, LookupComplete, ViewOfFDB, StreamCounted, NoPartLeft
<1>3. CASE Lookup
    <2>1. Snapshot(Field) \in Content
        BY SnapshotType DEF All
    <2>2. TypeOK'
        BY <1>3, <2>1, RetrieveAssumption DEF Lookup, TypeOK
    <2>3. LookupComplete'
        BY <1>3, CompleteLookup DEF Lookup, LookupComplete
    <2>. QED BY <1>3, <2>2, <2>3 DEF Lookup, ViewOfFDB, StreamCounted, NoPartLeft
<1>4. CASE LookupFails
    BY <1>4, RetrieveAssumption
       DEF LookupFails, TypeOK, LookupComplete, ViewOfFDB, StreamCounted, NoPartLeft
<1>5. CASE Open
    <2>1. /\ view' \in Content
          /\ \A d, e \in view' : d[1] = e[1] => d = e
          /\ \A f \in All : version[f] > 0 => <<f, version[f]>> \in view'
        BY <1>5, SnapshotType DEF Open
    <2>2. TypeOK'
        BY <1>5, <2>1 DEF Open, TypeOK, Content
    <2>3. ASSUME NEW f \in Field
          PROVE  \E v \in 1..MaxVersion : <<f, v>> \in view'
        <3>1. f \in All /\ version[f] \in 0..MaxVersion
            BY DEF TypeOK, All
        <3>2. version[f] > 0
            BY <1>5 DEF Open, LookupComplete
        <3>3. version[f] \in 1..MaxVersion
            BY <3>1, <3>2, RetrieveAssumption
        <3>. QED BY <2>1, <3>1, <3>2, <3>3
    <2>. QED BY <1>5, <2>1, <2>2, <2>3
             DEF Open, LookupComplete, ViewOfFDB, StreamCounted, NoPartLeft
<1>6. CASE Copy
    <2>1. PICK e \in view \ part : part' = part \cup {e}
        BY <1>6 DEF Copy
    <2>2. part' \in SUBSET view
        BY <1>6, <2>1 DEF Copy, ViewOfFDB
    <2>3. TypeOK'
        BY <1>6, <2>2 DEF Copy, TypeOK, Content
    <2>. QED BY <1>6, <2>2, <2>3
             DEF Copy, LookupComplete, ViewOfFDB, StreamCounted, NoPartLeft
<1>7. CASE CopyDone
    BY <1>7 DEF CopyDone, TypeOK, LookupComplete, ViewOfFDB, StreamCounted, NoPartLeft
<1>8. CASE ReadFails
    BY <1>8, AttemptFailsInv DEF ReadFails
<1>9. CASE BytesDiffer
    BY <1>9, AttemptFailsInv DEF BytesDiffer
<1>10. CASE Replace
    <2>1. part \in Content
        BY <1>10 DEF Replace, ViewOfFDB, TypeOK, Content
    <2>2. TypeOK'
        BY <1>10, <2>1 DEF Replace, TypeOK
    <2>. QED BY <1>10, <2>2
             DEF Replace, LookupComplete, ViewOfFDB, StreamCounted, NoPartLeft
<1>11. CASE StreamEnds
    BY <1>11 DEF StreamEnds, TypeOK, LookupComplete, ViewOfFDB, StreamCounted, NoPartLeft
<1>12. CASE Interrupt
    BY <1>12, AttemptFailsInv DEF Interrupt
<1>13. CASE Kill
    BY <1>13 DEF Kill, TypeOK, LookupComplete, ViewOfFDB, StreamCounted, NoPartLeft
<1>14. CASE UNCHANGED vars
    BY <1>14 DEF vars, TypeOK, LookupComplete, ViewOfFDB, StreamCounted, NoPartLeft, All
<1>. QED BY <1>1, <1>2, <1>3, <1>4, <1>5, <1>6, <1>7, <1>8, <1>9, <1>10, <1>11, <1>12,
            <1>13, <1>14 DEF Next, Step

LEMMA RetrieveInvariant == Spec => []RetrieveInv
BY InitRetrieveInv, NextRetrieveInv, PTL DEF Spec

-----------------------------------------------------------------------------
(* The sum of the lengths.  TotalLength is a fold, a recursive function    *)
(* over the subsets of what it adds up: it is defined for a finite set,    *)
(* and does not depend on the order the fold takes.                        *)

(* Induction over the naturals and over the subsets of a finite set.       *)
LEMMA NaturalsBySteps ==
    ASSUME NEW I \in SUBSET Nat, 0 \in I, \A n \in I : n + 1 \in I
    PROVE  I = Nat
<1>. DEFINE R == OpToRel(<, Nat)
            T == Nat \ I
<1>1. IsWellFoundedOn(R, Nat)
    BY NatLessThanWellFounded
<1>2. \A m, k \in Nat : m < k => <<m, k>> \in R
    BY DEF OpToRel
<1>. HIDE DEF R
<1>3. SUFFICES ASSUME T # {} PROVE FALSE
    OBVIOUS
<1>4. PICK m \in T : \A k \in T : ~ (<<k, m>> \in R)
    BY <1>1, <1>3, WFMin
<1>5. m # 0 /\ m \in Nat
    OBVIOUS
<1>6. m - 1 \in Nat /\ m - 1 < m /\ (m - 1) + 1 = m
    BY <1>5
<1>7. m - 1 \notin T
    BY <1>2, <1>4, <1>6
<1>. QED BY <1>6, <1>7

LEMMA SubsetsByParts ==
    ASSUME NEW S, IsFiniteSet(S), NEW B \in SUBSET (SUBSET S),
           \A T \in SUBSET S : (\A V \in SUBSET T : V # T => V \in B) => T \in B
    PROVE  B = SUBSET S
<1>. DEFINE R == StrictSubsetOrdering(S)
            Bad == (SUBSET S) \ B
<1>1. IsWellFoundedOn(R, SUBSET S)
    BY FS_StrictSubsetOrderingWellFounded, FS_FiniteSubsetsOfFinite
<1>2. \A V, T \in SUBSET S : V \subseteq T /\ V # T => <<V, T>> \in R
    BY DEF StrictSubsetOrdering
<1>. HIDE DEF R
<1>3. SUFFICES ASSUME Bad # {} PROVE FALSE
    OBVIOUS
<1>4. Bad \subseteq SUBSET S
    OBVIOUS
<1>5. \A V \in SUBSET S : V \notin Bad => V \in B
    OBVIOUS
<1>6. \A V \in Bad : V \notin B
    OBVIOUS
<1>. HIDE DEF Bad
<1>7. PICK T \in Bad : \A V \in Bad : ~ (<<V, T>> \in R)
    BY <1>1, <1>3, <1>4, WFMin
<1>8. ASSUME NEW V \in SUBSET T, V # T PROVE V \in B
    <2>1. V \in SUBSET S /\ T \in SUBSET S
        BY <1>4
    <2>2. <<V, T>> \in R
        BY <1>2, <1>8, <2>1
    <2>3. V \notin Bad
        BY <1>7, <2>2
    <2>. QED BY <1>5, <2>1, <2>3
<1>9. T \in SUBSET S
    BY <1>4
<1>. QED BY <1>6, <1>7, <1>8, <1>9

Pick(s) == CHOOSE x \in s : TRUE
Weight(e) == LengthOf[e[2]]
SumStep(g, s) == IF s = {} THEN 0 ELSE Weight(Pick(s)) + g[s \ {Pick(s)}]
AddsUp(g, S) == \A s \in SUBSET S : g[s] = SumStep(g, s)

LEMMA PickIsMember == ASSUME NEW s, s # {} PROVE Pick(s) \in s
BY DEF Pick

(* The fold's function exists, by induction on the size of the sets it is  *)
(* defined on.                                                             *)
LEMMA FoldExists ==
    ASSUME NEW S, IsFiniteSet(S)
    PROVE  \E g : g = [s \in SUBSET S |-> SumStep(g, s)]
<1>. DEFINE D(n) == {s \in SUBSET S : Cardinality(s) <= n}
            I == {n \in Nat : \E g : \A s \in D(n) : g[s] = SumStep(g, s)}
<1>1. \A s \in SUBSET S : /\ IsFiniteSet(s) /\ Cardinality(s) \in Nat
                          /\ Cardinality(s) <= Cardinality(S)
                          /\ (Cardinality(s) = 0 <=> s = {})
    BY FS_Subset, FS_CardinalityType, FS_EmptySet
<1>2. \A s \in SUBSET S : \A x \in s : Cardinality(s \ {x}) = Cardinality(s) - 1
    BY <1>1, FS_RemoveElement
<1>3. 0 \in I
    <2>. DEFINE g == [s \in SUBSET S |-> 0]
    <2>1. \A s \in D(0) : s = {} /\ g[s] = 0
        BY <1>1
    <2>. QED BY <2>1 DEF SumStep
<1>4. ASSUME NEW n \in I PROVE n + 1 \in I
    <2>1. PICK g : \A s \in D(n) : g[s] = SumStep(g, s)
        OBVIOUS
    <2>. DEFINE h == [s \in SUBSET S |-> IF Cardinality(s) <= n THEN g[s] ELSE SumStep(g, s)]
    <2>2. ASSUME NEW s \in D(n + 1) PROVE h[s] = SumStep(h, s)
        <3>1. h[s] = SumStep(g, s)
            BY <2>1
        <3>2. CASE s = {}
            BY <3>1, <3>2 DEF SumStep
        <3>3. CASE s # {}
            <4>. DEFINE r == s \ {Pick(s)}
            <4>1. r \in SUBSET S /\ Cardinality(r) = Cardinality(s) - 1
                BY <1>2, <3>3, PickIsMember
            <4>2. Cardinality(r) <= n
                BY <1>1, <4>1
            <4>3. h[r] = g[r]
                BY <4>1, <4>2
            <4>. QED BY <3>1, <3>3, <4>3 DEF SumStep
        <3>. QED BY <3>2, <3>3
    <2>. HIDE DEF h, D
    <2>3. \E f : \A s \in D(n + 1) : f[s] = SumStep(f, s)
        BY <2>2
    <2>. QED BY <2>3
<1>. HIDE DEF I
<1>5. I = Nat
    <2>1. I \in SUBSET Nat
        BY DEF I
    <2>. QED BY <1>3, <1>4, <2>1, NaturalsBySteps
<1>6. PICK g : \A s \in D(Cardinality(S)) : g[s] = SumStep(g, s)
    <2>1. Cardinality(S) \in I
        BY <1>1, <1>5
    <2>. QED BY <2>1 DEF I
<1>. DEFINE h == [s \in SUBSET S |-> g[s]]
<1>7. ASSUME NEW s \in SUBSET S PROVE h[s] = SumStep(h, s)
    <2>1. g[s] = SumStep(g, s)
        BY <1>1, <1>6
    <2>2. s \ {Pick(s)} \in SUBSET S
        OBVIOUS
    <2>. QED BY <2>1, <2>2 DEF SumStep
<1>8. h = [s \in SUBSET S |-> SumStep(h, s)]
    BY <1>7
<1>. QED BY <1>8

(* Two such functions agree where both are defined.                        *)
LEMMA FoldUnique ==
    ASSUME NEW S, IsFiniteSet(S), NEW g, NEW h, AddsUp(g, S), AddsUp(h, S)
    PROVE  \A s \in SUBSET S : g[s] = h[s]
<1>. DEFINE B == {s \in SUBSET S : g[s] = h[s]}
<1>1. ASSUME NEW T \in SUBSET S, \A V \in SUBSET T : V # T => V \in B
      PROVE  T \in B
    <2>1. g[T] = SumStep(g, T) /\ h[T] = SumStep(h, T)
        BY DEF AddsUp
    <2>2. CASE T = {}
        BY <2>1, <2>2 DEF SumStep
    <2>3. CASE T # {}
        <3>1. T \ {Pick(T)} \in B
            BY <1>1, <2>3, PickIsMember
        <3>. QED BY <2>1, <2>3, <3>1 DEF SumStep
    <2>. QED BY <2>2, <2>3
<1>2. B \in SUBSET (SUBSET S)
    OBVIOUS
<1>. HIDE DEF B
<1>3. B = SUBSET S
    BY <1>1, <1>2, SubsetsByParts
<1>. QED BY <1>3 DEF B

(* The sum of one set is the sum of another's function.                    *)
LEMMA TotalLengthOf ==
    ASSUME NEW S, IsFiniteSet(S), NEW g, AddsUp(g, S), NEW T \in SUBSET S
    PROVE  TotalLength(T) = g[T]
<1>. DEFINE h == CHOOSE f : f = [s \in SUBSET T |-> SumStep(f, s)]
<1>1. TotalLength(T) = h[T]
    BY DEF TotalLength, MapThenSumSet, MapThenFoldSet, SumStep, Pick, Weight
<1>2. IsFiniteSet(T)
    BY FS_Subset
<1>3. h = [s \in SUBSET T |-> SumStep(h, s)]
    BY <1>2, FoldExists
<1>. HIDE DEF h
<1>4. AddsUp(h, T)
    BY <1>3 DEF AddsUp
<1>5. AddsUp(g, T)
    BY DEF AddsUp
<1>. QED BY <1>1, <1>2, <1>4, <1>5, FoldUnique

(* The sum is that of any one of the entries and of the others.            *)
Entries == All \X (1..MaxVersion)

LEMMA WeightType == \A e \in Entries : Weight(e) \in Nat \ {0}
BY RetrieveAssumption DEF Entries, Weight

LEMMA SumByEntry ==
    ASSUME NEW S \in SUBSET Entries, IsFiniteSet(S)
    PROVE  \A s \in SUBSET S :
            /\ TotalLength(s) \in Nat
            /\ s = {} => TotalLength(s) = 0
            /\ \A e \in s : TotalLength(s) = Weight(e) + TotalLength(s \ {e})
<1>1. PICK g : g = [s \in SUBSET S |-> SumStep(g, s)]
    BY FoldExists
<1>2. AddsUp(g, S)
    BY <1>1 DEF AddsUp
<1>3. \A s \in SUBSET S : TotalLength(s) = g[s]
    BY <1>2, TotalLengthOf
<1>4. \A s \in SUBSET S : s # {} => g[s] = Weight(Pick(s)) + g[s \ {Pick(s)}]
    BY <1>2 DEF AddsUp, SumStep
<1>5. g[{}] = 0
    BY <1>2 DEF AddsUp, SumStep
<1>. DEFINE B == {s \in SUBSET S : g[s] \in Nat /\ \A e \in s : g[s] = Weight(e) + g[s \ {e}]}
<1>6. ASSUME NEW T \in SUBSET S, \A V \in SUBSET T : V # T => V \in B
      PROVE  T \in B
    <2>1. CASE T = {}
        BY <1>5, <2>1
    <2>2. CASE T # {}
        <3>. DEFINE x == Pick(T)
        <3>1. x \in T /\ g[T] = Weight(x) + g[T \ {x}]
            BY <1>4, <2>2, PickIsMember
        <3>. HIDE DEF x
        <3>2. \A e \in T : Weight(e) \in Nat
            BY WeightType
        <3>3. \A e \in T : T \ {e} \in B
            BY <1>6
        <3>4. g[T] \in Nat
            BY <3>1, <3>2, <3>3
        <3>5. ASSUME NEW e \in T PROVE g[T] = Weight(e) + g[T \ {e}]
            <4>1. CASE e = x
                BY <3>1, <4>1
            <4>2. CASE e # x
                <5>. DEFINE r == T \ {e, x}
                <5>1. T \ {x} \in B /\ T \ {e} \in B /\ r \in B
                    BY <1>6, <3>1, <3>3
                <5>2. (T \ {x}) \ {e} = r /\ (T \ {e}) \ {x} = r
                    OBVIOUS
                <5>3. e \in T \ {x} /\ x \in T \ {e}
                    BY <3>1, <4>2
                <5>4. g[T \ {x}] = Weight(e) + g[r]
                    BY <5>1, <5>2, <5>3
                <5>5. g[T \ {e}] = Weight(x) + g[r]
                    BY <5>1, <5>2, <5>3
                <5>6. g[r] \in Nat /\ Weight(x) \in Nat /\ Weight(e) \in Nat
                    BY <3>1, <3>2, <5>1
                <5>. HIDE DEF r
                <5>7. Weight(x) + (Weight(e) + g[r]) = Weight(e) + (Weight(x) + g[r])
                    BY <5>6
                <5>. QED BY <3>1, <5>4, <5>5, <5>7
            <4>. QED BY <4>1, <4>2
        <3>. QED BY <3>4, <3>5
    <2>. QED BY <2>1, <2>2
<1>7. B \in SUBSET (SUBSET S)
    OBVIOUS
<1>. HIDE DEF B
<1>8. B = SUBSET S
    BY <1>6, <1>7, SubsetsByParts
<1>. QED BY <1>3, <1>5, <1>8 DEF B

(* There are finitely many messages.                                       *)
LEMMA EntriesFinite == IsFiniteSet(Entries)
<1>1. IsFiniteSet(All)
    BY RetrieveAssumption, FS_Union DEF All
<1>2. IsFiniteSet(1..MaxVersion)
    BY RetrieveAssumption, FS_Interval
<1>. QED BY <1>1, <1>2, FS_Product DEF Entries

(* A part of a set has fewer bytes, or is all of it: no message is empty.  *)
LEMMA PartHasFewerBytes ==
    ASSUME NEW S \in SUBSET Entries, IsFiniteSet(S), NEW A \in SUBSET S
    PROVE  /\ A = S \/ TotalLength(A) < TotalLength(S)
           /\ TotalLength(A) <= TotalLength(S)
<1>. DEFINE B == {s \in SUBSET S : \A a \in SUBSET s : a = s \/ TotalLength(a) < TotalLength(s)}
<1>1. ASSUME NEW T \in SUBSET S, \A V \in SUBSET T : V # T => V \in B
      PROVE  T \in B
    <2>1. SUFFICES ASSUME NEW a \in SUBSET T, a # T
                   PROVE  TotalLength(a) < TotalLength(T)
        OBVIOUS
    <2>2. PICK e \in T : e \notin a
        BY <2>1
    <2>3. T \ {e} \in B /\ a \in SUBSET (T \ {e})
        BY <1>1, <2>2
    <2>4. a = T \ {e} \/ TotalLength(a) < TotalLength(T \ {e})
        BY <2>3
    <2>5. TotalLength(T) = Weight(e) + TotalLength(T \ {e})
        BY SumByEntry
    <2>6. TotalLength(a) \in Nat /\ TotalLength(T \ {e}) \in Nat
        BY SumByEntry
    <2>7. Weight(e) \in Nat \ {0}
        BY WeightType
    <2>8. TotalLength(T \ {e}) < TotalLength(T)
        BY <2>5, <2>6, <2>7
    <2>9. TotalLength(a) <= TotalLength(T \ {e}) /\ TotalLength(T) \in Nat
        <3>1. TotalLength(T) \in Nat
            BY SumByEntry
        <3>2. CASE a = T \ {e}
            <4>1. TotalLength(a) = TotalLength(T \ {e})
                BY <3>2
            <4>. QED BY <2>6, <3>1, <4>1
        <3>3. CASE TotalLength(a) < TotalLength(T \ {e})
            BY <2>6, <3>1, <3>3
        <3>. QED BY <2>4, <3>2, <3>3
    <2>. QED BY <2>6, <2>8, <2>9
<1>2. B \in SUBSET (SUBSET S)
    OBVIOUS
<1>. HIDE DEF B
<1>3. B = SUBSET S
    BY <1>1, <1>2, SubsetsByParts
<1>4. A = S \/ TotalLength(A) < TotalLength(S)
    BY <1>3 DEF B
<1>5. TotalLength(S) \in Nat /\ TotalLength(A) \in Nat
    BY SumByEntry
<1>. QED BY <1>4, <1>5

(* A part of a set that adds up to as many bytes is all of it.             *)
LEMMA SameBytesSameSet ==
    ASSUME NEW S \in SUBSET Entries, IsFiniteSet(S), NEW A \in SUBSET S,
           TotalLength(A) = TotalLength(S)
    PROVE  A = S
BY PartHasFewerBytes, SumByEntry

-----------------------------------------------------------------------------
(* Every variable has its type, and attempts are bounded.                  *)
THEOREM RetrieveTypeCorrect == Spec => []TypeOK
<1>1. RetrieveInv => TypeOK
    BY DEF RetrieveInv
<1>. QED BY <1>1, RetrieveInvariant, PTL

(* retrieve_object leaves no <dest>.part unless its process was killed.    *)
THEOREM NoPartRemains == Spec => []PartRemoved
<1>1. RetrieveInv => PartRemoved
    BY DEF RetrieveInv, NoPartLeft, PartRemoved
<1>. QED BY <1>1, RetrieveInvariant, PTL

(* A stream of api.messages that ends without an error yielded exactly one *)
(* message of every field of the query, wherever the data handle ended,    *)
(* unless it left some out and delivered others that match through a key.  *)
THEOREM StreamsAreExact == Spec => []StreamExact
<1>1. ASSUME RetrieveInv PROVE StreamExact
    <2>. SUFFICES ASSUME pc = "done", mode = "stream",
                         part = view \/ \A e \in part : e[1] \in Field
                  PROVE  /\ {e[1] : e \in part} = Field
                         /\ Cardinality(part) = Cardinality(Field)
        BY DEF StreamExact
    <2>1. /\ \A d, e \in view : d[1] = e[1] => d = e
          /\ \A f \in Field : \E v \in 1..MaxVersion : <<f, v>> \in view
          /\ part \in SUBSET view
        BY <1>1 DEF RetrieveInv, ViewOfFDB
    <2>2. part \subseteq All \X Nat
        BY <1>1, <2>1 DEF RetrieveInv, TypeOK, Content
    <2>3. IsFiniteSet(All)
        BY RetrieveAssumption, FS_Union DEF All
    <2>4. /\ IsFiniteSet({e[1] : e \in part})
          /\ Cardinality(part) = Cardinality({e[1] : e \in part})
        BY <2>1, <2>2, <2>3, CountOfFields
    <2>5. Cardinality(part) = Cardinality(Field)
        BY <1>1 DEF RetrieveInv, StreamCounted
    <2>6. CASE part = view
        <3>1. ASSUME NEW f \in Field PROVE f \in {e[1] : e \in view}
            <4>1. PICK v \in 1..MaxVersion : <<f, v>> \in view
                BY <2>1
            <4>2. <<f, v>>[1] = f
                OBVIOUS
            <4>. QED BY <4>1, <4>2
        <3>. QED BY <2>4, <2>5, <2>6, <3>1, FS_Subset
    <2>7. CASE \A e \in part : e[1] \in Field
        <3>1. {e[1] : e \in part} \in SUBSET Field
            BY <2>7
        <3>. QED BY <2>4, <2>5, <3>1, RetrieveAssumption, FS_Subset
    <2>. QED BY <2>6, <2>7
<1>. QED BY <1>1, RetrieveInvariant, PTL

(* What was counted of the fields that are in T.                           *)
CountedOf(T) == {d \in found : \E e \in T : e[1] = d[1]}

(* A copy whose messages are no longer than the lookup counted has no more *)
(* bytes than the lookup counted for its fields.                           *)
LEMMA CopyAtMostCounted ==
    ASSUME NEW P \in SUBSET Entries, IsFiniteSet(P), \A d, e \in P : d[1] = e[1] => d = e,
           found \in SUBSET Entries, IsFiniteSet(found),
           \A e \in P : \E d \in found : d[1] = e[1] /\ LengthOf[e[2]] <= LengthOf[d[2]]
    PROVE  TotalLength(P) <= TotalLength(CountedOf(P))
<1>. DEFINE B == {T \in SUBSET P : TotalLength(T) <= TotalLength(CountedOf(T))}
<1>1. ASSUME NEW T \in SUBSET P, \A V \in SUBSET T : V # T => V \in B
      PROVE  T \in B
    <2>1. CASE T = {}
        <3>1. CountedOf(T) = {}
            BY <2>1 DEF CountedOf
        <3>2. TotalLength(T) = 0 /\ TotalLength(CountedOf(T)) = 0
            BY <2>1, <3>1, SumByEntry
        <3>. QED BY <3>2
    <2>2. CASE T # {}
        <3>1. PICK e \in T : TRUE
            BY <2>2
        <3>2. PICK d \in found : d[1] = e[1] /\ LengthOf[e[2]] <= LengthOf[d[2]]
            BY <3>1
        <3>3. TotalLength(T \ {e}) <= TotalLength(CountedOf(T \ {e}))
            BY <1>1, <3>1
        <3>4. CountedOf(T \ {e}) \subseteq CountedOf(T) \ {d} /\ d \in CountedOf(T)
            BY <3>1, <3>2 DEF CountedOf
        <3>5. /\ TotalLength(T) = Weight(e) + TotalLength(T \ {e})
              /\ TotalLength(T) \in Nat /\ TotalLength(T \ {e}) \in Nat
            BY <3>1, SumByEntry
        <3>6. CountedOf(T) \in SUBSET found /\ CountedOf(T) \ {d} \in SUBSET found
              /\ CountedOf(T \ {e}) \in SUBSET found
            BY DEF CountedOf
        <3>7. /\ TotalLength(CountedOf(T)) = Weight(d) + TotalLength(CountedOf(T) \ {d})
              /\ TotalLength(CountedOf(T)) \in Nat /\ TotalLength(CountedOf(T) \ {d}) \in Nat
              /\ TotalLength(CountedOf(T \ {e})) \in Nat
            BY <3>4, <3>6, SumByEntry
        <3>8. TotalLength(CountedOf(T \ {e})) <= TotalLength(CountedOf(T) \ {d})
            <4>1. CountedOf(T) \ {d} \in SUBSET Entries /\ IsFiniteSet(CountedOf(T) \ {d})
                BY <3>6, FS_Subset
            <4>. QED BY <3>4, <4>1, PartHasFewerBytes
        <3>9. Weight(e) \in Nat /\ Weight(d) \in Nat /\ Weight(e) <= Weight(d)
            BY <3>1, <3>2, WeightType DEF Weight
        <3>10. TotalLength(T) <= TotalLength(CountedOf(T))
            BY <3>3, <3>5, <3>7, <3>8, <3>9
        <3>. QED BY <3>10
    <2>. QED BY <2>1, <2>2
<1>2. B \in SUBSET (SUBSET P)
    OBVIOUS
<1>. HIDE DEF B
<1>3. B = SUBSET P
    BY <1>1, <1>2, SubsetsByParts
<1>. QED BY <1>3 DEF B

(* A local file that appears holds every field of its query, whatever was  *)
(* archived, failed or was killed in between and wherever the data handle  *)
(* ended, unless what it delivered beyond the lookup's count makes up for  *)
(* the bytes it lacks.                                                     *)
THEOREM FilesAreComplete == Spec => DestComplete
<1>1. ASSUME RetrieveInv, [Next]_vars, dest' # dest, part = view \/ AsCounted
      PROVE  \A f \in Field : \E v \in 1..MaxVersion : <<f, v>> \in dest'
    <2>1. Replace
        BY <1>1 DEF vars, Next, Step, Rearchive, Start, Interrupt, Kill, Lookup, LookupFails,
                    Open, Copy, CopyDone, ReadFails, BytesDiffer, StreamEnds
    <2>2. CASE part = view
        BY <1>1, <2>1, <2>2 DEF Replace, RetrieveInv, ViewOfFDB
    <2>3. CASE AsCounted
        <3>1. dest' = part /\ TotalLength(part) = TotalLength(found)
            BY <2>1 DEF Replace
        <3>2. /\ part \in SUBSET view /\ part \in SUBSET Entries /\ found \in SUBSET Entries
              /\ \A d, e \in part : d[1] = e[1] => d = e
            BY <1>1, <2>1 DEF Replace, RetrieveInv, ViewOfFDB, TypeOK, Content, Entries
        <3>3. IsFiniteSet(part) /\ IsFiniteSet(found)
            BY <3>2, EntriesFinite, FS_Subset
        <3>4. TotalLength(part) <= TotalLength(CountedOf(part))
            BY <2>3, <3>2, <3>3, CopyAtMostCounted DEF AsCounted
        <3>5. CountedOf(part) \in SUBSET found
            BY DEF CountedOf
        <3>6. TotalLength(CountedOf(part)) <= TotalLength(found)
            BY <3>2, <3>3, <3>5, PartHasFewerBytes
        <3>7. TotalLength(CountedOf(part)) \in Nat /\ TotalLength(found) \in Nat
            BY <3>2, <3>3, <3>5, SumByEntry
        <3>8. CountedOf(part) = found
            BY <3>1, <3>2, <3>3, <3>4, <3>5, <3>6, <3>7, SameBytesSameSet
        <3>9. ASSUME NEW f \in Field
              PROVE  \E v \in 1..MaxVersion : <<f, v>> \in part
            <4>1. PICK d \in found : d[1] = f
                BY <1>1, <2>1 DEF Replace, RetrieveInv, LookupComplete
            <4>2. PICK e \in part : e[1] = f
                BY <3>8, <4>1 DEF CountedOf
            <4>. QED BY <3>2, <4>2 DEF Entries
        <3>. QED BY <3>1, <3>9
    <2>. QED BY <1>1, <2>2, <2>3
<1>. QED BY <1>1, RetrieveInvariant, PTL DEF Spec, DestComplete

(* A local file that appears holds exactly what the lookup counted, unless *)
(* a field was archived again in between: the byte count rejects both the  *)
(* messages that match through a key and a copy that is cut short.         *)
THEOREM FilesAreExact == Spec => ExactUnlessRewritten
<1>1. ASSUME RetrieveInv, Replace, found \subseteq view, part = view \/ view = found
      PROVE  dest' = found
    <2>1. dest' = part /\ TotalLength(part) = TotalLength(found)
        BY <1>1 DEF Replace
    <2>2. part \in SUBSET view /\ view \in SUBSET Entries /\ found \in SUBSET Entries
        BY <1>1 DEF Replace, RetrieveInv, ViewOfFDB, TypeOK, Content, Entries
    <2>4. IsFiniteSet(view) /\ IsFiniteSet(found)
        BY <2>2, EntriesFinite, FS_Subset
    <2>5. CASE part = view
        BY <1>1, <2>1, <2>2, <2>4, <2>5, SameBytesSameSet
    <2>6. CASE view = found
        BY <2>1, <2>2, <2>4, <2>6, SameBytesSameSet
    <2>. QED BY <1>1, <2>5, <2>6
<1>. QED BY <1>1, RetrieveInvariant, PTL DEF Spec, ExactUnlessRewritten


-----------------------------------------------------------------------------
(* Copies of a text in a bag.                                              *)
Copies(b, x) == IF x \in DOMAIN b THEN b[x] ELSE 0

LEMMA BagCopies ==
    ASSUME NEW b, IsABag(b), NEW x
    PROVE  /\ Copies(b, x) \in Nat
           /\ x \in DOMAIN b <=> Copies(b, x) > 0
BY DEF IsABag, Copies

LEMMA SumOfBags ==
    ASSUME NEW a, IsABag(a), NEW b, IsABag(b)
    PROVE  /\ IsABag(a (+) b)
           /\ DOMAIN (a (+) b) = DOMAIN a \cup DOMAIN b
           /\ \A x : Copies(a (+) b, x) = Copies(a, x) + Copies(b, x)
<1>1. /\ DOMAIN (a (+) b) = DOMAIN a \cup DOMAIN b
      /\ \A x \in DOMAIN a \cup DOMAIN b : (a (+) b)[x] = Copies(a, x) + Copies(b, x)
    BY DEF Copies, (+)
<1>2. \A x : Copies(a, x) \in Nat /\ Copies(b, x) \in Nat
    BY BagCopies
<1>3. \A x : x \in DOMAIN a \cup DOMAIN b <=> Copies(a, x) + Copies(b, x) > 0
    BY <1>2, BagCopies
<1>4. a (+) b = [x \in DOMAIN (a (+) b) |-> (a (+) b)[x]]
    BY DEF (+)
<1>5. \A x \in DOMAIN (a (+) b) : (a (+) b)[x] \in {n \in Nat : n > 0}
    BY <1>1, <1>2, <1>3
<1>6. IsABag(a (+) b)
    BY <1>4, <1>5 DEF IsABag
<1>7. ASSUME NEW x PROVE Copies(a (+) b, x) = Copies(a, x) + Copies(b, x)
    BY <1>1, <1>2, <1>3 DEF Copies
<1>. QED BY <1>1, <1>6, <1>7

(* What is left of a bag without another.                                  *)
LEMMA BagDifference ==
    ASSUME NEW a, IsABag(a), NEW b, IsABag(b)
    PROVE  /\ \A x : x \in DOMAIN (a (-) b) <=> Copies(a, x) > Copies(b, x)
           /\ \A x \in DOMAIN (a (-) b) : (a (-) b)[x] = Copies(a, x) - Copies(b, x)
<1>. DEFINE d == [x \in DOMAIN a |-> IF x \in DOMAIN b THEN a[x] - b[x] ELSE a[x]]
<1>1. a (-) b = [x \in {y \in DOMAIN d : d[y] > 0} |-> d[x]]
    BY DEF (-)
<1>2. \A x : Copies(a, x) \in Nat /\ Copies(b, x) \in Nat
    BY BagCopies
<1>3. \A x \in DOMAIN a : d[x] = Copies(a, x) - Copies(b, x)
    BY DEF Copies, IsABag
<1>4. \A x : x \notin DOMAIN a => Copies(a, x) = 0
    BY DEF Copies
<1>. QED BY <1>1, <1>2, <1>3, <1>4

(* The texts of an input list, and those compared as Snakemake does.       *)
LEMMA VersionTexts ==
    ASSUME NEW v \in Versions
    PROVE  /\ IsABag(v.tracked) /\ DOMAIN v.tracked \subseteq Query
           /\ IsABag(v.plain)
           /\ IsABag(Texts(v))
           /\ DOMAIN Texts(v) = DOMAIN v.tracked \cup DOMAIN v.plain
           /\ \A x : Copies(Texts(v), x) = Copies(v.tracked, x) + Copies(v.plain, x)
           /\ Rest(v) = v.plain
<1>1. /\ IsABag(v.tracked) /\ DOMAIN v.tracked \subseteq Query /\ IsABag(v.plain)
    BY RerunAssumption DEF BagToSet
<1>2. /\ IsABag(Texts(v))
      /\ DOMAIN Texts(v) = DOMAIN v.tracked \cup DOMAIN v.plain
      /\ \A x : Copies(Texts(v), x) = Copies(v.tracked, x) + Copies(v.plain, x)
    BY <1>1, SumOfBags DEF Texts
<1>3. \A x : Copies(v.tracked, x) \in Nat /\ Copies(v.plain, x) \in Nat
    BY <1>1, BagCopies
<1>4. \A x : x \in DOMAIN Rest(v) <=> Copies(Texts(v), x) > Copies(v.tracked, x)
    BY <1>1, <1>2, BagDifference DEF Rest
<1>5. \A x \in DOMAIN Rest(v) : Rest(v)[x] = Copies(Texts(v), x) - Copies(v.tracked, x)
    BY <1>1, <1>2, BagDifference DEF Rest
<1>6. DOMAIN Rest(v) = DOMAIN v.plain
    <2>1. ASSUME NEW x PROVE x \in DOMAIN Rest(v) <=> Copies(v.plain, x) > 0
        BY <1>2, <1>3, <1>4
    <2>2. ASSUME NEW x PROVE x \in DOMAIN v.plain <=> Copies(v.plain, x) > 0
        BY <1>1, BagCopies
    <2>. QED BY <2>1, <2>2
<1>7. \A x \in DOMAIN v.plain : Rest(v)[x] = v.plain[x]
    <2>. SUFFICES ASSUME NEW x \in DOMAIN v.plain PROVE Rest(v)[x] = v.plain[x]
        OBVIOUS
    <2>1. Copies(v.plain, x) = v.plain[x]
        BY DEF Copies
    <2>. QED BY <1>2, <1>3, <1>5, <1>6, <2>1
<1>8. Rest(v) = [x \in DOMAIN Rest(v) |-> Rest(v)[x]]
    BY DEF Rest, (-)
<1>9. v.plain = [x \in DOMAIN v.plain |-> v.plain[x]]
    BY <1>1 DEF IsABag
<1>. QED BY <1>1, <1>2, <1>6, <1>7, <1>8, <1>9

(* The recorded texts that comparison leaves over.                         *)
LEMMA PoolTexts ==
    ASSUME NEW v \in Versions, NEW w \in Versions
    PROVE  \A x : x \in Pool(v, Texts(w)) <=> Copies(Texts(w), x) > Copies(v.plain, x)
BY VersionTexts, BagDifference DEF Pool, BagToSet

(* Equal copies of all that is no query are the same other files.          *)
LEMMA FilesByCopies ==
    ASSUME NEW v \in Versions, NEW w \in Versions,
           \A x : x \notin Query => Copies(v.plain, x) = Copies(w.plain, x)
    PROVE  Files(v) = Files(w)
<1>1. ASSUME NEW x, x \notin Query
      PROVE  x \in DOMAIN v.plain <=> x \in DOMAIN w.plain
    <2>1. IsABag(v.plain) /\ IsABag(w.plain)
        BY VersionTexts
    <2>2. x \in DOMAIN v.plain <=> Copies(v.plain, x) > 0
        BY <2>1, BagCopies
    <2>3. x \in DOMAIN w.plain <=> Copies(w.plain, x) > 0
        BY <2>1, BagCopies
    <2>. QED BY <1>1, <2>2, <2>3
<1>2. DOMAIN v.plain \ Query = DOMAIN w.plain \ Query
    BY <1>1
<1>3. \A x \in DOMAIN v.plain \ Query : v.plain[x] = w.plain[x]
    BY <1>1 DEF Copies
<1>. QED BY <1>2, <1>3 DEF Files, BagToSet

-----------------------------------------------------------------------------
(* Every run records the texts of the inputs it runs with.                 *)
LEMMA RecordInvariant == RerunSpec => []RecordIsOfMade
<1>1. RerunInit => RecordIsOfMade
    BY DEF RerunInit, RecordIsOfMade
<1>2. RecordIsOfMade /\ [RerunNext]_rerunVars => RecordIsOfMade'
    BY DEF RecordIsOfMade, RerunNext, Edit, RunJob, rerunVars, Texts
<1>. QED BY <1>1, <1>2, PTL DEF RerunSpec

(* The trigger misses no change: an output that stays was made from the    *)
(* same other files and from queries that name every field its inputs      *)
(* name, unless without metkit a recorded query has a range that the       *)
(* fallback keeps verbatim.                                                *)
THEOREM ChangesAreNoticed == RerunSpec => []NoMissedChange
<1>1. ASSUME RecordIsOfMade, ~ InputChanged(inputs, record)
      PROVE  /\ Files(inputs) = Files(made)
             /\ metkit \/ BagToSet(record) \cap Verbatim = {}
                => FieldsOf(inputs.tracked) \subseteq FieldsOf(Texts(made))
    <2>. DEFINE pool == Pool(inputs, record)
    <2>1. inputs \in Versions /\ made \in Versions /\ record = Texts(made)
        BY <1>1 DEF RecordIsOfMade
    <2>2. /\ \A x : Copies(inputs.plain, x) \in Nat /\ Copies(made.plain, x) \in Nat
          /\ \A x : Copies(inputs.tracked, x) \in Nat /\ Copies(made.tracked, x) \in Nat
        BY <2>1, VersionTexts, BagCopies
    <2>3. \A x : x \notin Query => Copies(inputs.tracked, x) = 0 /\ Copies(made.tracked, x) = 0
        BY <2>1, VersionTexts DEF Copies
    <2>4. \A x : x \in pool <=> Copies(record, x) > Copies(inputs.plain, x)
        BY <2>1, PoolTexts
    <2>5. CASE Texts(inputs) = record
        <3>1. FieldsOf(inputs.tracked) \subseteq FieldsOf(Texts(made))
            BY <2>1, <2>5, VersionTexts DEF FieldsOf, BagToSet
        <3>2. ASSUME NEW x, x \notin Query
              PROVE  Copies(inputs.plain, x) = Copies(made.plain, x)
            <4>1. Copies(Texts(inputs), x) = Copies(inputs.tracked, x) + Copies(inputs.plain, x)
                BY <2>1, VersionTexts
            <4>2. Copies(Texts(made), x) = Copies(made.tracked, x) + Copies(made.plain, x)
                BY <2>1, VersionTexts
            <4>. QED BY <2>1, <2>2, <2>3, <2>5, <3>2, <4>1, <4>2
        <3>. QED BY <2>1, <3>1, <3>2, FilesByCopies
    <2>6. CASE inputs.tracked # EmptyBag /\ ~ Decide(inputs, record)
        <3>1. /\ Rest(inputs) \sqsubseteq record
              /\ pool \subseteq Query
              /\ \A q \in DOMAIN inputs.tracked : CoveredBy(q, pool)
            BY <2>6 DEF Decide, BagToSet
        <3>2. ASSUME NEW x, x \notin Query
              PROVE  Copies(inputs.plain, x) = Copies(made.plain, x)
            <4>1. Copies(record, x) = Copies(made.plain, x)
                <5>1. Copies(Texts(made), x) = Copies(made.tracked, x) + Copies(made.plain, x)
                    BY <2>1, VersionTexts
                <5>. QED BY <2>1, <2>2, <2>3, <3>2, <5>1
            <4>2. ~ Copies(record, x) > Copies(inputs.plain, x)
                BY <2>4, <3>1, <3>2
            <4>3. Copies(inputs.plain, x) <= Copies(record, x)
                <5>1. inputs.plain \sqsubseteq record
                    BY <2>1, <3>1, VersionTexts
                <5>2. CASE x \in DOMAIN inputs.plain
                    BY <5>1, <5>2 DEF Copies, \sqsubseteq
                <5>3. CASE x \notin DOMAIN inputs.plain
                    BY <2>2, <4>1, <5>3 DEF Copies
                <5>. QED BY <5>2, <5>3
            <4>. QED BY <2>2, <4>1, <4>2, <4>3
        <3>3. pool \subseteq BagToSet(record)
            <4>. SUFFICES ASSUME NEW x \in pool PROVE x \in DOMAIN record
                BY DEF BagToSet
            <4>1. Copies(record, x) > Copies(inputs.plain, x)
                BY <2>4
            <4>2. Copies(record, x) # 0
                BY <2>2, <4>1
            <4>. QED BY <4>2 DEF Copies
        <3>4. ASSUME NEW q \in DOMAIN inputs.tracked,
                     metkit \/ BagToSet(record) \cap Verbatim = {}
              PROVE  Names[q] \subseteq FieldsOf(record)
            <4>1. q \in Query
                BY <2>1, VersionTexts
            <4>2. CASE q \in pool
                BY <3>1, <3>3, <4>2 DEF FieldsOf
            <4>3. CASE FieldSet(q) \subseteq
                        UNION {FieldSet(r) : r \in {p \in pool : Expandable(p)}}
                <5>1. ASSUME metkit, NEW f \in Names[q]
                      PROVE  \E r \in pool : f \in Names[r]
                    BY <4>3, <5>1 DEF FieldSet
                <5>2. ASSUME ~ metkit, NEW f \in Names[q]
                      PROVE  \E r \in pool : f \in Names[r]
                    <6>1. \A r \in pool : r \in Query \ Verbatim
                        BY <3>1, <3>3, <3>4, <5>2
                    <6>2. \A w \in Words[q] : \E r \in pool : w \in Words[r]
                        BY <4>3, <5>2 DEF FieldSet
                    <6>3. q \in Query \ Verbatim
                        BY <4>1, <6>1, <6>2 DEF Verbatim
                    <6>4. PICK w \in Words[q] : f \in Means[w]
                        BY <5>2, <6>3, RerunAssumption
                    <6>5. PICK r \in pool : w \in Words[r]
                        BY <6>2
                    <6>6. Names[r] = UNION {Means[x] : x \in Words[r]}
                        BY <6>1, RerunAssumption
                    <6>. QED BY <6>4, <6>5, <6>6
                <5>. QED BY <3>1, <3>3, <5>1, <5>2 DEF FieldsOf
            <4>. QED BY <3>1, <4>2, <4>3 DEF CoveredBy
        <3>5. metkit \/ BagToSet(record) \cap Verbatim = {}
              => FieldsOf(inputs.tracked) \subseteq FieldsOf(Texts(made))
            BY <2>1, <3>4 DEF FieldsOf, BagToSet
        <3>. QED BY <2>1, <3>2, <3>5, FilesByCopies
    <2>. QED BY <1>1, <2>5, <2>6 DEF InputChanged
<1>2. RecordIsOfMade => NoMissedChange
    BY <1>1 DEF NoMissedChange
<1>. QED BY <1>2, RecordInvariant, PTL

(* The trigger reruns for no other reason: with metkit, and for queries it *)
(* can expand, notation, spelling and grouping do not matter.              *)
THEOREM NotationDoesNotRerun == RerunSpec => []NoNeedlessRerun
<1>1. ASSUME RecordIsOfMade, InputChanged(inputs, record), metkit,
             \A q \in BagToSet(Texts(inputs)) \cup BagToSet(record) : q \in Query => Expandable(q),
             inputs.tracked # EmptyBag,
             FieldsOf(inputs.tracked) \subseteq FieldsOf(made.tracked),
             inputs.plain = made.plain
      PROVE  FALSE
    <2>. DEFINE pool == Pool(inputs, record)
    <2>1. inputs \in Versions /\ made \in Versions /\ record = Texts(made)
        BY <1>1 DEF RecordIsOfMade
    <2>2. /\ \A x : Copies(inputs.plain, x) \in Nat /\ Copies(made.plain, x) \in Nat
          /\ \A x : Copies(made.tracked, x) \in Nat
        BY <2>1, VersionTexts, BagCopies
    <2>3. pool = DOMAIN made.tracked
        <3>1. ASSUME NEW x
              PROVE  Copies(record, x) = Copies(made.tracked, x) + Copies(inputs.plain, x)
            BY <1>1, <2>1, VersionTexts
        <3>2. ASSUME NEW x PROVE x \in pool <=> Copies(record, x) > Copies(inputs.plain, x)
            BY <2>1, PoolTexts
        <3>3. ASSUME NEW x PROVE x \in pool <=> Copies(made.tracked, x) > 0
            BY <2>2, <3>1, <3>2
        <3>4. ASSUME NEW x PROVE x \in DOMAIN made.tracked <=> Copies(made.tracked, x) > 0
            BY <2>1, VersionTexts, BagCopies
        <3>. QED BY <3>3, <3>4
    <2>4. Rest(inputs) \sqsubseteq record
        <3>1. Rest(inputs) = made.plain
            BY <1>1, <2>1, VersionTexts
        <3>2. DOMAIN made.plain \subseteq DOMAIN record
            BY <2>1, VersionTexts
        <3>3. ASSUME NEW x \in DOMAIN made.plain PROVE made.plain[x] <= record[x]
            <4>1. Copies(record, x) = Copies(made.tracked, x) + Copies(made.plain, x)
                BY <2>1, VersionTexts
            <4>2. Copies(record, x) = record[x] /\ Copies(made.plain, x) = made.plain[x]
                BY <3>2 DEF Copies
            <4>. QED BY <2>2, <4>1, <4>2
        <3>. QED BY <3>1, <3>2, <3>3 DEF \sqsubseteq
    <2>5. pool \subseteq Query /\ pool \subseteq BagToSet(record)
        BY <2>1, <2>3, VersionTexts DEF BagToSet
    <2>6. ASSUME NEW q \in DOMAIN inputs.tracked PROVE CoveredBy(q, pool)
        <3>1. q \in Query /\ q \in BagToSet(Texts(inputs))
            BY <2>1, VersionTexts DEF BagToSet
        <3>2. Expandable(q) /\ \A r \in pool : Expandable(r)
            BY <1>1, <2>5, <3>1
        <3>3. FieldSet(q) = Names[q] /\ \A r \in pool : FieldSet(r) = Names[r]
            BY <1>1 DEF FieldSet
        <3>4. Names[q] \subseteq FieldsOf(made.tracked)
            BY <1>1, <3>1 DEF FieldsOf, BagToSet
        <3>5. ASSUME NEW f \in FieldSet(q) PROVE \E r \in pool : f \in FieldSet(r)
            BY <2>3, <3>3, <3>4 DEF FieldsOf, BagToSet
        <3>. QED BY <3>2, <3>5 DEF CoveredBy
    <2>. QED BY <1>1, <2>4, <2>5, <2>6 DEF InputChanged, Decide, BagToSet
<1>2. RecordIsOfMade => NoNeedlessRerun
    BY <1>1 DEF NoNeedlessRerun
<1>. QED BY <1>2, RecordInvariant, PTL
=============================================================================
