--------------------------- MODULE LookupsProofs ----------------------------
(***************************************************************************)
(* Theorems about the read side, for every FDB schema, all outputs and     *)
(* patterns, any number of threads that look fields up, and all failures.  *)
(***************************************************************************)
EXTENDS Lookups, RequestsProofs, WellFoundedInduction

(* A bounded set of naturals has a greatest element.                       *)
LEMMA Greatest ==
    ASSUME NEW S \in SUBSET Nat, S # {}, NEW n \in Nat, \A x \in S : x <= n
    PROVE  \E x \in S : \A y \in S : y <= x
<1> DEFINE T == {n - x : x \in S}
<1>1. T \subseteq Nat /\ T # {}
    <2>1. \A x \in S : x \in Nat /\ n - x \in Nat
        OBVIOUS
    <2>2. PICK x \in S : TRUE
        OBVIOUS
    <2>3. n - x \in T
        BY <2>2
    <2>. QED BY <2>1, <2>3
<1>2. PICK d \in T : \A e \in T : ~ <<e, d>> \in OpToRel(<, Nat)
    BY <1>1, NatLessThanWellFounded, WFMin
<1>3. \A e \in T : ~ e < d
    BY <1>1, <1>2 DEF OpToRel
<1>4. PICK x \in S : d = n - x
    BY <1>2
<1>5. ASSUME NEW y \in S PROVE y <= x
    <2>1. n - y \in T /\ x \in Nat /\ y \in Nat
        OBVIOUS
    <2>2. ~ n - y < n - x
        BY <1>3, <1>4, <2>1
    <2>. QED BY <2>1, <2>2
<1>. QED BY <1>5

(* The time of a complete object is that of its newest field.              *)
LEMMA LatestIsSeen ==
    ASSUME LookupsTypeOK, CataloguesPast, NEW r \in Reader, NEW F \in SUBSET FieldKey,
           F # {}
    PROVE  /\ \E f \in F : Latest(r, F) = saw[r][f]
           /\ \A f \in F : saw[r][f] <= Latest(r, F)
<1> DEFINE S == {saw[r][f] : f \in F}
<1>1. S \in SUBSET Nat /\ S # {} /\ clock \in Nat
    BY DEF LookupsTypeOK
<1>2. \A x \in S : x <= clock
    BY DEF LookupsTypeOK, CataloguesPast
<1>3. \E x \in S : \A y \in S : y <= x
    BY <1>1, <1>2, Greatest
<1>4. Latest(r, F) \in S /\ \A f \in F : saw[r][f] <= Latest(r, F)
    <2>1. \E x \in S : \A f \in F : saw[r][f] <= x
        BY <1>3
    <2>. QED BY <2>1 DEF Latest
<1>. QED BY <1>4

(* A complete object has fields.                                           *)
LEMMA CompleteHasFields ==
    ASSUME NEW q, NEW F, Complete(q, F)
    PROVE  F # {}
BY FS_EmptySet DEF Complete

(* What a lookup other than a glob finds counts for its query.             *)
LEMMA FoundIsCounted ==
    ASSUME NEW r \in Reader
    PROVE  /\ Found(r) \subseteq FieldKey
           /\ \A f \in Found(r) : saw[r][f] > 0
           /\ asked[r].op # "glob" => \A f \in Found(r) : Counted(Query(r), f)
BY DEF Found, Concerns

(* The query of a thread is one of the grammar.                            *)
LEMMA QueryTyped ==
    ASSUME LookupsTypeOK, NEW r \in Reader, asked[r].op # "glob"
    PROVE  Query(r) \in Output /\ IsQuery(Query(r))
BY LookupsAssumption DEF LookupsTypeOK

-----------------------------------------------------------------------------
(* Initially every variable has its type.                                  *)
LEMMA InitTyped ==
    ASSUME LookupsInit PROVE LookupsTypeOK
<1>1. (CHOOSE q \in Output : TRUE) \in Output
    BY LookupsAssumption
<1>2. cache = <<>> /\ DOMAIN cache = {}
    BY DEF LookupsInit
<1>3. asked \in [Reader -> Ask] /\ \A r \in Reader : Query(r) \in Output /\ asked[r].op # "glob"
    BY <1>1 DEF LookupsInit, Ask, Op, Subject, Query
<1>. QED BY <1>2, <1>3, LookupsAssumption
         DEF LookupsInit, MaskInit, LookupsTypeOK, Answer, Unanswered

(* The end of a lookup with an error has its type.                         *)
LEMMA RaiseTyped ==
    ASSUME LookupsTypeOK, NEW r \in Reader, NEW op, Raise(r, op)
    PROVE  /\ pc' \in [Reader -> {"idle", "read", "answer"}]
           /\ tries' \in [Reader -> 0..(MaxAttempts - 1)]
           /\ said' \in [Reader -> Answer]
BY LookupsAssumption DEF Raise, LookupsTypeOK, Answer

(* So has its end with an answer.                                          *)
LEMMA TellTyped ==
    ASSUME LookupsTypeOK, NEW r \in Reader, Tells(r)
    PROVE  /\ pc' \in [Reader -> {"idle", "read", "answer"}]
           /\ said' \in [Reader -> Answer]
BY FoundIsCounted DEF Tells, LookupsTypeOK, Answer

(* The values of a candidate are spellings.                                *)
LEMMA CandidateTyped ==
    ASSUME LookupsTypeOK, NEW r \in Reader, asked[r].op = "glob", NEW f \in Found(r),
           NEW k \in DOMAIN Substituted(asked[r].about, f).vals
    PROVE  Substituted(asked[r].about, f).vals[k] \subseteq Spelling
<1> DEFINE p == asked[r].about
<1>1. /\ p \in Pattern /\ IsQuery(p.query)
    BY LookupsAssumption DEF LookupsTypeOK
<1>2. CASE k \in p.wild
    <2>1. f \in FieldKey /\ k \in DOMAIN f
        BY <1>2 DEF Found, Concerns
    <2>2. f[k] \in Spelling
        BY <2>1, FieldKeyFunction
    <2>. QED BY <1>2, <2>2 DEF Substituted
<1>3. CASE k \notin p.wild
    <2>1. k \in DOMAIN p.query.vals /\ Substituted(p, f).vals[k] = p.query.vals[k]
        BY <1>3 DEF Substituted
    <2>. QED BY <1>1, <2>1, RequestsAssumption DEF IsQuery
<1>. QED BY <1>2, <1>3

(* No step of a reader or of the world disturbs a type.                    *)
LEMMA NextTyped ==
    ASSUME LookupsTypeOK, CataloguesPast, [LookupsNext]_allVars
    PROVE  LookupsTypeOK'
<1> USE DEF Query
<1>1. CASE StoreMoves
    <2>1. clock' \in Nat \ {0}
        BY <1>1 DEF StoreMoves, MaskTick, MaskAccept, LookupsTypeOK
    <2>2. stamp' \in [FieldKey -> Nat]
        BY <1>1 DEF StoreMoves, MaskTick, Masks, MaskAccept, LookupsTypeOK
    <2>3. changes' \in Nat
        BY <1>1 DEF StoreMoves, LookupsTypeOK
    <2>. QED BY <1>1, <2>1, <2>2, <2>3
             DEF StoreMoves, LookupsTypeOK, askVars, stepVars, toldVars
<1>2. CASE RootLost \/ RootsBack \/ DagBuilt
    <2>1. hidden' \subseteq FieldKey /\ caching' \in BOOLEAN /\ changes' \in Nat
        <3>1. CASE RootLost
            <4>1. PICK F \in Root : hidden' = F
                BY <3>1 DEF RootLost
            <4>. QED BY <3>1, <4>1, LookupsAssumption DEF RootLost, LookupsTypeOK
        <3>2. CASE RootsBack \/ DagBuilt
            BY <3>2 DEF RootsBack, DagBuilt, LookupsTypeOK
        <3>. QED BY <1>2, <3>1, <3>2
    <2>2. due' \in [Reader -> SUBSET FieldKey]
        BY <1>2 DEF RootLost, RootsBack, DagBuilt, LookupsTypeOK, askVars
    <2>3. UNCHANGED <<maskVars, settings, warned, asked, begun, lookups, stepVars, toldVars>>
        BY <1>2 DEF RootLost, RootsBack, DagBuilt, askVars
    <2>. QED BY <2>1, <2>2, <2>3 DEF LookupsTypeOK, maskVars, stepVars, toldVars
<1>3. ASSUME NEW r \in Reader, NEW op \in Op, NEW s \in Subject, Begin(r, op, s)
      PROVE  LookupsTypeOK'
    <2>1. asked' \in [Reader -> Ask]
        BY <1>3 DEF Begin, Ask, LookupsTypeOK
    <2>2. \A u \in Reader : IF asked'[u].op = "glob" THEN asked'[u].about \in Pattern
                            ELSE asked'[u].about.query \in Output
        BY <1>3 DEF Begin, Subject, LookupsTypeOK
    <2>3. warned' \subseteq Output
        BY <1>3 DEF Begin, Subject, LookupsTypeOK
    <2>4. /\ pc' \in [Reader -> {"idle", "read", "answer"}]
          /\ tries' \in [Reader -> 0..(MaxAttempts - 1)]
          /\ said' \in [Reader -> Answer]
        <3>1. CASE Raise(r, op)
            BY <3>1, RaiseTyped
        <3>2. CASE ~ Raise(r, op)
            <4>1. /\ pc' = [pc EXCEPT ![r] = "read"]
                  /\ said' = [said EXCEPT ![r] = Unanswered]
                  /\ UNCHANGED tries
                BY <1>3, <3>2 DEF Begin
            <4>2. Unanswered \in Answer
                BY DEF Unanswered, Answer
            <4>. QED BY <4>1, <4>2 DEF LookupsTypeOK
        <3>. QED BY <3>1, <3>2
    <2>5. /\ due' \in [Reader -> SUBSET FieldKey] /\ begun' \in [Reader -> Nat]
          /\ lookups' \in Nat
        BY <1>3 DEF Begin, LookupsTypeOK
    <2>. QED BY <1>3, <2>1, <2>2, <2>3, <2>4, <2>5
             DEF Begin, LookupsTypeOK, worldVars, maskVars, toldVars
<1>4. ASSUME NEW r \in Reader, Read(r) PROVE LookupsTypeOK'
    <2>1. [f \in FieldKey |-> IF f \in hidden THEN 0 ELSE stamp[f]] \in [FieldKey -> Nat]
        BY DEF LookupsTypeOK
    <2>2. saw' \in [Reader -> [FieldKey -> Nat]]
        BY <1>4, <2>1, Zenon DEF Read, LookupsTypeOK
    <2>3. tries' \in [Reader -> 0..(MaxAttempts - 1)]
        <3>1. 0 \in 0..(MaxAttempts - 1)
            BY LookupsAssumption
        <3>. QED BY <1>4, <3>1 DEF Read, LookupsTypeOK
    <2>. QED BY <1>4, <2>2, <2>3
             DEF Read, LookupsTypeOK, worldVars, maskVars, askVars, toldVars
<1>5. ASSUME NEW r \in Reader, ReadRetried(r) PROVE LookupsTypeOK'
    <2>1. tries' \in [Reader -> 0..(MaxAttempts - 1)]
        BY <1>5, LookupsAssumption DEF ReadRetried, LookupsTypeOK
    <2>. QED BY <1>5, <2>1
             DEF ReadRetried, LookupsTypeOK, worldVars, maskVars, askVars, toldVars
<1>6. ASSUME NEW r \in Reader, ReadFails(r) \/ LookupRaises(r) PROVE LookupsTypeOK'
    <2>1. Raise(r, asked[r].op) /\ UNCHANGED <<worldVars, askVars, saw, toldVars>>
        BY <1>6 DEF ReadFails, LookupRaises
    <2>. QED BY <2>1, RaiseTyped DEF LookupsTypeOK, worldVars, maskVars, askVars, toldVars
<1>7. ASSUME NEW r \in Reader, TellExists(r) PROVE LookupsTypeOK'
    <2>1. Query(r) \in Output
        BY <1>7, QueryTyped DEF TellExists
    <2>2. known' \subseteq Output /\ DOMAIN cache' \subseteq Output
        BY <1>7, <2>1 DEF TellExists, LookupsTypeOK
    <2>3. ASSUME Complete(Query(r), Found(r)) PROVE Latest(r, Found(r)) \in Nat
        <3>1. PICK f \in Found(r) : Latest(r, Found(r)) = saw[r][f]
            BY <2>3, CompleteHasFields, FoundIsCounted, LatestIsSeen
        <3>. QED BY <3>1, FoundIsCounted DEF LookupsTypeOK
    <2>4. \A q \in DOMAIN cache' : cache'[q] \in [exists : BOOLEAN, mtime : Nat, begun : Nat]
        <3>1. Complete(Query(r), Found(r)) \in BOOLEAN
            BY DEF Complete
        <3>. QED BY <1>7, <2>3, <3>1 DEF TellExists, LookupsTypeOK
    <2>. QED BY <1>7, <2>2, <2>4, TellTyped
             DEF TellExists, Tells, LookupsTypeOK, worldVars, maskVars, askVars
<1>8. ASSUME NEW r \in Reader, TellRemoved(r) \/ TellListed(r) PROVE LookupsTypeOK'
    <2>1. Tells(r) /\ UNCHANGED cache
        BY <1>8 DEF TellRemoved, TellListed
    <2>2. known' \subseteq Output
        BY <1>8, QueryTyped DEF TellRemoved, TellListed, LookupsTypeOK
    <2>3. \A q \in listed' : \A k \in DOMAIN q.vals : q.vals[k] \subseteq Spelling
        <3>1. CASE UNCHANGED listed
            BY <3>1 DEF LookupsTypeOK
        <3>2. CASE TellListed(r)
            BY <3>2, CandidateTyped DEF TellListed, Candidates, LookupsTypeOK
        <3>. QED BY <1>8, <3>1, <3>2 DEF TellRemoved
    <2>. QED BY <2>1, <2>2, <2>3, TellTyped
             DEF Tells, LookupsTypeOK, worldVars, maskVars, askVars
<1>9. CASE UNCHANGED allVars
    BY <1>9 DEF allVars, LookupsTypeOK, worldVars, maskVars, askVars, stepVars, toldVars
<1>. QED BY <1>1, <1>2, <1>3, <1>4, <1>6, <1>7, <1>8, <1>9, <1>5 DEF LookupsNext, ReaderStep

-----------------------------------------------------------------------------
(* FDB's fields only get more recent, and catalogues stay behind.          *)
LEMMA FieldsGrow ==
    ASSUME LookupsTypeOK, CataloguesPast, [LookupsNext]_allVars
    PROVE  /\ CataloguesPast'
           /\ \A f \in FieldKey : stamp'[f] >= stamp[f]
<1> USE DEF LookupsTypeOK, CataloguesPast
<1>1. CASE StoreMoves
    <2>1. UNCHANGED saw /\ clock' \in {clock, clock + 1}
        BY <1>1 DEF StoreMoves, stepVars, MaskTick, MaskAccept
    <2>2. \A f \in FieldKey : stamp'[f] \in {stamp[f], clock}
        BY <1>1 DEF StoreMoves, MaskTick, Masks, MaskAccept
    <2>3. ASSUME NEW f \in FieldKey
          PROVE  /\ stamp'[f] <= clock' /\ stamp'[f] >= stamp[f]
                 /\ \A r \in Reader : saw'[r][f] <= stamp'[f]
        <3>1. /\ clock \in Nat /\ stamp[f] \in Nat /\ stamp[f] <= clock
              /\ \A r \in Reader : saw[r][f] \in Nat /\ saw[r][f] <= stamp[f]
            OBVIOUS
        <3>2. stamp'[f] \in {stamp[f], clock}
            BY <2>2
        <3> HIDE DEF LookupsTypeOK, CataloguesPast
        <3>. QED BY <2>1, <3>1, <3>2
    <2>. QED BY <2>3
<1>2. ASSUME NEW r \in Reader, Read(r)
      PROVE  UNCHANGED <<stamp, clock>> /\ \A u \in Reader, f \in FieldKey : saw'[u][f] <= stamp[f]
    <2>1. UNCHANGED <<stamp, clock>>
        BY <1>2 DEF Read, worldVars, maskVars
    <2>2. ASSUME NEW u \in Reader, NEW f \in FieldKey
          PROVE  saw'[u][f] <= stamp[f]
        <3>1. saw'[u][f] \in {saw[u][f], stamp[f], 0}
            BY <1>2 DEF Read
        <3>2. saw[u][f] <= stamp[f] /\ stamp[f] \in Nat
            OBVIOUS
        <3>. QED BY <3>1, <3>2
    <2>. QED BY <2>1, <2>2
<1>3. CASE \/ RootLost \/ RootsBack \/ DagBuilt \/ UNCHANGED allVars
           \/ \E r \in Reader, op \in Op, s \in Subject : Begin(r, op, s)
    BY <1>3 DEF RootLost, RootsBack, DagBuilt, Begin, allVars, worldVars, maskVars, stepVars
<1>4. ASSUME NEW r \in Reader,
             \/ ReadRetried(r) \/ ReadFails(r) \/ LookupRaises(r)
             \/ TellExists(r) \/ TellRemoved(r) \/ TellListed(r)
      PROVE  UNCHANGED <<stamp, clock, saw>>
    BY <1>4 DEF ReadRetried, ReadFails, LookupRaises, TellExists, TellRemoved, TellListed,
       Tells, worldVars, maskVars
<1>. QED BY <1>1, <1>2, <1>3, <1>4 DEF LookupsNext, ReaderStep

(* What FDB had when a lookup began is in the catalogue its handle reads,  *)
(* unless it is under the root that is lost.                               *)
LEMMA DueStaysRead ==
    ASSUME LookupsTypeOK, CataloguesPast, DueIsRead, [LookupsNext]_allVars
    PROVE  DueIsRead'
<1> SUFFICES ASSUME NEW u \in Reader, NEW f \in due'[u]
             PROVE  /\ pc'[u] = "read" => stamp'[f] > 0
                    /\ pc'[u] = "answer" => saw'[u][f] > 0 \/ f \in hidden'
    BY DEF DueIsRead
<1> USE DEF LookupsTypeOK, DueIsRead
<1>1. f \in FieldKey /\ stamp'[f] >= stamp[f] /\ stamp[f] \in Nat /\ stamp'[f] \in Nat
    BY FieldsGrow, NextTyped
<1>2. CASE StoreMoves \/ DagBuilt \/ UNCHANGED allVars
    <2>1. UNCHANGED <<due, pc, saw, hidden>>
        BY <1>2 DEF StoreMoves, DagBuilt, allVars, worldVars, askVars, stepVars
    <2>. QED BY <1>1, <2>1
<1>3. CASE RootLost
    BY <1>1, <1>3 DEF RootLost, askVars, stepVars
<1>4. CASE RootsBack
    BY <1>1, <1>4 DEF RootsBack, stepVars
<1>5. ASSUME NEW r \in Reader, NEW op \in Op, NEW s \in Subject, Begin(r, op, s)
      PROVE  /\ pc'[u] = "read" => stamp'[f] > 0
             /\ pc'[u] = "answer" => saw'[u][f] > 0 \/ f \in hidden'
    <2>1. /\ UNCHANGED <<saw, hidden, stamp>>
          /\ due' = [due EXCEPT ![r] = {g \in FieldKey : stamp[g] > 0}]
          /\ \E c \in {"idle", "read"} : pc' = [pc EXCEPT ![r] = c]
        BY <1>5 DEF Begin, Raise, worldVars, maskVars
    <2>. QED BY <2>1
<1>6. ASSUME NEW r \in Reader, Read(r)
      PROVE  /\ pc'[u] = "read" => stamp'[f] > 0
             /\ pc'[u] = "answer" => saw'[u][f] > 0 \/ f \in hidden'
    <2>1. UNCHANGED <<stamp, due, hidden>> /\ pc' = [pc EXCEPT ![r] = "answer"]
        BY <1>6 DEF Read, worldVars, maskVars, askVars
    <2>2. saw'[u][f] = IF u # r THEN saw[u][f] ELSE IF f \in hidden THEN 0 ELSE stamp[f]
        BY <1>1, <1>6 DEF Read
    <2>. QED BY <1>6, <2>1, <2>2 DEF Read
<1>7. ASSUME NEW r \in Reader, ReadRetried(r)
      PROVE  UNCHANGED <<stamp, due, hidden, pc, saw>>
    BY <1>7 DEF ReadRetried, worldVars, maskVars, askVars
<1>8. ASSUME NEW r \in Reader,
             \/ ReadFails(r) \/ LookupRaises(r)
             \/ TellExists(r) \/ TellRemoved(r) \/ TellListed(r)
      PROVE  /\ UNCHANGED <<stamp, due, hidden, saw>>
             /\ pc' = [pc EXCEPT ![r] = "idle"]
    BY <1>8 DEF ReadFails, LookupRaises, Raise, TellExists, TellRemoved, TellListed,
       Tells, worldVars, maskVars, askVars
<1>. QED BY <1>2, <1>3, <1>4, <1>5, <1>6, <1>7, <1>8 DEF LookupsNext, ReaderStep

-----------------------------------------------------------------------------
(* A provider's settings are fixed when it is built.                       *)
LEMMA SettingsStay ==
    ASSUME [LookupsNext]_allVars PROVE UNCHANGED settings
<1>1. CASE StoreMoves \/ RootLost \/ RootsBack \/ DagBuilt \/ UNCHANGED allVars
    BY <1>1 DEF StoreMoves, RootLost, RootsBack, DagBuilt, allVars, worldVars
<1>2. ASSUME NEW r \in Reader, NEW op \in Op, NEW s \in Subject, Begin(r, op, s)
      PROVE  UNCHANGED settings
    BY <1>2 DEF Begin, worldVars
<1>3. ASSUME NEW r \in Reader, ReaderStep(r) PROVE UNCHANGED settings
    BY <1>3 DEF ReaderStep, Read, ReadRetried, ReadFails, LookupRaises, TellExists, TellRemoved,
       TellListed, Tells, worldVars
<1>. QED BY <1>1, <1>2, <1>3 DEF LookupsNext

(* The store accepts only what is all there.                               *)
LEMMA AcceptedStayCounted ==
    ASSUME LookupsTypeOK, AcceptedCounts, [LookupsNext]_allVars
    PROVE  AcceptedCounts'
<1>1. CASE StoreMoves
    <2>1. UNCHANGED accepted \/ \E q \in Output : MaskAccept(q, 1)
        BY <1>1 DEF StoreMoves, MaskTick
    <2>. QED BY <2>1 DEF MaskAccept, Stored, AcceptedCounts
<1>2. CASE ~ StoreMoves
    <2>1. ASSUME RootLost \/ RootsBack \/ DagBuilt \/ UNCHANGED allVars
          PROVE  UNCHANGED accepted
        BY <2>1 DEF RootLost, RootsBack, DagBuilt, allVars, worldVars, maskVars
    <2>2. ASSUME NEW r \in Reader, NEW op \in Op, NEW s \in Subject, Begin(r, op, s)
          PROVE  UNCHANGED accepted
        BY <2>2 DEF Begin, worldVars, maskVars
    <2>3. ASSUME NEW r \in Reader, ReaderStep(r) PROVE UNCHANGED accepted
        BY <2>3 DEF ReaderStep, Read, ReadRetried, ReadFails, LookupRaises, TellExists,
           TellRemoved, TellListed, Tells, worldVars, maskVars
    <2>4. UNCHANGED accepted
        BY <1>2, <2>1, <2>2, <2>3 DEF LookupsNext
    <2>. QED BY <2>4 DEF AcceptedCounts
<1>. QED BY <1>1, <1>2

(* Under canonical_spelling=error a lookup goes on only for a canonical    *)
(* query.                                                                  *)
LEMMA SpellingStaysAnswered ==
    ASSUME LookupsTypeOK, AnsweredSpelling, [LookupsNext]_allVars
    PROVE  AnsweredSpelling'
<1> USE DEF AnsweredSpelling, Query
<1>1. \A q : Misspelt(q)' <=> Misspelt(q)
    BY SettingsStay DEF Misspelt
<1>2. CASE UNCHANGED <<pc, asked, known>>
    BY <1>1, <1>2
<1>3. ASSUME NEW r \in Reader, NEW op \in Op, NEW s \in Subject, Begin(r, op, s)
      PROVE  AnsweredSpelling'
    <2>1. /\ UNCHANGED known /\ asked' = [asked EXCEPT ![r] = [op |-> op, about |-> s]]
          /\ \E c \in {"idle", "read"} : pc' = [pc EXCEPT ![r] = c]
        BY <1>3 DEF Begin, Raise, toldVars
    <2>2. pc'[r] # "idle" /\ op # "glob" => ~ Misspelt(s.query)
        BY <1>3 DEF Begin, Raise, LookupsTypeOK
    <2>. QED BY <1>1, <2>1, <2>2 DEF LookupsTypeOK
<1>4. ASSUME NEW r \in Reader, Read(r) PROVE AnsweredSpelling'
    BY <1>1, <1>4 DEF Read, askVars, toldVars, LookupsTypeOK
<1>5. ASSUME NEW r \in Reader,
             \/ ReadFails(r) \/ LookupRaises(r)
             \/ TellExists(r) \/ TellRemoved(r) \/ TellListed(r)
      PROVE  AnsweredSpelling'
    <2>1. UNCHANGED asked /\ pc' = [pc EXCEPT ![r] = "idle"]
        BY <1>5 DEF ReadFails, LookupRaises, Raise, TellExists, TellRemoved, TellListed,
           Tells, askVars
    <2>2. \/ known' = known
          \/ known' = known \cup {Query(r)} /\ pc[r] # "idle" /\ asked[r].op # "glob"
        BY <1>5 DEF ReadFails, LookupRaises, TellExists, TellRemoved, TellListed, Tells,
           toldVars
    <2>. QED BY <1>1, <2>1, <2>2 DEF LookupsTypeOK
<1>6. CASE StoreMoves \/ RootLost \/ RootsBack \/ DagBuilt \/ UNCHANGED allVars
           \/ \E r \in Reader : ReadRetried(r)
    BY <1>2, <1>6 DEF StoreMoves, RootLost, RootsBack, DagBuilt, ReadRetried, allVars,
       askVars, stepVars, toldVars
<1>. QED BY <1>3, <1>4, <1>5, <1>6 DEF LookupsNext, ReaderStep

(* As many fields as the query counts are the fields it names.             *)
LEMMA FoundIsNamed ==
    ASSUME LookupsTypeOK, CataloguesPast, SchemaReadable, NEW r \in Reader,
           asked[r].op # "glob", Expandable(Query(r)),
           Cardinality(Found(r)) >= Expected(Query(r))
    PROVE  /\ Found(r) = Named(Query(r))
           /\ Cardinality(Named(Query(r))) = Expected(Query(r))
           /\ \A f \in Named(Query(r)) : f \in FieldKey /\ stamp[f] > 0
<1>1. Found(r) = Named(Query(r)) /\ Cardinality(Named(Query(r))) = Expected(Query(r))
    BY FoundIsCounted, QueryTyped, CountingSuffices
<1>2. ASSUME NEW f \in Found(r) PROVE f \in FieldKey /\ stamp[f] > 0
    <2>1. f \in FieldKey /\ saw[r][f] > 0 /\ saw[r][f] <= stamp[f]
        BY FoundIsCounted DEF CataloguesPast
    <2>. QED BY <2>1 DEF LookupsTypeOK
<1>. QED BY <1>1, <1>2

(* What was called complete was, and fields only get more recent.          *)
LEMMA KnownStays ==
    ASSUME LookupsTypeOK, CataloguesPast, KnownStaysComplete, [LookupsNext]_allVars
    PROVE  KnownStaysComplete'
<1> SUFFICES ASSUME SchemaReadable, NEW q \in known', Expandable(q)
             PROVE  /\ Cardinality(Named(q)) = Expected(q)
                    /\ \A f \in Named(q) : f \in FieldKey /\ stamp'[f] > 0
    BY DEF KnownStaysComplete
<1>1. \A f \in FieldKey : stamp[f] > 0 => stamp'[f] > 0
    BY FieldsGrow, NextTyped DEF LookupsTypeOK
<1>2. CASE q \in known
    BY <1>1, <1>2 DEF KnownStaysComplete
<1>3. CASE q \notin known
    <2>1. \E r \in Reader : TellExists(r) \/ TellRemoved(r)
        BY <1>3 DEF LookupsNext, ReaderStep, StoreMoves, RootLost, RootsBack, DagBuilt,
           Begin, Read, ReadRetried, ReadFails, LookupRaises, TellListed, allVars, toldVars
    <2>2. PICK r \in Reader : TellExists(r) \/ TellRemoved(r)
        BY <2>1
    <2>3. /\ q = Query(r) /\ asked[r].op # "glob"
          /\ Complete(q, Found(r)) \/ LooksComplete(q, Found(r))
        BY <1>3, <2>2 DEF TellExists, TellRemoved
    <2>4. Cardinality(Found(r)) >= Expected(q)
        <3>1. Expected(q) \in Nat
            BY <2>3, QueryTyped, NamedAtMostExpected
        <3>. QED BY <2>3, <3>1 DEF Complete, LooksComplete
    <2>. QED BY <1>1, <2>3, <2>4, FoundIsNamed
<1>. QED BY <1>2, <1>3

(* An answer is about every field FDB had when its lookup began.           *)
LEMMA AnswersStayFresh ==
    ASSUME LookupsTypeOK, CataloguesPast, DueIsRead, FreshAnswers, [LookupsNext]_allVars
    PROVE  FreshAnswers'
<1> SUFFICES ASSUME SchemaReadable, NEW u \in Reader, said'[u].kind = "told",
                    asked'[u].op # "glob", Expandable(asked'[u].about.query),
                    NEW f \in due'[u], Counted(asked'[u].about.query, f)
             PROVE  f \in said'[u].fields
    BY DEF FreshAnswers, Query
<1> USE DEF LookupsTypeOK, Query
<1>1. CASE /\ UNCHANGED <<said, asked>>
           /\ due'[u] \subseteq due[u]
    BY <1>1 DEF FreshAnswers
<1>2. ASSUME NEW r \in Reader, Tells(r) PROVE f \in said'[u].fields
    <2>1. UNCHANGED <<asked, due, hidden>>
        BY <1>2 DEF Tells, worldVars, askVars
    <2>2. said' = [said EXCEPT ![r] = [kind |-> "told", fields |-> Found(r)]]
        BY <1>2 DEF Tells
    <2>3. CASE u # r
        BY <2>1, <2>2, <2>3 DEF FreshAnswers
    <2>4. CASE u = r
        <3>1. f \in FieldKey /\ (saw[r][f] > 0 \/ f \in hidden)
            BY <1>2, <2>1, <2>4 DEF Tells, DueIsRead
        <3>2. CASE saw[r][f] > 0
            BY <2>1, <2>2, <2>4, <3>1, <3>2 DEF Found, Concerns
        <3>3. CASE f \in hidden
            <4>1. ~ Cardinality(Found(r)) < Expected(Query(r))
                BY <1>2, <2>1, <2>4, <3>3 DEF Tells, RootsUnreadable
            <4>2. IsFiniteSet(Named(Query(r))) /\ Expected(Query(r)) \in Nat
                BY <2>1, <2>4, QueryTyped, NamedAtMostExpected
            <4>3. Found(r) \subseteq Named(Query(r))
                BY <2>1, <2>4, FoundIsCounted, CountedIsNamed
            <4>4. Cardinality(Found(r)) \in Nat
                BY <4>2, <4>3, FS_Subset, FS_CardinalityType
            <4>5. Found(r) = Named(Query(r))
                BY <2>1, <2>4, <4>1, <4>2, <4>4, FoundIsNamed
            <4>6. f \in Named(Query(r))
                BY <2>1, <2>4, <3>1, CountedIsNamed
            <4>. QED BY <2>2, <2>4, <4>5, <4>6
        <3>. QED BY <3>1, <3>2, <3>3
    <2>. QED BY <2>3, <2>4
<1>3. ASSUME NEW r \in Reader, NEW op, Raise(r, op), UNCHANGED <<asked, due>>
      PROVE  f \in said'[u].fields
    <2>1. u # r
        BY <1>3 DEF Raise
    <2>. QED BY <1>3, <2>1 DEF Raise, FreshAnswers
<1>4. ASSUME NEW r \in Reader, NEW op \in Op, NEW s \in Subject, Begin(r, op, s)
      PROVE  f \in said'[u].fields
    <2>1. said'[r].kind # "told" /\ (u # r => said'[u] = said[u])
        BY <1>4 DEF Begin, Raise, Unanswered
    <2>2. u # r => asked'[u] = asked[u] /\ due'[u] = due[u]
        BY <1>4 DEF Begin
    <2>. QED BY <2>1, <2>2 DEF FreshAnswers
<1>5. CASE StoreMoves \/ RootLost \/ DagBuilt \/ UNCHANGED allVars
           \/ \E r \in Reader : Read(r) \/ ReadRetried(r)
    BY <1>1, <1>5 DEF StoreMoves, RootLost, DagBuilt, Read, ReadRetried, allVars,
       askVars, stepVars
<1>6. CASE RootsBack
    BY <1>1, <1>6 DEF RootsBack, stepVars
<1>7. ASSUME NEW r \in Reader, ReadFails(r) \/ LookupRaises(r)
      PROVE  Raise(r, asked[r].op) /\ UNCHANGED <<asked, due>>
    BY <1>7 DEF ReadFails, LookupRaises, askVars
<1>. QED BY <1>2, <1>3, <1>4, <1>5, <1>6, <1>7
         DEF LookupsNext, ReaderStep, TellExists, TellRemoved, TellListed

(* An answer is made of what was found.                                    *)
LEMMA AnswersStayCounted ==
    ASSUME LookupsTypeOK, AnswersCount, [LookupsNext]_allVars
    PROVE  AnswersCount'
<1> USE DEF LookupsTypeOK, AnswersCount, Query
<1>1. CASE UNCHANGED <<said, asked>>
    BY <1>1
<1>2. ASSUME NEW r \in Reader, Tells(r) PROVE AnswersCount'
    <2>1. UNCHANGED asked /\ said' = [said EXCEPT ![r] = [kind |-> "told", fields |-> Found(r)]]
        BY <1>2 DEF Tells, askVars
    <2>. QED BY <2>1, FoundIsCounted
<1>3. ASSUME NEW r \in Reader, ReadFails(r) \/ LookupRaises(r) PROVE AnswersCount'
    <2>1. UNCHANGED asked /\ said'[r].kind # "told" /\ \A u \in Reader : u # r => said'[u] = said[u]
        BY <1>3 DEF ReadFails, LookupRaises, Raise, askVars
    <2>. QED BY <2>1
<1>4. ASSUME NEW r \in Reader, NEW op \in Op, NEW s \in Subject, Begin(r, op, s)
      PROVE  AnswersCount'
    <2>1. /\ asked' = [asked EXCEPT ![r] = [op |-> op, about |-> s]]
          /\ said'[r].kind # "told" /\ \A u \in Reader : u # r => said'[u] = said[u]
        BY <1>4 DEF Begin, Raise, Unanswered
    <2>. QED BY <2>1
<1>5. CASE StoreMoves \/ RootLost \/ RootsBack \/ DagBuilt \/ UNCHANGED allVars
           \/ \E r \in Reader : Read(r) \/ ReadRetried(r)
    BY <1>1, <1>5 DEF StoreMoves, RootLost, RootsBack, DagBuilt, Read, ReadRetried, allVars,
       askVars, stepVars
<1>. QED BY <1>2, <1>3, <1>4, <1>5
         DEF LookupsNext, ReaderStep, TellExists, TellRemoved, TellListed

(* A field gets newer only by an archive, in the current second.           *)
LEMMA ArchivedNow ==
    ASSUME LookupsTypeOK, [LookupsNext]_allVars, NEW f \in FieldKey
    PROVE  stamp'[f] \in {stamp[f], clock} /\ clock' >= clock
<1>1. CASE StoreMoves
    BY <1>1 DEF StoreMoves, MaskTick, Masks, MaskAccept, LookupsTypeOK
<1>2. CASE \/ RootLost \/ RootsBack \/ DagBuilt \/ UNCHANGED allVars
           \/ \E r \in Reader, op \in Op, s \in Subject : Begin(r, op, s)
    BY <1>2 DEF RootLost, RootsBack, DagBuilt, Begin, allVars, worldVars, maskVars, LookupsTypeOK
<1>3. ASSUME NEW r \in Reader, ReaderStep(r) PROVE UNCHANGED <<stamp, clock>>
    BY <1>3 DEF ReaderStep, Read, ReadRetried, ReadFails, LookupRaises, TellExists,
       TellRemoved, TellListed, Tells, worldVars, maskVars
<1>. QED BY <1>1, <1>2, <1>3 DEF LookupsNext, LookupsTypeOK

(* Only an inventory's answer changes what is cached.                      *)
LEMMA CachedBy ==
    ASSUME [LookupsNext]_allVars, NEW q \in DOMAIN cache',
           ~ (q \in DOMAIN cache /\ cache'[q] = cache[q])
    PROVE  \E r \in Reader :
            /\ TellExists(r) /\ q = Query(r) /\ asked[r].op # "glob"
            /\ cache'[q].exists = Complete(q, Found(r))
            /\ Complete(q, Found(r)) => cache'[q].mtime = Latest(r, Found(r))
            /\ cache'[q].begun = begun[r]
<1>1. PICK r \in Reader : TellExists(r)
    BY DEF LookupsNext, ReaderStep, StoreMoves, RootLost, RootsBack, DagBuilt,
       Begin, Read, ReadRetried, ReadFails, LookupRaises, TellRemoved, TellListed,
       allVars, toldVars
<1>2. asked[r].op = "inventory" /\ q = Query(r)
    BY <1>1 DEF TellExists
<1>. QED BY <1>1, <1>2 DEF TellExists

(* What a lookup saw is how FDB is, or was when the lookup had begun.      *)
LEMMA NewerStaysSince ==
    ASSUME LookupsTypeOK, CataloguesPast, NewerIsSince, [LookupsNext]_allVars
    PROVE  NewerIsSince'
<1>1. clock \in Nat /\ clock' \in Nat /\ begun \in [Reader -> Nat]
    BY NextTyped DEF LookupsTypeOK
<1>2. clock' >= clock
    <2>1. CASE StoreMoves
        BY <1>1, <2>1 DEF StoreMoves, MaskTick, MaskAccept
    <2>2. CASE ~ StoreMoves
        <3>1. UNCHANGED clock
            BY <2>2 DEF LookupsNext, RootLost, RootsBack, DagBuilt, Begin, ReaderStep, Read,
               ReadRetried, ReadFails, LookupRaises, TellExists, TellRemoved, TellListed,
               Tells, worldVars, maskVars, allVars
        <3>. QED BY <1>1, <3>1
    <2>. QED BY <2>1, <2>2
<1>3. ASSUME NEW u \in Reader
      PROVE  /\ begun'[u] <= clock'
             /\ pc'[u] = "answer" => \A f \in FieldKey :
                    saw'[u][f] = 0 \/ stamp'[f] = saw'[u][f] \/ stamp'[f] >= begun'[u]
    <2>1. ASSUME begun'[u] = begun[u], pc'[u] = "answer" => pc[u] = "answer",
                 saw'[u] = saw[u]
          PROVE  /\ begun'[u] <= clock'
                 /\ pc'[u] = "answer" => \A f \in FieldKey :
                        saw'[u][f] = 0 \/ stamp'[f] = saw'[u][f] \/ stamp'[f] >= begun'[u]
        <3>1. begun[u] <= clock /\ begun[u] \in Nat
            BY <1>1 DEF NewerIsSince
        <3>2. ASSUME pc[u] = "answer", NEW f \in FieldKey
              PROVE  saw[u][f] = 0 \/ stamp'[f] = saw[u][f] \/ stamp'[f] >= begun[u]
            <4>1. saw[u][f] = 0 \/ stamp[f] = saw[u][f] \/ stamp[f] >= begun[u]
                BY <3>2 DEF NewerIsSince
            <4>2. stamp'[f] \in {stamp[f], clock}
                BY ArchivedNow
            <4>. QED BY <3>1, <4>1, <4>2
        <3>. QED BY <1>1, <1>2, <2>1, <3>1, <3>2
    <2>2. CASE StoreMoves \/ RootLost \/ RootsBack \/ DagBuilt \/ UNCHANGED allVars
        BY <2>1, <2>2 DEF StoreMoves, RootLost, RootsBack, DagBuilt, allVars, askVars, stepVars
    <2>3. ASSUME NEW r \in Reader, NEW op \in Op, NEW s \in Subject, Begin(r, op, s)
          PROVE  /\ begun'[u] <= clock'
                 /\ pc'[u] = "answer" => \A f \in FieldKey :
                        saw'[u][f] = 0 \/ stamp'[f] = saw'[u][f] \/ stamp'[f] >= begun'[u]
        <3>1. /\ begun' = [begun EXCEPT ![r] = clock] /\ UNCHANGED <<saw, clock>>
              /\ \E c \in {"idle", "read"} : pc' = [pc EXCEPT ![r] = c]
            BY <2>3 DEF Begin, Raise, worldVars, maskVars
        <3>2. CASE u = r
            BY <1>1, <3>1, <3>2 DEF LookupsTypeOK
        <3>3. CASE u # r
            BY <2>1, <3>1, <3>3 DEF LookupsTypeOK
        <3>. QED BY <3>2, <3>3
    <2>4. ASSUME NEW r \in Reader, Read(r)
          PROVE  /\ begun'[u] <= clock'
                 /\ pc'[u] = "answer" => \A f \in FieldKey :
                        saw'[u][f] = 0 \/ stamp'[f] = saw'[u][f] \/ stamp'[f] >= begun'[u]
        <3>1. UNCHANGED <<begun, stamp, clock>> /\ pc' = [pc EXCEPT ![r] = "answer"]
            BY <2>4 DEF Read, worldVars, maskVars, askVars
        <3>2. CASE u = r
            <4>1. \A f \in FieldKey : saw'[u][f] \in {0, stamp[f]}
                BY <2>4, <3>2 DEF Read, LookupsTypeOK
            <4>. QED BY <3>1, <3>2, <4>1 DEF NewerIsSince
        <3>3. CASE u # r
            <4>1. saw'[u] = saw[u]
                BY <2>4, <3>3 DEF Read
            <4>. QED BY <2>1, <3>1, <3>3, <4>1
        <3>. QED BY <3>2, <3>3
    <2>5. ASSUME NEW r \in Reader,
                 \/ ReadRetried(r) \/ ReadFails(r) \/ LookupRaises(r)
                 \/ TellExists(r) \/ TellRemoved(r) \/ TellListed(r)
          PROVE  /\ UNCHANGED <<begun, saw>>
                 /\ pc' \in {pc, [pc EXCEPT ![r] = "idle"]}
        BY <2>5 DEF ReadRetried, ReadFails, LookupRaises, Raise, TellExists, TellRemoved,
           TellListed, Tells, askVars
    <2>6. ASSUME NEW r \in Reader, pc' \in {pc, [pc EXCEPT ![r] = "idle"]}
          PROVE  pc'[u] = "answer" => pc[u] = "answer"
        BY <2>6 DEF LookupsTypeOK
    <2>. QED BY <2>1, <2>2, <2>3, <2>4, <2>5, <2>6 DEF LookupsNext, ReaderStep
<1>4. ASSUME NEW q \in DOMAIN cache' PROVE cache'[q].begun <= clock'
    <2>1. CASE q \in DOMAIN cache /\ cache'[q] = cache[q]
        BY <1>1, <1>2, <2>1 DEF NewerIsSince, LookupsTypeOK
    <2>2. CASE ~ (q \in DOMAIN cache /\ cache'[q] = cache[q])
        <3>1. PICK r \in Reader : cache'[q].begun = begun[r]
            BY <2>2, CachedBy
        <3>. QED BY <1>1, <1>2, <3>1 DEF NewerIsSince
    <2>. QED BY <2>1, <2>2
<1>. QED BY <1>3, <1>4 DEF NewerIsSince

(* What the inventory cached of a complete object stays true of its fields.*)
LEMMA InventoryStays ==
    ASSUME LookupsTypeOK, CataloguesPast, NewerIsSince, InventoryHolds,
           [LookupsNext]_allVars
    PROVE  InventoryHolds'
<1> SUFFICES ASSUME SchemaReadable, NEW q \in DOMAIN cache', cache'[q].exists,
                    Expandable(q)
             PROVE  /\ Cardinality(Named(q)) = Expected(q)
                    /\ \A f \in Named(q) :
                        /\ f \in FieldKey /\ stamp'[f] > 0
                        /\ stamp'[f] <= cache'[q].mtime \/ stamp'[f] >= cache'[q].begun
                    /\ \E f \in Named(q) : stamp'[f] >= cache'[q].mtime
    BY DEF InventoryHolds
<1>1. /\ stamp \in [FieldKey -> Nat] /\ stamp' \in [FieldKey -> Nat]
      /\ \A f \in FieldKey : stamp'[f] >= stamp[f] /\ stamp'[f] \in {stamp[f], clock}
      /\ clock \in Nat
    BY FieldsGrow, NextTyped, ArchivedNow DEF LookupsTypeOK
<1>2. CASE q \in DOMAIN cache /\ cache'[q] = cache[q]
    <2>1. /\ cache[q].mtime \in Nat /\ cache[q].begun \in Nat
          /\ cache[q].begun <= clock
        BY <1>2 DEF LookupsTypeOK, NewerIsSince
    <2>2. ASSUME NEW f \in Named(q)
          PROVE  /\ f \in FieldKey /\ stamp'[f] > 0
                 /\ stamp'[f] <= cache[q].mtime \/ stamp'[f] >= cache[q].begun
        <3>1. /\ f \in FieldKey /\ stamp[f] > 0
              /\ stamp[f] <= cache[q].mtime \/ stamp[f] >= cache[q].begun
            BY <1>2 DEF InventoryHolds
        <3>2. stamp[f] \in Nat /\ stamp'[f] \in Nat
              /\ stamp'[f] >= stamp[f] /\ stamp'[f] \in {stamp[f], clock}
            BY <1>1, <3>1
        <3>. QED BY <2>1, <3>1, <3>2
    <2>3. PICK f \in Named(q) : stamp[f] >= cache[q].mtime
        BY <1>2 DEF InventoryHolds
    <2>4. stamp'[f] >= cache[q].mtime
        <3>1. f \in FieldKey
            BY <2>2, <2>3
        <3>. QED BY <1>1, <2>1, <2>3, <3>1
    <2>5. Cardinality(Named(q)) = Expected(q)
        BY <1>2 DEF InventoryHolds
    <2>. QED BY <1>2, <2>2, <2>3, <2>4, <2>5
<1>3. CASE ~ (q \in DOMAIN cache /\ cache'[q] = cache[q])
    <2>1. PICK r \in Reader :
            /\ TellExists(r) /\ q = Query(r) /\ asked[r].op # "glob"
            /\ Complete(q, Found(r)) /\ cache'[q].mtime = Latest(r, Found(r))
            /\ cache'[q].begun = begun[r]
        BY <1>3, CachedBy
    <2>2. pc[r] = "answer" /\ UNCHANGED stamp
        BY <2>1 DEF TellExists, Tells, worldVars, maskVars
    <2>3. Found(r) = Named(q) /\ Cardinality(Named(q)) = Expected(q)
        <3>1. Cardinality(Found(r)) >= Expected(q)
            <4>1. Cardinality(Found(r)) = Expected(q) /\ Expected(q) > 0
                BY <2>1 DEF Complete
            <4>2. Expected(q) \in Nat
                BY <2>1, QueryTyped, NamedAtMostExpected
            <4>. QED BY <4>1, <4>2
        <3>. QED BY <2>1, <3>1, FoundIsNamed
    <2>4. /\ Found(r) # {} /\ Found(r) \in SUBSET FieldKey
          /\ \A f \in Found(r) : saw[r][f] > 0
        BY <2>1, CompleteHasFields, FoundIsCounted
    <2>5. /\ \E f \in Found(r) : Latest(r, Found(r)) = saw[r][f]
          /\ \A f \in Found(r) : saw[r][f] <= Latest(r, Found(r))
        BY <2>4, LatestIsSeen
    <2>6. ASSUME NEW f \in Named(q)
          PROVE  /\ f \in FieldKey /\ stamp[f] > 0 /\ saw[r][f] <= stamp[f]
                 /\ stamp[f] <= Latest(r, Found(r)) \/ stamp[f] >= begun[r]
        <3>1. f \in FieldKey /\ saw[r][f] > 0 /\ saw[r][f] <= Latest(r, Found(r))
            BY <2>3, <2>4, <2>5
        <3>2. saw[r][f] \in Nat /\ stamp[f] \in Nat /\ saw[r][f] <= stamp[f]
            BY <3>1 DEF LookupsTypeOK, CataloguesPast
        <3>3. saw[r][f] = 0 \/ stamp[f] = saw[r][f] \/ stamp[f] >= begun[r]
            BY <2>2, <3>1 DEF NewerIsSince
        <3>. QED BY <3>1, <3>2, <3>3
    <2>7. PICK f \in Named(q) : Latest(r, Found(r)) = saw[r][f]
        BY <2>3, <2>5
    <2>8. stamp[f] >= Latest(r, Found(r))
        <3>1. f \in FieldKey /\ saw[r][f] <= stamp[f]
            BY <2>6
        <3>. QED BY <2>7, <3>1 DEF LookupsTypeOK
    <2>. QED BY <2>1, <2>2, <2>3, <2>6, <2>8
<1>. QED BY <1>2, <1>3

(* A field that a glob saw counts for the candidate made from it.          *)
LEMMA CandidateCounts ==
    ASSUME NEW r \in Reader, asked[r].op = "glob", NEW f \in Found(r),
           NEW q, q = Substituted(asked[r].about, f), DOMAIN q.vals = IndexedKey
    PROVE  f \in FieldKey /\ Counted(q, f)
<1> DEFINE p == asked[r].about
<1>1. /\ f \in FieldKey /\ Lists(p.query, f) /\ p.wild \subseteq DOMAIN f
    BY DEF Found, Concerns, Query
<1>2. q.vals = [k \in DOMAIN p.query.vals \cup p.wild |->
                IF k \in p.wild THEN {f[k]} ELSE p.query.vals[k]]
    BY DEF Substituted
<1>3. DOMAIN f \subseteq IndexedKey
    BY <1>1, FieldKeyFunction
<1>4. ASSUME NEW k \in DOMAIN f PROVE f[k] \in {Canonical[v] : v \in q.vals[k]}
    <2>1. CASE k \in p.wild
        <3>1. PICK v \in ValuesOf[k] : f[k] = Canonical[v]
            BY <1>1 DEF FieldKey
        <3>2. k \in Key
            BY <1>3, RequestsAssumption DEF IndexedKey
        <3>3. v \in Spelling
            BY <3>1, <3>2, RequestsAssumption
        <3>4. Canonical[f[k]] = f[k]
            BY <3>1, <3>3, RequestsAssumption
        <3>. QED BY <1>2, <2>1, <3>4
    <2>2. CASE k \notin p.wild
        <3>1. k \in DOMAIN p.query.vals
            BY <1>2, <1>3, <2>2
        <3>. QED BY <1>1, <1>2, <2>2, <3>1 DEF Lists
    <2>. QED BY <2>1, <2>2
<1>5. IndexedKey \subseteq DOMAIN f
    BY <1>1, <1>2 DEF Lists
<1>. QED BY <1>1, <1>3, <1>4, <1>5 DEF Counted, Matched, IndexedKeys

(* A query with one value per key expands to one combination, so that one  *)
(* field completes it.                                                     *)
LEMMA SingleIsComplete ==
    ASSUME SchemaReadable, NEW q, Expandable(q),
           \A k \in DOMAIN q.vals : \E v \in Spelling : q.vals[k] = {v},
           NEW F \in SUBSET FieldKey, F # {}, \A f \in F : Counted(q, f)
    PROVE  Complete(q, F)
<1>1. PICK f \in F : TRUE
    OBVIOUS
<1>2. ASSUME NEW g \in F PROVE g = f
    <2>1. /\ DOMAIN f = DOMAIN q.vals \cap IndexedKey /\ f \in [DOMAIN f -> Spelling]
          /\ DOMAIN g = DOMAIN q.vals \cap IndexedKey /\ g \in [DOMAIN g -> Spelling]
          /\ \A k \in DOMAIN f : f[k] \in {Canonical[v] : v \in q.vals[k]}
          /\ \A k \in DOMAIN g : g[k] \in {Canonical[v] : v \in q.vals[k]}
        BY <1>1, CountedIsNamed DEF Named
    <2>2. \A k \in DOMAIN f : f[k] = g[k]
        BY <2>1
    <2>. QED BY <2>1, <2>2
<1>3. ASSUME NEW k \in DOMAIN q.vals
      PROVE  \E v \in Spelling : Expanded(q)[k] = {v}
    <2>1. PICK v \in Spelling : q.vals[k] = {v}
        OBVIOUS
    <2>2. Expanded(q)[k] \in {{v}, {Canonical[v]}} /\ Canonical[v] \in Spelling
        BY <2>1, RequestsAssumption DEF Expanded, Expansion, Expandable
    <2>. QED BY <2>1, <2>2
<1> DEFINE c == [k \in DOMAIN q.vals |-> CHOOSE v \in Spelling : Expanded(q)[k] = {v}]
<1>4. \A k \in DOMAIN q.vals : c[k] \in Spelling /\ Expanded(q)[k] = {c[k]}
    BY <1>3
<1>5. Combinations(q) = {c}
    <2>1. c \in Combinations(q)
        BY <1>4 DEF Combinations
    <2>2. ASSUME NEW d \in Combinations(q) PROVE d = c
        <3>1. d \in [DOMAIN q.vals -> Spelling] /\ \A k \in DOMAIN q.vals : d[k] = c[k]
            BY <1>4 DEF Combinations
        <3>. QED BY <3>1
    <2>. HIDE DEF c
    <2>. QED BY <2>1, <2>2
<1>6. F = {f}
    BY <1>1, <1>2
<1>. HIDE DEF c
<1>. QED BY <1>5, <1>6, FS_Singleton DEF Complete, Expected

(* A candidate with every key FDB indexes keeps its field.                 *)
LEMMA ListedStayFound ==
    ASSUME LookupsTypeOK, CataloguesPast, ListedAreFound, [LookupsNext]_allVars
    PROVE  ListedAreFound'
<1> SUFFICES ASSUME SchemaReadable, NEW q \in listed', DOMAIN q.vals = IndexedKey
             PROVE  LET here == {f \in FieldKey : stamp'[f] > 0 /\ Counted(q, f)}
                    IN  /\ here # {}
                        /\ /\ Expandable(q)
                           /\ \A k \in DOMAIN q.vals : Cardinality(q.vals[k]) = 1
                           => Complete(q, here)
    BY DEF ListedAreFound
<1> DEFINE here == {f \in FieldKey : stamp'[f] > 0 /\ Counted(q, f)}
<1>1. \A f \in FieldKey : stamp[f] > 0 => stamp'[f] > 0
    BY FieldsGrow, NextTyped DEF LookupsTypeOK
<1>2. here # {}
    <2>1. CASE q \in listed
        <3>1. {f \in FieldKey : stamp[f] > 0 /\ Counted(q, f)} # {}
            BY <2>1 DEF ListedAreFound
        <3>. QED BY <1>1, <3>1
    <2>2. CASE q \notin listed
        <3>1. PICK r \in Reader : TellListed(r)
            BY <2>2 DEF LookupsNext, ReaderStep, StoreMoves, RootLost, RootsBack, DagBuilt,
               Begin, Read, ReadRetried, ReadFails, LookupRaises, TellExists, TellRemoved,
               allVars, toldVars
        <3>2. PICK f \in Found(r) : q = Substituted(asked[r].about, f)
            BY <2>2, <3>1 DEF TellListed, Candidates
        <3>3. f \in FieldKey /\ Counted(q, f)
            BY <3>1, <3>2, CandidateCounts DEF TellListed
        <3>4. saw[r][f] > 0 /\ saw[r][f] <= stamp[f] /\ saw[r][f] \in Nat /\ stamp[f] \in Nat
            BY <3>3, FoundIsCounted DEF LookupsTypeOK, CataloguesPast
        <3>. QED BY <1>1, <3>3, <3>4
    <2>. QED BY <2>1, <2>2
<1>3. ASSUME Expandable(q), \A k \in DOMAIN q.vals : Cardinality(q.vals[k]) = 1
      PROVE  Complete(q, here)
    <2>1. ASSUME NEW k \in DOMAIN q.vals PROVE \E v \in Spelling : q.vals[k] = {v}
        <3>1. q.vals[k] \subseteq Spelling
            BY NextTyped DEF LookupsTypeOK
        <3>2. PICK v : q.vals[k] = {v}
            BY <1>3, <3>1, RequestsAssumption, FS_Subset, FS_Singleton
        <3>. QED BY <3>1, <3>2
    <2>. QED BY <1>2, <1>3, <2>1, SingleIsComplete
<1>. QED BY <1>2, <1>3

-----------------------------------------------------------------------------
(* The inductive invariant holds initially and is kept by every step.      *)
LEMMA LookupsInvHolds ==
    /\ LookupsInit => LookupsInv
    /\ LookupsInv /\ [LookupsNext]_allVars => LookupsInv'
<1>1. LookupsInit => LookupsInv
    <2> SUFFICES ASSUME LookupsInit PROVE LookupsInv
        OBVIOUS
    <2>1. CataloguesPast /\ DueIsRead /\ AcceptedCounts /\ AnsweredSpelling
        BY DEF LookupsInit, MaskInit, CataloguesPast, DueIsRead, AcceptedCounts,
           AnsweredSpelling
    <2>2. KnownStaysComplete /\ FreshAnswers /\ ListedAreFound
        BY DEF LookupsInit, KnownStaysComplete, FreshAnswers, ListedAreFound, Unanswered
    <2>5. NewerIsSince
        <3>1. DOMAIN cache = {}
            BY DEF LookupsInit
        <3>. QED BY <3>1 DEF LookupsInit, MaskInit, NewerIsSince
    <2>4. AnswersCount
        BY DEF LookupsInit, AnswersCount, Unanswered
    <2>3. InventoryHolds
        <3>1. DOMAIN cache = {}
            BY DEF LookupsInit
        <3>. QED BY <3>1 DEF InventoryHolds
    <2>. QED BY <2>1, <2>2, <2>3, <2>4, <2>5, InitTyped DEF LookupsInv
<1>2. LookupsInv /\ [LookupsNext]_allVars => LookupsInv'
    BY NextTyped, FieldsGrow, NewerStaysSince, DueStaysRead, AcceptedStayCounted, SpellingStaysAnswered,
       KnownStays, AnswersStayFresh, AnswersStayCounted, InventoryStays,
       ListedStayFound DEF LookupsInv
<1>. QED BY <1>1, <1>2

(* Every variable of the read side keeps its type.                         *)
THEOREM LookupsTypeCorrect == LookupsSpec => []LookupsTypeOK
<1>1. LookupsInv => LookupsTypeOK
    BY DEF LookupsInv
<1>. QED BY <1>1, LookupsInvHolds, PTL DEF LookupsSpec

(* An answer that an object is complete holds for good, so that Snakemake  *)
(* may cache it.                                                           *)
THEOREM KnownHolds == LookupsSpec => []KnownStaysComplete
<1>1. LookupsInv => KnownStaysComplete
    BY DEF LookupsInv
<1>. QED BY <1>1, LookupsInvHolds, PTL DEF LookupsSpec

(* A lookup that ends without an error has seen every field of its query   *)
(* FDB had when it began.                                                  *)
THEOREM AnswersAreFresh == LookupsSpec => []FreshAnswers
<1>1. LookupsInv => FreshAnswers
    BY DEF LookupsInv
<1>. QED BY <1>1, LookupsInvHolds, PTL DEF LookupsSpec

(* What the inventory cached stays true: the fields are there, and those   *)
(* newer than the cached time were archived since the lookup began.        *)
THEOREM InventoryIsTrue == LookupsSpec => []InventoryHolds
<1>1. LookupsInv => InventoryHolds
    BY DEF LookupsInv
<1>. QED BY <1>1, LookupsInvHolds, PTL DEF LookupsSpec

(* The candidates of a glob whose pattern names every indexed key are      *)
(* there.                                                                  *)
THEOREM CandidatesExist == LookupsSpec => []ListedAreFound
<1>1. LookupsInv => ListedAreFound
    BY DEF LookupsInv
<1>. QED BY <1>1, LookupsInvHolds, PTL DEF LookupsSpec

(* The combinations reported missing are those no found field stands for.  *)
LEMMA MissingCounts ==
    ASSUME MetkitAvailable, SchemaReadable, NEW q, IsQuery(q),
           DOMAIN q.vals \subseteq IndexedKey,
           NEW F \in SUBSET FieldKey, \A f \in F : Counted(q, f)
    PROVE  Cardinality(Missing(q, F)) + Cardinality(F) = Expected(q)
<1>1. Combinations(q) = Named(q) /\ Expandable(q)
    BY CombinationsAreFields DEF Expandable
<1>2. F \subseteq Named(q)
    BY CountedIsNamed
<1>3. Missing(q, F) = Named(q) \ F
    <2>1. ASSUME NEW c \in Named(q), NEW f \in F
          PROVE  (\E k \in DOMAIN c : k \notin DOMAIN f \/ f[k] # c[k]) <=> c # f
        <3>1. /\ f \in [DOMAIN q.vals \cap IndexedKey -> Spelling]
              /\ c \in [DOMAIN q.vals \cap IndexedKey -> Spelling]
            BY <1>2 DEF Named
        <3>. QED BY <3>1
    <2>. QED BY <1>1, <2>1 DEF Missing
<1>4. IsFiniteSet(Named(q)) /\ Expected(q) \in Nat
    BY <1>1, NamedAtMostExpected
<1>5. Named(q) \cap F = F
    BY <1>2
<1>6. /\ Cardinality(Named(q) \ F) = Cardinality(Named(q)) - Cardinality(F)
      /\ Cardinality(Named(q)) \in Nat /\ Cardinality(F) \in Nat
    <2>1. IsFiniteSet(F)
        BY <1>2, <1>4, FS_Subset
    <2>2. Cardinality(Named(q)) \in Nat /\ Cardinality(F) \in Nat
        BY <1>4, <2>1, FS_CardinalityType
    <2>. QED BY <1>4, <1>5, <2>2, FS_Difference
<1>. QED BY <1>1, <1>3, <1>6 DEF Expected

(* What a report says is missing and what was found add up.                *)
THEOREM ReportsAreExact == LookupsSpec => []ReportsAddUp
<1>1. LookupsInv => ReportsAddUp
    <2> SUFFICES ASSUME LookupsInv, MetkitAvailable, SchemaReadable, NEW r \in Reader,
                        said[r].kind = "told", asked[r].op # "glob",
                        DOMAIN Query(r).vals \subseteq IndexedKey
                 PROVE  Cardinality(Missing(Query(r), said[r].fields))
                            + Cardinality(said[r].fields) = Expected(Query(r))
        BY DEF ReportsAddUp
    <2>1. said[r].fields \subseteq FieldKey /\ IsQuery(Query(r))
        BY QueryTyped DEF LookupsInv, LookupsTypeOK, Answer
    <2>. QED BY <2>1, MissingCounts DEF LookupsInv, AnswersCount
<1>. QED BY <1>1, LookupsInvHolds, PTL DEF LookupsSpec

(* After metkit's expansion, canonical queries that stand for the same     *)
(* fields have the same values.                                            *)
THEOREM SpellingIsUnique == LookupsSpec => []OneSpelling
<1>1. LookupsInv => OneSpelling
    <2> SUFFICES ASSUME LookupsInv, settings.spelling = "error", MetkitAvailable,
                        NEW q \in known, NEW p \in known, q.ranged = {}, p.ranged = {},
                        [k \in DOMAIN q.vals |-> {Canonical[v] : v \in q.vals[k]}]
                            = [k \in DOMAIN p.vals |-> {Canonical[v] : v \in p.vals[k]}]
                 PROVE  q.vals = p.vals
        BY DEF OneSpelling
    <2>1. Diffs(q) = {} /\ Diffs(p) = {}
        BY DEF LookupsInv, AnsweredSpelling, Misspelt
    <2>2. /\ \A k \in DOMAIN q.vals : q.vals[k] = {Canonical[v] : v \in q.vals[k]}
          /\ \A k \in DOMAIN p.vals : p.vals[k] = {Canonical[v] : v \in p.vals[k]}
        BY <2>1 DEF Diffs
    <2> DEFINE canonical(r) == [k \in DOMAIN r.vals |-> {Canonical[v] : v \in r.vals[k]}]
    <2>3. DOMAIN q.vals = DOMAIN p.vals
        <3>1. DOMAIN canonical(q) = DOMAIN q.vals /\ DOMAIN canonical(p) = DOMAIN p.vals
            OBVIOUS
        <3>. QED BY <3>1
    <2>4. ASSUME NEW k \in DOMAIN q.vals PROVE q.vals[k] = p.vals[k]
        <3>1. canonical(q)[k] = canonical(p)[k]
            OBVIOUS
        <3>. QED BY <2>2, <2>3, <3>1
    <2>5. /\ q.vals \in [DOMAIN q.vals -> SUBSET Spelling]
          /\ p.vals \in [DOMAIN p.vals -> SUBSET Spelling]
        BY LookupsAssumption DEF LookupsInv, LookupsTypeOK, IsQuery
    <2>. QED BY <2>3, <2>4, <2>5
<1>. QED BY <1>1, LookupsInvHolds, PTL DEF LookupsSpec

(* A lookup that begins after a store step succeeded, and finds every root *)
(* readable, says that its output exists.                                  *)
THEOREM StoredInputsAreFound == LookupsSpec => StoredIsFound
<1>1. LookupsInv /\ [LookupsNext]_allVars =>
        [SchemaReadable =>
            \A r \in Reader : \A a \in accepted :
                (/\ TellExists(r) /\ Query(r) = a.query /\ Expandable(a.query)
                 /\ Named(a.query) \subseteq due[r])
                => a.query \in known']_allVars
    <2> SUFFICES ASSUME LookupsInv, SchemaReadable, NEW r \in Reader, NEW a \in accepted,
                        TellExists(r), Query(r) = a.query, Expandable(a.query),
                        Named(a.query) \subseteq due[r]
                 PROVE  a.query \in known'
        OBVIOUS
    <2> DEFINE q == a.query
    <2>1. /\ asked[r].op # "glob" /\ q \in Output /\ IsQuery(q)
          /\ Cardinality(Named(q)) = Expected(q)
        BY QueryTyped DEF TellExists, LookupsInv, AcceptedCounts
    <2>2. /\ IsFiniteSet(Named(q)) /\ Expected(q) \in Nat /\ Expected(q) > 0
        BY <2>1, NamedAtMostExpected, ExpectedPositive
    <2>3. Found(r) \subseteq Named(q) /\ Cardinality(Found(r)) \in Nat
        BY <2>1, <2>2, FoundIsCounted, CountedIsNamed, FS_Subset, FS_CardinalityType
    <2>4. Found(r) = Named(q)
        <3>1. CASE Cardinality(Found(r)) >= Expected(q)
            BY <2>1, <3>1, FoundIsNamed DEF LookupsInv
        <3>2. CASE ~ Cardinality(Found(r)) >= Expected(q)
            <4>1. hidden = {}
                BY <2>1, <2>2, <2>3, <3>2 DEF TellExists, Tells, RootsUnreadable
            <4>2. ASSUME NEW f \in Named(q) PROVE f \in Found(r)
                <5>1. f \in FieldKey /\ saw[r][f] > 0
                    BY <4>1 DEF LookupsInv, LookupsTypeOK, DueIsRead, TellExists, Tells
                <5>. QED BY <2>1, <5>1, NamedIsCounted DEF Found, Concerns
            <4>. QED BY <2>3, <4>2
        <3>. QED BY <3>1, <3>2
    <2>5. Complete(q, Found(r))
        BY <2>1, <2>2, <2>4 DEF Complete
    <2>. QED BY <2>5 DEF TellExists
<1>. QED BY <1>1, LookupsInvHolds, PTL DEF LookupsSpec, StoredIsFound
=============================================================================
