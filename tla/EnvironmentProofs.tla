------------------------- MODULE EnvironmentProofs --------------------------
(***************************************************************************)
(* Theorems about the environment of a process, for any providers, any     *)
(* environment it may start with, any number of threads and generations.   *)
(***************************************************************************)
EXTENDS Environment, TLAPS

LEMMA UnsetIsEmpty == DOMAIN Unset = {}
    BY DEF Unset

(* An environment is a function from variables to settings.                *)
LEMMA EnvironmentsAreFunctions ==
    ASSUME NEW e \in FDBEnvironment
    PROVE  e = [n \in DOMAIN e |-> e[n]]
<1>1. CASE e \in {x.fdb : x \in Found}
    <2>1. IsFDBEnv(e)
        BY <1>1, EnvironmentAssumption
    <2>. QED BY <2>1 DEF IsFDBEnv
<1>2. CASE e \in {Exports[p] : p \in Provider}
    <2>1. PICK p \in Provider : e = Exports[p]
        BY <1>2
    <2>2. \/ e = [n \in {"FDB5_CONFIG"} |-> [form |-> "text", fdb |-> ConfigOf[p].fdb]]
          \/ e = [n \in {"FDB5_CONFIG", "FDB_CONFIG_FILE"} |->
                    [form |-> IF n = "FDB5_CONFIG" THEN "dump" ELSE "path",
                     fdb |-> ConfigOf[p].fdb]]
          \/ e = [n \in {"FDB_CONFIG_FILE"} |-> [form |-> "path", fdb |-> ConfigOf[p].fdb]]
          \/ e = Unset
        BY <2>1 DEF Exports
    <2>. QED BY <2>2 DEF Unset
<1>. QED BY <1>1, <1>2 DEF FDBEnvironment

(* An environment that names no other FDB and every variable of a          *)
(* provider's exports is those exports.                                    *)
LEMMA NothingForeign ==
    ASSUME TypeOK, NEW p \in Provider,
           Foreign(p) = {}, DOMAIN Exports[p] \subseteq DOMAIN environ
    PROVE  environ = Exports[p]
<1>1. /\ environ = [n \in DOMAIN environ |-> environ[n]]
      /\ Exports[p] = [n \in DOMAIN Exports[p] |-> Exports[p][n]]
    <2>1. environ \in FDBEnvironment /\ Exports[p] \in FDBEnvironment
        BY DEF TypeOK, FDBEnvironment
    <2>. QED BY <2>1, EnvironmentsAreFunctions
<1>2. \A n \in DOMAIN environ : n \in DOMAIN Exports[p] /\ environ[n] = Exports[p][n]
    BY DEF Foreign
<1>3. DOMAIN environ = DOMAIN Exports[p]
    BY <1>2
<1>. QED BY <1>1, <1>2, <1>3

(* What a provider plans to prepend is a definition path.                  *)
LEMMA PlannedPathType ==
    ASSUME TypeOK, NEW p \in Provider, NEW x \in PlannedPath(p)
    PROVE  x \in DefinitionPath
<1>1. x = Dirs[p] \o path
    BY DEF PlannedPath
<1>2. Range(Dirs[p]) \subseteq UNION {Range(Dirs[q]) : q \in Provider}
    OBVIOUS
<1>3. Dirs[p] \in DefinitionPath
    <2>1. Dirs[p] \in Seq(Range(Dirs[p]))
        BY EnvironmentAssumption
    <2>. QED BY <1>2, <2>1 DEF DefinitionPath
<1>4. path \in DefinitionPath
    BY DEF TypeOK, DefinitionPath
<1>. QED BY <1>1, <1>3, <1>4 DEF DefinitionPath

(* A suffix is what a sequence ends with.                                  *)
LEMMA SuffixMeans ==
    ASSUME NEW S, NEW u \in Seq(S), NEW x \in Seq(S)
    PROVE  IsSuffix(u, x) <=>
            /\ Len(u) <= Len(x)
            /\ \A i \in 1..Len(u) : u[i] = x[i + (Len(x) - Len(u))]
<1>. DEFINE ru == Reverse(u)  rx == Reverse(x)
<1>1. /\ ru \in Seq(S) /\ Len(ru) = Len(u)
      /\ rx \in Seq(S) /\ Len(rx) = Len(x)
      /\ \A i \in 1..Len(u) : ru[i] = u[(Len(u) - i) + 1]
      /\ \A i \in 1..Len(x) : rx[i] = x[(Len(x) - i) + 1]
    BY DEF Reverse
<1>2. IsSuffix(u, x) <=> Len(u) <= Len(x) /\ SubSeq(ru, 1, Len(u)) = SubSeq(rx, 1, Len(u))
    BY <1>1 DEF IsSuffix, IsPrefix
<1>3. ASSUME Len(u) <= Len(x)
      PROVE  SubSeq(ru, 1, Len(u)) = SubSeq(rx, 1, Len(u))
             <=> \A i \in 1..Len(u) : ru[i] = rx[i]
    <2>. HIDE DEF ru, rx
    <2>1. /\ SubSeq(ru, 1, Len(u)) = [i \in 1..Len(u) |-> ru[i]]
          /\ SubSeq(rx, 1, Len(u)) = [i \in 1..Len(u) |-> rx[i]]
        BY <1>1, <1>3
    <2>. QED BY <2>1
<1>4. ASSUME Len(u) <= Len(x)
      PROVE  (\A i \in 1..Len(u) : ru[i] = rx[i])
             <=> \A i \in 1..Len(u) : u[i] = x[i + (Len(x) - Len(u))]
    <2>. HIDE DEF ru, rx
    <2>1. ASSUME \A i \in 1..Len(u) : ru[i] = rx[i], NEW i \in 1..Len(u)
          PROVE  u[i] = x[i + (Len(x) - Len(u))]
        <3>1. (Len(u) - i) + 1 \in 1..Len(u)
            OBVIOUS
        <3>2. ru[(Len(u) - i) + 1] = u[i]
            <4>1. (Len(u) - ((Len(u) - i) + 1)) + 1 = i
                OBVIOUS
            <4>. QED BY <1>1, <3>1, <4>1
        <3>3. rx[(Len(u) - i) + 1] = x[i + (Len(x) - Len(u))]
            <4>1. (Len(x) - ((Len(u) - i) + 1)) + 1 = i + (Len(x) - Len(u))
                OBVIOUS
            <4>2. (Len(u) - i) + 1 \in 1..Len(x)
                BY <1>4, <3>1
            <4>. QED BY <1>1, <4>1, <4>2
        <3>. QED BY <2>1, <3>1, <3>2, <3>3
    <2>2. ASSUME \A i \in 1..Len(u) : u[i] = x[i + (Len(x) - Len(u))], NEW i \in 1..Len(u)
          PROVE  ru[i] = rx[i]
        <3>1. (Len(u) - i) + 1 \in 1..Len(u)
            OBVIOUS
        <3>2. ru[i] = u[(Len(u) - i) + 1]
            BY <1>1
        <3>3. rx[i] = x[((Len(u) - i) + 1) + (Len(x) - Len(u))]
            BY <1>1, <1>4
        <3>. QED BY <2>2, <3>1, <3>2, <3>3
    <2>. QED BY <2>1, <2>2
<1>. QED BY <1>2, <1>3, <1>4

(* Directories put in front leave what the path ended with.                *)
LEMMA SuffixPrepended ==
    ASSUME NEW S, NEW u \in Seq(S), NEW x \in Seq(S), NEW d \in Seq(S), IsSuffix(u, x)
    PROVE  IsSuffix(u, d \o x)
<1>1. d \o x \in Seq(S) /\ Len(d \o x) = Len(d) + Len(x)
      /\ \A i \in 1..Len(x) : (d \o x)[Len(d) + i] = x[i]
    OBVIOUS
<1>2. Len(u) <= Len(x) /\ \A i \in 1..Len(u) : u[i] = x[i + (Len(x) - Len(u))]
    BY SuffixMeans
<1>3. ASSUME NEW i \in 1..Len(u)
      PROVE  u[i] = (d \o x)[i + (Len(d \o x) - Len(u))]
    <2>1. i + (Len(x) - Len(u)) \in 1..Len(x)
        BY <1>2
    <2>2. (d \o x)[Len(d) + (i + (Len(x) - Len(u)))] = x[i + (Len(x) - Len(u))]
        BY <1>1, <2>1
    <2>3. Len(d) + (i + (Len(x) - Len(u))) = i + (Len(d \o x) - Len(u))
        BY <1>1, <1>2
    <2>. QED BY <1>2, <2>2, <2>3
<1>4. Len(u) <= Len(d \o x)
    BY <1>1, <1>2
<1>. QED BY <1>1, <1>3, <1>4, SuffixMeans

LEMMA SuffixOfItself ==
    ASSUME NEW S, NEW u \in Seq(S) PROVE IsSuffix(u, u)
    BY SuffixMeans

(* A path leads with the directories that were put in front.               *)
LEMMA PrefixOfConcat ==
    ASSUME NEW S, NEW d \in Seq(S), NEW x \in Seq(S)
    PROVE  IsPrefix(d, d \o x)
<1>1. Len(d \o x) = Len(d) + Len(x) /\ \A i \in 1..Len(d) : (d \o x)[i] = d[i]
    OBVIOUS
<1>2. /\ SubSeq(d, 1, Len(d)) = [i \in 1..Len(d) |-> d[i]]
      /\ SubSeq(d \o x, 1, Len(d)) = [i \in 1..Len(d) |-> (d \o x)[i]]
    OBVIOUS
<1>. QED BY <1>1, <1>2 DEF IsPrefix

(* A provider's directories are a definition path.                         *)
LEMMA DirsType ==
    ASSUME NEW p \in Provider
    PROVE  Dirs[p] \in DefinitionPath
<1>1. Dirs[p] \in Seq(Range(Dirs[p]))
    BY EnvironmentAssumption
<1>. QED BY <1>1 DEF DefinitionPath

(* What a provider plans to prepend keeps the user's directories, and      *)
(* prepends its own once.                                                  *)
LEMMA PlannedKept ==
    ASSUME TypeOK, DefinitionsKept,
           NEW p \in Provider, NEW x \in PlannedPath(p)
    PROVE  /\ IsSuffix(user, x)
           /\ \A q \in Provider : OneSetting(q) => PrependedOnce(q, x)
<1>1. /\ x = Dirs[p] \o path /\ Dirs[p] # <<>>
      /\ path = <<>> \/ ~ IsPrefix(Dirs[p], path)
    BY DEF PlannedPath
<1>2. Dirs[p] \in DefinitionPath /\ path \in DefinitionPath
    BY DirsType DEF TypeOK
<1>3. IsSuffix(user, x)
    BY <1>1, <1>2, SuffixPrepended DEF TypeOK, DefinitionsKept, DefinitionPath
<1>4. ASSUME NEW q \in Provider, OneSetting(q) PROVE PrependedOnce(q, x)
    <2>1. Dirs[q] = Dirs[p]
        BY <1>1, <1>4 DEF OneSetting
    <2>2. IsPrefix(Dirs[p], Dirs[p] \o user) /\ Dirs[p] \o user # <<>>
        BY <1>1, <1>2, PrefixOfConcat DEF TypeOK, DefinitionPath
    <2>3. path = user
        BY <1>1, <1>4, <2>1, <2>2 DEF DefinitionsKept, PrependedOnce
    <2>4. ~ IsPrefix(Dirs[p], <<>>)
        BY <1>1, <1>2 DEF IsPrefix, DefinitionPath
    <2>. QED BY <1>1, <2>1, <2>3, <2>4 DEF PrependedOnce
<1>. QED BY <1>3, <1>4

-----------------------------------------------------------------------------
(* The initial states satisfy the inductive invariant.                     *)
LEMMA InitEnvironmentInv == Init => EnvironmentInv
<1>. SUFFICES ASSUME Init PROVE EnvironmentInv
    OBVIOUS
<1>1. PICK e \in Found : environ = e.fdb /\ path = e.path /\ home = e.home
    BY DEF Init
<1>2. path \in DefinitionPath /\ user = path
    <2>1. path \in Seq(Range(path)) /\ user = path
        BY <1>1, EnvironmentAssumption DEF Init
    <2>. QED BY <2>1 DEF DefinitionPath
<1>3. TypeOK
    <2>1. home \in {x.home : x \in Found} \cup PlannableHome
        BY <1>1
    <2>2. environ \in FDBEnvironment /\ inherited = environ
        BY <1>1 DEF FDBEnvironment, Init
    <2>3. DOMAIN schema \subseteq exporters /\ exporters \subseteq Provider
        BY UnsetIsEmpty DEF Init
    <2>4. spawns \in 0..MaxSpawns
        BY EnvironmentAssumption DEF Init
    <2>5. planned \in [Thread -> [stage : {"idle", "export", "schema"},
                                 provider : SUBSET Provider,
                                 path : SUBSET DefinitionPath, home : PlannableHome]]
        BY DEF Init, Idle, PlannableHome
    <2>6. exported = Unset /\ conflict = FALSE /\ before = {}
        BY DEF Init
    <2>. QED BY <1>2, <2>1, <2>2, <2>3, <2>4, <2>5, <2>6 DEF TypeOK
<1>4. Configured = {}
    BY DEF Configured, Init
<1>5. WaitingExported /\ PlannedHomesOK /\ HomesHaveLanguage
    BY DEF WaitingExported, PlannedHomesOK, HomesHaveLanguage, Init, Idle
<1>6. ExportsRecorded /\ AgreedIsExported /\ ForeignStart
    BY <1>4 DEF ExportsRecorded, AgreedIsExported, ForeignStart, Agree, Init
<1>7. SchemasOK
    BY UnsetIsEmpty DEF SchemasOK, Init
<1>8. DefinitionsKept /\ PlannedPathsKept
    <2>1. IsSuffix(user, path)
        BY <1>2, SuffixOfItself DEF DefinitionPath
    <2>. QED BY <1>2, <2>1 DEF DefinitionsKept, PlannedPathsKept, Init, Idle
<1>. QED BY <1>3, <1>5, <1>6, <1>7, <1>8 DEF EnvironmentInv

(* A spawned process starts from its parent's environment with nothing on  *)
(* record.                                                                 *)
LEMMA SpawnEnvironmentInv ==
    ASSUME EnvironmentInv, Spawn PROVE EnvironmentInv'
<1>. USE DEF Spawn
<1>1. TypeOK'
    <2>1. DOMAIN schema' \subseteq exporters' /\ exporters' \subseteq Provider
        BY UnsetIsEmpty
    <2>2. spawns' \in 0..MaxSpawns
        BY EnvironmentAssumption DEF EnvironmentInv, TypeOK
    <2>3. planned' \in [Thread -> [stage : {"idle", "export", "schema"},
                                  provider : SUBSET Provider,
                                  path : SUBSET DefinitionPath, home : PlannableHome]]
        BY DEF Idle, PlannableHome
    <2>4. /\ environ' \in FDBEnvironment /\ inherited' \in FDBEnvironment
          /\ path' \in DefinitionPath /\ home' \in {e.home : e \in Found} \cup PlannableHome
          /\ user' = user /\ user \in DefinitionPath
        BY DEF EnvironmentInv, TypeOK
    <2>5. exported' = Unset /\ conflict' = FALSE /\ before' = {}
        OBVIOUS
    <2>. QED BY <2>1, <2>2, <2>3, <2>4, <2>5 DEF TypeOK, DefinitionPath
<1>2. Configured' = {}
    BY DEF Configured
<1>3. WaitingExported' /\ PlannedHomesOK' /\ HomesHaveLanguage'
    BY DEF WaitingExported, PlannedHomesOK, HomesHaveLanguage, Idle
<1>4. ExportsRecorded' /\ AgreedIsExported' /\ ForeignStart'
    BY <1>2 DEF ExportsRecorded, AgreedIsExported, ForeignStart, Agree
<1>5. SchemasOK'
    BY UnsetIsEmpty DEF SchemasOK
<1>6. DefinitionsKept' /\ PlannedPathsKept'
    BY DEF EnvironmentInv, DefinitionsKept, PlannedPathsKept, PrependedOnce, Idle
<1>. QED BY <1>1, <1>3, <1>4, <1>5, <1>6 DEF EnvironmentInv

(* What a step that only plans, or only looks up a schema, leaves alone.   *)
LEMMA ProcessUntouched ==
    ASSUME EnvironmentInv, UNCHANGED <<processVars, inherited, user, spawns>>
    PROVE  /\ Configured' = Configured /\ Agree' = Agree
           /\ HomesHaveLanguage' /\ ExportsRecorded' /\ AgreedIsExported' /\ ForeignStart'
           /\ DefinitionsKept'
<1>1. Configured' = Configured /\ Agree' = Agree
    BY DEF Configured, Agree, processVars
<1>2. DefinitionsKept'
    BY DEF EnvironmentInv, DefinitionsKept, PrependedOnce, processVars
<1>. QED BY <1>1, <1>2 DEF EnvironmentInv, HomesHaveLanguage, ExportsRecorded,
        AgreedIsExported, ForeignStart, processVars

(* A plan is of a home with a language file and changes nothing yet.       *)
LEMMA PlanEnvironmentInv ==
    ASSUME EnvironmentInv, NEW t \in Thread, NEW p \in Provider, Plan(t, p)
    PROVE  EnvironmentInv'
<1>. DEFINE plan == [stage |-> "export", provider |-> {p}, path |-> PlannedPath(p),
                     home |-> PlannedHome(p)]
<1>1. /\ UNCHANGED <<processVars, schema, inherited, user, spawns>>
      /\ planned' = [planned EXCEPT ![t] = plan]
    BY DEF Plan
<1>2. plan \in [stage : {"idle", "export", "schema"}, provider : SUBSET Provider,
                path : SUBSET DefinitionPath, home : PlannableHome]
    <2>1. PlannedHome(p) \in PlannableHome
        BY DEF PlannedHome, PlannableHome
    <2>2. PlannedPath(p) \subseteq DefinitionPath
        BY PlannedPathType DEF EnvironmentInv
    <2>. QED BY <2>1, <2>2
<1>3. /\ planned'[t] = plan
      /\ \A u \in Thread : u # t => planned'[u] = planned[u]
    BY <1>1 DEF EnvironmentInv, TypeOK
<1>4. TypeOK'
    BY <1>1, <1>2 DEF EnvironmentInv, TypeOK, processVars, DefinitionPath
<1>5. WaitingExported'
    BY <1>1, <1>3 DEF EnvironmentInv, WaitingExported, processVars
<1>6. PlannedHomesOK'
    <2>1. PlannedHome(p) \subseteq LanguageIn
          /\ (PlannedHome(p) = {} => home \subseteq LanguageIn)
        BY DEF Plan, HomeLacksLanguage
    <2>. QED BY <1>1, <1>3, <2>1 DEF EnvironmentInv, PlannedHomesOK, processVars
<1>7. SchemasOK'
    <2>1. SUFFICES ASSUME NEW q \in DOMAIN schema
                   PROVE  /\ Exports[q] = Unset => schema[q].fdb = Opens(schema[q].environ)
                          /\ schema[q].after =>
                                /\ Configured # {}
                                /\ Agree => \A r \in Configured : schema[q].environ = Exports[r]
        BY <1>1, ProcessUntouched DEF SchemasOK
    <2>. QED BY DEF EnvironmentInv, SchemasOK
<1>8. PlannedPathsKept'
    <2>1. \A x \in PlannedPath(p) :
            IsSuffix(user, x) /\ \A q \in Provider : OneSetting(q) => PrependedOnce(q, x)
        BY PlannedKept DEF EnvironmentInv
    <2>2. user' = user /\ planned'[t].path = PlannedPath(p)
        BY <1>1, <1>3
    <2>. QED BY <1>3, <2>1, <2>2 DEF EnvironmentInv, PlannedPathsKept, PrependedOnce
<1>. QED BY <1>1, <1>4, <1>5, <1>6, <1>7, <1>8, ProcessUntouched DEF EnvironmentInv

(* A schema is looked up for a provider that has exported.                 *)
LEMMA SchemaEnvironmentInv ==
    ASSUME EnvironmentInv, NEW t \in Thread, NEW p \in Provider, ResolveSchema(t, p)
    PROVE  EnvironmentInv'
<1>. DEFINE source == IF Exports[p] = Unset THEN SchemaSource(environ) ELSE {ConfigOf[p].fdb}
            entry == [fdb |-> source, environ |-> environ,
                      after |-> \E r \in exporters : Exports[r] # Unset]
<1>1. /\ UNCHANGED <<processVars, inherited, user, spawns>>
      /\ planned' = [planned EXCEPT ![t] = Idle]
      /\ planned[t].provider = {p} /\ planned[t].stage = "schema"
    BY DEF ResolveSchema, ReadSchema
<1>2. /\ planned'[t] = Idle
      /\ \A u \in Thread : u # t => planned'[u] = planned[u]
    BY <1>1 DEF EnvironmentInv, TypeOK
<1>3. p \in exporters
    BY <1>1 DEF EnvironmentInv, WaitingExported
<1>4. \/ schema' = schema
      \/ schema' = [q \in DOMAIN schema \cup {p} |-> IF q # p THEN schema[q] ELSE entry]
    BY DEF ResolveSchema, ReadSchema
<1>5. TypeOK'
    <2>1. DOMAIN schema' \subseteq exporters
        BY <1>3, <1>4 DEF EnvironmentInv, TypeOK
    <2>2. planned' \in [Thread -> [stage : {"idle", "export", "schema"},
                                  provider : SUBSET Provider,
                                  path : SUBSET DefinitionPath, home : PlannableHome]]
        BY <1>1 DEF EnvironmentInv, TypeOK, Idle, PlannableHome
    <2>. QED BY <1>1, <2>1, <2>2 DEF EnvironmentInv, TypeOK, processVars, DefinitionPath
<1>6. WaitingExported' /\ PlannedHomesOK' /\ PlannedPathsKept'
    <2>1. user' = user
        BY <1>1
    <2>2. PlannedPathsKept'
        BY <1>2, <2>1 DEF EnvironmentInv, PlannedPathsKept, PrependedOnce, Idle
    <2>. QED BY <1>1, <1>2, <2>2
             DEF EnvironmentInv, WaitingExported, PlannedHomesOK, processVars, Idle
<1>7. SchemasOK'
    <2>1. SUFFICES ASSUME NEW q \in DOMAIN schema'
                   PROVE  /\ Exports[q] = Unset => schema'[q].fdb = Opens(schema'[q].environ)
                          /\ schema'[q].after =>
                                /\ Configured # {}
                                /\ Agree => \A r \in Configured : schema'[q].environ = Exports[r]
        BY <1>1, ProcessUntouched DEF SchemasOK
    <2>2. CASE q \in DOMAIN schema /\ schema'[q] = schema[q]
        BY <2>2 DEF EnvironmentInv, SchemasOK
    <2>3. CASE q = p /\ schema'[q] = entry
        <3>1. Exports[q] = Unset => entry.fdb = Opens(environ)
            BY <2>3 DEF SchemaSource, Opens
        <3>2. entry.after => Configured # {}
            BY DEF Configured
        <3>3. Agree => \A r \in Configured : environ = Exports[r]
            BY DEF EnvironmentInv, AgreedIsExported
        <3>. QED BY <2>3, <3>1, <3>2, <3>3
    <2>. HIDE DEF entry
    <2>. QED BY <1>4, <2>2, <2>3
<1>. QED BY <1>1, <1>5, <1>6, <1>7, ProcessUntouched DEF EnvironmentInv

-----------------------------------------------------------------------------
(* What the three ways of an export have in common: the definition path,   *)
(* the home, the plans, and that agreement is only ever lost.              *)
LEMMA FinishEnvironmentInv ==
    ASSUME EnvironmentInv, NEW t \in Thread, NEW p \in Provider, Finish(t, p)
    PROVE  /\ path' \in DefinitionPath'
           /\ home' \in {e.home : e \in Found} \cup PlannableHome
           /\ planned' \in [Thread -> [stage : {"idle", "export", "schema"},
                                      provider : SUBSET Provider,
                                      path : SUBSET DefinitionPath', home : PlannableHome]]
           /\ exporters' \subseteq Provider /\ DOMAIN schema' \subseteq exporters'
           /\ WaitingExported' /\ PlannedHomesOK' /\ HomesHaveLanguage' /\ SchemasOK'
           /\ user' \in DefinitionPath' /\ DefinitionsKept' /\ PlannedPathsKept'
           /\ Configured' = Configured \cup (IF Exports[p] = Unset THEN {} ELSE {p})
           /\ Agree' => Agree
           /\ Agree' /\ Exports[p] # Unset => \A q \in Configured : Exports[q] = Exports[p]
           /\ UNCHANGED <<schema, inherited, user, spawns>>
<1>1. /\ exporters' = exporters \cup {p}
      /\ UNCHANGED <<schema, inherited, user, spawns>>
      /\ planned[t].provider = {p} /\ planned[t].stage = "export"
      /\ planned' = [planned EXCEPT ![t].stage = "schema"]
    BY DEF Finish
<1>2. /\ planned[t] \in [stage : {"idle", "export", "schema"}, provider : SUBSET Provider,
                         path : SUBSET DefinitionPath, home : PlannableHome]
      /\ planned'[t] = [planned[t] EXCEPT !.stage = "schema"]
      /\ \A u \in Thread : u # t => planned'[u] = planned[u]
      /\ planned' \in [Thread -> [stage : {"idle", "export", "schema"},
                                 provider : SUBSET Provider,
                                 path : SUBSET DefinitionPath, home : PlannableHome]]
    BY <1>1 DEF EnvironmentInv, TypeOK
<1>3. path' \in DefinitionPath
    <2>1. CASE planned[t].path = {}
        BY <2>1 DEF Finish, EnvironmentInv, TypeOK
    <2>2. CASE planned[t].path # {}
        <3>1. path' \in planned[t].path
            BY <2>2 DEF Finish
        <3>. QED BY <1>2, <3>1
    <2>. QED BY <2>1, <2>2
<1>4. /\ planned[t].home \in PlannableHome
      /\ planned[t].home \subseteq LanguageIn
      /\ planned[t].home = {} => home \subseteq LanguageIn
      /\ home' = IF planned[t].home = {} THEN home ELSE planned[t].home
    BY <1>1, <1>2 DEF Finish, EnvironmentInv, PlannedHomesOK
<1>5. home' \in {e.home : e \in Found} \cup PlannableHome
    BY <1>4 DEF EnvironmentInv, TypeOK
<1>6. exporters' \subseteq Provider /\ DOMAIN schema' \subseteq exporters'
    BY <1>1 DEF EnvironmentInv, TypeOK
<1>7. planned'[t].stage = "schema" /\ planned'[t].provider = {p}
    BY <1>1, <1>2
<1>8. WaitingExported'
    BY <1>1, <1>2, <1>7 DEF EnvironmentInv, WaitingExported
<1>9. PlannedHomesOK' /\ HomesHaveLanguage'
    <2>1. home' \subseteq LanguageIn
        BY <1>4
    <2>2. \A u \in Thread : planned'[u].stage = "export" => planned'[u].home \subseteq LanguageIn
        BY <1>2, <1>7 DEF EnvironmentInv, PlannedHomesOK
    <2>. QED BY <2>1, <2>2 DEF PlannedHomesOK, HomesHaveLanguage
<1>10. /\ Configured' = Configured \cup (IF Exports[p] = Unset THEN {} ELSE {p})
       /\ Agree' => Agree
       /\ Agree' /\ Exports[p] # Unset => \A q \in Configured : Exports[q] = Exports[p]
    <2>1. Configured' = Configured \cup (IF Exports[p] = Unset THEN {} ELSE {p})
        BY <1>1 DEF Configured
    <2>. QED BY <2>1 DEF Agree
<1>11. SchemasOK'
    <2>1. SUFFICES ASSUME NEW q \in DOMAIN schema
                   PROVE  /\ Exports[q] = Unset => schema[q].fdb = Opens(schema[q].environ)
                          /\ schema[q].after =>
                                /\ Configured' # {}
                                /\ Agree' => \A r \in Configured' : schema[q].environ = Exports[r]
        BY <1>1 DEF SchemasOK
    <2>2. /\ Exports[q] = Unset => schema[q].fdb = Opens(schema[q].environ)
          /\ schema[q].after =>
                /\ Configured # {}
                /\ Agree => \A r \in Configured : schema[q].environ = Exports[r]
        BY DEF EnvironmentInv, SchemasOK
    <2>. QED BY <1>10, <2>2
<1>12. user' \in DefinitionPath'
    BY <1>1 DEF EnvironmentInv, TypeOK, DefinitionPath
<1>13. DefinitionsKept'
    <2>1. path' = path \/ path' \in planned[t].path
        BY DEF Finish
    <2>2. /\ IsSuffix(user, path')
          /\ \A q \in Provider : OneSetting(q) => path' = user \/ PrependedOnce(q, path')
        BY <2>1 DEF EnvironmentInv, DefinitionsKept, PlannedPathsKept
    <2>. QED BY <1>1, <2>2 DEF DefinitionsKept, PrependedOnce
<1>14. PlannedPathsKept'
    <2>1. \A u \in Thread : planned'[u].path = planned[u].path
        BY <1>2
    <2>. QED BY <1>1, <2>1 DEF EnvironmentInv, PlannedPathsKept, PrependedOnce
<1>. QED BY <1>1, <1>2, <1>3, <1>5, <1>6, <1>8, <1>9, <1>10, <1>11, <1>12, <1>13, <1>14
        DEF DefinitionPath

(* A provider that leaves the environment alone has no configuration, or   *)
(* found its own there, or comes after a disagreement.                     *)
LEMMA KeepEnvironmentInv ==
    ASSUME EnvironmentInv, NEW t \in Thread, NEW p \in Provider, KeepEnvironment(t, p)
    PROVE  EnvironmentInv'
<1>1. Finish(t, p) /\ UNCHANGED <<environ, exported, conflict, before>>
    BY DEF KeepEnvironment
<1>2. \/ Exports[p] = Unset /\ Configured' = Configured
      \/ conflict /\ Configured \subseteq Configured'
      \/ environ = Exports[p] /\ Configured' = Configured \cup {p} /\ Exports[p] # Unset
    BY <1>1, FinishEnvironmentInv, NothingForeign
    DEF KeepEnvironment, NothingToExport, EnvironmentInv
<1>3. TypeOK'
    <2>1. UNCHANGED <<environ, exported, conflict, before, inherited, user, spawns>>
        BY <1>1, FinishEnvironmentInv
    <2>2. /\ environ \in FDBEnvironment /\ inherited \in FDBEnvironment
          /\ exported \in {Unset} \cup {Exports[q] : q \in Provider}
          /\ conflict \in BOOLEAN /\ (conflict => exported = Unset)
          /\ before = {} \/ before = {inherited}
          /\ spawns \in 0..MaxSpawns
        BY DEF EnvironmentInv, TypeOK
    <2>. QED BY <1>1, <2>1, <2>2, FinishEnvironmentInv DEF TypeOK
<1>4. ExportsRecorded'
    <2>1. Configured \subseteq Configured' /\ (Agree' => Agree)
        BY <1>1, FinishEnvironmentInv
    <2>. QED BY <1>1, <2>1, FinishEnvironmentInv DEF EnvironmentInv, ExportsRecorded
<1>5. AgreedIsExported'
    BY <1>1, <1>2, FinishEnvironmentInv
    DEF EnvironmentInv, ExportsRecorded, AgreedIsExported
<1>6. ForeignStart'
    <2>1. SUFFICES ASSUME ~ conflict, \A q \in Configured' : inherited # Exports[q]
                   PROVE  /\ Agree' /\ \A q \in Configured' : exported = Exports[q]
                          /\ Configured' = {} => environ = inherited /\ exported = Unset
        BY <1>1, FinishEnvironmentInv DEF ForeignStart
    <2>2. Configured \subseteq Configured'
        BY <1>2
    <2>3. /\ Agree /\ \A q \in Configured : exported = Exports[q]
          /\ Configured = {} => environ = inherited /\ exported = Unset
        BY <2>1, <2>2 DEF EnvironmentInv, ForeignStart
    <2>4. \A q \in Configured : environ = Exports[q]
        BY <2>3 DEF EnvironmentInv, AgreedIsExported
    <2>5. CASE Configured' = Configured
        BY <2>3, <2>5 DEF Agree
    <2>6. CASE environ = Exports[p] /\ Configured' = Configured \cup {p}
        <3>1. Configured # {}
            BY <2>1, <2>3, <2>6
        <3>2. \A q \in Configured' : exported = Exports[q]
            BY <2>3, <2>4, <2>6, <3>1
        <3>. QED BY <2>6, <3>2 DEF Agree
    <2>. QED BY <1>2, <2>1, <2>5, <2>6
<1>. QED BY <1>1, <1>3, <1>4, <1>5, <1>6, FinishEnvironmentInv DEF EnvironmentInv

(* Disagreement restores what was found.                                   *)
LEMMA ConflictEnvironmentInv ==
    ASSUME EnvironmentInv, NEW t \in Thread, NEW p \in Provider, Conflict(t, p)
    PROVE  EnvironmentInv'
<1>1. /\ Finish(t, p) /\ Exports[p] # Unset
      /\ exported # Unset /\ exported # Exports[p]
      /\ exported' = Unset /\ conflict' = TRUE /\ before' = before
    BY DEF Conflict, NothingToExport, Disagrees
<1>2. before = {inherited} /\ \E q \in Configured : exported = Exports[q]
    BY <1>1 DEF EnvironmentInv, ExportsRecorded
<1>3. environ' = inherited
    BY <1>2 DEF Conflict
<1>4. ~ Agree'
    BY <1>1, <1>2, FinishEnvironmentInv
<1>5. TypeOK'
    <2>1. inherited \in FDBEnvironment /\ spawns \in 0..MaxSpawns
        BY DEF EnvironmentInv, TypeOK
    <2>. QED BY <1>1, <1>2, <1>3, <2>1, FinishEnvironmentInv DEF TypeOK
<1>6. ExportsRecorded' /\ AgreedIsExported' /\ ForeignStart'
    BY <1>1, <1>2, <1>3, <1>4, FinishEnvironmentInv
    DEF ExportsRecorded, AgreedIsExported, ForeignStart
<1>. QED BY <1>1, <1>5, <1>6, FinishEnvironmentInv DEF EnvironmentInv

(* An export replaces whatever the environment named.                      *)
LEMMA ExportEnvironmentInv ==
    ASSUME EnvironmentInv, NEW t \in Thread, NEW p \in Provider, Export(t, p)
    PROVE  EnvironmentInv'
<1>1. /\ Finish(t, p) /\ Exports[p] # Unset /\ ~ conflict
      /\ exported = Unset \/ exported = Exports[p]
      /\ before' = IF before = {} THEN {environ} ELSE before
      /\ environ' = Exports[p] /\ exported' = Exports[p] /\ conflict' = conflict
    BY DEF Export, NothingToExport, Disagrees
<1>2. Configured' = Configured \cup {p} /\ inherited' = inherited
    BY <1>1, FinishEnvironmentInv
<1>3. before' = {inherited}
    BY <1>1
    DEF EnvironmentInv, TypeOK, ExportsRecorded
<1>4. TypeOK'
    <2>1. inherited \in FDBEnvironment /\ Exports[p] \in FDBEnvironment /\ spawns \in 0..MaxSpawns
          /\ conflict \in BOOLEAN
        BY DEF EnvironmentInv, TypeOK, FDBEnvironment
    <2>. QED BY <1>1, <1>2, <1>3, <2>1, FinishEnvironmentInv DEF TypeOK
<1>5. ExportsRecorded' /\ AgreedIsExported'
    BY <1>1, <1>2, <1>3, FinishEnvironmentInv DEF ExportsRecorded, AgreedIsExported, Agree
<1>6. ForeignStart'
    <2>1. SUFFICES ASSUME \A q \in Configured' : inherited # Exports[q]
                   PROVE  \A q \in Configured' : Exports[p] = Exports[q]
        BY <1>1, <1>2 DEF ForeignStart, Agree
    <2>2. \A q \in Configured : exported = Exports[q] /\ Exports[q] # Unset
        BY <1>1, <1>2, <2>1 DEF EnvironmentInv, ForeignStart, Configured
    <2>. QED BY <1>1, <1>2, <2>2
<1>. QED BY <1>1, <1>4, <1>5, <1>6, FinishEnvironmentInv DEF EnvironmentInv

-----------------------------------------------------------------------------
(* Every step preserves the inductive invariant.                           *)
LEMMA NextEnvironmentInv == EnvironmentInv /\ [Next]_vars => EnvironmentInv'
<1>. SUFFICES ASSUME EnvironmentInv, [Next]_vars PROVE EnvironmentInv'
    OBVIOUS
<1>1. CASE Spawn
    BY <1>1, SpawnEnvironmentInv
<1>2. ASSUME NEW t \in Thread, NEW p \in Provider, Plan(t, p) PROVE EnvironmentInv'
    BY <1>2, PlanEnvironmentInv
<1>3. ASSUME NEW t \in Thread, NEW p \in Provider, KeepEnvironment(t, p)
      PROVE  EnvironmentInv'
    BY <1>3, KeepEnvironmentInv
<1>4. ASSUME NEW t \in Thread, NEW p \in Provider, Conflict(t, p) PROVE EnvironmentInv'
    BY <1>4, ConflictEnvironmentInv
<1>5. ASSUME NEW t \in Thread, NEW p \in Provider, Export(t, p) PROVE EnvironmentInv'
    BY <1>5, ExportEnvironmentInv
<1>6. ASSUME NEW t \in Thread, NEW p \in Provider, ResolveSchema(t, p)
      PROVE  EnvironmentInv'
    BY <1>6, SchemaEnvironmentInv
<1>7. CASE UNCHANGED vars
    <2>1. /\ UNCHANGED <<processVars, inherited, user, spawns>>
          /\ planned' = planned /\ schema' = schema
        BY <1>7 DEF vars
    <2>2. TypeOK' /\ WaitingExported' /\ PlannedHomesOK' /\ PlannedPathsKept'
        BY <2>1 DEF EnvironmentInv, TypeOK, WaitingExported, PlannedHomesOK,
                PlannedPathsKept, PrependedOnce, processVars, DefinitionPath
    <2>3. SchemasOK'
        BY <2>1, ProcessUntouched DEF EnvironmentInv, SchemasOK
    <2>. QED BY <2>1, <2>2, <2>3, ProcessUntouched DEF EnvironmentInv
<1>. QED BY <1>1, <1>2, <1>3, <1>4, <1>5, <1>6, <1>7 DEF Next

LEMMA EnvironmentInvariant == Spec => []EnvironmentInv
BY InitEnvironmentInv, NextEnvironmentInv, PTL DEF Spec

(* The environment is always one the process started with or one that a    *)
(* provider exported, and every other variable has its type.               *)
THEOREM EnvironmentTypeCorrect == Spec => []TypeOK
<1>1. EnvironmentInv => TypeOK
    BY DEF EnvironmentInv
<1>. QED BY <1>1, EnvironmentInvariant, PTL

(* Providers with one configuration, built in any order on any threads and *)
(* from any environment, leave one in which an unconfigured open reaches   *)
(* their FDB.                                                              *)
THEOREM JobsReachTheFDB == Spec => []JobsOpenTheFDB
<1>1. EnvironmentInv => JobsOpenTheFDB
    BY DEF EnvironmentInv, AgreedIsExported, JobsOpenTheFDB
<1>. QED BY <1>1, EnvironmentInvariant, PTL

(* Providers that disagree leave the variables as the process found them,  *)
(* unless these were one provider's own.                                   *)
THEOREM DisagreementRestores == Spec => []ConflictRestores
<1>1. EnvironmentInv => ConflictRestores
    BY DEF EnvironmentInv, ForeignStart, ExportsRecorded, ConflictRestores
<1>. QED BY <1>1, EnvironmentInvariant, PTL

(* A process with a provider has no METKIT_HOME that would hang FDB.       *)
THEOREM HomesAreUsable == Spec => []HomesHaveLanguage
<1>1. EnvironmentInv => HomesHaveLanguage
    BY DEF EnvironmentInv
<1>. QED BY <1>1, EnvironmentInvariant, PTL

(* A provider without a configuration reads the schema of the FDB it will  *)
(* open, as long as its environment stays, or a configured provider that   *)
(* nobody disagrees with came before it.                                   *)
THEOREM SchemaIsOfItsFDB == Spec => []SchemaFitsFDB
<1>1. ASSUME EnvironmentInv PROVE SchemaFitsFDB
    <2>1. SUFFICES ASSUME NEW p \in DOMAIN schema, Exports[p] = Unset,
                          environ = schema[p].environ \/ (schema[p].after /\ Agree)
                   PROVE  Opens(environ) = schema[p].fdb
        BY DEF SchemaFitsFDB
    <2>2. schema[p].fdb = Opens(schema[p].environ)
        BY <1>1, <2>1 DEF EnvironmentInv, SchemasOK
    <2>3. CASE schema[p].after /\ Agree
        <3>1. PICK r \in Configured : schema[p].environ = Exports[r]
            BY <1>1, <2>1, <2>3 DEF EnvironmentInv, SchemasOK
        <3>2. environ = Exports[r]
            BY <1>1, <2>3 DEF EnvironmentInv, AgreedIsExported
        <3>. QED BY <2>2, <3>1, <3>2
    <2>. QED BY <2>1, <2>2, <2>3
<1>. QED BY <1>1, EnvironmentInvariant, PTL

(* The user's definition directories stay behind the providers', which are *)
(* in front once if all providers have the same.                           *)
THEOREM DirectoriesAreKept == Spec => []DefinitionsKept
<1>1. EnvironmentInv => DefinitionsKept
    BY DEF EnvironmentInv
<1>. QED BY <1>1, EnvironmentInvariant, PTL
=============================================================================
