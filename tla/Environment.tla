---------------------------- MODULE Environment -----------------------------
(***************************************************************************)
(* What providers do to the environment of their process: each prepends    *)
(* its eccodes_definitions and puts its FDB configuration in the variables *)
(* fdb5 reads, so that job code which opens an unconfigured FDB reaches    *)
(* the workflow's.  Providers that disagree export nothing.  A spawned     *)
(* process inherits the environment, starts with fresh module globals and  *)
(* constructs its own providers.                                           *)
(***************************************************************************)
EXTENDS Naturals, Sequences, SequencesExt, FiniteSets

CONSTANTS
    Provider,    \* providers the processes may construct
    ConfigOf,    \* [Provider -> Config]: their config setting
    Dirs,        \* [Provider -> Seq(directory)]: eccodes_definitions
    HomeOf,      \* [Provider -> SUBSET directory]: metkit_home, {} if unset
    EnvHomeOf,   \* [Provider -> SUBSET directory]: METKIT_HOME in the env setting
    LanguageIn,  \* the directories with a MARS language file
    DefaultFDB,  \* the FDB of FDB_HOME or fdb5's own directory, {} if none
    Found,       \* the environments the first process may start with
    Thread,      \* threads that construct providers
    MaxSpawns    \* bound on the generations of spawned processes

(* fdb5's precedence.                                                      *)
FDB_CONFIG_VARS == <<"FDB_CONFIG", "FDB5_CONFIG", "FDB_CONFIG_FILE", "FDB5_CONFIG_FILE">>
FDBVar == Range(FDB_CONFIG_VARS)

(* A setting of one of them names an FDB, as text or as a path.            *)
IsFDBEnv(e) ==
    /\ DOMAIN e \subseteq FDBVar
    /\ e \in [DOMAIN e -> [form : {"text", "dump", "path"}, fdb : UNION {{e[n].fdb} : n \in DOMAIN e}]]

(* What the config setting of a provider is: unset, a file (perhaps        *)
(* without a mapping in it), inline text, or neither a file nor a mapping. *)
IsConfig(c) == c.form \in {"unset", "file", "badfile", "inline", "neither"}

(* What config_text and the path of a file give the environment.           *)
Unset == [n \in {} |-> n]  \* no variable set, nothing exported, no schema read
Exports == [p \in Provider |->
    LET config == ConfigOf[p] IN
    CASE config.form = "inline" -> [n \in {"FDB5_CONFIG"} |-> [form |-> "text", fdb |-> config.fdb]]
      [] config.form = "file" ->
            [n \in {"FDB5_CONFIG", "FDB_CONFIG_FILE"} |->
                [form |-> IF n = "FDB5_CONFIG" THEN "dump" ELSE "path", fdb |-> config.fdb]]
      [] config.form = "badfile" -> [n \in {"FDB_CONFIG_FILE"} |-> [form |-> "path", fdb |-> config.fdb]]
      [] OTHER -> Unset]

ASSUME EnvironmentAssumption ==
    /\ \A p \in Provider :
        /\ IsConfig(ConfigOf[p])
        /\ Dirs[p] \in Seq(Range(Dirs[p]))
        /\ Cardinality(HomeOf[p]) <= 1 /\ Cardinality(EnvHomeOf[p]) <= 1
    /\ Cardinality(DefaultFDB) <= 1
    /\ \A e \in Found :
        /\ IsFDBEnv(e.fdb)
        /\ e.path \in Seq(Range(e.path))
        /\ Cardinality(e.home) <= 1
    /\ MaxSpawns \in Nat

VARIABLES
    environ,     \* the FDB variables of the process that are set
    path,        \* ECCODES_DEFINITION_PATH
    home,        \* METKIT_HOME, {} if unset
    exported,    \* _FDB_EXPORTED, <<>> for None
    conflict,    \* _FDB_EXPORT_CONFLICT
    before,      \* _FDB_ENV_BEFORE: {} for None, {env}
    planned,     \* [Thread -> what a provider in construction will export]
    exporters,   \* providers that prepared this process's environment
    schema,      \* [providers constructed -> the FDB whose schema they use]
    inherited,   \* history: the environment the process started with
    user,        \* history: the definition path of the first process
    spawns       \* history: generations spawned

processVars == <<environ, path, home, exported, conflict, before, exporters>>
vars == <<processVars, planned, schema, inherited, user, spawns>>

Idle == [stage |-> "idle", provider |-> {}, path |-> {}, home |-> {}]

-----------------------------------------------------------------------------
Init ==
    /\ \E e \in Found : environ = e.fdb /\ path = e.path /\ home = e.home
    /\ exported = Unset
    /\ conflict = FALSE
    /\ before = {}
    /\ planned = [t \in Thread |-> Idle]
    /\ exporters = {}
    /\ schema = Unset
    /\ inherited = environ
    /\ user = path
    /\ spawns = 0

(* The definition path a provider plans to export: nothing if it leads     *)
(* with the provider's directories already.                                *)
PrependAlways(p) == {Dirs[p] \o path}  \* mutant
PlannedPath(p) ==
    IF Dirs[p] = <<>> \/ (path # <<>> /\ IsPrefix(Dirs[p], path))
    THEN {}
    ELSE {Dirs[p] \o path}

(* metkit_home wins over the env setting, and both over the environment;   *)
(* whatever home results must have a language file.                        *)
PlannedHome(p) == IF HomeOf[p] # {} THEN HomeOf[p] ELSE EnvHomeOf[p]
OwnHomeLacksLanguage(p) == ~ HomeOf[p] \subseteq LanguageIn  \* mutant
HomeLacksLanguage(p) ==
    LET effective == IF PlannedHome(p) # {} THEN PlannedHome(p) ELSE home
    IN  ~ effective \subseteq LanguageIn

(* _prepare_environment computes everything before it takes _ENV_LOCK; it  *)
(* and resolve_config refuse a provider before anything is exported.       *)
Plan(t, p) ==
    /\ planned[t] = Idle
    /\ p \notin exporters
    /\ \A u \in Thread : p \notin planned[u].provider
    /\ ConfigOf[p].form # "neither"
    /\ ~ HomeLacksLanguage(p)
    /\ planned' = [planned EXCEPT ![t] =
            [stage |-> "export", provider |-> {p}, path |-> PlannedPath(p),
             home |-> PlannedHome(p)]]
    /\ UNCHANGED <<processVars, schema, inherited, user, spawns>>

(* Under the lock: the definition path and the home, then the FDB          *)
(* configuration.                                                          *)
Finish(t, p) ==
    /\ planned[t].provider = {p} /\ planned[t].stage = "export"
    /\ planned' = [planned EXCEPT ![t].stage = "schema"]
    /\ exporters' = exporters \cup {p}
    /\ path' = IF planned[t].path = {} THEN path ELSE CHOOSE x \in planned[t].path : TRUE
    /\ home' = IF planned[t].home = {} THEN home ELSE planned[t].home
    /\ UNCHANGED <<schema, inherited, user, spawns>>

(* Variables that name another FDB than the provider's.                    *)
Foreign(p) ==
    {n \in DOMAIN environ : n \notin DOMAIN Exports[p] \/ environ[n] # Exports[p][n]}

NothingToExport(p) ==
    \/ Exports[p] = Unset
    \/ conflict
    \/ /\ Foreign(p) = {}
       /\ DOMAIN Exports[p] \subseteq DOMAIN environ

Disagrees(p) == exported # Unset /\ exported # Exports[p]

KeepEnvironment(t, p) ==
    /\ Finish(t, p)
    /\ NothingToExport(p)
    /\ UNCHANGED <<environ, exported, conflict, before>>

ConflictKeepsExport(t, p) ==  \* mutant: the first export stays in place
    /\ Finish(t, p)
    /\ ~ NothingToExport(p)
    /\ Disagrees(p)
    /\ exported' = Unset
    /\ conflict' = TRUE
    /\ UNCHANGED <<environ, before>>

(* Providers disagree: the variables get the values they were found with.  *)
Conflict(t, p) ==
    /\ Finish(t, p)
    /\ ~ NothingToExport(p)
    /\ Disagrees(p)
    /\ environ' = IF before = {} THEN Unset ELSE CHOOSE e \in before : TRUE
    /\ exported' = Unset
    /\ conflict' = TRUE
    /\ UNCHANGED before

ExportOver(t, p) ==  \* mutant: variables of another FDB are left set
    /\ Finish(t, p)
    /\ ~ NothingToExport(p)
    /\ ~ Disagrees(p)
    /\ before' = IF before = {} THEN {environ} ELSE before
    /\ environ' = [n \in DOMAIN environ \cup DOMAIN Exports[p] |->
                    IF n \in DOMAIN Exports[p] THEN Exports[p][n] ELSE environ[n]]
    /\ exported' = Exports[p]
    /\ UNCHANGED conflict

(* A foreign configuration is unset whole before the provider's is set.    *)
Export(t, p) ==
    /\ Finish(t, p)
    /\ ~ NothingToExport(p)
    /\ ~ Disagrees(p)
    /\ before' = IF before = {} THEN {environ} ELSE before
    /\ environ' = Exports[p]
    /\ exported' = Exports[p]
    /\ UNCHANGED conflict

(* The FDB named first, in some order of the variables.                    *)
First(names, e) ==
    LET set == SelectSeq(names, LAMBDA n : n \in DOMAIN e)
    IN  IF set = <<>> THEN DefaultFDB ELSE {e[Head(set)].fdb}

(* The FDB an unconfigured open reaches, and the one whose schema the      *)
(* plugin reads for it (_fdb_config).                                      *)
Opens(e) == First(FDB_CONFIG_VARS, e)
SchemaSource(e) == First(FDB_CONFIG_VARS, e)

(* After the lock, the schema is looked up, for a provider without a       *)
(* configuration in the environment as it is then; if that names nothing,  *)
(* the provider is refused.                                                *)
MissingConfiguration(p) == Exports[p] = Unset /\ SchemaSource(environ) = {}

ReadSchema(t, p, source) ==
    /\ planned[t].provider = {p} /\ planned[t].stage = "schema"
    /\ planned' = [planned EXCEPT ![t] = Idle]
    /\ schema' = IF MissingConfiguration(p) THEN schema
                 ELSE [q \in DOMAIN schema \cup {p} |->
                        IF q # p THEN schema[q]
                        ELSE [fdb |-> source, environ |-> environ,
                              after |-> \E r \in exporters : Exports[r] # Unset]]
    /\ UNCHANGED <<processVars, inherited, user, spawns>>
ResolveSchemaAtStart(t, p) ==  \* mutant: from the environment as inherited
    ReadSchema(t, p, IF Exports[p] = Unset THEN SchemaSource(inherited)
                     ELSE {ConfigOf[p].fdb})
ResolveSchema(t, p) ==
    ReadSchema(t, p, IF Exports[p] = Unset THEN SchemaSource(environ)
                     ELSE {ConfigOf[p].fdb})

(* The model follows a spawned process from here on.                       *)
Spawn ==
    /\ spawns < MaxSpawns
    /\ spawns' = spawns + 1
    /\ exported' = Unset /\ conflict' = FALSE /\ before' = {}
    /\ planned' = [t \in Thread |-> Idle]
    /\ exporters' = {} /\ schema' = Unset
    /\ inherited' = environ
    /\ UNCHANGED <<environ, path, home, user>>

Next ==
    \/ Spawn
    \/ \E t \in Thread, p \in Provider :
        \/ Plan(t, p) \/ KeepEnvironment(t, p) \/ Conflict(t, p) \/ Export(t, p)
        \/ ResolveSchema(t, p)

Spec == Init /\ [][Next]_vars

-----------------------------------------------------------------------------
(* Properties.                                                             *)

Configured == {p \in exporters : Exports[p] # Unset}
Agree == \A p, q \in Configured : Exports[p] = Exports[q]

(* "The plugin and the jobs cannot look at two databases" (ADR-038):       *)
(* whatever the environment named before, an unconfigured open reaches the *)
(* FDB of the process's providers, if they have the same configuration.    *)
JobsOpenTheFDB ==
    Configured # {} /\ Agree =>
        \A p \in Configured : Opens(environ) = Opens(Exports[p])

(* Providers with different configurations export nothing at all and "put  *)
(* the environment back as they found it": the process's variables are the *)
(* ones it started with (_export_fdb_config).                              *)
DisagreeingExportNothing == ~ Agree => environ = inherited

(* What holds of it: so they do, unless the process started with exactly   *)
(* the configuration of one of them, which that provider left alone and    *)
(* did not record, so that the next one takes it for a foreign one.        *)
ConflictRestores ==
    ~ Agree /\ (\A p \in Configured : inherited # Exports[p]) => environ = inherited

(* Directories the user had in ECCODES_DEFINITION_PATH stay in it, behind  *)
(* those of the providers, whatever order providers are built in.  "A      *)
(* second provider with the same setting, or a spawned job inheriting the  *)
(* exported value, does not prepend the directories again"                 *)
(* (_prepare_environment), if no two providers have different settings:    *)
(* they are in front of the user's once, or were already.                  *)
OneSetting(p) == \A q \in Provider : Dirs[q] \in {<<>>, Dirs[p]}
PrependedOnce(p, x) == x = Dirs[p] \o user /\ ~ IsPrefix(Dirs[p], user)
DefinitionsKept ==
    /\ IsSuffix(user, path)
    /\ \A p \in Provider : OneSetting(p) => path = user \/ PrependedOnce(p, path)

(* No process in which a provider was built has a METKIT_HOME without a    *)
(* language file, wherever it comes from, since "FDB would hang instead of *)
(* failing" (FR-ENV-002): homes are checked outside the lock, before other *)
(* providers and an inherited value get in between.                        *)
HomesHaveLanguage == exporters # {} => home \subseteq LanguageIn

(* A provider without a configuration reads the schema of the FDB it will  *)
(* open (FR-CONF-002), as long as the environment is the one it was built  *)
(* in; and if a configured provider of its process came first, for good,   *)
(* unless providers disagree.                                              *)
SchemaFitsFDB ==
    \A p \in DOMAIN schema :
        /\ Exports[p] = Unset
        /\ environ = schema[p].environ \/ (schema[p].after /\ Agree)
        => Opens(environ) = schema[p].fdb

(* The environment is what the code can make of it: as found, or one       *)
(* provider's exports; nothing is recorded as exported once providers      *)
(* disagreed.                                                              *)
FDBEnvironment == {e.fdb : e \in Found} \cup {Exports[p] : p \in Provider}
DefinitionPath == Seq(Range(user) \cup UNION {Range(Dirs[p]) : p \in Provider})
PlannableHome == {{}} \cup {HomeOf[p] : p \in Provider} \cup {EnvHomeOf[p] : p \in Provider}
TypeOK ==
    /\ environ \in FDBEnvironment /\ inherited \in FDBEnvironment
    /\ path \in DefinitionPath /\ user \in DefinitionPath
    /\ home \in {e.home : e \in Found} \cup PlannableHome
    /\ exported \in {Unset} \cup {Exports[p] : p \in Provider}
    /\ conflict \in BOOLEAN /\ (conflict => exported = Unset)
    /\ before = {} \/ before = {inherited}
    /\ planned \in [Thread -> [stage : {"idle", "export", "schema"},
                               provider : SUBSET Provider,
                               path : SUBSET DefinitionPath, home : PlannableHome]]
    /\ exporters \subseteq Provider /\ DOMAIN schema \subseteq exporters
    /\ spawns \in 0..MaxSpawns

-----------------------------------------------------------------------------
(* What these rest on.  A provider that waits for its schema has exported. *)
WaitingExported ==
    \A t \in Thread : planned[t].stage = "schema" => planned[t].provider \subseteq exporters

(* A home that is planned, or that a plan relies on, has a language file.  *)
PlannedHomesOK ==
    \A t \in Thread : planned[t].stage = "export" =>
        /\ planned[t].home \subseteq LanguageIn
        /\ planned[t].home = {} => home \subseteq LanguageIn

(* What is planned to be exported keeps the user's directories too.        *)
PlannedPathsKept ==
    \A t \in Thread : \A x \in planned[t].path :
        /\ IsSuffix(user, x)
        /\ \A p \in Provider : OneSetting(p) => PrependedOnce(p, x)

(* Who recorded what: an export is some provider's, and on record are the  *)
(* variables the process started with.                                     *)
ExportsRecorded ==
    /\ exported # Unset =>
        before = {inherited} /\ \E p \in Configured : exported = Exports[p]
    /\ conflict => ~ Agree /\ environ = inherited
    /\ before = {} => environ = inherited

(* Providers that agree are alone in the environment.                      *)
AgreedIsExported ==
    Agree => \A p \in Configured : environ = Exports[p]

(* Unless the process started with some provider's configuration, they     *)
(* are on record too, and disagreement is a conflict.                      *)
ForeignStart ==
    (~ conflict /\ \A p \in Configured : inherited # Exports[p]) =>
        /\ Agree
        /\ \A p \in Configured : exported = Exports[p]
        /\ Configured = {} => environ = inherited /\ exported = Unset

(* The schema of an unconfigured provider is that of the FDB its           *)
(* environment named; a configured one before it had exported.             *)
SchemasOK ==
    \A p \in DOMAIN schema :
        /\ Exports[p] = Unset => schema[p].fdb = Opens(schema[p].environ)
        /\ schema[p].after =>
            /\ Configured # {}
            /\ Agree => \A r \in Configured : schema[p].environ = Exports[r]

(* The inductive invariant of the process environment.                     *)
EnvironmentInv ==
    /\ TypeOK /\ WaitingExported /\ PlannedHomesOK /\ ExportsRecorded /\ AgreedIsExported
    /\ ForeignStart /\ SchemasOK /\ HomesHaveLanguage /\ DefinitionsKept /\ PlannedPathsKept
=============================================================================
