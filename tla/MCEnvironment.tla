--------------------------- MODULE MCEnvironment ----------------------------
(***************************************************************************)
(* Providers: a1 and a2 configured with the same file, b with inline text  *)
(* of another FDB, all with the same eccodes_definitions; c without a      *)
(* configuration and without definitions.  a1 has a metkit_home, c an env  *)
(* setting with another.  Environments that name no FDB, the first one,    *)
(* another through a variable of higher or of lower precedence, or two at  *)
(* once, that have a METKIT_HOME with or without a language file, and a    *)
(* definition path with all, the last or none of the providers' own.       *)
(***************************************************************************)
EXTENDS Environment, TLC

CONSTANTS a1, a2, b, c, t1, t2,
    FoundNames    \* which of the environments below a run uses

ThreadSymmetry == Permutations(Thread)

MCConfigOf == [p \in Provider |->
    CASE p \in {a1, a2} -> [form |-> "file", fdb |-> "A"]
      [] p = b -> [form |-> "inline", fdb |-> "B"]
      [] OTHER -> [form |-> "unset", fdb |-> "none"]]
MCDirs == [p \in Provider |-> IF p = c THEN <<>> ELSE <<"cosmo", "site">>]
MCHomeOf == [p \in Provider |-> IF p = a1 THEN {"site-language"} ELSE {}]
MCEnvHomeOf == [p \in Provider |-> IF p = c THEN {"own-language"} ELSE {}]

Text(fdb) == [form |-> "text", fdb |-> fdb]
Path(fdb) == [form |-> "path", fdb |-> fdb]
Env(name) ==
    CASE name = "none" -> [fdb |-> <<>>, path |-> <<>>, home |-> {"no-language"}]
      [] name = "user" -> [fdb |-> <<>>, path |-> <<"own">>, home |-> {"own-language"}]
      [] name = "high" ->
            [fdb |-> [n \in {"FDB_CONFIG"} |-> Text("Z")], path |-> <<"own">>, home |-> {}]
      [] name = "low" ->
            [fdb |-> [n \in {"FDB5_CONFIG_FILE"} |-> Path("Z")],
             path |-> <<"cosmo", "site", "own">>, home |-> {}]
      [] name = "both" ->
            [fdb |-> [n \in {"FDB5_CONFIG", "FDB_CONFIG_FILE"} |->
                        IF n = "FDB5_CONFIG" THEN Text("Y") ELSE Path("Z")],
             path |-> <<"site", "own">>, home |-> {}]
      [] name = "same" -> [fdb |-> Exports[a1], path |-> <<"own">>, home |-> {}]
MCFound == {Env(n) : n \in FoundNames}
=============================================================================
