---------------------------- MODULE MCLocalPath -----------------------------
(***************************************************************************)
(* Patterns and constant queries of one or two keys: single values, lists, *)
(* a value with "-", and components that are just as long as a component   *)
(* may be, or longer, before or after substitution.                        *)
(***************************************************************************)
EXTENDS LocalPath, TLC

MCKeyOrder == <<"step=", "param=">>
MCDigest(v) == ToString(v)
MCPrefix == <<<<"storage">>, <<"fdb">>>>
MCValues == {<<"0">>, <<"6", "6">>}

Step(v) == <<"step=", v>>
Param(v) == <<"param=", v>>
MCWritten == {
    <<Param(<<"{p}">>), Step(<<"{s}">>)>>, <<Step(<<"0", "/", "{s}">>)>>,
    <<Step(<<"{s}", "/", "{s}">>)>>, <<Step(<<"{s}">>)>>,
    <<Step(<<"0", "/", "6">>)>>, <<Step(<<"0", "-", "6">>)>>,
    <<Step(<<"0", "/", "6", "6">>)>>, <<Step(<<"0", "-", "6", "6">>)>>,
    <<Param(<<"6">>), Step(<<"0", "/", "6", "6">>)>>, <<Step(<<"0">>), Param(<<"6">>)>>,
    <<Step(<<"0", "+", "6">>)>>, <<Step(<<"0">>), Step(<<"6">>)>>}

MCAtom == {"0", "6", "-"} \cup UNION {{MCDigest(p[i][2]) : i \in DOMAIN p} : p \in MCWritten}
=============================================================================
