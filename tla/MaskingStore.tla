---------------------------- MODULE MaskingStore ----------------------------
(***************************************************************************)
(* What the plugin promises of an FDB output, whoever archives it and      *)
(* however: fields appear at once with the second they are flushed in,     *)
(* later ones mask earlier ones under the same key, none ever disappears   *)
(* or grows older, and a store step is accepted only when every field of   *)
(* its query is there.  Module StoreStep implements it; module Lookups     *)
(* reads from it.                                                          *)
(***************************************************************************)
EXTENDS Requests

CONSTANT Output    \* the queries of the workflow's outputs

VARIABLES
    clock,     \* the current second of FDB's index clock
    stamp,     \* [FieldKey -> Nat]: index timestamp, 0 if FDB has no such field
    accepted   \* the store steps that succeeded, and the second they asked for

maskVars == <<clock, stamp, accepted>>

MaskInit ==
    /\ clock = 1
    /\ stamp = [f \in FieldKey |-> 0]
    /\ accepted = {}

(* The clock runs.                                                         *)
MaskTick ==
    /\ clock' = clock + 1
    /\ UNCHANGED <<stamp, accepted>>

(* A flush: some fields get the current second.                            *)
Masks(F) == stamp' = [f \in FieldKey |-> IF f \in F THEN clock ELSE stamp[f]]
MaskWrite ==
    /\ \E F \in SUBSET FieldKey : Masks(F)
    /\ UNCHANGED <<clock, accepted>>

(* Every field the query names is in FDB since that second, and they are   *)
(* as many as the expansion counts.                                        *)
Stored(q, s) ==
    /\ Cardinality(Named(q)) = Expected(q)
    /\ \A f \in Named(q) : f \in FieldKey /\ stamp[f] >= s

MaskAccept(q, s) ==
    /\ Stored(q, s)
    /\ accepted' = accepted \cup {[query |-> q, since |-> s]}
    /\ UNCHANGED <<clock, stamp>>

MaskNext ==
    \/ MaskTick
    \/ MaskWrite
    \/ \E q \in Output, s \in 1..clock : MaskAccept(q, s)

MaskSpec == MaskInit /\ [][MaskNext]_maskVars
=============================================================================
