----------------------------- MODULE MCRetrieve -----------------------------
(***************************************************************************)
(* Two fields of the query and one that matches through; a field archived  *)
(* again has a longer message.                                             *)
(***************************************************************************)
EXTENDS Retrieve

CONSTANTS f1, f2, x1

MCLengthOf == [v \in 1..MaxVersion |-> v]
=============================================================================
