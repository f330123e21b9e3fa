---------------------------- MODULE MCRunSummary ----------------------------
(***************************************************************************)
(* Outputs of two fields and of one, looked up and stored by two threads.  *)
(***************************************************************************)
EXTENDS RunSummary, TLC

CONSTANTS q1, q2, t1, t2

MCSize == (q1 :> 2) @@ (q2 :> 1)
MCMaxLookups == (q1 :> 3) @@ (q2 :> 2)
ThreadSymmetry == Permutations(Thread)
=============================================================================
