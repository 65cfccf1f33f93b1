-------------------------- MODULE MCStrandExecutor --------------------------
(***************************************************************************)
(* StrandExecutor for TLC: four works give the queue a front, a middle and *)
(* a tail while one work runs, and two origin threads can run a job each.  *)
(***************************************************************************)
EXTENDS StrandExecutor

CONSTANTS w1, w2, w3, w4, t1, t2

MCWorks == {w1, w2, w3, w4}
MCThreads == {t1, t2}
=============================================================================
