---------------------------- MODULE MCThreadQuery ---------------------------
(***************************************************************************)
(* One CThread object whose owner asks whether it is running.              *)
(***************************************************************************)
EXTENDS CThreadQuery

CONSTANT t1

MCThreads == {t1}
=============================================================================
