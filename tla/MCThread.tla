------------------------------ MODULE MCThread ------------------------------
(***************************************************************************)
(* Three CThread objects on one heap, one of them detached.                *)
(***************************************************************************)
EXTENDS CThread

CONSTANTS t1, t2, t3

MCThreads == {t1, t2, t3}
MCDetached == {t3}
=============================================================================
