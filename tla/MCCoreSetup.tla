---------------------------- MODULE MCCoreSetup -----------------------------
(***************************************************************************)
(* Three cores in the order of the array "aff", the setup on core 1, one   *)
(* page the kernel may map at any time, any allocation failing.            *)
(***************************************************************************)
EXTENDS CoreSetup

MCAffinity == <<2, 1, 0>>
MCThreads == {0, 1, 2, 3}
=============================================================================
