---------------------------- MODULE MCLifecycle -----------------------------
(***************************************************************************)
(* Two regions, one of two chunks, the window of the BATs and five pages   *)
(* of the kernel, of which one is an alias of another, one an alias of a   *)
(* page of ours and one a page of the window; two cores, one block for each*)
(* heap.                                                                   *)
(***************************************************************************)
EXTENDS ModuleLifecycle, TLC

Chunk(start, end) == [start_address |-> start, end_address |-> end]
Region(start, end, chunks) ==
  [effective_start_address |-> start, effective_end_address |-> end,
   physical_addresses |-> chunks]

MCMapping ==
  << Region(8, 11, << Chunk(20, 21), Chunk(24, 26) >>), Region(12, 14, << Chunk(21, 23) >>) >>
MCOffset == << <<0, 1, 3>>, <<0, 2>> >>
MCKernelMap == 16 :> 30 @@ 17 :> 31 @@ 18 :> 22 @@ 19 :> 30 @@ 4 :> 28
=============================================================================
