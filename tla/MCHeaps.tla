------------------------------ MODULE MCHeaps -------------------------------
(***************************************************************************)
(* Two contiguous heaps and one in video memory, each with room for one    *)
(* block of two or three units or two of one; two threads.  The requests   *)
(* are plain, too large after rounding, from the end of the heap, for      *)
(* video memory, and of a size that overflows.  Pointers to the ends of    *)
(* regions are given back as well.                                         *)
(***************************************************************************)
EXTENDS Heaps

Region(start, end) == [effective_start_address |-> start, effective_end_address |-> end]
MCMapping == << Region(3, 8), Region(8, 11), Region(17, 20) >>

Asks(size, align, videoOnly) == [size |-> size, align |-> align, videoOnly |-> videoOnly]
MCRequests == { Asks(1, 1, FALSE), Asks(1, -2, FALSE), Asks(1, 1, TRUE), Asks(31, -2, FALSE) }
=============================================================================
