----------------------------- MODULE MCPageTable ----------------------------
(***************************************************************************)
(* A small, congested page table: two groups of four entries, segments of *)
(* eight pages, three-bit hashes, and every mix of free, valid and stale   *)
(* (nonzero but invalid) kernel entries as the table to start from.  Five  *)
(* pages in two regions, one of two chunks, compete for the slots.         *)
(***************************************************************************)
EXTENDS PageHash, PageReport

Chunk(start, end) == [start_address |-> start, end_address |-> end]

MCMapping ==
  << [effective_start_address |-> 8, effective_end_address |-> 11,
      physical_addresses |-> <<Chunk(20, 21), Chunk(23, 25)>>],
     [effective_start_address |-> 13, effective_end_address |-> 15,
      physical_addresses |-> <<Chunk(21, 23)>>] >>

MCEaOffset == << <<0, 1, 3>>, <<0, 2>> >>

(* Segment 1 is ours; segment 0 and 2 are the kernel's, 3 direct access.   *)
MCSRTable == [s \in 0..3 |-> [t      |-> IF s = 3 THEN 1 ELSE 0,
                              vsid   |-> <<3, 5, 6, 7>>[s + 1],
                              access |-> IF s = 1 THEN 0 ELSE 1]]

MCForeignPTEs ==
  { [v |-> 0, vsid |-> 0, h |-> 0, api |-> 0, rpn |-> 0],    \* free
    [v |-> 1, vsid |-> 3, h |-> 0, api |-> 0, rpn |-> 40],   \* valid
    [v |-> 0, vsid |-> 6, h |-> 1, api |-> 1, rpn |-> 41] }  \* stale

MCEffPages == 0..31
MCPTEGs == 0..1

(* The hypotheses of the theorem about the report hold here.               *)
ASSUME MCReportAssumption == SegmentsAreRead /\ RegionsAreEnclosed /\ KernelKeepsDistance
=============================================================================
