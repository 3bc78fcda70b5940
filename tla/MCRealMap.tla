------------------------------ MODULE MCRealMap -----------------------------
(***************************************************************************)
(* The tables, the segment id and the hash widths of memory_mapping.h, in  *)
(* pages of 0x20000 bytes: 0x80000000 is page \h4000, 0x2E8C0000 is page   *)
(* \h1746.  505 pages go into the 2048 groups of 8 entries that            *)
(* pageTableCpy (0x8000 words) holds, starting from an empty table.        *)
(***************************************************************************)
EXTENDS PageHash, TLC

SEGMENT_UNIQUE_ID == \hAABBCC

MEMORY_START_BASE == \h4000
MEMORY_START_VIDEO_BASE == MEMORY_START_BASE + \h400

MEMORY_HEAP0 == MEMORY_START_BASE
MEMORY_HEAP1 == MEMORY_HEAP0 + \hB6
MEMORY_HEAP2 == MEMORY_HEAP1 + \h71
MEMORY_HEAP3 == MEMORY_HEAP2 + \h39
MEMORY_HEAP4 == MEMORY_HEAP3 + \h26
MEMORY_START_VIDEO == MEMORY_START_VIDEO_BASE
MEMORY_END_VIDEO == MEMORY_START_VIDEO + \h73

OneChunk(ea_start, ea_end, pa_start, pa_end) ==
  [effective_start_address |-> ea_start, effective_end_address |-> ea_end,
   physical_addresses |-> <<[start_address |-> pa_start, end_address |-> pa_end]>>]

RealMapping ==
  << OneChunk(MEMORY_HEAP0, MEMORY_HEAP1, \h1400 + \h331 + \h15, \h1400 + \h3FC),
     OneChunk(MEMORY_HEAP1, MEMORY_HEAP2, \h1400 + \h480, \h1400 + \h4F1),
     OneChunk(MEMORY_HEAP2, MEMORY_HEAP3, \h1400 + \h2C7, \h1400 + \h300),
     OneChunk(MEMORY_HEAP3, MEMORY_HEAP4, \h1400 + \h29E, \h1400 + \h2C4),
     OneChunk(MEMORY_START_VIDEO, MEMORY_END_VIDEO, \hD01, \hD01 + \h73) >>

RealEaOffset == << <<0, \hB6>>, <<0, \h71>>, <<0, \h39>>, <<0, \h26>>, <<0, \h73>> >>

RealEffPages ==
  UNION {RealMapping[i].effective_start_address
           ..(RealMapping[i].effective_end_address - 1) : i \in 1..Len(RealMapping)}

RealSRTable == [s \in {8} |-> [t |-> 0, vsid |-> SEGMENT_UNIQUE_ID]]

EmptyTable == {[v |-> 0, vsid |-> 0, h |-> 0, api |-> 0, rpn |-> 0]}
RealPTEGs == 0..2047

(* The hash functions of PageHash, tabulated once (a function merged with  *)
(* the empty one is a table to TLC).                                       *)
RealPTEG1 == PrimaryGroup @@ <<>>
RealPTEG2 == SecondaryGroup @@ <<>>
RealAPI   == PageApi @@ <<>>
=============================================================================
