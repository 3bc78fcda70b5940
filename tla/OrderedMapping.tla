--------------------------- MODULE OrderedMapping ---------------------------
(***************************************************************************)
(* What MemoryMapping_memoryMappingForRegions promises those who use the   *)
(* memory: page after page of the regions, in the order of the tables,     *)
(* comes to be translated and stays so.  It may give up before the last    *)
(* one, and is done only after it.  Of groups, slots and hash functions    *)
(* nothing is seen.                                                        *)
(***************************************************************************)

CONSTANTS
  TablePages,    \* the pages of the regions
  Before         \* page -> the pages in front of it in the tables

VARIABLES
  mapped,        \* the pages that are translated
  status         \* "mapping", "mapped" or "failed"

vars == <<mapped, status>>

Init == mapped = {} /\ status = "mapping"

(* The next page in the order of the tables.                               *)
MapPage ==
  /\ status = "mapping" /\ UNCHANGED status
  /\ \E p \in TablePages \ mapped :
       Before[p] = mapped /\ mapped' = mapped \cup {p}

GiveUp ==
  /\ status = "mapping" /\ status' = "failed"
  /\ mapped # TablePages
  /\ UNCHANGED mapped

Finish ==
  /\ status = "mapping" /\ status' = "mapped"
  /\ mapped = TablePages
  /\ UNCHANGED mapped

Next == MapPage \/ GiveUp \/ Finish

Spec == Init /\ [][Next]_vars
=============================================================================
