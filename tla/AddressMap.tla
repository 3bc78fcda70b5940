----------------------------- MODULE AddressMap -----------------------------
(***************************************************************************)
(* The static description of the memory the module maps (the arrays of     *)
(* memory_mapping.h) and the two software translations over it,            *)
(* MemoryMapping_EffectiveToPhysical and MemoryMapping_PhysicalToEffective.*)
(*                                                                         *)
(* Addresses are counted in pages of 1 << PAGE_INDEX_SHIFT = 0x20000       *)
(* bytes.  Every bound in the tables, and both bounds of the BAT window,   *)
(* is a multiple of that size, so a byte address a translates as its page  *)
(* a \div 0x20000 does, with a % 0x20000 carried over.                     *)
(*                                                                         *)
(* A table is a sequence here; the {0, 0, nullptr} and {0, 0} sentinels    *)
(* that end the C arrays are the ends of the sequences.                    *)
(***************************************************************************)
EXTENDS Integers, Sequences

CONSTANTS
  mem_mapping,    \* the regions, in table order
  EaOffset,       \* EaOffset[i][j]: pages of region i before its chunk j
  BatEaStart,     \* the window the BATs map: first effective page,
  BatEaEnd,       \*   one past the last effective page,
  BatPaStart      \*   and the first physical page behind it

memory_values_t == [start_address : Nat, end_address : Nat]

memory_mapping_t ==
  [effective_start_address : Nat,
   effective_end_address   : Nat,
   physical_addresses      : Seq(memory_values_t)]

Regions == 1..Len(mem_mapping)
EaStart(i) == mem_mapping[i].effective_start_address
EaEnd(i)   == mem_mapping[i].effective_end_address
ChunkTable(i) == mem_mapping[i].physical_addresses
Chunks(i)  == 1..Len(ChunkTable(i))
PaStart(i, j) == ChunkTable(i)[j].start_address
PaEnd(i, j)   == ChunkTable(i)[j].end_address
PaSize(i, j)  == PaEnd(i, j) - PaStart(i, j)

(* Page k of chunk j of region i: where it is seen and where it lives.     *)
EaOf(i, j, k) == EaStart(i) + EaOffset[i][j] + k
PaOf(i, j, k) == PaStart(i, j) + k

Pages(h) == EaStart(h)..(EaEnd(h) - 1)
OurPages == UNION {Pages(h) : h \in Regions}

(* Not the code: one page too many, to see that the properties notice.     *)
OverrunSlip(h, n) ==
  (UNION {Pages(k) : k \in {k \in Regions : k < h}}) \cup EaStart(h)..(EaStart(h) + n)

(* What memoryMappingForRegions has put into the page table once it is in  *)
(* region h, n pages after its start.                                      *)
FirstPages(h, n) ==
  (UNION {Pages(k) : k \in {k \in Regions : k < h}}) \cup EaStart(h)..(EaStart(h) + n - 1)

-----------------------------------------------------------------------------
(* What the tables of memory_mapping.h satisfy.                            *)

ASSUME MapType ==
  /\ mem_mapping \in Seq(memory_mapping_t)
  /\ \A i \in Regions : \A j \in Chunks(i) :
       0 < PaStart(i, j) /\ PaStart(i, j) < PaEnd(i, j)
  /\ BatEaStart \in Nat /\ BatEaEnd \in Nat /\ BatPaStart \in Nat
  /\ 0 < BatEaStart /\ BatEaStart < BatEaEnd /\ 0 < BatPaStart

(* EaOffset is the running sum of the chunk sizes, which fill the region.  *)
ASSUME OffsetIsRunningSum ==
  \A i \in Regions :
    /\ EaOffset[i] \in [1..(Len(ChunkTable(i)) + 1) -> Nat]
    /\ EaOffset[i][1] = 0
    /\ \A j \in Chunks(i) :
         EaOffset[i][j + 1] = EaOffset[i][j] + PaSize(i, j)
    /\ \A j1, j2 \in Chunks(i) :
         j1 < j2 => EaOffset[i][j1] + PaSize(i, j1) <= EaOffset[i][j2]
    /\ \A j \in Chunks(i) :
         EaStart(i) + EaOffset[i][j] + PaSize(i, j) <= EaEnd(i)
    /\ EaStart(i) + EaOffset[i][Len(ChunkTable(i)) + 1] = EaEnd(i)

(* Regions do not overlap each other, nor the effective side of the BAT.   *)
ASSUME EffectiveDisjoint ==
  /\ \A i1, i2 \in Regions :
       i1 # i2 => EaEnd(i1) <= EaStart(i2) \/ EaEnd(i2) <= EaStart(i1)
  /\ \A i \in Regions : EaEnd(i) <= BatEaStart \/ BatEaEnd <= EaStart(i)

(* Chunks do not overlap each other, nor the physical side of the BAT.     *)
ASSUME PhysicalDisjoint ==
  /\ \A i1, i2 \in Regions : \A j1 \in Chunks(i1), j2 \in Chunks(i2) :
       <<i1, j1>> # <<i2, j2>> =>
         PaEnd(i1, j1) <= PaStart(i2, j2) \/ PaEnd(i2, j2) <= PaStart(i1, j1)
  /\ \A i \in Regions : \A j \in Chunks(i) :
       \/ PaEnd(i, j) <= BatPaStart
       \/ BatPaStart + (BatEaEnd - BatEaStart) <= PaStart(i, j)

-----------------------------------------------------------------------------
(* "for (...) if (...) break;" over a table: the first index that hits.    *)
First(S) == CHOOSE n \in S : \A m \in S : n <= m

RegionsAt(ea) == {i \in Regions : ea >= EaStart(i) /\ ea < EaEnd(i)}

(* The chunks of region i at whose end the running offset has passed ea.   *)
ChunksPast(i, ea) == {j \in Chunks(i) : ea < EaOf(i, j, PaSize(i, j))}

MemoryMapping_EffectiveToPhysical(ea) ==
  IF BatEaStart <= ea /\ ea < BatEaEnd
    THEN ea + (BatPaStart - BatEaStart)
    ELSE IF RegionsAt(ea) = {} THEN 0
    ELSE LET i == First(RegionsAt(ea))
         IN  IF ChunksPast(i, ea) = {} THEN 0
             ELSE LET j == First(ChunksPast(i, ea))
                  IN  (ea - EaOf(i, j, 0)) + PaStart(i, j)

(* Not the code: the comparison below with a slip, to see that the         *)
(* properties notice.                                                      *)
StartExcludedSlip(i, pa) == {j \in Chunks(i) : PaStart(i, j) < pa /\ pa < PaEnd(i, j)}

(* The chunks of region i that hold physical page pa.                      *)
ChunksHolding(i, pa) == {j \in Chunks(i) : PaStart(i, j) <= pa /\ pa < PaEnd(i, j)}

RegionsHolding(pa) == {i \in Regions : ChunksHolding(i, pa) # {}}

MemoryMapping_PhysicalToEffective(pa) ==
  IF BatPaStart <= pa /\ pa < BatPaStart + (BatEaEnd - BatEaStart)
    THEN pa - (BatPaStart - BatEaStart)
    ELSE IF RegionsHolding(pa) = {} THEN 0
    ELSE LET i == First(RegionsHolding(pa))
             j == First(ChunksHolding(i, pa))
         IN  (pa - PaStart(i, j)) + (EaStart(i) + EaOffset[i][j])
=============================================================================
