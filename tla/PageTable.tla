----------------------------- MODULE PageTable ------------------------------
(***************************************************************************)
(* Building the page table: MemoryMapping_memoryMappingForRegions and      *)
(* MemoryMapping_mapMemory put one page table entry (PTE) per page of      *)
(* mem_mapping into a private copy of the hardware page table, and         *)
(* MemoryMapping_getPageEntryForAddress and getAreaSizeFromPageTable read  *)
(* such a table back.                                                      *)
(*                                                                         *)
(* The table is an array of PTE groups (PTEGs) of PTEGSize entries.  The   *)
(* two hash functions are the constants PTEG1 and PTEG2: what is proved    *)
(* of this module holds for all of them that tell apart the pages that     *)
(* share an API; module PageHash defines the ones of the code.             *)
(***************************************************************************)
EXTENDS AddressMap, FiniteSets

CONSTANTS
  EffPages,       \* the effective pages of interest, those of mem_mapping included
  AddressPages,   \* pages in the 32-bit address space (2^15)
  SegmentPages,   \* pages per segment: ea >> 28 is ea \div SegmentPages
  SRTable,        \* srTableCpy.value: segment -> [t, vsid]
  PTEGs,          \* the group indices of the table
  PTEGSize,       \* entries per group (8)
  PTEG1, PTEG2,   \* effective page -> its primary, its secondary group
  API,            \* effective page -> abbreviated page index
  ForeignPTEs     \* what the kernel's entries look like

VARIABLES
  translation_table,  \* the copy that is being filled
  region, chunk,      \* loop counters i, j of memoryMappingForRegions
  offset,             \* loop counter i of mapMemory, in pages
  cur_ea_start_address,
  status              \* "mapping", "mapped", or "failed": the early return

vars == <<translation_table, region, chunk, offset, cur_ea_start_address, status>>

Slots == 0..(PTEGSize - 1)
Segment(ea) == ea \div SegmentPages
VSID(ea) == SRTable[Segment(ea)].vsid

(* PTEH holds v, vsid, h and api; of PTEL only the page number matters.    *)
PTE == [v : {0, 1}, vsid : Nat, h : {0, 1}, api : Nat, rpn : Nat]

ASSUME PageTableType ==
  /\ PTEGSize \in Nat \ {0, 1}
  /\ SegmentPages \in Nat \ {0}
  /\ EffPages \subseteq Nat
  /\ PTEG1 \in [EffPages -> PTEGs] /\ PTEG2 \in [EffPages -> PTEGs]
  /\ API \in [EffPages -> Nat]
  /\ ForeignPTEs \subseteq PTE
  /\ \A ea \in EffPages : VSID(ea) \in Nat
  /\ \A i \in Regions : EaStart(i)..(EaEnd(i) - 1) \subseteq EffPages

(* The hash and the API together identify a page of a segment.             *)
ASSUME HashTellsPagesApart ==
  \A p, q \in EffPages :
    /\ VSID(p) = VSID(q) /\ API[p] = API[q]
    /\ PTEG1[p] = PTEG1[q] \/ PTEG2[p] = PTEG2[q]
    => p = q

(* "Unique ID": no valid entry of the kernel carries our segment's VSID.   *)
ASSUME UniqueSegmentId ==
  \A pte \in ForeignPTEs, i \in Regions :
    \A ea \in EaStart(i)..(EaEnd(i) - 1) : pte.v = 1 => pte.vsid # VSID(ea)

(* The regions end before the address space does, and the segment register *)
(* made for them is not one of direct access: segment_content has no t bit.*)
ASSUME OwnSegmentIsMapped ==
  /\ AddressPages \in Nat \ {0}
  /\ \A i \in Regions :
       /\ EaEnd(i) < AddressPages
       /\ \A ea \in EaStart(i)..(EaEnd(i) - 1) : SRTable[Segment(ea)].t = 0

-----------------------------------------------------------------------------
(* Writing: MemoryMapping_mapMemory.                                       *)

(* pteh == 0: the only entries mapMemory takes for free.                   *)
PTEHIsZero(pte) == pte.v = 0 /\ pte.vsid = 0 /\ pte.h = 0 /\ pte.api = 0

(* Definitions named ...Slip are not the code: each is the definition after*)
(* it with a slip in it, to see that the properties notice.                *)
AnySlotSlip(g) == 1..(PTEGSize - 1)

(* for (j = 7; j > 0; ...): slots 7 down to 1 are tried, slot 0 is not.    *)
FreeSlots(g) == {s \in 1..(PTEGSize - 1) : PTEHIsZero(translation_table[g][s])}

Last(S) == CHOOSE n \in S : \A m \in S : m <= n

NewPTE(ea, pa, h) == [v |-> 1, vsid |-> VSID(ea), h |-> h, api |-> API[ea], rpn |-> pa]

StorePTE(g, pte) ==
  translation_table' = [translation_table EXCEPT ![g][Last(FreeSlots(g))] = pte]

AtPage ==
  /\ status = "mapping"
  /\ region \in Regions /\ chunk \in Chunks(region)
  /\ offset < PaSize(region, chunk)

ea_addr == cur_ea_start_address + offset
pa_addr == PaOf(region, chunk, offset)

(* The loop body of mapMemory when the primary group has a free slot ...   *)
MapPagePrimary ==
  /\ AtPage
  /\ FreeSlots(PTEG1[ea_addr]) # {}
  /\ StorePTE(PTEG1[ea_addr], NewPTE(ea_addr, pa_addr, 0))
  /\ offset' = offset + 1
  /\ UNCHANGED <<region, chunk, cur_ea_start_address, status>>

PrimaryHashBitSlip ==
  /\ AtPage
  /\ FreeSlots(PTEG1[ea_addr]) = {}
  /\ FreeSlots(PTEG2[ea_addr]) # {}
  /\ StorePTE(PTEG2[ea_addr], NewPTE(ea_addr, pa_addr, 0))
  /\ offset' = offset + 1
  /\ UNCHANGED <<region, chunk, cur_ea_start_address, status>>

(* ... when only the secondary one has ...                                 *)
MapPageSecondary ==
  /\ AtPage
  /\ FreeSlots(PTEG1[ea_addr]) = {}
  /\ FreeSlots(PTEG2[ea_addr]) # {}
  /\ StorePTE(PTEG2[ea_addr], NewPTE(ea_addr, pa_addr, 1))
  /\ offset' = offset + 1
  /\ UNCHANGED <<region, chunk, cur_ea_start_address, status>>

FailureIgnoredSlip ==
  /\ AtPage
  /\ FreeSlots(PTEG1[ea_addr]) = {}
  /\ FreeSlots(PTEG2[ea_addr]) = {}
  /\ offset' = offset + 1
  /\ UNCHANGED <<translation_table, region, chunk, cur_ea_start_address, status>>

(* ... and when neither has: mapMemory returns false and                   *)
(* memoryMappingForRegions returns at once, reporting nothing.             *)
MapPageFails ==
  /\ AtPage
  /\ FreeSlots(PTEG1[ea_addr]) = {}
  /\ FreeSlots(PTEG2[ea_addr]) = {}
  /\ status' = "failed"
  /\ UNCHANGED <<translation_table, region, chunk, offset, cur_ea_start_address>>

AdvanceChunk(pages) ==
  /\ status = "mapping"
  /\ region \in Regions /\ chunk \in Chunks(region)
  /\ offset = PaSize(region, chunk)
  /\ chunk' = chunk + 1
  /\ offset' = 0
  /\ cur_ea_start_address' = cur_ea_start_address + pages
  /\ UNCHANGED <<translation_table, region, status>>

SameStartSlip == AdvanceChunk(0)
OnePageMoreSlip == AdvanceChunk(PaSize(region, chunk) + 1)

(* mapMemory returned true: on to the next chunk of the region.            *)
NextChunk == AdvanceChunk(PaSize(region, chunk))

(* The {0, 0} sentinel: on to the next region, or out of the outer loop.   *)
NextRegion ==
  /\ status = "mapping"
  /\ region \in Regions /\ chunk \notin Chunks(region)
  /\ region' = region + 1
  /\ chunk' = 1
  /\ offset' = 0
  /\ IF region + 1 \in Regions
       THEN cur_ea_start_address' = EaStart(region + 1)
       ELSE UNCHANGED cur_ea_start_address
  /\ UNCHANGED <<translation_table, status>>

AllRegionsMapped ==
  /\ status = "mapping"
  /\ region \notin Regions
  /\ status' = "mapped"
  /\ UNCHANGED <<translation_table, region, chunk, offset, cur_ea_start_address>>

MapInit ==
  /\ region = 1 /\ chunk = 1 /\ offset = 0
  /\ cur_ea_start_address = IF 1 \in Regions THEN EaStart(1) ELSE 0
  /\ status = "mapping"

(* MemoryMapping_memoryMappingForRegions(mem_mapping, srTableCpy, table)   *)
MemoryMapping_memoryMappingForRegions ==
  \/ MapPagePrimary \/ MapPageSecondary \/ MapPageFails
  \/ NextChunk \/ NextRegion \/ AllRegionsMapped

Init ==
  /\ translation_table \in [PTEGs -> [Slots -> ForeignPTEs]]
  /\ MapInit

Next == MemoryMapping_memoryMappingForRegions

Spec == Init /\ [][Next]_vars

-----------------------------------------------------------------------------
(* Reading: MemoryMapping_getPageEntryForAddress(Ex) and                   *)
(* MemoryMapping_getAreaSizeFromPageTable.                                 *)

(* The entries of group g that pass the four tests of the Ex function.     *)
MatchingSlots(g, vsid, api, H) ==
  {s \in Slots : /\ translation_table[g][s].v = 1
                 /\ translation_table[g][s].h = H
                 /\ translation_table[g][s].vsid = vsid
                 /\ translation_table[g][s].api = api}

NoEntry == [v |-> 0, vsid |-> 0, h |-> 0, api |-> 0, rpn |-> 0]

(* The first match of a group, or NoEntry where the function returns false.*)
MemoryMapping_getPageEntryForAddressEx(g, vsid, api, H) ==
  IF MatchingSlots(g, vsid, api, H) = {}
    THEN NoEntry
    ELSE translation_table[g][First(MatchingSlots(g, vsid, api, H))]

MemoryMapping_getPageEntryForAddress(ea, vsid, checkSecondHash) ==
  LET primary   == MemoryMapping_getPageEntryForAddressEx(PTEG1[ea], vsid, API[ea], 0)
      secondary == MemoryMapping_getPageEntryForAddressEx(PTEG2[ea], vsid, API[ea], 1)
  IN  IF primary # NoEntry THEN primary
      ELSE IF checkSecondHash THEN secondary ELSE NoEntry

EndIncludedSlip(start, end) ==
  {ea \in start..end : SRTable[Segment(ea)].t = 0}

(* The pages getAreaSizeFromPageTable walks: those of [start, end) in the  *)
(* segments that are not direct-access ones (those are stepped over).      *)
ScannedPages(start, end) ==
  {ea \in start..(end - 1) : SRTable[Segment(ea)].t = 0}

MemoryMapping_getAreaSizeFromPageTable(start, maxSize) ==
  LET end     == (start + maxSize) % AddressPages
      Hit(ea) == MemoryMapping_getPageEntryForAddress(ea, VSID(ea), FALSE) # NoEntry
  IN  IF Segment(end) < Segment(start) THEN 0
      ELSE Cardinality({ea \in ScannedPages(start, end) :
             \A q \in ScannedPages(start, end) : q <= ea => Hit(q)})

-----------------------------------------------------------------------------
(* Properties.                                                             *)

TypeOK ==
  /\ translation_table \in [PTEGs -> [Slots -> PTE]]
  /\ region \in 1..(Len(mem_mapping) + 1)
  /\ chunk \in Nat /\ offset \in Nat /\ cur_ea_start_address \in Nat
  /\ status \in {"mapping", "mapped", "failed"}

(* Page k of chunk j of region i has been given its entry.                 *)
Placed(i, j, k) ==
  \/ i < region
  \/ i = region /\ j < chunk
  \/ i = region /\ j = chunk /\ k < offset

(* What the MMU makes of an effective page: both hashes are searched.      *)
Translation(ea) == MemoryMapping_getPageEntryForAddress(ea, VSID(ea), TRUE)

(* Every page placed so far - every page of mem_mapping once the status is *)
(* "mapped" - is found in the table by a search of both groups, and the    *)
(* entry found sends it where MemoryMapping_EffectiveToPhysical says it    *)
(* is, which MemoryMapping_PhysicalToEffective takes back: no later        *)
(* insertion, no hash collision and no entry of the kernel gets in the way.*)
PlacedPagesTranslate ==
  \A i \in Regions : \A j \in Chunks(i) : \A k \in 0..(PaSize(i, j) - 1) :
    Placed(i, j, k) =>
      LET ea  == EaOf(i, j, k)
          pte == Translation(ea)
      IN  /\ pte # NoEntry
          /\ pte.rpn = MemoryMapping_EffectiveToPhysical(ea)
          /\ MemoryMapping_PhysicalToEffective(pte.rpn) = ea

(* The table answers for no page of the regions that has not been placed:  *)
(* a mapping that failed half way leaves exactly a prefix of the pages     *)
(* mapped, and nothing maps to a physical page no chunk names.             *)
OnlyPlacedPagesTranslate ==
  \A i \in Regions : \A j \in Chunks(i) : \A k \in 0..(PaSize(i, j) - 1) :
    ~Placed(i, j, k) => Translation(EaOf(i, j, k)) = NoEntry

(* An entry in group g answers for a page: it is valid, has the page's     *)
(* VSID and API, and its H bit names the hash function that leads to g.    *)
AnswersFor(ea, g, pte) ==
  /\ pte.v = 1 /\ pte.vsid = VSID(ea) /\ pte.api = API[ea]
  /\ \/ pte.h = 0 /\ g = PTEG1[ea]
     \/ pte.h = 1 /\ g = PTEG2[ea]

(* The pages of ours the table answers for, and the order of the tables.   *)
TranslatedPages ==
  {ea \in OurPages : \E g \in PTEGs, s \in Slots : AnswersFor(ea, g, translation_table[g][s])}

EarlierPages ==
  [ea \in OurPages |->
     UNION {FirstPages(h, ea - EaStart(h)) : h \in {h \in Regions : ea \in Pages(h)}}]

Promise == INSTANCE OrderedMapping WITH
  TablePages <- OurPages,
  Before     <- EarlierPages,
  mapped     <- TranslatedPages

(* To those who use the memory the mapping is module OrderedMapping: the   *)
(* pages become visible one by one in table order, none is skipped or lost *)
(* when a group is congested, and the end without a failure means all.     *)
MappingPromise == Promise!Spec

(* Translations of other segments are left alone by every step: whatever   *)
(* VSID, API, hash function and group a search is for, if the VSID is not  *)
(* one of ours it finds the same entry before and after.                   *)
ForeignTranslationsKept ==
  [][\A g \in PTEGs, pte \in ForeignPTEs :
       pte.v = 1 =>
         MemoryMapping_getPageEntryForAddressEx(g, pte.vsid, pte.api, pte.h)'
           = MemoryMapping_getPageEntryForAddressEx(g, pte.vsid, pte.api, pte.h)]_vars

(* The number of pages of [start, start + n) before the first unmapped one.*)
TranslatedRun(start, n) ==
  Cardinality({ea \in start..(start + n - 1) :
                 \A q \in start..ea : Translation(q) # NoEntry})

(* Asked for any leading part of a region, getAreaSizeFromPageTable, which *)
(* searches only the primary hash, reports no more than the MMU translates *)
(* there, and exactly that when no page of the region went to its          *)
(* secondary group.                                                        *)
AreaSizeNeverOverstates ==
  \A i \in Regions : \A n \in 1..(EaEnd(i) - EaStart(i)) :
    LET size == MemoryMapping_getAreaSizeFromPageTable(EaStart(i), n)
    IN  /\ size <= TranslatedRun(EaStart(i), n)
        /\ (\A ea \in EaStart(i)..(EaStart(i) + n - 1) : Translation(ea).h = 0)
             => size = TranslatedRun(EaStart(i), n)

(* The entries in the primary group of a page that look like ours.         *)
OwnSlots(ea) == {s \in Slots : translation_table[PTEG1[ea]][s].vsid = VSID(ea)}

(* The pages of mem_mapping hash to distinct primary groups: the group a   *)
(* placed page went to holds no second entry of ours, so no page of ours   *)
(* makes another one overflow into its secondary group, or the mapping     *)
(* fail.                                                                   *)
OwnEntriesSpread ==
  \A i \in Regions : \A j \in Chunks(i) : \A k \in 0..(PaSize(i, j) - 1) :
    Placed(i, j, k) =>
      LET own == OwnSlots(EaOf(i, j, k)) IN \E s \in own : own = {s}

(* The entry that page k of chunk j of region i gets, and the group of the *)
(* hash function its H bit names.                                          *)
CellPTE(i, j, k, h) == NewPTE(EaOf(i, j, k), PaOf(i, j, k), h)
CellGroup(i, j, k, h) == IF h = 0 THEN PTEG1[EaOf(i, j, k)] ELSE PTEG2[EaOf(i, j, k)]

(* The cursor of the two nested loops and of mapMemory is at a page.       *)
CursorInv ==
  region \in Regions =>
    /\ chunk \in 1..(Len(ChunkTable(region)) + 1)
    /\ cur_ea_start_address = EaOf(region, chunk, 0)
    /\ chunk \in Chunks(region) => offset <= PaSize(region, chunk)
    /\ chunk \notin Chunks(region) => offset = 0

(* A valid entry was the kernel's, or belongs to a page placed, and sits   *)
(* where the hash it claims sends it.                                      *)
EntriesSound ==
  \A g \in PTEGs, s \in Slots :
    translation_table[g][s].v = 1 =>
      \/ translation_table[g][s] \in ForeignPTEs
      \/ \E i \in Regions : \E j \in Chunks(i) : \E k \in 0..(PaSize(i, j) - 1) :
           \E h \in {0, 1} :
             /\ Placed(i, j, k)
             /\ g = CellGroup(i, j, k, h)
             /\ translation_table[g][s] = CellPTE(i, j, k, h)

(* Every page placed still has its entry.                                  *)
EntriesComplete ==
  \A i \in Regions : \A j \in Chunks(i) : \A k \in 0..(PaSize(i, j) - 1) :
    Placed(i, j, k) =>
      \E h \in {0, 1}, s \in Slots :
        translation_table[CellGroup(i, j, k, h)][s] = CellPTE(i, j, k, h)

(* The inductive invariant: what every step of the mapping relies on and   *)
(* re-establishes.                                                         *)
IInv == TypeOK /\ CursorInv /\ EntriesSound /\ EntriesComplete

(* "When PTEGaddr1 is full (all 8 PTEs set), PTEGaddr2 is used": a page of *)
(* ours sits in its secondary group only if its primary group is full.     *)
SecondaryOnlyWhenPrimaryFull ==
  \A i \in Regions : \A ea \in EaStart(i)..(EaEnd(i) - 1) :
    Translation(ea).h = 1 =>
      \A s \in Slots : ~PTEHIsZero(translation_table[PTEG1[ea]][s])

(* "The first bit indicates if the PTE-slot inside this group is already   *)
(* taken": when no slot is found, all the slots tried have that bit set.   *)
FailsOnlyOnValidEntries ==
  status = "failed" =>
    \A s \in 1..(PTEGSize - 1) : /\ translation_table[PTEG1[ea_addr]][s].v = 1
                                 /\ translation_table[PTEG2[ea_addr]][s].v = 1
=============================================================================
