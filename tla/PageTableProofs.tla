-------------------------- MODULE PageTableProofs ---------------------------
(***************************************************************************)
(* The invariants of PageTable for every table, every pair of hash         *)
(* functions that tells pages apart, and every table to start from.        *)
(***************************************************************************)
EXTENDS PageTable, AddressMapProofs, FiniteSetTheorems

GroupHash == {0, 1}

-----------------------------------------------------------------------------
(* Facts about the data.                                                   *)

LEMMA BoundedCell ==
  ASSUME NEW i \in Regions, NEW j \in Chunks(i), NEW k \in 0..(PaSize(i, j) - 1)
  PROVE  IsCell(i, j, k)
<1>1. PaSize(i, j) \in Nat
  BY ChunkFacts
<1> QED
  BY <1>1 DEF IsCell

LEMMA CellIsBounded ==
  ASSUME NEW i, NEW j, NEW k, IsCell(i, j, k)
  PROVE  i \in Regions /\ j \in Chunks(i) /\ k \in 0..(PaSize(i, j) - 1)
<1>1. i \in Regions /\ j \in Chunks(i) /\ k \in Nat /\ k < PaSize(i, j)
  BY DEF IsCell
<1>2. PaSize(i, j) \in Nat
  BY <1>1, ChunkFacts
<1> QED
  BY <1>1, <1>2

(* A cell's page is one the hash functions are defined on.                 *)
LEMMA CellHashes ==
  ASSUME NEW i, NEW j, NEW k, IsCell(i, j, k), NEW h \in GroupHash
  PROVE  /\ i \in Regions /\ EaOf(i, j, k) \in EaStart(i)..(EaEnd(i) - 1)
         /\ EaOf(i, j, k) \in EffPages
         /\ CellGroup(i, j, k, h) \in PTEGs
         /\ CellPTE(i, j, k, h) \in PTE
<1>1. i \in Regions
  BY DEF IsCell
<1>2. EaStart(i) \in Nat /\ EaEnd(i) \in Nat
  BY <1>1, RegionFacts
<1>3. /\ EaOf(i, j, k) \in Nat /\ PaOf(i, j, k) \in Nat
      /\ EaStart(i) <= EaOf(i, j, k) /\ EaOf(i, j, k) < EaEnd(i)
  BY CellFacts
<1>4. EaOf(i, j, k) \in EaStart(i)..(EaEnd(i) - 1)
  BY <1>2, <1>3
<1>5. EaOf(i, j, k) \in EffPages
  BY <1>1, <1>4, PageTableType DEF PageTableType
<1>6. PTEG1[EaOf(i, j, k)] \in PTEGs /\ PTEG2[EaOf(i, j, k)] \in PTEGs
  BY <1>5, PageTableType DEF PageTableType
<1>7. API[EaOf(i, j, k)] \in Nat /\ VSID(EaOf(i, j, k)) \in Nat
  BY <1>5, PageTableType DEF PageTableType
<1>8. CellGroup(i, j, k, h) \in PTEGs
  BY <1>6 DEF CellGroup
<1>9. CellPTE(i, j, k, h) \in PTE
  BY <1>3, <1>7 DEF CellPTE, NewPTE, PTE, GroupHash
<1> QED
  BY <1>1, <1>4, <1>5, <1>8, <1>9

(* Two pages whose entries look alike in one group are the same page.      *)
LEMMA OneCellPerEntry ==
  ASSUME NEW i1, NEW j1, NEW k1, IsCell(i1, j1, k1),
         NEW i2, NEW j2, NEW k2, IsCell(i2, j2, k2),
         NEW h \in GroupHash,
         CellGroup(i1, j1, k1, h) = CellGroup(i2, j2, k2, h),
         VSID(EaOf(i1, j1, k1)) = VSID(EaOf(i2, j2, k2)),
         API[EaOf(i1, j1, k1)] = API[EaOf(i2, j2, k2)]
  PROVE  i1 = i2 /\ j1 = j2 /\ k1 = k2
<1>1. EaOf(i1, j1, k1) \in EffPages /\ EaOf(i2, j2, k2) \in EffPages
  BY CellHashes
<1>2. \/ PTEG1[EaOf(i1, j1, k1)] = PTEG1[EaOf(i2, j2, k2)]
      \/ PTEG2[EaOf(i1, j1, k1)] = PTEG2[EaOf(i2, j2, k2)]
  BY DEF CellGroup
<1>3. EaOf(i1, j1, k1) = EaOf(i2, j2, k2)
  BY <1>1, <1>2, HashTellsPagesApart DEF HashTellsPagesApart
<1> QED
  BY <1>3, EaOfInjective

(* "for (j = 7; j > 0; ...)" stops at the last free slot.                  *)
LEMMA LastOfNonempty ==
  ASSUME NEW n \in Nat, NEW S \in SUBSET (0..n), S # {}
  PROVE  Last(S) \in S
<1> DEFINE D == {d \in Nat : n - d \in S}
<1>1. \A m \in S : m \in 0..n
  OBVIOUS
<1>2. PICK m0 \in S : TRUE
  OBVIOUS
<1>3. n - m0 \in Nat /\ n - (n - m0) = m0
  BY <1>1, <1>2
<1>4. n - m0 \in D
  BY <1>2, <1>3
<1>5. PICK d \in D : \A e \in D : d <= e
  BY <1>4, LeastExists
<1>6. ASSUME NEW p \in S PROVE p <= n - d
  <2>1. p \in Nat /\ p <= n
    BY <1>1
  <2>2. n - p \in Nat /\ n - (n - p) = p
    BY <2>1
  <2>3. n - p \in D
    BY <2>2
  <2>4. d <= n - p /\ d \in Nat
    BY <1>5, <2>3
  <2> QED
    BY <2>1, <2>4
<1>7. \E q \in S : \A p \in S : p <= q
  BY <1>5, <1>6
<1> QED
  BY <1>7 DEF Last

-----------------------------------------------------------------------------
(* The inductive invariant.                                                *)

(* No page has been placed when the mapping begins.                        *)
LEMMA NonePlacedFirst ==
  ASSUME Init, NEW i \in Regions, NEW j \in Chunks(i), NEW k \in 0..(PaSize(i, j) - 1)
  PROVE  ~Placed(i, j, k)
<1>1. IsCell(i, j, k) /\ region = 1 /\ chunk = 1 /\ offset = 0
  BY BoundedCell DEF Init, MapInit
<1>2. i \in 1..Len(mem_mapping) /\ k \in Nat /\ Len(mem_mapping) \in Nat
  BY <1>1, MapType DEF MapType, IsCell, Regions
<1>3. j \in 1..Len(ChunkTable(i)) /\ Len(ChunkTable(i)) \in Nat
  BY RegionFacts DEF Chunks
<1> QED
  BY <1>1, <1>2, <1>3 DEF Placed

LEMMA InitHasIInv ==
  ASSUME Init
  PROVE  IInv
<1>1. /\ translation_table \in [PTEGs -> [Slots -> ForeignPTEs]]
      /\ region = 1 /\ chunk = 1 /\ offset = 0 /\ status = "mapping"
      /\ cur_ea_start_address = IF 1 \in Regions THEN EaStart(1) ELSE 0
  BY DEF Init, MapInit
<1>2. Len(mem_mapping) \in Nat
  BY MapType DEF MapType
<1>3. 1 \in Regions => EaStart(1) \in Nat /\ Len(ChunkTable(1)) \in Nat
  BY RegionFacts
<1>4. 1 \in Regions => EaOffset[1][1] = 0
  BY OffsetIsRunningSum DEF OffsetIsRunningSum
<1>5. TypeOK
  <2>1. translation_table \in [PTEGs -> [Slots -> PTE]]
    BY <1>1, PageTableType DEF PageTableType
  <2>2. cur_ea_start_address \in Nat
    BY <1>1, <1>3
  <2> QED
    BY <1>1, <1>2, <2>1, <2>2 DEF TypeOK
<1>6. CursorInv
  <2> SUFFICES ASSUME 1 \in Regions PROVE CursorInv
    BY <1>1 DEF CursorInv
  <2>1. chunk \in 1..(Len(ChunkTable(region)) + 1)
    BY <1>1, <1>3
  <2>2. cur_ea_start_address = EaOf(region, chunk, 0)
    BY <1>1, <1>3, <1>4 DEF EaOf
  <2>3. chunk \in Chunks(region) => offset <= PaSize(region, chunk)
    BY <1>1, ChunkFacts
  <2> QED
    BY <1>1, <2>1, <2>2, <2>3 DEF CursorInv
<1>7. \A i \in Regions : \A j \in Chunks(i) : \A k \in 0..(PaSize(i, j) - 1) :
        ~Placed(i, j, k)
  BY NonePlacedFirst
<1>8. EntriesSound
  BY <1>1 DEF EntriesSound
<1>9. EntriesComplete
  BY <1>7 DEF EntriesComplete
<1> QED
  BY <1>5, <1>6, <1>8, <1>9 DEF IInv

(* The cursor names a page that has not been placed.                       *)
LEMMA CursorCell ==
  ASSUME TypeOK, CursorInv, AtPage
  PROVE  /\ IsCell(region, chunk, offset)
         /\ ea_addr = EaOf(region, chunk, offset)
         /\ pa_addr = PaOf(region, chunk, offset)
<1>1. /\ region \in Regions /\ chunk \in Chunks(region)
      /\ offset \in Nat /\ offset < PaSize(region, chunk)
  BY DEF AtPage, TypeOK
<1>2. cur_ea_start_address = EaOf(region, chunk, 0)
  BY <1>1 DEF CursorInv
<1>3. IsCell(region, chunk, offset)
  BY <1>1 DEF IsCell
<1>4. EaOf(region, chunk, offset) = EaOf(region, chunk, 0) + offset
  BY <1>3, CellFacts
<1> QED
  BY <1>2, <1>3, <1>4 DEF ea_addr, pa_addr

(* Steps that leave the table and the pages placed alone keep its entries. *)
LEMMA EntriesUntouched ==
  ASSUME EntriesSound, EntriesComplete, UNCHANGED translation_table,
         \A i \in Regions : \A j \in Chunks(i) : \A k \in 0..(PaSize(i, j) - 1) :
           Placed(i, j, k)' <=> Placed(i, j, k)
  PROVE  EntriesSound' /\ EntriesComplete'
<1>1. EntriesSound'
  <2> SUFFICES ASSUME NEW g \in PTEGs, NEW s \in Slots, translation_table[g][s].v = 1
               PROVE  \/ translation_table[g][s] \in ForeignPTEs
                      \/ \E i \in Regions : \E j \in Chunks(i) :
                           \E k \in 0..(PaSize(i, j) - 1) : \E h \in {0, 1} :
                             /\ Placed(i, j, k)'
                             /\ g = CellGroup(i, j, k, h)
                             /\ translation_table[g][s] = CellPTE(i, j, k, h)
    BY DEF EntriesSound
  <2> QED
    BY DEF EntriesSound
<1>2. EntriesComplete'
  BY DEF EntriesComplete, CellPTE, NewPTE
<1> QED
  BY <1>1, <1>2

(* mapMemory's store takes a free slot of the group for the page at the    *)
(* cursor, leaves every other slot alone, and places that page only.       *)
LEMMA StoreTakesFreeSlot ==
  ASSUME TypeOK, CursorInv, AtPage, NEW h \in GroupHash,
         NEW g, g = CellGroup(region, chunk, offset, h),
         FreeSlots(g) # {},
         StorePTE(g, CellPTE(region, chunk, offset, h)),
         offset' = offset + 1,
         UNCHANGED <<region, chunk>>
  PROVE  /\ \E s0 \in FreeSlots(g) :
              /\ s0 \in Slots /\ s0 = Last(FreeSlots(g))
              /\ translation_table'[g][s0] = CellPTE(region, chunk, offset, h)
              /\ \A g1 \in PTEGs, s1 \in Slots : ~(g1 = g /\ s1 = s0) =>
                   translation_table'[g1][s1] = translation_table[g1][s1]
         /\ \A i \in Regions : \A j \in Chunks(i) : \A k \in 0..(PaSize(i, j) - 1) :
              Placed(i, j, k)' <=>
                Placed(i, j, k) \/ (i = region /\ j = chunk /\ k = offset)
<1> DEFINE s0 == Last(FreeSlots(g))
           new == CellPTE(region, chunk, offset, h)
<1>1. IsCell(region, chunk, offset)
  BY CursorCell
<1>2. g \in PTEGs /\ new \in PTE /\ offset \in Nat
  BY <1>1, CellHashes DEF IsCell
<1>3. s0 \in FreeSlots(g) /\ s0 \in Slots
  <2>1. PTEGSize \in Nat \ {0, 1}
    BY PageTableType DEF PageTableType
  <2>2. PTEGSize - 1 \in Nat /\ FreeSlots(g) \in SUBSET (0..(PTEGSize - 1))
    BY <2>1 DEF FreeSlots
  <2>3. s0 \in FreeSlots(g)
    BY <2>2, LastOfNonempty
  <2> QED
    BY <2>2, <2>3 DEF Slots
<1>4. translation_table \in [PTEGs -> [Slots -> PTE]]
  BY DEF TypeOK
<1>5. translation_table' = [translation_table EXCEPT ![g][s0] = new]
  BY DEF StorePTE
<1> HIDE DEF s0, new
<1>6. translation_table'[g][s0] = new
  BY <1>2, <1>3, <1>4, <1>5
<1>7. ASSUME NEW g1 \in PTEGs, NEW s1 \in Slots, ~(g1 = g /\ s1 = s0)
      PROVE  translation_table'[g1][s1] = translation_table[g1][s1]
  BY <1>2, <1>3, <1>4, <1>5, <1>7
<1>8. ASSUME NEW i \in Regions, NEW j \in Chunks(i), NEW k \in 0..(PaSize(i, j) - 1)
      PROVE  Placed(i, j, k)' <=>
               Placed(i, j, k) \/ (i = region /\ j = chunk /\ k = offset)
  <2>1. k \in Nat
    BY BoundedCell DEF IsCell
  <2> QED
    BY <2>1, <1>2 DEF Placed
<1> QED
  BY <1>3, <1>6, <1>7, <1>8 DEF s0, new

(* mapMemory's store: whichever hash function found the slot, the page at  *)
(* the cursor gets its entry, a free slot is all that is lost.             *)
LEMMA PlaceKeepsIInv ==
  ASSUME IInv, AtPage, NEW h \in GroupHash,
         NEW g, g = CellGroup(region, chunk, offset, h),
         FreeSlots(g) # {},
         StorePTE(g, CellPTE(region, chunk, offset, h)),
         offset' = offset + 1,
         UNCHANGED <<region, chunk, cur_ea_start_address, status>>
  PROVE  IInv'
<1> DEFINE s0 == Last(FreeSlots(g))
           new == CellPTE(region, chunk, offset, h)
<1>1. TypeOK /\ CursorInv /\ EntriesSound /\ EntriesComplete
  BY DEF IInv
<1>2. IsCell(region, chunk, offset)
  BY <1>1, CursorCell
<1>3. /\ region \in Regions /\ chunk \in Chunks(region)
      /\ offset \in Nat /\ offset < PaSize(region, chunk)
  BY <1>2 DEF IsCell
<1>4. g \in PTEGs /\ new \in PTE
  BY <1>2, CellHashes
<1>5. /\ s0 \in FreeSlots(g) /\ s0 \in Slots /\ translation_table'[g][s0] = new
      /\ \A g1 \in PTEGs, s1 \in Slots : ~(g1 = g /\ s1 = s0) =>
           translation_table'[g1][s1] = translation_table[g1][s1]
  BY <1>1, StoreTakesFreeSlot
<1>6. translation_table[g][s0].v = 0
  BY <1>5 DEF FreeSlots, PTEHIsZero
<1>7. translation_table \in [PTEGs -> [Slots -> PTE]]
  BY <1>1 DEF TypeOK
<1>8. translation_table' = [translation_table EXCEPT ![g][s0] = new]
  BY DEF StorePTE
<1> HIDE DEF s0, new
<1>9. translation_table'[g][s0] = new
  BY <1>5
<1>10. ASSUME NEW g1 \in PTEGs, NEW s1 \in Slots, ~(g1 = g /\ s1 = s0)
       PROVE  translation_table'[g1][s1] = translation_table[g1][s1]
  BY <1>5, <1>10
<1>11. translation_table' \in [PTEGs -> [Slots -> PTE]]
  BY <1>4, <1>5, <1>7, <1>8
<1>12. TypeOK'
  BY <1>1, <1>3, <1>11 DEF TypeOK
<1>13. CursorInv'
  <2>1. PaSize(region, chunk) \in Nat
    BY <1>3, ChunkFacts
  <2>2. offset' <= PaSize(region, chunk)
    BY <1>3, <2>1
  <2> QED
    BY <1>1, <1>3, <2>2 DEF CursorInv
<1>14. ASSUME NEW i \in Regions, NEW j \in Chunks(i), NEW k \in 0..(PaSize(i, j) - 1)
       PROVE  Placed(i, j, k)' <=>
                Placed(i, j, k) \/ (i = region /\ j = chunk /\ k = offset)
  BY <1>1, StoreTakesFreeSlot
<1>15. EntriesSound'
  <2> SUFFICES ASSUME NEW g1 \in PTEGs, NEW s1 \in Slots,
                      translation_table'[g1][s1].v = 1
               PROVE  \/ translation_table'[g1][s1] \in ForeignPTEs
                      \/ \E i \in Regions : \E j \in Chunks(i) :
                           \E k \in 0..(PaSize(i, j) - 1) : \E h1 \in {0, 1} :
                             /\ Placed(i, j, k)'
                             /\ g1 = CellGroup(i, j, k, h1)
                             /\ translation_table'[g1][s1] = CellPTE(i, j, k, h1)
    BY DEF EntriesSound
  <2>1. CASE g1 = g /\ s1 = s0
    <3>1. PICK i \in Regions : i = region
      BY <1>3
    <3>2. PICK j \in Chunks(i) : j = chunk
      BY <1>3, <3>1
    <3>3. PICK k \in 0..(PaSize(i, j) - 1) : k = offset
      BY <1>2, <3>1, <3>2, CellIsBounded
    <3>4. Placed(i, j, k)'
      BY <1>14, <3>1, <3>2, <3>3
    <3>5. g1 = CellGroup(i, j, k, h)
      BY <2>1, <3>1, <3>2, <3>3
    <3>6. translation_table'[g1][s1] = CellPTE(i, j, k, h)
      BY <1>9, <2>1, <3>1, <3>2, <3>3 DEF new
    <3>7. h \in {0, 1}
      BY DEF GroupHash
    <3> QED
      BY <3>4, <3>5, <3>6, <3>7
  <2>2. CASE ~(g1 = g /\ s1 = s0)
    <3>1. translation_table'[g1][s1] = translation_table[g1][s1]
      BY <1>10, <2>2
    <3>2. CASE translation_table[g1][s1] \in ForeignPTEs
      BY <3>1, <3>2
    <3>3. CASE translation_table[g1][s1] \notin ForeignPTEs
      <4>1. PICK i \in Regions : \E j \in Chunks(i) :
              \E k \in 0..(PaSize(i, j) - 1) : \E h1 \in {0, 1} :
                /\ Placed(i, j, k)
                /\ g1 = CellGroup(i, j, k, h1)
                /\ translation_table[g1][s1] = CellPTE(i, j, k, h1)
        BY <1>1, <3>1, <3>3 DEF EntriesSound
      <4>2. PICK j \in Chunks(i) : \E k \in 0..(PaSize(i, j) - 1) : \E h1 \in {0, 1} :
                /\ Placed(i, j, k)
                /\ g1 = CellGroup(i, j, k, h1)
                /\ translation_table[g1][s1] = CellPTE(i, j, k, h1)
        BY <4>1
      <4> QED
        BY <4>2, <3>1, <1>14
    <3> QED
      BY <3>2, <3>3
  <2> QED
    BY <2>1, <2>2
<1>16. EntriesComplete'
  <2> SUFFICES ASSUME NEW i \in Regions, NEW j \in Chunks(i),
                      NEW k \in 0..(PaSize(i, j) - 1), Placed(i, j, k)'
               PROVE  \E h1 \in {0, 1}, s1 \in Slots :
                        translation_table'[CellGroup(i, j, k, h1)][s1] = CellPTE(i, j, k, h1)
    BY DEF EntriesComplete
  <2>1. CASE Placed(i, j, k)
    <3>1. PICK h1 \in {0, 1}, s1 \in Slots :
            translation_table[CellGroup(i, j, k, h1)][s1] = CellPTE(i, j, k, h1)
      BY <1>1, <2>1 DEF EntriesComplete
    <3>2. CellPTE(i, j, k, h1).v = 1
      BY DEF CellPTE, NewPTE
    <3>3. CellGroup(i, j, k, h1) \in PTEGs
      BY BoundedCell, CellHashes DEF GroupHash
    <3>4. ~(CellGroup(i, j, k, h1) = g /\ s1 = s0)
      BY <3>1, <3>2, <1>6 DEF s0
    <3> QED
      BY <3>1, <3>3, <3>4, <1>10
  <2>2. CASE i = region /\ j = chunk /\ k = offset
    BY <1>5, <1>9, <2>2 DEF new, GroupHash
  <2> QED
    BY <2>1, <2>2, <1>14
<1> QED
  BY <1>12, <1>13, <1>15, <1>16 DEF IInv

(* Going on to the next chunk, or the next region, places no page.         *)
LEMMA NextChunkPlacesNone ==
  ASSUME NextChunk, NEW i \in Regions, NEW j \in Chunks(i), NEW k \in 0..(PaSize(i, j) - 1)
  PROVE  Placed(i, j, k)' <=> Placed(i, j, k)
<1>1. /\ region \in Regions /\ chunk \in Chunks(region) /\ offset = PaSize(region, chunk)
      /\ chunk' = chunk + 1 /\ offset' = 0 /\ region' = region
  BY DEF NextChunk, AdvanceChunk
<1>2. chunk \in Nat
  BY <1>1, ChunkFacts
<1>3. j \in Nat /\ k \in Nat /\ k < PaSize(i, j)
  BY BoundedCell, ChunkFacts DEF IsCell
<1> QED
  BY <1>1, <1>2, <1>3 DEF Placed

LEMMA NextRegionPlacesNone ==
  ASSUME TypeOK, CursorInv, NextRegion,
         NEW i \in Regions, NEW j \in Chunks(i), NEW k \in 0..(PaSize(i, j) - 1)
  PROVE  Placed(i, j, k)' <=> Placed(i, j, k)
<1>1. /\ region \in Regions /\ chunk \notin Chunks(region)
      /\ chunk' = 1 /\ offset' = 0 /\ region' = region + 1
  BY DEF NextRegion
<1>2. /\ Len(mem_mapping) \in Nat /\ region \in 1..Len(mem_mapping)
      /\ Len(ChunkTable(region)) \in Nat
  BY <1>1, RegionFacts, MapType DEF MapType, Regions
<1>3. chunk = Len(ChunkTable(region)) + 1 /\ offset = 0
  BY <1>1, <1>2 DEF CursorInv, Chunks
<1>4. /\ i \in Nat /\ j \in 1..Len(ChunkTable(i)) /\ k \in Nat
      /\ Len(ChunkTable(i)) \in Nat
  BY BoundedCell, RegionFacts DEF IsCell, Regions, Chunks
<1>5. i = region => j < chunk
  BY <1>3, <1>4
<1>6. ~(j < 1) /\ ~(k < 0)
  BY <1>4
<1> QED
  BY <1>1, <1>2, <1>3, <1>4, <1>5, <1>6 DEF Placed

LEMMA StepKeepsIInv ==
  ASSUME IInv, [Next]_vars
  PROVE  IInv'
<1>1. TypeOK /\ CursorInv /\ EntriesSound /\ EntriesComplete
  BY DEF IInv
<1>2. CASE MapPagePrimary
  <2>1. IsCell(region, chunk, offset)
        /\ ea_addr = EaOf(region, chunk, offset)
        /\ pa_addr = PaOf(region, chunk, offset)
    BY <1>1, <1>2, CursorCell DEF MapPagePrimary
  <2>2. /\ PTEG1[ea_addr] = CellGroup(region, chunk, offset, 0)
        /\ NewPTE(ea_addr, pa_addr, 0) = CellPTE(region, chunk, offset, 0)
    BY <2>1 DEF CellGroup, CellPTE
  <2> QED
    BY <1>2, <2>2, PlaceKeepsIInv DEF MapPagePrimary, GroupHash
<1>3. CASE MapPageSecondary
  <2>1. IsCell(region, chunk, offset)
        /\ ea_addr = EaOf(region, chunk, offset)
        /\ pa_addr = PaOf(region, chunk, offset)
    BY <1>1, <1>3, CursorCell DEF MapPageSecondary
  <2>2. /\ PTEG2[ea_addr] = CellGroup(region, chunk, offset, 1)
        /\ NewPTE(ea_addr, pa_addr, 1) = CellPTE(region, chunk, offset, 1)
    BY <2>1 DEF CellGroup, CellPTE
  <2> QED
    BY <1>3, <2>2, PlaceKeepsIInv DEF MapPageSecondary, GroupHash
<1>4. CASE UNCHANGED translation_table
           /\ UNCHANGED <<region, chunk, offset, cur_ea_start_address>>
           /\ status' \in {"mapping", "mapped", "failed"}
  <2>1. TypeOK' /\ CursorInv'
    BY <1>1, <1>4 DEF TypeOK, CursorInv
  <2>2. \A i \in Regions : \A j \in Chunks(i) : \A k \in 0..(PaSize(i, j) - 1) :
          Placed(i, j, k)' <=> Placed(i, j, k)
    BY <1>4 DEF Placed
  <2> QED
    BY <1>1, <1>4, <2>1, <2>2, EntriesUntouched DEF IInv
<1>5. CASE NextChunk
  <2>1. /\ region \in Regions /\ chunk \in Chunks(region)
        /\ offset = PaSize(region, chunk)
        /\ chunk' = chunk + 1 /\ offset' = 0 /\ region' = region
        /\ cur_ea_start_address' = cur_ea_start_address + PaSize(region, chunk)
        /\ translation_table' = translation_table /\ status' = status
    BY <1>5 DEF NextChunk, AdvanceChunk
  <2>2. /\ EaStart(region) \in Nat /\ Len(ChunkTable(region)) \in Nat
        /\ chunk \in Nat /\ PaSize(region, chunk) \in Nat
        /\ EaOffset[region][chunk] \in Nat
        /\ EaOffset[region][chunk + 1] = EaOffset[region][chunk] + PaSize(region, chunk)
    BY <2>1, RegionFacts, ChunkFacts
  <2>3. cur_ea_start_address = EaOf(region, chunk, 0) /\ cur_ea_start_address \in Nat
    BY <1>1, <2>1 DEF CursorInv, TypeOK
  <2>4. cur_ea_start_address' = EaOf(region, chunk + 1, 0)
    BY <2>1, <2>2, <2>3 DEF EaOf
  <2>5. TypeOK'
    BY <1>1, <2>1, <2>2, <2>3 DEF TypeOK
  <2>6. chunk + 1 \in 1..(Len(ChunkTable(region)) + 1)
    BY <2>1, <2>2 DEF Chunks
  <2>7. ASSUME NEW i \in Regions, NEW j \in Chunks(i) PROVE PaSize(i, j) \in Nat
    BY ChunkFacts
  <2>8. chunk' \in Chunks(region') => offset' <= PaSize(region', chunk')
    BY <2>1, <2>7
  <2>9. CursorInv'
    BY <2>1, <2>4, <2>6, <2>8 DEF CursorInv
  <2>10. \A i \in Regions : \A j \in Chunks(i) : \A k \in 0..(PaSize(i, j) - 1) :
           Placed(i, j, k)' <=> Placed(i, j, k)
    BY <1>5, NextChunkPlacesNone
  <2> QED
    BY <1>1, <2>1, <2>5, <2>9, <2>10, EntriesUntouched DEF IInv
<1>6. CASE NextRegion
  <2>1. /\ region \in Regions /\ chunk \notin Chunks(region)
        /\ chunk' = 1 /\ offset' = 0 /\ region' = region + 1
        /\ cur_ea_start_address' = IF region + 1 \in Regions
                                     THEN EaStart(region + 1)
                                     ELSE cur_ea_start_address
        /\ translation_table' = translation_table /\ status' = status
    BY <1>6 DEF NextRegion
  <2>2. /\ Len(mem_mapping) \in Nat /\ region \in 1..Len(mem_mapping)
        /\ Len(ChunkTable(region)) \in Nat
    BY <2>1, RegionFacts, MapType DEF MapType, Regions
  <2>3. chunk = Len(ChunkTable(region)) + 1 /\ offset = 0
    BY <1>1, <2>1, <2>2 DEF CursorInv, Chunks
  <2>4. ASSUME NEW i \in Regions
        PROVE  /\ EaStart(i) \in Nat /\ Len(ChunkTable(i)) \in Nat
               /\ EaOffset[i][1] = 0
    BY RegionFacts, OffsetIsRunningSum DEF OffsetIsRunningSum
  <2>5. TypeOK'
    BY <1>1, <2>1, <2>2, <2>4 DEF TypeOK
  <2>6. CursorInv'
    <3> SUFFICES ASSUME region' \in Regions PROVE CursorInv'
      BY DEF CursorInv
    <3>1. PICK i \in Regions : i = region'
      OBVIOUS
    <3>2. cur_ea_start_address' = EaStart(i)
      BY <2>1, <3>1
    <3>3. cur_ea_start_address' = EaOf(i, 1, 0)
      BY <2>4, <3>2 DEF EaOf
    <3>4. 1 \in Chunks(i) => 0 <= PaSize(i, 1)
      BY ChunkFacts
    <3>5. 1 \in 1..(Len(ChunkTable(i)) + 1)
      BY <2>4
    <3> QED
      BY <2>1, <3>1, <3>3, <3>4, <3>5 DEF CursorInv
  <2>7. \A i \in Regions : \A j \in Chunks(i) : \A k \in 0..(PaSize(i, j) - 1) :
          Placed(i, j, k)' <=> Placed(i, j, k)
    BY <1>1, <1>6, NextRegionPlacesNone
  <2> QED
    BY <1>1, <2>1, <2>5, <2>6, <2>7, EntriesUntouched DEF IInv
<1>7. CASE MapPageFails
  BY <1>4, <1>7 DEF MapPageFails
<1>8. CASE AllRegionsMapped
  BY <1>4, <1>8 DEF AllRegionsMapped
<1>9. CASE UNCHANGED vars
  BY <1>1, <1>4, <1>9 DEF vars, TypeOK
<1> QED
  BY <1>2, <1>3, <1>5, <1>6, <1>7, <1>8, <1>9
  DEF Next, MemoryMapping_memoryMappingForRegions

(* Every reachable state of the mapping satisfies the inductive invariant. *)
THEOREM IInvHolds == Spec => []IInv
<1>1. Init => IInv
  BY InitHasIInv
<1>2. IInv /\ [Next]_vars => IInv'
  BY StepKeepsIInv
<1> QED
  BY <1>1, <1>2, PTL DEF Spec

(* The table, the loop counters and the status of                          *)
(* memoryMappingForRegions keep their types: the counters never run past   *)
(* the sentinels of the tables.                                            *)
THEOREM TypeCorrect == Spec => []TypeOK
<1>1. IInv => TypeOK
  BY DEF IInv
<1> QED
  BY <1>1, IInvHolds, PTL

-----------------------------------------------------------------------------
(* What a search of the table finds.                                       *)

Search(i, j, k, h) ==
  MemoryMapping_getPageEntryForAddressEx(
    CellGroup(i, j, k, h), VSID(EaOf(i, j, k)), API[EaOf(i, j, k)], h)

Matches(i, j, k, h) ==
  MatchingSlots(CellGroup(i, j, k, h), VSID(EaOf(i, j, k)), API[EaOf(i, j, k)], h)

(* An entry that matches a page's search is the one placed for that page.  *)
LEMMA MatchIsOwn ==
  ASSUME IInv, NEW i, NEW j, NEW k, IsCell(i, j, k), NEW h \in GroupHash,
         NEW s \in Matches(i, j, k, h)
  PROVE  /\ translation_table[CellGroup(i, j, k, h)][s] = CellPTE(i, j, k, h)
         /\ Placed(i, j, k)
<1> DEFINE g == CellGroup(i, j, k, h)
           ea == EaOf(i, j, k)
<1>1. /\ i \in Regions /\ ea \in EaStart(i)..(EaEnd(i) - 1)
      /\ g \in PTEGs
  BY CellHashes
<1>2. /\ s \in Slots
      /\ translation_table[g][s].v = 1 /\ translation_table[g][s].h = h
      /\ translation_table[g][s].vsid = VSID(ea)
      /\ translation_table[g][s].api = API[ea]
  BY DEF Matches, MatchingSlots
<1>3. translation_table[g][s] \notin ForeignPTEs
  BY <1>1, <1>2, UniqueSegmentId DEF UniqueSegmentId
<1>4. EntriesSound
  BY DEF IInv
<1>5. PICK i1 \in Regions : \E j1 \in Chunks(i1) :
        \E k1 \in 0..(PaSize(i1, j1) - 1) : \E h1 \in {0, 1} :
          /\ Placed(i1, j1, k1)
          /\ g = CellGroup(i1, j1, k1, h1)
          /\ translation_table[g][s] = CellPTE(i1, j1, k1, h1)
  BY <1>1, <1>2, <1>3, <1>4 DEF EntriesSound
<1>6. PICK j1 \in Chunks(i1) :
        \E k1 \in 0..(PaSize(i1, j1) - 1) : \E h1 \in {0, 1} :
          /\ Placed(i1, j1, k1)
          /\ g = CellGroup(i1, j1, k1, h1)
          /\ translation_table[g][s] = CellPTE(i1, j1, k1, h1)
  BY <1>5
<1>7. PICK k1 \in 0..(PaSize(i1, j1) - 1), h1 \in {0, 1} :
          /\ Placed(i1, j1, k1)
          /\ g = CellGroup(i1, j1, k1, h1)
          /\ translation_table[g][s] = CellPTE(i1, j1, k1, h1)
  BY <1>6
<1>8. IsCell(i1, j1, k1)
  BY BoundedCell
<1>9. h1 = h /\ VSID(EaOf(i1, j1, k1)) = VSID(ea) /\ API[EaOf(i1, j1, k1)] = API[ea]
  BY <1>2, <1>7 DEF CellPTE, NewPTE
<1>10. i1 = i /\ j1 = j /\ k1 = k
  BY <1>7, <1>8, <1>9, OneCellPerEntry
<1> QED
  BY <1>7, <1>9, <1>10

(* So a search finds that entry or none.                                   *)
LEMMA SearchFindsOwn ==
  ASSUME IInv, NEW i, NEW j, NEW k, IsCell(i, j, k), NEW h \in GroupHash
  PROVE  Search(i, j, k, h) =
           IF Matches(i, j, k, h) = {} THEN NoEntry ELSE CellPTE(i, j, k, h)
<1>1. CASE Matches(i, j, k, h) = {}
  BY <1>1 DEF Search, Matches, MemoryMapping_getPageEntryForAddressEx
<1>2. CASE Matches(i, j, k, h) # {}
  <2>1. Matches(i, j, k, h) \in SUBSET Nat
    BY PageTableType DEF Matches, MatchingSlots, Slots, PageTableType
  <2>2. First(Matches(i, j, k, h)) \in Matches(i, j, k, h)
    BY <1>2, <2>1, FirstOfNonempty
  <2>3. translation_table[CellGroup(i, j, k, h)][First(Matches(i, j, k, h))]
          = CellPTE(i, j, k, h)
    BY <2>2, MatchIsOwn
  <2> QED
    BY <1>2, <2>3 DEF Search, Matches, MemoryMapping_getPageEntryForAddressEx
<1> QED
  BY <1>1, <1>2

LEMMA TranslationIsSearch ==
  ASSUME NEW i, NEW j, NEW k
  PROVE  Translation(EaOf(i, j, k)) =
           IF Search(i, j, k, 0) # NoEntry THEN Search(i, j, k, 0)
                                           ELSE Search(i, j, k, 1)
  BY DEF Translation, MemoryMapping_getPageEntryForAddress, Search, CellGroup

LEMMA EntryIsNotNoEntry ==
  ASSUME NEW i, NEW j, NEW k, NEW h
  PROVE  CellPTE(i, j, k, h) # NoEntry /\ CellPTE(i, j, k, h).rpn = PaOf(i, j, k)
<1>1. CellPTE(i, j, k, h).v = 1 /\ CellPTE(i, j, k, h).rpn = PaOf(i, j, k)
  BY DEF CellPTE, NewPTE
<1>2. NoEntry.v = 0
  BY DEF NoEntry
<1> QED
  BY <1>1, <1>2

LEMMA IInvMakesPlacedTranslate ==
  ASSUME IInv
  PROVE  PlacedPagesTranslate
<1> SUFFICES ASSUME NEW i \in Regions, NEW j \in Chunks(i),
                    NEW k \in 0..(PaSize(i, j) - 1), Placed(i, j, k)
             PROVE  /\ Translation(EaOf(i, j, k)) # NoEntry
                    /\ Translation(EaOf(i, j, k)).rpn
                         = MemoryMapping_EffectiveToPhysical(EaOf(i, j, k))
                    /\ MemoryMapping_PhysicalToEffective(Translation(EaOf(i, j, k)).rpn)
                         = EaOf(i, j, k)
  BY DEF PlacedPagesTranslate
<1>1. IsCell(i, j, k)
  BY BoundedCell
<1>2. PICK h \in {0, 1}, s \in Slots :
        translation_table[CellGroup(i, j, k, h)][s] = CellPTE(i, j, k, h)
  BY DEF IInv, EntriesComplete
<1>3. s \in Matches(i, j, k, h)
  BY <1>2 DEF Matches, MatchingSlots, CellPTE, NewPTE
<1>4. Search(i, j, k, h) = CellPTE(i, j, k, h)
  BY <1>1, <1>3, SearchFindsOwn DEF GroupHash
<1>5. Search(i, j, k, 0) \in {NoEntry, CellPTE(i, j, k, 0)}
  BY <1>1, SearchFindsOwn DEF GroupHash
<1>6. Translation(EaOf(i, j, k)) \in {CellPTE(i, j, k, 0), CellPTE(i, j, k, 1)}
  <2>1. CASE h = 0
    BY <1>4, <2>1, TranslationIsSearch, EntryIsNotNoEntry
  <2>2. CASE h = 1
    BY <1>4, <1>5, <2>2, TranslationIsSearch
  <2> QED
    BY <2>1, <2>2
<1>7. /\ Translation(EaOf(i, j, k)) # NoEntry
      /\ Translation(EaOf(i, j, k)).rpn = PaOf(i, j, k)
  BY <1>6, EntryIsNotNoEntry
<1> QED
  BY <1>1, <1>7, EffectiveToPhysicalOfCell, PhysicalToEffectiveOfCell

LEMMA IInvMakesOnlyPlacedTranslate ==
  ASSUME IInv
  PROVE  OnlyPlacedPagesTranslate
<1> SUFFICES ASSUME NEW i \in Regions, NEW j \in Chunks(i),
                    NEW k \in 0..(PaSize(i, j) - 1), ~Placed(i, j, k)
             PROVE  Translation(EaOf(i, j, k)) = NoEntry
  BY DEF OnlyPlacedPagesTranslate
<1>1. IsCell(i, j, k)
  BY BoundedCell
<1>2. Matches(i, j, k, 0) = {} /\ Matches(i, j, k, 1) = {}
  BY <1>1, MatchIsOwn DEF GroupHash
<1>3. Search(i, j, k, 0) = NoEntry /\ Search(i, j, k, 1) = NoEntry
  BY <1>1, <1>2, SearchFindsOwn DEF GroupHash
<1> QED
  BY <1>3, TranslationIsSearch

(* Whatever the kernel's table held and wherever the hash functions send   *)
(* the pages, the pages that mapMemory has placed translate as the tables  *)
(* of memory_mapping.h and the two software translations say.              *)
THEOREM PlacedTranslate == Spec => []PlacedPagesTranslate
<1>1. IInv => PlacedPagesTranslate
  BY IInvMakesPlacedTranslate
<1> QED
  BY <1>1, IInvHolds, PTL

(* ... and no other page of the regions translates at all.                 *)
THEOREM OnlyPlacedTranslate == Spec => []OnlyPlacedPagesTranslate
<1>1. IInv => OnlyPlacedPagesTranslate
  BY IInvMakesOnlyPlacedTranslate
<1> QED
  BY <1>1, IInvHolds, PTL

-----------------------------------------------------------------------------
(* The translations of the kernel's segments.                              *)

(* The result of one search, for the action formula below.                 *)
Found(g, pte) == MemoryMapping_getPageEntryForAddressEx(g, pte.vsid, pte.api, pte.h)

(* A store into a free slot changes no search for a VSID that is not ours. *)
LEMMA PlaceKeepsForeign ==
  ASSUME IInv, AtPage, NEW h \in GroupHash,
         NEW g, g = CellGroup(region, chunk, offset, h),
         FreeSlots(g) # {},
         StorePTE(g, CellPTE(region, chunk, offset, h)),
         NEW g1 \in PTEGs, NEW pte \in ForeignPTEs, pte.v = 1
  PROVE  Found(g1, pte)' = Found(g1, pte)
<1> DEFINE s0 == Last(FreeSlots(g))
           new == CellPTE(region, chunk, offset, h)
           M == MatchingSlots(g1, pte.vsid, pte.api, pte.h)
<1>1. IsCell(region, chunk, offset)
  BY CursorCell DEF IInv
<1>2. g \in PTEGs /\ new.vsid = VSID(EaOf(region, chunk, offset))
  BY <1>1, CellHashes DEF CellPTE, NewPTE
<1>3. new.vsid # pte.vsid
  BY <1>1, <1>2, CellHashes, UniqueSegmentId DEF UniqueSegmentId
<1>4. s0 \in FreeSlots(g) /\ s0 \in Slots
  <2>1. PTEGSize \in Nat \ {0, 1}
    BY PageTableType DEF PageTableType
  <2>2. PTEGSize - 1 \in Nat /\ FreeSlots(g) \in SUBSET (0..(PTEGSize - 1))
    BY <2>1 DEF FreeSlots
  <2>3. s0 \in FreeSlots(g)
    BY <2>2, LastOfNonempty
  <2> QED
    BY <2>2, <2>3 DEF Slots
<1>5. translation_table[g][s0].v = 0
  BY <1>4 DEF FreeSlots, PTEHIsZero
<1>6. translation_table \in [PTEGs -> [Slots -> PTE]]
  BY DEF IInv, TypeOK
<1>7. translation_table' = [translation_table EXCEPT ![g][s0] = new]
  BY DEF StorePTE
<1> HIDE DEF s0, new
<1>8. translation_table'[g][s0] = new
  BY <1>2, <1>4, <1>6, <1>7
<1>9. ASSUME NEW s \in Slots, ~(g1 = g /\ s = s0)
      PROVE  translation_table'[g1][s] = translation_table[g1][s]
  BY <1>2, <1>4, <1>6, <1>7, <1>9
<1>10. ASSUME NEW s \in Slots PROVE (s \in M)' <=> s \in M
  <2>1. CASE g1 = g /\ s = s0
    <3>1. s \notin M
      BY <1>5, <2>1 DEF MatchingSlots
    <3>2. translation_table'[g1][s].vsid # pte.vsid
      BY <1>3, <1>8, <2>1
    <3>3. (s \notin M)'
      BY <3>2 DEF MatchingSlots
    <3> QED
      BY <3>1, <3>3
  <2>2. CASE ~(g1 = g /\ s = s0)
    BY <1>9, <2>2 DEF MatchingSlots
  <2> QED
    BY <2>1, <2>2
<1>11. M' = M
  <2>1. M \subseteq Slots /\ M' \subseteq Slots
    BY DEF MatchingSlots
  <2> QED
    BY <1>10, <2>1
<1>12. CASE M = {}
  BY <1>11, <1>12 DEF Found, MemoryMapping_getPageEntryForAddressEx
<1>13. CASE M # {}
  <2>1. M \in SUBSET Nat
    BY PageTableType DEF MatchingSlots, Slots, PageTableType
  <2>2. First(M) \in M
    BY <1>13, <2>1, FirstOfNonempty
  <2>3. \A s \in M : s \in Slots /\ ~(g1 = g /\ s = s0)
    BY <1>5 DEF MatchingSlots
  <2>4. translation_table'[g1][First(M)] = translation_table[g1][First(M)]
    BY <1>9, <2>2, <2>3
  <2> QED
    BY <1>11, <1>13, <2>4 DEF Found, MemoryMapping_getPageEntryForAddressEx
<1> QED
  BY <1>12, <1>13

LEMMA StepKeepsForeign ==
  ASSUME IInv, Next, NEW g \in PTEGs, NEW pte \in ForeignPTEs, pte.v = 1
  PROVE  Found(g, pte)' = Found(g, pte)
<1>1. TypeOK /\ CursorInv
  BY DEF IInv
<1>2. CASE MapPagePrimary
  <2>1. /\ PTEG1[ea_addr] = CellGroup(region, chunk, offset, 0)
        /\ NewPTE(ea_addr, pa_addr, 0) = CellPTE(region, chunk, offset, 0)
    BY <1>1, <1>2, CursorCell DEF MapPagePrimary, CellGroup, CellPTE
  <2> QED
    BY <1>2, <2>1, PlaceKeepsForeign DEF MapPagePrimary, GroupHash
<1>3. CASE MapPageSecondary
  <2>1. /\ PTEG2[ea_addr] = CellGroup(region, chunk, offset, 1)
        /\ NewPTE(ea_addr, pa_addr, 1) = CellPTE(region, chunk, offset, 1)
    BY <1>1, <1>3, CursorCell DEF MapPageSecondary, CellGroup, CellPTE
  <2> QED
    BY <1>3, <2>1, PlaceKeepsForeign DEF MapPageSecondary, GroupHash
<1>4. CASE UNCHANGED translation_table
  BY <1>4 DEF Found, MemoryMapping_getPageEntryForAddressEx, MatchingSlots
<1> QED
  BY <1>2, <1>3, <1>4
  DEF Next, MemoryMapping_memoryMappingForRegions, MapPageFails, NextChunk,
      AdvanceChunk, NextRegion, AllRegionsMapped

(* No step of the mapping takes a translation away from the kernel or adds *)
(* one in its segments: each search for a VSID of the kernel finds after   *)
(* the step what it found before.                                          *)
THEOREM ForeignKept == Spec => ForeignTranslationsKept
<1>1. ASSUME IInv, [Next]_vars
      PROVE  [\A g \in PTEGs, pte \in ForeignPTEs :
                pte.v = 1 =>
                  MemoryMapping_getPageEntryForAddressEx(g, pte.vsid, pte.api, pte.h)'
                    = MemoryMapping_getPageEntryForAddressEx(g, pte.vsid, pte.api, pte.h)]_vars
  BY <1>1, StepKeepsForeign DEF Found
<1> QED
  BY <1>1, IInvHolds, PTL DEF Spec, ForeignTranslationsKept

-----------------------------------------------------------------------------
(* getAreaSizeFromPageTable.  What it says is true of every table, so that *)
(* nothing of the invariant is needed.                                     *)

Primary(ea) == MemoryMapping_getPageEntryForAddress(ea, VSID(ea), FALSE)

(* The answer is about the pages asked for, of which none is skipped.      *)
LEMMA ScansTheArea ==
  ASSUME NEW i \in Regions, NEW n \in 1..(EaEnd(i) - EaStart(i))
  PROVE  /\ EaStart(i) \in Nat /\ n \in Nat /\ EaStart(i) + n < AddressPages
         /\ (EaStart(i) + n) % AddressPages = EaStart(i) + n
         /\ ~(Segment(EaStart(i) + n) < Segment(EaStart(i)))
         /\ ScannedPages(EaStart(i), EaStart(i) + n) = EaStart(i)..(EaStart(i) + n - 1)
<1>1. /\ EaStart(i) \in Nat /\ EaEnd(i) \in Nat /\ n \in Nat
      /\ EaStart(i) + n <= EaEnd(i)
  BY RegionFacts
<1>2. AddressPages \in Nat \ {0} /\ EaStart(i) + n < AddressPages
  BY <1>1, OwnSegmentIsMapped DEF OwnSegmentIsMapped
<1>3. (EaStart(i) + n) % AddressPages = EaStart(i) + n
  BY <1>1, <1>2
<1>4. Segment(EaStart(i)) <= Segment(EaStart(i) + n)
  <2>1. SegmentPages \in Nat \ {0}
    BY PageTableType DEF PageTableType
  <2>2. ASSUME NEW a \in Nat, NEW b \in Nat, a <= b
        PROVE  a \div SegmentPages <= b \div SegmentPages
    BY <2>1, <2>2, Z3
  <2> QED
    BY <1>1, <2>2 DEF Segment
<1>5. Segment(EaStart(i)) \in Int /\ Segment(EaStart(i) + n) \in Int
  BY <1>1, PageTableType DEF Segment, PageTableType
<1>6. \A ea \in EaStart(i)..(EaStart(i) + n - 1) : SRTable[Segment(ea)].t = 0
  BY <1>1, OwnSegmentIsMapped DEF OwnSegmentIsMapped
<1> QED
  BY <1>1, <1>2, <1>3, <1>4, <1>5, <1>6 DEF ScannedPages

(* A search of the primary group that succeeds is the MMU's, too; and one  *)
(* of both groups whose entry is not of the secondary hash is the former.  *)
LEMMA PrimaryOfTranslation ==
  ASSUME NEW ea
  PROVE  /\ Primary(ea) # NoEntry => Translation(ea) # NoEntry
         /\ Translation(ea) # NoEntry /\ Translation(ea).h = 0 => Primary(ea) # NoEntry
<1> DEFINE second == MemoryMapping_getPageEntryForAddressEx(PTEG2[ea], VSID(ea), API[ea], 1)
           M == MatchingSlots(PTEG2[ea], VSID(ea), API[ea], 1)
<1>1. second # NoEntry => second.h = 1
  <2> SUFFICES ASSUME second # NoEntry PROVE second.h = 1
    OBVIOUS
  <2>1. M # {} /\ second = translation_table[PTEG2[ea]][First(M)]
    BY DEF MemoryMapping_getPageEntryForAddressEx
  <2>2. M \in SUBSET Nat
    BY PageTableType DEF MatchingSlots, Slots, PageTableType
  <2>3. First(M) \in M
    BY <2>1, <2>2, FirstOfNonempty
  <2> QED
    BY <2>1, <2>3 DEF MatchingSlots
<1>2. Translation(ea) = IF Primary(ea) # NoEntry THEN Primary(ea) ELSE second
  BY DEF Translation, Primary, MemoryMapping_getPageEntryForAddress
<1> HIDE DEF second
<1> QED
  BY <1>1, <1>2

LEMMA AreaSizeIsRight == AreaSizeNeverOverstates
<1> SUFFICES ASSUME NEW i \in Regions, NEW n \in 1..(EaEnd(i) - EaStart(i))
             PROVE  LET size == MemoryMapping_getAreaSizeFromPageTable(EaStart(i), n)
                    IN  /\ size <= TranslatedRun(EaStart(i), n)
                        /\ (\A ea \in EaStart(i)..(EaStart(i) + n - 1) :
                              Translation(ea).h = 0)
                             => size = TranslatedRun(EaStart(i), n)
  BY DEF AreaSizeNeverOverstates
<1> DEFINE area == EaStart(i)..(EaStart(i) + n - 1)
           counted == {ea \in area : \A q \in area : q <= ea => Primary(q) # NoEntry}
           run == {ea \in area : \A q \in EaStart(i)..ea : Translation(q) # NoEntry}
<1>1. EaStart(i) \in Nat /\ n \in Nat
  BY ScansTheArea
<1>2. MemoryMapping_getAreaSizeFromPageTable(EaStart(i), n) = Cardinality(counted)
  BY ScansTheArea DEF MemoryMapping_getAreaSizeFromPageTable, Primary
<1>3. TranslatedRun(EaStart(i), n) = Cardinality(run)
  BY DEF TranslatedRun
<1>4. counted \subseteq run
  BY <1>1, PrimaryOfTranslation
<1>5. (\A ea \in area : Translation(ea).h = 0) => counted = run
  BY <1>1, <1>4, PrimaryOfTranslation
<1>6. IsFiniteSet(run)
  <2>1. IsFiniteSet(area)
    BY <1>1, FS_Interval
  <2> QED
    BY <2>1, FS_Subset
<1>7. Cardinality(counted) <= Cardinality(run)
  BY <1>4, <1>6, FS_Subset
<1> HIDE DEF counted, run
<1> QED
  BY <1>2, <1>3, <1>5, <1>7

(* Asked for a leading part of a region, getAreaSizeFromPageTable reports  *)
(* no page that the processor would not translate, in any table, and       *)
(* misses none but for entries of the secondary hash.                      *)
THEOREM AreaSizeIsTrue == Spec => []AreaSizeNeverOverstates
<1> QED
  BY AreaSizeIsRight, PTL

-----------------------------------------------------------------------------
(* The entries spread, and the mapping succeeds.                           *)

(* What that rests on: the tables of the regions, whose pages hash to      *)
(* distinct primary groups - those of memory_mapping.h do, as the run of   *)
(* MCRealMap shows - and the table to start from, in which each of these   *)
(* groups has room for an entry and none that looks like ours.             *)
PagesSpread == \A p, q \in OurPages : PTEG1[p] = PTEG1[q] => p = q
HasRoom(ea) ==
  /\ FreeSlots(PTEG1[ea]) # {}
  /\ OwnSlots(ea) = {}
RoomForPages == \A ea \in OurPages : HasRoom(ea)

(* The inductive invariant of it: the group of a page still to be placed   *)
(* has the room it had, for no other page of ours went there.              *)
SpreadInv ==
  /\ status # "failed"
  /\ OwnEntriesSpread
  /\ \A i \in Regions : \A j \in Chunks(i) : \A k \in 0..(PaSize(i, j) - 1) :
       ~Placed(i, j, k) => HasRoom(EaOf(i, j, k))

(* The page of a cell is one of ours.                                      *)
LEMMA CellIsOurs ==
  ASSUME NEW i, NEW j, NEW k, IsCell(i, j, k)
  PROVE  EaOf(i, j, k) \in OurPages
<1>1. i \in Regions /\ EaOf(i, j, k) \in Pages(i)
  BY CellHashes DEF Pages, GroupHash
<1> QED
  BY <1>1 DEF OurPages

(* The page at the cursor is still to be placed.                           *)
LEMMA CursorNotPlaced ==
  ASSUME IsCell(region, chunk, offset)
  PROVE  ~Placed(region, chunk, offset)
<1>1. region \in Nat /\ chunk \in Nat /\ offset \in Nat
  BY DEF IsCell, Regions, Chunks
<1> QED
  BY <1>1 DEF Placed

(* A page placed in its primary group leaves the groups of the others as   *)
(* they are, and is the only one of ours in its own.                       *)
LEMMA PlaceKeepsSpread ==
  ASSUME PagesSpread, IInv, SpreadInv, MapPagePrimary
  PROVE  SpreadInv'
<1> DEFINE g == CellGroup(region, chunk, offset, 0)
           ea0 == EaOf(region, chunk, offset)
<1>1. TypeOK /\ CursorInv /\ AtPage
  BY DEF IInv, MapPagePrimary
<1>2. IsCell(region, chunk, offset) /\ ea_addr = ea0 /\ pa_addr = PaOf(region, chunk, offset)
  BY <1>1, CursorCell
<1>3. /\ g = PTEG1[ea0] /\ FreeSlots(g) # {}
      /\ StorePTE(g, CellPTE(region, chunk, offset, 0))
      /\ offset' = offset + 1 /\ region' = region /\ chunk' = chunk /\ status' = status
  BY <1>2 DEF MapPagePrimary, CellGroup, CellPTE
<1>4. g \in PTEGs /\ 0 \in GroupHash
  BY <1>2, CellHashes DEF GroupHash
<1>5. /\ \E s \in FreeSlots(g) :
           /\ s \in Slots
           /\ translation_table'[g][s] = CellPTE(region, chunk, offset, 0)
           /\ \A g1 \in PTEGs, s1 \in Slots : ~(g1 = g /\ s1 = s) =>
                translation_table'[g1][s1] = translation_table[g1][s1]
      /\ \A i \in Regions : \A j \in Chunks(i) : \A k \in 0..(PaSize(i, j) - 1) :
           Placed(i, j, k)' <=>
             Placed(i, j, k) \/ (i = region /\ j = chunk /\ k = offset)
  BY <1>1, <1>3, <1>4, StoreTakesFreeSlot
<1>6. PICK s0 \in FreeSlots(g) :
        /\ s0 \in Slots
        /\ translation_table'[g][s0] = CellPTE(region, chunk, offset, 0)
        /\ \A g1 \in PTEGs, s1 \in Slots : ~(g1 = g /\ s1 = s0) =>
             translation_table'[g1][s1] = translation_table[g1][s1]
  BY <1>5
<1>7. ~Placed(region, chunk, offset)
  BY <1>2, CursorNotPlaced
<1>8. HasRoom(ea0)
  <2>1. /\ region \in Regions /\ chunk \in Chunks(region)
        /\ offset \in 0..(PaSize(region, chunk) - 1)
    BY <1>2, CellIsBounded
  <2>2. QED
    BY <1>7, <2>1 DEF SpreadInv
<1>9. ASSUME NEW i \in Regions, NEW j \in Chunks(i), NEW k \in 0..(PaSize(i, j) - 1),
             ~(i = region /\ j = chunk /\ k = offset)
      PROVE  \A s \in Slots : translation_table'[PTEG1[EaOf(i, j, k)]][s]
                              = translation_table[PTEG1[EaOf(i, j, k)]][s]
  <2>1. IsCell(i, j, k)
    BY BoundedCell
  <2>2. EaOf(i, j, k) # ea0
    BY <1>2, <1>9, <2>1, EaOfInjective
  <2>3. EaOf(i, j, k) \in OurPages /\ ea0 \in OurPages
    BY <1>2, <2>1, CellIsOurs
  <2>4. PTEG1[EaOf(i, j, k)] # g /\ PTEG1[EaOf(i, j, k)] \in PTEGs
    <3>1. CellGroup(i, j, k, 0) \in PTEGs
      BY <1>4, <2>1, CellHashes
    <3>2. QED
      BY <1>3, <2>2, <2>3, <3>1 DEF PagesSpread, CellGroup
  <2>5. QED
    BY <1>6, <2>4
<1>10. ASSUME NEW i \in Regions, NEW j \in Chunks(i), NEW k \in 0..(PaSize(i, j) - 1),
              Placed(i, j, k)'
       PROVE  \E s \in OwnSlots(EaOf(i, j, k))' : OwnSlots(EaOf(i, j, k))' = {s}
  <2>1. CASE i = region /\ j = chunk /\ k = offset
    <3>1. \A s \in Slots : translation_table[g][s].vsid # VSID(ea0)
      BY <1>3, <1>8 DEF HasRoom, OwnSlots
    <3>2. translation_table'[g][s0].vsid = VSID(ea0)
      BY <1>6 DEF CellPTE, NewPTE
    <3>3. \A s \in Slots : s # s0 => translation_table'[g][s].vsid # VSID(ea0)
      BY <1>4, <1>6, <3>1
    <3>4. {s \in Slots : translation_table'[g][s].vsid = VSID(ea0)} = {s0}
      BY <1>6, <3>2, <3>3
    <3>5. OwnSlots(EaOf(i, j, k))' = {s0}
      BY <1>3, <2>1, <3>4 DEF OwnSlots
    <3>6. QED
      BY <1>6, <3>5
  <2>2. CASE ~(i = region /\ j = chunk /\ k = offset)
    <3>1. Placed(i, j, k)
      BY <1>5, <1>10, <2>2
    <3>2. \E s \in OwnSlots(EaOf(i, j, k)) : OwnSlots(EaOf(i, j, k)) = {s}
      BY <3>1 DEF SpreadInv, OwnEntriesSpread
    <3>3. OwnSlots(EaOf(i, j, k))' = OwnSlots(EaOf(i, j, k))
      BY <1>9, <2>2 DEF OwnSlots
    <3>4. QED
      BY <3>2, <3>3
  <2>3. QED
    BY <2>1, <2>2
<1>11. ASSUME NEW i \in Regions, NEW j \in Chunks(i), NEW k \in 0..(PaSize(i, j) - 1),
              ~Placed(i, j, k)'
       PROVE  HasRoom(EaOf(i, j, k))'
  <2>1. ~Placed(i, j, k) /\ ~(i = region /\ j = chunk /\ k = offset)
    BY <1>5, <1>11
  <2>2. HasRoom(EaOf(i, j, k))
    BY <2>1 DEF SpreadInv
  <2>3. \A s \in Slots : translation_table'[PTEG1[EaOf(i, j, k)]][s]
                         = translation_table[PTEG1[EaOf(i, j, k)]][s]
    BY <1>9, <2>1
  <2>4. \A s \in 1..(PTEGSize - 1) : s \in Slots
    BY PageTableType DEF PageTableType, Slots
  <2>5. QED
    BY <2>2, <2>3, <2>4 DEF HasRoom, OwnSlots, FreeSlots, PTEHIsZero
<1>12. status' # "failed"
  BY <1>3 DEF SpreadInv
<1>13. OwnEntriesSpread'
  BY <1>10 DEF OwnEntriesSpread
<1>14. QED
  BY <1>11, <1>12, <1>13 DEF SpreadInv

(* A step that leaves the table alone, and places no page.                 *)
LEMMA SpreadUntouched ==
  ASSUME SpreadInv, UNCHANGED translation_table, status' # "failed",
         \A i \in Regions : \A j \in Chunks(i) : \A k \in 0..(PaSize(i, j) - 1) :
           Placed(i, j, k)' <=> Placed(i, j, k)
  PROVE  SpreadInv'
<1>1. ASSUME NEW ea PROVE OwnSlots(ea)' = OwnSlots(ea) /\ HasRoom(ea)' = HasRoom(ea)
  BY DEF OwnSlots, HasRoom, FreeSlots
<1>2. OwnEntriesSpread'
  BY <1>1 DEF SpreadInv, OwnEntriesSpread
<1> QED
  BY <1>1, <1>2 DEF SpreadInv

(* No step of the mapping uses a secondary group.                          *)
LEMMA StepKeepsSpread ==
  ASSUME PagesSpread, IInv, SpreadInv, [Next]_vars
  PROVE  SpreadInv'
<1>1. ASSUME AtPage PROVE FreeSlots(PTEG1[ea_addr]) # {}
  <2>1. IsCell(region, chunk, offset) /\ ea_addr = EaOf(region, chunk, offset)
    BY <1>1, CursorCell DEF IInv
  <2>2. ~Placed(region, chunk, offset)
    BY <2>1, CursorNotPlaced
  <2>3. /\ region \in Regions /\ chunk \in Chunks(region)
        /\ offset \in 0..(PaSize(region, chunk) - 1)
    BY <2>1, CellIsBounded
  <2>4. HasRoom(ea_addr)
    BY <2>1, <2>2, <2>3 DEF SpreadInv
  <2> QED
    BY <2>4 DEF HasRoom
<1>2. CASE MapPagePrimary
  BY <1>2, PlaceKeepsSpread
<1>3. CASE MapPageSecondary \/ MapPageFails
  BY <1>1, <1>3 DEF MapPageSecondary, MapPageFails
<1>4. CASE NextChunk
  <2>1. UNCHANGED translation_table /\ status' # "failed"
    BY <1>4 DEF NextChunk, AdvanceChunk
  <2> QED
    BY <1>4, <2>1, NextChunkPlacesNone, SpreadUntouched DEF IInv
<1>5. CASE NextRegion
  <2>1. UNCHANGED translation_table /\ status' # "failed"
    BY <1>5 DEF NextRegion
  <2> QED
    BY <1>5, <2>1, NextRegionPlacesNone, SpreadUntouched DEF IInv
<1>6. CASE AllRegionsMapped
  <2>1. UNCHANGED translation_table /\ status' # "failed"
    BY <1>6 DEF AllRegionsMapped
  <2>2. \A i \in Regions : \A j \in Chunks(i) : \A k \in 0..(PaSize(i, j) - 1) :
          Placed(i, j, k)' <=> Placed(i, j, k)
    BY <1>6 DEF AllRegionsMapped, Placed
  <2> QED
    BY <2>1, <2>2, SpreadUntouched
<1>7. CASE UNCHANGED vars
  <2>1. UNCHANGED translation_table /\ status' # "failed"
    BY <1>7 DEF vars, SpreadInv
  <2>2. \A i \in Regions : \A j \in Chunks(i) : \A k \in 0..(PaSize(i, j) - 1) :
          Placed(i, j, k)' <=> Placed(i, j, k)
    BY <1>7 DEF vars, Placed
  <2> QED
    BY <2>1, <2>2, SpreadUntouched
<1> QED
  BY <1>2, <1>3, <1>4, <1>5, <1>6, <1>7
  DEF Next, MemoryMapping_memoryMappingForRegions

(* With room in every primary group of its pages, which are distinct, the  *)
(* mapping ...                                                             *)
THEOREM SpreadInvHolds ==
  ASSUME PagesSpread
  PROVE  Spec /\ RoomForPages => []SpreadInv
<1>1. Init /\ RoomForPages => SpreadInv
  <2> SUFFICES ASSUME Init, RoomForPages PROVE SpreadInv
    OBVIOUS
  <2>1. \A i \in Regions : \A j \in Chunks(i) : \A k \in 0..(PaSize(i, j) - 1) :
          ~Placed(i, j, k) /\ HasRoom(EaOf(i, j, k))
    BY NonePlacedFirst, BoundedCell, CellIsOurs DEF RoomForPages
  <2> QED
    BY <2>1 DEF SpreadInv, OwnEntriesSpread, Init, MapInit
<1>2. IInv /\ SpreadInv /\ [Next]_vars => SpreadInv'
  BY StepKeepsSpread
<1> QED
  BY <1>1, <1>2, IInvHolds, PTL DEF Spec

(* ... puts each into its own primary group, alone of ours ...             *)
THEOREM EntriesSpread ==
  ASSUME PagesSpread
  PROVE  Spec /\ RoomForPages => []OwnEntriesSpread
<1>1. SpreadInv => OwnEntriesSpread
  BY DEF SpreadInv
<1> QED
  BY <1>1, SpreadInvHolds, PTL

(* ... and never fails.                                                    *)
THEOREM MappingNeverFails ==
  ASSUME PagesSpread
  PROVE  Spec /\ RoomForPages => [](status # "failed")
<1>1. SpreadInv => status # "failed"
  BY DEF SpreadInv
<1> QED
  BY <1>1, SpreadInvHolds, PTL

-----------------------------------------------------------------------------
(* What other modules take of this one.                                    *)

(* At any time the pages of the regions that translate are the first ones  *)
(* of them, in table order, and all of them once the mapping has ended     *)
(* without a failure.                                                      *)
FirstPagesTranslate ==
  /\ \E h \in Regions : \E n \in 0..(EaEnd(h) - EaStart(h)) :
       TranslatedPages = FirstPages(h, n)
  /\ status = "mapped" => TranslatedPages = OurPages
  /\ \A ea \in OurPages : ea \in TranslatedPages <=> Translation(ea) # NoEntry

(* The first pages, told by the cells.                                     *)
LEMMA FirstPagesByCell ==
  ASSUME NEW i, NEW j, NEW k, IsCell(i, j, k),
         NEW h \in Regions, NEW n \in 0..(EaEnd(h) - EaStart(h))
  PROVE  EaOf(i, j, k) \in FirstPages(h, n) <=>
           i < h \/ (i = h /\ EaOf(i, j, k) < EaStart(h) + n)
<1> DEFINE ea == EaOf(i, j, k)
<1>1. /\ i \in Regions /\ i \in Nat /\ h \in Nat
      /\ ea \in Nat /\ EaStart(i) <= ea /\ ea < EaEnd(i)
  BY CellFacts DEF IsCell, Regions
<1>2. /\ EaStart(h) \in Nat /\ EaEnd(h) \in Nat /\ n \in Int
      /\ n <= EaEnd(h) - EaStart(h)
  BY RegionFacts
<1> HIDE DEF ea
<1>3. ASSUME NEW r \in Regions, ea \in Pages(r) PROVE r = i
  BY <1>1, <1>3, RegionFacts, OneRegion DEF Pages
<1>4. ea \in Pages(i)
  BY <1>1, RegionFacts DEF Pages
<1>5. ea \in UNION {Pages(r) : r \in {r \in Regions : r < h}} <=> i < h
  BY <1>1, <1>3, <1>4
<1>6. ea \in EaStart(h)..(EaStart(h) + n - 1) <=> i = h /\ ea < EaStart(h) + n
  <2>1. ea \in EaStart(h)..(EaStart(h) + n - 1) => ea \in Pages(h)
    BY <1>1, <1>2 DEF Pages
  <2>2. ea \in EaStart(h)..(EaStart(h) + n - 1) <=> EaStart(h) <= ea /\ ea < EaStart(h) + n
    BY <1>1, <1>2
  <2> QED
    BY <1>1, <1>3, <2>1, <2>2
<1> QED
  BY <1>5, <1>6 DEF FirstPages, ea

(* The pages placed are those before the cursor.                           *)
LEMMA PlacedBeforeCursor ==
  ASSUME TypeOK, CursorInv, region \in Regions
  PROVE  /\ EaOffset[region][chunk] + offset \in 0..(EaEnd(region) - EaStart(region))
         /\ \A i, j, k : IsCell(i, j, k) =>
              (Placed(i, j, k) <=>
                 \/ i < region
                 \/ /\ i = region
                    /\ EaOf(i, j, k) < EaStart(region) + (EaOffset[region][chunk] + offset))
<1> DEFINE last == Len(ChunkTable(region))
<1>1. region \in Nat /\ chunk \in Nat /\ offset \in Nat
  BY DEF Regions, TypeOK
<1>2. /\ EaStart(region) \in Nat /\ EaEnd(region) \in Nat /\ last \in Nat
      /\ EaStart(region) + EaOffset[region][last + 1] = EaEnd(region)
      /\ \A c \in 1..(last + 1) : EaOffset[region][c] \in Nat
      /\ \A c, d \in Chunks(region) :
           c < d => EaOffset[region][c] + PaSize(region, c) <= EaOffset[region][d]
      /\ \A c \in Chunks(region) :
           EaStart(region) + EaOffset[region][c] + PaSize(region, c) <= EaEnd(region)
  BY RegionFacts, OffsetIsRunningSum DEF OffsetIsRunningSum
<1>3. \A c \in Chunks(region) : PaSize(region, c) \in Nat
  BY ChunkFacts
<1>4. /\ chunk \in 1..(last + 1)
      /\ chunk \in Chunks(region) => offset <= PaSize(region, chunk)
      /\ chunk \notin Chunks(region) => offset = 0
      /\ Chunks(region) = 1..last
  BY DEF CursorInv, Chunks
<1> HIDE DEF last
<1>5. chunk \notin Chunks(region) => chunk = last + 1
  BY <1>2, <1>4
<1> DEFINE o == EaOffset[region][chunk]
<1>6. o \in Nat /\ (chunk \notin Chunks(region) => EaStart(region) + o = EaEnd(region))
  BY <1>2, <1>4, <1>5
<1>7. chunk \in Chunks(region) =>
        EaStart(region) + o + PaSize(region, chunk) <= EaEnd(region)
  BY <1>2
<1> HIDE DEF o
<1>8. o + offset \in 0..(EaEnd(region) - EaStart(region))
  <2>1. CASE chunk \in Chunks(region)
    BY <2>1, <1>1, <1>2, <1>3, <1>4, <1>6, <1>7
  <2>2. CASE chunk \notin Chunks(region)
    BY <2>2, <1>2, <1>4, <1>6
  <2> QED
    BY <2>1, <2>2
<1>9. ASSUME NEW i, NEW j, NEW k, IsCell(i, j, k)
      PROVE  Placed(i, j, k) <=>
               \/ i < region
               \/ i = region /\ EaOf(i, j, k) < EaStart(region) + (o + offset)
  <2>1. /\ i \in Regions /\ j \in Chunks(i) /\ k \in Nat /\ k < PaSize(i, j)
        /\ i \in Nat /\ j \in Nat
    BY <1>9, ChunkFacts DEF IsCell, Regions, Chunks
  <2>2. ASSUME i = region
        PROVE  j < chunk \/ (j = chunk /\ k < offset) <=>
                 EaStart(region) + EaOffset[i][j] + k < EaStart(region) + (o + offset)
    <3> DEFINE p == EaOffset[region][j]
               z == PaSize(region, j)
    <3>1. j \in 1..last /\ p \in Nat /\ z \in Nat /\ k < z
      BY <2>1, <1>2, <1>3, <1>4, <2>2
    <3>2. j < chunk => p + z <= o
      <4>1. CASE chunk \in Chunks(region)
        BY <4>1, <1>2, <1>4, <3>1 DEF o
      <4>2. CASE chunk \notin Chunks(region)
        <5>1. EaStart(region) + p + z <= EaEnd(region)
          BY <1>2, <1>4, <3>1
        <5> QED
          BY <5>1, <4>2, <1>2, <1>6, <3>1
      <4> QED
        BY <4>1, <4>2
    <3>3. chunk < j => o + offset <= p
      <4> SUFFICES ASSUME chunk < j PROVE o + offset <= p
        OBVIOUS
      <4>1. chunk \in Chunks(region)
        BY <1>2, <1>4, <3>1
      <4>2. o + PaSize(region, chunk) <= p
        BY <4>1, <1>2, <1>4, <3>1 DEF o
      <4> QED
        BY <4>1, <4>2, <1>1, <1>3, <1>4, <1>6, <3>1
    <3>4. j = chunk => p = o
      BY DEF o
    <3>5. EaOffset[i][j] = p
      BY <2>2
    <3> HIDE DEF p, z
    <3>6. j < chunk \/ j = chunk \/ chunk < j
      BY <1>1, <2>1
    <3> QED
      BY <1>1, <2>1, <1>2, <1>6, <3>1, <3>2, <3>3, <3>4, <3>5, <3>6
  <2> QED
    BY <1>1, <2>1, <2>2 DEF Placed, EaOf
<1> QED
  BY <1>8, <1>9 DEF o

(* The table answers for a page of ours when it has been placed.           *)
LEMMA TranslatedByCell ==
  ASSUME IInv, NEW i, NEW j, NEW k, IsCell(i, j, k)
  PROVE  EaOf(i, j, k) \in TranslatedPages <=> Placed(i, j, k)
<1> DEFINE ea == EaOf(i, j, k)
<1>1. /\ i \in Regions /\ j \in Chunks(i) /\ k \in 0..(PaSize(i, j) - 1)
      /\ ea \in OurPages
  BY CellIsBounded, CellIsOurs
<1>2. ASSUME Placed(i, j, k)
      PROVE  \E g \in PTEGs, s \in Slots : AnswersFor(ea, g, translation_table[g][s])
  <2>1. PICK h \in {0, 1}, s \in Slots :
          translation_table[CellGroup(i, j, k, h)][s] = CellPTE(i, j, k, h)
    BY <1>1, <1>2 DEF IInv, EntriesComplete
  <2>2. CellGroup(i, j, k, h) \in PTEGs
    BY CellHashes DEF GroupHash
  <2>3. AnswersFor(ea, CellGroup(i, j, k, h), CellPTE(i, j, k, h))
    BY DEF AnswersFor, CellPTE, NewPTE, CellGroup
  <2> QED
    BY <2>1, <2>2, <2>3
<1>3. ASSUME NEW g \in PTEGs, NEW s \in Slots, AnswersFor(ea, g, translation_table[g][s])
      PROVE  Placed(i, j, k)
  <2>1. PICK h \in GroupHash : translation_table[g][s].h = h /\ g = CellGroup(i, j, k, h)
    BY <1>3 DEF AnswersFor, GroupHash, CellGroup
  <2>2. s \in Matches(i, j, k, h)
    BY <1>3, <2>1 DEF AnswersFor, Matches, MatchingSlots
  <2> QED
    BY <2>2, MatchIsOwn
<1> QED
  BY <1>1, <1>2, <1>3 DEF TranslatedPages

(* The pages the table answers for are those that the two searches find.   *)
LEMMA AnsweredPagesTranslate ==
  ASSUME IInv, NEW ea \in OurPages
  PROVE  ea \in TranslatedPages <=> Translation(ea) # NoEntry
<1>1. PICK i, j, k : IsCell(i, j, k) /\ ea = EaOf(i, j, k)
  BY OurPageIsCell
<1>2. i \in Regions /\ j \in Chunks(i) /\ k \in 0..(PaSize(i, j) - 1)
  BY <1>1, CellIsBounded
<1>3. Placed(i, j, k) => Translation(ea) # NoEntry
  BY <1>1, <1>2, IInvMakesPlacedTranslate DEF PlacedPagesTranslate
<1>4. ~Placed(i, j, k) => Translation(ea) = NoEntry
  BY <1>1, <1>2, IInvMakesOnlyPlacedTranslate DEF OnlyPlacedPagesTranslate
<1> QED
  BY <1>1, <1>3, <1>4, TranslatedByCell

(* In a region, they are the first ones, up to the cursor.                 *)
LEMMA TranslatedAtCursor ==
  ASSUME IInv, region \in Regions
  PROVE  /\ EaOffset[region][chunk] + offset \in 0..(EaEnd(region) - EaStart(region))
         /\ TranslatedPages = FirstPages(region, EaOffset[region][chunk] + offset)
<1>1. TypeOK /\ CursorInv
  BY DEF IInv
<1>2. PICK n \in 0..(EaEnd(region) - EaStart(region)) :
        n = EaOffset[region][chunk] + offset
  BY <1>1, PlacedBeforeCursor
<1>3. ASSUME NEW ea \in OurPages
      PROVE  ea \in TranslatedPages <=> ea \in FirstPages(region, n)
  <2>1. PICK i, j, k : IsCell(i, j, k) /\ ea = EaOf(i, j, k)
    BY OurPageIsCell
  <2>2. ea \in TranslatedPages <=> Placed(i, j, k)
    BY <2>1, TranslatedByCell
  <2>3. Placed(i, j, k) <=>
          i < region \/ (i = region /\ EaOf(i, j, k) < EaStart(region) + n)
    BY <1>1, <1>2, <2>1, PlacedBeforeCursor
  <2> QED
    BY <2>1, <2>2, <2>3, FirstPagesByCell
<1>4. TranslatedPages \subseteq OurPages /\ FirstPages(region, n) \subseteq OurPages
  BY FirstPagesAreOurs DEF TranslatedPages
<1> QED
  BY <1>2, <1>3, <1>4

(* When the outer loop is through, they are all.                           *)
LEMMA TranslatedAtEnd ==
  ASSUME IInv, region \notin Regions
  PROVE  TranslatedPages = OurPages
<1>1. Len(mem_mapping) \in Nat /\ region \in 1..(Len(mem_mapping) + 1)
  BY MapType DEF MapType, IInv, TypeOK
<1>2. ASSUME NEW ea \in OurPages
      PROVE  ea \in TranslatedPages
  <2>1. PICK i, j, k : IsCell(i, j, k) /\ ea = EaOf(i, j, k)
    BY OurPageIsCell
  <2>2. i < region
    BY <1>1, <2>1 DEF IsCell, Regions
  <2> QED
    BY <2>1, <2>2, TranslatedByCell DEF Placed
<1>3. TranslatedPages \subseteq OurPages
  BY DEF TranslatedPages
<1> QED
  BY <1>2, <1>3

(* The mapping has not failed only when the last region is done.           *)
MappedInv == status = "mapped" => region \notin Regions

LEMMA StepKeepsMapped ==
  ASSUME IInv, MappedInv, [Next]_vars
  PROVE  MappedInv'
BY DEF MappedInv, vars, Next, MemoryMapping_memoryMappingForRegions, MapPagePrimary,
       MapPageSecondary, MapPageFails, NextChunk, AdvanceChunk, NextRegion,
       AllRegionsMapped, AtPage

(* The cursor of the loops tells how far the translated pages reach.       *)
LEMMA FirstPagesFollow ==
  ASSUME mem_mapping # <<>>, IInv, MappedInv
  PROVE  FirstPagesTranslate
<1>1. \A ea \in OurPages : ea \in TranslatedPages <=> Translation(ea) # NoEntry
  BY AnsweredPagesTranslate
<1>2. CASE region \in Regions
  BY <1>1, <1>2, TranslatedAtCursor DEF FirstPagesTranslate, MappedInv
<1>3. CASE region \notin Regions
  <2> DEFINE h == Len(mem_mapping)
             n == EaEnd(h) - EaStart(h)
  <2>1. h \in Regions /\ h \in Nat
    BY MapType DEF MapType, Regions
  <2>2. EaStart(h) \in Nat /\ EaEnd(h) \in Nat
    BY <2>1, RegionFacts
  <2>3. n \in 0..(EaEnd(h) - EaStart(h)) /\ EaStart(h) + n = EaEnd(h)
    <3>1. EaStart(h) <= EaEnd(h)
      BY <2>1, <2>2, OffsetIsRunningSum, RegionFacts DEF OffsetIsRunningSum
    <3> QED
      BY <2>2, <3>1
  <2> HIDE DEF n
  <2>4. ASSUME NEW ea \in OurPages
        PROVE  ea \in FirstPages(h, n)
    <3>1. PICK i, j, k : IsCell(i, j, k) /\ ea = EaOf(i, j, k)
      BY OurPageIsCell
    <3>2. i \in 1..h /\ ea < EaEnd(i)
      BY <3>1, CellFacts DEF IsCell, Regions
    <3>3. i < h \/ (i = h /\ ea < EaStart(h) + n)
      BY <2>1, <2>3, <3>2
    <3> QED
      BY <2>1, <2>3, <3>1, <3>3, FirstPagesByCell
  <2>5. FirstPages(h, n) = OurPages
    BY <2>1, <2>3, <2>4, FirstPagesAreOurs
  <2>6. TranslatedPages = OurPages
    BY <1>3, TranslatedAtEnd
  <2> QED
    BY <1>1, <2>1, <2>3, <2>5, <2>6 DEF FirstPagesTranslate
<1> QED
  BY <1>2, <1>3

(* What module ModuleLifecycle takes for granted of the page table when    *)
(* the setup has ended, and module CoreSetup when the mapping has: the     *)
(* pages of ours that the MMU translates are the first ones in table       *)
(* order, wherever the mapping stops, and all of them if it did not fail.  *)
THEOREM FirstPagesHold ==
  ASSUME mem_mapping # <<>>
  PROVE  Spec => []FirstPagesTranslate
<1>1. Init => MappedInv
  BY DEF Init, MapInit, MappedInv
<1>2. IInv /\ MappedInv /\ [Next]_vars => MappedInv'
  BY StepKeepsMapped
<1>3. IInv /\ MappedInv => FirstPagesTranslate
  BY FirstPagesFollow
<1> QED
  BY <1>1, <1>2, <1>3, IInvHolds, PTL DEF Spec

-----------------------------------------------------------------------------
(* The mapping implements module OrderedMapping.                           *)

(* The table answers for the pages placed, and no others.                  *)
TellsPlaced ==
  \A i, j, k : IsCell(i, j, k) => (EaOf(i, j, k) \in TranslatedPages <=> Placed(i, j, k))

LEMMA IInvTellsPlaced ==
  ASSUME IInv
  PROVE  TellsPlaced
  BY TranslatedByCell DEF TellsPlaced

LEMMA InitRefines ==
  ASSUME Init
  PROVE  Promise!Init
<1>1. ASSUME NEW ea \in OurPages
      PROVE  ea \notin TranslatedPages
  <2>1. PICK i, j, k : IsCell(i, j, k) /\ ea = EaOf(i, j, k)
    BY OurPageIsCell
  <2>2. ~Placed(i, j, k)
    BY <2>1, CellIsBounded, NonePlacedFirst
  <2> QED
    BY <2>1, <2>2, InitHasIInv, TranslatedByCell
<1>2. TranslatedPages \subseteq OurPages
  BY DEF TranslatedPages
<1> QED
  BY <1>1, <1>2 DEF Init, MapInit, Promise!Init

(* A step that places no page is not seen in the pages that translate.     *)
LEMMA NonePlacedNoneSeen ==
  ASSUME TellsPlaced, TellsPlaced',
         \A i \in Regions : \A j \in Chunks(i) : \A k \in 0..(PaSize(i, j) - 1) :
           Placed(i, j, k)' <=> Placed(i, j, k)
  PROVE  UNCHANGED TranslatedPages
<1>1. ASSUME NEW ea \in OurPages
      PROVE  ea \in TranslatedPages' <=> ea \in TranslatedPages
  <2>1. PICK i, j, k : IsCell(i, j, k) /\ ea = EaOf(i, j, k)
    BY OurPageIsCell
  <2>2. Placed(i, j, k)' <=> Placed(i, j, k)
    BY <2>1, CellIsBounded
  <2> QED
    BY <2>1, <2>2 DEF TellsPlaced
<1>2. TranslatedPages \subseteq OurPages /\ TranslatedPages' \subseteq OurPages
  BY DEF TranslatedPages
<1> QED
  BY <1>1, <1>2

(* The page at the cursor has exactly the translated pages in front of it. *)
LEMMA CursorPageIsNext ==
  ASSUME IInv, AtPage
  PROVE  /\ ea_addr \in OurPages \ TranslatedPages
         /\ EarlierPages[ea_addr] = TranslatedPages
<1>1. /\ IsCell(region, chunk, offset) /\ ea_addr = EaOf(region, chunk, offset)
      /\ region \in Regions /\ chunk \in Chunks(region) /\ offset \in Nat
  BY CursorCell DEF IInv, IsCell
<1>2. ea_addr \in OurPages \ TranslatedPages
  BY <1>1, CellIsOurs, CursorNotPlaced, TranslatedByCell
<1>3. ea_addr - EaStart(region) = EaOffset[region][chunk] + offset
  <2>1. EaStart(region) \in Nat /\ EaOffset[region][chunk] \in Nat
    BY <1>1, RegionFacts, ChunkFacts
  <2> QED
    BY <1>1, <2>1 DEF EaOf
<1>4. {h \in Regions : ea_addr \in Pages(h)} = {region}
  <2>1. /\ ea_addr \in Nat /\ EaStart(region) <= ea_addr /\ ea_addr < EaEnd(region)
        /\ EaStart(region) \in Nat /\ EaEnd(region) \in Nat
    BY <1>1, CellFacts, RegionFacts
  <2>2. ea_addr \in Pages(region)
    BY <2>1 DEF Pages
  <2>3. ASSUME NEW h \in Regions, ea_addr \in Pages(h)
        PROVE  h = region
    <3>1. EaStart(h) <= ea_addr /\ ea_addr < EaEnd(h)
      BY <2>1, <2>3, RegionFacts DEF Pages
    <3> QED
      BY <1>1, <2>1, <3>1, OneRegion
  <2> QED
    BY <1>1, <2>2, <2>3
<1>5. EarlierPages[ea_addr] =
        UNION {FirstPages(h, ea_addr - EaStart(h)) : h \in {region}}
  BY <1>2, <1>4 DEF EarlierPages
<1>6. EarlierPages[ea_addr] = FirstPages(region, EaOffset[region][chunk] + offset)
  BY <1>3, <1>5
<1> QED
  BY <1>1, <1>2, <1>6, TranslatedAtCursor

(* An entry written makes its page the next one that translates.           *)
LEMMA PlaceRefines ==
  ASSUME IInv, TellsPlaced, TellsPlaced', MapPagePrimary \/ MapPageSecondary
  PROVE  Promise!MapPage
<1>1. /\ TypeOK /\ CursorInv /\ AtPage /\ offset' = offset + 1
      /\ status = "mapping" /\ UNCHANGED <<region, chunk, status>>
  BY DEF IInv, MapPagePrimary, MapPageSecondary, AtPage
<1>2. /\ IsCell(region, chunk, offset)
      /\ ea_addr = EaOf(region, chunk, offset) /\ pa_addr = PaOf(region, chunk, offset)
  BY <1>1, CursorCell
<1>3. PICK h \in GroupHash :
        /\ FreeSlots(CellGroup(region, chunk, offset, h)) # {}
        /\ StorePTE(CellGroup(region, chunk, offset, h), CellPTE(region, chunk, offset, h))
  <2>1. CASE MapPagePrimary
    <3>1. /\ FreeSlots(CellGroup(region, chunk, offset, 0)) # {}
          /\ StorePTE(CellGroup(region, chunk, offset, 0), CellPTE(region, chunk, offset, 0))
      BY <1>2, <2>1 DEF MapPagePrimary, CellGroup, CellPTE
    <3> QED
      BY <3>1 DEF GroupHash
  <2>2. CASE MapPageSecondary
    <3>1. /\ FreeSlots(CellGroup(region, chunk, offset, 1)) # {}
          /\ StorePTE(CellGroup(region, chunk, offset, 1), CellPTE(region, chunk, offset, 1))
      BY <1>2, <2>2 DEF MapPageSecondary, CellGroup, CellPTE
    <3> QED
      BY <3>1 DEF GroupHash
  <2> QED
    BY <2>1, <2>2
<1>4. \A i \in Regions : \A j \in Chunks(i) : \A k \in 0..(PaSize(i, j) - 1) :
        Placed(i, j, k)' <=> Placed(i, j, k) \/ (i = region /\ j = chunk /\ k = offset)
  BY <1>1, <1>3, StoreTakesFreeSlot
<1> DEFINE p == ea_addr
<1>5. ASSUME NEW ea \in OurPages
      PROVE  ea \in TranslatedPages' <=> ea \in TranslatedPages \/ ea = p
  <2>1. PICK i, j, k : IsCell(i, j, k) /\ ea = EaOf(i, j, k)
    BY OurPageIsCell
  <2>2. Placed(i, j, k)' <=> Placed(i, j, k) \/ (i = region /\ j = chunk /\ k = offset)
    BY <1>4, <2>1, CellIsBounded
  <2>3. (i = region /\ j = chunk /\ k = offset) <=> ea = p
    BY <1>2, <2>1, EaOfInjective
  <2> QED
    BY <2>1, <2>2, <2>3 DEF TellsPlaced
<1>6. p \in OurPages \ TranslatedPages /\ EarlierPages[p] = TranslatedPages
  BY <1>1, CursorPageIsNext
<1> HIDE DEF p
<1>7. TranslatedPages' = TranslatedPages \cup {p}
  <2>1. TranslatedPages \subseteq OurPages /\ TranslatedPages' \subseteq OurPages
    BY DEF TranslatedPages
  <2> QED
    BY <1>5, <1>6, <2>1
<1> QED
  BY <1>1, <1>6, <1>7 DEF Promise!MapPage

LEMMA StepRefines ==
  ASSUME IInv, TellsPlaced, TellsPlaced', [Next]_vars
  PROVE  [Promise!Next]_(Promise!vars)
<1>1. CASE MapPagePrimary \/ MapPageSecondary
  BY <1>1, PlaceRefines DEF Promise!Next
<1>2. CASE MapPageFails
  <2>1. /\ AtPage /\ status = "mapping" /\ status' = "failed"
        /\ UNCHANGED <<region, chunk, offset>>
    BY <1>2 DEF MapPageFails, AtPage
  <2>2. UNCHANGED TranslatedPages
    BY <2>1, NonePlacedNoneSeen DEF Placed
  <2>3. TranslatedPages # OurPages
    BY <2>1, CursorPageIsNext
  <2> QED
    BY <2>1, <2>2, <2>3 DEF Promise!Next, Promise!GiveUp
<1>3. CASE NextChunk
  <2>1. UNCHANGED status
    BY <1>3 DEF NextChunk, AdvanceChunk
  <2>2. UNCHANGED TranslatedPages
    BY <1>3, NextChunkPlacesNone, NonePlacedNoneSeen
  <2> QED
    BY <2>1, <2>2 DEF Promise!vars
<1>4. CASE NextRegion
  <2>1. UNCHANGED status
    BY <1>4 DEF NextRegion
  <2>2. UNCHANGED TranslatedPages
    BY <1>4, NextRegionPlacesNone, NonePlacedNoneSeen DEF IInv
  <2> QED
    BY <2>1, <2>2 DEF Promise!vars
<1>5. CASE AllRegionsMapped
  <2>1. /\ region \notin Regions /\ status = "mapping" /\ status' = "mapped"
        /\ UNCHANGED <<region, chunk, offset>>
    BY <1>5 DEF AllRegionsMapped
  <2>2. UNCHANGED TranslatedPages
    BY <2>1, NonePlacedNoneSeen DEF Placed
  <2>3. TranslatedPages = OurPages
    BY <2>1, TranslatedAtEnd
  <2> QED
    BY <2>1, <2>2, <2>3 DEF Promise!Next, Promise!Finish
<1>6. CASE UNCHANGED vars
  <2>1. UNCHANGED <<region, chunk, offset, status>>
    BY <1>6 DEF vars
  <2>2. UNCHANGED TranslatedPages
    BY <2>1, NonePlacedNoneSeen DEF Placed
  <2> QED
    BY <2>1, <2>2 DEF Promise!vars
<1> QED
  BY <1>1, <1>2, <1>3, <1>4, <1>5, <1>6 DEF Next, MemoryMapping_memoryMappingForRegions

(* Whatever the hash functions, the kernel's entries and the congestion of *)
(* the groups, memoryMappingForRegions makes the pages of the regions      *)
(* visible one by one in table order, loses none, gives up only while one  *)
(* is missing and ends without a failure only when all are there.          *)
THEOREM MappingKeepsThePromise == Spec => MappingPromise
<1>1. Init => Promise!Init
  BY InitRefines
<1>2. IInv => TellsPlaced
  BY IInvTellsPlaced
<1>3. IInv /\ TellsPlaced /\ TellsPlaced' /\ [Next]_vars => [Promise!Next]_(Promise!vars)
  BY StepRefines
<1> QED
  BY <1>1, <1>2, <1>3, IInvHolds, PTL DEF Spec, MappingPromise, Promise!Spec
=============================================================================
