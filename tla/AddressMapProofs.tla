-------------------------- MODULE AddressMapProofs --------------------------
(***************************************************************************)
(* The software translations agree with the tables and undo each other,    *)
(* for every table that satisfies the assumptions of AddressMap.           *)
(***************************************************************************)
EXTENDS AddressMap, WellFoundedInduction, TLAPS

(* Page k of chunk j of region i exists.                                   *)
IsCell(i, j, k) ==
  /\ i \in Regions /\ j \in Chunks(i)
  /\ k \in Nat /\ k < PaSize(i, j)

(* The types of what the tables hold.                                      *)
LEMMA RegionFacts ==
  ASSUME NEW i \in Regions
  PROVE  /\ EaStart(i) \in Nat /\ EaEnd(i) \in Nat
         /\ ChunkTable(i) \in Seq(memory_values_t)
         /\ Len(ChunkTable(i)) \in Nat
<1>1. mem_mapping \in Seq(memory_mapping_t) /\ i \in 1..Len(mem_mapping)
  BY MapType DEF MapType, Regions
<1>2. mem_mapping[i] \in memory_mapping_t
  BY <1>1
<1>3. /\ EaStart(i) \in Nat /\ EaEnd(i) \in Nat
      /\ ChunkTable(i) \in Seq(memory_values_t)
  BY <1>2 DEF EaStart, EaEnd, ChunkTable, memory_mapping_t
<1> QED
  BY <1>3

LEMMA ChunkFacts ==
  ASSUME NEW i \in Regions, NEW j \in Chunks(i)
  PROVE  /\ j \in Nat
         /\ PaStart(i, j) \in Nat /\ PaEnd(i, j) \in Nat /\ PaSize(i, j) \in Nat
         /\ PaSize(i, j) = PaEnd(i, j) - PaStart(i, j)
         /\ 0 < PaStart(i, j) /\ PaStart(i, j) < PaEnd(i, j)
         /\ EaOffset[i][j] \in Nat /\ EaOffset[i][j + 1] \in Nat
         /\ EaOffset[i][j + 1] = EaOffset[i][j] + PaSize(i, j)
         /\ EaStart(i) + EaOffset[i][j] + PaSize(i, j) <= EaEnd(i)
<1>1. ChunkTable(i)[j] \in memory_values_t
  BY RegionFacts DEF Chunks
<1>2. PaStart(i, j) \in Nat /\ PaEnd(i, j) \in Nat
  BY <1>1 DEF PaStart, PaEnd, memory_values_t
<1>3. j \in Nat /\ j \in 1..(Len(ChunkTable(i)) + 1)
               /\ j + 1 \in 1..(Len(ChunkTable(i)) + 1)
  BY RegionFacts DEF Chunks
<1>4. EaOffset[i] \in [1..(Len(ChunkTable(i)) + 1) -> Nat]
  BY OffsetIsRunningSum DEF OffsetIsRunningSum
<1>5. EaOffset[i][j] \in Nat /\ EaOffset[i][j + 1] \in Nat
  BY <1>3, <1>4
<1>6. 0 < PaStart(i, j) /\ PaStart(i, j) < PaEnd(i, j)
  BY MapType DEF MapType
<1>7. /\ EaOffset[i][j + 1] = EaOffset[i][j] + PaSize(i, j)
      /\ EaStart(i) + EaOffset[i][j] + PaSize(i, j) <= EaEnd(i)
  BY OffsetIsRunningSum DEF OffsetIsRunningSum
<1> QED
  BY <1>2, <1>3, <1>5, <1>6, <1>7 DEF PaSize

(* A cell lies inside its region and its chunk.                            *)
LEMMA CellFacts ==
  ASSUME NEW i, NEW j, NEW k, IsCell(i, j, k)
  PROVE  /\ EaOf(i, j, k) \in Nat /\ PaOf(i, j, k) \in Nat
         /\ EaStart(i) <= EaOf(i, j, k) /\ EaOf(i, j, k) < EaEnd(i)
         /\ EaOf(i, j, 0) \in Nat /\ EaOf(i, j, PaSize(i, j)) \in Nat
         /\ k \in Nat /\ EaOf(i, j, k) = EaOf(i, j, 0) + k
         /\ EaOf(i, j, k) < EaOf(i, j, PaSize(i, j))
         /\ PaStart(i, j) <= PaOf(i, j, k) /\ PaOf(i, j, k) < PaEnd(i, j)
<1>1. i \in Regions /\ j \in Chunks(i) /\ k \in Nat /\ k < PaSize(i, j)
  BY DEF IsCell
<1>2. EaStart(i) \in Nat /\ EaEnd(i) \in Nat
  BY <1>1, RegionFacts
<1>3. /\ PaStart(i, j) \in Nat /\ PaEnd(i, j) \in Nat /\ PaSize(i, j) \in Nat
      /\ PaSize(i, j) = PaEnd(i, j) - PaStart(i, j)
      /\ EaOffset[i][j] \in Nat
      /\ EaStart(i) + EaOffset[i][j] + PaSize(i, j) <= EaEnd(i)
  BY <1>1, ChunkFacts
<1> QED
  BY <1>1, <1>2, <1>3 DEF EaOf, PaOf

(* Two regions never claim the same effective page.                        *)
LEMMA OneRegion ==
  ASSUME NEW i1 \in Regions, NEW i2 \in Regions, NEW ea \in Nat,
         EaStart(i1) <= ea, ea < EaEnd(i1), EaStart(i2) <= ea, ea < EaEnd(i2)
  PROVE  i1 = i2
  BY EffectiveDisjoint, RegionFacts DEF EffectiveDisjoint

(* The chunks of a region follow each other in the effective space.        *)
LEMMA ChunkOrder ==
  ASSUME NEW i \in Regions, NEW j1 \in Chunks(i), NEW j2 \in Chunks(i), j1 < j2
  PROVE  EaOf(i, j1, PaSize(i, j1)) <= EaOf(i, j2, 0)
<1>1. EaOffset[i][j1] + PaSize(i, j1) <= EaOffset[i][j2]
  BY OffsetIsRunningSum DEF OffsetIsRunningSum
<1>2. EaStart(i) \in Nat
  BY RegionFacts
<1>3. EaOffset[i][j1] \in Nat /\ PaSize(i, j1) \in Nat /\ EaOffset[i][j2] \in Nat
  BY ChunkFacts
<1> QED
  BY <1>1, <1>2, <1>3 DEF EaOf

(* Different cells are seen at different effective pages.                  *)
LEMMA EaOfInjective ==
  ASSUME NEW i1, NEW j1, NEW k1, IsCell(i1, j1, k1),
         NEW i2, NEW j2, NEW k2, IsCell(i2, j2, k2),
         EaOf(i1, j1, k1) = EaOf(i2, j2, k2)
  PROVE  i1 = i2 /\ j1 = j2 /\ k1 = k2
<1>1. i1 \in Regions /\ i2 \in Regions /\ j1 \in Chunks(i1) /\ j2 \in Chunks(i2)
  BY DEF IsCell
<1>2. /\ EaStart(i1) <= EaOf(i1, j1, k1) /\ EaOf(i1, j1, k1) < EaEnd(i1)
      /\ EaOf(i1, j1, k1) \in Nat
      /\ EaOf(i1, j1, k1) = EaOf(i1, j1, 0) + k1
      /\ EaOf(i1, j1, k1) < EaOf(i1, j1, PaSize(i1, j1))
      /\ EaOf(i1, j1, 0) \in Nat /\ k1 \in Nat
  BY CellFacts
<1>3. /\ EaStart(i2) <= EaOf(i2, j2, k2) /\ EaOf(i2, j2, k2) < EaEnd(i2)
      /\ EaOf(i2, j2, k2) \in Nat
      /\ EaOf(i2, j2, k2) = EaOf(i2, j2, 0) + k2
      /\ EaOf(i2, j2, k2) < EaOf(i2, j2, PaSize(i2, j2))
      /\ EaOf(i2, j2, 0) \in Nat /\ k2 \in Nat
  BY CellFacts
<1>4. i1 = i2
  BY <1>1, <1>2, <1>3, OneRegion
<1>5. j1 \in Nat /\ j2 \in Nat
  BY <1>1, ChunkFacts
<1>6. /\ EaOf(i1, j1, PaSize(i1, j1)) \in Nat
      /\ EaOf(i2, j2, PaSize(i2, j2)) \in Nat
  BY CellFacts
<1> DEFINE ea == EaOf(i1, j1, k1)
<1> HIDE DEF ea
<1>0. /\ ea \in Nat
      /\ ea = EaOf(i1, j1, 0) + k1 /\ ea < EaOf(i1, j1, PaSize(i1, j1))
      /\ ea = EaOf(i2, j2, 0) + k2 /\ ea < EaOf(i2, j2, PaSize(i2, j2))
  BY <1>2, <1>3 DEF ea
<1>7. CASE j1 < j2
  <2>1. EaOf(i1, j1, PaSize(i1, j1)) <= EaOf(i2, j2, 0)
    BY <1>1, <1>4, <1>7, ChunkOrder
  <2> QED
    BY <2>1, <1>0, <1>2, <1>3, <1>6
<1>8. CASE j2 < j1
  <2>1. EaOf(i2, j2, PaSize(i2, j2)) <= EaOf(i1, j1, 0)
    BY <1>1, <1>4, <1>8, ChunkOrder
  <2> QED
    BY <2>1, <1>0, <1>2, <1>3, <1>6
<1>9. CASE j1 = j2
  <2>1. EaOf(i1, j1, 0) = EaOf(i2, j2, 0)
    BY <1>4, <1>9
  <2>2. k1 = k2
    BY <2>1, <1>0, <1>2, <1>3
  <2> QED
    BY <2>2, <1>4, <1>9
<1> QED
  BY <1>5, <1>7, <1>8, <1>9

(* The first element of a set with a least element is that element.        *)
LEMMA FirstIsLeast ==
  ASSUME NEW S \in SUBSET Nat, NEW n \in S, \A m \in S : n <= m
  PROVE  First(S) = n
<1>1. First(S) \in S /\ \A m \in S : First(S) <= m
  BY DEF First
<1>2. First(S) <= n /\ n <= First(S)
  BY <1>1
<1>3. First(S) \in Nat /\ n \in Nat
  BY <1>1
<1> QED
  BY <1>2, <1>3

(* A set of naturals that is not empty has a least element ...             *)
LEMMA LeastExists ==
  ASSUME NEW S \in SUBSET Nat, S # {}
  PROVE  \E n \in S : \A m \in S : n <= m
<1>1. PICK n \in S : \A m \in S : ~(<<m, n>> \in OpToRel(<, Nat))
  BY WFMin, NatLessThanWellFounded
<1>2. \A m \in S : ~(m < n)
  BY <1>1 DEF OpToRel
<1> QED
  BY <1>2

(* ... which is what First takes ...                                       *)
LEMMA FirstOfNonempty ==
  ASSUME NEW S \in SUBSET Nat, S # {}
  PROVE  First(S) \in S /\ \A m \in S : First(S) <= m
  BY LeastExists DEF First

(* The chunks of a region fill it, so each of our pages is one of theirs.  *)
LEMMA OurPageIsCell ==
  ASSUME NEW ea \in OurPages
  PROVE  \E h, j, k : IsCell(h, j, k) /\ ea = EaOf(h, j, k)
<1>1. PICK h \in Regions : ea \in Pages(h)
  BY DEF OurPages
<1>2. /\ EaStart(h) \in Nat /\ EaEnd(h) \in Nat /\ Len(ChunkTable(h)) \in Nat
      /\ ea \in Nat /\ EaStart(h) <= ea /\ ea < EaEnd(h)
  BY <1>1, RegionFacts DEF Pages
<1> DEFINE last == Len(ChunkTable(h))
           S == ChunksPast(h, ea)
<1>3. /\ EaOffset[h][1] = 0
      /\ EaStart(h) + EaOffset[h][last + 1] = EaEnd(h)
  BY OffsetIsRunningSum DEF OffsetIsRunningSum
<1>4. last # 0
  BY <1>2, <1>3
<1>5. last \in Chunks(h) /\ S \in SUBSET Nat
  BY <1>2, <1>4 DEF Chunks, ChunksPast
<1>6. EaOffset[h][last + 1] = EaOffset[h][last] + PaSize(h, last)
  BY <1>5, ChunkFacts
<1>7. EaOffset[h][last] \in Nat /\ PaSize(h, last) \in Nat
  BY <1>5, ChunkFacts
<1>8. last \in S
  BY <1>2, <1>3, <1>5, <1>6, <1>7 DEF ChunksPast, EaOf
<1> DEFINE j == First(S)
<1>9. j \in S /\ \A m \in S : j <= m
  BY <1>5, <1>8, FirstOfNonempty
<1> HIDE DEF j
<1>10. j \in Chunks(h) /\ ea < EaOf(h, j, PaSize(h, j))
  BY <1>9 DEF ChunksPast
<1>11. /\ j \in Nat /\ EaOffset[h][j] \in Nat /\ PaSize(h, j) \in Nat
  BY <1>10, ChunkFacts
<1>12. EaOf(h, j, 0) <= ea
  <2>1. CASE j = 1
    BY <2>1, <1>2, <1>3 DEF EaOf
  <2>2. CASE j # 1
    <3>1. j - 1 \in Chunks(h) /\ (j - 1) + 1 = j
      BY <2>2, <1>2, <1>10 DEF Chunks
    <3>2. j - 1 \notin S
      BY <1>9, <1>11
    <3>3. /\ EaOffset[h][j - 1] \in Nat /\ PaSize(h, j - 1) \in Nat
          /\ EaOffset[h][(j - 1) + 1] = EaOffset[h][j - 1] + PaSize(h, j - 1)
      BY <3>1, ChunkFacts
    <3>4. ~(ea < EaOf(h, j - 1, PaSize(h, j - 1)))
      BY <3>1, <3>2 DEF ChunksPast
    <3>5. EaOf(h, j - 1, PaSize(h, j - 1)) = EaOf(h, j, 0)
      BY <1>2, <1>11, <3>1, <3>3 DEF EaOf
    <3>6. EaOf(h, j, 0) \in Nat
      BY <1>2, <1>11 DEF EaOf
    <3>. QED  BY <1>2, <3>4, <3>5, <3>6
  <2>. QED  BY <2>1, <2>2
<1> DEFINE k == ea - EaOf(h, j, 0)
<1>13. k \in Nat /\ k < PaSize(h, j) /\ ea = EaOf(h, j, k)
  BY <1>2, <1>10, <1>11, <1>12 DEF EaOf
<1>14. IsCell(h, j, k)
  BY <1>1, <1>10, <1>13 DEF IsCell
<1>. QED  BY <1>13, <1>14

(* The first pages are among the pages of the regions.                     *)
LEMMA FirstPagesAreOurs ==
  ASSUME NEW h \in Regions, NEW n \in 0..(EaEnd(h) - EaStart(h))
  PROVE  FirstPages(h, n) \subseteq OurPages
<1>1. EaStart(h)..(EaStart(h) + n - 1) \subseteq Pages(h)
  BY RegionFacts DEF Pages
<1>2. UNION {Pages(k) : k \in {k \in Regions : k < h}} \subseteq OurPages
  BY DEF OurPages
<1>3. Pages(h) \subseteq OurPages
  BY DEF OurPages
<1>. QED  BY <1>1, <1>2, <1>3 DEF FirstPages

(* MemoryMapping_EffectiveToPhysical finds the cell of an effective page.  *)
THEOREM EffectiveToPhysicalOfCell ==
  ASSUME NEW i, NEW j, NEW k, IsCell(i, j, k)
  PROVE  MemoryMapping_EffectiveToPhysical(EaOf(i, j, k)) = PaOf(i, j, k)
<1> DEFINE ea == EaOf(i, j, k)
<1>1. i \in Regions /\ j \in Chunks(i)
  BY DEF IsCell
<1>2. i \in Nat /\ j \in Nat
  BY <1>1, ChunkFacts DEF Regions
<1>3. /\ ea \in Nat /\ EaStart(i) <= ea /\ ea < EaEnd(i)
      /\ EaOf(i, j, 0) \in Nat /\ k \in Nat /\ ea = EaOf(i, j, 0) + k
      /\ ea < EaOf(i, j, PaSize(i, j))
  BY CellFacts
<1>4. EaStart(i) \in Nat /\ EaEnd(i) \in Nat /\ PaStart(i, j) \in Nat
  BY <1>1, RegionFacts, ChunkFacts
<1>5. BatEaStart \in Nat /\ BatEaEnd \in Nat
  BY MapType DEF MapType
<1>6. EaEnd(i) <= BatEaStart \/ BatEaEnd <= EaStart(i)
  BY <1>1, EffectiveDisjoint DEF EffectiveDisjoint
<1> HIDE DEF ea
<1>7. ~(BatEaStart <= ea /\ ea < BatEaEnd)
  BY <1>3, <1>4, <1>5, <1>6
<1>8. RegionsAt(ea) = {i}
  BY <1>1, <1>3, OneRegion DEF RegionsAt
<1>9. First(RegionsAt(ea)) = i
  BY <1>2, <1>8, FirstIsLeast
<1>10. ChunksPast(i, ea) \in SUBSET Nat /\ j \in ChunksPast(i, ea)
  BY <1>1, <1>3, ChunkFacts DEF ChunksPast
<1>11. ASSUME NEW m \in ChunksPast(i, ea) PROVE j <= m
  <2>1. m \in Chunks(i) /\ ea < EaOf(i, m, PaSize(i, m))
    BY DEF ChunksPast
  <2>2. m \in Nat /\ EaOf(i, m, PaSize(i, m)) \in Nat
    BY <2>1, <1>4, <1>1, ChunkFacts DEF EaOf
  <2>3. CASE m < j
    <3>1. EaOf(i, m, PaSize(i, m)) <= EaOf(i, j, 0)
      BY <1>1, <2>1, <2>3, ChunkOrder
    <3> QED
      BY <3>1, <2>1, <2>2, <1>3
  <2> QED
    BY <1>2, <2>2, <2>3
<1>12. First(ChunksPast(i, ea)) = j
  BY <1>10, <1>11, FirstIsLeast
<1>13. RegionsAt(ea) # {} /\ ChunksPast(i, ea) # {}
  BY <1>8, <1>10
<1>14. MemoryMapping_EffectiveToPhysical(ea) = (ea - EaOf(i, j, 0)) + PaStart(i, j)
  BY <1>7, <1>9, <1>12, <1>13 DEF MemoryMapping_EffectiveToPhysical
<1>15. MemoryMapping_EffectiveToPhysical(ea) = PaOf(i, j, k)
  BY <1>3, <1>4, <1>14 DEF PaOf
<1> QED
  BY <1>15 DEF ea

(* MemoryMapping_PhysicalToEffective finds the cell of a physical page.    *)
THEOREM PhysicalToEffectiveOfCell ==
  ASSUME NEW i, NEW j, NEW k, IsCell(i, j, k)
  PROVE  MemoryMapping_PhysicalToEffective(PaOf(i, j, k)) = EaOf(i, j, k)
<1> DEFINE pa == PaOf(i, j, k)
<1>1. i \in Regions /\ j \in Chunks(i)
  BY DEF IsCell
<1>2. i \in Nat /\ j \in Nat
  BY <1>1, ChunkFacts DEF Regions
<1>3. pa \in Nat /\ PaStart(i, j) <= pa /\ pa < PaEnd(i, j)
  BY CellFacts
<1>4. k \in Nat /\ pa = PaStart(i, j) + k
  BY DEF IsCell, PaOf
<1>5. PaStart(i, j) \in Nat /\ PaEnd(i, j) \in Nat
  BY <1>1, ChunkFacts
<1>6. EaStart(i) \in Nat /\ EaOffset[i][j] \in Nat
  BY <1>1, RegionFacts, ChunkFacts
<1>7. BatEaStart \in Nat /\ BatEaEnd \in Nat /\ BatPaStart \in Nat
  BY MapType DEF MapType
<1>8. \/ PaEnd(i, j) <= BatPaStart
      \/ BatPaStart + (BatEaEnd - BatEaStart) <= PaStart(i, j)
  BY <1>1, PhysicalDisjoint DEF PhysicalDisjoint
<1> HIDE DEF pa
<1>9. ~(BatPaStart <= pa /\ pa < BatPaStart + (BatEaEnd - BatEaStart))
  BY <1>3, <1>5, <1>7, <1>8
<1>10. ASSUME NEW i2 \in Regions, NEW j2 \in ChunksHolding(i2, pa)
       PROVE  i2 = i /\ j2 = j
  <2>1. j2 \in Chunks(i2) /\ PaStart(i2, j2) <= pa /\ pa < PaEnd(i2, j2)
    BY DEF ChunksHolding
  <2>2. PaStart(i2, j2) \in Nat /\ PaEnd(i2, j2) \in Nat
    BY <2>1, ChunkFacts
  <2>3. <<i2, j2>> # <<i, j>> =>
          PaEnd(i2, j2) <= PaStart(i, j) \/ PaEnd(i, j) <= PaStart(i2, j2)
    BY <1>1, <2>1, PhysicalDisjoint DEF PhysicalDisjoint
  <2>4. <<i2, j2>> = <<i, j>>
    BY <1>3, <1>5, <2>1, <2>2, <2>3
  <2> QED
    BY <2>4
<1>11. j \in ChunksHolding(i, pa)
  BY <1>1, <1>3 DEF ChunksHolding
<1>12. ChunksHolding(i, pa) = {j}
  BY <1>1, <1>10, <1>11
<1>13. RegionsHolding(pa) = {i}
  BY <1>1, <1>10, <1>11 DEF RegionsHolding
<1>14. First(RegionsHolding(pa)) = i /\ First(ChunksHolding(i, pa)) = j
  BY <1>2, <1>12, <1>13, FirstIsLeast
<1>15. MemoryMapping_PhysicalToEffective(pa)
        = (pa - PaStart(i, j)) + (EaStart(i) + EaOffset[i][j])
  BY <1>9, <1>13, <1>14 DEF MemoryMapping_PhysicalToEffective
<1>16. MemoryMapping_PhysicalToEffective(pa) = EaOf(i, j, k)
  BY <1>4, <1>5, <1>6, <1>15 DEF EaOf
<1> QED
  BY <1>16 DEF pa
=============================================================================
