-------------------------- MODULE PageReportProofs --------------------------
(***************************************************************************)
(* The report of MemoryMapping_printPageTableTranslation, on every table   *)
(* the mapping can leave.                                                  *)
(***************************************************************************)
EXTENDS PageReport, PageTableProofs

(* The pages the loops go over, all of them if no segment is skipped.      *)
PageCount == AddressPages - SegmentPages

(* A page found by the primary hash: the kernel's, or one of ours, placed. *)
LEMMA HitIsForeignOrOwn ==
  ASSUME IInv, NEW q \in EffPages, Primary(q) # NoEntry
  PROVE  /\ Primary(q).v = 1 /\ Primary(q).vsid = VSID(q) /\ Primary(q).rpn \in Nat
         /\ \/ Primary(q) \in ForeignPTEs
            \/ \E i, j, k : /\ IsCell(i, j, k) /\ q = EaOf(i, j, k)
                            /\ Primary(q).rpn = PaOf(i, j, k)
<1> DEFINE g == PTEG1[q]
           M == MatchingSlots(g, VSID(q), API[q], 0)
           s == First(M)
<1>1. g \in PTEGs
  BY PageTableType DEF PageTableType
<1>2. M # {} /\ Primary(q) = translation_table[g][s]
  BY DEF Primary, MemoryMapping_getPageEntryForAddress, MemoryMapping_getPageEntryForAddressEx
<1>3. s \in M
  <2>1. M \in SUBSET Nat
    BY PageTableType DEF MatchingSlots, Slots, PageTableType
  <2> HIDE DEF M
  <2> QED
    BY <1>2, <2>1, FirstOfNonempty
<1>4. /\ s \in Slots
      /\ translation_table[g][s].v = 1 /\ translation_table[g][s].h = 0
      /\ translation_table[g][s].vsid = VSID(q) /\ translation_table[g][s].api = API[q]
  BY <1>3 DEF MatchingSlots
<1> HIDE DEF s, M, g
<1>5. translation_table[g][s] \in PTE
  BY <1>1, <1>4 DEF IInv, TypeOK
<1>6. Primary(q).v = 1 /\ Primary(q).vsid = VSID(q) /\ Primary(q).rpn \in Nat
  BY <1>2, <1>4, <1>5 DEF PTE
<1>7. CASE translation_table[g][s] \in ForeignPTEs
  BY <1>2, <1>6, <1>7
<1>8. CASE translation_table[g][s] \notin ForeignPTEs
  <2>1. EntriesSound
    BY DEF IInv
  <2>2. PICK i \in Regions : \E j \in Chunks(i) : \E k \in 0..(PaSize(i, j) - 1) :
          \E h \in {0, 1} :
            g = CellGroup(i, j, k, h) /\ translation_table[g][s] = CellPTE(i, j, k, h)
    BY <1>1, <1>4, <1>8, <2>1 DEF EntriesSound
  <2>3. PICK j \in Chunks(i) : \E k \in 0..(PaSize(i, j) - 1) : \E h \in {0, 1} :
            g = CellGroup(i, j, k, h) /\ translation_table[g][s] = CellPTE(i, j, k, h)
    BY <2>2
  <2>4. PICK k \in 0..(PaSize(i, j) - 1), h \in {0, 1} :
            g = CellGroup(i, j, k, h) /\ translation_table[g][s] = CellPTE(i, j, k, h)
    BY <2>3
  <2>5. IsCell(i, j, k)
    BY BoundedCell
  <2>6. /\ h = 0 /\ VSID(EaOf(i, j, k)) = VSID(q) /\ API[EaOf(i, j, k)] = API[q]
        /\ translation_table[g][s].rpn = PaOf(i, j, k)
    BY <1>4, <2>4 DEF CellPTE, NewPTE
  <2>7. PTEG1[EaOf(i, j, k)] = PTEG1[q]
    BY <2>4, <2>6 DEF CellGroup, g
  <2>8. EaOf(i, j, k) \in EffPages
    BY <2>5, CellHashes DEF GroupHash
  <2>9. q = EaOf(i, j, k)
    BY <2>6, <2>7, <2>8, HashTellsPagesApart DEF HashTellsPagesApart
  <2> QED
    BY <1>2, <1>6, <2>5, <2>6, <2>9
<1> QED
  BY <1>7, <1>8

(* Where a page of ours is found, it is found at its own physical page.    *)
LEMMA OwnHit ==
  ASSUME IInv, NEW i, NEW j, NEW k, IsCell(i, j, k), Primary(EaOf(i, j, k)) # NoEntry
  PROVE  Primary(EaOf(i, j, k)).rpn = PaOf(i, j, k)
<1>1. Primary(EaOf(i, j, k)) = Search(i, j, k, 0)
  BY DEF Primary, Search, CellGroup, MemoryMapping_getPageEntryForAddress
<1>2. Search(i, j, k, 0) = CellPTE(i, j, k, 0)
  BY <1>1, SearchFindsOwn DEF GroupHash
<1> QED
  BY <1>1, <1>2, EntryIsNotNoEntry

-----------------------------------------------------------------------------
(* The loops as a recursion over the pages.                                *)

IsReading(n, f) ==
  f = [m \in 0..n |->
        IF m = 0 THEN [current |-> NoPages, pageInfos |-> {}]
        ELSE IF m - 1 \in PagesVisited THEN VisitPage(f[m - 1], m - 1)
        ELSE f[m - 1]]

(* A function that satisfies it exists: extended by one page at a time.    *)
LEMMA ReadingExists ==
  ASSUME PageCount \in Nat
  PROVE  IsReading(PageCount, Reading)
<1> DEFINE Bad == {n \in 0..PageCount : ~\E f : IsReading(n, f)}
<1>1. Bad = {}
  <2>1. SUFFICES ASSUME Bad # {} PROVE FALSE
    OBVIOUS
  <2>2. PICK n \in Bad : \A m \in Bad : n <= m
    <3>1. Bad \in SUBSET Nat
      OBVIOUS
    <3> HIDE DEF Bad
    <3> QED
      BY <3>1, <2>1, LeastExists
  <2>3. n # 0
    <3>1. IsReading(0, [m \in 0..0 |-> [current |-> NoPages, pageInfos |-> {}]])
      BY DEF IsReading
    <3> QED
      BY <3>1, <2>2
  <2>4. n \in 0..PageCount /\ n - 1 \in 0..PageCount /\ n \in Nat
    BY <2>2, <2>3
  <2>5. PICK f : IsReading(n - 1, f)
    BY <2>2, <2>4
  <2> DEFINE Body(e, m) == IF m = 0 THEN [current |-> NoPages, pageInfos |-> {}]
                           ELSE IF m - 1 \in PagesVisited THEN VisitPage(e[m - 1], m - 1)
                           ELSE e[m - 1]
             last == Body(f, n)
             g == [m \in 0..n |-> IF m = n THEN last ELSE f[m]]
  <2>6. \A m \in 0..(n - 1) : f[m] = Body(f, m)
    BY <2>5 DEF IsReading
  <2>7. ASSUME NEW m \in 0..n PROVE g[m] = Body(g, m)
    <3>1. m = 0 \/ g[m - 1] = f[m - 1]
      BY <2>4
    <3>2. Body(g, m) = Body(f, m)
      BY <3>1
    <3>3. CASE m = n
      BY <3>2, <3>3
    <3>4. CASE m # n
      <4>1. m \in 0..(n - 1) /\ g[m] = f[m]
        BY <2>4, <3>4
      <4> QED
        BY <3>2, <4>1, <2>6
    <3> QED
      BY <3>3, <3>4
  <2>8. IsReading(n, g)
    <3> HIDE DEF last
    <3> DEFINE r == [m \in 0..n |-> Body(g, m)]
    <3>1. \A m \in 0..n : g[m] = r[m]
      BY <2>7
    <3>2. g = r
      BY <3>1
    <3> QED
      BY <3>2 DEF IsReading
  <2> QED
    BY <2>2, <2>8
<1>2. \E f : IsReading(PageCount, f)
  BY <1>1
<1>3. IsReading(PageCount, CHOOSE f : IsReading(PageCount, f))
  BY <1>2
<1>4. Reading = CHOOSE f : IsReading(PageCount, f)
  BY DEF Reading, IsReading, PageCount
<1> QED
  BY <1>3, <1>4

-----------------------------------------------------------------------------
(* What holds between two rounds.                                          *)

Access(q) == SRTable[Segment(q)].access
Accesses == {0} \cup {Access(q) : q \in 0..(PageCount - 1)}
Block == [addr : Nat, size : Nat, access : Accesses, phys : Nat]
Rounds == [current : Block, pageInfos : SUBSET Block]

PagesOf(b) == b.addr..(b.addr + b.size - 1)

(* A block that says what the table does.                                  *)
BlockIsTrue(b) ==
  \A ea \in PagesOf(b) : Primary(ea) # NoEntry /\ Primary(ea).rpn = ReportedTo(ea, b)

(* The block of page 0, never saved, cannot be continued by one of ours.   *)
NotContinuedByOurs(b) ==
  \A i, j, k : IsCell(i, j, k) /\ Access(EaOf(i, j, k)) = b.access
                 => PaOf(i, j, k) # b.phys + b.size

(* After the first n pages: the open block ends there, all blocks are true,*)
(* and each page of ours found so far is in one that is or will be saved.  *)
ReadUpTo(n, acc) ==
  /\ acc \in Rounds
  /\ acc.current.addr # 0 => /\ acc.current.size # 0
                             /\ acc.current.addr + acc.current.size = n
                             /\ BlockIsTrue(acc.current)
  /\ acc.current.addr = 0 => NotContinuedByOurs(acc.current)
  /\ \A b \in acc.pageInfos : BlockIsTrue(b)
  /\ \A ea \in OurPages : ea < n /\ Primary(ea) # NoEntry =>
       \/ \E b \in acc.pageInfos : ea \in PagesOf(b)
       \/ acc.current.addr # 0 /\ ea \in PagesOf(acc.current)

(* The three ways through the loop body.                                   *)
LEMMA VisitOutcome ==
  ASSUME NEW acc \in Rounds, NEW q
  PROVE  LET new == VisitPage(acc, q)
             cur == acc.current
             kept == IF cur.addr # 0 /\ cur.size # 0
                       THEN acc.pageInfos \cup {cur} ELSE acc.pageInfos
         IN  \/ /\ Primary(q) = NoEntry
                /\ new.current = IF cur.addr # 0 /\ cur.size # 0 THEN NoPages ELSE cur
                /\ new.pageInfos = kept
                /\ new = [current |-> new.current, pageInfos |-> new.pageInfos]
             \/ /\ Primary(q) # NoEntry
                /\ cur.access = Access(q) /\ cur.phys = Primary(q).rpn - cur.size
                /\ new = [current |-> [addr |-> cur.addr, size |-> cur.size + 1,
                                       access |-> cur.access, phys |-> cur.phys],
                          pageInfos |-> acc.pageInfos]
             \/ /\ Primary(q) # NoEntry
                /\ new = [current |-> [addr |-> q, size |-> 1, access |-> Access(q),
                                       phys |-> Primary(q).rpn],
                          pageInfos |-> kept]
<1> DEFINE cur == acc.current
           open == cur.addr # 0 /\ cur.size # 0
           saved == IF open THEN [current |-> NoPages, pageInfos |-> acc.pageInfos \cup {cur}]
                            ELSE acc
<1>1. /\ acc = [current |-> cur, pageInfos |-> acc.pageInfos]
      /\ cur = [addr |-> cur.addr, size |-> cur.size, access |-> cur.access, phys |-> cur.phys]
  BY DEF Rounds, Block
<1>2. VisitPage(acc, q) =
        IF Primary(q) = NoEntry THEN saved
        ELSE IF cur.access = Access(q) /\ cur.phys = Primary(q).rpn - cur.size
          THEN [acc EXCEPT !.current.size = @ + 1]
        ELSE [saved EXCEPT !.current = [addr |-> q, size |-> 1, access |-> Access(q),
                                        phys |-> Primary(q).rpn]]
  BY DEF VisitPage, Primary, Access
<1>3. [acc EXCEPT !.current.size = @ + 1] =
        [current |-> [addr |-> cur.addr, size |-> cur.size + 1,
                      access |-> cur.access, phys |-> cur.phys],
         pageInfos |-> acc.pageInfos]
  BY <1>1
<1>4. ASSUME NEW b
      PROVE  [saved EXCEPT !.current = b] =
               [current |-> b, pageInfos |-> IF open THEN acc.pageInfos \cup {cur}
                                                     ELSE acc.pageInfos]
  BY <1>1
<1>5. /\ saved.current = IF open THEN NoPages ELSE cur
      /\ saved.pageInfos = IF open THEN acc.pageInfos \cup {cur} ELSE acc.pageInfos
      /\ saved = [current |-> saved.current, pageInfos |-> saved.pageInfos]
  BY <1>1
<1> HIDE DEF saved
<1> QED
  BY <1>2, <1>3, <1>4, <1>5

(* A page of ours never continues the block of page 0.                     *)
LEMMA NoneContinuesFirst ==
  ASSUME IInv, NEW i, NEW j, NEW k, IsCell(i, j, k), NEW b, NotContinuedByOurs(b),
         Primary(EaOf(i, j, k)) # NoEntry, b.access = Access(EaOf(i, j, k)),
         b.phys \in Nat, b.size \in Nat
  PROVE  b.phys # Primary(EaOf(i, j, k)).rpn - b.size
<1>1. Primary(EaOf(i, j, k)).rpn = PaOf(i, j, k) /\ PaOf(i, j, k) \in Nat
  BY OwnHit, CellFacts
<1>2. PaOf(i, j, k) # b.phys + b.size
  BY DEF NotContinuedByOurs
<1> QED
  BY <1>1, <1>2

(* Behind a page of the kernel there is none of ours.                      *)
LEMMA NoneBehindTheKernels ==
  ASSUME IInv, SegmentsAreRead, KernelKeepsDistance, NEW q \in 0..(PageCount - 1),
         Primary(q) # NoEntry, q \notin OurPages,
         NEW b, b.access = Access(q), b.phys + b.size = Primary(q).rpn + 1
  PROVE  NotContinuedByOurs(b)
<1>1. q \in EffPages
  BY DEF SegmentsAreRead, PageCount
<1>2. Primary(q) \in ForeignPTEs /\ Primary(q).v = 1 /\ Primary(q).vsid = VSID(q)
  BY <1>1, HitIsForeignOrOwn, CellIsOurs
<1>3. ASSUME NEW i, NEW j, NEW k, IsCell(i, j, k), Access(EaOf(i, j, k)) = b.access
      PROVE  PaOf(i, j, k) # b.phys + b.size
  <2>1. i \in Regions /\ j \in Chunks(i) /\ k \in 0..(PaSize(i, j) - 1)
    BY <1>3, CellIsBounded
  <2>2. Primary(q).rpn + 1 # PaOf(i, j, k)
    BY <1>2, <1>3, <2>1 DEF KernelKeepsDistance, Access, PageCount
  <2> QED
    BY <2>2
<1> QED
  BY <1>3 DEF NotContinuedByOurs

(* One more page.                                                          *)
LEMMA VisitReads ==
  ASSUME IInv, SegmentsAreRead, KernelKeepsDistance, 0 \notin OurPages,
         NEW n \in 0..(PageCount - 1), PageCount \in Nat,
         NEW acc, ReadUpTo(n, acc)
  PROVE  ReadUpTo(n + 1, VisitPage(acc, n))
<1> DEFINE new == VisitPage(acc, n)
           cur == acc.current
           open == cur.addr # 0 /\ cur.size # 0
           kept == IF open THEN acc.pageInfos \cup {cur} ELSE acc.pageInfos
<1>1. /\ acc \in Rounds /\ cur \in Block /\ acc.pageInfos \in SUBSET Block /\ n \in Nat
      /\ cur.addr \in Nat /\ cur.size \in Nat /\ cur.phys \in Nat /\ cur.access \in Accesses
  BY DEF ReadUpTo, Rounds, Block
<1>2. cur.addr # 0 => cur.size # 0 /\ cur.addr + cur.size = n /\ BlockIsTrue(cur)
  BY DEF ReadUpTo
<1>3. cur.addr = 0 => NotContinuedByOurs(cur)
  BY DEF ReadUpTo
<1>4. \A b \in acc.pageInfos : BlockIsTrue(b)
  BY DEF ReadUpTo
<1>5. ASSUME NEW ea \in OurPages, ea < n, Primary(ea) # NoEntry
      PROVE  \/ \E b \in acc.pageInfos : ea \in PagesOf(b)
             \/ cur.addr # 0 /\ ea \in PagesOf(cur)
  BY <1>5 DEF ReadUpTo
<1>6. n \in EffPages /\ Access(n) \in Accesses
  BY DEF SegmentsAreRead, Accesses, PageCount
<1>7. Primary(n) # NoEntry => Primary(n).rpn \in Nat
  BY <1>6, HitIsForeignOrOwn
<1>8. /\ kept \in SUBSET Block
      /\ \A b \in kept : BlockIsTrue(b)
      /\ \A ea \in OurPages : ea < n /\ Primary(ea) # NoEntry =>
           \/ \E b \in kept : ea \in PagesOf(b)
           \/ ~open /\ cur.addr # 0 /\ ea \in PagesOf(cur)
  BY <1>1, <1>2, <1>4, <1>5
<1>9. \A ea \in OurPages : ea < n + 1 => ea < n \/ ea = n
  <2>1. ASSUME NEW ea \in OurPages PROVE ea \in Nat
    <3>1. PICK i, j, k : IsCell(i, j, k) /\ ea = EaOf(i, j, k)
      BY OurPageIsCell
    <3> QED
      BY <3>1, CellFacts
  <2> QED
    BY <1>1, <2>1
<1>10. NoPages \in Block /\ NotContinuedByOurs(NoPages)
  <2>1. NoPages \in Block
    BY DEF NoPages, Block, Accesses
  <2>2. ASSUME NEW i, NEW j, NEW k, IsCell(i, j, k) PROVE PaOf(i, j, k) # 0
    <3>1. i \in Regions /\ j \in Chunks(i) /\ k \in Nat
      BY <2>2 DEF IsCell
    <3> QED
      BY <3>1, ChunkFacts DEF PaOf
  <2> QED
    BY <2>1, <2>2 DEF NotContinuedByOurs, NoPages
<1> HIDE DEF kept
<1>11. CASE /\ Primary(n) = NoEntry
            /\ new.current = IF open THEN NoPages ELSE cur
            /\ new.pageInfos = kept
            /\ new = [current |-> new.current, pageInfos |-> new.pageInfos]
  <2>1. new \in Rounds
    BY <1>1, <1>8, <1>10, <1>11 DEF Rounds
  <2>2. new.current.addr = 0 /\ NotContinuedByOurs(new.current)
    BY <1>2, <1>3, <1>10, <1>11 DEF NoPages
  <2>3. ~open => cur.addr = 0
    BY <1>2
  <2>4. ASSUME NEW ea \in OurPages, ea < n + 1, Primary(ea) # NoEntry
        PROVE  \E b \in new.pageInfos : ea \in PagesOf(b)
    <3>1. ea < n
      BY <1>9, <1>11, <2>4
    <3> QED
      BY <1>8, <1>11, <2>3, <2>4, <3>1
  <2> HIDE DEF new
  <2> QED
    BY <1>8, <1>11, <2>1, <2>2, <2>4 DEF ReadUpTo, new
<1>12. CASE /\ Primary(n) # NoEntry
            /\ cur.access = Access(n) /\ cur.phys = Primary(n).rpn - cur.size
            /\ new = [current |-> [addr |-> cur.addr, size |-> cur.size + 1,
                                   access |-> cur.access, phys |-> cur.phys],
                      pageInfos |-> acc.pageInfos]
  <2> DEFINE b1 == [addr |-> cur.addr, size |-> cur.size + 1,
                    access |-> cur.access, phys |-> cur.phys]
  <2>1. new.current = b1 /\ new.pageInfos = acc.pageInfos /\ new \in Rounds
    BY <1>1, <1>12 DEF Rounds, Block
  <2>2. CASE cur.addr # 0
    <3>1. b1.addr + b1.size = n + 1 /\ b1.size # 0
      BY <1>1, <1>2, <2>2
    <3>2. BlockIsTrue(b1)
      <4> SUFFICES ASSUME NEW ea \in PagesOf(b1)
                   PROVE  Primary(ea) # NoEntry /\ Primary(ea).rpn = ReportedTo(ea, b1)
        BY DEF BlockIsTrue
      <4>1. ea \in Nat /\ (ea \in PagesOf(cur) \/ ea = n)
        BY <1>1, <1>2, <2>2 DEF PagesOf
      <4>2. ReportedTo(ea, b1) = ReportedTo(ea, cur)
        BY DEF ReportedTo
      <4>3. CASE ea \in PagesOf(cur)
        BY <1>2, <2>2, <4>2, <4>3 DEF BlockIsTrue
      <4>4. CASE ea = n
        <5>1. ReportedTo(n, cur) = cur.phys + cur.size
          BY <1>1, <1>2, <2>2 DEF ReportedTo
        <5> QED
          BY <1>1, <1>7, <1>12, <4>2, <4>4, <5>1
      <4> QED
        BY <4>1, <4>3, <4>4
    <3>3. PagesOf(cur) \subseteq PagesOf(b1) /\ n \in PagesOf(b1)
      BY <1>1, <1>2, <2>2 DEF PagesOf
    <3>4. ASSUME NEW ea \in OurPages, ea < n + 1, Primary(ea) # NoEntry
          PROVE  (\E b \in acc.pageInfos : ea \in PagesOf(b)) \/ ea \in PagesOf(b1)
      BY <1>5, <1>9, <3>3, <3>4
    <3>5. b1.addr # 0
      BY <2>2
    <3> HIDE DEF new, b1
    <3> QED
      BY <1>4, <2>1, <3>1, <3>2, <3>4, <3>5 DEF ReadUpTo, new
  <2>3. CASE cur.addr = 0
    <3>1. n \notin OurPages
      <4> SUFFICES ASSUME n \in OurPages PROVE FALSE
        OBVIOUS
      <4>1. PICK i, j, k : IsCell(i, j, k) /\ n = EaOf(i, j, k)
        BY OurPageIsCell
      <4> QED
        BY <1>1, <1>3, <1>12, <2>3, <4>1, NoneContinuesFirst
    <3>2. NotContinuedByOurs(b1)
      <4>1. b1.phys + b1.size = Primary(n).rpn + 1 /\ b1.access = Access(n)
        BY <1>1, <1>7, <1>12
      <4> HIDE DEF b1
      <4> QED
        BY <1>12, <3>1, <4>1, NoneBehindTheKernels
    <3>3. ASSUME NEW ea \in OurPages, ea < n + 1, Primary(ea) # NoEntry
          PROVE  \E b \in acc.pageInfos : ea \in PagesOf(b)
      BY <1>5, <1>9, <2>3, <3>1, <3>3
    <3>4. b1.addr = 0
      BY <2>3
    <3> HIDE DEF new, b1
    <3> QED
      BY <1>4, <2>1, <3>2, <3>3, <3>4 DEF ReadUpTo, new
  <2> QED
    BY <2>2, <2>3
<1>13. CASE /\ Primary(n) # NoEntry
            /\ new = [current |-> [addr |-> n, size |-> 1, access |-> Access(n),
                                   phys |-> Primary(n).rpn],
                      pageInfos |-> kept]
  <2> DEFINE b1 == [addr |-> n, size |-> 1, access |-> Access(n), phys |-> Primary(n).rpn]
  <2>1. new.current = b1 /\ new.pageInfos = kept /\ new \in Rounds
    BY <1>1, <1>6, <1>7, <1>8, <1>13 DEF Rounds, Block
  <2>2. n # 0 => b1.size # 0 /\ b1.addr + b1.size = n + 1
    OBVIOUS
  <2>3. PagesOf(b1) = {n}
    BY <1>1 DEF PagesOf
  <2>4. BlockIsTrue(b1)
    BY <1>1, <1>7, <1>13, <2>3 DEF BlockIsTrue, ReportedTo
  <2>5. n = 0 => NotContinuedByOurs(b1)
    <3>1. b1.phys + b1.size = Primary(n).rpn + 1 /\ b1.access = Access(n)
      BY <1>7, <1>13
    <3> HIDE DEF b1
    <3> QED
      BY <1>13, <3>1, NoneBehindTheKernels
  <2>6. ASSUME NEW ea \in OurPages, ea < n + 1, Primary(ea) # NoEntry
        PROVE  (\E b \in kept : ea \in PagesOf(b)) \/ (n # 0 /\ ea \in PagesOf(b1))
    <3>1. CASE ea < n
      BY <1>2, <1>8, <2>6, <3>1
    <3>2. CASE ea = n
      BY <2>3, <2>6, <3>2
    <3> QED
      BY <1>9, <2>6, <3>1, <3>2
  <2>7. b1.addr = n
    OBVIOUS
  <2> HIDE DEF new, b1
  <2> QED
    BY <1>8, <2>1, <2>2, <2>4, <2>5, <2>6, <2>7 DEF ReadUpTo, new
<1> QED
  BY <1>1, <1>11, <1>12, <1>13, VisitOutcome DEF kept

(* So the loops have read every page they went over.                       *)
LEMMA ReadingReads ==
  ASSUME IInv, SegmentsAreRead, KernelKeepsDistance, 0 \notin OurPages, PageCount \in Nat
  PROVE  ReadUpTo(PageCount, Reading[PageCount])
<1> DEFINE Bad == {n \in 0..PageCount : ~ReadUpTo(n, Reading[n])}
<1>1. /\ Reading[0] = [current |-> NoPages, pageInfos |-> {}]
      /\ \A m \in 1..PageCount : m - 1 \in PagesVisited =>
           Reading[m] = VisitPage(Reading[m - 1], m - 1)
  <2>1. PICK f : f = Reading
    OBVIOUS
  <2>2. IsReading(PageCount, f)
    BY <2>1, ReadingExists
  <2>3. ASSUME NEW m \in 0..PageCount
        PROVE  f[m] = IF m = 0 THEN [current |-> NoPages, pageInfos |-> {}]
                      ELSE IF m - 1 \in PagesVisited THEN VisitPage(f[m - 1], m - 1)
                      ELSE f[m - 1]
    BY <2>2 DEF IsReading
  <2>4. f[0] = [current |-> NoPages, pageInfos |-> {}]
    BY <2>3
  <2>5. ASSUME NEW m \in 1..PageCount, m - 1 \in PagesVisited
        PROVE  f[m] = VisitPage(f[m - 1], m - 1)
    <3>1. m \in 0..PageCount /\ m # 0
      OBVIOUS
    <3> QED
      BY <2>3, <2>5, <3>1
  <2> QED
    BY <2>1, <2>4, <2>5
<1>2. ReadUpTo(0, Reading[0])
  <2>1. Reading[0] = [current |-> NoPages, pageInfos |-> {}]
    BY <1>1
  <2>2. Reading[0] \in Rounds
    BY <2>1 DEF Rounds, Block, NoPages, Accesses
  <2>3. NotContinuedByOurs(NoPages)
    <3>1. ASSUME NEW i, NEW j, NEW k, IsCell(i, j, k) PROVE PaOf(i, j, k) # 0
      BY <3>1, ChunkFacts DEF PaOf, IsCell
    <3> QED
      BY <3>1 DEF NotContinuedByOurs, NoPages
  <2>4. \A ea \in OurPages : ~(ea < 0)
    BY RegionFacts DEF OurPages, Pages
  <2>5. NoPages.addr = 0
    BY DEF NoPages
  <2> QED
    BY <2>1, <2>2, <2>3, <2>4, <2>5 DEF ReadUpTo
<1>3. Bad = {}
  <2> SUFFICES ASSUME Bad # {} PROVE FALSE
    OBVIOUS
  <2>1. PICK n \in Bad : \A m \in Bad : n <= m
    <3>1. Bad \in SUBSET Nat
      OBVIOUS
    <3> HIDE DEF Bad
    <3> QED
      BY <3>1, LeastExists
  <2>2. n \in 1..PageCount /\ n - 1 \in 0..(PageCount - 1) /\ n - 1 \in 0..PageCount
    BY <1>2, <2>1
  <2>3. ReadUpTo(n - 1, Reading[n - 1])
    BY <2>1, <2>2
  <2>4. n - 1 \in PagesVisited
    BY <2>2 DEF SegmentsAreRead, PagesVisited, PageCount
  <2>5. Reading[n] = VisitPage(Reading[n - 1], n - 1)
    BY <1>1, <2>2, <2>4
  <2>6. ReadUpTo((n - 1) + 1, Reading[n])
    BY <2>2, <2>3, <2>5, VisitReads
  <2>7. (n - 1) + 1 = n
    BY <2>2
  <2> QED
    BY <2>1, <2>6, <2>7
<1> QED
  BY <1>3

-----------------------------------------------------------------------------
(* The theorem.                                                            *)

(* The page behind the regions is not found: it is in their segment.       *)
LEMMA GapIsNotFound ==
  ASSUME IInv, NEW gap \in EffPages, gap \notin OurPages,
         NEW ea \in OurPages, VSID(ea) = VSID(gap)
  PROVE  Primary(gap) = NoEntry
<1> SUFFICES ASSUME Primary(gap) # NoEntry PROVE FALSE
  OBVIOUS
<1>1. Primary(gap) \in ForeignPTEs /\ Primary(gap).v = 1 /\ Primary(gap).vsid = VSID(ea)
  BY HitIsForeignOrOwn, CellIsOurs
<1>2. PICK i \in Regions : ea \in EaStart(i)..(EaEnd(i) - 1)
  BY DEF OurPages, Pages
<1> QED
  BY <1>1, <1>2, UniqueSegmentId DEF UniqueSegmentId

LEMMA ReadingIsRight ==
  ASSUME IInv, SegmentsAreRead, RegionsAreEnclosed, KernelKeepsDistance
  PROVE  ReportIsRight
<1> DEFINE end == Reading[PageCount]
           report == MemoryMapping_printPageTableTranslation
           cur == end.current
<1>1. PICK gap \in 0..(PageCount - 1) :
        /\ \A i \in Regions : EaEnd(i) <= gap
        /\ \E ea \in OurPages : VSID(ea) = VSID(gap)
  BY DEF RegionsAreEnclosed, PageCount
<1>2. PageCount \in Nat /\ 0 \notin OurPages
  <2>1. PageCount \in Int
    BY OwnSegmentIsMapped, PageTableType DEF OwnSegmentIsMapped, PageTableType, PageCount
  <2> QED
    BY <1>1, <2>1 DEF RegionsAreEnclosed
<1>3. ReadUpTo(PageCount, end) /\ report = end.pageInfos
  BY <1>2, ReadingReads DEF MemoryMapping_printPageTableTranslation, PageCount
<1> HIDE DEF end, report
<1>4. ASSUME NEW r \in Regions, NEW ea \in Pages(r)
      PROVE  ea \in OurPages /\ ea \in Nat /\ ea < gap
  BY <1>1, <1>2, <1>4, RegionFacts DEF OurPages, Pages
<1>5. Primary(gap) = NoEntry
  <2>1. gap \notin OurPages
    BY <1>2, <1>4 DEF OurPages
  <2>2. gap \in EffPages
    BY DEF SegmentsAreRead, PageCount
  <2> QED
    BY <1>1, <2>1, <2>2, GapIsNotFound
<1>6. ASSUME NEW r \in Regions, NEW ea \in Pages(r), Primary(ea) # NoEntry
      PROVE  \E b \in report : ea \in PagesOf(b)
  <2> SUFFICES ASSUME cur.addr # 0, ea \in PagesOf(cur) PROVE FALSE
    <3>1. ea \in OurPages /\ ea < PageCount
      BY <1>2, <1>4
    <3> QED
      BY <1>3, <1>6, <3>1 DEF ReadUpTo
  <2>1. /\ cur.addr \in Nat /\ cur.size \in Nat /\ cur.addr + cur.size = PageCount
        /\ BlockIsTrue(cur)
    BY <1>3 DEF ReadUpTo, Rounds, Block
  <2>2. gap \in PagesOf(cur)
    BY <1>2, <1>4, <2>1 DEF PagesOf
  <2> QED
    BY <1>5, <2>1, <2>2 DEF BlockIsTrue
<1>7. \A b \in report : BlockIsTrue(b)
  BY <1>3 DEF ReadUpTo
<1> QED
  BY <1>6, <1>7 DEF ReportIsRight, report, BlockIsTrue, PagesOf, Primary, Pages

(* Under the hypotheses that module PageReport states of the segment       *)
(* registers and of the kernel's entries, what the code reports of the     *)
(* table is right at every moment of the mapping: each page of each block  *)
(* is in the table at the address given, and each page of ours that the    *)
(* primary hash finds is in a block.                                       *)
THEOREM ReportHolds ==
  ASSUME SegmentsAreRead, RegionsAreEnclosed, KernelKeepsDistance
  PROVE  Spec => []ReportIsRight
<1>1. IInv => ReportIsRight
  BY ReadingIsRight
<1> QED
  BY <1>1, IInvHolds, PTL
=============================================================================
