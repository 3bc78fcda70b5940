-------------------------- MODULE HeapCheckProofs ---------------------------
(***************************************************************************)
(* CheckMemExpHeap, for every heap, every memory it is run on and          *)
(* everything the owner of its lock may do to it: it never accepts a block *)
(* twice, its verdict is the one HeapShape gives without a walk, and it    *)
(* never calls a heap corrupt that is intact whenever its lock is free.    *)
(***************************************************************************)
EXTENDS HeapShape, FiniteSetTheorems, SequenceTheorems, WellFoundedInduction, TLAPS

(* Numbers: a set of them has a least one, and a sum may be reduced modulo  *)
(* 2^32 at any point of it, as the code does.                               *)

(* Every nonempty set of natural numbers has a least member.               *)
LEMMA LeastExists ==
  ASSUME NEW S \in SUBSET Nat, S # {}
  PROVE  \E n \in S : \A m \in S : n <= m
<1>1. PICK n \in S : \A m \in S : ~(<<m, n>> \in OpToRel(<, Nat))
  BY WFMin, NatLessThanWellFounded
<1>2. \A m \in S : ~(m < n)
  BY <1>1 DEF OpToRel
<1> QED
  BY <1>2


(* Division with remainder.                                                *)
LEMMA ModDivision ==
  ASSUME NEW a \in Nat, NEW w \in Nat \ {0}
  PROVE  \E q \in Nat : a = w * q + (a % w) /\ a % w \in 0..(w - 1)
<1>1. a \div w \in Nat
  BY Z3
<1>2. a = w * (a \div w) + (a % w)
  BY Z3
<1>3. a % w \in 0..(w - 1)
  BY Z3
<1>4. QED
  BY <1>1, <1>2, <1>3

(* The remainder of a division is unique.                                  *)
LEMMA ModUnique ==
  ASSUME NEW w \in Nat \ {0}, NEW q \in Nat, NEW p \in Nat, NEW r \in 0..(w - 1), NEW t \in 0..(w - 1),
         w * q + r = w * p + t
  PROVE  r = t
<1>0. ASSUME NEW n \in Nat, NEW m \in Nat, n < m PROVE w * m >= w * n + w
  <2>1. PICK d \in Nat : m = n + 1 + d
    <3>1. m - n - 1 \in Nat /\ m = n + 1 + (m - n - 1)
      BY <1>0
    <3> QED BY <3>1
  <2>2. w * m = w * n + w + w * d
    BY <2>1
  <2>3. w * d \in Nat /\ w * n \in Nat /\ w * m \in Nat
    OBVIOUS
  <2> QED BY <2>2, <2>3
<1> DEFINE x == w * q
           y == w * p
<1>2. x \in Nat /\ y \in Nat
  OBVIOUS
<1>3. q < p => y >= x + w
  BY <1>0
<1>4. p < q => x >= y + w
  BY <1>0
<1>5. q = p => x = y
  OBVIOUS
<1>6. x + r = y + t
  OBVIOUS
<1> HIDE DEF x, y
<1> QED
  BY <1>2, <1>3, <1>4, <1>5, <1>6

(* A sum reduced on the way is the sum reduced at the end.                 *)
LEMMA ModAdd ==
  ASSUME NEW a \in Nat, NEW b \in Nat, NEW w \in Nat \ {0}
  PROVE  ((a % w) + b) % w = (a + b) % w
<1>1. PICK q \in Nat : a = w * q + (a % w) /\ a % w \in 0..(w - 1)
  BY ModDivision
<1> DEFINE c == a % w
<1>2. c \in Nat
  BY <1>1
<1> HIDE DEF c
<1> DEFINE cb == c + b
           ab == a + b
<1>8. cb \in Nat /\ ab \in Nat
  BY <1>2
<1> HIDE DEF cb, ab
<1>3. PICK p \in Nat : cb = w * p + (cb % w) /\ cb % w \in 0..(w - 1)
  BY <1>8, ModDivision
<1>4. PICK t \in Nat : ab = w * t + (ab % w) /\ ab % w \in 0..(w - 1)
  BY <1>8, ModDivision
<1> DEFINE x == cb % w
           y == ab % w
<1>5. x \in 0..(w - 1) /\ y \in 0..(w - 1) /\ a = w * q + c /\ c + b = w * p + x /\ a + b = w * t + y
  BY <1>1, <1>3, <1>4 DEF c, cb, ab
<1> HIDE DEF x, y
<1>6. w * (q + p) + x = w * t + y
  <2>1. w * (q + p) = w * q + w * p
    OBVIOUS
  <2>2. w * q \in Nat /\ w * p \in Nat /\ w * t \in Nat
    OBVIOUS
  <2> DEFINE wq == w * q
             wp == w * p
             wt == w * t
  <2>3. wq \in Nat /\ wp \in Nat /\ a = wq + c /\ c + b = wp + x /\ a + b = wt + y
    BY <1>5, <2>2
  <2> HIDE DEF wq, wp, wt
  <2>4. (wq + wp) + x = wt + y
    BY <2>3, <1>5, <1>2
  <2> QED
    BY <2>1, <2>4 DEF wq, wp, wt
<1>7. x = y
  <2>1. q + p \in Nat
    OBVIOUS
  <2> QED
    BY <1>5, <1>6, <2>1, ModUnique
<1> QED
  BY <1>7 DEF x, y, c, cb, ab

(* What is reduced modulo 2^32 is a word.                                  *)
LEMMA WordFacts ==
  /\ Word \in Nat \ {0} /\ 0 \in 0..(Word - 1)
  /\ \A n \in Nat : n % Word \in 0..(Word - 1)
<1>1. Word \in Nat \ {0}
  BY HeapAssumption
<1>2. \A n \in Nat : n % Word \in 0..(Word - 1)
  BY <1>1, ModDivision
<1>3. QED
  BY <1>1, <1>2


-----------------------------------------------------------------------------
(* Types.                                                                  *)

(* What a block adds to the total is a natural number ...                  *)
SizeOf(h, b) == h.block[b].blockSize + h.block[b].padding + HeaderSize

(* ... whatever the memory holds.                                          *)
LEMMA SizeIsNat ==
  ASSUME NEW h \in MEMExpHeap, NEW b \in Blocks
  PROVE  /\ SizeOf(h, b) \in Nat
         /\ h.block[b].blockSize \in Nat /\ h.block[b].padding \in Nat /\ HeaderSize \in Nat
BY HeapAssumption DEF SizeOf, MEMExpHeap, MEMExpHeapBlock


(* Whatever the memory holds at the place of a pointer is a pointer.       *)
LEMMA MemoryFacts ==
  ASSUME NEW h \in MEMExpHeap
  PROVE  /\ \A l \in Lists : h.head[l] \in Pointers /\ h.tail[l] \in Pointers
         /\ \A b \in Blocks : h.block[b].next \in Pointers /\ h.block[b].prev \in Pointers
BY DEF MEMExpHeap, MEMExpHeapBlock

(* The total a block adds to is a word.                                    *)
LEMMA NewTotalIsWord ==
  ASSUME heap \in MEMExpHeap, totalSize \in 0..(Word - 1), NEW b \in Blocks
  PROVE  NewTotal(b) \in 0..(Word - 1)
<1>1. SizeWithHeader(b) = SizeOf(heap, b)
  BY DEF SizeWithHeader, SizeOf
<1>2. SizeWithHeader(b) \in Nat
  BY <1>1, SizeIsNat
<1>3. totalSize + SizeWithHeader(b) \in Nat
  BY <1>2, WordFacts
<1>4. QED
  BY <1>3, WordFacts DEF NewTotal

(* Every step keeps the types.                                             *)
LEMMA StepKeepsTypeOK ==
  ASSUME TypeOK, [Next]_vars
  PROVE  TypeOK'
<1> USE DEF TypeOK
<1>1. CASE RejectTag
  BY <1>1 DEF RejectTag, walk_vars
<1>2. CASE AcquireLock
  <2>1. heap.head["used"] \in Pointers
    BY MemoryFacts DEF Lists
  <2>2. QED
    BY <1>2, <2>1, WordFacts DEF AcquireLock, BeginList, Lists
<1>3. CASE VisitBlock
  <2>1. cur \in Blocks /\ heap.block[cur].next \in Pointers /\ NewTotal(cur) \in 0..(Word - 1)
    BY <1>3, MemoryFacts, NewTotalIsWord DEF VisitBlock
  <2>2. QED
    BY <1>3, <2>1 DEF VisitBlock
<1>4. CASE Reject
  BY <1>4 DEF Reject, Return, walk_vars
<1>5. CASE FaultOutside
  BY <1>5 DEF FaultOutside, walk_vars
<1>6. CASE NextList
  <2>1. heap.head["free"] \in Pointers
    BY MemoryFacts DEF Lists
  <2>2. QED
    BY <1>6, <2>1 DEF NextList, BeginList, Lists
<1>7. CASE CompareTotal
  BY <1>7 DEF CompareTotal, Return, walk_vars
<1>8. CASE ReleaseLock
  BY <1>8 DEF ReleaseLock, walk_vars
<1>9. CASE Mutate
  BY <1>9, UsersAssumption DEF Mutate, walk_vars
<1>10. CASE Mend
  BY <1>10, UsersAssumption DEF Mend, walk_vars
<1>11. CASE UNCHANGED vars
  BY <1>11 DEF vars
<1>12. QED
  BY <1>1, <1>2, <1>3, <1>4, <1>5, <1>6, <1>7, <1>8, <1>9, <1>10, <1>11
  DEF Next, CheckMemExpHeap

(* The variables of CheckMemExpHeap have their types in every reachable    *)
(* state: the total stays a word of 32 bits, the pointers lead to blocks,  *)
(* elsewhere or nowhere.                                                   *)
THEOREM TypesHold == Spec => []TypeOK
<1>1. Init => TypeOK
  BY UsersAssumption, WordFacts DEF Init, InitWith, TypeOK, Pointers, Lists
<1>2. TypeOK /\ [Next]_vars => TypeOK'
  BY StepKeepsTypeOK
<1>3. QED
  BY <1>1, <1>2, PTL DEF Spec


-----------------------------------------------------------------------------
(* No block is accepted twice.                                             *)

(* 0 is no address of a block.                                             *)
LEMMA NullIsNoBlock == null \notin Blocks
BY HeapAssumption DEF null

(* The blocks accepted so far exclude the one about to be accepted: if it  *)
(* was among them, its prev, which is the last accepted one, would be a    *)
(* prev that none of them has.                                             *)
LEMMA WalkExcludesCycles ==
  ASSUME WalkInv, pc = "walk", PrevFits(cur)
  PROVE  cur \notin visited
BY DEF WalkInv, WalkedSoFar, PrevFits

(* Accepting a block keeps what is known of the accepted ones.             *)
LEMMA VisitKeepsWalk ==
  ASSUME WalkInv, VisitBlock
  PROVE  WalkedSoFar'
<1>1. cur \in Blocks /\ cur \notin visited /\ cur # null
  BY WalkExcludesCycles, NullIsNoBlock DEF VisitBlock, BlockAccepted
<1>2. /\ visited' = visited \cup {cur} /\ prevBlock' = cur
      /\ heap' = heap /\ heap.block[cur].prev = prevBlock /\ pc = "walk"
  BY DEF VisitBlock, BlockAccepted, PrevFits
<1>3. visited \subseteq Blocks /\ prevBlock \in visited \cup {null}
  BY <1>2 DEF WalkInv, WalkedSoFar
<1>4. ASSUME NEW b \in visited'
      PROVE  heap'.block[b].prev \in (visited' \cup {null}) \ {prevBlock'}
  <2>1. CASE b = cur
    BY <2>1, <1>1, <1>2, <1>3
  <2>2. CASE b \in visited
    <3>1. heap.block[b].prev \in visited \cup {null}
      BY <2>2, <1>2 DEF WalkInv, WalkedSoFar
    <3>2. QED
      BY <3>1, <1>1, <1>2
  <2>3. QED
    BY <2>1, <2>2, <1>2
<1>5. QED
  BY <1>1, <1>2, <1>3, <1>4 DEF WalkedSoFar

(* Every step keeps WalkInv: a walk begins with nothing accepted, goes on  *)
(* as above, and no other thread writes the heap before it has ended.      *)
LEMMA StepKeepsWalkInv ==
  ASSUME WalkInv, [Next]_vars
  PROVE  WalkInv'
<1> USE DEF WalkInv, LockOwned
<1>1. CASE RejectTag
  BY <1>1 DEF RejectTag, walk_vars, WalkedSoFar
<1>2. CASE AcquireLock
  BY <1>2 DEF AcquireLock, BeginList, WalkedSoFar
<1>3. CASE VisitBlock
  BY <1>3, VisitKeepsWalk DEF VisitBlock
<1>4. CASE Reject \/ CompareTotal
  BY <1>4 DEF Reject, CompareTotal, Return, walk_vars, WalkedSoFar
<1>5. CASE FaultOutside
  BY <1>5 DEF FaultOutside, walk_vars, WalkedSoFar
<1>6. CASE NextList
  BY <1>6 DEF NextList, BeginList, WalkedSoFar
<1>7. CASE ReleaseLock
  BY <1>7 DEF ReleaseLock, walk_vars, WalkedSoFar
<1>8. CASE Mutate
  BY <1>8 DEF Mutate, walk_vars, WalkedSoFar
<1>9. CASE Mend
  BY <1>9 DEF Mend, walk_vars, WalkedSoFar
<1>10. CASE UNCHANGED vars
  BY <1>10 DEF vars, WalkedSoFar
<1>11. QED
  BY <1>1, <1>2, <1>3, <1>4, <1>5, <1>6, <1>7, <1>8, <1>9, <1>10
  DEF Next, CheckMemExpHeap

(* In every reachable state the walk owns the lock and its accepted blocks *)
(* are chained by their prev.                                              *)
THEOREM WalkInvHolds == Spec => []WalkInv
<1>1. Init => WalkInv
  BY DEF Init, InitWith, WalkInv, LockOwned, WalkedSoFar
<1>2. WalkInv /\ [Next]_vars => WalkInv'
  BY StepKeepsWalkInv
<1>3. QED
  BY <1>1, <1>2, PTL DEF Spec

(* No block is accepted twice: a cycle in the lists cannot hold the loop of *)
(* CheckMemExpHeapBlock.                                                    *)
THEOREM NeverAcceptedTwice == Spec => []NoBlockAcceptedTwice
<1>1. WalkInv => NoBlockAcceptedTwice
  BY WalkExcludesCycles DEF NoBlockAcceptedTwice, BlockAccepted
<1>2. QED
  BY <1>1, WalkInvHolds, PTL

-----------------------------------------------------------------------------
(* Chains and their totals.                                                *)

(* The blocks lie within the data area of the heap.                        *)
LEMMA BlocksFinite == IsFiniteSet(Blocks)
<1>1. IsFiniteSet(dataStart..dataEnd)
  BY FS_Interval, HeapAssumption
<1>2. QED
  BY <1>1, FS_Subset, HeapAssumption

(* A chain is a sequence of blocks without repetition ...                  *)
LEMMA ChainIsSeq ==
  ASSUME NEW s \in Chains
  PROVE  s \in Seq(Blocks) /\ Len(s) \in Nat /\ DOMAIN s = 1..Len(s) /\ IsInjective(s)
<1>1. PICK k \in 0..Cardinality(Blocks) : s \in [1..k -> Blocks] /\ IsInjective(s)
  BY DEF Chains
<1>2. k \in Nat
  OBVIOUS
<1>3. s \in Seq(Blocks)
  BY <1>1, <1>2
<1>4. QED
  BY <1>1, <1>3, LenProperties

(* ... and every such sequence is one.                                     *)
LEMMA SeqIsChain ==
  ASSUME NEW s \in Seq(Blocks), IsInjective(s)
  PROVE  s \in Chains
<1>1. Len(s) \in Nat /\ s \in [1..Len(s) -> Blocks]
  BY LenProperties
<1>2. s \in Injection(1..Len(s), Blocks)
  BY <1>1 DEF Injection
<1>3. Cardinality(1..Len(s)) <= Cardinality(Blocks)
  BY <1>2, BlocksFinite, FS_Injection
<1>4. Cardinality(1..Len(s)) = Len(s)
  BY <1>1, FS_Interval
<1>5. Cardinality(Blocks) \in Nat
  BY BlocksFinite, FS_CardinalityType
<1>6. Len(s) \in 0..Cardinality(Blocks)
  BY <1>1, <1>3, <1>4, <1>5
<1>7. QED
  BY <1>1, <1>6 DEF Chains

(* The empty chain ...                                                     *)
LEMMA EmptyIsChain == <<>> \in Chains /\ Range(<<>>) = {}
<1>1. <<>> \in Seq(Blocks) /\ Len(<<>>) = 0
  BY EmptySeq
<1>2. DOMAIN <<>> = {}
  BY <1>1, LenProperties
<1>3. QED
  BY <1>1, <1>2, SeqIsChain DEF IsInjective, Range

(* ... and the one with a further block at its end.                        *)
LEMMA AppendIsChain ==
  ASSUME NEW s \in Chains, NEW b \in Blocks, b \notin Range(s)
  PROVE  /\ Append(s, b) \in Chains
         /\ Len(Append(s, b)) = Len(s) + 1
         /\ Append(s, b)[Len(s) + 1] = b
         /\ \A k \in 1..Len(s) : Append(s, b)[k] = s[k]
         /\ Range(Append(s, b)) = Range(s) \cup {b}
<1> DEFINE t == Append(s, b)
<1>1. s \in Seq(Blocks) /\ Len(s) \in Nat /\ DOMAIN s = 1..Len(s) /\ IsInjective(s)
  BY ChainIsSeq
<1>2. t \in Seq(Blocks) /\ Len(t) = Len(s) + 1 /\ t[Len(s) + 1] = b
  BY <1>1
<1>3. \A k \in 1..Len(s) : t[k] = s[k]
  BY <1>1
<1>4. DOMAIN t = 1..(Len(s) + 1)
  BY <1>2, LenProperties
<1>5. \A k \in 1..Len(s) : t[k] \in Range(s)
  BY <1>1, <1>3 DEF Range
<1>6. IsInjective(t)
  <2>1. ASSUME NEW i \in DOMAIN t, NEW j \in DOMAIN t, t[i] = t[j]
        PROVE  i = j
    <3>1. i \in 1..Len(s) \/ i = Len(s) + 1
      BY <1>1, <1>4
    <3>2. j \in 1..Len(s) \/ j = Len(s) + 1
      BY <1>1, <1>4
    <3>3. CASE i \in 1..Len(s) /\ j \in 1..Len(s)
      BY <3>3, <1>1, <1>3, <2>1 DEF IsInjective
    <3>4. QED
      BY <3>1, <3>2, <3>3, <1>2, <1>5, <2>1
  <2>2. QED
    BY <2>1 DEF IsInjective
<1>7. Range(t) = Range(s) \cup {b}
  BY <1>1, <1>2, <1>3, <1>4 DEF Range
<1>8. QED
  BY <1>2, <1>3, <1>6, <1>7, SeqIsChain

(* f satisfies the equation of the running total up to n.                  *)
IsTotal(h, s, n, f) ==
  f = [k \in 0..n |-> IF k = 0 THEN 0
                      ELSE f[k - 1] + h.block[s[k]].blockSize + h.block[s[k]].padding + HeaderSize]

(* A function that satisfies it exists, so that the running total does:    *)
(* extended by one block at a time, a least block without such a function  *)
(* is impossible.                                                          *)
LEMMA TotalExists ==
  ASSUME NEW h \in MEMExpHeap, NEW s \in Chains
  PROVE  IsTotal(h, s, Len(s), RunningTotal(h, s))
<1> DEFINE Bad == {n \in 0..Len(s) : ~\E f : IsTotal(h, s, n, f)}
<1>1. Len(s) \in Nat
  BY ChainIsSeq
<1>2. Bad = {}
  <2>1. SUFFICES ASSUME Bad # {} PROVE FALSE
    OBVIOUS
  <2>2. PICK n \in Bad : \A m \in Bad : n <= m
    <3>1. Bad \in SUBSET Nat
      BY <1>1
    <3> HIDE DEF Bad
    <3>2. QED
      BY <3>1, <2>1, LeastExists
  <2>3. n # 0
    <3>1. IsTotal(h, s, 0, [k \in 0..0 |-> 0])
      BY DEF IsTotal
    <3>2. QED
      BY <3>1, <2>2
  <2>4. n \in 0..Len(s) /\ n - 1 \in 0..Len(s)
    BY <2>2, <2>3, <1>1
  <2>5. PICK f : IsTotal(h, s, n - 1, f)
    BY <2>2, <2>4, <1>1
  <2> DEFINE last == f[n - 1] + h.block[s[n]].blockSize + h.block[s[n]].padding + HeaderSize
             g == [k \in 0..n |-> IF k = n THEN last ELSE f[k]]
  <2>6. \A k \in 0..(n - 1) :
          f[k] = IF k = 0 THEN 0
                 ELSE f[k - 1] + h.block[s[k]].blockSize + h.block[s[k]].padding + HeaderSize
    BY <2>5 DEF IsTotal
  <2>7. ASSUME NEW k \in 0..n
        PROVE  g[k] = IF k = 0 THEN 0
                      ELSE g[k - 1] + h.block[s[k]].blockSize + h.block[s[k]].padding + HeaderSize
    <3>1. CASE k = n
      BY <3>1, <2>3, <2>4, <1>1
    <3>2. CASE k # n
      <4>1. k \in 0..(n - 1) /\ (k # 0 => k - 1 \in 0..n /\ k - 1 # n)
        BY <3>2, <2>4, <1>1
      <4>2. QED
        BY <4>1, <2>6, <3>2
    <3>3. QED
      BY <3>1, <3>2
  <2>8. IsTotal(h, s, n, g)
    <3> HIDE DEF last
    <3> DEFINE r == [k \in 0..n |-> IF k = 0 THEN 0
                ELSE g[k - 1] + h.block[s[k]].blockSize + h.block[s[k]].padding + HeaderSize]
    <3>1. \A k \in 0..n : g[k] = r[k]
      BY <2>7
    <3>2. g = r
      BY <3>1
    <3> QED
      BY <3>2 DEF IsTotal
  <2>9. QED
    BY <2>2, <2>8
<1>3. \E f : IsTotal(h, s, Len(s), f)
  BY <1>1, <1>2
<1>4. IsTotal(h, s, Len(s), CHOOSE f : IsTotal(h, s, Len(s), f))
  BY <1>3
<1>5. RunningTotal(h, s) = CHOOSE f : IsTotal(h, s, Len(s), f)
  BY DEF RunningTotal, IsTotal
<1>6. QED
  BY <1>4, <1>5

(* The running total is 0 first, then grows by the size of each block.     *)
LEMMA TotalStep ==
  ASSUME NEW h \in MEMExpHeap, NEW s \in Chains
  PROVE  /\ RunningTotal(h, s)[0] = 0
         /\ \A k \in 0..Len(s) : RunningTotal(h, s)[k] \in Nat
         /\ \A k \in 1..Len(s) : RunningTotal(h, s)[k] = RunningTotal(h, s)[k - 1] + SizeOf(h, s[k])
<1> DEFINE T == RunningTotal(h, s)
<1>1. Len(s) \in Nat /\ s \in Seq(Blocks)
  BY ChainIsSeq
<1>2. \A k \in 1..Len(s) :
        /\ h.block[s[k]].blockSize \in Nat /\ h.block[s[k]].padding \in Nat /\ HeaderSize \in Nat
        /\ SizeOf(h, s[k]) \in Nat
  BY <1>1, ElementOfSeq, SizeIsNat
<1>3. IsTotal(h, s, Len(s), T)
  BY TotalExists
<1> HIDE DEF T
<1>4. \A k \in 0..Len(s) :
        T[k] = IF k = 0 THEN 0
               ELSE T[k - 1] + h.block[s[k]].blockSize + h.block[s[k]].padding + HeaderSize
  BY <1>3 DEF IsTotal
<1> DEFINE Bad == {k \in 0..Len(s) : T[k] \notin Nat}
<1>5. Bad = {}
  <2>1. SUFFICES ASSUME Bad # {} PROVE FALSE
    OBVIOUS
  <2>2. PICK n \in Bad : \A m \in Bad : n <= m
    <3>1. Bad \in SUBSET Nat
      BY <1>1
    <3> HIDE DEF Bad
    <3>2. QED
      BY <3>1, <2>1, LeastExists
  <2>3. n # 0
    BY <1>1, <1>4, <2>2
  <2>4. n \in 1..Len(s) /\ n - 1 \in 0..Len(s)
    BY <2>2, <2>3, <1>1
  <2>5. T[n - 1] \in Nat
    BY <2>2, <2>4, <1>1
  <2>6. T[n] \in Nat
    <3>1. T[n] = T[n - 1] + h.block[s[n]].blockSize + h.block[s[n]].padding + HeaderSize
      BY <1>4, <2>3, <2>4
    <3>2. QED
      BY <1>2, <2>4, <2>5, <3>1
  <2>7. QED
    BY <2>2, <2>6
<1>6. ASSUME NEW k \in 1..Len(s)
      PROVE  T[k] = T[k - 1] + SizeOf(h, s[k])
  <2>1. k \in 0..Len(s) /\ k # 0 /\ T[k - 1] \in Nat
    BY <1>1, <1>5
  <2>2. QED
    <3>1. T[k] = T[k - 1] + h.block[s[k]].blockSize + h.block[s[k]].padding + HeaderSize
      BY <1>4, <2>1
    <3>2. QED
      BY <1>2, <2>1, <3>1 DEF SizeOf
<1>7. T[0] = 0 /\ \A k \in 0..Len(s) : T[k] \in Nat
  BY <1>1, <1>4, <1>5
<1> QED
  BY <1>6, <1>7 DEF T

(* The total of the empty chain ...                                        *)
LEMMA TotalOfEmpty ==
  ASSUME NEW h \in MEMExpHeap
  PROVE  TotalOf(h, <<>>) = 0
BY TotalStep, EmptyIsChain, EmptySeq DEF TotalOf

(* ... of any chain ...                                                    *)
LEMMA TotalIsNat ==
  ASSUME NEW h \in MEMExpHeap, NEW s \in Chains
  PROVE  TotalOf(h, s) \in Nat
BY TotalStep, ChainIsSeq DEF TotalOf

(* ... and of a chain with one block more, whose running total agrees with *)
(* that of the chain as far as this one goes.                              *)
LEMMA TotalOfAppend ==
  ASSUME NEW h \in MEMExpHeap, NEW s \in Chains, NEW b \in Blocks, b \notin Range(s)
  PROVE  TotalOf(h, Append(s, b)) = TotalOf(h, s) + SizeOf(h, b)
<1> DEFINE t == Append(s, b)
           S == RunningTotal(h, s)
           T == RunningTotal(h, t)
<1>1. /\ t \in Chains /\ Len(t) = Len(s) + 1 /\ t[Len(s) + 1] = b
      /\ \A k \in 1..Len(s) : t[k] = s[k]
  BY AppendIsChain
<1>2. Len(s) \in Nat
  BY ChainIsSeq
<1> HIDE DEF t
<1>3. S[0] = 0 /\ \A k \in 1..Len(s) : S[k] = S[k - 1] + SizeOf(h, s[k])
  BY TotalStep
<1>4. T[0] = 0 /\ \A k \in 1..(Len(s) + 1) : T[k] = T[k - 1] + SizeOf(h, t[k])
  BY TotalStep, <1>1
<1> HIDE DEF S, T
<1> DEFINE Bad == {k \in 0..Len(s) : T[k] # S[k]}
<1>5. Bad = {}
  <2>1. SUFFICES ASSUME Bad # {} PROVE FALSE
    OBVIOUS
  <2>2. PICK n \in Bad : \A m \in Bad : n <= m
    <3>1. Bad \in SUBSET Nat
      BY <1>2
    <3> HIDE DEF Bad
    <3>2. QED
      BY <3>1, <2>1, LeastExists
  <2>3. n \in 1..Len(s) /\ n - 1 \in 0..Len(s)
    BY <1>2, <1>3, <1>4, <2>2
  <2>4. T[n - 1] = S[n - 1]
    BY <2>2, <2>3, <1>2
  <2>5. T[n] = T[n - 1] + SizeOf(h, t[n]) /\ S[n] = S[n - 1] + SizeOf(h, s[n])
    BY <1>2, <1>3, <1>4, <2>3
  <2>6. t[n] = s[n]
    BY <1>1, <2>3
  <2>7. QED
    BY <2>2, <2>4, <2>5, <2>6
<1>6. T[Len(s)] = S[Len(s)]
  BY <1>2, <1>5
<1>7. T[Len(s) + 1] = T[Len(s)] + SizeOf(h, b)
  BY <1>1, <1>2, <1>4
<1>8. QED
  BY <1>1, <1>6, <1>7 DEF TotalOf, S, T, t

(* Chain s is what a walk of list l of memory h has passed: what the walk  *)
(* holds as prevBlock and what it comes to next.                           *)
LastOf(s) == IF s = <<>> THEN null ELSE s[Len(s)]
NextAfter(h, l, s) == IF s = <<>> THEN h.head[l] ELSE h.block[s[Len(s)]].next

(* The comparisons a block stands that do not depend on its place.         *)
BlockFits(h, l, b) ==
  /\ h.block[b].tag = ListTag(l)
  /\ (b + HeaderSize + h.block[b].blockSize) % Word <= dataEnd

(* Chain s is the beginning of list l.                                     *)
LinkedSoFar(h, l, s) ==
  /\ s # <<>> => h.head[l] = s[1]
  /\ \A k \in 1..Len(s) :
       /\ h.block[s[k]].prev = (IF k = 1 THEN null ELSE s[k - 1])
       /\ k < Len(s) => h.block[s[k]].next = s[k + 1]
       /\ BlockFits(h, l, s[k])

(* The elements of a chain are blocks, and no block is null.               *)
LEMMA ChainOfBlocks ==
  ASSUME NEW s \in Chains
  PROVE  /\ Len(s) \in Nat /\ DOMAIN s = 1..Len(s)
         /\ s = <<>> <=> Len(s) = 0
         /\ \A k \in 1..Len(s) : s[k] \in Blocks /\ s[k] # null
<1>1. s \in Seq(Blocks) /\ Len(s) \in Nat /\ DOMAIN s = 1..Len(s)
  BY ChainIsSeq
<1>2. \A k \in 1..Len(s) : s[k] \in Blocks
  BY <1>1, ElementOfSeq
<1>3. null \notin Blocks
  BY HeapAssumption DEF null
<1>4. s = <<>> <=> Len(s) = 0
  BY <1>1, EmptySeq
<1>5. QED
  BY <1>1, <1>2, <1>3, <1>4

(* A chain is the whole list when it is its beginning, nothing comes next  *)
(* and the tail is its last block.                                         *)
LEMMA LinkedSplits ==
  ASSUME NEW h, NEW l, NEW s \in Chains
  PROVE  Linked(h, l, s) <=>
           LinkedSoFar(h, l, s) /\ NextAfter(h, l, s) = null /\ h.tail[l] = LastOf(s)
<1>0. Len(s) \in Nat
  BY ChainOfBlocks
<1>1. /\ Len(s) \in Nat /\ DOMAIN s = 1..Len(s) /\ (s = <<>> <=> Len(s) = 0)
  BY ChainOfBlocks
<1>2. CASE s = <<>>
  BY <1>1, <1>2 DEF Linked, LinkedSoFar, NextAfter, LastOf
<1>3. CASE s # <<>>
  <2>1. Len(s) \in 1..Len(s)
    BY <1>1, <1>3
  <2>2. ASSUME Linked(h, l, s)
        PROVE  LinkedSoFar(h, l, s) /\ NextAfter(h, l, s) = null /\ h.tail[l] = LastOf(s)
    <3>1. \A k \in 1..Len(s) :
            /\ h.block[s[k]].prev = (IF k = 1 THEN null ELSE s[k - 1])
            /\ h.block[s[k]].next = (IF k = Len(s) THEN null ELSE s[k + 1])
            /\ BlockFits(h, l, s[k])
      BY <1>1, <2>2 DEF Linked, BlockFits
    <3>2. h.head[l] = s[1] /\ h.tail[l] = s[Len(s)]
      BY <2>2, <1>3 DEF Linked
    <3>3. QED
      <4>1. LinkedSoFar(h, l, s)
        <5>1. \A k \in 1..Len(s) : k < Len(s) => k # Len(s)
          BY <1>0
        <5>2. QED
          BY <5>1, <3>1, <3>2 DEF LinkedSoFar
      <4>2. NextAfter(h, l, s) = null
        BY <1>3, <2>1, <3>1 DEF NextAfter
      <4>3. QED
        BY <1>3, <3>2, <4>1, <4>2 DEF LastOf
  <2>3. ASSUME LinkedSoFar(h, l, s), NextAfter(h, l, s) = null, h.tail[l] = LastOf(s)
        PROVE  Linked(h, l, s)
    <3>1. ASSUME NEW k \in 1..Len(s)
          PROVE  /\ h.block[s[k]].prev = (IF k = 1 THEN null ELSE s[k - 1])
                 /\ h.block[s[k]].next = (IF k = Len(s) THEN null ELSE s[k + 1])
                 /\ BlockFits(h, l, s[k])
      <4>1. k = Len(s) \/ k < Len(s)
        BY <1>0
      <4>2. k = Len(s) => h.block[s[k]].next = null
        BY <2>3, <1>3 DEF NextAfter
      <4>3. QED
        BY <4>1, <4>2, <2>3, <1>1 DEF LinkedSoFar
    <3>2. h.head[l] = s[1] /\ h.tail[l] = s[Len(s)]
      BY <2>3, <1>3 DEF LinkedSoFar, LastOf
    <3>3. QED
      BY <1>1, <1>3, <3>1, <3>2 DEF Linked, BlockFits
  <2>4. QED
    BY <2>2, <2>3
<1>4. QED
  BY <1>2, <1>3

(* What a walk has passed is the beginning of any chain that the list is:  *)
(* the head and the pointers to the next block leave no choice.            *)
LEMMA OneWayOnly ==
  ASSUME NEW h, NEW l, NEW u \in Chains, Linked(h, l, u),
         NEW s \in Chains, LinkedSoFar(h, l, s)
  PROVE  /\ Len(s) <= Len(u)
         /\ \A k \in 1..Len(s) : s[k] = u[k]
         /\ NextAfter(h, l, s) = (IF Len(s) = Len(u) THEN null ELSE u[Len(s) + 1])
<1>1. /\ Len(s) \in Nat /\ (s = <<>> <=> Len(s) = 0)
      /\ \A k \in 1..Len(s) : s[k] \in Blocks /\ s[k] # null
  BY ChainOfBlocks
<1>2. /\ Len(u) \in Nat /\ DOMAIN u = 1..Len(u) /\ (u = <<>> <=> Len(u) = 0)
      /\ \A k \in 1..Len(u) : u[k] \in Blocks /\ u[k] # null
  BY ChainOfBlocks
<1>3. h.head[l] = (IF u = <<>> THEN null ELSE u[1])
  BY DEF Linked
<1>4. \A k \in 1..Len(u) : h.block[u[k]].next = (IF k = Len(u) THEN null ELSE u[k + 1])
  BY <1>2 DEF Linked
<1>5. s # <<>> => h.head[l] = s[1]
  BY DEF LinkedSoFar
<1>6. \A k \in 1..Len(s) : k < Len(s) => h.block[s[k]].next = s[k + 1]
  BY DEF LinkedSoFar
<1> DEFINE Bad == {k \in 1..Len(s) : ~(k <= Len(u) /\ s[k] = u[k])}
<1>7. Bad = {}
  <2>1. SUFFICES ASSUME Bad # {} PROVE FALSE
    OBVIOUS
  <2>2. PICK n \in Bad : \A m \in Bad : n <= m
    <3>1. Bad \in SUBSET Nat
      BY <1>1
    <3> HIDE DEF Bad
    <3>2. QED
      BY <3>1, <2>1, LeastExists
  <2>3. CASE n = 1
    BY <2>2, <2>3, <1>1, <1>2, <1>3, <1>5
  <2>4. CASE n # 1
    <3>1. n - 1 \in 1..Len(s) /\ n - 1 < Len(s) /\ (n - 1) + 1 = n
      BY <2>2, <2>4, <1>1
    <3>2. n - 1 <= Len(u) /\ s[n - 1] = u[n - 1]
      BY <2>2, <3>1, <1>1
    <3>3. n - 1 \in 1..Len(u)
      BY <3>1, <3>2, <1>1, <1>2
    <3>4. h.block[s[n - 1]].next = s[n]
      BY <3>1, <1>6
    <3>5. h.block[u[n - 1]].next = (IF n - 1 = Len(u) THEN null ELSE u[n])
      BY <3>1, <3>3, <1>4
    <3>6. s[n] # null
      BY <2>2, <1>1
    <3>7. QED
      BY <2>2, <3>2, <3>3, <3>4, <3>5, <3>6, <1>1, <1>2
  <2>5. QED
    BY <2>3, <2>4
<1>8. Len(s) <= Len(u) /\ \A k \in 1..Len(s) : s[k] = u[k]
  BY <1>1, <1>2, <1>7
<1>9. NextAfter(h, l, s) = (IF Len(s) = Len(u) THEN null ELSE u[Len(s) + 1])
  <2>1. CASE s = <<>>
    BY <2>1, <1>1, <1>2, <1>3 DEF NextAfter
  <2>2. CASE s # <<>>
    <3>1. Len(s) \in 1..Len(s) /\ Len(s) \in 1..Len(u)
      BY <2>2, <1>1, <1>2, <1>8
    <3>2. NextAfter(h, l, s) = h.block[u[Len(s)]].next
      BY <2>2, <3>1, <1>8 DEF NextAfter
    <3>3. QED
      BY <3>1, <3>2, <1>4
  <2>3. QED
    BY <2>1, <2>2
<1>10. QED
  BY <1>8, <1>9

(* A list of the memory is one chain at most.                              *)
LEMMA OneChain ==
  ASSUME NEW h, NEW l, NEW u \in Chains, Linked(h, l, u), NEW s \in Chains, Linked(h, l, s)
  PROVE  s = u
<1>1. LinkedSoFar(h, l, s) /\ LinkedSoFar(h, l, u)
  BY LinkedSplits
<1>2. Len(s) <= Len(u) /\ Len(u) <= Len(s) /\ \A k \in 1..Len(s) : s[k] = u[k]
  BY <1>1, OneWayOnly
<1>3. s \in Seq(Blocks) /\ u \in Seq(Blocks) /\ Len(s) = Len(u)
  BY <1>2, ChainIsSeq
<1>4. QED
  BY <1>2, <1>3, SeqEqual

-----------------------------------------------------------------------------
(* The verdict.                                                            *)

(* The walk has passed chain s of its list, after chain u of the used list *)
(* if it walks the free one.                                               *)
WalkedChain(s) ==
  /\ visited = Range(s) /\ LinkedSoFar(heap, list, s)
  /\ cur = NextAfter(heap, list, s) /\ prevBlock = LastOf(s)

UsedChain(u) == IF list = "used" THEN u = <<>> ELSE Linked(heap, "used", u)

(* While the walk goes on, what it has passed is the beginning of the      *)
(* list, and the total is that of the blocks passed.                       *)
WalkIsChain ==
  pc = "walk" =>
    /\ heap.tag = "EXPH"
    /\ \E s \in Chains, u \in Chains :
         /\ WalkedChain(s) /\ UsedChain(u)
         /\ totalSize = (TotalOf(heap, u) + TotalOf(heap, s)) % Word

(* The memory between the calls of the heap functions, and within one.     *)
OwnersHeap ==
  /\ mutator = "idle" => heap \in UserHeaps
  /\ mutator = "busy" => heap \in TornHeaps

(* What the check has answered is right for the memory it leaves when it   *)
(* gives the lock back.                                                    *)
JudgedRight ==
  /\ pc \in {"start", "walk"} => result = "none"
  /\ pc = "release" \/ (pc = "done" /\ mutator = "absent") =>
       result # "none" /\ (result = "ok" <=> Intact(heap))
  /\ pc = "fault" => lock = "check" /\ ~Intact(heap)
  /\ NoFalseAlarm

(* The inductive invariant of the verdict: the verdict alone does not say  *)
(* how far the walk has come.                                              *)
VerdictInv == TypeOK /\ WalkInv /\ WalkIsChain /\ OwnersHeap /\ JudgedRight

(* A list begins with the empty chain.                                     *)
LEMMA BeginsEmpty ==
  ASSUME NEW h, NEW l
  PROVE  LinkedSoFar(h, l, <<>>) /\ NextAfter(h, l, <<>>) = h.head[l] /\ LastOf(<<>>) = null
<1>1. Len(<<>>) = 0
  BY EmptySeq
<1>2. QED
  BY <1>1 DEF LinkedSoFar, NextAfter, LastOf

(* Accepting the next block makes the chain one longer.                    *)
LEMMA ChainGrows ==
  ASSUME NEW h, NEW l, NEW s \in Chains, LinkedSoFar(h, l, s),
         NEW b \in Blocks, b \notin Range(s), b = NextAfter(h, l, s),
         h.block[b].prev = LastOf(s), BlockFits(h, l, b)
  PROVE  /\ LinkedSoFar(h, l, Append(s, b)) /\ LastOf(Append(s, b)) = b
         /\ NextAfter(h, l, Append(s, b)) = h.block[b].next
<1> DEFINE t == Append(s, b)
<1>1. /\ t \in Chains /\ Len(t) = Len(s) + 1 /\ t[Len(s) + 1] = b
      /\ \A k \in 1..Len(s) : t[k] = s[k]
  BY AppendIsChain
<1>2. Len(s) \in Nat
  BY ChainOfBlocks
<1>3. s = <<>> <=> Len(s) = 0
  BY ChainOfBlocks
<1>4. t # <<>>
  BY <1>1, <1>2, ChainOfBlocks
<1> HIDE DEF t
<1>5. LastOf(t) = b /\ NextAfter(h, l, t) = h.block[b].next
  BY <1>1, <1>4 DEF LastOf, NextAfter
<1>6. h.head[l] = t[1]
  <2>1. CASE s = <<>>
    BY <2>1, <1>1, <1>3 DEF NextAfter
  <2>2. CASE s # <<>>
    <3>1. 1 \in 1..Len(s)
      BY <2>2, <1>2, <1>3
    <3>2. QED
      BY <2>2, <3>1, <1>1 DEF LinkedSoFar
  <2>3. QED
    BY <2>1, <2>2
<1>7. ASSUME NEW k \in 1..Len(t)
      PROVE  /\ h.block[t[k]].prev = (IF k = 1 THEN null ELSE t[k - 1])
             /\ k < Len(t) => h.block[t[k]].next = t[k + 1]
             /\ BlockFits(h, l, t[k])
  <2>1. k \in 1..Len(s) \/ k = Len(s) + 1
    BY <1>1, <1>2
  <2>2. CASE k = Len(s) + 1
    <3>1. t[k] = b /\ ~(k < Len(t))
      BY <2>2, <1>1, <1>2
    <3>2. LastOf(s) = (IF k = 1 THEN null ELSE t[k - 1])
      <4>1. CASE s = <<>>
        BY <4>1, <2>2, <1>3 DEF LastOf
      <4>2. CASE s # <<>>
        <5>1. k # 1 /\ k - 1 = Len(s) /\ Len(s) \in 1..Len(s)
          BY <4>2, <2>2, <1>2, <1>3
        <5>2. QED
          BY <4>2, <5>1, <1>1 DEF LastOf
      <4>3. QED
        BY <4>1, <4>2
    <3>3. QED
      BY <3>1, <3>2
  <2>3. CASE k \in 1..Len(s)
    <3>1. t[k] = s[k] /\ (k # 1 => t[k - 1] = s[k - 1])
      <4>1. k # 1 => k - 1 \in 1..Len(s)
        BY <2>3, <1>2
      <4>2. QED
        BY <4>1, <2>3, <1>1
    <3>2. /\ h.block[s[k]].prev = (IF k = 1 THEN null ELSE s[k - 1])
          /\ k < Len(s) => h.block[s[k]].next = s[k + 1]
          /\ BlockFits(h, l, s[k])
      BY <2>3 DEF LinkedSoFar
    <3>3. h.block[s[k]].next = t[k + 1]
      <4>1. CASE k < Len(s)
        <5>1. k + 1 \in 1..Len(s)
          BY <4>1, <2>3, <1>2
        <5>2. QED
          BY <4>1, <5>1, <3>2, <1>1
      <4>2. CASE k = Len(s)
        <5>1. s # <<>>
          BY <2>3, <1>2, <1>3
        <5>2. b = h.block[s[Len(s)]].next
          BY <5>1 DEF NextAfter
        <5>3. QED
          BY <5>2, <4>2, <1>1
      <4>3. QED
        BY <4>1, <4>2, <2>3, <1>2
    <3>4. QED
      BY <3>1, <3>2, <3>3
  <2>4. QED
    BY <2>1, <2>2, <2>3
<1>8. QED
  BY <1>5, <1>6, <1>7 DEF LinkedSoFar, t

(* What the walk of an intact heap comes to next fits.                     *)
LEMMA IntactFits ==
  ASSUME TypeOK, Intact(heap), NEW s \in Chains, WalkedChain(s)
  PROVE  /\ cur \notin Outside
         /\ cur \in Blocks => BlockAccepted(cur)
         /\ cur = null => TailFits
<1>1. PICK c \in Chains : Linked(heap, list, c)
  BY DEF Intact, TypeOK, Lists
<1>2. /\ LinkedSoFar(heap, list, s) /\ cur = NextAfter(heap, list, s)
      /\ prevBlock = LastOf(s)
  BY DEF WalkedChain
<1>3. /\ Len(s) <= Len(c) /\ \A k \in 1..Len(s) : s[k] = c[k]
      /\ cur = (IF Len(s) = Len(c) THEN null ELSE c[Len(s) + 1])
  BY <1>1, <1>2, OneWayOnly
<1>4. /\ Len(s) \in Nat /\ (s = <<>> <=> Len(s) = 0)
  BY ChainOfBlocks
<1>5. /\ Len(c) \in Nat /\ DOMAIN c = 1..Len(c)
      /\ \A k \in 1..Len(c) : c[k] \in Blocks /\ c[k] # null
  BY ChainOfBlocks
<1>6. CASE Len(s) = Len(c)
  <2>1. cur = null
    BY <1>3, <1>6
  <2>2. s \in Seq(Blocks) /\ c \in Seq(Blocks)
    BY ChainIsSeq
  <2>3. s = c
    BY <1>3, <1>6, <2>2, SeqEqual
  <2>4. heap.tail[list] = LastOf(c)
    BY <1>1, LinkedSplits
  <2>5. TailFits
    BY <1>2, <2>3, <2>4 DEF TailFits
  <2>6. null \notin Blocks /\ null \notin Outside
    BY HeapAssumption DEF null
  <2>7. QED
    BY <2>1, <2>5, <2>6
<1>7. CASE Len(s) # Len(c)
  <2> DEFINE n == Len(s) + 1
  <2>1. n \in 1..Len(c)
    BY <1>3, <1>4, <1>5, <1>7
  <2>2. cur = c[n] /\ cur \in Blocks /\ cur # null
    BY <1>3, <1>5, <1>7, <2>1
  <2>3. cur \notin Outside /\ dataStart <= cur /\ cur <= dataEnd
    BY <2>2, HeapAssumption
  <2>4. /\ heap.block[cur].prev = (IF n = 1 THEN null ELSE c[n - 1])
        /\ heap.block[cur].tag = ListTag(list)
        /\ (cur + HeaderSize + heap.block[cur].blockSize) % Word <= dataEnd
    BY <1>1, <1>5, <2>1, <2>2 DEF Linked
  <2>5. LastOf(s) = (IF n = 1 THEN null ELSE c[n - 1])
    <3>1. CASE s = <<>>
      BY <3>1, <1>4 DEF LastOf
    <3>2. CASE s # <<>>
      <4>1. n # 1 /\ n - 1 = Len(s) /\ Len(s) \in 1..Len(s)
        BY <3>2, <1>4
      <4>2. QED
        BY <4>1, <3>2, <1>3 DEF LastOf
    <3>3. QED
      BY <3>1, <3>2
  <2>6. BlockAccepted(cur)
    BY <1>2, <2>3, <2>4, <2>5 DEF BlockAccepted, PrevFits, InsideHeap
  <2>7. QED
    BY <2>2, <2>3, <2>6
<1>8. QED
  BY <1>6, <1>7

(* At the end of a list whose tail fits, the walk has passed all of it.    *)
LEMMA ListPassed ==
  ASSUME NEW s \in Chains, WalkedChain(s), cur = null, TailFits
  PROVE  Linked(heap, list, s)
BY LinkedSplits DEF WalkedChain, TailFits

(* The comparison of the total decides whether the heap is intact.         *)
LEMMA TotalDecides ==
  ASSUME TypeOK, heap.tag = "EXPH", list = "free",
         NEW s \in Chains, NEW u \in Chains, Linked(heap, "used", u), Linked(heap, "free", s),
         totalSize = (TotalOf(heap, u) + TotalOf(heap, s)) % Word
  PROVE  totalSize = dataEnd - dataStart <=> Intact(heap)
<1>1. totalSize = dataEnd - dataStart => Intact(heap)
  BY DEF Intact
<1>2. Intact(heap) => totalSize = dataEnd - dataStart
  <2>1. SUFFICES ASSUME Intact(heap) PROVE totalSize = dataEnd - dataStart
    OBVIOUS
  <2>2. PICK v \in Chains, f \in Chains :
          /\ Linked(heap, "used", v) /\ Linked(heap, "free", f)
          /\ (TotalOf(heap, v) + TotalOf(heap, f)) % Word = dataEnd - dataStart
    BY <2>1 DEF Intact
  <2>3. v = u /\ f = s
    BY <2>2, OneChain
  <2>4. QED
    BY <2>2, <2>3
<1>3. QED
  BY <1>1, <1>2

(* A heap other threads use is intact while the check holds the lock.      *)
LEMMA OwnedIsIntact ==
  ASSUME WalkInv, OwnersHeap, pc \in {"walk", "release"}, mutator # "absent", TypeOK
  PROVE  mutator = "idle" /\ Intact(heap)
<1>1. mutator = "idle"
  BY DEF WalkInv, LockOwned, TypeOK
<1>2. QED
  BY <1>1, UsersLeaveItIntact DEF OwnersHeap

(* Accepting a block makes what was passed one block longer, and its total *)
(* larger by the size of the block.                                        *)
LEMMA VisitKeepsChain ==
  ASSUME VerdictInv, VisitBlock
  PROVE  WalkIsChain'
<1>1. /\ pc = "walk" /\ cur \in Blocks /\ heap.block[cur].prev = prevBlock
      /\ BlockFits(heap, list, cur)
      /\ totalSize' = NewTotal(cur) /\ visited' = visited \cup {cur} /\ prevBlock' = cur
      /\ cur' = heap.block[cur].next /\ heap' = heap /\ list' = list /\ pc' = pc
  BY DEF VisitBlock, BlockAccepted, PrevFits, InsideHeap, BlockFits
<1>2. cur \notin visited
  BY <1>1, WalkExcludesCycles DEF VerdictInv, PrevFits
<1>3. heap.tag = "EXPH" /\ heap \in MEMExpHeap
  BY <1>1 DEF VerdictInv, WalkIsChain, TypeOK
<1>4. PICK s \in Chains, u \in Chains :
        /\ WalkedChain(s) /\ UsedChain(u)
        /\ totalSize = (TotalOf(heap, u) + TotalOf(heap, s)) % Word
  BY <1>1 DEF VerdictInv, WalkIsChain
<1>5. /\ visited = Range(s) /\ LinkedSoFar(heap, list, s)
      /\ cur = NextAfter(heap, list, s) /\ prevBlock = LastOf(s)
  BY <1>4 DEF WalkedChain
<1>6. PICK t \in Chains : t = Append(s, cur) /\ Range(t) = visited'
  BY <1>1, <1>2, <1>5, AppendIsChain
<1>7. LinkedSoFar(heap, list, t) /\ LastOf(t) = cur /\ NextAfter(heap, list, t) = cur'
  BY <1>1, <1>2, <1>5, <1>6, ChainGrows
<1>8. totalSize' = (TotalOf(heap, u) + TotalOf(heap, t)) % Word
  <2> DEFINE a == TotalOf(heap, u) + TotalOf(heap, s)
             z == SizeOf(heap, cur)
  <2>1. a \in Nat /\ z \in Nat /\ TotalOf(heap, u) \in Nat /\ TotalOf(heap, s) \in Nat
    BY <1>1, <1>3, TotalIsNat, SizeIsNat
  <2>2. TotalOf(heap, t) = TotalOf(heap, s) + z
    BY <1>1, <1>2, <1>3, <1>5, <1>6, TotalOfAppend
  <2>3. totalSize' = ((a % Word) + z) % Word
    BY <1>1, <1>4 DEF NewTotal, SizeWithHeader, SizeOf
  <2>4. TotalOf(heap, u) + TotalOf(heap, t) = a + z
    <3> HIDE DEF z
    <3>1. QED
      BY <2>1, <2>2
  <2>5. ((a % Word) + z) % Word = (a + z) % Word
    <3> HIDE DEF a, z
    <3>1. QED
      BY <2>1, WordFacts, ModAdd
  <2>6. QED
    BY <2>3, <2>4, <2>5
<1>9. WalkedChain(t)'
  BY <1>1, <1>6, <1>7 DEF WalkedChain
<1>10. UsedChain(u)'
  BY <1>1, <1>4 DEF UsedChain
<1>11. (totalSize = (TotalOf(heap, u) + TotalOf(heap, t)) % Word)'
  BY <1>1, <1>8
<1>12. QED
  BY <1>1, <1>3, <1>6, <1>9, <1>10, <1>11 DEF WalkIsChain

(* With the lock, the walk of the used list begins ...                     *)
LEMMA AcquireBeginsChain ==
  ASSUME VerdictInv, AcquireLock
  PROVE  WalkIsChain'
<1>1. /\ heap.tag = "EXPH" /\ heap' = heap /\ heap \in MEMExpHeap /\ totalSize' = 0
      /\ list' = "used" /\ cur' = heap.head["used"] /\ prevBlock' = null /\ visited' = {}
  BY DEF AcquireLock, BeginList, VerdictInv, TypeOK
<1>2. <<>> \in Chains /\ Range(<<>>) = {}
  BY EmptyIsChain
<1>3. WalkedChain(<<>>)'
  BY <1>1, <1>2, BeginsEmpty DEF WalkedChain
<1>4. UsedChain(<<>>)'
  BY <1>1 DEF UsedChain
<1>5. totalSize' = (TotalOf(heap, <<>>) + TotalOf(heap, <<>>)) % Word
  <2>1. TotalOf(heap, <<>>) = 0
    BY <1>1, TotalOfEmpty
  <2>2. 0 % Word = 0
    BY WordFacts
  <2>3. QED
    BY <1>1, <2>1, <2>2
<1>6. (totalSize = (TotalOf(heap, <<>>) + TotalOf(heap, <<>>)) % Word)'
  BY <1>1, <1>5
<1>7. QED
  BY <1>1, <1>2, <1>3, <1>4, <1>6 DEF WalkIsChain

(* ... and at its end the one of the free list, the used list passed.      *)
LEMMA NextListBeginsChain ==
  ASSUME VerdictInv, NextList
  PROVE  WalkIsChain'
<1>1. /\ pc = "walk" /\ cur = null /\ TailFits /\ list = "used"
      /\ heap' = heap /\ heap \in MEMExpHeap /\ totalSize' = totalSize
      /\ list' = "free" /\ cur' = heap.head["free"] /\ prevBlock' = null /\ visited' = {}
  BY DEF NextList, BeginList, VerdictInv, TypeOK
<1>2. heap.tag = "EXPH"
  BY <1>1 DEF VerdictInv, WalkIsChain
<1>3. PICK s \in Chains, u \in Chains :
        /\ WalkedChain(s) /\ UsedChain(u)
        /\ totalSize = (TotalOf(heap, u) + TotalOf(heap, s)) % Word
  BY <1>1 DEF VerdictInv, WalkIsChain
<1>4. <<>> \in Chains /\ Range(<<>>) = {}
  BY EmptyIsChain
<1>5. WalkedChain(<<>>)'
  BY <1>1, <1>4, BeginsEmpty DEF WalkedChain
<1>6. UsedChain(s)'
  BY <1>1, <1>3, ListPassed DEF UsedChain
<1>7. totalSize = (TotalOf(heap, s) + TotalOf(heap, <<>>)) % Word
  <2>1. TotalOf(heap, <<>>) = 0 /\ TotalOf(heap, s) \in Nat
    BY <1>1, TotalOfEmpty, TotalIsNat
  <2>2. u = <<>>
    BY <1>1, <1>3 DEF UsedChain
  <2>3. TotalOf(heap, s) + TotalOf(heap, <<>>) = TotalOf(heap, u) + TotalOf(heap, s)
    BY <2>1, <2>2
  <2>4. QED
    BY <1>3, <2>3
<1>8. (totalSize = (TotalOf(heap, s) + TotalOf(heap, <<>>)) % Word)'
  BY <1>1, <1>7
<1>9. QED
  BY <1>1, <1>2, <1>4, <1>5, <1>6, <1>8 DEF WalkIsChain

(* Every step keeps the invariant.  The rejections contradict an intact    *)
(* heap, the comparison of the total decides, and no other thread writes   *)
(* while the check owns the lock.                                          *)
LEMMA StepKeepsVerdict ==
  ASSUME VerdictInv, [Next]_vars
  PROVE  VerdictInv'
<1> USE DEF OwnersHeap, JudgedRight, NoFalseAlarm
<1>1. TypeOK' /\ WalkInv'
  BY StepKeepsTypeOK, StepKeepsWalkInv DEF VerdictInv
<1>2. TypeOK /\ WalkInv /\ LockOwned
  BY DEF VerdictInv, WalkInv
<1>3. WalkIsChain /\ OwnersHeap /\ JudgedRight
  BY DEF VerdictInv
<1>4. CASE RejectTag
  <2>1. ~Intact(heap) /\ mutator = "absent"
    BY <1>2, <1>3, <1>4, UsersLeaveItIntact, UsersAssumption DEF RejectTag, Intact, TypeOK
  <2>2. QED
    BY <1>1, <1>3, <1>4, <2>1 DEF RejectTag, walk_vars, VerdictInv, WalkIsChain
<1>5. CASE AcquireLock
  <2>1. WalkIsChain'
    BY <1>5, AcquireBeginsChain
  <2>2. QED
    BY <1>1, <1>3, <1>5, <2>1 DEF AcquireLock, VerdictInv
<1>6. CASE VisitBlock
  <2>1. WalkIsChain'
    BY <1>6, VisitKeepsChain
  <2>2. QED
    BY <1>1, <1>3, <1>6, <2>1 DEF VisitBlock, VerdictInv
<1>7. CASE NextList
  <2>1. WalkIsChain'
    BY <1>7, NextListBeginsChain
  <2>2. QED
    BY <1>1, <1>3, <1>7, <2>1 DEF NextList, VerdictInv
<1>8. CASE Reject
  <2>1. PICK s \in Chains : WalkedChain(s)
    BY <1>3, <1>8 DEF Reject, WalkIsChain
  <2>2. ~Intact(heap)
    BY <1>2, <1>8, <2>1, IntactFits DEF Reject
  <2>3. mutator = "absent"
    BY <1>2, <1>3, <1>8, <2>2, OwnedIsIntact DEF Reject
  <2>4. QED
    BY <1>1, <1>3, <1>8, <2>2, <2>3 DEF Reject, Return, walk_vars, VerdictInv, WalkIsChain
<1>9. CASE FaultOutside
  <2>1. PICK s \in Chains : WalkedChain(s)
    BY <1>3, <1>9 DEF FaultOutside, WalkIsChain
  <2>2. ~Intact(heap)
    BY <1>2, <1>9, <2>1, IntactFits DEF FaultOutside
  <2>3. mutator = "absent" /\ lock = "check"
    BY <1>2, <1>3, <1>9, <2>2, OwnedIsIntact DEF FaultOutside, LockOwned
  <2>4. QED
    BY <1>1, <1>3, <1>9, <2>2, <2>3 DEF FaultOutside, walk_vars, VerdictInv, WalkIsChain
<1>10. CASE CompareTotal
  <2>1. /\ pc = "walk" /\ cur = null /\ TailFits /\ list = "free" /\ heap' = heap /\ pc' = "release"
        /\ result' = (IF totalSize = dataEnd - dataStart THEN "ok" ELSE "corrupt")
        /\ lock' = lock /\ mutator' = mutator
    BY <1>10 DEF CompareTotal, Return
  <2>2. heap.tag = "EXPH"
    BY <1>3, <2>1 DEF WalkIsChain
  <2>3. PICK s \in Chains, u \in Chains :
          /\ WalkedChain(s) /\ UsedChain(u)
          /\ totalSize = (TotalOf(heap, u) + TotalOf(heap, s)) % Word
    BY <1>3, <2>1 DEF WalkIsChain
  <2>4. Linked(heap, "free", s) /\ Linked(heap, "used", u)
    BY <2>1, <2>3, ListPassed DEF UsedChain
  <2>5. totalSize = dataEnd - dataStart <=> Intact(heap)
    BY <1>2, <2>1, <2>2, <2>3, <2>4, TotalDecides
  <2>6. mutator # "absent" => Intact(heap)
    BY <1>2, <1>3, <2>1, OwnedIsIntact
  <2>7. Intact(heap)' <=> Intact(heap)
    BY <2>1
  <2>8. result' # "none" /\ (result' = "ok" <=> Intact(heap))
    BY <2>1, <2>5
  <2>9. WalkIsChain' /\ OwnersHeap'
    BY <1>3, <2>1 DEF WalkIsChain
  <2>10. JudgedRight'
    BY <2>1, <2>6, <2>7, <2>8
  <2>11. QED
    BY <1>1, <2>9, <2>10 DEF VerdictInv
<1>11. CASE ReleaseLock
  BY <1>1, <1>3, <1>11 DEF ReleaseLock, walk_vars, VerdictInv, WalkIsChain
<1>12. CASE Mutate
  <2>1. pc \notin {"walk", "release", "fault"}
    BY <1>2, <1>3, <1>12 DEF Mutate, LockOwned
  <2>2. QED
    BY <1>1, <1>3, <1>12, <2>1 DEF Mutate, walk_vars, VerdictInv, WalkIsChain
<1>13. CASE Mend
  <2>1. pc \notin {"walk", "release", "fault"}
    BY <1>2, <1>3, <1>13 DEF Mend, LockOwned
  <2>2. QED
    BY <1>1, <1>3, <1>13, <2>1 DEF Mend, walk_vars, VerdictInv, WalkIsChain
<1>14. CASE UNCHANGED vars
  BY <1>1, <1>3, <1>14 DEF vars, VerdictInv, WalkIsChain, WalkedChain, UsedChain
<1>15. QED
  BY <1>4, <1>5, <1>6, <1>7, <1>8, <1>9, <1>10, <1>11, <1>12, <1>13, <1>14
  DEF Next, CheckMemExpHeap

(* In every reachable state what the walk has passed is a beginning of the *)
(* lists of the heap, and its answer is right.                             *)
THEOREM VerdictInvHolds == Spec => []VerdictInv
<1>1. Init => VerdictInv
  <2>1. SUFFICES ASSUME Init PROVE VerdictInv
    OBVIOUS
  <2>2. TypeOK
    BY <2>1, UsersAssumption, WordFacts DEF Init, InitWith, TypeOK, Pointers, Lists
  <2>3. WalkInv
    BY <2>1 DEF Init, InitWith, WalkInv, LockOwned, WalkedSoFar
  <2>4. WalkIsChain /\ OwnersHeap /\ JudgedRight
    BY <2>1 DEF Init, InitWith, WalkIsChain, OwnersHeap, JudgedRight, NoFalseAlarm
  <2>5. QED
    BY <2>2, <2>3, <2>4 DEF VerdictInv
<1>2. VerdictInv /\ [Next]_vars => VerdictInv'
  BY StepKeepsVerdict
<1>3. QED
  BY <1>1, <1>2, PTL DEF Spec

(* CheckMemExpHeap reports a heap if and only if its lists are not two     *)
(* chains of blocks that fit and fill it, whatever the memory holds.       *)
THEOREM CheckIsRight == Spec => []VerdictIsRight
<1>1. VerdictInv => VerdictIsRight
  BY DEF VerdictInv, JudgedRight, VerdictIsRight
<1>2. QED
  BY <1>1, VerdictInvHolds, PTL

(* Threads that allocate and free under the lock never make                *)
(* CheckMemExpHeap report a heap, nor read where nothing is mapped.        *)
THEOREM NoFalseAlarmRaised == Spec => []NoFalseAlarm
<1>1. VerdictInv => NoFalseAlarm
  BY DEF VerdictInv, JudgedRight
<1>2. QED
  BY <1>1, VerdictInvHolds, PTL
=============================================================================
