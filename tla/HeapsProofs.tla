---------------------------- MODULE HeapsProofs -----------------------------
(***************************************************************************)
(* Proofs about module Heaps: for any table of disjoint regions, any       *)
(* requests and any threads, allocEx fails only for want of room, every    *)
(* block has one owner, and the heaps implement the pool of module         *)
(* Allocator.                                                              *)
(***************************************************************************)
EXTENDS Heaps, FiniteSetTheorems, TLAPS

(* Free has not gone past the region its pointer lies in.                  *)
FreePast ==
  \A t \in Threads : op[t] = "free" =>
    \A h \in Regions : h < idx[t] => ~InRegion(h, pointer[t])

(* A block and its header lie in the heap that gave it out.                *)
BlocksInside ==
  \A h \in Regions : \A b \in blocks[h] : Extent(b.start, b.size) \subseteq Data(h)

(* What the steps rely on and re-establish.                                *)
HInv ==
  /\ HeapsTypeOK /\ BlocksInside /\ FreePast /\ FailureIsTruthful

-----------------------------------------------------------------------------
(* The table.                                                              *)

LEMMA RegionNumbers ==
  /\ Len(mem_mapping) \in Nat
  /\ \A h \in Regions : h \in Nat /\ h >= 1 /\ EaStart(h) \in Nat /\ EaEnd(h) \in Nat
<1> DEFINE Region == [effective_start_address : Nat, effective_end_address : Nat]
<1>1. mem_mapping \in Seq(Region)
  BY HeapTable
<1>2. Len(mem_mapping) \in Nat /\ \A h \in Regions : mem_mapping[h] \in Region
  <2> HIDE DEF Region
  <2>. QED BY <1>1 DEF Regions
<1>3. \A h \in Regions : h \in Nat /\ h >= 1
  BY <1>2 DEF Regions
<1>. QED  BY <1>2, <1>3 DEF EaStart, EaEnd

(* No address belongs to two heaps, and only data of h lies strictly       *)
(* inside region h.                                                        *)
LEMMA DataDisjoint ==
  \A h, k \in Regions : \A a \in Data(h) :
    /\ a \in Nat /\ InRegion(h, a)
    /\ InRegion(k, a) => h = k
<1> SUFFICES ASSUME NEW h \in Regions, NEW k \in Regions, NEW a \in Data(h)
             PROVE  a \in Nat /\ InRegion(h, a) /\ (InRegion(k, a) => h = k)
  OBVIOUS
<1>1. HeapHeader \in Nat \ {0}
  BY HeapTable
<1>2. h # k => EaEnd(h) <= EaStart(k) \/ EaEnd(k) <= EaStart(h)
  BY HeapTable
<1>3. EaStart(h) \in Nat /\ EaEnd(h) \in Nat /\ EaStart(k) \in Nat /\ EaEnd(k) \in Nat
  BY RegionNumbers
<1>. QED  BY <1>1, <1>2, <1>3 DEF Data, InRegion

LEMMA UsableIsNat == Usable \subseteq Nat
BY DataDisjoint DEF Usable

(* Between the data of two heaps there is a header: a block that fits in   *)
(* the pool fits in one heap.                                              *)
LEMMA OneHeap ==
  ASSUME NEW a \in Nat, NEW size \in Nat \ {0}, Extent(a, size) \subseteq Usable
  PROVE  \E h \in Regions : a \in Data(h) /\ Extent(a, size) \subseteq Data(h)
<1>0. BlockHeader \in Nat \ {0} /\ HeapHeader \in Nat \ {0}
  BY HeapTable
<1>1. a \in Extent(a, size)
  BY <1>0 DEF Extent
<1>2. PICK h \in Regions : a \in Data(h)
  BY <1>1 DEF Usable
<1>3. ASSUME NEW x \in Extent(a, size) PROVE x \in Data(h)
  <2>1. x \in Int /\ a - BlockHeader <= x /\ x <= a + size - 1
    BY <1>0 DEF Extent
  <2>2. CASE x >= EaEnd(h)
    <3>1. EaEnd(h) \in Extent(a, size)
      BY <2>1, <2>2, <1>0, <1>2, RegionNumbers DEF Extent, Data
    <3>2. PICK k \in Regions : EaEnd(h) \in Data(k)
      BY <3>1 DEF Usable
    <3>3. h # k
      BY <3>2, RegionNumbers, <1>0 DEF Data
    <3>4. EaEnd(h) <= EaStart(k) \/ EaEnd(k) <= EaStart(h)
      BY <3>3, HeapTable
    <3>. QED  BY <3>2, <3>4, <1>2, <1>0, RegionNumbers, HeapTable DEF Data
  <2>3. CASE x < EaStart(h) + HeapHeader
    <3>1. EaStart(h) + HeapHeader - 1 \in Extent(a, size)
      BY <2>1, <2>3, <1>0, <1>2, RegionNumbers DEF Extent, Data
    <3>2. PICK k \in Regions : EaStart(h) + HeapHeader - 1 \in Data(k)
      BY <3>1 DEF Usable
    <3>3. h # k
      BY <3>2, RegionNumbers, <1>0 DEF Data
    <3>4. EaEnd(h) <= EaStart(k) \/ EaEnd(k) <= EaStart(h)
      BY <3>3, HeapTable
    <3>. QED  BY <3>2, <3>4, <1>2, <1>0, RegionNumbers, HeapTable DEF Data
  <2>. QED  BY <2>1, <2>2, <2>3, <1>0, RegionNumbers DEF Data
<1>. QED  BY <1>2, <1>3

-----------------------------------------------------------------------------
(* Sizes.                                                                  *)

LEMMA AlignmentPositive ==
  ASSUME NEW align \in Int
  PROVE  Alignment(align) \in Nat \ {0}
BY DEF Alignment

(* allocEx asks for a size in range, and for what Allocator says a sound   *)
(* request needs: no less than its size.                                   *)
LEMMA AllocSizeBounds ==
  ASSUME NEW r \in Requests
  PROVE  /\ AllocSize(r) \in Nat
         /\ BlockSize(AllocSize(r)) \in 1..AddressSpace
         /\ Promise!Sound(r) => /\ r.size <= AllocSize(r)
                                /\ BlockSize(AllocSize(r)) = AllocSize(r)
                                /\ AllocSize(r) = Promise!Needs(r)
<1>1. /\ r.size \in Nat /\ r.size < AddressSpace /\ r.align \in Int
      /\ AddressSpace \in Nat /\ AddressSpace > 0
      /\ r.align <= AddressSpace /\ -r.align <= AddressSpace
  BY CallsAssumption, HeapTable
<1> DEFINE al == Alignment(r.align)
           up == Wrap(r.size + al - 1)
<1>2. al \in Nat \ {0} /\ (r.align # 0 => al <= AddressSpace)
  BY <1>1 DEF Alignment
<1>3. CASE r.align = 0
  BY <1>1, <1>3 DEF AllocSize, BlockSize, Promise!Sound
<1>4. CASE r.align # 0
  <2>1. up \in Nat /\ up < AddressSpace
    BY <1>1, <1>2, <1>4 DEF Wrap
  <2>2. up % al \in Nat /\ up % al < al /\ up % al <= up
    <3> HIDE DEF al, up
    <3>. QED BY <2>1, <1>2
  <2>3. AllocSize(r) = up - (up % al)
    BY <1>4 DEF AllocSize
  <2>4. AllocSize(r) \in Nat /\ AllocSize(r) < AddressSpace
    <3> HIDE DEF al, up
    <3>. QED BY <2>1, <2>2, <2>3, <1>1
  <2>5. Promise!Alignment(r.align) = al
    BY DEF Promise!Alignment, Alignment
  <2>6. ASSUME Promise!Sound(r)
        PROVE  r.size <= AllocSize(r) /\ AllocSize(r) > 0 /\ AllocSize(r) = Promise!Needs(r)
    <3>1. up = r.size + al - 1 /\ r.size > 0
      BY <2>5, <2>6, <1>1, <1>2 DEF Wrap, Promise!Sound
    <3>2. AllocSize(r) = Promise!Needs(r)
      BY <2>3, <2>5, <3>1 DEF Promise!Needs
    <3> HIDE DEF al, up
    <3>. QED  BY <3>1, <3>2, <2>2, <2>3, <1>1, <1>2
  <2>. QED  BY <2>4, <2>6, <1>1 DEF BlockSize
<1>. QED  BY <1>3, <1>4
-----------------------------------------------------------------------------
(* The inductive invariant.                                                *)

(* The skip of allocEx leaves out the heaps that may not serve a request.  *)
LEMMA SkippedIsNotVideo ==
  ASSUME NEW h \in Regions, NEW r
  PROVE  Skipped(h, r) <=> ~MayServe(h, r)
<1>1. /\ EaStart(h) \in Nat /\ EaEnd(h) \in Nat /\ HeapHeader \in Nat \ {0}
      /\ EaStart(h) + HeapHeader < EaEnd(h)
      /\ MEMORY_START_VIDEO \in Nat /\ MEMORY_END_VIDEO \in Nat
  BY RegionNumbers, HeapTable, CallsAssumption
<1>2. IF EaStart(h) >= MEMORY_START_VIDEO /\ EaStart(h) <= MEMORY_END_VIDEO
        THEN EaEnd(h) <= MEMORY_END_VIDEO
        ELSE EaEnd(h) <= MEMORY_START_VIDEO \/ MEMORY_END_VIDEO < EaStart(h)
  BY VideoTable
<1>3. CASE EaStart(h) >= MEMORY_START_VIDEO /\ EaStart(h) <= MEMORY_END_VIDEO
  BY <1>1, <1>2, <1>3 DEF Skipped, MayServe, Data, VideoMemory
<1>4. CASE ~(EaStart(h) >= MEMORY_START_VIDEO /\ EaStart(h) <= MEMORY_END_VIDEO)
  <2>1. EaStart(h) + HeapHeader \in Data(h) /\ EaStart(h) + HeapHeader \notin VideoMemory
    BY <1>1, <1>2, <1>4 DEF Data, VideoMemory
  <2>. QED  BY <2>1, <1>1, <1>4 DEF Skipped, MayServe
<1>. QED  BY <1>3, <1>4

(* What fits in a heap is in its data, clear of its blocks.                *)
LEMMA FitsInside ==
  ASSUME NEW h \in Regions, NEW size, NEW align, NEW a \in Fits(h, size, align)
  PROVE  /\ a \in Data(h) /\ a \in Nat
         /\ Extent(a, BlockSize(size)) \subseteq Data(h)
         /\ \A b \in blocks[h] :
              Extent(a, BlockSize(size)) \cap Extent(b.start, b.size) = {}
BY DataDisjoint DEF Fits, Unused

(* A heap is finite, and sizes reported are numbers.                       *)
LEMMA FiniteHeap ==
  ASSUME NEW h \in Regions, NEW align
  PROVE  /\ IsFiniteSet(Unused(h)) /\ MEMGetTotalFreeSizeForExpHeap(h) \in Nat
         /\ IsFiniteSet(FittingSizes(h, align))
         /\ MEMGetAllocatableSizeForExpHeapEx(h, align) \in Nat
<1>1. /\ EaStart(h) + HeapHeader \in Int /\ EaEnd(h) - 1 \in Int
      /\ EaEnd(h) - EaStart(h) \in Int
  BY RegionNumbers, HeapTable
<1>2. IsFiniteSet(Data(h))
  BY <1>1, FS_Interval DEF Data
<1>3. IsFiniteSet(Unused(h))
  BY <1>2, FS_Subset DEF Unused
<1>4. IsFiniteSet(1..(EaEnd(h) - EaStart(h)))
  BY <1>1, FS_Interval
<1>5. IsFiniteSet(FittingSizes(h, align))
  BY <1>4, FS_Subset DEF FittingSizes
<1>. QED
  BY <1>3, <1>5, FS_CardinalityType
     DEF MEMGetTotalFreeSizeForExpHeap, MEMGetAllocatableSizeForExpHeapEx

LEMMA TypeInit == Init => HInv
<1> SUFFICES ASSUME Init PROVE HInv
  OBVIOUS
<1> USE DEF Init
<1>1. HeapsTypeOK
  BY RegionNumbers DEF HeapsTypeOK, NoRequest, Queries, Null
<1>2. BlocksInside
  BY DEF BlocksInside
<1>3. FreePast /\ FailureIsTruthful
  BY DEF FreePast, FailureIsTruthful
<1>. QED  BY <1>1, <1>2, <1>3 DEF HInv

LEMMA TypeStep ==
  ASSUME HInv, NEW t \in Threads, Calls(t) \/ Running(t)
  PROVE  HeapsTypeOK'
<1> USE DEF HInv, HeapsTypeOK
<1>0. Len(mem_mapping) \in Nat /\ Regions = 1..Len(mem_mapping) /\ NoRequest.align = 1
      /\ NoRequest \in [size : Nat, align : Int, videoOnly : BOOLEAN] /\ Null \in Nat
  BY RegionNumbers DEF Regions, NoRequest, Null
<1>00. Requests \subseteq [size : Nat, align : Int, videoOnly : BOOLEAN]
  BY CallsAssumption, HeapTable
<1>1. CASE MemoryMappingAllocEx(t)
  BY <1>0, <1>00, <1>1 DEF MemoryMappingAllocEx, Call, Queries
<1>2. CASE MemoryMappingFree(t)
  <2>1. PICK p \in held \cup ForeignPointers :
          Call(t, "free", NoRequest, p) /\ held' = held \ {p}
    BY <1>2 DEF MemoryMappingFree
  <2>2. p \in Nat
    BY UsableIsNat, CallsAssumption
  <2>. QED  BY <2>1, <2>2, <1>0 DEF Call, Queries
<1>3. CASE MemoryMapping_MEMGetAllocatableSizeEx(t)
  <2>1. PICK r \in Requests : Call(t, "allocatable", AlignOnly(r), Null) /\ UNCHANGED held
    BY <1>3 DEF MemoryMapping_MEMGetAllocatableSizeEx
  <2>2. AlignOnly(r) \in [size : Nat, align : Int, videoOnly : BOOLEAN]
    BY <1>00 DEF AlignOnly, NoRequest
  <2>. QED  BY <2>1, <2>2, <1>0 DEF Call, Queries
<1>4. CASE MemoryMapping_GetFreeSpace(t)
  BY <1>0, <1>4 DEF MemoryMapping_GetFreeSpace, Call, Queries
<1>5. CASE SkipHeap(t) \/ HeapRefuses(t) \/ NotThisRegion(t)
  <2>1. idx[t] \in Regions /\ op[t] # "idle" /\ NextHeap(t) /\ UNCHANGED res
    BY <1>5 DEF SkipHeap, HeapRefuses, NotThisRegion, AtHeap
  <2>. QED  BY <1>0, <2>1 DEF NextHeap
<1>6. CASE AllocFromHeap(t)
  <2>1. PICK start \in Data(idx[t]) :
          /\ MEMAllocFromExpHeapEx(idx[t], start, AllocSize(request[t]), request[t].align)
          /\ held' = held \cup {start}
    BY <1>6 DEF AllocFromHeap
  <2>2. idx[t] \in Regions /\ request[t] \in Requests
    BY <1>6 DEF AllocFromHeap, AtHeap
  <2>3. start \in Nat /\ start \in Usable
    BY <2>2, DataDisjoint DEF Usable
  <2>4. BlockSize(AllocSize(request[t])) \in Nat \ {0}
    BY <2>2, AllocSizeBounds DEF BlockSize
  <2>5. blocks' \in [Regions -> SUBSET [start : Nat, size : Nat \ {0}]]
    BY <2>1, <2>2, <2>3, <2>4 DEF MEMAllocFromExpHeapEx
  <2>6. Return(t) /\ freedSince' \subseteq Threads /\ takenSince' \subseteq Threads
    BY <1>6 DEF AllocFromHeap, Others
  <2>. QED  BY <1>0, <2>1, <2>3, <2>5, <2>6 DEF Return
<1>7. CASE FreeToHeap(t)
  <2>1. blocks' \in [Regions -> SUBSET [start : Nat, size : Nat \ {0}]]
    BY <1>7 DEF FreeToHeap, MEMFreeToExpHeap
  <2>2. freedSince' \subseteq Threads /\ takenSince' \subseteq Threads
    BY <1>7 DEF FreeToHeap, Undisturbed, Others
  <2>. QED  BY <1>0, <1>7, <2>1, <2>2 DEF FreeToHeap, Return, Queries
<1>8. CASE AllocFails(t) \/ FreeNothing(t) \/ Answer(t)
  <2>1. Undisturbed(t) /\ UNCHANGED <<blocks, held>> /\ Return(t)
    BY <1>8 DEF AllocFails, FreeNothing, Answer
  <2>. QED  BY <1>0, <2>1 DEF Undisturbed, Return, Queries
<1>9. CASE AskAllocatable(t)
  <2>. DEFINE cur == MEMGetAllocatableSizeForExpHeapEx(idx[t], request[t].align)
  <2>1. cur \in Nat
    BY FiniteHeap, <1>9 DEF AskAllocatable, AtHeap
  <2>2. op[t] # "idle" /\ idx[t] \in Regions /\ NextHeap(t)
    BY <1>9 DEF AskAllocatable, AtHeap
  <2>3. res' \in [Threads -> Nat] /\ \A u \in Threads \ {t} : res'[u] = res[u]
    BY <1>9, <2>1 DEF AskAllocatable
  <2>4. \A u \in Threads : op'[u] = "idle" => idx'[u] = 1 /\ res'[u] = 0
    BY <2>2, <2>3 DEF NextHeap
  <2>5. idx' \in [Threads -> 1..(Len(mem_mapping) + 1)]
    BY <1>0, <2>2 DEF NextHeap
  <2>. QED  BY <2>2, <2>3, <2>4, <2>5 DEF NextHeap
<1>10. CASE AskFreeSpace(t)
  <2>. DEFINE cur == MEMGetTotalFreeSizeForExpHeap(idx[t])
  <2>1. cur \in Nat
    BY FiniteHeap, <1>10 DEF AskFreeSpace, AtHeap
  <2>2. op[t] # "idle" /\ idx[t] \in Regions /\ NextHeap(t)
    BY <1>10 DEF AskFreeSpace, AtHeap
  <2>3. res' \in [Threads -> Nat] /\ \A u \in Threads \ {t} : res'[u] = res[u]
    BY <1>10, <2>1 DEF AskFreeSpace
  <2>4. \A u \in Threads : op'[u] = "idle" => idx'[u] = 1 /\ res'[u] = 0
    BY <2>2, <2>3 DEF NextHeap
  <2>5. idx' \in [Threads -> 1..(Len(mem_mapping) + 1)]
    BY <1>0, <2>2 DEF NextHeap
  <2>. QED  BY <2>2, <2>3, <2>4, <2>5 DEF NextHeap
<1>. QED
  BY <1>1, <1>2, <1>3, <1>4, <1>5, <1>6, <1>7, <1>8, <1>9, <1>10
     DEF Calls, Running, MemoryMapping_allocEx, MemoryMapping_free
(* What a step does to the blocks: nothing, or one heap takes or loses one.*)
LEMMA BlocksStep ==
  ASSUME HInv, NEW t \in Threads, Calls(t) \/ Running(t)
  PROVE  \/ UNCHANGED blocks
         \/ AllocFromHeap(t)
         \/ FreeToHeap(t)
BY DEF Calls, Running, MemoryMapping_allocEx, MemoryMapping_free, MemoryMappingAllocEx,
       MemoryMappingFree, MemoryMapping_MEMGetAllocatableSizeEx, MemoryMapping_GetFreeSpace,
       Call, SkipHeap, HeapRefuses, AllocFails, FreeNothing, NotThisRegion, AskAllocatable,
       AskFreeSpace, Answer, NextHeap

LEMMA InsideStep ==
  ASSUME HInv, NEW t \in Threads, Calls(t) \/ Running(t)
  PROVE  BlocksInside'
<1> USE DEF HInv, HeapsTypeOK, BlocksInside
<1>1. CASE UNCHANGED blocks
  BY <1>1
<1>2. CASE AllocFromHeap(t)
  <2> DEFINE h == idx[t]
             size == AllocSize(request[t])
  <2>1. PICK start \in Data(h) : MEMAllocFromExpHeapEx(h, start, size, request[t].align)
    BY <1>2 DEF AllocFromHeap
  <2>2. h \in Regions /\ start \in Fits(h, size, request[t].align)
    BY <1>2, <2>1 DEF AllocFromHeap, AtHeap, MEMAllocFromExpHeapEx
  <2>3. Extent(start, BlockSize(size)) \subseteq Data(h)
    BY <2>2, FitsInside
  <2>4. blocks' = [blocks EXCEPT ![h] = @ \cup {[start |-> start, size |-> BlockSize(size)]}]
    BY <2>1 DEF MEMAllocFromExpHeapEx
  <2> HIDE DEF h, size
  <2>. QED  BY <2>2, <2>3, <2>4
<1>3. CASE FreeToHeap(t)
  BY <1>3 DEF FreeToHeap, MEMFreeToExpHeap, AtHeap
<1>. QED  BY <1>1, <1>2, <1>3, BlocksStep

(* The free of thread t passes a region only if its pointer is not inside. *)
LEMMA FreePastStep ==
  ASSUME HInv, NEW t \in Threads, Calls(t) \/ Running(t)
  PROVE  FreePast'
<1> USE DEF HInv, HeapsTypeOK, FreePast
<1>0. \A h \in Regions : h \in Nat /\ h >= 1
  BY RegionNumbers
<1>1. ASSUME NEW what, NEW r, NEW p, Call(t, what, r, p) PROVE FreePast'
  <2>1. /\ op[t] = "idle" /\ idx[t] = 1 /\ UNCHANGED idx
        /\ \A u \in Threads \ {t} : op'[u] = op[u] /\ pointer'[u] = pointer[u]
    BY <1>1 DEF Call
  <2>2. SUFFICES ASSUME NEW u \in Threads, op'[u] = "free", NEW h \in Regions, h < idx[u]
                 PROVE  ~InRegion(h, pointer'[u])
    BY <2>1
  <2>3. u # t
    BY <1>0, <2>1, <2>2
  <2>. QED  BY <2>1, <2>2, <2>3
<1>2. CASE Return(t)
  BY <1>2 DEF Return
<1>3. CASE NextHeap(t) /\ (op[t] = "free" => ~InRegion(idx[t], pointer[t]))
  BY <1>0, <1>3 DEF NextHeap
<1>. QED
  BY <1>1, <1>2, <1>3
     DEF Calls, Running, MemoryMapping_allocEx, MemoryMapping_free, MemoryMappingAllocEx,
         MemoryMappingFree, MemoryMapping_MEMGetAllocatableSizeEx, MemoryMapping_GetFreeSpace,
         SkipHeap, AllocFromHeap, HeapRefuses, AllocFails, FreeNothing, NotThisRegion,
         FreeToHeap, AskAllocatable, AskFreeSpace, Answer, AtHeap, Queries

(* Taking blocks makes no room.                                            *)
LEMMA NoRoomStays ==
  ASSUME NEW h \in Regions, NEW size, NEW align, blocks[h] \subseteq blocks'[h]
  PROVE  Fits(h, size, align)' \subseteq Fits(h, size, align)
<1>1. Unused(h)' \subseteq Unused(h)
  BY DEF Unused
<1>. QED  BY <1>1 DEF Fits
(* A step of t leaves the calls of the others alone ...                    *)
LEMMA OthersUntouched ==
  ASSUME HInv, NEW t \in Threads, Calls(t) \/ Running(t), NEW u \in Threads \ {t}
  PROVE  /\ op'[u] = op[u] /\ idx'[u] = idx[u] /\ request'[u] = request[u]
         /\ pointer'[u] = pointer[u] /\ res'[u] = res[u]
<1> USE DEF HInv, HeapsTypeOK
<1>1. CASE Calls(t)
  BY <1>1 DEF Calls, MemoryMappingAllocEx, MemoryMappingFree, Call,
              MemoryMapping_MEMGetAllocatableSizeEx, MemoryMapping_GetFreeSpace
<1>2. CASE Return(t)
  BY <1>2 DEF Return
<1>3. CASE NextHeap(t) /\ (UNCHANGED res \/ AskAllocatable(t) \/ AskFreeSpace(t))
  BY <1>3 DEF NextHeap, AskAllocatable, AskFreeSpace
<1>. QED
  BY <1>1, <1>2, <1>3
     DEF Running, MemoryMapping_allocEx, MemoryMapping_free, SkipHeap, AllocFromHeap,
         HeapRefuses, AllocFails, FreeNothing, NotThisRegion, FreeToHeap, AskAllocatable,
         AskFreeSpace, Answer

(* ... and tells those that look through the heaps when it frees a block,  *)
(* or takes one.                                                           *)
LEMMA OthersTold ==
  ASSUME HInv, NEW t \in Threads, Calls(t) \/ Running(t),
         NEW u \in Threads \ {t}, op[u] \notin {"idle", "free"}
  PROVE  /\ u \notin freedSince' =>
              u \notin freedSince /\ \A h \in Regions : blocks[h] \subseteq blocks'[h]
         /\ u \notin takenSince' =>
              u \notin takenSince /\ \A h \in Regions : blocks'[h] \subseteq blocks[h]
<1> USE DEF HInv, HeapsTypeOK
<1>1. CASE UNCHANGED <<blocks, freedSince, takenSince>>
  BY <1>1
<1>2. CASE UNCHANGED blocks /\ Undisturbed(t)
  BY <1>2 DEF Undisturbed
<1>3. CASE AllocFromHeap(t)
  <2>1. /\ freedSince' = freedSince \ {t} /\ u \in takenSince'
        /\ \A h \in Regions : blocks[h] \subseteq blocks'[h]
    BY <1>3 DEF AllocFromHeap, Others, MEMAllocFromExpHeapEx
  <2>. QED  BY <2>1
<1>4. CASE FreeToHeap(t) /\ blocks' # blocks
  <2>1. /\ u \in freedSince' /\ takenSince' = takenSince \ {t}
        /\ \A h \in Regions : blocks'[h] \subseteq blocks[h]
    BY <1>4 DEF FreeToHeap, Others, MEMFreeToExpHeap
  <2>. QED  BY <2>1
<1>5. CASE FreeToHeap(t) /\ blocks' = blocks
  BY <1>2, <1>5 DEF FreeToHeap
<1>. QED
  BY <1>1, <1>2, <1>3, <1>4, <1>5
     DEF Calls, Running, MemoryMapping_allocEx, MemoryMapping_free, MemoryMappingAllocEx,
         MemoryMappingFree, MemoryMapping_MEMGetAllocatableSizeEx, MemoryMapping_GetFreeSpace,
         Call, SkipHeap, HeapRefuses, AllocFails, FreeNothing, NotThisRegion, AskAllocatable,
         AskFreeSpace, Answer, NextHeap

(* What keeps a thread in allocEx, and on which grounds.                   *)
LEMMA StaysInAlloc ==
  ASSUME HInv, NEW t \in Threads, Calls(t) \/ Running(t), op'[t] = "alloc"
  PROVE  \/ idx'[t] = 1
         \/ /\ op[t] = "alloc" /\ idx[t] \in Regions /\ idx'[t] = idx[t] + 1
            /\ request'[t] = request[t] /\ UNCHANGED <<blocks, freedSince>>
            /\ \/ Skipped(idx[t], request[t])
               \/ Fits(idx[t], AllocSize(request[t]), request[t].align) = {}
<1> USE DEF HInv, HeapsTypeOK
<1>1. CASE Calls(t)
  BY <1>1 DEF Calls, MemoryMappingAllocEx, MemoryMappingFree, Call,
              MemoryMapping_MEMGetAllocatableSizeEx, MemoryMapping_GetFreeSpace
<1>2. CASE SkipHeap(t) \/ HeapRefuses(t)
  BY <1>2 DEF SkipHeap, HeapRefuses, NextHeap, AtHeap
<1>3. CASE Return(t)
  BY <1>3 DEF Return
<1>4. CASE op[t] # "alloc" /\ UNCHANGED op
  BY <1>4
<1>. QED
  BY <1>1, <1>2, <1>3, <1>4
     DEF Running, MemoryMapping_allocEx, MemoryMapping_free, AllocFromHeap, AllocFails,
         FreeNothing, NotThisRegion, FreeToHeap, AskAllocatable, AskFreeSpace, Answer,
         AtHeap, NextHeap

LEMMA FailureStep ==
  ASSUME HInv, NEW t \in Threads, Calls(t) \/ Running(t)
  PROVE  FailureIsTruthful'
<1> USE DEF HInv, HeapsTypeOK
<1>0. \A h \in Regions : h \in Nat /\ h >= 1
  BY RegionNumbers
<1>1. SUFFICES ASSUME NEW u \in Threads, NEW r \in Requests,
                      op'[u] = "alloc", request'[u] = r, u \notin freedSince',
                      NEW h \in Regions, h < idx'[u], MayServe(h, r)
               PROVE  Fits(h, AllocSize(r), r.align)' = {}
  BY DEF FailureIsTruthful
<1>2. CASE u # t
  <2>1. op[u] = "alloc" /\ idx'[u] = idx[u] /\ request[u] = r
    BY <1>1, <1>2, OthersUntouched
  <2>2. u \notin freedSince /\ blocks[h] \subseteq blocks'[h]
    BY <1>1, <1>2, <2>1, OthersTold
  <2>3. Fits(h, AllocSize(r), r.align) = {}
    BY <1>1, <2>1, <2>2 DEF FailureIsTruthful
  <2>. QED  BY <2>2, <2>3, NoRoomStays
<1>3. CASE u = t
  <2>1. /\ op[t] = "alloc" /\ idx[t] \in Regions /\ idx'[t] = idx[t] + 1
        /\ request[t] = r /\ UNCHANGED <<blocks, freedSince>>
        /\ \/ Skipped(idx[t], r)
           \/ Fits(idx[t], AllocSize(r), r.align) = {}
    <3>1. op'[t] = "alloc" /\ request'[t] = r /\ idx'[t] # 1
      BY <1>0, <1>1, <1>3
    <3>2. /\ op[t] = "alloc" /\ idx[t] \in Regions /\ idx'[t] = idx[t] + 1
          /\ request'[t] = request[t] /\ UNCHANGED <<blocks, freedSince>>
          /\ \/ Skipped(idx[t], request[t])
             \/ Fits(idx[t], AllocSize(request[t]), request[t].align) = {}
      BY <3>1, StaysInAlloc
    <3>. QED  BY <3>1, <3>2
  <2>2. Fits(h, AllocSize(r), r.align) = {}
    <3>1. CASE h < idx[t]
      BY <1>1, <1>3, <2>1, <3>1 DEF FailureIsTruthful
    <3>2. CASE h = idx[t]
      BY <1>1, <1>3, <2>1, <3>2, SkippedIsNotVideo
    <3>. QED  BY <1>0, <1>1, <1>3, <2>1, <3>1, <3>2
  <2>. QED  BY <2>1, <2>2, NoRoomStays
<1>. QED  BY <1>2, <1>3

(* The inductive invariant holds.                                          *)
THEOREM HInvHolds == Spec => []HInv
<1>1. HInv /\ [Next]_vars => HInv'
  <2> SUFFICES ASSUME HInv, [Next]_vars PROVE HInv'
    OBVIOUS
  <2>1. CASE UNCHANGED vars
    <3> USE <2>1 DEF HInv, vars, call_vars
    <3>1. HeapsTypeOK'
      BY DEF HeapsTypeOK
    <3>2. BlocksInside' /\ FreePast'
      BY DEF BlocksInside, FreePast
    <3>3. FailureIsTruthful'
      BY DEF FailureIsTruthful, Fits, Unused
    <3>. QED  BY <3>1, <3>2, <3>3
  <2>2. ASSUME NEW t \in Threads, Calls(t) \/ Running(t) PROVE HInv'
    BY <2>2, TypeStep, InsideStep, FreePastStep, FailureStep DEF HInv
  <2>. QED  BY <2>1, <2>2 DEF Next
<1>. QED  BY <1>1, TypeInit, PTL DEF Spec

(* Type correctness: every variable of the calls and heaps has its type.   *)
THEOREM HeapsTypeCorrect == Spec => []HeapsTypeOK
BY HInvHolds, PTL DEF HInv

(* allocEx has passed over a heap only if that heap has no room for the    *)
(* request, or another thread freed a block since the call began.          *)
THEOREM FailsForWantOfRoom == Spec => []FailureIsTruthful
BY HInvHolds, PTL DEF HInv
-----------------------------------------------------------------------------
(* Every block has one owner.                                              *)

(* A block starts in one heap only, and not where a foreign pointer leads. *)
LEMMA StartsInside ==
  ASSUME HInv, NEW h \in Regions, NEW a \in Starts(h)
  PROVE  /\ a \in Data(h) /\ a \in Usable /\ a \in Nat /\ a # Null
         /\ a \notin ForeignPointers
         /\ \A k \in Regions : InRegion(k, a) => h = k
<1>1. PICK b \in blocks[h] : b.start = a
  BY DEF Starts
<1>2. b.start \in Nat /\ b.size \in Nat \ {0}
  BY DEF HInv, HeapsTypeOK
<1>3. a \in Extent(b.start, b.size)
  BY <1>1, <1>2, HeapTable DEF Extent
<1>4. a \in Data(h)
  BY <1>1, <1>3 DEF HInv, BlocksInside
<1>5. InRegion(h, a)
  BY <1>4, DataDisjoint
<1>6. a \in (EaStart(h) + 1)..(EaEnd(h) - 1) /\ a # Null
  BY <1>1, <1>2, <1>5, RegionNumbers DEF InRegion, Null
<1>. QED  BY <1>1, <1>2, <1>4, <1>6, DataDisjoint, CallsAssumption DEF Usable

(* What MEMFindContainHeap answers.                                        *)
LEMMA FindIsContaining ==
  ASSUME NEW h \in Regions, NEW p \in Data(h)
  PROVE  my_MEMFindContainHeap(p) = h
<1>1. h \in Nat /\ h >= 1 /\ p \in Nat
  BY RegionNumbers, DataDisjoint
<1>2. \A k \in Containing(p) : k = h
  <2> SUFFICES ASSUME NEW k \in Containing(p) PROVE k = h
    OBVIOUS
  <2>1. k \in Regions /\ EaStart(k) \in Nat /\ EaEnd(k) \in Nat
    BY RegionNumbers DEF Containing
  <2>2. InRegion(k, p)
    BY <1>1, <2>1, HeapTable DEF Containing, InRegion
  <2>. QED  BY <2>1, <2>2, DataDisjoint
<1>3. h \in Containing(p)
  BY <1>1, RegionNumbers, HeapTable DEF Data, Containing
<1>4. Containing(p) = {h}
  BY <1>2, <1>3
<1>5. MemoryMapping_MEMFindContainHeap(p) = h
  BY <1>1, <1>4 DEF MemoryMapping_MEMFindContainHeap
<1>. QED  BY <1>1, <1>5 DEF my_MEMFindContainHeap, NoHeap

LEMMA FindLeavesForeign ==
  ASSUME NEW p \in ForeignPointers
  PROVE  my_MEMFindContainHeap(p) = SystemHeap
<1>1. p \in Nat
  BY CallsAssumption
<1>2. ASSUME NEW h \in Containing(p) PROVE FALSE
  <2>1. h \in Regions /\ EaStart(h) \in Nat /\ EaEnd(h) \in Nat
    BY RegionNumbers DEF Containing
  <2>2. p \in (EaStart(h) + 1)..(EaEnd(h) - 1)
    BY <1>1, <1>2, <2>1, HeapTable DEF Containing
  <2>. QED  BY <2>1, <2>2, CallsAssumption
<1>. QED
  BY <1>2 DEF my_MEMFindContainHeap, MemoryMapping_MEMFindContainHeap,
              real_MEMFindContainHeap

(* The heap MEMFindContainHeap names for an address inside a block is the  *)
(* one the block came from, for every table and whatever was allocated.    *)
THEOREM FoundWhereAllocated == Spec => []BlockFoundInItsHeap
<1>1. HInv => BlockFoundInItsHeap
  <2> SUFFICES ASSUME HInv PROVE BlockFoundInItsHeap
    OBVIOUS
  <2>1. ASSUME NEW h \in Regions, NEW b \in blocks[h],
               NEW p \in b.start..(b.start + b.size - 1)
        PROVE  my_MEMFindContainHeap(p) = h
    <3>1. b.start \in Nat /\ b.size \in Nat \ {0}
      BY DEF HInv, HeapsTypeOK
    <3>2. p \in Extent(b.start, b.size)
      BY <3>1, HeapTable DEF Extent
    <3>3. p \in Data(h)
      BY <3>2 DEF HInv, BlocksInside
    <3>. QED  BY <3>3, FindIsContaining
  <2>. QED  BY <2>1, FindLeavesForeign DEF BlockFoundInItsHeap
<1>. QED  BY <1>1, HInvHolds, PTL

LEMMA UsableIsNotForeign ==
  ASSUME NEW a \in Usable
  PROVE  a \notin ForeignPointers
<1>1. PICK h \in Regions : a \in Data(h)
  BY DEF Usable
<1>2. a \in Nat /\ InRegion(h, a)
  BY <1>1, DataDisjoint
<1>3. a \in (EaStart(h) + 1)..(EaEnd(h) - 1)
  BY <1>2, RegionNumbers DEF InRegion
<1>. QED  BY <1>3, CallsAssumption

(* Steps that leave the blocks, the pointers held and the pointers on      *)
(* their way back alone.                                                   *)
LEMMA OwnedKept ==
  ASSUME EveryBlockOwned, UNCHANGED <<blocks, held>>, Returning' = Returning,
         \A t \in Returning : pointer'[t] = pointer[t] /\ idx'[t] = idx[t]
  PROVE  EveryBlockOwned'
<1>1. \A h \in Regions : Starts(h)' = Starts(h)
  BY DEF Starts
<1>2. \A a \in Usable :
        (\E h \in Regions : a \in Starts(h)') <=>
          a \in held' \/ \E t \in Returning' : pointer'[t] = a
  BY <1>1 DEF EveryBlockOwned
<1>3. \A t \in Returning' :
        /\ pointer'[t] \notin held'
        /\ \A u \in Returning' : pointer'[t] = pointer'[u] => t = u
        /\ \E h \in Regions : h >= idx'[t] /\ pointer'[t] \in Starts(h)'
  BY <1>1 DEF EveryBlockOwned
<1>. QED  BY <1>2, <1>3 DEF EveryBlockOwned

LEMMA OwnedByTaker ==
  ASSUME HInv, EveryBlockOwned, NEW t \in Threads, AllocFromHeap(t)
  PROVE  EveryBlockOwned'
<1>1. PICK h \in Regions, start \in Nat, size \in Nat \ {0} :
        /\ start \in Data(h) /\ start \in Unused(h)
        /\ held' = held \cup {start}
        /\ blocks' = [blocks EXCEPT ![h] = @ \cup {[start |-> start, size |-> size]}]
  <2>1. PICK start \in Data(idx[t]) :
          /\ MEMAllocFromExpHeapEx(idx[t], start, AllocSize(request[t]), request[t].align)
          /\ held' = held \cup {start}
    BY DEF AllocFromHeap
  <2>2. idx[t] \in Regions /\ request[t] \in Requests
    BY DEF AllocFromHeap, AtHeap, HInv, HeapsTypeOK
  <2>3. BlockSize(AllocSize(request[t])) \in Nat \ {0}
    BY <2>2, AllocSizeBounds DEF BlockSize
  <2>. QED  BY <2>1, <2>2, <2>3, DataDisjoint DEF MEMAllocFromExpHeapEx, Fits
<1>2. start \in Usable /\ start \in Nat
  BY <1>1, DataDisjoint DEF Usable
<1>3. ASSUME NEW k \in Regions, start \in Starts(k) PROVE FALSE
  <2>1. h = k
    BY <1>1, <1>3, StartsInside, DataDisjoint
  <2>2. PICK b \in blocks[h] : b.start = start
    BY <1>3, <2>1 DEF Starts
  <2>3. b.size \in Nat \ {0} /\ BlockHeader \in Nat
    BY <2>2, HeapTable DEF HInv, HeapsTypeOK
  <2>4. start \in Extent(b.start, b.size)
    BY <1>2, <2>2, <2>3 DEF Extent
  <2>. QED  BY <1>1, <2>2, <2>4 DEF Unused
<1>4. /\ Starts(h)' = Starts(h) \cup {start}
      /\ \A k \in Regions \ {h} : Starts(k)' = Starts(k)
  <2> DEFINE new == [start |-> start, size |-> size]
  <2>1. blocks'[h] = blocks[h] \cup {new} /\ \A k \in Regions \ {h} : blocks'[k] = blocks[k]
    BY <1>1 DEF HInv, HeapsTypeOK
  <2>2. new.start = start
    OBVIOUS
  <2> HIDE DEF new
  <2>3. {b.start : b \in blocks[h] \cup {new}} = {b.start : b \in blocks[h]} \cup {start}
    BY <2>2
  <2>. QED  BY <2>1, <2>3 DEF Starts
<1>5. /\ Returning' = Returning
      /\ \A u \in Returning : pointer'[u] = pointer[u] /\ idx'[u] = idx[u]
  BY DEF AllocFromHeap, AtHeap, Return, Returning, HInv, HeapsTypeOK
<1>6. \A u \in Returning : pointer[u] # start
  BY <1>3 DEF EveryBlockOwned
<1>7. \A a \in Usable :
        (\E k \in Regions : a \in Starts(k)') <=>
          a \in held' \/ \E u \in Returning' : pointer'[u] = a
  <2> TAKE a \in Usable
  <2>1. (\E k \in Regions : a \in Starts(k)') <=>
          a = start \/ \E k \in Regions : a \in Starts(k)
    BY <1>1, <1>4
  <2>2. (\E u \in Returning' : pointer'[u] = a) <=> \E u \in Returning : pointer[u] = a
    BY <1>5
  <2>. QED  BY <1>1, <2>1, <2>2 DEF EveryBlockOwned
<1>8. \A u \in Returning' :
        /\ pointer'[u] \notin held'
        /\ \A v \in Returning' : pointer'[u] = pointer'[v] => u = v
        /\ \E k \in Regions : k >= idx'[u] /\ pointer'[u] \in Starts(k)'
  BY <1>1, <1>4, <1>5, <1>6 DEF EveryBlockOwned
<1>. QED  BY <1>7, <1>8 DEF EveryBlockOwned

(* The block a free gives back: it starts in the heap the loop has reached.*)
LEMMA ReturnedHere ==
  ASSUME HInv, EveryBlockOwned, NEW t \in Threads, FreeToHeap(t),
         NEW h \in Regions, h = idx[t], NEW p \in Nat, p = pointer[t]
  PROVE  /\ t \in Returning /\ p \in Starts(h) /\ p \notin held
         /\ blocks' = [blocks EXCEPT ![h] = {b \in @ : b.start # p}]
         /\ Starts(h)' = Starts(h) \ {p}
         /\ \A k \in Regions \ {h} : p \notin Starts(k) /\ Starts(k)' = Starts(k)
<1>1. /\ op[t] = "free" /\ InRegion(h, p)
      /\ blocks' = [blocks EXCEPT ![h] = {b \in @ : b.start # p}]
  BY DEF FreeToHeap, AtHeap, MEMFreeToExpHeap
<1>2. t \in Returning
  <2>1. p \in (EaStart(h) + 1)..(EaEnd(h) - 1)
    BY <1>1, RegionNumbers DEF InRegion
  <2>. QED  BY <1>1, <2>1, CallsAssumption DEF Returning
<1>3. \A k \in Regions : p \in Starts(k) => k = h
  BY <1>1, StartsInside
<1>4. /\ Starts(h)' = Starts(h) \ {p}
      /\ \A k \in Regions \ {h} : Starts(k)' = Starts(k)
  BY <1>1 DEF Starts, HInv, HeapsTypeOK
<1>. QED  BY <1>1, <1>2, <1>3, <1>4 DEF EveryBlockOwned

LEMMA OwnedByNobody ==
  ASSUME HInv, EveryBlockOwned, NEW t \in Threads, FreeToHeap(t)
  PROVE  EveryBlockOwned'
<1>1. PICK h \in Regions, p \in Nat : h = idx[t] /\ p = pointer[t]
  BY DEF FreeToHeap, AtHeap, HInv, HeapsTypeOK
<1>2. /\ t \in Returning /\ p \in Starts(h) /\ p \notin held
      /\ Starts(h)' = Starts(h) \ {p}
      /\ \A k \in Regions \ {h} : p \notin Starts(k) /\ Starts(k)' = Starts(k)
  BY <1>1, ReturnedHere
<1>3. /\ Returning' = Returning \ {t} /\ held' = held
      /\ \A u \in Returning \ {t} : pointer'[u] = pointer[u] /\ idx'[u] = idx[u]
  BY DEF FreeToHeap, AtHeap, Return, Returning, HInv, HeapsTypeOK
<1>4. \A u \in Returning \ {t} : pointer[u] # p
  BY <1>1, <1>2 DEF EveryBlockOwned
<1>5. \A a \in Usable :
        (\E k \in Regions : a \in Starts(k)') <=>
          a \in held' \/ \E u \in Returning' : pointer'[u] = a
  <2> TAKE a \in Usable
  <2>1. (\E k \in Regions : a \in Starts(k)') <=> a # p /\ \E k \in Regions : a \in Starts(k)
    BY <1>2
  <2>2. (\E u \in Returning' : pointer'[u] = a) <=> a # p /\ \E u \in Returning : pointer[u] = a
    BY <1>1, <1>2, <1>3, <1>4
  <2>. QED  BY <1>2, <1>3, <2>1, <2>2 DEF EveryBlockOwned
<1>6. \A u \in Returning' :
        /\ pointer'[u] \notin held'
        /\ \A v \in Returning' : pointer'[u] = pointer'[v] => u = v
        /\ \E k \in Regions : k >= idx'[u] /\ pointer'[u] \in Starts(k)'
  BY <1>2, <1>3, <1>4 DEF EveryBlockOwned
<1>. QED  BY <1>5, <1>6 DEF EveryBlockOwned

LEMMA OwnedByCaller ==
  ASSUME HInv, EveryBlockOwned, NEW t \in Threads, MemoryMappingFree(t)
  PROVE  EveryBlockOwned'
<1>1. PICK p \in held \cup ForeignPointers :
        Call(t, "free", NoRequest, p) /\ held' = held \ {p}
  BY DEF MemoryMappingFree
<1>2. /\ op[t] = "idle" /\ op' = [op EXCEPT ![t] = "free"] /\ UNCHANGED <<blocks, idx>>
      /\ pointer' = [pointer EXCEPT ![t] = p] /\ idx[t] = 1 /\ t \notin Returning
      /\ op \in [Threads -> {"idle", "alloc", "free"} \cup Queries]
      /\ pointer \in [Threads -> Nat] /\ held \subseteq Usable
  BY <1>1 DEF Call, Returning, HInv, HeapsTypeOK
<1>3. CASE p \in ForeignPointers
  <2>1. held' = held
    BY <1>1, <1>2, <1>3, UsableIsNotForeign
  <2>2. Returning' = Returning /\ \A u \in Returning : pointer'[u] = pointer[u]
    BY <1>2, <1>3 DEF Returning
  <2>. QED  BY <1>2, <2>1, <2>2, OwnedKept
<1>4. CASE p \in held
  <2>1. p \in Usable /\ p \notin ForeignPointers
    BY <1>2, <1>4, UsableIsNotForeign
  <2>2. /\ Returning' = Returning \cup {t} /\ pointer'[t] = p
        /\ \A u \in Returning : u # t /\ pointer'[u] = pointer[u] /\ pointer[u] # p
    BY <1>2, <1>4, <2>1 DEF Returning, EveryBlockOwned
  <2>3. \A h \in Regions : Starts(h)' = Starts(h)
    BY <1>2 DEF Starts
  <2>4. PICK h \in Regions : p \in Starts(h)
    BY <1>4, <2>1 DEF EveryBlockOwned
  <2>5. h >= idx'[t]
    BY <1>2, RegionNumbers
  <2>6. \A a \in Usable :
          (\E k \in Regions : a \in Starts(k)') <=>
            a \in held' \/ \E u \in Returning' : pointer'[u] = a
    <3> TAKE a \in Usable
    <3>1. (\E u \in Returning' : pointer'[u] = a) <=>
            a = p \/ \E u \in Returning : pointer[u] = a
      BY <2>2
    <3>. QED  BY <1>1, <1>4, <2>3, <3>1 DEF EveryBlockOwned
  <2>7. \A u \in Returning' :
          /\ pointer'[u] \notin held'
          /\ \A v \in Returning' : pointer'[u] = pointer'[v] => u = v
          /\ \E k \in Regions : k >= idx'[u] /\ pointer'[u] \in Starts(k)'
    BY <1>1, <1>2, <2>2, <2>3, <2>4, <2>5 DEF EveryBlockOwned
  <2>. QED  BY <2>6, <2>7 DEF EveryBlockOwned
<1>. QED  BY <1>3, <1>4

(* The loop of free goes on only past regions the block is not in.         *)
LEMMA OwnedOnTheWay ==
  ASSUME HInv, EveryBlockOwned, NEW t \in Threads, NotThisRegion(t)
  PROVE  EveryBlockOwned'
<1>1. /\ idx' = [idx EXCEPT ![t] = idx[t] + 1] /\ UNCHANGED <<blocks, held, op, pointer>>
      /\ idx[t] \in Regions /\ ~InRegion(idx[t], pointer[t])
      /\ idx \in [Threads -> 1..(Len(mem_mapping) + 1)]
  BY DEF NotThisRegion, AtHeap, NextHeap, HInv, HeapsTypeOK
<1>2. Returning' = Returning /\ \A h \in Regions : Starts(h)' = Starts(h)
  BY <1>1 DEF Returning, Starts
<1>3. ASSUME NEW u \in Returning
      PROVE  \E h \in Regions : h >= idx'[u] /\ pointer[u] \in Starts(h)
  <2>1. PICK h \in Regions : h >= idx[u] /\ pointer[u] \in Starts(h)
    BY <1>3 DEF EveryBlockOwned
  <2>2. CASE u # t
    BY <1>1, <2>1, <2>2
  <2>3. CASE u = t
    <3>1. InRegion(h, pointer[t])
      BY <2>1, <2>3, StartsInside, DataDisjoint
    <3>2. h # idx[t]
      BY <1>1, <3>1
    <3>3. h >= idx'[t]
      BY <1>1, <2>1, <2>3, <3>2, RegionNumbers DEF Regions
    <3>. QED  BY <2>1, <2>3, <3>3
  <2>. QED  BY <2>2, <2>3
<1>4. \A u \in Returning' :
        /\ pointer'[u] \notin held'
        /\ \A v \in Returning' : pointer'[u] = pointer'[v] => u = v
        /\ \E k \in Regions : k >= idx'[u] /\ pointer'[u] \in Starts(k)'
  BY <1>1, <1>2, <1>3 DEF EveryBlockOwned
<1>5. \A a \in Usable :
        (\E k \in Regions : a \in Starts(k)') <=>
          a \in held' \/ \E u \in Returning' : pointer'[u] = a
  BY <1>1, <1>2 DEF EveryBlockOwned
<1>. QED  BY <1>4, <1>5 DEF EveryBlockOwned

(* A free that finds no heap had no block to give back.                    *)
LEMMA NothingToFree ==
  ASSUME HInv, EveryBlockOwned, NEW t \in Threads, FreeNothing(t)
  PROVE  t \notin Returning
<1>1. SUFFICES ASSUME t \in Returning PROVE FALSE
  OBVIOUS
<1>2. PICK h \in Regions : h >= idx[t] /\ pointer[t] \in Starts(h)
  BY <1>1 DEF EveryBlockOwned
<1>3. pointer[t] # Null
  BY <1>2, StartsInside
<1>4. idx[t] \in Regions
  BY <1>2, RegionNumbers DEF Regions, HInv, HeapsTypeOK
<1>. QED  BY <1>3, <1>4 DEF FreeNothing

LEMMA OwnedStep ==
  ASSUME HInv, EveryBlockOwned, NEW t \in Threads, Calls(t) \/ Running(t)
  PROVE  EveryBlockOwned'
<1>1. CASE /\ t \notin Returning /\ UNCHANGED <<blocks, held>>
           /\ op'[t] # "free" \/ pointer'[t] \in ForeignPointers
  <2>1. Returning' = Returning
    BY <1>1, OthersUntouched DEF Returning
  <2>. QED  BY <1>1, <2>1, OthersUntouched, OwnedKept DEF Returning
<1>2. CASE \/ MemoryMappingAllocEx(t) \/ MemoryMapping_MEMGetAllocatableSizeEx(t)
           \/ MemoryMapping_GetFreeSpace(t)
  BY <1>1, <1>2 DEF MemoryMappingAllocEx, MemoryMapping_MEMGetAllocatableSizeEx,
       MemoryMapping_GetFreeSpace, Call, Returning, HInv, HeapsTypeOK
<1>3. CASE SkipHeap(t) \/ HeapRefuses(t) \/ AskAllocatable(t) \/ AskFreeSpace(t)
  BY <1>1, <1>3 DEF SkipHeap, HeapRefuses, AskAllocatable, AskFreeSpace, AtHeap,
       NextHeap, Returning
<1>4. CASE AllocFails(t) \/ Answer(t)
  BY <1>1, <1>4 DEF AllocFails, Answer, Return, Queries, Returning, HInv, HeapsTypeOK
<1>5. CASE FreeNothing(t)
  BY <1>1, <1>5, NothingToFree DEF FreeNothing, Return, HInv, HeapsTypeOK
<1>. QED
  BY <1>2, <1>3, <1>4, <1>5, OwnedByCaller, OwnedByTaker, OwnedOnTheWay, OwnedByNobody
     DEF Calls, Running, MemoryMapping_allocEx, MemoryMapping_free

(* Every block is held by a user or on its way back in one thread; the     *)
(* loops of MemoryMapping_free and MemoryMapping_allocEx lose none.        *)
THEOREM BlocksHaveOneOwner == Spec => []EveryBlockOwned
<1>1. Init => EveryBlockOwned
  BY DEF Init, EveryBlockOwned, Returning, Starts
<1>2. HInv /\ EveryBlockOwned /\ [Next]_vars => EveryBlockOwned'
  <2> SUFFICES ASSUME HInv, EveryBlockOwned, [Next]_vars PROVE EveryBlockOwned'
    OBVIOUS
  <2>1. CASE UNCHANGED vars
    BY <2>1, OwnedKept DEF vars, call_vars, Returning
  <2>2. ASSUME NEW t \in Threads, Calls(t) \/ Running(t) PROVE EveryBlockOwned'
    BY <2>2, OwnedStep
  <2>. QED  BY <2>1, <2>2 DEF Next
<1>. QED  BY <1>1, <1>2, HInvHolds, PTL DEF Spec
-----------------------------------------------------------------------------
(* The heaps implement the pool of module Allocator.                       *)

(* Looking at another heap, or asking one, is not seen from outside.       *)
LEMMA SearchIsUnseen ==
  ASSUME UNCHANGED <<blocks, held, op, request, pointer, freedSince>>
  PROVE  UNCHANGED Promise!vars
BY DEF Promise!vars, Pool

LEMMA CallRefines ==
  ASSUME NEW t \in Threads, Calls(t), HInv
  PROVE  Promise!Next
<1> USE DEF Promise!Call, Call, Promise!Null, Null, Promise!NoRequest, NoRequest
<1>0. ASSUME UNCHANGED blocks PROVE Pool' = Pool
  BY <1>0 DEF Pool
<1>1. CASE MemoryMappingAllocEx(t)
  <2>1. PICK r \in Requests : Call(t, "alloc", r, Null) /\ UNCHANGED held
    BY <1>1 DEF MemoryMappingAllocEx
  <2>2. Promise!Alloc(t, r)
    BY <2>1, <1>0 DEF Promise!Alloc
  <2>. QED  BY <2>2 DEF Promise!Next
<1>2. CASE MemoryMappingFree(t)
  <2>1. PICK p \in held \cup ForeignPointers :
          Call(t, "free", NoRequest, p) /\ held' = held \ {p}
    BY <1>2 DEF MemoryMappingFree
  <2>2. p \in ForeignPointers \cup Usable
    BY DEF HInv, HeapsTypeOK
  <2>3. Promise!GiveBack(t, p)
    BY <2>1, <1>0 DEF Promise!GiveBack
  <2>. QED  BY <2>2, <2>3 DEF Promise!Next
<1>3. CASE MemoryMapping_MEMGetAllocatableSizeEx(t)
  <2>1. PICK r \in Requests : Call(t, "allocatable", AlignOnly(r), Null) /\ UNCHANGED held
    BY <1>3 DEF MemoryMapping_MEMGetAllocatableSizeEx
  <2>2. Promise!Query(t, "allocatable", r)
    BY <2>1, <1>0 DEF Promise!Query, Promise!AlignOnly, AlignOnly
  <2>. QED  BY <2>2 DEF Promise!Next, Promise!Queries
<1>4. CASE MemoryMapping_GetFreeSpace(t)
  <2>1. Promise!Query(t, "freespace", NoRequest)
    BY <1>4, <1>0 DEF MemoryMapping_GetFreeSpace, Promise!Query, Promise!AlignOnly
  <2>. QED  BY <2>1 DEF Promise!Next, Promise!Queries
<1>. QED  BY <1>1, <1>2, <1>3, <1>4 DEF Calls

(* What the pool has taken, of the data of heap h, heap h has taken.       *)
LEMMA TakenInHeap ==
  ASSUME HInv, NEW h \in Regions
  PROVE  Data(h) \ Promise!Taken = Unused(h)
<1>1. Promise!Taken = UNION {Extent(b.start, b.size) : b \in Pool}
  BY DEF Promise!Taken, Promise!Extent, Extent
<1>2. ASSUME NEW x \in Data(h), NEW b \in Pool, x \in Extent(b.start, b.size)
      PROVE  b \in blocks[h]
  <2>1. PICK k \in Regions : b \in blocks[k]
    BY DEF Pool
  <2>2. x \in Data(k)
    BY <1>2, <2>1 DEF HInv, BlocksInside
  <2>. QED  BY <2>1, <2>2, DataDisjoint
<1>3. blocks[h] \subseteq Pool
  BY DEF Pool
<1>. QED  BY <1>1, <1>2, <1>3 DEF Unused

(* A request for video memory is served by the heaps that lie in it.       *)
LEMMA VideoIsServed ==
  ASSUME NEW h \in Regions, NEW r, NEW a \in Data(h), a \in VideoMemory
  PROVE  MayServe(h, r)
<1>1. /\ EaStart(h) \in Nat /\ EaEnd(h) \in Nat /\ HeapHeader \in Nat \ {0}
      /\ MEMORY_START_VIDEO \in Nat /\ MEMORY_END_VIDEO \in Nat
  BY RegionNumbers, HeapTable, CallsAssumption
<1>2. IF EaStart(h) >= MEMORY_START_VIDEO /\ EaStart(h) <= MEMORY_END_VIDEO
        THEN EaEnd(h) <= MEMORY_END_VIDEO
        ELSE EaEnd(h) <= MEMORY_START_VIDEO \/ MEMORY_END_VIDEO < EaStart(h)
  BY VideoTable
<1>. QED  BY <1>1, <1>2 DEF MayServe, Data, VideoMemory

(* What the pool offers for a request is what the heaps offer that may     *)
(* serve it.                                                               *)
LEMMA PlacesAreFits ==
  ASSUME HInv, NEW r \in Requests, NEW n \in Nat \ {0}, NEW a
  PROVE  a \in Promise!Places(r, n) <=>
           \E h \in Regions : MayServe(h, r) /\ a \in Fits(h, n, r.align)
<1> DEFINE free == (IF r.videoOnly THEN Usable \cap VideoMemory ELSE Usable) \ Promise!Taken
<1>0. n \in Nat \ {0} /\ BlockSize(n) = n
  BY DEF BlockSize
<1>1. a \in Promise!Places(r, n) <=>
        a \in free /\ a % Alignment(r.align) = 0 /\ Extent(a, n) \subseteq free
  BY DEF Promise!Places, Promise!Alignment, Alignment, Promise!Extent, Extent
<1>2. ASSUME a \in Promise!Places(r, n)
      PROVE  \E h \in Regions : MayServe(h, r) /\ a \in Fits(h, n, r.align)
  <2>1. a \in free /\ a % Alignment(r.align) = 0 /\ Extent(a, n) \subseteq free
    BY <1>1, <1>2
  <2>2. a \in Usable /\ a \in Nat /\ Extent(a, n) \subseteq Usable
    BY <2>1, UsableIsNat
  <2>3. PICK h \in Regions : a \in Data(h) /\ Extent(a, n) \subseteq Data(h)
    BY <2>2, OneHeap
  <2>4. MayServe(h, r)
    BY <2>1, <2>3, VideoIsServed DEF MayServe
  <2>5. a \in Unused(h) /\ Extent(a, n) \subseteq Unused(h)
    BY <2>1, <2>3, TakenInHeap
  <2>. QED  BY <2>1, <2>4, <2>5, <1>0 DEF Fits
<1>3. ASSUME NEW h \in Regions, MayServe(h, r), a \in Fits(h, n, r.align)
      PROVE  a \in Promise!Places(r, n)
  <2>1. a \in Unused(h) /\ a % Alignment(r.align) = 0 /\ Extent(a, n) \subseteq Unused(h)
    BY <1>0, <1>3 DEF Fits
  <2>2. Unused(h) \subseteq free
    BY <1>3, TakenInHeap DEF MayServe, Usable
  <2>. QED  BY <1>1, <2>1, <2>2
<1>. QED  BY <1>2, <1>3

LEMMA GrantRefines ==
  ASSUME HInv, NEW t \in Threads, AllocFromHeap(t)
  PROVE  Promise!Grant(t)
<1>1. PICK h \in Regions, r \in Requests : h = idx[t] /\ r = request[t]
  BY DEF AllocFromHeap, AtHeap, HInv, HeapsTypeOK
<1> DEFINE n == BlockSize(AllocSize(r))
<1>2. PICK start \in Data(h) :
        /\ start \in Fits(h, AllocSize(r), r.align)
        /\ blocks' = [blocks EXCEPT ![h] = @ \cup {[start |-> start, size |-> n]}]
        /\ held' = held \cup {start}
  BY <1>1 DEF AllocFromHeap, MEMAllocFromExpHeapEx
<1>3. n \in Promise!Sizes /\ n \in Nat \ {0} /\ AllocSize(r) \in Nat
  BY AllocSizeBounds DEF Promise!Sizes, BlockSize
<1>4. start \in Usable
  BY <1>2 DEF Usable
<1>5. Promise!Sound(r) => r.size <= n
  BY AllocSizeBounds
<1>6. start \in Promise!Places(r, n)
  <2>1. start \in Fits(h, n, r.align)
    BY <1>2, <1>3 DEF Fits, BlockSize
  <2>2. MayServe(h, r)
    BY <1>1, SkippedIsNotVideo DEF AllocFromHeap
  <2>. QED  BY <1>3, <2>1, <2>2, PlacesAreFits
<1>7. Pool' = Pool \cup {[start |-> start, size |-> n]}
  <2> HIDE DEF n
  <2>1. /\ blocks'[h] = blocks[h] \cup {[start |-> start, size |-> n]}
        /\ \A k \in Regions \ {h} : blocks'[k] = blocks[k]
    BY <1>2 DEF HInv, HeapsTypeOK
  <2>. QED  BY <2>1 DEF Pool
<1>8. Promise!Return(t)
  BY DEF AllocFromHeap, Return, Promise!Return, Promise!NoRequest, NoRequest, Null, Promise!Null
<1>9. op[t] = "alloc" /\ freedSince' = freedSince \ {t}
  BY DEF AllocFromHeap, AtHeap
<1> HIDE DEF n
<1>. QED  BY <1>1, <1>2, <1>3, <1>4, <1>5, <1>6, <1>7, <1>8, <1>9 DEF Promise!Grant

LEMMA RefuseRefines ==
  ASSUME HInv, NEW t \in Threads, AllocFails(t)
  PROVE  Promise!Refuse(t)
<1>1. PICK r \in Requests : r = request[t]
  BY DEF AllocFails, HInv, HeapsTypeOK
<1>2. ASSUME Promise!Sound(r), t \notin freedSince
      PROVE  Promise!Places(r, Promise!Needs(r)) = {}
  <2>1. /\ AllocSize(r) = Promise!Needs(r) /\ BlockSize(AllocSize(r)) = AllocSize(r)
        /\ AllocSize(r) \in Nat \ {0}
    BY <1>2, AllocSizeBounds DEF BlockSize
  <2>2. \A h \in Regions : h < idx[t]
    BY RegionNumbers DEF AllocFails, Regions, HInv, HeapsTypeOK
  <2>3. \A h \in Regions : MayServe(h, r) => Fits(h, AllocSize(r), r.align) = {}
    BY <1>1, <1>2, <2>2 DEF HInv, FailureIsTruthful, AllocFails
  <2>. QED  BY <2>1, <2>3, PlacesAreFits
<1>3. Promise!Return(t)
  BY DEF AllocFails, Return, Promise!Return, Promise!NoRequest, NoRequest, Null, Promise!Null
<1>4. /\ op[t] = "alloc" /\ freedSince' = freedSince \ {t} /\ held' = held /\ Pool' = Pool
  BY DEF AllocFails, Undisturbed, Pool
<1>. QED  BY <1>1, <1>2, <1>3, <1>4 DEF Promise!Refuse

LEMMA ReleaseRefines ==
  ASSUME HInv, EveryBlockOwned, NEW t \in Threads, FreeNothing(t) \/ FreeToHeap(t)
  PROVE  Promise!Release(t)
<1>1. PICK p \in Nat : p = pointer[t]
  BY DEF HInv, HeapsTypeOK
<1>2. /\ op[t] = "free" /\ held' = held /\ Return(t)
  BY DEF FreeNothing, FreeToHeap, AtHeap
<1>3. Promise!Return(t)
  BY <1>2 DEF Return, Promise!Return, Promise!NoRequest, NoRequest, Null, Promise!Null
<1>4. CASE FreeNothing(t)
  <2>1. p \in ForeignPointers
    BY <1>1, <1>2, <1>4, NothingToFree DEF Returning
  <2>2. \A h \in Regions : p \notin Starts(h)
    BY <2>1, StartsInside
  <2>3. Pool' = Pool /\ Pool = {b \in Pool : b.start # p}
    BY <1>4, <2>2 DEF FreeNothing, Pool, Starts
  <2>4. freedSince' = freedSince \ {t}
    BY <1>4 DEF FreeNothing, Undisturbed
  <2>. QED  BY <1>1, <1>2, <1>3, <2>3, <2>4 DEF Promise!Release
<1>5. CASE FreeToHeap(t)
  <2>1. PICK h \in Regions : h = idx[t]
    BY <1>5 DEF FreeToHeap, AtHeap
  <2>2. /\ p \in Starts(h) /\ \A k \in Regions \ {h} : p \notin Starts(k)
        /\ blocks' = [blocks EXCEPT ![h] = {b \in @ : b.start # p}]
    BY <1>1, <1>5, <2>1, ReturnedHere
  <2>3. /\ blocks'[h] = {b \in blocks[h] : b.start # p}
        /\ \A k \in Regions \ {h} : blocks'[k] = blocks[k]
    BY <2>2 DEF HInv, HeapsTypeOK
  <2>4. Pool' = {b \in Pool : b.start # p}
    BY <2>2, <2>3 DEF Pool, Starts
  <2>5. Pool' # Pool /\ blocks' # blocks
    BY <2>2, <2>3, <2>4 DEF Pool, Starts
  <2>6. freedSince' = Others(t)
    BY <1>5, <2>5 DEF FreeToHeap
  <2>. QED  BY <1>1, <1>2, <1>3, <2>4, <2>5, <2>6 DEF Promise!Release, Others
<1>. QED  BY <1>4, <1>5

LEMMA AnswerRefines ==
  ASSUME NEW t \in Threads, Answer(t)
  PROVE  Promise!Answer(t)
BY DEF Answer, Undisturbed, Return, Promise!Answer, Promise!Return, Promise!NoRequest,
       NoRequest, Null, Promise!Null, Queries, Promise!Queries, Pool

LEMMA StepRefines ==
  ASSUME HInv, EveryBlockOwned, [Next]_vars
  PROVE  [Promise!Next]_(Promise!vars)
<1>1. CASE UNCHANGED vars
  BY <1>1, SearchIsUnseen DEF vars, call_vars
<1>2. ASSUME NEW t \in Threads, Calls(t) \/ Running(t)
      PROVE  [Promise!Next]_(Promise!vars)
  <2>1. CASE \/ SkipHeap(t) \/ HeapRefuses(t) \/ NotThisRegion(t)
             \/ AskAllocatable(t) \/ AskFreeSpace(t)
    BY <2>1, SearchIsUnseen DEF SkipHeap, HeapRefuses, NotThisRegion, AskAllocatable,
         AskFreeSpace, NextHeap
  <2>2. CASE AllocFromHeap(t) \/ AllocFails(t) \/ FreeNothing(t) \/ FreeToHeap(t) \/ Answer(t)
    BY <2>2, GrantRefines, RefuseRefines, ReleaseRefines, AnswerRefines DEF Promise!Next
  <2>. QED
    BY <1>2, <2>1, <2>2, CallRefines
       DEF Running, MemoryMapping_allocEx, MemoryMapping_free
<1>. QED  BY <1>1, <1>2 DEF Next

(* Seen from outside, the calls of MemoryMapping_allocEx and               *)
(* MemoryMapping_free, which take one heap's lock after the other, act as  *)
(* one pool that takes and gives back each block in a single step.         *)
THEOREM HeapsKeepThePromise == Spec => AllocatorPromise
<1>1. Init => Promise!Init
  BY DEF Init, Promise!Init, Pool, Promise!NoRequest, NoRequest, Promise!Null, Null
<1>2. HInv /\ EveryBlockOwned /\ [Next]_vars => [Promise!Next]_(Promise!vars)
  BY StepRefines
<1>. QED
  BY <1>1, <1>2, HInvHolds, BlocksHaveOneOwner, PTL DEF Spec, AllocatorPromise, Promise!Spec
-----------------------------------------------------------------------------
(* Answers.                                                                *)

Before(i) == {h \in Regions : h < i}

(* AnswersBounded for one call, its arguments spelt out.                   *)
BoundedAt(t, what, align, i) ==
  LET now == SizeAtOnce(what, align, Before(i))
  IN  /\ t \notin freedSince => res[t] >= now
      /\ t \notin takenSince => res[t] <= now

LEMMA CardinalityMonotone ==
  ASSUME NEW A, NEW B, A \subseteq B, B \subseteq 0..AddressSpace
  PROVE  /\ IsFiniteSet(A) /\ IsFiniteSet(B)
         /\ Cardinality(A) \in Nat /\ Cardinality(B) \in Nat
         /\ Cardinality(A) <= Cardinality(B)
<1>1. IsFiniteSet(0..AddressSpace)
  BY FS_Interval, HeapTable
<1>2. IsFiniteSet(B)
  BY <1>1, FS_Subset
<1>3. IsFiniteSet(A) /\ Cardinality(A) <= Cardinality(B)
  BY <1>2, FS_Subset
<1>. QED  BY <1>2, <1>3, FS_CardinalityType

LEMMA SizesInRange ==
  ASSUME NEW h \in Regions, NEW align
  PROVE  /\ Unused(h) \subseteq Data(h) /\ Unused(h) \subseteq 0..AddressSpace
         /\ Unused(h)' \subseteq 0..AddressSpace
         /\ FittingSizes(h, align) \subseteq 0..AddressSpace
         /\ FittingSizes(h, align)' \subseteq 0..AddressSpace
<1>1. Data(h) \subseteq 0..AddressSpace /\ 1..(EaEnd(h) - EaStart(h)) \subseteq 0..AddressSpace
  BY RegionNumbers, HeapTable DEF Data
<1>2. Unused(h) \subseteq Data(h) /\ Unused(h)' \subseteq Data(h)
  BY DEF Unused
<1>3. /\ FittingSizes(h, align) \subseteq 1..(EaEnd(h) - EaStart(h))
      /\ FittingSizes(h, align)' \subseteq 1..(EaEnd(h) - EaStart(h))
  BY DEF FittingSizes
<1>. QED  BY <1>1, <1>2, <1>3

(* Taking blocks makes no size larger, freeing blocks none smaller.        *)
LEMMA SizesFollowBlocks ==
  ASSUME NEW what \in Queries, NEW align \in Int, NEW i \in Nat
  PROVE  LET size == SizeAtOnce(what, align, Before(i))
         IN  /\ size \in Nat /\ size' \in Nat
             /\ (\A h \in Regions : blocks[h] \subseteq blocks'[h]) => size' <= size
             /\ (\A h \in Regions : blocks'[h] \subseteq blocks[h]) => size <= size'
<1> DEFINE F == UNION {Unused(h) : h \in Before(i)}
           A == UNION {FittingSizes(h, align) : h \in Before(i)}
<1>1. /\ F \subseteq 0..AddressSpace /\ F' \subseteq 0..AddressSpace
      /\ A \subseteq 0..AddressSpace /\ A' \subseteq 0..AddressSpace
  BY SizesInRange DEF Before
<1>2. ASSUME \A h \in Regions : blocks[h] \subseteq blocks'[h]
      PROVE  F' \subseteq F /\ A' \subseteq A
  <2>1. ASSUME NEW h \in Regions
        PROVE  Unused(h)' \subseteq Unused(h) /\ FittingSizes(h, align)' \subseteq FittingSizes(h, align)
    <3>1. \A n : Fits(h, n, align)' \subseteq Fits(h, n, align)
      BY <1>2, NoRoomStays
    <3>. QED  BY <1>2, <3>1 DEF Unused, FittingSizes
  <2>. QED  BY <2>1 DEF Before
<1>3. ASSUME \A h \in Regions : blocks'[h] \subseteq blocks[h]
      PROVE  F \subseteq F' /\ A \subseteq A'
  <2>1. ASSUME NEW h \in Regions
        PROVE  Unused(h) \subseteq Unused(h)' /\ FittingSizes(h, align) \subseteq FittingSizes(h, align)'
    <3>1. Unused(h) \subseteq Unused(h)'
      BY <1>3 DEF Unused
    <3>2. \A n : Fits(h, n, align) \subseteq Fits(h, n, align)'
      BY <3>1 DEF Fits
    <3>. QED  BY <3>1, <3>2 DEF FittingSizes
  <2>. QED  BY <2>1 DEF Before
<1>4. CASE what = "freespace"
  <2>1. /\ SizeAtOnce(what, align, Before(i)) = Cardinality(F)
        /\ SizeAtOnce(what, align, Before(i))' = Cardinality(F')
    BY <1>4 DEF SizeAtOnce
  <2> HIDE DEF F, A
  <2>. QED  BY <1>1, <1>2, <1>3, <2>1, CardinalityMonotone
<1>5. CASE what = "allocatable"
  <2>1. /\ SizeAtOnce(what, align, Before(i)) = Cardinality(A)
        /\ SizeAtOnce(what, align, Before(i))' = Cardinality(A')
    BY <1>5 DEF SizeAtOnce
  <2> HIDE DEF F, A
  <2>. QED  BY <1>1, <1>2, <1>3, <2>1, CardinalityMonotone
<1>. QED  BY <1>4, <1>5 DEF Queries

(* The heaps are disjoint: the sum of their free sizes is the free size of *)
(* all of them.                                                            *)
LEMMA FreeSizesAdd ==
  ASSUME NEW align, NEW i \in Regions
  PROVE  SizeAtOnce("freespace", align, Before(i + 1)) =
           SizeAtOnce("freespace", align, Before(i)) + MEMGetTotalFreeSizeForExpHeap(i)
<1> DEFINE F == UNION {Unused(h) : h \in Before(i)}
           G == UNION {Unused(h) : h \in Before(i + 1)}
<1>1. Before(i + 1) = Before(i) \cup {i} /\ i \notin Before(i)
  BY RegionNumbers DEF Before
<1>2. G = F \cup Unused(i)
  BY <1>1
<1>3. F \cap Unused(i) = {}
  <2>1. ASSUME NEW h \in Before(i), NEW x \in Unused(h), x \in Unused(i) PROVE FALSE
    <3>1. h \in Regions /\ h # i
      BY <1>1 DEF Before
    <3>. QED  BY <2>1, <3>1, SizesInRange, DataDisjoint
  <2>. QED  BY <2>1
<1>4. F \subseteq 0..AddressSpace /\ Unused(i) \subseteq 0..AddressSpace
  BY SizesInRange DEF Before
<1>5. SizeAtOnce("freespace", align, Before(i + 1)) = Cardinality(G)
  BY DEF SizeAtOnce
<1>6. SizeAtOnce("freespace", align, Before(i)) = Cardinality(F)
  BY DEF SizeAtOnce
<1> HIDE DEF F, G
<1>7. /\ IsFiniteSet(F) /\ IsFiniteSet(Unused(i))
      /\ Cardinality(F) \in Nat /\ Cardinality(Unused(i)) \in Nat
  BY <1>4, CardinalityMonotone
<1>8. Cardinality(G) = Cardinality(F) + Cardinality(Unused(i)) - Cardinality({})
  BY <1>2, <1>3, <1>7, FS_Union
<1>. QED  BY <1>5, <1>6, <1>7, <1>8, FS_EmptySet DEF MEMGetTotalFreeSizeForExpHeap

(* The sizes that fit in a heap have no gaps.                              *)
LEMMA SmallerFits ==
  ASSUME NEW h \in Regions, NEW align \in Int, NEW n \in FittingSizes(h, align), NEW m \in 1..n
  PROVE  m \in FittingSizes(h, align)
<1>1. /\ n \in Nat \ {0} /\ m \in Nat \ {0} /\ m <= n /\ n <= EaEnd(h) - EaStart(h)
      /\ m \in 1..(EaEnd(h) - EaStart(h)) /\ BlockHeader \in Nat
  BY RegionNumbers, HeapTable DEF FittingSizes
<1>2. PICK a \in Unused(h) :
        a % Alignment(align) = 0 /\ Extent(a, BlockSize(n)) \subseteq Unused(h)
  BY DEF FittingSizes, Fits
<1>3. a \in Nat
  BY <1>2, SizesInRange, DataDisjoint
<1>4. Extent(a, BlockSize(m)) \subseteq Extent(a, BlockSize(n))
  BY <1>1, <1>3 DEF Extent, BlockSize
<1>5. a \in Fits(h, m, align)
  BY <1>2, <1>4 DEF Fits
<1>. QED  BY <1>1, <1>5 DEF FittingSizes

LEMMA WithoutGaps ==
  ASSUME NEW A \in SUBSET Nat, NEW B \in SUBSET Nat,
         \A n \in A : 1..n \subseteq A, \A n \in B : 1..n \subseteq B, 0 \notin A, 0 \notin B
  PROVE  A \subseteq B \/ B \subseteq A
<1>1. SUFFICES ASSUME NEW x \in A, x \notin B, NEW y \in B, y \notin A PROVE FALSE
  OBVIOUS
<1>2. x \in Nat /\ y \in Nat /\ x # 0 /\ y # 0
  BY <1>1
<1>3. 1..y \subseteq B /\ 1..x \subseteq A
  OBVIOUS
<1>4. x \in 1..y \/ y \in 1..x
  BY <1>2
<1>. QED  BY <1>1, <1>3, <1>4

(* So the largest of the sizes two heaps offer is what both offer at once. *)
LEMMA AllocatableIsLargest ==
  ASSUME NEW align \in Int, NEW i \in Regions
  PROVE  LET cur == MEMGetAllocatableSizeForExpHeapEx(i, align)
             so  == SizeAtOnce("allocatable", align, Before(i))
         IN  SizeAtOnce("allocatable", align, Before(i + 1)) = IF cur > so THEN cur ELSE so
<1> DEFINE A == UNION {FittingSizes(h, align) : h \in Before(i)}
           B == FittingSizes(i, align)
           C == UNION {FittingSizes(h, align) : h \in Before(i + 1)}
<1>1. Before(i + 1) = Before(i) \cup {i} /\ Before(i) \subseteq Regions
  BY RegionNumbers DEF Before
<1>2. C = A \cup B
  BY <1>1
<1>3. A \subseteq 0..AddressSpace /\ B \subseteq 0..AddressSpace
  BY <1>1, SizesInRange
<1>4. /\ \A n \in A : 1..n \subseteq A
      /\ \A n \in B : 1..n \subseteq B
      /\ 0 \notin A /\ 0 \notin B
  <2>1. \A h \in Regions : 0 \notin FittingSizes(h, align)
    BY DEF FittingSizes
  <2>2. \A h \in Regions : \A n \in FittingSizes(h, align) : 1..n \subseteq FittingSizes(h, align)
    BY SmallerFits
  <2>. QED  BY <1>1, <2>1, <2>2
<1>5. SizeAtOnce("allocatable", align, Before(i + 1)) = Cardinality(C)
  BY DEF SizeAtOnce
<1>6. SizeAtOnce("allocatable", align, Before(i)) = Cardinality(A)
  BY DEF SizeAtOnce
<1>7. MEMGetAllocatableSizeForExpHeapEx(i, align) = Cardinality(B)
  BY DEF MEMGetAllocatableSizeForExpHeapEx
<1> HIDE DEF A, B, C
<1>8. A \in SUBSET Nat /\ B \in SUBSET Nat
  BY <1>3, HeapTable
<1>9. A \subseteq B \/ B \subseteq A
  BY <1>4, <1>8, WithoutGaps
<1>10. CASE A \subseteq B
  <2>1. C = B /\ Cardinality(A) <= Cardinality(B)
        /\ Cardinality(A) \in Nat /\ Cardinality(B) \in Nat
    BY <1>2, <1>3, <1>10, CardinalityMonotone
  <2>. QED  BY <1>5, <1>6, <1>7, <2>1
<1>11. CASE B \subseteq A
  <2>1. C = A /\ Cardinality(B) <= Cardinality(A)
        /\ Cardinality(A) \in Nat /\ Cardinality(B) \in Nat
    BY <1>2, <1>3, <1>11, CardinalityMonotone
  <2>. QED  BY <1>5, <1>6, <1>7, <2>1
<1>. QED  BY <1>9, <1>10, <1>11

(* AnswersBounded, with every argument spelt out.                          *)
Bounded ==
  \A t \in Threads, what \in Queries, align \in Int, i \in Nat :
    op[t] = what /\ request[t].align = align /\ idx[t] = i => BoundedAt(t, what, align, i)

LEMMA SpeltOut == HeapsTypeOK => (Bounded <=> AnswersBounded)
<1> SUFFICES ASSUME HeapsTypeOK PROVE Bounded <=> AnswersBounded
  OBVIOUS
<1>1. \A t \in Threads : request[t].align \in Int /\ idx[t] \in Nat
  BY RegionNumbers DEF HeapsTypeOK
<1>. QED  BY <1>1 DEF Bounded, AnswersBounded, BoundedAt, Before

LEMMA BoundedStep ==
  ASSUME HInv, Bounded, NEW t \in Threads, Calls(t) \/ Running(t)
  PROVE  Bounded'
<1>1. SUFFICES ASSUME NEW u \in Threads, NEW what \in Queries, NEW align \in Int, NEW i \in Nat,
                      op'[u] = what, request'[u].align = align, idx'[u] = i
               PROVE  BoundedAt(u, what, align, i)'
  BY DEF Bounded
<1>2. /\ SizeAtOnce(what, align, Before(i)) \in Nat
      /\ SizeAtOnce(what, align, Before(i))' \in Nat
      /\ (\A h \in Regions : blocks[h] \subseteq blocks'[h]) =>
           SizeAtOnce(what, align, Before(i))' <= SizeAtOnce(what, align, Before(i))
      /\ (\A h \in Regions : blocks'[h] \subseteq blocks[h]) =>
           SizeAtOnce(what, align, Before(i)) <= SizeAtOnce(what, align, Before(i))'
  BY SizesFollowBlocks
<1>3. res[u] \in Nat
  BY DEF HInv, HeapsTypeOK
<1>4. CASE u # t
  <2>1. op[u] = what /\ request[u].align = align /\ idx[u] = i /\ res'[u] = res[u]
    BY <1>1, <1>4, OthersUntouched
  <2>2. BoundedAt(u, what, align, i)
    BY <2>1 DEF Bounded
  <2>3. op[u] \notin {"idle", "free"}
    BY <2>1 DEF Queries
  <2>4. /\ u \notin freedSince' =>
             u \notin freedSince /\ \A h \in Regions : blocks[h] \subseteq blocks'[h]
        /\ u \notin takenSince' =>
             u \notin takenSince /\ \A h \in Regions : blocks'[h] \subseteq blocks[h]
    BY <1>4, <2>3, OthersTold
  <2>. QED  BY <1>2, <1>3, <2>1, <2>2, <2>4 DEF BoundedAt
<1>5. CASE u = t
  <2>1. CASE i = 1 /\ res'[t] = 0
    <3>1. UNION {Unused(h)' : h \in Before(i)} = {}
          /\ UNION {FittingSizes(h, align)' : h \in Before(i)} = {}
      BY <2>1, RegionNumbers DEF Before
    <3>2. SizeAtOnce(what, align, Before(i))' = 0
      BY <3>1, FS_EmptySet DEF SizeAtOnce
    <3>. QED  BY <1>5, <2>1, <3>2 DEF BoundedAt
  <2>2. CASE Calls(t)
    <3>1. idx'[t] = 1 /\ res'[t] = 0
      BY <2>2 DEF Calls, MemoryMappingAllocEx, MemoryMappingFree, Call, HInv, HeapsTypeOK,
                  MemoryMapping_MEMGetAllocatableSizeEx, MemoryMapping_GetFreeSpace
    <3>. QED  BY <1>1, <1>5, <2>1, <3>1
  <2>3. CASE Return(t)
    BY <1>1, <1>5, <2>3 DEF Return, Queries, HInv, HeapsTypeOK
  <2>4. CASE NextHeap(t) /\ op[t] \notin Queries
    BY <1>1, <1>5, <2>4 DEF NextHeap
  <2>5. CASE AskAllocatable(t) \/ AskFreeSpace(t)
    <3>1. PICK k \in Regions : k = idx[t]
      BY <2>5 DEF AskAllocatable, AskFreeSpace, AtHeap
    <3>2. /\ i = k + 1 /\ UNCHANGED <<blocks, freedSince, takenSince>>
          /\ op[t] = what /\ request[t].align = align
      BY <1>1, <1>5, <2>5, <3>1
         DEF AskAllocatable, AskFreeSpace, AtHeap, NextHeap, HInv, HeapsTypeOK
    <3>3. BoundedAt(t, what, align, k)
      BY <3>1, <3>2, RegionNumbers DEF Bounded
    <3>4. SizeAtOnce(what, align, Before(i))' = SizeAtOnce(what, align, Before(i))
      BY <3>2, <1>2
    <3>5. k \in Nat /\ SizeAtOnce(what, align, Before(k)) \in Nat
      BY <3>1, RegionNumbers, SizesFollowBlocks
    <3>6. CASE AskFreeSpace(t)
      <4>1. what = "freespace"
        BY <3>2, <3>6 DEF AskFreeSpace, AtHeap
      <4>2. res'[t] = res[t] + MEMGetTotalFreeSizeForExpHeap(k)
        BY <3>1, <3>6 DEF AskFreeSpace, HInv, HeapsTypeOK
      <4>3. MEMGetTotalFreeSizeForExpHeap(k) \in Nat
        BY <3>1, FiniteHeap
      <4>4. SizeAtOnce(what, align, Before(i)) =
              SizeAtOnce(what, align, Before(k)) + MEMGetTotalFreeSizeForExpHeap(k)
        BY <3>1, <3>2, <4>1, FreeSizesAdd
      <4>. QED
        BY <1>3, <1>5, <3>2, <3>3, <3>4, <3>5, <4>2, <4>3, <4>4 DEF BoundedAt
    <3>7. CASE AskAllocatable(t)
      <4> DEFINE cur == MEMGetAllocatableSizeForExpHeapEx(k, align)
                 so  == SizeAtOnce(what, align, Before(k))
      <4>1. what = "allocatable"
        BY <3>2, <3>7 DEF AskAllocatable, AtHeap
      <4>2. res'[t] = IF cur > res[t] THEN cur ELSE res[t]
        BY <3>1, <3>2, <3>7 DEF AskAllocatable, HInv, HeapsTypeOK
      <4>3. cur \in Nat
        BY <3>1, FiniteHeap
      <4>4. SizeAtOnce(what, align, Before(i)) = IF cur > so THEN cur ELSE so
        BY <3>1, <3>2, <4>1, AllocatableIsLargest
      <4>5. /\ t \notin freedSince => res[t] >= so
            /\ t \notin takenSince => res[t] <= so
        BY <3>3 DEF BoundedAt
      <4> HIDE DEF cur, so
      <4>6. so \in Nat
        BY <3>5 DEF so
      <4>. QED
        BY <1>3, <1>5, <3>2, <3>4, <4>2, <4>3, <4>4, <4>5, <4>6 DEF BoundedAt
    <3>. QED  BY <2>5, <3>6, <3>7
  <2>. QED
    BY <1>1, <1>5, <2>2, <2>3, <2>4, <2>5
       DEF Running, MemoryMapping_allocEx, MemoryMapping_free, SkipHeap, AllocFromHeap,
           HeapRefuses, AllocFails, FreeNothing, NotThisRegion, FreeToHeap, Answer, AtHeap,
           Queries
<1>. QED  BY <1>4, <1>5

(* MemoryMapping_GetFreeSpace and MemoryMapping_MEMGetAllocatableSizeEx    *)
(* answer for all the heaps as one look at them would, but for blocks that *)
(* other threads free or take during the call.                             *)
THEOREM AnswersAreBounded == Spec => []AnswersBounded
<1>1. Init => Bounded
  BY DEF Init, Bounded, Queries
<1>2. HInv /\ Bounded /\ [Next]_vars => Bounded'
  <2> SUFFICES ASSUME HInv, Bounded, [Next]_vars PROVE Bounded'
    OBVIOUS
  <2>1. CASE UNCHANGED vars
    <3>1. SUFFICES ASSUME NEW u \in Threads, NEW what \in Queries, NEW align \in Int,
                          NEW i \in Nat, op[u] = what, request[u].align = align, idx[u] = i
                   PROVE  BoundedAt(u, what, align, i)'
      BY <2>1 DEF Bounded, vars, call_vars
    <3>2. /\ SizeAtOnce(what, align, Before(i))' = SizeAtOnce(what, align, Before(i))
          /\ UNCHANGED <<res, freedSince, takenSince>>
      <4>1. UNCHANGED <<blocks, res, freedSince, takenSince>>
        BY <2>1 DEF vars, call_vars
      <4>2. \A h \in Regions : blocks[h] \subseteq blocks'[h] /\ blocks'[h] \subseteq blocks[h]
        BY <4>1
      <4>3. LET size == SizeAtOnce(what, align, Before(i))
            IN  size \in Nat /\ size' \in Nat /\ size' <= size /\ size <= size'
        BY <4>2, SizesFollowBlocks
      <4>. QED  BY <4>1, <4>3
    <3>3. BoundedAt(u, what, align, i)
      BY <3>1 DEF Bounded
    <3>. QED  BY <3>2, <3>3 DEF BoundedAt
  <2>2. ASSUME NEW t \in Threads, Calls(t) \/ Running(t) PROVE Bounded'
    BY <2>2, BoundedStep
  <2>. QED  BY <2>1, <2>2 DEF Next
<1>3. HInv => (Bounded <=> AnswersBounded)
  BY SpeltOut DEF HInv
<1>. QED  BY <1>1, <1>2, <1>3, HInvHolds, PTL DEF Spec
=============================================================================
