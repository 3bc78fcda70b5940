------------------------------- MODULE Heaps --------------------------------
(***************************************************************************)
(* Allocating from the mapped regions.  MemoryMapping_CreateHeaps makes    *)
(* each region an expanded heap with a lock of its own; the functions here *)
(* go through the regions in table order and take the lock of one heap at  *)
(* a time, the mutex around the loops being commented out.  So a step is   *)
(* one round of a loop: what one heap does under its lock.                 *)
(*                                                                         *)
(* Addresses count in any unit.  External: the expanded heaps of coreinit, *)
(* which put a header in front of a block and a block wherever it fits.    *)
(***************************************************************************)
EXTENDS Integers, Sequences, FiniteSets

CONSTANTS
  mem_mapping,          \* the regions, in table order
  MEMORY_START_VIDEO, MEMORY_END_VIDEO,
  HeapHeader,           \* size of the header of a heap
  BlockHeader,          \* size of the header of a block
  AddressSpace,         \* 2^32
  Threads,
  Requests,             \* arguments of allocEx: [size, align, videoOnly]
  ForeignPointers       \* pointers to no block, given to free all the same

VARIABLES
  blocks,               \* the used list of each heap: [start, size]
  held,                 \* the pointers the users have
  op, idx,              \* each thread: the function it is in, its counter i,
  request, pointer,     \*   its arguments,
  res,                  \*   and what it has found so far
  freedSince, takenSince \* the calls during which another thread changed a heap

call_vars == <<op, idx, request, pointer, res>>
vars == <<blocks, held, call_vars, freedSince, takenSince>>

Regions == 1..Len(mem_mapping)
EaStart(h) == mem_mapping[h].effective_start_address
EaEnd(h)   == mem_mapping[h].effective_end_address

ASSUME HeapTable ==
  /\ mem_mapping \in Seq([effective_start_address : Nat, effective_end_address : Nat])
  /\ HeapHeader \in Nat \ {0} /\ BlockHeader \in Nat \ {0}
  /\ AddressSpace \in Nat
  /\ \A h \in Regions :
       0 < EaStart(h) /\ EaStart(h) + HeapHeader < EaEnd(h) /\ EaEnd(h) < AddressSpace
  /\ \A h, k \in Regions : h # k => EaEnd(h) <= EaStart(k) \/ EaEnd(k) <= EaStart(h)

ASSUME CallsAssumption ==
  /\ MEMORY_START_VIDEO \in Nat /\ MEMORY_END_VIDEO \in Nat
  /\ Requests \subseteq [size : 0..(AddressSpace - 1), align : Int, videoOnly : BOOLEAN]
  /\ \A r \in Requests : r.align <= AddressSpace /\ -r.align <= AddressSpace
  /\ ForeignPointers \subseteq Nat
  /\ \A h \in Regions : ForeignPointers \cap ((EaStart(h) + 1)..(EaEnd(h) - 1)) = {}

(* A region lies in video memory as a whole or not at all.                 *)
ASSUME VideoTable ==
  \A h \in Regions :
    IF EaStart(h) >= MEMORY_START_VIDEO /\ EaStart(h) <= MEMORY_END_VIDEO
      THEN EaEnd(h) <= MEMORY_END_VIDEO
      ELSE EaEnd(h) <= MEMORY_START_VIDEO \/ MEMORY_END_VIDEO < EaStart(h)

Null == 0
NoRequest == [size |-> 0, align |-> 1, videoOnly |-> FALSE]
AlignOnly(r) == [NoRequest EXCEPT !.align = r.align]
Queries == {"allocatable", "freespace"}

-----------------------------------------------------------------------------
(* External: the expanded heaps.                                           *)

Alignment(align) == IF align > 0 THEN align ELSE IF align = 0 THEN 1 ELSE -align

(* Where the blocks of heap h may lie: header.dataStart to header.dataEnd. *)
Data(h) == (EaStart(h) + HeapHeader)..(EaEnd(h) - 1)

Extent(start, size) == (start - BlockHeader)..(start + size - 1)
Unused(h) == Data(h) \ UNION {Extent(b.start, b.size) : b \in blocks[h]}

(* No block is smaller than the smallest unit.                             *)
BlockSize(size) == IF size = 0 THEN 1 ELSE size

Fits(h, size, align) ==
  LET free == Unused(h)
  IN  {a \in free : a % Alignment(align) = 0 /\ Extent(a, BlockSize(size)) \subseteq free}

MEMAllocFromExpHeapEx(h, start, size, align) ==
  /\ start \in Fits(h, size, align)
  /\ blocks' = [blocks EXCEPT ![h] = @ \cup {[start |-> start, size |-> BlockSize(size)]}]

MEMFreeToExpHeap(h, p) ==
  blocks' = [blocks EXCEPT ![h] = {b \in @ : b.start # p}]

(* If a size fits then so does each smaller one, and the largest size that *)
(* fits is how many do.                                                    *)
FittingSizes(h, align) == {n \in 1..(EaEnd(h) - EaStart(h)) : Fits(h, n, align) # {}}

MEMGetAllocatableSizeForExpHeapEx(h, align) == Cardinality(FittingSizes(h, align))

(* Counted with the headers of its free blocks.                            *)
MEMGetTotalFreeSizeForExpHeap(h) == Cardinality(Unused(h))

-----------------------------------------------------------------------------
(* Calling and returning.                                                  *)

Call(t, what, r, p) ==
  /\ op[t] = "idle"
  /\ op' = [op EXCEPT ![t] = what]
  /\ request' = [request EXCEPT ![t] = r]
  /\ pointer' = [pointer EXCEPT ![t] = p]
  /\ UNCHANGED <<blocks, idx, res, freedSince, takenSince>>

Return(t) ==
  /\ op' = [op EXCEPT ![t] = "idle"]
  /\ request' = [request EXCEPT ![t] = NoRequest]
  /\ pointer' = [pointer EXCEPT ![t] = Null]
  /\ idx' = [idx EXCEPT ![t] = 1]
  /\ res' = [res EXCEPT ![t] = 0]

(* The others that are looking through the heaps while t changes one.      *)
Others(t) == {u \in Threads \ {t} : op[u] \notin {"idle", "free"}}

Undisturbed(t) ==
  freedSince' = freedSince \ {t} /\ takenSince' = takenSince \ {t}

TwoHeapsOnSlip(t) ==
  /\ idx' = [idx EXCEPT ![t] = idx[t] + 2]
  /\ UNCHANGED <<blocks, held, op, request, pointer, freedSince, takenSince>>

NextHeap(t) ==
  /\ idx' = [idx EXCEPT ![t] = idx[t] + 1]
  /\ UNCHANGED <<blocks, held, op, request, pointer, freedSince, takenSince>>

-----------------------------------------------------------------------------
(* MemoryMapping_allocEx.  Definitions named ...Slip are not the code:     *)
(* each is the definition after it with a slip in it, to see that the      *)
(* properties notice.                                                      *)

(* uint32_t addition: the sums formed here carry at most once.             *)
Wrap(n) == IF n < AddressSpace THEN n ELSE n - AddressSpace

(* (size + align - 1) & ~(align - 1) for powers of two and for 0.          *)
AllocSize(r) ==
  IF r.align = 0 THEN 0
  ELSE LET up == Wrap(r.size + Alignment(r.align) - 1)
       IN  up - (up % Alignment(r.align))

NeverSkippedSlip(h, r) == FALSE
StartExcludedSlip(h, r) ==
  r.videoOnly /\ (EaStart(h) <= MEMORY_START_VIDEO \/ EaStart(h) > MEMORY_END_VIDEO)

Skipped(h, r) ==
  r.videoOnly /\ (EaStart(h) < MEMORY_START_VIDEO \/ EaStart(h) > MEMORY_END_VIDEO)

AtHeap(t, what) == op[t] = what /\ idx[t] \in Regions

SkipHeap(t) ==
  /\ AtHeap(t, "alloc")
  /\ Skipped(idx[t], request[t])
  /\ NextHeap(t) /\ UNCHANGED res

AllocFromHeap(t) ==
  /\ AtHeap(t, "alloc")
  /\ ~Skipped(idx[t], request[t])
  /\ \E start \in Data(idx[t]) :
       /\ MEMAllocFromExpHeapEx(idx[t], start, AllocSize(request[t]), request[t].align)
       /\ held' = held \cup {start}
  /\ freedSince' = freedSince \ {t}
  /\ takenSince' = (takenSince \ {t}) \cup Others(t)
  /\ Return(t)

HeapRefuses(t) ==
  /\ AtHeap(t, "alloc")
  /\ ~Skipped(idx[t], request[t])
  /\ Fits(idx[t], AllocSize(request[t]), request[t].align) = {}
  /\ NextHeap(t) /\ UNCHANGED res

(* The sentinel: nullptr is returned.                                      *)
AllocFails(t) ==
  /\ op[t] = "alloc" /\ idx[t] \notin Regions
  /\ Undisturbed(t) /\ UNCHANGED <<blocks, held>>
  /\ Return(t)

MemoryMapping_allocEx(t) ==
  SkipHeap(t) \/ AllocFromHeap(t) \/ HeapRefuses(t) \/ AllocFails(t)

-----------------------------------------------------------------------------
(* MemoryMapping_free.                                                     *)

AnyHeapBelowSlip(h, p) == p > EaStart(h)

InRegion(h, p) == p > EaStart(h) /\ p < EaEnd(h)

(* A null pointer, and one in no region, are ignored.                      *)
FreeNothing(t) ==
  /\ op[t] = "free"
  /\ pointer[t] = Null \/ idx[t] \notin Regions
  /\ Undisturbed(t) /\ UNCHANGED <<blocks, held>>
  /\ Return(t)

NotThisRegion(t) ==
  /\ AtHeap(t, "free") /\ pointer[t] # Null
  /\ ~InRegion(idx[t], pointer[t])
  /\ NextHeap(t) /\ UNCHANGED res

FreeToHeap(t) ==
  /\ AtHeap(t, "free") /\ pointer[t] # Null
  /\ InRegion(idx[t], pointer[t])
  /\ MEMFreeToExpHeap(idx[t], pointer[t])
  /\ IF blocks' = blocks THEN Undisturbed(t)
     ELSE freedSince' = Others(t) /\ takenSince' = takenSince \ {t}
  /\ UNCHANGED held
  /\ Return(t)

MemoryMapping_free(t) == FreeNothing(t) \/ NotThisRegion(t) \/ FreeToHeap(t)

-----------------------------------------------------------------------------
(* MemoryMapping_MEMFindContainHeap, which looks at the headers only and   *)
(* takes no lock, and the replacement of MEMFindContainHeap around it.     *)
(* Heaps that a user made inside a block are not told from the heap the    *)
(* block belongs to.                                                       *)

NoHeap == 0
SystemHeap == -1

(* External: what MEMFindContainHeap finds of itself.                      *)
real_MEMFindContainHeap(p) == SystemHeap

(* block >= heap->header.dataStart && block < heap->header.dataEnd         *)
Containing(p) == {h \in Regions : p >= EaStart(h) + HeapHeader /\ p < EaEnd(h)}

StartOnlySlip(p) ==
  LET below == {h \in Regions : p >= EaStart(h) + HeapHeader}
  IN  IF below = {} THEN NoHeap ELSE CHOOSE h \in below : \A k \in below : h <= k

MemoryMapping_MEMFindContainHeap(p) ==
  IF Containing(p) = {} THEN NoHeap
  ELSE CHOOSE h \in Containing(p) : \A k \in Containing(p) : h <= k

my_MEMFindContainHeap(p) ==
  LET result == MemoryMapping_MEMFindContainHeap(p)
  IN  IF result = NoHeap THEN real_MEMFindContainHeap(p) ELSE result

-----------------------------------------------------------------------------
(* MemoryMapping_MEMGetAllocatableSizeEx and MemoryMapping_GetFreeSpace.   *)

AskAllocatable(t) ==
  /\ AtHeap(t, "allocatable")
  /\ LET curRes == MEMGetAllocatableSizeForExpHeapEx(idx[t], request[t].align)
     IN  res' = [res EXCEPT ![t] = IF curRes > @ THEN curRes ELSE @]
  /\ NextHeap(t)

LastHeapWinsSlip(t) ==
  /\ AtHeap(t, "freespace")
  /\ res' = [res EXCEPT ![t] = MEMGetTotalFreeSizeForExpHeap(idx[t])]
  /\ NextHeap(t)

AskFreeSpace(t) ==
  /\ AtHeap(t, "freespace")
  /\ res' = [res EXCEPT ![t] = @ + MEMGetTotalFreeSizeForExpHeap(idx[t])]
  /\ NextHeap(t)

Answer(t) ==
  /\ op[t] \in Queries /\ idx[t] \notin Regions
  /\ Undisturbed(t) /\ UNCHANGED <<blocks, held>>
  /\ Return(t)

-----------------------------------------------------------------------------
(* The exported functions, called by any thread.  A block is given back    *)
(* once, by whichever thread has it then.                                  *)

MemoryMappingAllocEx(t) ==
  \E r \in Requests : Call(t, "alloc", r, Null) /\ UNCHANGED held

MemoryMappingFree(t) ==
  \E p \in held \cup ForeignPointers :
    Call(t, "free", NoRequest, p) /\ held' = held \ {p}

MemoryMapping_MEMGetAllocatableSizeEx(t) ==
  \E r \in Requests :
    Call(t, "allocatable", AlignOnly(r), Null) /\ UNCHANGED held

MemoryMapping_GetFreeSpace(t) ==
  Call(t, "freespace", NoRequest, Null) /\ UNCHANGED held

(* After MemoryMapping_CreateHeaps.                                        *)
Init ==
  /\ blocks = [h \in Regions |-> {}]
  /\ held = {} /\ freedSince = {} /\ takenSince = {}
  /\ op = [t \in Threads |-> "idle"] /\ idx = [t \in Threads |-> 1]
  /\ request = [t \in Threads |-> NoRequest]
  /\ pointer = [t \in Threads |-> Null] /\ res = [t \in Threads |-> 0]

Calls(t) ==
  \/ MemoryMappingAllocEx(t) \/ MemoryMappingFree(t)
  \/ MemoryMapping_MEMGetAllocatableSizeEx(t) \/ MemoryMapping_GetFreeSpace(t)

Running(t) ==
  \/ MemoryMapping_allocEx(t) \/ MemoryMapping_free(t)
  \/ AskAllocatable(t) \/ AskFreeSpace(t) \/ Answer(t)

Next == \E t \in Threads : Calls(t) \/ Running(t)

Spec == Init /\ [][Next]_vars

-----------------------------------------------------------------------------
(* Properties.                                                             *)

Pool == UNION {blocks[h] : h \in Regions}
Usable == UNION {Data(h) : h \in Regions}

Starts(h) == {b.start : b \in blocks[h]}

(* The blocks on their way back.                                           *)
Returning == {t \in Threads : op[t] = "free" /\ pointer[t] \notin ForeignPointers}

HeapsTypeOK ==
  /\ blocks \in [Regions -> SUBSET [start : Nat, size : Nat \ {0}]]
  /\ held \subseteq Usable
  /\ op \in [Threads -> {"idle", "alloc", "free"} \cup Queries]
  /\ idx \in [Threads -> 1..(Len(mem_mapping) + 1)]
  /\ pointer \in [Threads -> Nat] /\ res \in [Threads -> Nat]
  /\ request \in [Threads -> [size : Nat, align : Int, videoOnly : BOOLEAN]]
  /\ \A t \in Threads :
       /\ op[t] = "alloc" => request[t] \in Requests
       /\ op[t] = "idle" => idx[t] = 1 /\ res[t] = 0
  /\ freedSince \subseteq Threads /\ takenSince \subseteq Threads

(* Every block of a heap has one owner: a user holds it or one thread is   *)
(* giving it back, and free has not gone past the heap it belongs to.  So  *)
(* no block is lost, and no heap loses a block that somebody still uses.   *)
EveryBlockOwned ==
  /\ \A a \in Usable :
       (\E h \in Regions : a \in Starts(h)) <=>
         a \in held \/ \E t \in Returning : pointer[t] = a
  /\ \A t \in Returning :
       /\ pointer[t] \notin held
       /\ \A u \in Returning : pointer[t] = pointer[u] => t = u
       /\ \E h \in Regions : h >= idx[t] /\ pointer[t] \in Starts(h)

(* Code that frees with MEMFreeToExpHeap(MEMFindContainHeap(p), p), or asks *)
(* for the heap of an address inside a block, gets the heap the block came *)
(* from; memory that is not ours is left to the system.                    *)
BlockFoundInItsHeap ==
  /\ \A h \in Regions : \A b \in blocks[h] :
       \A p \in b.start..(b.start + b.size - 1) : my_MEMFindContainHeap(p) = h
  /\ \A p \in ForeignPointers : my_MEMFindContainHeap(p) = SystemHeap

VideoMemory == MEMORY_START_VIDEO..(MEMORY_END_VIDEO - 1)
MayServe(h, r) == r.videoOnly => Data(h) \subseteq VideoMemory

(* allocEx returns nullptr only if no heap it may use has room when it     *)
(* returns, unless another thread freed a block after the call began: what *)
(* other threads take meanwhile does not make it miss a place.             *)
FailureIsTruthful ==
  \A t \in Threads, r \in Requests :
    op[t] = "alloc" /\ request[t] = r /\ t \notin freedSince =>
      \A h \in Regions : h < idx[t] /\ MayServe(h, r) =>
        Fits(h, AllocSize(r), r.align) = {}

(* What a query is about, as one look at all the heaps of H would give it. *)
SizeAtOnce(what, align, H) ==
  IF what = "freespace" THEN Cardinality(UNION {Unused(h) : h \in H})
                        ELSE Cardinality(UNION {FittingSizes(h, align) : h \in H})

(* The sizes are collected heap by heap while other threads go on: of the  *)
(* heaps asked so far, in the end of all, the result says too little only  *)
(* if a block was freed since the call, and too much only if one was taken.*)
AnswersBounded ==
  \A t \in Threads : op[t] \in Queries =>
    LET now == SizeAtOnce(op[t], request[t].align, {h \in Regions : h < idx[t]})
    IN  /\ t \notin freedSince => res[t] >= now
        /\ t \notin takenSince => res[t] <= now

(* Seen from outside, the heaps are the one pool of module Allocator.      *)
Promise == INSTANCE Allocator WITH
  pool <- Pool,
  Pointers <- ForeignPointers \cup Usable,
  Usable <- Usable,
  VideoUsable <- Usable \cap VideoMemory

AllocatorPromise == Promise!Spec
=============================================================================
