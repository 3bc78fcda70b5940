----------------------------- MODULE HeapCheck ------------------------------
(***************************************************************************)
(* CheckMemExpHeap: walk the used and the free list of one heap and say    *)
(* whether it is intact.  The memory walked may hold anything; the check   *)
(* shares it with threads that allocate and free under the heap's lock.    *)
(*                                                                         *)
(* A pointer is a number: null is 0, Blocks are the addresses inside the   *)
(* heap's data area that the memory may point at, Outside those elsewhere. *)
(* Pointers and sizes have the 32 bits of the code: arithmetic is modulo   *)
(* Word.                                                                   *)
(*                                                                         *)
(* External: the heap functions of the operating system (Mutate, Mend).    *)
(***************************************************************************)
EXTENDS Naturals

CONSTANTS
  Word,                 \* 2^32
  dataStart, dataEnd,   \* heap->header
  HeaderSize,           \* sizeof(MEMExpHeapBlock)
  Blocks, Outside,
  UserHeaps,            \* the memories the heap functions leave behind,
  TornHeaps             \*   and those they go through on their way

VARIABLES
  heap,        \* the memory: header tag, the two lists, the blocks
  lock,        \* owner of heap->header.lock
  mutator,     \* "absent", or the state of a thread that uses the heap
  pc,          \* "start", "walk", "release", "done", "fault"
  list,        \* the list being walked
  cur, prevBlock, totalSize,
  visited,     \* blocks of this list accepted so far
  result

vars == <<heap, lock, mutator, pc, list, cur, prevBlock, totalSize, visited, result>>
walk_vars == <<list, cur, prevBlock, totalSize, visited>>

null == 0
Lists == {"used", "free"}
ListTag(l) == IF l = "used" THEN "UD" ELSE "FR"   \* 0x5544, 0x4652

Pointers == {null} \cup Blocks \cup Outside
MEMExpHeapBlock ==
  [prev : Pointers, next : Pointers, tag : {"UD", "FR", "bad"},
   blockSize : 0..(Word - 1), padding : Nat]
MEMExpHeap ==
  [tag : {"EXPH", "bad"},
   head : [Lists -> Pointers], tail : [Lists -> Pointers],
   block : [Blocks -> MEMExpHeapBlock]]

ASSUME HeapAssumption ==
  /\ Word \in Nat /\ HeaderSize \in Nat
  /\ dataStart \in Nat \ {0} /\ dataEnd \in Nat /\ dataStart < dataEnd /\ dataEnd < Word
  /\ Blocks \subseteq dataStart..dataEnd
  /\ Outside \subseteq 1..(Word - 1) /\ Outside \cap (dataStart..dataEnd) = {}

(* The tag, which is read before the lock is taken, is written when the    *)
(* heap is created and never again.                                        *)
ASSUME UsersAssumption ==
  /\ UserHeaps \subseteq MEMExpHeap /\ TornHeaps \subseteq MEMExpHeap
  /\ \A h \in TornHeaps : h.tag = "EXPH"

-----------------------------------------------------------------------------
(* CheckMemExpHeap: the tag, then the lock, then CheckMemExpHeapCore.      *)

BeginList(l) ==
  /\ list' = l
  /\ cur' = heap.head[l]
  /\ prevBlock' = null
  /\ visited' = {}

RejectTag ==
  /\ pc = "start" /\ heap.tag # "EXPH"
  /\ result' = "corrupt" /\ pc' = "done"
  /\ UNCHANGED <<heap, lock, mutator, walk_vars>>

(* Not the code: definitions named ...Slip are those after them with a     *)
(* slip in them, to see that the properties notice.                        *)
NoLockSlip ==
  /\ pc = "start" /\ heap.tag = "EXPH"
  /\ pc' = "walk"
  /\ totalSize' = 0
  /\ BeginList("used")
  /\ UNCHANGED <<heap, lock, mutator, result>>

(* MEM_HEAP_FLAG_USE_LOCK is set: MemoryMapping_CreateHeaps asks for it.   *)
AcquireLock ==
  /\ pc = "start" /\ heap.tag = "EXPH"
  /\ lock = "free" /\ lock' = "check"
  /\ pc' = "walk"
  /\ totalSize' = 0
  /\ BeginList("used")
  /\ UNCHANGED <<heap, mutator, result>>

Return(verdict) ==
  /\ result' = verdict /\ pc' = "release"
  /\ UNCHANGED <<heap, lock, mutator, walk_vars>>

-----------------------------------------------------------------------------
(* CheckMemExpHeapBlock: one turn of the loop.                             *)

PrevUncheckedSlip(b) == TRUE
PrevFits(b) == heap.block[b].prev = prevBlock

EndUncheckedSlip(b) == dataStart <= b /\ b <= dataEnd
InsideHeap(b) ==
  /\ dataStart <= b /\ b <= dataEnd
  /\ (b + HeaderSize + heap.block[b].blockSize) % Word <= dataEnd

BlockAccepted(b) == PrevFits(b) /\ InsideHeap(b) /\ heap.block[b].tag = ListTag(list)

SizeWithHeader(b) == heap.block[b].blockSize + heap.block[b].padding + HeaderSize

SumNotWrappedSlip(b) == totalSize + SizeWithHeader(b)
NewTotal(b) == (totalSize + SizeWithHeader(b)) % Word

VisitBlock ==
  /\ pc = "walk" /\ cur \in Blocks /\ BlockAccepted(cur)
  /\ totalSize' = NewTotal(cur)
  /\ visited' = visited \cup {cur}
  /\ prevBlock' = cur
  /\ cur' = heap.block[cur].next
  /\ UNCHANGED <<heap, lock, mutator, pc, list, result>>

(* cur->prev is read before cur is known to be inside the heap: a pointer  *)
(* that leaves it is rejected for that or for its prev, or faults if       *)
(* nothing is mapped there.                                                *)
FaultOutside ==
  /\ pc = "walk" /\ cur \in Outside
  /\ pc' = "fault"
  /\ UNCHANGED <<heap, lock, mutator, walk_vars, result>>

TailFits == prevBlock = heap.tail[list]

(* The early returns: a block or pointer that does not fit, or the tail.   *)
Reject ==
  /\ pc = "walk"
  /\ \/ cur \in Blocks /\ ~BlockAccepted(cur)
     \/ cur \in Outside
     \/ cur = null /\ ~TailFits
  /\ Return("corrupt")

(* At the end of a list the free list's turn comes, or the total is        *)
(* compared with the size of the heap.                                     *)
NextList ==
  /\ pc = "walk" /\ cur = null /\ TailFits /\ list = "used"
  /\ BeginList("free")
  /\ UNCHANGED <<heap, lock, mutator, pc, totalSize, result>>

CompareTotal ==
  /\ pc = "walk" /\ cur = null /\ TailFits /\ list = "free"
  /\ Return(IF totalSize = dataEnd - dataStart THEN "ok" ELSE "corrupt")

ReleaseLock ==
  /\ pc = "release"
  /\ lock' = "free" /\ pc' = "done"
  /\ UNCHANGED <<heap, mutator, walk_vars, result>>

CheckMemExpHeap ==
  \/ RejectTag \/ AcquireLock
  \/ VisitBlock \/ Reject \/ FaultOutside
  \/ NextList \/ CompareTotal \/ ReleaseLock

-----------------------------------------------------------------------------
(* A thread in MEMAllocFromExpHeapEx or MEMFreeToExpHeap.                  *)

Mutate ==
  /\ mutator = "idle" /\ lock = "free"
  /\ mutator' = "busy" /\ lock' = "mutator"
  /\ heap' \in TornHeaps
  /\ UNCHANGED <<pc, walk_vars, result>>

Mend ==
  /\ mutator = "busy"
  /\ mutator' = "idle" /\ lock' = "free"
  /\ heap' \in UserHeaps
  /\ UNCHANGED <<pc, walk_vars, result>>

(* The memory is anything, or a thread is using the heap.                  *)
InitWith(memories, state) ==
  /\ heap \in memories /\ mutator = state
  /\ lock = "free" /\ pc = "start" /\ result = "none"
  /\ list = "used" /\ cur = null /\ prevBlock = null /\ totalSize = 0 /\ visited = {}

Init == InitWith(MEMExpHeap, "absent") \/ InitWith(UserHeaps, "idle")

Next == CheckMemExpHeap \/ Mutate \/ Mend

Spec == Init /\ [][Next]_vars

(* The check is one function: it goes on.  The other thread gives the lock *)
(* back, and the check gets it in the end (the spin lock of the system).   *)
Fairness ==
  /\ WF_vars(CheckMemExpHeap) /\ SF_vars(AcquireLock)
  /\ WF_vars(Mend)

-----------------------------------------------------------------------------
(* Properties.                                                             *)

TypeOK ==
  /\ heap \in MEMExpHeap
  /\ lock \in {"free", "check", "mutator"}
  /\ mutator \in {"absent", "idle", "busy"}
  /\ pc \in {"start", "walk", "release", "done", "fault"}
  /\ list \in Lists /\ cur \in Pointers /\ prevBlock \in {null} \cup Blocks
  /\ totalSize \in 0..(Word - 1)
  /\ visited \subseteq Blocks
  /\ result \in {"none", "ok", "corrupt"}

(* However the pointers of the lists run, no block is accepted twice: the  *)
(* comparison of prev alone keeps the walk out of every cycle, which is    *)
(* why it ends.                                                            *)
NoBlockAcceptedTwice ==
  pc = "walk" /\ cur \in Blocks /\ BlockAccepted(cur) => cur \notin visited

(* What a walk has passed: every block it accepted names as its prev a     *)
(* block accepted before, and none names the last one yet.  The heap does  *)
(* not change meanwhile, for the walk owns its lock.                       *)
LockOwned ==
  /\ pc \in {"walk", "release"} => lock = "check"
  /\ mutator = "busy" => lock = "mutator"
WalkedSoFar ==
  pc = "walk" =>
    /\ visited \subseteq Blocks
    /\ \/ visited = {} /\ prevBlock = null
       \/ prevBlock \in visited
    /\ \A b \in visited : heap.block[b].prev \in (visited \cup {null}) \ {prevBlock}
WalkInv == LockOwned /\ WalkedSoFar

(* The check ends with a verdict and without the lock, whatever the memory *)
(* holds, unless a pointer leads to an address that is not mapped.         *)
CheckEnds == <>((pc = "done" /\ lock # "check") \/ pc = "fault")

(* A heap that is intact whenever its lock is free is never called corrupt,*)
(* and never makes the check fault, whoever allocates and frees meanwhile. *)
NoFalseAlarm == mutator # "absent" => result # "corrupt" /\ pc # "fault"
=============================================================================
