----------------------------- MODULE HeapShape ------------------------------
(***************************************************************************)
(* What CheckMemExpHeap should find out, said without a walk: the heap's   *)
(* lists are two doubly linked chains of distinct blocks with the right    *)
(* tags, each inside the heap, whose sizes add up to the heap's.           *)
(***************************************************************************)
EXTENDS HeapCheck, Sequences, FiniteSets, Functions

Chains == UNION {{s \in [1..k -> Blocks] : IsInjective(s)} : k \in 0..Cardinality(Blocks)}

(* Chain s is list l of memory h.  The end of a block is the 32-bit sum    *)
(* the code compares: AcceptedBlocksInside is about the true one.          *)
Linked(h, l, s) ==
  /\ h.head[l] = (IF s = <<>> THEN null ELSE s[1])
  /\ h.tail[l] = (IF s = <<>> THEN null ELSE s[Len(s)])
  /\ \A k \in DOMAIN s :
       LET b == h.block[s[k]]
       IN  /\ b.prev = (IF k = 1 THEN null ELSE s[k - 1])
           /\ b.next = (IF k = Len(s) THEN null ELSE s[k + 1])
           /\ b.tag = ListTag(l)
           /\ (s[k] + HeaderSize + b.blockSize) % Word <= dataEnd

(* The sizes of the first k blocks of chain s, with their headers, summed. *)
RunningTotal(h, s) ==
  LET total[k \in 0..Len(s)] ==
        IF k = 0 THEN 0
        ELSE total[k - 1] + h.block[s[k]].blockSize + h.block[s[k]].padding + HeaderSize
  IN  total

TotalOf(h, s) == RunningTotal(h, s)[Len(s)]

Intact(h) ==
  /\ h.tag = "EXPH"
  /\ \E u \in Chains, f \in Chains :
       /\ Linked(h, "used", u) /\ Linked(h, "free", f)
       /\ (TotalOf(h, u) + TotalOf(h, f)) % Word = dataEnd - dataStart

(* What the heap functions of the system promise: a heap whose lock they   *)
(* have released is intact.                                                *)
ASSUME UsersLeaveItIntact == \A h \in UserHeaps : Intact(h)

(* The verdict of the walk is the one of the definition above, on every    *)
(* memory: a heap that is not intact is reported, an intact one is not.    *)
VerdictIsRight == pc = "done" /\ mutator = "absent" => (result = "ok" <=> Intact(heap))

(* "Block is not inside heap" is what the code says of the blocks it       *)
(* rejects: when the check has passed, every block on a list ends inside   *)
(* the heap, its size taken for what it is.                                *)
AcceptedBlocksInside ==
  pc = "done" /\ result = "ok" =>
    \A l \in Lists, s \in Chains :
      Linked(heap, l, s) =>
        \A b \in Range(s) : b + HeaderSize + heap.block[b].blockSize <= dataEnd
=============================================================================
