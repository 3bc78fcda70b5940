----------------------------- MODULE Allocator ------------------------------
(***************************************************************************)
(* What the module promises the users of MEMAllocFromMappedMemory(Ex),     *)
(* MEMAllocFromMappedMemoryForGX2Ex and MEMFreeToMappedMemory: one pool of *)
(* memory from which each call takes, or gives back, a block in a single   *)
(* step.  Of the heaps the pool is made of nothing is seen.                *)
(*                                                                         *)
(* An allocation may be refused only while the pool has no room for it, or *)
(* when another thread gave a block back since it was called: the search   *)
(* for room may have passed that place already.                            *)
(***************************************************************************)
EXTENDS Integers

CONSTANTS
  Threads,
  Requests,      \* what the users ask for: [size, align, videoOnly]
  Pointers,      \* what they may give back
  Usable,        \* the addresses blocks may occupy
  VideoUsable,   \* those of them in video memory
  BlockHeader,   \* size of the header in front of a block
  AddressSpace   \* 2^32

VARIABLES
  pool,          \* the blocks given out: [start, size]
  held,          \* where the blocks are that the users have
  op,            \* what each thread is calling, "idle" if nothing
  request,       \* its request
  pointer,       \* the pointer it gives back
  freedSince     \* the calls during which another thread gave a block back

vars == <<pool, held, op, request, pointer, freedSince>>

Null == 0
NoRequest == [size |-> 0, align |-> 1, videoOnly |-> FALSE]
Queries == {"allocatable", "freespace"}
Sizes == 1..AddressSpace

Alignment(align) == IF align > 0 THEN align ELSE IF align = 0 THEN 1 ELSE -align

(* No promise is made of the size of a block for a request of no size, of  *)
(* alignment 0, or of a size that overflows when it is rounded up.         *)
Sound(r) ==
  r.size > 0 /\ r.align # 0 /\ r.size + Alignment(r.align) - 1 < AddressSpace

(* The size of a request, rounded up to a multiple of its alignment.       *)
Needs(r) ==
  LET up == r.size + Alignment(r.align) - 1 IN up - (up % Alignment(r.align))

Extent(start, size) == (start - BlockHeader)..(start + size - 1)
Taken == UNION {Extent(b.start, b.size) : b \in pool}

Places(r, size) ==
  LET free == (IF r.videoOnly THEN VideoUsable ELSE Usable) \ Taken
  IN  {a \in free : a % Alignment(r.align) = 0 /\ Extent(a, size) \subseteq free}

Call(t, what, r, p) ==
  /\ op[t] = "idle"
  /\ op' = [op EXCEPT ![t] = what]
  /\ request' = [request EXCEPT ![t] = r]
  /\ pointer' = [pointer EXCEPT ![t] = p]
  /\ UNCHANGED <<pool, freedSince>>

Return(t) ==
  /\ op' = [op EXCEPT ![t] = "idle"]
  /\ request' = [request EXCEPT ![t] = NoRequest]
  /\ pointer' = [pointer EXCEPT ![t] = Null]

Alloc(t, r) == Call(t, "alloc", r, Null) /\ UNCHANGED held

(* The user has given up a block once the call that gives it back began.   *)
GiveBack(t, p) ==
  /\ Call(t, "free", NoRequest, p)
  /\ held' = held \ {p}

AlignOnly(r) == [NoRequest EXCEPT !.align = r.align]

Query(t, what, r) == Call(t, what, AlignOnly(r), Null) /\ UNCHANGED held

Grant(t) ==
  /\ op[t] = "alloc"
  /\ \E a \in Usable, size \in Sizes :
       /\ pool' = pool \cup {[start |-> a, size |-> size]}
       /\ held' = held \cup {a}
       /\ a \in Places(request[t], size)
       /\ Sound(request[t]) => request[t].size <= size
  /\ freedSince' = freedSince \ {t}
  /\ Return(t)

Refuse(t) ==
  /\ op[t] = "alloc"
  /\ Sound(request[t]) /\ t \notin freedSince =>
       Places(request[t], Needs(request[t])) = {}
  /\ freedSince' = freedSince \ {t}
  /\ UNCHANGED <<pool, held>>
  /\ Return(t)

(* A pointer to none of the blocks is ignored.                             *)
Release(t) ==
  /\ op[t] = "free"
  /\ pool' = {b \in pool : b.start # pointer[t]}
  /\ freedSince' = IF pool' = pool THEN freedSince \ {t}
                   ELSE {u \in Threads \ {t} : op[u] \notin {"idle", "free"}}
  /\ UNCHANGED held
  /\ Return(t)

Answer(t) ==
  /\ op[t] \in Queries
  /\ freedSince' = freedSince \ {t}
  /\ UNCHANGED <<pool, held>>
  /\ Return(t)

Init ==
  /\ pool = {} /\ held = {} /\ freedSince = {}
  /\ op = [t \in Threads |-> "idle"]
  /\ request = [t \in Threads |-> NoRequest]
  /\ pointer = [t \in Threads |-> Null]

Next == \E t \in Threads :
  \/ \E r \in Requests : Alloc(t, r)
  \/ \E p \in Pointers : GiveBack(t, p)
  \/ \E what \in Queries, r \in Requests \cup {NoRequest} : Query(t, what, r)
  \/ Grant(t) \/ Refuse(t) \/ Release(t) \/ Answer(t)

Spec == Init /\ [][Next]_vars
=============================================================================
