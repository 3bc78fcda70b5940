---------------------------- MODULE MCHeapCheck -----------------------------
(***************************************************************************)
(* Two blocks, at 4 and 6, in a heap that spans 4..8, with words of four   *)
(* bits: lists that run anywhere, sizes that fit, leave no room for the    *)
(* other block, or wrap around.                                            *)
(***************************************************************************)
EXTENDS HeapShape, TLC

MCBlocks == {4, 6}
MCOutside == {12}

Sized(nexts, tags, sizes) ==
  {[prev |-> p, next |-> q, tag |-> t, blockSize |-> z[1], padding |-> z[2]] :
     p \in {null, 4, 6}, q \in nexts, t \in tags, z \in sizes}

AnyBlocks ==
  {(4 :> b4 @@ 6 :> b6) :
     b4 \in Sized({null, 4, 6}, {"UD"}, {<<1, 0>>, <<0, 1>>, <<3, 0>>}),
     b6 \in Sized({null, 4, 12}, {"UD", "FR"}, {<<1, 0>>, <<3, 0>>, <<15, 0>>})}

OnLists(used, free) == "used" :> used @@ "free" :> free

AnyHeap ==
  {[tag |-> "EXPH", head |-> OnLists(hu, hf), tail |-> OnLists(tu, tf), block |-> b] :
     hu \in {null, 4, 6}, hf \in {null, 6}, tu \in {null, 4, 6}, tf \in {null, 6},
     b \in AnyBlocks}

(* Heaps the system's functions may leave: both blocks used, or one free.  *)
IntactBlock(p, q, t) == [prev |-> p, next |-> q, tag |-> t, blockSize |-> 1, padding |-> 0]

BothUsed ==
  [tag |-> "EXPH", head |-> OnLists(4, null), tail |-> OnLists(6, null),
   block |-> (4 :> IntactBlock(null, 6, "UD") @@ 6 :> IntactBlock(4, null, "UD"))]
OneFree ==
  [tag |-> "EXPH", head |-> OnLists(4, 6), tail |-> OnLists(4, 6),
   block |-> (4 :> IntactBlock(null, null, "UD") @@ 6 :> IntactBlock(null, null, "FR"))]
IntactHeaps == {BothUsed, OneFree}

(* On the way from one to the other block 6 is on neither list.            *)
MCTornHeaps == {[BothUsed EXCEPT !.tail["used"] = 4, !.block[4].next = null]}

MCInit ==
  \/ InitWith(AnyHeap, "absent")
  \/ InitWith({[BothUsed EXCEPT !.tag = "bad"]}, "absent")
  \/ InitWith(IntactHeaps, "idle")

MCSpec == MCInit /\ [][Next]_vars /\ Fairness
=============================================================================
