----------------------------- MODULE PageReport -----------------------------
(***************************************************************************)
(* MemoryMapping_printPageTableTranslation: the page table told as blocks  *)
(* of pages that follow each other in both address spaces.                 *)
(*                                                                         *)
(* SRTable[s].access stands for ks, kp and nx of a segment; pp is left out *)
(* as PTEL is in module PageTable: another pp would start a block as other *)
(* access does.                                                            *)
(***************************************************************************)
EXTENDS PageTable

(* current after memset: its addr of 0 is that of a page, too.             *)
NoPages == [addr |-> 0, size |-> 0, access |-> 0, phys |-> 0]

(* Segment by segment, without those of direct access; and without the     *)
(* last one, whose end wraps to 0, so that its loop never starts.          *)
PagesVisited ==
  {ea \in 0..(AddressPages - SegmentPages - 1) : SRTable[Segment(ea)].t = 0}

LostBlockSlip(acc, ea) ==
  LET current == acc.current
      pte     == MemoryMapping_getPageEntryForAddress(ea, VSID(ea), FALSE)
      access  == SRTable[Segment(ea)].access
  IN  IF pte = NoEntry
        THEN IF current.addr # 0 /\ current.size # 0
               THEN [current |-> NoPages, pageInfos |-> acc.pageInfos \cup {current}] ELSE acc
      ELSE IF current.access = access /\ current.phys = pte.rpn - current.size
        THEN [acc EXCEPT !.current.size = @ + 1]
      ELSE [acc EXCEPT !.current = [addr |-> ea, size |-> 1, access |-> access,
                                    phys |-> pte.rpn]]

(* The loop body.  A block that begins at address 0 is never saved.        *)
VisitPage(acc, ea) ==
  LET current == acc.current
      saved   == IF current.addr # 0 /\ current.size # 0
                   THEN [current |-> NoPages, pageInfos |-> acc.pageInfos \cup {current}]
                   ELSE acc
      pte     == MemoryMapping_getPageEntryForAddress(ea, VSID(ea), FALSE)
      access  == SRTable[Segment(ea)].access
  IN  IF pte = NoEntry THEN saved
      ELSE IF current.access = access /\ current.phys = pte.rpn - current.size
        THEN [acc EXCEPT !.current.size = @ + 1]
      ELSE [saved EXCEPT !.current = [addr |-> ea, size |-> 1, access |-> access,
                                      phys |-> pte.rpn]]

(* The loops, over the pages in address order: what they have after page n.*)
Reading ==
  LET after[n \in 0..(AddressPages - SegmentPages)] ==
        IF n = 0 THEN [current |-> NoPages, pageInfos |-> {}]
        ELSE IF n - 1 \in PagesVisited THEN VisitPage(after[n - 1], n - 1)
        ELSE after[n - 1]
  IN  after

(* The blocks reported: one still open at the end is not among them.       *)
MemoryMapping_printPageTableTranslation == Reading[AddressPages - SegmentPages].pageInfos

-----------------------------------------------------------------------------
(* Properties.                                                             *)

(* What the report rests on.  Each page looked at has a hash; no segment   *)
(* before the last one is of direct access, for a block would be continued *)
(* behind it; our regions begin after page 0 and are followed, in their    *)
(* own segment, by a page that is not theirs, so that the last block of    *)
(* theirs is closed; and the kernel maps, with the access of our segment,  *)
(* no physical page just before one of ours, so that no page of ours       *)
(* continues the block of page 0, which is never saved.                    *)
SegmentsAreRead ==
  \A ea \in 0..(AddressPages - SegmentPages - 1) :
    ea \in EffPages /\ SRTable[Segment(ea)].t = 0

RegionsAreEnclosed ==
  /\ 0 \notin OurPages
  /\ \E gap \in 0..(AddressPages - SegmentPages - 1) :
       /\ \A i \in Regions : EaEnd(i) <= gap
       /\ \E ea \in OurPages : VSID(ea) = VSID(gap)

KernelKeepsDistance ==
  \A pte \in ForeignPTEs : \A q \in 0..(AddressPages - SegmentPages - 1) :
    pte.v = 1 /\ pte.vsid = VSID(q) =>
      \A i \in Regions : \A j \in Chunks(i) : \A k \in 0..(PaSize(i, j) - 1) :
        SRTable[Segment(EaOf(i, j, k))].access = SRTable[Segment(q)].access =>
          pte.rpn + 1 # PaOf(i, j, k)

ReportedTo(ea, b) == b.phys + (ea - b.addr)

(* What the report says is so: every page of every block is in the table,  *)
(* at the address given.  And it says all of our pages that are found by   *)
(* the primary hash, the only one it searches: no block of ours is lost or *)
(* joined to another, in a table that is half filled or congested too.     *)
ReportIsRight ==
  LET report  == MemoryMapping_printPageTableTranslation
      Hit(ea) == MemoryMapping_getPageEntryForAddress(ea, VSID(ea), FALSE)
  IN  /\ \A b \in report : \A ea \in b.addr..(b.addr + b.size - 1) :
           Hit(ea) # NoEntry /\ Hit(ea).rpn = ReportedTo(ea, b)
      /\ \A r \in Regions : \A ea \in EaStart(r)..(EaEnd(r) - 1) :
           Hit(ea) # NoEntry => \E b \in report : ea \in b.addr..(b.addr + b.size - 1)
=============================================================================
