------------------------------ MODULE PageHash ------------------------------
(***************************************************************************)
(* The hash functions that choose the PTE groups of a page, as             *)
(* MemoryMapping_mapMemory and MemoryMapping_getPageEntryForAddress        *)
(* compute them, and the API.  The widths are parameters: small instances  *)
(* use few bits, module MCRealMap the ones of the console.                 *)
(***************************************************************************)
EXTENDS PageTable, Bitwise

CONSTANTS
  HashBits,     \* bits of the VSID that enter the hash (19)
  LowGroups,    \* groups addressed by the hash bits below HTABMASK (2^10)
  HTABMASK,     \* SRTable.sdr1 & 0x1FF
  ApiPages      \* pages that share an API: (ea >> 22) over (ea >> 17) (2^5)

page_index(ea) == ea % SegmentPages

(* Not the code: hashvalue1 with too few bits of the page index, to see    *)
(* that the properties notice.                                             *)
NarrowIndexSlip(ea) == (VSID(ea) % 2^HashBits) ^^ (page_index(ea) % ApiPages)

hashvalue1(ea) == (VSID(ea) % 2^HashBits) ^^ page_index(ea)

(* ~hashvalue1: only its low HashBits bits reach the group address.        *)
hashvalue2(ea) == (2^HashBits - 1) - hashvalue1(ea)

(* PTEGaddr - (HTABORG << 16), counted in groups of 8 entries of 8 bytes.  *)
PTEGIndex(hash) ==
  ((hash \div LowGroups) & HTABMASK) * LowGroups + (hash % LowGroups)

PrimaryGroup   == [ea \in EffPages |-> PTEGIndex(hashvalue1(ea))]
SecondaryGroup == [ea \in EffPages |-> PTEGIndex(hashvalue2(ea))]
PageApi        == [ea \in EffPages |-> page_index(ea) \div ApiPages]
=============================================================================
