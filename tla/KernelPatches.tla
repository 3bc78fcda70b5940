--------------------------- MODULE KernelPatches ----------------------------
(***************************************************************************)
(* The functions of the kernel, the loader and coreinit that the module    *)
(* replaces, so that they know of the memory it maps: my_F is what         *)
(* DECL_FUNCTION(F) defines, and F itself what a caller gets, the          *)
(* replacement once F is patched.                                          *)
(*                                                                         *)
(* Addresses and sizes count in pages, as in module AddressMap, and the    *)
(* results of the checks are BOOLEAN.  External: the functions replaced,   *)
(* real_F, which answer from the kernel's own translations.                *)
(***************************************************************************)
EXTENDS AddressMap

CONSTANTS
  KernelMap,            \* what the kernel maps itself: effective |-> physical page
  SegmentPages,         \* pages per segment
  MEMORY_START_BASE,    \* the page of that name: our segment begins here
  CodeStart, CodeEnd    \* 0x00800000 and 0x01000000

VARIABLE patched        \* the functions replaced so far

(* Our segment was unmapped before, so the kernel does not know our        *)
(* effective pages, or knows them as we do.  Nothing is assumed of the     *)
(* physical side: it may see a page twice, and see one of ours, such as the*)
(* memory of the video heap, which comes from the loader's SharedReadHeap. *)
ASSUME KernelDoesNotContradict ==
  \A ea \in DOMAIN KernelMap :
    /\ ea \in Nat \ {0} /\ KernelMap[ea] \in Nat \ {0}
    /\ MemoryMapping_EffectiveToPhysical(ea) \in {0, KernelMap[ea]}

(* Our regions lie in one segment, and what the BATs map is code memory.   *)
ASSUME SegmentAssumption ==
  /\ SegmentPages \in Nat \ {0} /\ MEMORY_START_BASE \in Nat
  /\ CodeStart \in Nat /\ CodeEnd \in Nat
  /\ CodeStart <= BatEaStart /\ BatEaEnd <= CodeEnd
  /\ \A h \in Regions : 0 < EaStart(h)
  /\ \A h \in Regions : \A ea \in EaStart(h)..(EaEnd(h) - 1) :
       ea \div SegmentPages = MEMORY_START_BASE \div SegmentPages

(* Definitions named ...Slip are not the code: each is the definition      *)
(* after it with a slip in it, to see that the properties notice.          *)

TranslatorLateSlip ==
  << "LiValidateAddress", "sCheckDataRange", "KiPhysicalToEffectiveCached",
     "KiPhysicalToEffectiveUncached", "KiEffectiveToPhysical",
     "KiIsEffectiveRangeValid", "IPCKDriver_ValidatePhysicalAddress",
     "KiValidateUserDataRange", "KiValidateUserCodeRange", "KiGetOrPutUserData",
     "MEMFindContainHeap" >>

function_replacements ==
  << "LiValidateAddress", "sCheckDataRange", "KiEffectiveToPhysical",
     "KiPhysicalToEffectiveCached", "KiPhysicalToEffectiveUncached",
     "KiIsEffectiveRangeValid", "IPCKDriver_ValidatePhysicalAddress",
     "KiValidateUserDataRange", "KiValidateUserCodeRange", "KiGetOrPutUserData",
     "MEMFindContainHeap" >>

-----------------------------------------------------------------------------
(* External: the functions replaced.                                       *)

real_KiEffectiveToPhysical(ea) == IF ea \in DOMAIN KernelMap THEN KernelMap[ea] ELSE 0

(* Cached and uncached differ in the window of the answer only; of several *)
(* effective pages the kernel names one.                                   *)
real_KiPhysicalToEffective(pa) ==
  IF \E ea \in DOMAIN KernelMap : KernelMap[ea] = pa
    THEN CHOOSE ea \in DOMAIN KernelMap : KernelMap[ea] = pa ELSE 0

(* KiValidateUserDataRange, KiValidateUserCodeRange, sCheckDataRange,      *)
(* LiValidateAddress and KiIsEffectiveRangeValid.                          *)
real_RangeCheck(ea, size) == \A p \in ea..(ea + size - 1) : p \in DOMAIN KernelMap

real_IPCKDriver_ValidatePhysicalAddress(physStart, physEnd) ==
  \A pa \in physStart..physEnd : \E ea \in DOMAIN KernelMap : KernelMap[ea] = pa

-----------------------------------------------------------------------------
(* The replacements.                                                       *)

my_KiEffectiveToPhysical(ea) ==
  LET result == real_KiEffectiveToPhysical(ea)
  IN  IF result = 0 THEN MemoryMapping_EffectiveToPhysical(ea) ELSE result

(* Cached and Uncached.                                                    *)
my_KiPhysicalToEffective(pa) ==
  LET result == real_KiPhysicalToEffective(pa)
  IN  IF result = 0 THEN MemoryMapping_PhysicalToEffective(pa) ELSE result

SegmentOnlySlip(ea) == ea \div SegmentPages = MEMORY_START_BASE \div SegmentPages

(* (address >= 0x00800000 && address < 0x01000000) ||                      *)
(* (address & 0xF0000000) == (MEMORY_START_BASE & 0xF0000000)              *)
InOurMemory(ea) ==
  \/ ea >= CodeStart /\ ea < CodeEnd
  \/ ea \div SegmentPages = MEMORY_START_BASE \div SegmentPages

(* The four checks of ranges: of one in our memory the start only.         *)
my_RangeCheck(ea, size) == InOurMemory(ea) \/ real_RangeCheck(ea, size)

my_IPCKDriver_ValidatePhysicalAddress(physStart, physEnd) ==
  \/ MemoryMapping_PhysicalToEffective(physStart) > 0
  \/ real_IPCKDriver_ValidatePhysicalAddress(physStart, physEnd)

my_KiIsEffectiveRangeValid(ea, size) ==
  real_RangeCheck(ea, size) \/ MemoryMapping_EffectiveToPhysical(ea) > 0

Copy(from, to, size) == [from |-> from, to |-> to, size |-> size]

(* What is copied: for a write src and dst change places.                  *)
KiCopy(src, size, dst, isRead) ==
  IF isRead THEN Copy(src, dst, size) ELSE Copy(dst, src, size)

Refused == Copy(0, 0, 0)

real_KiGetOrPutUserData(src, size, dst, isRead) ==
  IF real_RangeCheck(src, size) THEN KiCopy(src, size, dst, isRead) ELSE Refused

my_KiGetOrPutUserData(src, size, dst, isRead) ==
  LET done == real_KiGetOrPutUserData(src, size, dst, isRead)
  IN  IF done # Refused THEN done
      ELSE IF MemoryMapping_EffectiveToPhysical(src) = 0 THEN Refused
      ELSE KiCopy(src, size, dst, isRead)

-----------------------------------------------------------------------------
(* What a caller gets.                                                     *)

KiEffectiveToPhysical(ea) ==
  IF "KiEffectiveToPhysical" \in patched
    THEN my_KiEffectiveToPhysical(ea) ELSE real_KiEffectiveToPhysical(ea)

PhysicalToEffectives == {"KiPhysicalToEffectiveCached", "KiPhysicalToEffectiveUncached"}

KiPhysicalToEffective(f, pa) ==
  IF f \in patched THEN my_KiPhysicalToEffective(pa) ELSE real_KiPhysicalToEffective(pa)

RangeChecks ==
  {"LiValidateAddress", "sCheckDataRange", "KiValidateUserDataRange",
   "KiValidateUserCodeRange"}

RangeCheck(f, ea, size) ==
  IF f \in patched THEN my_RangeCheck(ea, size) ELSE real_RangeCheck(ea, size)

KiIsEffectiveRangeValid(ea, size) ==
  IF "KiIsEffectiveRangeValid" \in patched
    THEN my_KiIsEffectiveRangeValid(ea, size) ELSE real_RangeCheck(ea, size)

IPCKDriver_ValidatePhysicalAddress(physStart, physEnd) ==
  IF "IPCKDriver_ValidatePhysicalAddress" \in patched
    THEN my_IPCKDriver_ValidatePhysicalAddress(physStart, physEnd)
    ELSE real_IPCKDriver_ValidatePhysicalAddress(physStart, physEnd)

KiGetOrPutUserData(src, size, dst, isRead) ==
  IF "KiGetOrPutUserData" \in patched
    THEN my_KiGetOrPutUserData(src, size, dst, isRead)
    ELSE real_KiGetOrPutUserData(src, size, dst, isRead)
=============================================================================
