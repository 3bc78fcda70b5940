-------------------------- MODULE ModuleLifecycle --------------------------
(***************************************************************************)
(* The hooks of the module, which the loader runs one at a time: it        *)
(* initializes the module, perhaps again with a later application, and     *)
(* reports that an application starts or ends.  The users of the mapped    *)
(* memory allocate and free in between and while a hook runs.              *)
(*                                                                         *)
(* A step is a call of a hook to another part: the setup (module           *)
(* CoreSetup), the creation or the check of one heap (modules Heaps and    *)
(* HeapCheck) or one patch (module KernelPatches), of which only what the  *)
(* hooks tell apart is kept.  External: the loader and the users.          *)
(***************************************************************************)
EXTENDS KernelPatches, FiniteSets

CONSTANTS
  Cores, MainCore,     \* the hooks run on MainCore
  Blocks,              \* the blocks a heap can give out
  Debug                \* built with DEBUG

VARIABLES
  pc, i,               \* the hook's next step, its loop counter
  ucSetupRequired,
  gMEMAllocFromDefaultHeapExForThreads, gMEMFreeToDefaultHeapForThreads,
  mapped,              \* our pages in the page table
  served,              \* cores whose segment register 8 is ours
  nops,                \* cores on which the kernel leaves that register alone
  heaps,               \* each region: the blocks of its heap
  held                 \* the blocks of each region the users have

pointers == <<gMEMAllocFromDefaultHeapExForThreads, gMEMFreeToDefaultHeapForThreads>>
table_vars == <<mapped, served, nops>>
vars == <<pc, i, ucSetupRequired, pointers, table_vars, heaps, held, patched>>

ASSUME HooksAssumption == MainCore \in Cores /\ Debug \in BOOLEAN /\ mem_mapping # <<>>

NoHeap == {"no heap"}
ASSUME BlocksAssumption == "no heap" \notin Blocks

(* The pointers lead nowhere, to what coreinit exports, or to what the     *)
(* application's calls are linked to.                                      *)
Allocators == {"null", "exported", "linked"}

-----------------------------------------------------------------------------
(* WUMS_INITIALIZE.  Definitions named ...Slip are not the code: each is   *)
(* the definition after it with a slip in it, to see that the properties   *)
(* notice.                                                                 *)

WUMS_INITIALIZE ==
  /\ pc = "idle"
  /\ pc' = IF ucSetupRequired THEN "pointers" ELSE "idle"
  /\ UNCHANGED <<i, ucSetupRequired, pointers, table_vars, heaps, held, patched>>

(* Each of the three look-ups may fail, which is fatal.                    *)
UpdateFunctionPointer ==
  /\ pc = "pointers"
  /\ \/ pc' = "fatal" /\ UNCHANGED pointers
     \/ /\ pc' = "setup"
        /\ gMEMAllocFromDefaultHeapExForThreads' = "exported"
        /\ gMEMFreeToDefaultHeapForThreads' = "exported"
  /\ UNCHANGED <<i, ucSetupRequired, table_vars, heaps, held, patched>>

FlagKeptSlip ==
  /\ pc = "setup" /\ pc' \in {"map", "fatal"}
  /\ UNCHANGED <<i, ucSetupRequired, pointers, table_vars, heaps, held, patched>>

(* MemoryMapping_setupMemoryMapping begins: without memory for the copy of *)
(* the page table it is fatal.                                             *)
BeginSetup ==
  /\ pc = "setup" /\ pc' \in {"map", "fatal"}
  /\ ucSetupRequired' = FALSE
  /\ UNCHANGED <<i, pointers, table_vars, heaps, held, patched>>

(* It ends, with any part of the pages mapped and, of any cores, the       *)
(* kernel patched or the segment register set.                             *)
EndSetup ==
  /\ pc = "map" /\ pc' = "heaps"
  /\ \E h \in Regions : \E n \in 0..(EaEnd(h) - EaStart(h)) : mapped' = FirstPages(h, n)
  /\ \E some, others \in SUBSET Cores :
       served' = served \cup some /\ nops' = nops \cup others
  /\ i' = 1
  /\ UNCHANGED <<ucSetupRequired, pointers, heaps, held, patched>>

HeaderOnlySlip ==
  /\ pc = "heaps" /\ i \in Regions
  /\ IF EaStart(i) \in mapped /\ MainCore \in served
       THEN /\ heaps' = [heaps EXCEPT ![i] = {}] /\ i' = i + 1 /\ UNCHANGED pc
       ELSE /\ pc' = "fault" /\ UNCHANGED <<heaps, i>>
  /\ UNCHANGED <<ucSetupRequired, pointers, table_vars, held, patched>>

(* A round of MemoryMapping_CreateHeaps: the region is cleared as a whole, *)
(* which a page that MainCore cannot translate ends.                       *)
CreateHeap ==
  /\ pc = "heaps" /\ i \in Regions
  /\ IF Pages(i) \subseteq mapped /\ MainCore \in served
       THEN /\ heaps' = [heaps EXCEPT ![i] = {}] /\ i' = i + 1 /\ UNCHANGED pc
       ELSE /\ pc' = "fault" /\ UNCHANGED <<heaps, i>>
  /\ UNCHANGED <<ucSetupRequired, pointers, table_vars, held, patched>>

LastHeapMissedSlip ==
  /\ pc = "heaps" /\ i + 1 \notin Regions
  /\ pc' = "patch" /\ i' = 1
  /\ UNCHANGED <<ucSetupRequired, pointers, table_vars, heaps, held, patched>>

HeapsCreated ==
  /\ pc = "heaps" /\ i \notin Regions
  /\ pc' = "patch" /\ i' = 1
  /\ UNCHANGED <<ucSetupRequired, pointers, table_vars, heaps, held, patched>>

(* A round of the loop over function_replacements.                         *)
FPAddFunctionPatch ==
  /\ pc = "patch" /\ i \in DOMAIN function_replacements
  /\ \/ patched' = patched \cup {function_replacements[i]} /\ i' = i + 1 /\ UNCHANGED pc
     \/ pc' = "fatal" /\ UNCHANGED <<patched, i>>
  /\ UNCHANGED <<ucSetupRequired, pointers, table_vars, heaps, held>>

FunctionsPatched ==
  /\ pc = "patch" /\ i \notin DOMAIN function_replacements
  /\ pc' = "idle"
  /\ UNCHANGED <<i, ucSetupRequired, pointers, table_vars, heaps, held, patched>>

-----------------------------------------------------------------------------
(* The hooks for applications, called of an initialized module.            *)

BeginCheck(what) ==
  /\ pc = "idle" /\ ~ucSetupRequired
  /\ pc' = what /\ i' = 1
  /\ UNCHANGED <<ucSetupRequired, pointers, table_vars, heaps, held, patched>>

WUMS_APPLICATION_STARTS == BeginCheck("check_start")
WUMS_APPLICATION_ENDS == BeginCheck("check_end")

Checking == pc \in {"check_start", "check_end"}

(* A round of MemoryMapping_checkHeaps: whatever a user wrote into it, a   *)
(* heap found corrupt is fatal in a build with DEBUG and reported else.    *)
CheckHeap ==
  /\ Checking /\ i \in Regions
  /\ \/ i' = i + 1 /\ UNCHANGED pc
     \/ Debug /\ pc' = "fatal" /\ UNCHANGED i
  /\ UNCHANGED <<ucSetupRequired, pointers, table_vars, heaps, held, patched>>

HeapsChecked ==
  /\ Checking /\ i \notin Regions
  /\ pc' = "idle"
  /\ IF pc = "check_start"
       THEN /\ gMEMAllocFromDefaultHeapExForThreads' = "linked"
            /\ gMEMFreeToDefaultHeapForThreads' = "linked"
       ELSE UNCHANGED pointers
  /\ UNCHANGED <<i, ucSetupRequired, table_vars, heaps, held, patched>>

-----------------------------------------------------------------------------
(* External: the kernel's switch of address space, and the users, who find *)
(* the module initialized.                                                 *)

KernelLoadsSegments(c) ==
  /\ c \in served \ nops
  /\ served' = served \ {c}
  /\ UNCHANGED <<pc, i, ucSetupRequired, pointers, mapped, nops, heaps, held,
                 patched>>

Replaced == {function_replacements[k] : k \in DOMAIN function_replacements}
Usable == patched = Replaced /\ pc \notin {"fatal", "fault"}

UserAllocates(h, b) ==
  /\ Usable /\ heaps[h] # NoHeap /\ b \notin heaps[h]
  /\ heaps' = [heaps EXCEPT ![h] = @ \cup {b}]
  /\ held' = [held EXCEPT ![h] = @ \cup {b}]
  /\ UNCHANGED <<pc, i, ucSetupRequired, pointers, table_vars, patched>>

UserFrees(h, b) ==
  /\ Usable /\ b \in held[h]
  /\ heaps' = [heaps EXCEPT ![h] = @ \ {b}]
  /\ held' = [held EXCEPT ![h] = @ \ {b}]
  /\ UNCHANGED <<pc, i, ucSetupRequired, pointers, table_vars, patched>>

LifecycleInit ==
  /\ pc = "idle" /\ i = 1 /\ ucSetupRequired = TRUE
  /\ gMEMAllocFromDefaultHeapExForThreads = "null"
  /\ gMEMFreeToDefaultHeapForThreads = "null"
  /\ mapped = {} /\ served = {} /\ nops = {} /\ patched = {}
  /\ heaps = [h \in Regions |-> NoHeap] /\ held = [h \in Regions |-> {}]

Initializing ==
  \/ WUMS_INITIALIZE \/ UpdateFunctionPointer \/ BeginSetup \/ EndSetup
  \/ CreateHeap \/ HeapsCreated \/ FPAddFunctionPatch \/ FunctionsPatched

LifecycleNext ==
  \/ Initializing
  \/ WUMS_APPLICATION_STARTS \/ WUMS_APPLICATION_ENDS \/ CheckHeap \/ HeapsChecked
  \/ \E h \in Regions, b \in Blocks : UserAllocates(h, b) \/ UserFrees(h, b)
  \/ \E c \in Cores : KernelLoadsSegments(c)

LifecycleSpec == LifecycleInit /\ [][LifecycleNext]_vars

-----------------------------------------------------------------------------
(* Properties.                                                             *)

LifecycleTypeOK ==
  /\ pc \in {"idle", "pointers", "setup", "map", "heaps", "patch", "check_start",
             "check_end", "fatal", "fault"}
  /\ i \in Nat \ {0} /\ ucSetupRequired \in BOOLEAN
  /\ gMEMAllocFromDefaultHeapExForThreads \in Allocators
  /\ gMEMFreeToDefaultHeapForThreads \in Allocators
  /\ mapped \subseteq OurPages /\ served \subseteq Cores /\ nops \subseteq Cores
  /\ patched \subseteq Replaced
  /\ heaps \in [Regions -> (SUBSET Blocks) \cup {NoHeap}]
  /\ held \in [Regions -> SUBSET Blocks]

(* A block a user holds is in its heap still, over any number of           *)
(* applications and calls of WUMS_INITIALIZE: the heaps are not made again *)
(* under their users.                                                      *)
BlocksSurvive == \A h \in Regions : held[h] \subseteq heaps[h]

(* Nobody reads the header of a heap before there is one: not the check,   *)
(* and not MEMFindContainHeap, which anyone may call once it is patched.   *)
HeapsExistWhenRead ==
  Checking \/ "MEMFindContainHeap" \in patched => \A h \in Regions : heaps[h] # NoHeap

(* Once the kernel translates our pages, all of them are in the page table *)
(* and the main core uses our segment, unless the kernel was not patched   *)
(* there: what else the setup leaves out in silence is found out, by a     *)
(* fault, before the first function is replaced.                           *)
TranslatedIsMapped ==
  "KiEffectiveToPhysical" \in patched =>
    /\ \A ea \in OurPages : KiEffectiveToPhysical(ea) # 0 /\ ea \in mapped
    /\ MainCore \in nops => MainCore \in served

(* What the module translates besides its own pages: those behind the BATs.*)
Window == BatEaStart..(BatEaEnd - 1)

Translated ==
  {ea \in DOMAIN KernelMap \cup OurPages \cup Window : KiEffectiveToPhysical(ea) # 0}

PhysicalPages ==
  {KernelMap[ea] : ea \in DOMAIN KernelMap}
    \cup {MemoryMapping_EffectiveToPhysical(ea) : ea \in OurPages \cup Window}

(* With some functions patched and others not: the kernel translates its   *)
(* own pages as before; an effective page it names for a physical one is   *)
(* translated to that very page, be it the kernel's alias or ours; and once*)
(* patched it names one for whatever it translates.                        *)
TranslationsAgree ==
  /\ \A ea \in DOMAIN KernelMap : KiEffectiveToPhysical(ea) = KernelMap[ea]
  /\ \A f \in PhysicalToEffectives :
       /\ \A pa \in PhysicalPages :
            LET ea == KiPhysicalToEffective(f, pa)
            IN  ea = 0 \/ KiEffectiveToPhysical(ea) = pa
       /\ f \in patched =>
            \A ea \in Translated : KiPhysicalToEffective(f, KiEffectiveToPhysical(ea)) # 0

(* Each check that is patched accepts every page the kernel translates,    *)
(* and the kernel copies from or to it in the direction asked for.         *)
ChecksAgree ==
  \A ea \in Translated :
    LET pa == KiEffectiveToPhysical(ea)
    IN  /\ \A f \in RangeChecks \cap patched : RangeCheck(f, ea, 1)
        /\ "KiIsEffectiveRangeValid" \in patched => KiIsEffectiveRangeValid(ea, 1)
        /\ "IPCKDriver_ValidatePhysicalAddress" \in patched =>
             IPCKDriver_ValidatePhysicalAddress(pa, pa)
        /\ "KiGetOrPutUserData" \in patched =>
             \A kernel \in DOMAIN KernelMap :
               /\ KiGetOrPutUserData(ea, 1, kernel, TRUE) = Copy(ea, kernel, 1)
               /\ KiGetOrPutUserData(ea, 1, kernel, FALSE) = Copy(kernel, ea, 1)
=============================================================================
