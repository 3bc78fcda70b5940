-------------------------- MODULE LifecycleProofs --------------------------
(***************************************************************************)
(* Proofs about modules KernelPatches and ModuleLifecycle: for every table *)
(* of regions and every map of the kernel that maps no effective page of   *)
(* ours elsewhere, whatever of the setup fails and however often the hooks *)
(* are called, the users' blocks survive, and what the patched kernel says *)
(* of an address is so.                                                    *)
(***************************************************************************)
EXTENDS ModuleLifecycle, AddressMapProofs

(* The heaps have been made, and nothing undoes that.                      *)
Ready ==
  \/ patched # {} \/ pc = "patch" \/ Checking
  \/ pc = "idle" /\ ~ucSetupRequired

(* Where the hooks are before the first patch.                             *)
Order ==
  /\ ucSetupRequired => pc \in {"idle", "pointers", "setup", "fatal"}
  /\ ucSetupRequired \/ pc \in {"pointers", "setup", "map", "heaps"} => patched = {}
  /\ patched = {} => \A h \in Regions : held[h] = {}

(* The kernel translates our pages before it names them.                   *)
TranslatorFirst ==
  \/ "KiEffectiveToPhysical" \in patched
  \/ patched \cap PhysicalToEffectives = {} /\ (pc = "patch" => i <= 3)

(* A heap that has been made lies in pages that are mapped.                *)
Made(h) == heaps[h] # NoHeap /\ Pages(h) \subseteq mapped

MainCoreServed == MainCore \in nops => MainCore \in served

MadeInv ==
  /\ pc = "heaps" => \A h \in Regions : h < i => Made(h) /\ MainCoreServed
  /\ Ready => (\A h \in Regions : Made(h)) /\ MainCoreServed

(* What the steps rely on and re-establish.                                *)
LInv ==
  /\ LifecycleTypeOK /\ BlocksSurvive
  /\ Order /\ TranslatorFirst /\ MadeInv

-----------------------------------------------------------------------------
(* The hooks.                                                              *)

LEMMA PageFacts ==
  /\ Regions # {}
  /\ \A h \in Regions : h \in Nat /\ h >= 1 /\ EaStart(h) \in Nat /\ EaEnd(h) \in Nat
  /\ Len(mem_mapping) \in Nat
<1>1. mem_mapping \in Seq(memory_mapping_t) /\ mem_mapping # <<>>
  BY MapType, HooksAssumption DEF MapType
<1>2. Len(mem_mapping) \in Nat /\ Len(mem_mapping) # 0
  BY <1>1
<1>3. 1 \in Regions
  BY <1>2 DEF Regions
<1>. QED  BY <1>2, <1>3, RegionFacts DEF Regions

LEMMA NoHeapIsNoBlocks == \A B : B \subseteq Blocks => B # NoHeap
<1>1. "no heap" \in NoHeap /\ "no heap" \notin Blocks
  BY BlocksAssumption DEF NoHeap
<1>. QED  BY <1>1

LEMMA SomethingReplaced == Replaced # {}
<1>1. 1 \in DOMAIN function_replacements
  BY DEF function_replacements
<1>. QED  BY <1>1 DEF Replaced

LEMMA LInit == LifecycleInit => LInv
<1> SUFFICES ASSUME LifecycleInit PROVE LInv
  OBVIOUS
<1>1. LifecycleTypeOK
  BY DEF LifecycleInit, LifecycleTypeOK, Allocators
<1>2. BlocksSurvive /\ Order /\ TranslatorFirst
  BY DEF LifecycleInit, BlocksSurvive, Order, TranslatorFirst
<1>3. MadeInv
  BY DEF LifecycleInit, MadeInv, Ready, Checking
<1>. QED  BY <1>1, <1>2, <1>3 DEF LInv

(* The steps that change neither the heaps nor what they rest on.          *)
LEMMA HeapsUntouched ==
  ASSUME LInv, UNCHANGED <<heaps, held, mapped, served, nops>>
  PROVE  /\ BlocksSurvive'
         /\ \A h \in Regions : Made(h)' = Made(h)
         /\ MainCoreServed' = MainCoreServed
BY DEF LInv, BlocksSurvive, Made, MainCoreServed

LEMMA BeginStep ==
  ASSUME LInv, WUMS_INITIALIZE \/ UpdateFunctionPointer \/ BeginSetup
  PROVE  LInv'
<1> USE DEF LInv, WUMS_INITIALIZE, UpdateFunctionPointer, BeginSetup, table_vars, pointers
<1>1. LifecycleTypeOK'
  BY DEF LifecycleTypeOK, Allocators
<1>2. BlocksSurvive' /\ MadeInv'
  <2>1. UNCHANGED <<heaps, held, mapped, served, nops, i, patched>>
    OBVIOUS
  <2>2. Ready' => Ready
    BY DEF LifecycleTypeOK, Ready, Order, Checking
  <2>3. pc' # "heaps"
    OBVIOUS
  <2>. QED  BY <2>1, <2>2, <2>3, HeapsUntouched DEF MadeInv
<1>3. TranslatorFirst'
  BY DEF TranslatorFirst
<1>4. Order'
  BY DEF LifecycleTypeOK, Order
<1>. QED  BY <1>1, <1>2, <1>3, <1>4

LEMMA EndSetupStep ==
  ASSUME LInv, EndSetup
  PROVE  LInv'
<1> USE DEF EndSetup, pointers
<1>0. PICK h \in Regions :
        \E n \in 0..(EaEnd(h) - EaStart(h)) : mapped' = FirstPages(h, n)
  OBVIOUS
<1>1. LifecycleTypeOK'
  <2>1. mapped' \subseteq OurPages
    BY <1>0, FirstPagesAreOurs
  <2>. QED  BY <2>1 DEF LInv, LifecycleTypeOK
<1>2. BlocksSurvive' /\ TranslatorFirst' /\ Order'
  BY DEF LInv, BlocksSurvive, TranslatorFirst, Order
<1>3. MadeInv'
  <2>1. patched' = {} /\ pc' = "heaps" /\ i' = 1
    BY DEF LInv, Order
  <2>2. ~Ready'
    BY <2>1 DEF Ready, Checking
  <2>3. \A k \in Regions : ~(k < i')
    BY <2>1, PageFacts
  <2>. QED  BY <2>2, <2>3 DEF MadeInv
<1>. QED  BY <1>1, <1>2, <1>3 DEF LInv

LEMMA CreateHeapStep ==
  ASSUME LInv, CreateHeap
  PROVE  LInv'
<1> USE DEF CreateHeap, pointers, table_vars
<1>0. patched = {} /\ patched' = {} /\ (\A h \in Regions : held[h] = {} /\ held'[h] = {})
  BY DEF LInv, Order
<1>1. LifecycleTypeOK'
  BY DEF LInv, LifecycleTypeOK
<1>2. BlocksSurvive' /\ TranslatorFirst' /\ Order'
  BY <1>0 DEF LInv, BlocksSurvive, TranslatorFirst, Order
<1>3. MadeInv'
  <2>1. ~Ready'
    BY <1>0 DEF Ready, Checking
  <2>2. ASSUME pc' = "heaps", NEW h \in Regions, h < i'
        PROVE  (Made(h) /\ MainCoreServed)'
    <3>1. Pages(i) \subseteq mapped /\ MainCore \in served /\ heaps' = [heaps EXCEPT ![i] = {}]
      BY <2>2
    <3>2. MainCoreServed'
      BY <3>1 DEF MainCoreServed
    <3>3. CASE h = i
      <4>1. heaps'[i] = {} /\ {} # NoHeap
        BY <3>1, NoHeapIsNoBlocks DEF LInv, LifecycleTypeOK
      <4>2. heaps'[h] # NoHeap
        BY <3>3, <4>1
      <4>3. Pages(h) \subseteq mapped'
        BY <3>1, <3>3
      <4>. QED  BY <3>2, <4>2, <4>3 DEF Made
    <3>4. CASE h # i
      <4>1. h < i
        BY <2>2, <3>1, <3>4, PageFacts DEF LInv, LifecycleTypeOK
      <4>. QED  BY <3>1, <3>2, <3>4, <4>1 DEF Made, LInv, MadeInv, LifecycleTypeOK
    <3>. QED  BY <3>2, <3>3, <3>4
  <2>. QED  BY <2>1, <2>2 DEF MadeInv
<1>. QED  BY <1>1, <1>2, <1>3 DEF LInv

LEMMA PatchStep ==
  ASSUME LInv, HeapsCreated \/ FPAddFunctionPatch \/ FunctionsPatched
  PROVE  LInv'
<1> USE DEF HeapsCreated, FPAddFunctionPatch, FunctionsPatched, pointers, table_vars
<1>1. LifecycleTypeOK'
  BY DEF LInv, LifecycleTypeOK, Replaced
<1>2. BlocksSurvive'
  BY DEF LInv, BlocksSurvive
<1>3. TranslatorFirst'
  <2>1. CASE HeapsCreated \/ FunctionsPatched
    BY <2>1 DEF LInv, TranslatorFirst
  <2>2. CASE FPAddFunctionPatch
    <3>1. pc = "patch" /\ i \in 1..11
      BY <2>2 DEF function_replacements
    <3>2. CASE "KiEffectiveToPhysical" \in patched
      BY <2>2, <3>2 DEF TranslatorFirst
    <3>3. CASE "KiEffectiveToPhysical" \notin patched
      <4>1. patched \cap PhysicalToEffectives = {} /\ i <= 3
        BY <3>1, <3>3 DEF LInv, TranslatorFirst
      <4>2. CASE i = 3
        <5>1. function_replacements[i] = "KiEffectiveToPhysical"
          BY <4>2 DEF function_replacements
        <5>. QED  BY <2>2, <4>1, <4>2, <5>1 DEF TranslatorFirst
      <4>3. CASE i \in 1..2
        <5>1. function_replacements[i] \in {"LiValidateAddress", "sCheckDataRange"}
          BY <4>3 DEF function_replacements
        <5>2. function_replacements[i] \notin PhysicalToEffectives
          BY <5>1 DEF PhysicalToEffectives
        <5>3. i' <= 3
          BY <2>2, <4>3
        <5>. QED  BY <2>2, <4>1, <5>2, <5>3 DEF TranslatorFirst
      <4>. QED  BY <3>1, <4>1, <4>2, <4>3
    <3>. QED  BY <3>2, <3>3
  <2>. QED  BY <2>1, <2>2
<1>4. Order'
  BY DEF LInv, Order, LifecycleTypeOK
<1>5. MadeInv'
  <2>1. UNCHANGED <<heaps, held, mapped, served, nops>> /\ pc' # "heaps"
    OBVIOUS
  <2>2. (\A h \in Regions : Made(h)) /\ MainCoreServed
    <3>1. CASE pc = "heaps"
      <4>1. \A h \in Regions : h < i
        BY <3>1, PageFacts DEF LInv, LifecycleTypeOK, Regions
      <4>. QED  BY <3>1, <4>1, PageFacts DEF LInv, MadeInv
    <3>2. CASE pc = "patch"
      BY <3>2 DEF LInv, MadeInv, Ready
    <3>. QED  BY <3>1, <3>2
  <2>. QED  BY <2>1, <2>2, HeapsUntouched DEF MadeInv
<1>. QED  BY <1>1, <1>2, <1>3, <1>4, <1>5 DEF LInv

LEMMA CheckStep ==
  ASSUME LInv, WUMS_APPLICATION_STARTS \/ WUMS_APPLICATION_ENDS \/ CheckHeap \/ HeapsChecked
  PROVE  LInv'
<1> USE DEF WUMS_APPLICATION_STARTS, WUMS_APPLICATION_ENDS, BeginCheck, CheckHeap,
            HeapsChecked, Checking, table_vars
<1>1. LifecycleTypeOK'
  BY DEF LInv, LifecycleTypeOK, Allocators, pointers
<1>2. TranslatorFirst'
  BY DEF LInv, TranslatorFirst
<1>3. Order'
  BY DEF LInv, Order, LifecycleTypeOK
<1>4. BlocksSurvive' /\ MadeInv'
  <2>1. UNCHANGED <<heaps, held, mapped, served, nops>> /\ pc' # "heaps"
    OBVIOUS
  <2>2. Ready
    BY DEF Ready
  <2>. QED  BY <2>1, <2>2, HeapsUntouched DEF LInv, MadeInv
<1>. QED  BY <1>1, <1>2, <1>3, <1>4 DEF LInv

LEMMA UserStep ==
  ASSUME LInv, NEW h \in Regions, NEW b \in Blocks, UserAllocates(h, b) \/ UserFrees(h, b)
  PROVE  LInv'
<1> USE DEF UserAllocates, UserFrees, pointers, table_vars
<1>0. patched # {} /\ patched' = patched
  BY SomethingReplaced DEF Usable
<1>1. LifecycleTypeOK'
  <2>1. heaps[h] # NoHeap
    BY <1>0 DEF LInv, MadeInv, Ready, Made
  <2>2. heaps[h] \in SUBSET Blocks
    BY <2>1 DEF LInv, LifecycleTypeOK
  <2>. QED  BY <2>2 DEF LInv, LifecycleTypeOK
<1>2. BlocksSurvive'
  BY DEF LInv, BlocksSurvive, LifecycleTypeOK
<1>3. TranslatorFirst' /\ Order'
  BY <1>0 DEF LInv, TranslatorFirst, Order
<1>4. MadeInv'
  <2>1. \A k \in Regions : Made(k) /\ MainCoreServed
    BY <1>0 DEF LInv, MadeInv, Ready
  <2>2. heaps'[h] # NoHeap
    <3>1. heaps[h] \subseteq Blocks
      BY <2>1 DEF LInv, LifecycleTypeOK, Made
    <3>2. heaps'[h] \subseteq Blocks
      BY <3>1 DEF LInv, LifecycleTypeOK
    <3>. QED  BY <3>2, NoHeapIsNoBlocks
  <2>3. \A k \in Regions : heaps'[k] # NoHeap
    BY <2>1, <2>2 DEF LInv, LifecycleTypeOK, Made
  <2>. QED  BY <2>1, <2>3, PageFacts DEF MadeInv, Made, MainCoreServed
<1>. QED  BY <1>1, <1>2, <1>3, <1>4 DEF LInv

LEMMA KernelStep ==
  ASSUME LInv, NEW c \in Cores, KernelLoadsSegments(c)
  PROVE  LInv'
<1> USE DEF KernelLoadsSegments, pointers
<1>1. LifecycleTypeOK'
  BY DEF LInv, LifecycleTypeOK
<1>2. BlocksSurvive' /\ TranslatorFirst' /\ Order'
  BY DEF LInv, BlocksSurvive, TranslatorFirst, Order
<1>3. MadeInv'
  <2>1. MainCoreServed => MainCoreServed'
    BY DEF MainCoreServed
  <2>2. (\A h \in Regions : Made(h)' = Made(h)) /\ Ready' = Ready
    BY DEF Made, Ready, Checking
  <2>. QED  BY <2>1, <2>2 DEF LInv, MadeInv
<1>. QED  BY <1>1, <1>2, <1>3 DEF LInv

LEMMA LStep == LInv /\ [LifecycleNext]_vars => LInv'
<1> SUFFICES ASSUME LInv, [LifecycleNext]_vars PROVE LInv'
  OBVIOUS
<1>1. CASE Initializing
  BY <1>1, BeginStep, EndSetupStep, CreateHeapStep, PatchStep DEF Initializing
<1>2. CASE WUMS_APPLICATION_STARTS \/ WUMS_APPLICATION_ENDS \/ CheckHeap \/ HeapsChecked
  BY <1>2, CheckStep
<1>3. CASE \E h \in Regions, b \in Blocks : UserAllocates(h, b) \/ UserFrees(h, b)
  BY <1>3, UserStep
<1>4. CASE \E c \in Cores : KernelLoadsSegments(c)
  BY <1>4, KernelStep
<1>5. CASE UNCHANGED vars
  BY <1>5 DEF vars, pointers, table_vars, LInv, LifecycleTypeOK, BlocksSurvive,
       Order, TranslatorFirst, MadeInv, Ready, Checking, Made, MainCoreServed
<1>. QED  BY <1>1, <1>2, <1>3, <1>4, <1>5 DEF LifecycleNext

(* The inductive invariant of the hooks.                                   *)
THEOREM LInvHolds == LifecycleSpec => []LInv
BY LInit, LStep, PTL DEF LifecycleSpec

(* Type correctness of the hooks.                                          *)
THEOREM LifecycleTypeCorrect == LifecycleSpec => []LifecycleTypeOK
BY LInvHolds, PTL DEF LInv

(* No block is taken from its user, over any number of applications and    *)
(* calls of WUMS_INITIALIZE.                                               *)
THEOREM UsersKeepTheirBlocks == LifecycleSpec => []BlocksSurvive
BY LInvHolds, PTL DEF LInv

(* Who reads the header of a heap finds one.                               *)
THEOREM HeapsComeFirst == LifecycleSpec => []HeapsExistWhenRead
<1>1. LInv => HeapsExistWhenRead
  BY DEF LInv, MadeInv, Ready, Made, HeapsExistWhenRead
<1>. QED  BY <1>1, LInvHolds, PTL

-----------------------------------------------------------------------------
(* What the patched kernel says of an address.                             *)

(* The software translates each of them, and back.                         *)
LEMMA SoftwareTranslates ==
  ASSUME NEW ea \in OurPages \cup Window
  PROVE  /\ ea \in Nat \ {0}
         /\ MemoryMapping_EffectiveToPhysical(ea) \in Nat \ {0}
         /\ MemoryMapping_PhysicalToEffective(MemoryMapping_EffectiveToPhysical(ea)) = ea
<1>1. CASE ea \in OurPages
  <2>1. PICK h, j, k : IsCell(h, j, k) /\ ea = EaOf(h, j, k)
    BY <1>1, OurPageIsCell
  <2>2. h \in Regions /\ j \in Chunks(h) /\ k \in Nat
    BY <2>1 DEF IsCell
  <2>3. 0 < EaStart(h) /\ EaStart(h) \in Nat /\ EaOf(h, j, k) \in Nat
        /\ EaStart(h) <= EaOf(h, j, k)
    BY <2>1, <2>2, CellFacts, RegionFacts, SegmentAssumption DEF SegmentAssumption
  <2>4. ea \in Nat \ {0}
    BY <2>1, <2>3
  <2>5. PaStart(h, j) \in Nat /\ 0 < PaStart(h, j)
    BY <2>2, ChunkFacts
  <2>6. PaOf(h, j, k) \in Nat \ {0}
    BY <2>2, <2>5 DEF PaOf
  <2>. QED  BY <2>1, <2>4, <2>6, EffectiveToPhysicalOfCell, PhysicalToEffectiveOfCell
<1>2. CASE ea \in Window
  <2>1. /\ BatEaStart \in Nat /\ BatEaEnd \in Nat /\ BatPaStart \in Nat
        /\ 0 < BatEaStart /\ 0 < BatPaStart
    BY MapType DEF MapType
  <2>2. ea \in Nat \ {0} /\ BatEaStart <= ea /\ ea < BatEaEnd
    BY <1>2, <2>1 DEF Window
  <2>3. MemoryMapping_EffectiveToPhysical(ea) = ea + (BatPaStart - BatEaStart)
    BY <2>2 DEF MemoryMapping_EffectiveToPhysical
  <2> DEFINE pa == ea + (BatPaStart - BatEaStart)
  <2>4. /\ pa \in Nat \ {0} /\ BatPaStart <= pa
        /\ pa < BatPaStart + (BatEaEnd - BatEaStart)
        /\ pa - (BatPaStart - BatEaStart) = ea
    BY <2>1, <2>2
  <2> HIDE DEF pa
  <2>5. MemoryMapping_PhysicalToEffective(pa) = ea
    BY <2>4 DEF MemoryMapping_PhysicalToEffective
  <2>. QED  BY <2>2, <2>3, <2>4, <2>5 DEF pa
<1>. QED  BY <1>1, <1>2

(* If the kernel itself knows one of them, then as the software does.      *)
LEMMA KernelKnowsTheSame ==
  ASSUME NEW ea \in OurPages \cup Window, ea \in DOMAIN KernelMap
  PROVE  KernelMap[ea] = MemoryMapping_EffectiveToPhysical(ea)
BY SoftwareTranslates, KernelDoesNotContradict DEF KernelDoesNotContradict

(* A page the kernel maps keeps its translation, patched or not.           *)
LEMMA KernelPagesAsBefore ==
  ASSUME NEW ea \in DOMAIN KernelMap
  PROVE  /\ ea \in Nat \ {0} /\ KernelMap[ea] \in Nat \ {0}
         /\ KiEffectiveToPhysical(ea) = KernelMap[ea]
BY KernelDoesNotContradict
   DEF KernelDoesNotContradict, KiEffectiveToPhysical, my_KiEffectiveToPhysical,
       real_KiEffectiveToPhysical

(* For a page it maps the kernel names an effective page, and one it names *)
(* it maps there.                                                          *)
LEMMA KernelNamesItsOwn ==
  ASSUME NEW pa, NEW back, back = real_KiPhysicalToEffective(pa)
  PROVE  /\ back # 0 => back \in DOMAIN KernelMap /\ KernelMap[back] = pa
         /\ (\E ea \in DOMAIN KernelMap : KernelMap[ea] = pa) => back # 0
<1>1. CASE \E ea \in DOMAIN KernelMap : KernelMap[ea] = pa
  <2>1. back \in DOMAIN KernelMap /\ KernelMap[back] = pa
    BY <1>1 DEF real_KiPhysicalToEffective
  <2>. QED  BY <2>1, KernelPagesAsBefore
<1>2. CASE ~\E ea \in DOMAIN KernelMap : KernelMap[ea] = pa
  BY <1>2 DEF real_KiPhysicalToEffective
<1>. QED  BY <1>1, <1>2

(* Our pages are translated as soon as the function for it is replaced.    *)
LEMMA OurPagesTranslated ==
  ASSUME NEW ea \in OurPages \cup Window
  PROVE  KiEffectiveToPhysical(ea)
           = IF ea \in DOMAIN KernelMap \/ "KiEffectiveToPhysical" \in patched
               THEN MemoryMapping_EffectiveToPhysical(ea) ELSE 0
<1>1. CASE ea \in DOMAIN KernelMap
  BY <1>1, KernelKnowsTheSame, KernelPagesAsBefore
<1>2. CASE ea \notin DOMAIN KernelMap
  BY <1>2 DEF KiEffectiveToPhysical, my_KiEffectiveToPhysical, real_KiEffectiveToPhysical
<1>. QED  BY <1>1, <1>2

LEMMA TranslatedCases ==
  ASSUME NEW ea \in Translated
  PROVE  \/ ea \in DOMAIN KernelMap
         \/ /\ ea \in OurPages \cup Window
            /\ KiEffectiveToPhysical(ea) = MemoryMapping_EffectiveToPhysical(ea)
BY OurPagesTranslated DEF Translated, Window

(* The page named for a physical one stands for it, ...                    *)
LEMMA NamedIsTheSamePage ==
  ASSUME LInv, NEW f \in PhysicalToEffectives, NEW pa \in PhysicalPages,
         NEW back, back = KiPhysicalToEffective(f, pa), back # 0
  PROVE  KiEffectiveToPhysical(back) = pa
<1>1. CASE back = real_KiPhysicalToEffective(pa)
  <2>1. back \in DOMAIN KernelMap /\ KernelMap[back] = pa
    BY <1>1, KernelNamesItsOwn
  <2>. QED  BY <2>1, KernelPagesAsBefore
<1>2. CASE back # real_KiPhysicalToEffective(pa)
  <2>1. /\ f \in patched /\ real_KiPhysicalToEffective(pa) = 0
        /\ back = MemoryMapping_PhysicalToEffective(pa)
    BY <1>2 DEF KiPhysicalToEffective, my_KiPhysicalToEffective
  <2>2. PICK ea \in OurPages \cup Window : pa = MemoryMapping_EffectiveToPhysical(ea)
    <3>1. ~\E ea \in DOMAIN KernelMap : KernelMap[ea] = pa
      BY <2>1, KernelNamesItsOwn
    <3>. QED  BY <3>1 DEF PhysicalPages
  <2>3. back = ea
    BY <2>1, <2>2, SoftwareTranslates
  <2>4. "KiEffectiveToPhysical" \in patched
    BY <2>1 DEF LInv, TranslatorFirst
  <2>. QED  BY <2>2, <2>3, <2>4, OurPagesTranslated
<1>. QED  BY <1>1, <1>2

(* ... and one is named for whatever is translated.                        *)
LEMMA TranslatedIsNamed ==
  ASSUME NEW f \in PhysicalToEffectives, f \in patched, NEW ea \in Translated
  PROVE  KiPhysicalToEffective(f, KiEffectiveToPhysical(ea)) # 0
<1> DEFINE pa == KiEffectiveToPhysical(ea)
<1>1. CASE ea \in DOMAIN KernelMap
  <2>1. KernelMap[ea] = pa
    BY <1>1, KernelPagesAsBefore
  <2>2. real_KiPhysicalToEffective(pa) # 0
    BY <1>1, <2>1, KernelNamesItsOwn
  <2>. QED  BY <2>2 DEF KiPhysicalToEffective, my_KiPhysicalToEffective
<1>2. CASE ea \notin DOMAIN KernelMap
  <2>1. ea \in OurPages \cup Window /\ pa = MemoryMapping_EffectiveToPhysical(ea)
    BY <1>2, TranslatedCases
  <2>2. MemoryMapping_PhysicalToEffective(pa) # 0
    BY <2>1, SoftwareTranslates
  <2>. QED  BY <2>2 DEF KiPhysicalToEffective, my_KiPhysicalToEffective
<1>. QED  BY <1>1, <1>2

(* The replaced checks take our pages for valid.                           *)
LEMMA OurPagesAccepted ==
  ASSUME NEW ea \in OurPages \cup Window
  PROVE  /\ InOurMemory(ea)
         /\ my_KiIsEffectiveRangeValid(ea, 1)
         /\ LET pa == MemoryMapping_EffectiveToPhysical(ea)
            IN  my_IPCKDriver_ValidatePhysicalAddress(pa, pa)
<1>1. InOurMemory(ea)
  <2>1. CASE ea \in OurPages
    <3>1. PICK h \in Regions : ea \in EaStart(h)..(EaEnd(h) - 1)
      BY <2>1 DEF OurPages, Pages
    <3>. QED  BY <3>1, SegmentAssumption DEF SegmentAssumption, InOurMemory
  <2>2. CASE ea \in Window
    <3>1. BatEaStart \in Nat /\ BatEaEnd \in Nat
      BY MapType DEF MapType
    <3>2. CodeStart \in Nat /\ CodeEnd \in Nat /\ CodeStart <= BatEaStart /\ BatEaEnd <= CodeEnd
      BY SegmentAssumption DEF SegmentAssumption
    <3>. QED  BY <2>2, <3>1, <3>2 DEF Window, InOurMemory
  <2>. QED  BY <2>1, <2>2
<1>2. MemoryMapping_EffectiveToPhysical(ea) > 0
  BY SoftwareTranslates
<1>3. MemoryMapping_PhysicalToEffective(MemoryMapping_EffectiveToPhysical(ea)) > 0
  BY SoftwareTranslates
<1>. QED
  BY <1>1, <1>2, <1>3 DEF my_KiIsEffectiveRangeValid, my_IPCKDriver_ValidatePhysicalAddress

(* A page is copied to and from the kernel as the caller asked.            *)
LEMMA CopiesAsAsked ==
  ASSUME NEW ea \in Translated, "KiGetOrPutUserData" \in patched, NEW kernel,
         NEW isRead \in BOOLEAN
  PROVE  KiGetOrPutUserData(ea, 1, kernel, isRead) = KiCopy(ea, 1, kernel, isRead)
<1>1. KiGetOrPutUserData(ea, 1, kernel, isRead) = my_KiGetOrPutUserData(ea, 1, kernel, isRead)
  BY DEF KiGetOrPutUserData
<1>2. KiCopy(ea, 1, kernel, isRead) # Refused
  <2>1. KiCopy(ea, 1, kernel, isRead).size = 1
    BY DEF KiCopy, Copy
  <2>2. Refused.size = 0
    BY DEF Refused, Copy
  <2>. QED  BY <2>1, <2>2
<1>3. CASE real_RangeCheck(ea, 1)
  BY <1>1, <1>2, <1>3 DEF my_KiGetOrPutUserData, real_KiGetOrPutUserData
<1>4. CASE ~real_RangeCheck(ea, 1)
  <2>1. ea \notin DOMAIN KernelMap
    BY <1>4, KernelPagesAsBefore DEF real_RangeCheck
  <2>2. MemoryMapping_EffectiveToPhysical(ea) # 0
    BY <2>1, TranslatedCases, SoftwareTranslates
  <2>. QED  BY <1>1, <1>4, <2>2 DEF my_KiGetOrPutUserData, real_KiGetOrPutUserData
<1>. QED  BY <1>3, <1>4

LEMMA ChecksAlways == ChecksAgree
<1> SUFFICES ASSUME NEW ea \in Translated, NEW pa, pa = KiEffectiveToPhysical(ea)
    PROVE  /\ \A f \in RangeChecks \cap patched : RangeCheck(f, ea, 1)
           /\ "KiIsEffectiveRangeValid" \in patched => KiIsEffectiveRangeValid(ea, 1)
           /\ "IPCKDriver_ValidatePhysicalAddress" \in patched =>
                IPCKDriver_ValidatePhysicalAddress(pa, pa)
           /\ "KiGetOrPutUserData" \in patched =>
                \A kernel \in DOMAIN KernelMap :
                  /\ KiGetOrPutUserData(ea, 1, kernel, TRUE) = Copy(ea, kernel, 1)
                  /\ KiGetOrPutUserData(ea, 1, kernel, FALSE) = Copy(kernel, ea, 1)
  BY DEF ChecksAgree
<1>1. my_RangeCheck(ea, 1) /\ my_KiIsEffectiveRangeValid(ea, 1)
      /\ my_IPCKDriver_ValidatePhysicalAddress(pa, pa)
  <2>1. CASE ea \in DOMAIN KernelMap
    <3>1. ea \in Nat /\ pa \in Nat /\ pa = KernelMap[ea]
      BY <2>1, KernelPagesAsBefore
    <3>2. real_RangeCheck(ea, 1)
      BY <2>1, <3>1 DEF real_RangeCheck
    <3>3. real_IPCKDriver_ValidatePhysicalAddress(pa, pa)
      BY <2>1, <3>1 DEF real_IPCKDriver_ValidatePhysicalAddress
    <3>. QED
      BY <3>2, <3>3 DEF my_RangeCheck, my_KiIsEffectiveRangeValid,
         my_IPCKDriver_ValidatePhysicalAddress
  <2>2. CASE ea \notin DOMAIN KernelMap
    BY <2>2, TranslatedCases, OurPagesAccepted DEF my_RangeCheck
  <2>. QED  BY <2>1, <2>2
<1>2. \A f \in RangeChecks \cap patched : RangeCheck(f, ea, 1)
  BY <1>1 DEF RangeCheck
<1>3. "KiIsEffectiveRangeValid" \in patched => KiIsEffectiveRangeValid(ea, 1)
  BY <1>1 DEF KiIsEffectiveRangeValid
<1>4. "IPCKDriver_ValidatePhysicalAddress" \in patched =>
        IPCKDriver_ValidatePhysicalAddress(pa, pa)
  BY <1>1 DEF IPCKDriver_ValidatePhysicalAddress
<1>5. ASSUME "KiGetOrPutUserData" \in patched, NEW kernel \in DOMAIN KernelMap
      PROVE  /\ KiGetOrPutUserData(ea, 1, kernel, TRUE) = Copy(ea, kernel, 1)
             /\ KiGetOrPutUserData(ea, 1, kernel, FALSE) = Copy(kernel, ea, 1)
  BY <1>5, CopiesAsAsked DEF KiCopy
<1>. QED  BY <1>2, <1>3, <1>4, <1>5

(* What the patched kernel translates is in the page table, all of it, and *)
(* the main core sees it.                                                  *)
THEOREM TranslationsAreBacked == LifecycleSpec => []TranslatedIsMapped
<1>1. LInv => TranslatedIsMapped
  <2> SUFFICES ASSUME LInv, "KiEffectiveToPhysical" \in patched
      PROVE  /\ \A ea \in OurPages : KiEffectiveToPhysical(ea) # 0 /\ ea \in mapped
             /\ MainCore \in nops => MainCore \in served
    BY DEF TranslatedIsMapped
  <2>1. (\A h \in Regions : Made(h)) /\ MainCoreServed
    BY DEF LInv, MadeInv, Ready
  <2>2. OurPages \subseteq mapped
    BY <2>1 DEF OurPages, Made
  <2>3. \A ea \in OurPages : KiEffectiveToPhysical(ea) # 0
    BY OurPagesTranslated, SoftwareTranslates
  <2>. QED  BY <2>1, <2>2, <2>3 DEF MainCoreServed
<1>. QED  BY <1>1, LInvHolds, PTL

(* With any of its functions replaced and the others not, and with any     *)
(* aliases, the kernel names an effective page for whatever it translates, *)
(* and only one that it translates to the same physical page.              *)
THEOREM NamesTheSamePage == LifecycleSpec => []TranslationsAgree
<1>1. LInv => TranslationsAgree
  BY KernelPagesAsBefore, NamedIsTheSamePage, TranslatedIsNamed DEF TranslationsAgree
<1>. QED  BY <1>1, LInvHolds, PTL

(* The replaced checks and copies accept what the kernel translates.       *)
THEOREM ChecksAcceptTheTranslated == LifecycleSpec => []ChecksAgree
BY ChecksAlways, PTL
=============================================================================
