-------------------------- MODULE CoreSetupProofs ---------------------------
(***************************************************************************)
(* The setup of the cores, for any number of them in any order, any pages  *)
(* of the kernel, and whichever allocations fail.                          *)
(***************************************************************************)
EXTENDS CoreSetup, TLAPS

(* Where the main thread uses the OSThread of SetupIBAT4DBAT5OnAllCores,   *)
(* the scratch memory and the copy of the page table.                      *)
IBATLoop == {"ibat_loop", "ibat_resume", "ibat_join"}
SetupCode ==
  {"patch_syscall", "ibat_thread", "ibat_stack", "ibat_free", "repair"} \cup IBATLoop
TableSteps == {"read_sr", "read_pte", "set_segment", "sr", "map", "write_pte", "free_table"}
Steps ==
  {"backup", "write_code", "nops", "alloc_table", "create_heaps", "done", "fault", "fatal"}
    \cup SetupCode \cup TableSteps

Tables == [kernel : SUBSET KernelPages, ours : {"none", "some", "all"}]

TypeInv ==
  /\ SetupTypeOK /\ pc \in Steps
  /\ pThread \in [Threads -> BOOLEAN] /\ pThreadStack \in [Threads -> BOOLEAN]
  /\ hw_table \in Tables /\ pageTableCpy \in Tables
  /\ kernel_mapped \subseteq KernelPages

(* The heap holds what the pointers point at, and the copy of the table.   *)
HeapInv ==
  /\ HeapMatchesPointers
  /\ TableBlock \in heap <=> pc \in TableSteps

(* The objects in use: the OSThread of SetupIBAT4DBAT5OnAllCores while     *)
(* that runs, and the CThread of one core while runOnAllCores does.        *)
StageInv ==
  /\ pc = "ibat_stack" => stage[IBATThread] = "alloc_stack"
  /\ pc \in IBATLoop => stage[IBATThread] = "create"
  /\ pc = "ibat_free" => stage[IBATThread] \in {"free_stack", "free_thread"}
  /\ pc \notin IBATLoop \cup {"ibat_stack", "ibat_free"} => stage[IBATThread] = "none"
  /\ \A c \in Cores : stage[c] # "none" => pc \in {"nops", "sr"} /\ c = core

ScratchInv ==
  /\ scratch = "setup_code" <=> pc \in SetupCode
  /\ pc \in SetupCode \ {"patch_syscall"} => syscall51 = "scratch"
  /\ pc # "backup" => backupBuffer = "app"

(* What a job leaves behind on a core that is done with it: a segment      *)
(* register that was set may be lost again on a core that is not patched.  *)
DoneOn(job, c) ==
  \/ job = "ibat" /\ c \in bat
  \/ job = "nops" /\ c \in nops
  \/ job = "sr" /\ (sr8[c] = "ours" \/ <<"nops", c>> \in skipped)

JobDone(job, c) == <<job, c>> \in skipped \/ DoneOn(job, c)

Constructed == {"live", "stop", "join", "free_stack", "free_thread"}

(* The threads: there is one only with the memory for it, and once it has  *)
(* ended the core it ran on is done.                                       *)
IBATThreadInv ==
  /\ pc = "ibat_resume" => os[IBATThread] = "suspended"
  /\ pc = "ibat_join" => os[IBATThread] \in {"ready", "terminated"}
  /\ pc \in {"ibat_loop", "ibat_free"} => os[IBATThread] \in {"none", "terminated"}
  /\ pc \notin IBATLoop \cup {"ibat_free"} => os[IBATThread] = "none"
  /\ pc \in {"ibat_resume", "ibat_join"} => pThread[IBATThread] /\ pThreadStack[IBATThread]
  /\ pc = "ibat_join" /\ os[IBATThread] = "terminated" => DoneOn("ibat", core)

CoreThreadInv ==
  /\ \A c \in Cores : stage[c] \in {"none", "alloc_stack", "create"} => os[c] = "none"
  /\ \A job \in {"nops", "sr"} :
       pc = job /\ stage[core] \in Constructed =>
         /\ IF pThread[core] /\ pThreadStack[core]
              THEN os[core] \in {"suspended", "ready", "terminated"}
              ELSE os[core] \in {"none", "garbage"} /\ <<job, core>> \in skipped
         /\ stage[core] \in {"free_stack", "free_thread"} => os[core] \notin {"suspended", "ready"}
         /\ os[core] = "terminated" => DoneOn(job, core)

(* The cores a job is through with: those before the current one in the    *)
(* loop over aff, all of them after it.                                    *)
ServedInv ==
  /\ pc \in IBATLoop => \A k \in 1..(n - 1) : JobDone("ibat", Affinity[k])
  /\ \A job \in {"nops", "sr"} : pc = job => \A k \in 1..(n - 1) : JobDone(job, Affinity[k])
  /\ PastIBAT => \A c \in Cores : JobDone("ibat", c)
  /\ PastNOPs => \A c \in Cores : JobDone("nops", c)
  /\ PastSRs => \A c \in Cores : JobDone("sr", c)

(* The copy of the page table, and what the clearing of the regions finds. *)
TableInv ==
  /\ pc = "sr" => srTableCpy = "ours"
  /\ kernel_mapped \ overtaken \subseteq hw_table.kernel
  /\ CopyInUse => kernel_mapped \ overtaken \subseteq pageTableCpy.kernel
  /\ pc = "write_pte" => pageTableCpy.ours # "none"
  /\ pc \in {"free_table", "create_heaps", "done", "fault"} => hw_table.ours # "none"
  /\ FaultOnlyWhenIncomplete

(* What every step relies on and re-establishes.                           *)
SInv ==
  /\ TypeInv /\ HeapInv /\ StageInv /\ ScratchInv
  /\ IBATThreadInv /\ CoreThreadInv /\ ServedInv /\ TableInv

-----------------------------------------------------------------------------
(* The cores, and the kinds of steps.                                      *)

LEMMA CoreFacts ==
  /\ Len(Affinity) \in Nat /\ Detached = {}
  /\ IBATThread \in Threads /\ IBATThread \notin Cores /\ MainCore \in Cores
  /\ \A c \in Cores : c \in Threads /\ c # IBATThread
  /\ \A k \in 1..Len(Affinity) : Affinity[k] \in Cores
BY CoresAssumption DEF CoresAssumption, Cores

LEMMA BlockFacts ==
  /\ \A t, u \in Threads :
       /\ OSThreadBlock(t) = OSThreadBlock(u) => t = u
       /\ StackBlock(t) = StackBlock(u) => t = u
       /\ OSThreadBlock(t) # StackBlock(u)
  /\ \A t \in Threads :
       /\ {OSThreadBlock(t), StackBlock(t)} \subseteq Threads \X {"OSThread", "stack"}
       /\ TableBlock \notin {OSThreadBlock(t), StackBlock(t)}
BY DEF OSThreadBlock, StackBlock, TableBlock

(* The steps that do not touch the objects.                                *)
Registers ==
  \/ BackUpScratch \/ WriteSetupCode \/ PatchSyscall \/ RepairScratch
  \/ KernelReadSRs \/ KernelReadPTE \/ SetSegment \/ MapRegions \/ KernelWritePTE
  \/ MemoryMapping_CreateHeaps
  \/ \E c \in Cores : KernelLoadsSegments(c)
  \/ \E p \in KernelPages : KernelMapsPage(p)

LEMMA RegistersKeepThreads == Registers => UNCHANGED thread_vars
BY DEF Registers, BackUpScratch, WriteSetupCode, PatchSyscall, RepairScratch,
       KernelReadSRs, KernelReadPTE, SetSegment, MapRegions, KernelWritePTE,
       MemoryMapping_CreateHeaps, KernelLoadsSegments, KernelMapsPage

(* The steps of one object.                                                *)
ObjectStep(t) ==
  \/ Constructor(t) \/ resumeThread(t) \/ shutdownThread(t) \/ Destructor(t)
  \/ threadCallback(t)
  \/ stage[t] = "create" /\ Leave(t, "free_stack")
  \/ /\ \E state \in OSStates : os' = [os EXCEPT ![t] = state]
     /\ UNCHANGED <<stage, pThread, pThreadStack, heap, ran>>

LEMMA ObjectStepKeepsHeap ==
  ASSUME TypeInv, HeapMatchesPointers, NEW t \in Threads, ObjectStep(t)
  PROVE  HeapMatchesPointers'
<1> USE BlockFacts DEF TypeInv, SetupTypeOK, HeapMatchesPointers, Stages
<1>1. CASE AllocThread(t)
  BY <1>1 DEF AllocThread
<1>2. CASE AllocStack(t)
  BY <1>2 DEF AllocStack
<1>3. CASE CreateThread(t)
  BY <1>3 DEF CreateThread
<1>4. CASE resumeThread(t) \/ ResumeInLoop(t) \/ threadCallback(t)
  BY <1>4 DEF resumeThread, ResumeInLoop, OSResumeThread, threadCallback
<1>5. CASE \/ shutdownThread(t) \/ LeaveResumeLoop(t) \/ JoinThread(t)
           \/ stage[t] = "create" /\ Leave(t, "free_stack")
  <2>1. /\ UNCHANGED <<pThread, pThreadStack, heap>>
        /\ stage[t] \in {"live", "stop", "join", "create"}
        /\ \E next \in {"stop", "free_stack", "join"} : stage' = [stage EXCEPT ![t] = next]
    BY <1>5 DEF shutdownThread, LeaveResumeLoop, JoinThread, Leave
  <2>. QED  BY <2>1
<1>6. CASE FreeStack(t)
  BY <1>6 DEF FreeStack
<1>7. CASE FreeThread(t)
  BY <1>7 DEF FreeThread
<1>8. CASE UNCHANGED <<stage, pThread, pThreadStack, heap, ran>>
  BY <1>8
<1>. QED
  BY <1>1, <1>2, <1>3, <1>4, <1>5, <1>6, <1>7, <1>8
  DEF ObjectStep, Constructor, Destructor

LEMMA ObjectStepKeepsTypes ==
  ASSUME TypeInv, NEW t \in Threads, ObjectStep(t)
  PROVE  /\ pThread' \in [Threads -> BOOLEAN] /\ pThreadStack' \in [Threads -> BOOLEAN]
         /\ stage' \in [Threads -> Stages] /\ os' \in [Threads -> OSStates]
         /\ \A u \in Threads \ {t} : stage'[u] = stage[u] /\ os'[u] = os[u]
<1> USE DEF TypeInv, SetupTypeOK, Stages, OSStates
<1>1. CASE Constructor(t)
  BY <1>1 DEF Constructor, AllocThread, AllocStack, CreateThread
<1>2. CASE resumeThread(t) \/ ResumeInLoop(t) \/ threadCallback(t)
  BY <1>2 DEF resumeThread, ResumeInLoop, OSResumeThread, threadCallback
<1>3. CASE \/ shutdownThread(t) \/ LeaveResumeLoop(t) \/ JoinThread(t)
           \/ stage[t] = "create" /\ Leave(t, "free_stack")
  BY <1>3 DEF shutdownThread, LeaveResumeLoop, JoinThread, Leave
<1>4. CASE FreeStack(t) \/ FreeThread(t)
  BY <1>4 DEF FreeStack, FreeThread
<1>5. CASE /\ \E state \in OSStates : os' = [os EXCEPT ![t] = state]
           /\ UNCHANGED <<stage, pThread, pThreadStack, heap, ran>>
  BY <1>5
<1>. QED
  BY <1>1, <1>2, <1>3, <1>4, <1>5 DEF ObjectStep, Destructor

LEMMA ObjectStepOwnBlocks ==
  ASSUME NEW t \in Threads, ObjectStep(t)
  PROVE  /\ TableBlock \in heap' <=> TableBlock \in heap
         /\ heap' \subseteq heap \cup {OSThreadBlock(t), StackBlock(t)}
<1> USE BlockFacts
<1>1. CASE Constructor(t)
  BY <1>1 DEF Constructor, AllocThread, AllocStack, CreateThread
<1>2. CASE FreeStack(t) \/ FreeThread(t)
  BY <1>2 DEF FreeStack, FreeThread
<1>3. CASE heap' = heap
  BY <1>3
<1>. QED
  BY <1>1, <1>2, <1>3 DEF ObjectStep, Destructor, resumeThread, shutdownThread,
     LeaveResumeLoop, ResumeInLoop, JoinThread, threadCallback, Leave

LEMMA ObjectStepTyped ==
  ASSUME TypeInv, NEW t \in Threads, ObjectStep(t)
  PROVE  /\ stage' \in [Threads -> Stages] /\ os' \in [Threads -> OSStates]
         /\ pThread' \in [Threads -> BOOLEAN] /\ pThreadStack' \in [Threads -> BOOLEAN]
         /\ heap' \subseteq (Threads \X {"OSThread", "stack"}) \cup {TableBlock}
<1>1. heap \subseteq (Threads \X {"OSThread", "stack"}) \cup {TableBlock}
  BY DEF TypeInv, SetupTypeOK
<1>2. {OSThreadBlock(t), StackBlock(t)} \subseteq Threads \X {"OSThread", "stack"}
  BY BlockFacts
<1>3. heap' \subseteq heap \cup {OSThreadBlock(t), StackBlock(t)}
  BY ObjectStepOwnBlocks
<1>4. heap' \subseteq (Threads \X {"OSThread", "stack"}) \cup {TableBlock}
  BY <1>1, <1>2, <1>3
<1>. QED  BY <1>4, ObjectStepKeepsTypes

(* The steps with the OSThread of SetupIBAT4DBAT5OnAllCores, ...           *)
IBATSteps ==
  \/ AllocIBATThread \/ AllocIBATStack \/ CreateIBATThread \/ SkipIBATLoop
  \/ ResumeIBATThread \/ JoinIBATThread \/ FreeIBATThread \/ IBATThreadRuns

(* ... those with the CThread of a core, ...                               *)
Callback(job, c) ==
  \/ job = "nops" /\ writeKernelNOPs(c)
  \/ job = "sr" /\ writeSegmentRegister(c)

CoreSteps(job) == runOnAllCores(job) \/ \E c \in Cores : Callback(job, c)

(* ... and that is all.                                                    *)
LEMMA Kinds ==
  SetupNext => \/ Registers \/ IBATSteps \/ AllocPageTable \/ FreePageTable
               \/ \E job \in {"nops", "sr"} : CoreSteps(job)
BY DEF SetupNext, MainThread, SetupIBAT4DBAT5OnAllCores, Registers, IBATSteps, CoreSteps,
       Callback

LEMMA IBATStepIsItsOwn ==
  ASSUME SInv, IBATSteps
  PROVE  /\ ObjectStep(IBATThread)
         /\ pc \notin TableSteps \cup {"nops"} /\ pc' \notin TableSteps \cup {"nops"}
<1> USE DEF SInv, StageInv, IBATThreadInv, TableSteps, ObjectStep, OSStates, IBATLoop
<1>1. CASE AllocIBATThread \/ AllocIBATStack
  BY <1>1 DEF AllocIBATThread, AllocIBATStack, Constructor, Step
<1>2. CASE CreateIBATThread \/ ResumeIBATThread
  BY <1>2 DEF CreateIBATThread, ResumeIBATThread, SetIBATThread, Step
<1>3. CASE SkipIBATLoop
  BY <1>3 DEF SkipIBATLoop, Step
<1>4. CASE JoinIBATThread
  <2>1. CASE UNCHANGED thread_vars /\ pc' = "ibat_loop" /\ pc = "ibat_join"
    <3>1. os' = [os EXCEPT ![IBATThread] = os[IBATThread]]
      BY <2>1, CoreFacts DEF thread_vars, TypeInv, SetupTypeOK
    <3>2. os[IBATThread] \in OSStates
      BY CoreFacts DEF TypeInv, SetupTypeOK
    <3>. QED  BY <2>1, <3>1, <3>2 DEF thread_vars
  <2>2. CASE pc' = "ibat_free" /\ pc = "ibat_join" /\ Leave(IBATThread, "free_stack")
    BY <2>2
  <2>. QED  BY <1>4, <2>1, <2>2 DEF JoinIBATThread, NextIBATCore
<1>5. CASE FreeIBATThread
  BY <1>5 DEF FreeIBATThread, Destructor
<1>6. CASE IBATThreadRuns
  <2>1. pc = "ibat_join"
    BY <1>6 DEF IBATThreadRuns
  <2>. QED  BY <1>6, <2>1 DEF IBATThreadRuns, SetIBATThread
<1>. QED
  BY <1>1, <1>2, <1>3, <1>4, <1>5, <1>6 DEF IBATSteps

(* Only the core whose turn it is has a thread.                            *)
LEMMA CallbackOnCore ==
  ASSUME SInv, NEW c \in Cores, os[c] # "none"
  PROVE  c = core /\ stage[c] \in Constructed
<1>1. stage[c] \in Stages
  BY CoreFacts DEF SInv, TypeInv, SetupTypeOK
<1>. QED
  BY <1>1 DEF SInv, StageInv, CoreThreadInv, Stages, Constructed

LEMMA CoreIsCore ==
  ASSUME SInv
  PROVE  /\ n \in Nat /\ n >= 1 /\ n <= Len(Affinity) /\ n \in 1..Len(Affinity)
         /\ core \in Cores /\ core \in Threads
BY CoreFacts DEF SInv, TypeInv, SetupTypeOK, core

LEMMA CoreStepIsItsOwn ==
  ASSUME SInv, NEW job \in {"nops", "sr"}, CoreSteps(job)
  PROVE  /\ ObjectStep(core) /\ pc = job
         /\ \/ pc' = pc /\ UNCHANGED n
            \/ /\ stage[core] = "free_thread" /\ FreeThread(core) /\ NextCore(job)
<1> USE DEF ObjectStep
<1>1. CASE Construct(job)
  BY <1>1 DEF Construct
<1>2. CASE ResumeAndLeave(job)
  BY <1>2 DEF ResumeAndLeave
<1>3. CASE Destruct(job)
  BY <1>3 DEF Destruct, Destructor, LeaveResumeLoop, ResumeInLoop, JoinThread, FreeStack
<1>4. ASSUME NEW c \in Cores, Callback(job, c)
      PROVE  ObjectStep(core) /\ pc = job /\ pc' = pc /\ UNCHANGED n
  <2>1. threadCallback(c) /\ pc = job /\ pc' = pc /\ UNCHANGED n
    BY <1>4 DEF Callback, writeKernelNOPs, writeSegmentRegister
  <2>2. c = core
    BY <2>1, CallbackOnCore DEF threadCallback
  <2>. QED  BY <2>1, <2>2
<1>. QED
  BY <1>1, <1>2, <1>3, <1>4 DEF CoreSteps, runOnAllCores

LEMMA HeapStep ==
  ASSUME SInv, SetupNext
  PROVE  HeapInv'
<1> USE DEF SInv, HeapInv
<1>1. CASE Registers
  <2>1. UNCHANGED thread_vars
    BY <1>1, RegistersKeepThreads
  <2>2. HeapMatchesPointers'
    BY <2>1 DEF thread_vars, HeapMatchesPointers
  <2>3. pc \in TableSteps <=> pc' \in TableSteps
    BY <1>1 DEF Registers, TableSteps, BackUpScratch, WriteSetupCode, PatchSyscall,
       RepairScratch, KernelReadSRs, KernelReadPTE, SetSegment, MapRegions, KernelWritePTE,
       MemoryMapping_CreateHeaps, KernelLoadsSegments, KernelMapsPage, Step
  <2>. QED  BY <2>1, <2>2, <2>3 DEF thread_vars
<1>2. CASE IBATSteps
  BY <1>2, IBATStepIsItsOwn, ObjectStepKeepsHeap, ObjectStepOwnBlocks, CoreFacts
<1>3. CASE \E job \in {"nops", "sr"} : CoreSteps(job)
  <2>1. PICK job \in {"nops", "sr"} : CoreSteps(job)
    BY <1>3
  <2>2. ObjectStep(core) /\ core \in Threads
    BY <2>1, CoreStepIsItsOwn, CoreIsCore
  <2>3. pc \in TableSteps <=> pc' \in TableSteps
    BY <2>1, CoreStepIsItsOwn DEF NextCore, AfterJob, TableSteps
  <2>. QED  BY <2>2, <2>3, ObjectStepKeepsHeap, ObjectStepOwnBlocks
<1>4. CASE AllocPageTable \/ FreePageTable
  <2>1. UNCHANGED <<stage, pThread, pThreadStack>>
    BY <1>4 DEF AllocPageTable, FreePageTable
  <2>2. \A b : b # TableBlock => (b \in heap' <=> b \in heap)
    BY <1>4 DEF AllocPageTable, FreePageTable
  <2>3. HeapMatchesPointers'
    BY <2>1, <2>2, BlockFacts DEF HeapMatchesPointers
  <2>4. TableBlock \in heap' <=> pc' \in TableSteps
    BY <1>4 DEF AllocPageTable, FreePageTable, TableSteps, Step
  <2>. QED  BY <2>3, <2>4
<1>. QED  BY <1>1, <1>2, <1>3, <1>4, Kinds

(* What a step of an object changes beside it.                             *)
LEMMA IBATStepFrame ==
  ASSUME SInv, IBATSteps
  PROVE  /\ UNCHANGED <<scratch_vars, nops, sr8, table_vars, kernel_mapped, overtaken>>
         /\ n' \in 1..Len(Affinity)
         /\ bat \subseteq bat' /\ bat' \subseteq bat \cup Cores
         /\ skipped' \in {skipped, skipped \cup ({"ibat"} \X Cores)}
         /\ pc' \in {"ibat_stack", "ibat_free", "repair"} \cup IBATLoop
         /\ pc \in {"ibat_thread", "ibat_stack", "ibat_free"} \cup IBATLoop
<1> USE CoreIsCore DEF history_vars, core_vars
<1>1. CASE AllocIBATThread \/ AllocIBATStack
  BY <1>1 DEF AllocIBATThread, AllocIBATStack, Step, IBATLoop
<1>2. CASE CreateIBATThread \/ ResumeIBATThread \/ SkipIBATLoop
  BY <1>2 DEF CreateIBATThread, ResumeIBATThread, SkipIBATLoop, Step, IBATLoop
<1>3. CASE JoinIBATThread
  BY <1>3, CoreFacts DEF JoinIBATThread, NextIBATCore, IBATLoop
<1>4. CASE FreeIBATThread
  BY <1>4 DEF FreeIBATThread, IBATLoop
<1>5. CASE IBATThreadRuns
  <2>1. pc = "ibat_join"
    BY <1>5 DEF IBATThreadRuns, SInv, IBATThreadInv, IBATLoop
  <2>. QED  BY <1>5, <2>1 DEF IBATThreadRuns, IBATLoop
<1>. QED  BY <1>1, <1>2, <1>3, <1>4, <1>5 DEF IBATSteps

LEMMA CoreStepFrame ==
  ASSUME SInv, NEW job \in {"nops", "sr"}, CoreSteps(job)
  PROVE  /\ UNCHANGED <<scratch_vars, bat, table_vars, kernel_mapped, overtaken>>
         /\ n' \in 1..Len(Affinity)
         /\ skipped' \in {skipped, skipped \cup {<<job, core>>}}
         /\ nops' \in {nops, nops \cup {core}}
         /\ sr8' \in {sr8, [sr8 EXCEPT ![core] = "ours"]}
         /\ pc' \in {job, AfterJob(job)}
<1> USE CoreIsCore DEF history_vars, core_vars
<1>1. CASE Construct(job)
  BY <1>1 DEF Construct
<1>2. CASE ResumeAndLeave(job)
  BY <1>2 DEF ResumeAndLeave
<1>3. CASE Destruct(job)
  BY <1>3, CoreFacts DEF Destruct, NextCore
<1>4. ASSUME NEW c \in Cores, Callback(job, c)
      PROVE  /\ UNCHANGED <<scratch_vars, bat, table_vars, history_vars, pc, n>> /\ pc = job
             /\ nops' \in {nops, nops \cup {core}}
             /\ sr8' \in {sr8, [sr8 EXCEPT ![core] = "ours"]}
  <2>1. c = core
    BY <1>4, CallbackOnCore DEF Callback, writeKernelNOPs, writeSegmentRegister, threadCallback
  <2>2. pc = "sr" => srTableCpy = "ours"
    BY DEF SInv, TableInv
  <2>. QED  BY <1>4, <2>1, <2>2 DEF Callback, writeKernelNOPs, writeSegmentRegister
<1>. QED
  BY <1>1, <1>2, <1>3, <1>4 DEF CoreSteps, runOnAllCores

LEMMA TypeStep ==
  ASSUME SInv, SetupNext
  PROVE  TypeInv'
<1>0. TypeInv
  BY DEF SInv
<1> USE DEF TypeInv, SetupTypeOK
<1>1. CASE Registers
  <2>1. UNCHANGED thread_vars
    BY <1>1, RegistersKeepThreads
  <2>2. n' \in 1..Len(Affinity) /\ pc' \in Steps
    BY <1>0, <1>1, CoreIsCore DEF Registers, Steps, SetupCode, TableSteps, BackUpScratch,
       WriteSetupCode, PatchSyscall, RepairScratch, KernelReadSRs, KernelReadPTE, SetSegment,
       MapRegions, KernelWritePTE, MemoryMapping_CreateHeaps, KernelLoadsSegments,
       KernelMapsPage, Step
  <2>3. scratch' \in {"app", "setup_code"} /\ syscall51' \in {"kernel", "scratch"}
    BY <1>0, <1>1 DEF Registers, SInv, ScratchInv, BackUpScratch, scratch_vars,
       WriteSetupCode, PatchSyscall, RepairScratch, KernelReadSRs, KernelReadPTE, SetSegment,
       MapRegions, KernelWritePTE, MemoryMapping_CreateHeaps, KernelLoadsSegments,
       KernelMapsPage, Step
  <2>4. bat' \subseteq Cores /\ nops' \subseteq Cores /\ sr8' \in [Cores -> {"kernel", "ours"}]
    BY <1>0, <1>1 DEF Registers, BackUpScratch, core_vars,
       WriteSetupCode, PatchSyscall, RepairScratch, KernelReadSRs, KernelReadPTE, SetSegment,
       MapRegions, KernelWritePTE, MemoryMapping_CreateHeaps, KernelLoadsSegments,
       KernelMapsPage
  <2>5. skipped' = skipped
    BY <1>1 DEF Registers, BackUpScratch, history_vars,
       WriteSetupCode, PatchSyscall, RepairScratch, KernelReadSRs, KernelReadPTE, SetSegment,
       MapRegions, KernelWritePTE, MemoryMapping_CreateHeaps, KernelLoadsSegments,
       KernelMapsPage
  <2>6. /\ hw_table' \in Tables /\ pageTableCpy' \in Tables
        /\ kernel_mapped' \subseteq KernelPages
    <3>1. CASE KernelReadPTE \/ MapRegions \/ KernelWritePTE
      BY <1>0, <3>1 DEF KernelReadPTE, MapRegions, KernelWritePTE, Tables, history_vars
    <3>2. ASSUME NEW p \in KernelPages, KernelMapsPage(p)
          PROVE  /\ hw_table' \in Tables /\ pageTableCpy' \in Tables
                 /\ kernel_mapped' \subseteq KernelPages
      BY <1>0, <3>2 DEF KernelMapsPage, Tables
    <3>3. CASE UNCHANGED <<hw_table, pageTableCpy, kernel_mapped>>
      BY <1>0, <3>3
    <3>. QED
      BY <1>1, <3>1, <3>2, <3>3 DEF Registers, BackUpScratch, WriteSetupCode, PatchSyscall,
         RepairScratch, KernelReadSRs, SetSegment, MemoryMapping_CreateHeaps,
         KernelLoadsSegments, table_vars, history_vars
  <2>. QED  BY <1>0, <2>1, <2>2, <2>3, <2>4, <2>5, <2>6 DEF thread_vars
<1>2. CASE IBATSteps
  <2>1. /\ stage' \in [Threads -> Stages] /\ os' \in [Threads -> OSStates]
        /\ pThread' \in [Threads -> BOOLEAN] /\ pThreadStack' \in [Threads -> BOOLEAN]
        /\ heap' \subseteq (Threads \X {"OSThread", "stack"}) \cup {TableBlock}
    <3>1. ObjectStep(IBATThread) /\ IBATThread \in Threads
      BY <1>2, IBATStepIsItsOwn, CoreFacts
    <3>. QED  BY <1>0, <3>1, ObjectStepTyped
  <2>2. pc' \in Steps
    BY <1>2, IBATStepFrame DEF Steps, SetupCode
  <2>3. skipped' \subseteq Jobs \X Cores /\ bat' \subseteq Cores /\ n' \in 1..Len(Affinity)
    BY <1>0, <1>2, IBATStepFrame DEF Jobs
  <2>4. /\ UNCHANGED <<scratch, syscall51, nops, sr8, hw_table, pageTableCpy, kernel_mapped>>
    BY <1>2, IBATStepFrame DEF scratch_vars, table_vars
  <2>. QED  BY <1>0, <2>1, <2>2, <2>3, <2>4
<1>3. CASE \E job \in {"nops", "sr"} : CoreSteps(job)
  <2>1. PICK job \in {"nops", "sr"} : CoreSteps(job)
    BY <1>3
  <2>2. /\ stage' \in [Threads -> Stages] /\ os' \in [Threads -> OSStates]
        /\ pThread' \in [Threads -> BOOLEAN] /\ pThreadStack' \in [Threads -> BOOLEAN]
        /\ heap' \subseteq (Threads \X {"OSThread", "stack"}) \cup {TableBlock}
    <3>1. ObjectStep(core) /\ core \in Threads
      BY <2>1, CoreStepIsItsOwn, CoreIsCore
    <3>. QED  BY <1>0, <3>1, ObjectStepTyped
  <2>3. pc' \in Steps
    BY <2>1, CoreStepFrame DEF Steps, TableSteps, AfterJob
  <2>4. skipped' \subseteq Jobs \X Cores /\ n' \in 1..Len(Affinity)
    BY <1>0, <2>1, CoreStepFrame, CoreIsCore DEF Jobs
  <2>5. nops' \subseteq Cores /\ sr8' \in [Cores -> {"kernel", "ours"}]
    BY <1>0, <2>1, CoreStepFrame, CoreIsCore
  <2>6. /\ UNCHANGED <<scratch, syscall51, bat, hw_table, pageTableCpy, kernel_mapped>>
    BY <2>1, CoreStepFrame DEF scratch_vars, table_vars
  <2>. QED  BY <1>0, <2>2, <2>3, <2>4, <2>5, <2>6
<1>4. CASE AllocPageTable \/ FreePageTable
  BY <1>0, <1>4 DEF AllocPageTable, FreePageTable, Tables, NoTable, Steps, TableSteps, Step,
     scratch_vars, core_vars, table_vars, history_vars
<1>. QED  BY <1>1, <1>2, <1>3, <1>4, Kinds

(* No core has an object outside of the two jobs.                          *)
LEMMA OnlyInJobs ==
  ASSUME SInv, pc \notin {"nops", "sr"}
  PROVE  \A c \in Cores : stage[c] = "none" /\ os[c] = "none"
BY DEF SInv, StageInv, CoreThreadInv

LEMMA StageStep ==
  ASSUME SInv, SetupNext
  PROVE  StageInv'
<1> USE DEF StageInv
<1>0. StageInv /\ TypeInv /\ stage \in [Threads -> Stages]
  BY DEF SInv, TypeInv, SetupTypeOK
<1>1. CASE Registers
  <2>1. UNCHANGED stage
    BY <1>1, RegistersKeepThreads DEF thread_vars
  <2>2. /\ pc \notin IBATLoop \cup {"ibat_stack", "ibat_free"}
        /\ pc' \notin IBATLoop \cup {"ibat_stack", "ibat_free"}
        /\ \/ UNCHANGED <<pc, n>>
           \/ pc \notin {"nops", "sr"}
     \/ UNCHANGED <<pc, n>>
    BY <1>1 DEF Registers, BackUpScratch, WriteSetupCode, PatchSyscall, RepairScratch,
       KernelReadSRs, KernelReadPTE, SetSegment, MapRegions, KernelWritePTE,
       MemoryMapping_CreateHeaps, KernelLoadsSegments, KernelMapsPage, Step, IBATLoop
  <2>. QED  BY <1>0, <2>1, <2>2 DEF core
<1>2. CASE IBATSteps
  <2>1. \A c \in Cores : stage'[c] = "none"
    <3>1. pc \notin {"nops", "sr"}
      BY <1>2, IBATStepIsItsOwn DEF TableSteps
    <3>2. \A c \in Cores : stage'[c] = stage[c]
      BY <1>0, <1>2, IBATStepIsItsOwn, ObjectStepKeepsTypes, CoreFacts
    <3>. QED  BY <3>1, <3>2, OnlyInJobs
  <2> USE <1>0, <2>1, CoreFacts DEF IBATLoop
  <2>2. CASE AllocIBATThread \/ AllocIBATStack
    BY <2>2 DEF AllocIBATThread, AllocIBATStack, AllocThread, AllocStack, Step
  <2>3. CASE CreateIBATThread \/ ResumeIBATThread
    BY <2>3 DEF CreateIBATThread, ResumeIBATThread, SetIBATThread, Step
  <2>4. CASE SkipIBATLoop
    BY <2>4 DEF SkipIBATLoop, Leave, Step
  <2>5. CASE JoinIBATThread
    BY <2>5 DEF JoinIBATThread, NextIBATCore, Leave, thread_vars
  <2>6. CASE FreeIBATThread
    BY <2>6 DEF FreeIBATThread, FreeStack, FreeThread
  <2>7. CASE IBATThreadRuns
    BY <2>7 DEF IBATThreadRuns, SetIBATThread
  <2>. QED  BY <1>2, <2>2, <2>3, <2>4, <2>5, <2>6, <2>7 DEF IBATSteps
<1>3. CASE \E job \in {"nops", "sr"} : CoreSteps(job)
  <2>1. PICK job \in {"nops", "sr"} : CoreSteps(job)
    BY <1>3
  <2>2. /\ pc = job /\ core \in Cores /\ core \in Threads
        /\ \A u \in Threads \ {core} : stage'[u] = stage[u]
    BY <1>0, <2>1, CoreStepIsItsOwn, CoreIsCore, ObjectStepKeepsTypes
  <2>3. /\ stage'[IBATThread] = "none"
        /\ \A c \in Cores \ {core} : stage'[c] = "none"
    BY <1>0, <2>2, CoreFacts DEF IBATLoop
  <2>4. CASE pc' = pc /\ UNCHANGED n
    BY <2>1, <2>2, <2>3, <2>4 DEF core, IBATLoop
  <2>5. CASE stage[core] = "free_thread" /\ FreeThread(core) /\ NextCore(job)
    <3>1. stage'[core] = "none"
      BY <1>0, <2>2, <2>5 DEF FreeThread
    <3>2. pc' \in {"nops", "sr", "alloc_table", "map"}
      BY <2>1, <2>2, <2>5 DEF NextCore, AfterJob
    <3>. QED  BY <2>3, <3>1, <3>2 DEF IBATLoop
  <2>. QED  BY <2>1, <2>4, <2>5, CoreStepIsItsOwn
<1>4. CASE AllocPageTable \/ FreePageTable
  BY <1>0, <1>4 DEF AllocPageTable, FreePageTable, IBATLoop, Step
<1>. QED  BY <1>1, <1>2, <1>3, <1>4, Kinds

LEMMA ScratchStep ==
  ASSUME SInv, SetupNext
  PROVE  ScratchInv'
<1> USE DEF ScratchInv, SetupCode, IBATLoop
<1>0. ScratchInv /\ scratch \in {"app", "setup_code"}
  BY DEF SInv, TypeInv, SetupTypeOK
<1>1. CASE BackUpScratch \/ WriteSetupCode \/ PatchSyscall \/ RepairScratch
  BY <1>0, <1>1 DEF BackUpScratch, WriteSetupCode, PatchSyscall, RepairScratch, Step
<1>2. CASE Registers /\ ~(BackUpScratch \/ WriteSetupCode \/ PatchSyscall \/ RepairScratch)
  BY <1>0, <1>2 DEF Registers, KernelReadSRs, KernelReadPTE, SetSegment, MapRegions,
     KernelWritePTE, MemoryMapping_CreateHeaps, KernelLoadsSegments, KernelMapsPage, Step,
     scratch_vars
<1>3. CASE IBATSteps
  BY <1>0, <1>3, IBATStepFrame DEF scratch_vars
<1>4. ASSUME NEW job \in {"nops", "sr"}, CoreSteps(job)
      PROVE  ScratchInv'
  BY <1>0, <1>4, CoreStepFrame, CoreStepIsItsOwn DEF scratch_vars, AfterJob
<1>5. CASE AllocPageTable \/ FreePageTable
  BY <1>0, <1>5 DEF AllocPageTable, FreePageTable, Step, scratch_vars
<1>. QED  BY <1>1, <1>2, <1>3, <1>4, <1>5, Kinds

LEMMA IBATThreadStep ==
  ASSUME SInv, SetupNext
  PROVE  IBATThreadInv'
<1> USE DEF IBATThreadInv, IBATLoop
<1>0. IBATThreadInv /\ IBATThread \in Threads /\ os \in [Threads -> OSStates] /\ StageInv
  BY CoreFacts DEF SInv, TypeInv, SetupTypeOK
<1>1. CASE Registers
  <2>1. UNCHANGED <<os, pThread, pThreadStack>>
    BY <1>1, RegistersKeepThreads DEF thread_vars
  <2>2. /\ pc \notin IBATLoop \cup {"ibat_free"} /\ pc' \notin IBATLoop \cup {"ibat_free"}
     \/ UNCHANGED <<pc, n, bat>>
    BY <1>1 DEF Registers, BackUpScratch, WriteSetupCode, PatchSyscall, RepairScratch,
       KernelReadSRs, KernelReadPTE, SetSegment, MapRegions, KernelWritePTE,
       MemoryMapping_CreateHeaps, KernelLoadsSegments, KernelMapsPage, Step,
       core_vars
  <2>. QED  BY <1>0, <2>1, <2>2 DEF core, DoneOn
<1>2. CASE IBATSteps
  <2>1. CASE AllocIBATThread \/ AllocIBATStack
    BY <1>0, <2>1 DEF AllocIBATThread, AllocIBATStack, AllocThread, AllocStack, Step
  <2>2. CASE CreateIBATThread
    BY <1>0, <2>2 DEF CreateIBATThread, SetIBATThread, Step
  <2>3. CASE ResumeIBATThread
    BY <1>0, <2>3 DEF ResumeIBATThread, SetIBATThread, Step
  <2>4. CASE SkipIBATLoop
    BY <1>0, <2>4 DEF SkipIBATLoop, Leave, Step
  <2>5. CASE JoinIBATThread
    BY <1>0, <2>5 DEF JoinIBATThread, NextIBATCore, Leave, thread_vars
  <2>6. CASE FreeIBATThread
    <3>1. CASE FreeStack(IBATThread) /\ UNCHANGED pc
      BY <1>0, <2>6, <3>1 DEF FreeIBATThread, FreeStack
    <3>2. CASE FreeThread(IBATThread) /\ pc' = "repair"
      BY <1>0, <3>2, CoreFacts DEF FreeThread
    <3>. QED  BY <2>6, <3>1, <3>2 DEF FreeIBATThread
  <2>7. CASE IBATThreadRuns
    <3>1. pc = "ibat_join"
      BY <1>0, <2>7 DEF IBATThreadRuns
    <3>2. syscall51 = "scratch" /\ scratch = "setup_code"
      BY <3>1 DEF SInv, ScratchInv, SetupCode
    <3>3. bat' = bat \cup {core} /\ core' = core
      BY <2>7, <3>2 DEF IBATThreadRuns, core
    <3>. QED  BY <1>0, <2>7, <3>1, <3>3 DEF IBATThreadRuns, SetIBATThread, DoneOn
  <2>. QED  BY <1>2, <2>1, <2>2, <2>3, <2>4, <2>5, <2>6, <2>7 DEF IBATSteps
<1>3. ASSUME NEW job \in {"nops", "sr"}, CoreSteps(job)
      PROVE  IBATThreadInv'
  <2>1. os'[IBATThread] = os[IBATThread]
    BY <1>0, <1>3, CoreStepIsItsOwn, CoreIsCore, CoreFacts, ObjectStepKeepsTypes DEF SInv
  <2>2. pc = job /\ pc' \in {"nops", "sr", "alloc_table", "map"}
    BY <1>3, CoreStepIsItsOwn, CoreStepFrame DEF AfterJob
  <2>. QED  BY <1>0, <2>1, <2>2
<1>4. CASE AllocPageTable \/ FreePageTable
  BY <1>0, <1>4 DEF AllocPageTable, FreePageTable, Step
<1>. QED  BY <1>1, <1>2, <1>3, <1>4, Kinds

(* What a core has got it keeps: its segment register is loaded by the     *)
(* kernel again only where the job "nops" left it out.                     *)
LEMMA DoneStays ==
  ASSUME SInv, SetupNext, NEW job \in Jobs, NEW c \in Cores, job = "sr" => PastNOPs
  PROVE  /\ DoneOn(job, c) => DoneOn(job, c)'
         /\ JobDone(job, c) => JobDone(job, c)'
<1>1. SUFFICES /\ bat \subseteq bat' /\ nops \subseteq nops' /\ skipped \subseteq skipped'
               /\ job = "sr" /\ sr8[c] = "ours" =>
                    sr8'[c] = "ours" \/ <<"nops", c>> \in skipped'
  BY DEF DoneOn, JobDone
<1>2. CASE Registers
  <2>1. UNCHANGED <<bat, nops, skipped>>
    BY <1>2 DEF Registers, BackUpScratch, WriteSetupCode, PatchSyscall, RepairScratch,
       KernelReadSRs, KernelReadPTE, SetSegment, MapRegions, KernelWritePTE, core_vars,
       MemoryMapping_CreateHeaps, KernelLoadsSegments, KernelMapsPage, history_vars
  <2>2. ASSUME NEW k \in Cores, KernelLoadsSegments(k), job = "sr"
        PROVE  sr8[c] = "ours" => sr8'[c] = "ours" \/ <<"nops", c>> \in skipped'
    <3>1. CASE k = c
      BY <2>1, <2>2, <3>1 DEF KernelLoadsSegments, SInv, ServedInv, JobDone, DoneOn
    <3>2. CASE k # c
      BY <2>2, <3>2 DEF KernelLoadsSegments, SInv, TypeInv, SetupTypeOK
    <3>. QED  BY <3>1, <3>2
  <2>3. CASE sr8' = sr8
    BY <2>1, <2>3
  <2>. QED
    BY <1>2, <2>1, <2>2, <2>3 DEF Registers, BackUpScratch, WriteSetupCode, PatchSyscall,
       RepairScratch, KernelReadSRs, KernelReadPTE, SetSegment, MapRegions, KernelWritePTE,
       core_vars, MemoryMapping_CreateHeaps, KernelMapsPage
<1>3. CASE IBATSteps
  BY <1>3, IBATStepFrame
<1>4. ASSUME NEW j \in {"nops", "sr"}, CoreSteps(j)
      PROVE  /\ bat \subseteq bat' /\ nops \subseteq nops' /\ skipped \subseteq skipped'
             /\ sr8[c] = "ours" => sr8'[c] = "ours"
  BY <1>4, CoreStepFrame DEF SInv, TypeInv, SetupTypeOK
<1>5. CASE AllocPageTable \/ FreePageTable
  BY <1>5 DEF AllocPageTable, FreePageTable, core_vars, history_vars
<1>. QED  BY <1>2, <1>3, <1>4, <1>5, Kinds

(* The object of the core whose turn it is.                                *)
CoreObject(job) ==
  stage[core] \in Constructed =>
    /\ IF pThread[core] /\ pThreadStack[core]
         THEN os[core] \in {"suspended", "ready", "terminated"}
         ELSE os[core] \in {"none", "garbage"} /\ <<job, core>> \in skipped
    /\ stage[core] \in {"free_stack", "free_thread"} => os[core] \notin {"suspended", "ready"}
    /\ os[core] = "terminated" => DoneOn(job, core)

LEMMA CoreObjectStep ==
  ASSUME SInv, SetupNext, NEW job \in {"nops", "sr"}, CoreSteps(job)
  PROVE  /\ stage'[core] \in {"none", "alloc_stack", "create"} => os'[core] = "none"
         /\ UNCHANGED n => CoreObject(job)'
         /\ stage[core] = "free_thread" => JobDone(job, core)
<1>c. PICK c \in Cores : c = core
  BY CoreIsCore
<1>0. /\ c \in Cores /\ c \in Threads /\ pc = job /\ c \notin Detached
      /\ stage \in [Threads -> Stages] /\ os \in [Threads -> OSStates]
      /\ pThread \in [Threads -> BOOLEAN] /\ pThreadStack \in [Threads -> BOOLEAN]
      /\ stage[c] \in {"none", "alloc_stack", "create"} => os[c] = "none"
      /\ CoreObject(job) /\ HeapMatchesPointers
  BY <1>c, CoreStepIsItsOwn, CoreIsCore, CoreFacts
  DEF SInv, TypeInv, SetupTypeOK, CoreThreadInv, CoreObject, HeapInv
<1>1. DoneOn(job, c) => DoneOn(job, c)'
  <2>1. job = "sr" => PastNOPs
    BY <1>0 DEF PastNOPs, PastIBAT
  <2>2. job \in Jobs
    BY DEF Jobs
  <2>. QED  BY <2>1, <2>2, DoneStays
<1>2. UNCHANGED n => core' = c
  BY <1>c DEF core
<1>3. skipped \subseteq skipped'
  BY CoreStepFrame
<1>4. stage[c] = "free_thread" => JobDone(job, c)
  BY <1>0, <1>c DEF CoreObject, Constructed, JobDone
<1> DEFINE Object ==
      stage[c] \in Constructed =>
        /\ IF pThread[c] /\ pThreadStack[c]
             THEN os[c] \in {"suspended", "ready", "terminated"}
             ELSE os[c] \in {"none", "garbage"} /\ <<job, c>> \in skipped
        /\ stage[c] \in {"free_stack", "free_thread"} => os[c] \notin {"suspended", "ready"}
        /\ os[c] = "terminated" => DoneOn(job, c)
    ObjectNext ==
      /\ stage'[c] \in {"none", "alloc_stack", "create"} => os'[c] = "none"
      /\ stage'[c] \in Constructed =>
           /\ IF pThread'[c] /\ pThreadStack'[c]
                THEN os'[c] \in {"suspended", "ready", "terminated"}
                ELSE os'[c] \in {"none", "garbage"} /\ <<job, c>> \in skipped'
           /\ stage'[c] \in {"free_stack", "free_thread"} =>
                os'[c] \notin {"suspended", "ready"}
           /\ os'[c] = "terminated" => DoneOn(job, c)'
<1>5. Object
  BY <1>0, <1>c DEF CoreObject
<1>6. ObjectNext
  <2> USE <1>0, <1>1, <1>3, <1>5 DEF Constructed, Stages, OSStates
  <2>1. CASE AllocThread(c) \/ AllocStack(c)
    BY <2>1 DEF AllocThread, AllocStack
  <2>2. CASE CreateThread(c) /\ (~(pThread[c] /\ pThreadStack[c]) => <<job, c>> \in skipped')
    BY <2>2 DEF CreateThread
  <2>3. CASE resumeThread(c) \/ ResumeInLoop(c)
    <3>1. /\ stage[c] \in {"live", "stop"} /\ UNCHANGED <<stage, pThread, pThreadStack>>
          /\ os' = [os EXCEPT ![c] = IF os[c] = "suspended" THEN "ready" ELSE os[c]]
      BY <2>3 DEF resumeThread, ResumeInLoop, OSResumeThread
    <3>. QED  BY <3>1
  <2>4. CASE shutdownThread(c) /\ os[c] # "suspended"
    <3>1. /\ stage[c] = "live" /\ UNCHANGED <<pThread, pThreadStack, os>>
          /\ IF pThread[c] THEN stage' = [stage EXCEPT ![c] = "stop"]
                           ELSE stage' = [stage EXCEPT ![c] = "free_stack"]
      BY <2>4 DEF shutdownThread, Leave
    <3>. QED  BY <3>1
  <2>5. CASE LeaveResumeLoop(c)
    BY <2>5 DEF LeaveResumeLoop, Leave
  <2>6. CASE JoinThread(c)
    BY <2>6 DEF JoinThread, Leave
  <2>7. CASE FreeStack(c)
    BY <2>7 DEF FreeStack
  <2>8. CASE FreeThread(c)
    BY <2>8 DEF FreeThread
  <2>9. CASE threadCallback(c) /\ DoneOn(job, c)'
    BY <2>9 DEF threadCallback
  <2>10. CASE Construct(job)
    <3>1. Constructor(c) /\ (stage[c] = "create" /\ ~(pThread[c] /\ pThreadStack[c]) =>
                               <<job, c>> \in skipped')
      BY <1>c, <2>10 DEF Construct
    <3>2. CreateThread(c) => stage[c] = "create"
      BY DEF CreateThread
    <3>. QED  BY <2>1, <2>2, <3>1, <3>2 DEF Constructor
  <2>11. CASE ResumeAndLeave(job)
    BY <1>c, <2>3, <2>4, <2>11 DEF ResumeAndLeave
  <2>12. CASE Destruct(job)
    BY <2>3, <2>5, <2>6, <2>7, <2>8, <2>12, <1>c DEF Destruct, Destructor
  <2>13. ASSUME NEW d \in Cores, Callback(job, d)
         PROVE  ObjectNext
    <3>1. d = c
      BY <1>c, <2>13, CallbackOnCore DEF Callback, writeKernelNOPs, writeSegmentRegister,
         threadCallback
    <3>2. threadCallback(c) /\ DoneOn(job, c)'
      <4>1. CASE job = "nops"
        BY <2>13, <3>1, <4>1 DEF Callback, writeKernelNOPs, DoneOn
      <4>2. CASE job = "sr"
        <5>1. srTableCpy = "ours"
          BY <4>2 DEF SInv, TableInv
        <5>2. sr8' = [sr8 EXCEPT ![c] = "ours"] /\ sr8 \in [Cores -> {"kernel", "ours"}]
          BY <2>13, <3>1, <4>2, <5>1 DEF Callback, writeSegmentRegister, SInv, TypeInv,
             SetupTypeOK
        <5>. QED  BY <2>13, <3>1, <4>2, <5>2 DEF Callback, writeSegmentRegister, DoneOn
      <4>. QED  BY <4>1, <4>2
    <3>. QED  BY <2>9, <3>2
  <2>. QED  BY <2>10, <2>11, <2>12, <2>13 DEF CoreSteps, runOnAllCores
<1>7. UNCHANGED n => CoreObject(job)'
  BY <1>2, <1>6 DEF CoreObject
<1>. QED  BY <1>c, <1>4, <1>6, <1>7

LEMMA CoreThreadStep ==
  ASSUME SInv, SetupNext
  PROVE  CoreThreadInv'
<1>0. /\ TypeInv /\ TypeInv' /\ StageInv /\ StageInv' /\ CoreThreadInv
      /\ stage' \in [Threads -> Stages]
  BY TypeStep, StageStep DEF SInv, TypeInv, SetupTypeOK
<1>1. core' \in Cores
  BY <1>0, CoreFacts DEF TypeInv, SetupTypeOK, core
(* Without a job there is nothing to say but that no core has a thread.    *)
<1>2. ASSUME \A c \in Cores : stage'[c] = "none" /\ os'[c] = "none"
      PROVE  CoreThreadInv'
  BY <1>1, <1>2 DEF CoreThreadInv, Constructed
<1>3. CASE Registers
  <2>1. UNCHANGED <<stage, os, pThread, pThreadStack>>
    BY <1>3, RegistersKeepThreads DEF thread_vars
  <2>2. CASE pc \notin {"nops", "sr"}
    BY <1>2, <2>1, <2>2, OnlyInJobs
  <2>3. CASE pc \in {"nops", "sr"}
    <3>1. UNCHANGED <<pc, n, skipped>> /\ core' = core
      BY <1>3, <2>3 DEF Registers, BackUpScratch, WriteSetupCode, PatchSyscall, RepairScratch,
         KernelReadSRs, KernelReadPTE, SetSegment, MapRegions, KernelWritePTE,
         MemoryMapping_CreateHeaps, KernelLoadsSegments, KernelMapsPage, Step, history_vars,
         core
    <3>2. PICK c \in Cores : c = core
      BY CoreIsCore
    <3>3. PICK job \in {"nops", "sr"} : job = pc
      BY <2>3
    <3>4. job \in Jobs /\ (job = "sr" => PastNOPs)
      BY <3>3 DEF Jobs, PastNOPs, PastIBAT
    <3>5. DoneOn(job, c) => DoneOn(job, c)'
      BY <3>4, DoneStays
    <3>. QED  BY <1>0, <2>1, <3>1, <3>2, <3>3, <3>5 DEF CoreThreadInv
  <2>. QED  BY <2>2, <2>3
<1>4. CASE IBATSteps
  <2>1. \A c \in Cores : stage'[c] = stage[c] /\ os'[c] = os[c]
    BY <1>0, <1>4, IBATStepIsItsOwn, ObjectStepKeepsTypes, CoreFacts
  <2>2. \A c \in Cores : stage[c] = "none" /\ os[c] = "none"
    BY <1>4, IBATStepIsItsOwn, OnlyInJobs DEF TableSteps
  <2>. QED  BY <1>2, <2>1, <2>2
<1>5. ASSUME NEW job \in {"nops", "sr"}, CoreSteps(job)
      PROVE  CoreThreadInv'
  <2>1. /\ core \in Cores /\ core \in Threads /\ pc = job
        /\ \A u \in Threads \ {core} : stage'[u] = stage[u] /\ os'[u] = os[u]
    BY <1>0, <1>5, CoreStepIsItsOwn, CoreIsCore, ObjectStepKeepsTypes
  <2>2. \A c \in Cores : stage'[c] \in {"none", "alloc_stack", "create"} => os'[c] = "none"
    BY <1>0, <1>5, <2>1, CoreObjectStep, CoreFacts DEF CoreThreadInv
  <2>3. CASE pc' = pc /\ UNCHANGED n
    <3>1. CoreObject(job)'
      BY <1>5, <2>3, CoreObjectStep
    <3>. QED  BY <2>1, <2>2, <2>3, <3>1 DEF CoreThreadInv, CoreObject
  <2>4. CASE stage[core] = "free_thread" /\ FreeThread(core)
    <3>1. stage'[core] = "none"
      BY <1>0, <2>1, <2>4 DEF FreeThread, TypeInv, SetupTypeOK
    <3>2. \A c \in Cores \ {core} : stage'[c] = "none"
      BY <1>0, <2>1, CoreFacts DEF StageInv
    <3>. QED  BY <1>2, <2>2, <3>1, <3>2
  <2>. QED  BY <1>5, <2>3, <2>4, CoreStepIsItsOwn
<1>6. CASE AllocPageTable \/ FreePageTable
  <2>1. UNCHANGED <<stage, os>> /\ pc \notin {"nops", "sr"}
    BY <1>6 DEF AllocPageTable, FreePageTable, Step
  <2>. QED  BY <1>2, <2>1, OnlyInJobs
<1>. QED  BY <1>3, <1>4, <1>5, <1>6, Kinds

(* A core that a job is through with stays so.                             *)
LEMMA ServedStays ==
  ASSUME SInv, SetupNext
  PROVE  /\ pc \in IBATLoop => \A k \in 1..(n - 1) : JobDone("ibat", Affinity[k])'
         /\ \A job \in {"nops", "sr"} :
              pc = job => \A k \in 1..(n - 1) : JobDone(job, Affinity[k])'
         /\ PastIBAT => \A c \in Cores : JobDone("ibat", c)'
         /\ PastNOPs => \A c \in Cores : JobDone("nops", c)'
         /\ PastSRs => \A c \in Cores : JobDone("sr", c)'
<1>1. \A k \in 1..(n - 1) : Affinity[k] \in Cores
  BY CoreIsCore, CoreFacts
<1>2. \A job \in Jobs : \A c \in Cores :
        (job = "sr" => PastNOPs) /\ JobDone(job, c) => JobDone(job, c)'
  BY DoneStays
<1>3. {"ibat", "nops", "sr"} = Jobs /\ (pc = "sr" => PastNOPs) /\ (PastSRs => PastNOPs)
  BY DEF Jobs, PastSRs, PastNOPs, PastIBAT
<1>. QED  BY <1>1, <1>2, <1>3 DEF SInv, ServedInv

LEMMA ServedStep ==
  ASSUME SInv, SetupNext
  PROVE  ServedInv'
<1>0. n \in Nat /\ n <= Len(Affinity) /\ Len(Affinity) \in Nat
  BY CoreIsCore, CoreFacts
<1>a. \A c \in Cores : \E k \in 1..Len(Affinity) : c = Affinity[k]
  BY DEF Cores
<1>1. CASE Registers \/ AllocPageTable \/ FreePageTable
  <2>1. /\ pc' \in IBATLoop => UNCHANGED <<pc, n>>
        /\ pc' \in {"nops", "sr"} => UNCHANGED <<pc, n>> \/ n' = 1
        /\ (PastIBAT' => PastIBAT) /\ (PastNOPs' => PastNOPs) /\ (PastSRs' => PastSRs)
    BY <1>1 DEF Registers, BackUpScratch, WriteSetupCode, PatchSyscall, RepairScratch,
       KernelReadSRs, KernelReadPTE, SetSegment, MapRegions, KernelWritePTE,
       MemoryMapping_CreateHeaps, KernelLoadsSegments, KernelMapsPage, Step,
       AllocPageTable, FreePageTable, IBATLoop, PastIBAT, PastNOPs, PastSRs
  <2>. QED  BY <2>1, ServedStays DEF ServedInv
<1>2. CASE IBATSteps
  <2>1. /\ ~PastNOPs' /\ ~PastSRs' /\ pc' \notin {"nops", "sr"}
    BY <1>2, IBATStepFrame DEF PastNOPs, PastSRs, PastIBAT, IBATLoop
  <2>2. CASE \/ AllocIBATThread \/ AllocIBATStack \/ CreateIBATThread \/ ResumeIBATThread
             \/ FreeIBATThread \/ IBATThreadRuns
    <3>1. /\ pc' \in IBATLoop => n' = 1 \/ (n' = n /\ pc \in IBATLoop)
          /\ PastIBAT' => PastIBAT
      BY <2>2 DEF AllocIBATThread, AllocIBATStack, CreateIBATThread, ResumeIBATThread,
         FreeIBATThread, IBATThreadRuns, Step, IBATLoop, PastIBAT
    <3>. QED  BY <2>1, <3>1, ServedStays DEF ServedInv
  <2>3. CASE SkipIBATLoop
    <3>1. \A c \in Cores : JobDone("ibat", c)'
      BY <2>3 DEF SkipIBATLoop, JobDone
    <3>2. pc' \notin IBATLoop
      BY <2>3 DEF SkipIBATLoop, Step, IBATLoop
    <3>. QED  BY <2>1, <3>1, <3>2 DEF ServedInv
  <2>4. CASE JoinIBATThread
    <3>1. PICK c \in Cores : c = core
      BY CoreIsCore
    <3>2. DoneOn("ibat", c)
      BY <2>4, <3>1 DEF JoinIBATThread, NextIBATCore, SInv, IBATThreadInv
    <3>3. JobDone("ibat", c)'
      BY <3>2, DoneStays DEF Jobs, JobDone
    <3>4. \A k \in 1..n : JobDone("ibat", Affinity[k])'
      <4>1. \A k \in 1..(n - 1) : JobDone("ibat", Affinity[k])'
        BY <2>4, ServedStays DEF JoinIBATThread, NextIBATCore, IBATLoop
      <4>. QED  BY <1>0, <3>1, <3>3, <4>1 DEF core
    <3>5. CASE n < Len(Affinity)
      <4>1. pc' \in IBATLoop /\ n' = n + 1 /\ ~PastIBAT'
        BY <2>4, <3>5 DEF JoinIBATThread, NextIBATCore, IBATLoop, PastIBAT
      <4>2. 1..(n' - 1) = 1..n
        BY <1>0, <4>1
      <4>. QED  BY <2>1, <3>4, <4>1, <4>2 DEF ServedInv
    <3>6. CASE ~(n < Len(Affinity))
      <4>1. pc' \notin IBATLoop /\ n = Len(Affinity)
        BY <1>0, <2>4, <3>6 DEF JoinIBATThread, NextIBATCore, IBATLoop
      <4>2. \A d \in Cores : JobDone("ibat", d)'
        BY <1>a, <3>4, <4>1
      <4>. QED  BY <2>1, <4>1, <4>2 DEF ServedInv
    <3>. QED  BY <3>5, <3>6
  <2>. QED  BY <1>2, <2>2, <2>3, <2>4 DEF IBATSteps
<1>3. ASSUME NEW job \in {"nops", "sr"}, CoreSteps(job)
      PROVE  ServedInv'
  <2>0. pc = job
    BY <1>3, CoreStepIsItsOwn
  <2>1. CASE pc' = pc /\ UNCHANGED n
    BY <2>0, <2>1, ServedStays DEF ServedInv, PastIBAT, PastNOPs, PastSRs
  <2>2. CASE stage[core] = "free_thread" /\ NextCore(job)
    <3>1. PICK c \in Cores : c = core
      BY CoreIsCore
    <3>2. JobDone(job, c)
      BY <1>3, <2>2, <3>1, CoreObjectStep
    <3>3. JobDone(job, c)'
      BY <2>0, <3>2, DoneStays DEF Jobs, PastNOPs, PastIBAT
    <3>4. \A k \in 1..n : JobDone(job, Affinity[k])'
      <4>1. \A k \in 1..(n - 1) : JobDone(job, Affinity[k])'
        BY <2>0, ServedStays
      <4>. QED  BY <1>0, <3>1, <3>3, <4>1 DEF core
    <3>5. CASE n < Len(Affinity)
      <4>1. pc' = job /\ n' = n + 1
        BY <2>0, <2>2, <3>5 DEF NextCore
      <4>2. 1..(n' - 1) = 1..n
        BY <1>0, <4>1
      <4>. QED
        BY <2>0, <3>4, <4>1, <4>2, ServedStays
        DEF ServedInv, IBATLoop, PastIBAT, PastNOPs, PastSRs
    <3>6. CASE ~(n < Len(Affinity))
      <4>1. pc' = AfterJob(job) /\ n = Len(Affinity)
        BY <1>0, <2>2, <3>6 DEF NextCore
      <4>2. \A d \in Cores : JobDone(job, d)'
        BY <1>a, <3>4, <4>1
      <4>. QED
        BY <2>0, <4>1, <4>2, ServedStays
        DEF AfterJob, ServedInv, IBATLoop, PastIBAT, PastNOPs, PastSRs
    <3>. QED  BY <3>5, <3>6
  <2>. QED  BY <1>3, <2>1, <2>2, CoreStepIsItsOwn
<1>. QED  BY <1>1, <1>2, <1>3, Kinds

LEMMA TableStep ==
  ASSUME SInv, SetupNext
  PROVE  TableInv'
<1> USE DEF TableInv, FaultOnlyWhenIncomplete
<1>0. TableInv /\ TypeInv
  BY DEF SInv
<1>1. CASE Registers
  <2>1. CASE BackUpScratch \/ WriteSetupCode \/ PatchSyscall \/ RepairScratch \/ KernelReadSRs
    BY <1>0, <2>1 DEF BackUpScratch, WriteSetupCode, PatchSyscall, RepairScratch,
       KernelReadSRs, Step, CopyInUse, table_vars, history_vars
  <2>2. CASE KernelReadPTE
    BY <1>0, <2>2 DEF KernelReadPTE, Step, CopyInUse, history_vars
  <2>3. CASE SetSegment
    BY <1>0, <2>3 DEF SetSegment, Step, CopyInUse, history_vars
  <2>4. CASE MapRegions
    <3>1. PICK much \in {"all", "some"} : pageTableCpy' = [pageTableCpy EXCEPT !.ours = much]
      BY <2>4 DEF MapRegions
    <3>2. pageTableCpy'.ours = much /\ pageTableCpy'.kernel = pageTableCpy.kernel
      BY <1>0, <3>1 DEF TypeInv, Tables
    <3>. QED  BY <1>0, <2>4, <3>2 DEF MapRegions, Step, CopyInUse, history_vars
  <2>5. CASE KernelWritePTE
    BY <1>0, <2>5 DEF KernelWritePTE, Step, CopyInUse, history_vars
  <2>6. CASE MemoryMapping_CreateHeaps
    <3>1. UNCHANGED <<srTableCpy, hw_table, pageTableCpy, skipped, kernel_mapped, overtaken>>
      BY <2>6 DEF MemoryMapping_CreateHeaps, table_vars, history_vars
    <3>2. pc = "create_heaps" /\ pc' = IF RegionsAccessible THEN "done" ELSE "fault"
      BY <2>6 DEF MemoryMapping_CreateHeaps
    <3>3. hw_table.ours \in {"some", "all"}
      BY <1>0, <3>2 DEF TypeInv, Tables
    <3>4. ~RegionsAccessible =>
            \/ hw_table.ours = "some"
            \/ <<"nops", MainCore>> \in skipped \/ <<"sr", MainCore>> \in skipped
      <4>1. PastSRs /\ MainCore \in Cores
        BY <3>2, CoreFacts DEF PastSRs, PastNOPs, PastIBAT
      <4>2. JobDone("sr", MainCore)
        BY <4>1 DEF SInv, ServedInv
      <4>. QED
        BY <3>3, <4>2 DEF RegionsAccessible, MemoryMapping_isMemoryMapped, JobDone, DoneOn
    <3>. QED  BY <1>0, <3>1, <3>2, <3>4 DEF CopyInUse
  <2>7. ASSUME NEW c \in Cores, KernelLoadsSegments(c)
        PROVE  TableInv'
    BY <1>0, <2>7 DEF KernelLoadsSegments, CopyInUse, table_vars, history_vars
  <2>8. ASSUME NEW p \in KernelPages, KernelMapsPage(p)
        PROVE  TableInv'
    <3>1. /\ hw_table'.kernel = hw_table.kernel \cup {p} /\ hw_table'.ours = hw_table.ours
          /\ UNCHANGED <<srTableCpy, pageTableCpy, skipped, pc>>
      BY <1>0, <2>8 DEF KernelMapsPage, TypeInv, Tables
    <3>2. /\ kernel_mapped' \ overtaken' \subseteq (kernel_mapped \ overtaken) \cup {p}
          /\ CopyInUse => kernel_mapped' \ overtaken' = kernel_mapped \ overtaken
      BY <2>8 DEF KernelMapsPage
    <3>. QED  BY <1>0, <3>1, <3>2 DEF CopyInUse
  <2>. QED  BY <1>1, <2>1, <2>2, <2>3, <2>4, <2>5, <2>6, <2>7, <2>8 DEF Registers
<1>2. CASE IBATSteps
  <2>1. pc' \in {"ibat_stack", "ibat_free", "repair"} \cup IBATLoop
    BY <1>2, IBATStepFrame
  <2>. QED  BY <1>0, <1>2, <2>1, IBATStepFrame DEF IBATLoop, CopyInUse, table_vars
<1>3. ASSUME NEW job \in {"nops", "sr"}, CoreSteps(job)
      PROVE  TableInv'
  <2>1. pc = job /\ pc' \in {job, AfterJob(job)}
    BY <1>3, CoreStepFrame, CoreStepIsItsOwn
  <2>. QED  BY <1>0, <1>3, <2>1, CoreStepFrame DEF AfterJob, CopyInUse, table_vars
<1>4. CASE AllocPageTable \/ FreePageTable
  BY <1>0, <1>4 DEF AllocPageTable, FreePageTable, Step, CopyInUse, table_vars, history_vars
<1>. QED  BY <1>1, <1>2, <1>3, <1>4, Kinds

LEMMA SetupBegins == SetupInit => SInv
<1> SUFFICES ASSUME SetupInit PROVE SInv
  OBVIOUS
<1> USE DEF SetupInit, ThreadInit
<1>0. 1 \in 1..Len(Affinity)
  BY CoreFacts DEF Cores
<1>1. TypeInv
  <2>1. NoTable \in Tables
    BY DEF NoTable, Tables
  <2>. QED  BY <1>0, <2>1 DEF TypeInv, SetupTypeOK, Steps, Stages, OSStates
<1>2. HeapInv /\ StageInv
  BY CoreFacts DEF HeapInv, HeapMatchesPointers, TableSteps, StageInv, IBATLoop
<1>3. ScratchInv /\ IBATThreadInv /\ CoreThreadInv
  BY <1>0, CoreFacts DEF ScratchInv, SetupCode, IBATLoop, IBATThreadInv, CoreThreadInv,
     Constructed, core
<1>4. ServedInv /\ TableInv
  BY DEF ServedInv, IBATLoop, PastIBAT, PastNOPs, PastSRs, TableInv, CopyInUse,
     FaultOnlyWhenIncomplete
<1>. QED  BY <1>1, <1>2, <1>3, <1>4 DEF SInv

LEMMA SetupStutters == SInv /\ UNCHANGED vars => SInv'
BY DEF vars, thread_vars, scratch_vars, core_vars, table_vars, history_vars, SInv, TypeInv,
   SetupTypeOK, HeapInv, HeapMatchesPointers, StageInv, ScratchInv, IBATThreadInv,
   CoreThreadInv, ServedInv, TableInv, FaultOnlyWhenIncomplete, CopyInUse, core, JobDone,
   DoneOn, PastIBAT, PastNOPs, PastSRs

(* The inductive invariant of the setup.                                   *)
THEOREM SInvHolds == SetupSpec => []SInv
<1>1. SInv /\ [SetupNext]_vars => SInv'
  BY TypeStep, HeapStep, StageStep, ScratchStep, IBATThreadStep, CoreThreadStep, ServedStep,
     TableStep, SetupStutters DEF SInv
<1>. QED  BY <1>1, SetupBegins, PTL DEF SetupSpec

(* Type correctness of the setup.                                          *)
THEOREM SetupTypeCorrect == SetupSpec => []SetupTypeOK
<1>1. SInv => SetupTypeOK
  BY DEF SInv, TypeInv
<1>. QED  BY <1>1, SInvHolds, PTL

(* System call 0x51 never enters memory that holds something else, and the *)
(* application gets that memory back.                                      *)
THEOREM SyscallIsSafe == SetupSpec => []SyscallFindsItsCode
<1>1. SInv => SyscallFindsItsCode
  <2> SUFFICES ASSUME SInv PROVE SyscallFindsItsCode
    OBVIOUS
  <2>1. ASSUME os[IBATThread] \in {"suspended", "ready"}
        PROVE  /\ syscall51 = "scratch" /\ scratch = "setup_code"
               /\ {OSThreadBlock(IBATThread), StackBlock(IBATThread)} \subseteq heap
    <3>1. pc \in {"ibat_resume", "ibat_join"}
      BY <2>1 DEF SInv, IBATThreadInv, IBATLoop
    <3>2. /\ pThread[IBATThread] /\ pThreadStack[IBATThread]
          /\ stage[IBATThread] = "create"
      BY <3>1 DEF SInv, IBATThreadInv, StageInv, IBATLoop
    <3>3. syscall51 = "scratch" /\ scratch = "setup_code"
      BY <3>1 DEF SInv, ScratchInv, SetupCode, IBATLoop
    <3>. QED  BY <3>2, <3>3, CoreFacts DEF SInv, HeapInv, HeapMatchesPointers
  <2>. QED  BY <2>1 DEF SyscallFindsItsCode, SInv, ScratchInv, SetupCode, IBATLoop
<1>. QED  BY <1>1, SInvHolds, PTL

(* A core lacks something only if its thread found no memory.              *)
THEOREM CoresAreServed == SetupSpec => []EveryCoreServed
<1>1. SInv => EveryCoreServed
  BY DEF SInv, ServedInv, JobDone, DoneOn, EveryCoreServed, MemoryMapping_isMemoryMapped
<1>. QED  BY <1>1, SInvHolds, PTL

(* The heaps are cleared without a fault, unless the setup gave up on      *)
(* something in silence.                                                   *)
THEOREM FaultsAreExplained == SetupSpec => []FaultOnlyWhenIncomplete
<1>1. SInv => FaultOnlyWhenIncomplete
  BY DEF SInv, TableInv
<1>. QED  BY <1>1, SInvHolds, PTL

(* Writing the table back loses no page but those mapped meanwhile.        *)
THEOREM KernelPagesAreKept == SetupSpec => []KernelPagesKept
<1>1. SInv => KernelPagesKept
  BY DEF SInv, TableInv, KernelPagesKept
<1>. QED  BY <1>1, SInvHolds, PTL

(* Nothing is left on the default heap, whichever allocations failed.      *)
THEOREM DefaultHeapIsClean == SetupSpec => []DefaultHeapCleanAfterwards
<1>1. SInv => DefaultHeapCleanAfterwards
  <2> SUFFICES ASSUME SInv, pc \in {"done", "fault"} PROVE heap = {}
    BY DEF DefaultHeapCleanAfterwards
  <2>1. \A t \in Threads : stage[t] = "none"
    BY CoresAssumption DEF SInv, StageInv, IBATLoop
  <2>2. \A t \in Threads : OSThreadBlock(t) \notin heap /\ StackBlock(t) \notin heap
    BY <2>1 DEF SInv, HeapInv, HeapMatchesPointers
  <2>3. TableBlock \notin heap
    BY DEF SInv, HeapInv, TableSteps
  <2>4. heap \subseteq (Threads \X {"OSThread", "stack"}) \cup {TableBlock}
    BY DEF SInv, TypeInv, SetupTypeOK
  <2>5. \A t \in Threads : \A kind \in {"OSThread", "stack"} : <<t, kind>> \notin heap
    BY <2>2 DEF OSThreadBlock, StackBlock
  <2>6. ASSUME NEW b \in Threads \X {"OSThread", "stack"} PROVE b \notin heap
    <3>1. b = <<b[1], b[2]>> /\ b[1] \in Threads /\ b[2] \in {"OSThread", "stack"}
      OBVIOUS
    <3>. QED  BY <2>5, <3>1
  <2>. QED  BY <2>3, <2>4, <2>6
<1>. QED  BY <1>1, SInvHolds, PTL
=============================================================================
