----------------------------- MODULE CoreSetup ------------------------------
(***************************************************************************)
(* MemoryMapping_setupMemoryMapping and MemoryMapping_CreateHeaps: the     *)
(* main thread gives every core access to the kernel's memory, patches the *)
(* kernel's writes to segment register 8 out, points that register at our  *)
(* segment on every core, adds our pages to a copy of the page table,      *)
(* writes the copy back and clears the mapped regions.                     *)
(*                                                                         *)
(* What has to happen on a core runs in a CThread bound to it (module      *)
(* CThread, one object per core); SetupIBAT4DBAT5OnAllCores uses one       *)
(* OSThread of its own, the object IBATThread here, three times.           *)
(*                                                                         *)
(* External: the kernel, which reloads the segment registers of a core     *)
(* and enters pages of its own into the page table when it likes, and what *)
(* its system calls do to its memory.                                      *)
(***************************************************************************)
EXTENDS CThread, Sequences

CONSTANTS
  Affinity,      \* the cores in the order of the array "aff"
  MainCore,      \* the core the setup itself runs on
  IBATThread,    \* the OSThread of SetupIBAT4DBAT5OnAllCores
  KernelPages    \* pages the kernel may map meanwhile

VARIABLES
  pc,            \* the next step of the main thread
  n,             \* index into aff
  scratch,       \* what is at TARGET_ADDRESS_EXECUTABLE_MEM
  backupBuffer,  \* the copy of it on the main thread's stack
  syscall51,     \* the handler of system call 0x51
  bat,           \* cores that see 0x00800000-0x01000000
  nops,          \* cores on which the kernel leaves SR[8] alone
  sr8,           \* SR[8] of each core
  srTableCpy,    \* SR[8] in the copy of the segment registers
  hw_table,      \* the page table: pages of the kernel, how much of ours
  pageTableCpy,  \* our copy of it
  skipped,       \* the jobs that found no memory, with their core
  kernel_mapped, \* every page the kernel has mapped ...
  overtaken      \* ... and those it mapped while we worked on the copy

scratch_vars == <<scratch, backupBuffer, syscall51>>
core_vars == <<bat, nops, sr8>>
table_vars == <<srTableCpy, hw_table, pageTableCpy>>
history_vars == <<skipped, kernel_mapped, overtaken>>
vars == <<thread_vars, pc, n, scratch_vars, core_vars, table_vars, history_vars>>

Cores == {Affinity[k] : k \in 1..Len(Affinity)}
Jobs == {"ibat", "nops", "sr"}

ASSUME CoresAssumption ==
  /\ Affinity \in Seq(Threads)
  /\ MainCore \in Cores /\ IBATThread \notin Cores
  /\ Threads = Cores \cup {IBATThread} /\ Detached = {}

NoTable == [kernel |-> {}, ours |-> "none"]
TableBlock == <<IBATThread, "pageTableCpy">>

core == Affinity[n]

(* The main thread goes from step a to step b.                             *)
Step(a, b) == pc = a /\ pc' = b

-----------------------------------------------------------------------------
(* SetupIBAT4DBAT5OnAllCores.  Definitions named ...Slip are not the code: *)
(* each is the definition after it with a slip in it, to see that the      *)
(* properties notice.                                                      *)

BackUpScratch ==
  /\ Step("backup", "write_code")
  /\ backupBuffer' = scratch
  /\ UNCHANGED <<thread_vars, n, scratch, syscall51, core_vars, table_vars, history_vars>>

WriteSetupCode ==
  /\ Step("write_code", "patch_syscall")
  /\ scratch' = "setup_code"
  /\ UNCHANGED <<thread_vars, n, backupBuffer, syscall51, core_vars, table_vars,
                 history_vars>>

PatchSyscall ==
  /\ Step("patch_syscall", "ibat_thread")
  /\ syscall51' = "scratch"
  /\ UNCHANGED <<thread_vars, n, scratch, backupBuffer, core_vars, table_vars, history_vars>>

AllocIBATThread ==
  /\ Step("ibat_thread", "ibat_stack")
  /\ AllocThread(IBATThread)
  /\ UNCHANGED <<n, scratch_vars, core_vars, table_vars, history_vars>>

AllocIBATStack ==
  /\ Step("ibat_stack", "ibat_loop")
  /\ AllocStack(IBATThread)
  /\ n' = 1
  /\ UNCHANGED <<scratch_vars, core_vars, table_vars, history_vars>>

SetIBATThread(state) ==
  /\ os' = [os EXCEPT ![IBATThread] = state]
  /\ UNCHANGED <<stage, pThread, pThreadStack, heap, ran>>

(* if (pThread && pThreadStack): *pThread = {} and OSCreateThread.         *)
CreateIBATThread ==
  /\ Step("ibat_loop", "ibat_resume")
  /\ pThread[IBATThread] /\ pThreadStack[IBATThread]
  /\ SetIBATThread("suspended")
  /\ UNCHANGED <<n, scratch_vars, core_vars, table_vars, history_vars>>

SkipIBATLoop ==
  /\ Step("ibat_loop", "ibat_free")
  /\ ~(pThread[IBATThread] /\ pThreadStack[IBATThread])
  /\ Leave(IBATThread, "free_stack")
  /\ skipped' = skipped \cup ({"ibat"} \X Cores)
  /\ UNCHANGED <<n, scratch_vars, core_vars, table_vars, kernel_mapped, overtaken>>

NoResumeSlip ==
  /\ Step("ibat_resume", "ibat_join")
  /\ UNCHANGED <<thread_vars, n, scratch_vars, core_vars, table_vars, history_vars>>

(* OSResumeThread, again while the thread is suspended: once is enough.    *)
ResumeIBATThread ==
  /\ Step("ibat_resume", "ibat_join")
  /\ SetIBATThread("ready")
  /\ UNCHANGED <<n, scratch_vars, core_vars, table_vars, history_vars>>

(* The thread, bound to core aff[n]: "sc" enters the handler of system     *)
(* call 0x51, which sets the BATs.                                         *)
IBATThreadRuns ==
  /\ os[IBATThread] = "ready"
  /\ SetIBATThread("terminated")
  /\ bat' = IF syscall51 = "scratch" /\ scratch = "setup_code"
              THEN bat \cup {core} ELSE bat
  /\ UNCHANGED <<pc, n, scratch_vars, nops, sr8, table_vars, history_vars>>

NextIBATCore ==
  /\ pc = "ibat_join"
  /\ IF n < Len(Affinity)
       THEN pc' = "ibat_loop" /\ n' = n + 1 /\ UNCHANGED thread_vars
       ELSE pc' = "ibat_free" /\ UNCHANGED n /\ Leave(IBATThread, "free_stack")
  /\ UNCHANGED <<scratch_vars, core_vars, table_vars, history_vars>>

JoinIBATThread == os[IBATThread] = "terminated" /\ NextIBATCore

(* Both blocks are freed; the contents of the scratch memory go back.      *)
FreeIBATThread ==
  /\ pc = "ibat_free"
  /\ \/ FreeStack(IBATThread) /\ UNCHANGED pc
     \/ FreeThread(IBATThread) /\ pc' = "repair"
  /\ UNCHANGED <<n, scratch_vars, core_vars, table_vars, history_vars>>

RepairScratch ==
  /\ Step("repair", "nops")
  /\ scratch' = backupBuffer
  /\ n' = 1
  /\ UNCHANGED <<thread_vars, backupBuffer, syscall51, core_vars, table_vars, history_vars>>

SetupIBAT4DBAT5OnAllCores ==
  \/ BackUpScratch \/ WriteSetupCode \/ PatchSyscall
  \/ AllocIBATThread \/ AllocIBATStack
  \/ CreateIBATThread \/ SkipIBATLoop \/ ResumeIBATThread \/ JoinIBATThread
  \/ FreeIBATThread \/ RepairScratch

-----------------------------------------------------------------------------
(* runOnAllCores(callback): at pc = job the loop over aff is under way.    *)

AfterJob(job) == IF job = "nops" THEN "alloc_table" ELSE "map"

Construct(job) ==
  /\ pc = job
  /\ Constructor(core)
  /\ skipped' = IF stage[core] = "create" /\ ~(pThread[core] /\ pThreadStack[core])
                  THEN skipped \cup {<<job, core>>} ELSE skipped
  /\ UNCHANGED <<pc, n, scratch_vars, core_vars, table_vars, kernel_mapped, overtaken>>

(* thread.resumeThread(), then the end of the scope.                       *)
ResumeAndLeave(job) ==
  /\ pc = job
  /\ IF os[core] = "suspended" THEN resumeThread(core) ELSE shutdownThread(core)
  /\ UNCHANGED <<pc, n, scratch_vars, core_vars, table_vars, history_vars>>

OneCoreMoreSlip(job) ==
  IF n <= Len(Affinity) THEN n' = n + 1 /\ UNCHANGED pc
                        ELSE UNCHANGED n /\ pc' = AfterJob(job)

NextCore(job) ==
  IF n < Len(Affinity) THEN n' = n + 1 /\ UNCHANGED pc
                       ELSE UNCHANGED n /\ pc' = AfterJob(job)

Destruct(job) ==
  /\ pc = job
  /\ Destructor(core)
  /\ IF stage[core] = "free_thread" THEN NextCore(job) ELSE UNCHANGED <<pc, n>>
  /\ UNCHANGED <<scratch_vars, core_vars, table_vars, history_vars>>

runOnAllCores(job) == Construct(job) \/ ResumeAndLeave(job) \/ Destruct(job)

MainCoreOnlySlip(c) ==
  /\ pc = "nops" /\ threadCallback(c)
  /\ nops' = nops \cup {MainCore}
  /\ UNCHANGED <<pc, n, scratch_vars, bat, sr8, table_vars, history_vars>>

(* The callbacks.                                                          *)
writeKernelNOPs(c) ==
  /\ pc = "nops" /\ threadCallback(c)
  /\ nops' = nops \cup {c}
  /\ UNCHANGED <<pc, n, scratch_vars, bat, sr8, table_vars, history_vars>>

writeSegmentRegister(c) ==
  /\ pc = "sr" /\ threadCallback(c)
  /\ sr8' = [sr8 EXCEPT ![c] = srTableCpy]
  /\ UNCHANGED <<pc, n, scratch_vars, bat, nops, table_vars, history_vars>>

-----------------------------------------------------------------------------
(* The rest of MemoryMapping_setupMemoryMapping.                           *)

AllocPageTable ==
  /\ pc = "alloc_table"
  /\ \/ pc' = "read_sr" /\ heap' = heap \cup {TableBlock}
     \/ pc' = "fatal" /\ UNCHANGED heap                      \* OSFatal
  /\ UNCHANGED <<stage, pThread, pThreadStack, os, ran, n, scratch_vars, core_vars,
                 table_vars, history_vars>>

KernelReadSRs ==
  /\ Step("read_sr", "read_pte")
  /\ srTableCpy' = sr8[MainCore]
  /\ UNCHANGED <<thread_vars, n, scratch_vars, core_vars, hw_table, pageTableCpy,
                 history_vars>>

EmptyCopySlip ==
  /\ Step("read_pte", "set_segment")
  /\ pageTableCpy' = NoTable
  /\ UNCHANGED <<thread_vars, n, scratch_vars, core_vars, srTableCpy, hw_table,
                 history_vars>>

KernelReadPTE ==
  /\ Step("read_pte", "set_segment")
  /\ pageTableCpy' = hw_table
  /\ UNCHANGED <<thread_vars, n, scratch_vars, core_vars, srTableCpy, hw_table,
                 history_vars>>

SegmentForgottenSlip ==
  /\ Step("set_segment", "sr")
  /\ n' = 1
  /\ UNCHANGED <<thread_vars, scratch_vars, core_vars, table_vars, history_vars>>

(* srTableCpy.value[segment_index] = segment_content                       *)
SetSegment ==
  /\ Step("set_segment", "sr")
  /\ srTableCpy' = "ours"
  /\ n' = 1
  /\ UNCHANGED <<thread_vars, scratch_vars, core_vars, hw_table, pageTableCpy,
                 history_vars>>

(* memoryMappingForRegions (module PageTable) puts all pages into the copy *)
(* or gives up on the way, and does not tell.                              *)
MapRegions ==
  /\ Step("map", "write_pte")
  /\ \E much \in {"all", "some"} : pageTableCpy' = [pageTableCpy EXCEPT !.ours = much]
  /\ UNCHANGED <<thread_vars, n, scratch_vars, core_vars, srTableCpy, hw_table,
                 history_vars>>

KernelWritePTE ==
  /\ Step("write_pte", "free_table")
  /\ hw_table' = pageTableCpy
  /\ UNCHANGED <<thread_vars, n, scratch_vars, core_vars, srTableCpy, pageTableCpy,
                 history_vars>>

TableKeptSlip ==
  /\ Step("free_table", "create_heaps")
  /\ pageTableCpy' = NoTable
  /\ UNCHANGED <<thread_vars, n, scratch_vars, core_vars, srTableCpy, hw_table,
                 history_vars>>

(* The copy is cleared and freed.                                          *)
FreePageTable ==
  /\ Step("free_table", "create_heaps")
  /\ heap' = heap \ {TableBlock}
  /\ pageTableCpy' = NoTable
  /\ UNCHANGED <<stage, pThread, pThreadStack, os, ran, n, scratch_vars, core_vars,
                 srTableCpy, hw_table, history_vars>>

(* What MemoryMapping_isMemoryMapped says when called on core c.           *)
MemoryMapping_isMemoryMapped(c) == sr8[c] = "ours"

(* MemoryMapping_CreateHeaps clears every region before anything else; a   *)
(* page that the main thread's core cannot translate ends it there.        *)
RegionsAccessible == MemoryMapping_isMemoryMapped(MainCore) /\ hw_table.ours = "all"

MemoryMapping_CreateHeaps ==
  /\ pc = "create_heaps"
  /\ pc' = IF RegionsAccessible THEN "done" ELSE "fault"
  /\ UNCHANGED <<thread_vars, n, scratch_vars, core_vars, table_vars, history_vars>>

MainThread ==
  \/ SetupIBAT4DBAT5OnAllCores
  \/ \E job \in {"nops", "sr"} : runOnAllCores(job)
  \/ AllocPageTable \/ KernelReadSRs \/ KernelReadPTE \/ SetSegment
  \/ MapRegions \/ KernelWritePTE \/ FreePageTable
  \/ MemoryMapping_CreateHeaps

-----------------------------------------------------------------------------
(* The kernel.                                                             *)

(* A switch of address space reloads the segment registers of a core,      *)
(* unless the store to SR[8] has been replaced by a nop there.             *)
KernelLoadsSegments(c) ==
  /\ sr8[c] = "ours" /\ c \notin nops
  /\ sr8' = [sr8 EXCEPT ![c] = "kernel"]
  /\ UNCHANGED <<thread_vars, pc, n, scratch_vars, bat, nops, table_vars, history_vars>>

(* Between KernelReadPTE and KernelWritePTE.                               *)
CopyInUse == pc \in {"set_segment", "sr", "map", "write_pte"}

KernelMapsPage(p) ==
  /\ p \notin kernel_mapped
  /\ hw_table' = [hw_table EXCEPT !.kernel = @ \cup {p}]
  /\ kernel_mapped' = kernel_mapped \cup {p}
  /\ overtaken' = IF CopyInUse THEN overtaken \cup {p} ELSE overtaken
  /\ UNCHANGED <<thread_vars, pc, n, scratch_vars, core_vars, srTableCpy, pageTableCpy,
                 skipped>>

SetupInit ==
  /\ ThreadInit
  /\ pc = "backup" /\ n = 1
  /\ scratch = "app" /\ backupBuffer = "none" /\ syscall51 = "kernel"
  /\ bat = {} /\ nops = {} /\ sr8 = [c \in Cores |-> "kernel"]
  /\ srTableCpy = "none" /\ hw_table = NoTable /\ pageTableCpy = NoTable
  /\ skipped = {} /\ kernel_mapped = {} /\ overtaken = {}

SetupNext ==
  \/ MainThread
  \/ IBATThreadRuns
  \/ \E c \in Cores : writeKernelNOPs(c) \/ writeSegmentRegister(c)
  \/ \E c \in Cores : KernelLoadsSegments(c)
  \/ \E p \in KernelPages : KernelMapsPage(p)

(* Every thread that can go on is scheduled: the cores run the threads     *)
(* bound to them while the main thread waits in OSJoinThread.  Nothing is  *)
(* assumed of the kernel, nor of a join of a thread that was never created.*)
SetupFairness ==
  /\ WF_vars(MainThread /\ (pc \in Jobs => os[core] # "garbage"))
  /\ WF_vars(IBATThreadRuns)
  /\ WF_vars(\E c \in Cores : writeKernelNOPs(c) \/ writeSegmentRegister(c))

SetupSpec == SetupInit /\ [][SetupNext]_vars /\ SetupFairness

-----------------------------------------------------------------------------
(* Properties.                                                             *)

SetupTypeOK ==
  /\ stage \in [Threads -> Stages]
  /\ os \in [Threads -> OSStates]
  /\ heap \subseteq (Threads \X {"OSThread", "stack"}) \cup {TableBlock}
  /\ n \in 1..Len(Affinity)
  /\ scratch \in {"app", "setup_code"} /\ syscall51 \in {"kernel", "scratch"}
  /\ bat \subseteq Cores /\ nops \subseteq Cores
  /\ sr8 \in [Cores -> {"kernel", "ours"}]
  /\ skipped \subseteq Jobs \X Cores

(* While a thread is about to make system call 0x51, its handler and the   *)
(* code of the call are in place in the scratch memory, and the thread has *)
(* the memory it runs on; before the next stage of the setup the scratch   *)
(* memory holds again what the application had there.                      *)
SyscallFindsItsCode ==
  /\ os[IBATThread] \in {"suspended", "ready"} =>
       /\ syscall51 = "scratch" /\ scratch = "setup_code"
       /\ {OSThreadBlock(IBATThread), StackBlock(IBATThread)} \subseteq heap
  /\ scratch = "setup_code" =>
       pc \in {"patch_syscall", "ibat_thread", "ibat_stack", "ibat_loop",
               "ibat_resume", "ibat_join", "ibat_free", "repair"}

PastIBAT == pc \notin {"backup", "write_code", "patch_syscall", "ibat_thread",
                       "ibat_stack", "ibat_loop", "ibat_resume", "ibat_join"}
PastNOPs == PastIBAT /\ pc \notin {"ibat_free", "repair", "nops"}
PastSRs  == PastNOPs /\ pc \notin {"alloc_table", "fatal", "read_sr", "read_pte",
                                   "set_segment", "sr"}

(* "We want to run this on all 3 cores": a core goes without its BATs, its *)
(* patches or our segment only if there was no memory for its thread, and  *)
(* no reload of the segment registers takes the segment away again from a  *)
(* core that was patched.                                                  *)
EveryCoreServed ==
  \A c \in Cores :
    /\ PastIBAT /\ <<"ibat", c>> \notin skipped => c \in bat
    /\ PastNOPs /\ <<"nops", c>> \notin skipped => c \in nops
    /\ PastSRs /\ <<"nops", c>> \notin skipped /\ <<"sr", c>> \notin skipped
         => MemoryMapping_isMemoryMapped(c)

(* Clearing the regions faults only after memoryMappingForRegions gave up, *)
(* or when the core it runs on was left out of one of the two jobs.        *)
FaultOnlyWhenIncomplete ==
  pc = "fault" =>
    \/ hw_table.ours = "some"
    \/ <<"nops", MainCore>> \in skipped \/ <<"sr", MainCore>> \in skipped

(* A page the kernel mapped is lost from the page table only if it did so  *)
(* while we held the copy of the table.                                    *)
KernelPagesKept == kernel_mapped \ overtaken \subseteq hw_table.kernel

(* "Make sure to clean up the memory after using it": whatever allocation  *)
(* failed, the default heap is as it was when the setup is over.           *)
DefaultHeapCleanAfterwards == pc \in {"done", "fault"} => heap = {}

(* The setup ends, unless it waits for an OSThread that was never created  *)
(* because there was no memory for its stack.                              *)
SetupReturns == <>(pc \in {"done", "fatal", "fault"} \/ \E c \in Cores : os[c] = "garbage")

(* "Writing the segment registers to ALL cores."                           *)
SegmentOnAllCores == PastSRs => \A c \in Cores : MemoryMapping_isMemoryMapped(c)
=============================================================================
