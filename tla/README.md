# Verification of MemoryMappingModule

MemoryMappingModule is a Wii U system module that makes about 63 MB of memory
available to applications: it adds pages to the page table of the PowerPC
processor behind the operating system's back, creates heaps in them, offers an
allocator over these heaps, and patches the kernel so that it accepts the
addresses. This directory holds TLA+ models of its code, the TLC runs that
check them and the theorems TLAPS proves about them. `PROJECT.json` lists the
components, the runs, the mutants of each property, the source lines of every
definition, the findings, the hazards and the theorems.

## The system

| component | state | operations | interacts with | correct if |
|---|---|---|---|---|
| **Address map** (`memory_mapping.h`, end of `memory_mapping.cpp`) | constant tables: regions of effective addresses, each made of chunks of physical memory | `MemoryMapping_EffectiveToPhysical`, `MemoryMapping_PhysicalToEffective` | the page table holds the same relation; the kernel patches and applications ask it | the two translations and the page table agree on every page |
| **Page table** (`memory_mapping.cpp` 447-482, 802-1120) | a copy of the hashed page table of the hardware | `memoryMappingForRegions`, `mapMemory`; readers `getPageEntryForAddress(Ex)`, `getAreaSizeFromPageTable`, `printPageTableTranslation` | filled by the core setup; shared with the kernel's own entries | every page is found where it belongs and nothing else changes, in a congested table and after a failure too |
| **CThread** (`CThread.h`) | an OSThread and a stack on the default heap | constructor, `suspendThread`, `resumeThread`, the callback, `shutdownThread` | used by the core setup, once per core and job | nothing is freed while the thread may run, nothing is left over, the callback runs once |
| **Core setup** (`memory_mapping.cpp` 17-216, 484-559) | scratch code, system call 0x51, BATs, kernel patches, segment registers, the copy of the page table | `setupMemoryMapping`, `SetupIBAT4DBAT5OnAllCores`, `runOnAllCores` | CThread, page table, kernel, default heap | every core is served or known to be skipped, the kernel's pages and the default heap survive, it ends |
| **Heap check** (`memory_mapping.cpp` 594-676) | a walk over the used and the free list of a heap | `CheckMemExpHeap`, `MemoryMapping_checkHeaps` | threads that use the heap, its lock | it ends with the right verdict on any memory |
| **Heaps** (`memory_mapping.cpp` 561-592, 678-800) | one expanded heap per region | `allocEx`, `free`, size queries, `CreateHeaps`, `DestroyHeaps`, `MEMFindContainHeap` | any number of threads, the heap functions of the system | a block belongs to one owner and goes back to its heap |
| **Kernel patches** (`function_replacements.cpp`) | installed replacements | the kernel's and the loader's address checks | address map, heaps | they say yes for our memory and what they said before for the rest |
| **Module lifecycle** (`main.cpp`, `globals.c`) | the one-time flag, the allocation functions | `WUMS_INITIALIZE`, hooks of applications | everything above | each part is ready before it is used |
| **Memory tests**, **Logging** | none | developer aids (calls commented out), output | - | not modelled: nothing depends on them |

What is hard here: the setup runs while the kernel uses the same page table and
segment registers; work is spread over three cores by threads whose creation
may fail one allocation at a time; the hashed page table behaves differently
when it is congested; the heap check reads memory that may be corrupt while
other threads change it; and most failures are silent. There are no tests in
the repository. `PROJECT.json` ("hazards") lists these points by source line.

## Modules

Addresses are counted in pages of 0x20000 bytes throughout: all bounds of the
tables are multiples of it, so the offset in a page carries over.

* **`AddressMap`** - the tables as constants, with the assumptions the real ones
  satisfy (no overlap of regions, of chunks or with the BAT window; chunks fill
  their region), the two software translations, and the sets of pages that the other
  modules speak of (`FirstPages`: what has been mapped when the mapping stops).
* **`PageTable`** - one action per outcome of the loop body of `mapMemory`
  (`MapPagePrimary`, `MapPageSecondary`, `MapPageFails`) and per step of the two
  loops around it; `region`, `chunk`, `offset` are the loop counters,
  `translation_table` is the copy being filled, `status` = "failed" is the early
  return that nobody is told of. The readers are operators on the same table.
  The hash functions are constants.
  Of an entry's second word only the page number is kept: its other bits are
  the same for all of ours.
* **`OrderedMapping`** - what `PageTable` promises those who use the memory: page after
  page of the regions, in the order of the tables, comes to be translated and stays so;
  it may give up before the last page, and succeeds only after it.
* **`PageHash`** - the hash functions of the code, with the bit widths as
  parameters. (`getPageEntryForAddress` passes all of SDR1 where a mask is
  meant at line 862. A primary hash has 19 bits and the nine bits above the low
  ten of the mask are HTABMASK, so the group is the same as long as the reserved
  bits of SDR1 are 0, and the model has one function.)
* **`PageReport`** - `printPageTableTranslation`, the loop body as an operator
  (`VisitPage`) and the loops as a recursion over the pages in address order
  (`Reading`).
* **`CThread`** - `stage` is where the owner of an object is between the two
  braces of its scope, `os` what the OSThread is to the system. Each allocation
  fails or not on its own. An OSThread that was allocated but never created
  ("garbage") may look suspended or not.
* **`CThreadQuery`** - the query `isThreadRunning`, added to `CThread`.
* **`CoreSetup`** - `setupMemoryMapping` and the clearing of the regions in
  `CreateHeaps`, step by step (`pc`), composed with `CThread` (one object per
  core; the OSThread of `SetupIBAT4DBAT5OnAllCores` is another one, created
  three times) and with a kernel that reloads segment registers and maps pages
  of its own whenever it likes. The page table is abstracted to what this level
  tells apart: the kernel's pages and whether ours are all there; `MapRegions` is
  what the runs of `PageTable` end with, "mapped" or "failed". `isMemoryMapped`
  asks what it asks in the code: whether the core's segment register is ours.
* **`HeapCheck`** - `CheckMemExpHeap` on memory that may hold anything; `Mutate`
  and `Mend` are a thread in one of the heap functions, which take the heap's
  lock: `UserHeaps` are the memories such a function may leave when it gives the lock
  back, `TornHeaps` those on its way. Blocks, sizes and sums have a word size as parameter and wrap.
* **`HeapShape`** - the definition of an intact heap, without a walk: two chains of
  blocks that are linked both ways, fit, and fill the heap modulo 2^32
  (`UsersLeaveItIntact`: every member of `UserHeaps` is one).
* **`Heaps`** - any number of threads in `allocEx` (`alloc` and `allocVideoMemory`
  are its two calls), `free`, the two size queries, and
  `MEMFindContainHeap`. `op` is the function a thread is in, `idx` its loop
  counter; a step is one round of the loop, that is one heap under its own lock,
  since the mutex around the loops is commented out in the code. Sizes are
  rounded up modulo `AddressSpace`, as 32-bit sums are. `CreateHeaps` is the
  initial state.
* **`Allocator`** - what `Heaps` promises: one pool of memory, from which each call
  takes or gives back a block in a single step. An allocation may be refused only
  while the pool has no room for it, or if another thread has given a block back
  since the call began.
* **`KernelPatches`** - the eleven replacements as operators: `my_F` is what
  `DECL_FUNCTION(F)` defines, `real_F` the function of the kernel or the loader,
  and `F` what a caller gets: the former once `F` is in `patched`.
* **`ModuleLifecycle`** - the hooks of `main.cpp`. A step is a call to another part:
  the setup, the creation or the check of one heap, one patch. Of the setup it
  keeps what `PageTable` and `CoreSetup` leave open (any prefix of the pages
  mapped, any cores served); of a heap, whether there is one and which blocks are
  in use. Users allocate and free whenever the module is ready, while a hook runs
  too.
* **`...Proofs`** - theorems and proofs about the module named before it.
* **`MC...`** - instances for TLC.

Definitions named `...Slip` are the mutants: the definition after them with a
plausible mistake. No specification uses them.

## Runs

| run | shows | instance |
|---|---|---|
| `small` | the inductive invariant of the mapping, its types included; that it implements `OrderedMapping`; pages placed so far, and only they, translate, to where the software translations say; the kernel's translations are untouched; `getAreaSizeFromPageTable` never reports more than is mapped; the report of `printPageTableTranslation` is right and misses none of our pages that the primary hash finds | five pages in two regions, one of two chunks; two groups of four entries; every slot free, valid or stale at the start (6561 tables), so that primary, secondary and failing placements all happen |
| `real` | the real tables and hash widths satisfy the assumptions of the proofs; all 505 pages are placed in an empty table, each alone in its primary group | the values of `memory_mapping.h` |
| `thread` | what each stage of an object knows of its memory and its thread; memory kept while the thread may run, default heap clean, callback once, the destructor returns | three objects, one of them detached, created and destroyed again and again |
| `setup` | scratch code is in place when system call 0x51 is made and given back; a core is without BATs, patches or segment only if its thread found no memory; the clearing of the heaps faults only after a silent failure; the kernel's pages survive unless mapped while we hold the copy; the default heap is clean; the setup ends | three cores, any allocation failing, one page of the kernel, reloads at any time |
| `heapcheck` | the verdict equals the definition in `HeapShape`, no block is accepted twice, the walk ends, no false alarm on a heap in use | two blocks in a heap of five units, words of four bits: every way to link the lists, sizes that fit, overlap or wrap; one thread using an intact heap |
| `heaps` | every block has one owner or is on its way back to its heap; an allocation fails only for want of room or after another thread's free; the size queries err only as far as others allocate or free meanwhile; `MEMFindContainHeap` names the heap a block came from; the heaps implement the pool of `Allocator` | two threads; two contiguous heaps and one in video memory, each with room for one block of two or three units or for two of one; requests that are plain, rounded up and placed from the end, for video memory, and too large for 32 bits; pointers to the ends of regions given back (217,423 states) |
| `lifecycle` | users' blocks survive every later `WUMS_INITIALIZE`; no heap is checked or searched before it exists; while one function after the other is patched, what the kernel translates is mapped and passes the checks, and the effective page it names for a physical one is a page of that same memory | two regions, one of two chunks; five pages of the kernel, among them an alias of one of its own, an alias of one of ours and a page of the window; a window of the BATs, two cores, one block per heap; each step may fail or be done in part |
| `slot0`, `taken`, `threadquery`, `setupAllCores`, `heapinside` | the findings below | the instances above |

Bounds. The small page table is congested on purpose: with four entries per
group three are tried, and five pages meet tables with any number of free
slots, so each loop of `mapMemory` runs with no, one and several free slots. Real
groups have eight entries; the proofs hold for any number from two on. In the
heap check two blocks are enough for a list that is empty, has one or two
elements, and runs into itself or into the other list; the proof covers any number.
In `heaps`, two threads are what it takes for a heap to change behind a loop, and
three heaps for a loop that has passed one and not reached another; a heap holds at
most two blocks, so that it is full, half full and fragmented. In `lifecycle` two
regions are what it takes for the first heap to exist without the second, and two
cores for a main core that is left out and one that is not; one alias of each kind is
enough to have the kernel asked first and answer for a page of ours.

Fairness. `CThread`: an owner in a constructor or destructor goes on, and the
scheduler runs a thread that is ready (its callbacks end: they write registers).
`CoreSetup`: the main thread goes on and so does a thread on its core; nothing is
assumed of the kernel, and a join of an OSThread that was never created may wait
for ever. `Heaps` and `ModuleLifecycle`: none, only safety is claimed of them.
`HeapCheck`: the check goes on, a thread in a heap function gives the
lock back, and the check is not starved by the spin lock: strong fairness, since
the lock is free again and again (the lock is the system's; this is assumed).

`CHECK_DEADLOCK FALSE` is set where the modelled function ends and nothing goes
on, where a thread may wait for one that was never created, and in `lifecycle`,
since `OSFatal` and a fault end the system.

### The mapping as a list of pages

`PageTable` refines `OrderedMapping` (property `MappingPromise`, also a theorem). `mapped`
is the set of pages of the regions that some entry of the table answers for, as a
function of the table alone: the loop counters are not looked at. A store into a group
is the step that maps a page; the steps of the two outer loops are not seen. That a
store makes one page visible, not none or two, and takes none away, is where the
hash functions and the kernel's entries come in; that it is the next page of the tables
is where the running sum of line 478 does.

### Heaps as one allocator

`Heaps` refines `Allocator` (property `AllocatorPromise`, also a theorem). The pool is
the union of the used lists; a call takes effect in the round of the loop that
decides its result: an allocation when a heap grants it, a failure when the last
heap has refused. A failure is not linearizable: between the refusals of
two heaps another thread may free a block in the first one. That is why the
promise excuses a refusal after another thread's free, and why `freedSince` is
part of both modules. Two kinds of requests are outside the promise (`Sound`): an
`align` of 0, which turns every size into 0, and sizes that wrap when they are
rounded up (`memory_mapping.cpp:577`); either may still get a block, of another size.

## Findings

1. `slot0`: the comment at `memory_mapping.cpp:1057` says the secondary group is
   used when "all 8 PTEs" are set; slot 0 is never tried (1068, 1097).
2. `taken`: 1072 says the first bit tells whether a slot is taken; the code
   compares the whole word with 0 (1074), so stale entries use up slots and
   mapping may fail.
3. `threadquery`: `CThread::isThreadRunning` calls itself (`CThread.h:101`).
4. `setupAllCores`: "Writing the segment registers to ALL cores" (529) leaves
   out, silently, a core whose thread found no memory.
5. `heapinside`: the bound of a block is a 32-bit sum that wraps (601).

Not a run: 123 calls `sSC0x51Buffer` the "Implementation of 0x51 syscall", but
127 registers the code before it, so that this buffer is never executed.

## Proofs

Everything below holds for every value of the constants that satisfies the named
assumptions of the modules; TLC evaluates these on every instance, the real
tables included.

* `AddressMapProofs`: in a table of disjoint regions and chunks the first match
  of the loops is the only one, hence `EffectiveToPhysicalOfCell` and
  `PhysicalToEffectiveOfCell`: page k of a chunk goes to page k of its physical
  range and back. Existence of a first match is by well-founded induction on the
  naturals, used for one fixed set.
* `PageTableProofs`: `IInvHolds`, for `IInv` = types, the cursor of the loops
  (`CursorInv`), every valid entry is the kernel's or a placed page's where its
  hash sends it (`EntriesSound`), every placed page has its entry
  (`EntriesComplete`). The properties alone are not inductive: that a search finds
  the right entry depends on all entries of the group. From `IInv` follow
  `PlacedTranslate` and `OnlyPlacedTranslate`; `ForeignKept` is about steps. They
  rest on `HashTellsPagesApart` (two pages of one VSID and API never share a
  group, so the first match is the only one of ours; true of the hash of the
  code, where only the page index distinguishes them) and on `UniqueSegmentId`,
  the code's own "Unique ID. Chosen arbitrary.": no valid entry of the kernel
  uses our VSID. `TypeCorrect` is its type part. `AreaSizeIsTrue` is about reading:
  it holds of every table and needs no invariant, only that our segment is not one
  of direct access (`OwnSegmentIsMapped`, line 522) and ends before the address
  space does; without that the pages counted would not be those asked for.
  Two results are about how a mapping ends. `EntriesSpread` and `MappingNeverFails`
  have hypotheses of their own: the pages of the tables hash to distinct primary
  groups (`PagesSpread`), and in the table to start from each of these has an entry
  that `mapMemory` takes for free, and none of our VSID (`RoomForPages`). Their
  invariant `SpreadInv` says that a page still to be placed keeps that room, since no
  other page of ours goes to its group. Run `real` shows that the tables of
  `memory_mapping.h` satisfy the first one (each page is alone in its group at the
  end); the second one is a matter of what the kernel has mapped, and what happens
  without it is what run `small` and finding 2 are about. `FirstPagesHold` needs
  neither: wherever the mapping stops, the pages translated are the first ones in
  table order, and all of them if it did not fail. That is what `CoreSetup` and
  `ModuleLifecycle` keep of a page table. `MappingKeepsThePromise` is the refinement of
  `OrderedMapping`: from `IInv` the table answers for a page exactly when it has been
  placed, before and after a step (`TellsPlaced`), and the page at the cursor is the one
  whose predecessors in the tables are all there (`CursorPageIsNext`).
* `PageReportProofs`: `ReportHolds`. Its invariant is over the rounds of the loops, in
  any one state of the mapping (`ReadUpTo`): the open block ends at the page read
  last, every block is true, and each page of ours found so far is in a block that is
  saved or will be. The hypotheses say when the report is right, and each stands for
  something the code does not check: a block would be continued behind a segment of
  direct access (`SegmentsAreRead` excludes one), a block open at the end is not saved
  (`RegionsAreEnclosed`: behind the regions, in their segment, is a page of no region),
  and a block that begins at address 0 is neither saved nor closed at a gap
  (`KernelKeepsDistance`: the kernel maps, with our access, no physical page just before
  one of ours). The instance of run `small` satisfies them, as TLC evaluates
  (`MCReportAssumption`), with a page of the kernel at address 0.
* `CThreadProofs`: `ThreadInvHolds` for any number of objects; from it
  `KeepsItsMemory`, `HeapLeftClean` and `RunsOnce`. `ThreadInv` adds what the pointers
  and the heap, and the stage and the thread, have to do with each other.
* `HeapCheckProofs`: `NeverAcceptedTwice`. The invariant `WalkInv` says that each
  accepted block names an accepted block as its `prev`, but none names the last
  one; so a block that names the last one is new. The check of `prev` alone ends
  the walk; nothing is assumed of the memory. `CheckIsRight` and `NoFalseAlarmRaised`
  need to know how far the walk has come: `VerdictInv` adds that what was accepted is
  a chain of blocks from the head of the list, linked both ways and fitting
  (`WalkedChain`), that the used list was such a chain as a whole once the free list
  is walked, and that the total is the sum over both modulo 2^32 (`WalkIsChain`). A
  rejection is right because a list can be only one chain (`OneChain`), of which the
  walk's would be a beginning. The sum over a chain is a recursive function; the proof
  shows that it exists and what one more block adds to it (`TotalExists`,
  `TotalOfAppend`). What is said of a heap in use rests on `UsersAssumption` (the tag,
  read without the lock, is not written by the heap functions) and
  `UsersLeaveItIntact`; of a heap that nobody uses nothing is assumed.
* `CoreSetupProofs`: `SInvHolds`, for `SInv`, and from it all six safety properties of
  the run `setup`, for any cores in any order. `SInv` has a part for each
  thing the setup relies on: which object exists at which step (`StageInv`),
  what is in the scratch memory (`ScratchInv`), that a thread exists only with the
  memory for it and has served its core once it has ended (`IBATThreadInv`,
  `CoreThreadInv`), and which cores a job is through with (`ServedInv`). The last one
  makes `EveryCoreServed` inductive: a segment register that was set may be lost
  again to the kernel, on a core whose kernel was not patched and on no other, so
  "served" has to be said job by job and with that exception.
* `HeapsProofs`: `HInvHolds`, for `HInv` = types, blocks inside their heap
  (`BlocksInside`), a free that has not gone past its region (`FreePast`) and
  `FailureIsTruthful`: each round of the loop adds one heap to those that have no
  room unless somebody has freed. `FoundWhereAllocated` follows from it; relative to
  it `BlocksHaveOneOwner` and `AnswersAreBounded` are inductive, and each step maps to
  one of `Allocator` or to none (`HeapsKeepThePromise`). Cardinalities come in through
  the sizes: `AllocatableIsLargest` shows that the number of sizes that fit is the
  largest one.
* `LifecycleProofs`: `LInvHolds`, for `LInv` = types, the order of the steps before the
  first patch (`Order`), that `KiEffectiveToPhysical` is replaced before the two
  functions that name effective pages (`TranslatorFirst`), and that a heap once made
  lies in mapped pages (`MadeInv`): from the fault that a missing page makes of
  `CreateHeap` follows that nothing is patched over an incomplete table.
  `NamesTheSamePage` rests on `TranslatorFirst` and on the theorems of
  `AddressMapProofs`. It does not say that translating a page and back gives the page
  one began with: the kernel is asked first, and where it has an alias of a page of
  ours (the video heap lies in memory that the loader's SharedReadHeap owns,
  `memory_mapping.h` 87-109) it names its own address. What is proved is that the
  address named always stands for the same physical page, and that there is one.
  `ChecksAcceptTheTranslated` needs no invariant: it holds of whatever has been
  patched.

Assumptions. On the tables: `MapType`, `OffsetIsRunningSum`, `EffectiveDisjoint`,
`PhysicalDisjoint`, `HeapTable`, `VideoTable` (a region lies in video memory as a
whole or not at all), `SegmentAssumption` (the regions lie in one segment).
On the kernel: `UniqueSegmentId`, `KernelDoesNotContradict` (it knows an effective page
of ours not at all, as the segment was unmapped before, `memory_mapping.cpp` 516-518,
or maps it to the same physical page; of physical pages nothing is assumed: it may
map one twice, and one of ours). On the rest: `PageTableType`, `HashTellsPagesApart`,
`OwnSegmentIsMapped`, `CoresAssumption`, `HeapAssumption`, `CallsAssumption` (a
pointer that was never given out does not lie in a heap), `HooksAssumption`,
`BlocksAssumption`, `UsersAssumption`, `UsersLeaveItIntact`.

Only model-checked: liveness (`DestructorReturns`, `SetupReturns`, `CheckEnds`), which
is out of the prover's reach, as is ENABLED; that the real tables satisfy
`PagesSpread`, which is a computation; and the findings. Every safety property of a
passing run is a theorem. No module uses RECURSIVE; of the two recursive functions
over the state (`RunningTotal`, `Reading`) the proofs show first that they exist.

## Not modelled

* `searchEmptyMemoryRegions`, `writeTestValuesToMemory`, `readTestValuesFromMemory` and
  `readAndPrintSegmentRegister`: their calls are commented out and their results
  only printed. Logging.
* `DestroyHeaps`, which nothing calls, and the search for a child heap that a user
  created inside a block (`FindHeapContainingBlock` belongs to the system).
* In the table: the bits of an entry other than the page number, the protection
  bits among them, and the size limit of the copy (0x8000 words fit the table only
  while HTABMASK is 1). In the report: segment 15, whose end wraps to 0 in the code
  so that its loop never starts.
* The contents of blocks: no property here is about them.

## Plan

All of the components above are modelled except those just named. What is left:

1. `CoreSetup` with `PageTable` in place of `MapRegions`, and the kernel's pages as its
   foreign entries: `FirstPagesHold`, `MappingKeepsThePromise` and `ForeignKept` say that the step taken there is
   what the page table does, but the two are composed by hand.
2. Child heaps in `MEMFindContainHeap`, once their life cycle is known.
