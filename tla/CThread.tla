------------------------------ MODULE CThread -------------------------------
(***************************************************************************)
(* The CThread class: an object that takes an OSThread and a stack from    *)
(* the default heap, runs one callback on them, and in its destructor      *)
(* waits for the thread and gives both back.  Several objects share the    *)
(* heap; any of their allocations may fail, each on its own.               *)
(*                                                                         *)
(* External: the operating system's threads (OSCreateThread and the rest)  *)
(* as far as the class relies on them.  An OSThread that OSCreateThread    *)
(* was never called on is whatever the heap block held before: "garbage".  *)
(***************************************************************************)
EXTENDS Naturals

CONSTANTS
  Threads,     \* the CThread objects
  Detached     \* those created with eAttributeDetach

VARIABLES
  stage,                   \* where the owner of the object is in its life
  pThread, pThreadStack,   \* TRUE: not a null pointer
  os,                      \* what the OSThread is to the operating system
  heap,                    \* blocks of the default heap in use
  ran                      \* how often the callback has run

thread_vars == <<stage, pThread, pThreadStack, os, heap, ran>>

Stages == {"none", "alloc_stack", "create", "live", "stop", "join",
           "free_stack", "free_thread"}
OSStates == {"none", "garbage", "suspended", "ready", "terminated"}

OSThreadBlock(t) == <<t, "OSThread">>
StackBlock(t)    == <<t, "stack">>

-----------------------------------------------------------------------------
(* The constructor: two allocations, then OSCreateThread if both worked.   *)
(* A created thread is suspended.                                          *)

AllocThread(t) ==
  /\ stage[t] = "none" /\ os[t] = "none"
  /\ stage' = [stage EXCEPT ![t] = "alloc_stack"]
  /\ ran' = [ran EXCEPT ![t] = 0]
  /\ \/ /\ pThread' = [pThread EXCEPT ![t] = TRUE]
        /\ heap' = heap \cup {OSThreadBlock(t)}
     \/ UNCHANGED <<pThread, heap>>
  /\ UNCHANGED <<pThreadStack, os>>

AllocStack(t) ==
  /\ stage[t] = "alloc_stack"
  /\ stage' = [stage EXCEPT ![t] = "create"]
  /\ \/ /\ pThreadStack' = [pThreadStack EXCEPT ![t] = TRUE]
        /\ heap' = heap \cup {StackBlock(t)}
     \/ UNCHANGED <<pThreadStack, heap>>
  /\ UNCHANGED <<pThread, os, ran>>

CreateThread(t) ==
  /\ stage[t] = "create"
  /\ stage' = [stage EXCEPT ![t] = "live"]
  /\ os' = [os EXCEPT ![t] = IF pThread[t] /\ pThreadStack[t] THEN "suspended"
                             ELSE IF pThread[t] THEN "garbage" ELSE "none"]
  /\ UNCHANGED <<pThread, pThreadStack, heap, ran>>

-----------------------------------------------------------------------------
(* What isThreadSuspended() may return: garbage reads as anything.         *)
isThreadSuspended(t) ==
  IF os[t] = "garbage" THEN BOOLEAN ELSE {pThread[t] /\ os[t] = "suspended"}

OSResumeThread(t)  == os' = [os EXCEPT ![t] = IF @ = "suspended" THEN "ready" ELSE @]
OSSuspendThread(t) == os' = [os EXCEPT ![t] = IF @ = "ready" THEN "suspended" ELSE @]

suspendThread(t) ==
  /\ stage[t] = "live"
  /\ FALSE \in isThreadSuspended(t) /\ pThread[t]
  /\ OSSuspendThread(t)
  /\ UNCHANGED <<stage, pThread, pThreadStack, heap, ran>>

resumeThread(t) ==
  /\ stage[t] = "live"
  /\ TRUE \in isThreadSuspended(t)
  /\ OSResumeThread(t)
  /\ UNCHANGED <<stage, pThread, pThreadStack, heap, ran>>

(* Not the code: definitions named ...Slip are those after them with a     *)
(* slip in them, to see that the properties notice.                        *)
NeverEndsSlip(t) ==
  /\ os[t] = "ready"
  /\ ran' = [ran EXCEPT ![t] = @ + 1]
  /\ UNCHANGED <<stage, pThread, pThreadStack, os, heap>>

(* threadCallback: the callback runs, the thread function returns.         *)
threadCallback(t) ==
  /\ os[t] = "ready"
  /\ os' = [os EXCEPT ![t] = "terminated"]
  /\ ran' = [ran EXCEPT ![t] = @ + 1]
  /\ UNCHANGED <<stage, pThread, pThreadStack, heap>>

-----------------------------------------------------------------------------
(* The destructor: shutdownThread.                                         *)

Leave(t, next) ==
  /\ stage' = [stage EXCEPT ![t] = next]
  /\ UNCHANGED <<pThread, pThreadStack, os, heap, ran>>

NoJoinSlip(t) == stage[t] = "live" /\ Leave(t, "free_stack")

shutdownThread(t) ==
  /\ stage[t] = "live"
  /\ Leave(t, IF pThread[t] /\ t \notin Detached THEN "stop" ELSE "free_stack")

JoinAtOnceSlip(t) == stage[t] = "stop" /\ Leave(t, "join")

(* while (isThreadSuspended()) resumeThread();                             *)
LeaveResumeLoop(t) ==
  /\ stage[t] = "stop"
  /\ FALSE \in isThreadSuspended(t)
  /\ Leave(t, "join")

ResumeInLoop(t) ==
  /\ stage[t] = "stop"
  /\ TRUE \in isThreadSuspended(t)
  /\ OSResumeThread(t)
  /\ UNCHANGED <<stage, pThread, pThreadStack, heap, ran>>

(* OSJoinThread waits for the end of the thread; on garbage it may return  *)
(* as well as wait for ever.                                               *)
JoinThread(t) ==
  /\ stage[t] = "join"
  /\ os[t] \in {"terminated", "garbage"}
  /\ Leave(t, "free_stack")

FreeStack(t) ==
  /\ stage[t] = "free_stack"
  /\ stage' = [stage EXCEPT ![t] = "free_thread"]
  /\ heap' = IF pThreadStack[t] THEN heap \ {StackBlock(t)} ELSE heap
  /\ UNCHANGED <<pThread, pThreadStack, os, ran>>

ThreadNotFreedSlip(t) ==
  /\ stage[t] = "free_thread"
  /\ stage' = [stage EXCEPT ![t] = "none"]
  /\ heap' = IF pThread[t] /\ pThreadStack[t] THEN heap \ {OSThreadBlock(t)} ELSE heap
  /\ pThread' = [pThread EXCEPT ![t] = FALSE]
  /\ pThreadStack' = [pThreadStack EXCEPT ![t] = FALSE]
  /\ os' = [os EXCEPT ![t] = IF t \in Detached THEN @ ELSE "none"]
  /\ UNCHANGED ran

(* The last two statements reset the pointers.                             *)
FreeThread(t) ==
  /\ stage[t] = "free_thread"
  /\ stage' = [stage EXCEPT ![t] = "none"]
  /\ heap' = IF pThread[t] THEN heap \ {OSThreadBlock(t)} ELSE heap
  /\ pThread' = [pThread EXCEPT ![t] = FALSE]
  /\ pThreadStack' = [pThreadStack EXCEPT ![t] = FALSE]
  /\ os' = [os EXCEPT ![t] = IF t \in Detached THEN @ ELSE "none"]
  /\ UNCHANGED ran

-----------------------------------------------------------------------------
Constructor(t) == AllocThread(t) \/ AllocStack(t) \/ CreateThread(t)

Destructor(t) ==
  \/ LeaveResumeLoop(t) \/ ResumeInLoop(t) \/ JoinThread(t)
  \/ FreeStack(t) \/ FreeThread(t)

ThreadInit ==
  /\ stage = [t \in Threads |-> "none"]
  /\ pThread = [t \in Threads |-> FALSE] /\ pThreadStack = [t \in Threads |-> FALSE]
  /\ os = [t \in Threads |-> "none"]
  /\ heap = {}
  /\ ran = [t \in Threads |-> 0]

Next ==
  \E t \in Threads :
    \/ Constructor(t)
    \/ suspendThread(t) \/ resumeThread(t) \/ shutdownThread(t)
    \/ Destructor(t)
    \/ threadCallback(t)

(* An owner that has begun to construct or destroy an object goes on, and  *)
(* the scheduler runs every thread that is ready.                          *)
ThreadFairness ==
  \A t \in Threads :
    /\ WF_thread_vars(AllocStack(t) \/ CreateThread(t)
                        \/ (os[t] # "garbage" /\ Destructor(t)))
    /\ WF_thread_vars(threadCallback(t))

Spec == ThreadInit /\ [][Next]_thread_vars /\ ThreadFairness

-----------------------------------------------------------------------------
(* Properties.                                                             *)

ThreadTypeOK ==
  /\ stage \in [Threads -> Stages]
  /\ pThread \in [Threads -> BOOLEAN] /\ pThreadStack \in [Threads -> BOOLEAN]
  /\ os \in [Threads -> OSStates]
  /\ heap \subseteq Threads \X {"OSThread", "stack"}
  /\ ran \in [Threads -> {0, 1}]

(* What every step relies on, object by object: the heap holds what the    *)
(* pointers point at, ...                                                  *)
HeapMatchesPointers ==
  \A t \in Threads :
    /\ OSThreadBlock(t) \in heap <=> pThread[t]
    /\ StackBlock(t) \in heap <=> pThreadStack[t] /\ stage[t] # "free_thread"
    /\ stage[t] = "none" => ~pThread[t]
    /\ stage[t] \in {"none", "alloc_stack"} => ~pThreadStack[t]

(* ... and the thread is as far as its owner and its callback left it.     *)
ThreadMatchesStage ==
  \A t \in Threads :
    /\ stage[t] \in {"alloc_stack", "create"} => os[t] = "none" /\ ran[t] = 0
    /\ os[t] \in {"suspended", "ready", "garbage"} => ran[t] = 0
    /\ t \notin Detached =>
         /\ stage[t] = "none" => os[t] = "none"
         /\ stage[t] \in {"live", "stop", "join", "free_stack", "free_thread"} =>
              IF pThread[t] /\ pThreadStack[t]
                THEN os[t] \in {"suspended", "ready", "terminated"}
                ELSE os[t] \in {"none", "garbage"} /\ ran[t] = 0
         /\ stage[t] \in {"free_stack", "free_thread"} =>
              os[t] \notin {"suspended", "ready"}
         /\ os[t] = "terminated" => ran[t] = 1

ThreadInv == ThreadTypeOK /\ HeapMatchesPointers /\ ThreadMatchesStage

(* A thread that may still run is never left without its OSThread or its   *)
(* stack: shutdownThread joins before it frees.                            *)
ThreadKeepsItsMemory ==
  \A t \in Threads \ Detached :
    os[t] \in {"suspended", "ready"} => {OSThreadBlock(t), StackBlock(t)} \subseteq heap

(* "Some games (e.g. Minecraft) expect the default heap to be empty. Make  *)
(* sure to clean up the memory after using it": nothing of an object that  *)
(* is gone is left on the heap, whichever of its allocations failed.       *)
DefaultHeapClean ==
  \A t \in Threads :
    stage[t] = "none" => {OSThreadBlock(t), StackBlock(t)} \cap heap = {}

(* The callback of an object whose two allocations worked has run, once,   *)
(* when its destructor returns, resumed by its owner or not; no callback   *)
(* runs when one of them failed.                                           *)
CallbackRunsOnce ==
  [][\A t \in Threads \ Detached :
       stage[t] = "free_thread" /\ stage'[t] = "none" =>
         ran[t] = IF pThread[t] /\ pThreadStack[t] THEN 1 ELSE 0]_thread_vars

(* A destructor that has begun returns, unless the object has an OSThread  *)
(* but no stack: then it joins a thread that was never created.            *)
DestructorReturns ==
  \A t \in Threads : stage[t] = "stop" ~> stage[t] = "none" \/ os[t] = "garbage"
=============================================================================
