--------------------------- MODULE CThreadProofs ----------------------------
(***************************************************************************)
(* For any number of CThread objects, detached or not, and whichever of    *)
(* their allocations fail: the class gives back what it takes, and not     *)
(* before the thread has ended.                                            *)
(***************************************************************************)
EXTENDS CThread, TLAPS

(* The two blocks of the objects are all different.                        *)
LEMMA BlocksDiffer ==
  \A t, u \in Threads :
    /\ OSThreadBlock(t) = OSThreadBlock(u) => t = u
    /\ StackBlock(t) = StackBlock(u) => t = u
    /\ OSThreadBlock(t) # StackBlock(u)
BY DEF OSThreadBlock, StackBlock

(* Both are blocks of the heap's type.                                     *)
LEMMA BlocksTyped ==
  \A t \in Threads : {OSThreadBlock(t), StackBlock(t)} \subseteq Threads \X {"OSThread", "stack"}
BY DEF OSThreadBlock, StackBlock

(* Every step of an object keeps the three parts of ThreadInv.             *)
LEMMA StepKeepsType ==
  ASSUME ThreadInv, [Next]_thread_vars
  PROVE  ThreadTypeOK'
<1> USE DEF ThreadInv, ThreadTypeOK, Stages, OSStates
<1>1. ASSUME NEW t \in Threads, Constructor(t)
      PROVE  ThreadTypeOK'
  BY <1>1, BlocksTyped DEF Constructor, AllocThread, AllocStack, CreateThread
<1>2. ASSUME NEW t \in Threads, suspendThread(t) \/ resumeThread(t)
      PROVE  ThreadTypeOK'
  BY <1>2 DEF suspendThread, resumeThread, OSSuspendThread, OSResumeThread
<1>3. ASSUME NEW t \in Threads, shutdownThread(t)
      PROVE  ThreadTypeOK'
  BY <1>3 DEF shutdownThread, Leave
<1>4. ASSUME NEW t \in Threads, Destructor(t)
      PROVE  ThreadTypeOK'
  <2>1. CASE LeaveResumeLoop(t) \/ JoinThread(t)
    BY <2>1 DEF LeaveResumeLoop, JoinThread, Leave
  <2>2. CASE ResumeInLoop(t)
    BY <2>2 DEF ResumeInLoop, OSResumeThread
  <2>3. CASE FreeStack(t)
    BY <2>3 DEF FreeStack
  <2>4. CASE FreeThread(t)
    BY <2>4 DEF FreeThread
  <2>5. QED
    BY <1>4, <2>1, <2>2, <2>3, <2>4 DEF Destructor
<1>5. ASSUME NEW t \in Threads, threadCallback(t)
      PROVE  ThreadTypeOK'
  <2>1. ran[t] = 0
    BY <1>5 DEF threadCallback, ThreadMatchesStage
  <2>2. QED
    BY <1>5, <2>1 DEF threadCallback
<1>6. CASE UNCHANGED thread_vars
  BY <1>6 DEF thread_vars
<1>7. QED
  BY <1>1, <1>2, <1>3, <1>4, <1>5, <1>6 DEF Next

(* The heap changes with the pointers.                                     *)
LEMMA StepKeepsHeap ==
  ASSUME ThreadInv, [Next]_thread_vars
  PROVE  HeapMatchesPointers'
<1> USE BlocksDiffer DEF ThreadInv, ThreadTypeOK, HeapMatchesPointers
<1>1. ASSUME NEW t \in Threads, AllocThread(t)
      PROVE  HeapMatchesPointers'
  BY <1>1 DEF AllocThread
<1>2. ASSUME NEW t \in Threads, AllocStack(t)
      PROVE  HeapMatchesPointers'
  BY <1>2 DEF AllocStack
<1>3. ASSUME NEW t \in Threads, CreateThread(t)
      PROVE  HeapMatchesPointers'
  BY <1>3 DEF CreateThread
<1>4. ASSUME NEW t \in Threads,
             suspendThread(t) \/ resumeThread(t) \/ ResumeInLoop(t) \/ threadCallback(t)
      PROVE  HeapMatchesPointers'
  BY <1>4 DEF suspendThread, resumeThread, ResumeInLoop, threadCallback
<1>5. ASSUME NEW t \in Threads, shutdownThread(t) \/ LeaveResumeLoop(t) \/ JoinThread(t)
      PROVE  HeapMatchesPointers'
  BY <1>5 DEF shutdownThread, LeaveResumeLoop, JoinThread, Leave
<1>6. ASSUME NEW t \in Threads, FreeStack(t)
      PROVE  HeapMatchesPointers'
  BY <1>6 DEF FreeStack
<1>7. ASSUME NEW t \in Threads, FreeThread(t)
      PROVE  HeapMatchesPointers'
  BY <1>7 DEF FreeThread
<1>8. CASE UNCHANGED thread_vars
  BY <1>8 DEF thread_vars
<1>9. QED
  BY <1>1, <1>2, <1>3, <1>4, <1>5, <1>6, <1>7, <1>8 DEF Next, Constructor, Destructor

(* The thread changes with the stage of its owner.                         *)
LEMMA StepKeepsStage ==
  ASSUME ThreadInv, [Next]_thread_vars
  PROVE  ThreadMatchesStage'
<1> USE DEF ThreadInv, ThreadTypeOK, HeapMatchesPointers, ThreadMatchesStage
<1>1. ASSUME NEW t \in Threads, AllocThread(t)
      PROVE  ThreadMatchesStage'
  BY <1>1 DEF AllocThread
<1>2. ASSUME NEW t \in Threads, AllocStack(t)
      PROVE  ThreadMatchesStage'
  BY <1>2 DEF AllocStack
<1>3. ASSUME NEW t \in Threads, CreateThread(t)
      PROVE  ThreadMatchesStage'
  BY <1>3 DEF CreateThread
<1>4. ASSUME NEW t \in Threads, suspendThread(t)
      PROVE  ThreadMatchesStage'
  BY <1>4 DEF suspendThread, OSSuspendThread
<1>5. ASSUME NEW t \in Threads, resumeThread(t) \/ ResumeInLoop(t)
      PROVE  ThreadMatchesStage'
  <2>1. /\ stage[t] \in {"live", "stop"}
        /\ UNCHANGED <<stage, pThread, pThreadStack, ran>>
        /\ os' = [os EXCEPT ![t] = IF os[t] = "suspended" THEN "ready" ELSE os[t]]
    BY <1>5 DEF resumeThread, ResumeInLoop, OSResumeThread
  <2>2. QED
    BY <2>1
<1>6. ASSUME NEW t \in Threads, shutdownThread(t)
      PROVE  ThreadMatchesStage'
  BY <1>6 DEF shutdownThread, Leave
<1>7. ASSUME NEW t \in Threads, LeaveResumeLoop(t) \/ JoinThread(t)
      PROVE  ThreadMatchesStage'
  <2>1. CASE LeaveResumeLoop(t)
    BY <2>1 DEF LeaveResumeLoop, Leave
  <2>2. CASE JoinThread(t)
    BY <2>2 DEF JoinThread, Leave
  <2>3. QED
    BY <1>7, <2>1, <2>2
<1>8. ASSUME NEW t \in Threads, FreeStack(t)
      PROVE  ThreadMatchesStage'
  BY <1>8 DEF FreeStack
<1>9. ASSUME NEW t \in Threads, FreeThread(t)
      PROVE  ThreadMatchesStage'
  BY <1>9 DEF FreeThread
<1>10. ASSUME NEW t \in Threads, threadCallback(t)
       PROVE  ThreadMatchesStage'
  BY <1>10 DEF threadCallback
<1>11. CASE UNCHANGED thread_vars
  BY <1>11 DEF thread_vars
<1>12. QED
  BY <1>1, <1>2, <1>3, <1>4, <1>5, <1>6, <1>7, <1>8, <1>9, <1>10, <1>11
  DEF Next, Constructor, Destructor

(* In every reachable state the heap and the threads are where the stages  *)
(* of the objects say.                                                     *)
THEOREM ThreadInvHolds == Spec => []ThreadInv
<1>1. ThreadInit => ThreadInv
  BY DEF ThreadInit, ThreadInv, ThreadTypeOK, HeapMatchesPointers, ThreadMatchesStage,
         Stages, OSStates
<1>2. ThreadInv /\ [Next]_thread_vars => ThreadInv'
  BY StepKeepsType, StepKeepsHeap, StepKeepsStage DEF ThreadInv
<1>3. QED
  BY <1>1, <1>2, PTL DEF Spec

(* shutdownThread frees neither the OSThread nor the stack of a thread that *)
(* may still run.                                                           *)
THEOREM KeepsItsMemory == Spec => []ThreadKeepsItsMemory
<1>1. ThreadInv => ThreadKeepsItsMemory
  BY DEF ThreadInv, ThreadTypeOK, HeapMatchesPointers, ThreadMatchesStage,
         ThreadKeepsItsMemory, Stages
<1>2. QED
  BY <1>1, ThreadInvHolds, PTL

(* An object that is gone has left nothing on the default heap.            *)
THEOREM HeapLeftClean == Spec => []DefaultHeapClean
<1>1. ThreadInv => DefaultHeapClean
  BY DEF ThreadInv, HeapMatchesPointers, DefaultHeapClean
<1>2. QED
  BY <1>1, ThreadInvHolds, PTL

(* When a destructor returns, its callback has run once if the object had  *)
(* a thread, and never otherwise.                                          *)
THEOREM RunsOnce == Spec => CallbackRunsOnce
<1>1. ThreadInv =>
        \A t \in Threads \ Detached :
          stage[t] = "free_thread" =>
            ran[t] = IF pThread[t] /\ pThreadStack[t] THEN 1 ELSE 0
  BY DEF ThreadInv, ThreadMatchesStage
<1>2. ThreadInv /\ [Next]_thread_vars =>
        [\A t \in Threads \ Detached :
           stage[t] = "free_thread" /\ stage'[t] = "none" =>
             ran[t] = IF pThread[t] /\ pThreadStack[t] THEN 1 ELSE 0]_thread_vars
  BY <1>1
<1>3. QED
  BY <1>2, ThreadInvHolds, PTL DEF Spec, CallbackRunsOnce
=============================================================================
