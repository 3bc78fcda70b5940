---------------------------- MODULE CThreadQuery ----------------------------
(***************************************************************************)
(* The query isThreadRunning of CThread, which nothing in the module calls *)
(* yet: "return !isThreadSuspended() && !isThreadRunning();".              *)
(***************************************************************************)
EXTENDS CThread

CONSTANT StackDepth   \* calls that fit on the caller's stack

VARIABLE depth        \* nested calls of isThreadRunning on each object

query_vars == <<thread_vars, depth>>

isThreadRunning(t) ==
  /\ stage[t] = "live" /\ depth[t] = 0
  /\ depth' = [depth EXCEPT ![t] = 1]
  /\ UNCHANGED thread_vars

(* The innermost call sees a suspended thread: all of them return.         *)
ReturnFalse(t) ==
  /\ depth[t] \in 1..StackDepth
  /\ TRUE \in isThreadSuspended(t)
  /\ depth' = [depth EXCEPT ![t] = 0]
  /\ UNCHANGED thread_vars

(* It sees one that is not suspended: it asks isThreadRunning.             *)
CallItself(t) ==
  /\ depth[t] \in 1..StackDepth
  /\ FALSE \in isThreadSuspended(t)
  /\ depth' = [depth EXCEPT ![t] = @ + 1]
  /\ UNCHANGED thread_vars

QueryInit == ThreadInit /\ depth = [t \in Threads |-> 0]

(* The owner of an object waits for its query to return.                   *)
QueryNext ==
  \E t \in Threads :
    \/ isThreadRunning(t) \/ ReturnFalse(t) \/ CallItself(t)
    \/ threadCallback(t) /\ UNCHANGED depth
    \/ depth[t] = 0 /\ UNCHANGED depth
         /\ (Constructor(t) \/ suspendThread(t) \/ resumeThread(t)
               \/ shutdownThread(t) \/ Destructor(t))

QuerySpec ==
  /\ QueryInit /\ [][QueryNext]_query_vars
  /\ \A t \in Threads : /\ WF_query_vars(ReturnFalse(t) \/ CallItself(t))
                        /\ WF_query_vars(threadCallback(t) /\ UNCHANGED depth)

(* "Check if thread is running": asked of a thread that runs or has ended, *)
(* the query gives its owner an answer.                                    *)
QueryAnswers ==
  \A t \in Threads :
    depth[t] = 1 /\ os[t] \in {"ready", "terminated"} ~> depth[t] = 0
=============================================================================
