------------------------------ MODULE WorkQueue ------------------------------
(***************************************************************************)
(* The work queue between the informer, the timers and the workers, as the *)
(* vendored client-go promises it (vendor/k8s.io/client-go/util/workqueue, *)
(* queue.go and delaying_queue.go): which items are waiting, which are     *)
(* being worked on and which come back later.  The order of the waiting    *)
(* items is left open.                                                     *)
(***************************************************************************)
EXTENDS Naturals, FiniteSets

CONSTANTS
  CR,             \* the custom resources, the items of the queue
  MaxParallel     \* MaxConcurrentReconciles, the number of workers

ASSUME MaxParallelIsPositive == MaxParallel \in Nat \ {0}

VARIABLES
  dirty,          \* items that have to be processed
  processing,     \* items a worker has and is not done with
  delayed         \* items that will be added when their timer fires

queueVars == <<dirty, processing, delayed>>

QueueTypeOK ==
  /\ dirty \subseteq CR
  /\ processing \subseteq CR
  /\ delayed \subseteq CR

QueueInit == dirty = {} /\ processing = {} /\ delayed = {}

\* An item that is being processed is marked and handed out again once its
\* worker is done with it; one that is waiting already is not added twice.
Add(c) == dirty' = dirty \cup {c} /\ UNCHANGED <<processing, delayed>>

\* A free worker takes an item nobody else is working on.
Take(c) ==
  /\ c \in dirty \ processing
  /\ Cardinality(processing) < MaxParallel
  /\ dirty' = dirty \ {c}
  /\ processing' = processing \cup {c}
  /\ UNCHANGED delayed

\* A mutant of Finish, which forgets to bring an item back.
FinishForgetting(c, again) ==
  processing' = processing \ {c} /\ UNCHANGED <<dirty, delayed>>

\* The worker is done with c, which comes back later if "again". An error is
\* retried with a backoff (AddRateLimited) and a RequeueAfter with its delay
\* (AddAfter); either way the queue keeps one timer per item.
Finish(c, again) ==
  /\ processing' = processing \ {c}
  /\ delayed' = IF again THEN delayed \cup {c} ELSE delayed
  /\ UNCHANGED dirty

\* The timer of c fires and puts it in the queue.
TimerFires(c) ==
  /\ c \in delayed
  /\ delayed' = delayed \ {c}
  /\ dirty' = dirty \cup {c}
  /\ UNCHANGED processing

-----------------------------------------------------------------------------
(* The queue by itself, for what implements it.                            *)

\* The first half of Finish, while the worker still has c.
AddAfter(c) ==
  /\ c \in processing
  /\ delayed' = delayed \cup {c}
  /\ UNCHANGED <<dirty, processing>>

\* What was to come back later is dropped when the queue shuts down.
ShutDown == delayed' = {} /\ UNCHANGED <<dirty, processing>>

QueueNext ==
  \/ ShutDown
  \/ \E c \in CR :
       \/ Add(c) \/ Take(c) \/ TimerFires(c)
       \/ AddAfter(c)
       \/ c \in processing /\ Finish(c, FALSE)

QueueSpec == QueueInit /\ [][QueueNext]_queueVars
=============================================================================
