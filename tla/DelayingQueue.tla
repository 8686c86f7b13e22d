---------------------------- MODULE DelayingQueue ----------------------------
(***************************************************************************)
(* The work queue as client-go builds it (vendor/k8s.io/client-go/util/    *)
(* workqueue): a queue with its two sets behind one lock and one condition *)
(* variable, a channel of items to add later, and waitingLoop, which keeps *)
(* them in a heap; with the workers of controller-runtime that use it.     *)
(* One action per critical section or channel operation.                   *)
(***************************************************************************)
EXTENDS Naturals, Sequences, FiniteSets

CONSTANTS
  CR,             \* the items
  Workers,        \* the worker goroutines
  NoItem,         \* what a worker without an item has
  Capacity,       \* of waitingForAddCh
  MaxDelay        \* the longest delay, in ticks of the clock

ASSUME WorkersFinite == IsFiniteSet(Workers) /\ Workers # {}
ASSUME NoItemIsNoItem == NoItem \notin CR
ASSUME CapacityType == Capacity \in Nat
ASSUME MaxDelayType == MaxDelay \in Nat

VARIABLES
  queue, dirty, processing,   \* the fields of Type
  shuttingDown, stopped,      \* Type's flag, and whether stopCh is closed
  at, has,        \* where each worker is, and the item it has
  channel,        \* waitingForAddCh, with the time each item has left
  heap,           \* the time left of the items in waitingForQueue
  loop            \* where waitingLoop is

typeVars == <<queue, dirty, at>>
stopVars == <<shuttingDown, stopped>>
loopVars == <<channel, heap, loop>>
vars == <<typeVars, processing, has, stopVars, loopVars>>

Delay == 0 .. MaxDelay

\* Where a worker has an item.
Busy == {"asleep", "run", "later", "done"}

TypeOK ==
  /\ queue \in Seq(CR) /\ dirty \subseteq CR /\ processing \subseteq CR
  /\ shuttingDown \in BOOLEAN /\ stopped \in BOOLEAN
  /\ at \in [Workers -> Busy \cup {"get", "waiting", "pause", "exit"}]
  /\ has \in [Workers -> CR \cup {NoItem}]
  /\ \A w \in Workers : has[w] # NoItem <=> at[w] \in Busy
  /\ channel \in Seq([data : CR, left : Delay]) /\ Len(channel) <= Capacity
  /\ DOMAIN heap \subseteq CR /\ heap \in [DOMAIN heap -> Delay]
  /\ loop \in {"top", "ready", "select", "drain", "exit"}

Init ==
  /\ queue = <<>> /\ dirty = {} /\ processing = {}
  /\ shuttingDown = FALSE /\ stopped = FALSE
  /\ at = [w \in Workers |-> "get"] /\ has = [w \in Workers |-> NoItem]
  /\ channel = <<>> /\ heap = [c \in {} |-> 0] /\ loop = "top"

-----------------------------------------------------------------------------
\* cond.Signal, after the workers got to be where f says: one that waits is
\* woken, whichever.
Signalled(f) ==
  LET waiting == {w \in Workers : f[w] = "waiting"}
  IN IF waiting = {} THEN {f}
     ELSE {[f EXCEPT ![w] = "get"] : w \in waiting}

\* A mutant of Add: an item that is being processed is queued all the same.
AddAnyway(c) ==
  IF shuttingDown \/ c \in dirty THEN UNCHANGED typeVars
  ELSE /\ dirty' = dirty \cup {c}
       /\ queue' = Append(queue, c) /\ at' \in Signalled(at)

\* Type.Add, with shuttingDown, processing and the rest unchanged.
Add(c) ==
  IF shuttingDown \/ c \in dirty THEN UNCHANGED typeVars
  ELSE /\ dirty' = dirty \cup {c}
       /\ IF c \in processing THEN UNCHANGED <<queue, at>>
          ELSE queue' = Append(queue, c) /\ at' \in Signalled(at)

\* The informer adds an item.
Inform(c) ==
  /\ Add(c)
  /\ UNCHANGED <<processing, has, stopVars, loopVars>>

\* A mutant of Get: last in, first out.
GetLast(w) ==
  /\ at[w] = "get" /\ queue # <<>>
  /\ LET c == queue[Len(queue)] IN
       /\ queue' = SubSeq(queue, 1, Len(queue) - 1)
       /\ processing' = processing \cup {c} /\ dirty' = dirty \ {c}
       /\ at' = [at EXCEPT ![w] = "asleep"] /\ has' = [has EXCEPT ![w] = c]
  /\ UNCHANGED <<stopVars, loopVars>>

\* Type.Get hands the first item to a worker, which starts to reconcile it and
\* sleeps first.
Get(w) ==
  /\ at[w] = "get" /\ queue # <<>>
  /\ LET c == Head(queue) IN
       /\ queue' = Tail(queue)
       /\ processing' = processing \cup {c} /\ dirty' = dirty \ {c}
       /\ at' = [at EXCEPT ![w] = "asleep"] /\ has' = [has EXCEPT ![w] = c]
  /\ UNCHANGED <<stopVars, loopVars>>

\* Type.Get without an item: the worker waits, or is told to end.
GetNothing(w) ==
  /\ at[w] = "get" /\ queue = <<>>
  /\ at' = [at EXCEPT ![w] = IF shuttingDown THEN "exit" ELSE "waiting"]
  /\ UNCHANGED <<queue, dirty, processing, has, stopVars, loopVars>>

\* Reconcile returns.  If the item is to come back, AddAfter and AddRateLimited,
\* with a delay that is never zero here, do nothing once the queue is shutting
\* down.
Reconcile(w) ==
  /\ at[w] = "run"
  /\ \E next \in {"done"} \cup IF shuttingDown THEN {} ELSE {"later"} :
       at' = [at EXCEPT ![w] = next]
  /\ UNCHANGED <<queue, dirty, processing, has, stopVars, loopVars>>

\* Two mutants of AddAfter, which do not wait for room in the channel.
AddAfterAnyway(w) ==
  /\ at[w] = "later"
  /\ \E left \in 1 .. MaxDelay :
       channel' = Append(channel, [data |-> has[w], left |-> left])
  /\ at' = [at EXCEPT ![w] = "done"]
  /\ UNCHANGED <<queue, dirty, processing, has, stopVars, heap, loop>>
AddAfterIfRoom(w) ==
  /\ at[w] = "later"
  /\ IF Len(channel) < Capacity
     THEN \E left \in 1 .. MaxDelay :
            channel' = Append(channel, [data |-> has[w], left |-> left])
     ELSE UNCHANGED channel
  /\ at' = [at EXCEPT ![w] = "done"]
  /\ UNCHANGED <<queue, dirty, processing, has, stopVars, heap, loop>>

\* The select of AddAfter: there is room in the channel, or stopCh is closed.
\* The time left counts from when the worker came here.
AddAfter(w) ==
  /\ at[w] = "later"
  /\ \/ /\ Len(channel) < Capacity
        /\ \E left \in 1 .. MaxDelay :
             channel' = Append(channel, [data |-> has[w], left |-> left])
     \/ stopped /\ UNCHANGED channel
  /\ at' = [at EXCEPT ![w] = "done"]
  /\ UNCHANGED <<queue, dirty, processing, has, stopVars, heap, loop>>

\* Where a worker goes next: wait.Until pauses after an error.
After(w) == {[at EXCEPT ![w] = next] : next \in {"get", "pause"}}

\* Two mutants of Done: without the signal, and with a mark that is lost.
DoneSilently(w) ==
  /\ at[w] = "done" /\ at' \in After(w)
  /\ processing' = processing \ {has[w]} /\ has' = [has EXCEPT ![w] = NoItem]
  /\ queue' = IF has[w] \in dirty THEN Append(queue, has[w]) ELSE queue
  /\ UNCHANGED <<dirty, stopVars, loopVars>>
DoneForgetting(w) ==
  /\ at[w] = "done" /\ at' \in After(w)
  /\ processing' = processing \ {has[w]} /\ has' = [has EXCEPT ![w] = NoItem]
  /\ dirty' = dirty \ {has[w]}
  /\ UNCHANGED <<queue, stopVars, loopVars>>

\* Type.Done.
Done(w) ==
  /\ at[w] = "done"
  /\ processing' = processing \ {has[w]} /\ has' = [has EXCEPT ![w] = NoItem]
  /\ IF has[w] \in dirty
     THEN /\ queue' = Append(queue, has[w])
          /\ \E f \in After(w) : at' \in Signalled(f)
     ELSE at' \in After(w) /\ UNCHANGED queue
  /\ UNCHANGED <<dirty, stopVars, loopVars>>

\* wait.Until runs the worker again after the pause, unless the manager stops.
Until(w) ==
  /\ at[w] = "pause"
  /\ at' = [at EXCEPT ![w] = IF shuttingDown THEN "exit" ELSE "get"]
  /\ UNCHANGED <<queue, dirty, processing, has, stopVars, loopVars>>

-----------------------------------------------------------------------------
\* A mutant of ShutDown, which wakes a single worker.
ShutDownSignal ==
  /\ ~shuttingDown /\ shuttingDown' = TRUE
  /\ at' \in Signalled(at)
  /\ UNCHANGED <<queue, dirty, processing, has, stopped, loopVars>>

\* The manager closes the stop channel and Start, which waited for that, shuts
\* the queue down with Type.ShutDown: all that wait are woken.
ShutDown ==
  /\ ~shuttingDown /\ shuttingDown' = TRUE
  /\ at' = [w \in Workers |-> IF at[w] = "waiting" THEN "get" ELSE at[w]]
  /\ UNCHANGED <<queue, dirty, processing, has, stopped, loopVars>>

\* Then delayingType.ShutDown closes stopCh.
CloseStopCh ==
  /\ shuttingDown /\ ~stopped /\ stopped' = TRUE
  /\ UNCHANGED <<typeVars, processing, has, shuttingDown, loopVars>>

Unlocked == UNCHANGED <<processing, has, stopVars>>

\* The items whose time has come.
Ready == {c \in DOMAIN heap : heap[c] = 0}

\* waitingLoop begins another turn.
Top ==
  /\ loop = "top"
  /\ loop' = IF shuttingDown THEN "exit" ELSE "ready"
  /\ Unlocked /\ UNCHANGED <<typeVars, channel, heap>>

\* It adds them, one after the other,
AddReady ==
  /\ loop = "ready"
  /\ \E c \in Ready : /\ heap' = [d \in DOMAIN heap \ {c} |-> heap[d]]
                      /\ Add(c)
  /\ Unlocked /\ UNCHANGED <<channel, loop>>

\* and then waits for its timer, its heartbeat, the channel and stopCh.
Select ==
  /\ loop = "ready" /\ Ready = {} /\ loop' = "select"
  /\ Unlocked /\ UNCHANGED <<typeVars, channel, heap>>

\* The timer or the heartbeat fires, or stopCh is closed.
Wake ==
  /\ loop = "select"
  /\ loop' = "top" \/ (stopped /\ loop' = "exit")
  /\ Unlocked /\ UNCHANGED <<typeVars, channel, heap>>

\* A mutant of insert, which takes the time of the new entry.
insertLatest(entry) ==
  [c \in DOMAIN heap \cup {entry.data} |->
     IF c = entry.data THEN entry.left ELSE heap[c]]

\* insert: an item that is there already keeps the sooner of its times.
insert(entry) ==
  [c \in DOMAIN heap \cup {entry.data} |->
     IF c = entry.data /\ (c \in DOMAIN heap => entry.left < heap[c])
     THEN entry.left ELSE heap[c]]

\* It takes an entry from the channel,
Receive ==
  LET entry == Head(channel) IN
  /\ loop \in {"select", "drain"} /\ loop' = "drain"
  /\ channel # <<>> /\ channel' = Tail(channel)
  /\ IF entry.left > 0 THEN heap' = insert(entry) /\ UNCHANGED typeVars
                       ELSE Add(entry.data) /\ UNCHANGED heap
  /\ Unlocked

\* and then all others.
Drained ==
  /\ loop = "drain" /\ channel = <<>> /\ loop' = "top"
  /\ Unlocked /\ UNCHANGED <<typeVars, channel, heap>>

\* Time passes, slowly for the loop, and workers wake from their sleep.
Tick ==
  LET Less(left) == IF left > 0 THEN left - 1 ELSE 0 IN
  /\ loop \in {"select", "exit"}
  /\ heap' = [c \in DOMAIN heap |-> Less(heap[c])]
  /\ channel' = [i \in DOMAIN channel |-> [channel[i] EXCEPT !.left = Less(@)]]
  /\ at' = [w \in Workers |-> IF at[w] = "asleep" THEN "run" ELSE at[w]]
  /\ UNCHANGED <<queue, dirty, loop>> /\ Unlocked

-----------------------------------------------------------------------------
Work(w) ==
  \/ Get(w) \/ GetNothing(w)
  \/ Reconcile(w) \/ AddAfter(w) \/ Done(w) \/ Until(w)

Loop == Top \/ AddReady \/ Select \/ Wake \/ Receive \/ Drained

Next ==
  \/ \E c \in CR : Inform(c)
  \/ \E w \in Workers : Work(w)
  \/ Loop \/ Tick \/ ShutDown \/ CloseStopCh

Spec == Init /\ [][Next]_vars

\* Goroutines go on, those that wait for room in the channel in the order they
\* came, a select does not pass over a channel for ever, and time passes.
Fairness ==
  /\ \A w \in Workers : WF_vars(Work(w)) /\ SF_vars(AddAfter(w))
  /\ WF_vars(Loop) /\ SF_vars(Receive) /\ SF_vars(Tick)
  /\ WF_vars(CloseStopCh)

FairSpec == Spec /\ Fairness

-----------------------------------------------------------------------------
Items(s) == {s[i] : i \in DOMAIN s}

\* "Every element of queue should be in the dirty set and not in the
\* processing set" (queue.go); and every such item is there, once.
QueueWellFormed ==
  /\ Items(queue) = dirty \ processing
  /\ \A i, j \in DOMAIN queue : i # j => queue[i] # queue[j]

\* The handler "is never invoked concurrently with the same object"
\* (controller-runtime, worker), and what is marked as being processed is what
\* the workers have.
NeverConcurrent ==
  /\ processing = {has[w] : w \in Workers} \ {NoItem}
  /\ \A v, w \in Workers : has[v] = has[w] /\ has[v] # NoItem => v = w

\* No wake-up is lost: while a worker waits, others are on their way to all
\* that is in the queue.
NoLostWakeup ==
  (\E w \in Workers : at[w] = "waiting") =>
    Len(queue) <= Cardinality({w \in Workers : at[w] = "get"})

\* What comes back later comes back no later than it was once said to: an item
\* stays in the heap with less and less time until it is marked.
NeverPostponed ==
  [][\A c \in DOMAIN heap :
       IF c \in DOMAIN heap' THEN heap'[c] <= heap[c]
                             ELSE c \in dirty' \/ shuttingDown]_vars

\* Every item gets its turn, however many others are added over and over: what
\* the strong fairness of Controller's Start asks for.
EveryItemTurns ==
  \A c \in CR : c \in dirty ~> c \in processing \/ shuttingDown

\* An item a worker wants back comes back, however full the channel is.
TimersFire ==
  \A c \in CR :
    (\E w \in Workers : at[w] = "later" /\ has[w] = c) ~>
      c \in dirty \/ shuttingDown

\* Once the manager stops, all goroutines end: no worker waits for an item or
\* for room in the channel for ever.
ShutdownCompletes ==
  shuttingDown ~> loop = "exit" /\ \A w \in Workers : at[w] = "exit"

\* What comes back later, for WorkQueue: nothing once the queue shuts down,
\* because Add then ignores what a timer brings.
Delayed == IF shuttingDown THEN {}
           ELSE {entry.data : entry \in Items(channel)} \cup DOMAIN heap

WQ == INSTANCE WorkQueue WITH MaxParallel <- Cardinality(Workers),
                              delayed <- Delayed

\* All of this is the queue the controller's model uses.
ImplementsWorkQueue == WQ!QueueSpec
=============================================================================
