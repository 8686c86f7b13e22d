------------------------- MODULE DelayingQueueProofs -------------------------
(***************************************************************************)
(* The safety of the work queue, and that it is the WorkQueue of the       *)
(* controller's model, for any items, workers, capacity and delays.        *)
(***************************************************************************)
EXTENDS DelayingQueue, FiniteSetTheorems, TLAPS

\* The workers' part of TypeOK.
WorkersOK(f, h) ==
  /\ f \in [Workers -> Busy \cup {"get", "waiting", "pause", "exit"}]
  /\ h \in [Workers -> CR \cup {NoItem}]
  /\ \A w \in Workers : h[w] # NoItem <=> f[w] \in Busy

\* The queue's part of TypeOK.
SetsOK ==
  queue \in Seq(CR) /\ dirty \subseteq CR /\ processing \subseteq CR

\* The loop's part of TypeOK.
LoopOK ==
  /\ shuttingDown \in BOOLEAN /\ stopped \in BOOLEAN
  /\ channel \in Seq([data : CR, left : Delay]) /\ Len(channel) <= Capacity
  /\ DOMAIN heap \subseteq CR /\ heap \in [DOMAIN heap -> Delay]
  /\ loop \in {"top", "ready", "select", "drain", "exit"}

\* TypeOK in its parts, with the two invariants that need each other.
IInv ==
  /\ SetsOK /\ WorkersOK(at, has) /\ LoopOK
  /\ QueueWellFormed /\ NeverConcurrent

\* The parts of the type invariant make it up.
LEMMA IInvImplies ==
  IInv => TypeOK
  BY DEF IInv, TypeOK, SetsOK, WorkersOK, LoopOK

Distinct(s) == \A i, j \in DOMAIN s : i # j => s[i] # s[j]

\* What Append does to the items of a queue.
LEMMA AppendItems ==
  ASSUME NEW s \in Seq(CR), NEW c \in CR, Distinct(s), c \notin Items(s)
  PROVE  /\ Append(s, c) \in Seq(CR)
         /\ Items(Append(s, c)) = Items(s) \cup {c}
         /\ Distinct(Append(s, c))
  <1> DEFINE t == Append(s, c)
  <1>1. /\ t \in Seq(CR) /\ Len(t) = Len(s) + 1
        /\ \A i \in 1 .. Len(s) : t[i] = s[i]
        /\ t[Len(s) + 1] = c
    OBVIOUS
  <1>2. DOMAIN t = 1 .. Len(s) + 1 /\ DOMAIN s = 1 .. Len(s) /\ Len(s) \in Nat
    BY <1>1
  <1> HIDE DEF t
  <1>3. DOMAIN t = DOMAIN s \cup {Len(s) + 1} /\ Len(s) + 1 \notin DOMAIN s
    BY <1>2
  <1>4. Items(t) = Items(s) \cup {c}
    BY <1>1, <1>2, <1>3 DEF Items
  <1>5. Distinct(t)
    BY <1>1, <1>2, <1>3 DEF Items, Distinct
  <1> QED  BY <1>1, <1>4, <1>5 DEF t

\* What taking the first item leaves.
LEMMA TailItems ==
  ASSUME NEW s \in Seq(CR), Distinct(s), s # <<>>
  PROVE  /\ Tail(s) \in Seq(CR) /\ Head(s) \in Items(s)
         /\ Items(Tail(s)) = Items(s) \ {Head(s)}
         /\ Distinct(Tail(s))
  <1> DEFINE t == Tail(s)
  <1>1. /\ t \in Seq(CR) /\ Len(t) = Len(s) - 1 /\ Head(s) = s[1]
        /\ Len(s) \in Nat \ {0} /\ DOMAIN s = 1 .. Len(s)
        /\ DOMAIN t = 1 .. Len(s) - 1
    OBVIOUS
  <1>2. \A i \in 1 .. Len(s) - 1 : t[i] = s[i + 1]
    OBVIOUS
  <1> HIDE DEF t
  <1>3. 1 \in DOMAIN s
    BY <1>1
  <1>4. Items(t) = Items(s) \ {s[1]}
    <2>1. ASSUME NEW i \in DOMAIN t PROVE t[i] \in Items(s) \ {s[1]}
      <3>1. i + 1 \in DOMAIN s /\ i + 1 # 1
        BY <1>1
      <3> QED  BY <1>1, <1>2, <1>3, <3>1 DEF Items, Distinct
    <2>2. ASSUME NEW i \in DOMAIN s, s[i] # s[1] PROVE s[i] \in Items(t)
      <3>1. i - 1 \in DOMAIN t /\ (i - 1) + 1 = i
        BY <1>1, <2>2
      <3> QED  BY <1>1, <1>2, <3>1 DEF Items
    <2> QED  BY <2>1, <2>2 DEF Items
  <1>5. Distinct(t)
    <2> SUFFICES ASSUME NEW i \in DOMAIN t, NEW j \in DOMAIN t, i # j
                 PROVE  t[i] # t[j]
      BY DEF Distinct
    <2>1. i + 1 \in DOMAIN s /\ j + 1 \in DOMAIN s /\ i + 1 # j + 1
      BY <1>1
    <2> QED  BY <1>1, <1>2, <2>1 DEF Distinct
  <1> QED  BY <1>1, <1>3, <1>4, <1>5 DEF t, Items

\* A signal wakes at most one worker, which was waiting.
LEMMA SignalWakesOne ==
  ASSUME NEW f, NEW g \in Signalled(f)
  PROVE  \/ g = f
         \/ \E w \in Workers : f[w] = "waiting" /\ g = [f EXCEPT ![w] = "get"]
  BY DEF Signalled

\* A signal leaves the items alone.
LEMMA SignalKeeps ==
  ASSUME NEW f, NEW h, WorkersOK(f, h), NEW g \in Signalled(f)
  PROVE  WorkersOK(g, h)
  <1>1. CASE g = f
    BY <1>1
  <1>2. ASSUME NEW w \in Workers, f[w] = "waiting", g = [f EXCEPT ![w] = "get"]
        PROVE  WorkersOK(g, h)
    BY <1>2 DEF WorkersOK, Busy
  <1> QED  BY <1>1, <1>2, SignalWakesOne

\* Whoever calls it, Add keeps the queue and its sets in step.
LEMMA AddKeeps ==
  ASSUME SetsOK, QueueWellFormed, NEW h, WorkersOK(at, h),
         NEW c \in CR, Add(c), processing' = processing
  PROVE  SetsOK' /\ QueueWellFormed' /\ WorkersOK(at', h)
  <1>1. CASE shuttingDown \/ c \in dirty
    BY <1>1 DEF Add, typeVars, SetsOK, QueueWellFormed, Items
  <1>2. CASE ~(shuttingDown \/ c \in dirty) /\ c \in processing
    BY <1>2 DEF Add, typeVars, SetsOK, QueueWellFormed, Items
  <1>3. CASE ~(shuttingDown \/ c \in dirty) /\ c \notin processing
    <2>1. /\ dirty' = dirty \cup {c} /\ queue' = Append(queue, c)
          /\ at' \in Signalled(at)
      BY <1>3 DEF Add
    <2>2. Distinct(queue) /\ c \notin Items(queue)
      BY <1>3 DEF QueueWellFormed, Distinct
    <2>3. /\ queue' \in Seq(CR) /\ Items(queue') = Items(queue) \cup {c}
          /\ Distinct(queue')
      BY <2>1, <2>2, AppendItems DEF SetsOK
    <2>4. QueueWellFormed'
      <3>1. Items(queue)' = Items(queue')
        BY DEF Items
      <3> QED  BY <1>3, <2>1, <2>3, <3>1 DEF QueueWellFormed, Distinct
    <2> QED  BY <2>1, <2>3, <2>4, SignalKeeps DEF SetsOK
  <1> QED  BY <1>1, <1>2, <1>3

\* The queue begins with all of them.
LEMMA InitParts ==
  Init => IInv
  <1> SUFFICES ASSUME Init PROVE IInv
    OBVIOUS
  <1>1. SetsOK /\ QueueWellFormed
    <2>1. queue = <<>> /\ queue \in Seq(CR) /\ DOMAIN queue = {}
      BY DEF Init
    <2> QED  BY <2>1 DEF Init, SetsOK, QueueWellFormed, Items
  <1>2. WorkersOK(at, has) /\ NeverConcurrent
    BY DEF Init, WorkersOK, NeverConcurrent, Busy
  <1>3. LoopOK
    <2>1. channel = <<>> /\ Len(channel) = 0
      BY DEF Init
    <2>2. channel \in Seq([data : CR, left : Delay]) /\ Len(channel) <= Capacity
      BY <2>1, CapacityType
    <2>3. DOMAIN heap = {} /\ heap \in [DOMAIN heap -> Delay]
      BY DEF Init
    <2> QED  BY <2>2, <2>3 DEF Init, LoopOK
  <1> QED  BY <1>1, <1>2, <1>3 DEF IInv

\* A worker takes an item that no other has.
LEMMA GetKeeps ==
  ASSUME IInv, NEW w \in Workers, Get(w)
  PROVE  IInv'
  <1> DEFINE c == Head(queue)
  <1>1. SetsOK /\ WorkersOK(at, has) /\ QueueWellFormed /\ NeverConcurrent
    BY DEF IInv
  <1>2. Distinct(queue)
    BY <1>1 DEF QueueWellFormed, Distinct
  <1>3. /\ queue' \in Seq(CR) /\ c \in Items(queue)
        /\ Items(queue') = Items(queue) \ {c} /\ Distinct(queue')
    BY <1>1, <1>2, TailItems DEF Get, SetsOK
  <1>4. /\ processing' = processing \cup {c} /\ dirty' = dirty \ {c}
        /\ at[w] = "get" /\ at' = [at EXCEPT ![w] = "asleep"]
        /\ has' = [has EXCEPT ![w] = c]
    BY DEF Get
  <1>5. c \in CR /\ c # NoItem /\ c \notin processing
    BY <1>1, <1>3, NoItemIsNoItem DEF QueueWellFormed, SetsOK
  <1> HIDE DEF c
  <1>6. QueueWellFormed'
    <2>1. Items(queue)' = Items(queue')
      BY DEF Items
    <2> QED  BY <1>1, <1>3, <1>4, <2>1 DEF QueueWellFormed, Distinct
  <1>7. has[w] = NoItem
    BY <1>1, <1>4 DEF WorkersOK, Busy
  <1>8. WorkersOK(at, has)'
    BY <1>1, <1>4, <1>5 DEF WorkersOK, Busy
  <1>9. NeverConcurrent'
    <2>1. \A v \in Workers : has'[v] = IF v = w THEN c ELSE has[v]
      BY <1>1, <1>4 DEF WorkersOK
    <2>2. \A v \in Workers : has[v] # c
      BY <1>1, <1>5 DEF NeverConcurrent
    <2>3. {has'[v] : v \in Workers} \ {NoItem}
            = ({has[v] : v \in Workers} \ {NoItem}) \cup {c}
      BY <1>5, <1>7, <2>1
    <2> QED  BY <1>1, <1>4, <2>1, <2>2, <2>3 DEF NeverConcurrent
  <1>10. SetsOK' /\ LoopOK'
    BY <1>1, <1>3, <1>4, <1>5 DEF IInv, Get, SetsOK, LoopOK, stopVars, loopVars
  <1> QED  BY <1>6, <1>8, <1>9, <1>10 DEF IInv

\* A worker is done with its item, which nobody else has.
LEMMA DoneKeeps ==
  ASSUME IInv, NEW w \in Workers, Done(w)
  PROVE  IInv'
  <1> DEFINE c == has[w]
  <1>1. SetsOK /\ WorkersOK(at, has) /\ QueueWellFormed /\ NeverConcurrent
    BY DEF IInv
  <1>2. /\ processing' = processing \ {c} /\ at[w] = "done"
        /\ has' = [has EXCEPT ![w] = NoItem] /\ dirty' = dirty
    BY DEF Done
  <1>3. c \in CR /\ c \in processing
    BY <1>1, <1>2 DEF WorkersOK, NeverConcurrent, Busy
  <1>4. \A f \in After(w) : WorkersOK(f, has')
    BY <1>1, <1>2 DEF After, WorkersOK, Busy
  <1>5. WorkersOK(at, has)'
    <2>1. CASE c \in dirty
      <3>1. PICK f \in After(w) : at' \in Signalled(f)
        BY <2>1 DEF Done
      <3> QED  BY <1>4, <3>1, SignalKeeps
    <2>2. CASE c \notin dirty
      BY <1>4, <2>2 DEF Done
    <2> QED  BY <2>1, <2>2
  <1>6. SetsOK' /\ QueueWellFormed'
    <2>1. Items(queue)' = Items(queue')
      BY DEF Items
    <2>2. CASE c \in dirty
      <3>1. queue' = Append(queue, c)
        BY <2>2 DEF Done
      <3>2. Distinct(queue) /\ c \notin Items(queue)
        BY <1>1, <1>3 DEF QueueWellFormed, Distinct
      <3>3. /\ queue' \in Seq(CR) /\ Items(queue') = Items(queue) \cup {c}
            /\ Distinct(queue')
        BY <1>1, <1>3, <3>1, <3>2, AppendItems DEF SetsOK
      <3> HIDE DEF c
      <3> QED
        BY <1>1, <1>2, <1>3, <2>1, <2>2, <3>3 DEF QueueWellFormed, Distinct, SetsOK
    <2>3. CASE c \notin dirty
      BY <1>1, <1>2, <2>3 DEF Done, QueueWellFormed, SetsOK, Items
    <2> QED  BY <2>2, <2>3
  <1>7. NeverConcurrent'
    <2>1. \A v \in Workers : has'[v] = IF v = w THEN NoItem ELSE has[v]
      BY <1>1, <1>2 DEF WorkersOK
    <2>2. \A v \in Workers : has[v] = c /\ c # NoItem => v = w
      BY <1>1 DEF NeverConcurrent
    <2>3. c # NoItem
      BY <1>3, NoItemIsNoItem
    <2>4. {has'[v] : v \in Workers} \ {NoItem}
            = ({has[v] : v \in Workers} \ {NoItem}) \ {c}
      BY <2>1, <2>2, <2>3
    <2> QED  BY <1>1, <1>2, <2>1, <2>4 DEF NeverConcurrent
  <1>8. LoopOK'
    BY DEF IInv, Done, LoopOK, stopVars, loopVars
  <1> QED  BY <1>5, <1>6, <1>7, <1>8 DEF IInv

\* The other steps of a worker.
LEMMA WorkKeeps ==
  ASSUME IInv, NEW w \in Workers, Work(w)
  PROVE  IInv'
  <1>1. CASE Get(w)
    BY <1>1, GetKeeps
  <1>2. CASE Done(w)
    BY <1>2, DoneKeeps
  <1>3. ASSUME NEW next \in Busy \cup {"get", "waiting", "pause", "exit"},
               at' = [at EXCEPT ![w] = next], at[w] \in Busy <=> next \in Busy,
               UNCHANGED <<queue, dirty, processing, has>>
        PROVE  SetsOK' /\ WorkersOK(at, has)' /\ QueueWellFormed'
               /\ NeverConcurrent'
    <2>1. SetsOK' /\ QueueWellFormed' /\ NeverConcurrent'
      BY <1>3 DEF IInv, SetsOK, QueueWellFormed, NeverConcurrent, Items
    <2> QED  BY <1>3, <2>1 DEF IInv, WorkersOK
  <1>4. CASE UNCHANGED loopVars /\ UNCHANGED stopVars
    <2>1. LoopOK'
      BY <1>4 DEF IInv, LoopOK, loopVars, stopVars
    <2>2. CASE GetNothing(w)
      <3>1. PICK next \in {"waiting", "exit"} : at' = [at EXCEPT ![w] = next]
        BY <2>2 DEF GetNothing
      <3> QED  BY <1>3, <2>1, <2>2, <3>1 DEF GetNothing, Busy, IInv
    <2>3. CASE Reconcile(w)
      <3>1. PICK next \in {"done", "later"} : at' = [at EXCEPT ![w] = next]
        BY <2>3 DEF Reconcile
      <3> QED  BY <1>3, <2>1, <2>3, <3>1 DEF Reconcile, Busy, IInv
    <2>4. CASE Until(w)
      <3>1. PICK next \in {"get", "exit"} : at' = [at EXCEPT ![w] = next]
        BY <2>4 DEF Until
      <3> QED  BY <1>3, <2>1, <2>4, <3>1 DEF Until, Busy, IInv
    <2>5. CASE AddAfter(w)
      BY <1>3, <2>1, <2>5 DEF AddAfter, Busy, IInv
    <2> QED  BY <1>1, <1>2, <2>2, <2>3, <2>4, <2>5 DEF Work
  <1>5. CASE AddAfter(w)
    <2>1. has[w] \in CR
      BY <1>5 DEF AddAfter, IInv, WorkersOK, Busy
    <2>2. channel' \in Seq([data : CR, left : Delay]) /\ Len(channel') <= Capacity
      <3>1. CASE UNCHANGED channel
        BY <3>1 DEF IInv, LoopOK
      <3>2. ASSUME Len(channel) < Capacity, NEW left \in 1 .. MaxDelay,
                   channel' = Append(channel, [data |-> has[w], left |-> left])
            PROVE  /\ channel' \in Seq([data : CR, left : Delay])
                   /\ Len(channel') <= Capacity
        <4>1. [data |-> has[w], left |-> left] \in [data : CR, left : Delay]
          BY <2>1, MaxDelayType DEF Delay
        <4>2. channel \in Seq([data : CR, left : Delay])
          BY DEF IInv, LoopOK
        <4>3. Len(channel') = Len(channel) + 1 /\ Len(channel) \in Nat
          BY <3>2, <4>2
        <4> QED  BY <3>2, <4>1, <4>2, <4>3, CapacityType
      <3> QED  BY <1>5, <3>1, <3>2 DEF AddAfter
    <2>3. LoopOK'
      BY <1>5, <2>2 DEF AddAfter, IInv, LoopOK, stopVars
    <2> QED  BY <1>3, <1>5, <2>3 DEF AddAfter, Busy, IInv
  <1> QED  BY <1>1, <1>2, <1>4, <1>5 DEF Work, GetNothing, Reconcile, Until

\* What the loop and the clock leave of IInv, if the sets and workers are fine.
LEMMA RestKeeps ==
  ASSUME IInv, Unlocked \/ UNCHANGED <<processing, has>>,
         SetsOK', QueueWellFormed', WorkersOK(at', has), LoopOK'
  PROVE  IInv'
  <1>1. has' = has /\ processing' = processing
    BY DEF Unlocked
  <1>2. NeverConcurrent'
    BY <1>1 DEF IInv, NeverConcurrent
  <1>3. WorkersOK(at, has)'
    BY <1>1 DEF WorkersOK
  <1> QED  BY <1>2, <1>3 DEF IInv

\* insert keeps the heap in its type.
LEMMA InsertType ==
  ASSUME DOMAIN heap \subseteq CR, heap \in [DOMAIN heap -> Delay],
         NEW entry \in [data : CR, left : Delay]
  PROVE  /\ DOMAIN insert(entry) \subseteq CR
         /\ insert(entry) \in [DOMAIN insert(entry) -> Delay]
  <1>1. DOMAIN insert(entry) = DOMAIN heap \cup {entry.data}
    BY DEF insert
  <1>2. entry.data \in CR /\ entry.left \in Delay
    OBVIOUS
  <1>3. \A c \in DOMAIN heap \cup {entry.data} : insert(entry)[c] \in Delay
    BY <1>2 DEF insert
  <1>4. insert(entry) = [c \in DOMAIN insert(entry) |-> insert(entry)[c]]
    BY <1>1 DEF insert
  <1> QED  BY <1>1, <1>2, <1>3, <1>4

\* A turn of waitingLoop.
LEMMA LoopKeeps ==
  ASSUME IInv, Loop
  PROVE  IInv'
  <1>0. /\ SetsOK /\ WorkersOK(at, has) /\ LoopOK /\ QueueWellFormed
        /\ processing' = processing /\ has' = has /\ Unlocked
    BY DEF IInv, Loop, Top, AddReady, Select, Wake, Receive, Drained, Unlocked
  <1>1. ASSUME UNCHANGED typeVars
        PROVE  SetsOK' /\ QueueWellFormed' /\ WorkersOK(at', has)
    BY <1>0, <1>1 DEF typeVars, SetsOK, QueueWellFormed, Items, WorkersOK
  <1>2. ASSUME UNCHANGED <<channel, heap>>,
               loop' \in {"top", "ready", "select", "drain", "exit"}
        PROVE  LoopOK'
    BY <1>0, <1>2 DEF LoopOK, Unlocked, stopVars
  <1>3. CASE Top \/ Select \/ Wake \/ Drained
    <2>1. /\ UNCHANGED typeVars /\ UNCHANGED <<channel, heap>>
          /\ loop' \in {"top", "ready", "select", "drain", "exit"}
      BY <1>3 DEF Top, Select, Wake, Drained
    <2> QED  BY <1>0, <1>1, <1>2, <2>1, RestKeeps
  <1>4. CASE AddReady
    <2>1. PICK c \in Ready : /\ heap' = [d \in DOMAIN heap \ {c} |-> heap[d]]
                             /\ Add(c)
      BY <1>4 DEF AddReady
    <2>2. c \in CR
      BY <1>0 DEF Ready, LoopOK
    <2>3. LoopOK'
      BY <1>0, <1>4, <2>1 DEF AddReady, LoopOK, Unlocked, stopVars
    <2> QED  BY <1>0, <2>1, <2>2, <2>3, AddKeeps, RestKeeps
  <1>5. CASE Receive
    <2> DEFINE entry == Head(channel)
    <2>1. /\ channel # <<>> /\ channel' = Tail(channel) /\ loop' = "drain"
          /\ channel \in Seq([data : CR, left : Delay]) /\ Len(channel) <= Capacity
      BY <1>0, <1>5 DEF Receive, LoopOK
    <2>2. /\ entry \in [data : CR, left : Delay]
          /\ channel' \in Seq([data : CR, left : Delay])
          /\ Len(channel') = Len(channel) - 1 /\ Len(channel) \in Nat
      <3> DEFINE Entries == [data : CR, left : Delay]
      <3>1. channel \in Seq(Entries) /\ channel # <<>> /\ channel' = Tail(channel)
        BY <2>1
      <3> HIDE DEF Entries
      <3>2. /\ Head(channel) \in Entries /\ channel' \in Seq(Entries)
            /\ Len(channel') = Len(channel) - 1 /\ Len(channel) \in Nat
        BY <3>1
      <3> QED  BY <3>2 DEF Entries
    <2>3. Len(channel') <= Capacity
      BY <2>1, <2>2, CapacityType
    <2> HIDE DEF entry
    <2>4. ASSUME DOMAIN heap' \subseteq CR, heap' \in [DOMAIN heap' -> Delay]
          PROVE  LoopOK'
      BY <1>0, <2>1, <2>2, <2>3, <2>4 DEF LoopOK, Unlocked, stopVars
    <2>5. CASE entry.left > 0
      <3>1. heap' = insert(entry) /\ UNCHANGED typeVars
        BY <1>5, <2>5 DEF Receive, entry
      <3>2. DOMAIN heap' \subseteq CR /\ heap' \in [DOMAIN heap' -> Delay]
        BY <1>0, <2>2, <3>1, InsertType DEF LoopOK
      <3> QED  BY <1>0, <1>1, <2>4, <3>1, <3>2, RestKeeps
    <2>6. CASE ~(entry.left > 0)
      <3>1. heap' = heap /\ Add(entry.data)
        BY <1>5, <2>6 DEF Receive, entry
      <3>2. LoopOK'
        BY <1>0, <2>4, <3>1 DEF LoopOK
      <3> QED  BY <1>0, <2>2, <3>1, <3>2, AddKeeps, RestKeeps
    <2> QED  BY <2>5, <2>6
  <1> QED  BY <1>3, <1>4, <1>5 DEF Loop

\* Time leaves the queue alone.
LEMMA TickKeeps ==
  ASSUME IInv, Tick
  PROVE  IInv'
  <1> DEFINE Less(left) == IF left > 0 THEN left - 1 ELSE 0
             Entries == [data : CR, left : Delay]
  <1>1. \A left \in Delay : Less(left) \in Delay
    BY MaxDelayType DEF Delay
  <1>2. /\ heap' = [c \in DOMAIN heap |-> Less(heap[c])]
        /\ channel' = [i \in DOMAIN channel |->
                         [channel[i] EXCEPT !.left = Less(@)]]
        /\ at' = [w \in Workers |-> IF at[w] = "asleep" THEN "run" ELSE at[w]]
        /\ UNCHANGED <<queue, dirty, loop>> /\ Unlocked
    BY DEF Tick
  <1> HIDE DEF Less
  <1>3. /\ channel \in Seq(Entries) /\ Len(channel) <= Capacity
        /\ DOMAIN heap \subseteq CR /\ heap \in [DOMAIN heap -> Delay]
    BY DEF IInv, LoopOK
  <1>4. DOMAIN heap' \subseteq CR /\ heap' \in [DOMAIN heap' -> Delay]
    BY <1>1, <1>2, <1>3
  <1>5. channel' \in Seq(Entries) /\ Len(channel') = Len(channel)
    <2>1. \A e \in Entries : [e EXCEPT !.left = Less(@)] \in Entries
      BY <1>1
    <2>2. \A i \in DOMAIN channel : channel[i] \in Entries
      <3> HIDE DEF Entries
      <3> QED  BY <1>3
    <2>3. \A i \in DOMAIN channel : channel'[i] \in Entries
      BY <1>2, <2>1, <2>2
    <2>4. DOMAIN channel = 1 .. Len(channel) /\ Len(channel) \in Nat
      BY <1>3
    <2>5. channel' \in [1 .. Len(channel) -> Entries]
      BY <1>2, <2>3, <2>4
    <2> HIDE DEF Entries
    <2> QED  BY <2>4, <2>5
  <1>6. LoopOK'
    BY <1>2, <1>3, <1>4, <1>5 DEF IInv, LoopOK, Unlocked, stopVars
  <1>7. WorkersOK(at', has)
    BY <1>2 DEF IInv, WorkersOK, Busy
  <1>8. SetsOK' /\ QueueWellFormed'
    BY <1>2 DEF IInv, SetsOK, QueueWellFormed, Items, Unlocked
  <1> QED  BY <1>2, <1>6, <1>7, <1>8, RestKeeps

\* Every step keeps the invariant.
LEMMA IInvInductive ==
  IInv /\ [Next]_vars => IInv'
  <1> SUFFICES ASSUME IInv, [Next]_vars PROVE IInv'
    OBVIOUS
  <1>1. ASSUME NEW c \in CR, Inform(c) PROVE IInv'
    <2>1. Add(c) /\ UNCHANGED <<processing, has, stopVars, loopVars>>
      BY <1>1 DEF Inform
    <2>2. SetsOK' /\ QueueWellFormed' /\ WorkersOK(at', has)
      BY <1>1, <2>1, AddKeeps DEF IInv
    <2>3. LoopOK'
      BY <2>1 DEF IInv, LoopOK, stopVars, loopVars
    <2> QED  BY <2>1, <2>2, <2>3, RestKeeps
  <1>2. CASE ShutDown
    <2>1. SetsOK' /\ QueueWellFormed' /\ LoopOK'
      BY <1>2 DEF ShutDown, IInv, SetsOK, QueueWellFormed, Items, LoopOK, loopVars
    <2>2. WorkersOK(at', has)
      BY <1>2 DEF ShutDown, IInv, WorkersOK, Busy
    <2> QED  BY <1>2, <2>1, <2>2, RestKeeps DEF ShutDown
  <1>3. CASE CloseStopCh
    <2>1. SetsOK' /\ QueueWellFormed' /\ LoopOK'
      BY <1>3 DEF CloseStopCh, IInv, SetsOK, QueueWellFormed, Items, LoopOK,
                  loopVars, typeVars
    <2>2. WorkersOK(at', has)
      BY <1>3 DEF CloseStopCh, IInv, WorkersOK, typeVars
    <2> QED  BY <1>3, <2>1, <2>2, RestKeeps DEF CloseStopCh
  <1>4. CASE UNCHANGED vars
    <2>1. SetsOK' /\ QueueWellFormed' /\ LoopOK' /\ WorkersOK(at', has)
      BY <1>4 DEF IInv, SetsOK, QueueWellFormed, Items, LoopOK, WorkersOK,
                  vars, typeVars, stopVars, loopVars
    <2> QED  BY <1>4, <2>1, RestKeeps DEF vars
  <1> QED  BY <1>1, <1>2, <1>3, <1>4, WorkKeeps, LoopKeeps, TickKeeps DEF Next

\* Whatever happens, the queue and its two sets agree, and no item is in two
\* hands.
LEMMA AlwaysIInv ==
  Spec => []IInv
  BY InitParts, IInvInductive, PTL DEF Spec

\* The variables have their types and the channel its capacity.
THEOREM QueueTypes ==
  Spec => []TypeOK
  BY AlwaysIInv, IInvImplies, PTL

\* The queue holds exactly the items marked that no worker has, each once: none
\* is lost between the queue and the sets, and none is queued twice.
THEOREM QueueAgrees ==
  Spec => []QueueWellFormed
  <1>1. IInv => QueueWellFormed
    BY DEF IInv
  <1> QED  BY <1>1, AlwaysIInv, PTL

\* However many workers there are, no two of them have the same item.
THEOREM OneAtATime ==
  Spec => []NeverConcurrent
  <1>1. IInv => NeverConcurrent
    BY DEF IInv
  <1> QED  BY <1>1, AlwaysIInv, PTL

-----------------------------------------------------------------------------
(* The refinement.                                                         *)

\* What Append and Tail do to the items of any sequence.
LEMMA SeqItems ==
  ASSUME NEW S, NEW s \in Seq(S)
  PROVE  /\ \A e \in S : Items(Append(s, e)) = Items(s) \cup {e}
         /\ s # <<>> => Items(s) = Items(Tail(s)) \cup {Head(s)}
  <1>1. ASSUME NEW e \in S
        PROVE  Items(Append(s, e)) = Items(s) \cup {e}
    <2> DEFINE t == Append(s, e)
    <2>1. /\ \A i \in 1 .. Len(s) : t[i] = s[i]
          /\ t[Len(s) + 1] = e /\ DOMAIN t = 1 .. Len(s) + 1
          /\ DOMAIN s = 1 .. Len(s) /\ Len(s) \in Nat
      OBVIOUS
    <2> HIDE DEF t
    <2>2. DOMAIN t = DOMAIN s \cup {Len(s) + 1}
      BY <2>1
    <2>3. Items(t) = Items(s) \cup {e}
      BY <2>1, <2>2 DEF Items
    <2> QED  BY <2>3 DEF t
  <1>2. ASSUME s # <<>>
        PROVE  Items(s) = Items(Tail(s)) \cup {Head(s)}
    <2> DEFINE t == Tail(s)
    <2>1. /\ \A i \in 1 .. Len(s) - 1 : t[i] = s[i + 1]
          /\ DOMAIN t = 1 .. Len(s) - 1 /\ Head(s) = s[1]
          /\ DOMAIN s = 1 .. Len(s) /\ Len(s) \in Nat \ {0}
      BY <1>2
    <2> HIDE DEF t
    <2>2. \A i \in DOMAIN t : i + 1 \in DOMAIN s /\ t[i] = s[i + 1]
      BY <2>1
    <2>3. \A i \in DOMAIN s \ {1} : i - 1 \in DOMAIN t /\ t[i - 1] = s[i]
      BY <2>1
    <2>4. 1 \in DOMAIN s
      BY <2>1
    <2>5. Items(s) \subseteq Items(t) \cup {s[1]}
      BY <2>3 DEF Items
    <2>6. Items(t) \cup {s[1]} \subseteq Items(s)
      BY <2>2, <2>4 DEF Items
    <2> QED  BY <2>1, <2>5, <2>6 DEF t
  <1> QED  BY <1>1, <1>2

\* A worker without an item leaves fewer items being processed than workers.
LEMMA RoomForOne ==
  ASSUME IInv, NEW w \in Workers, has[w] = NoItem
  PROVE  Cardinality(processing) < Cardinality(Workers)
  <1> DEFINE B == {v \in Workers : has[v] # NoItem}
             f == [v \in B |-> has[v]]
  <1>1. processing = {has[v] : v \in Workers} \ {NoItem}
    BY DEF IInv, NeverConcurrent
  <1>2. f \in Surjection(B, processing)
    BY <1>1 DEF Surjection
  <1>3. B \subseteq Workers \ {w}
    OBVIOUS
  <1>4. /\ IsFiniteSet(Workers \ {w})
        /\ Cardinality(Workers \ {w}) = Cardinality(Workers) - 1
    BY WorkersFinite, FS_RemoveElement
  <1>5. IsFiniteSet(B) /\ Cardinality(B) <= Cardinality(Workers) - 1
    BY <1>3, <1>4, FS_Subset
  <1>6. IsFiniteSet(processing) /\ Cardinality(processing) <= Cardinality(B)
    BY <1>2, <1>5, FS_Surjection
  <1>7. /\ Cardinality(processing) \in Nat /\ Cardinality(B) \in Nat
        /\ Cardinality(Workers) \in Nat
    BY <1>5, <1>6, WorkersFinite, FS_CardinalityType
  <1> QED  BY <1>5, <1>6, <1>7

\* What the channel and the heap hold, whether or not it still counts.
InChannel == {entry.data : entry \in Items(channel)}
Later == InChannel \cup DOMAIN heap

\* Add is WorkQueue's Add, or nothing, for what comes later.
LEMMA AddMaps ==
  ASSUME NEW c \in CR, Add(c), processing' = processing, shuttingDown' = shuttingDown
  PROVE  /\ dirty' = dirty \/ dirty' = dirty \cup {c}
         /\ ~shuttingDown => dirty' = dirty \cup {c}
  BY DEF Add, typeVars

\* The loop takes entries out of the channel and the heap, and either puts them
\* back in the heap or adds them.
LEMMA LoopMaps ==
  ASSUME IInv, Loop
  PROVE  [WQ!QueueNext]_(WQ!queueVars)
  <1>0. /\ processing' = processing /\ shuttingDown' = shuttingDown
        /\ channel \in Seq([data : CR, left : Delay]) /\ DOMAIN heap \subseteq CR
    BY DEF IInv, LoopOK, Loop, Top, AddReady, Select, Wake, Receive, Drained,
           Unlocked, stopVars
  <1>1. CASE Top \/ Select \/ Wake \/ Drained
    <2>1. UNCHANGED <<dirty, processing, shuttingDown, channel, heap>>
      BY <1>0, <1>1 DEF Top, Select, Wake, Drained, typeVars
    <2> QED  BY <2>1 DEF WQ!queueVars, Delayed, Items
  <1>2. ASSUME NEW c \in CR, Add(c), Later' \subseteq Later, Later \subseteq Later' \cup {c}
        PROVE  [WQ!QueueNext]_(WQ!queueVars)
    <2>1. /\ Delayed = IF shuttingDown THEN {} ELSE Later
          /\ Delayed' = IF shuttingDown' THEN {} ELSE Later'
      BY DEF Delayed, Later, InChannel
    <2>2. CASE shuttingDown
      <3>1. dirty' = dirty
        BY <1>2, <2>2 DEF Add, typeVars
      <3> QED  BY <1>0, <2>1, <2>2, <3>1 DEF WQ!queueVars
    <2>3. CASE ~shuttingDown
      <3>1. dirty' = dirty \cup {c}
        BY <1>0, <1>2, <2>3, AddMaps
      <3>2. CASE Later' = Later
        <4>1. WQ!Add(c)
          BY <1>0, <2>1, <3>1, <3>2 DEF WQ!Add
        <4> QED  BY <4>1 DEF WQ!QueueNext
      <3>3. CASE Later' # Later
        <4>1. c \in Later /\ Later' = Later \ {c}
          BY <1>2, <3>3
        <4>2. WQ!TimerFires(c)
          BY <1>0, <2>1, <2>3, <3>1, <4>1 DEF WQ!TimerFires
        <4> QED  BY <4>2 DEF WQ!QueueNext
      <3> QED  BY <3>2, <3>3
    <2> QED  BY <2>2, <2>3
  <1>3. CASE AddReady
    <2>1. PICK c \in Ready : /\ heap' = [d \in DOMAIN heap \ {c} |-> heap[d]]
                             /\ Add(c)
      BY <1>3 DEF AddReady
    <2>2. c \in CR /\ DOMAIN heap' = DOMAIN heap \ {c} /\ channel' = channel
      BY <1>0, <1>3, <2>1 DEF Ready, AddReady
    <2>3. Later' \subseteq Later /\ Later \subseteq Later' \cup {c}
      BY <2>2 DEF Later, InChannel, Items
    <2> QED  BY <1>2, <2>1, <2>2, <2>3
  <1>4. CASE Receive
    <2> DEFINE entry == Head(channel)
               Entries == [data : CR, left : Delay]
    <2>1. channel # <<>> /\ channel' = Tail(channel) /\ channel \in Seq(Entries)
      BY <1>0, <1>4 DEF Receive
    <2>2. Items(channel) = Items(channel') \cup {entry} /\ entry \in Entries
      <3> HIDE DEF Entries
      <3> QED  BY <2>1, SeqItems
    <2>3. Items(channel)' = Items(channel')
      BY DEF Items
    <2>4. entry.data \in CR
      BY <2>2
    <2> HIDE DEF entry, Entries
    <2>5. InChannel = InChannel' \cup {entry.data}
      BY <2>2, <2>3 DEF InChannel
    <2>6. CASE entry.left > 0
      <3>1. heap' = insert(entry) /\ dirty' = dirty
        BY <1>4, <2>6 DEF Receive, entry, typeVars
      <3>2. DOMAIN heap' = DOMAIN heap \cup {entry.data}
        BY <3>1 DEF insert
      <3>3. Later' = Later
        BY <2>5, <3>2 DEF Later
      <3> QED  BY <1>0, <3>1, <3>3 DEF WQ!queueVars, Delayed, Later, InChannel
    <2>7. CASE ~(entry.left > 0)
      <3>1. heap' = heap /\ Add(entry.data)
        BY <1>4, <2>7 DEF Receive, entry
      <3>2. Later' \subseteq Later /\ Later \subseteq Later' \cup {entry.data}
        BY <2>5, <3>1 DEF Later
      <3> QED  BY <1>2, <2>4, <3>1, <3>2
    <2> QED  BY <2>6, <2>7
  <1> QED  BY <1>1, <1>3, <1>4 DEF Loop

\* What a worker does.
LEMMA WorkMaps ==
  ASSUME IInv, NEW w \in Workers, Work(w)
  PROVE  [WQ!QueueNext]_(WQ!queueVars)
  <1>1. CASE GetNothing(w) \/ Reconcile(w) \/ Until(w)
    <2>1. UNCHANGED <<dirty, processing, shuttingDown, channel, heap>>
      BY <1>1 DEF GetNothing, Reconcile, Until, stopVars, loopVars
    <2> QED  BY <2>1 DEF WQ!queueVars, Delayed, Items
  <1>2. CASE Get(w)
    <2> DEFINE c == Head(queue)
    <2>1. /\ processing' = processing \cup {c} /\ dirty' = dirty \ {c}
          /\ queue # <<>> /\ at[w] = "get"
          /\ UNCHANGED <<shuttingDown, channel, heap>>
      BY <1>2 DEF Get, stopVars, loopVars
    <2>2. queue \in Seq(CR) /\ Distinct(queue)
      BY DEF IInv, SetsOK, QueueWellFormed, Distinct
    <2>3. c \in Items(queue)
      BY <2>1, <2>2, TailItems
    <2> HIDE DEF c
    <2>4. c \in dirty \ processing /\ c \in CR
      BY <2>3 DEF IInv, QueueWellFormed, SetsOK
    <2>5. Cardinality(processing) < Cardinality(Workers)
      BY <2>1, RoomForOne DEF IInv, WorkersOK, Busy
    <2>6. Delayed' = Delayed
      BY <2>1 DEF Delayed, Items
    <2>7. WQ!Cardinality(processing) = Cardinality(processing)
      BY DEF WQ!Cardinality, Cardinality
    <2>8. WQ!Take(c)
      BY <2>1, <2>4, <2>5, <2>6, <2>7 DEF WQ!Take
    <2> QED  BY <2>4, <2>8 DEF WQ!QueueNext
  <1>3. CASE Done(w)
    <2>1. has[w] \in CR /\ has[w] \in processing
      BY <1>3 DEF Done, IInv, WorkersOK, NeverConcurrent, Busy
    <2>2. /\ processing' = processing \ {has[w]}
          /\ UNCHANGED <<dirty, shuttingDown, channel, heap>>
      BY <1>3 DEF Done, stopVars, loopVars
    <2>3. WQ!Finish(has[w], FALSE)
      BY <2>2 DEF WQ!Finish, Delayed, Items
    <2> QED  BY <2>1, <2>3 DEF WQ!QueueNext
  <1>4. CASE AddAfter(w)
    <2>1. has[w] \in CR /\ has[w] \in processing
      BY <1>4, NoItemIsNoItem DEF AddAfter, IInv, WorkersOK, NeverConcurrent, Busy
    <2>2. UNCHANGED <<dirty, processing, shuttingDown, heap>>
      BY <1>4 DEF AddAfter, stopVars
    <2>3. CASE UNCHANGED channel
      BY <2>2, <2>3 DEF WQ!queueVars, Delayed, Items
    <2>4. ASSUME NEW left \in 1 .. MaxDelay,
                 channel' = Append(channel, [data |-> has[w], left |-> left])
          PROVE  [WQ!QueueNext]_(WQ!queueVars)
      <3> DEFINE entry == [data |-> has[w], left |-> left]
                 Entries == [data : CR, left : Delay]
      <3>1. entry \in Entries /\ entry.data = has[w] /\ channel \in Seq(Entries)
        BY <2>1, MaxDelayType DEF Delay, IInv, LoopOK
      <3>2. channel' = Append(channel, entry)
        BY <2>4
      <3> HIDE DEF entry, Entries
      <3>3. Items(channel') = Items(channel) \cup {entry}
        BY <3>1, <3>2, SeqItems
      <3>4. Items(channel)' = Items(channel')
        BY DEF Items
      <3>5. InChannel' = InChannel \cup {has[w]}
        BY <3>1, <3>3, <3>4 DEF InChannel
      <3>6. CASE shuttingDown
        BY <2>2, <3>6 DEF WQ!queueVars, Delayed
      <3>7. CASE ~shuttingDown
        <4>1. Delayed' = Delayed \cup {has[w]}
          BY <2>2, <3>5, <3>7 DEF Delayed, InChannel
        <4>2. WQ!AddAfter(has[w])
          BY <2>1, <2>2, <4>1 DEF WQ!AddAfter
        <4> QED  BY <2>1, <4>2 DEF WQ!QueueNext
      <3> QED  BY <3>6, <3>7
    <2> QED  BY <1>4, <2>3, <2>4 DEF AddAfter
  <1> QED  BY <1>1, <1>2, <1>3, <1>4 DEF Work

\* Every step is one of WorkQueue, or none.
LEMMA NextMaps ==
  IInv /\ [Next]_vars => [WQ!QueueNext]_(WQ!queueVars)
  <1> SUFFICES ASSUME IInv, [Next]_vars PROVE [WQ!QueueNext]_(WQ!queueVars)
    OBVIOUS
  <1>1. ASSUME NEW c \in CR, Inform(c)
        PROVE  [WQ!QueueNext]_(WQ!queueVars)
    <2>1. Add(c) /\ UNCHANGED <<processing, shuttingDown, channel, heap>>
      BY <1>1 DEF Inform, stopVars, loopVars
    <2>2. Delayed' = Delayed
      BY <2>1 DEF Delayed, Items
    <2>3. CASE dirty' = dirty
      BY <2>1, <2>2, <2>3 DEF WQ!queueVars
    <2>4. CASE dirty' = dirty \cup {c}
      <3>1. WQ!Add(c)
        BY <2>1, <2>2, <2>4 DEF WQ!Add
      <3> QED  BY <3>1 DEF WQ!QueueNext
    <2> QED  BY <1>1, <2>1, <2>3, <2>4, AddMaps
  <1>2. CASE ShutDown
    <2>1. WQ!ShutDown
      BY <1>2 DEF ShutDown, WQ!ShutDown, Delayed
    <2> QED  BY <2>1 DEF WQ!QueueNext
  <1>3. CASE CloseStopCh
    BY <1>3 DEF CloseStopCh, typeVars, loopVars, WQ!queueVars, Delayed, Items
  <1>4. CASE Tick
    <2>1. /\ channel' = [i \in DOMAIN channel |-> channel'[i]]
          /\ DOMAIN channel' = DOMAIN channel /\ DOMAIN heap' = DOMAIN heap
      BY <1>4 DEF Tick
    <2>2. \A i \in DOMAIN channel : channel'[i].data = channel[i].data
      <3>1. channel \in Seq([data : CR, left : Delay])
        BY DEF IInv, LoopOK
      <3>2. \A i \in DOMAIN channel : channel[i] \in [data : CR, left : Delay]
        <4> DEFINE Entries == [data : CR, left : Delay]
        <4>1. channel \in Seq(Entries)
          BY <3>1
        <4> HIDE DEF Entries
        <4>2. \A i \in DOMAIN channel : channel[i] \in Entries
          BY <4>1
        <4> QED  BY <4>2 DEF Entries
      <3> QED  BY <1>4, <3>2 DEF Tick
    <2>3. {entry.data : entry \in Items(channel)} = {channel[i].data : i \in DOMAIN channel}
      BY DEF Items
    <2>4. {entry.data : entry \in Items(channel')}
            = {channel'[i].data : i \in DOMAIN channel'}
      BY DEF Items
    <2>5. Items(channel)' = Items(channel')
      BY DEF Items
    <2>6. {channel'[i].data : i \in DOMAIN channel'}
            = {channel[i].data : i \in DOMAIN channel}
      BY <2>1, <2>2
    <2>7. InChannel' = InChannel
      BY <2>3, <2>4, <2>5, <2>6 DEF InChannel
    <2>8. Delayed' = Delayed
      BY <1>4, <2>1, <2>7 DEF Tick, Delayed, InChannel, Unlocked, stopVars
    <2> QED  BY <1>4, <2>8 DEF Tick, Unlocked, WQ!queueVars
  <1>5. CASE UNCHANGED vars
    BY <1>5 DEF vars, typeVars, stopVars, loopVars, WQ!queueVars, Delayed, Items
  <1> QED  BY <1>1, <1>2, <1>3, <1>4, <1>5, WorkMaps, LoopMaps DEF Next

\* The queue of two sets, a slice, a channel and a heap is the queue the
\* controller's model uses, for any number of items and workers.
THEOREM Implements ==
  Spec => ImplementsWorkQueue
  <1>1. Init => WQ!QueueInit
    BY DEF Init, WQ!QueueInit, Delayed, Items
  <1> QED  BY <1>1, AlwaysIInv, NextMaps, PTL
           DEF Spec, ImplementsWorkQueue, WQ!QueueSpec

\* An item stays in the heap, with less and less time left, until it is marked.
THEOREM ComesBackInTime ==
  Spec => NeverPostponed
  <1> DEFINE Step == \A c \in DOMAIN heap :
                       IF c \in DOMAIN heap' THEN heap'[c] <= heap[c]
                                             ELSE c \in dirty' \/ shuttingDown
  <1>1. IInv /\ [Next]_vars => [Step]_vars
    <2> SUFFICES ASSUME IInv, Next PROVE Step
      OBVIOUS
    <2>0. \A c \in DOMAIN heap : heap[c] \in Nat
      BY MaxDelayType DEF IInv, LoopOK, Delay
    <2>1. CASE heap' = heap
      BY <2>0, <2>1
    <2>2. CASE AddReady
      <3>1. PICK c \in Ready : /\ heap' = [d \in DOMAIN heap \ {c} |-> heap[d]]
                               /\ Add(c)
        BY <2>2 DEF AddReady
      <3>2. c \in dirty' \/ shuttingDown
        BY <3>1 DEF Add, typeVars
      <3>3. \A d \in DOMAIN heap \ {c} : d \in DOMAIN heap' /\ heap'[d] = heap[d]
        BY <3>1
      <3>4. c \notin DOMAIN heap'
        BY <3>1
      <3> QED  BY <2>0, <3>2, <3>3, <3>4
    <2>3. CASE Receive /\ heap' = insert(Head(channel))
      <3> DEFINE entry == Head(channel)
                 Entries == [data : CR, left : Delay]
      <3>1. channel \in Seq(Entries) /\ channel # <<>>
        BY <2>3 DEF IInv, LoopOK, Receive
      <3>2. entry \in Entries
        <4> HIDE DEF Entries
        <4> QED  BY <3>1
      <3>3. entry.left \in Nat
        BY <3>2 DEF Delay
      <3> HIDE DEF entry, Entries
      <3>4. heap' = insert(entry)
        BY <2>3 DEF entry
      <3>5. DOMAIN heap' = DOMAIN heap \cup {entry.data}
        BY <3>4 DEF insert
      <3>6. \A c \in DOMAIN heap :
              heap'[c] = IF c = entry.data /\ entry.left < heap[c]
                         THEN entry.left ELSE heap[c]
        BY <3>4 DEF insert
      <3> QED  BY <2>0, <3>3, <3>5, <3>6
    <2>4. CASE Tick
      BY <2>0, <2>4 DEF Tick
    <2> QED  BY <2>1, <2>2, <2>3, <2>4
             DEF Next, Inform, Work, Get, GetNothing, Reconcile, AddAfter, Done,
                 Until, Loop, Top, Select, Wake, Receive, Drained, ShutDown,
                 CloseStopCh, loopVars
  <1> QED  BY <1>1, AlwaysIInv, PTL DEF Spec, NeverPostponed

-----------------------------------------------------------------------------
(* Wake-ups.                                                               *)

Looking(f) == {w \in Workers : f[w] = "get"}

\* NoLostWakeup, of workers that are where f says and a queue q.
Covered(f, q) ==
  (\E w \in Workers : f[w] = "waiting") => Len(q) <= Cardinality(Looking(f))

\* The number of workers at Get.
LEMMA LookingIsFinite ==
  ASSUME NEW f
  PROVE  IsFiniteSet(Looking(f)) /\ Cardinality(Looking(f)) \in Nat
  <1>1. Looking(f) \subseteq Workers
    BY DEF Looking
  <1> QED  BY <1>1, WorkersFinite, FS_Subset, FS_CardinalityType

\* One more worker at Get.
LEMMA OneMore ==
  ASSUME NEW f, DOMAIN f = Workers, NEW w \in Workers, f[w] # "get",
         NEW g, g = [f EXCEPT ![w] = "get"]
  PROVE  Cardinality(Looking(g)) = Cardinality(Looking(f)) + 1
  <1>1. Looking(g) = Looking(f) \cup {w} /\ w \notin Looking(f)
    BY DEF Looking
  <1> QED  BY <1>1, LookingIsFinite, FS_AddElement

\* A signal covers the item it announces.
LEMMA SignalCovers ==
  ASSUME NEW f, DOMAIN f = Workers, NEW q \in Seq(CR), NEW c \in CR,
         Covered(f, q), NEW g \in Signalled(f)
  PROVE  Covered(g, Append(q, c))
  <1>1. Len(Append(q, c)) = Len(q) + 1 /\ Len(q) \in Nat
    OBVIOUS
  <1>2. CASE \A w \in Workers : f[w] # "waiting"
    <2>1. g = f
      BY <1>2 DEF Signalled
    <2> QED  BY <1>2, <2>1 DEF Covered
  <1>3. CASE \E w \in Workers : f[w] = "waiting"
    <2>1. PICK w \in Workers : f[w] = "waiting" /\ g = [f EXCEPT ![w] = "get"]
      BY <1>3 DEF Signalled
    <2>2. Cardinality(Looking(g)) = Cardinality(Looking(f)) + 1
      BY <2>1, OneMore
    <2> QED  BY <1>1, <1>3, <2>2, LookingIsFinite DEF Covered
  <1> QED  BY <1>2, <1>3

\* A worker that goes on, and neither leaves Get nor comes to wait.
LEMMA GoesOn ==
  ASSUME NEW f, DOMAIN f = Workers, NEW q \in Seq(CR), Covered(f, q),
         NEW w \in Workers, f[w] \notin {"get", "waiting"},
         NEW next, next # "waiting", NEW g, g = [f EXCEPT ![w] = next]
  PROVE  Covered(g, q)
  <1>1. \A v \in Workers : g[v] = "waiting" <=> f[v] = "waiting"
    OBVIOUS
  <1>2. Looking(f) \subseteq Looking(g)
    BY DEF Looking
  <1>3. Cardinality(Looking(f)) <= Cardinality(Looking(g))
    BY <1>2, LookingIsFinite, FS_Subset
  <1>4. Len(q) \in Nat
    OBVIOUS
  <1> QED  BY <1>1, <1>3, <1>4, LookingIsFinite DEF Covered

\* No step uncovers an item.
LEMMA CoveredStep ==
  ASSUME IInv, [Next]_vars, Covered(at, queue)
  PROVE  Covered(at', queue')
  <1>0. DOMAIN at = Workers /\ queue \in Seq(CR)
    BY DEF IInv, WorkersOK, SetsOK
  <1>1. ASSUME NEW c \in CR, Add(c)
        PROVE  Covered(at', queue')
    BY <1>0, <1>1, SignalCovers DEF Add, typeVars
  <1>2. ASSUME NEW w \in Workers, Get(w)
        PROVE  Covered(at', queue')
    <2>1. /\ queue' = Tail(queue) /\ queue # <<>>
          /\ at[w] = "get" /\ at' = [at EXCEPT ![w] = "asleep"]
      BY <1>2 DEF Get
    <2>2. Len(queue') = Len(queue) - 1 /\ Len(queue) \in Nat
      BY <1>0, <2>1
    <2>3. Looking(at') = Looking(at) \ {w} /\ w \in Looking(at)
      BY <1>0, <2>1 DEF Looking
    <2>4. Cardinality(Looking(at')) = Cardinality(Looking(at)) - 1
      BY <2>3, LookingIsFinite, FS_RemoveElement
    <2>5. \A v \in Workers : at'[v] = "waiting" <=> at[v] = "waiting"
      BY <1>0, <2>1
    <2> QED  BY <2>2, <2>4, <2>5, LookingIsFinite DEF Covered
  <1>3. ASSUME NEW w \in Workers, GetNothing(w)
        PROVE  Covered(at', queue')
    <2>1. queue' = <<>> /\ Len(queue') = 0
      BY <1>3 DEF GetNothing
    <2> QED  BY <2>1, LookingIsFinite DEF Covered
  <1>4. ASSUME NEW w \in Workers, Reconcile(w) \/ AddAfter(w) \/ Until(w)
        PROVE  Covered(at', queue')
    <2>1. /\ queue' = queue /\ at[w] \in {"run", "later", "pause"}
          /\ \E next \in {"done", "later", "get", "exit"} :
               at' = [at EXCEPT ![w] = next]
      BY <1>4 DEF Reconcile, AddAfter, Until
    <2> QED  BY <1>0, <2>1, GoesOn
  <1>5. ASSUME NEW w \in Workers, Done(w)
        PROVE  Covered(at', queue')
    <2>1. at[w] = "done" /\ has[w] \in CR
      BY <1>5 DEF Done, IInv, WorkersOK, Busy
    <2>2. \A f \in After(w) : DOMAIN f = Workers /\ Covered(f, queue)
      <3>1. \A next \in {"get", "pause"} :
              Covered([at EXCEPT ![w] = next], queue)
        BY <1>0, <2>1, GoesOn
      <3> QED  BY <1>0, <3>1 DEF After
    <2>3. CASE has[w] \in dirty
      <3>1. /\ queue' = Append(queue, has[w])
            /\ \E f \in After(w) : at' \in Signalled(f)
        BY <1>5, <2>3 DEF Done
      <3> QED  BY <1>0, <2>1, <2>2, <3>1, SignalCovers
    <2>4. CASE has[w] \notin dirty
      BY <1>5, <2>2, <2>4 DEF Done
    <2> QED  BY <2>3, <2>4
  <1>6. CASE ShutDown
    <2>1. \A w \in Workers : at'[w] # "waiting"
      BY <1>6 DEF ShutDown
    <2> QED  BY <2>1 DEF Covered
  <1>7. CASE Tick
    <2>1. queue' = queue
      BY <1>7 DEF Tick
    <2>2. at' = [w \in Workers |-> IF at[w] = "asleep" THEN "run" ELSE at[w]]
      BY <1>7 DEF Tick
    <2>3. \A w \in Workers : at'[w] = "waiting" <=> at[w] = "waiting"
      BY <2>2
    <2>4. Looking(at') = Looking(at)
      BY <2>2 DEF Looking
    <2> QED  BY <2>1, <2>3, <2>4 DEF Covered
  <1>8. CASE UNCHANGED typeVars
    BY <1>8 DEF typeVars, Covered, Looking
  <1>9. CASE Loop
    <2>1. ASSUME NEW c \in CR, Add(c) PROVE Covered(at', queue')
      BY <1>1, <2>1
    <2>2. CASE AddReady
      <3>1. DOMAIN heap \subseteq CR
        BY DEF IInv, LoopOK
      <3> QED  BY <2>1, <2>2, <3>1 DEF AddReady, Ready
    <2>3. CASE Receive
      <3> DEFINE Entries == [data : CR, left : Delay]
      <3>1. channel \in Seq(Entries) /\ channel # <<>>
        BY <2>3 DEF IInv, LoopOK, Receive
      <3>2. Head(channel) \in Entries
        <4> HIDE DEF Entries
        <4> QED  BY <3>1
      <3>3. Head(channel).data \in CR
        BY <3>2
      <3> QED  BY <1>8, <2>1, <2>3, <3>3 DEF Receive
    <2> QED  BY <1>8, <1>9, <2>2, <2>3 DEF Loop, Top, Select, Wake, Drained
  <1> QED  BY <1>1, <1>2, <1>3, <1>4, <1>5, <1>6, <1>7, <1>8, <1>9
           DEF Next, Inform, Work, CloseStopCh, vars

\* While a worker waits, as many others are at Get as there are items in the
\* queue: however signals and arrivals interleave, no wake-up is lost.
THEOREM WakeupsAreKept ==
  Spec => []NoLostWakeup
  <1>1. Covered(at, queue) <=> NoLostWakeup
    BY DEF Covered, Looking, NoLostWakeup
  <1>2. Init => Covered(at, queue)
    BY DEF Init, Covered
  <1>3. IInv /\ Covered(at, queue) /\ [Next]_vars => Covered(at, queue)'
    BY CoveredStep
  <1>4. Spec => []Covered(at, queue)
    BY <1>2, <1>3, AlwaysIInv, PTL DEF Spec
  <1> QED  BY <1>1, <1>4, PTL
=============================================================================
