------------------------- MODULE BookkeepingProofs -------------------------
(***************************************************************************)
(* The Bookkeeping of ControllerInvariants is inductive, whatever fails,   *)
(* and with it only users change what is asked for.                        *)
(***************************************************************************)
EXTENDS ControllerProofs, SequenceTheorems

(* What the steps of a worker are to these invariants.                     *)

\* A step inside a run: the worker keeps its copy.
GoesOn(c) ==
  /\ UNCHANGED <<apiVars, queueVars>>
  /\ HasCopy(c) /\ HasCopy(c)'
  /\ wk' = [wk EXCEPT ![c] = wk'[c]]
  /\ wk'[c].fresh = wk[c].fresh
  /\ wk'[c].copy.status.checksum = wk[c].copy.status.checksum
  /\ wk'[c].copy.present = wk[c].copy.present
  /\ \/ /\ wk'[c].copy.spec.body = wk[c].copy.spec.body
        /\ wk'[c].pc \in {"session", "references"} =>
             wk[c].pc \in {"session", "references"}
     \/ /\ wk[c].pc = "references" /\ wk'[c].pc = "describe"
        /\ wk'[c].copy.spec.body \in Resolutions[wk[c].copy.spec.body]

\* A run that ends without writing.
GivesUp(c, again) ==
  UNCHANGED apiVars /\ Return(c, again)

\* The step that reads the resource.
Reads(c) ==
  /\ wk[c].pc = "get"
  /\ UNCHANGED apiVars
  /\ \/ Hold(c, cache[c]) /\ ~NotUpdated(cache[c]) /\ cache[c].present /\ Inside
     \/ Return(c, FALSE) /\ (~cache[c].present \/ NotUpdated(cache[c]))

\* A step of SetAssumeRoleProvider goes on to write a Failure.
LEMMA ProviderKind ==
  ASSUME TypeOK, NEW c \in CR, SetAssumeRoleProvider(c)
  PROVE  /\ GoesOn(c)
         /\ wk'[c].pc = "update" /\ wk'[c].then = "provider"
         /\ wk'[c].left = wk[c].left - 1
         /\ wk'[c].copy.spec.body = wk[c].copy.spec.body
  <1>1. PICK d :
          wk' = [wk EXCEPT ![c] = [@ EXCEPT
            !.pc = "update", !.left = wk[c].left - 1, !.then = "provider",
            !.copy = [wk[c].copy EXCEPT !.spec.defaulted = d,
                                        !.status.phase = "Failure"]]]
    BY DEF SetAssumeRoleProvider
  <1>2. /\ wk \in [CR -> Worker] /\ wk[c] \in Worker
        /\ wk[c].copy \in Object /\ wk[c].copy.spec \in StackSpec
        /\ wk[c].copy.status \in Status
    BY DEF TypeOK, ReconcilerTypeOK, Worker, Object
  <1> DEFINE said == [wk[c].copy EXCEPT !.spec.defaulted = d,
                                        !.status.phase = "Failure"]
  <1> DEFINE less == wk[c].left - 1
  <1>3. /\ said.status.checksum = wk[c].copy.status.checksum
        /\ said.spec.body = wk[c].copy.spec.body
        /\ said.present = wk[c].copy.present
    BY <1>2 DEF Object, StackSpec, Status
  <1>4. wk' = [wk EXCEPT ![c] = [@ EXCEPT !.pc = "update", !.left = less,
                                   !.then = "provider", !.copy = said]]
    BY <1>1
  <1> HIDE DEF said, less
  <1>5. /\ wk' = [wk EXCEPT ![c] = wk'[c]] /\ wk'[c].pc = "update"
        /\ wk'[c].copy = said /\ wk'[c].fresh = wk[c].fresh
        /\ wk'[c].then = "provider" /\ wk'[c].left = less
    BY <1>2, <1>4 DEF Worker
  <1> USE DEF less
  <1> QED  BY <1>3, <1>5
           DEF GoesOn, HasCopy, SetAssumeRoleProvider, Inside

\* Opening the session either goes on to the next call of the run or ends it.
LEMMA SessionKind ==
  ASSUME TypeOK, NEW c \in CR, Session(c)
  PROVE  GoesOn(c) \/ GivesUp(c, FALSE)
  <1> DEFINE filled == [wk[c].copy EXCEPT !.spec.defaulted = TRUE]
  <1>1. /\ wk \in [CR -> Worker] /\ wk[c] \in Worker
        /\ wk[c].copy \in Object /\ wk[c].copy.spec \in StackSpec
    BY DEF TypeOK, ReconcilerTypeOK, Worker, Object
  <1>2. /\ filled.status = wk[c].copy.status
        /\ filled.spec.body = wk[c].copy.spec.body
        /\ filled.present = wk[c].copy.present
    BY <1>1 DEF Object, StackSpec
  <1> HIDE DEF filled
  <1>3. ASSUME NEW pc \in {"describe", "references"}, GoTo(c, pc, filled),
               Inside, UNCHANGED apiVars, wk[c].pc = "session"
        PROVE  GoesOn(c)
    BY <1>1, <1>2, <1>3 DEF GoesOn, HasCopy, Worker, GoTo, Inside
  <1> QED  BY <1>3 DEF Session, GivesUp, filled

\* Moving to another call of a run leaves the copy it works on as it was read.
LEMMA GoToGoesOn ==
  ASSUME TypeOK, NEW c \in CR, NEW pc \in Pc,
         pc \notin {"idle", "get", "session", "references"},
         HasCopy(c), GoTo(c, pc, wk[c].copy), Inside, UNCHANGED apiVars
  PROVE  GoesOn(c)
  BY DEF TypeOK, ReconcilerTypeOK, Worker, GoTo, Inside, GoesOn, HasCopy

\* Changing the phase before an Update keeps the copy's spec and checksum.
LEMMA UpdateStatusGoesOn ==
  ASSUME TypeOK, NEW c \in CR, NEW phase, NEW then,
         HasCopy(c), UpdateStatus(c, phase, then), Inside, UNCHANGED apiVars
  PROVE  GoesOn(c)
  <1>1. wk[c] \in Worker /\ wk[c].copy \in Object /\ wk[c].copy.status \in Status
    BY DEF TypeOK, ReconcilerTypeOK, Worker, Object
  <1> DEFINE copy == [wk[c].copy EXCEPT !.status.phase = phase]
  <1>2. /\ copy.status.checksum = wk[c].copy.status.checksum
        /\ copy.spec.body = wk[c].copy.spec.body
        /\ copy.present = wk[c].copy.present
    BY <1>1 DEF Object, Status
  <1>3. wk' = [wk EXCEPT ![c] = [@ EXCEPT !.pc = "update", !.copy = copy,
                                          !.then = then]]
    BY DEF UpdateStatus
  <1> HIDE DEF copy
  <1> QED  BY <1>1, <1>2, <1>3
           DEF TypeOK, ReconcilerTypeOK, Worker, Inside, GoesOn, HasCopy

\* So does recording the name of a change set.
LEMMA RecordGoesOn ==
  ASSUME TypeOK, NEW c \in CR, NEW n, NEW phase, NEW then,
         HasCopy(c), RecordChangeSet(c, n, phase, then), Inside,
         UNCHANGED apiVars
  PROVE  GoesOn(c)
  <1>1. wk[c] \in Worker /\ wk[c].copy \in Object /\ wk[c].copy.status \in Status
    BY DEF TypeOK, ReconcilerTypeOK, Worker, Object
  <1> DEFINE status == [wk[c].copy.status EXCEPT !.phase = phase,
                                                 !.changeset = n]
  <1> DEFINE copy == [wk[c].copy EXCEPT !.status = status]
  <1>2. /\ copy.status.checksum = wk[c].copy.status.checksum
        /\ copy.spec.body = wk[c].copy.spec.body
        /\ copy.present = wk[c].copy.present
    BY <1>1 DEF Object, Status
  <1>3. wk' = [wk EXCEPT ![c] = [@ EXCEPT !.pc = "update", !.then = then,
                                          !.copy = copy]]
    BY DEF RecordChangeSet
  <1> HIDE DEF copy
  <1> QED  BY <1>1, <1>2, <1>3
           DEF TypeOK, ReconcilerTypeOK, Worker, Inside, GoesOn, HasCopy

\* Between the session and the Update, a run goes on or will be retried; only
\* without the events of its stack it ends for good.
LEMMA MiddleKind ==
  ASSUME TypeOK, NEW c \in CR,
         \/ References(c) \/ Describe(c) \/ Events(c) \/ List(c)
         \/ Template(c) \/ CreateChangeSet(c) \/ ExecuteChangeSet(c)
  PROVE  \/ GoesOn(c) \/ GivesUp(c, TRUE)
         \/ /\ Events(c) /\ GivesUp(c, FALSE)
            /\ Fault("describeStackEvents") \/ ~Exists(StackOf[c])
  <1>type. /\ wk \in [CR -> Worker] /\ wk[c] \in Worker
           /\ wk[c].copy \in Object /\ wk[c].copy.spec \in StackSpec
    BY DEF TypeOK, ReconcilerTypeOK, Worker, Object
  <1>1. CASE References(c)
    <2>1. ASSUME NEW b \in Resolutions[TheBody(c)], Inside, UNCHANGED apiVars,
                 GoTo(c, "describe", [wk[c].copy EXCEPT !.spec.body = b]),
                 wk[c].pc = "references"
          PROVE  GoesOn(c)
      <3> DEFINE copy == [wk[c].copy EXCEPT !.spec.body = b]
      <3>1. /\ copy.status = wk[c].copy.status
            /\ copy.spec.body \in Resolutions[wk[c].copy.spec.body]
            /\ copy.present = wk[c].copy.present
        BY <1>type DEF Object, StackSpec, TheBody
      <3>2. wk' = [wk EXCEPT ![c] = [@ EXCEPT !.pc = "describe", !.copy = copy]]
        BY <2>1 DEF GoTo
      <3> HIDE DEF copy
      <3> QED  BY <1>type, <2>1, <3>1, <3>2 DEF Worker, Inside, GoesOn, HasCopy
    <2> QED  BY <1>1, <2>1, GoToGoesOn, UpdateStatusGoesOn
             DEF References, HasCopy, Pc
  <1>2. CASE Describe(c)
    <2>1. ASSUME Inside, UNCHANGED apiVars, wk[c].pc = "describe", NEW seen,
                 wk' = [wk EXCEPT ![c].pc = "events", ![c].seen = seen]
          PROVE  GoesOn(c)
      BY <1>type, <2>1 DEF Worker, Inside, GoesOn, HasCopy
    <2> QED  BY <1>2, <2>1, GoToGoesOn DEF Describe, HasCopy, Pc
  <1>3. CASE Events(c)
    BY <1>3, GoToGoesOn, UpdateStatusGoesOn
    DEF Events, GivesUp, HasCopy, Pc
  <1>4. CASE List(c)
    BY <1>4, GoToGoesOn, UpdateStatusGoesOn DEF List, GivesUp, HasCopy, Pc
  <1>5. CASE Template(c)
    BY <1>5, GoToGoesOn, UpdateStatusGoesOn DEF Template, HasCopy, Pc
  <1>6. CASE CreateChangeSet(c)
    BY <1>6, RecordGoesOn DEF CreateChangeSet, HasCopy
  <1>7. CASE ExecuteChangeSet(c)
    BY <1>7, UpdateStatusGoesOn DEF ExecuteChangeSet, HasCopy
  <1> QED  BY <1>1, <1>2, <1>3, <1>4, <1>5, <1>6, <1>7

\* The first call of a run is a read through the cache.
LEMMA GetKind ==
  ASSUME NEW c \in CR, Get(c)
  PROVE  Reads(c)
  BY DEF Get, Reads

\* No other resource notices a step of the worker that has c.
LEMMA OthersUntouched ==
  ASSUME TypeOK, NEW c \in CR, NEW d \in CR, c # d,
         \/ GoesOn(c) \/ Reads(c) \/ Update(c)
         \/ \E again \in BOOLEAN : GivesUp(c, again)
  PROVE  /\ wk'[d] = wk[d] /\ obj'[d] = obj[d]
         /\ cache'[d] = cache[d] /\ watch'[d] = watch[d]
         /\ d \in dirty' <=> d \in dirty
         /\ d \in processing' <=> d \in processing
         /\ d \in delayed' <=> d \in delayed
  <1> USE DEF TypeOK, ReconcilerTypeOK, ApiTypeOK, QueueTypeOK, apiVars,
              queueVars, Inside
  <1>1. \A again \in BOOLEAN : Return(c, again) =>
          /\ wk'[d] = wk[d]
          /\ d \in dirty' <=> d \in dirty
          /\ d \in processing' <=> d \in processing
          /\ d \in delayed' <=> d \in delayed
    BY DEF Return, Finish
  <1>2. CASE GoesOn(c)
    BY <1>2 DEF GoesOn
  <1>3. CASE Reads(c)
    BY <1>1, <1>3 DEF Reads, Hold
  <1>4. CASE \E again \in BOOLEAN : GivesUp(c, again)
    BY <1>1, <1>4 DEF GivesUp
  <1>5. CASE Update(c)
    <2>1. \/ Updated(c) \/ \E again \in BOOLEAN : Return(c, again)
      BY <1>5 DEF Update
    <2>2. Put(c) \/ UNCHANGED apiVars
      BY <1>5 DEF Update
    <2>3. /\ obj'[d] = obj[d] /\ cache'[d] = cache[d] /\ watch'[d] = watch[d]
      BY <2>2 DEF Put, Store
    <2>4. ASSUME NEW pc, Resume(c, pc)
          PROVE  /\ wk'[d] = wk[d]
                 /\ d \in dirty' <=> d \in dirty
                 /\ d \in processing' <=> d \in processing
                 /\ d \in delayed' <=> d \in delayed
      BY <2>4 DEF Resume
    <2>5. (wk[c].then \in {"requeue", "fail"}) \in BOOLEAN
      OBVIOUS
    <2>6. Updated(c) => /\ wk'[d] = wk[d]
                        /\ d \in dirty' <=> d \in dirty
                        /\ d \in processing' <=> d \in processing
                        /\ d \in delayed' <=> d \in delayed
      BY <1>1, <2>4, <2>5 DEF Updated
    <2> QED  BY <1>1, <2>1, <2>3, <2>6
  <1> QED  BY <1>2, <1>3, <1>4, <1>5

-----------------------------------------------------------------------------
(* Bookkeeping, whatever fails.                                            *)

\* What the server stores and tells is what the cache gets to.
LEMMA StoreFollows ==
  ASSUME ApiTypeOK, NEW c \in CR, NEW o \in Object, Store(c, o)
  PROVE  CacheFollows(c)' /\ watch'[c] # <<>> /\ obj'[c] = o
  <1>1. watch[c] \in Seq(Object) /\ watch'[c] = Append(watch[c], o)
    BY DEF ApiTypeOK, Store
  <1>2. watch'[c] # <<>> /\ watch'[c][Len(watch'[c])] = o
    BY <1>1
  <1>3. obj'[c] = o
    BY DEF ApiTypeOK, Store
  <1> QED  BY <1>2, <1>3 DEF CacheFollows

\* A resource nothing happens to.
LEMMA ConsistentStays ==
  ASSUME NEW c \in CR, Consistent(c),
         wk'[c] = wk[c], obj'[c] = obj[c],
         cache'[c] = cache[c], watch'[c] = watch[c],
         c \in dirty => c \in dirty',
         c \in processing' <=> c \in processing
  PROVE  Consistent(c)'
  <1>1. CacheFollows(c)' /\ ProcessingIsWorking(c)'
    BY DEF Consistent, CacheFollows, ProcessingIsWorking
  <1>2. HasReason(c)'
    BY DEF Consistent, HasReason, HasCopy, Announced
  <1>3. CopyIsFaithful(c)'
    BY DEF Consistent, CopyIsFaithful, HasCopy, TheBody
  <1> QED  BY <1>1, <1>2, <1>3 DEF Consistent

\* The end of a run.
LEMMA ReturnConsistent ==
  ASSUME TypeOK, NEW c \in CR, NEW again, Return(c, again), CacheFollows(c)'
  PROVE  Consistent(c)'
  <1>1. wk'[c] = Idle /\ c \notin processing'
    BY DEF TypeOK, ReconcilerTypeOK, Return, Finish
  <1>2. Idle.pc = "idle"
    BY DEF Idle
  <1>3. wk'[c].pc = "idle"
    BY <1>1, <1>2
  <1>4. ProcessingIsWorking(c)'
    BY <1>1, <1>3 DEF ProcessingIsWorking
  <1>5. HasReason(c)' /\ CopyIsFaithful(c)'
    BY <1>3 DEF HasReason, CopyIsFaithful, HasCopy
  <1> QED  BY <1>4, <1>5 DEF Consistent

\* What one step of the worker does to its own resource.
LEMMA OwnConsistent ==
  ASSUME TypeOK, NEW c \in CR, Consistent(c),
         \/ GoesOn(c) \/ Reads(c) \/ Update(c)
         \/ \E again \in BOOLEAN : GivesUp(c, again)
  PROVE  Consistent(c)'
  <1>type. /\ wk \in [CR -> Worker] /\ wk[c] \in Worker /\ ApiTypeOK
           /\ wk[c].copy \in Object /\ cache[c] \in Object
    BY DEF TypeOK, ReconcilerTypeOK, Worker, ApiTypeOK
  <1>same. UNCHANGED apiVars => CacheFollows(c)'
    BY DEF apiVars, CacheFollows, Consistent
  <1>1. CASE GoesOn(c)
    <2>1. ProcessingIsWorking(c)'
      BY <1>1 DEF GoesOn, ProcessingIsWorking, Consistent, HasCopy, queueVars
    <2>2. HasReason(c)'
      <3>1. /\ HasCopy(c) /\ obj'[c] = obj[c] /\ (Announced(c) => Announced(c)')
            /\ wk'[c].fresh = wk[c].fresh
            /\ wk'[c].copy.status.checksum = wk[c].copy.status.checksum
        BY <1>1 DEF GoesOn, Announced, apiVars, queueVars
      <3> QED  BY <3>1 DEF HasReason, Consistent, Terminal
    <2>3. CopyIsFaithful(c)'
      <3>1. /\ HasCopy(c) /\ obj'[c] = obj[c] /\ wk'[c].fresh = wk[c].fresh
            /\ wk'[c].copy.present = wk[c].copy.present
            /\ \/ /\ wk'[c].copy.spec.body = wk[c].copy.spec.body
                  /\ wk'[c].pc \in {"session", "references"} =>
                       wk[c].pc \in {"session", "references"}
               \/ /\ wk[c].pc = "references" /\ wk'[c].pc = "describe"
                  /\ wk'[c].copy.spec.body \in
                       Resolutions[wk[c].copy.spec.body]
        BY <1>1 DEF GoesOn, apiVars
      <3> QED  BY <3>1 DEF CopyIsFaithful, Consistent, TheBody
    <2> QED  BY <1>1, <1>same, <2>1, <2>2, <2>3 DEF GoesOn, Consistent
  <1>2. CASE \E again \in BOOLEAN : GivesUp(c, again)
    BY <1>2, <1>same, ReturnConsistent DEF GivesUp
  <1>3. CASE Reads(c)
    <2>1. CASE Return(c, FALSE)
      BY <1>3, <2>1, <1>same, ReturnConsistent DEF Reads
    <2>2. CASE /\ Hold(c, cache[c]) /\ Inside
               /\ ~NotUpdated(cache[c]) /\ cache[c].present
      <3> DEFINE held == [cache[c] EXCEPT !.status.checksum =
                                            Checksum(cache[c].spec)]
      <3>1. /\ held.status.checksum = Checksum(cache[c].spec)
            /\ held.spec = cache[c].spec /\ held.present = cache[c].present
        BY <1>type DEF Object, Status
      <3>2. wk'[c].pc = "session" /\ wk'[c].copy = held
            /\ wk'[c].fresh = (watch[c] = <<>>)
        BY <1>type, <2>2 DEF Hold, Worker
      <3>3. UNCHANGED <<apiVars, queueVars>>
        BY <1>3, <2>2 DEF Reads, Inside
      <3>4. ProcessingIsWorking(c)'
        BY <1>3, <3>2, <3>3
        DEF Reads, ProcessingIsWorking, Consistent, queueVars
      <3> HIDE DEF held
      <3>5. HasReason(c)'
        BY <2>2, <3>1, <3>2, <3>3
        DEF HasReason, HasCopy, Announced, Consistent, CacheFollows, NotUpdated,
            apiVars, queueVars
      <3>6. CopyIsFaithful(c)'
        BY <3>1, <3>2, <3>3
        DEF CopyIsFaithful, HasCopy, TheBody, Consistent, CacheFollows, apiVars
      <3> QED  BY <1>same, <3>3, <3>4, <3>5, <3>6 DEF Consistent
    <2> QED  BY <1>3, <2>1, <2>2 DEF Reads
  <1>4. CASE Update(c)
    <2>1. Put(c) => CacheFollows(c)'
      BY <1>type, <1>same, StoreFollows DEF Put
    <2>2. CASE \E again \in BOOLEAN : Return(c, again)
      BY <1>4, <2>1, <2>2, <1>same, ReturnConsistent DEF Update
    <2>3. ASSUME wk[c].fresh, Put(c), NEW pc \in {"describe", "session"},
                 Resume(c, pc)
          PROVE  Consistent(c)'
      <3>1. /\ wk'[c].pc = pc /\ wk'[c].fresh
            /\ wk'[c].copy = wk[c].copy /\ Inside
        BY <1>type, <2>3 DEF Worker, Resume
      <3>2. HasCopy(c) /\ wk[c].pc = "update"
        BY <1>4 DEF Update, HasCopy
      <3>3. ProcessingIsWorking(c)'
        BY <3>1, <3>2
        DEF Inside, queueVars, ProcessingIsWorking, Consistent
      <3>4. CASE Store(c, wk[c].copy)
        <4>1. watch'[c] # <<>> /\ obj'[c] = wk[c].copy
          BY <1>type, <3>4, StoreFollows
        <4>2. HasReason(c)'
          BY <4>1 DEF HasReason, Announced
        <4>3. CopyIsFaithful(c)'
          BY <3>1, <4>1 DEF CopyIsFaithful, TheBody
        <4> QED  BY <2>1, <2>3, <3>3, <4>2, <4>3 DEF Consistent
      <3>5. CASE wk[c].copy = obj[c] /\ UNCHANGED apiVars
        <4>1. HasReason(c)'
          BY <2>3, <3>1, <3>2, <3>5
          DEF HasReason, HasCopy, Announced, Inside, queueVars, apiVars,
              Consistent
        <4>2. CopyIsFaithful(c)'
          BY <3>1, <3>5 DEF CopyIsFaithful, TheBody, apiVars
        <4> QED  BY <2>1, <2>3, <3>3, <4>1, <4>2 DEF Consistent
      <3> QED  BY <2>3, <3>4, <3>5 DEF Put
    <2>4. (wk[c].then \in {"requeue", "fail"}) \in BOOLEAN
          /\ (wk[c].then # "provider") \in BOOLEAN
      OBVIOUS
    <2> QED  BY <1>4, <2>2, <2>3, <2>4 DEF Update, Updated
  <1> QED  BY <1>1, <1>2, <1>3, <1>4

\* Every step of a worker is one of these.
LEMMA WorkKinds ==
  ASSUME TypeOK, NEW c \in CR, Work(c)
  PROVE  \/ GoesOn(c) \/ Reads(c) \/ Update(c)
         \/ \E again \in BOOLEAN : GivesUp(c, again)
  BY ProviderKind, SessionKind, MiddleKind, GetKind DEF Work, Step

\* A write of the user leaves every resource's bookkeeping consistent: the
\* change is announced and no copy of the worker passes for it.
LEMMA UserConsistent ==
  ASSUME TypeOK, Bookkeeping, NEW c \in CR, User(c)
  PROVE  Bookkeeping'
  <1>1. \A o \in Object : UserWrites(c, o) => Bookkeeping'
    <2> SUFFICES ASSUME NEW o \in Object, UserWrites(c, o),
                        NEW d \in CR
                 PROVE  Consistent(d)'
      BY DEF Bookkeeping
    <2>1. Store(c, o) /\ UNCHANGED queueVars
          /\ wk' = [wk EXCEPT ![c] = [@ EXCEPT !.fresh = FALSE]]
      BY DEF UserWrites
    <2>2. wk \in [CR -> Worker] /\ ApiTypeOK
      BY DEF TypeOK, ReconcilerTypeOK
    <2>3. Consistent(d)
      BY DEF Bookkeeping
    <2>4. CASE d # c
      <3>1. /\ wk'[d] = wk[d] /\ obj'[d] = obj[d]
            /\ cache'[d] = cache[d] /\ watch'[d] = watch[d]
        BY <2>1, <2>2, <2>4 DEF Store, ApiTypeOK
      <3> QED  BY <2>1, <2>3, <3>1, ConsistentStays DEF queueVars
    <2>5. CASE d = c
      <3>1. wk'[c].pc = wk[c].pc /\ wk'[c].fresh = FALSE
        BY <2>1, <2>2 DEF Worker
      <3>2. CacheFollows(c)' /\ watch'[c] # <<>>
        BY <2>1, <2>2, StoreFollows
      <3>3. ProcessingIsWorking(c)'
        BY <2>1, <2>3, <2>5, <3>1 DEF ProcessingIsWorking, Consistent, queueVars
      <3>4. HasReason(c)' /\ CopyIsFaithful(c)'
        BY <3>1, <3>2 DEF HasReason, CopyIsFaithful, Announced
      <3> QED  BY <2>5, <3>2, <3>3, <3>4 DEF Consistent
    <2> QED  BY <2>4, <2>5
  <1>2. \A b \in Body : [obj[c] EXCEPT !.spec.body = b] \in Object
    <2>1. obj[c] \in Object /\ obj[c].spec \in StackSpec
      BY DEF TypeOK, ApiTypeOK, Object
    <2> QED  BY <2>1 DEF Object, StackSpec, AnyBody
  <1>3. [obj[c] EXCEPT !.deleting = TRUE] \in Object
    BY DEF TypeOK, ApiTypeOK, Object
  <1> QED  BY <1>1, <1>2, <1>3, ObjectTypes
           DEF User, Submit, Edit, MarkDeleting, Remove

\* Every step keeps the bookkeeping consistent: the induction step of
\* BookkeepingHolds, by who takes the step.
LEMMA BookkeepingStep ==
  ASSUME TypeOK, Bookkeeping, [Next]_vars
  PROVE  Bookkeeping'
  <1>type. wk \in [CR -> Worker] /\ ApiTypeOK
    BY DEF TypeOK, ReconcilerTypeOK
  <1>0. SUFFICES ASSUME NEW d \in CR PROVE Consistent(d)'
    BY DEF Bookkeeping
  <1>d. Consistent(d)
    BY DEF Bookkeeping
  <1>1. CASE UNCHANGED vars
    BY <1>1, <1>d, ConsistentStays DEF vars, apiVars, queueVars
  <1>2. ASSUME NEW c \in CR, User(c) PROVE Consistent(d)'
    BY <1>2, UserConsistent DEF Bookkeeping
  <1>3. ASSUME NEW c \in CR, Start(c) PROVE Consistent(d)'
    <2>1. /\ c \in dirty \ processing /\ dirty' = dirty \ {c}
          /\ processing' = processing \cup {c} /\ UNCHANGED apiVars
          /\ wk' = [wk EXCEPT ![c] = [@ EXCEPT !.pc = "get"]]
      BY <1>3 DEF Start, Begin, Take
    <2>2. CASE d # c
      BY <1>type, <1>d, <2>1, <2>2, ConsistentStays DEF apiVars
    <2>3. CASE d = c
      <3>1. wk'[c].pc = "get"
        BY <1>type, <2>1 DEF Worker
      <3>2. CacheFollows(c)'
        BY <1>d, <2>1, <2>3 DEF CacheFollows, Consistent, apiVars
      <3>3. ProcessingIsWorking(c)' /\ HasReason(c)' /\ CopyIsFaithful(c)'
        BY <2>1, <3>1
        DEF ProcessingIsWorking, HasReason, CopyIsFaithful, HasCopy
      <3> QED  BY <2>3, <3>2, <3>3 DEF Consistent
    <2> QED  BY <2>2, <2>3
  <1>4. ASSUME NEW c \in CR, Work(c) PROVE Consistent(d)'
    <2>1. CASE d = c
      BY <1>4, <1>d, <2>1, WorkKinds, OwnConsistent
    <2>2. CASE d # c
      BY <1>4, <1>d, <2>2, WorkKinds, OthersUntouched, ConsistentStays
    <2> QED  BY <2>1, <2>2
  <1>5. ASSUME NEW c \in CR, Timer(c) PROVE Consistent(d)'
    BY <1>5, <1>d, ConsistentStays DEF Timer, TimerFires, apiVars
  <1>6. ASSUME NEW c \in CR, Event(c) PROVE Consistent(d)'
    <2>1. /\ watch[c] # <<>> /\ cache' = [cache EXCEPT ![c] = Head(watch[c])]
          /\ watch' = [watch EXCEPT ![c] = Tail(@)]
          /\ obj' = obj /\ wk' = wk
          /\ dirty' = dirty \cup {c} /\ UNCHANGED processing
      BY <1>6 DEF Event, Deliver, Add
    <2>2. CASE d # c
      BY <1>type, <1>d, <2>1, <2>2, ConsistentStays DEF ApiTypeOK
    <2>3. CASE d = c
      <3>1. /\ cache'[c] = Head(watch[c]) /\ watch'[c] = Tail(watch[c])
            /\ watch[c] \in Seq(Object)
        BY <1>type, <2>1 DEF ApiTypeOK
      <3>2. watch[c][Len(watch[c])] = obj[c]
        BY <1>d, <2>1, <2>3 DEF CacheFollows, Consistent
      <3>3. /\ watch'[c] \in Seq(Object) /\ Len(watch[c]) \in Nat \ {0}
            /\ Len(watch'[c]) = Len(watch[c]) - 1
            /\ \A i \in 1 .. Len(watch'[c]) : watch'[c][i] = watch[c][i + 1]
        BY ZenonT(60), <2>1, <3>1, HeadTailProperties, EmptySeq, LenProperties
      <3>4. watch'[c] # <<>> => Len(watch'[c]) \in 1 .. Len(watch'[c])
        BY <3>3, EmptySeq, LenProperties
      <3>5. CacheFollows(c)'
        <4>1. CASE watch'[c] = <<>>
          <5>1. Len(watch[c]) = 1
            BY <3>3, <4>1
          <5>2. cache'[c] = obj[c]
            BY <3>1, <3>2, <5>1
          <5> QED  BY <2>1, <4>1, <5>2 DEF CacheFollows
        <4>2. CASE watch'[c] # <<>>
          <5>1. watch'[c][Len(watch'[c])] = watch[c][Len(watch[c])]
            BY <3>3, <3>4, <4>2
          <5> QED  BY <2>1, <3>2, <4>2, <5>1 DEF CacheFollows
        <4> QED  BY <4>1, <4>2
      <3>6. ProcessingIsWorking(c)' /\ CopyIsFaithful(c)'
        BY <1>d, <2>1, <2>3
        DEF ProcessingIsWorking, CopyIsFaithful, Consistent, HasCopy, TheBody
      <3>7. HasReason(c)'
        BY <2>1 DEF HasReason, Announced
      <3> QED  BY <2>3, <3>5, <3>6, <3>7 DEF Consistent
    <2> QED  BY <2>2, <2>3
  <1>7. ASSUME NEW c \in CR, Again(c) PROVE Consistent(d)'
    BY <1>7, <1>d, ConsistentStays DEF Again, Resync, Add, apiVars
  <1>8. ASSUME NEW s \in Stack, Aws(s) PROVE Consistent(d)'
    BY <1>8, <1>d, ConsistentStays DEF Aws, apiVars, queueVars
  <1>9. ASSUME NEW s \in Stack, OperatorDeletesStack(s) PROVE Consistent(d)'
    BY <1>9, <1>d, ConsistentStays DEF OperatorDeletesStack, apiVars, queueVars
  <1>10. ASSUME Restart PROVE Consistent(d)'
    <2>1. /\ cache' = obj /\ obj' = obj /\ watch'[d] = <<>>
          /\ processing' = {} /\ wk'[d] = Idle
      BY <1>10 DEF Restart, Relist
    <2>2. Idle.pc = "idle"
      BY DEF Idle
    <2>3. wk'[d].pc = "idle"
      BY <2>1, <2>2
    <2>4. CacheFollows(d)'
      BY <2>1 DEF CacheFollows
    <2>5. ProcessingIsWorking(d)' /\ HasReason(d)' /\ CopyIsFaithful(d)'
      BY <2>1, <2>3 DEF ProcessingIsWorking, HasReason, CopyIsFaithful, HasCopy
    <2> QED  BY <2>4, <2>5 DEF Consistent
  <1> QED  BY <1>1, <1>2, <1>3, <1>4, <1>5, <1>6, <1>7, <1>8, <1>9, <1>10
           DEF Next, Crash, Die

\* With nothing submitted and nothing queued the bookkeeping is consistent.
LEMMA BookkeepingInit == Init => Bookkeeping
  <1> SUFFICES ASSUME Init, NEW c \in CR PROVE Consistent(c)
    BY DEF Bookkeeping
  <1>1. Idle.pc = "idle"
    BY DEF Idle
  <1>2. /\ wk[c].pc = "idle" /\ c \notin processing
        /\ watch[c] = <<>> /\ cache[c] = obj[c]
    BY <1>1 DEF Init, ReconcilerInit, QueueInit, ApiInit
  <1> QED  BY <1>2 DEF Consistent, CacheFollows, ProcessingIsWorking, HasReason,
                    CopyIsFaithful, HasCopy

\* The cache gets to what the server has, the queue knows who is at work, no
\* worker holds a resource it has no reason to hold, and a copy that is not
\* outdated asks for what the resource asks for: whatever fails.
THEOREM BookkeepingHolds == Spec => []Bookkeeping
  <1>1. TypeOK /\ Bookkeeping /\ [Next]_vars => Bookkeeping'
    BY BookkeepingStep
  <1> QED  BY <1>1, BookkeepingInit, TypeCorrect, PTL DEF Spec

-----------------------------------------------------------------------------
(* Only users change what is asked for.                                    *)

\* What the Update of a worker may do to the resource.
LEMMA UpdateKeepsSpec ==
  ASSUME TypeOK, NEW c \in CR, Consistent(c), Update(c)
  PROVE  /\ obj'[c].present = obj[c].present
         /\ obj'[c].spec.body # obj[c].spec.body =>
              obj'[c].spec.body \in Resolutions[obj[c].spec.body]
  <1>1. CASE UNCHANGED apiVars
    BY <1>1 DEF apiVars
  <1>2. CASE wk[c].fresh /\ Store(c, wk[c].copy)
    <2>1. obj'[c] = wk[c].copy
      BY <1>2 DEF Store, TypeOK, ApiTypeOK
    <2>2. HasCopy(c)
      BY DEF Update, HasCopy
    <2> QED  BY <1>2, <2>1, <2>2 DEF Consistent, CopyIsFaithful, TheBody
  <1> QED  BY <1>1, <1>2 DEF Update, Put

\* The controller never writes an older spec back, nor brings a removed
\* resource back, whatever the cache lags, the workers do and the calls say.
THEOREM EditsAreKept == Spec => EditsSurvive
  <1>1. ASSUME TypeOK, Bookkeeping, [Next]_vars, edits' = edits, NEW d \in CR
        PROVE  /\ obj'[d].present = obj[d].present
               /\ obj'[d].spec.body # obj[d].spec.body =>
                    obj'[d].spec.body \in Resolutions[obj[d].spec.body]
    <2> USE <1>1
    <2>1. ASSUME NEW c \in CR, User(c) PROVE FALSE
      <3>1. edits' = edits + 1
        BY <2>1 DEF User, Submit, Edit, MarkDeleting, Remove, UserWrites
      <3>2. edits \in Nat
        BY MaxEditsType DEF TypeOK
      <3> QED  BY <3>1, <3>2
    <2>2. ASSUME NEW c \in CR, Work(c)
          PROVE  \/ obj'[d] = obj[d]
                 \/ d = c /\ Update(c)
      <3>1. CASE d = c
        BY <2>2, <3>1, WorkKinds DEF GoesOn, Reads, GivesUp, apiVars
      <3>2. CASE d # c
        BY <2>2, <3>2, WorkKinds, OthersUntouched
      <3> QED  BY <3>1, <3>2
    <2>3. obj' = obj \/ \E c \in CR : Work(c)
      <3>1. \A c \in CR : Start(c) \/ Timer(c) \/ Event(c) \/ Again(c) =>
                            obj' = obj
        BY DEF Start, Begin, Timer, Event, Deliver, Again, Resync, apiVars
      <3>2. \A s \in Stack : Aws(s) \/ OperatorDeletesStack(s) => obj' = obj
        BY DEF Aws, OperatorDeletesStack, apiVars
      <3>3. Crash \/ UNCHANGED vars => obj' = obj
        BY DEF Crash, Restart, Relist, vars, apiVars
      <3>4. \A c \in CR : Die(c) => obj' = obj
        BY DEF Die, Restart, Relist
      <3> QED  BY <2>1, <3>1, <3>2, <3>3, <3>4 DEF Next
    <2> QED  BY <2>2, <2>3, UpdateKeepsSpec DEF Bookkeeping
  <1>2. TypeOK /\ Bookkeeping /\ [Next]_vars =>
          [edits' = edits =>
             \A c \in CR :
               /\ obj'[c].present = obj[c].present
               /\ obj'[c].spec.body # obj[c].spec.body =>
                    obj'[c].spec.body \in Resolutions[obj[c].spec.body]]_vars
    BY <1>1
  <1> QED  BY <1>2, TypeCorrect, BookkeepingHolds, PTL DEF Spec, EditsSurvive

\* What FetchReferenceResources returns has all its references or none.
LEMMA FetchesAtOnce ==
  ASSUME NEW params, NEW outputs,
         NEW f \in FetchReferenceResources(params, outputs)
  PROVE  \/ f.params = params
         \/ \A k \in DOMAIN f.params : ~IsReference(f.params[k])
  <1> DEFINE keys == {k \in DOMAIN params : IsReference(params[k])}
             Fetched(k) == GetResourceFromStackOutput(outputs, params[k][1],
                                                      params[k][2])
             missing == {k \in keys : Fetched(k) \in {"", "error"}}
             all == [k \in DOMAIN params |->
                       IF k \in keys THEN <<Fetched(k)>> ELSE params[k]]
  <1>1. f.params \in {params, all}
    <2>1. f \in IF missing = {}
                THEN { [err |-> FALSE, params |-> all] }
                ELSE { [err |-> Fetched(k) = "error", params |-> params] :
                         k \in missing }
      BY DEF FetchReferenceResources
    <2> HIDE DEF Fetched, keys, missing, all
    <2> QED  BY <2>1
  <1>2. \A k \in DOMAIN params : ~IsReference(all[k])
    <2>1. \A x : Len(<<x>>) # 2
      OBVIOUS
    <2> HIDE DEF Fetched
    <2> QED  BY <2>1 DEF IsReference
  <1>3. DOMAIN all = DOMAIN params
    OBVIOUS
  <1> QED  BY <1>1, <1>2, <1>3

\* Whatever outputs the other stacks get and lose meanwhile, a resource whose
\* body the controller changes has no reference left: the values that it got
\* belong together.
THEOREM ReferencesGoTogether ==
  ASSUME NEW outputs, FetchedFrom(outputs) PROVE Spec => ReferencesAtOnce
  <1> DEFINE Kept == edits' = edits =>
                \A c \in CR :
                  /\ obj'[c].present = obj[c].present
                  /\ obj'[c].spec.body # obj[c].spec.body =>
                       obj'[c].spec.body \in Resolutions[obj[c].spec.body]
             AtOnce == edits' = edits =>
                \A c \in CR :
                  obj'[c].spec.body # obj[c].spec.body =>
                    \A k \in DOMAIN ParamsOf[obj'[c].spec.body] :
                      ~IsReference(ParamsOf[obj'[c].spec.body][k])
  <1>1. ASSUME TypeOK, NEW c \in CR,
               obj'[c].spec.body # obj[c].spec.body,
               obj'[c].spec.body \in Resolutions[obj[c].spec.body]
        PROVE  \A k \in DOMAIN ParamsOf[obj'[c].spec.body] :
                 ~IsReference(ParamsOf[obj'[c].spec.body][k])
    <2>1. obj[c].spec.body \in AnyBody
      BY <1>1 DEF TypeOK, ApiTypeOK, Object, StackSpec
    <2> QED  BY <1>1, <2>1, FetchesAtOnce DEF FetchedFrom
  <1>2. ASSUME TypeOK, Kept PROVE AtOnce
    BY <1>1, <1>2
  <1> HIDE DEF Kept, AtOnce
  <1>3. Spec => [][Kept]_vars
    BY EditsAreKept DEF EditsSurvive, Kept
  <1>4. TypeOK /\ [Kept]_vars => [AtOnce]_vars
    BY <1>2
  <1>5. Spec => [][AtOnce]_vars
    BY <1>3, <1>4, TypeCorrect, PTL
  <1> QED  BY <1>5 DEF ReferencesAtOnce, AtOnce
=============================================================================
