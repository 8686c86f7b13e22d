--------------------------- MODULE LostWorkProofs ---------------------------
(***************************************************************************)
(* In a Reliable deployment no resource is forgotten.                      *)
(***************************************************************************)
EXTENDS BookkeepingProofs

\* What makes c count as not forgotten.
NotForgotten(c) == Wanted(c) /\ ~Settled(obj[c]) => Pending(c)

\* Only DescribeStacks leads to the events of a stack.
LEMMA EventsAfterDescribe ==
  ASSUME TypeOK, NEW c \in CR, Work(c), wk'[c].pc = "events"
  PROVE  Exists(StackOf[c])
  <1>1. wk \in [CR -> Worker] /\ wk[c] \in Worker /\ Idle.pc = "idle"
    BY DEF TypeOK, ReconcilerTypeOK, Idle
  <1>2. \A again : ~Return(c, again)
    BY <1>1 DEF Return
  <1>3. \A phase, then : ~UpdateStatus(c, phase, then)
    BY <1>1 DEF UpdateStatus, Worker
  <1>4. \A n, phase, then : ~RecordChangeSet(c, n, phase, then)
    BY <1>1 DEF RecordChangeSet, Worker
  <1>5. \A pc, o : GoTo(c, pc, o) => pc = "events"
    BY <1>1 DEF GoTo, Worker
  <1>6. \A o : ~Hold(c, o)
    BY <1>1 DEF Hold, Worker
  <1>7. ~SetAssumeRoleProvider(c) /\ ~Session(c)
    BY <1>2, <1>5, ProviderKind DEF Session
  <1>8. ~Update(c)
    <2>1. \A pc \in {"describe", "session"} : ~Resume(c, pc)
      BY <1>1 DEF Resume, Worker
    <2> QED  BY <1>2, <2>1 DEF Update, Updated
  <1>9. ~Get(c) /\ ~References(c) /\ ~Events(c) /\ ~List(c)
    BY <1>2, <1>3, <1>5, <1>6 DEF Get, References, Events, List
  <1>10. ~Template(c) /\ ~CreateChangeSet(c) /\ ~ExecuteChangeSet(c)
    BY <1>2, <1>3, <1>4, <1>5 DEF Template, CreateChangeSet, ExecuteChangeSet
  <1>11. Describe(c)
    BY <1>7, <1>8, <1>9, <1>10 DEF Work, Step
  <1> QED  BY <1>5, <1>11 DEF Describe

\* In a Reliable deployment no stack disappears between two calls.
LEMMA StacksStayStep ==
  ASSUME Reliable, TypeOK, StacksStay, [Next]_vars
  PROVE  StacksStay'
  <1>type. /\ stacks \in [Stack -> StackRecord] /\ wk \in [CR -> Worker]
           /\ \A s \in Stack : stacks[s].status \in StackStatuses \cup {"NONE"}
    BY DEF TypeOK, CfnTypeOK, ReconcilerTypeOK, StackRecord
  <1>1. \A s \in Stack : /\ stacks'[s].status # "DELETE_IN_PROGRESS"
                         /\ Exists(s) => Exists(s)'
    <2>1. CASE UNCHANGED cfnVars
      BY <2>1 DEF cfnVars, StacksStay, Exists
    <2>2. ASSUME NEW s \in Stack, StackStep(s)
          PROVE  \A r \in Stack : /\ stacks'[r].status # "DELETE_IN_PROGRESS"
                                  /\ Exists(r) => Exists(r)'
      <3>1. PICK t \in NextStatus(stacks[s].status) :
              stacks' = [stacks EXCEPT ![s] = Moved(@, t)]
        BY <2>2 DEF StackStep
      <3>2. t \notin {"NONE", "DELETE_IN_PROGRESS"}
        BY DEF NextStatus, StacksStay
      <3>3. Moved(stacks[s], t).status = t
        BY <1>type, <3>2 DEF Moved, StackRecord
      <3> QED  BY <1>type, <3>1, <3>2, <3>3 DEF StacksStay, Exists
    <2>3. ASSUME NEW s \in Stack, ChangeSetStep(s)
          PROVE  \A r \in Stack : /\ stacks'[r].status # "DELETE_IN_PROGRESS"
                                  /\ Exists(r) => Exists(r)'
      BY <2>3 DEF ChangeSetStep, StacksStay, Exists
    <2>4. ASSUME NEW s \in Stack, OperatorDeletesStack(s)
          PROVE  FALSE
      BY <2>4 DEF OperatorDeletesStack, Fault, Reliable
    <2>5. ASSUME NEW c \in CR, CreateChangeSet(c), ~UNCHANGED cfnVars
          PROVE  \A r \in Stack : /\ stacks'[r].status # "DELETE_IN_PROGRESS"
                                  /\ Exists(r) => Exists(r)'
      <3>1. \E n, b : AddChangeSet(StackOf[c], n, b)
        BY <2>5 DEF CreateChangeSet
      <3>2. stacks' = [stacks EXCEPT ![StackOf[c]].status =
                         IF @ = "NONE" THEN "REVIEW_IN_PROGRESS" ELSE @]
        BY <3>1 DEF AddChangeSet
      <3> QED  BY <1>type, <3>2 DEF StacksStay, Exists, StackRecord
    <2>6. ASSUME NEW c \in CR, ExecuteChangeSet(c), ~UNCHANGED cfnVars
          PROVE  \A r \in Stack : /\ stacks'[r].status # "DELETE_IN_PROGRESS"
                                  /\ Exists(r) => Exists(r)'
      <3>1. PICK x : StartExecution(StackOf[c], x)
        BY <2>6 DEF ExecuteChangeSet
      <3> DEFINE stack == IF IsReviewInProgress(stacks[StackOf[c]].status)
               THEN [status |-> "CREATE_IN_PROGRESS", body |-> x.body,
                     target |-> x.body]
               ELSE [stacks[StackOf[c]] EXCEPT !.status = "UPDATE_IN_PROGRESS",
                                               !.target = x.body]
      <3>2. stacks' = [stacks EXCEPT ![StackOf[c]] = stack]
        BY <3>1 DEF StartExecution
      <3>3. stack.status \in {"CREATE_IN_PROGRESS", "UPDATE_IN_PROGRESS"}
        BY <1>type, StackOfType DEF StackRecord
      <3> HIDE DEF stack
      <3> QED  BY <1>type, <3>2, <3>3 DEF StacksStay, Exists
    <2>7. ASSUME NEW c \in CR, Work(c), ~UNCHANGED cfnVars
          PROVE  CreateChangeSet(c) \/ ExecuteChangeSet(c)
      BY <2>7 DEF Work, Step, Get, SetAssumeRoleProvider, Session, References, Describe, Events, List,
                  Template, Update
    <2>8. CASE \A c \in CR : ~Work(c)
      BY <2>1, <2>2, <2>3, <2>4, <2>8
      DEF Next, vars, User, Submit, Edit, MarkDeleting, Remove, UserWrites,
          Start, Begin, Timer, Event, Again, Aws, Crash, Die, Restart
    <2> QED  BY <2>1, <2>5, <2>6, <2>7, <2>8
  <1>2. ASSUME NEW c \in CR, wk'[c].pc = "events"
        PROVE  Exists(StackOf[c])
    <2>1. CASE wk[c].pc = "events"
      BY <2>1 DEF StacksStay
    <2>2. CASE Work(c)
      BY <1>2, <2>2, EventsAfterDescribe
    <2>3. ASSUME NEW d \in CR, Work(d), d # c PROVE wk'[c].pc = wk[c].pc
      BY <2>3, WorkKinds, OthersUntouched
    <2>4. ASSUME NEW d \in CR, User(d) PROVE wk'[c].pc = wk[c].pc
      <3>1. wk' = [wk EXCEPT ![d].fresh = FALSE]
        BY <2>4 DEF User, Submit, Edit, MarkDeleting, Remove, UserWrites
      <3> QED  BY <1>type, <3>1 DEF Worker
    <2>5. ASSUME NEW d \in CR, Start(d)
          PROVE  wk'[c].pc = wk[c].pc \/ wk'[c].pc = "get"
      BY <1>type, <2>5 DEF Start, Begin, Worker
    <2>6. CASE UNCHANGED wk
      BY <1>2, <2>1, <2>6
    <2>7. ~Restart
      <3>1. Idle.pc = "idle"
        BY DEF Idle
      <3> QED  BY <1>2, <3>1 DEF Restart
    <2> QED  BY <1>2, <2>1, <2>2, <2>3, <2>4, <2>5, <2>6, <2>7
             DEF Next, vars, Timer, Event, Again, Aws, OperatorDeletesStack,
                 Crash, Die
  <1> QED  BY <1>1, <1>2, StackOfType DEF StacksStay

\* What follows the Update of a change set's name.
LEMMA RecordThen ==
  ASSUME wk \in [CR -> Worker], NEW c \in CR, NEW n, NEW phase, NEW then,
         RecordChangeSet(c, n, phase, then)
  PROVE  wk'[c].then = then
  <1> DEFINE status == [wk[c].copy.status EXCEPT !.phase = phase,
                                                 !.changeset = n]
  <1> DEFINE copy == [wk[c].copy EXCEPT !.status = status]
  <1>1. wk' = [wk EXCEPT ![c] = [@ EXCEPT !.pc = "update", !.then = then,
                                          !.copy = copy]]
    BY DEF RecordChangeSet
  <1> HIDE DEF copy
  <1> QED  BY <1>1 DEF Worker

\* How a worker gets to the session: it has just read the resource, or it has
\* written what it had to say about the role.
LEMMA BeforeSession ==
  ASSUME TypeOK, NEW c \in CR, Work(c), wk'[c].pc = "session"
  PROVE  \/ wk'[c].left = Provider[wk'[c].copy.spec.body].complaints
         \/ /\ wk[c].pc = "update" /\ wk[c].then = "provider"
            /\ wk[c].fresh /\ Put(c) /\ UNCHANGED queueVars
            /\ wk'[c].left = wk[c].left /\ wk'[c].copy = wk[c].copy
  <1>1. wk \in [CR -> Worker] /\ wk[c] \in Worker /\ Idle.pc = "idle"
    BY DEF TypeOK, ReconcilerTypeOK, Idle
  <1>2. \A again : ~Return(c, again)
    BY <1>1 DEF Return
  <1>3. \A phase, then : ~UpdateStatus(c, phase, then)
    BY <1>1 DEF UpdateStatus, Worker
  <1>4. \A n, phase, then : ~RecordChangeSet(c, n, phase, then)
    BY <1>1 DEF RecordChangeSet, Worker
  <1>5. \A pc, o : GoTo(c, pc, o) => pc = "session"
    BY <1>1 DEF GoTo, Worker
  <1>6. CASE Get(c)
    <2>1. Hold(c, cache[c]) /\ cache[c] \in Object
      BY <1>2, <1>6 DEF Get, TypeOK, ApiTypeOK
    <2> DEFINE held == [cache[c] EXCEPT !.status.checksum =
                                          Checksum(cache[c].spec)]
    <2> DEFINE current == watch[c] = <<>>
    <2> DEFINE complaints == Provider[cache[c].spec.body].complaints
    <2>2. held.spec.body = cache[c].spec.body
      BY <2>1 DEF Object
    <2>3. wk' = [wk EXCEPT ![c] = [@ EXCEPT !.pc = "session", !.copy = held,
                                     !.fresh = current, !.left = complaints]]
      BY <2>1 DEF Hold
    <2> HIDE DEF held, current, complaints
    <2>4. wk'[c].left = complaints /\ wk'[c].copy = held
      BY <1>1, <2>3 DEF Worker
    <2> QED  BY <2>2, <2>4 DEF complaints
  <1>7. CASE Update(c)
    <2>1. wk[c].fresh /\ Put(c) /\ Updated(c) /\ wk[c].pc = "update"
      BY <1>2, <1>7 DEF Update
    <2>2. ~Resume(c, "describe")
      BY <1>1 DEF Resume, Worker
    <2>3. wk[c].then = "provider" /\ Resume(c, "session")
      BY <1>2, <2>1, <2>2 DEF Updated
    <2>4. wk'[c].left = wk[c].left /\ wk'[c].copy = wk[c].copy
      BY <1>1, <2>3 DEF Resume, Worker
    <2> QED  BY <2>1, <2>3, <2>4 DEF Resume, Inside
  <1>8. ~SetAssumeRoleProvider(c) /\ ~Session(c)
    BY <1>2, <1>5, ProviderKind DEF Session
  <1>9. ~Describe(c)
    <2>1. \A seen : wk' # [wk EXCEPT ![c].pc = "events", ![c].seen = seen]
      BY <1>1 DEF Worker
    <2> QED  BY <1>5, <2>1 DEF Describe
  <1>10. ~References(c) /\ ~Events(c) /\ ~List(c)
    BY <1>2, <1>3, <1>5 DEF References, Events, List
  <1>11. ~Template(c) /\ ~CreateChangeSet(c) /\ ~ExecuteChangeSet(c)
    BY <1>2, <1>3, <1>4, <1>5 DEF Template, CreateChangeSet, ExecuteChangeSet
  <1> QED  BY <1>6, <1>7, <1>8, <1>9, <1>10, <1>11 DEF Work, Step

\* Only SetAssumeRoleProvider asks to drop the error of its Update.
LEMMA BeforeProvider ==
  ASSUME TypeOK, NEW c \in CR, Work(c), wk'[c].then = "provider",
         wk[c].then = "provider" => wk[c].pc = "update"
  PROVE  SetAssumeRoleProvider(c)
  <1>1. wk \in [CR -> Worker] /\ wk[c] \in Worker /\ Idle.then = ""
    BY DEF TypeOK, ReconcilerTypeOK, Idle
  <1>2. \A again : ~Return(c, again)
    BY <1>1 DEF Return
  <1>3. ~Update(c)
    <2>1. ASSUME NEW pc, Resume(c, pc) PROVE FALSE
      <3>1. wk' = [wk EXCEPT ![c] = [@ EXCEPT !.pc = pc, !.then = ""]]
        BY <2>1 DEF Resume
      <3>2. wk'[c].then = ""
        BY <1>1, <3>1 DEF Worker
      <3> QED  BY <3>2
    <2> QED  BY <1>2, <2>1 DEF Update, Updated
  <1> SUFFICES ASSUME ~SetAssumeRoleProvider(c) PROVE FALSE
    OBVIOUS
  <1>4. wk[c].pc # "update"
    BY <1>3 DEF Work, Step, Get, Session, References, Describe, Events, List,
                Template, CreateChangeSet, ExecuteChangeSet
  <1>5. wk[c].then # "provider"
    BY <1>4
  <1>6. \A phase, then : UpdateStatus(c, phase, then) => then = "provider"
    <2> SUFFICES ASSUME NEW phase, NEW then, UpdateStatus(c, phase, then)
                 PROVE  then = "provider"
      OBVIOUS
    <2> DEFINE copy == [wk[c].copy EXCEPT !.status.phase = phase]
    <2>1. wk' = [wk EXCEPT ![c] = [@ EXCEPT !.pc = "update", !.copy = copy,
                                            !.then = then]]
      BY ZenonT(60) DEF UpdateStatus
    <2> HIDE DEF copy
    <2> QED  BY <1>1, <2>1 DEF Worker
  <1>7. \A n, phase, then : RecordChangeSet(c, n, phase, then) =>
                              then = "provider"
    <2> SUFFICES ASSUME NEW n, NEW phase, NEW then,
                        RecordChangeSet(c, n, phase, then)
                 PROVE  then = "provider"
      OBVIOUS
    <2> QED  BY <1>1, RecordThen
  <1>8. \A pc, o : ~GoTo(c, pc, o)
    BY ZenonT(60), <1>1, <1>5 DEF GoTo, Worker
  <1>9. \A o : ~Hold(c, o)
    <2> SUFFICES ASSUME NEW o, Hold(c, o) PROVE FALSE
      OBVIOUS
    <2> DEFINE copy == [o EXCEPT !.status.checksum = Checksum(o.spec)]
    <2> DEFINE current == watch[c] = <<>>
    <2> DEFINE complaints == Provider[o.spec.body].complaints
    <2>1. wk' = [wk EXCEPT ![c] = [@ EXCEPT !.pc = "session", !.copy = copy,
                                     !.fresh = current, !.left = complaints]]
      BY DEF Hold
    <2> HIDE DEF copy, current, complaints
    <2> QED  BY <1>1, <1>5, <2>1 DEF Worker
  <1>10. ~Describe(c)
    <2>1. \A seen : wk' # [wk EXCEPT ![c].pc = "events", ![c].seen = seen]
      BY ZenonT(60), <1>1, <1>5 DEF Worker
    <2> QED  BY <1>8, <2>1 DEF Describe
  <1>11. ~Get(c) /\ ~Session(c) /\ ~References(c) /\ ~Events(c) /\ ~List(c)
    BY <1>2, <1>6, <1>8, <1>9 DEF Get, Session, References, Events, List
  <1>12. ~Template(c) /\ ~CreateChangeSet(c) /\ ~ExecuteChangeSet(c)
    BY <1>2, <1>6, <1>7, <1>8 DEF Template, CreateChangeSet, ExecuteChangeSet
  <1> QED  BY <1>3, <1>10, <1>11, <1>12 DEF Work, Step

\* What the worker of c itself does to RoleKnown.
LEMMA OwnRoleKnown ==
  ASSUME TypeOK, Bookkeeping, NEW c \in CR, Complained(c), DropsForRole(c),
         Work(c)
  PROVE  Complained(c)' /\ DropsForRole(c)'
  <1>1. /\ wk[c] \in Worker /\ wk[c].copy \in Object /\ ApiTypeOK
        /\ wk[c].copy.spec.body \in AnyBody
    BY DEF TypeOK, ReconcilerTypeOK, Worker, Object, StackSpec
  <1>2. wk[c].left \in 0 .. 3
        /\ Provider[wk[c].copy.spec.body].complaints \in 0 .. 3
    BY <1>1, ProviderType DEF Worker
  <1>3. wk'[c].then = "provider" =>
          /\ wk'[c].pc = "update"
          /\ wk'[c].left < Provider[wk'[c].copy.spec.body].complaints
    <2> SUFFICES ASSUME wk'[c].then = "provider"
                 PROVE  /\ wk'[c].pc = "update"
                        /\ wk'[c].left <
                             Provider[wk'[c].copy.spec.body].complaints
      OBVIOUS
    <2>1. SetAssumeRoleProvider(c)
      BY BeforeProvider DEF DropsForRole
    <2>2. wk[c].left <= Provider[wk[c].copy.spec.body].complaints
      BY <2>1 DEF SetAssumeRoleProvider, DropsForRole, TheBody
    <2> QED  BY <1>2, <2>1, <2>2, ProviderKind
  <1>4. CASE wk'[c].pc # "session"
    BY <1>3, <1>4 DEF Complained, DropsForRole, TheBody
  <1>5. CASE /\ wk'[c].pc = "session"
             /\ wk'[c].left = Provider[wk'[c].copy.spec.body].complaints
    <2>1. wk'[c].then # "provider"
      BY <1>3, <1>5
    <2>2. wk'[c].copy.spec.body \in AnyBody
      BY StepType DEF TypeOK, ReconcilerTypeOK, Worker, Object, StackSpec
    <2>3. Provider[wk'[c].copy.spec.body].complaints \in Int
      BY <2>2, ProviderType
    <2> QED  BY <1>5, <2>1, <2>3 DEF Complained, DropsForRole, TheBody
  <1>6. CASE /\ wk'[c].pc = "session"
             /\ wk[c].pc = "update" /\ wk[c].then = "provider"
             /\ wk[c].fresh /\ Put(c) /\ UNCHANGED queueVars
             /\ wk'[c].left = wk[c].left /\ wk'[c].copy = wk[c].copy
    <2>1. DropsForRole(c)'
      BY <1>2, <1>3, <1>6 DEF DropsForRole, TheBody
    <2>2. CASE Store(c, wk[c].copy)
      <3>1. watch'[c] # <<>>
        BY <1>1, <2>2, StoreFollows
      <3> QED  BY <2>1, <3>1 DEF Complained, Announced
    <2>3. CASE wk[c].copy = obj[c] /\ Terminal(ThePhase(c)) /\ UNCHANGED apiVars
      <3>1. HasReason(c) /\ HasCopy(c)
        BY <1>6 DEF Bookkeeping, Consistent, HasCopy
      <3>2. Announced(c) \/ obj[c].deleting
        BY <2>3, <3>1 DEF HasReason, ThePhase
      <3> QED  BY <1>6, <2>1, <2>3, <3>2
               DEF Complained, Announced, apiVars, queueVars
    <2> QED  BY <1>6, <2>2, <2>3 DEF Put
  <1> QED  BY <1>4, <1>5, <1>6, BeforeSession

\* RoleKnown is kept, whoever takes the step.
LEMMA RoleKnownStep ==
  ASSUME TypeOK, Bookkeeping, RoleKnown, [Next]_vars
  PROVE  RoleKnown'
  <1>type. /\ wk \in [CR -> Worker] /\ ApiTypeOK
           /\ Idle.pc = "idle" /\ Idle.then = ""
    BY DEF TypeOK, ReconcilerTypeOK, Idle
  <1> SUFFICES ASSUME NEW c \in CR
               PROVE  Complained(c)' /\ DropsForRole(c)'
    BY DEF RoleKnown
  <1>c. Complained(c) /\ DropsForRole(c)
    BY DEF RoleKnown
  <1>same. ASSUME wk'[c] = wk[c], Announced(c) => Announced(c)',
                  \/ obj'[c] = obj[c] \/ Announced(c)'
           PROVE  Complained(c)' /\ DropsForRole(c)'
    BY <1>c, <1>same DEF Complained, DropsForRole, TheBody
  <1>1. CASE Work(c)
    BY <1>1, <1>c, OwnRoleKnown
  <1>2. ASSUME NEW d \in CR, Work(d), d # c
        PROVE  Complained(c)' /\ DropsForRole(c)'
    BY <1>2, <1>same, WorkKinds, OthersUntouched DEF Announced
  <1>3. ASSUME NEW d \in CR, User(d)
        PROVE  Complained(c)' /\ DropsForRole(c)'
    <2>1. PICK o : /\ Store(d, o) /\ UNCHANGED queueVars
                   /\ wk' = [wk EXCEPT ![d].fresh = FALSE]
      BY <1>3 DEF User, Submit, Edit, MarkDeleting, Remove, UserWrites
    <2>2. CASE d # c
      <3>1. /\ wk'[c] = wk[c] /\ obj'[c] = obj[c] /\ watch'[c] = watch[c]
        BY <1>type, <2>1, <2>2 DEF Store, ApiTypeOK
      <3> QED  BY <1>same, <2>1, <3>1 DEF Announced, queueVars
    <2>3. CASE d = c
      <3>1. /\ wk'[c].pc = wk[c].pc /\ wk'[c].left = wk[c].left
            /\ wk'[c].then = wk[c].then /\ wk'[c].copy = wk[c].copy
        BY <1>type, <2>1, <2>3 DEF Worker
      <3>2. watch'[c] # <<>>
        <4>1. watch[c] \in Seq(Object) /\ watch'[c] = Append(watch[c], o)
          BY <1>type, <2>1, <2>3 DEF Store, ApiTypeOK
        <4>2. Len(watch'[c]) = Len(watch[c]) + 1 /\ Len(watch[c]) \in Nat
          BY <4>1, AppendProperties
        <4> QED  BY <4>2
      <3> QED  BY <1>c, <3>1, <3>2
               DEF Complained, DropsForRole, TheBody, Announced
    <2> QED  BY <2>2, <2>3
  <1>4. ASSUME NEW d \in CR, Start(d)
        PROVE  Complained(c)' /\ DropsForRole(c)'
    <2>1. CASE d # c
      BY <1>type, <1>4, <1>same, <2>1
      DEF Start, Begin, Take, Announced, apiVars
    <2>2. CASE d = c
      <3>1. /\ wk'[c].pc = "get" /\ wk'[c].then = wk[c].then
        BY <1>type, <1>4, <2>2 DEF Start, Begin, Worker
      <3>2. wk[c].pc = "idle"
        BY <1>4, <2>2
        DEF Start, Begin, Take, Bookkeeping, Consistent, ProcessingIsWorking
      <3> QED  BY <1>c, <3>1, <3>2 DEF Complained, DropsForRole
    <2> QED  BY <2>1, <2>2
  <1>5. ASSUME NEW d \in CR, Timer(d) \/ Again(d)
        PROVE  Complained(c)' /\ DropsForRole(c)'
    BY <1>5, <1>same
    DEF Timer, TimerFires, Again, Resync, Add, Announced, apiVars
  <1>6. ASSUME NEW d \in CR, Event(d)
        PROVE  Complained(c)' /\ DropsForRole(c)'
    BY <1>type, <1>6, <1>same
    DEF Event, Deliver, Add, Announced, ApiTypeOK
  <1>7. ASSUME NEW s \in Stack, Aws(s) \/ OperatorDeletesStack(s)
        PROVE  Complained(c)' /\ DropsForRole(c)'
    BY <1>7, <1>same DEF Aws, OperatorDeletesStack, Announced, apiVars, queueVars
  <1>8. CASE Restart
    <2>1. wk'[c].pc = "idle" /\ wk'[c].then = ""
      BY <1>type, <1>8 DEF Restart
    <2> QED  BY <2>1 DEF Complained, DropsForRole
  <1>9. CASE UNCHANGED vars
    BY <1>9, <1>same DEF vars, apiVars, queueVars, Announced
  <1> QED  BY <1>1, <1>2, <1>3, <1>4, <1>5, <1>6, <1>7, <1>8, <1>9
           DEF Next, Crash, Die

\* In a Reliable deployment a run gets past the session, or there is nothing to
\* be done about it but what is announced.
LEMMA SessionKeeps ==
  ASSUME Reliable, TypeOK, NEW c \in CR, Complained(c), Session(c)
  PROVE  \/ wk'[c].pc # "idle"
         \/ /\ UNCHANGED apiVars /\ Return(c, FALSE)
            /\ Announced(c) \/ obj[c].deleting
  <1>1. /\ wk \in [CR -> Worker] /\ wk[c] \in Worker
        /\ wk[c].copy.spec.body \in AnyBody
    BY DEF TypeOK, ReconcilerTypeOK, Worker, Object, StackSpec
  <1>2. \A pc, o : GoTo(c, pc, o) => wk'[c].pc = pc
    BY <1>1 DEF GoTo, Worker
  <1>3. CASE /\ wk[c].left = 0 /\ Return(c, FALSE)
             /\ Provider[TheBody(c)].role \in {"bad", "panic"}
    <2>1. Provider[TheBody(c)].complaints > 0
      BY <1>1, <1>3 DEF Reliable, TheBody
    <2> QED  BY <1>3, <2>1 DEF Session, Complained
  <1>4. CASE \E pc \in {"references", "describe"} : \E o : GoTo(c, pc, o)
    BY <1>2, <1>4
  <1>5. ~Fault("session")
    BY DEF Reliable, Fault
  <1> QED  BY <1>3, <1>4, <1>5 DEF Session

\* The worker's own resource is not forgotten by its step.
LEMMA OwnNotForgotten ==
  ASSUME Reliable, TypeOK, TypeOK', Bookkeeping, Bookkeeping', StacksStay,
         RoleKnown, NEW c \in CR, Work(c)
  PROVE  NotForgotten(c)'
  <1>type. wk \in [CR -> Worker] /\ wk[c] \in Worker
    BY DEF TypeOK, ReconcilerTypeOK
  <1>books. CacheFollows(c) /\ HasReason(c) /\ ProcessingIsWorking(c)'
    BY DEF Bookkeeping, Consistent
  <1>busy. wk'[c].pc # "idle" => NotForgotten(c)'
    BY <1>books DEF ProcessingIsWorking, NotForgotten, Pending
  <1>again. Return(c, TRUE) => NotForgotten(c)'
    BY DEF Return, Finish, NotForgotten, Pending
  <1>told. \A again : Return(c, again) /\ UNCHANGED apiVars /\ Announced(c) =>
             NotForgotten(c)'
    BY DEF Return, Finish, NotForgotten, Pending, Announced, apiVars
  <1>1. CASE GoesOn(c)
    BY <1>1, <1>busy DEF GoesOn, HasCopy
  <1>2. CASE GivesUp(c, TRUE)
    BY <1>2, <1>again DEF GivesUp
  <1>3. CASE Session(c)
    <2>1. Complained(c)
      BY DEF RoleKnown
    <2> QED  BY <1>3, <1>busy, <1>told, <2>1, SessionKeeps
             DEF NotForgotten, Wanted, apiVars
  <1>4. CASE Events(c) /\ (Fault("describeStackEvents") \/ ~Exists(StackOf[c]))
    BY <1>4 DEF Events, Fault, Reliable, StacksStay
  <1>5. CASE Reads(c)
    <2>1. CASE Hold(c, cache[c])
      BY <1>type, <1>busy, <2>1 DEF Hold, Worker
    <2>2. CASE Return(c, FALSE) /\ (~cache[c].present \/ NotUpdated(cache[c]))
      <3>1. CASE watch[c] # <<>>
        BY <1>5, <1>told, <2>2, <3>1 DEF Reads, Announced
      <3>2. CASE watch[c] = <<>>
        <4>1. obj'[c] = cache[c]
          BY <1>5, <1>books, <3>2 DEF Reads, CacheFollows, apiVars
        <4> QED  BY <2>2, <4>1
                 DEF NotForgotten, Wanted, Settled, NotUpdated, Terminal
      <3> QED  BY <3>1, <3>2
    <2> QED  BY <1>5, <2>1, <2>2 DEF Reads
  <1>6. CASE Update(c)
    <2>1. HasCopy(c)
      BY <1>6 DEF Update, HasCopy
    <2>2. ASSUME wk[c].fresh, Put(c), NEW again, Return(c, again)
          PROVE  NotForgotten(c)'
      <3>1. CASE Store(c, wk[c].copy)
        <4>1. wk[c].copy \in Object /\ ApiTypeOK
          BY <1>type DEF Worker, TypeOK
        <4>2. watch'[c] # <<>>
          BY <3>1, <4>1, StoreFollows
        <4> QED  BY <4>2 DEF NotForgotten, Pending
      <3>2. CASE wk[c].copy = obj[c] /\ Terminal(ThePhase(c)) /\ UNCHANGED apiVars
        <4>1. CASE Announced(c)
          BY <1>told, <2>2, <3>2, <4>1
        <4>2. CASE ~Announced(c)
          <5>1. obj[c].deleting
            BY <1>books, <2>1, <3>2, <4>2 DEF HasReason, ThePhase
          <5> QED  BY <3>2, <5>1 DEF NotForgotten, Wanted, apiVars
        <4> QED  BY <4>1, <4>2
      <3> QED  BY <2>2, <3>1, <3>2 DEF Put
    <2>3. ASSUME UNCHANGED apiVars, Return(c, wk[c].then # "provider"),
                 Fault("update") \/ ~wk[c].fresh
          PROVE  NotForgotten(c)'
      <3>1. CASE wk[c].then # "provider"
        <4>1. (wk[c].then # "provider") = TRUE
          BY <3>1
        <4> QED  BY <1>again, <2>3, <4>1
      <3>2. CASE wk[c].then = "provider"
        <4>1. TheBody(c) \in AnyBody /\ wk[c].left \in 0 .. 3
          BY <1>type DEF Worker, Object, StackSpec, TheBody
        <4>2. Provider[TheBody(c)].complaints > 0
          BY <3>2, <4>1, ProviderType DEF RoleKnown, DropsForRole
        <4>3. ~Fault("update")
          BY <4>1, <4>2 DEF Reliable, Fault
        <4>4. Announced(c)
          BY <1>books, <2>1, <2>3, <4>3 DEF HasReason
        <4> QED  BY <1>told, <2>3, <4>4
      <3> QED  BY <3>1, <3>2
    <2>4. ASSUME NEW pc \in {"describe", "session"}, Resume(c, pc)
          PROVE  NotForgotten(c)'
      BY <1>type, <1>busy, <2>4 DEF Resume, Worker
    <2> QED  BY <1>6, <2>2, <2>3, <2>4 DEF Update, Updated
  <1>7. CASE SetAssumeRoleProvider(c)
    BY <1>7, <1>busy, ProviderKind
  <1> QED  BY <1>1, <1>2, <1>3, <1>4, <1>5, <1>6, <1>7, MiddleKind, GetKind
           DEF Work, Step

\* The induction step of NothingIsForgotten, by who takes the step.
LEMMA NoLostWorkStep ==
  ASSUME Reliable, TypeOK, TypeOK', Bookkeeping, Bookkeeping', StacksStay,
         RoleKnown, NoLostWork, [Next]_vars
  PROVE  NoLostWork'
  <1>type. wk \in [CR -> Worker] /\ ApiTypeOK
    BY DEF TypeOK, ReconcilerTypeOK
  <1> SUFFICES ASSUME NEW d \in CR PROVE NotForgotten(d)'
    BY DEF NoLostWork, NotForgotten
  <1>d. NotForgotten(d)
    BY DEF NoLostWork, NotForgotten
  <1>same. obj'[d] = obj[d] /\ (Pending(d) => Pending(d)') => NotForgotten(d)'
    BY <1>d DEF NotForgotten, Wanted, Settled
  <1>1. CASE UNCHANGED vars
    BY <1>1, <1>same DEF vars, apiVars, queueVars, Pending
  <1>2. ASSUME NEW c \in CR, User(c) PROVE NotForgotten(d)'
    <2>1. \E o : Store(c, o) /\ UNCHANGED queueVars
      BY <1>2 DEF User, Submit, Edit, MarkDeleting, Remove, UserWrites
    <2>2. CASE d # c
      <3>1. obj'[d] = obj[d] /\ watch'[d] = watch[d]
        BY <1>type, <2>1, <2>2 DEF Store, ApiTypeOK
      <3> QED  BY <1>same, <2>1, <3>1 DEF Pending, queueVars
    <2>3. CASE d = c
      <3>1. watch[c] \in Seq(Object) /\ \E o : watch'[c] = Append(watch[c], o)
        BY <1>type, <2>1 DEF Store, ApiTypeOK
      <3>2. watch'[c] \in Seq(Object)
        BY DEF TypeOK, ApiTypeOK
      <3>3. watch'[c] # <<>>
        BY <3>1, <3>2
      <3> QED  BY <2>3, <3>3 DEF NotForgotten, Pending
    <2> QED  BY <2>2, <2>3
  <1>3. ASSUME NEW c \in CR, Start(c) PROVE NotForgotten(d)'
    BY <1>3, <1>same DEF Start, Begin, Take, Pending, apiVars
  <1>4. ASSUME NEW c \in CR, Work(c) PROVE NotForgotten(d)'
    <2>1. CASE d = c
      BY <1>4, <2>1, OwnNotForgotten
    <2>2. CASE d # c
      BY <1>4, <1>same, <2>2, WorkKinds, OthersUntouched DEF Pending
    <2> QED  BY <2>1, <2>2
  <1>5. ASSUME NEW c \in CR, Timer(c) PROVE NotForgotten(d)'
    BY <1>5, <1>same DEF Timer, TimerFires, Pending, apiVars
  <1>6. ASSUME NEW c \in CR, Event(c) PROVE NotForgotten(d)'
    BY <1>type, <1>6, <1>same DEF Event, Deliver, Add, Pending, ApiTypeOK
  <1>7. ASSUME NEW c \in CR, Again(c) PROVE NotForgotten(d)'
    BY <1>7, <1>same DEF Again, Resync, Add, Pending, apiVars
  <1>8. ASSUME NEW s \in Stack, Aws(s) \/ OperatorDeletesStack(s)
        PROVE  NotForgotten(d)'
    BY <1>8, <1>same
    DEF Aws, OperatorDeletesStack, Pending, apiVars, queueVars
  <1>9. CASE Restart
    BY <1>9 DEF Restart, Relist, NotForgotten, Wanted, Pending
  <1> QED  BY <1>1, <1>2, <1>3, <1>4, <1>5, <1>6, <1>7, <1>8, <1>9
           DEF Next, Crash, Die

\* With nothing submitted nothing is forgotten.
LEMMA InvInit == Init => StacksStay /\ RoleKnown /\ NoLostWork
  <1> SUFFICES ASSUME Init PROVE StacksStay /\ RoleKnown /\ NoLostWork
    OBVIOUS
  <1>1. Idle.pc = "idle" /\ Idle.then = ""
    BY DEF Idle
  <1>2. StacksStay
    <2>1. stacks \in [Stack -> {NoStack} \cup {Created(b) : b \in Body}]
      BY DEF Init, CfnInit
    <2>2. \A s \in Stack : stacks[s].status # "DELETE_IN_PROGRESS"
      BY <2>1 DEF NoStack, Created
    <2>3. \A c \in CR : wk[c].pc = "idle"
      BY <1>1 DEF Init, ReconcilerInit
    <2> QED  BY <2>2, <2>3 DEF StacksStay
  <1>3. RoleKnown
    BY <1>1 DEF Init, ReconcilerInit, RoleKnown, Complained, DropsForRole
  <1>4. NoLostWork
    BY DEF Init, ApiInit, NoObj, Submitted, NoLostWork, Wanted
  <1> QED  BY <1>2, <1>3, <1>4

\* In a Reliable deployment a resource that is not settled is in the queue, in
\* a worker, behind a timer or announced by an event, at any moment: no order
\* of edits, events, faults and restarts makes the controller forget it.
THEOREM NothingIsForgotten ==
  ASSUME Reliable PROVE Spec => []NoLostWork
  <1> DEFINE Known == TypeOK /\ Bookkeeping
  <1>1. Spec => []Known
    BY TypeCorrect, BookkeepingHolds, PTL
  <1>2. Init => Init /\ StacksStay /\ RoleKnown /\ NoLostWork
    BY InvInit
  <1>3. /\ Known /\ Known' /\ StacksStay /\ RoleKnown /\ NoLostWork
        /\ [Next]_vars
        => StacksStay' /\ RoleKnown' /\ NoLostWork'
    BY StacksStayStep, RoleKnownStep, NoLostWorkStep
  <1> HIDE DEF Known
  <1> QED  BY <1>1, <1>2, <1>3, PTL DEF Spec
=============================================================================
