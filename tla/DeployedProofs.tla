--------------------------- MODULE DeployedProofs ---------------------------
(***************************************************************************)
(* In a Traceable deployment a Success means that the stack is there, and  *)
(* nothing is executed behind one; nor, as long as nothing failed, behind  *)
(* a Failure.                                                              *)
(***************************************************************************)
EXTENDS SettledProofs, ControllerPromise

(* What the steps of a worker leave in its hands.                          *)

\* GoTo leaves all that a worker holds but its place and its copy.
LEMMA GoToIs ==
  ASSUME wk \in [CR -> Worker], NEW c \in CR, NEW pc, NEW o, GoTo(c, pc, o)
  PROVE  /\ wk'[c].pc = pc /\ wk'[c].copy = o
         /\ wk'[c].then = wk[c].then /\ wk'[c].seen = wk[c].seen
         /\ wk'[c].fresh = wk[c].fresh /\ wk'[c].left = wk[c].left
  <1>1. wk' = [wk EXCEPT ![c] = [@ EXCEPT !.pc = pc, !.copy = o]]
    BY DEF GoTo
  <1> QED  BY <1>1 DEF Worker

\* updateStatus writes the phase and nothing else of the copy.
LEMMA UpdateStatusIs ==
  ASSUME wk \in [CR -> Worker], NEW c \in CR, NEW phase, NEW then,
         UpdateStatus(c, phase, then)
  PROVE  /\ wk'[c].pc = "update" /\ wk'[c].then = then
         /\ wk'[c].seen = wk[c].seen /\ wk'[c].fresh = wk[c].fresh
         /\ wk'[c].left = wk[c].left
         /\ wk'[c].copy.spec = wk[c].copy.spec
         /\ wk'[c].copy.present = wk[c].copy.present
         /\ wk'[c].copy.deleting = wk[c].copy.deleting
         /\ wk'[c].copy.status.phase = phase
         /\ wk'[c].copy.status.checksum = wk[c].copy.status.checksum
         /\ wk'[c].copy.status.changeset = wk[c].copy.status.changeset
  <1>1. wk[c] \in Worker /\ wk[c].copy \in Object /\ wk[c].copy.status \in Status
    BY DEF Worker, Object
  <1> DEFINE status == [wk[c].copy.status EXCEPT !.phase = phase]
             copy == [wk[c].copy EXCEPT !.status = status]
  <1>2. /\ status.phase = phase
        /\ status.checksum = wk[c].copy.status.checksum
        /\ status.changeset = wk[c].copy.status.changeset
    BY <1>1 DEF Status
  <1>3. /\ copy.status = status /\ copy.spec = wk[c].copy.spec
        /\ copy.present = wk[c].copy.present
        /\ copy.deleting = wk[c].copy.deleting
    BY <1>1 DEF Object
  <1>4. wk' = [wk EXCEPT ![c] = [@ EXCEPT !.pc = "update", !.copy = copy,
                                          !.then = then]]
    BY DEF UpdateStatus
  <1> HIDE DEF copy, status
  <1>5. /\ wk'[c].pc = "update" /\ wk'[c].then = then /\ wk'[c].copy = copy
        /\ wk'[c].seen = wk[c].seen /\ wk'[c].fresh = wk[c].fresh
        /\ wk'[c].left = wk[c].left
    BY <1>1, <1>4 DEF Worker
  <1> QED  BY <1>2, <1>3, <1>5

\* Recording a change set writes its name and the phase, and nothing else.
LEMMA RecordChangeSetIs ==
  ASSUME wk \in [CR -> Worker], NEW c \in CR, NEW n, NEW phase, NEW then,
         RecordChangeSet(c, n, phase, then)
  PROVE  /\ wk'[c].pc = "update" /\ wk'[c].then = then
         /\ wk'[c].seen = wk[c].seen /\ wk'[c].fresh = wk[c].fresh
         /\ wk'[c].left = wk[c].left
         /\ wk'[c].copy.spec = wk[c].copy.spec
         /\ wk'[c].copy.present = wk[c].copy.present
         /\ wk'[c].copy.deleting = wk[c].copy.deleting
         /\ wk'[c].copy.status.phase = phase
         /\ wk'[c].copy.status.checksum = wk[c].copy.status.checksum
         /\ wk'[c].copy.status.changeset = n
  <1>1. wk[c] \in Worker /\ wk[c].copy \in Object /\ wk[c].copy.status \in Status
    BY DEF Worker, Object
  <1> DEFINE status == [wk[c].copy.status EXCEPT !.phase = phase,
                                                 !.changeset = n]
             copy == [wk[c].copy EXCEPT !.status = status]
  <1>2. /\ status.phase = phase
        /\ status.checksum = wk[c].copy.status.checksum
        /\ status.changeset = n
    BY <1>1 DEF Status
  <1>3. /\ copy.status = status /\ copy.spec = wk[c].copy.spec
        /\ copy.present = wk[c].copy.present
        /\ copy.deleting = wk[c].copy.deleting
    BY <1>1 DEF Object
  <1>4. wk' = [wk EXCEPT ![c] = [@ EXCEPT !.pc = "update", !.then = then,
                                          !.copy = copy]]
    BY DEF RecordChangeSet
  <1> HIDE DEF copy, status
  <1>5. /\ wk'[c].pc = "update" /\ wk'[c].then = then /\ wk'[c].copy = copy
        /\ wk'[c].seen = wk[c].seen /\ wk'[c].fresh = wk[c].fresh
        /\ wk'[c].left = wk[c].left
    BY <1>1, <1>4 DEF Worker
  <1> QED  BY <1>2, <1>3, <1>5

\* A run begins with the resource as the cache has it, and its new checksum.
LEMMA HoldIs ==
  ASSUME wk \in [CR -> Worker], NEW c \in CR, NEW o \in Object, Hold(c, o)
  PROVE  /\ wk'[c].pc = "session" /\ wk'[c].then = wk[c].then
         /\ wk'[c].seen = wk[c].seen /\ wk'[c].fresh = (watch[c] = <<>>)
         /\ wk'[c].left = Provider[o.spec.body].complaints
         /\ wk'[c].copy.spec = o.spec
         /\ wk'[c].copy.present = o.present
         /\ wk'[c].copy.deleting = o.deleting
         /\ wk'[c].copy.status.phase = o.status.phase
         /\ wk'[c].copy.status.checksum = Checksum(o.spec)
         /\ wk'[c].copy.status.changeset = o.status.changeset
  <1> DEFINE status == [o.status EXCEPT !.checksum = Checksum(o.spec)]
             copy == [o EXCEPT !.status = status]
             current == watch[c] = <<>>
             complaints == Provider[o.spec.body].complaints
  <1>1. wk[c] \in Worker /\ o.status \in Status
    BY DEF Worker, Object
  <1>2. /\ status.phase = o.status.phase
        /\ status.checksum = Checksum(o.spec)
        /\ status.changeset = o.status.changeset
    BY <1>1 DEF Status
  <1>3. /\ copy.status = status /\ copy.spec = o.spec
        /\ copy.present = o.present /\ copy.deleting = o.deleting
    BY <1>1 DEF Object
  <1>4. wk' = [wk EXCEPT ![c] = [@ EXCEPT !.pc = "session", !.copy = copy,
                                   !.fresh = current, !.left = complaints]]
    BY DEF Hold
  <1> HIDE DEF copy, status, current, complaints
  <1>5. /\ wk'[c].pc = "session" /\ wk'[c].then = wk[c].then
        /\ wk'[c].seen = wk[c].seen
        /\ wk'[c].copy = copy /\ wk'[c].fresh = current
        /\ wk'[c].left = complaints
    BY <1>1, <1>4 DEF Worker
  <1> QED  BY <1>2, <1>3, <1>5 DEF current, complaints

\* A run that goes on after an Update keeps what it has.
LEMMA ResumeIs ==
  ASSUME wk \in [CR -> Worker], NEW c \in CR, NEW pc, Resume(c, pc)
  PROVE  /\ wk'[c].pc = pc /\ wk'[c].then = ""
         /\ wk'[c].copy = wk[c].copy /\ wk'[c].seen = wk[c].seen
         /\ wk'[c].fresh = wk[c].fresh /\ wk'[c].left = wk[c].left
  BY DEF Resume, Worker

\* A run that returns leaves nothing behind.
LEMMA ReturnIs ==
  ASSUME wk \in [CR -> Worker], NEW c \in CR, NEW again, Return(c, again)
  PROVE  wk'[c].pc = "idle" /\ wk'[c].then = ""
  BY DEF Return, Idle

\* SetAssumeRoleProvider changes no more of the copy than its phase, to
\* Failure, and whether its fields are filled in.
LEMMA ProviderIs ==
  ASSUME TypeOK, NEW c \in CR, SetAssumeRoleProvider(c)
  PROVE  /\ wk[c].pc = "session" /\ wk'[c].pc = "update"
         /\ wk'[c].then = "provider" /\ wk'[c].fresh = wk[c].fresh
         /\ TheBody(c)' = TheBody(c) /\ ThePhase(c)' = "Failure"
         /\ wk'[c].copy.status.checksum = wk[c].copy.status.checksum
         /\ wk'[c].copy.status.changeset = wk[c].copy.status.changeset
         /\ wk'[c].copy.present = wk[c].copy.present
         /\ wk'[c].copy.deleting = wk[c].copy.deleting
         /\ wk'[c].seen = wk[c].seen
         /\ UNCHANGED <<cfnVars, apiVars>>
  BY ProviderKind, ProviderCopy
  DEF SetAssumeRoleProvider, GoesOn, TheBody, ThePhase

-----------------------------------------------------------------------------
(* What the steps of anybody do to a stack at rest.                        *)

\* Only these two calls of a worker do anything to a stack.
LEMMA WhoTouchesStacks ==
  ASSUME NEW c \in CR, Work(c), ~UNCHANGED cfnVars
  PROVE  CreateChangeSet(c) \/ ExecuteChangeSet(c)
  BY DEF Work, Step, Get, SetAssumeRoleProvider, Session, References, Describe,
         Events, List, Template, Update

\* Only its own worker adds to the change sets of a stack, or executes one.
LEMMA WhoTouchesChangeSets ==
  ASSUME TypeOK, NEW d \in CR, Work(d), NEW s \in Stack,
         changeSets'[s] # changeSets[s]
  PROVE  \/ CreateChangeSet(d) /\ s = StackOf[d]
         \/ ExecuteChangeSet(d) /\ s = StackOf[d]
  <1>1. changeSets \in [Stack -> SUBSET ChangeSet]
    BY DEF TypeOK, CfnTypeOK
  <1>2. ~UNCHANGED cfnVars
    BY DEF cfnVars
  <1>3. CASE \E n, b : AddChangeSet(StackOf[d], n, b)
    BY <1>1, <1>2, <1>3, WhoTouchesStacks DEF AddChangeSet
  <1>4. CASE \E x : StartExecution(StackOf[d], x)
    BY <1>1, <1>2, <1>4, WhoTouchesStacks DEF StartExecution
  <1> QED  BY <1>2, <1>3, <1>4, WhoTouchesStacks
           DEF CreateChangeSet, ExecuteChangeSet

\* A change set is added to no stack but that of its worker, and brings it into
\* being or leaves it as it is.
LEMMA CreateTouches ==
  ASSUME TypeOK, NEW c \in CR, CreateChangeSet(c), NEW s \in Stack
  PROVE  \/ stacks'[s] = stacks[s]
         \/ s = StackOf[c] /\ stacks[s].status = "NONE"
  <1>1. CASE UNCHANGED cfnVars
    BY <1>1 DEF cfnVars
  <1>2. CASE \E n, b : AddChangeSet(StackOf[c], n, b)
    <2>1. /\ stacks \in [Stack -> StackRecord]
          /\ stacks' = [stacks EXCEPT ![StackOf[c]].status =
                          IF @ = "NONE" THEN "REVIEW_IN_PROGRESS" ELSE @]
      BY <1>2 DEF AddChangeSet, TypeOK, CfnTypeOK
    <2> QED  BY <2>1 DEF StackRecord
  <1> QED  BY <1>1, <1>2 DEF CreateChangeSet

\* A change set is executed on no stack but that of its worker.
LEMMA ExecuteTouches ==
  ASSUME TypeOK, NEW c \in CR, ExecuteChangeSet(c), NEW s \in Stack,
         s # StackOf[c]
  PROVE  stacks'[s] = stacks[s]
  <1>1. CASE UNCHANGED cfnVars
    BY <1>1 DEF cfnVars
  <1>2. CASE \E x : StartExecution(StackOf[c], x)
    BY <1>2 DEF StartExecution, TypeOK, CfnTypeOK
  <1> QED  BY <1>1, <1>2 DEF ExecuteChangeSet

\* CloudFormation takes no stack anywhere that is at rest.
LEMMA AwsLeavesAtRest ==
  ASSUME TypeOK, NEW r \in Stack, Aws(r), NEW s \in Stack,
         IsComplete(stacks[s].status)
  PROVE  stacks'[s] = stacks[s]
  <1>1. NextStatus(stacks[s].status) = {}
    BY DEF NextStatus, IsComplete
  <1> QED  BY <1>1 DEF Aws, StackStep, ChangeSetStep, TypeOK, CfnTypeOK

\* A stack at rest stays as it is until its own worker executes a change set.
LEMMA AtRestStays ==
  ASSUME Separate, "deleteStack" \notin Faults, TypeOK, [Next]_vars,
         NEW c \in CR, IsComplete(TheStack(c).status), ~ExecuteChangeSet(c)
  PROVE  TheStack(c)' = TheStack(c)
  <1>1. StackOf[c] \in Stack /\ stacks[StackOf[c]].status # "NONE"
    BY StackOfType DEF TheStack, IsComplete
  <1>2. ASSUME NEW d \in CR, Work(d)
        PROVE  TheStack(c)' = TheStack(c)
    <2>1. CASE CreateChangeSet(d)
      BY <1>1, <2>1, CreateTouches DEF TheStack
    <2>2. CASE ExecuteChangeSet(d)
      BY <1>1, <2>2, ExecuteTouches DEF TheStack, Separate
    <2> QED  BY <1>2, <2>1, <2>2, WhoTouchesStacks DEF TheStack, cfnVars
  <1>3. ASSUME NEW s \in Stack, Aws(s) PROVE TheStack(c)' = TheStack(c)
    BY <1>1, <1>3, AwsLeavesAtRest DEF TheStack
  <1>4. CASE \A d \in CR : ~Work(d)
    BY <1>3, <1>4
    DEF Next, vars, User, Submit, Edit, MarkDeleting, Remove, UserWrites, Start,
        Begin, Timer, Event, Again, OperatorDeletesStack, Fault, Crash, Die,
        Restart, TheStack, cfnVars
  <1> QED  BY <1>2, <1>4

\* So does what has been reached.
LEMMA ReachedStays ==
  ASSUME Separate, "deleteStack" \notin Faults, TypeOK, [Next]_vars,
         NEW c \in CR, NEW sum, Reached(c, sum), ~ExecuteChangeSet(c)
  PROVE  Reached(c, sum)'
  <1>1. TheStack(c)' = TheStack(c)
    BY AtRestStays DEF Reached
  <1> QED  BY <1>1 DEF Reached, Deployed, Has

-----------------------------------------------------------------------------
(* What a worker's own steps do to Honest.                                 *)

\* A stored Success outlives any step that leaves the resource as it is.
LEMMA SuccessStays ==
  ASSUME Traceable, TypeOK, [Next]_vars, NEW c \in CR, Honest(c),
         obj'[c].status = obj[c].status
  PROVE  obj'[c].status.phase = "Success" =>
           Reached(c, obj[c].status.checksum)'
  <1> SUFFICES ASSUME obj'[c].status.phase = "Success"
               PROVE  Reached(c, obj[c].status.checksum)'
    OBVIOUS
  <1>1. Reached(c, obj[c].status.checksum) /\ ~ExecuteChangeSet(c)
    BY DEF Honest, SuccessReached, SuccessRests, ExecuteChangeSet
  <1>2. TheStack(c)' = TheStack(c)
    BY <1>1, AtRestStays DEF Reached, Traceable
  <1> QED  BY <1>1, <1>2 DEF Reached, Deployed, Has

\* The end of a run that wrote nothing.
LEMMA ReturnHonest ==
  ASSUME Traceable, TypeOK, [Next]_vars, NEW c \in CR, Honest(c), NEW again,
         Return(c, again), UNCHANGED apiVars
  PROVE  Honest(c)'
  <1>1. wk \in [CR -> Worker]
    BY DEF TypeOK, ReconcilerTypeOK
  <1>2. wk'[c].pc = "idle" /\ obj' = obj
    BY <1>1, ReturnIs DEF apiVars
  <1>3. SuccessReached(c)'
    BY <1>2, SuccessStays DEF SuccessReached
  <1> QED  BY <1>2, <1>3
           DEF Honest, SumOfCopy, SuccessRests, SeenIsCurrent, HasCopy

\* What a step leaves that prepares an Update of anything but a Success.
LEMMA FailureHonest ==
  ASSUME Traceable, TypeOK, [Next]_vars, NEW c \in CR, Honest(c), HasCopy(c),
         UNCHANGED apiVars, wk'[c].pc = "update", wk'[c].then # "provider",
         TheBody(c)' = TheBody(c), ThePhase(c)' # "Success",
         wk'[c].copy.status.checksum = wk[c].copy.status.checksum
  PROVE  Honest(c)'
  <1>1. obj' = obj
    BY DEF apiVars
  <1>2. SuccessReached(c)'
    BY <1>1, SuccessStays DEF SuccessReached
  <1>3. SumOfCopy(c)'
    BY DEF Honest, SumOfCopy
  <1> QED  BY <1>2, <1>3 DEF Honest, SuccessRests, SeenIsCurrent

\* What a step leaves that goes on to another call of AWS.
LEMMA GoesOnHonest ==
  ASSUME Traceable, TypeOK, [Next]_vars, NEW c \in CR, Honest(c), HasCopy(c),
         DropsForRole(c), UNCHANGED apiVars, wk[c].pc # "update",
         wk'[c].pc \in {"references", "describe", "create"},
         wk'[c].pc = "references" => wk[c].pc = "session",
         wk'[c].then = wk[c].then, ThePhase(c)' = ThePhase(c),
         wk'[c].copy.status.checksum = wk[c].copy.status.checksum,
         \/ TheBody(c)' = TheBody(c)
         \/ /\ wk[c].pc = "references" /\ wk'[c].pc = "describe"
            /\ TheBody(c)' \in Resolutions[TheBody(c)]
  PROVE  Honest(c)'
  <1>1. obj' = obj
    BY DEF apiVars
  <1>2. SuccessReached(c)'
    BY <1>1, SuccessStays DEF SuccessReached
  <1>3. SumOfCopy(c)'
    BY DEF Honest, SumOfCopy, DropsForRole
  <1>4. SuccessRests(c)'
    BY <1>1 DEF Honest, SuccessRests
  <1> QED  BY <1>2, <1>3, <1>4 DEF Honest, SeenIsCurrent

\* Until DescribeStacks, a run only has a copy.
LEMMA FirstHalfHonest ==
  ASSUME Traceable, TypeOK, [Next]_vars, NEW c \in CR, Consistent(c),
         DropsForRole(c), Honest(c),
         Get(c) \/ SetAssumeRoleProvider(c) \/ Session(c) \/ References(c)
  PROVE  Honest(c)'
  <1>type. /\ wk \in [CR -> Worker] /\ wk[c].copy \in Object
           /\ wk[c].copy.spec \in StackSpec /\ cache[c] \in Object
           /\ obj[c] \in Object
    BY DEF TypeOK, ReconcilerTypeOK, ApiTypeOK, Worker, Object
  <1>1. CASE Get(c)
    <2>1. UNCHANGED apiVars
      BY <1>1 DEF Get
    <2>2. CASE \E again : Return(c, again)
      BY <2>1, <2>2, ReturnHonest
    <2>3. CASE Hold(c, cache[c])
      <3>1. cache[c] = obj[c]
        BY <1>1 DEF Get, Traceable, Consistent, CacheFollows
      <3>2. /\ wk'[c].pc = "session" /\ TheBody(c)' = obj[c].spec.body
            /\ ThePhase(c)' = obj[c].status.phase
            /\ wk'[c].copy.status.checksum = Checksum(obj[c].spec)
            /\ obj' = obj
        BY <1>type, <2>1, <2>3, <3>1, HoldIs DEF TheBody, ThePhase, apiVars
      <3>3. SuccessReached(c)'
        BY <3>2, SuccessStays DEF SuccessReached
      <3>4. SumOfCopy(c)'
        <4>1. obj[c].spec \in StackSpec
          BY <1>type DEF Object
        <4> QED  BY <3>2, <4>1 DEF SumOfCopy
      <3> QED  BY <3>2, <3>3, <3>4 DEF Honest, SuccessRests, SeenIsCurrent
    <2> QED  BY <1>1, <2>2, <2>3 DEF Get
  <1>2. CASE SetAssumeRoleProvider(c)
    <2>1. /\ wk[c].pc = "session" /\ wk'[c].pc = "update"
          /\ TheBody(c)' = TheBody(c) /\ ThePhase(c)' = "Failure"
          /\ wk'[c].copy.status.checksum = wk[c].copy.status.checksum
          /\ obj' = obj
      BY <1>2, ProviderIs DEF apiVars
    <2>2. SuccessReached(c)'
      BY <2>1, SuccessStays DEF SuccessReached
    <2>3. SumOfCopy(c)'
      BY <2>1 DEF Honest, SumOfCopy, HasCopy
    <2> QED  BY <2>1, <2>2, <2>3 DEF Honest, SuccessRests, SeenIsCurrent
  <1>3. CASE Session(c)
    <2>1. CASE \E again : Return(c, again) /\ UNCHANGED apiVars
      BY <2>1, ReturnHonest
    <2>2. ASSUME NEW pc \in {"references", "describe"},
                 GoTo(c, pc, [wk[c].copy EXCEPT !.spec.defaulted = TRUE])
          PROVE  Honest(c)'
      <3> DEFINE filled == [wk[c].copy EXCEPT !.spec.defaulted = TRUE]
      <3>1. filled.status = wk[c].copy.status /\ filled.spec.body = TheBody(c)
        BY <1>type DEF Object, StackSpec, TheBody
      <3>goes. GoTo(c, pc, filled)
        BY <2>2
      <3> HIDE DEF filled
      <3>2. /\ wk'[c].pc = pc /\ wk'[c].then = wk[c].then
            /\ ThePhase(c)' = ThePhase(c) /\ TheBody(c)' = TheBody(c)
            /\ wk'[c].copy.status.checksum = wk[c].copy.status.checksum
        BY <1>type, <3>1, <3>goes, GoToIs DEF TheBody, ThePhase
      <3>3. wk[c].pc = "session" /\ UNCHANGED apiVars
        BY <1>3 DEF Session
      <3> QED  BY <3>2, <3>3, GoesOnHonest DEF HasCopy
    <2> QED  BY <1>3, <2>1, <2>2 DEF Session
  <1>4. CASE References(c)
    <2>1. wk[c].pc = "references" /\ UNCHANGED apiVars
      BY <1>4 DEF References
    <2>2. ASSUME NEW b \in Resolutions[TheBody(c)],
                 GoTo(c, "describe", [wk[c].copy EXCEPT !.spec.body = b])
          PROVE  Honest(c)'
      <3> DEFINE resolved == [wk[c].copy EXCEPT !.spec.body = b]
      <3>1. resolved.status = wk[c].copy.status /\ resolved.spec.body = b
        BY <1>type DEF Object, StackSpec
      <3>goes. GoTo(c, "describe", resolved)
        BY <2>2
      <3> HIDE DEF resolved
      <3>2. /\ wk'[c].pc = "describe" /\ wk'[c].then = wk[c].then
            /\ ThePhase(c)' = ThePhase(c) /\ TheBody(c)' = b
            /\ wk'[c].copy.status.checksum = wk[c].copy.status.checksum
        BY <1>type, <3>1, <3>goes, GoToIs DEF TheBody, ThePhase
      <3> QED  BY <2>1, <3>2, GoesOnHonest DEF HasCopy
    <2>3. CASE UpdateStatus(c, "Failure", "continue")
      BY <1>type, <2>1, <2>3, UpdateStatusIs, FailureHonest
      DEF HasCopy, TheBody, ThePhase
    <2>4. CASE GoTo(c, "describe", wk[c].copy)
      BY <1>type, <2>1, <2>4, GoToIs, GoesOnHonest
      DEF HasCopy, TheBody, ThePhase
    <2> QED  BY <1>4, <2>2, <2>3, <2>4 DEF References
  <1> QED  BY <1>1, <1>2, <1>3, <1>4

\* What a run sees of its stack: a look for change sets, or at the template,
\* follows only what can still be changed.
LEMMA LooksHonest ==
  ASSUME Traceable, TypeOK, [Next]_vars, NEW c \in CR, Honest(c),
         Describe(c) \/ Events(c) \/ List(c)
  PROVE  Honest(c)' \/ wk'[c].pc \in {"create", "update", "idle"}
  <1>type. wk \in [CR -> Worker] /\ wk[c].seen.status \in StackStatuses \cup {"NONE"}
    BY DEF TypeOK, ReconcilerTypeOK, Worker
  <1>same. UNCHANGED <<cfnVars, apiVars>>
    BY DEF Describe, Events, List
  <1>success. SuccessReached(c)' \/ wk'[c].pc = "update"
    BY <1>same, SuccessStays DEF SuccessReached, apiVars
  <1>1. CASE Describe(c)
    <2>1. CASE wk' = [wk EXCEPT ![c].pc = "events", ![c].seen =
                        [status |-> TheStack(c).status, body |-> TheStack(c).body]]
      <3>1. /\ wk'[c].pc = "events" /\ wk'[c].copy = wk[c].copy
            /\ wk'[c].then = wk[c].then
            /\ wk'[c].seen.status = TheStack(c).status
            /\ wk'[c].seen.body = TheStack(c).body
        BY <1>type, <2>1 DEF Worker
      <3>2. SumOfCopy(c)'
        BY <1>1, <3>1 DEF Describe, Honest, SumOfCopy, HasCopy, TheBody
      <3>3. SuccessRests(c)'
        <4>1. obj[c].status.phase = "Success" => IsComplete(TheStack(c).status)
          BY DEF Honest, SuccessReached, Reached
        <4>2. \A status : IsComplete(status) => ~IsReviewInProgress(status)
          BY DEF IsComplete, IsReviewInProgress
        <4> QED  BY <1>1, <1>same, <3>1, <4>1, <4>2
                 DEF Describe, Honest, SuccessRests, HasCopy, ThePhase, apiVars
      <3>4. SeenIsCurrent(c)'
        BY <1>same, <3>1 DEF SeenIsCurrent, TheStack, cfnVars
      <3> QED  BY <1>success, <3>1, <3>2, <3>3, <3>4 DEF Honest
    <2> QED  BY <1>type, <1>1, <2>1, GoToIs DEF Describe
  <1>2. CASE \E pc \in {"list", "template"} :
               /\ GoTo(c, pc, wk[c].copy) /\ wk[c].pc \in {"events", "list"}
               /\ IsComplete(wk[c].seen.status) \/
                    (pc = "list" /\ IsReviewInProgress(wk[c].seen.status))
               /\ pc = "list" => obj[c].status.phase # "Success"
    <2>1. PICK pc \in {"list", "template"} :
            /\ GoTo(c, pc, wk[c].copy) /\ wk[c].pc \in {"events", "list"}
            /\ IsComplete(wk[c].seen.status) \/
                 (pc = "list" /\ IsReviewInProgress(wk[c].seen.status))
            /\ pc = "list" => obj[c].status.phase # "Success"
      BY <1>2
    <2>2. /\ wk'[c].pc = pc /\ wk'[c].copy = wk[c].copy
          /\ wk'[c].then = wk[c].then /\ wk'[c].seen = wk[c].seen
      BY <1>type, <2>1, GoToIs
    <2>3. SumOfCopy(c)'
      BY <2>1, <2>2 DEF Honest, SumOfCopy, HasCopy, TheBody
    <2>4. SuccessRests(c)'
      BY <1>same, <2>1, <2>2 DEF Honest, SuccessRests, HasCopy, ThePhase, apiVars
    <2>5. SeenIsCurrent(c)'
      BY <1>same, <2>1, <2>2 DEF Honest, SeenIsCurrent, TheStack, cfnVars
    <2> QED  BY <1>success, <2>2, <2>3, <2>4, <2>5 DEF Honest
  <1>3. \A pc, o : GoTo(c, pc, o) => wk'[c].pc = pc
    BY <1>type, GoToIs
  <1>4. \A phase, then : UpdateStatus(c, phase, then) => wk'[c].pc = "update"
    BY <1>type, UpdateStatusIs
  <1>5. \A again : Return(c, again) => wk'[c].pc = "idle"
    BY <1>type, ReturnIs
  <1>6. CASE Events(c)
    <2>1. ASSUME Updating(c) PROVE obj[c].status.phase # "Success"
      BY <1>6, <2>1 DEF Events, Honest, SuccessRests, HasCopy, Updating
    <2>2. ASSUME IsReviewInProgress(wk[c].seen.status)
          PROVE  obj[c].status.phase # "Success"
      BY <1>6, <2>2 DEF Events, Honest, SuccessRests
    <2> QED  BY <1>2, <1>4, <1>5, <1>6, <2>1, <2>2 DEF Events
  <1>7. CASE List(c)
    <2>1. CASE GoTo(c, "template", wk[c].copy)
               /\ ~IsReviewInProgress(wk[c].seen.status)
      <3>1. wk[c].pc = "list" /\ IsComplete(wk[c].seen.status)
        BY <1>7, <2>1 DEF List, Honest, SeenIsCurrent
      <3> QED  BY <1>2, <2>1, <3>1
    <2>2. CASE GoTo(c, "execute", wk[c].copy)
      <3>1. /\ wk'[c].pc = "execute" /\ wk'[c].copy = wk[c].copy
            /\ wk'[c].then = wk[c].then /\ wk[c].pc = "list"
        BY <1>type, <1>7, <2>2, GoToIs DEF List
      <3>2. SumOfCopy(c)'
        BY <3>1 DEF Honest, SumOfCopy, HasCopy, TheBody
      <3>3. SuccessRests(c)'
        BY <1>same, <3>1 DEF Honest, SuccessRests, apiVars
      <3> QED  BY <1>success, <3>1, <3>2, <3>3 DEF Honest, SeenIsCurrent
    <2> QED  BY <1>4, <1>5, <1>7, <2>1, <2>2 DEF List
  <1> QED  BY <1>1, <1>6, <1>7

\* The comparison with the stack is what makes a Success true.
LEMMA TemplateHonest ==
  ASSUME Traceable, TypeOK, [Next]_vars, NEW c \in CR, DropsForRole(c),
         Honest(c), Template(c)
  PROVE  Honest(c)'
  <1>type. wk \in [CR -> Worker] /\ TheBody(c) \in AnyBody
           /\ TheStack(c).body \in AnyBody
    BY StackOfType DEF TypeOK, ReconcilerTypeOK, CfnTypeOK, Worker, Object,
                       StackSpec, StackRecord, TheBody, TheStack
  <1>same. /\ UNCHANGED <<cfnVars, apiVars>> /\ HasCopy(c)
           /\ wk[c].pc = "template"
    BY DEF Template, HasCopy
  <1>1. CASE UpdateStatus(c, "Failure", "panic")
    BY <1>type, <1>same, <1>1, UpdateStatusIs, FailureHonest DEF TheBody, ThePhase
  <1>2. CASE GoTo(c, "create", wk[c].copy)
    BY <1>type, <1>same, <1>2, GoToIs, GoesOnHonest DEF TheBody, ThePhase
  <1>3. CASE /\ UpdateStatus(c, "Success", "requeue")
             /\ SameBody(c) \/ RollbackComplete(c)
    <2>1. /\ wk'[c].pc = "update" /\ wk'[c].then = "requeue"
          /\ TheBody(c)' = TheBody(c)
          /\ wk'[c].copy.status.checksum = wk[c].copy.status.checksum
      BY <1>type, <1>3, UpdateStatusIs DEF TheBody
    <2>2. /\ TheStack(c).status = wk[c].seen.status
          /\ TheStack(c).body = wk[c].seen.body
          /\ IsComplete(wk[c].seen.status)
      BY <1>same DEF Honest, SeenIsCurrent
    <2>3. PICK sp \in StackSpec :
            /\ wk[c].copy.status.checksum = Checksum(sp)
            /\ TheBody(c) \in {sp.body} \cup Resolutions[sp.body]
      BY <1>same DEF Honest, SumOfCopy
    <2>4. SameBody(c) => Deployed(c, TheBody(c))
      <3>1. TemplateOf[TheStack(c).body] = TemplateOf[TheBody(c)] =>
              DOMAIN ParamsOf[TheBody(c)] \subseteq DOMAIN ShownParams[TheStack(c).body]
        BY <1>type DEF Traceable, ParametersFit
      <3> QED  BY <2>2, <3>1 DEF SameBody, CompareStackParams, Deployed, Has
    <2>5. Reached(c, Checksum(sp))
      <3>1. CASE RollbackComplete(c)
        BY <2>2, <3>1 DEF RollbackComplete, Reached
      <3>2. CASE SameBody(c)
        BY <2>2, <2>3, <2>4, <3>2 DEF Reached, Traceable, NoCollisions
      <3> QED  BY <1>3, <3>1, <3>2
    <2>6. Reached(c, Checksum(sp))'
      <3> DEFINE sum == Checksum(sp)
      <3>1. ~ExecuteChangeSet(c)
        BY <1>same DEF ExecuteChangeSet
      <3>2. TheStack(c)' = TheStack(c)
        BY <2>5, <3>1, AtRestStays DEF Reached, Traceable
      <3> QED  BY <2>5, <3>2 DEF Reached, Deployed, Has
    <2>7. SuccessReached(c)'
      BY <1>same, <2>1, <2>3, <2>6, SuccessStays DEF SuccessReached, apiVars
    <2>8. SumOfCopy(c)'
      BY <1>same, <2>1 DEF Honest, SumOfCopy
    <2> QED  BY <2>1, <2>7, <2>8 DEF Honest, SuccessRests, SeenIsCurrent
  <1> QED  BY <1>1, <1>2, <1>3 DEF Template


\* What an Update stores is what the worker was about to write.
LEMMA UpdateHonest ==
  ASSUME Traceable, TypeOK, [Next]_vars, NEW c \in CR, Honest(c), Update(c)
  PROVE  Honest(c)'
  <1>type. wk \in [CR -> Worker] /\ obj \in [CR -> Object]
    BY DEF TypeOK, ReconcilerTypeOK, ApiTypeOK
  <1>1. wk[c].pc = "update" /\ HasCopy(c)
    BY DEF Update, HasCopy
  <1>2. ASSUME Put(c), wk'[c].pc # "update"
        PROVE  obj'[c] = wk[c].copy /\ SuccessReached(c)'
    <2>1. obj'[c] = wk[c].copy
      BY <1>type, <1>2 DEF Put, Store, apiVars
    <2>2. ASSUME ThePhase(c) = "Success"
          PROVE  \A sum : Reached(c, wk[c].copy.status.checksum)
                          /\ sum = wk[c].copy.status.checksum => Reached(c, sum)'
      <3>1. Reached(c, wk[c].copy.status.checksum) /\ ~ExecuteChangeSet(c)
        BY <1>1, <2>2 DEF Honest, SuccessReached, ExecuteChangeSet
      <3>2. TheStack(c)' = TheStack(c)
        BY <3>1, AtRestStays DEF Reached, Traceable
      <3> QED  BY <3>1, <3>2 DEF Reached, Deployed, Has
    <2>3. ThePhase(c) = "Success" => Reached(c, wk[c].copy.status.checksum)
      BY <1>1 DEF Honest, SuccessReached
    <2>4. ThePhase(c) = "Success" => Reached(c, obj[c].status.checksum)'
      BY <2>1, <2>2, <2>3 DEF Reached
    <2> QED  BY <1>2, <2>1, <2>4 DEF SuccessReached, ThePhase
  <1>3. CASE UNCHANGED apiVars /\ \E again : Return(c, again)
    BY <1>3, ReturnHonest
  <1>4. CASE Put(c) /\ \E again : Return(c, again)
    <2>1. wk'[c].pc = "idle"
      BY <1>type, <1>4, ReturnIs
    <2> QED  BY <1>2, <1>4, <2>1
             DEF Honest, SumOfCopy, SuccessRests, SeenIsCurrent, HasCopy
  <1>5. ASSUME Put(c), NEW pc \in {"session", "describe"}, Resume(c, pc),
               pc = "session" => wk[c].then = "provider"
        PROVE  Honest(c)'
    <2>1. wk'[c].pc = pc /\ wk'[c].then = "" /\ wk'[c].copy = wk[c].copy
      BY <1>type, <1>5, ResumeIs
    <2>2. SumOfCopy(c)'
      BY <1>1, <1>5, <2>1 DEF Honest, SumOfCopy, TheBody
    <2>3. SuccessRests(c)'
      BY <1>2, <1>5, <2>1 DEF SuccessRests, ThePhase
    <2> QED  BY <1>2, <1>5, <2>1, <2>2, <2>3 DEF Honest, SeenIsCurrent
  <1> QED  BY <1>3, <1>4, <1>5 DEF Update, Updated

\* What the worker of c does to c.
LEMMA OwnHonest ==
  ASSUME Traceable, TypeOK, [Next]_vars, NEW c \in CR, Consistent(c),
         DropsForRole(c), Honest(c), Work(c)
  PROVE  Honest(c)'
  <1>type. wk \in [CR -> Worker]
    BY DEF TypeOK, ReconcilerTypeOK
  <1>returns. \A again : UNCHANGED apiVars /\ Return(c, again) => Honest(c)'
    BY ReturnHonest
  <1>writes. \A phase, then :
               /\ HasCopy(c) /\ UNCHANGED apiVars /\ UpdateStatus(c, phase, then)
               /\ phase # "Success" /\ then # "provider"
               => Honest(c)'
    BY <1>type, UpdateStatusIs, FailureHonest DEF TheBody, ThePhase
  <1>creates. /\ HasCopy(c) /\ wk[c].pc # "update" /\ UNCHANGED apiVars
              /\ GoTo(c, "create", wk[c].copy)
              => Honest(c)'
    BY <1>type, GoToIs, GoesOnHonest DEF TheBody, ThePhase
  <1>1. CASE Describe(c)
    <2>1. /\ HasCopy(c) /\ UNCHANGED apiVars /\ wk[c].pc = "describe"
      BY <1>1 DEF Describe, HasCopy
    <2>2. CASE wk' = [wk EXCEPT ![c].pc = "events", ![c].seen =
                        [status |-> TheStack(c).status, body |-> TheStack(c).body]]
      <3>1. wk'[c].pc = "events"
        BY <1>type, <2>2 DEF Worker
      <3> QED  BY <1>1, <3>1, LooksHonest
    <2> QED  BY <1>1, <1>creates, <2>1, <2>2 DEF Describe
  <1>2. CASE Events(c) \/ List(c)
    <2>1. HasCopy(c) /\ UNCHANGED apiVars
      BY <1>2 DEF Events, List, HasCopy
    <2>2. ASSUME NEW pc \in {"list", "template", "execute"}, NEW o, GoTo(c, pc, o)
          PROVE  Honest(c)'
      <3>1. wk'[c].pc = pc
        BY <1>type, <2>2, GoToIs
      <3> QED  BY <1>2, <3>1, LooksHonest
    <2> QED  BY <1>2, <1>returns, <1>writes, <2>1, <2>2 DEF Events, List
  <1>3. CASE CreateChangeSet(c)
    <2>1. HasCopy(c) /\ UNCHANGED apiVars
      BY <1>3 DEF CreateChangeSet, HasCopy
    <2>2. \A n, phase, then :
            /\ RecordChangeSet(c, n, phase, then)
            /\ phase # "Success" /\ then # "provider"
            => Honest(c)'
      BY <1>type, <2>1, RecordChangeSetIs, FailureHonest DEF TheBody, ThePhase
    <2> QED  BY <1>3, <2>2 DEF CreateChangeSet
  <1>4. CASE ExecuteChangeSet(c)
    <2>1. HasCopy(c) /\ UNCHANGED apiVars
      BY <1>4 DEF ExecuteChangeSet, HasCopy
    <2> QED  BY <1>4, <1>writes, <2>1 DEF ExecuteChangeSet
  <1> QED  BY <1>1, <1>2, <1>3, <1>4, FirstHalfHonest, TemplateHonest,
              UpdateHonest DEF Work, Step

\* What anybody else does to c: its worker keeps what it has or loses it, and
\* nobody else writes a Success.
LEMMA OthersHonest ==
  ASSUME NEW c \in CR, Honest(c),
         IsComplete(TheStack(c).status) => TheStack(c)' = TheStack(c),
         \/ wk'[c].pc \in {"idle", "get"}
         \/ /\ wk'[c].pc = wk[c].pc /\ wk'[c].copy = wk[c].copy
            /\ wk'[c].then = wk[c].then /\ wk'[c].seen = wk[c].seen,
         \/ obj'[c].status = obj[c].status
         \/ obj'[c].status.phase # "Success"
  PROVE  Honest(c)'
  <1>1. SuccessReached(c)'
    <2>1. ASSUME obj'[c].status.phase = "Success"
          PROVE  Reached(c, obj[c].status.checksum)'
      BY <2>1 DEF Honest, SuccessReached, Reached, Deployed, Has
    <2>2. ASSUME wk'[c].pc = "update", ThePhase(c)' = "Success"
          PROVE  Reached(c, wk[c].copy.status.checksum)'
      BY <2>2 DEF Honest, SuccessReached, Reached, Deployed, Has, ThePhase
    <2> QED  BY <2>1, <2>2 DEF SuccessReached
  <1>2. SumOfCopy(c)'
    BY DEF Honest, SumOfCopy, HasCopy, TheBody
  <1>3. SuccessRests(c)'
    BY DEF Honest, SuccessRests, HasCopy, ThePhase
  <1>4. SeenIsCurrent(c)'
    BY DEF Honest, SeenIsCurrent
  <1> QED  BY <1>1, <1>2, <1>3, <1>4 DEF Honest

-----------------------------------------------------------------------------
(* The theorems.                                                           *)

\* An execution takes its worker from one call to the next.
LEMMA ExecuteIs ==
  ASSUME TypeOK, NEW c \in CR, ExecuteChangeSet(c)
  PROVE  wk[c].pc = "execute" /\ wk'[c].pc = "update"
  BY UpdateStatusIs DEF ExecuteChangeSet, TypeOK, ReconcilerTypeOK

\* A write of a user leaves the status of a resource as it is, or empty, and
\* what its worker has.
LEMMA UserLeaves ==
  ASSUME TypeOK, NEW c \in CR, NEW d \in CR, User(d)
  PROVE  /\ \/ obj'[c].status = obj[c].status
            \/ obj'[c].status.phase = ""
         /\ wk'[c].pc = wk[c].pc /\ wk'[c].copy = wk[c].copy
         /\ wk'[c].then = wk[c].then /\ wk'[c].seen = wk[c].seen
         /\ wk'[c].left = wk[c].left
         /\ UNCHANGED <<cfnVars, queueVars, faults>>
  <1>type. wk \in [CR -> Worker] /\ obj \in [CR -> Object]
    BY DEF TypeOK, ReconcilerTypeOK, ApiTypeOK
  <1>1. /\ \A b, e : Submitted(b, e).status.phase = ""
        /\ NoObj.status.phase = ""
    BY DEF Submitted, NoObj
  <1>2. /\ \A b : [obj[d] EXCEPT !.spec.body = b].status = obj[d].status
        /\ [obj[d] EXCEPT !.deleting = TRUE].status = obj[d].status
    BY <1>type DEF Object
  <1>3. PICK o : /\ UserWrites(d, o)
                 /\ o.status = obj[d].status \/ o.status.phase = ""
    <2>1. CASE Submit(d)
      BY <1>1, <2>1 DEF Submit
    <2>2. CASE Edit(d)
      <3>1. PICK b : UserWrites(d, [obj[d] EXCEPT !.spec.body = b])
        BY <2>2 DEF Edit
      <3> QED  BY <1>2, <3>1
    <2>3. CASE MarkDeleting(d)
      BY <1>2, <2>3 DEF MarkDeleting
    <2>4. CASE Remove(d)
      BY <1>1, <2>4 DEF Remove
    <2> QED  BY <2>1, <2>2, <2>3, <2>4 DEF User
  <1> QED  BY <1>type, <1>3 DEF UserWrites, Store, Worker

\* Honesty is kept whoever takes the step.
LEMMA HonestyStep ==
  ASSUME Traceable, TypeOK, Bookkeeping, RoleKnown, Honesty, [Next]_vars
  PROVE  Honesty'
  <1>type. /\ wk \in [CR -> Worker] /\ obj \in [CR -> Object]
           /\ Idle.pc = "idle" /\ Submitted(NoBody, FALSE).status.phase = ""
           /\ NoObj.status.phase = ""
    BY DEF TypeOK, ReconcilerTypeOK, ApiTypeOK, Idle, Submitted, NoObj
  <1> SUFFICES ASSUME NEW c \in CR PROVE Honest(c)'
    BY DEF Honesty
  <1>c. Honest(c)
    BY DEF Honesty
  <1> DEFINE Kept == /\ wk'[c].pc = wk[c].pc /\ wk'[c].copy = wk[c].copy
                     /\ wk'[c].then = wk[c].then /\ wk'[c].seen = wk[c].seen
             Unsaid == \/ obj'[c].status = obj[c].status
                       \/ obj'[c].status.phase # "Success"
  <1>others. ASSUME wk'[c].pc \in {"idle", "get"} \/ Kept, Unsaid
             PROVE  Honest(c)'
    <2>1. ~ExecuteChangeSet(c)
      BY <1>others, ExecuteIs
    <2>2. IsComplete(TheStack(c).status) => TheStack(c)' = TheStack(c)
      BY <2>1, AtRestStays DEF Traceable
    <2> QED  BY <1>c, <1>others, <2>2, OthersHonest
  <1>1. CASE Work(c)
    BY <1>1, <1>c, OwnHonest DEF Bookkeeping, RoleKnown
  <1>2. ASSUME NEW d \in CR, Work(d), d # c PROVE Honest(c)'
    <2>1. wk'[c] = wk[c] /\ obj'[c] = obj[c]
      BY <1>2, WorkKinds, OthersUntouched
    <2> QED  BY <2>1, <1>others
  <1>3. ASSUME NEW d \in CR, User(d) PROVE Honest(c)'
    BY <1>3, <1>others, UserLeaves
  <1>4. ASSUME NEW d \in CR, Start(d) PROVE Honest(c)'
    <2>1. obj' = obj /\ wk' = [wk EXCEPT ![d].pc = "get"]
      BY <1>4 DEF Start, Begin, apiVars
    <2>2. wk'[c] = wk[c] \/ wk'[c].pc = "get"
      BY <1>type, <2>1 DEF Worker
    <2> QED  BY <1>others, <2>1, <2>2
  <1>5. ASSUME NEW d \in CR, Timer(d) \/ Event(d) \/ Again(d) PROVE Honest(c)'
    BY <1>5, <1>others DEF Timer, Event, Deliver, Again, Resync, apiVars
  <1>6. ASSUME NEW s \in Stack, Aws(s) \/ OperatorDeletesStack(s)
        PROVE  Honest(c)'
    BY <1>6, <1>others DEF Aws, OperatorDeletesStack, apiVars
  <1>7. CASE Restart
    <2>1. wk'[c].pc = "idle" /\ obj' = obj
      BY <1>type, <1>7 DEF Restart, Relist
    <2> QED  BY <2>1, <1>others
  <1>8. CASE UNCHANGED vars
    BY <1>8, <1>others DEF vars, apiVars
  <1> QED  BY <1>1, <1>2, <1>3, <1>4, <1>5, <1>6, <1>7, <1>8
           DEF Next, Crash, Die

\* At the start nobody has said anything.
LEMMA HonestyInit == Init => Honesty
  <1>1. Idle.pc = "idle" /\ NoObj.status.phase = ""
    BY DEF Idle, NoObj, Submitted
  <1> QED  BY <1>1
           DEF Init, ReconcilerInit, ApiInit, Honesty, Honest, SuccessReached,
               SumOfCopy, SuccessRests, SeenIsCurrent, HasCopy

\* In a Traceable deployment, what a worker holds and writes of a Success is
\* true of the stack at every moment, whatever else fails and whatever users
\* write meanwhile.
THEOREM HonestyHolds ==
  ASSUME Traceable PROVE Spec => []Honesty
  <1>1. Init => RoleKnown /\ Honesty
    BY InvInit, HonestyInit
  <1>2. TypeOK /\ Bookkeeping /\ RoleKnown /\ Honesty /\ [Next]_vars
        => RoleKnown' /\ Honesty'
    BY RoleKnownStep, HonestyStep
  <1> QED  BY <1>1, <1>2, TypeCorrect, BookkeepingHolds, PTL DEF Spec

\* Wherever stacks are not shared and not deleted by operators, the cache has
\* caught up when a run begins, and checksums tell specs apart, a resource that
\* says Success of the spec it has got, has the stack that spec describes, its
\* references resolved at some time, or one that rolled back: whatever else
\* fails, whatever users write meanwhile, and wherever the controller restarts.
THEOREM SuccessIsDeployed ==
  ASSUME Traceable PROVE Spec => []SuccessMeansDeployed
  <1>1. TypeOK /\ Honesty => SuccessMeansDeployed
    <2> SUFFICES ASSUME TypeOK, Honesty, NEW c \in CR, Settled(obj[c]),
                        obj[c].status.phase = "Success"
                 PROVE  \/ \E b \in {obj[c].spec.body} \cup
                                    Resolutions[obj[c].spec.body] :
                             Deployed(c, b)
                        \/ IsRollBackComplete(TheStack(c).status)
      BY DEF SuccessMeansDeployed
    <2>1. obj[c].spec \in StackSpec
      BY DEF TypeOK, ApiTypeOK, Object
    <2>2. Reached(c, obj[c].status.checksum)
      BY DEF Honesty, Honest, SuccessReached
    <2> QED  BY <2>1, <2>2 DEF Reached, Settled
  <1> QED  BY <1>1, TypeCorrect, HonestyHolds, PTL

\* In the same deployments nothing touches the stack of a resource that says
\* Success, until the resource says something else: no change set that an
\* earlier run left behind is executed then, not even after an edit.
THEOREM SuccessfulStackIsLeftAlone ==
  ASSUME Traceable PROVE Spec => SuccessfulStackStays
  <1> DEFINE Known == TypeOK /\ Honesty
             Left == \A c \in CR : obj[c].status.phase = "Success" =>
                                     stacks'[StackOf[c]] = TheStack(c)
  <1>1. TypeOK /\ Honesty /\ [Next]_vars => Left
    <2> SUFFICES ASSUME TypeOK, Honesty, [Next]_vars, NEW c \in CR,
                        obj[c].status.phase = "Success"
                 PROVE  stacks'[StackOf[c]] = TheStack(c)
      OBVIOUS
    <2>1. Reached(c, obj[c].status.checksum) /\ ~ExecuteChangeSet(c)
      BY DEF Honesty, Honest, SuccessReached, SuccessRests, ExecuteChangeSet
    <2>2. TheStack(c)' = TheStack(c)
      BY <2>1, AtRestStays DEF Reached, Traceable
    <2> QED  BY <2>2 DEF TheStack
  <1>2. Known /\ [Next]_vars => [Left]_vars
    BY <1>1
  <1> HIDE DEF Known
  <1>3. Spec => []Known
    BY TypeCorrect, HonestyHolds, PTL DEF Known
  <1> QED  BY <1>2, <1>3, PTL DEF Spec, SuccessfulStackStays

-----------------------------------------------------------------------------
(* Nothing is executed behind a Failure either, as long as nothing failed  *)
(* but what was asked for.                                                 *)

\* What a worker that gives up a resource leaves behind.
LEMMA ReturnClosed ==
  ASSUME TypeOK, NEW c \in CR, Closed(c), NEW again, Return(c, again),
         UNCHANGED <<cfnVars, apiVars>>
  PROVE  Closed(c)'
  <1>1. wk'[c] = Idle
    BY DEF Return, TypeOK, ReconcilerTypeOK
  <1>2. /\ Idle.pc = "idle" /\ Idle.then = "" /\ Idle.seen.status = "NONE"
    BY DEF Idle, NothingSeen
  <1>3. obj' = obj /\ changeSets' = changeSets /\ TheStack(c)' = TheStack(c)
    BY DEF apiVars, cfnVars, TheStack
  <1>4. SeenIsTrue(c)' /\ WritesOnce(c)' /\ ExecutesReady(c)'
    BY <1>1, <1>2 DEF SeenIsTrue, WritesOnce, ExecutesReady
  <1>5. FailureIsDead(c)' /\ FailureIsKnown(c)'
    BY <1>1, <1>2, <1>3
    DEF Closed, FailureIsDead, FailureIsKnown, HasCopy, Dead
  <1>6. OneChangeSet(c)'
    BY <1>3 DEF Closed, OneChangeSet
  <1> QED  BY <1>4, <1>5, <1>6 DEF Closed

\* What a step leaves that goes on to another call with the status it has.
LEMMA AsksClosed ==
  ASSUME NEW c \in CR, Closed(c), UNCHANGED <<cfnVars, apiVars>>,
         HasCopy(c), wk[c].pc # "update",
         wk'[c].pc \notin {"update", "session"}, wk'[c].then = wk[c].then,
         ThePhase(c)' = ThePhase(c),
         wk'[c].copy.status.changeset = wk[c].copy.status.changeset,
         SeenIsTrue(c)', ExecutesReady(c)'
  PROVE  Closed(c)'
  <1>1. obj' = obj /\ changeSets' = changeSets /\ TheStack(c)' = TheStack(c)
    BY DEF apiVars, cfnVars, TheStack
  <1>2. FailureIsDead(c)' /\ FailureIsKnown(c)'
    BY <1>1 DEF Closed, FailureIsDead, FailureIsKnown, Dead
  <1>3. OneChangeSet(c)' /\ WritesOnce(c)'
    BY <1>1 DEF Closed, OneChangeSet, WritesOnce
  <1> QED  BY <1>2, <1>3 DEF Closed

\* What a step leaves that prepares an Update: if that is a Failure, then of a
\* change set that is dead.
LEMMA WritesClosed ==
  ASSUME NEW c \in CR, Closed(c), UNCHANGED <<cfnVars, apiVars>>,
         wk'[c].pc = "update", wk'[c].then \notin {"provider", "continue"},
         IsReviewInProgress(TheStack(c).status) /\ ThePhase(c)' = "Failure" =>
           Dead(c, wk'[c].copy.status.changeset)
  PROVE  Closed(c)'
  <1>1. obj' = obj /\ changeSets' = changeSets /\ TheStack(c)' = TheStack(c)
    BY DEF apiVars, cfnVars, TheStack
  <1>2. FailureIsDead(c)' /\ FailureIsKnown(c)'
    BY <1>1 DEF Closed, FailureIsDead, FailureIsKnown, Dead
  <1>3. OneChangeSet(c)' /\ WritesOnce(c)' /\ SeenIsTrue(c)' /\ ExecutesReady(c)'
    BY <1>1 DEF Closed, OneChangeSet, WritesOnce, SeenIsTrue, ExecutesReady
  <1> QED  BY <1>2, <1>3 DEF Closed

\* A fault is counted.
LEMMA FaultCounts ==
  ASSUME TypeOK, NEW f, Fault(f)
  PROVE  faults' # faults
  BY MaxFaultsType DEF TypeOK, ReconcilerTypeOK, Fault

\* A run begins with the status the resource has, and nothing to complain of.
LEMMA BeginsClosed ==
  ASSUME Traceable, NothingMissing, TypeOK, NEW c \in CR, Consistent(c),
         Closed(c), NoFault, Get(c) \/ Session(c) \/ References(c)
  PROVE  Closed(c)'
  <1>type. /\ wk \in [CR -> Worker] /\ wk[c].copy \in Object /\ cache[c] \in Object
           /\ wk[c].copy.spec \in StackSpec /\ cache[c].spec.body \in AnyBody
    BY DEF TypeOK, ReconcilerTypeOK, ApiTypeOK, Worker, Object, StackSpec
  <1>same. UNCHANGED <<cfnVars, apiVars>>
    BY DEF Get, Session, References
  <1>returns. (\E again : Return(c, again)) => Closed(c)'
    BY <1>same, ReturnClosed
  <1>goes. ASSUME wk[c].pc \in {"session", "references"},
                  wk'[c].pc \in {"references", "describe"},
                  NEW o, GoTo(c, wk'[c].pc, o), o.status = wk[c].copy.status
           PROVE  Closed(c)'
    <2>1. /\ wk'[c].then = wk[c].then /\ wk'[c].seen = wk[c].seen
          /\ ThePhase(c)' = ThePhase(c)
          /\ wk'[c].copy.status.changeset = wk[c].copy.status.changeset
      BY <1>type, <1>goes, GoToIs DEF ThePhase
    <2>2. wk[c].seen.status = "NONE"
      BY <1>goes DEF Closed, SeenIsTrue
    <2>3. SeenIsTrue(c)' /\ ExecutesReady(c)'
      BY <1>goes, <2>1, <2>2 DEF SeenIsTrue, ExecutesReady
    <2> QED  BY <1>goes, <1>same, <2>1, <2>3, AsksClosed DEF HasCopy
  <1>1. CASE Get(c) /\ Hold(c, cache[c])
    <2>1. cache[c] = obj[c]
      BY <1>1 DEF Get, Traceable, Consistent, CacheFollows
    <2>2. /\ wk'[c].pc = "session" /\ wk'[c].then = wk[c].then
          /\ wk'[c].seen = wk[c].seen /\ wk'[c].left = 0
          /\ ThePhase(c)' = obj[c].status.phase
          /\ wk'[c].copy.status.changeset = obj[c].status.changeset
      BY <1>type, <1>1, <2>1, HoldIs DEF ThePhase, NothingMissing
    <2>3. /\ obj' = obj /\ changeSets' = changeSets
          /\ TheStack(c)' = TheStack(c) /\ wk[c].pc = "get"
      BY <1>same, <1>1 DEF Get, apiVars, cfnVars, TheStack
    <2>4. SeenIsTrue(c)' /\ ExecutesReady(c)' /\ WritesOnce(c)'
      BY <2>2, <2>3 DEF Closed, SeenIsTrue, ExecutesReady, WritesOnce
    <2>5. FailureIsDead(c)' /\ FailureIsKnown(c)' /\ OneChangeSet(c)'
      BY <2>2, <2>3
      DEF Closed, FailureIsDead, FailureIsKnown, OneChangeSet, Dead
    <2> QED  BY <2>4, <2>5 DEF Closed
  <1>2. CASE Session(c)
    <2> DEFINE filled == [wk[c].copy EXCEPT !.spec.defaulted = TRUE]
    <2>1. filled.status = wk[c].copy.status
      BY <1>type DEF Object
    <2> HIDE DEF filled
    <2>2. ASSUME NEW pc \in {"references", "describe"}, GoTo(c, pc, filled)
          PROVE  Closed(c)'
      <3>1. wk'[c].pc = pc
        BY <1>type, <2>2, GoToIs
      <3> QED  BY <1>2, <1>goes, <2>1, <2>2, <3>1 DEF Session
    <2> QED  BY <1>2, <1>returns, <2>2 DEF Session, filled
  <1>3. CASE References(c)
    <2>1. PICK b : GoTo(c, "describe", [wk[c].copy EXCEPT !.spec.body = b])
      BY <1>3, FaultCounts DEF References, NoFault, NothingMissing
    <2> DEFINE resolved == [wk[c].copy EXCEPT !.spec.body = b]
    <2>2. resolved.status = wk[c].copy.status /\ GoTo(c, "describe", resolved)
      BY <1>type, <2>1 DEF Object
    <2> HIDE DEF resolved
    <2>3. wk'[c].pc = "describe"
      BY <1>type, <2>2, GoToIs
    <2> QED  BY <1>3, <1>goes, <2>2, <2>3 DEF References
  <1> QED  BY <1>1, <1>2, <1>3, <1>returns DEF Get

\* A run looks at its stack, and gives up on one whose change set failed.
LEMMA LooksClosed ==
  ASSUME TypeOK, NEW c \in CR, Closed(c), NoFault,
         Describe(c) \/ Events(c) \/ List(c) \/ Template(c)
  PROVE  Closed(c)'
  <1>type. /\ wk \in [CR -> Worker] /\ wk[c] \in Worker
           /\ TheStack(c).status \in StackStatuses \cup {"NONE"}
    BY StackOfType
    DEF TypeOK, ReconcilerTypeOK, CfnTypeOK, StackRecord, TheStack
  <1>same. /\ UNCHANGED <<cfnVars, apiVars>> /\ HasCopy(c)
           /\ TheStack(c)' = TheStack(c) /\ changeSets' = changeSets
    BY DEF Describe, Events, List, Template, HasCopy, TheStack, cfnVars
  <1>noFault. \A f : ~Fault(f)
    BY FaultCounts DEF NoFault
  <1>returns. (\E again : Return(c, again)) => Closed(c)'
    BY <1>same, ReturnClosed
  <1>goes. ASSUME wk[c].pc # "update", NEW pc, pc \notin {"update", "session"},
                  GoTo(c, pc, wk[c].copy),
                  (SeenIsTrue(c) /\ wk'[c].pc = pc /\ wk'[c].then = wk[c].then
                     /\ wk'[c].seen = wk[c].seen /\ ThePhase(c)' = ThePhase(c))
                    => SeenIsTrue(c)' /\ ExecutesReady(c)'
           PROVE  Closed(c)'
    <2>1. /\ wk'[c].pc = pc /\ wk'[c].then = wk[c].then
          /\ wk'[c].seen = wk[c].seen /\ ThePhase(c)' = ThePhase(c)
          /\ wk'[c].copy.status.changeset = wk[c].copy.status.changeset
      BY <1>type, <1>goes, GoToIs DEF ThePhase
    <2>2. SeenIsTrue(c)' /\ ExecutesReady(c)'
      BY <1>goes, <2>1 DEF Closed
    <2> QED  BY <1>goes, <1>same, <2>1, <2>2, AsksClosed
  <1>writes. ASSUME NEW phase, NEW then, UpdateStatus(c, phase, then),
                    then \notin {"provider", "continue"},
                    IsReviewInProgress(TheStack(c).status) /\ phase = "Failure" =>
                      \A n : Dead(c, n)
             PROVE  Closed(c)'
    <2>1. wk'[c].pc = "update" /\ wk'[c].then = then /\ ThePhase(c)' = phase
      BY <1>type, <1>writes, UpdateStatusIs DEF ThePhase
    <2> QED  BY <1>same, <1>writes, <2>1, WritesClosed
  <1>1. CASE Describe(c)
    <2>1. wk[c].pc = "describe" /\ wk[c].seen.status = "NONE"
      BY <1>1 DEF Describe, Closed, SeenIsTrue
    <2>2. CASE wk' = [wk EXCEPT ![c].pc = "events", ![c].seen =
                        [status |-> TheStack(c).status, body |-> TheStack(c).body]]
      <3>1. /\ wk'[c].pc = "events" /\ wk'[c].copy = wk[c].copy
            /\ wk'[c].then = wk[c].then
            /\ wk'[c].seen.status = TheStack(c).status
        BY <1>type, <2>2 DEF Worker
      <3>2. SeenIsTrue(c)' /\ ExecutesReady(c)'
        BY <1>same, <3>1
        DEF Closed, WritesOnce, SeenIsTrue, ExecutesReady
      <3> QED  BY <1>same, <2>1, <3>1, <3>2, AsksClosed DEF ThePhase
    <2>3. CASE ~Exists(StackOf[c]) /\ GoTo(c, "create", wk[c].copy)
      <3>1. TheStack(c).status = "NONE"
        BY <2>3 DEF Exists, TheStack
      <3>2. (wk'[c].pc = "create" /\ wk'[c].then = wk[c].then
               /\ wk'[c].seen = wk[c].seen)
              => SeenIsTrue(c)' /\ ExecutesReady(c)'
        BY <1>same, <2>1, <3>1
        DEF Closed, WritesOnce, SeenIsTrue, ExecutesReady
      <3> QED  BY <1>goes, <2>1, <2>3, <3>2
    <2> QED  BY <1>1, <1>noFault, <2>2, <2>3 DEF Describe
  <1>2. CASE Events(c)
    <2>1. wk[c].pc = "events"
      BY <1>2 DEF Events
    <2>2. ASSUME NEW pc \in {"list", "template"}, GoTo(c, pc, wk[c].copy),
                 \/ IsComplete(wk[c].seen.status)
                 \/ pc = "list" /\ IsReviewInProgress(wk[c].seen.status),
                 pc = "list" => \/ Updating(c)
                                \/ IsReviewInProgress(wk[c].seen.status)
          PROVE  Closed(c)'
      <3>1. (SeenIsTrue(c) /\ wk'[c].pc = pc /\ wk'[c].then = wk[c].then
               /\ wk'[c].seen = wk[c].seen /\ ThePhase(c)' = ThePhase(c))
              => SeenIsTrue(c)' /\ ExecutesReady(c)'
        BY <1>same, <2>1, <2>2
        DEF Closed, WritesOnce, SeenIsTrue, ExecutesReady, Updating
      <3> QED  BY <1>goes, <2>1, <2>2, <3>1
    <2>3. ASSUME IsFailed(wk[c].seen.status), UpdateStatus(c, "Failure", "fail")
          PROVE  Closed(c)'
      <3>1. NextStatus(wk[c].seen.status) = {}
        BY <2>3 DEF IsFailed, NextStatus
      <3>2. TheStack(c).status = wk[c].seen.status
        BY <2>1, <3>1 DEF Closed, SeenIsTrue
      <3>3. ~IsReviewInProgress(TheStack(c).status)
        BY <2>3, <3>2 DEF IsFailed, IsReviewInProgress
      <3> QED  BY <1>writes, <2>3, <3>3
    <2> QED  BY <1>2, <1>noFault, <1>returns, <2>2, <2>3 DEF Events
  <1>3. CASE List(c)
    <2>1. /\ wk[c].pc = "list"
          /\ \/ IsReviewInProgress(wk[c].seen.status)
             \/ IsComplete(wk[c].seen.status) /\ Updating(c)
      BY <1>3 DEF List, Closed, SeenIsTrue
    <2>2. CASE ~Exists(StackOf[c]) /\ UpdateStatus(c, "Failure", "fail")
      <3>1. ~IsReviewInProgress(TheStack(c).status)
        BY <2>2 DEF Exists, TheStack, IsReviewInProgress
      <3> QED  BY <1>writes, <2>2, <3>1
    <2>3. CASE /\ ~IsReviewInProgress(wk[c].seen.status)
               /\ GoTo(c, "template", wk[c].copy)
      <3>1. (SeenIsTrue(c) /\ wk'[c].pc = "template"
               /\ wk'[c].then = wk[c].then /\ wk'[c].seen = wk[c].seen)
              => SeenIsTrue(c)' /\ ExecutesReady(c)'
        BY <1>same, <2>1, <2>3
        DEF Closed, WritesOnce, SeenIsTrue, ExecutesReady
      <3> QED  BY <1>goes, <2>1, <2>3, <3>1
    <2>4. ASSUME NEW x \in changeSets[StackOf[c]], x.status = "CREATE_COMPLETE",
                 GoTo(c, "execute", wk[c].copy)
          PROVE  Closed(c)'
      <3>1. NextStatus("REVIEW_IN_PROGRESS") = {}
        BY DEF NextStatus
      <3>2. IsReviewInProgress(TheStack(c).status) \/ Updating(c)
        BY <2>1, <3>1 DEF Closed, SeenIsTrue, IsReviewInProgress
      <3>3. (wk'[c].pc = "execute" /\ wk'[c].then = wk[c].then
               /\ ThePhase(c)' = ThePhase(c))
              => SeenIsTrue(c)' /\ ExecutesReady(c)'
        BY <1>same, <2>4, <3>2
        DEF Closed, WritesOnce, SeenIsTrue, ExecutesReady, OneChangeSet, Updating
      <3> QED  BY <1>goes, <2>1, <2>4, <3>3
    <2>5. ASSUME NEW x \in changeSets[StackOf[c]], x.status = "FAILED",
                 UpdateStatus(c, "Failure", "fail")
          PROVE  Closed(c)'
      <3>1. IsReviewInProgress(TheStack(c).status) => \A n : Dead(c, n)
        BY <2>5 DEF Closed, OneChangeSet, Dead
      <3> QED  BY <1>writes, <2>5, <3>1
    <2> QED  BY <1>3, <1>noFault, <1>returns, <2>2, <2>3, <2>4, <2>5 DEF List
  <1>4. CASE Template(c)
    <2>1. wk[c].pc = "template" /\ IsComplete(wk[c].seen.status)
      BY <1>4 DEF Template, Closed, SeenIsTrue
    <2>2. CASE ~Exists(StackOf[c]) /\ UpdateStatus(c, "Failure", "panic")
      <3>1. ~IsReviewInProgress(TheStack(c).status)
        BY <2>2 DEF Exists, TheStack, IsReviewInProgress
      <3> QED  BY <1>writes, <2>2, <3>1
    <2>3. CASE UpdateStatus(c, "Success", "requeue")
      BY <1>writes, <2>3
    <2>4. CASE GoTo(c, "create", wk[c].copy)
      <3>1. (SeenIsTrue(c) /\ wk'[c].pc = "create" /\ wk'[c].then = wk[c].then
               /\ wk'[c].seen = wk[c].seen)
              => SeenIsTrue(c)' /\ ExecutesReady(c)'
        BY <1>same, <2>1
        DEF Closed, WritesOnce, SeenIsTrue, ExecutesReady
      <3> QED  BY <1>goes, <2>1, <2>4, <3>1
    <2> QED  BY <1>4, <1>noFault, <2>2, <2>3, <2>4 DEF Template
  <1> QED  BY <1>1, <1>2, <1>3, <1>4

\* A change set is created of a stack that has none, or that is not under
\* review; a resource whose Failure is older does not have its name.
LEMMA CreateClosed ==
  ASSUME TypeOK, NEW c \in CR, Closed(c), NoFault, CreateChangeSet(c)
  PROVE  Closed(c)'
  <1> DEFINE s == StackOf[c]
             n == CHOOSE m \in NewNames : TRUE
             type == ChangeSetType(c)
             phase == IF type = "CREATE" THEN "InProgress"
                                         ELSE "Update InProgress"
             status == TheStack(c).status
  <1>type. /\ wk \in [CR -> Worker] /\ s \in Stack
           /\ stacks \in [Stack -> StackRecord] /\ stacks[s] \in StackRecord
           /\ changeSets \in [Stack -> SUBSET ChangeSet]
    BY StackOfType DEF TypeOK, CfnTypeOK, ReconcilerTypeOK
  <1>1. /\ wk[c].pc = "create" /\ UNCHANGED apiVars /\ NewNames # {}
        /\ ~Fault("createChangeSet") /\ obj' = obj
    BY FaultCounts DEF CreateChangeSet, NoFault, apiVars
  <1>2. /\ \A x \in changeSets[s] : x.name # n
        /\ obj[c].status.changeset # n
    <2>1. n \in NewNames
      BY <1>1
    <2> HIDE DEF n
    <2> QED  BY <1>type, <2>1 DEF NewNames, InUse
  <1>3. \A m : m = n => Dead(c, m)
    BY <1>2 DEF Dead
  <1>4. /\ wk[c].seen.status = status
        /\ IsComplete(status) \/ status = "NONE"
    <2>1. IsComplete(wk[c].seen.status) \/ wk[c].seen.status = "NONE"
      BY <1>1 DEF Closed, SeenIsTrue
    <2>2. NextStatus(wk[c].seen.status) = {}
      BY <2>1 DEF IsComplete, NextStatus
    <2> QED  BY <1>1, <2>1, <2>2 DEF Closed, SeenIsTrue
  <1>5. phase # "Failure"
    OBVIOUS
  <1>6. CASE /\ TakesChangeSet(s, type) /\ AddChangeSet(s, n, TheBody(c))
             /\ RecordChangeSet(c, n, phase, "requeue")
    <2> DEFINE new == [name |-> n, status |-> "CREATE_PENDING",
                       body |-> TheBody(c)]
    <2>1. /\ changeSets'[s] = changeSets[s] \cup {new}
          /\ status' = IF status = "NONE" THEN "REVIEW_IN_PROGRESS" ELSE status
          /\ new.name = n
      BY <1>type, <1>6 DEF AddChangeSet, TheStack, StackRecord
    <2> HIDE DEF new, n, phase, type
    <2>2. /\ wk'[c].pc = "update" /\ wk'[c].then = "requeue"
          /\ ThePhase(c)' = phase
      BY <1>type, <1>6, RecordChangeSetIs DEF ThePhase
    <2>3. status = "NONE" => changeSets'[s] = {new}
      BY <2>1 DEF Closed, OneChangeSet
    <2>4. OneChangeSet(c)'
      <3>1. status # "NONE" => IsComplete(status')
        BY <1>4, <2>1
      <3>2. \A t : IsComplete(t) => /\ ~IsReviewInProgress(t)
                                    /\ t \notin {"NONE", "DELETE_IN_PROGRESS"}
        BY DEF IsComplete, IsReviewInProgress
      <3> QED  BY <2>1, <2>3, <3>1, <3>2 DEF OneChangeSet
    <2>5. FailureIsDead(c)'
      <3>1. IsReviewInProgress(status') => status = "NONE"
        BY <1>4, <2>1 DEF IsComplete, IsReviewInProgress
      <3>2. status = "NONE" => \A m : m # n => Dead(c, m)'
        BY <2>1, <2>3 DEF Dead
      <3> QED  BY <1>1, <1>2, <1>5, <2>2, <3>1, <3>2 DEF FailureIsDead
    <2>6. FailureIsKnown(c)' /\ ExecutesReady(c)' /\ WritesOnce(c)' /\ SeenIsTrue(c)'
      BY <2>2 DEF FailureIsKnown, ExecutesReady, WritesOnce, SeenIsTrue
    <2> QED  BY <2>4, <2>5, <2>6 DEF Closed
  <1>7. CASE /\ UNCHANGED cfnVars
             /\ \/ RecordChangeSet(c, n, phase, "requeue")
                \/ RecordChangeSet(c, n, "Failure", "fail")
    <2>1. PICK p, then : /\ RecordChangeSet(c, n, p, then)
                         /\ then \in {"requeue", "fail"}
      BY <1>7
    <2>2. /\ wk'[c].pc = "update" /\ wk'[c].then = then
          /\ wk'[c].copy.status.changeset = n
      BY <1>type, <2>1, RecordChangeSetIs
    <2> HIDE DEF n
    <2> QED  BY <1>1, <1>3, <1>7, <2>1, <2>2, WritesClosed
  <1> QED  BY <1>1, <1>6, <1>7 DEF CreateChangeSet

\* A stack whose change set is executed is no longer under review; where none is
\* ready, the one that is there has another name.
LEMMA ExecuteClosed ==
  ASSUME TypeOK, NEW c \in CR, Closed(c), NoFault, ExecuteChangeSet(c)
  PROVE  Closed(c)'
  <1> DEFINE s == StackOf[c]
             ready == Ready(s, wk[c].copy.status.changeset)
             status == TheStack(c).status
  <1>type. /\ wk \in [CR -> Worker] /\ s \in Stack
           /\ stacks \in [Stack -> StackRecord] /\ stacks[s] \in StackRecord
           /\ changeSets \in [Stack -> SUBSET ChangeSet]
    BY StackOfType DEF TypeOK, CfnTypeOK, ReconcilerTypeOK
  <1>1. /\ wk[c].pc = "execute" /\ UNCHANGED apiVars /\ obj' = obj
        /\ ~Fault("executeChangeSet")
    BY FaultCounts DEF ExecuteChangeSet, NoFault, apiVars
  <1>2. ASSUME NEW x \in ready, StartExecution(s, x),
               UpdateStatus(c, "InProgress", "requeue")
        PROVE  Closed(c)'
    <2>1. /\ changeSets'[s] = {}
          /\ status' \in {"CREATE_IN_PROGRESS", "UPDATE_IN_PROGRESS"}
      BY <1>type, <1>2 DEF StartExecution, TheStack, StackRecord
    <2>2. wk'[c].pc = "update" /\ wk'[c].then = "requeue"
      BY <1>type, <1>2, UpdateStatusIs
    <2>3. OneChangeSet(c)' /\ FailureIsDead(c)'
      BY <2>1 DEF OneChangeSet, FailureIsDead, IsReviewInProgress
    <2>4. FailureIsKnown(c)' /\ ExecutesReady(c)' /\ WritesOnce(c)' /\ SeenIsTrue(c)'
      BY <2>2 DEF FailureIsKnown, ExecutesReady, WritesOnce, SeenIsTrue
    <2> QED  BY <2>3, <2>4 DEF Closed
  <1>3. CASE ready = {} /\ UpdateStatus(c, "Failure", "fail") /\ UNCHANGED cfnVars
    <2>1. /\ wk'[c].pc = "update" /\ wk'[c].then = "fail"
          /\ wk'[c].copy.status.changeset = wk[c].copy.status.changeset
      BY <1>type, <1>3, UpdateStatusIs
    <2>2. IsReviewInProgress(status) => Dead(c, wk[c].copy.status.changeset)
      <3>1. IsReviewInProgress(status) =>
              \A x \in changeSets[s] : x.status = "CREATE_COMPLETE"
        BY <1>1 DEF Closed, ExecutesReady
      <3> QED  BY <1>3, <3>1 DEF Ready, Dead, TheStack
    <2> QED  BY <1>1, <1>3, <2>1, <2>2, WritesClosed
  <1> QED  BY <1>1, <1>2, <1>3 DEF ExecuteChangeSet

\* What an Update stores is what the worker was about to write.
LEMMA UpdateClosed ==
  ASSUME TypeOK, NEW c \in CR, Closed(c), NoFault, Update(c)
  PROVE  Closed(c)'
  <1>type. wk \in [CR -> Worker] /\ obj \in [CR -> Object]
    BY DEF TypeOK, ReconcilerTypeOK, ApiTypeOK
  <1>1. /\ wk[c].pc = "update" /\ UNCHANGED cfnVars /\ ~Fault("update")
        /\ wk[c].then \notin {"provider", "continue"}
    BY FaultCounts DEF Update, NoFault, Closed, WritesOnce
  <1>2. CASE UNCHANGED apiVars /\ \E again : Return(c, again)
    BY <1>1, <1>2, ReturnClosed
  <1>3. CASE Put(c) /\ \E again : Return(c, again)
    <2>1. obj'[c] = wk[c].copy
      BY <1>type, <1>3 DEF Put, Store, apiVars
    <2>2. /\ wk'[c].pc = "idle" /\ wk'[c].then = ""
          /\ wk'[c].seen.status = "NONE"
      <3>1. wk'[c] = Idle
        BY <1>type, <1>3 DEF Return
      <3>2. Idle.pc = "idle" /\ Idle.then = "" /\ Idle.seen.status = "NONE"
        BY DEF Idle, NothingSeen
      <3> QED  BY <3>1, <3>2
    <2>3. changeSets' = changeSets /\ TheStack(c)' = TheStack(c)
      BY <1>1 DEF cfnVars, TheStack
    <2>4. FailureIsDead(c)' /\ OneChangeSet(c)'
      BY <1>1, <2>1, <2>2, <2>3
      DEF Closed, FailureIsDead, OneChangeSet, Dead, ThePhase
    <2>5. FailureIsKnown(c)' /\ ExecutesReady(c)' /\ WritesOnce(c)' /\ SeenIsTrue(c)'
      BY <2>2 DEF FailureIsKnown, ExecutesReady, WritesOnce, SeenIsTrue, HasCopy
    <2> QED  BY <2>4, <2>5 DEF Closed
  <1> QED  BY <1>1, <1>2, <1>3 DEF Update, Updated

\* What the worker of c does to c.
LEMMA OwnClosed ==
  ASSUME Traceable, NothingMissing, TypeOK, NEW c \in CR, Consistent(c),
         Closed(c), NoFault, Work(c)
  PROVE  Closed(c)'
  <1>1. ~SetAssumeRoleProvider(c)
    <2>1. wk[c].pc = "session" => wk[c].left = 0
      BY DEF Closed, WritesOnce
    <2>2. SetAssumeRoleProvider(c) => wk[c].pc = "session" /\ wk[c].left > 0
      BY DEF SetAssumeRoleProvider
    <2> QED  BY <2>1, <2>2
  <1> QED  BY <1>1, BeginsClosed, LooksClosed, CreateClosed, ExecuteClosed,
              UpdateClosed DEF Work, Step

\* What anybody else does to c, but for its stack: its worker keeps what it has
\* or loses it, and nobody else writes a Failure.
LEMMA OthersClosed ==
  ASSUME NEW c \in CR, Closed(c),
         TheStack(c)' = TheStack(c),
         changeSets'[StackOf[c]] = changeSets[StackOf[c]],
         \/ wk'[c] = Idle
         \/ /\ \/ wk'[c].pc = wk[c].pc
               \/ wk[c].pc = "idle" /\ wk'[c].pc = "get"
            /\ wk'[c].copy = wk[c].copy /\ wk'[c].then = wk[c].then
            /\ wk'[c].seen = wk[c].seen /\ wk'[c].left = wk[c].left,
         \/ obj'[c].status = obj[c].status
         \/ obj'[c].status.phase # "Failure"
  PROVE  Closed(c)'
  <1>1. Idle.pc = "idle" /\ Idle.then = "" /\ Idle.seen.status = "NONE"
    BY DEF Idle, NothingSeen
  <1>2. SeenIsTrue(c)' /\ WritesOnce(c)' /\ ExecutesReady(c)'
    BY <1>1
    DEF Closed, SeenIsTrue, WritesOnce, ExecutesReady, Updating, ThePhase
  <1>3. FailureIsDead(c)'
    <2>1. \A n : Dead(c, n)' <=> Dead(c, n)
      BY DEF Dead
    <2>2. wk'[c].pc = "update" => wk[c].pc = "update" /\ wk'[c].copy = wk[c].copy
      BY <1>1
    <2> QED  BY <2>1, <2>2 DEF Closed, FailureIsDead, ThePhase
  <1>4. FailureIsKnown(c)'
    BY <1>1 DEF Closed, FailureIsKnown, HasCopy, ThePhase
  <1>5. OneChangeSet(c)'
    BY DEF Closed, OneChangeSet
  <1> QED  BY <1>2, <1>3, <1>4, <1>5 DEF Closed

\* The stack of c moves on: it was neither missing nor under review, and will
\* not be.
LEMMA StackStepClosed ==
  ASSUME TypeOK, NEW c \in CR, Closed(c), StackStep(StackOf[c]),
         UNCHANGED <<apiVars, wk>>
  PROVE  Closed(c)'
  <1> DEFINE status == TheStack(c).status
  <1>1. /\ StackOf[c] \in Stack /\ stacks \in [Stack -> StackRecord]
        /\ TheStack(c) \in StackRecord
    BY StackOfType DEF TypeOK, CfnTypeOK, TheStack
  <1>2. PICK t \in NextStatus(status) :
          stacks' = [stacks EXCEPT ![StackOf[c]] = Moved(@, t)]
    BY DEF StackStep, TheStack
  <1>3. status # "DELETE_IN_PROGRESS" /\ NextStatus(status) # {}
    BY DEF Closed, OneChangeSet
  <1>4. t \notin {"NONE", "REVIEW_IN_PROGRESS", "DELETE_IN_PROGRESS"}
    BY <1>3 DEF NextStatus
  <1>5. status' = t
    BY <1>1, <1>2, <1>4 DEF TheStack, Moved, StackRecord
  <1>6. obj' = obj /\ wk' = wk /\ changeSets' = changeSets
    BY DEF StackStep, apiVars
  <1>7. ~IsReviewInProgress(status) /\ ~IsReviewInProgress(status')
    BY <1>3, <1>4, <1>5 DEF IsReviewInProgress, NextStatus
  <1>8. SeenIsTrue(c)'
    <2>1. \A seen : NextStatus(seen) = {} => status # seen
      BY <1>3
    <2> QED  BY <1>6, <2>1 DEF Closed, SeenIsTrue, Updating, ThePhase
  <1>9. FailureIsDead(c)' /\ OneChangeSet(c)'
    BY <1>4, <1>5, <1>7 DEF FailureIsDead, OneChangeSet
  <1>10. FailureIsKnown(c)' /\ ExecutesReady(c)' /\ WritesOnce(c)'
    BY <1>6, <1>7 DEF Closed, FailureIsKnown, ExecutesReady, WritesOnce,
                      HasCopy, ThePhase, Updating
  <1> QED  BY <1>8, <1>9, <1>10 DEF Closed

\* A change set of c gets on; one that failed or is ready stays so.
LEMMA ChangeSetStepClosed ==
  ASSUME TypeOK, NEW c \in CR, Closed(c), ChangeSetStep(StackOf[c]),
         UNCHANGED <<apiVars, wk>>
  PROVE  Closed(c)'
  <1> DEFINE s == StackOf[c]
  <1>1. s \in Stack /\ changeSets \in [Stack -> SUBSET ChangeSet]
    BY StackOfType DEF TypeOK, CfnTypeOK
  <1>2. PICK x \in changeSets[s], t \in ChangeSetStatus :
          /\ x.status \in {"CREATE_PENDING", "CREATE_IN_PROGRESS"}
          /\ changeSets' = [changeSets EXCEPT ![s] =
               (@ \ {x}) \cup {[x EXCEPT !.status = t]}]
    BY DEF ChangeSetStep, ChangeSetStatus
  <1> DEFINE y == [x EXCEPT !.status = t]
  <1>3. y.name = x.name
    BY <1>1 DEF ChangeSet
  <1>4. changeSets'[s] = (changeSets[s] \ {x}) \cup {y}
    BY <1>1, <1>2
  <1> HIDE DEF y
  <1>5. TheStack(c)' = TheStack(c) /\ obj' = obj /\ wk' = wk
    BY DEF ChangeSetStep, apiVars, TheStack
  <1>6. \A n : Dead(c, n) => Dead(c, n)'
    BY <1>2, <1>3, <1>4 DEF Dead
  <1>7. FailureIsDead(c)' /\ FailureIsKnown(c)'
    BY <1>5, <1>6
    DEF Closed, FailureIsDead, FailureIsKnown, HasCopy, ThePhase
  <1>8. OneChangeSet(c)' /\ ExecutesReady(c)'
    BY <1>2, <1>4, <1>5
    DEF Closed, OneChangeSet, ExecutesReady, Updating, ThePhase
  <1>9. SeenIsTrue(c)' /\ WritesOnce(c)'
    BY <1>5 DEF Closed, SeenIsTrue, WritesOnce, Updating, ThePhase
  <1> QED  BY <1>7, <1>8, <1>9 DEF Closed

\* Closure is kept whoever takes the step.
LEMMA ClosureStep ==
  ASSUME Traceable, NothingMissing, TypeOK, Bookkeeping, Closure, [Next]_vars
  PROVE  Closure'
  <1>type. /\ wk \in [CR -> Worker] /\ obj \in [CR -> Object]
           /\ stacks \in [Stack -> StackRecord] /\ faults \in 0 .. MaxFaults
           /\ changeSets \in [Stack -> SUBSET ChangeSet]
    BY DEF TypeOK, ReconcilerTypeOK, ApiTypeOK, CfnTypeOK
  <1>noFault. faults' = 0 => faults = 0
    <2>1. \A f : Fault(f) => faults' # 0
      BY <1>type, MaxFaultsType DEF Fault
    <2>2. ASSUME NEW d \in CR, Work(d), \A f : ~Fault(f)
          PROVE  UNCHANGED faults
      BY <2>2 DEF Work, Step, Get, SetAssumeRoleProvider, Session, References,
                  Describe, Events, List, Template, CreateChangeSet,
                  ExecuteChangeSet, Update, NoFault
    <2> QED  BY <2>1, <2>2
             DEF Next, vars, User, Submit, Edit, MarkDeleting, Remove,
                 UserWrites, Start, Begin, Timer, Event, Again, Aws,
                 OperatorDeletesStack, Crash, Die, NoFault
  <1> SUFFICES ASSUME faults' = 0, NEW c \in CR PROVE Closed(c)'
    BY DEF Closure
  <1>c. /\ Closed(c) /\ Consistent(c) /\ NoFault /\ StackOf[c] \in Stack
        /\ \A f : ~Fault(f)
    BY <1>noFault, StackOfType, FaultCounts DEF Closure, Bookkeeping, NoFault
  <1>stack. UNCHANGED cfnVars =>
              /\ TheStack(c)' = TheStack(c)
              /\ changeSets'[StackOf[c]] = changeSets[StackOf[c]]
    BY DEF cfnVars, TheStack
  <1>1. ASSUME NEW d \in CR, Work(d) PROVE Closed(c)'
    <2>1. CASE d = c
      BY <1>1, <1>c, <2>1, OwnClosed
    <2>2. CASE d # c
      <3>1. wk'[c] = wk[c] /\ obj'[c] = obj[c]
        BY <1>1, <2>2, WorkKinds, OthersUntouched
      <3>2. StackOf[c] # StackOf[d]
        BY <2>2 DEF Traceable, Separate
      <3>3. /\ stacks'[StackOf[c]] = stacks[StackOf[c]]
            /\ changeSets'[StackOf[c]] = changeSets[StackOf[c]]
        BY <1>1, <1>c, <3>2, WhoTouchesStacks, CreateTouches, ExecuteTouches,
           WhoTouchesChangeSets
        DEF cfnVars
      <3> QED  BY <1>c, <3>1, <3>3, OthersClosed DEF TheStack
    <2> QED  BY <2>1, <2>2
  <1>2. ASSUME NEW d \in CR, User(d) PROVE Closed(c)'
    <2>1. UNCHANGED cfnVars
      BY <1>2, UserLeaves
    <2> QED  BY <1>2, <1>c, <1>stack, <2>1, UserLeaves, OthersClosed
  <1>3. ASSUME NEW d \in CR, Start(d) PROVE Closed(c)'
    <2>1. /\ obj' = obj /\ UNCHANGED cfnVars
          /\ wk' = [wk EXCEPT ![d].pc = "get"] /\ d \notin processing
      BY <1>3 DEF Start, Begin, Take, apiVars
    <2>2. wk[d].pc = "idle"
      BY <2>1 DEF Bookkeeping, Consistent, ProcessingIsWorking
    <2>3. /\ \/ wk'[c].pc = wk[c].pc
             \/ wk[c].pc = "idle" /\ wk'[c].pc = "get"
          /\ wk'[c].copy = wk[c].copy /\ wk'[c].then = wk[c].then
          /\ wk'[c].seen = wk[c].seen /\ wk'[c].left = wk[c].left
      BY <1>type, <2>1, <2>2 DEF Worker
    <2> QED  BY <1>c, <1>stack, <2>1, <2>3, OthersClosed
  <1>4. ASSUME NEW d \in CR, Timer(d) \/ Event(d) \/ Again(d) PROVE Closed(c)'
    <2>1. obj' = obj /\ wk' = wk /\ UNCHANGED cfnVars
      BY <1>4 DEF Timer, Event, Deliver, Again, Resync, apiVars
    <2> QED  BY <1>c, <1>stack, <2>1, OthersClosed
  <1>5. ASSUME NEW s \in Stack, Aws(s) PROVE Closed(c)'
    <2>1. UNCHANGED <<apiVars, wk>> /\ obj' = obj
      BY <1>5 DEF Aws, apiVars
    <2>2. CASE s = StackOf[c]
      BY <1>5, <1>c, <2>1, <2>2, StackStepClosed, ChangeSetStepClosed DEF Aws
    <2>3. CASE s # StackOf[c]
      <3>1. /\ TheStack(c)' = TheStack(c)
            /\ changeSets'[StackOf[c]] = changeSets[StackOf[c]]
        BY <1>type, <1>5, <1>c, <2>3
        DEF Aws, StackStep, ChangeSetStep, TheStack
      <3> QED  BY <1>c, <2>1, <3>1, OthersClosed
    <2> QED  BY <2>2, <2>3
  <1>6. CASE Restart
    <2>1. wk'[c] = Idle /\ obj' = obj /\ UNCHANGED cfnVars
      BY <1>6 DEF Restart, Relist
    <2> QED  BY <1>c, <1>stack, <2>1, OthersClosed
  <1>7. CASE UNCHANGED vars
    <2>1. obj' = obj /\ wk' = wk /\ UNCHANGED cfnVars
      BY <1>7 DEF vars, apiVars
    <2> QED  BY <1>c, <1>stack, <2>1, OthersClosed
  <1> QED  BY <1>1, <1>2, <1>3, <1>4, <1>5, <1>6, <1>7, <1>c
           DEF Next, OperatorDeletesStack, Crash, Die

\* At the start no worker has anything, and no stack a change set.
LEMMA ClosureInit == Init => Closure
  <1>1. /\ Idle.pc = "idle" /\ Idle.then = "" /\ Idle.seen.status = "NONE"
        /\ NoObj.status.phase = ""
    BY DEF Idle, NothingSeen, NoObj, Submitted
  <1> SUFFICES ASSUME Init, NEW c \in CR PROVE Closed(c)
    BY DEF Closure
  <1>2. /\ wk[c] = Idle /\ obj[c] = NoObj /\ changeSets[StackOf[c]] = {}
        /\ TheStack(c).status \in {"NONE", "CREATE_COMPLETE"}
    BY StackOfType
    DEF Init, ReconcilerInit, ApiInit, CfnInit, TheStack, NoStack, Created
  <1>3. SeenIsTrue(c) /\ FailureIsKnown(c) /\ ExecutesReady(c) /\ WritesOnce(c)
    BY <1>1, <1>2
    DEF SeenIsTrue, FailureIsKnown, ExecutesReady, WritesOnce, HasCopy
  <1>4. FailureIsDead(c) /\ OneChangeSet(c)
    BY <1>2 DEF FailureIsDead, OneChangeSet, IsReviewInProgress
  <1> QED  BY <1>3, <1>4 DEF Closed

\* In a Traceable deployment where no role or reference is missing, and as long
\* as nothing failed, a Failure of a stack under review is of a change set that
\* is dead, and a worker knows what it is to execute.
THEOREM ClosureHolds ==
  ASSUME Traceable, NothingMissing PROVE Spec => []Closure
  <1>1. Init => Closure
    BY ClosureInit
  <1>2. TypeOK /\ Bookkeeping /\ Closure /\ [Next]_vars => Closure'
    BY ClosureStep
  <1> QED  BY <1>1, <1>2, TypeCorrect, BookkeepingHolds, PTL DEF Spec

\* Nothing is ready to be executed for a resource that is settled.
LEMMA NothingReady ==
  ASSUME TypeOK, NEW c \in CR, Honest(c), Closed(c), Settled(obj[c]),
         wk[c].pc = "execute"
  PROVE  Ready(StackOf[c], wk[c].copy.status.changeset) = {}
  <1>1. obj[c].status.phase = "Failure"
    BY DEF Settled, Honest, SuccessRests
  <1>2. /\ ThePhase(c) = "Failure"
        /\ wk[c].copy.status.changeset = obj[c].status.changeset
    BY <1>1 DEF Closed, FailureIsKnown, HasCopy
  <1>3. IsReviewInProgress(TheStack(c).status)
    BY <1>2 DEF Closed, ExecutesReady, Updating
  <1>4. Dead(c, wk[c].copy.status.changeset)
    BY <1>1, <1>2, <1>3 DEF Closed, FailureIsDead
  <1> QED  BY <1>4 DEF Dead, Ready

\* In the same deployments, and as long as nothing failed, no change set is
\* executed on the stack of a settled resource: neither of one that says Success
\* nor of one that says Failure, though users may edit it away and back again
\* while a worker is about to execute.
THEOREM SettledStackIsLeftAlone ==
  ASSUME Traceable, NothingMissing PROVE Spec => SettledStackStays
  <1> DEFINE Known == TypeOK /\ Honesty /\ Closure
             Left == faults = 0 =>
                       \A c \in CR : Settled(obj[c]) =>
                         stacks'[StackOf[c]].target = TheStack(c).target
  <1>1. TypeOK /\ Honesty /\ Closure /\ [Next]_vars => Left
    <2> SUFFICES ASSUME TypeOK, Honesty, Closure, [Next]_vars, faults = 0,
                        NEW c \in CR, Settled(obj[c])
                 PROVE  stacks'[StackOf[c]].target = TheStack(c).target
      OBVIOUS
    <2>type. stacks \in [Stack -> StackRecord] /\ StackOf[c] \in Stack
      BY StackOfType DEF TypeOK, CfnTypeOK
    <2>1. ASSUME NEW d \in CR, CreateChangeSet(d)
          PROVE  stacks'[StackOf[c]].target = TheStack(c).target
      <3>1. CASE UNCHANGED cfnVars
        BY <3>1 DEF cfnVars, TheStack
      <3>2. CASE \E n, b : AddChangeSet(StackOf[d], n, b)
        BY <2>type, <3>2 DEF AddChangeSet, TheStack, StackRecord
      <3> QED  BY <2>1, <3>1, <3>2 DEF CreateChangeSet
    <2>2. ASSUME NEW d \in CR, ExecuteChangeSet(d)
          PROVE  stacks'[StackOf[c]].target = TheStack(c).target
      <3>1. CASE d # c
        BY <2>type, <2>2, <3>1, ExecuteTouches
        DEF Traceable, Separate, TheStack
      <3>2. CASE d = c
        <4>1. Ready(StackOf[c], wk[c].copy.status.changeset) = {}
          BY <2>2, <3>2, NothingReady DEF ExecuteChangeSet, Honesty, Closure
        <4> QED  BY <2>2, <3>2, <4>1 DEF ExecuteChangeSet, cfnVars, TheStack
      <3> QED  BY <3>1, <3>2
    <2>3. ASSUME NEW s \in Stack, Aws(s)
          PROVE  stacks'[StackOf[c]].target = TheStack(c).target
      <3>1. CASE StackStep(s)
        <4>1. PICK t \in NextStatus(stacks[s].status) :
                stacks' = [stacks EXCEPT ![s] = Moved(@, t)]
          BY <3>1 DEF StackStep
        <4>2. s = StackOf[c] => t # "NONE"
          BY DEF Closure, Closed, OneChangeSet, TheStack, NextStatus
        <4> QED  BY <2>type, <4>1, <4>2 DEF Moved, TheStack, StackRecord
      <3> QED  BY <2>3, <3>1 DEF Aws, ChangeSetStep, TheStack
    <2>4. CASE UNCHANGED cfnVars
      BY <2>4 DEF cfnVars, TheStack
    <2>5. ASSUME NEW d \in CR, Work(d)
          PROVE  stacks'[StackOf[c]].target = TheStack(c).target
      BY <2>1, <2>2, <2>4, <2>5, WhoTouchesStacks
    <2>6. CASE \A d \in CR : ~Work(d)
      BY <2>3, <2>4, <2>6
      DEF Next, vars, User, Submit, Edit, MarkDeleting, Remove, UserWrites,
          Start, Begin, Timer, Event, Again, OperatorDeletesStack, Fault, Crash,
          Die, Restart, Traceable
    <2> QED  BY <2>5, <2>6
  <1>2. Known /\ [Next]_vars => [Left]_vars
    BY <1>1
  <1> HIDE DEF Known
  <1>3. Spec => []Known
    BY TypeCorrect, HonestyHolds, ClosureHolds, PTL DEF Known
  <1> QED  BY <1>2, <1>3, PTL DEF Spec, SettledStackStays

-----------------------------------------------------------------------------
(* What users see of all this: the controller implements Promise.          *)

\* A step is a write of a user to one resource, or changes one resource, or one
\* stack.
LEMMA OneChanges ==
  ASSUME TypeOK, [Next]_vars
  PROVE  \/ \E c \in CR : /\ edits' = edits + 1 /\ stacks' = stacks
                         /\ \A d \in CR \ {c} : obj'[d] = obj[d]
         \/ /\ edits' = edits /\ stacks' = stacks
            /\ \E c \in CR : \A d \in CR \ {c} : obj'[d] = obj[d]
         \/ /\ edits' = edits /\ obj' = obj
            /\ \E s \in Stack : \A r \in Stack \ {s} : stacks'[r] = stacks[r]
         \/ edits' = edits /\ obj' = obj /\ stacks' = stacks
  <1>type. stacks \in [Stack -> StackRecord] /\ obj \in [CR -> Object]
    BY DEF TypeOK, CfnTypeOK, ApiTypeOK
  <1>1. ASSUME NEW c \in CR, User(c)
        PROVE  /\ edits' = edits + 1 /\ stacks' = stacks
               /\ \A d \in CR \ {c} : obj'[d] = obj[d]
    BY <1>type, <1>1
       DEF User, Submit, Edit, MarkDeleting, Remove, UserWrites, Store, cfnVars
  <1>2. ASSUME NEW c \in CR, Work(c), UNCHANGED cfnVars
        PROVE  /\ edits' = edits /\ stacks' = stacks
               /\ \A d \in CR \ {c} : obj'[d] = obj[d]
    <2>1. \A d \in CR \ {c} : obj'[d] = obj[d]
      BY <1>2, WorkKinds, OthersUntouched
    <2> QED  BY <1>2, <2>1 DEF Work, cfnVars
  <1>3. ASSUME NEW c \in CR, Work(c), ~UNCHANGED cfnVars
        PROVE  /\ edits' = edits /\ obj' = obj
               /\ \A r \in Stack \ {StackOf[c]} : stacks'[r] = stacks[r]
    <2>1. CreateChangeSet(c) \/ ExecuteChangeSet(c)
      BY <1>3, WhoTouchesStacks
    <2>2. obj' = obj
      BY <2>1 DEF CreateChangeSet, ExecuteChangeSet, apiVars
    <2>3. \A r \in Stack \ {StackOf[c]} : stacks'[r] = stacks[r]
      BY <2>1, CreateTouches, ExecuteTouches
    <2> QED  BY <1>3, <2>2, <2>3 DEF Work
  <1>4. ASSUME NEW s \in Stack, Aws(s) \/ OperatorDeletesStack(s)
        PROVE  /\ edits' = edits /\ obj' = obj
               /\ \A r \in Stack \ {s} : stacks'[r] = stacks[r]
    BY <1>type, <1>4
       DEF Aws, OperatorDeletesStack, StackStep, ChangeSetStep, StartDeletion,
           apiVars
  <1>5. ASSUME NEW c \in CR, Start(c) \/ Timer(c) \/ Event(c) \/ Again(c) \/ Die(c)
        PROVE  edits' = edits /\ obj' = obj /\ stacks' = stacks
    BY <1>5 DEF Start, Begin, Timer, Event, Deliver, Again, Resync, Die, Restart,
                Relist, apiVars, cfnVars
  <1>6. CASE Crash \/ UNCHANGED vars
    BY <1>6 DEF Crash, Restart, Relist, vars, apiVars, cfnVars
  <1> QED  BY <1>1, <1>2, <1>3, <1>4, <1>5, <1>6, StackOfType DEF Next

\* SuccessMeansDeployed is what Promise says of an answer.
LEMMA SuccessIsTrue ==
  TypeOK /\ SuccessMeansDeployed => \A c \in CR : P!True(c)
  <1> SUFFICES ASSUME TypeOK, SuccessMeansDeployed, NEW c \in CR,
                      Answered[c] = "Success"
               PROVE  \E r \in P!Means(Asked[c]) : Stacks[c] \in Meets[r]
    BY DEF P!True
  <1>1. Settled(obj[c]) /\ obj[c].status.phase = "Success"
    BY DEF Answered
  <1>2. Asked[c] = obj[c].spec.body /\ Stacks[c] = TheStack(c)
    BY <1>1 DEF Asked, Stacks, Settled
  <1>3. /\ TheStack(c) \in StackRecord /\ obj[c].spec.body \in AnyBody
        /\ Resolutions[obj[c].spec.body] \subseteq AnyBody
    BY StackOfType, ResolutionsType
       DEF TypeOK, CfnTypeOK, ApiTypeOK, TheStack, Object, StackSpec, AnyBody
  <1>4. PICK b \in {obj[c].spec.body} \cup Resolutions[obj[c].spec.body] :
          Deployed(c, b) \/ IsRollBackComplete(TheStack(c).status)
    BY <1>1 DEF SuccessMeansDeployed
  <1>5. b \in AnyBody /\ TheStack(c) \in Meets[b]
    BY <1>3, <1>4 DEF Meets, Deployed
  <1> QED  BY <1>2, <1>4, <1>5 DEF P!Means

\* A step that changes one resource tells something of that one.
LEMMA Tells ==
  ASSUME TypeOK', NEW c \in CR, P!True(c)', stacks' = stacks,
         \A d \in CR \ {c} : obj'[d] = obj[d]
  PROVE  /\ Asked'[c] \in Body \cup {NoBody} /\ Answered'[c] \in P!Answer
         /\ P!Tell(c, Asked'[c], Answered'[c])
  <1>1. Asked'[c] \in Body \cup {NoBody}
    BY DEF Asked, TypeOK, ApiTypeOK, Object, StackSpec, AnyBody
  <1>2. Answered'[c] \in P!Answer
    BY DEF Answered, P!Answer, Settled
  <1>3. Asked' = [Asked EXCEPT ![c] = Asked'[c]]
    <2>1. \A d \in CR \ {c} : Asked'[d] = Asked[d]
      BY DEF Asked
    <2>2. Asked' = [d \in CR |-> Asked'[d]] /\ Asked = [d \in CR |-> Asked[d]]
      BY DEF Asked
    <2> QED  BY <2>1, <2>2
  <1>4. Answered' = [Answered EXCEPT ![c] = Answered'[c]]
    BY DEF Answered, Settled
  <1>5. Stacks' = Stacks
    BY DEF Stacks, TheStack
  <1> QED  BY <1>1, <1>2, <1>3, <1>4, <1>5 DEF P!Tell

\* A step of the deployment is a step of Promise, or none.
LEMMA StepKeepsPromise ==
  ASSUME Separate, TypeOK, TypeOK', [Next]_vars, (\A c \in CR : P!True(c))',
         edits' = edits =>
           \A c \in CR :
             /\ obj'[c].present = obj[c].present
             /\ obj'[c].spec.body # obj[c].spec.body =>
                  obj'[c].spec.body \in Resolutions[obj[c].spec.body],
         edits' = edits => \A c \in CR : Settled(obj[c]) => obj'[c] = obj[c],
         \A c \in CR : obj[c].status.phase = "Success" =>
                         stacks'[StackOf[c]] = TheStack(c)
  PROVE  [P!PromiseNext]_(P!promiseVars)
  <1>type. /\ obj \in [CR -> Object] /\ obj' \in [CR -> Object]
           /\ stacks' \in [Stack -> StackRecord]
    BY DEF TypeOK, ApiTypeOK, CfnTypeOK
  <1>1. ASSUME NEW c \in CR, edits' = edits + 1, stacks' = stacks,
               \A d \in CR \ {c} : obj'[d] = obj[d]
        PROVE  P!Ask(c)
    BY <1>1, Tells DEF P!Ask
  <1>2. ASSUME NEW c \in CR, edits' = edits, stacks' = stacks,
               \A d \in CR \ {c} : obj'[d] = obj[d]
        PROVE  P!Reply(c) \/ UNCHANGED P!promiseVars
    <2>1. CASE Settled(obj[c])
      <3>1. \A d \in CR : obj'[d] = obj[d]
        BY <1>2, <2>1
      <3>2. Asked' = Asked /\ Answered' = Answered /\ Stacks' = Stacks
        BY <1>2, <3>1 DEF Asked, Answered, Stacks, Settled, TheStack
      <3> QED  BY <1>2, <3>2 DEF P!promiseVars
    <2>2. CASE ~Settled(obj[c])
      <3>1. Answered[c] = "none"
        BY <2>2 DEF Answered
      <3>2. Asked'[c] \in P!Means(Asked[c])
        BY <1>2 DEF Asked, P!Means
      <3> QED  BY <1>2, <3>1, <3>2, Tells DEF P!Reply
    <2> QED  BY <2>1, <2>2
  <1>3. ASSUME edits' = edits, obj' = obj, NEW s \in Stack,
               \A r \in Stack \ {s} : stacks'[r] = stacks[r]
        PROVE  (\E c \in CR : P!Change(c)) \/ UNCHANGED P!promiseVars
    <2>1. Asked' = Asked /\ Answered' = Answered
      BY <1>3 DEF Asked, Answered, Settled
    <2>2. CASE \A c \in CR : stacks'[StackOf[c]] = stacks[StackOf[c]]
      <3>1. Stacks' = Stacks
        BY <2>2 DEF Stacks, TheStack
      <3> QED  BY <1>3, <2>1, <3>1 DEF P!promiseVars
    <2>3. ASSUME NEW c \in CR, stacks'[StackOf[c]] # stacks[StackOf[c]]
          PROVE  P!Change(c)
      <3>1. StackOf[c] = s /\ \A d \in CR \ {c} : StackOf[d] # s
        BY <1>3, <2>3, StackOfType DEF Separate
      <3>2. Answered[c] # "Success"
        BY <2>3 DEF Answered, TheStack
      <3>3. Stacks' \in [CR -> StackRecord]
        BY <1>type, StackOfType DEF Stacks, TheStack
      <3>4. \A d \in CR \ {c} : Stacks'[d] = Stacks[d]
        BY <1>3, <3>1, StackOfType DEF Stacks, TheStack
      <3> QED  BY <1>3, <2>1, <3>2, <3>3, <3>4 DEF P!Change
    <2> QED  BY <2>2, <2>3
  <1>4. CASE edits' = edits /\ obj' = obj /\ stacks' = stacks
    BY <1>4 DEF P!promiseVars, Asked, Answered, Stacks, Settled, TheStack
  <1> QED  BY <1>1, <1>2, <1>3, <1>4, OneChanges DEF P!PromiseNext

\* In a Traceable and Steady deployment the controller keeps its promise, for
\* any number of resources, workers, edits and faults: whatever the order in
\* which events, runs, calls and restarts come, users see an answer that stands
\* until they ask for something else, and behind a Success the stack they asked
\* for, which nothing touches.
THEOREM PromiseIsKept ==
  ASSUME Traceable, Steady PROVE Spec => KeepsPromise
  <1> DEFINE AllTrue == \A c \in CR : P!True(c)
             Known == TypeOK /\ AllTrue
             Edited == edits' = edits =>
                         \A c \in CR :
                           /\ obj'[c].present = obj[c].present
                           /\ obj'[c].spec.body # obj[c].spec.body =>
                                obj'[c].spec.body \in Resolutions[obj[c].spec.body]
             Stayed == edits' = edits =>
                         \A c \in CR : Settled(obj[c]) => obj'[c] = obj[c]
             Left == \A c \in CR : obj[c].status.phase = "Success" =>
                                     stacks'[StackOf[c]] = TheStack(c)
  <1>1. Init => P!Init
    <2> SUFFICES ASSUME Init PROVE P!Init
      OBVIOUS
    <2>1. ~NoObj.present /\ stacks \in [Stack -> StackRecord]
      BY DEF NoObj, Submitted, Init, CfnInit, StackRecord, NoStack, Created,
             AnyBody, StackStatuses
    <2>2. edits = 0 /\ \A c \in CR : obj[c] = NoObj
      BY DEF Init, ApiInit
    <2>3. /\ Asked = [c \in CR |-> NoBody]
          /\ Answered = [c \in CR |-> "none"]
      BY <2>1, <2>2 DEF Asked, Answered, Settled
    <2>4. Stacks \in [CR -> StackRecord]
      BY <2>1, StackOfType DEF Stacks, TheStack
    <2> QED  BY <2>2, <2>3, <2>4 DEF P!Init
  <1>2. Spec => []Known
    <2>1. TypeOK /\ SuccessMeansDeployed => AllTrue
      BY SuccessIsTrue
    <2> QED  BY <2>1, TypeCorrect, SuccessIsDeployed, PTL
  <1>3. TypeOK /\ TypeOK' /\ AllTrue' /\ [Next]_vars /\ [Edited]_vars /\ [Stayed]_vars
        /\ [Left]_vars => [P!PromiseNext]_(P!promiseVars)
    <2>1. UNCHANGED vars => UNCHANGED P!promiseVars
      BY DEF vars, cfnVars, apiVars, P!promiseVars, Asked, Answered, Stacks,
             Settled, TheStack
    <2> QED  BY <2>1, StepKeepsPromise DEF Traceable
  <1> HIDE DEF AllTrue
  <1>4. Spec => [][Edited]_vars
    BY EditsAreKept DEF EditsSurvive
  <1>5. Spec => [][Stayed]_vars
    BY SettledIsLeftAlone DEF SettledStays
  <1>6. Spec => [][Left]_vars
    BY SuccessfulStackIsLeftAlone DEF SuccessfulStackStays
  <1> HIDE DEF Edited, Stayed, Left
  <1> QED  BY <1>1, <1>2, <1>3, <1>4, <1>5, <1>6, PTL
           DEF Spec, KeepsPromise, P!PromiseSpec
=============================================================================
