-------------------------- MODULE ControllerProofs --------------------------
(***************************************************************************)
(* What holds of the controller for any number of resources, stacks and    *)
(* workers, for any checksum function and any number of edits and faults.  *)
(***************************************************************************)
EXTENDS ControllerInvariants, TLAPS

\* validateIfStackExistsWithSameName has one branch for a complete stack, one
\* for a stack in progress and one for a failed stack, and no other: every
\* status of the SDK takes exactly one of them.
THEOREM StatusesPartitioned ==
  \A status \in StackStatuses :
    /\ IsComplete(status) \/ IsInProgress(status) \/ IsFailed(status)
    /\ ~(IsComplete(status) /\ IsInProgress(status))
    /\ ~(IsComplete(status) /\ IsFailed(status))
    /\ ~(IsInProgress(status) /\ IsFailed(status))
  BY DEF StackStatuses, IsComplete, IsInProgress, IsFailed

-----------------------------------------------------------------------------
(* Types: first of the helpers, then of the steps of a worker.             *)

\* A submitted resource, and the absent one, are objects.
LEMMA ObjectTypes ==
  /\ \A b \in Body, d \in BOOLEAN : Submitted(b, d) \in Object
  /\ NoObj \in Object
  /\ Idle \in Worker
  <1>1. \A b \in AnyBody, d \in BOOLEAN : Submitted(b, d) \in Object
    BY DEF Submitted, Object, StackSpec, Status, Phase
  <1>2. NoObj \in Object
    BY <1>1 DEF NoObj, Object, AnyBody
  <1>3. Idle \in Worker
    BY <1>2 DEF Idle, Worker, Pc, Then, NothingSeen, AnyBody
  <1> QED  BY <1>1, <1>2, <1>3 DEF AnyBody

\* What a write of the API server preserves.
LEMMA StoreType ==
  ASSUME ApiTypeOK, NEW c \in CR, NEW o \in Object, Store(c, o)
  PROVE  ApiTypeOK'
  BY DEF ApiTypeOK, Store

\* What the end of a run preserves.
LEMMA ReturnType ==
  ASSUME QueueTypeOK, wk \in [CR -> Worker], NEW c \in CR,
         NEW again \in BOOLEAN, Return(c, again)
  PROVE  QueueTypeOK' /\ wk' \in [CR -> Worker]
  BY ObjectTypes DEF Return, Finish, QueueTypeOK

\* What moving on inside a run preserves.
LEMMA GoToType ==
  ASSUME wk \in [CR -> Worker], NEW c \in CR, NEW pc \in Pc,
         NEW o \in Object, GoTo(c, pc, o)
  PROVE  wk' \in [CR -> Worker]
  BY ZenonT(60) DEF GoTo, Worker

\* What preparing an Update of the phase preserves.
LEMMA UpdateStatusType ==
  ASSUME wk \in [CR -> Worker], NEW c \in CR, NEW phase \in Phase,
         NEW then \in Then, UpdateStatus(c, phase, then)
  PROVE  wk' \in [CR -> Worker]
  <1>1. wk[c].copy \in Object
    BY DEF Worker
  <1>2. [wk[c].copy EXCEPT !.status.phase = phase] \in Object
    BY <1>1 DEF Object, Status
  <1>3. wk' = [wk EXCEPT ![c] = [@ EXCEPT !.pc = "update",
               !.copy = [wk[c].copy EXCEPT !.status.phase = phase],
               !.then = then]]
    BY DEF UpdateStatus
  <1> QED  BY ZenonT(60), <1>2, <1>3 DEF Worker, Pc

\* What preparing an Update of phase and change set preserves.
LEMMA RecordChangeSetType ==
  ASSUME wk \in [CR -> Worker], NEW c \in CR, NEW n \in ChangeSetName,
         NEW phase \in Phase, NEW then \in Then,
         RecordChangeSet(c, n, phase, then)
  PROVE  wk' \in [CR -> Worker]
  <1>1. wk[c].copy \in Object
    BY DEF Worker
  <1> DEFINE status == [wk[c].copy.status EXCEPT !.phase = phase,
                                                 !.changeset = n]
  <1>2. [wk[c].copy EXCEPT !.status = status] \in Object
    BY <1>1 DEF Object, Status
  <1>3. wk' = [wk EXCEPT ![c] = [@ EXCEPT !.pc = "update", !.then = then,
               !.copy = [wk[c].copy EXCEPT !.status = status]]]
    BY DEF RecordChangeSet
  <1> QED  BY ZenonT(60), <1>2, <1>3 DEF Worker, Pc

\* What CloudFormation does for the controller, and on its own.
LEMMA AddChangeSetType ==
  ASSUME CfnTypeOK, NEW s \in Stack, NEW n \in ChangeSetName,
         NEW b \in AnyBody, AddChangeSet(s, n, b)
  PROVE  CfnTypeOK'
  <1>1. stacks' \in [Stack -> StackRecord]
    BY DEF AddChangeSet, CfnTypeOK, StackRecord, StackStatuses
  <1>2. changeSets' \in [Stack -> SUBSET ChangeSet]
    BY DEF AddChangeSet, CfnTypeOK, ChangeSet, ChangeSetStatus
  <1> QED  BY <1>1, <1>2 DEF CfnTypeOK

\* Executing a change set starts a stack operation on a well-formed stack.
LEMMA StartExecutionType ==
  ASSUME CfnTypeOK, NEW s \in Stack, NEW x \in changeSets[s],
         StartExecution(s, x)
  PROVE  CfnTypeOK'
  <1>1. x \in ChangeSet
    BY DEF CfnTypeOK
  <1>2. stacks' \in [Stack -> StackRecord]
    <2> DEFINE created == [status |-> "CREATE_IN_PROGRESS", body |-> x.body,
                           target |-> x.body]
    <2> DEFINE updated == [stacks[s] EXCEPT !.status = "UPDATE_IN_PROGRESS",
                                            !.target = x.body]
    <2>1. created \in StackRecord
      BY <1>1 DEF StackRecord, StackStatuses, ChangeSet
    <2>2. updated \in StackRecord
      BY <1>1 DEF CfnTypeOK, StackRecord, StackStatuses, ChangeSet
    <2> QED  BY <2>1, <2>2 DEF StartExecution, CfnTypeOK
  <1>3. changeSets' \in [Stack -> SUBSET ChangeSet]
    BY DEF StartExecution, CfnTypeOK
  <1> QED  BY <1>2, <1>3 DEF CfnTypeOK

\* CloudFormation moves a stack from one status to another it has.
LEMMA StackStepType ==
  ASSUME CfnTypeOK, NEW s \in Stack, StackStep(s)
  PROVE  CfnTypeOK'
  <1>1. PICK t \in NextStatus(stacks[s].status) :
          /\ stacks' = [stacks EXCEPT ![s] = Moved(@, t)]
          /\ UNCHANGED changeSets
    BY DEF StackStep
  <1>2. t \in StackStatuses \cup {"NONE"}
    BY DEF NextStatus, StackStatuses
  <1>3. Moved(stacks[s], t) \in StackRecord
    BY <1>2 DEF CfnTypeOK, StackRecord, Moved, NoStack, AnyBody
  <1> QED  BY <1>1, <1>3 DEF CfnTypeOK

\* CloudFormation moves a change set from one status to another it has.
LEMMA ChangeSetStepType ==
  ASSUME CfnTypeOK, NEW s \in Stack, ChangeSetStep(s)
  PROVE  CfnTypeOK'
  <1>1. PICK x \in changeSets[s], t \in ChangeSetStatus :
          /\ changeSets' = [changeSets EXCEPT ![s] =
               (@ \ {x}) \cup {[x EXCEPT !.status = t]}]
          /\ UNCHANGED stacks
    BY DEF ChangeSetStep, ChangeSetStatus
  <1>2. [x EXCEPT !.status = t] \in ChangeSet
    BY DEF CfnTypeOK, ChangeSet
  <1> QED  BY <1>1, <1>2 DEF CfnTypeOK

\* Deleting a stack only changes its status.
LEMMA StartDeletionType ==
  ASSUME CfnTypeOK, NEW s \in Stack, StartDeletion(s)
  PROVE  CfnTypeOK'
  BY DEF StartDeletion, CfnTypeOK, StackRecord, StackStatuses

\* The failures spent stay within their bound.
LEMMA FaultType ==
  ASSUME faults \in 0 .. MaxFaults, NEW f, Fault(f) \/ NoFault
  PROVE  faults' \in 0 .. MaxFaults
  BY MaxFaultsType DEF Fault, NoFault

\* A step of the worker.
LEMMA StepType ==
  ASSUME TypeOK, NEW c \in CR, Work(c)
  PROVE  TypeOK'
  <1> USE DEF TypeOK, ReconcilerTypeOK
  <1> DEFINE Held == QueueTypeOK' /\ wk' \in [CR -> Worker]
  <1>edits. edits' \in 0 .. MaxEdits
    BY DEF Work
  <1>worker. wk \in [CR -> Worker] /\ wk[c] \in Worker
    OBVIOUS
  <1>copy. wk[c].copy \in Object /\ wk[c].copy.spec \in StackSpec
    BY <1>worker DEF Worker, Object
  <1>inside. Inside => QueueTypeOK'
    BY DEF Inside, queueVars, QueueTypeOK
  <1>return. \A again \in BOOLEAN : Return(c, again) => Held
    BY ReturnType
  <1>goto. \A pc \in Pc, o \in Object : GoTo(c, pc, o) /\ Inside => Held
    BY GoToType, <1>inside
  <1>status. \A phase \in Phase, then \in Then :
               UpdateStatus(c, phase, then) /\ Inside => Held
    BY UpdateStatusType, <1>inside
  <1>cfn. UNCHANGED cfnVars => CfnTypeOK'
    BY DEF cfnVars, CfnTypeOK
  <1>api. UNCHANGED apiVars => ApiTypeOK'
    BY DEF apiVars, ApiTypeOK
  <1>fault. \A f : Fault(f) => faults' \in 0 .. MaxFaults
    BY FaultType
  <1>nofault. NoFault => faults' \in 0 .. MaxFaults
    BY DEF NoFault
  <1> HIDE DEF Held
  <1>1. CASE Get(c)
    <2>1. cache[c] \in Object /\ cache[c].spec \in StackSpec
      BY DEF ApiTypeOK, Object
    <2>2. ASSUME Hold(c, cache[c]), Inside PROVE Held
      <3> DEFINE held == [cache[c] EXCEPT !.status.checksum =
                                            Checksum(cache[c].spec)]
      <3> DEFINE current == watch[c] = <<>>
      <3> DEFINE complaints == Provider[cache[c].spec.body].complaints
      <3>1. held \in Object
        BY <2>1, ChecksumIsASum DEF Object, Status
      <3>2. wk' = [wk EXCEPT ![c] = [@ EXCEPT !.pc = "session",
                     !.copy = held, !.fresh = current, !.left = complaints]]
        BY <2>2 DEF Hold
      <3>3. current \in BOOLEAN /\ complaints \in 0 .. 3
        BY <2>1, ProviderType DEF StackSpec
      <3> HIDE DEF held, current, complaints
      <3>4. [wk[c] EXCEPT !.pc = "session", !.copy = held, !.fresh = current,
                          !.left = complaints] \in Worker
        BY <1>worker, <3>1, <3>3 DEF Worker, Pc
      <3>5. wk' \in [CR -> Worker]
        BY <1>worker, <3>2, <3>4
      <3> QED  BY <2>2, <3>5, <1>inside DEF Held
    <2>3. Held
      BY <1>1, <2>2, <1>return DEF Get
    <2> QED  BY <1>1, <2>3, <1>edits, <1>cfn, <1>api, <1>nofault DEF Get, Held
  <1>2. CASE SetAssumeRoleProvider(c)
    <2> DEFINE before == wk[c].copy.spec.defaulted
    <2> DEFINE first == wk[c].left = Provider[TheBody(c)].complaints
    <2>1. PICK d \in {before} \cup IF first THEN {TRUE} ELSE {} :
            wk' = [wk EXCEPT ![c] = [@ EXCEPT
              !.pc = "update", !.left = wk[c].left - 1, !.then = "provider",
              !.copy = [wk[c].copy EXCEPT !.spec.defaulted = d,
                                          !.status.phase = "Failure"]]]
      BY <1>2 DEF SetAssumeRoleProvider
    <2>7. d \in BOOLEAN
      BY <2>1, <1>copy DEF StackSpec
    <2> HIDE DEF before, first
    <2> DEFINE said == [wk[c].copy EXCEPT !.spec.defaulted = d,
                                          !.status.phase = "Failure"]
    <2> DEFINE less == wk[c].left - 1
    <2>2. said \in Object
      BY <2>7, <1>copy DEF Object, StackSpec, Status, Phase
    <2>3. less \in 0 .. 3
      BY <1>2, <1>worker DEF SetAssumeRoleProvider, Worker
    <2>4. wk' = [wk EXCEPT ![c] = [@ EXCEPT !.pc = "update", !.left = less,
                                     !.then = "provider", !.copy = said]]
      BY <2>1
    <2> HIDE DEF said, less
    <2>5. [wk[c] EXCEPT !.pc = "update", !.left = less, !.then = "provider",
                        !.copy = said] \in Worker
      BY <1>worker, <2>2, <2>3 DEF Worker, Pc, Then
    <2>6. wk' \in [CR -> Worker]
      BY <1>worker, <2>4, <2>5
    <2> QED  BY <1>2, <2>6, <1>edits, <1>cfn, <1>api, <1>nofault, <1>inside
             DEF SetAssumeRoleProvider
  <1>11. CASE Session(c)
    <2> DEFINE filled == [wk[c].copy EXCEPT !.spec.defaulted = TRUE]
    <2>1. filled \in Object
      BY <1>copy DEF Object, StackSpec
    <2> HIDE DEF filled
    <2>2. Held
      BY <1>11, <2>1, <1>goto, <1>return DEF Session, filled, Pc
    <2>3. faults' \in 0 .. MaxFaults
      BY <1>11, <1>fault, <1>nofault DEF Session
    <2> QED  BY <1>11, <2>2, <2>3, <1>edits, <1>cfn, <1>api DEF Session, Held
  <1>3. CASE References(c)
    <2>1. \A b \in Resolutions[TheBody(c)] :
            [wk[c].copy EXCEPT !.spec.body = b] \in Object
      BY <1>copy, ResolutionsType
      DEF Object, StackSpec, TheBody, AnyBody
    <2>2. Held
      BY <1>3, <2>1, <1>copy, <1>goto, <1>status DEF References, Pc, Phase, Then
    <2>3. faults' \in 0 .. MaxFaults
      BY <1>3, <1>fault, <1>nofault DEF References
    <2> QED  BY <1>3, <2>2, <2>3, <1>edits, <1>cfn, <1>api DEF References, Held
  <1>4. CASE Describe(c)
    <2> DEFINE seen == [status |-> TheStack(c).status, body |-> TheStack(c).body]
    <2>1. ASSUME Inside,
                 wk' = [wk EXCEPT ![c].pc = "events", ![c].seen = seen]
          PROVE  Held
      <3>1. seen \in [status : StackStatuses \cup {"NONE"},
                      body : AnyBody]
        BY StackOfType DEF CfnTypeOK, StackRecord, TheStack
      <3> HIDE DEF seen
      <3>2. wk' = [wk EXCEPT ![c] = [@ EXCEPT !.pc = "events", !.seen = seen]]
        BY <2>1
      <3>3. [wk[c] EXCEPT !.pc = "events", !.seen = seen] \in Worker
        BY <1>worker, <3>1 DEF Worker, Pc
      <3>4. wk' \in [CR -> Worker]
        BY <1>worker, <3>2, <3>3
      <3> QED  BY <2>1, <3>4, <1>inside DEF Held
    <2>2. Held
      BY <1>4, <2>1, <1>copy, <1>goto DEF Describe, Pc
    <2>3. faults' \in 0 .. MaxFaults
      BY <1>4, <1>fault, <1>nofault DEF Describe
    <2> QED  BY <1>4, <2>2, <2>3, <1>edits, <1>cfn, <1>api DEF Describe, Held
  <1>5. CASE Events(c)
    <2>1. Held
      BY <1>5, <1>copy, <1>goto, <1>status, <1>return
      DEF Events, Pc, Phase, Then
    <2>2. faults' \in 0 .. MaxFaults
      BY <1>5, <1>fault, <1>nofault DEF Events
    <2> QED  BY <1>5, <2>1, <2>2, <1>edits, <1>cfn, <1>api DEF Events, Held
  <1>6. CASE List(c)
    <2>1. Held
      BY <1>6, <1>copy, <1>goto, <1>status, <1>return
      DEF List, Pc, Phase, Then
    <2>2. faults' \in 0 .. MaxFaults
      BY <1>6, <1>fault, <1>nofault DEF List
    <2> QED  BY <1>6, <2>1, <2>2, <1>edits, <1>cfn, <1>api DEF List, Held
  <1>7. CASE Template(c)
    <2>1. Held
      BY <1>7, <1>copy, <1>goto, <1>status DEF Template, Pc, Phase, Then
    <2>2. faults' \in 0 .. MaxFaults
      BY <1>7, <1>fault, <1>nofault DEF Template
    <2> QED  BY <1>7, <2>1, <2>2, <1>edits, <1>cfn, <1>api DEF Template, Held
  <1>8. CASE CreateChangeSet(c)
    <2>1. PICK n \in ChangeSetName :
            /\ n = CHOOSE m \in NewNames : TRUE
      BY <1>8 DEF CreateChangeSet, NewNames
    <2> DEFINE Accepted == AddChangeSet(StackOf[c], n, TheBody(c))
    <2>2. \/ Accepted \/ UNCHANGED cfnVars
      BY <1>8, <2>1 DEF CreateChangeSet
    <2>3. \E phase \in Phase, then \in Then : RecordChangeSet(c, n, phase, then)
      BY <1>8, <2>1 DEF CreateChangeSet, Phase, Then
    <2>4. wk' \in [CR -> Worker]
      BY <2>3, RecordChangeSetType
    <2>5. StackOf[c] \in Stack /\ TheBody(c) \in AnyBody
      BY StackOfType, <1>copy DEF StackSpec, TheBody
    <2>6. CfnTypeOK'
      BY <2>2, <2>5, AddChangeSetType, <1>cfn
    <2>7. faults' \in 0 .. MaxFaults
      BY <1>8, <1>fault, <1>nofault DEF CreateChangeSet
    <2> QED  BY <1>8, <2>4, <2>6, <2>7, <1>edits, <1>api, <1>inside
             DEF CreateChangeSet
  <1>9. CASE ExecuteChangeSet(c)
    <2>1. Held
      BY <1>9, <1>status DEF ExecuteChangeSet, Phase, Then
    <2>2. StackOf[c] \in Stack
      BY StackOfType
    <2>3. \/ \E x \in changeSets[StackOf[c]] : StartExecution(StackOf[c], x)
          \/ UNCHANGED cfnVars
      BY <1>9 DEF ExecuteChangeSet, Ready
    <2>4. CfnTypeOK'
      BY <2>2, <2>3, StartExecutionType, <1>cfn
    <2>5. faults' \in 0 .. MaxFaults
      BY <1>9, <1>fault, <1>nofault DEF ExecuteChangeSet
    <2> QED  BY <1>9, <2>1, <2>4, <2>5, <1>edits, <1>api
             DEF ExecuteChangeSet, Held
  <1>10. CASE Update(c)
    <2>1. Updated(c) => Held
      <3>1. ASSUME NEW pc \in {"describe", "session"}, Resume(c, pc)
            PROVE  Held
        <4>1. wk' = [wk EXCEPT ![c] = [@ EXCEPT !.pc = pc, !.then = ""]]
          BY <3>1 DEF Resume
        <4>2. [wk[c] EXCEPT !.pc = pc, !.then = ""] \in Worker
          BY <1>worker DEF Worker, Pc, Then
        <4>3. wk' \in [CR -> Worker]
          BY <1>worker, <4>1, <4>2
        <4> QED  BY <3>1, <4>3, <1>inside DEF Held, Resume
      <3>2. (wk[c].then \in {"requeue", "fail"}) \in BOOLEAN
        OBVIOUS
      <3> QED  BY <3>1, <3>2, <1>return DEF Updated
    <2>2. (wk[c].then # "provider") \in BOOLEAN
      OBVIOUS
    <2>3. Held
      BY <1>10, <2>1, <2>2, <1>return DEF Update
    <2>4. Put(c) => ApiTypeOK'
      BY <1>copy, <1>api, StoreType DEF Put
    <2>5. ApiTypeOK'
      BY <1>10, <2>4, <1>api DEF Update
    <2>6. faults' \in 0 .. MaxFaults
      BY <1>10, <1>fault, <1>nofault DEF Update
    <2> QED  BY <1>10, <2>3, <2>5, <2>6, <1>edits, <1>cfn DEF Update, Held
  <1> QED  BY <1>1, <1>2, <1>3, <1>4, <1>5, <1>6, <1>7, <1>8, <1>9, <1>10, <1>11
           DEF Work, Step

\* A write of a user.
LEMMA UserType ==
  ASSUME TypeOK, NEW c \in CR, User(c)
  PROVE  TypeOK'
  <1> USE DEF TypeOK, ReconcilerTypeOK
  <1>1. \A o \in Object : UserWrites(c, o) => TypeOK'
    <2> SUFFICES ASSUME NEW o \in Object, UserWrites(c, o) PROVE TypeOK'
      OBVIOUS
    <2>1. ApiTypeOK'
      BY StoreType DEF UserWrites
    <2>2. wk' \in [CR -> Worker]
      <3>1. wk' = [wk EXCEPT ![c] = [@ EXCEPT !.fresh = FALSE]]
        BY DEF UserWrites
      <3> QED  BY <3>1 DEF Worker
    <2>3. edits' \in 0 .. MaxEdits
      BY MaxEditsType DEF UserWrites
    <2> QED  BY <2>1, <2>2, <2>3
             DEF UserWrites, cfnVars, queueVars, CfnTypeOK, QueueTypeOK
  <1>2. CASE Submit(c)
    BY <1>1, <1>2, ObjectTypes DEF Submit
  <1>3. CASE Edit(c)
    <2>1. obj[c] \in Object /\ obj[c].spec \in StackSpec
      BY DEF ApiTypeOK, Object
    <2>2. \A b \in Body : [obj[c] EXCEPT !.spec.body = b] \in Object
      BY <2>1 DEF Object, StackSpec, AnyBody
    <2> QED  BY <1>1, <1>3, <2>2 DEF Edit
  <1>4. CASE MarkDeleting(c)
    <2>1. [obj[c] EXCEPT !.deleting = TRUE] \in Object
      BY DEF ApiTypeOK, Object
    <2> QED  BY <1>1, <1>4, <2>1 DEF MarkDeleting
  <1>5. CASE Remove(c)
    BY <1>1, <1>5, ObjectTypes DEF Remove
  <1> QED  BY <1>2, <1>3, <1>4, <1>5 DEF User

\* Every value a variable ever has is one the code can give it: in particular
\* no phase is written but the ones IsValidState and validateIfStackExists-
\* WithSameName compare with, and none but one of this run's change sets.
THEOREM TypeCorrect == Spec => []TypeOK
  <1> USE DEF TypeOK, ReconcilerTypeOK
  <1>1. Init => TypeOK
    <2> SUFFICES ASSUME Init PROVE TypeOK
      OBVIOUS
    <2>1. CfnTypeOK
      BY DEF Init, CfnInit, CfnTypeOK, StackRecord, NoStack, Created, AnyBody,
             StackStatuses
    <2>2. QueueTypeOK /\ ApiTypeOK
      BY ObjectTypes DEF Init, QueueInit, ApiInit, QueueTypeOK, ApiTypeOK
    <2> QED  BY <2>1, <2>2, ObjectTypes, MaxFaultsType, MaxEditsType
             DEF Init, ReconcilerInit
  <1>2. TypeOK /\ [Next]_vars => TypeOK'
    <2> SUFFICES ASSUME TypeOK, [Next]_vars PROVE TypeOK'
      OBVIOUS
    <2>1. CASE UNCHANGED vars
      BY <2>1 DEF vars, cfnVars, queueVars, apiVars, CfnTypeOK, QueueTypeOK,
                  ApiTypeOK
    <2>2. ASSUME NEW c \in CR, User(c) PROVE TypeOK'
      BY <2>2, UserType
    <2>3. ASSUME NEW c \in CR, Start(c) PROVE TypeOK'
      <3>1. wk' = [wk EXCEPT ![c] = [@ EXCEPT !.pc = "get"]]
        BY <2>3 DEF Start, Begin
      <3>2. wk' \in [CR -> Worker]
        BY <3>1 DEF Worker, Pc
      <3> QED  BY <2>3, <3>2 DEF Start, Begin, Take, cfnVars, apiVars,
                  CfnTypeOK, ApiTypeOK, QueueTypeOK
    <2>4. ASSUME NEW c \in CR, Work(c) PROVE TypeOK'
      BY <2>4, StepType
    <2>5. ASSUME NEW c \in CR, Timer(c) PROVE TypeOK'
      BY <2>5 DEF Timer, TimerFires, cfnVars, apiVars, CfnTypeOK, ApiTypeOK,
                  QueueTypeOK
    <2>6. ASSUME NEW c \in CR, Event(c) PROVE TypeOK'
      <3>1. Head(watch[c]) \in Object /\ Tail(watch[c]) \in Seq(Object)
        BY <2>6 DEF Event, Deliver, ApiTypeOK
      <3>2. ApiTypeOK'
        BY <2>6, <3>1 DEF Event, Deliver, ApiTypeOK
      <3> QED  BY <2>6, <3>2 DEF Event, Deliver, Add, cfnVars, CfnTypeOK,
                  QueueTypeOK
    <2>7. ASSUME NEW c \in CR, Again(c) PROVE TypeOK'
      BY <2>7 DEF Again, Resync, Add, cfnVars, apiVars, CfnTypeOK, ApiTypeOK,
                  QueueTypeOK
    <2>8. ASSUME NEW s \in Stack, Aws(s) PROVE TypeOK'
      <3>1. CfnTypeOK'
        BY <2>8, StackStepType, ChangeSetStepType DEF Aws
      <3> QED  BY <2>8, <3>1 DEF Aws, queueVars, apiVars, QueueTypeOK, ApiTypeOK
    <2>9. ASSUME NEW s \in Stack, OperatorDeletesStack(s) PROVE TypeOK'
      <3>1. CfnTypeOK' /\ faults' \in 0 .. MaxFaults
        BY <2>9, StartDeletionType, FaultType DEF OperatorDeletesStack
      <3> QED  BY <2>9, <3>1 DEF OperatorDeletesStack, queueVars, apiVars,
                  QueueTypeOK, ApiTypeOK
    <2>10. ASSUME Restart, faults' \in 0 .. MaxFaults PROVE TypeOK'
      <3>1. QueueTypeOK' /\ ApiTypeOK'
        BY <2>10 DEF Restart, Relist, QueueTypeOK, ApiTypeOK
      <3> QED  BY <2>10, <3>1, ObjectTypes DEF Restart, cfnVars, CfnTypeOK
    <2>11. CASE Crash
      BY <2>10, <2>11, FaultType DEF Crash
    <2>12. ASSUME NEW c \in CR, Die(c) PROVE TypeOK'
      BY <2>10, <2>12 DEF Die, NoFault
    <2> QED  BY <2>1, <2>2, <2>3, <2>4, <2>5, <2>6, <2>7, <2>8, <2>9, <2>11,
                <2>12 DEF Next
  <1> QED  BY <1>1, <1>2, PTL DEF Spec
=============================================================================
