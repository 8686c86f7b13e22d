---------------------------- MODULE SettledProofs ----------------------------
(***************************************************************************)
(* In a Steady deployment a settled resource is left alone until a user    *)
(* writes.                                                                 *)
(***************************************************************************)
EXTENDS LostWorkProofs

\* Only a reference that cannot be fetched makes a run write a Failure and go
\* on to the stack.
LEMMA NeverGoesOn ==
  ASSUME Steady, TypeOK, NEW c \in CR, wk[c].then # "continue", Work(c)
  PROVE  wk'[c].then # "continue"
  <1>1. wk \in [CR -> Worker] /\ wk[c] \in Worker /\ Idle.then = ""
    BY DEF TypeOK, ReconcilerTypeOK, Idle
  <1>resolved. TheBody(c) \notin Unresolvable /\ ~Fault("references")
    BY DEF Steady, Fault
  <1> SUFFICES ASSUME wk'[c].then = "continue" PROVE FALSE
    OBVIOUS
  <1>2. \A again : ~Return(c, again)
    BY <1>1 DEF Return
  <1>3. ~Update(c)
    <2>1. \A pc : ~Resume(c, pc)
      BY <1>1 DEF Resume, Worker
    <2> QED  BY <1>2, <2>1 DEF Update, Updated
  <1>4. \A phase, then : UpdateStatus(c, phase, then) => then = "continue"
    <2> SUFFICES ASSUME NEW phase, NEW then, UpdateStatus(c, phase, then)
                 PROVE  then = "continue"
      OBVIOUS
    <2> DEFINE copy == [wk[c].copy EXCEPT !.status.phase = phase]
    <2>1. wk' = [wk EXCEPT ![c] = [@ EXCEPT !.pc = "update", !.copy = copy,
                                            !.then = then]]
      BY ZenonT(60) DEF UpdateStatus
    <2> HIDE DEF copy
    <2> QED  BY <1>1, <2>1 DEF Worker
  <1>5. \A n, phase, then : RecordChangeSet(c, n, phase, then) =>
                              then = "continue"
    <2> SUFFICES ASSUME NEW n, NEW phase, NEW then,
                        RecordChangeSet(c, n, phase, then)
                 PROVE  then = "continue"
      OBVIOUS
    <2> QED  BY <1>1, RecordThen
  <1>6. \A pc, o : ~GoTo(c, pc, o)
    BY ZenonT(60), <1>1 DEF GoTo, Worker
  <1>7. \A o : ~Hold(c, o)
    <2> SUFFICES ASSUME NEW o, Hold(c, o) PROVE FALSE
      OBVIOUS
    <2> DEFINE copy == [o EXCEPT !.status.checksum = Checksum(o.spec)]
    <2> DEFINE current == watch[c] = <<>>
    <2> DEFINE complaints == Provider[o.spec.body].complaints
    <2>1. wk' = [wk EXCEPT ![c] = [@ EXCEPT !.pc = "session", !.copy = copy,
                                     !.fresh = current, !.left = complaints]]
      BY DEF Hold
    <2> HIDE DEF copy, current, complaints
    <2> QED  BY <1>1, <2>1 DEF Worker
  <1>8. ~Describe(c)
    <2>1. \A seen : wk' # [wk EXCEPT ![c].pc = "events", ![c].seen = seen]
      BY ZenonT(60), <1>1 DEF Worker
    <2> QED  BY <1>6, <2>1 DEF Describe
  <1>9. ~SetAssumeRoleProvider(c)
    BY ProviderKind
  <1>10. ~Get(c) /\ ~Session(c) /\ ~References(c) /\ ~Events(c) /\ ~List(c)
    BY <1>resolved, <1>2, <1>4, <1>6, <1>7
       DEF Get, Session, References, Events, List
  <1>11. ~Template(c) /\ ~CreateChangeSet(c) /\ ~ExecuteChangeSet(c)
    BY <1>2, <1>4, <1>5, <1>6 DEF Template, CreateChangeSet, ExecuteChangeSet
  <1> QED  BY <1>3, <1>8, <1>9, <1>10, <1>11 DEF Work, Step

\* What SetAssumeRoleProvider makes of the copy: a Failure, and after the first
\* one nothing else.
LEMMA ProviderCopy ==
  ASSUME TypeOK, NEW c \in CR, SetAssumeRoleProvider(c)
  PROVE  /\ wk'[c].copy.status.phase = "Failure"
         /\ wk'[c].copy.status.changeset = wk[c].copy.status.changeset
         /\ wk'[c].copy.deleting = wk[c].copy.deleting
         /\ wk'[c].seen = wk[c].seen
         /\ /\ wk[c].left # Provider[TheBody(c)].complaints
            /\ ThePhase(c) = "Failure"
            => wk'[c].copy = wk[c].copy
  <1>type. /\ wk \in [CR -> Worker] /\ wk[c] \in Worker
           /\ wk[c].copy \in Object /\ wk[c].copy.spec \in StackSpec
           /\ wk[c].copy.status \in Status
    BY DEF TypeOK, ReconcilerTypeOK, Worker, Object
  <1>1. PICK d \in {wk[c].copy.spec.defaulted} \cup
                   IF wk[c].left = Provider[TheBody(c)].complaints
                   THEN {TRUE} ELSE {} :
          wk' = [wk EXCEPT ![c] = [@ EXCEPT
            !.pc = "update", !.left = wk[c].left - 1, !.then = "provider",
            !.copy = [wk[c].copy EXCEPT !.spec.defaulted = d,
                                        !.status.phase = "Failure"]]]
    BY DEF SetAssumeRoleProvider
  <1> DEFINE spec == [wk[c].copy.spec EXCEPT !.defaulted = d]
             status == [wk[c].copy.status EXCEPT !.phase = "Failure"]
             copy == [wk[c].copy EXCEPT !.spec = spec, !.status = status]
  <1>2. wk'[c].copy = copy /\ wk'[c].seen = wk[c].seen
    BY <1>type, <1>1 DEF Worker, Object
  <1>3. /\ copy.status.phase = "Failure" /\ copy.deleting = wk[c].copy.deleting
        /\ copy.status.changeset = wk[c].copy.status.changeset
    BY <1>type DEF Object, Status
  <1>4. ASSUME wk[c].left # Provider[TheBody(c)].complaints,
               ThePhase(c) = "Failure"
        PROVE  copy = wk[c].copy
    <2>1. d = wk[c].copy.spec.defaulted
      BY <1>1, <1>4
    <2>2. spec = wk[c].copy.spec
      BY <1>type, <2>1 DEF StackSpec
    <2>3. status = wk[c].copy.status
      BY <1>type, <1>4 DEF Status, ThePhase
    <2> QED  BY <1>type, <2>2, <2>3 DEF Object
  <1> QED  BY <1>2, <1>3, <1>4

\* Where there are complaints there is no role, so that the session ends the run.
LEMMA NoSessionEndsRun ==
  ASSUME Steady, TypeOK, NEW c \in CR, Session(c),
         Provider[TheBody(c)].complaints > 0
  PROVE  wk'[c].pc = "idle"
  <1>1. wk \in [CR -> Worker] /\ wk[c] \in Worker /\ Idle.pc = "idle"
        /\ TheBody(c) \in AnyBody
    BY DEF TypeOK, ReconcilerTypeOK, Idle, TheBody, Worker, Object, StackSpec
  <1>2. Provider[TheBody(c)].role # "ok"
    BY <1>1 DEF Steady
  <1>3. Return(c, FALSE)
    BY <1>2 DEF Session
  <1> QED  BY <1>1, <1>3 DEF Return

\* The Update of a worker leaves a settled resource as it is, and goes on only
\* to complain of the role again.
LEMMA UpdateLeaves ==
  ASSUME TypeOK, NEW c \in CR, DropsForRole(c), ActsOnUnsettled(c),
         UpdatesEnd(c), Update(c)
  PROVE  ActsOnUnsettled(c)' /\ (Settled(obj[c]) => obj'[c] = obj[c])
  <1>1. /\ wk \in [CR -> Worker] /\ wk[c] \in Worker /\ Idle.pc = "idle"
        /\ obj \in [CR -> Object] /\ wk[c].pc = "update"
    BY DEF TypeOK, ReconcilerTypeOK, ApiTypeOK, Idle, Update
  <1>2. Put(c) => obj'[c] = wk[c].copy
    BY <1>1 DEF Put, Store, apiVars
  <1>3. wk[c].fresh /\ Settled(obj[c]) => wk[c].copy = obj[c]
    BY <1>1 DEF ActsOnUnsettled, HasCopy
  <1>4. ASSUME NEW again, Return(c, again)
        PROVE  ActsOnUnsettled(c)'
    <2>1. wk'[c].pc = "idle"
      BY <1>1, <1>4 DEF Return
    <2> QED  BY <2>1 DEF ActsOnUnsettled, HasCopy
  <1>5. ASSUME wk[c].fresh, Put(c), Updated(c)
        PROVE  ActsOnUnsettled(c)'
    <2>1. CASE wk[c].then = "provider"
      <3>1. Resume(c, "session")
        BY <2>1, <1>5 DEF Updated
      <3>2. /\ wk'[c].pc = "session" /\ wk'[c].copy = wk[c].copy
            /\ wk'[c].left = wk[c].left
        BY <1>1, <3>1 DEF Resume, Worker
      <3>3. Complaining(c)' /\ wk'[c].copy = obj'[c] /\ ThePhase(c)' = "Failure"
        BY <1>2, <1>5, <2>1, <3>2
        DEF Complaining, DropsForRole, UpdatesEnd, TheBody, ThePhase
      <3> QED  BY <3>3 DEF ActsOnUnsettled
    <2>2. CASE wk[c].then # "provider"
      <3>1. wk[c].then # "continue"
        BY DEF UpdatesEnd
      <3> QED  BY <1>4, <1>5, <2>2, <3>1 DEF Updated
    <2> QED  BY <2>1, <2>2
  <1>6. CASE UNCHANGED apiVars /\ \E again : Return(c, again)
    BY <1>4, <1>6 DEF apiVars
  <1>7. CASE wk[c].fresh /\ Put(c) /\ \E again : Return(c, again)
    BY <1>2, <1>3, <1>4, <1>7
  <1>8. CASE wk[c].fresh /\ Put(c) /\ Updated(c)
    BY <1>2, <1>3, <1>5, <1>8
  <1> QED  BY <1>6, <1>7, <1>8 DEF Update

\* What the worker of c itself does to LeavesSettled, and to a settled c.
LEMMA OwnLeaves ==
  ASSUME Steady, TypeOK, NEW c \in CR, Consistent(c), DropsForRole(c),
         ActsOnUnsettled(c), UpdatesEnd(c), Work(c)
  PROVE  /\ ActsOnUnsettled(c)' /\ UpdatesEnd(c)'
         /\ Settled(obj[c]) => obj'[c] = obj[c]
  <1>1. /\ wk \in [CR -> Worker] /\ wk[c] \in Worker /\ Idle.pc = "idle"
        /\ wk[c].left \in 0 .. 3 /\ TheBody(c) \in AnyBody
    BY DEF TypeOK, ReconcilerTypeOK, Idle, Worker, TheBody, Object, StackSpec
  <1>2. UpdatesEnd(c)'
    <2>1. wk'[c].then # "continue"
      BY NeverGoesOn DEF UpdatesEnd
    <2>2. wk'[c].then = "provider" => SetAssumeRoleProvider(c)
      BY BeforeProvider DEF DropsForRole
    <2> QED  BY <2>1, <2>2, ProviderCopy DEF UpdatesEnd, ThePhase
  <1>3. CASE Update(c)
    BY <1>2, <1>3, UpdateLeaves
  <1>4. CASE \E again \in BOOLEAN : GivesUp(c, again)
    <2>1. wk'[c].pc = "idle" /\ UNCHANGED apiVars
      BY <1>1, <1>4 DEF GivesUp, Return
    <2> QED  BY <1>2, <2>1 DEF ActsOnUnsettled, HasCopy, apiVars
  <1>5. CASE Reads(c)
    <2>1. UNCHANGED apiVars
      BY <1>5 DEF Reads
    <2>2. CASE Return(c, FALSE)
      <3>1. wk'[c].pc = "idle"
        BY <1>1, <2>2 DEF Return
      <3> QED  BY <1>2, <2>1, <3>1 DEF ActsOnUnsettled, HasCopy, apiVars
    <2>3. CASE Hold(c, cache[c]) /\ ~NotUpdated(cache[c])
      <3>1. wk'[c].fresh => watch[c] = <<>>
        BY <1>1, <2>3 DEF Hold, Worker
      <3>2. watch[c] = <<>> => ~Settled(obj[c])
        BY <2>3 DEF Consistent, CacheFollows, NotUpdated, Settled, Terminal
      <3> QED  BY <1>2, <2>1, <3>1, <3>2 DEF ActsOnUnsettled, apiVars
    <2> QED  BY <1>5, <2>2, <2>3 DEF Reads
  <1>6. CASE GoesOn(c) /\ ~Update(c)
    <2>1. /\ HasCopy(c) /\ HasCopy(c)' /\ obj'[c] = obj[c]
          /\ wk'[c].fresh = wk[c].fresh /\ wk[c].pc # "update"
      BY <1>6 DEF GoesOn, apiVars, Work, Step, Get, SetAssumeRoleProvider,
                  Session, References, Describe, Events, List, Template,
                  CreateChangeSet, ExecuteChangeSet
    <2>2. CASE ~wk[c].fresh \/ ~Settled(obj[c])
      BY <1>2, <2>1, <2>2 DEF ActsOnUnsettled
    <2>3. CASE /\ Complaining(c)
               /\ wk[c].copy = obj[c] /\ ThePhase(c) = "Failure"
      <3>1. /\ wk[c].pc = "session"
            /\ wk[c].left < Provider[TheBody(c)].complaints
        BY <2>1, <2>3 DEF Complaining
      <3>2. wk[c].left # Provider[TheBody(c)].complaints
            /\ Provider[TheBody(c)].complaints > 0
        BY <1>1, <3>1, ProviderType
      <3>3. ~Session(c)
        BY <2>1, <3>2, NoSessionEndsRun DEF HasCopy
      <3>4. SetAssumeRoleProvider(c)
        BY <3>1, <3>3 DEF Work, Step, Get, References, Describe, Events, List,
                          Template, CreateChangeSet, ExecuteChangeSet, Update
      <3>5. /\ wk'[c].copy = wk[c].copy
            /\ wk'[c].pc = "update" /\ wk'[c].then = "provider"
        BY <2>3, <3>2, <3>4, ProviderCopy, ProviderKind
      <3> QED  BY <1>2, <2>1, <2>3, <3>5
               DEF ActsOnUnsettled, Complaining, ThePhase
    <2> QED  BY <2>1, <2>2, <2>3 DEF ActsOnUnsettled
  <1> QED  BY <1>3, <1>4, <1>5, <1>6, WorkKinds

\* LeavesSettled is kept, and a settled resource as it is, whoever takes the
\* step, unless it is a user.
LEMMA LeavesSettledStep ==
  ASSUME Steady, TypeOK, Bookkeeping, RoleKnown, LeavesSettled, [Next]_vars
  PROVE  /\ LeavesSettled'
         /\ edits' = edits =>
              \A c \in CR : Settled(obj[c]) => obj'[c] = obj[c]
  <1>type. /\ wk \in [CR -> Worker] /\ ApiTypeOK /\ edits \in Nat
           /\ Idle.pc = "idle" /\ Idle.then = ""
    BY MaxEditsType DEF TypeOK, ReconcilerTypeOK, Idle
  <1> DEFINE Left(c) == /\ ActsOnUnsettled(c)' /\ UpdatesEnd(c)'
                        /\ edits' = edits /\ Settled(obj[c]) => obj'[c] = obj[c]
  <1> SUFFICES ASSUME NEW c \in CR PROVE Left(c)
    BY DEF LeavesSettled
  <1>c. ActsOnUnsettled(c) /\ UpdatesEnd(c)
    BY DEF LeavesSettled
  <1>same. ASSUME wk'[c] = wk[c], obj'[c] = obj[c] PROVE Left(c)
    BY <1>c, <1>same DEF ActsOnUnsettled, UpdatesEnd, HasCopy, Complaining,
                         TheBody, ThePhase
  <1>1. CASE Work(c)
    BY <1>1, <1>c, OwnLeaves DEF Bookkeeping, RoleKnown
  <1>2. ASSUME NEW d \in CR, Work(d), d # c PROVE Left(c)
    BY <1>2, <1>same, WorkKinds, OthersUntouched
  <1>3. ASSUME NEW d \in CR, User(d) PROVE Left(c)
    <2>1. PICK o : Store(d, o) /\ wk' = [wk EXCEPT ![d].fresh = FALSE]
      BY <1>3 DEF User, Submit, Edit, MarkDeleting, Remove, UserWrites
    <2>2. CASE d # c
      BY <1>type, <1>same, <2>1, <2>2 DEF Store, ApiTypeOK
    <2>3. CASE d = c
      <3>1. /\ wk'[c].fresh = FALSE /\ wk'[c].then = wk[c].then
            /\ wk'[c].copy = wk[c].copy
        BY <1>type, <2>1, <2>3 DEF Worker
      <3>2. edits' # edits
        <4>1. edits' = edits + 1
          BY <1>3 DEF User, Submit, Edit, MarkDeleting, Remove, UserWrites
        <4>2. edits \in Nat
          BY <1>type
        <4> QED  BY <4>1, <4>2
      <3> QED  BY <1>c, <3>1, <3>2 DEF ActsOnUnsettled, UpdatesEnd, ThePhase
    <2> QED  BY <2>2, <2>3
  <1>4. ASSUME NEW d \in CR, Start(d) PROVE Left(c)
    <2>1. CASE d # c
      BY <1>type, <1>4, <1>same, <2>1 DEF Start, Begin, apiVars
    <2>2. CASE d = c
      <3>1. /\ wk'[c].pc = "get" /\ wk'[c].then = wk[c].then
            /\ wk'[c].copy = wk[c].copy /\ obj'[c] = obj[c]
        BY <1>type, <1>4, <2>2 DEF Start, Begin, Worker, apiVars
      <3> QED  BY <1>c, <3>1 DEF ActsOnUnsettled, UpdatesEnd, HasCopy, ThePhase
    <2> QED  BY <2>1, <2>2
  <1>5. ASSUME NEW d \in CR, Timer(d) \/ Event(d) \/ Again(d) PROVE Left(c)
    BY <1>5, <1>same DEF Timer, Event, Deliver, Again, Resync, apiVars
  <1>6. ASSUME NEW s \in Stack, Aws(s) \/ OperatorDeletesStack(s) PROVE Left(c)
    BY <1>6, <1>same DEF Aws, OperatorDeletesStack, apiVars
  <1>7. CASE Restart
    <2>1. wk'[c].pc = "idle" /\ wk'[c].then = "" /\ obj' = obj
      BY <1>type, <1>7 DEF Restart, Relist
    <2> QED  BY <2>1 DEF ActsOnUnsettled, UpdatesEnd, HasCopy
  <1>8. CASE UNCHANGED vars
    BY <1>8, <1>same DEF vars, apiVars
  <1> QED  BY <1>1, <1>2, <1>3, <1>4, <1>5, <1>6, <1>7, <1>8
           DEF Next, Crash, Die

\* A worker that has nothing leaves everything as it is.
LEMMA LeavesSettledInit == Init => LeavesSettled
  <1>1. Idle.pc = "idle" /\ Idle.then = ""
    BY DEF Idle
  <1> QED  BY <1>1 DEF Init, ReconcilerInit, LeavesSettled, ActsOnUnsettled,
                       UpdatesEnd, HasCopy

\* In a Steady deployment a resource whose phase is final for its spec is left
\* alone until a user writes: however far the cache lags behind, whatever fails
\* and whenever the controller restarts, no run that began before the end of
\* another one overwrites it, and no run starts it all over again.
THEOREM SettledIsLeftAlone ==
  ASSUME Steady PROVE Spec => SettledStays
  <1> DEFINE Known == TypeOK /\ Bookkeeping /\ RoleKnown /\ LeavesSettled
             Left == \A c \in CR : Settled(obj[c]) => obj'[c] = obj[c]
  <1>1. Init => RoleKnown /\ LeavesSettled
    BY InvInit, LeavesSettledInit
  <1>2. TypeOK /\ Bookkeeping /\ RoleKnown /\ LeavesSettled /\ [Next]_vars
        => RoleKnown' /\ LeavesSettled'
    BY RoleKnownStep, LeavesSettledStep
  <1>3. Spec => []Known
    BY <1>1, <1>2, TypeCorrect, BookkeepingHolds, PTL DEF Spec
  <1>4. Known /\ [Next]_vars => [edits' = edits => Left]_vars
    BY LeavesSettledStep
  <1> HIDE DEF Known
  <1> QED  BY <1>3, <1>4, PTL DEF Spec, SettledStays
=============================================================================
