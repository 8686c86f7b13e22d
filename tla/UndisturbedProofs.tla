--------------------------- MODULE UndisturbedProofs ---------------------------
(***************************************************************************)
(* In an Undisturbed deployment a resource that is left alone fails only   *)
(* with CloudFormation, executes its own change set, and does not repeat   *)
(* what rolled back.                                                       *)
(***************************************************************************)
EXTENDS DeployedProofs, UndisturbedInvariants, AssumeRole, FiniteSetTheorems

(* What is kept by steps that leave the stack alone.                       *)

\* The copy of a run has the role part of its resource, and can be resolved if
\* and only if that can.
LEMMA CopyAsks ==
  ASSUME Undisturbed, TypeOK, NEW c \in CR, Consistent(c), UpToDate(c),
         HasCopy(c)
  PROVE  /\ Provider[TheBody(c)] = Provider[obj[c].spec.body]
         /\ TheBody(c) \in Unresolvable <=> ~Resolvable(c)
  <1>1. obj[c].spec.body \in AnyBody
    BY DEF TypeOK, ApiTypeOK, Object, StackSpec
  <1> QED  BY <1>1 DEF Undisturbed, Consistent, CopyIsFaithful, UpToDate, Resolvable

\* What holds of a stack depends only on what its resource is going to be.
LEMMA StackKept ==
  ASSUME NEW c \in CR, StackInOrder(c),
         TheStack(c)' = TheStack(c),
         changeSets'[StackOf[c]] = changeSets[StackOf[c]],
         Coming(c)' = Coming(c), Concluded(c) => Concluded(c)',
         obj'[c] \in {obj[c], Coming(c)},
         Provider[obj'[c].spec.body] = Provider[obj[c].spec.body],
         Resolvable(c)' <=> Resolvable(c)
  PROVE  StackInOrder(c)'
  <1>1. Served(c)' /\ StatusIsOwn(c)'
    BY DEF StackInOrder, Served, StatusIsOwn
  <1>2. ChangeSetIsNamed(c)'
    BY DEF StackInOrder, ChangeSetIsNamed
  <1>3. RollbackIsExpected(c)'
    BY DEF StackInOrder, RollbackIsExpected
  <1>4. FailureIsExcused(c)'
    <2>1. \A o \in {obj[c], Coming(c)} :
            o.status.phase = "Failure" => Excuse(c, o)
      BY DEF StackInOrder, FailureIsExcused
    <2>2. \A o : Excuse(c, o) => Excuse(c, o)'
      BY DEF Excuse
    <2> QED  BY <2>1, <2>2 DEF FailureIsExcused, Excuse
  <1> QED  BY <1>1, <1>2, <1>3, <1>4 DEF StackInOrder

\* A step that does nothing to c.
LEMMA NothingHappens ==
  ASSUME NEW c \in CR, StackInOrder(c), RunInOrder(c),
         wk'[c] = wk[c], obj'[c] = obj[c], TheStack(c)' = TheStack(c),
         changeSets'[StackOf[c]] = changeSets[StackOf[c]]
  PROVE  StackInOrder(c)' /\ RunInOrder(c)'
  <1>1. Coming(c)' = Coming(c) /\ HasCopy(c)' = HasCopy(c)
        /\ (Resolvable(c)' <=> Resolvable(c)) /\ (UnderWay(c)' <=> UnderWay(c))
        /\ ThePhase(c)' = ThePhase(c) /\ TheBody(c)' = TheBody(c)
    BY DEF Coming, HasCopy, Resolvable, UnderWay, ThePhase, TheBody
  <1>2. StackInOrder(c)'
    <2>1. Concluded(c) => Concluded(c)'
      BY <1>1 DEF Concluded
    <2> QED  BY <1>1, <2>1, StackKept
  <1>3. Unasked(c)' /\ UpToDate(c)' /\ SpecIsFinal(c)' /\ GaveUp(c)'
    BY <1>1 DEF RunInOrder, Unasked, UpToDate, SpecIsFinal, GaveUp, Asking
  <1>4. SeenIsTrue(c)' /\ CreatesAfresh(c)'
    BY <1>1 DEF RunInOrder, SeenIsTrue, CreatesAfresh, Updating
  <1>5. ReadyIsNamed(c)'
    BY <1>1 DEF RunInOrder, ReadyIsNamed, Updating, Ready, TheStack
  <1> QED  BY <1>2, <1>3, <1>4, <1>5 DEF RunInOrder

\* A run that ends without a word.
LEMMA ReturnInOrder ==
  ASSUME TypeOK, NEW c \in CR, StackInOrder(c), RunInOrder(c),
         UNCHANGED <<cfnVars, apiVars>>, wk[c].pc # "update",
         NEW again, Return(c, again)
  PROVE  StackInOrder(c)' /\ RunInOrder(c)'
  <1>1. /\ wk'[c].pc = "idle" /\ wk'[c].then = ""
        /\ wk'[c].seen.status = "NONE" /\ obj' = obj
        /\ TheStack(c)' = TheStack(c)
        /\ changeSets'[StackOf[c]] = changeSets[StackOf[c]]
    BY DEF TypeOK, ReconcilerTypeOK, Return, Idle, NothingSeen, apiVars,
           cfnVars, TheStack
  <1>2. Coming(c)' = Coming(c) /\ ~HasCopy(c)'
        /\ (Resolvable(c)' <=> Resolvable(c))
    BY <1>1 DEF Coming, HasCopy, Resolvable
  <1>3. StackInOrder(c)'
    <2>1. Concluded(c) => Concluded(c)'
      BY <1>2 DEF Concluded
    <2> QED  BY <1>1, <1>2, <2>1, StackKept
  <1> QED  BY <1>1, <1>2, <1>3
           DEF RunInOrder, Unasked, UpToDate, SpecIsFinal, GaveUp, SeenIsTrue,
               CreatesAfresh, ReadyIsNamed, UnderWay, Asking

\* A run that goes on and has not come to its result leaves its stack alone.
LEMMA StackWaits ==
  ASSUME NEW c \in CR, StackInOrder(c), HasCopy(c), wk[c].pc # "update",
         wk'[c].pc # "update", UNCHANGED <<cfnVars, apiVars>>
  PROVE  StackInOrder(c)'
  <1>1. /\ obj' = obj /\ TheStack(c)' = TheStack(c)
        /\ changeSets'[StackOf[c]] = changeSets[StackOf[c]]
    BY DEF apiVars, cfnVars, TheStack
  <1>2. /\ Coming(c)' = Coming(c) /\ (Resolvable(c)' <=> Resolvable(c))
        /\ ~Concluded(c)
    BY <1>1 DEF Coming, Resolvable, Concluded
  <1> QED  BY <1>1, <1>2, StackKept

\* A run that goes on to ask for something else.
LEMMA AsksInOrder ==
  ASSUME NEW c \in CR, StackInOrder(c), RunInOrder(c), Asking(c),
         UNCHANGED <<cfnVars, apiVars>>,
         wk'[c].pc \in {"events", "list", "template", "create", "execute"},
         wk'[c].copy = wk[c].copy, wk'[c].then = wk[c].then,
         wk'[c].fresh = wk[c].fresh,
         SeenIsTrue(c)', CreatesAfresh(c)', ReadyIsNamed(c)'
  PROVE  StackInOrder(c)' /\ RunInOrder(c)'
  <1>1. /\ obj' = obj /\ TheStack(c)' = TheStack(c)
        /\ changeSets'[StackOf[c]] = changeSets[StackOf[c]]
    BY DEF apiVars, cfnVars, TheStack
  <1>2. /\ wk[c].pc # "update" /\ HasCopy(c) /\ HasCopy(c)' /\ Asking(c)'
        /\ UnderWay(c) /\ UnderWay(c)'
    BY DEF Asking, UnderWay, HasCopy
  <1>3. /\ Resolvable(c)' <=> Resolvable(c)
        /\ ThePhase(c)' = ThePhase(c) /\ TheBody(c)' = TheBody(c)
    BY <1>1 DEF Resolvable, ThePhase, TheBody
  <1>4. StackInOrder(c)'
    BY <1>2, StackWaits
  <1>5. Unasked(c)'
    BY <1>1, <1>2 DEF RunInOrder, Unasked
  <1>6. UpToDate(c)'
    BY <1>1, <1>2, <1>3 DEF RunInOrder, UpToDate, Asking, UnderWay
  <1>7. SpecIsFinal(c)'
    BY <1>1, <1>2, <1>3 DEF RunInOrder, SpecIsFinal
  <1>8. GaveUp(c)'
    BY <1>1, <1>2, <1>3 DEF RunInOrder, GaveUp, UnderWay
  <1> QED  BY <1>4, <1>5, <1>6, <1>7, <1>8 DEF RunInOrder

-----------------------------------------------------------------------------
(* What the steps of a worker leave, by what comes next.                   *)

\* A run that is about to write what it came to.
LEMMA RunWrites ==
  ASSUME NEW c \in CR, Consistent(c), RunInOrder(c), HasCopy(c),
         wk[c].pc # "update", wk'[c].pc = "update", UNCHANGED apiVars,
         wk'[c].seen = wk[c].seen, wk'[c].fresh = wk[c].fresh,
         wk'[c].copy.present = wk[c].copy.present,
         wk'[c].copy.deleting = wk[c].copy.deleting,
         TheBody(c)' = TheBody(c),
         wk'[c].then \in {"provider", "continue"} =>
           ThePhase(c)' = "Failure" /\ wk[c].pc \in {"session", "references"},
         wk'[c].then = "provider" <=> wk[c].pc = "session",
         wk'[c].then = "continue" => ~Resolvable(c),
         wk'[c].then \notin {"provider", "continue"} =>
           Asking(c) /\ wk'[c].copy.spec = wk[c].copy.spec
  PROVE  RunInOrder(c)'
  <1>1. /\ obj' = obj /\ HasCopy(c)' /\ ~Asking(c)'
        /\ (Resolvable(c)' <=> Resolvable(c))
        /\ wk[c].then \notin {"provider", "continue"}
    BY DEF apiVars, HasCopy, Asking, Resolvable, RunInOrder, GaveUp
  <1>2. UnderWay(c)' => Asking(c) /\ wk'[c].copy.spec = wk[c].copy.spec
    BY DEF UnderWay
  <1>3. Unasked(c)'
    BY <1>1 DEF RunInOrder, Unasked, UpToDate, Consistent, CopyIsFaithful
  <1>4. UpToDate(c)'
    BY <1>1 DEF RunInOrder, UpToDate
  <1>5. SpecIsFinal(c)'
    BY <1>1, <1>2 DEF RunInOrder, SpecIsFinal, Asking
  <1>6. GaveUp(c)'
    BY <1>1 DEF GaveUp
  <1>7. SeenIsTrue(c)'
    BY <1>1 DEF RunInOrder, SeenIsTrue
  <1>8. CreatesAfresh(c)' /\ ReadyIsNamed(c)'
    BY DEF CreatesAfresh, ReadyIsNamed
  <1> QED  BY <1>3, <1>4, <1>5, <1>6, <1>7, <1>8 DEF RunInOrder

\* A run that settles its resource without having touched the stack.
LEMMA EndsInOrder ==
  ASSUME Undisturbed, TypeOK, NEW c \in CR, Consistent(c), StackInOrder(c),
         RunInOrder(c), Asking(c), UNCHANGED <<cfnVars, apiVars>>,
         NEW phase \in {"Success", "Failure"},
         NEW then \in {"requeue", "fail", "panic"},
         UpdateStatus(c, phase, then), phase = "Failure" => Excuse(c, wk[c].copy)
  PROVE  StackInOrder(c)' /\ RunInOrder(c)'
  <1>1. /\ obj' = obj /\ TheStack(c)' = TheStack(c)
        /\ changeSets'[StackOf[c]] = changeSets[StackOf[c]]
        /\ (Resolvable(c)' <=> Resolvable(c))
    BY DEF apiVars, cfnVars, TheStack, Resolvable
  <1>2. /\ wk'[c].pc = "update" /\ wk'[c].then = then
        /\ wk'[c].seen = wk[c].seen /\ wk'[c].fresh = wk[c].fresh
        /\ wk'[c].copy.spec = wk[c].copy.spec
        /\ wk'[c].copy.present = wk[c].copy.present
        /\ wk'[c].copy.deleting = wk[c].copy.deleting
        /\ wk'[c].copy.status.phase = phase
        /\ wk'[c].copy.status.checksum = wk[c].copy.status.checksum
        /\ wk'[c].copy.status.changeset = wk[c].copy.status.changeset
    BY UpdateStatusIs DEF TypeOK, ReconcilerTypeOK
  <1>3. /\ HasCopy(c) /\ wk[c].pc \notin {"update", "session", "references"}
        /\ HasCopy(c)' /\ UnderWay(c)'
    BY <1>2 DEF Asking, UnderWay, HasCopy
  <1>4. RunInOrder(c)'
    BY <1>2, <1>3, RunWrites DEF TheBody, ThePhase
  <1>5. Coming(c) = obj[c] /\ ~Concluded(c) /\ Coming(c)' = wk'[c].copy
    BY <1>2, <1>3 DEF Coming, Concluded
  <1>6. /\ wk[c].copy.present /\ ~wk[c].copy.deleting
        /\ ThePhase(c) = obj[c].status.phase
        /\ wk[c].copy.status.changeset = obj[c].status.changeset
    BY <1>3 DEF RunInOrder, UpToDate
  <1>7. ASSUME Resolvable(c), obj[c].status.phase \in Ongoing
        PROVE  Concluded(c)'
    <2>1. wk[c].copy.status.checksum = Checksum(wk[c].copy.spec)
      BY <1>3, <1>6, <1>7 DEF RunInOrder, SpecIsFinal
    <2>2. wk'[c].copy.status.checksum = Checksum(wk'[c].copy.spec)
      BY <1>2, <2>1
    <2>3. Settled(Coming(c)')
      BY <1>2, <1>5, <1>6, <2>2 DEF Settled
    <2> QED  BY <1>2, <1>3, <2>3 DEF Concluded, Settled
  <1>8. Served(c)' /\ StatusIsOwn(c)'
    BY <1>1 DEF StackInOrder, Served, StatusIsOwn
  <1>9. ChangeSetIsNamed(c)'
    BY <1>1, <1>2, <1>5, <1>6, <1>7 DEF StackInOrder, ChangeSetIsNamed, Ongoing
  <1>10. RollbackIsExpected(c)'
    BY <1>1, <1>5, <1>7 DEF StackInOrder, RollbackIsExpected, Ongoing
  <1>11. FailureIsExcused(c)'
    BY <1>1, <1>2, <1>5 DEF StackInOrder, FailureIsExcused, Excuse
  <1> QED  BY <1>4, <1>8, <1>9, <1>10, <1>11 DEF StackInOrder

-----------------------------------------------------------------------------
(* A run before it looks at the stack.                                     *)

\* The run begins with the resource as it is.
LEMMA GetInOrder ==
  ASSUME Undisturbed, TypeOK, NEW c \in CR, Consistent(c), StackInOrder(c),
         RunInOrder(c), Get(c)
  PROVE  StackInOrder(c)' /\ RunInOrder(c)'
  <1>1. /\ UNCHANGED <<cfnVars, apiVars>> /\ wk[c].pc = "get"
        /\ watch[c] = <<>> /\ cache[c] = obj[c]
    BY DEF Get, Undisturbed, Consistent, CacheFollows
  <1>2. CASE Return(c, FALSE)
    BY <1>1, <1>2, ReturnInOrder
  <1>3. CASE obj[c].present /\ ~NotUpdated(obj[c]) /\ Hold(c, obj[c])
    <2>1. /\ wk'[c].pc = "session" /\ wk'[c].then = wk[c].then
          /\ wk'[c].seen = wk[c].seen /\ wk'[c].fresh
          /\ wk'[c].copy.spec = obj[c].spec
          /\ wk'[c].copy.present = obj[c].present
          /\ wk'[c].copy.deleting = obj[c].deleting
          /\ wk'[c].copy.status.phase = obj[c].status.phase
          /\ wk'[c].copy.status.checksum = Checksum(obj[c].spec)
          /\ wk'[c].copy.status.changeset = obj[c].status.changeset
      <3>1. wk \in [CR -> Worker] /\ obj[c] \in Object
        BY DEF TypeOK, ReconcilerTypeOK, ApiTypeOK
      <3>2. wk'[c].fresh = (watch[c] = <<>>)
        BY <1>3, <3>1, HoldIs
      <3> QED  BY <1>1, <1>3, <3>1, <3>2, HoldIs
    <2>2. /\ obj' = obj /\ TheStack(c)' = TheStack(c)
          /\ changeSets'[StackOf[c]] = changeSets[StackOf[c]]
          /\ wk[c].then \notin {"provider", "continue"}
          /\ HasCopy(c)' /\ ~UnderWay(c)' /\ ~Asking(c)'
      BY <1>1, <2>1 DEF apiVars, cfnVars, TheStack, RunInOrder, GaveUp, HasCopy,
                        UnderWay, Asking
    <2>3. ~Concluded(c)
      BY <1>1, <1>3 DEF Concluded, Coming, Settled, NotUpdated, Terminal
    <2>4. Coming(c)' = Coming(c) /\ (Resolvable(c)' <=> Resolvable(c))
      BY <1>1, <2>1, <2>2 DEF Coming, Resolvable
    <2>5. StackInOrder(c)'
      BY <2>2, <2>3, <2>4, StackKept
    <2>6. Unasked(c)' /\ UpToDate(c)'
      BY <1>3, <2>1, <2>2 DEF RunInOrder, UpToDate, Unasked, ThePhase
    <2>7. SpecIsFinal(c)'
      BY <2>1, <2>2, <2>4 DEF RunInOrder, SpecIsFinal
    <2>8. GaveUp(c)' /\ SeenIsTrue(c)'
      BY <1>1, <2>1, <2>2 DEF RunInOrder, GaveUp, SeenIsTrue
    <2>9. CreatesAfresh(c)' /\ ReadyIsNamed(c)'
      BY <2>1 DEF CreatesAfresh, ReadyIsNamed
    <2> QED  BY <2>5, <2>6, <2>7, <2>8, <2>9 DEF RunInOrder
  <1> QED  BY <1>1, <1>2, <1>3 DEF Get

\* Who complains has no stack of its own.
LEMMA ComplainsInOrder ==
  ASSUME Undisturbed, TypeOK, NEW c \in CR, Consistent(c), DropsForRole(c),
         StackInOrder(c), RunInOrder(c), SetAssumeRoleProvider(c)
  PROVE  StackInOrder(c)' /\ RunInOrder(c)'
  <1>1. /\ wk[c].pc = "session" /\ wk'[c].pc = "update"
        /\ wk'[c].then = "provider" /\ wk'[c].fresh = wk[c].fresh
        /\ TheBody(c)' = TheBody(c) /\ ThePhase(c)' = "Failure"
        /\ wk'[c].copy.present = wk[c].copy.present
        /\ wk'[c].copy.deleting = wk[c].copy.deleting
        /\ wk'[c].copy.status.changeset = wk[c].copy.status.changeset
        /\ wk'[c].seen = wk[c].seen
        /\ UNCHANGED <<cfnVars, apiVars>>
    BY ProviderIs
  <1>2. /\ obj' = obj /\ TheStack(c)' = TheStack(c)
        /\ changeSets'[StackOf[c]] = changeSets[StackOf[c]]
        /\ HasCopy(c) /\ (Resolvable(c)' <=> Resolvable(c))
        /\ Coming(c)' = wk'[c].copy
    BY <1>1 DEF apiVars, cfnVars, TheStack, HasCopy, Resolvable, Coming
  <1>3. RunInOrder(c)'
    BY <1>1, <1>2, RunWrites
  <1>4. Provider[TheBody(c)] = Provider[obj[c].spec.body]
    BY <1>2, CopyAsks DEF RunInOrder
  <1>5. /\ obj[c].spec.body \in AnyBody /\ TheBody(c) \in AnyBody
        /\ wk[c].left \in 0 .. 3
    BY DEF TypeOK, ApiTypeOK, ReconcilerTypeOK, Object, StackSpec, Worker,
           TheBody
  <1>6. Provider[TheBody(c)].complaints > 0
    BY <1>1, <1>5, ProviderType DEF SetAssumeRoleProvider, DropsForRole
  <1>7. /\ changeSets[StackOf[c]] = {}
        /\ TheStack(c).status \in {"NONE", "CREATE_COMPLETE"}
    BY <1>4, <1>5, <1>6 DEF Undisturbed, StackInOrder, Served
  <1>8. Served(c)' /\ StatusIsOwn(c)'
    BY <1>2 DEF StackInOrder, Served, StatusIsOwn
  <1>9. ChangeSetIsNamed(c)' /\ RollbackIsExpected(c)'
    BY <1>2, <1>7 DEF ChangeSetIsNamed, RollbackIsExpected
  <1>10. FailureIsExcused(c)'
    <2>1. Provider[wk'[c].copy.spec.body].complaints > 0
      BY <1>1, <1>6 DEF TheBody
    <2> QED  BY <1>2, <2>1 DEF StackInOrder, FailureIsExcused, Excuse
  <1> QED  BY <1>3, <1>8, <1>9, <1>10 DEF StackInOrder

\* A run that has its role, or its references, for good.
LEMMA GoesOnInOrder ==
  ASSUME TypeOK, NEW c \in CR, Consistent(c), StackInOrder(c), RunInOrder(c),
         wk[c].pc \in {"session", "references"}, UNCHANGED <<cfnVars, apiVars>>,
         NEW pc \in {"references", "describe"}, NEW o, GoTo(c, pc, o),
         o.status = wk[c].copy.status, o.present = wk[c].copy.present,
         o.deleting = wk[c].copy.deleting,
         Provider[o.spec.body].role = "ok",
         pc = "describe" => Resolvable(c),
         Resolvable(c) =>
           /\ IF pc = "references" THEN o.spec.defaulted ELSE Final(o.spec)
           /\ ThePhase(c) \in Ongoing => o.spec = wk[c].copy.spec
  PROVE  StackInOrder(c)' /\ RunInOrder(c)'
  <1>1. /\ wk'[c].pc = pc /\ wk'[c].copy = o
        /\ wk'[c].then = wk[c].then /\ wk'[c].seen = wk[c].seen
        /\ wk'[c].fresh = wk[c].fresh
    BY GoToIs DEF TypeOK, ReconcilerTypeOK
  <1>2. /\ obj' = obj /\ HasCopy(c) /\ HasCopy(c)'
        /\ (Resolvable(c)' <=> Resolvable(c))
        /\ wk[c].then \notin {"provider", "continue"}
        /\ ThePhase(c)' = ThePhase(c)
    BY <1>1 DEF apiVars, HasCopy, Resolvable, RunInOrder, GaveUp, ThePhase
  <1>3. StackInOrder(c)'
    BY <1>1, <1>2, StackWaits
  <1>4. Unasked(c)'
    BY <1>2 DEF RunInOrder, Unasked
  <1>5. UpToDate(c)'
    BY <1>1, <1>2 DEF RunInOrder, UpToDate, TheBody
  <1>6. SpecIsFinal(c)'
    BY <1>1, <1>2 DEF RunInOrder, SpecIsFinal, UnderWay
  <1>7. GaveUp(c)'
    BY <1>1, <1>2 DEF GaveUp, Asking, UnderWay
  <1>8. SeenIsTrue(c)'
    BY <1>1 DEF RunInOrder, SeenIsTrue
  <1>9. CreatesAfresh(c)' /\ ReadyIsNamed(c)'
    BY <1>1 DEF CreatesAfresh, ReadyIsNamed
  <1> QED  BY <1>3, <1>4, <1>5, <1>6, <1>7, <1>8, <1>9 DEF RunInOrder

\* A run that gets a session has a role; one that gets none says so, or ends.
LEMMA SessionInOrder ==
  ASSUME Undisturbed, TypeOK, NEW c \in CR, Consistent(c), StackInOrder(c),
         RunInOrder(c), Session(c)
  PROVE  StackInOrder(c)' /\ RunInOrder(c)'
  <1> DEFINE filled == [wk[c].copy EXCEPT !.spec.defaulted = TRUE]
  <1>1. /\ wk[c].pc = "session" /\ UNCHANGED <<cfnVars, apiVars>>
        /\ HasCopy(c)
    BY DEF Session, HasCopy
  <1>2. CASE Return(c, FALSE)
    BY <1>1, <1>2, ReturnInOrder
  <1>3. ASSUME NEW pc \in {"references", "describe"}, GoTo(c, pc, filled),
               Provider[TheBody(c)].role = "ok",
               pc = "describe" => ~HasReferences(TheBody(c))
        PROVE  StackInOrder(c)' /\ RunInOrder(c)'
    <2>1. wk[c].copy \in Object /\ wk[c].copy.spec \in StackSpec
      BY DEF TypeOK, ReconcilerTypeOK, Worker, Object
    <2>2. /\ filled.status = wk[c].copy.status
          /\ filled.present = wk[c].copy.present
          /\ filled.deleting = wk[c].copy.deleting
          /\ filled.spec.defaulted = TRUE /\ filled.spec.body = TheBody(c)
      BY <2>1 DEF Object, StackSpec, TheBody
    <2>3. wk[c].copy.spec.defaulted = TRUE => filled.spec = wk[c].copy.spec
      BY <2>1 DEF Object, StackSpec
    <2>goes. GoTo(c, pc, filled)
      BY <1>3
    <2> HIDE DEF filled
    <2>4. ASSUME pc = "describe" PROVE Resolvable(c) /\ Final(filled.spec)
      <3>1. TheBody(c) \notin Unresolvable /\ Resolutions[TheBody(c)] = {}
        BY <1>3, <2>4 DEF HasReferences
      <3>2. Resolvable(c)
        BY <1>1, <3>1, CopyAsks DEF RunInOrder
      <3> QED  BY <2>2, <3>1, <3>2 DEF Final
    <2>5. ASSUME Resolvable(c), ThePhase(c) \in Ongoing
          PROVE  filled.spec = wk[c].copy.spec
      <3>1. wk[c].copy.spec = obj[c].spec /\ Final(obj[c].spec)
        BY <1>1, <2>5 DEF RunInOrder, SpecIsFinal, UpToDate
      <3>2. wk[c].copy.spec.defaulted = TRUE
        BY <2>1, <3>1 DEF Final, StackSpec
      <3> QED  BY <2>3, <3>2
    <2> QED  BY <1>1, <1>3, <2>2, <2>goes, <2>4, <2>5, GoesOnInOrder
  <1> HIDE DEF filled
  <1> QED  BY <1>2, <1>3 DEF Session, filled

\* A run resolves all its references, or goes on with a Failure.
LEMMA ReferencesInOrder ==
  ASSUME Undisturbed, TypeOK, NEW c \in CR, Consistent(c), StackInOrder(c),
         RunInOrder(c), References(c)
  PROVE  StackInOrder(c)' /\ RunInOrder(c)'
  <1>1. /\ wk[c].pc = "references" /\ UNCHANGED <<cfnVars, apiVars>>
        /\ HasCopy(c) /\ ~Fault("references")
    BY DEF References, HasCopy, Fault, Undisturbed
  <1>type. /\ wk[c].copy \in Object /\ wk[c].copy.spec \in StackSpec
           /\ TheBody(c) \in AnyBody
    BY DEF TypeOK, ReconcilerTypeOK, Worker, Object, StackSpec, TheBody
  <1>2. /\ Provider[TheBody(c)] = Provider[obj[c].spec.body]
        /\ TheBody(c) \in Unresolvable <=> ~Resolvable(c)
    BY <1>1, CopyAsks DEF RunInOrder
  <1>3. ASSUME NEW b \in Resolutions[TheBody(c)],
               GoTo(c, "describe", [wk[c].copy EXCEPT !.spec.body = b])
        PROVE  StackInOrder(c)' /\ RunInOrder(c)'
    <2> DEFINE resolved == [wk[c].copy EXCEPT !.spec.body = b]
    <2>1. /\ resolved.status = wk[c].copy.status
          /\ resolved.present = wk[c].copy.present
          /\ resolved.deleting = wk[c].copy.deleting
          /\ resolved.spec.body = b
          /\ resolved.spec.defaulted = wk[c].copy.spec.defaulted
      BY <1>type DEF Object, StackSpec
    <2>2. b = TheBody(c) => resolved.spec = wk[c].copy.spec
      BY <1>type DEF Object, StackSpec, TheBody
    <2>goes. GoTo(c, "describe", resolved)
      BY <1>3
    <2> HIDE DEF resolved
    <2>3. Resolvable(c) /\ Provider[b] = Provider[TheBody(c)]
          /\ Resolutions[b] \subseteq {b}
      BY <1>type, <1>2, <1>3 DEF Undisturbed
    <2>4. Provider[b].role = "ok"
      BY <1>1, <2>3 DEF RunInOrder, UpToDate, GaveUp
    <2>5. Final(resolved.spec)
      BY <1>1, <2>1, <2>3 DEF RunInOrder, SpecIsFinal, Final
    <2>6. ASSUME ThePhase(c) \in Ongoing
          PROVE  resolved.spec = wk[c].copy.spec
      <3>1. wk[c].copy.spec = obj[c].spec /\ Final(obj[c].spec)
        BY <1>1, <2>3, <2>6 DEF RunInOrder, SpecIsFinal, UpToDate
      <3> QED  BY <1>3, <2>2, <3>1 DEF Final, TheBody
    <2> QED  BY <1>1, <2>1, <2>goes, <2>3, <2>4, <2>5, <2>6, GoesOnInOrder
  <1>4. CASE TheBody(c) \in Unresolvable /\ UpdateStatus(c, "Failure", "continue")
    <2>1. /\ wk'[c].pc = "update" /\ wk'[c].then = "continue"
          /\ wk'[c].seen = wk[c].seen /\ wk'[c].fresh = wk[c].fresh
          /\ wk'[c].copy.spec = wk[c].copy.spec
          /\ wk'[c].copy.present = wk[c].copy.present
          /\ wk'[c].copy.deleting = wk[c].copy.deleting
          /\ wk'[c].copy.status.phase = "Failure"
          /\ wk'[c].copy.status.changeset = wk[c].copy.status.changeset
      BY <1>4, UpdateStatusIs DEF TypeOK, ReconcilerTypeOK
    <2>2. RunInOrder(c)'
      BY <1>1, <1>2, <1>4, <2>1, RunWrites DEF TheBody, ThePhase
    <2>3. /\ obj' = obj /\ TheStack(c)' = TheStack(c)
          /\ changeSets'[StackOf[c]] = changeSets[StackOf[c]]
          /\ ~Resolvable(c) /\ ~Resolvable(c)'
          /\ Coming(c) = obj[c] /\ Coming(c)' = wk'[c].copy /\ ~Concluded(c)
      BY <1>1, <1>2, <1>4, <2>1
      DEF apiVars, cfnVars, TheStack, Resolvable, Coming, Concluded
    <2>4. Served(c)' /\ StatusIsOwn(c)'
      BY <2>3 DEF StackInOrder, Served, StatusIsOwn
    <2>5. ChangeSetIsNamed(c)'
      BY <1>1, <2>1, <2>3
      DEF StackInOrder, ChangeSetIsNamed, RunInOrder, UpToDate
    <2>6. RollbackIsExpected(c)'
      BY <2>3 DEF StackInOrder, RollbackIsExpected
    <2>7. FailureIsExcused(c)'
      BY <1>4, <2>1, <2>3 DEF StackInOrder, FailureIsExcused, Excuse, TheBody
    <2> QED  BY <2>2, <2>4, <2>5, <2>6, <2>7 DEF StackInOrder
  <1> QED  BY <1>1, <1>3, <1>4 DEF References

-----------------------------------------------------------------------------
(* A run that looks at the stack.                                          *)

\* What a run sees of its stack is so.
LEMMA DescribeInOrder ==
  ASSUME Undisturbed, TypeOK, NEW c \in CR, StackInOrder(c), RunInOrder(c),
         Describe(c)
  PROVE  StackInOrder(c)' /\ RunInOrder(c)'
  <1>1. /\ wk[c].pc = "describe" /\ UNCHANGED <<cfnVars, apiVars>>
        /\ Asking(c) /\ wk[c].seen.status = "NONE"
        /\ ~Fault("describeStacks") /\ wk \in [CR -> Worker]
    BY DEF Describe, RunInOrder, GaveUp, SeenIsTrue, Asking, UnderWay, Fault,
           Undisturbed, TypeOK, ReconcilerTypeOK
  <1>2. TheStack(c)' = TheStack(c)
        /\ changeSets'[StackOf[c]] = changeSets[StackOf[c]]
    BY <1>1 DEF TheStack, cfnVars
  <1>3. CASE wk' = [wk EXCEPT ![c].pc = "events", ![c].seen =
                      [status |-> TheStack(c).status, body |-> TheStack(c).body]]
    <2>1. /\ wk'[c].pc = "events" /\ wk'[c].copy = wk[c].copy
          /\ wk'[c].then = wk[c].then /\ wk'[c].fresh = wk[c].fresh
          /\ wk'[c].seen.status = TheStack(c).status
      BY <1>1, <1>3 DEF Worker
    <2>2. SeenIsTrue(c)'
      BY <1>1, <1>2, <2>1 DEF SeenIsTrue, Asking, UnderWay
    <2>3. CreatesAfresh(c)' /\ ReadyIsNamed(c)'
      BY <2>1 DEF CreatesAfresh, ReadyIsNamed
    <2> QED  BY <1>1, <2>1, <2>2, <2>3, AsksInOrder
  <1>4. CASE ~Exists(StackOf[c]) /\ GoTo(c, "create", wk[c].copy)
    <2>1. /\ wk'[c].pc = "create" /\ wk'[c].copy = wk[c].copy
          /\ wk'[c].then = wk[c].then /\ wk'[c].fresh = wk[c].fresh
          /\ wk'[c].seen = wk[c].seen
      BY <1>1, <1>4, GoToIs
    <2>2. TheStack(c).status = "NONE" /\ changeSets[StackOf[c]] = {}
      BY <1>4 DEF Exists, TheStack, StackInOrder, ChangeSetIsNamed, Updatable,
                  IsReviewInProgress
    <2>3. SeenIsTrue(c)'
      BY <1>1, <1>2, <2>1, <2>2 DEF SeenIsTrue, Asking, UnderWay
    <2>4. CreatesAfresh(c)' /\ ReadyIsNamed(c)'
      BY <1>2, <2>1, <2>2 DEF CreatesAfresh, ReadyIsNamed, IsRollBackComplete
    <2> QED  BY <1>1, <2>1, <2>3, <2>4, AsksInOrder
  <1> QED  BY <1>1, <1>3, <1>4 DEF Describe

\* The status seen takes a run to what the stack it sees allows.
LEMMA EventsInOrder ==
  ASSUME Undisturbed, TypeOK, NEW c \in CR, Consistent(c), StackInOrder(c),
         RunInOrder(c), Events(c)
  PROVE  StackInOrder(c)' /\ RunInOrder(c)'
  <1> DEFINE status == wk[c].seen.status
  <1>1. /\ wk[c].pc = "events" /\ UNCHANGED <<cfnVars, apiVars>>
        /\ Asking(c) /\ wk \in [CR -> Worker]
    BY DEF Events, RunInOrder, GaveUp, Asking, UnderWay, TypeOK,
           ReconcilerTypeOK
  <1>2. /\ TheStack(c)' = TheStack(c)
        /\ changeSets'[StackOf[c]] = changeSets[StackOf[c]]
        /\ (Resolvable(c)' <=> Resolvable(c))
    BY <1>1 DEF TheStack, cfnVars, apiVars, Resolvable
  <1>3. NextStatus(status) = {} => TheStack(c).status = status
    BY <1>1 DEF RunInOrder, SeenIsTrue
  <1>4. ASSUME NEW again, Return(c, again)
        PROVE  StackInOrder(c)' /\ RunInOrder(c)'
    BY <1>1, <1>4, ReturnInOrder
  <1>5. CASE IsFailed(status) /\ UpdateStatus(c, "Failure", "fail")
    <2>1. NextStatus(status) = {}
      BY <1>5 DEF IsFailed, NextStatus
    <2>2. Excuse(c, wk[c].copy)
      BY <1>3, <1>5, <2>1 DEF Excuse
    <2> QED  BY <1>1, <1>5, <2>2, EndsInOrder
  <1>6. ASSUME NEW pc \in {"list", "template"}, GoTo(c, pc, wk[c].copy),
               IsComplete(status) \/ (pc = "list" /\ IsReviewInProgress(status)),
               pc = "list" => IsReviewInProgress(status) \/ Updating(c),
               pc = "template" => ~Updating(c)
        PROVE  StackInOrder(c)' /\ RunInOrder(c)'
    <2>1. /\ wk'[c].pc = pc /\ wk'[c].copy = wk[c].copy
          /\ wk'[c].then = wk[c].then /\ wk'[c].fresh = wk[c].fresh
          /\ wk'[c].seen = wk[c].seen
      BY <1>1, <1>6, GoToIs
    <2>same. Updating(c)' <=> Updating(c)
      BY <2>1 DEF Updating, ThePhase
    <2>2. NextStatus(status) = {}
      BY <1>6 DEF IsComplete, IsReviewInProgress, NextStatus
    <2>3. SeenIsTrue(c)'
      BY <1>1, <1>2, <1>3, <1>6, <2>1, <2>same, <2>2 DEF SeenIsTrue, Asking, UnderWay
    <2>4. ASSUME pc = "template", Resolvable(c)
          PROVE  changeSets[StackOf[c]] = {}
      <3>1. ~IsReviewInProgress(TheStack(c).status)
        BY <1>3, <1>6, <2>2, <2>4 DEF IsComplete, IsReviewInProgress
      <3>2. obj[c].status.phase # "Update InProgress"
        BY <1>1, <1>6, <2>4 DEF RunInOrder, UpToDate, HasCopy, Updating
      <3>3. Coming(c) = obj[c] /\ ~Concluded(c)
        BY <1>1 DEF Coming, Concluded, HasCopy
      <3> QED  BY <2>4, <3>1, <3>2, <3>3 DEF StackInOrder, ChangeSetIsNamed
    <2>5. CreatesAfresh(c)' /\ ReadyIsNamed(c)'
      BY <1>2, <2>1, <2>4 DEF CreatesAfresh, ReadyIsNamed
    <2> QED  BY <1>1, <2>1, <2>3, <2>5, AsksInOrder
  <1> QED
    BY <1>4, <1>5, <1>6 DEF Events

\* The change set listed first is the only one, and the one that is named.
LEMMA ListInOrder ==
  ASSUME Undisturbed, TypeOK, NEW c \in CR, Consistent(c), StackInOrder(c),
         RunInOrder(c), List(c)
  PROVE  StackInOrder(c)' /\ RunInOrder(c)'
  <1> DEFINE status == wk[c].seen.status
  <1>1. /\ wk[c].pc = "list" /\ UNCHANGED <<cfnVars, apiVars>>
        /\ Asking(c) /\ wk \in [CR -> Worker] /\ HasCopy(c)
        /\ ~Fault("listChangeSets")
    BY DEF List, RunInOrder, GaveUp, Asking, UnderWay, TypeOK, Fault,
           ReconcilerTypeOK, HasCopy, Undisturbed
  <1>2. /\ TheStack(c)' = TheStack(c)
        /\ changeSets'[StackOf[c]] = changeSets[StackOf[c]]
    BY <1>1 DEF TheStack, cfnVars
  <1>3. IsReviewInProgress(status) \/ (IsComplete(status) /\ Updating(c))
    BY <1>1 DEF RunInOrder, SeenIsTrue
  <1>4. TheStack(c).status = status /\ Exists(StackOf[c])
    <2>1. NextStatus(status) = {} /\ status # "NONE"
      BY <1>3 DEF IsReviewInProgress, IsComplete, NextStatus
    <2> QED  BY <1>1, <2>1 DEF RunInOrder, SeenIsTrue, Exists, TheStack
  <1>5. ASSUME NEW again, Return(c, again)
        PROVE  StackInOrder(c)' /\ RunInOrder(c)'
    BY <1>1, <1>5, ReturnInOrder
  <1>6. ASSUME NEW x \in changeSets[StackOf[c]], x.status = "FAILED",
               UpdateStatus(c, "Failure", "fail")
        PROVE  StackInOrder(c)' /\ RunInOrder(c)'
    <2>1. Excuse(c, wk[c].copy)
      BY <1>6 DEF Excuse
    <2> QED  BY <1>1, <1>6, <2>1, EndsInOrder
  <1>7. CASE /\ changeSets[StackOf[c]] = {} /\ ~IsReviewInProgress(status)
             /\ GoTo(c, "template", wk[c].copy)
    <2>1. /\ wk'[c].pc = "template" /\ wk'[c].copy = wk[c].copy
          /\ wk'[c].then = wk[c].then /\ wk'[c].fresh = wk[c].fresh
          /\ wk'[c].seen = wk[c].seen
      BY <1>1, <1>7, GoToIs
    <2>2. SeenIsTrue(c)'
      BY <1>1, <1>2, <1>3, <1>4, <1>7, <2>1 DEF SeenIsTrue, Asking, UnderWay
    <2>3. CreatesAfresh(c)' /\ ReadyIsNamed(c)'
      BY <1>2, <1>7, <2>1 DEF CreatesAfresh, ReadyIsNamed
    <2> QED  BY <1>1, <2>1, <2>2, <2>3, AsksInOrder
  <1>8. ASSUME NEW x \in changeSets[StackOf[c]], x.status = "CREATE_COMPLETE",
               GoTo(c, "execute", wk[c].copy)
        PROVE  StackInOrder(c)' /\ RunInOrder(c)'
    <2>1. /\ wk'[c].pc = "execute" /\ wk'[c].copy = wk[c].copy
          /\ wk'[c].then = wk[c].then /\ wk'[c].fresh = wk[c].fresh
          /\ wk'[c].seen = wk[c].seen
      BY <1>1, <1>8, GoToIs
    <2>same. Updating(c)' <=> Updating(c)
      BY <2>1 DEF Updating, ThePhase
    <2>2. IsReviewInProgress(TheStack(c).status) \/ Updating(c)
      BY <1>3, <1>4
    <2>3. IsReviewInProgress(TheStack(c).status) \/ Resolvable(c)
      BY <1>1, <2>2 DEF RunInOrder, GaveUp, Updating
    <2>4. Coming(c) = obj[c]
      BY <1>1 DEF Coming
    <2>5. x.name = wk[c].copy.status.changeset
      BY <1>1, <2>3, <2>4
      DEF StackInOrder, ChangeSetIsNamed, RunInOrder, UpToDate
    <2>6. Updatable(TheStack(c).status) \/ IsReviewInProgress(TheStack(c).status)
      BY DEF StackInOrder, ChangeSetIsNamed
    <2>7. x \in Ready(StackOf[c], wk[c].copy.status.changeset)
      BY <1>8, <2>5, <2>6 DEF Ready, TheStack
    <2>8. Ready(StackOf[c], wk[c].copy.status.changeset)' # {}
      BY <1>1, <2>1, <2>7 DEF Ready, cfnVars
    <2>9. ReadyIsNamed(c)'
      BY <1>2, <2>1, <2>same, <2>2, <2>8 DEF ReadyIsNamed
    <2>10. SeenIsTrue(c)' /\ CreatesAfresh(c)'
      BY <1>1, <2>1 DEF SeenIsTrue, CreatesAfresh, Asking, UnderWay
    <2> QED  BY <1>1, <2>1, <2>9, <2>10, AsksInOrder
  <1> QED  BY <1>1, <1>4, <1>5, <1>6, <1>7, <1>8 DEF List

\* What rolled back is taken for a Success, and not tried again.
LEMMA TemplateInOrder ==
  ASSUME Undisturbed, TypeOK, NEW c \in CR, Consistent(c), StackInOrder(c),
         RunInOrder(c), Template(c)
  PROVE  StackInOrder(c)' /\ RunInOrder(c)'
  <1> DEFINE status == wk[c].seen.status
  <1>1. /\ wk[c].pc = "template" /\ UNCHANGED <<cfnVars, apiVars>>
        /\ Asking(c) /\ wk \in [CR -> Worker] /\ HasCopy(c)
        /\ ~Fault("getTemplate")
    BY DEF Template, RunInOrder, GaveUp, Asking, UnderWay, TypeOK, Fault,
           ReconcilerTypeOK, HasCopy, Undisturbed
  <1>2. /\ TheStack(c)' = TheStack(c)
        /\ changeSets'[StackOf[c]] = changeSets[StackOf[c]]
        /\ (Resolvable(c)' <=> Resolvable(c))
    BY <1>1 DEF TheStack, cfnVars, apiVars, Resolvable
  <1>3. /\ IsComplete(status) /\ TheStack(c).status = status
        /\ Exists(StackOf[c])
    <2>1. IsComplete(status)
      BY <1>1 DEF RunInOrder, SeenIsTrue
    <2>2. NextStatus(status) = {} /\ status # "NONE"
      BY <2>1 DEF IsComplete, NextStatus
    <2> QED  BY <1>1, <2>1, <2>2 DEF RunInOrder, SeenIsTrue, Exists, TheStack
  <1>4. CASE UpdateStatus(c, "Success", "requeue")
    BY <1>1, <1>4, EndsInOrder
  <1>5. CASE ~RollbackComplete(c) /\ GoTo(c, "create", wk[c].copy)
    <2>1. /\ wk'[c].pc = "create" /\ wk'[c].copy = wk[c].copy
          /\ wk'[c].then = wk[c].then /\ wk'[c].fresh = wk[c].fresh
          /\ wk'[c].seen = wk[c].seen
      BY <1>1, <1>5, GoToIs
    <2>2. SeenIsTrue(c)'
      BY <1>1, <1>2, <1>3, <2>1 DEF SeenIsTrue, Asking, UnderWay
    <2>3. Resolvable(c) => ~IsRollBackComplete(TheStack(c).status)
      <3>1. Coming(c) = obj[c] /\ ~Concluded(c)
        BY <1>1 DEF Coming, Concluded
      <3>2. ThePhase(c) = obj[c].status.phase
        BY <1>1 DEF RunInOrder, UpToDate
      <3>3. Resolvable(c) /\ IsRollBackComplete(TheStack(c).status) =>
              obj[c].status.phase = "InProgress"
        BY <3>1 DEF StackInOrder, RollbackIsExpected, IsRollBackComplete
      <3> QED  BY <1>3, <1>5, <3>2, <3>3 DEF RollbackComplete
    <2>4. Resolvable(c) => changeSets[StackOf[c]] = {}
      BY <1>1 DEF RunInOrder, CreatesAfresh
    <2>5. CreatesAfresh(c)' /\ ReadyIsNamed(c)'
      BY <1>2, <2>1, <2>3, <2>4 DEF CreatesAfresh, ReadyIsNamed
    <2> QED  BY <1>1, <2>1, <2>2, <2>5, AsksInOrder
  <1> QED  BY <1>1, <1>3, <1>4, <1>5 DEF Template

-----------------------------------------------------------------------------
(* A run that does something to the stack.                                 *)

\* The change set that was created is the one the resource is going to name.
LEMMA CreateInOrder ==
  ASSUME Undisturbed, TypeOK, NEW c \in CR, Consistent(c), StackInOrder(c),
         RunInOrder(c), CreateChangeSet(c)
  PROVE  StackInOrder(c)' /\ RunInOrder(c)'
  <1> DEFINE s == StackOf[c]
             n == CHOOSE m \in NewNames : TRUE
             type == ChangeSetType(c)
             phase == IF type = "CREATE" THEN "InProgress"
                                         ELSE "Update InProgress"
             status == TheStack(c).status
  <1>1. /\ wk[c].pc = "create" /\ UNCHANGED apiVars
        /\ Asking(c) /\ wk \in [CR -> Worker] /\ HasCopy(c)
        /\ ~Fault("createChangeSet") /\ s \in Stack
    BY StackOfType
    DEF CreateChangeSet, RunInOrder, GaveUp, Asking, UnderWay, TypeOK, Fault,
        ReconcilerTypeOK, HasCopy, Undisturbed
  <1>2. /\ obj' = obj /\ (Resolvable(c)' <=> Resolvable(c))
        /\ Coming(c) = obj[c] /\ ~Concluded(c)
    BY <1>1 DEF apiVars, Resolvable, Coming, Concluded
  <1>3. /\ wk[c].seen.status = status
        /\ IsComplete(status) \/ status = "NONE"
        /\ type = IF status = "NONE" THEN "CREATE" ELSE "UPDATE"
    <2>1. IsComplete(wk[c].seen.status) \/ wk[c].seen.status = "NONE"
      BY <1>1 DEF RunInOrder, SeenIsTrue
    <2>2. NextStatus(wk[c].seen.status) = {}
      BY <2>1 DEF IsComplete, NextStatus
    <2> QED  BY <1>1, <2>1, <2>2 DEF RunInOrder, SeenIsTrue, ChangeSetType
  <1>4. /\ Provider[TheBody(c)] = Provider[obj[c].spec.body]
        /\ TheBody(c) \in Unresolvable <=> ~Resolvable(c)
        /\ Provider[TheBody(c)].role = "ok"
    BY <1>1, CopyAsks DEF RunInOrder, UpToDate, GaveUp
  <1>5. ASSUME NEW p, NEW then \in {"requeue", "fail"},
               RecordChangeSet(c, n, p, then)
        PROVE  /\ RunInOrder(c)' /\ Coming(c)' = wk'[c].copy
               /\ TheBody(c)' = TheBody(c) /\ Coming(c)'.status.phase = p
               /\ Coming(c)'.status.changeset = n
    <2>1. /\ wk'[c].pc = "update" /\ wk'[c].then = then
          /\ wk'[c].seen = wk[c].seen /\ wk'[c].fresh = wk[c].fresh
          /\ wk'[c].copy.spec = wk[c].copy.spec
          /\ wk'[c].copy.present = wk[c].copy.present
          /\ wk'[c].copy.deleting = wk[c].copy.deleting
          /\ wk'[c].copy.status.phase = p
          /\ wk'[c].copy.status.changeset = n
      BY <1>1, <1>5, RecordChangeSetIs
    <2>2. RunInOrder(c)'
      BY <1>1, <2>1, RunWrites DEF TheBody
    <2> QED  BY <2>1, <2>2 DEF Coming, TheBody
  <1>6. CASE /\ Serves(c, "ok") /\ TakesChangeSet(s, type)
             /\ AddChangeSet(s, n, TheBody(c))
             /\ RecordChangeSet(c, n, phase, "requeue")
    <2> DEFINE new == [name |-> n, status |-> "CREATE_PENDING",
                       body |-> TheBody(c)]
    <2>1. /\ changeSets'[s] = changeSets[s] \cup {new}
          /\ status' = IF status = "NONE" THEN "REVIEW_IN_PROGRESS" ELSE status
          /\ new.name = n
      <3>1. /\ stacks \in [Stack -> StackRecord] /\ stacks[s] \in StackRecord
            /\ changeSets \in [Stack -> SUBSET ChangeSet]
        BY <1>1 DEF TypeOK, CfnTypeOK
      <3> QED  BY <1>1, <1>6, <3>1 DEF AddChangeSet, TheStack, StackRecord
    <2> HIDE DEF new
    <2>2. /\ RunInOrder(c)' /\ Coming(c)' = wk'[c].copy
          /\ Coming(c)'.status.phase = phase
          /\ Coming(c)'.status.changeset = n
      BY <1>5, <1>6
    <2>3. Served(c)'
      BY <1>2, <1>4, <1>6 DEF Served, Serves
    <2>4. StatusIsOwn(c)'
      BY <2>1 DEF StackInOrder, StatusIsOwn
    <2>5. status # "NONE" => Updatable(status) /\ Updatable(status')
      BY <1>3, <1>6, <2>1 DEF TakesChangeSet, TheStack
    <2>6. /\ status = "NONE" => changeSets[s] = {}
          /\ Resolvable(c) => changeSets[s] = {} /\ ~IsRollBackComplete(status)
      <3>1. status = "NONE" => changeSets[s] = {}
        BY DEF StackInOrder, ChangeSetIsNamed, Updatable, IsReviewInProgress
      <3> QED  BY <1>1, <3>1 DEF RunInOrder, CreatesAfresh
    <2>7. ChangeSetIsNamed(c)'
      <3>1. CASE status = "NONE"
        <4>1. changeSets'[s] = {new} /\ IsReviewInProgress(status')
          BY <2>1, <2>6, <3>1 DEF IsReviewInProgress
        <4> QED  BY <2>1, <2>2, <4>1
                 DEF ChangeSetIsNamed, IsReviewInProgress, Updatable
      <3>2. CASE status # "NONE"
        <4>1. Updatable(status') /\ ~IsReviewInProgress(status')
          BY <2>5, <3>2 DEF Updatable, IsReviewInProgress
        <4>2. Resolvable(c)' => changeSets'[s] = {new}
          BY <1>2, <2>1, <2>6
        <4>3. Coming(c)'.status.phase = "Update InProgress"
          BY <1>3, <2>2, <3>2
        <4> QED  BY <2>1, <2>2, <4>1, <4>2, <4>3 DEF ChangeSetIsNamed
      <3> QED  BY <3>1, <3>2
    <2>8. RollbackIsExpected(c)'
      BY <1>2, <2>1, <2>5, <2>6
      DEF StackInOrder, RollbackIsExpected, Updatable, IsRollBackComplete
    <2>9. FailureIsExcused(c)'
      <3>1. phase # "Failure"
        OBVIOUS
      <3>2. IsFailed(status) => IsFailed(status')
        BY <2>1 DEF IsFailed
      <3>3. obj[c].status.phase = "Failure" => Excuse(c, obj[c])'
        BY <1>2, <2>1, <3>2 DEF StackInOrder, FailureIsExcused, Excuse
      <3> QED  BY <1>2, <2>2, <3>1, <3>3 DEF FailureIsExcused
    <2> QED  BY <2>2, <2>3, <2>4, <2>7, <2>8, <2>9 DEF StackInOrder
  <1>7. ASSUME UNCHANGED cfnVars, NEW p, NEW then \in {"requeue", "fail"},
               RecordChangeSet(c, n, p, then), changeSets[s] = {},
               Resolvable(c) => status \in {"NONE", "CREATE_COMPLETE"},
               p = "Failure" => \/ Provider[TheBody(c)].service = "refused"
                                \/ TheBody(c) \in Unresolvable
        PROVE  StackInOrder(c)' /\ RunInOrder(c)'
    <2>1. TheStack(c)' = TheStack(c) /\ changeSets'[s] = {}
      BY <1>7 DEF TheStack, cfnVars
    <2>2. /\ RunInOrder(c)' /\ Coming(c)' = wk'[c].copy
          /\ TheBody(c)' = TheBody(c) /\ Coming(c)'.status.phase = p
      BY <1>5, <1>7
    <2>3. Served(c)' /\ StatusIsOwn(c)'
      BY <1>2, <1>7, <2>1 DEF StackInOrder, Served, StatusIsOwn
    <2>4. ChangeSetIsNamed(c)'
      BY <2>1 DEF ChangeSetIsNamed
    <2>5. RollbackIsExpected(c)'
      BY <1>2, <1>7, <2>1 DEF StackInOrder, RollbackIsExpected
    <2>6. FailureIsExcused(c)'
      <3>1. obj[c].status.phase = "Failure" => Excuse(c, obj[c])'
        BY <1>2, <1>7, <2>1 DEF StackInOrder, FailureIsExcused, Excuse
      <3>2. p = "Failure" => Excuse(c, wk[c].copy)'
        BY <1>7, <2>2 DEF Excuse, TheBody
      <3> QED  BY <1>2, <2>2, <3>1, <3>2 DEF FailureIsExcused
    <2> QED  BY <2>2, <2>3, <2>4, <2>5, <2>6 DEF StackInOrder
  <1>8. CASE /\ UNCHANGED cfnVars /\ ~Serves(c, "ok")
             /\ \/ /\ Serves(c, "none")
                   /\ RecordChangeSet(c, n, phase, "requeue")
                \/ /\ Serves(c, "refused")
                   /\ RecordChangeSet(c, n, "Failure", "fail")
    <2>1. changeSets[s] = {} /\ status \in {"NONE", "CREATE_COMPLETE"}
      BY <1>4, <1>8 DEF StackInOrder, Served, Serves
    <2>2. phase # "Failure"
      OBVIOUS
    <2> HIDE DEF phase, n
    <2> QED  BY <1>7, <1>8, <2>1, <2>2 DEF Serves
  <1>9. CASE /\ UNCHANGED cfnVars /\ ~TakesChangeSet(s, type)
             /\ RecordChangeSet(c, n, "Failure", "fail")
    <2>1. status # "NONE" /\ ~Updatable(status) /\ IsComplete(status)
      BY <1>3, <1>9 DEF TakesChangeSet, TheStack
    <2>2. status = "ROLLBACK_COMPLETE"
      BY <2>1 DEF StackInOrder, StatusIsOwn, Updatable, IsComplete
    <2>3. changeSets[s] = {}
      BY <2>2 DEF StackInOrder, ChangeSetIsNamed, Updatable, IsReviewInProgress
    <2>4. ~Resolvable(c)
      BY <1>1, <2>2 DEF RunInOrder, CreatesAfresh, IsRollBackComplete
    <2> HIDE DEF n
    <2> QED  BY <1>4, <1>7, <1>9, <2>3, <2>4
  <1>10. Serves(c, "none") \/ Serves(c, "refused") => ~Serves(c, "ok")
    BY DEF Serves
  <1> QED  BY <1>1, <1>6, <1>8, <1>9, <1>10 DEF CreateChangeSet

\* Executing a change set leaves none, and a roll back to be expected.
LEMMA ExecuteInOrder ==
  ASSUME Undisturbed, TypeOK, NEW c \in CR, Consistent(c), StackInOrder(c),
         RunInOrder(c), ExecuteChangeSet(c)
  PROVE  StackInOrder(c)' /\ RunInOrder(c)'
  <1> DEFINE s == StackOf[c]
             status == TheStack(c).status
  <1>1. /\ wk[c].pc = "execute" /\ UNCHANGED apiVars
        /\ Asking(c) /\ wk \in [CR -> Worker] /\ HasCopy(c)
        /\ ~Fault("executeChangeSet") /\ s \in Stack
    BY StackOfType
    DEF ExecuteChangeSet, RunInOrder, GaveUp, Asking, UnderWay, TypeOK, Fault,
        ReconcilerTypeOK, HasCopy, Undisturbed
  <1>2. /\ obj' = obj /\ (Resolvable(c)' <=> Resolvable(c))
        /\ Coming(c) = obj[c] /\ ~Concluded(c)
    BY <1>1 DEF apiVars, Resolvable, Coming, Concluded
  <1>3. /\ Ready(s, wk[c].copy.status.changeset) # {}
        /\ IsReviewInProgress(status) \/ Updating(c)
    BY <1>1 DEF RunInOrder, ReadyIsNamed
  <1>4. PICK x \in Ready(s, wk[c].copy.status.changeset) :
          /\ StartExecution(s, x)
          /\ UpdateStatus(c, "InProgress", "requeue")
    BY <1>1, <1>3 DEF ExecuteChangeSet
  <1>5. /\ wk'[c].pc = "update" /\ wk'[c].then = "requeue"
        /\ wk'[c].seen = wk[c].seen /\ wk'[c].fresh = wk[c].fresh
        /\ wk'[c].copy.spec = wk[c].copy.spec
        /\ wk'[c].copy.present = wk[c].copy.present
        /\ wk'[c].copy.deleting = wk[c].copy.deleting
        /\ wk'[c].copy.status.phase = "InProgress"
    BY <1>1, <1>4, UpdateStatusIs
  <1>6. RunInOrder(c)' /\ Coming(c)' = wk'[c].copy
    <2>1. RunInOrder(c)'
      BY <1>1, <1>5, RunWrites DEF TheBody
    <2> QED  BY <1>5, <2>1 DEF Coming
  <1>7. /\ changeSets'[s] = {}
        /\ status' = IF IsReviewInProgress(status) THEN "CREATE_IN_PROGRESS"
                                                   ELSE "UPDATE_IN_PROGRESS"
    <2>1. /\ stacks \in [Stack -> StackRecord] /\ stacks[s] \in StackRecord
          /\ changeSets \in [Stack -> SUBSET ChangeSet]
      BY <1>1 DEF TypeOK, CfnTypeOK
    <2> QED  BY <1>1, <1>4, <2>1 DEF StartExecution, TheStack, StackRecord
  <1>8. x \in changeSets[s] /\ x.status = "CREATE_COMPLETE"
    BY DEF Ready
  <1>9. Served(c)'
    BY <1>2, <1>8 DEF StackInOrder, Served
  <1>10. StatusIsOwn(c)' /\ ChangeSetIsNamed(c)'
    BY <1>7 DEF StatusIsOwn, ChangeSetIsNamed
  <1>11. RollbackIsExpected(c)'
    <2>1. ~Resolvable(c) => ~Updating(c)
      BY <1>1 DEF RunInOrder, GaveUp, Updating
    <2> QED  BY <1>2, <1>3, <1>5, <1>6, <1>7, <2>1 DEF RollbackIsExpected
  <1>12. FailureIsExcused(c)'
    <2> SUFFICES ASSUME obj[c].status.phase = "Failure"
                 PROVE  Excuse(c, obj[c])'
      BY <1>2, <1>5, <1>6 DEF FailureIsExcused
    <2>1. IsReviewInProgress(status)
      BY <1>1, <1>3 DEF RunInOrder, UpToDate, Updating
    <2>2. changeSets[s] = {x} /\ ~IsFailed(status)
      BY <1>8, <2>1
      DEF StackInOrder, ChangeSetIsNamed, IsReviewInProgress, IsFailed
    <2>3. Excuse(c, obj[c])
      BY <1>2 DEF StackInOrder, FailureIsExcused
    <2> QED  BY <1>2, <1>8, <2>2, <2>3 DEF Excuse
  <1> QED  BY <1>6, <1>9, <1>10, <1>11, <1>12 DEF StackInOrder

-----------------------------------------------------------------------------
(* What a run writes.                                                      *)

\* The resource becomes what it was going to be.
LEMMA UpdateInOrder ==
  ASSUME Undisturbed, TypeOK, NEW c \in CR, Consistent(c), StackInOrder(c),
         RunInOrder(c), Update(c)
  PROVE  StackInOrder(c)' /\ RunInOrder(c)'
  <1>1. /\ wk[c].pc = "update" /\ HasCopy(c) /\ UNCHANGED cfnVars
        /\ wk \in [CR -> Worker] /\ ~Fault("update") /\ wk[c].fresh
    BY DEF Update, HasCopy, TypeOK, ReconcilerTypeOK, Fault, Undisturbed,
           RunInOrder, UpToDate
  <1>2. Put(c) /\ Updated(c)
    BY <1>1 DEF Update
  <1>3. obj'[c] = wk[c].copy /\ Coming(c) = wk[c].copy
    BY <1>1, <1>2 DEF Put, Store, TypeOK, ApiTypeOK, apiVars, Coming
  <1>role. Provider[TheBody(c)].role = "ok" \/ wk[c].then = "provider"
    BY <1>1 DEF RunInOrder, UpToDate
  <1>4. /\ wk[c].copy.present /\ ~wk[c].copy.deleting
        /\ Provider[obj'[c].spec.body] = Provider[obj[c].spec.body]
        /\ (Resolvable(c)' <=> Resolvable(c))
    <2>1. /\ Provider[TheBody(c)] = Provider[obj[c].spec.body]
          /\ TheBody(c) \in Unresolvable <=> ~Resolvable(c)
      BY <1>1, CopyAsks DEF RunInOrder
    <2> QED  BY <1>1, <1>3, <2>1 DEF RunInOrder, UpToDate, Resolvable, TheBody
  <1>5. /\ TheStack(c)' = TheStack(c)
        /\ changeSets'[StackOf[c]] = changeSets[StackOf[c]]
    BY <1>1 DEF cfnVars, TheStack
  <1>6. CASE /\ wk[c].then \notin {"provider", "continue"}
             /\ \E again : Return(c, again)
    <2>1. /\ wk'[c].pc = "idle" /\ wk'[c].then = ""
          /\ wk'[c].seen.status = "NONE" /\ ~HasCopy(c)' /\ ~UnderWay(c)'
      <3>1. wk' = [wk EXCEPT ![c] = Idle]
        BY <1>6 DEF Return
      <3>2. wk'[c] = Idle
        BY <1>1, <3>1
      <3>3. Idle.pc = "idle" /\ Idle.then = "" /\ Idle.seen.status = "NONE"
        BY DEF Idle, NothingSeen
      <3> QED  BY <3>2, <3>3 DEF HasCopy, UnderWay
    <2>2. UnderWay(c) /\ Coming(c)' = Coming(c)
      BY <1>1, <1>3, <1>6, <2>1 DEF UnderWay, Coming
    <2>3. Concluded(c) => Concluded(c)'
      BY <2>1, <2>2 DEF Concluded
    <2>4. StackInOrder(c)'
      BY <1>3, <1>4, <1>5, <2>2, <2>3, StackKept
    <2>5. Unasked(c)' /\ UpToDate(c)'
      BY <1>3, <1>4, <2>1 DEF Unasked, UpToDate
    <2>6. SpecIsFinal(c)'
      BY <1>3, <1>4, <2>1, <2>2 DEF RunInOrder, SpecIsFinal
    <2>7. GaveUp(c)' /\ SeenIsTrue(c)' /\ CreatesAfresh(c)' /\ ReadyIsNamed(c)'
      BY <2>1 DEF GaveUp, SeenIsTrue, CreatesAfresh, ReadyIsNamed, Asking
    <2> QED  BY <2>4, <2>5, <2>6, <2>7 DEF RunInOrder
  <1>7. ASSUME NEW pc \in {"session", "describe"}, Resume(c, pc),
               wk[c].then = IF pc = "session" THEN "provider" ELSE "continue"
        PROVE  StackInOrder(c)' /\ RunInOrder(c)'
    <2>1. /\ wk'[c].pc = pc /\ wk'[c].then = ""
          /\ wk'[c].copy = wk[c].copy /\ wk'[c].seen = wk[c].seen
          /\ wk'[c].fresh = wk[c].fresh
      BY <1>1, <1>7, ResumeIs
    <2>2. /\ Coming(c)' = Coming(c) /\ ~Concluded(c) /\ HasCopy(c)'
          /\ ThePhase(c)' = ThePhase(c) /\ TheBody(c)' = TheBody(c)
      BY <1>1, <1>3, <1>7, <2>1
      DEF Coming, Concluded, UnderWay, HasCopy, ThePhase, TheBody
    <2>3. /\ ThePhase(c) = "Failure"
          /\ pc = "describe" => ~Resolvable(c)
      BY <1>7 DEF RunInOrder, GaveUp
    <2>4. StackInOrder(c)'
      BY <1>3, <1>4, <1>5, <2>2, StackKept
    <2>5. Unasked(c)'
      BY <1>3, <1>4 DEF Unasked
    <2>6. UpToDate(c)'
      <3>1. wk'[c].pc = "session" \/ Provider[TheBody(c)].role = "ok"
        BY <1>7, <1>role, <2>1
      <3>2. ThePhase(c)' = obj'[c].status.phase
        BY <1>3, <2>1 DEF ThePhase
      <3> QED  BY <1>1, <1>3, <1>4, <2>1, <2>2, <3>1, <3>2 DEF UpToDate
    <2>7. SpecIsFinal(c)'
      BY <1>3, <1>4, <2>1, <2>2, <2>3
      DEF SpecIsFinal, UnderWay, Ongoing, ThePhase
    <2>8. GaveUp(c)'
      BY <1>4, <2>1, <2>2, <2>3 DEF GaveUp, Asking, UnderWay
    <2>9. SeenIsTrue(c)' /\ CreatesAfresh(c)' /\ ReadyIsNamed(c)'
      BY <1>7, <2>1 DEF RunInOrder, SeenIsTrue, CreatesAfresh, ReadyIsNamed
    <2> QED  BY <2>4, <2>5, <2>6, <2>7, <2>8, <2>9 DEF RunInOrder
  <1> QED  BY <1>2, <1>6, <1>7 DEF Updated

\* What the worker of c does to c.
LEMMA OwnInOrder ==
  ASSUME Undisturbed, TypeOK, NEW c \in CR, Consistent(c), DropsForRole(c),
         StackInOrder(c), RunInOrder(c), Work(c)
  PROVE  StackInOrder(c)' /\ RunInOrder(c)'
  BY GetInOrder, ComplainsInOrder, SessionInOrder, ReferencesInOrder,
     DescribeInOrder, EventsInOrder, ListInOrder, TemplateInOrder,
     CreateInOrder, ExecuteInOrder, UpdateInOrder
  DEF Work, Step

-----------------------------------------------------------------------------
(* What others do to c.                                                    *)

\* A worker has no hand in the stack of another resource.
LEMMA OtherWorkInOrder ==
  ASSUME Separate, TypeOK, NEW c \in CR, NEW d \in CR, c # d,
         StackInOrder(c), RunInOrder(c), Work(d)
  PROVE  StackInOrder(c)' /\ RunInOrder(c)'
  <1>1. wk'[c] = wk[c] /\ obj'[c] = obj[c]
    BY WorkKinds, OthersUntouched
  <1>2. StackOf[c] \in Stack /\ StackOf[c] # StackOf[d]
    BY StackOfType DEF Separate
  <1>3. /\ stacks'[StackOf[c]] = stacks[StackOf[c]]
        /\ changeSets'[StackOf[c]] = changeSets[StackOf[c]]
    BY <1>2, WhoTouchesStacks, CreateTouches, ExecuteTouches,
       WhoTouchesChangeSets
    DEF cfnVars
  <1> QED  BY <1>1, <1>3, NothingHappens DEF TheStack

\* A resource that is new is not known to anybody.
LEMMA SubmitInOrder ==
  ASSUME TypeOK, NEW c \in CR, StackInOrder(c), RunInOrder(c), Submit(c)
  PROVE  StackInOrder(c)' /\ RunInOrder(c)'
  <1>1. PICK b, d : UserWrites(c, Submitted(b, d)) /\ ~obj[c].present
    BY DEF Submit
  <1>2. /\ obj'[c] = Submitted(b, d) /\ UNCHANGED cfnVars
        /\ wk' = [wk EXCEPT ![c].fresh = FALSE]
    BY <1>1 DEF UserWrites, Store, TypeOK, ApiTypeOK
  <1>3. /\ wk'[c].pc = wk[c].pc /\ wk'[c].then = wk[c].then
        /\ wk'[c].seen = wk[c].seen
    BY <1>2 DEF TypeOK, ReconcilerTypeOK, Worker
  <1>4. /\ Submitted(b, d).present /\ ~Submitted(b, d).deleting
        /\ Submitted(b, d).status.phase = ""
    BY DEF Submitted
  <1>5. /\ TheStack(c)' = TheStack(c) /\ changeSets'[StackOf[c]] = {}
        /\ ~HasCopy(c) /\ TheStack(c).status \in {"NONE", "CREATE_COMPLETE"}
    BY <1>1, <1>2 DEF RunInOrder, Unasked, cfnVars, TheStack
  <1>6. /\ ~HasCopy(c)' /\ Coming(c)' = obj'[c]
        /\ wk[c].pc \in {"idle", "get"}
    BY <1>3, <1>5 DEF HasCopy, Coming
  <1>7. Served(c)' /\ StatusIsOwn(c)' /\ ChangeSetIsNamed(c)'
    BY <1>5 DEF Served, StatusIsOwn, ChangeSetIsNamed
  <1>8. RollbackIsExpected(c)'
    BY <1>5 DEF RollbackIsExpected
  <1>9. FailureIsExcused(c)'
    BY <1>2, <1>4, <1>6 DEF FailureIsExcused
  <1>10. Unasked(c)' /\ UpToDate(c)'
    BY <1>2, <1>4, <1>6 DEF Unasked, UpToDate
  <1>11. SpecIsFinal(c)'
    BY <1>2, <1>3, <1>4, <1>6 DEF SpecIsFinal, UnderWay, Ongoing
  <1>12. GaveUp(c)' /\ SeenIsTrue(c)'
    BY <1>3, <1>6 DEF RunInOrder, GaveUp, SeenIsTrue, Asking, UnderWay
  <1>13. CreatesAfresh(c)' /\ ReadyIsNamed(c)'
    BY <1>3, <1>6 DEF CreatesAfresh, ReadyIsNamed
  <1> QED  BY <1>7, <1>8, <1>9, <1>10, <1>11, <1>12, <1>13
           DEF StackInOrder, RunInOrder

\* A worker takes c.
LEMMA StartInOrder ==
  ASSUME TypeOK, NEW c \in CR, Consistent(c), StackInOrder(c), RunInOrder(c),
         Start(c)
  PROVE  StackInOrder(c)' /\ RunInOrder(c)'
  <1>1. /\ wk' = [wk EXCEPT ![c].pc = "get"] /\ UNCHANGED <<cfnVars, apiVars>>
        /\ wk[c].pc = "idle"
    BY DEF Start, Begin, Take, Consistent, ProcessingIsWorking
  <1>2. /\ wk'[c].pc = "get" /\ wk'[c].then = wk[c].then
        /\ wk'[c].seen = wk[c].seen
    BY <1>1 DEF TypeOK, ReconcilerTypeOK, Worker
  <1>3. /\ obj' = obj /\ TheStack(c)' = TheStack(c)
        /\ changeSets'[StackOf[c]] = changeSets[StackOf[c]]
        /\ ~HasCopy(c) /\ ~HasCopy(c)' /\ (Resolvable(c)' <=> Resolvable(c))
        /\ Coming(c)' = Coming(c)
    BY <1>1, <1>2 DEF apiVars, cfnVars, TheStack, HasCopy, Resolvable, Coming
  <1>4. StackInOrder(c)'
    <2>1. Concluded(c) => Concluded(c)'
      BY <1>3 DEF Concluded
    <2> QED  BY <1>3, <2>1, StackKept
  <1>5. Unasked(c)' /\ UpToDate(c)'
    BY <1>3 DEF RunInOrder, Unasked, UpToDate
  <1>6. SpecIsFinal(c)'
    BY <1>2, <1>3 DEF RunInOrder, SpecIsFinal, UnderWay
  <1>7. GaveUp(c)' /\ SeenIsTrue(c)'
    BY <1>1, <1>2 DEF RunInOrder, GaveUp, SeenIsTrue, Asking, UnderWay
  <1>8. CreatesAfresh(c)' /\ ReadyIsNamed(c)'
    BY <1>2 DEF CreatesAfresh, ReadyIsNamed
  <1> QED  BY <1>4, <1>5, <1>6, <1>7, <1>8 DEF RunInOrder

\* The stack of c moves on.
LEMMA StackStepInOrder ==
  ASSUME TypeOK, NEW c \in CR, StackInOrder(c), RunInOrder(c),
         StackStep(StackOf[c]), UNCHANGED <<apiVars, wk>>
  PROVE  StackInOrder(c)' /\ RunInOrder(c)'
  <1> DEFINE status == TheStack(c).status
  <1>1. /\ StackOf[c] \in Stack /\ stacks \in [Stack -> StackRecord]
        /\ TheStack(c) \in StackRecord
    BY StackOfType DEF TypeOK, CfnTypeOK, TheStack
  <1>2. PICK t \in NextStatus(status) :
          stacks' = [stacks EXCEPT ![StackOf[c]] = Moved(@, t)]
    BY DEF StackStep, TheStack
  <1>3. status \notin {"NONE"} /\ NextStatus(status) # {}
    BY DEF NextStatus
  <1>4. t \in NextStatus(status) /\ StatusIsOwn(c)
    BY DEF StackInOrder
  <1>5. t # "NONE"
    BY <1>4 DEF StatusIsOwn, NextStatus
  <1>6. status' = t
    BY <1>1, <1>2, <1>5 DEF TheStack, Moved, StackRecord
  <1>7. /\ changeSets' = changeSets /\ obj' = obj /\ wk' = wk
        /\ Coming(c)' = Coming(c) /\ (Resolvable(c)' <=> Resolvable(c))
        /\ (Concluded(c)' <=> Concluded(c))
    BY DEF StackStep, apiVars, Coming, Resolvable, Concluded, HasCopy, UnderWay
  <1>8. /\ ~Updatable(status) /\ ~IsReviewInProgress(status)
        /\ ~IsFailed(status) /\ ~IsComplete(status)
    BY <1>3 DEF NextStatus, Updatable, IsReviewInProgress, IsFailed, IsComplete
  <1>9. changeSets[StackOf[c]] = {}
    BY <1>8 DEF StackInOrder, ChangeSetIsNamed
  <1>10. Served(c)'
    BY <1>3, <1>7, <1>8 DEF StackInOrder, Served, IsComplete
  <1>11. StatusIsOwn(c)'
    BY <1>4, <1>6 DEF StatusIsOwn, NextStatus
  <1>12. ChangeSetIsNamed(c)'
    BY <1>7, <1>9 DEF ChangeSetIsNamed
  <1>13. RollbackIsExpected(c)'
    <2>1. t \in {"CREATE_IN_PROGRESS", "ROLLBACK_IN_PROGRESS",
                 "ROLLBACK_COMPLETE", "UPDATE_IN_PROGRESS",
                 "UPDATE_ROLLBACK_IN_PROGRESS",
                 "UPDATE_ROLLBACK_COMPLETE_CLEANUP_IN_PROGRESS",
                 "UPDATE_ROLLBACK_COMPLETE"} =>
            status \in {"CREATE_IN_PROGRESS", "ROLLBACK_IN_PROGRESS",
                        "UPDATE_IN_PROGRESS", "UPDATE_ROLLBACK_IN_PROGRESS",
                        "UPDATE_ROLLBACK_COMPLETE_CLEANUP_IN_PROGRESS"}
      BY <1>4 DEF NextStatus
    <2>2. t \in {"UPDATE_IN_PROGRESS", "UPDATE_ROLLBACK_IN_PROGRESS",
                 "UPDATE_ROLLBACK_COMPLETE_CLEANUP_IN_PROGRESS",
                 "UPDATE_ROLLBACK_COMPLETE"} =>
            status \in {"UPDATE_IN_PROGRESS", "UPDATE_ROLLBACK_IN_PROGRESS",
                        "UPDATE_ROLLBACK_COMPLETE_CLEANUP_IN_PROGRESS"}
      BY <1>4 DEF NextStatus
    <2> HIDE DEF status
    <2> QED  BY <1>6, <1>7, <1>9, <2>1, <2>2
             DEF StackInOrder, RollbackIsExpected, status
  <1>14. FailureIsExcused(c)'
    BY <1>7, <1>8, <1>9 DEF StackInOrder, FailureIsExcused, Excuse
  <1>15. Unasked(c)' /\ UpToDate(c)'
    <2>1. obj[c].present
      BY <1>3, <1>8 DEF RunInOrder, Unasked, IsComplete
    <2> QED  BY <1>7, <2>1
             DEF RunInOrder, Unasked, UpToDate, HasCopy, ThePhase, TheBody
  <1>16. SpecIsFinal(c)' /\ GaveUp(c)'
    BY <1>7 DEF RunInOrder, SpecIsFinal, GaveUp, HasCopy, UnderWay, Asking,
                ThePhase
  <1>17. \A seen : NextStatus(seen) = {} => status # seen
    BY <1>3
  <1>18. SeenIsTrue(c)'
    BY <1>7, <1>17 DEF RunInOrder, SeenIsTrue, Updating, ThePhase
  <1>19. wk[c].pc \notin {"create", "execute"}
    <2>1. wk[c].pc # "create"
      <3>1. wk[c].pc = "create" => NextStatus(wk[c].seen.status) = {}
        BY DEF RunInOrder, SeenIsTrue, IsComplete, NextStatus
      <3> QED  BY <1>17, <3>1 DEF RunInOrder, SeenIsTrue
    <2>2. wk[c].pc # "execute"
      BY <1>8 DEF RunInOrder, ReadyIsNamed, Ready, TheStack
    <2> QED  BY <2>1, <2>2
  <1>20. CreatesAfresh(c)' /\ ReadyIsNamed(c)'
    BY <1>7, <1>9, <1>19 DEF CreatesAfresh, ReadyIsNamed
  <1> QED  BY <1>10, <1>11, <1>12, <1>13, <1>14, <1>15, <1>16, <1>18, <1>20
           DEF StackInOrder, RunInOrder

\* A change set of c gets on.
LEMMA ChangeSetStepInOrder ==
  ASSUME TypeOK, NEW c \in CR, StackInOrder(c), RunInOrder(c),
         ChangeSetStep(StackOf[c]), UNCHANGED <<apiVars, wk>>
  PROVE  StackInOrder(c)' /\ RunInOrder(c)'
  <1> DEFINE s == StackOf[c]
  <1>1. /\ s \in Stack /\ changeSets \in [Stack -> SUBSET ChangeSet]
    BY StackOfType DEF TypeOK, CfnTypeOK
  <1>2. PICK x \in changeSets[s], t \in ChangeSetStatus :
          /\ x.status \in {"CREATE_PENDING", "CREATE_IN_PROGRESS"}
          /\ changeSets' = [changeSets EXCEPT ![s] =
               (@ \ {x}) \cup {[x EXCEPT !.status = t]}]
    BY DEF ChangeSetStep, ChangeSetStatus
  <1> DEFINE y == [x EXCEPT !.status = t]
  <1>3. y.name = x.name
    BY <1>1 DEF ChangeSet
  <1>4. changeSets'[s] = (changeSets[s] \ {x}) \cup {y}
    BY <1>1, <1>2
  <1> HIDE DEF y
  <1>5. /\ stacks' = stacks /\ TheStack(c)' = TheStack(c)
        /\ obj' = obj /\ wk' = wk
        /\ Coming(c)' = Coming(c) /\ (Resolvable(c)' <=> Resolvable(c))
        /\ (Concluded(c)' <=> Concluded(c))
    BY DEF ChangeSetStep, apiVars, Coming, Resolvable, Concluded, HasCopy,
           UnderWay, TheStack
  <1>6. changeSets[s] # {} /\ changeSets'[s] # {}
    BY <1>2, <1>4
  <1>7. Served(c)' /\ StatusIsOwn(c)'
    BY <1>5, <1>6 DEF StackInOrder, Served, StatusIsOwn
  <1>8. ChangeSetIsNamed(c)'
    <2>1. \A z : changeSets[s] = {z} => z = x /\ changeSets'[s] = {y}
      BY <1>2, <1>4
    <2> QED  BY <1>3, <1>5, <1>6, <2>1 DEF StackInOrder, ChangeSetIsNamed
  <1>9. RollbackIsExpected(c)'
    BY <1>5, <1>6 DEF StackInOrder, RollbackIsExpected
  <1>10. FailureIsExcused(c)'
    <2>1. \A z \in changeSets[s] : z.status = "FAILED" => z \in changeSets'[s]
      BY <1>2, <1>4
    <2>2. \A o \in {obj[c], Coming(c)} :
            o.status.phase = "Failure" => Excuse(c, o)'
      BY <1>5, <2>1 DEF StackInOrder, FailureIsExcused, Excuse
    <2> QED  BY <1>5, <2>2 DEF FailureIsExcused
  <1>11. Unasked(c)' /\ UpToDate(c)'
    BY <1>5, <1>6 DEF RunInOrder, Unasked, UpToDate, HasCopy, ThePhase, TheBody
  <1>12. SpecIsFinal(c)' /\ GaveUp(c)'
    BY <1>5 DEF RunInOrder, SpecIsFinal, GaveUp, HasCopy, UnderWay, Asking,
                ThePhase
  <1>13. SeenIsTrue(c)'
    BY <1>5 DEF RunInOrder, SeenIsTrue, Updating, ThePhase
  <1>14. CreatesAfresh(c)'
    BY <1>5, <1>6 DEF RunInOrder, CreatesAfresh
  <1>15. ReadyIsNamed(c)'
    <2>1. \A z \in changeSets[s] :
            z.status = "CREATE_COMPLETE" => z \in changeSets'[s]
      BY <1>2, <1>4
    <2>2. \A n : Ready(s, n) # {} => Ready(s, n)' # {}
      BY <1>5, <2>1 DEF Ready
    <2> QED  BY <1>5, <2>2 DEF RunInOrder, ReadyIsNamed, Updating, ThePhase
  <1> QED  BY <1>7, <1>8, <1>9, <1>10, <1>11, <1>12, <1>13, <1>14, <1>15
           DEF StackInOrder, RunInOrder

-----------------------------------------------------------------------------
(* The theorems.                                                           *)

\* No user writes to a resource that is there.
Alone == \A c \in CR : obj[c].present => ~User(c)

\* Order is kept whoever takes the step.
LEMMA OrderStep ==
  ASSUME Undisturbed, TypeOK, Bookkeeping, RoleKnown, Order, [Next]_vars,
         [Alone]_vars
  PROVE  Order'
  <1> SUFFICES ASSUME NEW c \in CR
               PROVE  StackInOrder(c)' /\ RunInOrder(c)'
    BY DEF Order
  <1>c. /\ StackInOrder(c) /\ RunInOrder(c) /\ Consistent(c)
        /\ DropsForRole(c) /\ Separate
    BY DEF Order, Bookkeeping, RoleKnown, Undisturbed
  <1>type. /\ wk \in [CR -> Worker] /\ obj \in [CR -> Object]
           /\ changeSets \in [Stack -> SUBSET ChangeSet]
           /\ stacks \in [Stack -> StackRecord] /\ StackOf[c] \in Stack
    BY StackOfType DEF TypeOK, ReconcilerTypeOK, ApiTypeOK, CfnTypeOK
  <1>nothing. ASSUME wk'[c] = wk[c], obj'[c] = obj[c],
                     stacks'[StackOf[c]] = stacks[StackOf[c]],
                     changeSets'[StackOf[c]] = changeSets[StackOf[c]]
              PROVE  StackInOrder(c)' /\ RunInOrder(c)'
    BY <1>c, <1>nothing, NothingHappens DEF TheStack
  <1>1. ASSUME NEW d \in CR, Work(d)
        PROVE  StackInOrder(c)' /\ RunInOrder(c)'
    <2>1. CASE d = c
      BY <1>c, <1>1, <2>1, OwnInOrder
    <2>2. CASE d # c
      BY <1>c, <1>1, <2>2, OtherWorkInOrder
    <2> QED  BY <2>1, <2>2
  <1>2. ASSUME NEW d \in CR, Submit(d)
        PROVE  StackInOrder(c)' /\ RunInOrder(c)'
    <2>1. CASE d = c
      BY <1>c, <1>2, <2>1, SubmitInOrder
    <2>2. CASE d # c
      BY <1>2, <1>nothing, <1>type, <2>2 DEF Submit, UserWrites, Store, cfnVars
    <2> QED  BY <2>1, <2>2
  <1>3. ASSUME NEW d \in CR, Start(d)
        PROVE  StackInOrder(c)' /\ RunInOrder(c)'
    <2>1. CASE d = c
      BY <1>c, <1>3, <2>1, StartInOrder
    <2>2. CASE d # c
      BY <1>3, <1>nothing, <1>type, <2>2 DEF Start, Begin, cfnVars, apiVars
    <2> QED  BY <2>1, <2>2
  <1>4. ASSUME NEW d \in CR, Timer(d) \/ Event(d) \/ Again(d)
        PROVE  StackInOrder(c)' /\ RunInOrder(c)'
    BY <1>4, <1>nothing
    DEF Timer, Event, Deliver, Again, Resync, apiVars, cfnVars
  <1>5. ASSUME NEW s \in Stack, Aws(s)
        PROVE  StackInOrder(c)' /\ RunInOrder(c)'
    <2>1. UNCHANGED <<apiVars, wk>> /\ (StackStep(s) \/ ChangeSetStep(s))
      BY <1>5 DEF Aws
    <2>2. CASE s = StackOf[c]
      BY <1>c, <2>1, <2>2, StackStepInOrder, ChangeSetStepInOrder
    <2>3. CASE s # StackOf[c]
      <3>1. wk'[c] = wk[c] /\ obj'[c] = obj[c]
        BY <2>1 DEF apiVars
      <3>2. /\ stacks'[StackOf[c]] = stacks[StackOf[c]]
            /\ changeSets'[StackOf[c]] = changeSets[StackOf[c]]
        BY <1>type, <2>1, <2>3 DEF StackStep, ChangeSetStep
      <3> QED  BY <1>nothing, <3>1, <3>2
    <2> QED  BY <2>2, <2>3
  <1>6. \A s \in Stack : ~OperatorDeletesStack(s)
    BY DEF OperatorDeletesStack, Fault, Undisturbed
  <1>7. ~Crash
    BY DEF Crash, Fault, Undisturbed
  <1>8. \A d \in CR : ~Die(d)
    <2>1. \A d \in CR : TheBody(d) \in AnyBody
      BY <1>type DEF TheBody, Worker, Object, StackSpec
    <2> QED  BY <2>1 DEF Die, Undisturbed
  <1>9. CASE UNCHANGED vars
    BY <1>9, <1>nothing DEF vars, cfnVars, apiVars
  <1>10. ASSUME NEW d \in CR, User(d), Alone PROVE Submit(d)
    BY <1>10 DEF Alone, User, Edit, MarkDeleting, Remove
  <1> QED  BY <1>1, <1>2, <1>3, <1>4, <1>5, <1>6, <1>7, <1>8, <1>9, <1>10
           DEF Next

\* At the start there are no resources, and only finished stacks.
LEMMA OrderInit == ASSUME Init PROVE Order
  <1> SUFFICES ASSUME NEW c \in CR PROVE StackInOrder(c) /\ RunInOrder(c)
    BY DEF Order
  <1>1. /\ Idle.pc = "idle" /\ Idle.then = "" /\ Idle.seen.status = "NONE"
        /\ NoObj.status.phase = "" /\ ~NoObj.deleting
    BY DEF Idle, NothingSeen, NoObj, Submitted
  <1>2. wk[c] = Idle /\ obj[c] = NoObj /\ changeSets[StackOf[c]] = {}
    BY StackOfType DEF Init, ReconcilerInit, ApiInit, CfnInit
  <1>3. TheStack(c).status \in {"NONE", "CREATE_COMPLETE"}
    <2>1. StackOf[c] \in Stack
      BY StackOfType
    <2> QED  BY <2>1 DEF Init, CfnInit, TheStack, NoStack, Created
  <1>4. ~HasCopy(c) /\ ~UnderWay(c) /\ Coming(c) = NoObj
    BY <1>1, <1>2 DEF HasCopy, UnderWay, Coming
  <1>5. StackInOrder(c)
    BY <1>1, <1>2, <1>3, <1>4
    DEF StackInOrder, Served, StatusIsOwn, ChangeSetIsNamed,
        RollbackIsExpected, FailureIsExcused
  <1>6. Unasked(c) /\ UpToDate(c) /\ SpecIsFinal(c) /\ GaveUp(c)
    BY <1>1, <1>2, <1>3, <1>4
    DEF Unasked, UpToDate, SpecIsFinal, GaveUp, Asking, Ongoing
  <1>7. SeenIsTrue(c) /\ CreatesAfresh(c) /\ ReadyIsNamed(c)
    BY <1>1, <1>2 DEF SeenIsTrue, CreatesAfresh, ReadyIsNamed
  <1> QED  BY <1>5, <1>6, <1>7 DEF RunInOrder

\* In an Undisturbed deployment, while resources are left alone, each run, its
\* stack, and the change set the resource names are in step at every moment,
\* whoever takes the next turn.
THEOREM OrderHolds ==
  ASSUME Undisturbed PROVE Spec /\ LeftAlone => []Order
  <1>1. Init => RoleKnown /\ Order
    BY InvInit, OrderInit
  <1>2. TypeOK /\ Bookkeeping /\ RoleKnown /\ [Next]_vars => RoleKnown'
    BY RoleKnownStep
  <1>3. TypeOK /\ Bookkeeping /\ RoleKnown /\ Order /\ [Next]_vars
        /\ [Alone]_vars => Order'
    BY OrderStep
  <1>4. LeftAlone => [][Alone]_vars
    BY PTL DEF LeftAlone, Alone
  <1> QED  BY <1>1, <1>2, <1>3, <1>4, TypeCorrect, BookkeepingHolds, PTL
           DEF Spec

\* Where stacks are not shared, the cache has caught up when a run begins, and
\* a fault only ends a run, a resource that nobody edits or deletes executes
\* the change set that it names, and that is ready to be executed then, however
\* the runs, the timers and CloudFormation take their turns.
THEOREM FoundIsReady ==
  ASSUME Undisturbed PROVE Spec /\ LeftAlone => []ReadyToExecute
  <1>1. Order => ReadyToExecute
    BY DEF Order, RunInOrder, ReadyIsNamed, ReadyToExecute
  <1> QED  BY <1>1, OrderHolds, PTL

\* In the same deployments such a resource says Failure only while its stack or
\* a change set of it has failed, or for want of a role, a usable service role
\* or a reference: a delayed or repeated run never makes it up.
THEOREM FailuresAreReal ==
  ASSUME Undisturbed PROVE Spec /\ LeftAlone => []NoSpuriousFailure
  <1>1. Order => NoSpuriousFailure
    BY DEF Order, StackInOrder, FailureIsExcused, Excuse, NoSpuriousFailure
  <1> QED  BY <1>1, OrderHolds, PTL

\* A stack that rolled back has no change set, and gets none.
LEMMA RolledBackRests ==
  ASSUME Undisturbed, TypeOK, Order, [Next]_vars, NEW c \in CR,
         IsRollBackComplete(TheStack(c).status)
  PROVE  changeSets'[StackOf[c]] \subseteq changeSets[StackOf[c]]
  <1> DEFINE s == StackOf[c]
             status == TheStack(c).status
  <1>1. /\ StackInOrder(c) /\ RunInOrder(c) /\ s \in Stack
        /\ changeSets \in [Stack -> SUBSET ChangeSet]
    BY StackOfType DEF Order, TypeOK, CfnTypeOK
  <1>2. /\ status # "NONE"
        /\ ~Resolvable(c) => ~Updatable(status) /\ ~IsReviewInProgress(status)
    BY <1>1 DEF IsRollBackComplete, StackInOrder, RollbackIsExpected, Updatable,
                IsReviewInProgress
  <1>3. changeSets[s] = {}
    BY <1>1, <1>2 DEF IsRollBackComplete, StackInOrder, RollbackIsExpected,
                      ChangeSetIsNamed
  <1>4. CreateChangeSet(c) => UNCHANGED cfnVars
    <2> SUFFICES ASSUME CreateChangeSet(c) PROVE UNCHANGED cfnVars
      OBVIOUS
    <2>1. wk[c].pc = "create"
      BY DEF CreateChangeSet
    <2>2. ~Resolvable(c)
      BY <1>1, <2>1 DEF RunInOrder, CreatesAfresh
    <2>3. wk[c].seen.status # "NONE"
      <3>1. NextStatus("NONE") = {}
        BY DEF NextStatus
      <3> QED  BY <1>1, <1>2, <2>1, <3>1 DEF RunInOrder, SeenIsTrue
    <2>4. ~TakesChangeSet(s, ChangeSetType(c))
      BY <1>2, <2>2, <2>3 DEF ChangeSetType, TakesChangeSet, TheStack
    <2> QED  BY <2>4 DEF CreateChangeSet
  <1>5. ExecuteChangeSet(c) => UNCHANGED cfnVars
    BY <1>3 DEF ExecuteChangeSet, Ready
  <1>6. ASSUME NEW d \in CR, Work(d) PROVE changeSets'[s] = changeSets[s]
    <2>1. StackOf[d] = s => d = c
      BY DEF Undisturbed, Separate
    <2> QED  BY <1>1, <1>4, <1>5, <1>6, <2>1, WhoTouchesChangeSets DEF cfnVars
  <1>7. ASSUME NEW r \in Stack, Aws(r) PROVE changeSets'[s] = changeSets[s]
    <2>1. CASE r = s
      BY <1>3, <1>7, <2>1 DEF Aws, StackStep, ChangeSetStep
    <2>2. CASE r # s
      BY <1>1, <1>7, <2>2 DEF Aws, StackStep, ChangeSetStep
    <2> QED  BY <2>1, <2>2
  <1>8. CASE \A d \in CR : ~Work(d)
    <2>1. \A r \in Stack : ~OperatorDeletesStack(r)
      BY DEF OperatorDeletesStack, Fault, Undisturbed
    <2>2. changeSets'[s] = changeSets[s]
      BY <1>7, <1>8, <2>1
      DEF Next, vars, User, Submit, Edit, MarkDeleting, Remove, UserWrites,
          Start, Begin, Timer, Event, Again, Crash, Die, Restart, cfnVars
    <2> QED  BY <2>2
  <1> QED  BY <1>6, <1>8

\* In the same deployments a body whose stack rolled back is not tried again:
\* the stack gets no further change set, whichever run looks at it next.
THEOREM NotTriedAgain ==
  ASSUME Undisturbed PROVE Spec /\ LeftAlone => NoRepeatAfterRollback
  <1> DEFINE Known == TypeOK /\ Order
             Rests == \A c \in CR :
                        /\ IsRollBackComplete(TheStack(c).status)
                        /\ TheStack(c).target = obj[c].spec.body
                        => changeSets'[StackOf[c]] \subseteq changeSets[StackOf[c]]
  <1>1. TypeOK /\ Order /\ [Next]_vars => Rests
    BY RolledBackRests
  <1>2. Known /\ [Next]_vars => [Rests]_vars
    BY <1>1
  <1> HIDE DEF Known
  <1>3. Spec /\ LeftAlone => []Known
    BY TypeCorrect, OrderHolds, PTL DEF Known
  <1> QED  BY <1>2, <1>3, PTL DEF Spec, NoRepeatAfterRollback

-----------------------------------------------------------------------------
(* What SetAssumeRoleProvider makes of a spec is what is assumed of it.    *)

\* It comes to what Provider may be.
LEMMA OutcomeType ==
  ASSUME NEW p \in AssumeRoleProvider
  PROVE  Outcome(p) \in [role : {"ok", "bad", "panic", "fatal"},
                         complaints : 0 .. 3,
                         service : {"ok", "none", "refused"}]
  <1> DEFINE fields == {"rolearn", "acctnum", "servicerolearn"}
             left == Complaints(p)
  <1>1. left \subseteq fields
    BY DEF Filled, Complaints
  <1>2. IsFiniteSet(fields) /\ Cardinality(fields) = 3
    <2>1. IsFiniteSet({}) /\ Cardinality({}) = 0
      BY FS_EmptySet
    <2>2. IsFiniteSet({"rolearn"}) /\ Cardinality({"rolearn"}) = 1
      BY FS_Singleton
    <2>3. /\ IsFiniteSet({"rolearn"} \cup {"acctnum"})
          /\ Cardinality({"rolearn"} \cup {"acctnum"}) = 2
      BY <2>2, FS_AddElement
    <2>4. fields = ({"rolearn"} \cup {"acctnum"}) \cup {"servicerolearn"}
      OBVIOUS
    <2> QED  BY <2>3, <2>4, FS_AddElement
  <1> HIDE DEF left, fields
  <1>sub. IsFiniteSet(left) /\ Cardinality(left) <= Cardinality(fields)
    BY <1>1, <1>2, FS_Subset
  <1>3. Cardinality(left) \in 0 .. 3
    BY <1>2, <1>sub, FS_CardinalityType
  <1>4. (IF Panics(p) THEN 0 ELSE Cardinality(left)) \in 0 .. 3
    BY <1>3
  <1> QED  BY <1>4 DEF Outcome, left

\* Where there is a role, the account and with it all but the service role can
\* be derived; where a field is missing all the same, it is the service role.
THEOREM RoleLacksService ==
  \A p \in AssumeRoleProvider :
    Outcome(p).role = "ok" /\ Outcome(p).complaints > 0 =>
      Outcome(p).service = "none"
  <1> SUFFICES ASSUME NEW p \in AssumeRoleProvider, Outcome(p).role = "ok",
                      Outcome(p).complaints > 0
               PROVE  Outcome(p).service = "none"
    OBVIOUS
  <1> DEFINE filled == Filled(p)
             left == Complaints(p)
  <1>1. ~Panics(p) /\ filled.rolearn = "given"
    BY DEF Outcome
  <1>2. Cardinality(left) > 0
    BY <1>1 DEF Outcome
  <1>3. left # {}
    <2> HIDE DEF left
    <2> QED  BY <1>2, FS_EmptySet
  <1>4. filled.acctnum # ""
    BY <1>1 DEF Filled, getAccountidFromRoleArn
  <1>5. filled.servicerolearn = ""
    <2>1. DOMAIN filled = {"rolearn", "acctnum", "servicerolearn"}
      BY DEF Filled
    <2> QED  BY <1>1, <1>3, <1>4, <2>1 DEF Complaints
  <1> QED  BY <1>5 DEF Outcome
=============================================================================
