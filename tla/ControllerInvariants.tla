------------------------ MODULE ControllerInvariants ------------------------
(***************************************************************************)
(* Why the controller forgets no resource: what ties the cache, the queue  *)
(* and the workers to the resources at every moment.  NoLostWork alone is  *)
(* not inductive; together with these it is, as long as the deployment is  *)
(* Reliable.                                                               *)
(***************************************************************************)
EXTENDS Controller

\* What NoLostWork needs of the environment.  Where one of these fails
\* Reconcile returns no error and writes nothing, or the worker panics.
Reliable ==
  /\ Faults \cap {"session", "describeStackEvents", "deleteStack"} = {}
  /\ \A b \in AnyBody :
       /\ Provider[b].role # "panic"
       /\ Provider[b].role = "bad" => Provider[b].complaints > 0
       /\ Provider[b].complaints > 0 => "update" \notin Faults

\* The cache ends up with what the server has.
CacheFollows(c) ==
  IF watch[c] = <<>> THEN cache[c] = obj[c]
                     ELSE watch[c][Len(watch[c])] = obj[c]

\* The queue and the workers agree on who is at work.
ProcessingIsWorking(c) == c \in processing <=> wk[c].pc # "idle"

HasCopy(c) == wk[c].pc \notin {"idle", "get"}

\* c will be looked at again, whatever its worker does.
Announced(c) == c \in dirty \/ watch[c] # <<>>

\* A worker goes on only with a resource that has changed since, or one whose
\* last run it cannot repeat without changing it.
HasReason(c) ==
  HasCopy(c) =>
    \/ Announced(c)
    \/ /\ wk[c].fresh
       /\ \/ obj[c].deleting
          \/ ~Terminal(obj[c].status.phase)
          \/ obj[c].status.checksum # wk[c].copy.status.checksum

\* A copy that still is the version the server has asks for the same, its
\* references resolved once "references" is over.
CopyIsFaithful(c) ==
  HasCopy(c) /\ wk[c].fresh =>
    /\ wk[c].copy.present = obj[c].present
    /\ \/ TheBody(c) = obj[c].spec.body
       \/ /\ wk[c].pc \notin {"session", "references"}
          /\ TheBody(c) \in Resolutions[obj[c].spec.body]

\* The cache, the queue, the workers and the resources fit together, whatever
\* order the events, the edits and the restarts come in.
Consistent(c) ==
  CacheFollows(c) /\ ProcessingIsWorking(c) /\ HasReason(c) /\ CopyIsFaithful(c)

Bookkeeping == \A c \in CR : Consistent(c)

\* In a Reliable deployment, a stack that was seen is still there.
StacksStay ==
  /\ \A s \in Stack : stacks[s].status # "DELETE_IN_PROGRESS"
  /\ \A c \in CR : wk[c].pc = "events" => Exists(StackOf[c])

\* A worker that has written a Failure for want of a role, and finds no
\* session, leaves behind a resource that is announced or being deleted.
Complained(c) ==
  wk[c].pc = "session" /\ wk[c].left < Provider[TheBody(c)].complaints =>
    Announced(c) \/ obj[c].deleting

\* SetAssumeRoleProvider, the only one to drop the error of an Update, has
\* written fewer Failures than it has to write.
DropsForRole(c) ==
  LET complaints == Provider[TheBody(c)].complaints
  IN /\ wk[c].pc = "session" => wk[c].left <= complaints
     /\ wk[c].then = "provider" => wk[c].pc = "update" /\ wk[c].left < complaints

\* What is left of a run that looks for a role.
RoleKnown == \A c \in CR : Complained(c) /\ DropsForRole(c)

\* What ReferencesAtOnce needs of the data: what a body resolves to is what
\* FetchReferenceResources makes of it, the other stacks having any of these
\* outputs at the time, and differs in its parameters or not at all.
FetchedFrom(outputs) ==
  \A b \in AnyBody : \A r \in Resolutions[b] :
    /\ ParamsOf[r] = ParamsOf[b] => r = b
    /\ \E o \in outputs : \E f \in FetchReferenceResources(ParamsOf[b], o) :
         f.params = ParamsOf[r]

-----------------------------------------------------------------------------
\* What SettledStays needs of the environment: no run writes a Failure and then
\* goes on to something else.
Steady ==
  /\ Unresolvable = {} /\ "references" \notin Faults
  /\ \A b \in AnyBody : Provider[b].complaints > 0 => Provider[b].role = "bad"

\* Between the first Failure for want of a role and the end of that run.
Complaining(c) ==
  \/ wk[c].pc = "session" /\ wk[c].left < Provider[TheBody(c)].complaints
  \/ wk[c].pc = "update" /\ wk[c].then = "provider"

\* A worker has the current version only of a resource that is not settled, or
\* of one that it settled itself and only repeats.
ActsOnUnsettled(c) ==
  HasCopy(c) /\ wk[c].fresh =>
    \/ ~Settled(obj[c])
    \/ Complaining(c) /\ wk[c].copy = obj[c] /\ ThePhase(c) = "Failure"

\* In a Steady deployment an Update ends its run, or complains of a role.
UpdatesEnd(c) ==
  /\ wk[c].then # "continue"
  /\ wk[c].then = "provider" => ThePhase(c) = "Failure"

LeavesSettled == \A c \in CR : ActsOnUnsettled(c) /\ UpdatesEnd(c)

-----------------------------------------------------------------------------
\* What SuccessMeansDeployed needs of the environment: stacks are not shared nor
\* deleted by operators, the cache is current when a run begins, the checksum
\* tells bodies apart, and a template says which parameters it has.
Separate == \A c, d \in CR : StackOf[c] = StackOf[d] => c = d

NoCollisions ==
  \A p, q \in StackSpec : Checksum(p) = Checksum(q) => p.body = q.body

ParametersFit ==
  \A a, b \in AnyBody :
    TemplateOf[a] = TemplateOf[b] =>
      DOMAIN ParamsOf[a] \subseteq DOMAIN ShownParams[b]

Traceable ==
  /\ Separate /\ "deleteStack" \notin Faults /\ SleepCoversLag
  /\ NoCollisions /\ ParametersFit

\* The stack of c is at rest, and is what a spec with this checksum asks for,
\* or rolled back.
Reached(c, sum) ==
  /\ IsComplete(TheStack(c).status)
  /\ \/ IsRollBackComplete(TheStack(c).status)
     \/ \A sp \in StackSpec :
          Checksum(sp) = sum =>
            \E b \in {sp.body} \cup Resolutions[sp.body] : Deployed(c, b)

\* A Success, written or about to be.
SuccessReached(c) ==
  /\ obj[c].status.phase = "Success" => Reached(c, obj[c].status.checksum)
  /\ wk[c].pc = "update" /\ ThePhase(c) = "Success" =>
       Reached(c, wk[c].copy.status.checksum)

\* The checksum of a copy is that of the spec it was read with.
SumOfCopy(c) ==
  HasCopy(c) =>
    \E sp \in StackSpec :
      /\ wk[c].copy.status.checksum = Checksum(sp)
      /\ \/ TheBody(c) = sp.body
         \/ /\ TheBody(c) \in Resolutions[sp.body]
            /\ wk[c].pc \notin {"session", "references"}
            /\ wk[c].then # "provider"

\* A worker does not execute, nor look for a change set, behind a Success: its
\* copy has the phase that the resource had when the run began.
SuccessRests(c) ==
  obj[c].status.phase = "Success" =>
    /\ wk[c].pc \notin {"list", "execute"}
    /\ HasCopy(c) /\ wk[c].pc # "update" => ThePhase(c) = "Success"
    /\ wk[c].pc = "events" => ~IsReviewInProgress(wk[c].seen.status)

\* A stack found at rest stays so while its worker looks at it.
SeenIsCurrent(c) ==
  /\ wk[c].pc \in {"events", "list", "template"} /\ IsComplete(wk[c].seen.status)
     => /\ TheStack(c).status = wk[c].seen.status
        /\ TheStack(c).body = wk[c].seen.body
  /\ wk[c].pc = "list" => \/ IsComplete(wk[c].seen.status)
                          \/ IsReviewInProgress(wk[c].seen.status)
  /\ wk[c].pc = "template" => IsComplete(wk[c].seen.status)

Honest(c) ==
  SuccessReached(c) /\ SumOfCopy(c) /\ SuccessRests(c) /\ SeenIsCurrent(c)

Honesty == \A c \in CR : Honest(c)

-----------------------------------------------------------------------------
\* What SettledStackStays needs besides: no Failure is written for want of a
\* role or a reference, with which the change set of an earlier edit goes on.
NothingMissing ==
  Unresolvable = {} /\ \A b \in AnyBody : Provider[b].complaints = 0

\* What a run has seen of a stack that does not move by itself is still so.
SeenIsTrue(c) ==
  LET seen == wk[c].seen.status IN
  /\ \/ wk[c].pc \in {"idle", "get", "session", "references", "describe"}
     \/ wk[c].then \in {"provider", "continue"}
     => seen = "NONE"
  /\ wk[c].pc \in {"events", "list", "template", "create"}
     /\ NextStatus(seen) = {} => TheStack(c).status = seen
  /\ wk[c].pc = "list" =>
       IsReviewInProgress(seen) \/ (IsComplete(seen) /\ Updating(c))
  /\ wk[c].pc = "template" => IsComplete(seen)
  /\ wk[c].pc = "create" => IsComplete(seen) \/ seen = "NONE"

\* No change set of this name can be executed any more.
Dead(c, n) ==
  \A x \in changeSets[StackOf[c]] : x.name = n => x.status = "FAILED"

\* A Failure, written or about to be, of a stack that is still under review
\* names a change set that is dead, or not there.
FailureIsDead(c) ==
  IsReviewInProgress(TheStack(c).status) =>
    /\ obj[c].status.phase = "Failure" => Dead(c, obj[c].status.changeset)
    /\ wk[c].pc = "update" /\ ThePhase(c) = "Failure" =>
         Dead(c, wk[c].copy.status.changeset)

\* A worker has the phase and the change set that a Failure has: what users
\* write besides does not touch them.
FailureIsKnown(c) ==
  obj[c].status.phase = "Failure" /\ HasCopy(c) /\ wk[c].pc # "update" =>
    ThePhase(c) = "Failure" /\ wk[c].copy.status.changeset = obj[c].status.changeset

\* A stack under review has one change set, a missing one none, and none is
\* about to disappear.
OneChangeSet(c) ==
  LET sets == changeSets[StackOf[c]] IN
  /\ TheStack(c).status # "DELETE_IN_PROGRESS"
  /\ TheStack(c).status = "NONE" => sets = {}
  /\ IsReviewInProgress(TheStack(c).status) => \A x, y \in sets : x = y

\* A worker executes what is ready, for a stack under review or for an update.
ExecutesReady(c) ==
  wk[c].pc = "execute" =>
    IF IsReviewInProgress(TheStack(c).status)
    THEN \A x \in changeSets[StackOf[c]] : x.status = "CREATE_COMPLETE"
    ELSE Updating(c)

\* A run writes once, at its end.
WritesOnce(c) ==
  /\ wk[c].then \notin {"provider", "continue"}
  /\ wk[c].pc = "session" => wk[c].left = 0

Closed(c) ==
  /\ SeenIsTrue(c) /\ FailureIsDead(c) /\ FailureIsKnown(c)
  /\ OneChangeSet(c) /\ ExecutesReady(c) /\ WritesOnce(c)

\* As long as nothing failed.
Closure == faults = 0 => \A c \in CR : Closed(c)
=============================================================================
