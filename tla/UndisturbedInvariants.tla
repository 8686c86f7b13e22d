------------------------- MODULE UndisturbedInvariants -------------------------
(***************************************************************************)
(* Why nothing goes wrong with a resource that is left alone: what ties a  *)
(* run to its stack and to the change set of it.                           *)
(***************************************************************************)
EXTENDS ControllerInvariants

\* Users only submit, and each resource once.
LeftAlone == [][\A c \in CR : obj[c].present => ~User(c)]_vars

\* What NoSpuriousFailure and its like need besides: stacks are not shared,
\* the cache is current, a fault only ends a run, and no resource takes the
\* process down; a spec that has a role and lacks a field has no service role
\* (Outcome of AssumeRole); and references can be resolved, to something with
\* the same role part and none of them left, or never can.
Undisturbed ==
  /\ Separate /\ SleepCoversLag
  /\ Faults \subseteq {"session", "describeStackEvents"}
  /\ \A b \in AnyBody :
       /\ Provider[b].role # "fatal"
       /\ Provider[b].role = "ok" /\ Provider[b].complaints > 0 =>
            Provider[b].service = "none"
       /\ b \in Unresolvable => Resolutions[b] = {}
       /\ \A r \in Resolutions[b] :
            /\ Provider[r] = Provider[b]
            /\ Resolutions[r] \subseteq {r} /\ r \notin Unresolvable

-----------------------------------------------------------------------------
\* What c is, or will be once its worker has written it.
Coming(c) == IF wk[c].pc = "update" THEN wk[c].copy ELSE obj[c]

Resolvable(c) == obj[c].spec.body \notin Unresolvable

\* The run of c is past its look at the role and the references.
UnderWay(c) ==
  /\ wk[c].pc \notin {"idle", "get", "session", "references"}
  /\ wk[c].then \notin {"provider", "continue"}

\* ... and has not come to its result.
Asking(c) == UnderWay(c) /\ wk[c].pc # "update"

Ongoing == {"InProgress", "Update InProgress"}

\* No run changes this spec any more.
Final(sp) == sp.defaulted /\ Resolutions[sp.body] \subseteq {sp.body}

\* c is settled, or about to be.
Concluded(c) ==
  /\ Settled(Coming(c))
  /\ HasCopy(c) => UnderWay(c) /\ wk[c].pc = "update"

\* Nothing happens for a resource before it is submitted.
Unasked(c) ==
  ~obj[c].present =>
    /\ ~HasCopy(c) /\ changeSets[StackOf[c]] = {}
    /\ TheStack(c).status \in {"NONE", "CREATE_COMPLETE"}
    /\ obj[c].status.phase = ""

\* A copy is the current version, and asks for what the resource asks for.
UpToDate(c) ==
  /\ ~obj[c].deleting
  /\ HasCopy(c) =>
       /\ wk[c].fresh /\ wk[c].copy.present /\ ~wk[c].copy.deleting
       /\ wk[c].pc # "update" =>
            /\ ThePhase(c) = obj[c].status.phase
            /\ wk[c].copy.status.changeset = obj[c].status.changeset
  /\ HasCopy(c) /\ wk[c].pc # "session" /\ wk[c].then # "provider" =>
       Provider[TheBody(c)].role = "ok"

\* A run under way fills in the spec for good: what is Ongoing keeps its spec
\* and its checksum.
SpecIsFinal(c) ==
  Resolvable(c) =>
    /\ wk[c].pc = "references" => wk[c].copy.spec.defaulted
    /\ UnderWay(c) => Final(wk[c].copy.spec)
    /\ obj[c].status.phase \in Ongoing => Final(obj[c].spec)
    /\ HasCopy(c) /\ wk[c].pc # "update" /\ ThePhase(c) \in Ongoing =>
         /\ wk[c].copy.spec = obj[c].spec
         /\ wk[c].copy.status.checksum = Checksum(obj[c].spec)

\* A run that cannot have what it looks for says so; one that goes on without
\* its references does so with a Failure.
GaveUp(c) ==
  /\ wk[c].then \in {"provider", "continue"} =>
       wk[c].pc = "update" /\ ThePhase(c) = "Failure"
  /\ wk[c].then = "continue" => ~Resolvable(c)
  /\ Asking(c) /\ ~Resolvable(c) => ThePhase(c) = "Failure"

\* Only a resource with a role and a service role has change sets, or has made
\* a stack.
Served(c) ==
  \/ changeSets[StackOf[c]] # {}
  \/ TheStack(c).status \notin {"NONE", "CREATE_COMPLETE"}
  => /\ Provider[obj[c].spec.body].role = "ok"
     /\ Provider[obj[c].spec.body].service = "ok"

\* The statuses a stack comes to while nobody deletes or imports it.
StatusIsOwn(c) ==
  TheStack(c).status \in
    {"NONE", "REVIEW_IN_PROGRESS", "CREATE_IN_PROGRESS", "CREATE_FAILED",
     "CREATE_COMPLETE", "ROLLBACK_IN_PROGRESS", "ROLLBACK_FAILED",
     "ROLLBACK_COMPLETE", "UPDATE_IN_PROGRESS",
     "UPDATE_COMPLETE_CLEANUP_IN_PROGRESS", "UPDATE_COMPLETE",
     "UPDATE_ROLLBACK_IN_PROGRESS", "UPDATE_ROLLBACK_FAILED",
     "UPDATE_ROLLBACK_COMPLETE_CLEANUP_IN_PROGRESS",
     "UPDATE_ROLLBACK_COMPLETE"}

\* A stack has change sets only while they can be executed; those of a stack
\* under review, or of a resource that can be deployed, are one, and the one
\* that the resource names.
ChangeSetIsNamed(c) ==
  LET sets == changeSets[StackOf[c]]
      status == TheStack(c).status
  IN
  /\ sets # {} => Updatable(status) \/ IsReviewInProgress(status)
  /\ sets # {} /\ (IsReviewInProgress(status) \/ Resolvable(c)) =>
       \E x \in sets : sets = {x} /\ x.name = Coming(c).status.changeset
  /\ sets # {} /\ Updatable(status) /\ Resolvable(c) =>
       Coming(c).status.phase = "Update InProgress" \/ Concluded(c)

\* A change set is created only where there is none that could be executed, and
\* not after a roll back.
CreatesAfresh(c) ==
  Resolvable(c) =>
    /\ wk[c].pc \in {"template", "create"} => changeSets[StackOf[c]] = {}
    /\ wk[c].pc = "create" => ~IsRollBackComplete(TheStack(c).status)

\* A change set is executed only of a stack under review, or for an update.
ReadyIsNamed(c) ==
  wk[c].pc = "execute" =>
    /\ Ready(StackOf[c], wk[c].copy.status.changeset) # {}
    /\ IsReviewInProgress(TheStack(c).status) \/ Updating(c)

\* What may come to a roll back is known to be in progress until it ended.
RollbackIsExpected(c) ==
  /\ TheStack(c).status \in
       {"CREATE_IN_PROGRESS", "ROLLBACK_IN_PROGRESS", "ROLLBACK_COMPLETE",
        "UPDATE_IN_PROGRESS", "UPDATE_ROLLBACK_IN_PROGRESS",
        "UPDATE_ROLLBACK_COMPLETE_CLEANUP_IN_PROGRESS",
        "UPDATE_ROLLBACK_COMPLETE"} /\ Resolvable(c) =>
       /\ Coming(c).status.phase = "InProgress" \/ Concluded(c)
       /\ changeSets[StackOf[c]] = {}
  /\ ~Resolvable(c) =>
       TheStack(c).status \notin
         {"UPDATE_IN_PROGRESS", "UPDATE_ROLLBACK_IN_PROGRESS",
          "UPDATE_ROLLBACK_COMPLETE_CLEANUP_IN_PROGRESS",
          "UPDATE_ROLLBACK_COMPLETE"}

\* What excuses a Failure of o.
Excuse(c, o) ==
  \/ IsFailed(TheStack(c).status)
  \/ \E x \in changeSets[StackOf[c]] : x.status = "FAILED"
  \/ Provider[o.spec.body].complaints > 0
  \/ Provider[o.spec.body].service = "refused"
  \/ o.spec.body \in Unresolvable

FailureIsExcused(c) ==
  \A o \in {obj[c], Coming(c)} : o.status.phase = "Failure" => Excuse(c, o)

\* What holds of the stack of c, and of the run that has c.
StackInOrder(c) ==
  /\ Served(c) /\ StatusIsOwn(c) /\ ChangeSetIsNamed(c)
  /\ RollbackIsExpected(c) /\ FailureIsExcused(c)

RunInOrder(c) ==
  /\ Unasked(c) /\ UpToDate(c) /\ SpecIsFinal(c) /\ GaveUp(c)
  /\ SeenIsTrue(c) /\ CreatesAfresh(c) /\ ReadyIsNamed(c)

Order == \A c \in CR : StackInOrder(c) /\ RunInOrder(c)
=============================================================================
