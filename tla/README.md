# Cloudresource-manager in TLA+

The cloudresource-manager is a Kubernetes controller: users submit
`CloudResourceDeployment` resources that hold a CloudFormation template with its
parameters, and the controller makes the CloudFormation stack that each of them
names be what it asks for. This directory models the controller, the work queue
and the informer that drive it, the API server and CloudFormation as far as it
uses them; TLC checks small instances of the whole, and TLAPS proves every safety
property of the passing runs, and that the controller implements what users may count
on (`Promise`), for any instance that meets the hypotheses stated with each theorem.

## 1. The system

| Component | State | Operations | What makes it correct |
|---|---|---|---|
| reconciler (`controllers/cloudresourcedeployment_controller.go`) | none between runs; in a run the copy of the resource it read | `Reconcile`, `ValidateORUpdateCheckSum`, `SetAssumeRoleProvider`, `CheckForRequeue` | every resource settles, no edit is lost, Success means deployed |
| stack validation (`controllers/cloudresourcedeployment_validations.go`) | none | `validateIfStackExistsWithSameName`, the classification of stack statuses | every status has one branch; nothing that rolled back is tried again |
| CloudFormation client (`pkg/awsapi/cloudformation.go`) | none | describe, list, create and execute change sets, get and compare templates, fetch references | the change set executed is the one created for the resource |
| custom resource (`api/v1alpha1`) | spec; status with phase, checksum, change set name | `CalculateChecksum` | the checksum tells one spec from another |
| work queue and informer (vendored client-go and controller-runtime) | items waiting, worked on, delayed; the cache | add, get, done, timer, resync, list | no item is lost; none is worked on twice at once |
| manager (`main.go`) | flags | start, restart | several workers, one replica |
| metrics, manifests, CRD, RBAC, mocks | counters that nothing reads | - | - (not modelled) |

How they interact: a watch event moves the cache on and puts the resource in the
queue; one of `MaxConcurrentReconciles` workers takes it and runs `Reconcile`,
which sleeps, reads the resource from the *cache*, makes a dozen calls to AWS,
writes the *whole* resource back in an `Update` that the API server refuses if
the version is not current, and returns: an error or a `RequeueAfter` bring the
resource back by a timer, anything else ends the matter until the next event or
resync. The `Update` itself produces an event, so most runs are followed by
another one. The stack meanwhile moves on by itself, and the controller learns
of it only by polling.

What is hard in it:

- a run takes many calls, and users edit, delete and resubmit between any two;
- the cache may be older than what the API server has;
- the controller may die between an AWS call and the `Update` that records it;
- the outcome of a deployment is stored with the checksum of whatever spec the
  resource has by then;
- several ends of a run return neither an error nor a requeue, and a panic is
  recovered into such an end, or kills the process when it comes from a missing
  spec;
- `SetAssumeRoleProvider` derives fields from one another and may write to the
  resource three times before the run has begun;
- references are fetched in no order, and any of them may fail;
- two resources may name one stack;
- the queue is shared by the informer, the workers, the loop of the timers and
  the shutdown, with one lock, one condition variable and one bounded channel.

`PROJECT.json` lists these hazards at their lines with the properties that
cover them, and names those that none covers.

## 2. The modules

| Module | Models | Correspondence |
|---|---|---|
| `StackStatus` | the classification of the statuses | one operator per function of the validations file |
| `CloudFormation` | AWS, external | `stacks[s]`: status, body, the body it is moving to; `changeSets[s]`: the active change sets. What it accepts and where it moves follow its documentation and what the code expects of it |
| `WorkQueue` | the queue with its delays | `dirty`, `processing` as in `queue.go`; `delayed` for the heap of `delaying_queue.go` |
| `ApiServer` | resources, cache, watch events | `obj` is the truth, `cache` what the controller reads, `watch` what lies between |
| `Parameters` | parameters as functions from keys to values (`pkg/awsapi`) | `CompareStackParams`, `FetchReferenceResources` and what they call |
| `AssumeRole` | the assume-role part of a spec, field by field | `getRoleArn` and its siblings; `Filled` for the derivations of `SetAssumeRoleProvider`, `Outcome` for what they and `GetTargetAccountSession` amount to |
| `Reconciler` | one run of `Reconcile` | `wk[c]`, one worker per resource being processed; `pc` names the call it is about to make |
| `Controller` | all of it together, with users, an operator and restarts | `Next`, fairness, the properties |
| `ControllerInvariants` | what ties the parts together | the inductive invariants of the proofs and their hypotheses |
| `UndisturbedInvariants` | what ties a run to its stack and its change set while nobody interferes | the same for the theorems about resources that are left alone |
| `Promise` | what users may count on, as an abstract specification | what is asked for, the answer, the stack; `Ask`, `Reply`, `Change` |
| `ControllerPromise` | the refinement mapping from `Controller` to `Promise` | an answer is a phase whose checksum is that of the spec |
| `MCController` | values for the constants | checksums, stack names, roles, references; a body is a name |
| `MCDeployment` | the same with bodies taken apart by `Parameters` and `AssumeRole` | templates with defaults, parameters given, references to outputs that are there or not, role parts; assumes, and so has TLC evaluate, that it meets the hypotheses of the theorems |
| `DelayingQueue` | the queue as client-go builds it, and the workers of controller-runtime | see below |
| `MCDelayingQueue` | its instance | |
| `Adler32` | `CalculateChecksum`, with the sums of `hash/adler32` | `Next` for one byte, `AreSums` for all |
| `ControllerProofs`, `BookkeepingProofs`, `LostWorkProofs`, `SettledProofs`, `DeployedProofs`, `UndisturbedProofs`, `DelayingQueueProofs`, `Adler32Proofs` | the theorems | see section 5 |

`Reconciler` EXTENDS `ApiServer` and `Parameters`; `ApiServer` EXTENDS
`CloudFormation` and `WorkQueue`; `Controller` closes the system. `WorkQueue` is
also an abstract specification by itself (`QueueSpec`), which `DelayingQueue`
implements.

The actions of `Reconciler` follow the calls that leave the process, in the
order `Reconcile` makes them:

| Action | Code |
|---|---|
| `Begin`, `Get` | the worker takes the item; the sleep; the read; `ValidateORUpdateCheckSum` |
| `SetAssumeRoleProvider` | each Failure it writes for want of a field; it goes on after that |
| `Session` | the region; the rest of `SetAssumeRoleProvider`; `GetTargetAccountSession` |
| `References` | `FetchReferenceResources` |
| `Describe`, `Events` | `validateIfStackExistsWithSameName`: `DescribeStacks`, `DescribeStackEvents`, the branch on the status |
| `List` | `ListChangeSets`, for a stack under review or a resource in `Update InProgress` |
| `Template` | `GetTemplate`, `CompareStackParams` |
| `CreateChangeSet`, `ExecuteChangeSet` | the two ends of `CheckForRequeue` |
| `Update` | every `w.Update`, and the return after it |

Everything between two calls touches only the worker's own copy and is part of
the action before it. A phase is one of the five the code writes. All a user
asks for is one value, a *body*, and constants say what it is made of:
`TemplateOf`, `ParamsOf`, `Provider` (what its role part amounts to) and
`Resolutions`; `ShownParams` is what `DescribeStacks` shows of a stack that has
it, the defaults of the template included. `MCDeployment` computes them with the
operators translated from the code; the other runs take plain names. Abstractions
that are sound here:

- `then` says what follows an `Update`: a nil error (the caller polls again), an
  error, a dereference of the template that was not got, the rest of
  `Reconcile`, or an end without a retry (`SetAssumeRoleProvider`).
- The start time that a run writes makes the resource another one, so an
  `Update` is a new version unless the run only repeats its end (`Put`).
- `fresh` stands for the resource version: whether the worker's copy still is
  the version the server has.
- Change set names are uuids. `NewNames` holds those nothing refers to any more,
  so a small set serves; a worker that finds none would wait, and the runs give
  enough of them.
- Of the role part only what it amounts to is told apart: whether a session can
  be had, how many Failures are written first, whether the service role that
  results is usable, refused or none at all. The derived fields are stored with the
  first `Update`; a body stands for the spec with them.
- `CompareStackParams` takes the template from `GetTemplate` as it is by then and
  the parameters as `DescribeStacks` showed them earlier in the run; so does
  `SameBody`.
- The end of a run is one step, `Finish`: `AddAfter` or `AddRateLimited` and then
  `Done`. `DelayingQueue` has them apart.
- Metrics, logs and Kubernetes events are left out.

`DelayingQueue` has one action per critical section or channel operation:

| Action | Code |
|---|---|
| `Inform` | an event handler calls `Add` |
| `Get`, `GetNothing` | the two ways `Type.Get` goes once it has the lock: it takes the first item, or waits for a signal, or ends |
| `Reconcile` | the handler returns; `AddAfter` and `AddRateLimited` first ask whether the queue is shutting down |
| `AddAfter` | the `select` that sends to `waitingForAddCh` or finds `stopCh` closed |
| `Done`, `Until` | `Type.Done` with its signal; the pause of `wait.Until` after an error |
| `ShutDown`, `CloseStopCh` | the two steps of `delayingType.ShutDown` |
| `Top`, `AddReady`, `Select`, `Wake`, `Receive`, `Drained` | `waitingLoop`: a new turn, the heap's ready entries one by one, the `select`, the draining of the channel |
| `Tick` | time passes: an entry in the channel or the heap has one tick less |

`waitingForQueue` and `waitingEntryByData` always hold the same items and are one
function, `heap`, from items to the ticks left.

## 3. The properties

Safety, in `Controller`:

- `NoLostWork`: a resource that is not settled is in the queue, with a worker,
  behind a timer or announced by an event.
- `EditsSurvive`: only users change what is asked for; the controller resolves
  references in it and never writes an older spec back, nor revives a removed
  resource.
- `SettledStays`, `SettledStackStays`: a settled resource is left alone until a user
  writes, and so is its stack as long as nothing failed.
- `SuccessfulStackStays`: nothing happens to the stack of a resource while it says
  Success, be it the Success of a spec that was edited since.
- `SuccessMeansDeployed`: a settled Success has its body (with references
  resolved at some time) on the stack, or the stack rolled back.
- `NoSpuriousFailure`, `ReadyToExecute`, `NoRepeatAfterRollback`: if nobody
  interferes, Failure is CloudFormation's, the change set executed is the one
  the resource names, and a body that rolled back is not tried again.
- `ReferencesAtOnce`: the references of a resource are replaced all together or
  not at all.
- `KeepsPromise` (in `ControllerPromise`): the deployment implements `Promise`.
  Users ask, for one resource at a time, and then count on this: what they ask
  for changes on its own only into a resolution of it; an answer to it stands; a
  Success comes with a stack that meets what was asked for; and such a stack is
  not touched. `asks` counts what users ask, so that a step of the
  controller cannot pass for one of theirs.
- `Bookkeeping`, `Honesty`, `Closure` (in `ControllerInvariants`) and `Order` (in
  `UndisturbedInvariants`): what the parts have to do with one another, see
  section 5.
- In `DelayingQueue`: `QueueWellFormed` (the comment at `Type.queue`, made exact),
  `NeverConcurrent` (the comment at `Controller.worker`), `NoLostWakeup` (while a
  worker waits, others are on their way to all that is queued), `NeverPostponed`
  (delaying an item again does not postpone it) and `ImplementsWorkQueue`.

Liveness: of the queue, `EveryItemTurns`, `TimersFire` and `ShutdownCompletes`; of
the controller, `DocumentedOptionsWork` (the two ways
`docs/filling_assumeroleprovider.md` names to fill in the role part suffice),
`EventuallySettled` (once users stop writing every resource reaches a
final phase for the spec it has and stays there) and `EventuallyDeployed`
(unless CloudFormation fails, the stack gets to be what was asked for).

## 4. The runs

| Run | Question | Instance |
|---|---|---|
| `edits` | Do edits in mid-run make Success lie, or act behind a settled resource? Is a change set that was left behind executed behind a Success? Does all of it implement `Promise`? | 1 resource, 3 user writes, 2 bodies, 1 restart or failing (or unanswered) `CreateChangeSet` |
| `lag` | Does it do without the sleep? | 2 user writes, a cache that lags without limit; references, no role, no spec |
| `faults` | Does one failing call, lost answer or restart lose work? | 2 user writes, 1 fault of a call whose failure is retried, or a restart; references |
| `resyncs` | Does the resync make up for what ends silently? | 1 user write, 1 fault of any kind, a stack deleted by an operator; references that do not resolve, no role, a malformed one, no service role, no spec |
| `quiet` | What does it promise when left alone, and why (`Order`)? | 1 user write, no fault; 9 bodies taken apart, of 2 templates, 4 sets of parameters and references, 7 role parts |
| `queue` | Is the queue of client-go what the model takes it for? | 2 items, 2 workers, a channel with room for 1, delays of 1 tick, a shutdown at any time |
| `sharing` | Do two resources with one stack and one worker get done? | 2 resources that ask for the same body |

The bounds. Two user writes suffice for an edit in the middle of a deployment
and for a removal in it; three for an edit, a removal and a submission again.
One resource per stack is enough where resources do not share one: neither the
queue nor the workers make one of them wait for another, and `OthersUntouched`
in `BookkeepingProofs` shows that a worker's step leaves other resources alone.
One fault is one of ten kinds at any moment of a run. A stack starts missing or
complete with any body. `MaxEdits` and `MaxFaults` bound the counters `edits`
and `faults`; nothing else counts. Deadlock is not checked: once users and
faults have used up their bounds and everything is settled, the system really
stops. `ChangeSetName` bounds the change sets in use at a time: a worker that
finds no name unused waits in `CreateChangeSet`; with the three or four names of
the runs none waits for ever, as the liveness properties show where they are checked.
In `edits` and `lag`, the names and the plain bodies are symmetric: these differ in
nothing but their templates, and the new name `CreateChangeSet` takes is any that nothing refers to.

In `queue`, the channel with room for one entry is full whenever one entry is in
it, which with its capacity of 1000 in the code takes a thousand. Two items with
two workers make each of the hazards happen: an item added while it is worked on,
a signal while nobody waits, both workers at the channel, one that waits and one
that pauses when the queue shuts down. With a delay of one tick an entry may be
received before or after its time, and may meet itself in the heap; that of two
delays the sooner counts needs entries of different age there, which the time an
entry spends in the channel gives. The safety properties were also checked once
with three items and two ticks (five million states), too many for a run.

`SleepCoversLag` is an assumption about time: `Reconcile` sleeps before it
reads, which is what makes the cache current in practice. With it FALSE (`lag`)
nothing is lost or overwritten, but `SettledStackStays` no longer holds: a run
on a stale copy can execute a change set before its `Update` is refused. That
property is therefore checked only in `edits`, and says nothing of what happens after
a fault: when the answer of `CreateChangeSet` is lost, the resource is a Failure, the
change set stays, the run of a later edit finds it ready, and a user who takes the
edit back before it is executed has the very spec of the stored Failure again
while it is. An edit that takes the role away between a change set and its
execution does the same without a fault, and so does one to a role part that lacks
its service role: `NothingMissing` excludes both, and is needed. (With a body of the second
kind in `edits` TLC finds a violation in 23 states and three writes. With one of the
first it takes 31 states and four: submitted, edited to the body without a role, which
is a Failure, edited back, which runs up to the execution, and edited again, which is
the settled Failure while the worker executes.)
`SuccessfulStackStays` is what is left of it in general: behind a *Success* nothing
of the kind happens, and the one fault of `edits` is there to leave change sets
behind. (Three writes and a fault are what it takes to get at one: a deployment that
leaves it, an edit back to what the stack has, another edit.)

`sharing` has one worker for its two resources, so that one has to wait for the
other. With a worker for each, both at the same stack at once, its two properties
were checked once (660 thousand states, too slow for a run); that no work is lost
`NothingIsForgotten` shows for any number of workers and any sharing.

Fairness. Watch events arrive, timers fire, CloudFormation finishes what it
started, and a worker that has a resource goes on (weak fairness of `Event`,
`Timer`, `Aws`, `Work`). `Start` is strongly fair because the queue is a first
in, first out list whose order the model leaves open: with one worker an item
that waits is enabled only when the worker is free, and its turn comes. That is
what `EveryItemTurns` checks of `DelayingQueue`, and `TimersFire` is the weak
fairness of `Timer`.
`ResyncSpec` adds that the informer resyncs again and again
(`defaultResyncTime`, ten hours). No fairness of users, operators or faults.

`DelayingQueue` assumes of Go that its goroutines run (weak fairness of each
worker, of the loop and of `CloseStopCh`), that senders blocked on a channel are
served in the order they came (strong fairness of `AddAfter`), that a `select`
does not pass over a channel that is ready again and again (of `Receive`), and
that time passes (of `Tick`). `Tick` happens only while the loop is in its
`select` or has ended: a tick is long compared with a turn of the loop, as seconds
are. A worker that has taken an item sleeps until the next tick, the five seconds
at the start of `Reconcile`; without it the loop could go on draining a channel that
the workers keep filling for ever.

### What the code does not do

These runs end in a violation, each of a statement of the repository:

- `already_run`: a spec edited while a change set, or an update, of the previous
  one is failing is marked Failure (or Success, once rolled back) with its *own*
  checksum, and is then "already run" although nothing was ever tried for it.
- `ready_to_execute`: the status checked is that of the first change set listed,
  the one executed is the one the resource names. An edit between
  `CreateChangeSet` and the `Update` after it loses the name, and the edited
  spec is marked Failure. A change set of an update that failed stays listed and
  does the same to every later edit.
- `polled_while_in_progress`: one session that cannot be had ends the polling of
  a stack in progress, until the next resync.
- `no_repeat_after_rollback`: after a restart between `ExecuteChangeSet` and the
  `Update` that records it, a body that rolled back is tried again.

- `panic_is_handled`: a resource without `spec.cloudformation` makes the deferred
  handler of panics dereference the nil that caused the panic. The process ends,
  with every other run, and again after each restart.

Also met while modelling, without a run: a `CreateChangeSet` without a service
role returns a nil error and calls nothing, so that the resource is `InProgress`
for ever; two specs may have one checksum (section 5); a stack that rolled back is reported as
Success, which the text of `docs/cfn_state_handling.md` calls Failure and its
table Success; any error of `DescribeStacks` leads to a change set of type CREATE;
a reference that cannot be resolved goes to CloudFormation as it is written; a
new change set is never tried for a stack under review whose first one failed.

## 5. The proofs

| Theorem | Module | Says |
|---|---|---|
| `StatusesPartitioned` | `ControllerProofs` | every stack status is exactly one of complete, in progress, failed |
| `TypeCorrect` | `ControllerProofs` | `Spec => []TypeOK` |
| `BookkeepingHolds` | `BookkeepingProofs` | `Spec => []Bookkeeping` |
| `EditsAreKept` | `BookkeepingProofs` | `Spec => EditsSurvive` |
| `ReferencesGoTogether` | `BookkeepingProofs` | `FetchedFrom(outputs)`, for any `outputs`, implies `Spec => ReferencesAtOnce` |
| `NothingIsForgotten` | `LostWorkProofs` | `Reliable` implies `Spec => []NoLostWork` |
| `SettledIsLeftAlone` | `SettledProofs` | `Steady` implies `Spec => SettledStays` |
| `HonestyHolds` | `DeployedProofs` | `Traceable` implies `Spec => []Honesty` |
| `SuccessIsDeployed` | `DeployedProofs` | `Traceable` implies `Spec => []SuccessMeansDeployed` |
| `SuccessfulStackIsLeftAlone` | `DeployedProofs` | `Traceable` implies `Spec => SuccessfulStackStays` |
| `ClosureHolds` | `DeployedProofs` | `Traceable` and `NothingMissing` imply `Spec => []Closure` |
| `SettledStackIsLeftAlone` | `DeployedProofs` | the same imply `Spec => SettledStackStays` |
| `PromiseIsKept` | `DeployedProofs` | `Traceable` and `Steady` imply `Spec => KeepsPromise`: every behaviour of `Controller` is one of `Promise` |
| `OrderHolds` | `UndisturbedProofs` | `Undisturbed` implies `Spec /\ LeftAlone => []Order` |
| `FoundIsReady` | `UndisturbedProofs` | `Undisturbed` implies `Spec /\ LeftAlone => []ReadyToExecute` |
| `FailuresAreReal` | `UndisturbedProofs` | `Undisturbed` implies `Spec /\ LeftAlone => []NoSpuriousFailure` |
| `NotTriedAgain` | `UndisturbedProofs` | `Undisturbed` implies `Spec /\ LeftAlone => NoRepeatAfterRollback` |
| `RoleLacksService` | `UndisturbedProofs` | a role part that can be used and lacks something lacks the service role |
| `Implements` | `DelayingQueueProofs` | `Spec => ImplementsWorkQueue`: every behaviour of `DelayingQueue` is one of `WorkQueue` |
| `QueueTypes`, `QueueAgrees`, `OneAtATime`, `WakeupsAreKept`, `ComesBackInTime` | `DelayingQueueProofs` | `TypeOK`, `QueueWellFormed`, `NeverConcurrent`, `NoLostWakeup`, `NeverPostponed` |
| `ShortEditsCollide` | `Adler32Proofs` | three bytes in a row changed by +1, -2, +1 leave the checksum of a text of any length as it was |

Those of the controller hold for any sets of resources, stacks, bodies and names and
any number of workers, edits and faults. The assumptions are the named ones of the
modules: types of the constants, `NoBody`, `NoSum` and `NoName` outside their sets,
at least one worker. Beyond that, each theorem has in its statement what it needs:

| Hypothesis | Theorems | Stacks shared | Cache lags | Checksums collide | Faults | Users |
|---|---|---|---|---|---|---|
| none | `TypeCorrect`, `BookkeepingHolds`, `EditsAreKept` | yes | yes | yes | all | any |
| `Reliable` | `NothingIsForgotten` | yes | yes | yes | those that do not end a run silently | any |
| `FetchedFrom` | `ReferencesGoTogether` | yes | yes | yes | all | any |
| `Steady` | `SettledIsLeftAlone` | yes | yes | yes | all but those of references | any |
| `Traceable` | `HonestyHolds`, `SuccessIsDeployed`, `SuccessfulStackIsLeftAlone` | no | no | no | all but a stack deleted underneath | any |
| `Traceable`, `NothingMissing` | `ClosureHolds`, `SettledStackIsLeftAlone` | no | no | no | none before the step | any |
| `Traceable`, `Steady` | `PromiseIsKept` | no | no | no | all but those two | any |
| `Undisturbed`, `LeftAlone` | `OrderHolds`, `FoundIsReady`, `FailuresAreReal`, `NotTriedAgain` | no | no | yes | no session, no events | only submit |

TLC evaluates `Traceable`, `Undisturbed` and `FetchedFrom` for the instance of `quiet`
(`QuietIsUndisturbed`, `QuietFetches`); that of `edits` is Traceable, Steady and has
`NothingMissing`.

`NoLostWork` is not inductive: whether the end of a run may leave the queue
without the resource depends on what the run knew. `Bookkeeping` says that for
every resource

- `CacheFollows`: the last event on its way is what the server has, and without
  one the cache is;
- `ProcessingIsWorking`: the queue has it in `processing` exactly while a worker
  has it;
- `HasReason`: a worker past `Get` holds a resource that is announced again
  already, or whose stored phase and checksum would not have stopped it. This is
  what makes the one silent `Update`, which changes nothing, harmless: it happens
  only to a resource that is being deleted or is announced;
- `CopyIsFaithful`: a copy that is not outdated has the presence and the body of
  the resource, or a resolution of its references.

It is preserved by every step whatever fails. A step of a worker is one of four
kinds (`GoesOn`, `Reads`, `GivesUp`, `Update`); the lemmas `WorkKinds` and
`OthersUntouched` reduce the ten actions of `Reconciler` to these and the other
resources to nothing. `EditsAreKept` follows from `CopyIsFaithful` and the
version check of the server. `ReferencesGoTogether` adds what the data have to
do with it: `FetchedFrom` says that the bodies are resolved by
`FetchReferenceResources`, from the outputs of one time or another, and
`FetchesAtOnce` that this leaves no reference or else the parameters as they were,
for any parameters and any outputs. `NothingIsForgotten` adds `StacksStay` (a stack that
was described is still there when its events are asked for) and `RoleKnown`. The second part of
`RoleKnown`, `Complained`, is what lets a resource without a role be: the run that
finds no session has written a Failure before, and is announced by that. The
hypothesis `Reliable` names the places where `Reconcile` ends silently: no
session, no events of the stack, a stack deleted by an operator, a malformed role
ARN, a role that is refused without a complaint, and a failing `Update` of a
resource whose role part is incomplete. The first of them makes the property fail
in `polled_while_in_progress`.

`SettledIsLeftAlone` rests on `LeavesSettled`: a worker has the current version
only of a resource that is not settled (what `Get` read was current by
`CacheFollows`, and `NotUpdated` would have stopped at it), or of one that its own
first Failure settled and that it only repeats word for word. The hypothesis
`Steady` excludes the two ways in which a run settles a resource and then goes on
to change it: a reference that cannot be fetched writes a Failure and continues,
and a role part that is incomplete but usable (a role without a service role)
writes one and then opens its session. `SettledStays` does not hold there. The
instance of `lag` is Steady; faults other than that of the references, restarts
and the lag of the cache make no difference to the proof.

`SuccessIsDeployed` needs a reason why a Success that was true stays true, with
users, faults and restarts at work. `Traceable` gives each resource its stack and
keeps operators from deleting it, lets the cache catch up before a run begins
(`SleepCoversLag`), and has the checksum tell bodies apart, which Adler-32 does for
the specs in use until two of them collide as in `ShortEditsCollide`. The
invariant is `Honesty`:

- `SuccessReached`: a Success, written or about to be, comes with the checksum of
  something that the stack has, at rest, or the stack rolled back;
- `SumOfCopy`: the checksum in a worker's copy is that of the spec it read, before
  references were resolved in it. With `NoCollisions`, the checksum that is stored
  with a Success therefore leads back to the body that was compared;
- `SuccessRests`: no worker is about to execute, nor looks for, a change set of a
  resource that says Success. Its copy has the phase the resource had when the run
  began, and `List` is reached with the phase Update InProgress or with a stack
  under review, `ExecuteChangeSet` only from there;
- `SeenIsCurrent`: a stack that was found at rest is as it was seen while its
  worker is in `Events`, `List` or `Template`, so that what `CompareStackParams`
  compared is what is deployed. A stack at rest stays so until its own worker
  executes a change set (`AtRestStays`).

A Success after a change set left behind by an earlier run would break
`SuccessRests`: this is why `SuccessfulStackIsLeftAlone` follows from the same
invariant, and `edits` is the run in which such change sets exist.

`SettledStackIsLeftAlone` needs the same behind a Failure, and that is harder: a
Failure says nothing of the stack, and an edit can be taken back, so that the
stored Failure is that of the spec again while a worker is in the middle of the run for
the edit. Nor is the property inductive: it depends on why the Failure was
written. `Closure` has the reasons, as long as no call failed:

- `OneChangeSet`: a stack under review, which only a first change set makes, has no
  other, and a missing stack has none;
- `FailureIsDead`: the Failure of such a stack, written or about to be, names no
  change set that could still be executed;
- `FailureIsKnown`: a worker has the Failure and the name as they are stored, for
  users do not write the status;
- `ExecutesReady`: what is about to be executed is ready, if the stack is under
  review, and is otherwise the update of a phase Update InProgress;
- `SeenIsTrue`, `WritesOnce`: what was seen of a stack at rest is still so; and no run
  writes before its end, which is what `NothingMissing` gives.

A worker that is about to execute behind a Failure holds that Failure itself, so its
phase is not Update InProgress and the stack is under review; the change set it
names would have to be dead and ready at once, and it finds none (`NothingReady`).
Without `NothingMissing` a
Failure is written for want of a role, at any moment of an update or a creation,
and does not mean that the change set is dead (section 4).

`PromiseIsKept` puts these together. The mapping forgets all that users do not see:
runs, queue, cache, change sets, and the phases in between. `OneChanges` says that a step is a write of a
user to one resource, or changes one resource, or one stack; `SuccessIsTrue` that
`SuccessMeansDeployed` is the truth of an answer; and with `EditsAreKept`,
`SettledIsLeftAlone` and `SuccessfulStackIsLeftAlone` each of the three maps to `Ask`, `Reply`
or `Change`, or to a stutter (`StepKeepsPromise`). `Promise` does not say that there
will be an answer; that is `EventuallySettled`, which TLC checks.

`FoundIsReady`, `FailuresAreReal` and `NotTriedAgain` are about what the code does
when nobody interferes, and false otherwise (`ready_to_execute`,
`no_repeat_after_rollback`). `LeftAlone` says of a behaviour that users do no more
than submit; `Undisturbed` keeps the faults to those after which a run just ends,
and asks three things of the bodies: none makes the process end; a role part that
is usable and incomplete has no service role (`RoleLacksService` proves it of every
role part, with the derivations of `SetAssumeRoleProvider`); and references can
either be resolved, all together and for good, or never. A body whose
references sometimes resolve and sometimes not is left out because the run without
them does not compare the stack with the same spec as the run with them, and two change
sets may come of it. The invariant `Order` says for each resource, of its stack
(`StackInOrder`):

- `ChangeSetIsNamed`: a stack has at most one change set that could be executed, and
  the resource names it, or is about to (`Coming` is the resource as its worker will
  have written it);
- `RollbackIsExpected`: while the stack is in, or on its way to, a status that can end in a
  roll back, the phase is InProgress, which is what `RollbackComplete` asks for;
- `FailureIsExcused`, `Served`, `StatusIsOwn`: a Failure has its reason, a resource without
  a role has made nothing, and the statuses are those that come of updates;

and of its run (`RunInOrder`): what was seen of a stack that does not move by
itself is still so (`SeenIsTrue`), a run under way has its spec for good
(`SpecIsFinal`), a change set is created only where there is none (`CreatesAfresh`),
and the one executed is ready (`ReadyIsNamed`). None of the three properties is
inductive: that a name found in the status is that of the ready change set
depends on no other run having created one since, and that on what the phase
said when this run began. `OrderStep` takes each action in a lemma of its own
(`GetInOrder` to `UpdateInOrder`), on top of a few about the shapes a step can have:
a run that goes on (`AsksInOrder`), is about to write (`RunWrites`), settles its
resource without having touched the stack (`EndsInOrder`), or is somebody
else's (`NothingHappens`, `OtherWorkInOrder`).

For the queue, `IInv` joins the types, `QueueWellFormed` and `NeverConcurrent`.
None of the last two is inductive alone: that `Done` may append its item needs
that no other worker has it, and that `Get` hands out an item nobody has needs
that the slice avoids `processing`. `ComesBackInTime` needs it for the heap.
`WakeupsAreKept` adds no more than `NoLostWakeup` itself, in terms of the number
of workers at `Get` (`Looking`): each of the actions changes that number, the
length of the slice or the set of those that wait by one at most, and a signal
wakes one exactly when one waits. The refinement maps `delayed` to the items in
the channel and the heap while the queue is not shutting down, and to none after
that, because `Add` then ignores what a timer brings. Every action maps to one of
`WorkQueue` or to a stutter (`NextMaps`); moving an entry from the channel to the
heap is a stutter, and a ready entry taken from the heap is `TimerFires`.

`ShortEditsCollide` follows the two sums of Adler-32 through the three bytes
(`ThreeBytes`: they come out equal, modulo 65521), and from there on the same
bytes make the same sums (`AgreeFromThereOn`). That last step is an induction over
the length, done as a least counterexample (`Least`), which needs no rule with an
operator for a parameter. It makes the printed specs of a parameter "121" and
"202" collide, and the second is then "already run".

Only model-checked: the liveness properties (TLAPS has no reasoning under
fairness here, nor ENABLED). All safety properties of the passing runs are theorems.
Only proved: `ShortEditsCollide`, because it is about texts of any length,
and `RoleLacksService`, a fact of the operators alone. The first takes the sums of
a text as a function that satisfies `AreSums`; that each text has one is plain (by
recursion) and not proved.

## 6. Not modelled, and what is left

Not modelled:

- metrics, logging, Kubernetes events, flags, leader election (off unless
  configured), RBAC, the CRD schema, generated code and mocks: nothing the
  controller decides depends on them;
- `DeleteStack` and `DescribeChangeSet`, which are never called, and the commented
  out validation of deletions;
- tags: `StackTags` passes them on and nothing compares them;
- the asterisks `DescribeStacks` shows of a NoEcho parameter, which never equal
  the value in the spec, so that the next run asks for an update that changes
  nothing;
- how `%+v` prints a spec: `Adler32` takes any text;
- the informer's delta queue and the rate limiter's arithmetic: a watch event
  arrives some time, a retry comes after some delay;
- time, but for the order of things;
- an edit of the stack name: a resource keeps the stack it has (`StackOf`);
- two resources that want *different* bodies on one stack: the code promises
  nothing for them.

What could come next: the delta queue behind
`Deliver`; references to a stack that another resource deploys.
