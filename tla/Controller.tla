----------------------------- MODULE Controller -----------------------------
(***************************************************************************)
(* The controller at work: MaxParallel workers running Reconcile, the work *)
(* queue and the informer between them and the API server, the users who   *)
(* submit, edit and delete resources, CloudFormation, and restarts.        *)
(***************************************************************************)
EXTENDS Reconciler

CONSTANT MaxEdits      \* how often users write to the API server
ASSUME MaxEditsType == MaxEdits \in Nat

VARIABLE edits         \* the writes of users so far

vars == <<cfnVars, queueVars, apiVars, wk, faults, edits>>

TypeOK ==
  /\ CfnTypeOK /\ QueueTypeOK /\ ApiTypeOK /\ ReconcilerTypeOK
  /\ edits \in 0 .. MaxEdits

Init == CfnInit /\ QueueInit /\ ApiInit /\ ReconcilerInit /\ edits = 0

-----------------------------------------------------------------------------
\* A write of a user makes a copy in the hands of a worker an old version.
UserWrites(c, o) ==
  /\ edits < MaxEdits /\ edits' = edits + 1
  /\ Store(c, o)
  /\ wk' = [wk EXCEPT ![c].fresh = FALSE]
  /\ UNCHANGED <<cfnVars, queueVars, faults>>

Submit(c) ==
  /\ ~obj[c].present
  /\ \E b \in Body : \E d \in BOOLEAN : UserWrites(c, Submitted(b, d))

\* Applying another body keeps the fields the controller filled in.
Edit(c) ==
  /\ obj[c].present
  /\ \E b \in Body \ {obj[c].spec.body} :
       UserWrites(c, [obj[c] EXCEPT !.spec.body = b])

\* A deletion that has to wait for somebody's finalizer, and one that does not
\* or no longer has to.
MarkDeleting(c) ==
  /\ obj[c].present /\ ~obj[c].deleting
  /\ UserWrites(c, [obj[c] EXCEPT !.deleting = TRUE])

Remove(c) == obj[c].present /\ UserWrites(c, NoObj)

User(c) == Submit(c) \/ Edit(c) \/ MarkDeleting(c) \/ Remove(c)

-----------------------------------------------------------------------------
Work(c) == Step(c) /\ UNCHANGED edits

Start(c) == Begin(c) /\ UNCHANGED edits

Timer(c) == TimerFires(c) /\ UNCHANGED <<cfnVars, apiVars, wk, faults, edits>>

Event(c) == Deliver(c) /\ UNCHANGED <<cfnVars, wk, faults, edits>>

Again(c) == Resync(c) /\ UNCHANGED <<cfnVars, wk, faults, edits>>

Aws(s) ==
  /\ StackStep(s) \/ ChangeSetStep(s)
  /\ UNCHANGED <<queueVars, apiVars, wk, faults, edits>>

OperatorDeletesStack(s) ==
  /\ StartDeletion(s) /\ Fault("deleteStack")
  /\ UNCHANGED <<queueVars, apiVars, wk, edits>>

\* The process ends, in the middle of whatever its workers do, and starts.
Restart ==
  /\ Relist
  /\ wk' = [c \in CR |-> Idle]
  /\ UNCHANGED <<cfnVars, edits>>

Crash == Fault("crash") /\ Restart

\* A resource without spec.cloudformation: what SetAssumeRoleProvider and then
\* the handler of its panic dereference is nil, and nobody recovers the second
\* panic.
Die(c) ==
  /\ wk[c].pc = "session" /\ Provider[TheBody(c)].role = "fatal"
  /\ NoFault /\ Restart

Next ==
  \/ \E c \in CR : \/ User(c) \/ Start(c) \/ Work(c) \/ Timer(c)
                   \/ Event(c) \/ Again(c) \/ Die(c)
  \/ \E s \in Stack : Aws(s) \/ OperatorDeletesStack(s)
  \/ Crash

Spec == Init /\ [][Next]_vars

\* Watch events arrive, timers fire, a worker that has a resource goes on, the
\* queue is first in first out, and CloudFormation finishes what it started.
Fairness ==
  /\ \A c \in CR : /\ WF_vars(Event(c)) /\ WF_vars(Timer(c))
                   /\ WF_vars(Work(c) \/ Die(c)) /\ SF_vars(Start(c))
  /\ \A s \in Stack : WF_vars(Aws(s))

FairSpec == Spec /\ Fairness

\* The informer also resyncs, again and again.
ResyncSpec == FairSpec /\ \A c \in CR : WF_vars(Again(c))

-----------------------------------------------------------------------------
\* Nothing is left to do for o: its phase is final and belongs to its spec.
Settled(o) ==
  /\ o.present /\ ~o.deleting
  /\ o.status.phase \in {"Success", "Failure"}
  /\ o.status.checksum = Checksum(o.spec)

Wanted(c) == obj[c].present /\ ~obj[c].deleting

\* c is going to be processed: it is in the queue or will be, or a worker has
\* it, or an event is on its way that puts it there.
Pending(c) == c \in dirty \cup processing \cup delayed \/ watch[c] # <<>>

\* No resource is forgotten: one that is not settled is pending, whatever the
\* order in which its events, its timers, its workers and a restart come.
NoLostWork == \A c \in CR : Wanted(c) /\ ~Settled(obj[c]) => Pending(c)

\* Only users change what is asked for: the controller resolves references in
\* it, and never writes an older spec or a removed resource back.
EditsSurvive ==
  [][edits' = edits =>
       \A c \in CR :
         /\ obj'[c].present = obj[c].present
         /\ obj'[c].spec.body # obj[c].spec.body =>
              obj'[c].spec.body \in Resolutions[obj[c].spec.body]]_vars

\* The controller replaces all references of a resource or none of them, so
\* that no resource is left with some resolved and some not.
ReferencesAtOnce ==
  [][edits' = edits =>
       \A c \in CR :
         obj'[c].spec.body # obj[c].spec.body =>
           \A k \in DOMAIN ParamsOf[obj'[c].spec.body] :
             ~IsReference(ParamsOf[obj'[c].spec.body][k])]_vars

\* A settled resource is left alone until a user writes.
SettledStays ==
  [][edits' = edits =>
       \A c \in CR : Settled(obj[c]) => obj'[c] = obj[c]]_vars

\* No change set is executed on the stack of a settled resource, unless some
\* call failed or the controller was restarted before.
SettledStackStays ==
  [][faults = 0 =>
       \A c \in CR : Settled(obj[c]) =>
         stacks'[StackOf[c]].target = TheStack(c).target]_vars

\* The stack of a resource that says Success is left as it is, be it the
\* Success of a spec that was edited since, until the resource says otherwise.
SuccessfulStackStays ==
  [][\A c \in CR :
       obj[c].status.phase = "Success" =>
         stacks'[StackOf[c]] = TheStack(c)]_vars

\* A stack has what b asks for: its template, and every parameter with the
\* value b gives it.
Has(stack, b) ==
  /\ TemplateOf[stack.body] = TemplateOf[b]
  /\ \A k \in DOMAIN ParamsOf[b] :
       k \in DOMAIN ShownParams[stack.body]
         /\ ShownParams[stack.body][k] = ParamsOf[b][k]

Deployed(c, b) == Has(TheStack(c), b)

\* A resource says Success of its spec only if the stack has what the spec
\* says, its references resolved at some time, or rolled back.
SuccessMeansDeployed ==
  \A c \in CR :
    Settled(obj[c]) /\ obj[c].status.phase = "Success" =>
      \/ \E b \in {obj[c].spec.body} \cup Resolutions[obj[c].spec.body] :
           Deployed(c, b)
      \/ IsRollBackComplete(TheStack(c).status)

\* Unless somebody interferes, Failure means that CloudFormation failed: the
\* stack did, or a change set of it; or the spec has no usable role, or names
\* a stack that may be missing.
NoSpuriousFailure ==
  \A c \in CR :
    obj[c].status.phase = "Failure" =>
      \/ IsFailed(TheStack(c).status)
      \/ \E x \in changeSets[StackOf[c]] : x.status = "FAILED"
      \/ Provider[obj[c].spec.body].complaints > 0
      \/ Provider[obj[c].spec.body].service = "refused"
      \/ obj[c].spec.body \in Unresolvable

\* A change set found to be ready is the one the resource names, so that it is
\* indeed "ready for getting executed".
ReadyToExecute ==
  \A c \in CR :
    wk[c].pc = "execute" => Ready(StackOf[c], wk[c].copy.status.changeset) # {}

\* Once rolled back, the same body is not tried again.
NoRepeatAfterRollback ==
  [][\A c \in CR :
       /\ IsRollBackComplete(TheStack(c).status)
       /\ TheStack(c).target = obj[c].spec.body
       => changeSets'[StackOf[c]] \subseteq changeSets[StackOf[c]]]_vars

\* The role part of b lets the controller come to an end with it: it gets
\* somewhere, or says why not.
Answerable(b) ==
  \/ Provider[b].role = "ok" /\ Provider[b].service # "none"
  \/ Provider[b].role = "bad" /\ Provider[b].complaints > 0

\* Once users stop writing, every resource gets to a phase that is final for
\* the spec it has, and stays there.
EventuallySettled ==
  <>[](\A c \in CR :
         Wanted(c) /\ Answerable(obj[c].spec.body) => Settled(obj[c]))

\* Unless CloudFormation fails, every stack gets to be what is asked for.
AwsFailed ==
  \E s \in Stack : \/ IsFailed(stacks[s].status)
                   \/ IsRollBackComplete(stacks[s].status)
                   \/ \E x \in changeSets[s] : x.status = "FAILED"

\* A role that can be assumed, with a service role, and no reference to a
\* stack that may be missing.
Equipped(b) ==
  Provider[b].role = "ok" /\ Provider[b].service = "ok" /\ b \notin Unresolvable

EventuallyDeployed ==
  []~AwsFailed =>
    <>[](\A c \in CR : Wanted(c) /\ Equipped(obj[c].spec.body) =>
           obj[c].status.phase = "Success" /\ Deployed(c, obj[c].spec.body))

-----------------------------------------------------------------------------
(* What the repository says of the controller, and the code does not do.   *)

\* ValidateORUpdateCheckSum leaves a spec alone because it "was already run":
\* then the stack has it, went for it last, or failed, or a change set does.
AlreadyRun ==
  \A c \in CR :
    Settled(obj[c]) =>
      \/ obj[c].spec.body \in {TheStack(c).body, TheStack(c).target}
      \/ obj[c].spec.body \in {x.body : x \in changeSets[StackOf[c]]}
      \/ IsFailed(TheStack(c).status)

\* docs/cfn_state_handling.md: while its stack is in an intermittent state, a
\* resource is polled during the upcoming reconciliation.
PolledWhileInProgress ==
  \A c \in CR :
    /\ Wanted(c) /\ ~Settled(obj[c])
    /\ IsInProgress(TheStack(c).status)
    => Pending(c)

\* Reconcile "handles the panic inside the controller execution": whatever
\* ends the run of one resource, the runs of the others go on.
RunsEndAlone ==
  [][\A c \in CR :
       wk[c].pc # "idle" /\ wk'[c].pc = "idle" =>
         \A d \in CR \ {c} : wk'[d] = wk[d]]_vars
=============================================================================
