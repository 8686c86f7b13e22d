----------------------------- MODULE Reconciler -----------------------------
(***************************************************************************)
(* One run of Reconcile for a custom resource c, one action per call that  *)
(* leaves the process: wk[c] is the state of the worker that has c.        *)
(* A run ends in Return, or in an Update of the resource followed by it.   *)
(***************************************************************************)
EXTENDS ApiServer, Parameters

CONSTANTS
  StackOf,         \* StackOf[c]: the stack name in the spec of c
  Provider,        \* Provider[b]: what the assume-role part of b amounts to
  TemplateOf,      \* TemplateOf[b]: the template of b
  ParamsOf,        \* ParamsOf[b]: the parameters b gives
  ShownParams,     \* ShownParams[b]: those DescribeStacks shows of a stack
                   \*   with body b, the defaults of its template included
  Resolutions,     \* Resolutions[b]: what b can be with its references
                   \*   resolved; {} for a body without references
  Unresolvable,    \* bodies with references to stacks that may not be there
  SleepCoversLag,  \* is the sleep of Reconcile longer than the cache lags?
  Faults,          \* the calls that may fail out of the blue
  MaxFaults        \* how many of them do

ASSUME StackOfType == StackOf \in [CR -> Stack]
ASSUME ProviderType ==
  Provider \in [AnyBody -> [role : {"ok", "bad", "panic", "fatal"},
                           complaints : 0 .. 3,
                           service : {"ok", "none", "refused"}]]
ASSUME ResolutionsType == Resolutions \in [AnyBody -> SUBSET Body]
ASSUME UnresolvableType == Unresolvable \subseteq AnyBody
ASSUME NoNameIsNoName == NoName \notin ChangeSetName
ASSUME SleepCoversLagType == SleepCoversLag \in BOOLEAN
ASSUME MaxFaultsType == MaxFaults \in Nat

VARIABLES
  wk,              \* wk[c]: the worker that has c
  faults           \* the faults so far

Pc == {"idle", "get", "session", "references", "describe", "events", "list",
       "template", "create", "execute", "update"}

\* What follows an Update: a nil error (the caller polls again), an error
\* (retried), a nil dereference, the rest of Reconcile, or the rest of
\* SetAssumeRoleProvider.
Then == {"", "requeue", "fail", "panic", "continue", "provider"}

\* copy is the resource in the worker's hands, fresh whether it still is the
\* version the server has, left the number of Failures SetAssumeRoleProvider
\* still has to write, seen the output of DescribeStacks.
Worker == [pc : Pc, copy : Object, fresh : BOOLEAN, left : 0 .. 3,
           seen : [status : StackStatuses \cup {"NONE"},
                   body : AnyBody],
           then : Then]

NothingSeen == [status |-> "NONE", body |-> NoBody]

Idle == [pc |-> "idle", copy |-> NoObj, fresh |-> FALSE, left |-> 0,
         seen |-> NothingSeen, then |-> ""]

ReconcilerTypeOK == wk \in [CR -> Worker] /\ faults \in 0 .. MaxFaults

ReconcilerInit == wk = [c \in CR |-> Idle] /\ faults = 0

-----------------------------------------------------------------------------
\* A call fails for a reason of its own, or does not.
Fault(f) == f \in Faults /\ faults < MaxFaults /\ faults' = faults + 1
NoFault == UNCHANGED faults

TheStack(c) == stacks[StackOf[c]]
TheBody(c) == wk[c].copy.spec.body
ThePhase(c) == wk[c].copy.status.phase

\* Go on at pc with the copy o.
GoTo(c, pc, o) == wk' = [wk EXCEPT ![c].pc = pc, ![c].copy = o]

\* A mutant of UpdateStatus, with another word for Failure.
UpdateStatusMisspelled(c, phase, then) ==
  wk' = [wk EXCEPT ![c].pc = "update", ![c].then = then,
    ![c].copy.status.phase = IF phase = "Failure" THEN "Failed" ELSE phase]

\* Set the phase in the copy and write it back; "then" comes next.
UpdateStatus(c, phase, then) ==
  wk' = [wk EXCEPT ![c].pc = "update", ![c].copy.status.phase = phase,
                   ![c].then = then]

\* Reconcile returns; an error and a RequeueAfter both bring c back.
Return(c, again) ==
  /\ wk' = [wk EXCEPT ![c] = Idle]
  /\ Finish(c, again)

\* What every step but the last one of a run leaves alone.
Inside == UNCHANGED queueVars

\* IsValidState
Terminal(phase) == phase \in {"Success", "Failure"}

\* A mutant of NotUpdated, for which Failure is not final.
NotUpdatedSuccess(o) ==
  /\ o.status.checksum = Checksum(o.spec)
  /\ o.status.phase = "Success"
  /\ ~o.deleting

\* ValidateORUpdateCheckSum returns "NotUpdated"
NotUpdated(o) ==
  /\ o.status.checksum = Checksum(o.spec)
  /\ Terminal(o.status.phase)
  /\ ~o.deleting

-----------------------------------------------------------------------------
\* A free worker takes c and sleeps.
Begin(c) ==
  /\ Take(c)
  /\ wk' = [wk EXCEPT ![c].pc = "get"]
  /\ UNCHANGED <<cfnVars, apiVars, faults>>

\* Set the new checksum in the copy of the worker.
Hold(c, o) ==
  wk' = [wk EXCEPT ![c].pc = "session",
                   ![c].copy = [o EXCEPT !.status.checksum = Checksum(o.spec)],
                   ![c].fresh = watch[c] = <<>>,
                   ![c].left = Provider[o.spec.body].complaints]

\* Read the resource from the cache; stop at one that is gone or was run
\* already.
Get(c) ==
  LET o == cache[c] IN
  /\ wk[c].pc = "get"
  /\ SleepCoversLag => watch[c] = <<>>
  /\ IF ~o.present \/ NotUpdated(o)
     THEN Return(c, FALSE)
     ELSE Hold(c, o) /\ Inside
  /\ NoFault
  /\ UNCHANGED <<cfnVars, apiVars>>

\* SetAssumeRoleProvider cannot derive a field of the assume-role part, and
\* says so in an Update; it goes on with the field empty.  Before the first of
\* these it fills in the region, if that is left out.
SetAssumeRoleProvider(c) ==
  LET before == wk[c].copy.spec.defaulted
      first == wk[c].left = Provider[TheBody(c)].complaints
      Said(d) == [wk[c].copy EXCEPT !.spec.defaulted = d,
                                    !.status.phase = "Failure"]
  IN
  /\ wk[c].pc = "session" /\ wk[c].left > 0
  /\ \E d \in {before} \cup IF first THEN {TRUE} ELSE {} :
       wk' = [wk EXCEPT ![c] = [@ EXCEPT
                !.pc = "update", !.left = wk[c].left - 1, !.then = "provider",
                !.copy = Said(d)]]
  /\ NoFault /\ Inside
  /\ UNCHANGED <<cfnVars, apiVars>>

HasReferences(b) == Resolutions[b] # {} \/ b \in Unresolvable

\* The rest of it, and GetTargetAccountSession: without a region, at the
\* start, or without a session, at the end, the run is over.
Session(c) ==
  LET filled == [wk[c].copy EXCEPT !.spec.defaulted = TRUE]
      provider == Provider[TheBody(c)]
      next == IF HasReferences(TheBody(c)) THEN "references" ELSE "describe"
  IN
  /\ wk[c].pc = "session" /\ provider.role # "fatal"
  /\ \/ wk[c].left = 0 /\ provider.role = "ok" /\ NoFault
        /\ GoTo(c, next, filled) /\ Inside
     \/ wk[c].left = 0 /\ provider.role \in {"bad", "panic"} /\ NoFault
        /\ Return(c, FALSE)
     \/ wk[c].left \in {0, provider.complaints} /\ Fault("session")
        /\ Return(c, FALSE)
  /\ UNCHANGED <<cfnVars, apiVars>>

\* FetchReferenceResources: an error is written to the resource and the run
\* goes on; an output the reference stack does not have changes nothing.
References(c) ==
  /\ wk[c].pc = "references"
  /\ \/ /\ NoFault
        /\ \E b \in Resolutions[TheBody(c)] :
             GoTo(c, "describe", [wk[c].copy EXCEPT !.spec.body = b])
     \/ /\ Fault("references") \/ (TheBody(c) \in Unresolvable /\ NoFault)
        /\ UpdateStatus(c, "Failure", "continue")
     \/ Fault("references") /\ GoTo(c, "describe", wk[c].copy)
  /\ Inside
  /\ UNCHANGED <<cfnVars, apiVars>>

\* DescribeStacks: a stack that does not exist and an error other than the
\* ValidationError that says so both end in creating it.
Describe(c) ==
  /\ wk[c].pc = "describe"
  /\ \/ /\ Exists(StackOf[c]) /\ NoFault
        /\ wk' = [wk EXCEPT ![c].pc = "events", ![c].seen =
             [status |-> TheStack(c).status, body |-> TheStack(c).body]]
     \/ ~Exists(StackOf[c]) /\ NoFault /\ GoTo(c, "create", wk[c].copy)
     \/ Fault("describeStacks") /\ GoTo(c, "create", wk[c].copy)
  /\ Inside
  /\ UNCHANGED <<cfnVars, apiVars>>

\* A mutant of Updating, which also looks for change sets behind a Success.
UpdatingOrDone(c) == ThePhase(c) \in {"Update InProgress", "Success"}

\* An update is under way, whose change set is to be looked for.
Updating(c) == ThePhase(c) = "Update InProgress"

\* DescribeStackEvents, and what the status seen means for this run.
Events(c) ==
  LET status == wk[c].seen.status IN
  /\ wk[c].pc = "events"
  /\ \/ Fault("describeStackEvents") /\ Return(c, FALSE)
     \/ ~Exists(StackOf[c]) /\ NoFault /\ Return(c, FALSE)
     \/ /\ Exists(StackOf[c]) /\ NoFault
        /\ \/ /\ IsComplete(status) /\ Inside
              /\ GoTo(c, IF Updating(c) THEN "list" ELSE "template", wk[c].copy)
           \/ /\ IsReviewInProgress(status) /\ Inside
              /\ GoTo(c, "list", wk[c].copy)
           \/ /\ IsInProgress(status) /\ ~IsReviewInProgress(status)
              /\ Return(c, TRUE)
           \/ /\ IsFailed(status) /\ Inside
              /\ UpdateStatus(c, "Failure", "fail")
  /\ UNCHANGED <<cfnVars, apiVars>>

\* A mutant of List, which takes a change set that is not ready yet, or is not
\* to be had, for one that failed.
ListOnce(c) ==
  /\ wk[c].pc = "list"
  /\ NoFault \/ Fault("listChangeSets")
  /\ IF \E x \in changeSets[StackOf[c]] : x.status = "CREATE_COMPLETE"
     THEN GoTo(c, "execute", wk[c].copy)
     ELSE UpdateStatus(c, "Failure", "fail")
  /\ Inside
  /\ UNCHANGED <<cfnVars, apiVars>>

\* ListChangeSets: the first change set listed, whichever that is, decides;
\* without any, a stack under review is polled again and another compared.
List(c) ==
  /\ wk[c].pc = "list"
  /\ \/ /\ Fault("listChangeSets") \/ (~Exists(StackOf[c]) /\ NoFault)
        /\ UpdateStatus(c, "Failure", "fail") /\ Inside
     \/ /\ Exists(StackOf[c]) /\ NoFault
        /\ changeSets[StackOf[c]] = {}
        /\ IF IsReviewInProgress(wk[c].seen.status)
           THEN Return(c, TRUE)
           ELSE GoTo(c, "template", wk[c].copy) /\ Inside
     \/ /\ Exists(StackOf[c]) /\ NoFault
        /\ \E x \in changeSets[StackOf[c]] :
             CASE x.status = "CREATE_COMPLETE" ->
                    GoTo(c, "execute", wk[c].copy) /\ Inside
               [] x.status = "FAILED" ->
                    UpdateStatus(c, "Failure", "fail") /\ Inside
               [] OTHER -> Return(c, TRUE)
  /\ UNCHANGED <<cfnVars, apiVars>>

\* The template is the one GetTemplate has just got, the parameters are those
\* that came with DescribeStacks.
SameBody(c) ==
  /\ TemplateOf[TheStack(c).body] = TemplateOf[TheBody(c)]
  /\ CompareStackParams(ShownParams[wk[c].seen.body], ParamsOf[TheBody(c)])

\* Two mutants of RollbackComplete: one that takes any complete stack for one
\* that rolled back, and one that looks for the wrong phase.
RollbackCompleteAlways(c) == ThePhase(c) = "InProgress"
RollbackCompleteUpdating(c) ==
  Updating(c) /\ IsRollBackComplete(wk[c].seen.status)

\* What a run may take for the end of a roll back of its own.
RollbackComplete(c) ==
  ThePhase(c) = "InProgress" /\ IsRollBackComplete(wk[c].seen.status)

\* GetTemplate: the stack is what the resource asks for, or rolled back, or
\* has to be updated; an error is written to the resource and dereferenced.
Template(c) ==
  /\ wk[c].pc = "template"
  /\ \/ /\ Fault("getTemplate") \/ (~Exists(StackOf[c]) /\ NoFault)
        /\ UpdateStatus(c, "Failure", "panic")
     \/ /\ Exists(StackOf[c]) /\ NoFault
        /\ IF SameBody(c) \/ RollbackComplete(c)
           THEN UpdateStatus(c, "Success", "requeue")
           ELSE GoTo(c, "create", wk[c].copy)
  /\ Inside
  /\ UNCHANGED <<cfnVars, apiVars>>

-----------------------------------------------------------------------------
\* Change set names are uuids: a new one is one that nothing refers to.
InUse(n) ==
  \/ \E s \in Stack : \E x \in changeSets[s] : x.name = n
  \/ \E c \in CR : \/ n \in {obj[c].status.changeset, cache[c].status.changeset,
                            wk[c].copy.status.changeset}
                   \/ \E i \in DOMAIN watch[c] : n = watch[c][i].status.changeset

NewNames == {n \in ChangeSetName : ~InUse(n)}

\* A mutant of ChangeSetType, which only knows how to create.
ChangeSetTypeCreate(c) == "CREATE"

ChangeSetType(c) == IF wk[c].seen.status = "NONE" THEN "CREATE" ELSE "UPDATE"

\* A mutant of RecordChangeSet, which forgets the name.
RecordPhase(c, n, phase, then) == UpdateStatus(c, phase, then)

\* The name goes into the status before the outcome is known.
RecordChangeSet(c, n, phase, then) ==
  wk' = [wk EXCEPT ![c].pc = "update", ![c].then = then,
                   ![c].copy.status = [@ EXCEPT !.phase = phase,
                                                !.changeset = n]]

\* CreateChangeSet looks at the service role first.
Serves(c, service) == Provider[TheBody(c)].service = service

\* CreateChangeSet is accepted, or refused, or accepted while the answer gets
\* lost.  Without a service role it returns a nil error and does nothing.
CreateChangeSet(c) ==
  LET s == StackOf[c]
      n == CHOOSE m \in NewNames : TRUE
      type == ChangeSetType(c)
      phase == IF type = "CREATE" THEN "InProgress" ELSE "Update InProgress"
      Accepted == /\ Serves(c, "ok") /\ TakesChangeSet(s, type)
                  /\ AddChangeSet(s, n, TheBody(c))
      Refused == \/ Serves(c, "refused")
                 \/ Serves(c, "ok") /\ ~TakesChangeSet(s, type)
  IN
  /\ wk[c].pc = "create"
  /\ NewNames # {}
  /\ \/ Accepted /\ NoFault /\ RecordChangeSet(c, n, phase, "requeue")
     \/ /\ Serves(c, "none") /\ UNCHANGED cfnVars /\ NoFault
        /\ RecordChangeSet(c, n, phase, "requeue")
     \/ /\ (Refused /\ NoFault) \/ (Serves(c, "ok") /\ Fault("createChangeSet"))
        /\ UNCHANGED cfnVars
        /\ RecordChangeSet(c, n, "Failure", "fail")
     \/ /\ Accepted /\ Fault("createChangeSet")
        /\ RecordChangeSet(c, n, "Failure", "fail")
  /\ Inside
  /\ UNCHANGED apiVars

\* ExecuteChangeSet, of the change set the resource names.
ExecuteChangeSet(c) ==
  LET s == StackOf[c]
      ready == Ready(s, wk[c].copy.status.changeset)
  IN
  /\ wk[c].pc = "execute"
  /\ \/ /\ \E x \in ready : StartExecution(s, x)
        /\ NoFault /\ UpdateStatus(c, "InProgress", "requeue")
     \/ /\ Fault("executeChangeSet") \/ (ready = {} /\ NoFault)
        /\ UpdateStatus(c, "Failure", "fail") /\ UNCHANGED cfnVars
     \/ /\ \E x \in ready : StartExecution(s, x)
        /\ Fault("executeChangeSet") /\ UpdateStatus(c, "Failure", "fail")
  /\ Inside
  /\ UNCHANGED apiVars

-----------------------------------------------------------------------------
\* An Update makes a new version, unless it repeats the end of a run word for
\* word; its message and its start time are not in the model.
Put(c) ==
  \/ Store(c, wk[c].copy)
  \/ wk[c].copy = obj[c] /\ Terminal(ThePhase(c)) /\ UNCHANGED apiVars

\* A run goes on after an Update.
Resume(c, pc) ==
  wk' = [wk EXCEPT ![c].pc = pc, ![c].then = ""] /\ Inside

\* After the Update of a step was done.
Updated(c) ==
  CASE wk[c].then = "continue" -> Resume(c, "describe")
    [] wk[c].then = "provider" -> Resume(c, "session")
    [] OTHER -> Return(c, wk[c].then \in {"requeue", "fail"})

\* A mutant of Update: the server takes it for any version.
UpdateAnyVersion(c) ==
  /\ wk[c].pc = "update"
  /\ NoFault /\ Put(c) /\ Updated(c)
  /\ UNCHANGED cfnVars

\* w.Update: the server takes it only for its current version of c.  An error
\* ends the run; in SetAssumeRoleProvider it is not even retried.
Update(c) ==
  /\ wk[c].pc = "update"
  /\ \/ wk[c].fresh /\ NoFault /\ Put(c) /\ Updated(c)
     \/ /\ Fault("update") \/ (~wk[c].fresh /\ NoFault)
        /\ UNCHANGED apiVars /\ Return(c, wk[c].then # "provider")
     \/ /\ wk[c].fresh /\ Fault("update")
        /\ Put(c) /\ Return(c, wk[c].then # "provider")
  /\ UNCHANGED cfnVars

\* One step of the worker that has c.
Step(c) ==
  \/ Get(c) \/ SetAssumeRoleProvider(c) \/ Session(c) \/ References(c)
  \/ Describe(c) \/ Events(c) \/ List(c) \/ Template(c)
  \/ CreateChangeSet(c) \/ ExecuteChangeSet(c) \/ Update(c)
=============================================================================
