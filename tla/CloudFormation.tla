--------------------------- MODULE CloudFormation ---------------------------
(***************************************************************************)
(* AWS CloudFormation as the controller uses it through pkg/awsapi: stacks *)
(* that are created and updated only by executing change sets, a service   *)
(* that moves them on by itself, and an operator who may delete a stack.   *)
(* A template together with its parameters is one value, a body.           *)
(***************************************************************************)
EXTENDS StackStatus

CONSTANTS
  Stack,          \* stack names
  Body,           \* the templates with parameters a user may ask for
  NoBody,         \* no body: what a stack that does not exist has
  ChangeSetName   \* stackname-changeset-<uuid>

ASSUME NoBodyIsNoBody == NoBody \notin Body

VARIABLES
  stacks,         \* stacks[s]: its status, its body, the body it is moving to
  changeSets      \* changeSets[s]: the active change sets of s

cfnVars == <<stacks, changeSets>>

AnyBody == Body \cup {NoBody}

ChangeSetStatus == {"CREATE_PENDING", "CREATE_IN_PROGRESS",
                    "CREATE_COMPLETE", "FAILED"}

StackRecord == [status : StackStatuses \cup {"NONE"},
                body   : AnyBody,
                target : AnyBody]

ChangeSet == [name : ChangeSetName, status : ChangeSetStatus,
              body : AnyBody]

CfnTypeOK ==
  /\ stacks \in [Stack -> StackRecord]
  /\ changeSets \in [Stack -> SUBSET ChangeSet]

NoStack == [status |-> "NONE", body |-> NoBody, target |-> NoBody]

Created(b) == [status |-> "CREATE_COMPLETE", body |-> b, target |-> b]

\* A stack may have been there before anybody asked the controller for it.
CfnInit ==
  /\ stacks \in [Stack -> {NoStack} \cup {Created(b) : b \in Body}]
  /\ changeSets = [s \in Stack |-> {}]

Exists(s) == stacks[s].status # "NONE"

-----------------------------------------------------------------------------
\* A stack in one of these statuses can be updated; one that rolled back its
\* creation cannot, it has to be deleted.
Updatable(status) ==
  status \in {"CREATE_COMPLETE", "UPDATE_COMPLETE",
              "UPDATE_ROLLBACK_COMPLETE"}

\* CreateChangeSet: whether the service takes a change set of this type.
TakesChangeSet(s, type) ==
  IF type = "CREATE" THEN stacks[s].status \in {"NONE", "REVIEW_IN_PROGRESS"}
                     ELSE Updatable(stacks[s].status)

\* A change set of type CREATE brings its stack into being, under review.
AddChangeSet(s, n, b) ==
  /\ changeSets' = [changeSets EXCEPT ![s] = @ \cup
       {[name |-> n, status |-> "CREATE_PENDING", body |-> b]}]
  /\ stacks' = [stacks EXCEPT ![s].status =
       IF @ = "NONE" THEN "REVIEW_IN_PROGRESS" ELSE @]

\* ExecuteChangeSet: the change sets the service would execute under name n.
Ready(s, n) ==
  { x \in changeSets[s] :
      /\ x.name = n
      /\ x.status = "CREATE_COMPLETE"
      /\ Updatable(stacks[s].status) \/ IsReviewInProgress(stacks[s].status) }

\* Executing x deletes every other change set of the stack, and x is no
\* longer an active one.
StartExecution(s, x) ==
  /\ stacks' = [stacks EXCEPT ![s] =
       IF IsReviewInProgress(@.status)
       THEN [status |-> "CREATE_IN_PROGRESS", body |-> x.body,
             target |-> x.body]
       ELSE [@ EXCEPT !.status = "UPDATE_IN_PROGRESS", !.target = x.body]]
  /\ changeSets' = [changeSets EXCEPT ![s] = {}]

-----------------------------------------------------------------------------
\* Where the service takes a stack next on its own.
NextStatus(status) ==
  CASE status = "CREATE_IN_PROGRESS" ->
         {"CREATE_COMPLETE", "CREATE_FAILED", "ROLLBACK_IN_PROGRESS"}
    [] status = "ROLLBACK_IN_PROGRESS" ->
         {"ROLLBACK_COMPLETE", "ROLLBACK_FAILED"}
    [] status = "UPDATE_IN_PROGRESS" ->
         {"UPDATE_COMPLETE_CLEANUP_IN_PROGRESS", "UPDATE_ROLLBACK_IN_PROGRESS"}
    [] status = "UPDATE_COMPLETE_CLEANUP_IN_PROGRESS" -> {"UPDATE_COMPLETE"}
    [] status = "UPDATE_ROLLBACK_IN_PROGRESS" ->
         {"UPDATE_ROLLBACK_COMPLETE_CLEANUP_IN_PROGRESS",
          "UPDATE_ROLLBACK_FAILED"}
    [] status = "UPDATE_ROLLBACK_COMPLETE_CLEANUP_IN_PROGRESS" ->
         {"UPDATE_ROLLBACK_COMPLETE"}
    [] status = "DELETE_IN_PROGRESS" -> {"NONE", "DELETE_FAILED"}
    [] OTHER -> {}

\* An update takes effect once it no longer can be rolled back; a stack that
\* is gone leaves nothing behind.
Moved(stack, t) ==
  IF t = "NONE" THEN NoStack
  ELSE [stack EXCEPT !.status = t,
          !.body = IF t = "UPDATE_COMPLETE_CLEANUP_IN_PROGRESS"
                   THEN stack.target ELSE stack.body]

\* The service moves a stack on.
StackStep(s) ==
  \E t \in NextStatus(stacks[s].status) :
    /\ stacks' = [stacks EXCEPT ![s] = Moved(@, t)]
    /\ UNCHANGED changeSets

\* The service works on a change set; computing one may fail.
ChangeSetStep(s) ==
  \E x \in changeSets[s] :
    \E t \in CASE x.status = "CREATE_PENDING" -> {"CREATE_IN_PROGRESS"}
               [] x.status = "CREATE_IN_PROGRESS" -> {"CREATE_COMPLETE", "FAILED"}
               [] OTHER -> {} :
      /\ changeSets' = [changeSets EXCEPT ![s] =
           (@ \ {x}) \cup {[x EXCEPT !.status = t]}]
      /\ UNCHANGED stacks

\* An operator deletes a stack that no operation is running on.
StartDeletion(s) ==
  /\ Exists(s)
  /\ IsReviewInProgress(stacks[s].status) \/ ~IsInProgress(stacks[s].status)
  /\ stacks' = [stacks EXCEPT ![s].status = "DELETE_IN_PROGRESS"]
  /\ changeSets' = [changeSets EXCEPT ![s] = {}]
=============================================================================
