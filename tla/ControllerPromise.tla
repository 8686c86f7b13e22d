------------------------- MODULE ControllerPromise --------------------------
(***************************************************************************)
(* The controller, its users and CloudFormation implement Promise.         *)
(***************************************************************************)
EXTENDS ControllerInvariants

\* A resource asks for its body, also while it waits for its deletion.
Asked == [c \in CR |-> IF obj[c].present THEN obj[c].spec.body ELSE NoBody]

\* The phase of a resource is the answer to its spec where the checksum in its
\* status says so.
Answered == [c \in CR |-> IF Settled(obj[c]) THEN obj[c].status.phase ELSE "none"]

Stacks == [c \in CR |-> TheStack(c)]

\* The stacks that have what b asks for, or rolled back.
Meets ==
  [b \in AnyBody |->
     {r \in StackRecord : Has(r, b) \/ IsRollBackComplete(r.status)}]

P == INSTANCE Promise WITH
  Resource <- CR, Request <- Body, Nothing <- NoBody, Meaning <- Resolutions,
  State <- StackRecord, Meeting <- Meets,
  asked <- Asked, asks <- edits, answer <- Answered, stack <- Stacks

\* What users see of the controller, of its stacks and of what they wrote is
\* what Promise allows: a step of the controller changes a spec only to resolve
\* it, and an answer never; a step of CloudFormation, or a call to it, changes
\* one stack, of a resource that does not say Success of its spec; and a
\* Success is true.
KeepsPromise == P!PromiseSpec
=============================================================================
