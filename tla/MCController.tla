---------------------------- MODULE MCController ----------------------------
(***************************************************************************)
(* Values for the constants of Controller that a .cfg file cannot write.   *)
(***************************************************************************)
EXTENDS ControllerPromise, TLC

CONSTANTS
  WithReference,  \* the bodies with references to outputs of other stacks
  NoRole,         \* the ones without a role and an account
  NoService,      \* the ones with a role, but without a service role
  BadRole,        \* the ones with a role ARN that has no account in it
  NilSpec         \* the ones without spec.cloudformation, a pointer the CRD
                  \*   does not require

MCChecksum(sp) == <<sp.body, sp.defaulted>>

MCSum == {<<b, d>> : b \in AnyBody, d \in BOOLEAN}

\* One stack per resource, of the same name.
OwnStack == [c \in CR |-> c]

\* Two resources with the same stack name in their specs.
OneStack == [c \in CR |-> CHOOSE s \in Stack : TRUE]

Plain == [role |-> "ok", complaints |-> 0, service |-> "ok"]

MCProvider ==
  [b \in AnyBody |->
     IF b \in NoRole THEN [role |-> "bad", complaints |-> 3, service |-> "none"]
     ELSE IF b \in NoService THEN [role |-> "ok", complaints |-> 1, service |-> "none"]
     ELSE IF b \in BadRole THEN [Plain EXCEPT !.role = "panic"]
     ELSE IF b \in NilSpec THEN [role |-> "fatal", complaints |-> 0, service |-> "none"]
     ELSE Plain]

\* Bodies that differ in their templates and have no parameters.
MCTemplate == [b \in AnyBody |-> b]
MCParams == [b \in AnyBody |-> <<>>]

PlainBody ==
  {b \in Body \ (WithReference \cup Unresolvable) : MCProvider[b] = Plain}

\* A reference may resolve to any of the plain bodies.
MCResolutions ==
  [b \in AnyBody |-> IF b \in WithReference THEN PlainBody ELSE {}]

\* The plain bodies can be exchanged, which differ in nothing but their
\* templates; so can the names, as any that is not in use does for a new one.
Interchangeable == Permutations(PlainBody) \cup Permutations(ChangeSetName)

=============================================================================
