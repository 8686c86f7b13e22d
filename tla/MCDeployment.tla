---------------------------- MODULE MCDeployment ----------------------------
(***************************************************************************)
(* Controller with the bodies taken apart: a template with the defaults of *)
(* its parameters, the parameters given, and the assume-role part.         *)
(***************************************************************************)
EXTENDS UndisturbedInvariants, AssumeRole

MCChecksum(sp) == <<sp.body, sp.defaulted>>

MCSum == {<<b, d>> : b \in AnyBody, d \in BOOLEAN}

OwnStack == [c \in CR |-> c]

-----------------------------------------------------------------------------
NoParams == [k \in {} |-> <<"">>]

\* The defaults of the parameters each template has.
Defaults == [none |-> NoParams,
             one  |-> [size |-> <<"small">>],
             two  |-> [vpc |-> <<"v0">>, subnet |-> <<"s0">>]]

\* The two ways docs/filling_assumeroleprovider.md names to fill in the
\* assume-role part, one that leaves nothing to derive, and some others.
Option1 == [rolearn |-> "", acctnum |-> "given", servicerolearn |-> ""]
Option2 == [rolearn |-> "given", acctnum |-> "", servicerolearn |-> ""]
FullRole == [rolearn |-> "given", acctnum |-> "given", servicerolearn |-> "given"]
NoRole == [rolearn |-> "", acctnum |-> "", servicerolearn |-> ""]
NoService == [rolearn |-> "given", acctnum |-> "blank", servicerolearn |-> ""]
BlankService == [FullRole EXCEPT !.servicerolearn = "blank"]
Accountless == [NoRole EXCEPT !.rolearn = "accountless"]

PlainBody(template, params, role) ==
  [template |-> template, params |-> params, role |-> role]

\* What users write.
Given ==
  { PlainBody("one", [size |-> <<"large">>], Option1),
    PlainBody("one", [size |-> <<"small">>], Option2),
    PlainBody("one", NoParams, FullRole),
    PlainBody("two", [vpc |-> <<"net", "vpc">>, subnet |-> <<"net", "subnet">>],
              FullRole),
    PlainBody("two", [vpc |-> <<"old", "vpc">>, subnet |-> <<"old", "subnet">>],
              FullRole),
    PlainBody("one", NoParams, NoRole),
    PlainBody("one", NoParams, NoService),
    PlainBody("one", NoParams, BlankService),
    PlainBody("one", NoParams, Accountless) }

MCNoBody == PlainBody("none", NoParams, NoRole)

\* What the other stacks have, all along: references are to outputs that are
\* there, and to one that is not.
Outputs == [net |-> [vpc |-> "v1", subnet |-> "s1"],
            old |-> [subnet |-> "s2"]]

Fetches(b) == FetchReferenceResources(b.params, Outputs)

Resolved(b) ==
  IF \E k \in DOMAIN b.params : IsReference(b.params[k])
  THEN {[b EXCEPT !.params = f.params] : f \in {g \in Fetches(b) : ~g.err}}
  ELSE {}

MCBody == Given \cup UNION {Resolved(b) : b \in Given}

-----------------------------------------------------------------------------
MCProvider == [b \in AnyBody |-> Outcome(b.role)]
MCTemplate == [b \in AnyBody |-> b.template]
MCParams == [b \in AnyBody |-> b.params]
MCResolutions == [b \in AnyBody |-> Resolved(b)]
MCUnresolvable == {b \in AnyBody : \E f \in Fetches(b) : f.err}

\* What is not given has the default of the template.
MCShown ==
  [b \in AnyBody |->
     [k \in DOMAIN Defaults[b.template] \cup DOMAIN b.params |->
        IF k \in DOMAIN b.params THEN b.params[k] ELSE Defaults[b.template][k]]]

\* The instance is one the theorems are about.
ASSUME QuietIsUndisturbed == Undisturbed /\ Traceable
ASSUME QuietFetches == FetchedFrom({Outputs})

-----------------------------------------------------------------------------
\* docs/filling_assumeroleprovider.md: with the account alone, or the role
\* alone, nothing else is required.  Unless CloudFormation fails, a resource
\* that says so much ends in Success.
DocumentedOptionsWork ==
  []~AwsFailed =>
    <>[](\A c \in CR :
           Wanted(c) /\ obj[c].spec.body.role \in {Option1, Option2} =>
             obj[c].status.phase = "Success")
=============================================================================
