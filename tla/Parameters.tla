----------------------------- MODULE Parameters -----------------------------
(***************************************************************************)
(* The parameters of a template, functions from keys to values             *)
(* (pkg/awsapi/cloudformation.go).  A value is a sequence of one string,   *)
(* or of two for "!stack_output <stack>::<output>" and its external form,  *)
(* a reference to an output of another stack.  "outputs" is what the other *)
(* stacks have at the time: a function from stacks to their outputs.       *)
(***************************************************************************)
EXTENDS Naturals, Sequences

\* A mutant of CompareStackParams, which compares the keys only.
CompareKeys(awscfnparams, crparams) ==
  DOMAIN crparams \subseteq DOMAIN awscfnparams

\* Equal are parameters that differ in no key they share.
CompareStackParams(awscfnparams, crparams) ==
  \A k \in DOMAIN awscfnparams \cap DOMAIN crparams :
    awscfnparams[k] = crparams[k]

IsReference(value) == Len(value) = 2

\* The value of an output: "" without such an output, an error without the
\* stack.
GetResourceFromStackOutput(outputs, stack, output) ==
  IF stack \notin DOMAIN outputs THEN "error"
  ELSE IF output \in DOMAIN outputs[stack] THEN outputs[stack][output] ELSE ""

\* A mutant of FetchReferenceResources, which skips what it cannot fetch.
FetchWhatIsThere(params, outputs) ==
  LET Fetched(k) == GetResourceFromStackOutput(outputs, params[k][1], params[k][2])
  IN { [err    |-> FALSE,
        params |-> [k \in DOMAIN params |->
          IF IsReference(params[k]) /\ Fetched(k) \notin {"", "error"}
          THEN <<Fetched(k)>> ELSE params[k]]] }

\* The ways FetchReferenceResources may end: all references are replaced, or
\* none, because of the first one in the order of a Go map that has no value;
\* only a stack that is not there makes that an error.
FetchReferenceResources(params, outputs) ==
  LET Fetched(k) == GetResourceFromStackOutput(outputs, params[k][1], params[k][2])
      keys == {k \in DOMAIN params : IsReference(params[k])}
      missing == {k \in keys : Fetched(k) \in {"", "error"}}
  IN IF missing = {}
     THEN { [err    |-> FALSE,
             params |-> [k \in DOMAIN params |->
               IF k \in keys THEN <<Fetched(k)>> ELSE params[k]]] }
     ELSE { [err |-> Fetched(k) = "error", params |-> params] : k \in missing }
=============================================================================
