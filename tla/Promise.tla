------------------------------ MODULE Promise -------------------------------
(***************************************************************************)
(* What the users of a resource may count on, whatever the controller does *)
(* for it: what they ask for is theirs to change, an answer stands until   *)
(* they do, and behind a Success is a stack that is what they asked for    *)
(* and is left alone.                                                      *)
(***************************************************************************)
EXTENDS Naturals

CONSTANTS
  Resource,   \* what is asked for,
  Request,    \*   in one of these forms,
  Nothing,    \*   or not at all
  Meaning,    \* Meaning[r]: what r may turn into once it is looked into
  State,      \* what a stack can be
  Meeting     \* Meeting[r]: the states of a stack that meet r

VARIABLES
  asked,      \* asked[c]: what the users ask for
  asks,       \* how often they asked, for anything
  answer,     \* answer[c]: the answer to what they ask for, once there is one
  stack       \* stack[c]: what there is

promiseVars == <<asked, asks, answer, stack>>

Answer == {"none", "Success", "Failure"}

Means(r) == {r} \cup Meaning[r]

Init ==
  /\ asked = [c \in Resource |-> Nothing] /\ asks = 0
  /\ answer = [c \in Resource |-> "none"]
  /\ stack \in [Resource -> State]

\* A Success is true.
True(c) == answer[c] = "Success" => \E r \in Means(asked[c]) : stack[c] \in Meeting[r]

Tell(c, r, a) ==
  /\ asked' = [asked EXCEPT ![c] = r]
  /\ answer' = [answer EXCEPT ![c] = a]
  /\ True(c)'
  /\ UNCHANGED stack

\* Users ask for something, or for the same once more. An answer they had to
\* it before may be the answer at once.
Ask(c) ==
  /\ asks' = asks + 1
  /\ \E r \in Request \cup {Nothing}, a \in Answer : Tell(c, r, a)

\* What is asked for without an answer is looked into, and may be answered.
Reply(c) ==
  /\ answer[c] = "none"
  /\ \E r \in Means(asked[c]), a \in Answer : Tell(c, r, a)
  /\ UNCHANGED asks

\* The stack of a resource changes, unless that is answered with Success.
Change(c) ==
  /\ answer[c] # "Success"
  /\ stack' \in [Resource -> State]
  /\ \A d \in Resource \ {c} : stack'[d] = stack[d]
  /\ UNCHANGED <<asked, asks, answer>>

PromiseNext == \E c \in Resource : Ask(c) \/ Reply(c) \/ Change(c)

PromiseSpec == Init /\ [][PromiseNext]_promiseVars
=============================================================================
