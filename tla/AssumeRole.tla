----------------------------- MODULE AssumeRole -----------------------------
(***************************************************************************)
(* What SetAssumeRoleProvider and GetTargetAccountSession make of the      *)
(* assume-role part of a spec.  A field is left out (""), "blank" or       *)
(* "given"; a role may also be "malformed", without the "::" before the    *)
(* account, or "accountless", with nothing after it.                       *)
(***************************************************************************)
EXTENDS Naturals, FiniteSets

AssumeRoleProvider ==
  [rolearn : {"", "blank", "given", "malformed", "accountless"},
   acctnum : {"", "blank", "given"},
   servicerolearn : {"", "blank", "given"}]

\* These three give "" with an error, but the last one without for a role that
\* is accountless; a malformed one makes it panic.
getRoleArn(accountId) == IF accountId = "given" THEN "given" ELSE ""

getServiceRoleArn(accountId) == IF accountId = "given" THEN "given" ELSE ""

getAccountidFromRoleArn(role) == IF role = "given" THEN "given" ELSE ""

\* A mutant of Filled, which takes the account from what the user gave.
FilledFromGiven(p) ==
  [rolearn        |-> IF p.rolearn = "" THEN getRoleArn(p.acctnum) ELSE p.rolearn,
   acctnum        |-> IF p.acctnum = "" THEN getAccountidFromRoleArn(p.rolearn)
                                        ELSE p.acctnum,
   servicerolearn |-> IF p.servicerolearn = "" THEN getServiceRoleArn(p.acctnum)
                                               ELSE p.servicerolearn]

\* The fields that are left out, derived from one another in this order.
Filled(p) ==
  LET rolearn == IF p.rolearn = "" THEN getRoleArn(p.acctnum) ELSE p.rolearn
      acctnum == IF p.acctnum = "" THEN getAccountidFromRoleArn(rolearn)
                                   ELSE p.acctnum
      service == IF p.servicerolearn = "" THEN getServiceRoleArn(acctnum)
                                          ELSE p.servicerolearn
  IN [rolearn |-> rolearn, acctnum |-> acctnum, servicerolearn |-> service]

\* The account is looked for in a role ARN that has none.
Panics(p) == p.acctnum = "" /\ p.rolearn = "malformed"

\* The fields for the want of which a Failure is written: those that are left
\* out and cannot be derived, unless what is derived is nothing.
Complaints(p) ==
  LET filled == Filled(p)
  IN {f \in DOMAIN filled : filled[f] = ""}
       \ (IF filled.rolearn = "accountless" THEN {"acctnum"} ELSE {})

\* How it ends: whether a session can be had ("ok"), cannot ("bad"), or a
\* panic comes first; how many Failures are written before; and whether the
\* service role that results is usable, none at all, or refused.
Outcome(p) ==
  LET filled == Filled(p)
  IN [role       |-> IF Panics(p) THEN "panic"
                     ELSE IF filled.rolearn = "given" THEN "ok" ELSE "bad",
      complaints |-> IF Panics(p) THEN 0
                     ELSE Cardinality(Complaints(p)),
      service    |-> CASE filled.servicerolearn = "" -> "none"
                       [] filled.servicerolearn = "blank" -> "refused"
                       [] OTHER -> "ok"]
=============================================================================
