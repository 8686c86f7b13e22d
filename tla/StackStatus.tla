---------------------------- MODULE StackStatus ----------------------------
(***************************************************************************)
(* The CloudFormation stack statuses and how the controller classifies     *)
(* them (controllers/cloudresourcedeployment_validations.go).              *)
(***************************************************************************)

\* Every status the vendored AWS SDK knows (StackStatus* constants).
StackStatuses ==
  { "CREATE_IN_PROGRESS", "CREATE_FAILED", "CREATE_COMPLETE",
    "ROLLBACK_IN_PROGRESS", "ROLLBACK_FAILED", "ROLLBACK_COMPLETE",
    "DELETE_IN_PROGRESS", "DELETE_FAILED", "DELETE_COMPLETE",
    "UPDATE_IN_PROGRESS", "UPDATE_COMPLETE_CLEANUP_IN_PROGRESS",
    "UPDATE_COMPLETE", "UPDATE_ROLLBACK_IN_PROGRESS",
    "UPDATE_ROLLBACK_FAILED",
    "UPDATE_ROLLBACK_COMPLETE_CLEANUP_IN_PROGRESS",
    "UPDATE_ROLLBACK_COMPLETE", "REVIEW_IN_PROGRESS",
    "IMPORT_IN_PROGRESS", "IMPORT_COMPLETE", "IMPORT_ROLLBACK_IN_PROGRESS",
    "IMPORT_ROLLBACK_FAILED", "IMPORT_ROLLBACK_COMPLETE" }

IsInProgress(category) ==
  category \in { "CREATE_IN_PROGRESS", "ROLLBACK_IN_PROGRESS",
    "DELETE_IN_PROGRESS", "UPDATE_IN_PROGRESS",
    "UPDATE_ROLLBACK_IN_PROGRESS", "IMPORT_IN_PROGRESS",
    "REVIEW_IN_PROGRESS", "IMPORT_ROLLBACK_IN_PROGRESS",
    "UPDATE_COMPLETE_CLEANUP_IN_PROGRESS",
    "UPDATE_ROLLBACK_COMPLETE_CLEANUP_IN_PROGRESS" }

IsFailed(category) ==
  category \in { "IMPORT_ROLLBACK_FAILED", "UPDATE_ROLLBACK_FAILED",
    "DELETE_FAILED", "ROLLBACK_FAILED", "CREATE_FAILED",
    "IMPORT_ROLLBACK_COMPLETE" }

IsComplete(category) ==
  category \in { "CREATE_COMPLETE", "DELETE_COMPLETE", "UPDATE_COMPLETE",
    "UPDATE_ROLLBACK_COMPLETE", "ROLLBACK_COMPLETE", "IMPORT_COMPLETE" }

IsRollBackComplete(category) ==
  category \in { "UPDATE_ROLLBACK_COMPLETE", "ROLLBACK_COMPLETE" }

IsReviewInProgress(category) == category = "REVIEW_IN_PROGRESS"
=============================================================================
