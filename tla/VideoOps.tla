------------------------------- MODULE VideoOps -------------------------------
(***************************************************************************)
(* The domain vocabulary of the video control plane: the statuses of a     *)
(* project, a shot and a generation attempt, the transition tables that    *)
(* every status change of the program goes through, and the failure codes  *)
(* an attempt can end with.  The module has no state; the state machines   *)
(* of the other modules extend it.                                         *)
(***************************************************************************)
EXTENDS Naturals, FiniteSets

ProjectMoves ==
  [ draft                        |-> {"planning"},
    planning                     |-> {"awaiting_storyboard_approval"},
    awaiting_storyboard_approval |-> {"planning", "ready_for_generation", "cancelled"},
    ready_for_generation         |-> {"generating", "cancelled"},
    generating                   |-> {"awaiting_final_review", "needs_attention",
                                      "failed", "cancelled"},
    needs_attention              |-> {"generating", "cancelled"},
    awaiting_final_review        |-> {"generating", "completed", "cancelled"},
    failed                       |-> {},
    cancelled                    |-> {},
    completed                    |-> {} ]

ShotMoves ==
  [ draft                   |-> {"approved_for_generation", "cancelled", "failed"},
    approved_for_generation |-> {"queued", "cancelled", "failed"},
    queued                  |-> {"generating", "retryable", "cancelled", "failed"},
    generating              |-> {"awaiting_review", "retryable", "cancelled", "failed"},
    retryable               |-> {"queued", "cancelled"},
    awaiting_review         |-> {"accepted", "rejected", "cancelled", "failed"},
    accepted                |-> {},
    rejected                |-> {"queued", "cancelled", "failed"},
    failed                  |-> {},
    cancelled               |-> {} ]

AttemptMoves ==
  [ queued          |-> {"claimed", "running", "cancelled", "failed"},
    claimed         |-> {"submitting", "queued", "cancelled", "failed"},
    submitting      |-> {"submitted", "queued", "failed", "timed_out"},
    submitted       |-> {"running", "failed", "timed_out", "cancelled"},
    running         |-> {"generated", "evaluating", "failed", "timed_out", "cancelled"},
    generated       |-> {"evaluating", "failed"},
    evaluating      |-> {"awaiting_review", "failed"},
    awaiting_review |-> {"accepted", "rejected"},
    accepted        |-> {},
    rejected        |-> {},
    failed          |-> {},
    timed_out       |-> {},
    cancelled       |-> {} ]

ProjectStatus == DOMAIN ProjectMoves
ShotStatus    == DOMAIN ShotMoves
AttemptStatus == DOMAIN AttemptMoves

(* The program throws on a status change its table does not list. *)
CanMove(moves, from, to) == to \in moves[from]

(* isTerminalGenerationAttempt: awaiting_review is not terminal. *)
AttemptTerminal == {"accepted", "rejected", "failed", "timed_out", "cancelled"}

(* The statuses a lease is attached to, and those a dead worker's attempt  *)
(* is recovered from rather than put back on the queue.                    *)
LeasedStatus   == {"claimed", "submitting", "submitted", "running",
                   "generated", "evaluating"}
RecoveryStatus == LeasedStatus \ {"claimed"}

(* Statuses in which an attempt still needs a worker. *)
AttemptLive == {"queued"} \cup LeasedStatus

(* Failure codes.  MEDIA_INVALID stands for the evaluator's MEDIA_* codes, *)
(* none of which is recoverable.                                           *)
FailureCode ==
  {"COMFY_UNAVAILABLE", "COMFY_SUBMISSION_UNCERTAIN", "COMFY_EXECUTION_FAILED",
   "COMFY_INTERRUPTED", "CAPABILITY_DRIFT", "GENERATION_TIMEOUT",
   "ARTIFACT_DOWNLOAD_FAILED", "ARTIFACT_STORAGE_FAILED", "MEDIA_INVALID",
   "REVIEW_REJECTED"}

RecoverableCode ==
  {"COMFY_UNAVAILABLE", "COMFY_SUBMISSION_UNCERTAIN", "COMFY_EXECUTION_FAILED",
   "CAPABILITY_DRIFT", "GENERATION_TIMEOUT", "ARTIFACT_DOWNLOAD_FAILED",
   "ARTIFACT_STORAGE_FAILED"}

(* The status failAttempt is called with, for each code it is called with. *)
FailureStatus(code) ==
  CASE code = "COMFY_INTERRUPTED"  -> "cancelled"
    [] code = "GENERATION_TIMEOUT" -> "timed_out"
    [] OTHER                       -> "failed"

(* What a failed attempt does to its shot and to a generating project. *)
ShotAfterFailure(code) ==
  CASE FailureStatus(code) = "cancelled" -> "cancelled"
    [] code \in RecoverableCode          -> "retryable"
    [] OTHER                             -> "failed"

(* Mutant of ProjectAfterFailure: a recoverable failure is not shown.       *)
ProjectStaysGenerating(code) ==
  CASE FailureStatus(code) = "cancelled" -> "cancelled"
    [] code \in RecoverableCode          -> "generating"
    [] OTHER                             -> "failed"

ProjectAfterFailure(code) ==
  CASE FailureStatus(code) = "cancelled" -> "cancelled"
    [] code \in RecoverableCode          -> "needs_attention"
    [] OTHER                             -> "failed"

(* The shot statuses an attempt can be created from. *)
ReadyShot == {"approved_for_generation", "rejected", "retryable"}

(* The project statuses a new attempt may start from, all of which lead to *)
(* generating; the others make the transaction throw.                      *)
Generable == {"ready_for_generation", "awaiting_final_review",
              "needs_attention", "generating"}

(* What a finished evaluation does to the shot and to a generating project. *)
ShotAfterVerdict(status, verdict) ==
  CASE verdict = "passed" /\ status = "generating" -> "awaiting_review"
    [] verdict = "failed" /\ status \in {"generating", "queued"} -> "failed"
    [] OTHER -> status

ProjectAfterVerdict(verdict) ==
  IF verdict = "passed" THEN "awaiting_final_review" ELSE "failed"
================================================================================
