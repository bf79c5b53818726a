------------------------------ MODULE Verdicts ------------------------------
(***************************************************************************)
(* The vocabulary shared by the retry loop, its contract and the service:  *)
(* what an LLM attempt can fail with, and what the call of an agent can    *)
(* end in (source/agents/base.py).                                         *)
(***************************************************************************)
EXTENDS Integers, Sequences

CONSTANTS
  Outputs,     \* the validated outputs a call can return
  NoOutput,    \* the output of a call that returned none
  MaxRetries   \* LLM_MAX_RETRIES: retries after the first attempt

ASSUME MaxRetriesAssumption == MaxRetries \in Nat
ASSUME NoOutputAssumption == NoOutput \notin Outputs

AttemptError == {"timeout", "malformed_output"}

max_attempts == MaxRetries + 1

(***************************************************************************)
(* A verdict is how one call of the agent ended.                           *)
(***************************************************************************)
Verdict(kind, output, errors) ==
  [kind |-> kind, output |-> output, attempt_errors |-> errors]

Undecided == Verdict("undecided", NoOutput, << >>)
Success(output, errors) == Verdict("success", output, errors)

(* LLMFailure: every attempt failed.                                       *)
Failure(errors) == Verdict("failure", NoOutput, errors)

(* Any other exception of the client propagates; the list of the errors    *)
(* before it dies with the stack frame.                                    *)
Raised == Verdict("exception", NoOutput, << >>)

(* The task that was making the call was cancelled, or its process died.   *)
Abandoned == Verdict("abandoned", NoOutput, << >>)

(* ClassificationResult.attempts and LLMFailure.attempts.                  *)
attempts(verdict) ==
  LET failed == Len(verdict.attempt_errors)
  IN  IF verdict.kind = "success" THEN failed + 1 ELSE failed

(* Fault: one timeout is enough to report a timeout.                       *)
failure_reason_any(errors) ==
  IF \E i \in DOMAIN errors : errors[i] = "timeout"
    THEN "timeout" ELSE "malformed_output"

(* LLMFailure.reason                                                       *)
failure_reason(errors) ==
  IF \A i \in DOMAIN errors : errors[i] = "timeout"
    THEN "timeout" ELSE "malformed_output"
=============================================================================
