------------------------------ MODULE LLMAgent ------------------------------
(***************************************************************************)
(* BaseAgent._complete_with_retry (source/agents/base.py): concurrent      *)
(* calls on one event loop, each awaiting the LLM under a deadline of its  *)
(* own, parsing the answer, and retrying timeouts and unusable answers     *)
(* after a backoff.                                                        *)
(*                                                                         *)
(* asyncio.wait_for is modelled as Python 3.11 implements it: it runs the  *)
(* client's coroutine in a task; when the deadline passes it cancels the   *)
(* task AND waits for it to end, and a task that ends with a result or an  *)
(* exception of its own in that window still counts as having done so.     *)
(***************************************************************************)
EXTENDS Verdicts

CONSTANTS
  Calls,      \* concurrent calls of the agent
  Answers,    \* raw answers of the LLM
  Malformed,  \* what parse does to an answer it cannot accept
  Parsed      \* Parsed[a]: the validated output of the answer a, or Malformed

ASSUME ParsedAssumption == Parsed \in [Answers -> Outputs \cup {Malformed}]
ASSUME MalformedAssumption == Malformed \notin Outputs
ASSUME AnswersAssumption ==
  Answers \cap {"unstarted", "running", "TimeoutError", "error", "cancelled"} = {}

VARIABLES
  pc,              \* where each call is
  attempt,         \* the attempt it is at, 0 before the first
  attempt_errors,  \* the errors of its failed attempts, in order
  output,          \* the output it returned, or NoOutput
  tasks            \* tasks[c][k]: the task running the client for attempt k

vars == <<pc, attempt, attempt_errors, output, tasks>>

(* How the client's task can end by itself: an answer, a TimeoutError it   *)
(* raises, or any other exception.                                         *)
ClientOutcome == Answers \cup {"TimeoutError", "error"}

TaskState == ClientOutcome \cup {"unstarted", "running", "cancelled"}

Awaiting == {"calling", "cancelling"}
Settled == {"returned", "failed", "raised", "abandoned"}
Location == Awaiting \cup Settled \cup {"idle", "backoff"}

(* The state of the task of the current attempt.                           *)
Task(c) == tasks[c][attempt[c]]

TypeOK ==
  /\ pc \in [Calls -> Location]
  /\ attempt \in [Calls -> 0..max_attempts]
  /\ attempt_errors \in [Calls -> Seq(AttemptError)]
  /\ output \in [Calls -> Outputs \cup {NoOutput}]
  /\ tasks \in [Calls -> [1..max_attempts -> TaskState]]

Init ==
  /\ pc = [c \in Calls |-> "idle"]
  /\ attempt = [c \in Calls |-> 0]
  /\ attempt_errors = [c \in Calls |-> << >>]
  /\ output = [c \in Calls |-> NoOutput]
  /\ tasks = [c \in Calls |-> [k \in 1..max_attempts |-> "unstarted"]]

-----------------------------------------------------------------------------
(* The client's task: the LLM answers, times out by itself, or breaks.     *)
ClientEnds(c) ==
  /\ pc[c] \in Awaiting
  /\ Task(c) = "running"
  /\ \E o \in ClientOutcome : tasks' = [tasks EXCEPT ![c][attempt[c]] = o]
  /\ UNCHANGED <<pc, attempt, attempt_errors, output>>

(* The cancellation wait_for asked for reaches the client.                 *)
ClientCancelled(c) ==
  /\ pc[c] = "cancelling"
  /\ Task(c) = "running"
  /\ tasks' = [tasks EXCEPT ![c][attempt[c]] = "cancelled"]
  /\ UNCHANGED <<pc, attempt, attempt_errors, output>>

-----------------------------------------------------------------------------
(* The loop.                                                               *)
StartAttempt(c, k) ==
  /\ pc' = [pc EXCEPT ![c] = "calling"]
  /\ attempt' = [attempt EXCEPT ![c] = k]
  /\ tasks' = [tasks EXCEPT ![c][k] = "running"]
  /\ UNCHANGED <<attempt_errors, output>>

Begin(c) ==
  /\ pc[c] = "idle"
  /\ StartAttempt(c, 1)

(* Fault: the client's own timeout is trusted, so no deadline ever fires.  *)
DeadlineExpires_trusting(c) == FALSE /\ pc[c] = "calling" /\ UNCHANGED vars

(* wait_for's timer fires while the client is still running.               *)
DeadlineExpires(c) ==
  /\ pc[c] = "calling"
  /\ Task(c) = "running"
  /\ pc' = [pc EXCEPT ![c] = "cancelling"]
  /\ UNCHANGED <<attempt, attempt_errors, output, tasks>>

(* Fault: the loop gives up one attempt early.                             *)
FailAttempt_early(c, error) ==
  /\ attempt_errors' = [attempt_errors EXCEPT ![c] = Append(@, error)]
  /\ pc' = [pc EXCEPT ![c] = IF attempt[c] < MaxRetries THEN "backoff"
                                                        ELSE "failed"]
  /\ UNCHANGED <<attempt, output, tasks>>

(* Fault: an off-by-one lets the loop run one attempt too many.            *)
FailAttempt_late(c, error) ==
  /\ attempt_errors' = [attempt_errors EXCEPT ![c] = Append(@, error)]
  /\ pc' = [pc EXCEPT ![c] = IF attempt[c] <= max_attempts THEN "backoff"
                                                           ELSE "failed"]
  /\ UNCHANGED <<attempt, output, tasks>>

(* A failed attempt: note its error, then back off or give up.             *)
FailAttempt(c, error) ==
  /\ attempt_errors' = [attempt_errors EXCEPT ![c] = Append(@, error)]
  /\ pc' = [pc EXCEPT ![c] = IF attempt[c] < max_attempts THEN "backoff"
                                                          ELSE "failed"]
  /\ UNCHANGED <<attempt, output, tasks>>

(* Fault: the deadline abandons the task instead of cancelling it and      *)
(* waiting for its end.                                                    *)
AttemptTimesOut_leaking(c) ==
  /\ pc[c] = "cancelling"
  /\ FailAttempt(c, "timeout")

AttemptTimesOut(c) ==
  /\ pc[c] \in Awaiting
  /\ Task(c) \in {"cancelled", "TimeoutError"}
  /\ FailAttempt(c, "timeout")

(* Fault: an unusable answer is noted as a timeout.                        *)
AttemptMalformed_asTimeout(c) ==
  /\ pc[c] \in Awaiting
  /\ Task(c) \in Answers
  /\ Parsed[Task(c)] = Malformed
  /\ FailAttempt(c, "timeout")

AttemptMalformed(c) ==
  /\ pc[c] \in Awaiting
  /\ Task(c) \in Answers
  /\ Parsed[Task(c)] = Malformed
  /\ FailAttempt(c, "malformed_output")

AttemptSucceeds(c) ==
  /\ pc[c] \in Awaiting
  /\ Task(c) \in Answers
  /\ Parsed[Task(c)] # Malformed
  /\ output' = [output EXCEPT ![c] = Parsed[Task(c)]]
  /\ pc' = [pc EXCEPT ![c] = "returned"]
  /\ UNCHANGED <<attempt, attempt_errors, tasks>>

(* Fault: every exception of the client is retried.                        *)
AttemptRaises_retrying(c) ==
  /\ pc[c] \in Awaiting
  /\ Task(c) = "error"
  /\ FailAttempt(c, "malformed_output")

(* Neither except clause catches it: it leaves the loop at once.           *)
AttemptRaises(c) ==
  /\ pc[c] \in Awaiting
  /\ Task(c) = "error"
  /\ pc' = [pc EXCEPT ![c] = "raised"]
  /\ UNCHANGED <<attempt, attempt_errors, output, tasks>>

(* Fault: no return after an output, the loop goes on to its next round.   *)
Retry_again(c) ==
  /\ pc[c] \in {"backoff", "returned"}
  /\ attempt[c] < max_attempts
  /\ StartAttempt(c, attempt[c] + 1)

(* The backoff sleep ends.                                                 *)
Retry(c) ==
  /\ pc[c] = "backoff"
  /\ StartAttempt(c, attempt[c] + 1)

(* The request's task is cancelled at an await, or the process dies;       *)
(* wait_for passes the cancellation on to the client.                      *)
AbandonCall(c) ==
  /\ pc[c] \in Awaiting \cup {"backoff"}
  /\ pc' = [pc EXCEPT ![c] = "abandoned"]
  /\ tasks' = [tasks EXCEPT ![c][attempt[c]] =
                 IF @ = "running" THEN "cancelled" ELSE @]
  /\ UNCHANGED <<attempt, attempt_errors, output>>

AgentStep(c) ==
  \/ DeadlineExpires(c)
  \/ AttemptTimesOut(c)
  \/ AttemptMalformed(c)
  \/ AttemptSucceeds(c)
  \/ AttemptRaises(c)
  \/ Retry(c)

Next ==
  \E c \in Calls :
    Begin(c) \/ ClientEnds(c) \/ ClientCancelled(c) \/ AgentStep(c) \/ AbandonCall(c)

Spec == Init /\ [][Next]_vars

-----------------------------------------------------------------------------
Unusable(o) == o \in Answers /\ Parsed[o] = Malformed

(* The list of errors tells, attempt by attempt, what the LLM did: a       *)
(* timeout where its task was cut off or timed out, malformed_output where *)
(* it answered with something parse refused.  A late answer that slips in  *)
(* while the deadline is being enforced is not booked as a timeout.        *)
AttemptErrorsTellWhatHappened ==
  \A c \in Calls : \A i \in DOMAIN attempt_errors[c] :
    /\ i <= attempt[c]
    /\ attempt_errors[c][i] = "timeout" <=>
         tasks[c][i] \in {"cancelled", "TimeoutError"}
    /\ attempt_errors[c][i] = "malformed_output" <=> Unusable(tasks[c][i])

(* base.py:25: the failure is a timeout only when the model never answered *)
(* in time; one answer, however unusable, makes it a bad upstream.         *)
TimeoutMeansNeverAnswered ==
  \A c \in Calls : pc[c] = "failed" =>
    (failure_reason(attempt_errors[c]) = "timeout" <=>
       \A k \in 1..max_attempts : tasks[c][k] \notin Answers)

(* The LLM is never called twice at a time for one message, and nothing    *)
(* keeps calling it once the caller has its verdict.                       *)
NoStrayTask ==
  \A c \in Calls : \A k \in 1..max_attempts :
    tasks[c][k] = "running" => pc[c] \in Awaiting /\ k = attempt[c]

(* Only a timeout or an unusable answer buys another attempt, and the      *)
(* output returned is that of the first usable answer.                     *)
OnlyRetryableAttemptsAreRetried ==
  \A c \in Calls :
    /\ \A k \in 1..max_attempts : k < attempt[c] =>
         Unusable(tasks[c][k]) \/ tasks[c][k] \in {"cancelled", "TimeoutError"}
    /\ pc[c] = "returned" => Task(c) \in Answers /\ output[c] = Parsed[Task(c)]

(***************************************************************************)
(* The loop implements the contract.                                       *)
(***************************************************************************)
verdictOf(c) ==
  CASE pc[c] = "returned"  -> Success(output[c], attempt_errors[c])
    [] pc[c] = "failed"    -> Failure(attempt_errors[c])
    [] pc[c] = "raised"    -> Raised
    [] pc[c] = "abandoned" -> Abandoned
    [] OTHER               -> Undecided

Contract == INSTANCE AgentContract WITH
  llm_calls <- attempt,
  verdict   <- [c \in Calls |-> verdictOf(c)]

(* Each call of the agent settles once, within its budget of LLM calls,    *)
(* and its verdict accounts for each of them.                              *)
KeepsContract == Contract!ContractSpec
=============================================================================
