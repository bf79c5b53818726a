--------------------------- MODULE LLMAgentProofs ---------------------------
(***************************************************************************)
(* Proofs about the retry loop of LLMAgent, for any number of concurrent   *)
(* calls, any answers of the LLM and any retry budget: its types, the      *)
(* safety invariants the runs check, and the refinement of AgentContract.  *)
(***************************************************************************)
EXTENDS LLMAgent, SequenceTheorems, TLAPS

TimedOut(o) == o \in {"cancelled", "TimeoutError"}

(* How far the list of errors is behind the attempts, place by place.      *)
Progress(c) ==
  /\ pc[c] = "idle" <=> attempt[c] = 0
  /\ pc[c] = "idle" => Len(attempt_errors[c]) = 0
  /\ pc[c] \in Awaiting \cup {"returned", "raised"} =>
       Len(attempt_errors[c]) = attempt[c] - 1
  /\ pc[c] \in {"backoff", "failed"} => Len(attempt_errors[c]) = attempt[c]
  /\ pc[c] = "abandoned" =>
       Len(attempt_errors[c]) \in {attempt[c] - 1, attempt[c]}
  /\ pc[c] = "backoff" => attempt[c] < max_attempts
  /\ pc[c] = "failed" => attempt[c] = max_attempts

(* What became of the tasks of the attempts before, at and after this one. *)
History(c) ==
  /\ \A i \in 1..Len(attempt_errors[c]) :
       \/ attempt_errors[c][i] = "timeout" /\ TimedOut(tasks[c][i])
       \/ attempt_errors[c][i] = "malformed_output" /\ Unusable(tasks[c][i])
  /\ \A k \in 1..max_attempts : k > attempt[c] => tasks[c][k] = "unstarted"
  /\ \A k \in 1..max_attempts :
       tasks[c][k] = "running" => pc[c] \in Awaiting /\ k = attempt[c]
  /\ pc[c] = "returned" =>
       Task(c) \in Answers /\ output[c] = Parsed[Task(c)] /\ output[c] \in Outputs

IInv == TypeOK /\ \A c \in Calls : Progress(c) /\ History(c)

-----------------------------------------------------------------------------
LEMMA Budget == max_attempts \in Nat /\ max_attempts >= 1
  BY MaxRetriesAssumption DEF max_attempts

(* The initial states are well typed and satisfy the invariant.            *)
LEMMA InitIInv == Init => IInv
<1> SUFFICES ASSUME Init PROVE IInv
  OBVIOUS
<1> USE Budget
<1>1. TypeOK
  BY DEF Init, TypeOK, Location, Settled, Awaiting, TaskState
<1>2. ASSUME NEW c \in Calls PROVE Progress(c) /\ History(c)
  BY DEF Init, Progress, History, Awaiting
<1> QED
  BY <1>1, <1>2 DEF IInv

(* A step of one call that keeps its own part of the invariant keeps it    *)
(* all.                                                                    *)
LEMMA LocalStep ==
  ASSUME IInv, NEW c \in Calls, TypeOK', Progress(c)', History(c)',
         \A d \in Calls \ {c} :
           /\ pc'[d] = pc[d]
           /\ attempt'[d] = attempt[d]
           /\ attempt_errors'[d] = attempt_errors[d]
           /\ output'[d] = output[d]
           /\ tasks'[d] = tasks[d]
  PROVE  IInv'
<1>1. ASSUME NEW d \in Calls \ {c} PROVE Progress(d)' /\ History(d)'
  BY <1>1 DEF IInv, Progress, History, Task
<1> QED
  BY <1>1 DEF IInv

-----------------------------------------------------------------------------
(* Steps of the client's task.                                             *)
LEMMA TaskStep ==
  ASSUME IInv, NEW c \in Calls, ClientEnds(c) \/ ClientCancelled(c)
  PROVE  IInv'
<1> USE Budget
<1>1. /\ pc[c] \in Awaiting
      /\ attempt[c] \in 1..max_attempts
      /\ Task(c) = "running"
  BY DEF ClientEnds, ClientCancelled, IInv, TypeOK, Progress, Awaiting
<1>2. PICK o \in TaskState \ {"running", "unstarted"} :
        tasks' = [tasks EXCEPT ![c][attempt[c]] = o]
  BY AnswersAssumption
  DEF ClientEnds, ClientCancelled, TaskState, ClientOutcome
<1>3. UNCHANGED <<pc, attempt, attempt_errors, output>>
  BY DEF ClientEnds, ClientCancelled
<1>4. TypeOK'
  BY <1>1, <1>2, <1>3 DEF IInv, TypeOK
<1>5. Progress(c)'
  BY <1>3 DEF IInv, Progress
<1>6. History(c)'
  BY <1>1, <1>2, <1>3
  DEF IInv, TypeOK, Progress, History, Awaiting, Task, Unusable, TimedOut
<1> QED
  BY <1>2, <1>3, <1>4, <1>5, <1>6, LocalStep DEF IInv, TypeOK

(* A new attempt: the first, or one that follows a backoff.                *)
LEMMA StartStep ==
  ASSUME IInv, NEW c \in Calls, Begin(c) \/ Retry(c)
  PROVE  IInv'
<1> USE Budget
<1>1. PICK k \in 1..max_attempts :
        /\ StartAttempt(c, k)
        /\ k = attempt[c] + 1
        /\ Len(attempt_errors[c]) = attempt[c]
        /\ pc[c] \in {"idle", "backoff"}
  BY DEF Begin, Retry, IInv, TypeOK, Progress
<1>2. TypeOK'
  BY <1>1 DEF StartAttempt, IInv, TypeOK, Location, Awaiting, TaskState
<1>3. Progress(c)'
  BY <1>1, <1>2 DEF StartAttempt, IInv, TypeOK, Progress, Awaiting
<1>4. History(c)'
  <2>1. /\ pc'[c] = "calling"
        /\ attempt'[c] = k
        /\ attempt_errors'[c] = attempt_errors[c]
        /\ \A i \in 1..max_attempts :
             tasks'[c][i] = IF i = k THEN "running" ELSE tasks[c][i]
    BY <1>1 DEF StartAttempt, IInv, TypeOK
  <2>2. \A i \in 1..Len(attempt_errors[c]) : i \in 1..max_attempts /\ i # k
    BY <1>1 DEF IInv, TypeOK
  <2>3. \A i \in 1..max_attempts : tasks[c][i] # "running"
    BY <1>1 DEF IInv, History, Awaiting
  <2>4. \A i \in 1..max_attempts : i > k => tasks[c][i] = "unstarted"
    BY <1>1 DEF IInv, TypeOK, History
  <2>5. \A i \in 1..Len(attempt_errors[c]) :
          \/ attempt_errors[c][i] = "timeout" /\ TimedOut(tasks[c][i])
          \/ attempt_errors[c][i] = "malformed_output" /\ Unusable(tasks[c][i])
    BY DEF IInv, History
  <2> QED
    BY <2>1, <2>2, <2>3, <2>4, <2>5 DEF History, Awaiting, Unusable, TimedOut
<1> QED
  BY <1>1, <1>2, <1>3, <1>4, LocalStep DEF StartAttempt, IInv, TypeOK

(* The deadline passes: wait_for goes on to cancel the client.             *)
LEMMA DeadlineStep ==
  ASSUME IInv, NEW c \in Calls, DeadlineExpires(c)
  PROVE  IInv'
<1>1. TypeOK'
  BY DEF DeadlineExpires, IInv, TypeOK, Location, Awaiting
<1>2. Progress(c)'
  BY DEF DeadlineExpires, IInv, TypeOK, Progress, Awaiting
<1>3. History(c)'
  BY DEF DeadlineExpires, IInv, TypeOK, History, Awaiting, Task
<1> QED
  BY <1>1, <1>2, <1>3, LocalStep DEF DeadlineExpires, IInv, TypeOK

(* An attempt fails, with an error that tells what its task did.           *)
LEMMA FailStep ==
  ASSUME IInv, NEW c \in Calls, NEW e \in AttemptError,
         pc[c] \in Awaiting, FailAttempt(c, e),
         \/ e = "timeout" /\ TimedOut(Task(c))
         \/ e = "malformed_output" /\ Unusable(Task(c))
  PROVE  IInv'
<1> USE Budget
<1>1. /\ attempt[c] \in 1..max_attempts
      /\ attempt_errors[c] \in Seq(AttemptError)
      /\ Len(attempt_errors[c]) = attempt[c] - 1
  BY DEF IInv, TypeOK, Progress, Awaiting
<1>2. /\ attempt_errors'[c] = Append(attempt_errors[c], e)
      /\ pc'[c] = IF attempt[c] < max_attempts THEN "backoff" ELSE "failed"
      /\ UNCHANGED <<attempt, output, tasks>>
  BY DEF FailAttempt, IInv, TypeOK
<1>3. /\ attempt_errors'[c] \in Seq(AttemptError)
      /\ Len(attempt_errors'[c]) = attempt[c]
      /\ \A i \in 1..Len(attempt_errors[c]) :
           attempt_errors'[c][i] = attempt_errors[c][i]
      /\ attempt_errors'[c][attempt[c]] = e
  BY <1>1, <1>2
<1>4. TypeOK'
  <2>1. attempt_errors' \in [Calls -> Seq(AttemptError)]
    <3> DEFINE errors == Append(attempt_errors[c], e)
    <3>1. errors \in Seq(AttemptError)
      BY <1>1
    <3>2. attempt_errors' = [attempt_errors EXCEPT ![c] = errors]
      BY DEF FailAttempt
    <3> HIDE DEF errors
    <3> QED
      BY <3>1, <3>2 DEF IInv, TypeOK
  <2> QED
    BY <1>2, <2>1 DEF FailAttempt, IInv, TypeOK, Location, Settled
<1>5. Progress(c)'
  BY <1>1, <1>2, <1>3 DEF Progress, Awaiting
<1>6. History(c)'
  <2>1. Task(c) # "running"
    BY AnswersAssumption DEF TimedOut, Unusable
  <2>2. \A i \in 1..attempt[c] :
          \/ attempt_errors'[c][i] = "timeout" /\ TimedOut(tasks[c][i])
          \/ attempt_errors'[c][i] = "malformed_output" /\ Unusable(tasks[c][i])
    <3>1. ASSUME NEW i \in 1..Len(attempt_errors[c])
          PROVE  \/ attempt_errors'[c][i] = "timeout" /\ TimedOut(tasks[c][i])
                 \/ /\ attempt_errors'[c][i] = "malformed_output"
                    /\ Unusable(tasks[c][i])
      BY <1>3, <3>1 DEF IInv, History
    <3>2. \/ attempt_errors'[c][attempt[c]] = "timeout" /\ TimedOut(Task(c))
          \/ /\ attempt_errors'[c][attempt[c]] = "malformed_output"
             /\ Unusable(Task(c))
      BY <1>3
    <3> QED
      BY <1>1, <3>1, <3>2 DEF Task
  <2> QED
    BY <1>1, <1>2, <1>3, <2>1, <2>2 DEF IInv, History, Task, Unusable, TimedOut
<1> QED
  BY <1>2, <1>4, <1>5, <1>6, LocalStep DEF FailAttempt, IInv, TypeOK

(* A timeout, or an unusable answer.                                       *)
LEMMA FailureStep ==
  ASSUME IInv, NEW c \in Calls, AttemptTimesOut(c) \/ AttemptMalformed(c)
  PROVE  IInv'
  BY FailStep
  DEF AttemptTimesOut, AttemptMalformed, TimedOut, Unusable, AttemptError

(* An output, or an exception that is not retried.                         *)
LEMMA EndStep ==
  ASSUME IInv, NEW c \in Calls, AttemptSucceeds(c) \/ AttemptRaises(c)
  PROVE  IInv'
<1>1. TypeOK'
  BY ParsedAssumption
  DEF AttemptSucceeds, AttemptRaises, IInv, TypeOK, Location, Settled
<1>2. Progress(c)'
  BY DEF AttemptSucceeds, AttemptRaises, IInv, TypeOK, Progress, Awaiting
<1>3. History(c)'
  BY ParsedAssumption, AnswersAssumption
  DEF AttemptSucceeds, AttemptRaises, IInv, TypeOK, Progress, History,
      Awaiting, Task
<1> QED
  BY <1>1, <1>2, <1>3, LocalStep
  DEF AttemptSucceeds, AttemptRaises, IInv, TypeOK

(* The call is cancelled, and its client with it.                          *)
LEMMA AbandonStep ==
  ASSUME IInv, NEW c \in Calls, AbandonCall(c)
  PROVE  IInv'
<1> USE Budget
<1>1. /\ attempt[c] \in 1..max_attempts
      /\ Len(attempt_errors[c]) \in {attempt[c] - 1, attempt[c]}
  BY DEF AbandonCall, IInv, TypeOK, Progress, Awaiting
<1>2. TypeOK'
  BY <1>1 DEF AbandonCall, IInv, TypeOK, Location, Settled, TaskState
<1>3. Progress(c)'
  BY <1>1 DEF AbandonCall, IInv, TypeOK, Progress, Awaiting
<1>4. History(c)'
  BY <1>1, AnswersAssumption
  DEF AbandonCall, IInv, TypeOK, Progress, History, Awaiting, Task, Unusable,
      TimedOut
<1> QED
  BY <1>1, <1>2, <1>3, <1>4, LocalStep DEF AbandonCall, IInv, TypeOK

-----------------------------------------------------------------------------
(* The invariant is inductive ...                                          *)
LEMMA StepKeepsIInv ==
  ASSUME IInv, [Next]_vars
  PROVE  IInv'
<1>1. CASE UNCHANGED vars
  BY <1>1 DEF vars, IInv, TypeOK, Progress, History, Task
<1>2. ASSUME NEW c \in Calls, Begin(c) PROVE IInv'
  BY <1>2, StartStep
<1>3. ASSUME NEW c \in Calls, ClientEnds(c) \/ ClientCancelled(c) PROVE IInv'
  BY <1>3, TaskStep
<1>4. ASSUME NEW c \in Calls, AgentStep(c) PROVE IInv'
  BY <1>4, DeadlineStep, FailureStep, EndStep, StartStep DEF AgentStep
<1>5. ASSUME NEW c \in Calls, AbandonCall(c) PROVE IInv'
  BY <1>5, AbandonStep
<1> QED
  BY <1>1, <1>2, <1>3, <1>4, <1>5 DEF Next

(* ... and so holds in every reachable state.                              *)
THEOREM Invariance == Spec => []IInv
<1>1. IInv /\ [Next]_vars => IInv'
  BY StepKeepsIInv
<1> QED
  BY <1>1, InitIInv, PTL DEF Spec

(* Every attempt but the last is in the list of errors.                    *)
LEMMA Behind ==
  ASSUME IInv, NEW c \in Calls
  PROVE  Len(attempt_errors[c]) \in {attempt[c] - 1, attempt[c]} \cap Nat
<1>1. pc[c] \in {"idle", "backoff", "abandoned", "returned", "raised", "failed"}
        \/ pc[c] \in Awaiting
  BY DEF IInv, TypeOK, Location, Settled
<1>2. Len(attempt_errors[c]) \in Nat
  BY DEF IInv, TypeOK
<1> QED
  BY <1>1, <1>2 DEF IInv, Progress

(* The types of the state, for every value of the constants.               *)
THEOREM TypeCorrect == Spec => []TypeOK
<1>1. IInv => TypeOK
  BY DEF IInv
<1> QED
  BY <1>1, Invariance, PTL

(* The list of errors tells, attempt by attempt, what the LLM did          *)
(* (base.py:83-88).                                                        *)
THEOREM ErrorsTellWhatHappened == Spec => []AttemptErrorsTellWhatHappened
<1>1. IInv => AttemptErrorsTellWhatHappened
  <2> SUFFICES ASSUME IInv, NEW c \in Calls, NEW i \in DOMAIN attempt_errors[c]
               PROVE  /\ i <= attempt[c]
                      /\ attempt_errors[c][i] = "timeout" <=>
                           tasks[c][i] \in {"cancelled", "TimeoutError"}
                      /\ attempt_errors[c][i] = "malformed_output" <=>
                           Unusable(tasks[c][i])
    BY DEF AttemptErrorsTellWhatHappened
  <2>1. /\ attempt_errors[c] \in Seq(AttemptError)
        /\ attempt[c] \in Nat
        /\ i \in 1..Len(attempt_errors[c])
    BY Budget DEF IInv, TypeOK
  <2>2. Len(attempt_errors[c]) <= attempt[c]
    BY <2>1, Behind
  <2>3. \/ attempt_errors[c][i] = "timeout" /\ TimedOut(tasks[c][i])
        \/ attempt_errors[c][i] = "malformed_output" /\ Unusable(tasks[c][i])
    BY <2>1 DEF IInv, History
  <2> QED
    BY <2>1, <2>2, <2>3, AnswersAssumption DEF TimedOut, Unusable
<1> QED
  BY <1>1, Invariance, PTL

(* A failure is reported as a timeout if and only if the LLM answered none *)
(* of the attempts (base.py:25-29): what tells a 504 from a 502.           *)
THEOREM TimeoutReasonIsExact == Spec => []TimeoutMeansNeverAnswered
<1>1. IInv => TimeoutMeansNeverAnswered
  <2> SUFFICES ASSUME IInv, NEW c \in Calls, pc[c] = "failed"
               PROVE  failure_reason(attempt_errors[c]) = "timeout" <=>
                        \A k \in 1..max_attempts : tasks[c][k] \notin Answers
    BY DEF TimeoutMeansNeverAnswered
  <2>1. DOMAIN attempt_errors[c] = 1..max_attempts
    BY DEF IInv, TypeOK, Progress
  <2>2. ASSUME NEW k \in 1..max_attempts
        PROVE  attempt_errors[c][k] = "timeout" <=> tasks[c][k] \notin Answers
    <3>1. \/ attempt_errors[c][k] = "timeout" /\ TimedOut(tasks[c][k])
          \/ attempt_errors[c][k] = "malformed_output" /\ Unusable(tasks[c][k])
      BY DEF IInv, TypeOK, Progress, History
    <3> QED
      BY <3>1, AnswersAssumption DEF TimedOut, Unusable
  <2> QED
    BY <2>1, <2>2 DEF failure_reason
<1> QED
  BY <1>1, Invariance, PTL

(* A call has at most one task calling the LLM, the one it is awaiting,    *)
(* and none once it has settled (base.py:78-81).                           *)
THEOREM NoTaskOutlivesItsAttempt == Spec => []NoStrayTask
<1>1. IInv => NoStrayTask
  BY DEF IInv, History, NoStrayTask
<1> QED
  BY <1>1, Invariance, PTL

(* Only timeouts and unusable answers are retried, and the output is that  *)
(* of the first usable answer (base.py:68, 82-92).                         *)
THEOREM RetriesAreJustified == Spec => []OnlyRetryableAttemptsAreRetried
<1>1. IInv => OnlyRetryableAttemptsAreRetried
  <2> SUFFICES ASSUME IInv, NEW c \in Calls
               PROVE  /\ \A k \in 1..max_attempts : k < attempt[c] =>
                           \/ Unusable(tasks[c][k])
                           \/ tasks[c][k] \in {"cancelled", "TimeoutError"}
                      /\ pc[c] = "returned" =>
                           Task(c) \in Answers /\ output[c] = Parsed[Task(c)]
    BY DEF OnlyRetryableAttemptsAreRetried
  <2>1. pc[c] = "returned" => Task(c) \in Answers /\ output[c] = Parsed[Task(c)]
    BY DEF IInv, History
  <2>2. ASSUME NEW k \in 1..max_attempts, k < attempt[c]
        PROVE  k \in 1..Len(attempt_errors[c])
    BY <2>2, Behind, Budget DEF IInv, TypeOK
  <2> QED
    BY <2>1, <2>2 DEF IInv, History, TimedOut
<1> QED
  BY <1>1, Invariance, PTL

-----------------------------------------------------------------------------
(* Refinement.                                                             *)
LEMMA InitRefines == Init => Contract!ContractInit
<1> SUFFICES ASSUME Init PROVE Contract!ContractInit
  OBVIOUS
<1>1. \A c \in Calls : verdictOf(c) = Undecided
  BY DEF Init, verdictOf
<1>2. attempt = [c \in Calls |-> 0]
  BY DEF Init
<1> QED
  BY <1>1, <1>2 DEF Contract!ContractInit, Contract!Undecided, Undecided,
                    Contract!Verdict, Verdict

(* The verdict of c becomes v, and nothing happens to the other calls.     *)
Reaches(c, v) ==
  /\ verdictOf(c) = Undecided
  /\ verdictOf(c)' = v
  /\ \A d \in Calls \ {c} : verdictOf(d)' = verdictOf(d)

(* Calls other than the one that takes a step keep their verdicts.         *)
LEMMA OthersKeepVerdict ==
  ASSUME NEW d \in Calls, pc'[d] = pc[d], output'[d] = output[d],
         attempt_errors'[d] = attempt_errors[d]
  PROVE  verdictOf(d)' = verdictOf(d)
  BY DEF verdictOf

(* A verdict fit for the number of LLM calls made settles the call.        *)
LEMMA SettleStep ==
  ASSUME NEW c \in Calls, NEW v, Reaches(c, v), attempt' = attempt,
         attempt[c] > 0, v \in Contract!VerdictsAfter(attempt[c])
  PROVE  Contract!Settle(c)
  BY DEF Reaches, Contract!Settle, Contract!Undecided, Contract!Verdict,
         Undecided, Verdict

(* Starting an attempt calls the LLM.                                      *)
LEMMA StartRefines ==
  ASSUME IInv, NEW c \in Calls, Begin(c) \/ Retry(c)
  PROVE  Contract!CallLLM(c)
<1> USE Budget
<1>1. PICK k \in 1..max_attempts :
        /\ StartAttempt(c, k)
        /\ k = attempt[c] + 1
        /\ pc[c] \in {"idle", "backoff"}
  BY DEF Begin, Retry, IInv, TypeOK, Progress
<1>2. verdictOf(c) = Undecided /\ verdictOf(c)' = Undecided
  BY <1>1 DEF StartAttempt, IInv, TypeOK, verdictOf
<1>3. \A d \in Calls : verdictOf(d)' = verdictOf(d)
  BY <1>1, <1>2, OthersKeepVerdict DEF StartAttempt, IInv, TypeOK
<1>4. attempt[c] < max_attempts /\ attempt' = [attempt EXCEPT ![c] = attempt[c] + 1]
  BY <1>1 DEF StartAttempt, IInv, TypeOK
<1> QED
  BY <1>2, <1>3, <1>4
  DEF Contract!CallLLM, Contract!Undecided, Contract!Verdict,
      Contract!max_attempts, Undecided, Verdict, max_attempts

(* The deadline, and the client's own steps, do not show.                  *)
LEMMA InnerStepRefines ==
  ASSUME IInv, NEW c \in Calls,
         ClientEnds(c) \/ ClientCancelled(c) \/ DeadlineExpires(c)
  PROVE  UNCHANGED Contract!contractVars
<1>1. ASSUME NEW d \in Calls PROVE verdictOf(d)' = verdictOf(d)
  BY DEF ClientEnds, ClientCancelled, DeadlineExpires, IInv, TypeOK, Awaiting,
         verdictOf
<1>2. attempt' = attempt
  BY DEF ClientEnds, ClientCancelled, DeadlineExpires
<1> QED
  BY <1>1, <1>2 DEF Contract!contractVars

(* A failed attempt does not show, unless it was the last: then the call   *)
(* settles with one error for each LLM call.                               *)
LEMMA FailureRefines ==
  ASSUME IInv, NEW c \in Calls, NEW e \in AttemptError, pc[c] \in Awaiting,
         FailAttempt(c, e)
  PROVE  Contract!Settle(c) \/ UNCHANGED Contract!contractVars
<1> USE Budget
<1> DEFINE errors == Append(attempt_errors[c], e)
<1>1. /\ attempt[c] \in 1..max_attempts
      /\ attempt_errors[c] \in Seq(AttemptError)
      /\ Len(attempt_errors[c]) = attempt[c] - 1
  BY DEF IInv, TypeOK, Progress, Awaiting
<1>2. /\ attempt_errors'[c] = errors
      /\ pc'[c] = IF attempt[c] < max_attempts THEN "backoff" ELSE "failed"
      /\ attempt' = attempt
  BY DEF FailAttempt, IInv, TypeOK
<1>3. errors \in [1..attempt[c] -> AttemptError]
  <2>1. errors \in Seq(AttemptError) /\ Len(errors) = attempt[c]
    BY <1>1
  <2> HIDE DEF errors
  <2> QED
    BY <2>1, LenProperties
<1>4. verdictOf(c) = Undecided
  BY DEF verdictOf, Awaiting
<1>5. \A d \in Calls \ {c} : verdictOf(d)' = verdictOf(d)
  BY OthersKeepVerdict DEF FailAttempt, IInv, TypeOK
<1> HIDE DEF errors
<1>6. CASE attempt[c] < max_attempts
  <2>1. verdictOf(c)' = Undecided
    BY <1>2, <1>6 DEF verdictOf
  <2> QED
    BY <1>2, <1>4, <1>5, <2>1 DEF Contract!contractVars
<1>7. CASE attempt[c] = max_attempts
  <2>1. verdictOf(c)' = Failure(errors)
    BY <1>1, <1>2, <1>7 DEF verdictOf
  <2>2. Failure(errors) \in Contract!VerdictsAfter(attempt[c])
    BY <1>3, <1>7
    DEF Contract!VerdictsAfter, Contract!Failure, Contract!Verdict, Failure,
        Verdict, Contract!AttemptError, AttemptError, Contract!max_attempts,
        max_attempts
  <2>3. Reaches(c, Failure(errors))
    BY <1>4, <1>5, <2>1 DEF Reaches
  <2> QED
    BY <1>1, <1>2, <2>2, <2>3, SettleStep
<1> QED
  BY <1>1, <1>6, <1>7

(* An output settles the call, with an error for each LLM call before it.  *)
LEMMA SuccessRefines ==
  ASSUME IInv, NEW c \in Calls, AttemptSucceeds(c)
  PROVE  Contract!Settle(c)
<1> USE Budget
<1> DEFINE o == Parsed[Task(c)]
           errors == attempt_errors[c]
<1>1. /\ attempt[c] \in 1..max_attempts
      /\ errors \in [1..(attempt[c] - 1) -> AttemptError]
      /\ o \in Outputs
  BY ParsedAssumption DEF AttemptSucceeds, IInv, TypeOK, Progress, Awaiting
<1>2. /\ attempt' = attempt
      /\ verdictOf(c) = Undecided
      /\ verdictOf(c)' = Success(o, errors)
  BY DEF AttemptSucceeds, IInv, TypeOK, Awaiting, verdictOf
<1>3. \A d \in Calls \ {c} : verdictOf(d)' = verdictOf(d)
  BY OthersKeepVerdict DEF AttemptSucceeds, IInv, TypeOK
<1> HIDE DEF o, errors
<1>4. Success(o, errors) \in Contract!VerdictsAfter(attempt[c])
  BY <1>1
  DEF Contract!VerdictsAfter, Contract!Success, Contract!Verdict, Success,
      Verdict, Contract!AttemptError, AttemptError
<1>5. Reaches(c, Success(o, errors))
  BY <1>2, <1>3 DEF Reaches
<1> QED
  BY <1>1, <1>2, <1>4, <1>5, SettleStep

(* An exception settles the call at once.                                  *)
LEMMA RaiseRefines ==
  ASSUME IInv, NEW c \in Calls, AttemptRaises(c)
  PROVE  Contract!Settle(c)
<1> USE Budget
<1>1. attempt[c] > 0 /\ attempt' = attempt
  BY DEF AttemptRaises, IInv, TypeOK, Progress, Awaiting
<1>2. Reaches(c, Raised)
  BY OthersKeepVerdict
  DEF AttemptRaises, IInv, TypeOK, Awaiting, verdictOf, Reaches
<1>3. Raised \in Contract!VerdictsAfter(attempt[c])
  BY DEF Contract!VerdictsAfter, Contract!Raised, Contract!Verdict, Raised,
         Verdict
<1> QED
  BY <1>1, <1>2, <1>3, SettleStep

(* A call that is cancelled is abandoned.                                  *)
LEMMA AbandonRefines ==
  ASSUME IInv, NEW c \in Calls, AbandonCall(c)
  PROVE  Contract!Abandon(c)
<1> USE Budget
<1>1. attempt[c] > 0 /\ attempt' = attempt
  BY DEF AbandonCall, IInv, TypeOK, Progress, Awaiting
<1>2. Reaches(c, Abandoned)
  BY OthersKeepVerdict
  DEF AbandonCall, IInv, TypeOK, Awaiting, verdictOf, Reaches
<1> QED
  BY <1>1, <1>2
  DEF Reaches, Contract!Abandon, Contract!Undecided, Contract!Abandoned,
      Contract!Verdict, Undecided, Abandoned, Verdict

(* The retry loop implements its contract: at most max_attempts calls of   *)
(* the LLM, one verdict, and a verdict that accounts for every call made.  *)
THEOREM Refinement == Spec => KeepsContract
<1>1. IInv /\ [Next]_vars => [Contract!ContractNext]_(Contract!contractVars)
  <2> SUFFICES ASSUME IInv, [Next]_vars
               PROVE  Contract!ContractNext \/ UNCHANGED Contract!contractVars
    OBVIOUS
  <2>1. CASE UNCHANGED vars
    BY <2>1 DEF vars, verdictOf, Contract!contractVars
  <2>2. ASSUME NEW c \in Calls,
               ClientEnds(c) \/ ClientCancelled(c) \/ DeadlineExpires(c)
        PROVE  UNCHANGED Contract!contractVars
    BY <2>2, InnerStepRefines
  <2>3. ASSUME NEW c \in Calls, Begin(c) \/ Retry(c)
        PROVE  Contract!ContractNext
    BY <2>3, StartRefines DEF Contract!ContractNext
  <2>4. ASSUME NEW c \in Calls, AttemptTimesOut(c) \/ AttemptMalformed(c)
        PROVE  Contract!ContractNext \/ UNCHANGED Contract!contractVars
    BY <2>4, FailureRefines
    DEF AttemptTimesOut, AttemptMalformed, AttemptError, Contract!ContractNext
  <2>5. ASSUME NEW c \in Calls, AttemptSucceeds(c) \/ AttemptRaises(c)
        PROVE  Contract!ContractNext
    BY <2>5, SuccessRefines, RaiseRefines DEF Contract!ContractNext
  <2>6. ASSUME NEW c \in Calls, AbandonCall(c)
        PROVE  Contract!ContractNext
    BY <2>6, AbandonRefines DEF Contract!ContractNext
  <2> QED
    BY <2>1, <2>2, <2>3, <2>4, <2>5, <2>6 DEF Next, AgentStep
<1> QED
  BY <1>1, InitRefines, Invariance, PTL
  DEF Spec, KeepsContract, Contract!ContractSpec
=============================================================================
