--------------------------- MODULE AgentContract ---------------------------
(***************************************************************************)
(* What BaseAgent._complete_with_retry promises to its caller, without the *)
(* tasks, deadlines and backoffs it is made of: each call of the agent     *)
(* calls the LLM at most max_attempts times, settles exactly once, and its *)
(* verdict accounts for every call of the LLM it has paid for.             *)
(***************************************************************************)
EXTENDS Verdicts

CONSTANT Calls   \* the calls of the agent

VARIABLES
  llm_calls,   \* llm_calls[c]: how often c has called the LLM
  verdict      \* verdict[c]: how c ended, or Undecided

contractVars == <<llm_calls, verdict>>

(* The verdicts a call may reach once it has called the LLM n times.       *)
VerdictsAfter(n) ==
  {Success(o, e) : o \in Outputs, e \in [1..(n - 1) -> AttemptError]}
    \cup {Raised}
    \cup (IF n = max_attempts THEN {Failure(e) : e \in [1..n -> AttemptError]}
                              ELSE {})

ContractInit ==
  /\ llm_calls = [c \in Calls |-> 0]
  /\ verdict = [c \in Calls |-> Undecided]

CallLLM(c) ==
  /\ verdict[c] = Undecided
  /\ llm_calls[c] < max_attempts
  /\ llm_calls' = [llm_calls EXCEPT ![c] = @ + 1]
  /\ UNCHANGED verdict

Settle(c) ==
  /\ verdict[c] = Undecided
  /\ llm_calls[c] > 0
  /\ \E v \in VerdictsAfter(llm_calls[c]) :
       verdict' = [verdict EXCEPT ![c] = v]
  /\ UNCHANGED llm_calls

Abandon(c) ==
  /\ verdict[c] = Undecided
  /\ llm_calls[c] > 0
  /\ verdict' = [verdict EXCEPT ![c] = Abandoned]
  /\ UNCHANGED llm_calls

ContractNext == \E c \in Calls : CallLLM(c) \/ Settle(c) \/ Abandon(c)

ContractSpec == ContractInit /\ [][ContractNext]_contractVars

(* A call that has begun goes on: it calls the LLM again or settles.       *)
GoOn(c) == llm_calls[c] > 0 /\ (CallLLM(c) \/ Settle(c))

FairContract ==
  ContractSpec /\ \A c \in Calls : WF_contractVars(GoOn(c))
=============================================================================
