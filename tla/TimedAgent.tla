----------------------------- MODULE TimedAgent -----------------------------
(***************************************************************************)
(* The retry loop of LLMAgent on a clock: the deadline of each attempt and *)
(* the backoff between two of them (source/agents/base.py:76-95) are       *)
(* timers, and time passes only while the loop has nothing left to do.     *)
(* LLMAgent says in which order things happen, this module adds when.      *)
(*                                                                         *)
(* A call has a stopwatch, which runs from its first call of the LLM until *)
(* it settles.  The loop's own code takes no time, so what is bounded here *)
(* is the time it waits, the one the settings decide about.                *)
(***************************************************************************)
EXTENDS LLMAgent

CONSTANTS
  Timeout,   \* LLM_TIMEOUT_SECONDS
  Backoff,   \* LLM_RETRY_BACKOFF_SECONDS
  Grace      \* what a cancelled client may take to let go: no time, if it awaits

ASSUME TimersAssumption == Timeout \in Nat \ {0} /\ Backoff \in Nat /\ Grace \in Nat

VARIABLES
  elapsed,   \* the stopwatch of each call
  due,       \* when the timer it set goes off
  began,     \* began[c][k]: when its attempt k called the LLM
  over       \* over[c][k]: when that attempt had failed, or 0

timedVars == <<vars, elapsed, due, began, over>>

TimedInit ==
  /\ Init
  /\ elapsed = [c \in Calls |-> 0]
  /\ due = [c \in Calls |-> 0]
  /\ began = [c \in Calls |-> [k \in 1..max_attempts |-> 0]]
  /\ over = [c \in Calls |-> [k \in 1..max_attempts |-> 0]]

SetTimer(c, span) == due' = [due EXCEPT ![c] = elapsed[c] + span]

TimerIsOver(c) == elapsed[c] >= due[c]

(* Fault: the exponent counts from the wrong attempt.                      *)
backoff_offByOne(k) == Backoff * 2 ^ k

(* How long the loop sleeps after its attempt k has failed.                *)
backoff(k) == Backoff * 2 ^ (k - 1)

-----------------------------------------------------------------------------
(* Fault: one deadline for the call instead of one for each attempt.       *)
SetDeadline_shared(c) ==
  IF attempt[c] = 0 THEN SetTimer(c, Timeout) ELSE UNCHANGED due

(* wait_for starts its timer along with the client.                        *)
SetDeadline(c) == SetTimer(c, Timeout)

CallsLLM(c) ==
  /\ Begin(c) \/ (TimerIsOver(c) /\ Retry(c))
  /\ SetDeadline(c)
  /\ began' = [began EXCEPT ![c][attempt'[c]] = elapsed[c]]
  /\ UNCHANGED <<elapsed, over>>

(* The timer of wait_for goes off; the client has Grace to let go.         *)
CutsOff(c) ==
  /\ TimerIsOver(c)
  /\ DeadlineExpires(c)
  /\ SetTimer(c, Grace)
  /\ UNCHANGED <<elapsed, began, over>>

(* An attempt fails and, unless it was the last, the loop goes to sleep.   *)
AttemptFails(c) ==
  /\ AttemptTimesOut(c) \/ AttemptMalformed(c)
  /\ SetTimer(c, backoff(attempt[c]))
  /\ over' = [over EXCEPT ![c][attempt[c]] = elapsed[c]]
  /\ UNCHANGED <<elapsed, began>>

AttemptEndsTheCall(c) ==
  /\ AttemptSucceeds(c) \/ AttemptRaises(c)
  /\ UNCHANGED <<elapsed, due, began, over>>

(* What others do: the client, and whoever cancels the call.               *)
Outside(c) ==
  /\ ClientEnds(c) \/ ClientCancelled(c) \/ AbandonCall(c)
  /\ UNCHANGED <<elapsed, due, began, over>>

LoopStep(c) == CallsLLM(c) \/ CutsOff(c) \/ AttemptFails(c) \/ AttemptEndsTheCall(c)

-----------------------------------------------------------------------------
InProgress(c) == pc[c] \in Awaiting \cup {"backoff"}

(* The loop, or a client that is out of time, has something to do now.     *)
Urgent(c) ==
  \/ TimerIsOver(c)
  \/ pc[c] \in Awaiting /\ Task(c) # "running"

Tick ==
  /\ \E c \in Calls : InProgress(c)
  /\ \A c \in Calls : InProgress(c) => ~Urgent(c)
  /\ elapsed' = [c \in Calls |-> elapsed[c] + IF InProgress(c) THEN 1 ELSE 0]
  /\ UNCHANGED <<vars, due, began, over>>

TimedNext == Tick \/ \E c \in Calls : LoopStep(c) \/ Outside(c)

(***************************************************************************)
(* Time passes, the event loop runs what is ready, and a cancelled client  *)
(* lets go.  Nobody has to call, and the LLM need never answer.            *)
(***************************************************************************)
TimedSpec ==
  /\ TimedInit /\ [][TimedNext]_timedVars
  /\ WF_timedVars(Tick)
  /\ \A c \in Calls :
       /\ WF_timedVars(attempt[c] > 0 /\ LoopStep(c))
       /\ WF_timedVars(ClientCancelled(c) /\ Outside(c))

-----------------------------------------------------------------------------
(* config/__init__.py:24-28: however the attempts go, a call is over after *)
(* its attempts' deadlines and the backoffs between them, B, 2B, 4B, ...   *)
(* which sum up to B * (2^R - 1).                                          *)
SettlesInTime ==
  \A c \in Calls :
    elapsed[c] <= max_attempts * (Timeout + Grace) + Backoff * (2 ^ MaxRetries - 1)

(* base.py:76-81: an attempt cut off was given its whole deadline, however *)
(* much the attempts and backoffs before it have taken, and its retry came *)
(* no sooner than twice the pause before.                                  *)
EachAttemptHasItsTime ==
  \A c \in Calls : \A k \in 1..attempt[c] :
    /\ k <= Len(attempt_errors[c]) /\ tasks[c][k] = "cancelled" =>
         over[c][k] - began[c][k] \in Timeout..(Timeout + Grace)
    /\ k > 2 =>
         began[c][k] - over[c][k - 1] >= 2 * (began[c][k - 1] - over[c][k - 2])

(* The loop keeps the contract, and the liveness the service builds on: a  *)
(* call goes on to another attempt or settles, whatever the LLM does.      *)
KeepsFairContract == Contract!FairContract
=============================================================================
