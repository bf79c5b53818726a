-------------------------- MODULE TimedAgentProofs --------------------------
(***************************************************************************)
(* Proofs about TimedAgent, for every deadline, backoff, retry budget and  *)
(* number of calls: the loop on the clock is the loop of LLMAgent, whose   *)
(* invariants it inherits, and it keeps its times.                         *)
(***************************************************************************)
EXTENDS TimedAgent, LLMAgentProofs, FiniteSetTheorems, FunctionTheorems

(* Powers of two, from the cardinality of a set of subsets.                *)
LEMMA SubsetsOfInterval ==
  ASSUME NEW n \in Nat
  PROVE  /\ IsFiniteSet(SUBSET (1..n))
         /\ Cardinality(SUBSET (1..n)) = 2 ^ n
<1>1. IsFiniteSet(1..n) /\ Cardinality(1..n) = n
  BY FS_Interval
<1> QED
  BY <1>1, FS_SUBSET

LEMMA PowerIsPositive ==
  ASSUME NEW n \in Nat
  PROVE  2 ^ n \in Nat /\ 2 ^ n >= 1
<1> DEFINE S == SUBSET (1..n)
<1>1. IsFiniteSet(S) /\ Cardinality(S) = 2 ^ n
  BY SubsetsOfInterval
<1>2. Cardinality(S) \in Nat
  BY <1>1, FS_CardinalityType
<1>3. {} \in S
  OBVIOUS
<1>4. Cardinality(S) # 0
  BY <1>1, <1>3, FS_EmptySet
<1> QED
  BY <1>1, <1>2, <1>4

LEMMA PowerDoubles ==
  ASSUME NEW n \in Nat
  PROVE  2 ^ (n + 1) = 2 * 2 ^ n
<1> DEFINE Old == SUBSET (1..n)
           New == {T \cup {n + 1} : T \in Old}
<1>1. IsFiniteSet(Old) /\ Cardinality(Old) = 2 ^ n /\ Cardinality(Old) \in Nat
  BY SubsetsOfInterval, FS_CardinalityType
<1>2. Cardinality(SUBSET (1..(n + 1))) = 2 ^ (n + 1)
  BY SubsetsOfInterval
<1>3. SUBSET (1..(n + 1)) = Old \cup New
  <2>1. ASSUME NEW T \in SUBSET (1..(n + 1)) PROVE T \in Old \cup New
    <3>1. CASE n + 1 \in T
      <4>1. T \ {n + 1} \in Old
        BY <2>1
      <4>2. T = (T \ {n + 1}) \cup {n + 1}
        BY <3>1
      <4> QED
        BY <4>1, <4>2
    <3>2. CASE n + 1 \notin T
      BY <3>2
    <3> QED
      BY <3>1, <3>2
  <2>2. ASSUME NEW T \in Old \cup New PROVE T \in SUBSET (1..(n + 1))
    BY <2>2
  <2> QED
    BY <2>1, <2>2
<1>4. Old \cap New = {}
  BY SMT
<1>5. IsFiniteSet(New) /\ Cardinality(New) = Cardinality(Old)
  <2> DEFINE f == [T \in Old |-> T \cup {n + 1}]
  <2>1. f \in [Old -> New]
    OBVIOUS
  <2>2. \A T, U \in Old : f[T] = f[U] => T = U
    <3> SUFFICES ASSUME NEW T \in Old, NEW U \in Old, f[T] = f[U]
                 PROVE  T = U
      OBVIOUS
    <3>1. n + 1 \notin T /\ n + 1 \notin U
      OBVIOUS
    <3>2. T \cup {n + 1} = U \cup {n + 1}
      OBVIOUS
    <3> QED
      BY <3>1, <3>2
  <2>3. \A V \in New : \E T \in Old : f[T] = V
    OBVIOUS
  <2>4. f \in Bijection(Old, New)
    BY <2>1, <2>2, <2>3, Fun_IsBij
  <2>5. ExistsBijection(Old, New)
    BY <2>4 DEF ExistsBijection
  <2> QED
    BY <2>5, <1>1, FS_Bijection
<1> HIDE DEF Old, New
<1>6. Cardinality(Old \cap New) = 0
  BY <1>4, FS_EmptySet
<1>7. Cardinality(Old \cup New)
        = Cardinality(Old) + Cardinality(New) - Cardinality(Old \cap New)
  BY <1>1, <1>5, FS_Union
<1>8. Cardinality(Old \cup New) = 2 * Cardinality(Old)
  BY <1>1, <1>5, <1>6, <1>7
<1>9. 2 ^ (n + 1) = 2 * Cardinality(Old)
  BY <1>2, <1>3, <1>8
<1> QED
  BY <1>1, <1>9

LEMMA PowerGrows ==
  ASSUME NEW m \in Nat, NEW n \in Nat, m <= n
  PROVE  2 ^ m <= 2 ^ n
<1> DEFINE S(k) == SUBSET (1..k)
<1>1. S(m) \in SUBSET S(n)
  OBVIOUS
<1>2. /\ IsFiniteSet(S(n))
      /\ Cardinality(S(n)) = 2 ^ n /\ Cardinality(S(m)) = 2 ^ m
  BY SubsetsOfInterval
<1> HIDE DEF S
<1>3. Cardinality(S(m)) <= Cardinality(S(n))
  BY <1>1, <1>2, FS_Subset
<1> QED
  BY <1>2, <1>3

-----------------------------------------------------------------------------
(* The longest an attempt can take, the latest moment attempt k can begin  *)
(* at, and the longest a call can take.                                    *)
Span == Timeout + Grace
Latest(k) == (k - 1) * Span + Backoff * (2 ^ (k - 1) - 1)
Longest == max_attempts * Span + Backoff * (2 ^ MaxRetries - 1)

LEMMA ProductOfNaturals ==
  ASSUME NEW a \in Nat, NEW b \in Nat
  PROVE  a * b \in Nat
  OBVIOUS

LEMMA TimesAreNatural ==
  ASSUME NEW k \in Nat, k >= 1
  PROVE  Span \in Nat /\ backoff(k) \in Nat /\ Latest(k) \in Nat
<1> DEFINE p == 2 ^ (k - 1)
<1>1. p \in Nat /\ p >= 1
  BY PowerIsPositive
<1> HIDE DEF p
<1>2. Span \in Nat
  BY TimersAssumption DEF Span
<1>3. Backoff * p \in Nat /\ Backoff * (p - 1) \in Nat /\ (k - 1) * Span \in Nat
  BY <1>1, <1>2, TimersAssumption, ProductOfNaturals
<1>4. backoff(k) = Backoff * p /\ Latest(k) = (k - 1) * Span + Backoff * (p - 1)
  BY DEF p, backoff, Latest
<1> QED
  BY <1>2, <1>3, <1>4

LEMMA LongestIsNatural == Longest \in Nat
<1> DEFINE q == 2 ^ MaxRetries
<1>1. q \in Nat /\ q >= 1
  BY MaxRetriesAssumption, PowerIsPositive
<1>2. Longest = max_attempts * Span + Backoff * (q - 1)
  BY DEF Longest
<1> HIDE DEF q
<1>3. max_attempts * Span \in Nat /\ Backoff * (q - 1) \in Nat
  BY <1>1, Budget, TimersAssumption, ProductOfNaturals DEF Span
<1> QED
  BY <1>2, <1>3

(* An attempt that begins in time, takes its whole span and sleeps its     *)
(* whole backoff is followed by one that begins in time.                   *)
LEMMA LatestStep ==
  ASSUME NEW k \in Nat, k >= 1
  PROVE  Latest(k + 1) = Latest(k) + Span + backoff(k)
<1> DEFINE p == 2 ^ (k - 1)
           q == 2 ^ k
<1>1. p \in Nat
  BY PowerIsPositive
<1>2. 2 ^ ((k - 1) + 1) = 2 * p /\ (k - 1) + 1 = k
  BY PowerDoubles
<1>3. q = 2 * p
  BY <1>2
<1>4. /\ Latest(k) = (k - 1) * Span + Backoff * (p - 1)
      /\ backoff(k) = Backoff * p
  BY DEF Latest, backoff
<1>5. Latest(k + 1) = k * Span + Backoff * (q - 1)
  <2>1. (k + 1) - 1 = k
    OBVIOUS
  <2> QED
    BY <2>1 DEF Latest
<1> HIDE DEF p, q
<1>6. Span \in Nat
  BY TimersAssumption DEF Span
<1>7. Backoff * (2 * p - 1) = Backoff * (p - 1) + Backoff * p
  BY <1>1, TimersAssumption
<1>8. k * Span = (k - 1) * Span + Span
  BY <1>6
<1> QED
  BY <1>1, <1>3, <1>4, <1>5, <1>6, <1>7, <1>8, TimersAssumption

LEMMA LatestFits ==
  ASSUME NEW k \in 1..max_attempts
  PROVE  /\ Latest(k) + Span <= Longest
         /\ k < max_attempts => Latest(k) + Span + backoff(k) <= Longest
<1>1. ASSUME NEW j \in 1..max_attempts PROVE Latest(j) + Span <= Longest
  <2> DEFINE p == 2 ^ (j - 1)
             q == 2 ^ MaxRetries
  <2>1. p \in Nat /\ q \in Nat /\ p <= q /\ p >= 1 /\ max_attempts = MaxRetries + 1
    BY MaxRetriesAssumption, PowerIsPositive, PowerGrows DEF max_attempts
  <2>2. Latest(j) = (j - 1) * Span + Backoff * (p - 1)
    BY DEF Latest
  <2>3. Longest = max_attempts * Span + Backoff * (q - 1)
    BY DEF Longest
  <2> HIDE DEF p, q
  <2>4. Span \in Nat /\ max_attempts \in Nat
    BY TimersAssumption, Budget DEF Span
  <2>5. (max_attempts - j) * Span \in Nat /\ Backoff * (q - p) \in Nat
    BY <2>1, <2>4, TimersAssumption, ProductOfNaturals
  <2>6. (j - 1) * Span + Span + (max_attempts - j) * Span = max_attempts * Span
    BY <2>4
  <2>7. Backoff * (p - 1) + Backoff * (q - p) = Backoff * (q - 1)
    BY <2>1, TimersAssumption
  <2>8. Backoff * (p - 1) \in Nat /\ (j - 1) * Span \in Nat
    BY <2>1, <2>4, TimersAssumption, ProductOfNaturals
  <2> QED
    BY <2>2, <2>3, <2>4, <2>5, <2>6, <2>7, <2>8
<1>2. ASSUME k < max_attempts PROVE Latest(k) + Span + backoff(k) <= Longest
  <2>1. k + 1 \in 1..max_attempts
    BY <1>2, Budget
  <2>2. Latest(k + 1) + Span <= Longest
    BY <1>1, <2>1
  <2>3. Latest(k + 1) = Latest(k) + Span + backoff(k)
    BY LatestStep
  <2>4. Span \in Nat /\ Latest(k) \in Nat /\ backoff(k) \in Nat /\ Longest \in Int
    BY TimesAreNatural, LongestIsNatural
  <2> QED
    BY <2>2, <2>3, <2>4
<1> QED
  BY <1>1, <1>2

-----------------------------------------------------------------------------
(* What the stopwatch and the timer show at each place of the loop.        *)
Clock(c) ==
  LET k == attempt[c]
  IN  /\ pc[c] = "idle" => elapsed[c] = 0
      /\ pc[c] = "calling" =>
           /\ began[c][k] <= Latest(k)
           /\ due[c] = began[c][k] + Timeout
           /\ elapsed[c] >= began[c][k] /\ elapsed[c] <= due[c]
           /\ Task(c) # "cancelled"
      /\ pc[c] = "cancelling" =>
           /\ began[c][k] <= Latest(k)
           /\ due[c] = began[c][k] + Span
           /\ elapsed[c] >= began[c][k] + Timeout /\ elapsed[c] <= due[c]
      /\ pc[c] = "backoff" =>
           /\ over[c][k] <= Latest(k) + Span
           /\ due[c] = over[c][k] + backoff(k)
           /\ elapsed[c] >= over[c][k] /\ elapsed[c] <= due[c]
      /\ pc[c] \in Settled => elapsed[c] <= Longest

(* What the past attempts and the pauses between them have taken.          *)
Timings(c) ==
  /\ \A k \in 1..Len(attempt_errors[c]) :
       tasks[c][k] = "cancelled" => over[c][k] - began[c][k] \in Timeout..Span
  /\ \A k \in 1..max_attempts : 1 < k /\ k <= attempt[c] =>
       began[c][k] = over[c][k - 1] + backoff(k - 1)

ClockTypes ==
  /\ elapsed \in [Calls -> Nat]
  /\ due \in [Calls -> Nat]
  /\ began \in [Calls -> [1..max_attempts -> Nat]]
  /\ over \in [Calls -> [1..max_attempts -> Nat]]

TimedInv == IInv /\ ClockTypes /\ \A c \in Calls : Clock(c) /\ Timings(c)

(* A step of one call that keeps its own part of the invariant keeps it    *)
(* all.                                                                    *)
LEMMA TimedLocalStep ==
  ASSUME TimedInv, NEW c \in Calls, IInv', ClockTypes', Clock(c)', Timings(c)',
         \A d \in Calls \ {c} :
           /\ pc'[d] = pc[d]
           /\ attempt'[d] = attempt[d]
           /\ attempt_errors'[d] = attempt_errors[d]
           /\ tasks'[d] = tasks[d]
           /\ elapsed'[d] = elapsed[d]
           /\ due'[d] = due[d]
           /\ began'[d] = began[d]
           /\ over'[d] = over[d]
  PROVE  TimedInv'
<1>1. ASSUME NEW d \in Calls \ {c} PROVE Clock(d)' /\ Timings(d)'
  BY <1>1 DEF TimedInv, Clock, Timings, Task
<1> QED
  BY <1>1 DEF TimedInv

(* The initial states satisfy the invariant.                               *)
LEMMA TimedInitInv == TimedInit => TimedInv
<1> SUFFICES ASSUME TimedInit PROVE TimedInv
  OBVIOUS
<1>1. IInv
  BY InitIInv DEF TimedInit
<1>2. ClockTypes
  BY DEF TimedInit, ClockTypes
<1>3. ASSUME NEW c \in Calls PROVE Clock(c) /\ Timings(c)
  BY Budget DEF TimedInit, Init, Clock, Timings, Settled
<1> QED
  BY <1>1, <1>2, <1>3 DEF TimedInv

-----------------------------------------------------------------------------
(* Every step of the clocked loop is one of the loop or leaves it alone.   *)
LEMMA TimedStepIsStep == [TimedNext]_timedVars => [Next]_vars
  BY DEF TimedNext, timedVars, vars, Tick, LoopStep, Outside, CallsLLM, CutsOff,
         AttemptFails, AttemptEndsTheCall, Next, AgentStep

(* An attempt begins: when the call does, or when the backoff is over.     *)
LEMMA CallsLLMStep ==
  ASSUME TimedInv, IInv', NEW c \in Calls, CallsLLM(c)
  PROVE  TimedInv'
<1> USE Budget, TimersAssumption
<1>1. PICK k \in 1..max_attempts :
        /\ StartAttempt(c, k)
        /\ k = attempt[c] + 1
        /\ Len(attempt_errors[c]) = attempt[c]
        /\ \/ k = 1 /\ elapsed[c] = 0
           \/ k > 1 /\ pc[c] = "backoff" /\ elapsed[c] >= due[c]
  BY DEF CallsLLM, Begin, Retry, TimerIsOver, TimedInv, IInv, TypeOK, Progress, Clock
<1>2. attempt'[c] = k
  BY <1>1 DEF StartAttempt, TimedInv, IInv, TypeOK
<1>3. /\ due' = [due EXCEPT ![c] = elapsed[c] + Timeout]
      /\ began' = [began EXCEPT ![c][k] = elapsed[c]]
      /\ UNCHANGED <<elapsed, over>>
  BY <1>2 DEF CallsLLM, SetDeadline, SetTimer
<1>4. ClockTypes'
  <2>1. elapsed[c] \in Nat /\ elapsed[c] + Timeout \in Nat
    BY DEF TimedInv, ClockTypes
  <2>2. due' \in [Calls -> Nat]
    BY <1>3, <2>1 DEF TimedInv, ClockTypes
  <2>3. began' \in [Calls -> [1..max_attempts -> Nat]]
    BY <1>3, <2>1 DEF TimedInv, ClockTypes
  <2> QED
    BY <1>3, <2>2, <2>3 DEF TimedInv, ClockTypes
<1>5. elapsed[c] <= Latest(k)
      /\ (k > 1 => elapsed[c] = over[c][k - 1] + backoff(k - 1))
  <2>1. CASE k = 1
    <3>1. Latest(1) \in Nat /\ elapsed[c] = 0
      BY <1>1, <2>1, TimesAreNatural
    <3> QED
      BY <2>1, <3>1
  <2>2. CASE k > 1
    <3>1. attempt[c] = k - 1 /\ k - 1 \in Nat /\ k - 1 >= 1
      BY <1>1, <2>2 DEF TimedInv, IInv, TypeOK
    <3> DEFINE j == attempt[c]
    <3>0. /\ over[c][j] <= Latest(j) + Span
          /\ due[c] = over[c][j] + backoff(j)
          /\ elapsed[c] <= due[c] /\ elapsed[c] >= due[c]
      BY <1>1, <2>2 DEF TimedInv, Clock
    <3>2. /\ over[c][k - 1] <= Latest(k - 1) + Span
          /\ elapsed[c] = over[c][k - 1] + backoff(k - 1)
      BY <3>1, <3>0 DEF TimedInv, ClockTypes
    <3>3. Latest((k - 1) + 1) = Latest(k - 1) + Span + backoff(k - 1)
      BY <3>1, LatestStep
    <3>4. /\ Latest(k - 1) \in Nat /\ backoff(k - 1) \in Nat /\ Span \in Nat
          /\ over[c][k - 1] \in Nat /\ elapsed[c] \in Nat
          /\ (k - 1) + 1 = k
      BY <3>1, TimesAreNatural DEF TimedInv, ClockTypes
    <3> QED
      BY <3>2, <3>3, <3>4
  <2> QED
    BY <2>1, <2>2
<1>6. /\ pc'[c] = "calling"
      /\ attempt_errors'[c] = attempt_errors[c]
      /\ tasks'[c] = [tasks[c] EXCEPT ![k] = "running"]
  BY <1>1 DEF StartAttempt, TimedInv, IInv, TypeOK
<1>7. Clock(c)'
  BY <1>1, <1>2, <1>3, <1>4, <1>5, <1>6
  DEF Clock, Task, Settled, TimedInv, ClockTypes, IInv, TypeOK
<1>8. Timings(c)'
  <2>1. ASSUME NEW j \in 1..Len(attempt_errors[c]), tasks'[c][j] = "cancelled"
        PROVE  over'[c][j] - began'[c][j] \in Timeout..Span
    <3>1. j # k /\ j \in 1..max_attempts
      BY <1>1
    <3>2. began'[c][j] = began[c][j] /\ over'[c][j] = over[c][j]
          /\ tasks[c][j] = "cancelled"
      BY <1>3, <1>6, <2>1, <3>1 DEF TimedInv, ClockTypes, IInv, TypeOK
    <3> QED
      BY <3>2 DEF TimedInv, Timings
  <2>2. ASSUME NEW j \in 1..max_attempts, 1 < j, j <= k
        PROVE  began'[c][j] = over'[c][j - 1] + backoff(j - 1)
    <3>1. CASE j = k
      BY <1>3, <1>5, <2>2, <3>1 DEF TimedInv, ClockTypes
    <3>2. CASE j < k
      <4>1. began[c][j] = over[c][j - 1] + backoff(j - 1)
        BY <1>1, <2>2, <3>2 DEF TimedInv, Timings, IInv, TypeOK
      <4> QED
        BY <1>3, <3>2, <4>1 DEF TimedInv, ClockTypes
    <3> QED
      BY <2>2, <3>1, <3>2
  <2> QED
    BY <1>2, <1>6, <2>1, <2>2 DEF Timings
<1> QED
  BY <1>1, <1>3, <1>4, <1>7, <1>8, TimedLocalStep
  DEF StartAttempt, TimedInv, ClockTypes, IInv, TypeOK

(* The deadline passes: the client has Grace to let go.                    *)
LEMMA CutsOffStep ==
  ASSUME TimedInv, IInv', NEW c \in Calls, CutsOff(c)
  PROVE  TimedInv'
<1> DEFINE k == attempt[c]
<1>1. /\ pc[c] = "calling"
      /\ k \in 1..max_attempts
      /\ pc' = [pc EXCEPT ![c] = "cancelling"]
      /\ due' = [due EXCEPT ![c] = elapsed[c] + Grace]
      /\ UNCHANGED <<attempt, attempt_errors, tasks, elapsed, began, over>>
  BY Budget DEF CutsOff, DeadlineExpires, SetTimer, TimedInv, IInv, TypeOK, Progress
<1>2. /\ elapsed[c] \in Nat /\ elapsed[c] + Grace \in Nat
      /\ began[c][k] \in Nat /\ due[c] \in Nat
  <2>1. elapsed[c] \in Nat /\ due[c] \in Nat
    BY DEF TimedInv, ClockTypes
  <2>2. began[c][k] \in Nat
    BY <1>1 DEF TimedInv, ClockTypes
  <2> QED
    BY <2>1, <2>2, TimersAssumption
<1>3. elapsed[c] = began[c][k] + Timeout /\ began[c][k] <= Latest(k)
  <2>1. elapsed[c] >= due[c]
    BY DEF CutsOff, TimerIsOver
  <2> QED
    BY <1>1, <1>2, <2>1, TimersAssumption DEF TimedInv, Clock
<1>4. ClockTypes'
  BY <1>1, <1>2 DEF TimedInv, ClockTypes
<1>5. Clock(c)'
  <2>1. pc'[c] = "cancelling" /\ due'[c] = elapsed[c] + Grace
    BY <1>1 DEF TimedInv, ClockTypes, IInv, TypeOK
  <2> QED
    BY <1>1, <1>2, <1>3, <2>1, TimersAssumption DEF Clock, Span, Settled
<1>6. Timings(c)'
  BY <1>1 DEF TimedInv, Timings
<1> QED
  BY <1>1, <1>4, <1>5, <1>6, TimedLocalStep DEF TimedInv, ClockTypes, IInv, TypeOK

(* An attempt fails, within its span.                                      *)
LEMMA AttemptFailsStep ==
  ASSUME TimedInv, IInv', NEW c \in Calls, AttemptFails(c)
  PROVE  TimedInv'
<1> DEFINE k == attempt[c]
<1>1. /\ pc[c] \in Awaiting
      /\ k \in 1..max_attempts
      /\ Len(attempt_errors[c]) = k - 1
  BY Budget DEF AttemptFails, AttemptTimesOut, AttemptMalformed, TimedInv, IInv,
                TypeOK, Progress, Awaiting
<1>2. PICK e \in AttemptError : FailAttempt(c, e)
  BY DEF AttemptFails, AttemptTimesOut, AttemptMalformed, AttemptError
<1>3. /\ due' = [due EXCEPT ![c] = elapsed[c] + backoff(k)]
      /\ over' = [over EXCEPT ![c][k] = elapsed[c]]
      /\ UNCHANGED <<attempt, tasks, elapsed, began>>
      /\ pc' = [pc EXCEPT ![c] = IF k < max_attempts THEN "backoff" ELSE "failed"]
      /\ attempt_errors' = [attempt_errors EXCEPT ![c] = Append(@, e)]
  BY <1>2 DEF AttemptFails, SetTimer, FailAttempt
<1>4. /\ elapsed[c] \in Nat /\ began[c][k] \in Nat /\ due[c] \in Nat
      /\ backoff(k) \in Nat /\ Latest(k) \in Nat /\ Span \in Nat
      /\ elapsed[c] + backoff(k) \in Nat
  <2>1. elapsed[c] \in Nat /\ began[c][k] \in Nat /\ due[c] \in Nat
    BY <1>1 DEF TimedInv, ClockTypes
  <2>2. backoff(k) \in Nat /\ Latest(k) \in Nat /\ Span \in Nat
    BY <1>1, TimesAreNatural
  <2> QED
    BY <2>1, <2>2
<1>5. /\ began[c][k] <= Latest(k)
      /\ elapsed[c] - began[c][k] <= Span
      /\ tasks[c][k] = "cancelled" => elapsed[c] - began[c][k] >= Timeout
  <2>1. Clock(c)
    BY DEF TimedInv
  <2>2. CASE pc[c] = "calling"
    <3>1. /\ began[c][k] <= Latest(k) /\ Task(c) # "cancelled"
          /\ elapsed[c] <= began[c][k] + Timeout
      BY <2>1, <2>2 DEF Clock
    <3>2. tasks[c][k] # "cancelled"
      BY <3>1 DEF Task
    <3> QED
      BY <1>4, <3>1, <3>2, TimersAssumption DEF Span
  <2>3. CASE pc[c] = "cancelling"
    <3>1. /\ began[c][k] <= Latest(k)
          /\ elapsed[c] >= began[c][k] + Timeout
          /\ elapsed[c] <= began[c][k] + Span
      BY <2>1, <2>3 DEF Clock
    <3> QED
      BY <1>4, <3>1, TimersAssumption
  <2> QED
    BY <1>1, <2>2, <2>3 DEF Awaiting
<1>6. ClockTypes'
  <2>1. due' \in [Calls -> Nat]
    BY <1>3, <1>4 DEF TimedInv, ClockTypes
  <2>2. over' \in [Calls -> [1..max_attempts -> Nat]]
    BY <1>3, <1>4 DEF TimedInv, ClockTypes
  <2> QED
    BY <1>3, <2>1, <2>2 DEF TimedInv, ClockTypes
<1>7. /\ pc'[c] = IF k < max_attempts THEN "backoff" ELSE "failed"
      /\ due'[c] = elapsed[c] + backoff(k)
      /\ over'[c] = [over[c] EXCEPT ![k] = elapsed[c]]
      /\ over'[c][k] = elapsed[c]
      /\ attempt_errors'[c] = Append(attempt_errors[c], e)
      /\ attempt'[c] = k /\ elapsed'[c] = elapsed[c]
      /\ tasks'[c] = tasks[c] /\ began'[c] = began[c]
  BY <1>1, <1>3 DEF TimedInv, ClockTypes, IInv, TypeOK
<1>8. Clock(c)'
  <2>1. CASE k < max_attempts
    BY <1>4, <1>5, <1>7, <2>1 DEF Clock, Settled
  <2>2. CASE ~(k < max_attempts)
    <3>1. Latest(k) + Span <= Longest
      BY <1>1, LatestFits
    <3>2. Longest \in Int
      BY LongestIsNatural
    <3> QED
      BY <1>4, <1>5, <1>7, <2>2, <3>1, <3>2 DEF Clock, Settled
  <2> QED
    BY <2>1, <2>2
<1>9. Timings(c)'
  <2>1. Len(attempt_errors'[c]) = k
    BY <1>1, <1>2, <1>7 DEF TimedInv, IInv, TypeOK
  <2>2. ASSUME NEW j \in 1..k, tasks[c][j] = "cancelled"
        PROVE  over'[c][j] - began[c][j] \in Timeout..Span
    <3>1. CASE j = k
      BY <1>4, <1>5, <1>7, <2>2, <3>1, TimersAssumption
    <3>2. CASE j # k
      <4>1. j \in 1..Len(attempt_errors[c]) /\ j \in 1..max_attempts
        BY <1>1, <3>2, Budget
      <4>2. over'[c][j] = over[c][j]
        BY <1>7, <3>2, <4>1 DEF TimedInv, ClockTypes
      <4> QED
        BY <2>2, <4>1, <4>2 DEF TimedInv, Timings
    <3> QED
      BY <3>1, <3>2
  <2>3. ASSUME NEW j \in 1..max_attempts, 1 < j, j <= k
        PROVE  began[c][j] = over'[c][j - 1] + backoff(j - 1)
    <3>1. over'[c][j - 1] = over[c][j - 1]
      BY <1>1, <1>7, <2>3 DEF TimedInv, ClockTypes
    <3> QED
      BY <2>3, <3>1 DEF TimedInv, Timings
  <2> QED
    BY <1>7, <2>1, <2>2, <2>3 DEF Timings
<1> QED
  BY <1>3, <1>6, <1>8, <1>9, TimedLocalStep DEF TimedInv, ClockTypes, IInv, TypeOK

(* A call under way has not taken longer than the longest call.            *)
LEMMA InProgressIsInTime ==
  ASSUME TimedInv, NEW c \in Calls, InProgress(c)
  PROVE  elapsed[c] <= Longest
<1> DEFINE k == attempt[c]
<1>1. k \in 1..max_attempts /\ (pc[c] = "backoff" => k < max_attempts)
  BY Budget DEF InProgress, TimedInv, IInv, TypeOK, Progress, Awaiting
<1>2. /\ elapsed[c] \in Nat /\ began[c][k] \in Nat /\ over[c][k] \in Nat
      /\ due[c] \in Nat
  BY <1>1 DEF TimedInv, ClockTypes
<1>3. backoff(k) \in Nat /\ Latest(k) \in Nat /\ Span \in Nat /\ Longest \in Nat
  BY <1>1, TimesAreNatural, LongestIsNatural
<1>4. /\ Latest(k) + Span <= Longest
      /\ k < max_attempts => Latest(k) + Span + backoff(k) <= Longest
  BY <1>1, LatestFits
<1>5. CASE pc[c] \in Awaiting
  <2>1. elapsed[c] <= began[c][k] + Span /\ began[c][k] <= Latest(k)
    BY <1>2, <1>5, TimersAssumption DEF TimedInv, Clock, Awaiting, Span
  <2> QED
    BY <1>2, <1>3, <1>4, <2>1
<1>6. CASE pc[c] = "backoff"
  <2>1. elapsed[c] <= over[c][k] + backoff(k) /\ over[c][k] <= Latest(k) + Span
    BY <1>2, <1>6 DEF TimedInv, Clock
  <2> QED
    BY <1>1, <1>2, <1>3, <1>4, <1>6, <2>1
<1> QED
  BY <1>5, <1>6 DEF InProgress

(* An attempt settles the call.                                            *)
LEMMA AttemptEndsTheCallStep ==
  ASSUME TimedInv, IInv', NEW c \in Calls, AttemptEndsTheCall(c)
  PROVE  TimedInv'
<1>1. /\ pc[c] \in Awaiting
      /\ \/ pc' = [pc EXCEPT ![c] = "returned"]
         \/ pc' = [pc EXCEPT ![c] = "raised"]
      /\ UNCHANGED <<attempt, attempt_errors, tasks, elapsed, due, began, over>>
  BY DEF AttemptEndsTheCall, AttemptSucceeds, AttemptRaises
<1>2. elapsed[c] <= Longest
  BY <1>1, InProgressIsInTime DEF InProgress
<1>3. ClockTypes'
  BY <1>1 DEF TimedInv, ClockTypes
<1>4. Clock(c)'
  BY <1>1, <1>2 DEF Clock, TimedInv, IInv, TypeOK
<1>5. Timings(c)'
  BY <1>1 DEF TimedInv, Timings
<1> QED
  BY <1>1, <1>3, <1>4, <1>5, TimedLocalStep DEF TimedInv, IInv, TypeOK

(* The client ends, or the call is cancelled: the errors booked so far are *)
(* of attempts whose tasks had ended.                                      *)
LEMMA OutsideStep ==
  ASSUME TimedInv, IInv', NEW c \in Calls, Outside(c)
  PROVE  TimedInv'
<1> DEFINE k == attempt[c]
<1>1. /\ k \in 1..max_attempts
      /\ InProgress(c)
      /\ UNCHANGED <<attempt, attempt_errors, elapsed, due, began, over>>
      /\ \A d \in Calls \ {c} : pc'[d] = pc[d] /\ tasks'[d] = tasks[d]
  BY Budget DEF Outside, ClientEnds, ClientCancelled, AbandonCall, TimedInv, IInv,
                TypeOK, Progress, Awaiting, InProgress
<1>2. ClockTypes'
  BY <1>1 DEF TimedInv, ClockTypes
<1>3. ASSUME NEW j \in 1..Len(attempt_errors[c])
      PROVE  tasks'[c][j] = tasks[c][j]
  <2>1. /\ pc[c] \in Awaiting => Len(attempt_errors[c]) = k - 1
        /\ pc[c] = "backoff" => Len(attempt_errors[c]) = k
        /\ pc[c] \in Awaiting \/ pc[c] = "backoff"
    BY <1>1 DEF InProgress, TimedInv, IInv, Progress
  <2>2. j \in 1..max_attempts
    BY <1>1, <2>1, Budget
  <2>3. tasks[c][j] = "running" => pc[c] \in Awaiting /\ j = k
    BY <2>2 DEF TimedInv, IInv, History
  <2>4. tasks[c][j] # "running"
    BY <1>1, <2>1, <2>3
  <2>5. \/ tasks' = tasks
        \/ \E o : tasks' = [tasks EXCEPT ![c][k] = o] /\ tasks[c][k] = "running"
    <3>1. CASE AbandonCall(c)
      BY <3>1 DEF AbandonCall, TimedInv, IInv, TypeOK
    <3>2. CASE ClientEnds(c) \/ ClientCancelled(c)
      BY <3>2 DEF ClientEnds, ClientCancelled, Task
    <3> QED
      BY <3>1, <3>2 DEF Outside
  <2>6. ASSUME NEW o, tasks' = [tasks EXCEPT ![c][k] = o], tasks[c][k] = "running"
        PROVE  tasks'[c][j] = tasks[c][j]
    <3>1. j # k
      BY <2>4, <2>6
    <3>2. tasks \in [Calls -> [1..max_attempts -> TaskState]]
      BY DEF TimedInv, IInv, TypeOK
    <3> QED
      BY <1>1, <2>2, <2>6, <3>1, <3>2
  <2> QED
    BY <2>5, <2>6
<1>4. Timings(c)'
  BY <1>1, <1>3 DEF TimedInv, Timings
<1>5. Clock(c)'
  <2>1. CASE AbandonCall(c)
    <3>1. elapsed[c] <= Longest
      BY <1>1, InProgressIsInTime
    <3>2. pc'[c] = "abandoned"
      BY <2>1 DEF AbandonCall, TimedInv, IInv, TypeOK
    <3> QED
      BY <1>1, <3>1, <3>2 DEF Clock
  <2>2. CASE ClientCancelled(c)
    <3>1. pc[c] = "cancelling" /\ pc' = pc
      BY <2>2 DEF ClientCancelled
    <3> QED
      BY <1>1, <3>1 DEF Clock, TimedInv, Settled
  <2>3. CASE ClientEnds(c)
    <3>1. pc[c] \in Awaiting /\ pc' = pc
      BY <2>3 DEF ClientEnds
    <3>2. tasks'[c][k] # "cancelled"
      BY <1>1, <2>3, AnswersAssumption
      DEF ClientEnds, ClientOutcome, TimedInv, IInv, TypeOK
    <3> QED
      BY <1>1, <3>1, <3>2 DEF Clock, TimedInv, Settled, Awaiting, Task
  <2> QED
    BY <2>1, <2>2, <2>3 DEF Outside
<1> QED
  BY <1>1, <1>2, <1>4, <1>5, TimedLocalStep

(* Time passes, and passes by no timer.                                    *)
LEMMA TickStep ==
  ASSUME TimedInv, IInv', Tick
  PROVE  TimedInv'
<1>1. UNCHANGED <<pc, attempt, attempt_errors, tasks, due, began, over>>
  BY DEF Tick, vars
<1>2. ASSUME NEW c \in Calls
      PROVE  elapsed'[c] = elapsed[c] + IF InProgress(c) THEN 1 ELSE 0
  BY <1>2 DEF Tick
<1>3. ClockTypes'
  <2>1. \A c \in Calls : elapsed[c] + (IF InProgress(c) THEN 1 ELSE 0) \in Nat
    BY DEF TimedInv, ClockTypes
  <2>2. elapsed' \in [Calls -> Nat]
    BY <2>1 DEF Tick
  <2> QED
    BY <1>1, <2>2 DEF TimedInv, ClockTypes
<1>4. ASSUME NEW c \in Calls PROVE Clock(c)'
  <2>1. elapsed[c] \in Nat /\ due[c] \in Nat
    BY DEF TimedInv, ClockTypes
  <2>2. CASE InProgress(c)
    <3>1. elapsed'[c] = elapsed[c] + 1 /\ elapsed[c] < due[c]
      BY <1>2, <2>1, <2>2 DEF Tick, Urgent, TimerIsOver
    <3>2. pc[c] \notin Settled \cup {"idle"}
      BY <2>2 DEF InProgress, Awaiting, Settled
    <3>3. /\ Latest(attempt[c]) \in Nat /\ began[c][attempt[c]] \in Nat
          /\ over[c][attempt[c]] \in Nat
      <4>1. attempt[c] \in 1..max_attempts
        BY <2>2, Budget DEF InProgress, TimedInv, IInv, TypeOK, Progress, Awaiting
      <4>2. Latest(attempt[c]) \in Nat
        BY <4>1, TimesAreNatural
      <4> QED
        BY <4>1, <4>2 DEF TimedInv, ClockTypes
    <3> QED
      BY <1>1, <2>1, <3>1, <3>2, <3>3, TimersAssumption DEF Clock, TimedInv, Task
  <2>3. CASE ~InProgress(c)
    <3>1. elapsed'[c] = elapsed[c]
      BY <1>2, <2>1, <2>3
    <3> QED
      BY <1>1, <3>1 DEF Clock, TimedInv, Task
  <2> QED
    BY <2>2, <2>3
<1>5. ASSUME NEW c \in Calls PROVE Timings(c)'
  BY <1>1 DEF TimedInv, Timings
<1> QED
  BY <1>3, <1>4, <1>5 DEF TimedInv

-----------------------------------------------------------------------------
Timed == TimedInit /\ [][TimedNext]_timedVars

LEMMA TimedInvariance == Timed => []TimedInv
<1>1. TimedInv /\ [TimedNext]_timedVars => TimedInv'
  <2> SUFFICES ASSUME TimedInv, [TimedNext]_timedVars PROVE TimedInv'
    OBVIOUS
  <2>1. IInv'
    BY TimedStepIsStep, StepKeepsIInv DEF TimedInv
  <2>2. CASE Tick
    BY <2>1, <2>2, TickStep
  <2>3. ASSUME NEW c \in Calls, LoopStep(c) \/ Outside(c) PROVE TimedInv'
    <3>1. CASE CallsLLM(c)
      BY <2>1, <3>1, CallsLLMStep
    <3>2. CASE CutsOff(c)
      BY <2>1, <3>2, CutsOffStep
    <3>3. CASE AttemptFails(c)
      BY <2>1, <3>3, AttemptFailsStep
    <3>4. CASE AttemptEndsTheCall(c)
      BY <2>1, <3>4, AttemptEndsTheCallStep
    <3>5. CASE Outside(c)
      BY <2>1, <3>5, OutsideStep
    <3> QED
      BY <2>3, <3>1, <3>2, <3>3, <3>4, <3>5 DEF LoopStep
  <2>4. CASE UNCHANGED timedVars
    BY <2>1, <2>4 DEF timedVars, vars, TimedInv, ClockTypes, Clock, Timings, Task
  <2> QED
    BY <2>2, <2>3, <2>4 DEF TimedNext
<1> QED
  BY <1>1, TimedInitInv, PTL DEF Timed

(* The loop on the clock is the loop of LLMAgent, so that whatever is      *)
(* proved of that one holds of this one too.                               *)
THEOREM TimedRefinesLoop == TimedSpec => Spec
<1>1. TimedInit => Init
  BY DEF TimedInit
<1> QED
  BY <1>1, TimedStepIsStep, PTL DEF TimedSpec, Spec

(* So it keeps the contract: the safety half of KeepsFairContract.         *)
THEOREM TimedKeepsContract == TimedSpec => KeepsContract
  BY TimedRefinesLoop, Refinement

(* A call settles within its deadlines and backoffs, for every setting of  *)
(* the three of them.                                                      *)
THEOREM CallsSettleInTime == TimedSpec => []SettlesInTime
<1>1. TimedInv => SettlesInTime
  <2> SUFFICES ASSUME TimedInv, NEW c \in Calls PROVE elapsed[c] <= Longest
    BY DEF SettlesInTime, Longest, Span
  <2>1. CASE InProgress(c)
    BY <2>1, InProgressIsInTime
  <2>2. CASE pc[c] = "idle"
    BY <2>2, LongestIsNatural DEF TimedInv, Clock
  <2>3. CASE pc[c] \in Settled
    BY <2>3 DEF TimedInv, Clock
  <2> QED
    BY <2>1, <2>2, <2>3 DEF InProgress, TimedInv, IInv, TypeOK, Location
<1> QED
  BY <1>1, TimedInvariance, PTL DEF TimedSpec, Timed

(* Every attempt has its own deadline, whole, and the pauses double.       *)
THEOREM AttemptsHaveTheirTime == TimedSpec => []EachAttemptHasItsTime
<1>1. TimedInv => EachAttemptHasItsTime
  <2> SUFFICES ASSUME TimedInv, NEW c \in Calls, NEW k \in 1..attempt[c]
      PROVE  /\ k <= Len(attempt_errors[c]) /\ tasks[c][k] = "cancelled" =>
                  over[c][k] - began[c][k] \in Timeout..(Timeout + Grace)
             /\ k > 2 => began[c][k] - over[c][k - 1]
                           >= 2 * (began[c][k - 1] - over[c][k - 2])
    BY DEF EachAttemptHasItsTime
  <2>1. k \in 1..max_attempts /\ Len(attempt_errors[c]) \in Nat
    BY Budget DEF TimedInv, IInv, TypeOK
  <2>2. ASSUME k <= Len(attempt_errors[c]), tasks[c][k] = "cancelled"
        PROVE  over[c][k] - began[c][k] \in Timeout..(Timeout + Grace)
    BY <2>1, <2>2 DEF TimedInv, Timings, Span
  <2>3. ASSUME k > 2
        PROVE  began[c][k] - over[c][k - 1] >= 2 * (began[c][k - 1] - over[c][k - 2])
    <3>1. k - 1 \in 1..max_attempts /\ k - 2 \in 1..max_attempts /\ (k - 1) - 1 = k - 2
      BY <2>1, <2>3, Budget
    <3>2. began[c][k] = over[c][k - 1] + backoff(k - 1)
      BY <2>1, <2>3 DEF TimedInv, Timings
    <3>3. k - 1 <= attempt[c] /\ 1 < k - 1
      BY <2>1, <2>3 DEF TimedInv, IInv, TypeOK
    <3>4. began[c][k - 1] = over[c][(k - 1) - 1] + backoff((k - 1) - 1)
      BY <3>1, <3>3 DEF TimedInv, Timings
    <3>5. backoff(k - 1) = 2 * backoff(k - 2)
      <4> DEFINE p == 2 ^ (k - 3)
      <4>1. p \in Nat /\ 2 ^ ((k - 3) + 1) = 2 * p
        BY <2>3, PowerIsPositive, PowerDoubles
      <4>2. (k - 3) + 1 = k - 2 /\ (k - 1) - 1 = k - 2 /\ (k - 2) - 1 = k - 3
        OBVIOUS
      <4>3. backoff(k - 2) = Backoff * p
        BY <4>2 DEF backoff
      <4>4. backoff(k - 1) = Backoff * (2 * p)
        BY <4>1, <4>2 DEF backoff
      <4> HIDE DEF p
      <4> QED
        BY <4>1, <4>3, <4>4, TimersAssumption
    <3>6. /\ over[c][k - 1] \in Nat /\ over[c][k - 2] \in Nat
          /\ backoff(k - 1) \in Nat /\ backoff(k - 2) \in Nat
      <4>1. over[c][k - 1] \in Nat /\ over[c][k - 2] \in Nat
        BY <3>1 DEF TimedInv, ClockTypes
      <4>2. backoff(k - 1) \in Nat /\ backoff(k - 2) \in Nat
        BY <3>1, TimesAreNatural
      <4> QED
        BY <4>1, <4>2
    <3> QED
      BY <3>1, <3>2, <3>4, <3>5, <3>6
  <2> QED
    BY <2>2, <2>3
<1> QED
  BY <1>1, TimedInvariance, PTL DEF TimedSpec, Timed
=============================================================================
