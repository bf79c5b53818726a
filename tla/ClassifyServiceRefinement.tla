---------------------- MODULE ClassifyServiceRefinement ----------------------
(***************************************************************************)
(* Proofs about the steps of ClassifyService: the service implements       *)
(* RecordBook, its stores only grow, and its handlers only advance.        *)
(***************************************************************************)
EXTENDS ClassifyServiceProofs

(***************************************************************************)
(* What has to be known beyond IInv: a handler that is about to write has  *)
(* not written yet, and only a GET asks for a record.                      *)
(***************************************************************************)
Unwritten(r) ==
  /\ stage[r] = "saving" => \A s \in Stores : r \notin DOMAIN records[s]
  /\ stage[r] \in {"logging", "relogging"} =>
       \A s \in Stores : r \notin DOMAIN api_log[s]

Targeted(r) ==
  request[r] # None => (request[r].target # None <=> request[r].kind = "fetch")

StepInv == IInv /\ \A r \in Calls : Unwritten(r) /\ Targeted(r)

-----------------------------------------------------------------------------
LEMMA NoneIsNoCall == None \notin Calls
  BY NoneAssumption

(* What a step of the handler of r, or of the database for it, may write.  *)
Appends(r) ==
  \A s \in Stores :
    /\ Grown(records[s], records'[s])
    /\ DOMAIN records'[s] \subseteq DOMAIN records[s] \cup {r}
    /\ Grown(api_log[s], api_log'[s])
    /\ DOMAIN api_log'[s] \subseteq DOMAIN api_log[s] \cup {r}

LEMMA QuietAppends ==
  ASSUME NEW r \in Calls, records' = records, api_log' = api_log
  PROVE  Appends(r)
  BY DEF Appends, Grown

LEMMA RecordAppends ==
  ASSUME IInv, NEW r \in Calls, record[r] # None,
         r \notin DOMAIN records[StoreOf(r)],
         records' = [records EXCEPT ![StoreOf(r)] =
           Put(@, record[r].id, record[r])],
         api_log' = api_log
  PROVE  Appends(r)
<1>1. StoreOf(r) \in Stores /\ record[r].id = r
  BY RecordFacts
<1>2. records = [s \in Stores |-> records[s]]
  BY DEF IInv, Shape
<1>3. /\ \A s \in Stores \ {StoreOf(r)} : records'[s] = records[s]
      /\ records'[StoreOf(r)] = Put(records[StoreOf(r)], r, record[r])
  BY <1>1, <1>2
<1>4. /\ Grown(records[StoreOf(r)], records'[StoreOf(r)])
      /\ DOMAIN records'[StoreOf(r)] = DOMAIN records[StoreOf(r)] \cup {r}
  BY <1>3 DEF Put, Grown
<1>5. \A s \in Stores \ {StoreOf(r)} : Grown(records[s], records'[s])
  BY <1>3 DEF Grown
<1> QED
  BY <1>3, <1>4, <1>5 DEF Appends, Grown

LEMMA EntryAppends ==
  ASSUME IInv, NEW r \in Calls, request[r] # None,
         r \notin DOMAIN api_log[StoreOf(r)],
         NEW entry, api_log' = [api_log EXCEPT ![StoreOf(r)] = Put(@, r, entry)],
         records' = records
  PROVE  Appends(r)
<1>1. StoreOf(r) \in Stores /\ api_log = [s \in Stores |-> api_log[s]]
  BY StoreOfIsStore DEF IInv, Shape
<1>2. /\ \A s \in Stores \ {StoreOf(r)} : api_log'[s] = api_log[s]
      /\ api_log'[StoreOf(r)] = Put(api_log[StoreOf(r)], r, entry)
  BY <1>1
<1>3. /\ Grown(api_log[StoreOf(r)], api_log'[StoreOf(r)])
      /\ DOMAIN api_log'[StoreOf(r)] = DOMAIN api_log[StoreOf(r)] \cup {r}
  BY <1>2 DEF Put, Grown
<1>4. \A s \in Stores \ {StoreOf(r)} : Grown(api_log[s], api_log'[s])
  BY <1>2 DEF Grown
<1> QED
  BY <1>2, <1>3, <1>4 DEF Appends, Grown

LEMMA LogAppends ==
  ASSUME IInv, NEW r \in Calls, Unwritten(r), NEW as_text \in BOOLEAN,
         stage[r] \in {"logging", "relogging"},
         InsertLog(r, as_text), records' = records
  PROVE  Appends(r)
<1> DEFINE entry == [status |-> response[r].status, as_text |-> as_text]
<1>1. request[r] # None /\ StoreOf(r) \in Stores
  BY StoreOfIsStore DEF IInv, CallInv, KindAtStage
<1>2. r \notin DOMAIN api_log[StoreOf(r)]
  BY <1>1 DEF Unwritten
<1>3. \/ api_log' = api_log
      \/ api_log' = [api_log EXCEPT ![StoreOf(r)] = Put(@, r, entry)]
  BY DEF InsertLog
<1> HIDE DEF entry
<1> QED
  BY <1>1, <1>2, <1>3, EntryAppends, QuietAppends

(* No handler overwrites a document, its own included.                     *)
LEMMA HandlerAppends ==
  ASSUME StepInv, NEW r \in Calls, Handle(r) \/ Lands(r)
  PROVE  Appends(r)
<1>1. IInv /\ Unwritten(r) /\ CallInv(r)
  BY DEF StepInv, IInv
<1>2. CASE SaveApplied(r)
  <2>1. record[r] # None /\ StoreOf(r) \in Stores
    BY <1>1, <1>2, RecordFacts DEF SaveApplied, CallInv, RecordPart
  <2>2. r \notin DOMAIN records[StoreOf(r)]
    BY <1>1, <1>2, <2>1 DEF SaveApplied, Unwritten
  <2> QED
    BY <1>1, <1>2, <2>1, <2>2, RecordAppends DEF SaveApplied
<1>3. CASE InsertLands(r)
  BY <1>1, <1>3, RecordAppends DEF InsertLands
<1>4. CASE LogCall(r) \/ LogAsText(r)
  BY <1>1, <1>4, LogAppends DEF LogCall, LogAsText
<1>5. CASE LogLands(r)
  <2> DEFINE entry == [status |-> response[r].status, as_text |-> FALSE]
  <2>1. /\ request[r] # None /\ r \notin DOMAIN api_log[StoreOf(r)]
        /\ api_log' = [api_log EXCEPT ![StoreOf(r)] = Put(@, r, entry)]
        /\ records' = records
    BY <1>1, <1>5 DEF LogLands, CallInv, KindAtStage
  <2> HIDE DEF entry
  <2> QED
    BY <1>1, <2>1, EntryAppends
<1>6. CASE \/ AgentGoesOn(r) \/ BuildRecord(r) \/ UnhandledException(r)
           \/ SaveAcknowledged(r) \/ SaveRaises(r) \/ Fetch(r)
           \/ FetchRaises(r) \/ Ping(r) \/ Send(r) \/ LogRefused(r)
           \/ LogFails(r) \/ EntryNotBuilt(r)
  BY <1>6, QuietAppends
  DEF AgentGoesOn, BuildRecord, UnhandledException, SaveAcknowledged,
      SaveRaises, Fetch, FetchRaises, Ping, Send, LogRefused, LogFails,
      EntryNotBuilt
<1> QED
  BY <1>2, <1>3, <1>4, <1>5, <1>6 DEF Handle, Lands

-----------------------------------------------------------------------------
(* The stages a step of the handler of r leads to, and where it begins to  *)
(* write.                                                                  *)
LEMMA StepsToWrites ==
  ASSUME IInv, NEW r \in Calls, Handle(r) \/ Lands(r)
  PROVE  /\ request' = request
         /\ \A q \in Calls \ {r} : stage'[q] = stage[q]
         /\ stage'[r] = "saving" =>
              \/ records' = records /\ record[r] = None
              \/ records' = records /\ stage[r] = "saving"
         /\ stage'[r] = "logging" =>
              \/ api_log' = api_log /\ answer[r] = None
              \/ api_log' = api_log /\ stage[r] = "logging"
         /\ stage'[r] = "relogging" =>
              api_log' = api_log /\ stage[r] \in {"logging", "relogging"}
<1>1. CallInv(r) /\ Shape
  BY DEF IInv
<1> USE DEF GoTo, Return
<1>2. CASE BuildRecord(r)
  BY <1>1, <1>2 DEF BuildRecord, CallInv, RecordPart, Shape
<1>3. CASE Send(r)
  BY <1>1, <1>3 DEF Send, CallInv, ResponsePart, Shape
<1>4. CASE LogRefused(r)
  BY <1>1, <1>4 DEF LogRefused, Shape
<1>5. CASE AgentGoesOn(r) \/ Lands(r)
  BY <1>1, <1>5
  DEF AgentGoesOn, Lands, InsertLands, LogLands, httpVars, CallInv, RecordPart
<1>6. CASE \/ UnhandledException(r) \/ SaveApplied(r) \/ SaveAcknowledged(r)
           \/ SaveRaises(r) \/ Fetch(r) \/ FetchRaises(r) \/ Ping(r)
           \/ LogFails(r) \/ EntryNotBuilt(r)
  BY <1>1, <1>6
  DEF UnhandledException, SaveApplied, SaveAcknowledged, SaveRaises, Fetch,
      FetchRaises, Ping, LogFails, EntryNotBuilt, Shape
<1>7. CASE LogCall(r) \/ LogAsText(r)
  BY <1>1, <1>7 DEF LogCall, LogAsText, InsertLog, Shape
<1> QED
  BY <1>2, <1>3, <1>4, <1>5, <1>6, <1>7 DEF Handle

LEMMA HandlerKeeps ==
  ASSUME StepInv, NEW r \in Calls, Handle(r) \/ Lands(r), NEW q \in Calls
  PROVE  Unwritten(q)' /\ Targeted(q)'
<1>1. /\ IInv /\ Unwritten(q) /\ Targeted(q) /\ Unwritten(r)
      /\ CallInv(r)
  BY DEF StepInv, IInv
<1>2. Appends(r)
  BY HandlerAppends
<1>3. Targeted(q)'
  BY <1>1, StepsToWrites DEF Targeted
<1>4. CASE q # r
  <2>1. stage'[q] = stage[q]
    BY <1>1, <1>4, StepsToWrites
  <2>2. \A s \in Stores :
          /\ q \in DOMAIN records'[s] => q \in DOMAIN records[s]
          /\ q \in DOMAIN api_log'[s] => q \in DOMAIN api_log[s]
    BY <1>2, <1>4 DEF Appends
  <2> QED
    BY <1>1, <1>3, <2>1, <2>2 DEF Unwritten
<1>5. CASE q = r
  <2>1. record[r] = None => \A s \in Stores : r \notin DOMAIN records[s]
    BY <1>1 DEF IInv, StoreInv
  <2>2. answer[r] = None => \A s \in Stores : r \notin DOMAIN api_log[s]
    BY <1>1 DEF IInv, LogInv
  <2>3. /\ stage'[r] = "saving" =>
             records' = records /\ (record[r] = None \/ stage[r] = "saving")
        /\ stage'[r] \in {"logging", "relogging"} =>
             /\ api_log' = api_log
             /\ answer[r] = None \/ stage[r] \in {"logging", "relogging"}
    BY <1>1, StepsToWrites
  <2> QED
    BY <1>1, <1>3, <1>5, <2>1, <2>2, <2>3 DEF Unwritten
<1> QED
  BY <1>3, <1>4, <1>5

LEMMA ArrivalKeeps ==
  ASSUME StepInv, NEW r \in Calls, NEW w \in Workers, Arrive(r, w),
         NEW q \in Calls
  PROVE  Unwritten(q)' /\ Targeted(q)'
<1>1. IInv /\ Unwritten(q) /\ Targeted(q) /\ Shape
  BY DEF StepInv, IInv
<1>2. PICK kind \in Kinds, t \in Calls \cup {None}, body \in Bodies :
        /\ Take(r, w, kind, t, body)
        /\ t # None <=> kind = "fetch"
  <2>1. CASE ArriveClassify(r, w)
    BY <2>1 DEF ArriveClassify, Kinds
  <2>2. CASE ArriveInvalid(r, w)
    BY <2>2 DEF ArriveInvalid, Kinds
  <2>3. CASE ArriveFetch(r, w)
    BY <1>1, <2>3, KnownIdsAreKnown, NoneIsNoCall, BodiesAssumption
    DEF ArriveFetch, Kinds
  <2>4. CASE ArriveHealth(r, w)
    BY <2>4, BodiesAssumption DEF ArriveHealth, Kinds
  <2> QED
    BY <2>1, <2>2, <2>3, <2>4 DEF Arrive
<1>3. /\ \A p \in Calls \ {r} : request'[p] = request[p]
      /\ request'[r].kind = kind /\ request'[r].target = t
  BY <1>1, <1>2, TakeMakes
<1>4. /\ records' = records /\ api_log' = api_log
      /\ stage' \in {[stage EXCEPT ![r] = next] :
           next \in {"classifying", "sending", "reading", "pinging"}}
  BY DEF Arrive, ArriveClassify, ArriveInvalid, ArriveFetch, ArriveHealth,
         GoTo, Return
<1>5. Targeted(q)'
  BY <1>1, <1>2, <1>3 DEF Targeted
<1>6. Unwritten(q)'
  BY <1>1, <1>4 DEF Unwritten, Shape
<1> QED
  BY <1>5, <1>6

LEMMA CrashKeeps ==
  ASSUME StepInv, NEW w \in Workers, Crash(w), NEW q \in Calls
  PROVE  Unwritten(q)' /\ Targeted(q)'
<1>1. Unwritten(q) /\ Targeted(q)
  BY DEF StepInv
<1>2. /\ request' = request
      /\ stage'[q] \in {stage[q], "lost"}
      /\ \A s \in Stores : records'[s] \in {records[s], << >>}
      /\ \A s \in Stores : api_log'[s] \in {api_log[s], << >>}
  BY DEF Crash
<1>3. DOMAIN << >> = {}
  OBVIOUS
<1>4. \A s \in Stores : /\ DOMAIN records'[s] \subseteq DOMAIN records[s]
                        /\ DOMAIN api_log'[s] \subseteq DOMAIN api_log[s]
  BY <1>2, <1>3
<1> QED
  BY <1>1, <1>2, <1>4 DEF Unwritten, Targeted

LEMMA StepInvariance == Spec => []StepInv
<1>1. Init => StepInv
  BY InitIInv DEF StepInv, Init, Unwritten, Targeted
<1>2. StepInv /\ [Next]_vars => StepInv'
  <2> SUFFICES ASSUME StepInv, [Next]_vars PROVE StepInv'
    OBVIOUS
  <2>1. IInv'
    BY NextIInv DEF StepInv
  <2>2. ASSUME NEW q \in Calls PROVE Unwritten(q)' /\ Targeted(q)'
    <3>1. CASE UNCHANGED vars
      BY <3>1 DEF StepInv, vars, httpVars, Unwritten, Targeted
    <3> QED
      BY <3>1, HandlerKeeps, ArrivalKeeps, CrashKeeps DEF Next
  <2> QED
    BY <2>1, <2>2 DEF StepInv
<1> QED
  BY <1>1, <1>2, PTL DEF Spec

-----------------------------------------------------------------------------
(* What is in a store stays there as it is: the two inserts of a log entry *)
(* and the late ones of a record write nothing twice (mongo_svc.py:71).    *)
THEOREM StoredIsFinal == Spec => StoresOnlyGrow
<1> DEFINE Grow ==
      \A s \in Stores :
        \/ Grown(records[s], records'[s]) /\ Grown(api_log[s], api_log'[s])
        \/ s \in Workers /\ epoch'[s] = epoch[s] + 1
<1>1. StepInv /\ [Next]_vars => [Grow]_vars
  <2> SUFFICES ASSUME StepInv, Next PROVE Grow
    OBVIOUS
  <2>1. ASSUME NEW r \in Calls, Handle(r) \/ Lands(r) PROVE Grow
    BY <2>1, HandlerAppends DEF Appends
  <2>2. ASSUME NEW r \in Calls, NEW w \in Workers, Arrive(r, w) PROVE Grow
    BY <2>2
    DEF Arrive, ArriveClassify, ArriveInvalid, ArriveFetch, ArriveHealth,
        Grown
  <2>3. ASSUME NEW w \in Workers, Crash(w) PROVE Grow
    <3>1. epoch'[w] = epoch[w] + 1
      BY <2>3 DEF Crash, StepInv, IInv, Shape
    <3>2. \A s \in Stores \ {w} : records'[s] = records[s] /\ api_log'[s] = api_log[s]
      BY <2>3 DEF Crash
    <3> QED
      BY <3>1, <3>2 DEF Grown
  <2> QED
    BY <2>1, <2>2, <2>3 DEF Next
<1> QED
  BY <1>1, StepInvariance, PTL DEF Spec, StoresOnlyGrow

-----------------------------------------------------------------------------
(* A handler rests, or comes nearer to its end.                            *)
Resting(r) == UNCHANGED <<stage[r], llm_calls[r], verdict[r]>>
Nearer(r) == Resting(r) \/ Distance(r)' < Distance(r)

LEMMA DistanceIsNat ==
  ASSUME IInv, NEW r \in Calls
  PROVE  /\ StagesAhead(r) \in 1..7
         /\ AgentStepsAhead(r) \in 0..max_attempts + 1
         /\ stage[r] = "classifying" /\ verdict[r] = Undecided =>
              AgentStepsAhead(r) > 0
<1>1. llm_calls[r] \in 0..max_attempts
  BY DEF IInv, Shape
<1> QED
  BY <1>1, Budget DEF StagesAhead, AgentStepsAhead

(* Away from the agent, a handler is as far as its stage.                  *)
LEMMA LaterStage ==
  ASSUME IInv, NEW r \in Calls, StagesAhead(r)' < StagesAhead(r),
         StagesAhead(r)' \in Nat, stage'[r] # "classifying"
  PROVE  Nearer(r)
<1>1. AgentStepsAhead(r)' = 0 /\ AgentStepsAhead(r) \in Nat
  BY DistanceIsNat, Budget DEF AgentStepsAhead
<1>2. StagesAhead(r) \in Nat
  BY DistanceIsNat
<1> QED
  BY <1>1, <1>2 DEF Nearer, Distance

(* The agent has a call of the LLM less to go, or is through.              *)
LEMMA AgentComesNearer ==
  ASSUME IInv, NEW r \in Calls, AgentGoesOn(r)
  PROVE  Nearer(r)
<1> USE Budget
<1>1. /\ stage[r] = "classifying" /\ stage'[r] = "classifying"
      /\ verdict[r] = Undecided
      /\ llm_calls[r] \in 1..max_attempts
      /\ Shape
  BY DEF AgentGoesOn, GoOn, CallLLM, Settle, httpVars, IInv, Shape
<1>2. StagesAhead(r) = 7 /\ StagesAhead(r)' = 7
  BY <1>1 DEF StagesAhead
<1>3. AgentStepsAhead(r) = max_attempts - llm_calls[r] + 1
  BY <1>1 DEF AgentStepsAhead
<1>4. CASE CallLLM(r)
  <2>1. llm_calls'[r] = llm_calls[r] + 1 /\ verdict'[r] = Undecided
    BY <1>1, <1>4 DEF CallLLM, Shape
  <2>2. AgentStepsAhead(r)' = max_attempts - (llm_calls[r] + 1) + 1
    BY <1>1, <2>1 DEF AgentStepsAhead, max_attempts
  <2> QED
    BY <1>1, <1>2, <1>3, <2>2 DEF Nearer, Distance
<1>5. CASE Settle(r)
  <2>1. verdict'[r] \in VerdictsAfter(llm_calls[r])
    BY <1>1, <1>5 DEF Settle, Shape
  <2>2. verdict'[r] # Undecided
    BY <1>1, <2>1, VerdictForms DEF Undecided, Verdict
  <2>3. AgentStepsAhead(r)' = 0
    BY <2>2 DEF AgentStepsAhead, Undecided, Verdict
  <2> QED
    BY <1>1, <1>2, <1>3, <2>3 DEF Nearer, Distance
<1> QED
  BY <1>4, <1>5 DEF AgentGoesOn, GoOn

LEMMA HandlerComesNearer ==
  ASSUME IInv, NEW r \in Calls, Handle(r) \/ Lands(r)
  PROVE  /\ \A q \in Calls \ {r} : Resting(q)
         /\ Nearer(r)
<1>1. Shape
  BY DEF IInv
<1>2. CASE AgentGoesOn(r)
  <2>1. \A q \in Calls \ {r} : Resting(q)
    BY <1>1, <1>2
    DEF AgentGoesOn, GoOn, CallLLM, Settle, httpVars, Shape, Resting
  <2> QED
    BY <1>2, <2>1, AgentComesNearer
<1>3. CASE Lands(r)
  BY <1>3 DEF Lands, InsertLands, LogLands, httpVars, Resting, Nearer
<1>4. ASSUME Handle(r), ~AgentGoesOn(r)
      PROVE  /\ UNCHANGED <<llm_calls, verdict>>
             /\ \A q \in Calls \ {r} : stage'[q] = stage[q]
             /\ StagesAhead(r)' < StagesAhead(r) /\ StagesAhead(r)' \in Nat
             /\ stage'[r] # "classifying"
  <2>1. UNCHANGED <<llm_calls, verdict>>
    BY <1>4
    DEF Handle, BuildRecord, UnhandledException, SaveApplied, SaveAcknowledged,
        SaveRaises, Fetch, FetchRaises, Ping, Send, LogCall, LogRefused,
        LogFails, LogAsText, EntryNotBuilt
  <2>2. PICK next \in Stages :
          /\ stage' = [stage EXCEPT ![r] = next]
          /\ \/ stage[r] = "classifying" /\ next \in {"saving", "sending"}
             \/ stage[r] = "saving" /\ next \in {"saved", "sending"}
             \/ stage[r] \in {"saved", "reading", "pinging"} /\ next = "sending"
             \/ stage[r] = "sending" /\ next \in {"logging", "done"}
             \/ /\ stage[r] = "logging"
                /\ next \in {"relogging", "done", "unlogged", "raised"}
             \/ stage[r] = "relogging" /\ next \in {"done", "unlogged"}
    <3> USE DEF GoTo, Return, Stages, Early, Late
    <3>1. CASE BuildRecord(r) \/ UnhandledException(r)
      BY <3>1 DEF BuildRecord, UnhandledException
    <3>2. CASE SaveApplied(r)
      BY <3>2 DEF SaveApplied
    <3>3. CASE SaveAcknowledged(r) \/ SaveRaises(r)
      BY <3>3 DEF SaveAcknowledged, SaveRaises
    <3>4. CASE Fetch(r) \/ FetchRaises(r) \/ Ping(r)
      BY <3>4 DEF Fetch, FetchRaises, Ping
    <3>5. CASE Send(r)
      BY <3>5 DEF Send
    <3>6. CASE LogRefused(r) \/ LogFails(r) \/ EntryNotBuilt(r)
      BY <3>6 DEF LogRefused, LogFails, EntryNotBuilt
    <3>7. CASE LogCall(r) \/ LogAsText(r)
      BY <3>7 DEF LogCall, LogAsText, InsertLog
    <3> QED
      BY <1>4, <3>1, <3>2, <3>3, <3>4, <3>5, <3>6, <3>7 DEF Handle
  <2>3. /\ stage'[r] = next
        /\ \A q \in Calls \ {r} : stage'[q] = stage[q]
    BY <1>1, <2>2 DEF Shape
  <2>4. StagesAhead(r)' < StagesAhead(r) /\ StagesAhead(r)' \in Nat
    BY <2>2, <2>3 DEF StagesAhead
  <2> QED
    BY <2>1, <2>2, <2>3, <2>4
<1>5. CASE Handle(r) /\ ~AgentGoesOn(r)
  BY <1>4, <1>5, LaterStage DEF Resting
<1> QED
  BY <1>2, <1>3, <1>5

(* A crash ends the handlers it meets on their way.                        *)
LEMMA CrashComesNearer ==
  ASSUME IInv, NEW w \in Workers, Crash(w), NEW q \in Calls
  PROVE  Nearer(q)
<1>1. CASE InFlight(q) /\ request[q].worker = w
  <2>1. stage'[q] = "lost"
    BY <1>1 DEF Crash
  <2>2. StagesAhead(q) > 1
    BY <1>1 DEF InFlight, Through, StagesAhead, IInv, Shape, Stages, Early, Late
  <2>3. StagesAhead(q)' = 1
    BY <2>1 DEF StagesAhead
  <2> QED
    BY <2>1, <2>2, <2>3, LaterStage
<1>2. CASE ~(InFlight(q) /\ request[q].worker = w)
  <2>1. stage'[q] = stage[q] /\ llm_calls'[q] = llm_calls[q]
    BY <1>2 DEF Crash
  <2>2. verdict'[q] = verdict[q]
    BY <1>2 DEF Crash
  <2> QED
    BY <2>1, <2>2 DEF Nearer, Resting
<1> QED
  BY <1>1, <1>2

(* A handler goes through its stages once, and its agent calls the LLM at  *)
(* most max_attempts times: no step of any actor sets it back, so that a   *)
(* taken call has no more than max_attempts + 6 moves left.                *)
THEOREM HandlersAdvance == Spec => EveryMoveIsProgress
<1> DEFINE Progress ==
      \A r \in Calls : stage[r] # "waiting" =>
        \/ UNCHANGED <<stage[r], llm_calls[r], verdict[r]>>
        \/ Distance(r)' < Distance(r)
<1>1. IInv /\ [Next]_vars => [Progress]_vars
  <2> SUFFICES ASSUME IInv, Next, NEW q \in Calls, stage[q] # "waiting"
               PROVE  Nearer(q)
    BY DEF Nearer, Resting
  <2>1. ASSUME NEW r \in Calls, Handle(r) \/ Lands(r) PROVE Nearer(q)
    BY <2>1, HandlerComesNearer DEF Nearer
  <2>2. ASSUME NEW r \in Calls, NEW w \in Workers, Arrive(r, w)
        PROVE  Nearer(q)
    <3>1. q # r
      BY <2>2 DEF Arrive, ArriveClassify, ArriveInvalid, ArriveFetch,
                  ArriveHealth, Take
    <3> QED
      BY <2>2, <3>1
      DEF Arrive, ArriveClassify, ArriveInvalid, ArriveFetch, ArriveHealth,
          CallLLM, GoTo, Return, IInv, Shape, Nearer, Resting
  <2>3. ASSUME NEW w \in Workers, Crash(w) PROVE Nearer(q)
    BY <2>3, CrashComesNearer
  <2> QED
    BY <2>1, <2>2, <2>3 DEF Next
<1> QED
  BY <1>1, Invariance, PTL DEF Spec, EveryMoveIsProgress

-----------------------------------------------------------------------------
(* The steps of RecordBook.  The calls but r are told nothing by a step of *)
(* the handler of r, and nothing more is asked for.                        *)
AskedKept == \A q \in Calls : CallOf(q)' = CallOf(q)
ToldKept(r) == \A q \in Calls \ {r} : ToldTo(q)' = ToldTo(q)

LEMMA CallIsAsked ==
  ASSUME IInv, NEW r \in Calls, request[r] # None
  PROVE  CallOf(r) \in Askings /\ CallOf(r) # None
<1>1. StoreOf(r) \in Stores /\ request[r].target \in Calls \cup {None}
  BY StoreOfIsStore DEF IInv, Shape, Requests
<1>2. CallOf(r) = [store |-> StoreOf(r), target |-> request[r].target]
  BY DEF CallOf
<1>3. CallOf(r) \in Askings
  BY <1>1, <1>2 DEF Askings
<1> QED
  BY <1>3, AskingAssumption

LEMMA AskingIsKept ==
  ASSUME request' = request, backend' = backend
  PROVE  AskedKept
  BY DEF AskedKept, CallOf, StoreOf

LEMMA TellingIsKept ==
  ASSUME response' = response, request' = request
  PROVE  \A q \in Calls : ToldTo(q)' = ToldTo(q)
  BY DEF ToldTo

(* What a handler returns is what its call is told.                        *)
Missing(r, resp) == request[r].kind = "fetch" /\ resp.status = 404

LEMMA ReturnTells ==
  ASSUME IInv, NEW r \in Calls, NEW resp, resp # None, Return(r, resp),
         stage[r] \in Early,
         UNCHANGED <<request, record, records, backend>>
  PROVE  Book!Tell(r, Book!Outcome(resp.record, resp.persisted, Missing(r, resp)))
<1> DEFINE outcome == [record |-> resp.record, persisted |-> resp.persisted,
                       missing |-> Missing(r, resp)]
<1>1. response[r] = None /\ Shape
  BY DEF IInv, CallInv, ResponsePart
<1>2. response' = [response EXCEPT ![r] = resp]
  BY DEF Return
<1>3. ToldTo(r) = None /\ ToldTo(r)' = outcome
  BY <1>1, <1>2 DEF ToldTo, Missing, Shape
<1>4. ToldKept(r)
  BY <1>1, <1>2 DEF ToldKept, ToldTo, Shape
<1>5. AskedKept
  BY AskingIsKept
<1> HIDE DEF outcome
<1>6. [q \in Calls |-> ToldTo(q)'] =
        [[q \in Calls |-> ToldTo(q)] EXCEPT ![r] = outcome]
  BY <1>3, <1>4 DEF ToldKept
<1>7. [q \in Calls |-> CallOf(q)'] = [q \in Calls |-> CallOf(q)]
  BY <1>5 DEF AskedKept
<1> QED
  BY <1>3, <1>6, <1>7 DEF Book!Tell, Book!Outcome, outcome

(* A call that arrives opens, and may be turned away.                      *)
LEMMA ArrivalOpens ==
  ASSUME IInv, NEW r \in Calls, NEW w \in Workers, Arrive(r, w)
  PROVE  Book!Open(r)
<1>1. PICK kind \in Kinds, t \in Calls \cup {None}, body \in Bodies :
        Take(r, w, kind, t, body)
  <2>1. CASE ArriveClassify(r, w)
    BY <2>1 DEF ArriveClassify, Kinds
  <2>2. CASE ArriveInvalid(r, w)
    BY <2>2 DEF ArriveInvalid, Kinds
  <2>3. CASE ArriveFetch(r, w)
    BY <2>3, KnownIdsAreKnown, BodiesAssumption DEF ArriveFetch, Kinds
  <2>4. CASE ArriveHealth(r, w)
    BY <2>4, BodiesAssumption DEF ArriveHealth, Kinds
  <2> QED
    BY <2>1, <2>2, <2>3, <2>4 DEF Arrive
<1>2. /\ \A q \in Calls \ {r} : request'[q] = request[q]
      /\ request'[r] # None /\ request'[r].target = t
      /\ request'[r].worker = w /\ request'[r].kind = kind
      /\ request[r] = None /\ response[r] = None
  BY <1>1, TakeMakes
<1>3. /\ UNCHANGED <<record, records, backend>>
      /\ \/ response' = response
         \/ /\ kind = "invalid"
            /\ \E status \in Statuses :
                 response' = [response EXCEPT ![r] = ErrorResponse(status)]
  <2>1. CASE ArriveInvalid(r, w)
    <3>1. PICK body2 \in Bodies, status \in Statuses :
            /\ Take(r, w, "invalid", None, body2)
            /\ Return(r, ErrorResponse(status))
      <4>1. \A b \in Bodies : Refusals(b) \subseteq Statuses
        BY DEF Refusals, Statuses
      <4> QED
        BY <2>1, <4>1 DEF ArriveInvalid
    <3>2. request'[r].kind = "invalid"
      BY <3>1, TakeMakes DEF Kinds
    <3> QED
      BY <1>2, <2>1, <3>1, <3>2 DEF ArriveInvalid, Return
  <2>2. CASE ArriveClassify(r, w) \/ ArriveFetch(r, w) \/ ArriveHealth(r, w)
    BY <2>2 DEF ArriveClassify, ArriveFetch, ArriveHealth
  <2> QED
    BY <2>1, <2>2 DEF Arrive
<1>4. StoreOf(r)' \in Stores
  BY <1>2 DEF StoreOf, Stores
<1>5. /\ CallOf(r) = None
      /\ CallOf(r)' = [store |-> StoreOf(r)', target |-> t]
      /\ \A q \in Calls \ {r} : CallOf(q)' = CallOf(q)
  BY <1>2, <1>3 DEF CallOf, StoreOf
<1>6. \/ \A q \in Calls : ToldTo(q)' = ToldTo(q)
      \/ ToldKept(r) /\ ToldTo(r)' = Book!Nothing
  <2>1. CASE response' = response
    BY <1>2, <2>1 DEF ToldTo
  <2>2. CASE response' # response
    <3>1. PICK status \in Statuses :
            response' = [response EXCEPT ![r] = ErrorResponse(status)]
      BY <1>3, <2>2
    <3>2. /\ response'[r] = ErrorResponse(status) /\ response'[r] # None
          /\ \A q \in Calls \ {r} : response'[q] = response[q]
      BY <3>1, ErrorTyped, NoneIsNone DEF IInv, Shape
    <3>3. response'[r].record = None /\ response'[r].persisted = FALSE
      BY <3>2 DEF ErrorResponse, Response
    <3>4. (request'[r].kind = "fetch" /\ response'[r].status = 404) = FALSE
      BY <1>2, <1>3, <2>2
    <3>5. ToldTo(r)' = Book!Nothing
      BY <3>2, <3>3, <3>4 DEF ToldTo, Book!Nothing, Book!Outcome
    <3>6. ToldKept(r)
      BY <1>2, <3>2 DEF ToldKept, ToldTo
    <3> QED
      BY <3>5, <3>6
  <2> QED
    BY <2>1, <2>2
<1>7. [q \in Calls |-> CallOf(q)'] =
        [[q \in Calls |-> CallOf(q)] EXCEPT
           ![r] = [store |-> StoreOf(r)', target |-> t]]
  BY <1>5
<1>8. [q \in Calls |-> ToldTo(q)'] \in
        {[q \in Calls |-> ToldTo(q)],
         [[q \in Calls |-> ToldTo(q)] EXCEPT ![r] = Book!Nothing]}
  BY <1>6 DEF ToldKept
<1>9. [q \in Calls |-> CallOf(q)][r] = None
  BY <1>5
<1>10. \E s \in Stores, u \in Calls \cup {None} :
         [q \in Calls |-> CallOf(q)'] =
           [[q \in Calls |-> CallOf(q)] EXCEPT
              ![r] = [store |-> s, target |-> u]]
  <2> WITNESS StoreOf(r)' \in Stores, t \in Calls \cup {None}
  <2> QED
    BY <1>7
<1> QED
  BY <1>3, <1>8, <1>9, <1>10 DEF Book!Open

(* BuildRecord draws the record up.                                        *)
LEMMA BuildDraws ==
  ASSUME StepInv, NEW r \in Calls, BuildRecord(r)
  PROVE  Book!Draw(r)
<1>1. /\ IInv /\ IInv' /\ Shape /\ CallInv(r) /\ Targeted(r)
      /\ stage[r] = "classifying"
  BY BuildRecordStep DEF StepInv, IInv, BuildRecord
<1>2. /\ request[r] # None /\ request[r].target = None
      /\ response[r] = None /\ record[r] = None
  BY <1>1
  DEF CallInv, KindAtStage, RecordPart, ResponsePart, Early, Targeted
<1>3. /\ record' = [record EXCEPT ![r] = Record(r, verdict[r])]
      /\ UNCHANGED <<request, response, records, backend>>
  BY DEF BuildRecord
<1>4. record'[r] = Record(r, verdict[r])
  BY <1>1, <1>3 DEF Shape
<1>5. record'[r] \in Records /\ record'[r].id = r
  <2>1. record'[r] # None
    BY <1>1, <1>3, <1>4 DEF IInv, CallInv, RecordPart, BuildRecord, GoTo, Shape
  <2>2. record'[r] \in Records
    BY <1>1, <2>1 DEF IInv, Shape
  <2> QED
    BY <1>4, <2>2 DEF Record
<1>6. /\ AskedKept
      /\ \A q \in Calls : ToldTo(q)' = ToldTo(q)
  BY <1>3, AskingIsKept, TellingIsKept
<1>7. /\ CallOf(r) # None /\ CallOf(r).target = None
      /\ ToldTo(r) = None
  <2>1. CallOf(r) = [store |-> StoreOf(r), target |-> None]
    BY <1>2 DEF CallOf
  <2>2. CallOf(r) # None
    BY <1>1, <1>2, CallIsAsked
  <2> QED
    BY <1>2, <2>1, <2>2 DEF ToldTo
<1>8. record' = [record EXCEPT ![r] = record'[r]]
  BY <1>3, <1>4
<1> QED
  BY <1>2, <1>3, <1>5, <1>6, <1>7, <1>8 DEF Book!Draw, AskedKept

(* SaveApplied and InsertLands write it.                                   *)
LEMMA InsertWrites ==
  ASSUME IInv, NEW r \in Calls, record[r] # None,
         r \notin DOMAIN records[StoreOf(r)],
         records' = [records EXCEPT ![StoreOf(r)] =
           Put(@, record[r].id, record[r])],
         UNCHANGED <<request, record, response, backend>>
  PROVE  Book!Write(r)
<1>1. /\ request[r] # None /\ record[r].id = r
      /\ CallOf(r) = [store |-> StoreOf(r), target |-> request[r].target]
  BY RecordFacts DEF CallOf
<1>2. /\ AskedKept
      /\ \A q \in Calls : ToldTo(q)' = ToldTo(q)
  BY AskingIsKept, TellingIsKept
<1>3. CallOf(r).store = StoreOf(r)
  BY <1>1
<1>4. records' = [records EXCEPT ![CallOf(r).store] =
        [id \in DOMAIN records[CallOf(r).store] \cup {r} |->
           IF id = r THEN record[r] ELSE records[CallOf(r).store][id]]]
  BY <1>1, <1>3 DEF Put
<1> QED
  BY <1>2, <1>3, <1>4 DEF Book!Write, Book!Kept, AskedKept

LEMMA SaveWrites ==
  ASSUME StepInv, NEW r \in Calls, SaveApplied(r) \/ InsertLands(r)
  PROVE  Book!Write(r)
<1>1. IInv /\ CallInv(r) /\ Unwritten(r)
  BY DEF StepInv, IInv
<1>2. record[r] # None
  BY <1>1 DEF SaveApplied, InsertLands, CallInv, RecordPart
<1>3. r \notin DOMAIN records[StoreOf(r)]
  BY <1>1, <1>2, RecordFacts DEF SaveApplied, InsertLands, Unwritten
<1> QED
  BY <1>1, <1>2, <1>3, InsertWrites DEF SaveApplied, InsertLands, httpVars

LEMMA ErrorFacts ==
  ASSUME NEW code \in Statuses
  PROVE  /\ ErrorResponse(code) # None
         /\ ErrorResponse(code) = [status |-> code, record |-> None,
                                   persisted |-> FALSE, needs_human |-> FALSE]
<1>1. ErrorResponse(code) # None
  BY ErrorTyped, NoneIsNone
<1> QED
  BY <1>1 DEF ErrorResponse, Response

(* A call that is told of an error is told nothing.                        *)
LEMMA ErrorTells ==
  ASSUME StepInv, NEW r \in Calls, NEW code \in Statuses,
         Return(r, ErrorResponse(code)), stage[r] \in Early \ {"waiting"},
         ~Missing(r, ErrorResponse(code)),
         record[r] = None \/ ~Servable(record[r]),
         UNCHANGED <<request, record, records, backend>>
  PROVE  Book!TellNothing(r)
<1> DEFINE resp == ErrorResponse(code)
<1>1. /\ IInv /\ request[r] # None
  BY DEF StepInv, IInv, CallInv, KindAtStage
<1>2. /\ resp # None
      /\ resp.record = None /\ resp.persisted = FALSE
  BY ErrorFacts
<1>3. Missing(r, resp) = FALSE
  OBVIOUS
<1> HIDE DEF resp
<1>4. Book!Tell(r, Book!Outcome(resp.record, resp.persisted, Missing(r, resp)))
  BY <1>1, <1>2, ReturnTells DEF resp
<1>5. Book!Tell(r, Book!Nothing)
  BY <1>2, <1>3, <1>4 DEF Book!Nothing, Book!Outcome
<1>6. CallOf(r) # None
  BY <1>1, CallIsAsked
<1>7. record[r] # None => record[r] \in Records
  BY <1>1, RecordFacts
<1> QED
  BY <1>5, <1>6, <1>7 DEF Book!TellNothing

(* The answer to a classification confirms its record, and says that it is *)
(* kept only if it is; a record that cannot be served is not told of.      *)
LEMMA AnswerConfirms ==
  ASSUME StepInv, NEW r \in Calls, SaveAcknowledged(r) \/ SaveRaises(r)
  PROVE  Book!Confirm(r) \/ Book!TellNothing(r)
<1>1. /\ IInv /\ CallInv(r) /\ stage[r] \in {"saving", "saved"}
      /\ UNCHANGED <<request, record, records, backend>>
  BY DEF StepInv, IInv, SaveAcknowledged, SaveRaises
<1>2. /\ record[r] # None /\ request[r] # None
      /\ record[r] \in Records
      /\ record[r].status = "succeeded" => record[r].output \in Outputs
      /\ request[r].kind = "classify"
  BY <1>1, RecordFacts DEF CallInv, RecordPart, KindAtStage
<1>3. PICK p \in BOOLEAN :
        /\ Return(r, Rendered(ClassifyResponse(record[r], p)))
        /\ p => stage[r] = "saved"
  BY DEF SaveAcknowledged, SaveRaises
<1>4. CASE Servable(record[r])
  <2> DEFINE resp == ClassifyResponse(record[r], p)
  <2>1. resp \in Responses /\ resp.record = record[r] /\ resp.persisted = p
    BY <1>2, ResponseTyped
  <2>2. Rendered(resp) = resp
    BY <1>4, <2>1 DEF Rendered
  <2>3. p => r \in DOMAIN records[StoreOf(r)]
    BY <1>1, <1>3 DEF CallInv, StoredPart, InStore
  <2>4. Missing(r, resp) = FALSE
    BY <1>2 DEF Missing
  <2>5. Return(r, resp)
    BY <1>3, <2>2
  <2> HIDE DEF resp
  <2>6. Book!Tell(r, Book!Outcome(resp.record, resp.persisted, Missing(r, resp)))
    BY <1>1, <2>1, <2>5, NoneIsNone, ReturnTells DEF Early
  <2>7. Book!Tell(r, Book!Outcome(record[r], p, FALSE))
    BY <2>1, <2>4, <2>6
  <2>8. p => Book!Kept(CallOf(r).store, r)
    BY <1>2, <2>3 DEF Book!Kept, CallOf
  <2> QED
    BY <1>2, <1>4, <2>7, <2>8 DEF Book!Confirm
<1>5. CASE ~Servable(record[r])
  <2>1. Rendered(ClassifyResponse(record[r], p)) = ErrorResponse(500)
    BY <1>2, <1>5, RefusedToRender, ZenonT(30)
  <2>2. Return(r, ErrorResponse(500))
    BY <1>3, <2>1
  <2>3. ~Missing(r, ErrorResponse(500))
    BY <1>2 DEF Missing
  <2> QED
    BY <1>1, <1>5, <2>2, <2>3, ErrorTells DEF Statuses, Early
<1> QED
  BY <1>4, <1>5

(* A GET finds what is stored, or misses it.                               *)
LEMMA FetchFinds ==
  ASSUME StepInv, NEW r \in Calls, Fetch(r)
  PROVE  Book!Find(r) \/ Book!Miss(r)
<1> DEFINE stored == records[StoreOf(r)]
           id == request[r].target
<1>1. /\ IInv /\ CallInv(r) /\ Targeted(r)
      /\ stage[r] = "reading" /\ stage[r] \in Early
      /\ UNCHANGED <<request, record, records, backend>>
  BY DEF StepInv, IInv, Fetch, Early
<1>2. request[r] # None /\ id # None
  BY <1>1 DEF CallInv, KindAtStage, Targeted
<1>3. /\ CallOf(r) # None
      /\ CallOf(r).store = StoreOf(r) /\ CallOf(r).target = id
  BY <1>1, <1>2, CallIsAsked DEF CallOf
<1>4. CASE id \in DOMAIN stored
  <2> DEFINE resp == Response(200, stored[id], FALSE, FALSE)
  <2>1. stored[id] \in Records /\ Servable(stored[id])
    <3>1. StoreOf(r) \in Stores
      BY <1>1, <1>2, StoreOfIsStore DEF IInv
    <3>2. id \in Calls /\ stored[id] = record[id] /\ record[id] # None
      BY <1>1, <1>4, <3>1 DEF IInv, StoreInv
    <3>3. id # r
      BY <1>1, <3>2, RecordFacts DEF CallInv, KindAtStage, Classified
    <3>4. Known(id)
      BY <1>1, <1>2, <3>3 DEF CallInv, KindAtStage, FetchPart
    <3> QED
      BY <1>1, <3>2, <3>4, RecordFacts, KnownIsServable
  <2>2. resp # None /\ Return(r, resp)
    <3>1. resp \in Responses
      BY <2>1 DEF Response, Responses, Statuses
    <3>2. Rendered(resp) = resp
      BY <2>1 DEF Rendered, Response
    <3>3. Return(r, Rendered(resp))
      BY <1>4 DEF Fetch
    <3> QED
      BY <3>1, <3>2, <3>3, NoneIsNone
  <2>3. /\ resp.record = stored[id] /\ resp.persisted = FALSE
        /\ Missing(r, resp) = FALSE
    BY DEF Response, Missing
  <2> HIDE DEF resp
  <2>4. Book!Tell(r, Book!Outcome(resp.record, resp.persisted, Missing(r, resp)))
    BY <1>1, <2>2, ReturnTells
  <2>5. Book!Tell(r, Book!Outcome(stored[id], FALSE, FALSE))
    BY <2>3, <2>4
  <2> QED
    BY <1>3, <1>4, <2>1, <2>5 DEF Book!Find, Book!Kept
<1>5. CASE id \notin DOMAIN stored
  <2> DEFINE resp == ErrorResponse(404)
  <2>1. Return(r, resp)
    BY <1>5 DEF Fetch
  <2>2. /\ resp # None
        /\ resp.record = None /\ resp.persisted = FALSE
        /\ Missing(r, resp) = TRUE
    BY <1>1, ErrorFacts DEF Missing, Statuses, CallInv, KindAtStage
  <2> HIDE DEF resp
  <2>3. Book!Tell(r, Book!Outcome(resp.record, resp.persisted, Missing(r, resp)))
    BY <1>1, <2>1, <2>2, ReturnTells
  <2>4. Book!Tell(r, Book!Outcome(None, FALSE, TRUE))
    BY <2>2, <2>3
  <2> QED
    BY <1>2, <1>3, <1>5, <2>4 DEF Book!Miss, Book!Kept
<1> QED
  BY <1>4, <1>5

(* The other answers are about no record, and no record was drawn up.      *)
LEMMA ErrorTellsNothing ==
  ASSUME StepInv, NEW r \in Calls,
         UnhandledException(r) \/ FetchRaises(r) \/ Ping(r)
  PROVE  Book!TellNothing(r)
<1>1. /\ IInv /\ CallInv(r)
      /\ stage[r] \in {"classifying", "reading", "pinging"}
      /\ stage[r] \in Early \ {"waiting"}
      /\ UNCHANGED <<request, record, records, backend>>
  BY DEF StepInv, IInv, UnhandledException, FetchRaises, Ping, Early
<1>2. record[r] = None
  BY <1>1 DEF CallInv, KindAtStage, RecordPart, Classified
<1>3. PICK code \in {200, 500, 503} :
        /\ Return(r, ErrorResponse(code))
        /\ stage[r] # "reading" \/ code = 500
  BY DEF UnhandledException, FetchRaises, Ping
<1>4. ~Missing(r, ErrorResponse(code))
  BY <1>3, ErrorFacts DEF Missing, Statuses
<1> QED
  BY <1>1, <1>2, <1>3, <1>4, ErrorTells DEF Statuses

(* A crash loses the memory of its worker.                                 *)
LEMMA CrashLoses ==
  ASSUME IInv, NEW w \in Workers, Crash(w)
  PROVE  Book!Lose(w)
<1>1. /\ records' = [s \in Stores |-> IF s = w THEN << >> ELSE records[s]]
      /\ UNCHANGED <<request, record, response, backend>>
  BY DEF Crash
<1>2. w \in Stores /\ records = [s \in Stores |-> records[s]]
  BY DEF Stores, IInv, Shape
<1>3. records' = [records EXCEPT ![w] = << >>]
  BY <1>1, <1>2
<1>4. /\ AskedKept
      /\ \A q \in Calls : ToldTo(q)' = ToldTo(q)
  BY <1>1, AskingIsKept, TellingIsKept
<1> QED
  BY <1>1, <1>3, <1>4 DEF Book!Lose, AskedKept

(* The rest happens behind the scenes.                                     *)
LEMMA QuietSteps ==
  ASSUME UNCHANGED <<request, record, records, response, backend>>
  PROVE  UNCHANGED Book!bookVars
<1>1. /\ AskedKept
      /\ \A q \in Calls : ToldTo(q)' = ToldTo(q)
  BY AskingIsKept, TellingIsKept
<1> QED
  BY <1>1 DEF Book!bookVars, AskedKept

(* The service keeps the promises of RecordBook: a record is drawn up once *)
(* and written once as it was answered, late writes included; "persisted"  *)
(* is told of stored records only; a GET is told what is stored; a record  *)
(* is withheld only if JSON cannot carry it; and only a worker's memory is *)
(* lost (main_processor.py:84).                                            *)
THEOREM ServiceKeepsBook == Spec => KeepsBook
<1>1. Init => Book!BookInit
  BY DEF Init, Book!BookInit, CallOf, ToldTo
<1>2. StepInv /\ [Next]_vars => [Book!BookNext]_(Book!bookVars)
  <2> SUFFICES ASSUME StepInv, [Next]_vars
               PROVE  Book!BookNext \/ UNCHANGED Book!bookVars
    OBVIOUS
  <2> USE DEF Book!BookNext
  <2>1. ASSUME NEW r \in Calls, NEW w \in Workers, Arrive(r, w)
        PROVE  Book!BookNext
    BY <2>1, ArrivalOpens DEF StepInv
  <2>2. ASSUME NEW r \in Calls,
               \/ BuildRecord(r) \/ SaveApplied(r) \/ InsertLands(r)
               \/ SaveAcknowledged(r) \/ SaveRaises(r) \/ Fetch(r)
               \/ UnhandledException(r) \/ FetchRaises(r) \/ Ping(r)
        PROVE  Book!BookNext
    BY <2>2, BuildDraws, SaveWrites, AnswerConfirms, FetchFinds,
       ErrorTellsNothing
  <2>3. ASSUME NEW r \in Calls,
               \/ AgentGoesOn(r) \/ Send(r) \/ LogCall(r) \/ LogRefused(r)
               \/ LogFails(r) \/ LogAsText(r) \/ EntryNotBuilt(r)
               \/ LogLands(r)
        PROVE  UNCHANGED Book!bookVars
    BY <2>3, QuietSteps
    DEF AgentGoesOn, Send, LogCall, LogRefused, LogFails, LogAsText,
        EntryNotBuilt, LogLands, httpVars
  <2>4. ASSUME NEW w \in Workers, Crash(w) PROVE Book!BookNext
    BY <2>4, CrashLoses DEF StepInv, Stores
  <2>5. CASE UNCHANGED vars
    BY <2>5, QuietSteps DEF vars, httpVars
  <2> QED
    BY <2>1, <2>2, <2>3, <2>4, <2>5 DEF Next, Handle, Lands
<1> QED
  BY <1>1, <1>2, StepInvariance, PTL DEF Spec, KeepsBook, Book!BookSpec
=============================================================================
