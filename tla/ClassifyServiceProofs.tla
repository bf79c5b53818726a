------------------------ MODULE ClassifyServiceProofs ------------------------
(***************************************************************************)
(* Proofs of the safety of ClassifyService, for any number of calls and    *)
(* workers, either repository, and any database faults and crashes.        *)
(***************************************************************************)
EXTENDS ClassifyService, TLAPS

(***************************************************************************)
(* The inductive invariant.  Most of it is about one call at a time.       *)
(***************************************************************************)
Early == {"waiting", "classifying", "saving", "saved", "reading", "pinging"}
Late == {"logging", "relogging", "done", "unlogged", "raised"}
Stages == Early \cup {"sending", "lost"} \cup Late

(* The functions of the state, as functions.                               *)
Shape ==
  /\ llm_calls \in [Calls -> 0..max_attempts]
  /\ verdict = [r \in Calls |-> verdict[r]]
  /\ request \in [Calls -> Requests \cup {None}]
  /\ stage \in [Calls -> Stages]
  /\ record \in [Calls -> Records \cup {None}]
  /\ response \in [Calls -> Responses \cup {None}]
  /\ answer \in [Calls -> Responses \cup {None}]
  /\ records = [s \in Stores |-> records[s]]
  /\ api_log = [s \in Stores |-> api_log[s]]
  /\ epoch \in [Workers -> 0..MaxCrashes]
  /\ backend \in Backends

(* Which calls are at which stage.                                         *)
KindAtStage(r) ==
  /\ request[r] = None <=> stage[r] = "waiting"
  /\ stage[r] \in {"classifying", "saving", "saved"} => request[r].kind = "classify"
  /\ stage[r] = "reading" => request[r].kind = "fetch"
  /\ stage[r] = "pinging" => request[r].kind \in {"health", "probe"}
  /\ stage[r] \in {"logging", "relogging"} => request[r].kind \notin SkippedKinds
  /\ stage[r] = "relogging" => backend = "mongo"
  /\ stage[r] = "unlogged" => MayFail \/ Unsavable(r)
  /\ stage[r] = "raised" =>
       request[r].kind = "invalid" /\ request[r].body = "nested"

(* A worker's life: a call in flight belongs to the present one.           *)
LifeOf(r) ==
  request[r] # None =>
    /\ request[r].epoch <= epoch[request[r].worker]
    /\ InFlight(r) => request[r].epoch = epoch[request[r].worker]

(* Only a classification calls the LLM, and its verdict accounts for that. *)
AgentPart(r) ==
  IF Classified(r)
    THEN /\ llm_calls[r] \in 1..max_attempts
         /\ verdict[r] \in {Undecided, Abandoned} \cup VerdictsAfter(llm_calls[r])
    ELSE llm_calls[r] = 0 /\ verdict[r] = Undecided

(* A record is the record of the verdict.                                  *)
RecordPart(r) ==
  /\ record[r] # None =>
       /\ Classified(r)
       /\ verdict[r].kind \in {"success", "failure"}
       /\ record[r] = Record(r, verdict[r])
  /\ stage[r] \in {"waiting", "classifying"} => record[r] = None
  /\ stage[r] \in {"saving", "saved"} => record[r] # None

(* A response is made once, from the record if there is one, and what has  *)
(* gone out is the response.                                               *)
ResponsePart(r) ==
  /\ stage[r] \in Early => response[r] = None
  /\ stage[r] \in Late \cup {"sending"} => response[r] # None
  /\ Classified(r) /\ response[r] # None =>
       IF record[r] = None
         THEN verdict[r] = Raised /\ response[r] = ErrorResponse(500)
         ELSE \E p \in BOOLEAN :
                response[r] = Rendered(ClassifyResponse(record[r], p))
  /\ request[r] # None /\ request[r].kind \in {"invalid", "health", "probe"}
       /\ response[r] # None => response[r].record = None
  /\ stage[r] = "sending" => answer[r] = None
  /\ stage[r] \in Late => answer[r] # None
  /\ answer[r] # None => answer[r] = response[r]

InStore(r) ==
  /\ r \in DOMAIN records[StoreOf(r)]
  /\ records[StoreOf(r)][r] = record[r]

(* The memory store that served r is gone.                                 *)
Moved(r) == backend = "memory" /\ epoch[request[r].worker] > request[r].epoch

(* What is acknowledged is stored, and what is done is logged.             *)
StoredPart(r) ==
  /\ stage[r] = "saved" => InStore(r)
  /\ Classified(r) /\ response[r] # None /\ response[r].persisted =>
       InStore(r) \/ Moved(r)
  /\ stage[r] = "done" /\ request[r].kind \notin SkippedKinds =>
       r \in DOMAIN api_log[StoreOf(r)] \/ Moved(r)

(* The client of t has been given its record.                              *)
Known(t) ==
  /\ Classified(t)
  /\ record[t] # None
  /\ answer[t] # None
  /\ answer[t].record = record[t]

(* A GET is for a record its client knows, or for none.                    *)
FetchPart(r) ==
  LET t == request[r].target
  IN  request[r] # None /\ request[r].kind = "fetch" =>
        /\ t \in Calls
        /\ t # r => Known(t)
        /\ response[r] # None =>
             /\ response[r].status = 200 => t # r /\ response[r].record = record[t]
             /\ response[r].status # 200 => response[r].record = None
             /\ response[r].status = 404 /\ t # r =>
                  \/ ~answer[t].persisted
                  \/ /\ backend = "memory"
                     /\ \/ request[r].worker # request[t].worker
                        \/ request[r].epoch # request[t].epoch

CallInv(r) ==
  /\ KindAtStage(r)
  /\ LifeOf(r)
  /\ AgentPart(r)
  /\ RecordPart(r)
  /\ ResponsePart(r)
  /\ StoredPart(r)
  /\ FetchPart(r)

(* The stores hold records as they were built, and entries of answers.     *)
StoreInv ==
  \A s \in Stores : \A id \in DOMAIN records[s] :
    id \in Calls /\ record[id] # None /\ records[s][id] = record[id]

LogInv ==
  \A s \in Stores : \A id \in DOMAIN api_log[s] :
    /\ id \in Calls
    /\ request[id] # None /\ request[id].kind \notin SkippedKinds
    /\ answer[id] # None
    /\ api_log[s][id] \in LogEntries
    /\ api_log[s][id].status = answer[id].status

IInv == Shape /\ StoreInv /\ LogInv /\ \A r \in Calls : CallInv(r)

-----------------------------------------------------------------------------
LEMMA Budget == max_attempts \in Nat /\ max_attempts >= 1
  BY MaxRetriesAssumption DEF max_attempts

LEMMA NoneIsNone ==
  None \notin Requests /\ None \notin Records /\ None \notin Responses
  BY NoneAssumption

(* The verdicts there are, one by one.                                     *)
LEMMA VerdictForms ==
  ASSUME NEW n \in 1..max_attempts, NEW v \in VerdictsAfter(n)
  PROVE  \/ /\ v.kind = "success"
            /\ v.output \in Outputs
            /\ v.attempt_errors \in [1..(n - 1) -> AttemptError]
         \/ v = Raised /\ v.kind = "exception"
         \/ /\ v.kind = "failure"
            /\ n = max_attempts
            /\ v.output = NoOutput
            /\ v.attempt_errors \in [1..n -> AttemptError]
<1>1. CASE v \in {Success(o, e) : o \in Outputs,
                                  e \in [1..(n - 1) -> AttemptError]}
  BY <1>1 DEF Success, Verdict
<1>2. CASE v = Raised
  BY <1>2 DEF Raised, Verdict
<1>3. CASE n = max_attempts /\ v \in {Failure(e) : e \in [1..n -> AttemptError]}
  BY <1>3 DEF Failure, Verdict
<1> QED
  BY <1>1, <1>2, <1>3 DEF VerdictsAfter

(* The record of a verdict counts the calls of the LLM it took, and its    *)
(* error code tells whether the model was silent on every one.             *)
LEMMA RecordOfVerdict ==
  ASSUME NEW r \in Calls, request[r] \in Requests,
         NEW n \in 1..max_attempts, NEW v \in VerdictsAfter(n),
         v.kind \in {"success", "failure"}
  PROVE  /\ Record(r, v) \in Records
         /\ Record(r, v).attempts = n
         /\ Record(r, v).status = "succeeded" => Record(r, v).output \in Outputs
<1> USE Budget
<1>1. request[r].request_id \in RequestIds
  BY DEF Requests
<1>2. error_code(v) \in {None, "llm_timeout", "llm_malformed_output"}
  BY DEF error_code
<1>3. CASE v.kind = "success"
  <2>1. /\ v.output \in Outputs
        /\ v.attempt_errors \in [1..(n - 1) -> AttemptError]
        /\ n - 1 \in 0..max_attempts
    BY <1>3, VerdictForms DEF Raised, Verdict
  <2>2. Len(v.attempt_errors) = n - 1
    BY <2>1
  <2>3. v.attempt_errors \in Errors
    BY <2>1 DEF Errors
  <2>4. attempts(v) = n
    BY <1>3, <2>2 DEF attempts
  <2> QED
    BY <1>1, <1>2, <1>3, <2>1, <2>3, <2>4 DEF Record, Records
<1>4. CASE v.kind = "failure"
  <2>1. /\ v.output = NoOutput
        /\ v.attempt_errors \in [1..n -> AttemptError]
        /\ n \in 0..max_attempts
    BY <1>4, VerdictForms DEF Raised, Verdict
  <2>2. Len(v.attempt_errors) = n
    BY <2>1
  <2>3. v.attempt_errors \in Errors
    BY <2>1 DEF Errors
  <2>4. attempts(v) = n
    BY <1>4, <2>2 DEF attempts
  <2> QED
    BY <1>1, <1>2, <1>4, <2>1, <2>3, <2>4 DEF Record, Records
<1> QED
  BY <1>3, <1>4

LEMMA ErrorTyped ==
  ASSUME NEW code \in Statuses
  PROVE  ErrorResponse(code) \in Responses /\ ErrorResponse(code).record = None
  BY DEF ErrorResponse, Response, Responses

LEMMA ResponseTyped ==
  ASSUME NEW rec \in Records, NEW p \in BOOLEAN,
         rec.status = "succeeded" => rec.output \in Outputs
  PROVE  /\ ClassifyResponse(rec, p) \in Responses
         /\ ClassifyResponse(rec, p).record = rec
         /\ ClassifyResponse(rec, p).persisted = p
<1> USE DEF Statuses
<1>1. CASE rec.status = "failed"
  BY <1>1 DEF ClassifyResponse, Response, Responses
<1>2. CASE rec.status # "failed"
  <2>1. NeedsHuman[rec.output] \in BOOLEAN
    BY <1>2, OutputsAssumption DEF Records
  <2> QED
    BY <1>2, <2>1 DEF ClassifyResponse, Response, Responses
<1> QED
  BY <1>1, <1>2

(* What goes out in its place if the record cannot be rendered.            *)
LEMMA RenderedTyped ==
  ASSUME NEW rec \in Records, NEW p \in BOOLEAN,
         rec.status = "succeeded" => rec.output \in Outputs
  PROVE  /\ Rendered(ClassifyResponse(rec, p)) \in Responses
         /\ Servable(rec) =>
              /\ Rendered(ClassifyResponse(rec, p)) = ClassifyResponse(rec, p)
              /\ Rendered(ClassifyResponse(rec, p)).record = rec
              /\ Rendered(ClassifyResponse(rec, p)).persisted = p
         /\ ~Servable(rec) =>
              /\ Rendered(ClassifyResponse(rec, p)) = ErrorResponse(500)
              /\ Rendered(ClassifyResponse(rec, p)).record = None
              /\ Rendered(ClassifyResponse(rec, p)).persisted = FALSE
<1>1. /\ ClassifyResponse(rec, p) \in Responses
      /\ ClassifyResponse(rec, p).record = rec
      /\ ClassifyResponse(rec, p).persisted = p
  BY ResponseTyped
<1>2. /\ ErrorResponse(500) \in Responses /\ ErrorResponse(500).record = None
      /\ ErrorResponse(500).persisted = FALSE
  BY ErrorTyped DEF ErrorResponse, Response, Statuses
<1>3. rec # None
  BY NoneIsNone
<1> QED
  BY <1>1, <1>2, <1>3 DEF Rendered

LEMMA RenderedAsItIs ==
  ASSUME NEW rec \in Records, NEW p, Servable(rec)
  PROVE  /\ Rendered(ClassifyResponse(rec, p)) = ClassifyResponse(rec, p)
         /\ ClassifyResponse(rec, p).record = rec
<1>1. ClassifyResponse(rec, p).record = rec
  BY DEF ClassifyResponse, Response
<1> QED
  BY <1>1 DEF Rendered

LEMMA RefusedToRender ==
  ASSUME NEW rec \in Records, NEW p, ~Servable(rec)
  PROVE  /\ Rendered(ClassifyResponse(rec, p)) = ErrorResponse(500)
         /\ ErrorResponse(500).record = None
         /\ ErrorResponse(500).persisted = FALSE
<1>1. ClassifyResponse(rec, p).record = rec
  BY DEF ClassifyResponse, Response
<1>2. rec # None
  BY NoneIsNone
<1> QED
  BY <1>1, <1>2 DEF Rendered, ErrorResponse, Response

-----------------------------------------------------------------------------
LEMMA InitIInv == Init => IInv
<1> SUFFICES ASSUME Init PROVE IInv
  OBVIOUS
<1> USE Budget DEF Init, ContractInit
<1>1. Shape
  BY FaultsAssumption DEF Shape, Stages, Early
<1>2. StoreInv /\ LogInv
  BY DEF StoreInv, LogInv
<1>3. ASSUME NEW r \in Calls PROVE CallInv(r)
  <2>1. request[r] = None /\ stage[r] = "waiting" /\ answer[r] = None
        /\ response[r] = None /\ record[r] = None
        /\ llm_calls[r] = 0 /\ verdict[r] = Undecided
    OBVIOUS
  <2> QED
    BY <2>1
    DEF CallInv, KindAtStage, LifeOf, AgentPart, RecordPart, ResponsePart,
        StoredPart, FetchPart, Classified, Early, Late
<1> QED
  BY <1>1, <1>2, <1>3 DEF IInv

(***************************************************************************)
(* What a step of the handler of r, or of the database for it, leaves      *)
(* alone: the other calls, what is already known of this one, and every    *)
(* document in a store but its own.                                        *)
(***************************************************************************)
OthersKept(r) ==
  \A q \in Calls \ {r} :
    /\ llm_calls'[q] = llm_calls[q]
    /\ verdict'[q] = verdict[q]
    /\ request'[q] = request[q]
    /\ stage'[q] = stage[q]
    /\ record'[q] = record[q]
    /\ response'[q] = response[q]
    /\ answer'[q] = answer[q]

KnownKept(r) ==
  /\ request[r] # None => request'[r] = request[r]
  /\ record[r] # None => record'[r] = record[r]
  /\ answer[r] # None => answer'[r] = answer[r]
  /\ epoch' = epoch
  /\ backend' = backend

RecordsKept(r) ==
  \A s \in Stores :
    /\ \A id \in DOMAIN records[s] :
         id \in DOMAIN records'[s] /\ records'[s][id] = records[s][id]
    /\ \A id \in DOMAIN records'[s] :
         \/ id \in DOMAIN records[s]
         \/ id = r /\ record[r] # None /\ records'[s][r] = record[r]

LogKept(r) ==
  \A s \in Stores :
    /\ \A id \in DOMAIN api_log[s] : id \in DOMAIN api_log'[s]
    /\ \A id \in DOMAIN api_log'[s] :
         \/ id \in DOMAIN api_log[s] /\ api_log'[s][id] = api_log[s][id]
         \/ /\ id = r
            /\ request[r] # None /\ request[r].kind \notin SkippedKinds
            /\ answer[r] # None
            /\ api_log'[s][r] \in LogEntries
            /\ api_log'[s][r].status = answer[r].status

LEMMA StoreOfIsStore ==
  ASSUME Shape, NEW r \in Calls, request[r] # None
  PROVE  StoreOf(r) \in Stores
  BY DEF Shape, StoreOf, Stores, Requests

LEMMA StoresUntouched ==
  ASSUME NEW r \in Calls
  PROVE  /\ records' = records => RecordsKept(r)
         /\ api_log' = api_log => LogKept(r)
  BY DEF RecordsKept, LogKept

(* The invariant of a call survives the steps of another.                  *)
LEMMA OtherCall ==
  ASSUME IInv, NEW r \in Calls, OthersKept(r), KnownKept(r), RecordsKept(r),
         LogKept(r), NEW q \in Calls \ {r}
  PROVE  CallInv(q)'
<1>1. /\ llm_calls'[q] = llm_calls[q]
      /\ verdict'[q] = verdict[q]
      /\ request'[q] = request[q]
      /\ stage'[q] = stage[q]
      /\ record'[q] = record[q]
      /\ response'[q] = response[q]
      /\ answer'[q] = answer[q]
      /\ epoch' = epoch
      /\ backend' = backend
  BY DEF OthersKept, KnownKept
<1>2. CallInv(q)
  BY DEF IInv
<1>3. KindAtStage(q)'
  BY <1>1, <1>2 DEF CallInv, KindAtStage, MayFail, Unsavable
<1>4. LifeOf(q)' /\ (Classified(q)' <=> Classified(q))
  BY <1>1, <1>2 DEF CallInv, LifeOf, InFlight, Through, Classified
<1>5. AgentPart(q)'
  BY <1>1, <1>2, <1>4 DEF CallInv, AgentPart
<1>6. RecordPart(q)'
  BY <1>1, <1>2, <1>4 DEF CallInv, RecordPart, Record
<1>7. ResponsePart(q)'
  BY <1>1, <1>2, <1>4 DEF CallInv, ResponsePart
<1>8. StoredPart(q)'
  <2>1. request[q] # None =>
          /\ StoreOf(q) \in Stores
          /\ StoreOf(q)' = StoreOf(q)
    BY <1>1, StoreOfIsStore DEF StoreOf, IInv
  <2>2. request[q] # None /\ InStore(q) => InStore(q)'
    BY <1>1, <2>1 DEF InStore, RecordsKept
  <2>3. Moved(q)' <=> Moved(q)
    BY <1>1 DEF Moved
  <2>4. request[q] # None /\ q \in DOMAIN api_log[StoreOf(q)]
          => q \in DOMAIN api_log'[StoreOf(q)']
    BY <2>1 DEF LogKept
  <2>5. (stage[q] = "saved" \/ stage[q] = "done") => request[q] # None
    BY <1>2 DEF CallInv, KindAtStage
  <2> QED
    BY <1>1, <1>2, <1>4, <2>1, <2>2, <2>3, <2>4, <2>5
    DEF CallInv, StoredPart, Classified
<1>9. FetchPart(q)'
  <2> DEFINE t == request[q].target
  <2> SUFFICES ASSUME request[q] # None, request[q].kind = "fetch"
               PROVE  FetchPart(q)'
    BY <1>1 DEF FetchPart
  <2>1. t \in Calls /\ FetchPart(q)
    BY <1>2 DEF CallInv, FetchPart
  <2>2. t # q => Known(t)
    BY <2>1 DEF FetchPart
  <2>3. ASSUME t # q
        PROVE  /\ request'[t] = request[t]
               /\ record'[t] = record[t]
               /\ answer'[t] = answer[t]
               /\ Known(t)'
    BY <2>1, <2>2, <2>3 DEF Known, Classified, OthersKept, KnownKept
  <2> QED
    BY <1>1, <2>1, <2>2, <2>3 DEF FetchPart
<1> QED
  BY <1>3, <1>4, <1>5, <1>6, <1>7, <1>8, <1>9 DEF CallInv

(* So a step of the handler of r has to keep the invariant of r only.      *)
LEMMA LocalStep ==
  ASSUME IInv, NEW r \in Calls, OthersKept(r), KnownKept(r), RecordsKept(r),
         LogKept(r), Shape', CallInv(r)'
  PROVE  IInv'
<1>1. ASSUME NEW q \in Calls PROVE CallInv(q)'
  BY <1>1, OtherCall
<1>2. \A q \in Calls :
        /\ request[q] # None => request'[q] = request[q]
        /\ record[q] # None => record'[q] = record[q]
        /\ answer[q] # None => answer'[q] = answer[q]
  BY DEF OthersKept, KnownKept
<1>3. StoreInv'
  BY <1>2 DEF IInv, StoreInv, RecordsKept
<1>4. LogInv'
  BY <1>2 DEF IInv, LogInv, LogKept
<1> QED
  BY <1>1, <1>3, <1>4 DEF IInv

-----------------------------------------------------------------------------
(* Arrivals.                                                               *)
LEMMA TakeMakes ==
  ASSUME IInv, NEW r \in Calls, NEW w \in Workers, NEW kind \in Kinds,
         NEW target \in Calls \cup {None}, NEW body \in Bodies,
         Take(r, w, kind, target, body)
  PROVE  /\ \A q \in Calls \ {r} : request'[q] = request[q]
         /\ request' \in [Calls -> Requests \cup {None}]
         /\ request'[r] \in Requests /\ request'[r] # None
         /\ request'[r].kind = kind /\ request'[r].target = target
         /\ request'[r].worker = w /\ request'[r].epoch = epoch[w]
         /\ request[r] = None /\ record[r] = None /\ response[r] = None
         /\ answer[r] = None
         /\ llm_calls[r] = 0 /\ verdict[r] = Undecided
<1>1. PICK id \in RequestIds :
        request' = [request EXCEPT ![r] =
          [kind |-> kind, worker |-> w, epoch |-> epoch[w],
           request_id |-> id, target |-> target, body |-> body]]
  BY DEF Take
<1>2. [kind |-> kind, worker |-> w, epoch |-> epoch[w],
       request_id |-> id, target |-> target, body |-> body] \in Requests
  BY DEF IInv, Shape, Requests
<1>3. stage[r] = "waiting"
  BY DEF Take
<1>4. CallInv(r) /\ request \in [Calls -> Requests \cup {None}]
  BY DEF IInv, Shape
<1>5. request[r] = None /\ record[r] = None /\ response[r] = None
  BY <1>3, <1>4 DEF CallInv, KindAtStage, RecordPart, ResponsePart, Early
<1>6. answer[r] = None /\ llm_calls[r] = 0 /\ verdict[r] = Undecided
  BY <1>4, <1>5 DEF CallInv, ResponsePart, AgentPart, Classified
<1> QED
  BY <1>1, <1>2, <1>4, <1>5, <1>6, NoneIsNone

LEMMA ClassifyArrives ==
  ASSUME IInv, NEW r \in Calls, NEW w \in Workers, ArriveClassify(r, w)
  PROVE  IInv'
<1> USE Budget DEF GoTo
<1>1. PICK body \in Bodies : Take(r, w, "classify", None, body)
  BY DEF ArriveClassify
<1>2. /\ \A q \in Calls \ {r} : request'[q] = request[q]
      /\ request' \in [Calls -> Requests \cup {None}]
      /\ request'[r] \in Requests /\ request'[r] # None
      /\ request'[r].kind = "classify"
      /\ request'[r].worker = w /\ request'[r].epoch = epoch[w]
      /\ request[r] = None /\ record[r] = None /\ response[r] = None
      /\ answer[r] = None
      /\ llm_calls[r] = 0 /\ verdict[r] = Undecided
  BY <1>1, TakeMakes DEF Kinds
<1>3. /\ llm_calls' = [llm_calls EXCEPT ![r] = 1]
      /\ stage' = [stage EXCEPT ![r] = "classifying"]
      /\ UNCHANGED <<verdict, record, response, answer, records, api_log,
                     epoch, backend>>
  BY <1>2 DEF ArriveClassify, CallLLM, IInv, Shape
<1>4. Shape'
  BY <1>2, <1>3 DEF IInv, Shape, Stages, Early
<1>5. OthersKept(r) /\ KnownKept(r)
  BY <1>2, <1>3 DEF OthersKept, KnownKept, IInv, Shape
<1>6. CallInv(r)'
  <2>1. stage'[r] = "classifying" /\ llm_calls'[r] = 1
    BY <1>3 DEF IInv, Shape
  <2>2. KindAtStage(r)' /\ LifeOf(r)'
    BY <1>2, <1>3, <2>1 DEF KindAtStage, LifeOf, IInv, Shape
  <2>3. AgentPart(r)' /\ RecordPart(r)' /\ ResponsePart(r)'
    BY <1>2, <1>3, <2>1
    DEF AgentPart, Classified, RecordPart, ResponsePart, Late
  <2>4. StoredPart(r)' /\ FetchPart(r)'
    BY <1>2, <1>3, <2>1 DEF StoredPart, FetchPart
  <2> QED
    BY <2>2, <2>3, <2>4 DEF CallInv
<1> QED
  BY <1>3, <1>4, <1>5, <1>6, LocalStep, StoresUntouched

LEMMA InvalidArrives ==
  ASSUME IInv, NEW r \in Calls, NEW w \in Workers, ArriveInvalid(r, w)
  PROVE  IInv'
<1> USE DEF GoTo, Return
<1>1. PICK body \in Bodies, status \in Statuses :
        /\ Take(r, w, "invalid", None, body)
        /\ Return(r, ErrorResponse(status))
  <2>1. \A body \in Bodies : Refusals(body) \subseteq Statuses
    BY DEF Refusals, Statuses
  <2> QED
    BY <2>1 DEF ArriveInvalid
<1>2. /\ \A q \in Calls \ {r} : request'[q] = request[q]
      /\ request' \in [Calls -> Requests \cup {None}]
      /\ request'[r] \in Requests /\ request'[r] # None
      /\ request'[r].kind = "invalid"
      /\ request'[r].worker = w /\ request'[r].epoch = epoch[w]
      /\ request[r] = None /\ record[r] = None /\ response[r] = None
      /\ answer[r] = None
      /\ llm_calls[r] = 0 /\ verdict[r] = Undecided
  BY <1>1, TakeMakes DEF Kinds
<1>3. /\ response' = [response EXCEPT ![r] = ErrorResponse(status)]
      /\ stage' = [stage EXCEPT ![r] = "sending"]
      /\ UNCHANGED <<llm_calls, verdict, record, answer, records, api_log,
                     epoch, backend>>
  BY <1>1 DEF ArriveInvalid
<1>4. Shape'
  BY <1>2, <1>3, ErrorTyped DEF IInv, Shape, Stages
<1>5. OthersKept(r) /\ KnownKept(r)
  BY <1>2, <1>3 DEF OthersKept, KnownKept, IInv, Shape
<1>6. CallInv(r)'
  <2>1. /\ stage'[r] = "sending"
        /\ response'[r] = ErrorResponse(status) /\ response'[r] # None
        /\ response'[r].record = None
    BY <1>3, ErrorTyped, NoneIsNone DEF IInv, Shape
  <2>2. KindAtStage(r)' /\ LifeOf(r)'
    BY <1>2, <1>3, <2>1 DEF KindAtStage, LifeOf, IInv, Shape
  <2>3. AgentPart(r)' /\ RecordPart(r)' /\ ResponsePart(r)'
    BY <1>2, <1>3, <2>1
    DEF AgentPart, Classified, RecordPart, ResponsePart, Early, Late
  <2>4. StoredPart(r)' /\ FetchPart(r)'
    BY <1>2, <1>3, <2>1 DEF StoredPart, FetchPart, Classified
  <2> QED
    BY <2>2, <2>3, <2>4 DEF CallInv
<1> QED
  BY <1>3, <1>4, <1>5, <1>6, LocalStep, StoresUntouched

(* Whoever has been given an id has been given the record of that call.    *)
LEMMA KnownIdsAreKnown ==
  ASSUME IInv, NEW t \in KnownIds
  PROVE  t \in Calls /\ Known(t)
<1>1. PICK q \in Calls :
        answer[q] # None /\ answer[q].record # None /\ t = answer[q].record.id
  BY DEF KnownIds
<1>2. CallInv(q) /\ Shape
  BY DEF IInv
<1>3. /\ request[q] # None /\ request[q] \in Requests
      /\ answer[q] = response[q]
  BY <1>1, <1>2
  DEF CallInv, ResponsePart, KindAtStage, Shape, Early
<1>4. CASE request[q].kind = "classify"
  <2>1. record[q] # None /\ record[q] = answer[q].record
    <3>1. record[q] # None
      BY <1>1, <1>2, <1>3, <1>4, ErrorTyped
      DEF CallInv, ResponsePart, Classified, Statuses
    <3>2. /\ record[q] = Record(q, verdict[q])
          /\ verdict[q].kind \in {"success", "failure"}
          /\ llm_calls[q] \in 1..max_attempts
          /\ verdict[q] \in VerdictsAfter(llm_calls[q])
      BY <1>2, <1>3, <1>4, <3>1
      DEF CallInv, RecordPart, AgentPart, Classified, Undecided, Abandoned,
          Verdict
    <3>3. record[q].status = "succeeded" => record[q].output \in Outputs
      BY <1>3, <3>2, RecordOfVerdict
    <3>4. PICK p \in BOOLEAN :
            response[q] = Rendered(ClassifyResponse(record[q], p))
      BY <1>1, <1>2, <1>3, <1>4, <3>1 DEF CallInv, ResponsePart, Classified
    <3>5. record[q] \in Records
      BY <1>2, <3>1 DEF Shape
    <3>6. answer[q].record \in {record[q], None}
      <4> DEFINE resp == Rendered(ClassifyResponse(record[q], p))
      <4>1. CASE Servable(record[q])
        <5>1. resp.record = record[q]
          BY <3>3, <3>5, <4>1, RenderedTyped
        <5> QED
          BY <1>3, <3>4, <5>1
      <4>2. CASE ~Servable(record[q])
        <5>1. resp.record = None
          BY <3>5, <4>2, RefusedToRender, ZenonT(30)
        <5> QED
          BY <1>3, <3>4, <5>1
      <4> QED
        BY <4>1, <4>2
    <3> QED
      BY <1>1, <3>1, <3>6
  <2>2. record[q].id = q
    BY <1>2, <1>3, <1>4, <2>1 DEF CallInv, RecordPart, Record
  <2> QED
    BY <1>1, <1>3, <1>4, <2>1, <2>2 DEF Known, Classified
<1>5. CASE request[q].kind = "fetch"
  <2> DEFINE u == request[q].target
  <2>1. u \in Calls /\ u # q /\ Known(u) /\ answer[q].record = record[u]
    BY <1>1, <1>2, <1>3, <1>5 DEF CallInv, FetchPart
  <2>2. CallInv(u) /\ record[u] # None
    BY <2>1 DEF Known, IInv
  <2>3. record[u].id = u
    BY <2>2 DEF CallInv, RecordPart, Record
  <2> QED
    BY <1>1, <2>1, <2>3
<1> QED
  BY <1>1, <1>2, <1>3, <1>4, <1>5
  DEF Requests, Kinds, CallInv, ResponsePart

LEMMA GetArrives ==
  ASSUME IInv, NEW r \in Calls, NEW w \in Workers,
         ArriveFetch(r, w) \/ ArriveHealth(r, w)
  PROVE  IInv'
<1> USE DEF GoTo
<1>1. PICK kind \in {"fetch", "health", "probe"},
           t \in Calls \cup {None}, body \in Bodies :
        /\ Take(r, w, kind, t, body)
        /\ kind = "fetch" => t \in KnownIds \cup {r}
        /\ stage' = [stage EXCEPT ![r] =
             IF kind = "fetch" THEN "reading" ELSE "pinging"]
        /\ UNCHANGED <<llm_calls, verdict, record, response, answer, records,
                       api_log, epoch, backend>>
  <2>1. CASE ArriveFetch(r, w)
    <3>1. PICK t \in KnownIds \cup {r} : Take(r, w, "fetch", t, "storable")
      BY <2>1 DEF ArriveFetch
    <3>2. t \in Calls /\ "storable" \in Bodies
      BY KnownIdsAreKnown, BodiesAssumption
    <3> QED
      BY <2>1, <3>1, <3>2 DEF ArriveFetch
  <2>2. CASE ArriveHealth(r, w)
    BY <2>2, BodiesAssumption DEF ArriveHealth
  <2> QED
    BY <2>1, <2>2
<1>2. /\ \A q \in Calls \ {r} : request'[q] = request[q]
      /\ request' \in [Calls -> Requests \cup {None}]
      /\ request'[r] \in Requests /\ request'[r] # None
      /\ request'[r].kind = kind /\ request'[r].target = t
      /\ request'[r].worker = w /\ request'[r].epoch = epoch[w]
      /\ request[r] = None /\ record[r] = None /\ response[r] = None
      /\ answer[r] = None
      /\ llm_calls[r] = 0 /\ verdict[r] = Undecided
  BY <1>1, TakeMakes DEF Kinds
<1>4. Shape'
  BY <1>1, <1>2 DEF IInv, Shape, Stages, Early
<1>5. OthersKept(r) /\ KnownKept(r)
  BY <1>1, <1>2 DEF OthersKept, KnownKept, IInv, Shape
<1>6. CallInv(r)'
  <2>1. stage'[r] = IF kind = "fetch" THEN "reading" ELSE "pinging"
    BY <1>1 DEF IInv, Shape
  <2>2. KindAtStage(r)' /\ LifeOf(r)'
    BY <1>1, <1>2, <2>1 DEF KindAtStage, LifeOf, IInv, Shape
  <2>3. AgentPart(r)' /\ RecordPart(r)' /\ ResponsePart(r)'
    BY <1>1, <1>2, <2>1
    DEF AgentPart, Classified, RecordPart, ResponsePart, Late
  <2>4. StoredPart(r)'
    BY <1>1, <1>2, <2>1 DEF StoredPart, Classified
  <2>5. FetchPart(r)'
    <3>1. CASE kind = "fetch" /\ t # r
      <4>1. t \in Calls /\ Known(t)
        BY <1>1, <3>1, KnownIdsAreKnown
      <4>2. Known(t)'
        BY <1>1, <1>2, <3>1, <4>1 DEF Known, Classified
      <4> QED
        BY <1>1, <1>2, <4>1, <4>2 DEF FetchPart
    <3> QED
      BY <1>1, <1>2, <3>1 DEF FetchPart
  <2> QED
    BY <2>2, <2>3, <2>4, <2>5 DEF CallInv
<1> QED
  BY <1>1, <1>4, <1>5, <1>6, LocalStep, StoresUntouched

-----------------------------------------------------------------------------
(* The agent, and the record of its verdict.                               *)
LEMMA AgentSteps ==
  ASSUME IInv, NEW r \in Calls, AgentGoesOn(r)
  PROVE  IInv'
<1> USE Budget
<1>1. /\ stage[r] = "classifying" /\ request[r] # None /\ Classified(r)
      /\ record[r] = None /\ response[r] = None /\ answer[r] = None
      /\ llm_calls[r] \in 1..max_attempts
      /\ verdict[r] = Undecided
      /\ Shape /\ CallInv(r)
  BY DEF AgentGoesOn, GoOn, CallLLM, Settle, IInv, CallInv, KindAtStage,
         AgentPart, RecordPart, ResponsePart, Classified, Early
<1>2. UNCHANGED <<request, stage, record, response, answer, records, api_log,
                  epoch, backend>>
  BY DEF AgentGoesOn, httpVars
<1>3. /\ llm_calls' \in [Calls -> 0..max_attempts]
      /\ verdict' = [q \in Calls |-> verdict'[q]]
      /\ \A q \in Calls \ {r} :
           llm_calls'[q] = llm_calls[q] /\ verdict'[q] = verdict[q]
      /\ llm_calls'[r] \in 1..max_attempts
      /\ verdict'[r] \in {Undecided, Abandoned} \cup VerdictsAfter(llm_calls'[r])
  <2>1. CASE CallLLM(r)
    BY <1>1, <2>1 DEF CallLLM, Shape
  <2>2. CASE Settle(r)
    BY <1>1, <2>2 DEF Settle, Shape
  <2> QED
    BY <2>1, <2>2 DEF AgentGoesOn, GoOn
<1>4. Shape'
  BY <1>1, <1>2, <1>3 DEF Shape
<1>5. OthersKept(r) /\ KnownKept(r)
  BY <1>2, <1>3 DEF OthersKept, KnownKept
<1>6. CallInv(r)'
  <2>1. KindAtStage(r)' /\ LifeOf(r)'
    BY <1>1, <1>2
    DEF CallInv, KindAtStage, LifeOf, MayFail, Unsavable, InFlight, Through
  <2>2. AgentPart(r)' /\ RecordPart(r)' /\ ResponsePart(r)'
    BY <1>1, <1>2, <1>3
    DEF AgentPart, Classified, RecordPart, ResponsePart, Early, Late
  <2>3. StoredPart(r)' /\ FetchPart(r)'
    BY <1>1, <1>2 DEF StoredPart, FetchPart, Classified
  <2> QED
    BY <2>1, <2>2, <2>3 DEF CallInv
<1> QED
  BY <1>2, <1>4, <1>5, <1>6, LocalStep, StoresUntouched

(* What there is to know of a call that has its record.                    *)
LEMMA RecordFacts ==
  ASSUME IInv, NEW r \in Calls, record[r] # None
  PROVE  /\ request[r] # None /\ Classified(r)
         /\ record[r] \in Records
         /\ record[r].id = r
         /\ record[r] = Record(r, verdict[r])
         /\ record[r].attempts = llm_calls[r]
         /\ record[r].status = "succeeded" => record[r].output \in Outputs
         /\ verdict[r].kind \in {"success", "failure"}
         /\ llm_calls[r] \in 1..max_attempts
         /\ verdict[r] \in VerdictsAfter(llm_calls[r])
         /\ StoreOf(r) \in Stores
<1>1. CallInv(r) /\ Shape
  BY DEF IInv
<1>2. /\ Classified(r) /\ request[r] # None
      /\ verdict[r].kind \in {"success", "failure"}
      /\ record[r] = Record(r, verdict[r])
  BY <1>1 DEF CallInv, RecordPart, Classified
<1>3. /\ llm_calls[r] \in 1..max_attempts
      /\ verdict[r] \in VerdictsAfter(llm_calls[r])
      /\ request[r] \in Requests
  BY <1>1, <1>2
  DEF CallInv, AgentPart, Undecided, Abandoned, Verdict, Shape
<1>4. record[r].id = r
  BY <1>2 DEF Record
<1> QED
  BY <1>1, <1>2, <1>3, <1>4, RecordOfVerdict, StoreOfIsStore

LEMMA BuildRecordStep ==
  ASSUME IInv, NEW r \in Calls, BuildRecord(r)
  PROVE  IInv'
<1> USE DEF GoTo
<1>1. /\ stage[r] = "classifying" /\ request[r] # None /\ Classified(r)
      /\ record[r] = None /\ response[r] = None /\ answer[r] = None
      /\ Shape /\ CallInv(r)
      /\ verdict[r].kind \in {"success", "failure"}
  BY DEF BuildRecord, IInv, CallInv, KindAtStage,
         RecordPart, ResponsePart, Classified, Early
<1>2. /\ record' = [record EXCEPT ![r] = Record(r, verdict[r])]
      /\ stage' = [stage EXCEPT ![r] = "saving"]
      /\ UNCHANGED <<llm_calls, verdict, request, response, answer, records,
                     api_log, epoch, backend>>
  BY DEF BuildRecord
<1>3. Record(r, verdict[r]) \in Records
  <2>1. /\ llm_calls[r] \in 1..max_attempts
        /\ verdict[r] \in VerdictsAfter(llm_calls[r])
        /\ request[r] \in Requests
    BY <1>1 DEF CallInv, AgentPart, Undecided, Abandoned, Verdict, Shape
  <2> QED
    BY <1>1, <2>1, RecordOfVerdict
<1>4. Shape'
  BY <1>1, <1>2, <1>3 DEF Shape, Stages, Early
<1>5. OthersKept(r) /\ KnownKept(r)
  BY <1>1, <1>2 DEF OthersKept, KnownKept, Shape
<1>6. CallInv(r)'
  <2>1. /\ stage'[r] = "saving" /\ record'[r] = Record(r, verdict[r])
        /\ record'[r] # None
        /\ Record(r, verdict[r])' = Record(r, verdict[r])
    BY <1>1, <1>2, <1>3, NoneIsNone DEF Shape, Record
  <2>2. KindAtStage(r)' /\ LifeOf(r)'
    BY <1>1, <1>2, <2>1
    DEF CallInv, KindAtStage, LifeOf, Classified, InFlight, Through
  <2>3. AgentPart(r)' /\ RecordPart(r)' /\ ResponsePart(r)'
    BY <1>1, <1>2, <2>1
    DEF CallInv, AgentPart, Classified, RecordPart, ResponsePart, Late
  <2>4. StoredPart(r)' /\ FetchPart(r)'
    BY <1>1, <1>2, <2>1 DEF StoredPart, FetchPart, Classified
  <2> QED
    BY <2>2, <2>3, <2>4 DEF CallInv
<1> QED
  BY <1>2, <1>4, <1>5, <1>6, LocalStep, StoresUntouched

-----------------------------------------------------------------------------
(* Every handler returns in the same way.                                  *)
LEMMA ReturnStep ==
  ASSUME IInv, NEW r \in Calls, NEW resp \in Responses, Return(r, resp),
         UNCHANGED <<llm_calls, verdict, request, record, answer, records,
                     api_log, epoch, backend>>,
         stage[r] \in Early \ {"waiting"},
         Classified(r) =>
           /\ IF record[r] = None
                THEN verdict[r] = Raised /\ resp = ErrorResponse(500)
                ELSE \E p \in BOOLEAN :
                       resp = Rendered(ClassifyResponse(record[r], p))
           /\ resp.persisted => InStore(r),
         ~Classified(r) /\ resp.record # None =>
           /\ request[r].kind = "fetch" /\ request[r].target # r
           /\ resp.status = 200 /\ resp.record = record[request[r].target],
         request[r].kind = "fetch" =>
           /\ resp.status = 200 => resp.record # None
           /\ resp.status = 404 /\ request[r].target # r =>
                \/ ~answer[request[r].target].persisted
                \/ /\ backend = "memory"
                   /\ \/ request[r].worker # request[request[r].target].worker
                      \/ request[r].epoch # request[request[r].target].epoch
  PROVE  IInv'
<1>1. /\ response' = [response EXCEPT ![r] = resp]
      /\ stage' = [stage EXCEPT ![r] = "sending"]
      /\ Shape /\ CallInv(r)
      /\ request[r] # None /\ response[r] = None /\ answer[r] = None
  BY DEF Return, GoTo, IInv, CallInv, KindAtStage, ResponsePart, Early
<1>2. Shape'
  BY <1>1 DEF Shape, Stages
<1>3. OthersKept(r) /\ KnownKept(r)
  BY <1>1 DEF OthersKept, KnownKept, Shape
<1>4. CallInv(r)'
  <2>1. stage'[r] = "sending" /\ response'[r] = resp /\ resp # None
    BY <1>1, NoneIsNone DEF Shape
  <2>2. KindAtStage(r)' /\ LifeOf(r)'
    BY <1>1, <2>1
    DEF CallInv, KindAtStage, LifeOf, InFlight, Through, Early
  <2>3. AgentPart(r)' /\ RecordPart(r)'
    BY <1>1, <2>1 DEF CallInv, AgentPart, RecordPart, Classified, Record
  <2>4. ResponsePart(r)'
    BY <1>1, <2>1 DEF CallInv, ResponsePart, Classified, Early, Late
  <2>5. StoredPart(r)'
    BY <1>1, <2>1 DEF StoredPart, Classified, InStore, StoreOf
  <2>6. FetchPart(r)'
    <3> DEFINE t == request[r].target
    <3> SUFFICES ASSUME request[r].kind = "fetch"
                 PROVE  FetchPart(r)'
      BY DEF FetchPart
    <3>1. t \in Calls /\ (t # r => Known(t))
      BY <1>1 DEF CallInv, FetchPart
    <3>2. t # r => Known(t)'
      BY <3>1 DEF Known, Classified
    <3>3. ~Classified(r)
      BY DEF Classified
    <3> QED
      BY <1>1, <2>1, <3>1, <3>2, <3>3 DEF FetchPart
  <2> QED
    BY <2>2, <2>3, <2>4, <2>5, <2>6 DEF CallInv
<1> QED
  BY <1>2, <1>3, <1>4, LocalStep, StoresUntouched

LEMMA ExceptionStep ==
  ASSUME IInv, NEW r \in Calls, UnhandledException(r)
  PROVE  IInv'
<1>1. /\ stage[r] = "classifying" /\ CallInv(r) /\ verdict[r].kind = "exception"
      /\ request[r] # None /\ request[r].kind = "classify" /\ record[r] = None
  BY DEF UnhandledException, IInv, CallInv, KindAtStage, RecordPart
<1>2. verdict[r] = Raised
  <2>1. /\ llm_calls[r] \in 1..max_attempts
        /\ verdict[r] \in VerdictsAfter(llm_calls[r])
    BY <1>1
    DEF CallInv, AgentPart, Classified, Undecided, Abandoned, Verdict
  <2> QED
    BY <1>1, <2>1, VerdictForms
<1>3. Classified(r)
  BY <1>1 DEF Classified
<1>4. ErrorResponse(500) \in Responses /\ ~ErrorResponse(500).persisted
  BY ErrorTyped DEF ErrorResponse, Response, Statuses
<1> QED
  BY <1>1, <1>2, <1>3, <1>4, ReturnStep DEF UnhandledException, Early

(* The end of a save, acknowledged or not.                                 *)
LEMMA SaveEnds ==
  ASSUME IInv, NEW r \in Calls, SaveAcknowledged(r) \/ SaveRaises(r)
  PROVE  IInv'
<1>1. PICK p \in BOOLEAN :
        /\ Return(r, Rendered(ClassifyResponse(record[r], p)))
        /\ stage[r] \in {"saving", "saved"}
        /\ p => stage[r] = "saved"
        /\ UNCHANGED <<llm_calls, verdict, request, record, answer, records,
                       api_log, epoch, backend>>
  BY DEF SaveAcknowledged, SaveRaises
<1>2. record[r] # None /\ (p => InStore(r))
  BY <1>1 DEF IInv, CallInv, RecordPart, StoredPart
<1>3. /\ Classified(r) /\ record[r] \in Records
      /\ record[r].status = "succeeded" => record[r].output \in Outputs
  BY <1>2, RecordFacts
<1>5. /\ Rendered(ClassifyResponse(record[r], p)) \in Responses
      /\ Rendered(ClassifyResponse(record[r], p)).persisted => p
  BY <1>3, RenderedTyped, ZenonT(30)
<1>4. request[r].kind = "classify"
  BY <1>3 DEF Classified
<1> QED
  BY <1>1, <1>2, <1>3, <1>4, <1>5, ReturnStep DEF Early

(* A record its client knows has been served.                              *)
LEMMA KnownIsServable ==
  ASSUME IInv, NEW t \in Calls, Known(t)
  PROVE  Servable(record[t])
<1>1. /\ CallInv(t) /\ Classified(t) /\ record[t] # None
      /\ response[t] # None /\ response[t].record = record[t]
  BY DEF IInv, CallInv, ResponsePart, Known
<1>2. PICK p \in BOOLEAN :
        response[t] = Rendered(ClassifyResponse(record[t], p))
  BY <1>1 DEF CallInv, ResponsePart
<1>3. /\ record[t] \in Records
      /\ record[t].status = "succeeded" => record[t].output \in Outputs
  BY <1>1, RecordFacts
<1>4. ASSUME ~Servable(record[t]) PROVE response[t].record = None
  <2>1. Rendered(ClassifyResponse(record[t], p)).record = None
    BY <1>3, <1>4, RefusedToRender, ZenonT(30)
  <2> QED
    BY <1>2, <2>1
<1> QED
  BY <1>1, <1>4

LEMMA FetchStep ==
  ASSUME IInv, NEW r \in Calls, Fetch(r)
  PROVE  IInv'
<1> DEFINE t == request[r].target
           stored == records[StoreOf(r)]
           resp == IF t \in DOMAIN stored
                     THEN Rendered(Response(200, stored[t], FALSE, FALSE))
                     ELSE ErrorResponse(404)
<1>1. /\ stage[r] = "reading" /\ CallInv(r) /\ Shape
      /\ request[r] # None /\ request[r].kind = "fetch"
      /\ request[r] \in Requests
      /\ ~Classified(r)
      /\ StoreOf(r) \in Stores
  BY StoreOfIsStore
  DEF Fetch, IInv, CallInv, KindAtStage, Classified, Shape
<1>2. /\ t \in Calls
      /\ t # r => Known(t)
      /\ request[r].epoch = epoch[request[r].worker]
  BY <1>1 DEF CallInv, FetchPart, LifeOf, InFlight, Through
<1>3. t \in DOMAIN stored => record[t] # None /\ stored[t] = record[t]
  BY <1>1 DEF IInv, StoreInv
<1>4. CASE t \in DOMAIN stored
  <2>1. record[t] # None /\ stored[t] = record[t] /\ record[t] \in Records
    BY <1>2, <1>3, <1>4, RecordFacts
  <2>2. t # r
    BY <1>1, <2>1, RecordFacts
  <2>3. /\ resp \in Responses /\ resp.status = 200
        /\ resp.record = record[t]
    <3>1. Servable(stored[t])
      BY <1>2, <2>1, <2>2, KnownIsServable
    <3> QED
      BY <1>4, <2>1, <3>1 DEF Rendered, Response, Responses, Statuses
  <2>4. /\ Return(r, resp) /\ stage[r] \in Early \ {"waiting"}
        /\ UNCHANGED <<llm_calls, verdict, request, record, answer, records,
                       api_log, epoch, backend>>
    BY <1>1 DEF Fetch, Early
  <2> HIDE DEF resp
  <2> QED
    BY <1>1, <2>1, <2>2, <2>3, <2>4, ReturnStep
<1>5. CASE t \notin DOMAIN stored
  <2>1. resp \in Responses /\ resp.status = 404 /\ resp.record = None
    BY <1>5, ErrorTyped DEF ErrorResponse, Response, Statuses
  <2>2. ASSUME t # r, answer[t].persisted
        PROVE  /\ backend = "memory"
               /\ \/ request[r].worker # request[t].worker
                  \/ request[r].epoch # request[t].epoch
    <3>1. /\ CallInv(t) /\ Known(t) /\ request[t] # None
          /\ request[t] \in Requests
      BY <1>1, <1>2, <2>2 DEF IInv, Known, Classified, Shape
    <3>2. InStore(t) \/ Moved(t)
      BY <2>2, <3>1, NoneIsNone
      DEF CallInv, StoredPart, ResponsePart, Known
    <3>3. ASSUME InStore(t), StoreOf(t) = StoreOf(r) PROVE FALSE
      BY <1>5, <3>3 DEF InStore
    <3>4. CASE backend = "mongo"
      BY <3>2, <3>3, <3>4 DEF Moved, StoreOf
    <3>5. backend = "memory" \/ backend = "mongo"
      BY <1>1, BackendsAssumption DEF Shape
    <3>6. ASSUME backend = "memory", request[r].worker = request[t].worker,
                 request[r].epoch = request[t].epoch
          PROVE  FALSE
      <4>1. StoreOf(t) = StoreOf(r)
        BY <3>6 DEF StoreOf
      <4>2. Moved(t)
        BY <3>2, <3>3, <4>1
      <4>3. request[r].epoch \in Nat
        BY <1>1, FaultsAssumption DEF Requests
      <4> QED
        BY <1>2, <3>6, <4>2, <4>3 DEF Moved
    <3> QED
      BY <3>4, <3>5, <3>6
  <2>3. /\ Return(r, resp) /\ stage[r] \in Early \ {"waiting"}
        /\ UNCHANGED <<llm_calls, verdict, request, record, answer, records,
                       api_log, epoch, backend>>
    BY <1>1 DEF Fetch, Early
  <2> HIDE DEF resp
  <2> QED
    BY <1>1, <2>1, <2>2, <2>3, ReturnStep
<1> QED
  BY <1>4, <1>5

(* The reads that return no record.                                        *)
LEMMA ErrorEnds ==
  ASSUME IInv, NEW r \in Calls, FetchRaises(r) \/ Ping(r)
  PROVE  IInv'
<1>1. PICK code \in {200, 500, 503} :
        /\ Return(r, ErrorResponse(code))
        /\ \/ stage[r] = "reading" /\ code = 500
           \/ stage[r] = "pinging"
        /\ UNCHANGED <<llm_calls, verdict, request, record, answer, records,
                       api_log, epoch, backend>>
  <2>1. CASE FetchRaises(r)
    <3>1. /\ Return(r, ErrorResponse(500)) /\ stage[r] = "reading"
          /\ UNCHANGED <<llm_calls, verdict, request, record, answer, records,
                         api_log, epoch, backend>>
      BY <2>1 DEF FetchRaises
    <3> QED
      BY <3>1
  <2>2. CASE Ping(r)
    <3>1. PICK code \in {200, 500, 503} : Return(r, ErrorResponse(code))
      BY <2>2 DEF Ping
    <3> QED
      BY <2>2, <3>1 DEF Ping
  <2> QED
    BY <2>1, <2>2
<1>2. /\ ~Classified(r)
      /\ stage[r] = "pinging" => request[r].kind # "fetch"
  BY <1>1 DEF IInv, CallInv, KindAtStage, Classified
<1>3. /\ ErrorResponse(code) \in Responses
      /\ ErrorResponse(code).record = None
      /\ ErrorResponse(code).status = code
  <2>1. ErrorResponse(code) \in Responses /\ ErrorResponse(code).record = None
    BY ErrorTyped DEF Statuses
  <2> QED
    BY <2>1 DEF ErrorResponse, Response
<1>4. stage[r] \in Early \ {"waiting"}
  BY <1>1 DEF Early
<1>5. request[r].kind = "fetch" =>
        ErrorResponse(code).status # 200 /\ ErrorResponse(code).status # 404
  BY <1>1, <1>2, <1>3
<1> DEFINE resp == ErrorResponse(code)
<1>6. /\ resp \in Responses /\ resp.record = None /\ Return(r, resp)
      /\ request[r].kind = "fetch" => resp.status # 200 /\ resp.status # 404
  BY <1>1, <1>3, <1>5
<1> HIDE DEF resp
<1> QED
  BY <1>1, <1>2, <1>4, <1>6, ReturnStep

-----------------------------------------------------------------------------
(* The stores.                                                             *)
LEMMA InsertKeeps ==
  ASSUME IInv, NEW r \in Calls, record[r] # None,
         records' = [records EXCEPT ![StoreOf(r)] =
           Put(@, record[r].id, record[r])]
  PROVE  /\ RecordsKept(r)
         /\ records' = [s \in Stores |-> records'[s]]
         /\ r \in DOMAIN records'[StoreOf(r)]
         /\ records'[StoreOf(r)][r] = record[r]
<1>1. StoreOf(r) \in Stores /\ record[r].id = r
  BY RecordFacts
<1>2. records = [s \in Stores |-> records[s]]
  BY DEF IInv, Shape
<1>3. /\ \A s \in Stores \ {StoreOf(r)} : records'[s] = records[s]
      /\ records'[StoreOf(r)] = Put(records[StoreOf(r)], r, record[r])
  BY <1>1, <1>2
<1>4. \A s \in Stores : r \in DOMAIN records[s] => records[s][r] = record[r]
  BY DEF IInv, StoreInv
<1>5. records' = [s \in Stores |-> records'[s]]
  BY <1>1, <1>2
<1>6. /\ DOMAIN records'[StoreOf(r)] = DOMAIN records[StoreOf(r)] \cup {r}
      /\ records'[StoreOf(r)][r] = record[r]
      /\ \A id \in DOMAIN records[StoreOf(r)] \ {r} :
           records'[StoreOf(r)][id] = records[StoreOf(r)][id]
  BY <1>3 DEF Put
<1>7. ASSUME NEW s \in Stores
      PROVE  /\ \A id \in DOMAIN records[s] :
                  id \in DOMAIN records'[s] /\ records'[s][id] = records[s][id]
             /\ \A id \in DOMAIN records'[s] :
                  \/ id \in DOMAIN records[s]
                  \/ id = r /\ record[r] # None /\ records'[s][r] = record[r]
  BY <1>3, <1>4, <1>6
<1> QED
  BY <1>5, <1>6, <1>7 DEF RecordsKept

LEMMA SaveAppliedStep ==
  ASSUME IInv, NEW r \in Calls, SaveApplied(r)
  PROVE  IInv'
<1> USE DEF GoTo
<1>1. /\ stage[r] = "saving" /\ CallInv(r) /\ Shape
      /\ record[r] # None /\ request[r] # None
      /\ response[r] = None /\ answer[r] = None
  BY DEF SaveApplied, IInv, CallInv, RecordPart, KindAtStage, ResponsePart,
         Early
<1>2. /\ records' = [records EXCEPT ![StoreOf(r)] =
           Put(@, record[r].id, record[r])]
      /\ stage' = [stage EXCEPT ![r] = "saved"]
      /\ UNCHANGED <<llm_calls, verdict, request, record, response, answer,
                     api_log, epoch, backend>>
  BY DEF SaveApplied
<1>3. /\ RecordsKept(r)
      /\ records' = [s \in Stores |-> records'[s]]
      /\ r \in DOMAIN records'[StoreOf(r)]
      /\ records'[StoreOf(r)][r] = record[r]
  BY <1>1, <1>2, InsertKeeps
<1>4. Shape'
  BY <1>1, <1>2, <1>3 DEF Shape, Stages, Early
<1>5. OthersKept(r) /\ KnownKept(r)
  BY <1>1, <1>2 DEF OthersKept, KnownKept, Shape
<1>6. CallInv(r)'
  <2>1. stage'[r] = "saved" /\ StoreOf(r)' = StoreOf(r)
    BY <1>1, <1>2 DEF Shape, StoreOf
  <2>2. KindAtStage(r)' /\ LifeOf(r)'
    BY <1>1, <1>2, <2>1 DEF CallInv, KindAtStage, LifeOf, InFlight, Through
  <2>3. AgentPart(r)' /\ RecordPart(r)' /\ ResponsePart(r)'
    BY <1>1, <1>2, <2>1
    DEF CallInv, AgentPart, RecordPart, ResponsePart, Classified, Record,
        Early, Late
  <2>4. StoredPart(r)'
    BY <1>1, <1>2, <1>3, <2>1 DEF StoredPart, InStore, Classified
  <2>5. FetchPart(r)'
    BY <1>1, <1>2 DEF FetchPart, CallInv, KindAtStage
  <2> QED
    BY <2>2, <2>3, <2>4, <2>5 DEF CallInv
<1> QED
  BY <1>2, <1>3, <1>4, <1>5, <1>6, LocalStep, StoresUntouched

LEMMA InsertLandsStep ==
  ASSUME IInv, NEW r \in Calls, InsertLands(r)
  PROVE  IInv'
<1>1. /\ record[r] # None /\ Classified(r) /\ CallInv(r) /\ Shape
      /\ request[r] # None
      /\ records' = [records EXCEPT ![StoreOf(r)] =
           Put(@, record[r].id, record[r])]
      /\ UNCHANGED <<llm_calls, verdict, httpVars, api_log, epoch, backend>>
  BY RecordFacts DEF InsertLands, IInv
<1>2. UNCHANGED <<request, stage, record, response, answer>>
  BY <1>1 DEF httpVars
<1>3. /\ RecordsKept(r)
      /\ records' = [s \in Stores |-> records'[s]]
      /\ r \in DOMAIN records'[StoreOf(r)]
      /\ records'[StoreOf(r)][r] = record[r]
  BY <1>1, InsertKeeps
<1>4. Shape'
  BY <1>1, <1>2, <1>3 DEF Shape
<1>5. OthersKept(r) /\ KnownKept(r)
  BY <1>1, <1>2 DEF OthersKept, KnownKept
<1>6. CallInv(r)'
  <2>1. StoreOf(r)' = StoreOf(r) /\ (Moved(r)' <=> Moved(r))
    BY <1>1, <1>2 DEF StoreOf, Moved
  <2>2. KindAtStage(r)' /\ LifeOf(r)'
    BY <1>1, <1>2
    DEF CallInv, KindAtStage, LifeOf, InFlight, Through, MayFail, Unsavable
  <2>3. AgentPart(r)' /\ RecordPart(r)' /\ ResponsePart(r)'
    BY <1>1, <1>2
    DEF CallInv, AgentPart, RecordPart, ResponsePart, Classified, Record
  <2>4. StoredPart(r)'
    BY <1>1, <1>2, <1>3, <2>1 DEF CallInv, StoredPart, InStore, Classified
  <2>5. FetchPart(r)'
    BY <1>1, <1>2 DEF FetchPart, Classified
  <2> QED
    BY <2>2, <2>3, <2>4, <2>5 DEF CallInv
<1> QED
  BY <1>1, <1>3, <1>4, <1>5, <1>6, LocalStep, StoresUntouched

(* The response goes out.                                                  *)
LEMMA SendStep ==
  ASSUME IInv, NEW r \in Calls, Send(r)
  PROVE  IInv'
<1> USE DEF GoTo
<1>1. /\ stage[r] = "sending" /\ CallInv(r) /\ Shape
      /\ request[r] # None /\ response[r] # None /\ answer[r] = None
  BY DEF Send, IInv, CallInv, KindAtStage, ResponsePart
<1>2. /\ answer' = [answer EXCEPT ![r] = response[r]]
      /\ stage' = [stage EXCEPT ![r] =
           IF request[r].kind \in SkippedKinds THEN "done" ELSE "logging"]
      /\ UNCHANGED <<llm_calls, verdict, request, record, response, records,
                     api_log, epoch, backend>>
  BY DEF Send
<1>3. Shape'
  BY <1>1, <1>2 DEF Shape, Stages, Late
<1>4. OthersKept(r) /\ KnownKept(r)
  BY <1>1, <1>2 DEF OthersKept, KnownKept, Shape
<1>5. CallInv(r)'
  <2>1. /\ answer'[r] = response[r]
        /\ stage'[r] = IF request[r].kind \in SkippedKinds THEN "done"
                                                           ELSE "logging"
    BY <1>1, <1>2 DEF Shape
  <2>2. KindAtStage(r)' /\ LifeOf(r)'
    BY <1>1, <1>2, <2>1 DEF CallInv, KindAtStage, LifeOf, InFlight, Through
  <2>3. AgentPart(r)' /\ RecordPart(r)' /\ ResponsePart(r)'
    BY <1>1, <1>2, <2>1
    DEF CallInv, AgentPart, RecordPart, ResponsePart, Classified, Record,
        Early, Late
  <2>4. StoredPart(r)'
    BY <1>1, <1>2, <2>1
    DEF CallInv, StoredPart, InStore, Classified, StoreOf, Moved
  <2>5. FetchPart(r)'
    <3> DEFINE t == request[r].target
    <3>1. request[r].kind = "fetch" /\ t # r =>
            t \in Calls /\ Known(t) /\ Known(t)' /\ answer'[t] = answer[t]
      BY <1>1, <1>2 DEF CallInv, FetchPart, Known, Classified, Shape
    <3> QED
      BY <1>1, <1>2, <3>1 DEF CallInv, FetchPart
  <2> QED
    BY <2>2, <2>3, <2>4, <2>5 DEF CallInv
<1> QED
  BY <1>2, <1>3, <1>4, <1>5, LocalStep, StoresUntouched

-----------------------------------------------------------------------------
(* The log.                                                                *)
LEMMA EntryKeeps ==
  ASSUME IInv, NEW r \in Calls, NEW as_text \in BOOLEAN,
         request[r] # None, request[r].kind \notin SkippedKinds,
         response[r] # None, answer[r] = response[r],
         api_log' = [api_log EXCEPT ![StoreOf(r)] =
           Put(@, r, [status |-> response[r].status, as_text |-> as_text])]
  PROVE  /\ LogKept(r)
         /\ api_log' = [s \in Stores |-> api_log'[s]]
         /\ r \in DOMAIN api_log'[StoreOf(r)]
<1> DEFINE entry == [status |-> response[r].status, as_text |-> as_text]
<1>1. /\ Shape /\ StoreOf(r) \in Stores /\ answer[r] # None
      /\ api_log = [s \in Stores |-> api_log[s]]
  BY StoreOfIsStore DEF IInv, Shape
<1>2. entry \in LogEntries /\ entry.status = answer[r].status
  BY <1>1 DEF Shape, Responses, LogEntries
<1> HIDE DEF entry
<1>3. /\ api_log' = [s \in Stores |-> api_log'[s]]
      /\ \A s \in Stores \ {StoreOf(r)} : api_log'[s] = api_log[s]
      /\ api_log'[StoreOf(r)] = Put(api_log[StoreOf(r)], r, entry)
  BY <1>1 DEF entry
<1>4. /\ DOMAIN api_log'[StoreOf(r)] = DOMAIN api_log[StoreOf(r)] \cup {r}
      /\ api_log'[StoreOf(r)][r] = entry
      /\ \A id \in DOMAIN api_log[StoreOf(r)] \ {r} :
           api_log'[StoreOf(r)][id] = api_log[StoreOf(r)][id]
  BY <1>3 DEF Put
<1>5. ASSUME NEW s \in Stores
      PROVE  /\ \A id \in DOMAIN api_log[s] : id \in DOMAIN api_log'[s]
             /\ \A id \in DOMAIN api_log'[s] :
                  \/ id \in DOMAIN api_log[s] /\ api_log'[s][id] = api_log[s][id]
                  \/ id = r /\ api_log'[s][r] = entry
  BY <1>3, <1>4
<1> QED
  BY <1>1, <1>2, <1>3, <1>4, <1>5 DEF LogKept

LEMMA InsertLogStep ==
  ASSUME IInv, NEW r \in Calls, NEW as_text \in BOOLEAN,
         InsertLog(r, as_text),
         stage[r] \in {"logging", "relogging"},
         UNCHANGED <<llm_calls, verdict, request, record, response, answer,
                     records, epoch, backend>>
  PROVE  IInv'
<1> DEFINE entry == [status |-> response[r].status, as_text |-> as_text]
           logged == [api_log EXCEPT ![StoreOf(r)] = Put(@, r, entry)]
<1>1. /\ CallInv(r) /\ Shape
      /\ request[r] # None /\ response[r] # None /\ answer[r] = response[r]
      /\ answer[r] # None /\ request[r].kind \notin SkippedKinds
      /\ StoreOf(r) \in Stores
  BY StoreOfIsStore DEF IInv, CallInv, KindAtStage, ResponsePart, Late
<1>2. /\ stage' \in {[stage EXCEPT ![r] = "done"],
                     [stage EXCEPT ![r] = "unlogged"]}
      /\ api_log' = logged \/ api_log' = api_log
      /\ stage'[r] = "done" => api_log' = logged
      /\ stage'[r] = "unlogged" => MayFail
  BY <1>1 DEF InsertLog, GoTo, Shape
<1>4. api_log = [s \in Stores |-> api_log[s]]
  BY <1>1 DEF Shape
<1>5. api_log' = logged =>
        /\ LogKept(r)
        /\ api_log' = [s \in Stores |-> api_log'[s]]
        /\ r \in DOMAIN api_log'[StoreOf(r)]
  BY <1>1, EntryKeeps
<1> HIDE DEF logged
<1>6. LogKept(r)
  BY <1>2, <1>5, StoresUntouched
<1>7. Shape'
  <2>1. api_log' = [s \in Stores |-> api_log'[s]]
    BY <1>2, <1>4, <1>5
  <2>2. stage' \in [Calls -> Stages]
    BY <1>1, <1>2 DEF Shape, Stages, Late
  <2> QED
    BY <1>1, <2>1, <2>2 DEF Shape
<1>8. OthersKept(r) /\ KnownKept(r)
  BY <1>1, <1>2 DEF OthersKept, KnownKept, Shape
<1>9. CallInv(r)'
  <2>1. /\ stage'[r] \in {"done", "unlogged"}
        /\ stage'[r] = "unlogged" => MayFail'
        /\ StoreOf(r)' = StoreOf(r)
    BY <1>1, <1>2 DEF Shape, MayFail, StoreOf
  <2>2. KindAtStage(r)' /\ LifeOf(r)'
    BY <1>1, <2>1 DEF CallInv, KindAtStage, LifeOf, InFlight, Through
  <2>3. AgentPart(r)' /\ RecordPart(r)' /\ ResponsePart(r)'
    BY <1>1, <2>1
    DEF CallInv, AgentPart, RecordPart, ResponsePart, Classified, Record,
        Early, Late
  <2>4. StoredPart(r)'
    <3>1. stage'[r] = "done" => r \in DOMAIN api_log'[StoreOf(r)]
      BY <1>2, <1>5
    <3> QED
      BY <1>1, <2>1, <3>1
      DEF CallInv, StoredPart, InStore, Classified, Moved
  <2>5. FetchPart(r)'
    BY <1>1 DEF CallInv, FetchPart, Known, Classified
  <2> QED
    BY <2>2, <2>3, <2>4, <2>5 DEF CallInv
<1> QED
  BY <1>6, <1>7, <1>8, <1>9, LocalStep, StoresUntouched

(* An entry that lands when nobody waits for it any more.                  *)
LEMMA LogLandsStep ==
  ASSUME IInv, NEW r \in Calls, LogLands(r)
  PROVE  IInv'
<1>1. /\ CallInv(r) /\ Shape
      /\ stage[r] \in {"unlogged", "lost"} /\ answer[r] # None
      /\ request[r].kind \notin SkippedKinds
      /\ UNCHANGED <<request, stage, record, response, answer>>
      /\ UNCHANGED <<llm_calls, verdict, records, epoch, backend>>
  BY DEF LogLands, IInv, httpVars
<1>2. request[r] # None /\ answer[r] = response[r] /\ response[r] # None
  BY <1>1 DEF CallInv, KindAtStage, ResponsePart
<1>3. /\ LogKept(r)
      /\ api_log' = [s \in Stores |-> api_log'[s]]
  BY <1>1, <1>2, EntryKeeps DEF LogLands
<1>4. Shape'
  BY <1>1, <1>3 DEF Shape
<1>5. OthersKept(r) /\ KnownKept(r)
  BY <1>1 DEF OthersKept, KnownKept
<1>6. CallInv(r)'
  <2>1. StoreOf(r)' = StoreOf(r) /\ (Moved(r)' <=> Moved(r))
    BY <1>1 DEF StoreOf, Moved
  <2>2. KindAtStage(r)' /\ LifeOf(r)'
    BY <1>1
    DEF CallInv, KindAtStage, LifeOf, InFlight, Through, MayFail, Unsavable
  <2>3. AgentPart(r)' /\ RecordPart(r)' /\ ResponsePart(r)'
    BY <1>1 DEF CallInv, AgentPart, RecordPart, ResponsePart, Classified, Record
  <2>4. StoredPart(r)'
    BY <1>1, <2>1 DEF CallInv, StoredPart, InStore, Classified
  <2>5. FetchPart(r)'
    BY <1>1 DEF CallInv, FetchPart, Known, Classified
  <2> QED
    BY <2>2, <2>3, <2>4, <2>5 DEF CallInv
<1> QED
  BY <1>1, <1>3, <1>4, <1>5, <1>6, LocalStep, StoresUntouched

(* The steps that write nothing.                                           *)
LEMMA LogErrorSteps ==
  ASSUME IInv, NEW r \in Calls,
         LogRefused(r) \/ LogFails(r) \/ EntryNotBuilt(r)
  PROVE  IInv'
<1> USE DEF GoTo
<1>1. /\ CallInv(r) /\ Shape /\ stage[r] = "logging"
      /\ request[r] # None /\ request[r].kind \notin SkippedKinds
  BY DEF LogRefused, LogFails, EntryNotBuilt, IInv, CallInv, KindAtStage
<1>2. PICK next \in {"relogging", "unlogged", "raised"} :
        /\ stage' = [stage EXCEPT ![r] = next]
        /\ next = "relogging" => backend = "mongo"
        /\ next = "unlogged" => MayFail \/ Unsavable(r)
        /\ next = "raised" =>
             request[r].kind = "invalid" /\ request[r].body = "nested"
        /\ UNCHANGED <<llm_calls, verdict, request, record, response, answer,
                       records, api_log, epoch, backend>>
  BY DEF LogRefused, LogFails, EntryNotBuilt
<1>3. Shape'
  BY <1>1, <1>2 DEF Shape, Stages, Late
<1>4. OthersKept(r) /\ KnownKept(r)
  BY <1>1, <1>2 DEF OthersKept, KnownKept, Shape
<1>5. CallInv(r)'
  <2>1. /\ stage'[r] = next /\ StoreOf(r)' = StoreOf(r)
        /\ MayFail' = MayFail /\ Unsavable(r)' = Unsavable(r)
    BY <1>1, <1>2 DEF Shape, MayFail, Unsavable, StoreOf
  <2>2. KindAtStage(r)' /\ LifeOf(r)'
    BY <1>1, <1>2, <2>1 DEF CallInv, KindAtStage, LifeOf, InFlight, Through
  <2>3. AgentPart(r)' /\ RecordPart(r)' /\ ResponsePart(r)'
    BY <1>1, <1>2, <2>1
    DEF CallInv, AgentPart, RecordPart, ResponsePart, Classified, Record,
        Early, Late
  <2>4. StoredPart(r)'
    BY <1>1, <1>2, <2>1
    DEF CallInv, StoredPart, InStore, Classified, Moved
  <2>5. FetchPart(r)'
    BY <1>1, <1>2 DEF CallInv, FetchPart, Known, Classified
  <2> QED
    BY <2>2, <2>3, <2>4, <2>5 DEF CallInv
<1> QED
  BY <1>2, <1>3, <1>4, <1>5, LocalStep, StoresUntouched

-----------------------------------------------------------------------------
(* A crash ends the life of a worker: what it held in memory has "moved".  *)
LEMMA CrashStep ==
  ASSUME IInv, NEW w \in Workers, Crash(w)
  PROVE  IInv'
<1>1. /\ Shape /\ epoch \in [Workers -> 0..MaxCrashes] /\ epoch[w] < MaxCrashes
      /\ epoch' = [epoch EXCEPT ![w] = @ + 1]
      /\ w \in Stores /\ w # "mongo"
      /\ UNCHANGED <<llm_calls, request, record, response, answer, backend>>
  BY WorkersAssumption DEF Crash, IInv, Shape, Stores
<1>2. \A s \in Stores :
        /\ records'[s] = IF s = w THEN << >> ELSE records[s]
        /\ api_log'[s] = IF s = w THEN << >> ELSE api_log[s]
  BY DEF Crash
<1>3. \A u \in Workers :
        /\ epoch[u] \in Nat /\ epoch'[u] \in Nat
        /\ epoch'[u] = IF u = w THEN epoch[u] + 1 ELSE epoch[u]
  BY <1>1, FaultsAssumption
<1>4. ASSUME NEW q \in Calls
      PROVE  /\ stage[q] \in Stages /\ CallInv(q)
             /\ \/ stage'[q] = stage[q] /\ verdict'[q] = verdict[q]
                   /\ (InFlight(q) => request[q].worker # w)
                \/ /\ InFlight(q) /\ stage'[q] = "lost"
                   /\ request[q].worker = w
                   /\ \/ verdict'[q] = verdict[q]
                      \/ /\ stage[q] = "classifying" /\ verdict[q] = Undecided
                         /\ verdict'[q] = Abandoned
  BY <1>1 DEF Crash, IInv, Shape
<1>5. Shape'
  <2>1. /\ stage' \in [Calls -> Stages]
        /\ verdict' = [q \in Calls |-> verdict'[q]]
        /\ records' = [s \in Stores |-> records'[s]]
        /\ api_log' = [s \in Stores |-> api_log'[s]]
    BY <1>1 DEF Crash, Shape, Stages
  <2>2. epoch' \in [Workers -> 0..MaxCrashes]
    BY <1>1, FaultsAssumption
  <2> QED
    BY <1>1, <2>1, <2>2 DEF Shape
<1>6. StoreInv' /\ LogInv'
  <2>1. DOMAIN << >> = {}
    OBVIOUS
  <2>2. StoreInv'
    BY <1>1, <1>2, <2>1 DEF IInv, StoreInv
  <2>3. LogInv'
    BY <1>1, <1>2, <2>1 DEF IInv, LogInv
  <2> QED
    BY <2>2, <2>3
<1>7. ASSUME NEW q \in Calls PROVE CallInv(q)'
  <2>1. /\ StoreOf(q)' = StoreOf(q) /\ (Classified(q)' <=> Classified(q))
        /\ MayFail' = MayFail /\ Unsavable(q)' = Unsavable(q)
    BY <1>1 DEF StoreOf, Classified, MayFail, Unsavable
  <2>2. request[q] # None =>
          /\ request[q] \in Requests
          /\ request[q].worker \in Workers
          /\ request[q].epoch \in Nat
          /\ request[q].epoch <= epoch[request[q].worker]
          /\ StoreOf(q) \in Stores
    BY <1>1, <1>4, <1>7, FaultsAssumption, StoreOfIsStore
    DEF Shape, Requests, CallInv, LifeOf
  <2>3. KindAtStage(q)'
    BY <1>1, <1>4, <1>7, <2>1
    DEF CallInv, KindAtStage, InFlight, Through
  <2>4. LifeOf(q)'
    BY <1>1, <1>3, <1>4, <1>7, <2>2
    DEF CallInv, LifeOf, InFlight, Through
  <2>5. AgentPart(q)'
    <3>1. stage[q] = "classifying" => Classified(q)
      BY <1>4, <1>7 DEF CallInv, KindAtStage, Classified
    <3> QED
      BY <1>1, <1>4, <1>7, <2>1, <3>1 DEF CallInv, AgentPart
  <2>6. RecordPart(q)'
    <3>1. Undecided.kind = "undecided"
      BY DEF Undecided, Verdict
    <3> QED
      BY <1>1, <1>4, <1>7, <2>1, <3>1
      DEF CallInv, RecordPart, Record, InFlight
  <2>7. ResponsePart(q)'
    <3>1. Undecided.kind = "undecided" /\ Raised.kind = "exception"
      BY DEF Undecided, Raised, Verdict
    <3>2. stage'[q] # stage[q] => stage'[q] = "lost"
      BY <1>4, <1>7
    <3>3. "lost" \notin Early \cup Late \cup {"sending"}
      BY DEF Early, Late
    <3>4. response[q] # None => verdict'[q] = verdict[q]
      BY <1>4, <1>7 DEF CallInv, ResponsePart, Early
    <3> QED
      BY <1>1, <1>4, <1>7, <2>1, <3>2, <3>3, <3>4 DEF CallInv, ResponsePart
  <2>8. StoredPart(q)'
    <3>1. Moved(q) /\ request[q] # None => Moved(q)'
      BY <1>1, <1>3, <2>2 DEF Moved
    <3>2. request[q] # None /\ StoreOf(q) = w =>
            Moved(q)' /\ request[q].worker = w
      BY <1>1, <1>3, <2>2, BackendsAssumption DEF StoreOf, Moved, Shape
    <3>3. request[q] # None /\ StoreOf(q) # w =>
            /\ InStore(q) => InStore(q)'
            /\ q \in DOMAIN api_log[StoreOf(q)]
                 => q \in DOMAIN api_log'[StoreOf(q)']
      BY <1>1, <1>2, <2>1, <2>2 DEF InStore
    <3>4. /\ stage'[q] \in {"saved", "done"} =>
               stage'[q] = stage[q] /\ request[q] # None
          /\ stage'[q] = "saved" => request[q].worker # w
      BY <1>4, <1>7 DEF CallInv, KindAtStage, InFlight, Through
    <3>5. StoredPart(q)
      BY <1>4, <1>7 DEF CallInv
    <3> QED
      BY <1>1, <2>1, <3>1, <3>2, <3>3, <3>4, <3>5 DEF StoredPart, Classified
  <2>9. FetchPart(q)'
    BY <1>1, <1>4, <1>7 DEF CallInv, FetchPart, Known, Classified
  <2> QED
    BY <2>3, <2>4, <2>5, <2>6, <2>7, <2>8, <2>9 DEF CallInv
<1> QED
  BY <1>5, <1>6, <1>7 DEF IInv

LEMMA StutterStep ==
  ASSUME IInv, UNCHANGED vars
  PROVE  IInv'
<1>1. UNCHANGED <<llm_calls, verdict, request, stage, record, response,
                  answer, records, api_log, epoch, backend>>
  BY DEF vars, httpVars
<1>2. Shape' /\ StoreInv' /\ LogInv'
  BY <1>1 DEF IInv, Shape, StoreInv, LogInv
<1>3. ASSUME NEW q \in Calls PROVE CallInv(q)'
  <2>1. CallInv(q)
    BY DEF IInv
  <2>2. /\ KindAtStage(q)' /\ LifeOf(q)' /\ AgentPart(q)' /\ RecordPart(q)'
        /\ ResponsePart(q)'
    BY <1>1, <2>1
    DEF CallInv, KindAtStage, LifeOf, AgentPart, RecordPart, ResponsePart,
        Classified, Record, MayFail, Unsavable, InFlight, Through
  <2>3. StoredPart(q)' /\ FetchPart(q)'
    BY <1>1, <2>1
    DEF CallInv, StoredPart, FetchPart, InStore, Moved, StoreOf, Known,
        Classified
  <2> QED
    BY <2>2, <2>3 DEF CallInv
<1> QED
  BY <1>2, <1>3 DEF IInv

LEMMA NextIInv == IInv /\ [Next]_vars => IInv'
<1> SUFFICES ASSUME IInv, [Next]_vars PROVE IInv'
  OBVIOUS
<1>1. ASSUME NEW r \in Calls, NEW w \in Workers, Arrive(r, w) PROVE IInv'
  BY <1>1, ClassifyArrives, InvalidArrives, GetArrives DEF Arrive
<1>2. ASSUME NEW r \in Calls, Handle(r) PROVE IInv'
  <2>1. CASE \/ AgentGoesOn(r) \/ BuildRecord(r) \/ UnhandledException(r)
             \/ SaveApplied(r) \/ SaveAcknowledged(r) \/ SaveRaises(r)
    BY <2>1, AgentSteps, BuildRecordStep, ExceptionStep, SaveAppliedStep,
       SaveEnds
  <2>2. CASE Fetch(r) \/ FetchRaises(r) \/ Ping(r) \/ Send(r)
    BY <2>2, FetchStep, ErrorEnds, SendStep
  <2>3. CASE LogCall(r)
    <3>1. /\ InsertLog(r, FALSE) /\ stage[r] = "logging"
          /\ UNCHANGED <<llm_calls, verdict, request, record, response, answer,
                         records, epoch, backend>>
      BY <2>3 DEF LogCall
    <3> QED
      BY <3>1, InsertLogStep
  <2>4. CASE LogAsText(r)
    <3>1. /\ InsertLog(r, TRUE) /\ stage[r] = "relogging"
          /\ UNCHANGED <<llm_calls, verdict, request, record, response, answer,
                         records, epoch, backend>>
      BY <2>4 DEF LogAsText
    <3> QED
      BY <3>1, InsertLogStep
  <2>5. CASE LogRefused(r) \/ LogFails(r) \/ EntryNotBuilt(r)
    BY <2>5, LogErrorSteps
  <2> QED
    BY <1>2, <2>1, <2>2, <2>3, <2>4, <2>5 DEF Handle
<1>3. ASSUME NEW r \in Calls, Lands(r) PROVE IInv'
  BY <1>3, InsertLandsStep, LogLandsStep DEF Lands
<1>4. ASSUME NEW w \in Workers, Crash(w) PROVE IInv'
  BY <1>4, CrashStep
<1> QED
  BY <1>1, <1>2, <1>3, <1>4, StutterStep DEF Next

-----------------------------------------------------------------------------
LEMMA Invariance == Spec => []IInv
  BY InitIInv, NextIInv, PTL DEF Spec

(* What a response is made from decides what it says.                      *)
LEMMA ClassifyAnswers ==
  ASSUME IInv, NEW r \in Calls, Classified(r), response[r] # None,
         record[r] # None
  PROVE  \E p \in BOOLEAN :
           /\ response[r] = IF Servable(record[r])
                             THEN ClassifyResponse(record[r], p)
                             ELSE ErrorResponse(500)
           /\ response[r].record =
                IF Servable(record[r]) THEN record[r] ELSE None
           /\ response[r].persisted => Servable(record[r])
<1>1. PICK p \in BOOLEAN :
        response[r] = Rendered(ClassifyResponse(record[r], p))
  BY DEF IInv, CallInv, ResponsePart
<1>2. /\ record[r] \in Records
      /\ record[r].status = "succeeded" => record[r].output \in Outputs
  BY RecordFacts
<1> DEFINE resp == Rendered(ClassifyResponse(record[r], p))
<1>3. CASE Servable(record[r])
  <2>1. resp = ClassifyResponse(record[r], p) /\ resp.record = record[r]
    BY <1>2, <1>3, RenderedAsItIs
  <2>2. response[r] = resp
    BY <1>1
  <2> HIDE DEF resp
  <2> WITNESS p \in BOOLEAN
  <2> QED
    BY <1>3, <2>1, <2>2
<1>4. CASE ~Servable(record[r])
  <2>1. resp = ErrorResponse(500)
    BY <1>2, <1>4, RefusedToRender, ZenonT(30)
  <2>2. response[r] = resp
    BY <1>1
  <2> HIDE DEF resp
  <2>3. response[r].record = None /\ ~response[r].persisted
    BY <2>1, <2>2 DEF ErrorResponse, Response
  <2> WITNESS p \in BOOLEAN
  <2> QED
    BY <1>4, <2>1, <2>2, <2>3
<1> QED
  BY <1>3, <1>4

(* Every variable keeps its type, the documents in the stores included.    *)
THEOREM TypeCorrect == Spec => []TypeOK
<1>1. IInv => TypeOK
  <2> SUFFICES ASSUME IInv PROVE TypeOK
    OBVIOUS
  <2>1. Shape
    BY DEF IInv
  <2>2. ASSUME NEW s \in Stores PROVE IsCollection(records[s], Records)
    <3>1. ASSUME NEW id \in DOMAIN records[s]
          PROVE  id \in Calls /\ records[s][id] \in Records
      BY <3>1, RecordFacts DEF IInv, StoreInv
    <3> QED
      BY <3>1 DEF IsCollection
  <2>3. ASSUME NEW s \in Stores PROVE IsCollection(api_log[s], LogEntries)
    BY DEF IInv, LogInv, IsCollection
  <2> QED
    BY <2>1, <2>2, <2>3 DEF Shape, TypeOK, Stages, Early, Late
<1> QED
  BY <1>1, Invariance, PTL

(* A classification answered as persisted is in the repository as it was   *)
(* answered, or was in the memory of a worker that has died                *)
(* (main_processor.py:84, README.md:50).                                   *)
THEOREM PersistedIsStored == Spec => []PersistedAnswerIsStored
<1>1. IInv => PersistedAnswerIsStored
  <2> SUFFICES ASSUME IInv, NEW r \in Calls,
                      Classified(r), answer[r] # None, answer[r].persisted
               PROVE  \/ /\ r \in DOMAIN records[StoreOf(r)]
                         /\ records[StoreOf(r)][r] = answer[r].record
                      \/ Moved(r)
    BY DEF PersistedAnswerIsStored, Moved
  <2>1. CallInv(r) /\ answer[r] = response[r] /\ response[r] # None
    BY DEF IInv, CallInv, ResponsePart
  <2>2. record[r] # None
    BY <2>1 DEF CallInv, ResponsePart, ErrorResponse, Response
  <2>3. answer[r].record = record[r]
    BY <2>1, <2>2, ClassifyAnswers
  <2> QED
    BY <2>1, <2>3 DEF CallInv, StoredPart, InStore
<1> QED
  BY <1>1, Invariance, PTL

(* GET gives back what POST answered, or a 404 the client could expect     *)
(* (swagger_service.py:244).                                               *)
THEOREM FetchAgrees == Spec => []FetchAgreesWithAnswer
<1>1. IInv => FetchAgreesWithAnswer
  <2> SUFFICES ASSUME IInv, NEW r \in Calls, NEW t \in Calls,
                      request[r] # None, request[r].kind = "fetch",
                      request[r].target = t, t # r, response[r] # None
               PROVE  /\ response[r].status = 200 =>
                           response[r].record = answer[t].record
                      /\ response[r].status = 404 =>
                           \/ ~answer[t].persisted
                           \/ /\ backend = "memory"
                              /\ \/ request[r].worker # request[t].worker
                                 \/ request[r].epoch # request[t].epoch
    BY DEF FetchAgreesWithAnswer
  <2>1. FetchPart(r)
    BY DEF IInv, CallInv
  <2> QED
    BY <2>1 DEF FetchPart, Known
<1> QED
  BY <1>1, Invariance, PTL

(* The log says what was answered, and only once it was                    *)
(* (api_request_log_middleware.py:42).                                     *)
THEOREM LogTruthful == Spec => []LogIsTruthful
<1>1. IInv => LogIsTruthful
  BY DEF IInv, LogInv, LogIsTruthful
<1> QED
  BY <1>1, Invariance, PTL

(* A call that is through is in the log, or is missing for one of the      *)
(* causes there are: a failed database or a body no save survives, with a  *)
(* warning, or nesting that json cannot follow, without one                *)
(* (mongo_svc.py:72, api_request_log_middleware.py:33).                    *)
THEOREM LossesHaveCauses == Spec => []EveryLossHasACause
<1>1. IInv => EveryLossHasACause
  <2> SUFFICES ASSUME IInv PROVE EveryLossHasACause
    OBVIOUS
  <2>1. ASSUME NEW r \in Calls PROVE KindAtStage(r) /\ StoredPart(r)
    BY DEF IInv, CallInv
  <2> QED
    BY <2>1 DEF EveryLossHasACause, KindAtStage, StoredPart, Moved
<1> QED
  BY <1>1, Invariance, PTL

(* The status of a classification, its error code, its attempts and its    *)
(* escalation tell how the agent fared (swagger_service.py:229).           *)
THEOREM AnswersTellVerdicts == Spec => []AnswerTellsTheVerdict
<1>1. IInv => AnswerTellsTheVerdict
  <2> DEFINE v(r) == verdict[r]
             silent(r) ==
               \A i \in DOMAIN v(r).attempt_errors :
                 v(r).attempt_errors[i] = "timeout"
             resp(r) == response[r]
             served(r) == v(r).output \notin Unrenderable
  <2> SUFFICES ASSUME IInv, NEW r \in Calls, Classified(r), response[r] # None
      PROVE  /\ resp(r).status = 200 <=> (v(r).kind = "success" /\ served(r))
             /\ resp(r).status = 504 <=> (v(r).kind = "failure" /\ silent(r))
             /\ resp(r).status = 502 <=> (v(r).kind = "failure" /\ ~silent(r))
             /\ resp(r).status = 500 <=>
                  \/ v(r).kind = "exception"
                  \/ v(r).kind = "success" /\ ~served(r)
             /\ resp(r).record # None => resp(r).record.attempts = llm_calls[r]
             /\ resp(r).needs_human =
                  IF resp(r).status = 200 THEN NeedsHuman[v(r).output]
                                          ELSE resp(r).status # 500
    BY DEF AnswerTellsTheVerdict
  <2>1. CASE record[r] = None
    <3>1. v(r).kind = "exception" /\ resp(r) = ErrorResponse(500)
      BY <2>1 DEF IInv, CallInv, ResponsePart, Raised, Verdict
    <3>2. /\ resp(r).status = 500 /\ resp(r).record = None
          /\ resp(r).needs_human = FALSE
      BY <3>1 DEF ErrorResponse, Response
    <3>3. resp(r).status # 200 /\ (resp(r).status # 500) = FALSE
      BY <3>2
    <3>4. resp(r).needs_human =
            IF resp(r).status = 200 THEN NeedsHuman[v(r).output]
                                    ELSE resp(r).status # 500
      BY <3>2, <3>3, Zenon
    <3> HIDE DEF resp, silent, served
    <3> QED
      BY <3>1, <3>2, <3>4
  <2>2. CASE record[r] # None
    <3>1. PICK p \in BOOLEAN :
            /\ resp(r) = IF Servable(record[r])
                           THEN ClassifyResponse(record[r], p)
                           ELSE ErrorResponse(500)
            /\ resp(r).record =
                 IF Servable(record[r]) THEN record[r] ELSE None
      BY <2>2, ClassifyAnswers
    <3>2. /\ record[r] = Record(r, v(r))
          /\ record[r].attempts = llm_calls[r]
          /\ v(r).kind \in {"success", "failure"}
          /\ record[r].output = v(r).output
          /\ Servable(record[r]) <=> served(r)
      BY <2>2, RecordFacts DEF Record, Servable
    <3>3. CASE v(r).kind = "success" /\ served(r)
      <4>1. record[r].status = "succeeded"
        BY <3>2, <3>3 DEF Record
      <4> QED
        BY <2>2, <3>1, <3>2, <3>3, <4>1 DEF ClassifyResponse, Response
    <3>4. CASE v(r).kind = "success" /\ ~served(r)
      <4>1. /\ resp(r).status = 500 /\ resp(r).needs_human = FALSE
            /\ resp(r).record = None
        BY <3>1, <3>2, <3>4 DEF ErrorResponse, Response
      <4>2. resp(r).status # 200 /\ (resp(r).status # 500) = FALSE
        BY <4>1
      <4>3. resp(r).needs_human =
              IF resp(r).status = 200 THEN NeedsHuman[v(r).output]
                                      ELSE resp(r).status # 500
        BY <4>1, <4>2, Zenon
      <4> HIDE DEF resp, silent, served
      <4> QED
        BY <3>4, <4>1, <4>3
    <3>5. CASE v(r).kind = "failure"
      <4>1. /\ record[r].status = "failed"
            /\ record[r].error_code =
                 IF silent(r) THEN "llm_timeout" ELSE "llm_malformed_output"
        BY <3>2, <3>5 DEF Record, error_code, failure_reason
      <4>2. served(r)
        <5>1. v(r).output = NoOutput
          BY <2>2, <3>5, RecordFacts, VerdictForms DEF Raised, Verdict
        <5> QED
          BY <5>1, OutputsAssumption, NoOutputAssumption
      <4>3. /\ resp(r).status = IF silent(r) THEN 504 ELSE 502
            /\ resp(r).needs_human = TRUE
        BY <3>1, <3>2, <4>1, <4>2 DEF ClassifyResponse, Response
      <4>4. resp(r).status # 200 /\ (resp(r).status # 500) = TRUE
        BY <4>3
      <4>5. resp(r).needs_human =
              IF resp(r).status = 200 THEN NeedsHuman[v(r).output]
                                      ELSE resp(r).status # 500
        BY <4>3, <4>4, Zenon
      <4>6. resp(r).record = record[r]
        BY <3>1, <3>2, <4>2
      <4> HIDE DEF resp, silent, served
      <4> QED
        BY <3>2, <3>5, <4>3, <4>5, <4>6
    <3> QED
      BY <3>2, <3>3, <3>4, <3>5
  <2> QED
    BY <2>1, <2>2
<1> QED
  BY <1>1, Invariance, PTL
=============================================================================
