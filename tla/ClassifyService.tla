--------------------------- MODULE ClassifyService ---------------------------
(***************************************************************************)
(* The HTTP service around the agent: worker processes, each an event loop *)
(* on which the handlers of concurrent calls interleave at their awaits;   *)
(* the classification repository; and the log of HTTP calls, written after *)
(* each response has been sent (swagger_service.py, main_processor.py,     *)
(* api_request_log_middleware.py and db_clients/).                         *)
(*                                                                         *)
(* An HTTP call stands for itself, for the call of the agent it makes and  *)
(* for the record id (a uuid4) it draws.  The agent is its contract: see   *)
(* LLMAgent for the loop that keeps it.  Mongo is shared by the workers    *)
(* and survives their crashes; an operation on it may fail, and an insert  *)
(* it has applied may be reported as failed.  The memory repository lives  *)
(* and dies with its worker and never fails.  Which of the two is used is  *)
(* a setting, chosen once.                                                 *)
(***************************************************************************)
EXTENDS AgentContract, FiniteSets

CONSTANTS
  Workers,         \* worker processes (-w)
  Bodies,          \* what Mongo makes of the bodies of calls, see BodyKinds
  RequestIds,      \* values of X-Request-ID; callers may repeat them
  NeedsHuman,      \* NeedsHuman[o]: the guarded output o asks for a person
  Unrenderable,    \* outputs that JSON cannot carry: a confidence of NaN
  Backends,        \* the values of REPOSITORY_BACKEND to consider
  DatabaseFaults,  \* whether operations on Mongo may fail
  MaxCrashes,      \* bound on the crashes of each worker
  None

(***************************************************************************)
(* A parsed request body, as a part of a document for Mongo, is            *)
(* "storable"; or is "refused" with InvalidDocument or WriteError, as one  *)
(* with keys such as "$where" is; or "overflows": the encoder raises       *)
(* OverflowError on an integer of more than eight bytes; or is "nested" so *)
(* deeply that it cannot be dumped or copied, and perhaps not even parsed. *)
(***************************************************************************)
BodyKinds == {"storable", "refused", "overflows", "nested"}

ASSUME BodiesAssumption == Bodies \subseteq BodyKinds /\ "storable" \in Bodies
ASSUME BackendsAssumption == Backends \subseteq {"memory", "mongo"}
ASSUME WorkersAssumption == "mongo" \notin Workers
ASSUME FaultsAssumption == DatabaseFaults \in BOOLEAN /\ MaxCrashes \in Nat
ASSUME OutputsAssumption ==
  /\ NeedsHuman \in [Outputs -> BOOLEAN]
  /\ Unrenderable \subseteq Outputs

VARIABLES
  request,   \* request[r]: the call as its worker sees it, None before
  stage,     \* stage[r]: the await its handler is at
  record,    \* record[r]: the ClassificationRecord built for it, None before
  response,  \* response[r]: the response its handler returned, None before
  answer,    \* answer[r]: the response that went out to the client
  records,   \* records[s]: the stored records of repository s, by id
  api_log,   \* api_log[s]: the log entries of store s, by the call's id
  epoch,     \* epoch[w]: how often worker w has crashed
  backend    \* the REPOSITORY_BACKEND the service was deployed with

httpVars == <<request, stage, record, response, answer>>
vars == <<llm_calls, verdict, httpVars, records, api_log, epoch, backend>>

MayFail == backend = "mongo" /\ DatabaseFaults

(* The one Mongo, or a memory store in each worker.                        *)
Stores == Workers \cup {"mongo"}
StoreOf(r) == IF backend = "mongo" THEN "mongo" ELSE request[r].worker

Kinds == {"classify", "invalid", "fetch", "health", "probe"}

(* Not logged: the Docker healthcheck here, like the documentation pages.  *)
SkippedKinds == {"probe"}

(* A document added to a collection, or a key to a dict.                   *)
Put(collection, id, document) ==
  [i \in DOMAIN collection \cup {id} |->
     IF i = id THEN document ELSE collection[i]]

(* The error_code of a verdict: "llm_" and the reason of the LLMFailure.   *)
error_code(v) ==
  CASE v.kind = "success"                           -> None
    [] failure_reason(v.attempt_errors) = "timeout" -> "llm_timeout"
    [] OTHER                                        -> "llm_malformed_output"

(* ClassificationRecord: what process builds from the verdict.             *)
Record(r, v) ==
  [id             |-> r,
   request_id     |-> request[r].request_id,
   status         |-> IF v.kind = "success" THEN "succeeded" ELSE "failed",
   output         |-> v.output,
   error_code     |-> error_code(v),
   attempts       |-> attempts(v),
   attempt_errors |-> v.attempt_errors]

(* The parts of a response a client or the log can tell apart.             *)
Response(status, rec, persisted, needs_human) ==
  [status |-> status, record |-> rec, persisted |-> persisted,
   needs_human |-> needs_human]

ErrorResponse(status) == Response(status, None, FALSE, FALSE)

(* Whether the response that carries a record can be rendered.             *)
Servable(rec) == rec.output \notin Unrenderable

(* JSONResponse renders what a handler returned; it raises on a NaN, and   *)
(* the exception handler answers in its place.                             *)
Rendered(resp) ==
  IF resp.record = None \/ Servable(resp.record)
    THEN resp ELSE ErrorResponse(500)

(* Fault: the error code is compared with the reason it is made from.      *)
ClassifyResponse_wrongCode(rec, persisted) ==
  IF rec.status = "failed"
    THEN Response(IF rec.error_code = "timeout" THEN 504 ELSE 502,
                  rec, persisted, TRUE)
    ELSE Response(200, rec, persisted, NeedsHuman[rec.output])

(* What classify_message makes of the processed record.                    *)
ClassifyResponse(rec, persisted) ==
  IF rec.status = "failed"
    THEN Response(IF rec.error_code = "llm_timeout" THEN 504 ELSE 502,
                  rec, persisted, TRUE)
    ELSE Response(200, rec, persisted, NeedsHuman[rec.output])

Init ==
  /\ ContractInit
  /\ request = [r \in Calls |-> None]
  /\ stage = [r \in Calls |-> "waiting"]
  /\ record = [r \in Calls |-> None]
  /\ response = [r \in Calls |-> None]
  /\ answer = [r \in Calls |-> None]
  /\ records = [s \in Stores |-> << >>]
  /\ api_log = [s \in Stores |-> << >>]   \* empty functions, like records
  /\ epoch = [w \in Workers |-> 0]
  /\ backend \in Backends

GoTo(r, next) == stage' = [stage EXCEPT ![r] = next]

(* The handler returns; the middlewares pass the response on.              *)
Return(r, resp) ==
  /\ response' = [response EXCEPT ![r] = resp]
  /\ GoTo(r, "sending")

-----------------------------------------------------------------------------
(* Arrival: a worker takes the call and its handler runs to its first      *)
(* await.                                                                  *)
Take(r, w, kind, target, body) ==
  /\ stage[r] = "waiting"
  /\ \E id \in RequestIds :
       request' = [request EXCEPT ![r] =
         [kind |-> kind, worker |-> w, epoch |-> epoch[w],
          request_id |-> id, target |-> target, body |-> body]]

ArriveClassify(r, w) ==
  /\ \E body \in Bodies : Take(r, w, "classify", None, body)
  /\ CallLLM(r)
  /\ GoTo(r, "classifying")
  /\ UNCHANGED <<record, response, answer, records, api_log, epoch, backend>>

(* A body that fails validation or cannot be parsed, an unknown route or a *)
(* wrong method.  The last two read no body.                               *)
Refusals(body) ==
  CASE body = "storable" -> {400, 404, 405, 422}
    [] body = "nested"   -> {400, 422}
    [] OTHER             -> {422}

ArriveInvalid(r, w) ==
  /\ \E body \in Bodies :
       /\ Take(r, w, "invalid", None, body)
       /\ \E status \in Refusals(body) : Return(r, ErrorResponse(status))
  /\ UNCHANGED <<llm_calls, verdict, record, answer, records, api_log, epoch,
                 backend>>

(* The record ids clients have been given.                                 *)
KnownIds ==
  LET told == {t \in Calls : answer[t] # None /\ answer[t].record # None}
  IN  {answer[t].record.id : t \in told}

(* A GET for a known id, or (its own) for one that names no record.        *)
ArriveFetch(r, w) ==
  /\ \E t \in KnownIds \cup {r} : Take(r, w, "fetch", t, "storable")
  /\ GoTo(r, "reading")
  /\ UNCHANGED <<llm_calls, verdict, record, response, answer, records,
                 api_log, epoch, backend>>

ArriveHealth(r, w) ==
  /\ \E kind \in {"health", "probe"} : Take(r, w, kind, None, "storable")
  /\ GoTo(r, "pinging")
  /\ UNCHANGED <<llm_calls, verdict, record, response, answer, records,
                 api_log, epoch, backend>>

-----------------------------------------------------------------------------
(* POST /classify-message                                                  *)
AgentGoesOn(r) ==
  /\ stage[r] = "classifying"
  /\ GoOn(r)
  /\ UNCHANGED <<httpVars, records, api_log, epoch, backend>>

(* process builds the record of a success or an LLMFailure, and saves it.  *)
BuildRecord(r) ==
  /\ stage[r] = "classifying"
  /\ verdict[r].kind \in {"success", "failure"}
  /\ record' = [record EXCEPT ![r] = Record(r, verdict[r])]
  /\ GoTo(r, "saving")
  /\ UNCHANGED <<llm_calls, verdict, request, response, answer, records,
                 api_log, epoch, backend>>

(* Any other exception passes through process to the middleware.           *)
UnhandledException(r) ==
  /\ stage[r] = "classifying"
  /\ verdict[r].kind = "exception"
  /\ Return(r, ErrorResponse(500))
  /\ UNCHANGED <<llm_calls, verdict, request, record, answer, records,
                 api_log, epoch, backend>>

(* Fault: records are kept by the request id, which callers may repeat.    *)
SaveApplied_byRequestId(r) ==
  /\ stage[r] = "saving"
  /\ records' = [records EXCEPT ![StoreOf(r)] =
       Put(@, request[r].request_id, record[r])]
  /\ GoTo(r, "saved")
  /\ UNCHANGED <<llm_calls, verdict, request, record, response, answer,
                 api_log, epoch, backend>>

(* The repository stores the record; the worker does not know yet.         *)
SaveApplied(r) ==
  /\ stage[r] = "saving"
  /\ records' = [records EXCEPT ![StoreOf(r)] =
       Put(@, record[r].id, record[r])]
  /\ GoTo(r, "saved")
  /\ UNCHANGED <<llm_calls, verdict, request, record, response, answer,
                 api_log, epoch, backend>>

SaveAcknowledged(r) ==
  /\ stage[r] = "saved"
  /\ Return(r, Rendered(ClassifyResponse(record[r], TRUE)))
  /\ UNCHANGED <<llm_calls, verdict, request, record, answer, records,
                 api_log, epoch, backend>>

(* Fault: _persist reports success after a save that raised.               *)
SaveRaises_unnoticed(r) ==
  /\ MayFail
  /\ stage[r] \in {"saving", "saved"}
  /\ Return(r, Rendered(ClassifyResponse(record[r], TRUE)))
  /\ UNCHANGED <<llm_calls, verdict, request, record, answer, records,
                 api_log, epoch, backend>>

(* save raises: the insert was not applied, or its reply was lost.         *)
SaveRaises(r) ==
  /\ MayFail
  /\ stage[r] \in {"saving", "saved"}
  /\ Return(r, Rendered(ClassifyResponse(record[r], FALSE)))
  /\ UNCHANGED <<llm_calls, verdict, request, record, answer, records,
                 api_log, epoch, backend>>

(* An insert the worker has given up on, or died waiting for, still lands. *)
InsertLands(r) ==
  /\ MayFail
  /\ record[r] # None
  /\ stage[r] \notin {"saving", "saved"}
  /\ r \notin DOMAIN records[StoreOf(r)]
  /\ records' = [records EXCEPT ![StoreOf(r)] =
       Put(@, record[r].id, record[r])]
  /\ UNCHANGED <<llm_calls, verdict, httpVars, api_log, epoch, backend>>

-----------------------------------------------------------------------------
(* GET /classifications/{id} and GET /health                               *)
Fetch(r) ==
  LET stored == records[StoreOf(r)]
      id == request[r].target
  IN  /\ stage[r] = "reading"
      /\ Return(r, IF id \in DOMAIN stored
                     THEN Rendered(Response(200, stored[id], FALSE, FALSE))
                     ELSE ErrorResponse(404))
      /\ UNCHANGED <<llm_calls, verdict, request, record, answer, records,
                     api_log, epoch, backend>>

FetchRaises(r) ==
  /\ MayFail
  /\ stage[r] = "reading"
  /\ Return(r, ErrorResponse(500))
  /\ UNCHANGED <<llm_calls, verdict, request, record, answer, records,
                 api_log, epoch, backend>>

(* ping catches a PyMongoError, and 503 says "degraded"; any other passes. *)
Ping(r) ==
  /\ stage[r] = "pinging"
  /\ \E status \in IF MayFail THEN {200, 500, 503} ELSE {200} :
       Return(r, ErrorResponse(status))
  /\ UNCHANGED <<llm_calls, verdict, request, record, answer, records,
                 api_log, epoch, backend>>

-----------------------------------------------------------------------------
(* The middlewares: the response goes out, then the call is logged.        *)
Send(r) ==
  /\ stage[r] = "sending"
  /\ answer' = [answer EXCEPT ![r] = response[r]]
  /\ GoTo(r, IF request[r].kind \in SkippedKinds THEN "done" ELSE "logging")
  /\ UNCHANGED <<llm_calls, verdict, request, record, response, records,
                 api_log, epoch, backend>>

(* The memory store keeps any body it can copy.                            *)
Storable(r) ==
  IF backend = "memory" THEN request[r].body # "nested"
                        ELSE request[r].body = "storable"

(* Bodies on which the save of an entry raises, whatever the database does.*)
Unsavable(r) ==
  \/ request[r].body = "nested"
  \/ backend = "mongo" /\ request[r].body = "overflows"

(* An insert is applied or not, and acknowledged or not.  An error of the  *)
(* log is swallowed with a warning, api_request_log_failed: the call is    *)
(* through, "unlogged" as far as its worker knows.                         *)
InsertLog(r, as_text) ==
  LET entry == [status |-> response[r].status, as_text |-> as_text]
      logged == [api_log EXCEPT ![StoreOf(r)] = Put(@, r, entry)]
  IN  \/ api_log' = logged /\ GoTo(r, "done")
      \/ MayFail /\ api_log' \in {logged, api_log} /\ GoTo(r, "unlogged")

(* Fault: the call is logged before its response has gone out.             *)
LogCall_early(r) ==
  /\ stage[r] \in {"sending", "logging"}
  /\ Storable(r)
  /\ InsertLog(r, FALSE)
  /\ UNCHANGED <<llm_calls, verdict, request, record, response, answer,
                 records, epoch, backend>>

LogCall(r) ==
  /\ stage[r] = "logging"
  /\ Storable(r)
  /\ InsertLog(r, FALSE)
  /\ UNCHANGED <<llm_calls, verdict, request, record, response, answer,
                 records, epoch, backend>>

(* Fault: a refused entry is dropped.                                      *)
LogRefused_dropping(r) ==
  /\ stage[r] = "logging"
  /\ backend = "mongo" /\ request[r].body = "refused"
  /\ GoTo(r, "done")
  /\ UNCHANGED <<llm_calls, verdict, request, record, response, answer,
                 records, api_log, epoch, backend>>

(* Mongo refuses the document (InvalidDocument, WriteError): nothing is    *)
(* written, and the bodies are turned into text for a second insert.       *)
LogRefused(r) ==
  /\ stage[r] = "logging"
  /\ backend = "mongo" /\ request[r].body = "refused"
  /\ GoTo(r, "relogging")
  /\ UNCHANGED <<llm_calls, verdict, request, record, response, answer,
                 records, api_log, epoch, backend>>

(* Any other error: nothing is written, and the fallback does not catch    *)
(* it.  It may be raised on the body, or by the database before it looked  *)
(* at the document.                                                        *)
LogFails(r) ==
  /\ stage[r] = "logging"
  /\ ~Storable(r)
  /\ Unsavable(r) \/ MayFail
  /\ GoTo(r, "unlogged")
  /\ UNCHANGED <<llm_calls, verdict, request, record, response, answer,
                 records, api_log, epoch, backend>>

(* Fault: the second insert is a retry of the first, fallback included.    *)
LogAsText_again(r) ==
  /\ stage[r] = "relogging"
  /\ GoTo(r, "logging")
  /\ UNCHANGED <<llm_calls, verdict, request, record, response, answer,
                 records, api_log, epoch, backend>>

LogAsText(r) ==
  /\ stage[r] = "relogging"
  /\ InsertLog(r, TRUE)
  /\ UNCHANGED <<llm_calls, verdict, request, record, response, answer,
                 records, epoch, backend>>

(* _decode_body catches a ValueError only: a RecursionError of json.loads  *)
(* leaves the middleware before there is an entry to save, and without the *)
(* warning.  A handler that ran had its body parsed, deeper in the stack.  *)
EntryNotBuilt(r) ==
  /\ stage[r] = "logging"
  /\ request[r].kind = "invalid" /\ request[r].body = "nested"
  /\ GoTo(r, "raised")
  /\ UNCHANGED <<llm_calls, verdict, request, record, response, answer,
                 records, api_log, epoch, backend>>

(* An entry its worker has given up on, or died waiting for, still lands.  *)
LogLands(r) ==
  /\ MayFail
  /\ stage[r] \in {"unlogged", "lost"} /\ answer[r] # None
  /\ request[r].kind \notin SkippedKinds /\ request[r].body = "storable"
  /\ r \notin DOMAIN api_log[StoreOf(r)]
  /\ api_log' = [api_log EXCEPT ![StoreOf(r)] =
       Put(@, r, [status |-> response[r].status, as_text |-> FALSE])]
  /\ UNCHANGED <<llm_calls, verdict, httpVars, records, epoch, backend>>

-----------------------------------------------------------------------------
(* The handler of r is through, log entry included.                        *)
Through(r) == stage[r] \in {"done", "unlogged", "raised"}

InFlight(r) == stage[r] \notin {"waiting", "lost"} /\ ~Through(r)

(* A worker process dies, and is replaced by a new one.                    *)
Crash(w) ==
  LET dying == {r \in Calls : InFlight(r) /\ request[r].worker = w}
  IN  /\ epoch[w] < MaxCrashes
      /\ epoch' = [epoch EXCEPT ![w] = @ + 1]
      /\ stage' = [r \in Calls |-> IF r \in dying THEN "lost" ELSE stage[r]]
      /\ verdict' = [r \in Calls |->
           IF r \in dying /\ stage[r] = "classifying" /\ verdict[r] = Undecided
             THEN Abandoned ELSE verdict[r]]
      /\ records' = [s \in Stores |-> IF s = w THEN << >> ELSE records[s]]
      /\ api_log' = [s \in Stores |-> IF s = w THEN << >> ELSE api_log[s]]
      /\ UNCHANGED <<llm_calls, request, record, response, answer, backend>>

Arrive(r, w) ==
  \/ ArriveClassify(r, w)
  \/ ArriveInvalid(r, w)
  \/ ArriveFetch(r, w)
  \/ ArriveHealth(r, w)

(* A step of the handler of r, or of the database on its behalf.           *)
Handle(r) ==
  \/ AgentGoesOn(r)
  \/ BuildRecord(r)
  \/ UnhandledException(r)
  \/ SaveApplied(r)
  \/ SaveAcknowledged(r)
  \/ SaveRaises(r)
  \/ Fetch(r)
  \/ FetchRaises(r)
  \/ Ping(r)
  \/ Send(r)
  \/ LogCall(r)
  \/ LogRefused(r)
  \/ LogFails(r)
  \/ LogAsText(r)
  \/ EntryNotBuilt(r)

(* What the database applies after the worker has stopped waiting for it.  *)
Lands(r) == InsertLands(r) \/ LogLands(r)

Next ==
  \/ \E r \in Calls, w \in Workers : Arrive(r, w)
  \/ \E r \in Calls : Handle(r) \/ Lands(r)
  \/ \E w \in Workers : Crash(w)

Spec == Init /\ [][Next]_vars

(***************************************************************************)
(* The event loop runs ready handlers, the agent goes on (LLMAgent's       *)
(* KeepsFairContract), and the driver ends every operation on Mongo with a *)
(* reply or an error.  Clients owe nothing, and crashes need not happen.   *)
(***************************************************************************)
FairSpec == Spec /\ \A r \in Calls : WF_vars(Handle(r))

-----------------------------------------------------------------------------
Requests ==
  [kind : Kinds, worker : Workers, epoch : 0..MaxCrashes,
   request_id : RequestIds, target : Calls \cup {None}, body : Bodies]

Errors == UNION {[1..n -> AttemptError] : n \in 0..max_attempts}

Records ==
  [id : Calls, request_id : RequestIds, status : {"succeeded", "failed"},
   output : Outputs \cup {NoOutput},
   error_code : {None, "llm_timeout", "llm_malformed_output"},
   attempts : 1..max_attempts, attempt_errors : Errors]

Statuses == {200, 400, 404, 405, 422, 500, 502, 503, 504}

Responses ==
  [status : Statuses, record : Records \cup {None}, persisted : BOOLEAN,
   needs_human : BOOLEAN]

LogEntries == [status : Statuses, as_text : BOOLEAN]

ASSUME NoneAssumption ==
  None \notin Requests \cup Records \cup Responses \cup Calls

IsCollection(f, documents) ==
  DOMAIN f \subseteq Calls /\ \A id \in DOMAIN f : f[id] \in documents

TypeOK ==
  /\ llm_calls \in [Calls -> 0..max_attempts]
  /\ request \in [Calls -> Requests \cup {None}]
  /\ stage \in [Calls -> {"waiting", "classifying", "saving", "saved",
       "reading", "pinging", "sending", "logging", "relogging", "done",
       "unlogged", "raised", "lost"}]
  /\ record \in [Calls -> Records \cup {None}]
  /\ response \in [Calls -> Responses \cup {None}]
  /\ answer \in [Calls -> Responses \cup {None}]
  /\ \A s \in Stores : IsCollection(records[s], Records)
  /\ \A s \in Stores : IsCollection(api_log[s], LogEntries)
  /\ epoch \in [Workers -> 0..MaxCrashes]
  /\ backend \in Backends

Classified(r) == request[r] # None /\ request[r].kind = "classify"

(* A classification answered "persisted": true is in the repository, as it *)
(* was answered, whoever repeated its request id and whichever worker has  *)
(* died since (README.md:50); only the memory repository loses it, with    *)
(* the worker that held it (memory_svc.py:5).                              *)
PersistedAnswerIsStored ==
  \A r \in Calls :
    Classified(r) /\ answer[r] # None /\ answer[r].persisted =>
      \/ /\ r \in DOMAIN records[StoreOf(r)]
         /\ records[StoreOf(r)][r] = answer[r].record
      \/ backend = "memory" /\ epoch[request[r].worker] > request[r].epoch

(* GET returns the record its POST answered, or 404 if the answer said it  *)
(* was not persisted; in memory, also if another worker, or a later life   *)
(* of the same one, is asked.                                              *)
FetchAgreesWithAnswer ==
  \A r, t \in Calls :
    (/\ request[r] # None /\ request[r].kind = "fetch"
     /\ request[r].target = t /\ t # r /\ response[r] # None) =>
      /\ response[r].status = 200 => response[r].record = answer[t].record
      /\ response[r].status = 404 =>
           \/ ~answer[t].persisted
           \/ /\ backend = "memory"
              /\ \/ request[r].worker # request[t].worker
                 \/ request[r].epoch # request[t].epoch

(* swagger_service.py:229: 200 is a success, 504 a model silent on every   *)
(* attempt, 502 one that answered and never well, 500 an exception or a    *)
(* success with a NaN; the attempts reported are the calls of the LLM that *)
(* were made, and a message no one could classify goes to a person.        *)
AnswerTellsTheVerdict ==
  \A r \in Calls : Classified(r) /\ response[r] # None =>
    LET v == verdict[r]
        resp == response[r]
        silent ==
          \A i \in DOMAIN v.attempt_errors : v.attempt_errors[i] = "timeout"
        served == v.output \notin Unrenderable
    IN  /\ resp.status = 200 <=> (v.kind = "success" /\ served)
        /\ resp.status = 504 <=> (v.kind = "failure" /\ silent)
        /\ resp.status = 502 <=> (v.kind = "failure" /\ ~silent)
        /\ resp.status = 500 <=>
             (v.kind = "exception" \/ (v.kind = "success" /\ ~served))
        /\ resp.record # None => resp.record.attempts = llm_calls[r]
        /\ resp.needs_human = IF resp.status = 200 THEN NeedsHuman[v.output]
                                                   ELSE resp.status # 500

(* The log of HTTP calls is truthful: an entry tells the status its client *)
(* was sent, and is there only once that has gone out                      *)
(* (api_request_log_middleware.py:42); the healthcheck is not in it.       *)
LogIsTruthful ==
  \A s \in Stores : \A r \in DOMAIN api_log[s] :
    /\ answer[r] # None
    /\ api_log[s][r].status = answer[r].status
    /\ request[r].kind \notin SkippedKinds

(* swagger_service.py:235: "Every call, successful or failed, is stored    *)
(* and can be fetched": with a database that never fails and no crash, an  *)
(* answered classification is in the repository.                           *)
EveryAnsweredCallIsStored ==
  \A r \in Calls : Classified(r) /\ answer[r] # None =>
    r \in DOMAIN records[StoreOf(r)]

(* mongo_svc.py:72: a call whose body Mongo refuses is kept as text rather *)
(* than lost.  A handler that is through without complaint has logged its  *)
(* call, unless the healthcheck made it; a warning that it may not have    *)
(* takes a database that failed or a body no save survives; and an entry   *)
(* is never even built only for a refused call, for nesting that json      *)
(* cannot follow.  A memory log dies with its worker.                      *)
EveryLossHasACause ==
  \A r \in Calls :
    /\ stage[r] = "done" /\ request[r].kind \notin SkippedKinds =>
         \/ r \in DOMAIN api_log[StoreOf(r)]
         \/ backend = "memory" /\ epoch[request[r].worker] > request[r].epoch
    /\ stage[r] = "unlogged" => MayFail \/ Unsavable(r)
    /\ stage[r] = "raised" =>
         request[r].kind = "invalid" /\ request[r].body = "nested"

(* README.md:51: "every HTTP call (any path or status) is also stored":    *)
(* with the database up and no crash, a call that is through is in the log.*)
EveryFinishedCallIsLogged ==
  \A r \in Calls :
    Through(r) /\ request[r].kind \notin SkippedKinds =>
      r \in DOMAIN api_log[StoreOf(r)]

(* Whatever the LLM does, and however an operation on a database ends, a   *)
(* call a worker has taken runs to its end unless the worker dies.         *)
EveryCallEnds ==
  \A r \in Calls : (stage[r] # "waiting") ~> (Through(r) \/ stage[r] = "lost")
(***************************************************************************)
(* The API keeps its promise about records (RecordBook): the book is the   *)
(* repositories, a draft the record of a handler, and a call is told what  *)
(* its handler returns.                                                    *)
(***************************************************************************)
Askings == [store : Stores, target : Calls \cup {None}]

ASSUME AskingAssumption == None \notin Askings

CallOf(r) ==
  IF request[r] = None THEN None
    ELSE [store |-> StoreOf(r), target |-> request[r].target]

ToldTo(r) ==
  IF response[r] = None THEN None
    ELSE [record |-> response[r].record,
          persisted |-> response[r].persisted,
          missing |-> request[r].kind = "fetch" /\ response[r].status = 404]

Book == INSTANCE RecordBook WITH
  Volatile <- Workers, Documents <- Records,
  Unservable <- {rec \in Records : ~Servable(rec)},
  call <- [r \in Calls |-> CallOf(r)], draft <- record, book <- records,
  told <- [r \in Calls |-> ToldTo(r)]

(* A record is drawn up once and stored once, as it was answered; the      *)
(* answer "persisted" waits for the repository (main_processor.py:91); a   *)
(* GET answers what is stored when it reads; only a record that JSON       *)
(* cannot carry is kept from its client; and only a worker's memory is     *)
(* ever lost.                                                              *)
KeepsBook == Book!BookSpec

(* A store only grows: a stored record and a log entry are final, whatever *)
(* is retried, resent or repeated, and only a worker's memory is lost,     *)
(* with the worker (mongo_svc.py:28 and :66 insert, and replace nothing).  *)
Grown(old, new) ==
  \A id \in DOMAIN old : id \in DOMAIN new /\ new[id] = old[id]

StoresOnlyGrow ==
  [][\A s \in Stores :
       \/ Grown(records[s], records'[s]) /\ Grown(api_log[s], api_log'[s])
       \/ s \in Workers /\ epoch'[s] = epoch[s] + 1]_vars

(* How far a handler is from its end: its stage, and the steps its agent   *)
(* has left while it classifies.                                           *)
StagesAhead(r) ==
  CASE stage[r] = "classifying"                   -> 7
    [] stage[r] = "saving"                        -> 6
    [] stage[r] \in {"saved", "reading", "pinging"} -> 5
    [] stage[r] = "sending"                       -> 4
    [] stage[r] = "logging"                       -> 3
    [] stage[r] = "relogging"                     -> 2
    [] OTHER                                      -> 1

AgentStepsAhead(r) ==
  IF stage[r] = "classifying" /\ verdict[r] = Undecided
    THEN max_attempts - llm_calls[r] + 1
    ELSE 0

Distance(r) == StagesAhead(r) + AgentStepsAhead(r)

(* What EveryCallEnds owes to safety: every move of a handler brings it    *)
(* nearer to its end, so that no retry, fallback or crash sends it around  *)
(* again, and the moves it has are at most its distance on arrival.        *)
EveryMoveIsProgress ==
  [][\A r \in Calls : stage[r] # "waiting" =>
       \/ UNCHANGED <<stage[r], llm_calls[r], verdict[r]>>
       \/ Distance(r)' < Distance(r)]_vars
=============================================================================
