--------------------------- MODULE AnswerPipeline ---------------------------
(***************************************************************************)
(* One answer of the LLM on its way through the service: validated and     *)
(* guarded by the agent, recorded by MainProcessor, dumped into a document *)
(* by the repository, answered, and, when GET /classifications/{id} asks   *)
(* for it, validated again twice: by the Mongo repository that loads it    *)
(* and by the response model that serves it.  The same validator, written  *)
(* for the answers of the model, thus runs over its own results.           *)
(***************************************************************************)
EXTENDS ClassificationSchema

CONSTANTS
  RawAnswers,     \* [fences, complete, body]: raw answers of the LLM
  Messages,       \* guest messages
  Instants,       \* clock readings, in microseconds
  MicrosPerMilli, \* microseconds in one unit of BSON's datetime
  ServerError,    \* a 500 in place of a response
  Backend         \* REPOSITORY_BACKEND: "memory" or "mongo"

ASSUME RawAnswersAssumption ==
  RawAnswers \subseteq [fences : Nat, complete : BOOLEAN, body : Json]
ASSUME ClockAssumption == Instants \subseteq Nat /\ MicrosPerMilli \in Nat \ {0}
ASSUME RecordAssumption ==
  {ValidationError, ServerError} \cap [output : Json, created_at : Nat] = {}
ASSUME BackendAssumption == Backend \in {"memory", "mongo"}

VARIABLES
  stage,       \* how far the answer has come
  raw,         \* the answer
  message,     \* the message it is about
  created_at,  \* ClassificationRecord.created_at
  output,      \* the output in the hands of the processor, None before
  stored,      \* the document in the repository, None before
  answer,      \* what POST has answered, None before
  view         \* what a GET has in its hands, None before

vars == <<stage, raw, message, created_at, output, stored, answer, view>>

Record(out, time) == [output |-> out, created_at |-> time]

(* The time a BSON datetime keeps.                                         *)
bson_datetime(now) == (now \div MicrosPerMilli) * MicrosPerMilli

(* Fault: the clock is stored as it is read.                               *)
utc_now_untruncated(now) == now

(* main_processor.utc_now                                                  *)
utc_now(now) == now - (now % MicrosPerMilli)

(***************************************************************************)
(* save: the memory repository keeps a deep copy; Mongo dumps the record   *)
(* to JSON, where an enum is its value, and puts created_at back as a      *)
(* datetime.                                                               *)
(***************************************************************************)
Document(record) ==
  IF Backend = "mongo"
    THEN [record EXCEPT !.created_at = bson_datetime(@)] ELSE record

(* A record validated field by field: its output runs the validator again. *)
Validated(record) ==
  LET out == model_validate(record.output)
  IN  IF out = ValidationError THEN ValidationError
                               ELSE Record(out, record.created_at)

(* get: Mongo validates the document, memory copies the record.            *)
Loaded(document) ==
  IF Backend = "mongo" THEN Validated(document) ELSE document

(* A response goes out as JSON, which Starlette writes without NaN: json's *)
(* ValueError leaves the route, and the middleware answers 500.            *)
Rendered(record) ==
  IF record.output.confidence = NotANumber THEN ServerError ELSE record

-----------------------------------------------------------------------------
Init ==
  /\ stage = "received"
  /\ raw \in RawAnswers
  /\ message \in Messages
  /\ created_at \in {utc_now(t) : t \in Instants}
  /\ output = None
  /\ stored = None
  /\ answer = None
  /\ view = None

Parse ==
  /\ stage = "received"
  /\ output' = parse_output(raw)
  /\ stage' = IF parse_output(raw) = ValidationError THEN "refused" ELSE "parsed"
  /\ UNCHANGED <<raw, message, created_at, stored, answer, view>>

Guard ==
  /\ stage = "parsed"
  /\ output' = apply_guardrails(output, message)
  /\ stage' = "guarded"
  /\ UNCHANGED <<raw, message, created_at, stored, answer, view>>

Save ==
  /\ stage = "guarded"
  /\ stored' = Document(Record(output, created_at))
  /\ stage' = "stored"
  /\ UNCHANGED <<raw, message, created_at, output, answer, view>>

(* ClassifyMessageOutput has the fields of the output, and no validator.   *)
Answer ==
  /\ stage = "stored"
  /\ answer' = Rendered(Record(output, created_at))
  /\ stage' = "answered"
  /\ UNCHANGED <<raw, message, created_at, output, stored, view>>

Load ==
  /\ stage = "answered"
  /\ view' = Loaded(stored)
  /\ stage' = IF Loaded(stored) = ValidationError THEN "broken" ELSE "loaded"
  /\ UNCHANGED <<raw, message, created_at, output, stored, answer>>

(* FastAPI dumps the returned record and validates it as response_model.   *)
Serve ==
  /\ stage = "loaded"
  /\ view' = IF Validated(view) = ValidationError THEN ValidationError
                                                 ELSE Rendered(Validated(view))
  /\ stage' = IF Validated(view) = ValidationError THEN "broken" ELSE "served"
  /\ UNCHANGED <<raw, message, created_at, output, stored, answer>>

Next == Parse \/ Guard \/ Save \/ Answer \/ Load \/ Serve

Spec == Init /\ [][Next]_vars

-----------------------------------------------------------------------------
Accepted == stage \notin {"received", "refused"}
Guarded == Accepted /\ stage # "parsed"

OutputType ==
  [intent : IntentValues, unrecognized_intent : Text \cup {None},
   urgency : Urgencies, confidence : 0..100 \cup {NotANumber}, needs_human : BOOLEAN]

HasOutputType(out) ==
  [f \in {"intent", "unrecognized_intent", "urgency", "confidence",
          "needs_human"} |-> out[f]] \in OutputType

TypeOK ==
  /\ stage \in {"received", "refused", "parsed", "guarded", "stored",
                "answered", "loaded", "served", "broken"}
  /\ raw \in RawAnswers
  /\ message \in Messages
  /\ created_at \in Nat
  /\ Accepted => HasOutputType(output)

(* What POST answered is what GET returns: loading and serving a stored    *)
(* record, each of which validates it anew, neither fails nor alters it,   *)
(* its timestamp included (the round trip test_mongo_repository.py makes   *)
(* for two records).  What cannot be rendered is a 500 to both, although   *)
(* it is stored; that is a NaN, and nothing else.                          *)
ReadBackIsWhatWasAnswered ==
  /\ stage # "broken"
  /\ stage = "loaded" => view = Record(output, created_at)
  /\ stage = "served" => view = answer
  /\ answer # None =>
       answer = IF raw.body.confidence = NotANumber
                  THEN ServerError ELSE Record(output, created_at)

(* A message is left to automation exactly if everything that speaks for a *)
(* person is absent: the model's flag, an intent it could not name, a      *)
(* confidence below the threshold, high urgency, a suspicious message      *)
(* (guardrails.py:24).  A confidence at the threshold does not speak for   *)
(* one, and neither does NaN, which compares to nothing.                   *)
AutomatedExactlyIfClear ==
  Guarded =>
    (~output.needs_human <=>
       /\ ~raw.body.needs_human
       /\ Normalized[raw.body.intent] \in IntentValues \ {UNKNOWN}
       /\ \/ raw.body.confidence = NotANumber
          \/ raw.body.confidence >= ConfidenceThreshold
       /\ raw.body.urgency # "high"
       /\ ~looks_like_prompt_injection(message))

(* README.md:46: an intent outside the enum becomes "unknown", the value   *)
(* the model wrote is kept to the letter, and a person gets the message.   *)
(* An answer with no other fault is not refused, so that it burns no retry *)
(* (schema.py:83).                                                         *)
UnroutableIntentIsKept ==
  (/\ raw.body.intent \in Text \ BlankText
   /\ Normalized[raw.body.intent] \notin IntentValues) =>
    /\ Guarded =>
         /\ output.intent = UNKNOWN
         /\ output.unrecognized_intent = raw.body.intent
         /\ output.needs_human
    /\ (/\ raw.fences <= 1 /\ raw.complete
        /\ FieldsValid([raw.body EXCEPT !.intent = UNKNOWN,
                                        !.unrecognized_intent = None])) =>
         stage # "refused"

(* schema.py:74: unrecognized_intent is "Set by the service, never by the  *)
(* model": it is there only when the intent was outside the enum.          *)
UnrecognizedIntentIsTheServices ==
  Accepted /\ output.unrecognized_intent # None =>
    Normalized[raw.body.intent] \notin IntentValues
=============================================================================
