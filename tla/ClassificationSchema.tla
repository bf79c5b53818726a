------------------------ MODULE ClassificationSchema ------------------------
(***************************************************************************)
(* The pure half of the message classifier agent: from the raw answer of   *)
(* the LLM to a validated, guarded output (schema.py, guardrails.py,       *)
(* clean_json.py and parse_output in agent.py).                            *)
(*                                                                         *)
(* A JSON answer is a record of the fields of ClassificationOutput.  Its   *)
(* strings are values of Text; the fields a decision of the code depends   *)
(* on keep as many values as it tells apart.                               *)
(***************************************************************************)
EXTENDS Integers

CONSTANTS
  Text,            \* the strings an answer may hold
  IntentValues,    \* _INTENT_VALUES
  UNKNOWN,         \* Intent.UNKNOWN.value
  BlankText,       \* the strings that are empty once stripped
  Normalized,      \* Normalized[t]: t.strip().lower()
  NotAString,      \* a JSON value of another type, or no value at all
  NotANumber,      \* NaN, which JSON as Python and pydantic read it may hold
  None,            \* null
  ValidationError, \* what validation returns for an answer it refuses
  SuspiciousMessages,  \* those a PROMPT_INJECTION_PATTERNS entry matches
  ConfidenceThreshold  \* CONFIDENCE_THRESHOLD, in percent

ASSUME TextAssumption ==
  /\ IntentValues \subseteq Text
  /\ UNKNOWN \in IntentValues
  /\ BlankText \subseteq Text
  /\ BlankText \cap IntentValues = {}
  /\ NotAString \notin Text
  /\ None \notin Text
  /\ NotAString # None

(* strip and lower leave a normalised string and an enum value alone.      *)
ASSUME NormalizedAssumption ==
  /\ Normalized \in [Text -> Text]
  /\ \A v \in IntentValues : Normalized[v] = v
  /\ \A t \in Text : t \in BlankText <=> Normalized[t] \in BlankText

ASSUME ThresholdAssumption ==
  ConfidenceThreshold \in 0..100 /\ NotANumber \notin Int

Urgencies == {"low", "medium", "high"}

Date == Int \cup {None}

(* The JSON objects an answer can hold, and those a record is dumped to.   *)
Json ==
  [intent : Text \cup {NotAString},
   unrecognized_intent : Text \cup {None, NotAString},
   urgency : STRING,
   confidence : Int \cup {NotANumber},
   needs_human : BOOLEAN,
   stays : SUBSET [check_in : Date, check_out : Date, new_check_out : Date]]

ASSUME ValidationErrorAssumption == ValidationError \notin Json

-----------------------------------------------------------------------------
(* Stay.check_date_order: only the pairs whose dates are both given.       *)
check_date_order(stay) ==
  LET After(later, earlier) ==
        earlier # None /\ later # None => later > earlier
  IN  /\ After(stay.check_out, stay.check_in)
      /\ After(stay.new_check_out, stay.check_out)

(* Fault: the intent is looked up as the model spelled it.                 *)
map_unrecognized_intent_verbatim(data) ==
  IF data.intent = NotAString \/ data.intent \in BlankText
    THEN data
  ELSE IF data.intent \in IntentValues
    THEN [data EXCEPT !.unrecognized_intent =
                        IF data.intent = UNKNOWN THEN @ ELSE None]
  ELSE [data EXCEPT !.intent = UNKNOWN,
                    !.unrecognized_intent = Normalized[data.intent]]

(***************************************************************************)
(* The before-validator: an intent outside the enum becomes UNKNOWN and is *)
(* kept in unrecognized_intent; one inside it is spelled canonically.  An  *)
(* "unknown" keeps the unrecognized_intent it comes with, so that a stored *)
(* record can be loaded again.                                             *)
(***************************************************************************)
map_unrecognized_intent(data) ==
  IF data.intent = NotAString \/ data.intent \in BlankText
    THEN data
  ELSE IF Normalized[data.intent] \in IntentValues
    THEN [data EXCEPT !.intent = Normalized[data.intent],
                      !.unrecognized_intent =
                        IF Normalized[data.intent] = UNKNOWN THEN @ ELSE None]
  ELSE [data EXCEPT !.intent = UNKNOWN, !.unrecognized_intent = data.intent]

(* Fault: confidence is any number.                                        *)
FieldsValid_noRange(data) ==
  /\ data.intent \in IntentValues
  /\ data.unrecognized_intent \in Text \cup {None}
  /\ data.urgency \in Urgencies
  /\ data.needs_human \in BOOLEAN
  /\ \A stay \in data.stays : check_date_order(stay)

(* The fields of ClassificationOutput, once the before-validator has run.  *)
(* A NaN is neither below ge nor above le, and passes.                     *)
FieldsValid(data) ==
  /\ data.intent \in IntentValues
  /\ data.unrecognized_intent \in Text \cup {None}
  /\ data.urgency \in Urgencies
  /\ data.confidence \in 0..100 \cup {NotANumber}
  /\ data.needs_human \in BOOLEAN
  /\ \A stay \in data.stays : check_date_order(stay)

(* ClassificationOutput.model_validate                                     *)
model_validate(data) ==
  LET mapped == map_unrecognized_intent(data)
  IN  IF FieldsValid(mapped) THEN mapped ELSE ValidationError

(***************************************************************************)
(* A raw answer is a body in some number of nested markdown code fences;   *)
(* the body is a JSON object unless it is cut short (complete = FALSE).    *)
(***************************************************************************)
strip_code_fence(raw) ==
  IF raw.fences > 0 THEN [raw EXCEPT !.fences = @ - 1] ELSE raw

parse_output(raw) ==
  LET answer == strip_code_fence(raw)
  IN  IF answer.fences = 0 /\ answer.complete
        THEN model_validate(answer.body) ELSE ValidationError

-----------------------------------------------------------------------------
looks_like_prompt_injection(message) == message \in SuspiciousMessages

(* Fault: a confidence at the threshold is low.                            *)
low_confidence_inclusive(output) ==
  output.confidence # NotANumber /\ output.confidence <= ConfidenceThreshold

(* A NaN is not below the threshold either.                                *)
low_confidence(output) ==
  output.confidence # NotANumber /\ output.confidence < ConfidenceThreshold

Reason == {"model_flagged", "unknown_intent", "low_confidence",
           "high_urgency", "possible_prompt_injection"}

guardrail_reasons(output, message) ==
  {r \in Reason :
     \/ r = "model_flagged" /\ output.needs_human
     \/ r = "unknown_intent" /\ output.intent = UNKNOWN
     \/ r = "low_confidence" /\ low_confidence(output)
     \/ r = "high_urgency" /\ output.urgency = "high"
     \/ r = "possible_prompt_injection" /\ looks_like_prompt_injection(message)}

apply_guardrails(output, message) ==
  [output EXCEPT !.needs_human = guardrail_reasons(output, message) # {}]
=============================================================================
