------------------------ MODULE AnswerPipelineProofs ------------------------
(***************************************************************************)
(* Proofs about AnswerPipeline, for every vocabulary of intents and every  *)
(* spelling of them, every threshold, clock and backend: what is read back *)
(* is what was answered, and what is automated is clear.                   *)
(***************************************************************************)
EXTENDS AnswerPipeline, TLAPS

(* What validation makes of an answer it accepts.                          *)
Validates(out) ==
  /\ out \in Json
  /\ FieldsValid(out)
  /\ out.intent # UNKNOWN => out.unrecognized_intent = None

-----------------------------------------------------------------------------
(* The before-validator leaves a valid output alone: an intent of the enum *)
(* has no unrecognized_intent to lose, and "unknown" keeps the one it has  *)
(* (schema.py:94-98).                                                      *)
LEMMA ValidIsMapped ==
  ASSUME NEW out, Validates(out)
  PROVE  map_unrecognized_intent(out) = out
<1>1. /\ out.intent \in IntentValues
      /\ out.intent # NotAString
      /\ out.intent \notin BlankText
      /\ Normalized[out.intent] = out.intent
  BY TextAssumption, NormalizedAssumption DEF Validates, FieldsValid
<1>2. [out EXCEPT !.intent = out.intent,
                  !.unrecognized_intent =
                    IF out.intent = UNKNOWN THEN @ ELSE None] = out
  BY DEF Validates, Json
<1> QED
  BY <1>1, <1>2 DEF map_unrecognized_intent

(* Validating a valid output gives it back.                                *)
LEMMA ValidIsValidated ==
  ASSUME NEW out, Validates(out)
  PROVE  model_validate(out) = out
  BY ValidIsMapped DEF model_validate, Validates

(* The mapping of an answer that is accepted, by the kind of its intent.   *)
LEMMA MappedIntent ==
  ASSUME NEW data \in Json, FieldsValid(map_unrecognized_intent(data))
  PROVE  LET mapped == map_unrecognized_intent(data)
         IN  /\ data.intent \in Text \ BlankText
             /\ mapped \in Json
             /\ \A f \in {"urgency", "confidence", "needs_human", "stays"} :
                  mapped[f] = data[f]
             /\ Normalized[data.intent] \in IntentValues =>
                  mapped.intent = Normalized[data.intent]
             /\ Normalized[data.intent] \notin IntentValues =>
                  /\ mapped.intent = UNKNOWN
                  /\ mapped.unrecognized_intent = data.intent
             /\ mapped.intent # UNKNOWN => mapped.unrecognized_intent = None
<1>1. data.intent \in Text \ BlankText
  BY TextAssumption DEF map_unrecognized_intent, FieldsValid, Json
<1>2. CASE Normalized[data.intent] \in IntentValues
  <2> DEFINE i == Normalized[data.intent]
             u == IF i = UNKNOWN THEN data.unrecognized_intent ELSE None
  <2>1. map_unrecognized_intent(data) =
          [data EXCEPT !.intent = i, !.unrecognized_intent = u]
    BY <1>1, <1>2, TextAssumption DEF map_unrecognized_intent, Json
  <2>2. i \in Text /\ i \in IntentValues /\ u \in Text \cup {None, NotAString}
    BY <1>2, TextAssumption DEF Json
  <2>3. i # UNKNOWN => u = None
    OBVIOUS
  <2> HIDE DEF i, u
  <2> QED
    BY <1>1, <1>2, <2>1, <2>2, <2>3 DEF Json, i
<1>3. CASE Normalized[data.intent] \notin IntentValues
  <2>1. map_unrecognized_intent(data) =
          [data EXCEPT !.intent = UNKNOWN, !.unrecognized_intent = data.intent]
    BY <1>1, <1>3, TextAssumption DEF map_unrecognized_intent, Json
  <2> QED
    BY <1>1, <1>3, <2>1, TextAssumption DEF Json
<1> QED
  BY <1>2, <1>3

(* parse_output either refuses an answer or returns a valid output, which  *)
(* differs from the body at most in the two intent fields.                 *)
LEMMA ParsedOutput ==
  ASSUME NEW r \in RawAnswers, parse_output(r) # ValidationError
  PROVE  LET out == parse_output(r)
         IN  /\ Validates(out)
             /\ r.body \in Json
             /\ out = map_unrecognized_intent(r.body)
             /\ FieldsValid(map_unrecognized_intent(r.body))
<1>1. r \in [fences : Nat, complete : BOOLEAN, body : Json]
  BY RawAnswersAssumption
<1>2. strip_code_fence(r).body = r.body
  BY <1>1 DEF strip_code_fence
<1>3. /\ parse_output(r) = map_unrecognized_intent(r.body)
      /\ FieldsValid(map_unrecognized_intent(r.body))
  BY <1>2 DEF parse_output, model_validate
<1> QED
  BY <1>1, <1>3, MappedIntent DEF Validates

(* The guardrails change no field but needs_human.                         *)
LEMMA GuardedIsValid ==
  ASSUME NEW out, Validates(out), NEW m
  PROVE  LET guarded == apply_guardrails(out, m)
         IN  /\ Validates(guarded)
             /\ guarded.intent = out.intent
             /\ guarded.unrecognized_intent = out.unrecognized_intent
             /\ guarded.confidence = out.confidence
             /\ guarded.needs_human = (guardrail_reasons(out, m) # {})
<1> DEFINE h == guardrail_reasons(out, m) # {}
<1>1. apply_guardrails(out, m) = [out EXCEPT !.needs_human = h]
  BY DEF apply_guardrails
<1>2. h \in BOOLEAN
  OBVIOUS
<1> HIDE DEF h
<1>3. /\ apply_guardrails(out, m) \in Json
      /\ apply_guardrails(out, m).needs_human = h
      /\ \A f \in {"intent", "unrecognized_intent", "urgency", "confidence",
                   "stays"} : apply_guardrails(out, m)[f] = out[f]
  BY <1>1, <1>2 DEF Validates, Json
<1>4. FieldsValid(apply_guardrails(out, m))
  BY <1>2, <1>3 DEF Validates, FieldsValid
<1> QED
  BY <1>3, <1>4 DEF Validates, h

(* The instants of utc_now are those a BSON datetime keeps.                *)
LEMMA ClockIsExact ==
  ASSUME NEW t \in Instants
  PROVE  utc_now(t) \in Nat /\ bson_datetime(utc_now(t)) = utc_now(t)
<1> DEFINE q == t \div MicrosPerMilli
           M == MicrosPerMilli
<1>1. t \in Nat /\ M \in Nat /\ M > 0
  BY ClockAssumption
<1>2. t = q * M + (t % M) /\ q \in Nat
  BY <1>1
<1>3. utc_now(t) = q * M
  BY <1>1, <1>2 DEF utc_now
<1>4. (q * M) \div M = q
  BY <1>1, <1>2
<1> QED
  BY <1>1, <1>2, <1>3, <1>4 DEF bson_datetime
-----------------------------------------------------------------------------
(***************************************************************************)
(* The inductive invariant: at each stage, what the output, the stored     *)
(* document and the view are, in terms of the raw answer.                  *)
(***************************************************************************)
OutputAtStage ==
  LET parsed == parse_output(raw)
  IN  /\ stage = "refused" => parsed = ValidationError
      /\ Accepted => parsed # ValidationError
      /\ stage = "parsed" => output = parsed
      /\ Guarded => output = apply_guardrails(parsed, message)

IInv ==
  /\ stage \in {"received", "refused", "parsed", "guarded", "stored",
                "answered", "loaded", "served"}
  /\ raw \in RawAnswers
  /\ message \in Messages
  /\ created_at \in Nat /\ bson_datetime(created_at) = created_at
  /\ OutputAtStage
  /\ stage \in {"stored", "answered", "loaded", "served"} =>
       stored = Record(output, created_at)
  /\ answer = IF stage \in {"answered", "loaded", "served"}
                THEN Rendered(Record(output, created_at)) ELSE None
  /\ stage = "loaded" => view = Record(output, created_at)
  /\ stage = "served" => view = answer

(* From the first guardrail on, the output is valid, with the confidence   *)
(* of the raw answer.                                                      *)
LEMMA OutputIsValid ==
  ASSUME IInv, Accepted
  PROVE  Validates(output) /\ output.confidence = raw.body.confidence
<1> DEFINE parsed == parse_output(raw)
<1>1. parsed # ValidationError
  BY DEF IInv, OutputAtStage
<1>2. /\ Validates(parsed)
      /\ parsed.confidence = raw.body.confidence
  BY <1>1, ParsedOutput, MappedIntent DEF IInv
<1> HIDE DEF parsed
<1>3. /\ Validates(apply_guardrails(parsed, message))
      /\ apply_guardrails(parsed, message).confidence = parsed.confidence
  BY <1>2, GuardedIsValid
<1>4. output \in {parsed, apply_guardrails(parsed, message)}
  BY DEF IInv, OutputAtStage, Guarded, Accepted, parsed
<1> QED
  BY <1>2, <1>3, <1>4

(* A record with a valid output is validated into itself.                  *)
LEMMA RecordIsValidated ==
  ASSUME NEW out, Validates(out), NEW t
  PROVE  /\ Validated(Record(out, t)) = Record(out, t)
         /\ model_validate(out) # ValidationError
<1>1. model_validate(out) = out /\ out # ValidationError
  BY ValidIsValidated, ValidationErrorAssumption DEF Validates
<1> QED
  BY <1>1 DEF Validated, Record

LEMMA InitIInv == Init => IInv
  BY ClockIsExact DEF Init, IInv, OutputAtStage, Accepted, Guarded

LEMMA NextIInv == IInv /\ [Next]_vars => IInv'
<1> SUFFICES ASSUME IInv, [Next]_vars PROVE IInv'
  OBVIOUS
<1> USE DEF OutputAtStage, Accepted, Guarded
<1>1. CASE UNCHANGED vars
  BY <1>1 DEF vars, IInv, Rendered
<1>2. CASE Parse
  BY <1>2 DEF Parse, IInv, Rendered
<1>3. CASE Guard
  BY <1>3 DEF Guard, IInv, Rendered
<1>4. CASE Save
  <2>1. Document(Record(output, created_at)) = Record(output, created_at)
    BY DEF Document, Record, IInv
  <2> QED
    BY <1>4, <2>1 DEF Save, IInv, Rendered
<1>5. CASE Answer
  BY <1>5 DEF Answer, IInv, Rendered
<1>6. CASE Load
  <2>1. Validates(output) /\ stored = Record(output, created_at)
    BY <1>6, OutputIsValid DEF Load, IInv
  <2>2. Loaded(stored) = Record(output, created_at)
    BY <2>1, RecordIsValidated DEF Loaded
  <2>3. Record(output, created_at) # ValidationError
    BY <2>1, RecordAssumption DEF Validates, IInv, Record
  <2> QED
    BY <1>6, <2>1, <2>2, <2>3 DEF Load, IInv, Rendered
<1>7. CASE Serve
  <2>1. Validates(output) /\ view = Record(output, created_at)
    BY <1>7, OutputIsValid DEF Serve, IInv
  <2>2. Validated(view) = Record(output, created_at)
    BY <2>1, RecordIsValidated
  <2>3. Record(output, created_at) # ValidationError
    BY <2>1, RecordAssumption DEF Validates, IInv, Record
  <2> QED
    BY <1>7, <2>1, <2>2, <2>3 DEF Serve, IInv, Rendered
<1> QED
  BY <1>1, <1>2, <1>3, <1>4, <1>5, <1>6, <1>7 DEF Next

(* The invariant holds in every reachable state.                           *)
THEOREM Invariance == Spec => []IInv
  BY InitIInv, NextIInv, PTL DEF Spec

-----------------------------------------------------------------------------
(* GET returns what POST answered, whatever the backend: neither BSON's    *)
(* datetime nor validating the record again, once or twice, alters it.     *)
THEOREM ReadBack == Spec => []ReadBackIsWhatWasAnswered
<1>1. IInv => ReadBackIsWhatWasAnswered
  <2> SUFFICES ASSUME IInv PROVE ReadBackIsWhatWasAnswered
    OBVIOUS
  <2>1. ASSUME answer # None
        PROVE  answer = IF raw.body.confidence = NotANumber
                          THEN ServerError ELSE Record(output, created_at)
    <3>1. /\ stage \in {"answered", "loaded", "served"}
          /\ answer = Rendered(Record(output, created_at))
      BY <2>1 DEF IInv
    <3>2. output.confidence = raw.body.confidence
      BY <3>1, OutputIsValid DEF Accepted
    <3> QED
      BY <3>1, <3>2 DEF Rendered, Record
  <2> QED
    BY <2>1 DEF IInv, ReadBackIsWhatWasAnswered
<1> QED
  BY <1>1, Invariance, PTL

(* The guardrails leave to automation what has nothing that asks for a     *)
(* person, and nothing else, in the terms of the raw answer                *)
(* (guardrails.py:24-25).                                                  *)
THEOREM AutomationIsExact == Spec => []AutomatedExactlyIfClear
<1>1. IInv => AutomatedExactlyIfClear
  <2> SUFFICES ASSUME IInv, Guarded
               PROVE  ~output.needs_human <=>
                        /\ ~raw.body.needs_human
                        /\ Normalized[raw.body.intent] \in IntentValues \ {UNKNOWN}
                        /\ \/ raw.body.confidence = NotANumber
                           \/ raw.body.confidence >= ConfidenceThreshold
                        /\ raw.body.urgency # "high"
                        /\ ~looks_like_prompt_injection(message)
    BY DEF AutomatedExactlyIfClear
  <2> DEFINE parsed == parse_output(raw)
  <2>1. /\ parsed # ValidationError
        /\ output = apply_guardrails(parsed, message)
    BY DEF IInv, OutputAtStage, Guarded
  <2>2. /\ Validates(parsed)
        /\ raw.body \in Json
        /\ parsed = map_unrecognized_intent(raw.body)
        /\ FieldsValid(map_unrecognized_intent(raw.body))
    BY <2>1, ParsedOutput DEF IInv
  <2> HIDE DEF parsed
  <2>3. output.needs_human = (guardrail_reasons(parsed, message) # {})
    BY <2>1, <2>2, GuardedIsValid
  <2>4. guardrail_reasons(parsed, message) = {} <=>
          /\ ~parsed.needs_human
          /\ parsed.intent # UNKNOWN
          /\ ~low_confidence(parsed)
          /\ parsed.urgency # "high"
          /\ ~looks_like_prompt_injection(message)
    BY DEF guardrail_reasons, Reason
  <2>5. /\ parsed.needs_human = raw.body.needs_human
        /\ parsed.confidence = raw.body.confidence
        /\ parsed.urgency = raw.body.urgency
        /\ Normalized[raw.body.intent] \notin IntentValues =>
             parsed.intent = UNKNOWN
        /\ Normalized[raw.body.intent] \in IntentValues =>
             parsed.intent = Normalized[raw.body.intent]
    BY <2>2, MappedIntent
  <2>6. ~low_confidence(parsed) <=>
          \/ raw.body.confidence = NotANumber
          \/ raw.body.confidence >= ConfidenceThreshold
    <3>1. raw.body.confidence \in Int \cup {NotANumber}
      BY <2>2 DEF Json
    <3> QED
      BY <2>5, <3>1, ThresholdAssumption DEF low_confidence
  <2> QED
    BY <2>3, <2>4, <2>5, <2>6
<1> QED
  BY <1>1, Invariance, PTL

(* The body of an answer whose one fault is its intent: the before-        *)
(* validator makes it a valid one.                                         *)
LEMMA ForeignIntentIsMapped ==
  ASSUME NEW data \in Json,
         data.intent \in Text \ BlankText,
         Normalized[data.intent] \notin IntentValues,
         FieldsValid([data EXCEPT !.intent = UNKNOWN, !.unrecognized_intent = None])
  PROVE  model_validate(data) # ValidationError
<1> DEFINE mapped == [data EXCEPT !.intent = UNKNOWN,
                                  !.unrecognized_intent = data.intent]
<1>1. map_unrecognized_intent(data) = mapped
  BY TextAssumption DEF map_unrecognized_intent
<1>2. /\ mapped \in Json
      /\ mapped.intent = UNKNOWN
      /\ mapped.unrecognized_intent = data.intent
      /\ \A f \in {"urgency", "confidence", "needs_human", "stays"} :
           /\ mapped[f] = data[f]
           /\ [data EXCEPT !.intent = UNKNOWN,
                           !.unrecognized_intent = None][f] = data[f]
  BY TextAssumption DEF Json
<1> HIDE DEF mapped
<1>3. FieldsValid(mapped)
  BY <1>2, TextAssumption DEF FieldsValid
<1> QED
  BY <1>1, <1>2, <1>3, ValidationErrorAssumption DEF model_validate

(* An intent outside the enum is kept to the letter and goes to a person   *)
(* (schema.py:99), and is no reason to ask again (schema.py:83).           *)
THEOREM UnroutableIntentSurvives == Spec => []UnroutableIntentIsKept
<1>1. IInv => UnroutableIntentIsKept
  <2> SUFFICES ASSUME IInv, raw.body.intent \in Text \ BlankText,
                      Normalized[raw.body.intent] \notin IntentValues
               PROVE  UnroutableIntentIsKept
    BY DEF UnroutableIntentIsKept
  <2> DEFINE parsed == parse_output(raw)
  <2>1. ASSUME Guarded
        PROVE  /\ output.intent = UNKNOWN
               /\ output.unrecognized_intent = raw.body.intent
               /\ output.needs_human
    <3>1. /\ parsed # ValidationError
          /\ output = apply_guardrails(parsed, message)
      BY <2>1 DEF IInv, OutputAtStage, Guarded
    <3>2. /\ Validates(parsed)
          /\ raw.body \in Json
          /\ parsed = map_unrecognized_intent(raw.body)
          /\ FieldsValid(map_unrecognized_intent(raw.body))
      BY <3>1, ParsedOutput DEF IInv
    <3> HIDE DEF parsed
    <3>3. parsed.intent = UNKNOWN /\ parsed.unrecognized_intent = raw.body.intent
      BY <3>2, MappedIntent
    <3>4. guardrail_reasons(parsed, message) # {}
      BY <3>3 DEF guardrail_reasons, Reason
    <3> QED
      BY <3>1, <3>2, <3>3, <3>4, GuardedIsValid
  <2>2. ASSUME raw.fences <= 1, raw.complete,
               FieldsValid([raw.body EXCEPT !.intent = UNKNOWN,
                                            !.unrecognized_intent = None])
        PROVE  stage # "refused"
    <3>1. raw \in [fences : Nat, complete : BOOLEAN, body : Json]
      BY RawAnswersAssumption DEF IInv
    <3>2. /\ strip_code_fence(raw).fences = 0
          /\ strip_code_fence(raw).complete
          /\ strip_code_fence(raw).body = raw.body
      BY <2>2, <3>1 DEF strip_code_fence
    <3>3. model_validate(raw.body) # ValidationError
      BY <2>2, <3>1, ForeignIntentIsMapped
    <3>4. parsed # ValidationError
      BY <3>2, <3>3 DEF parse_output
    <3> QED
      BY <3>4 DEF IInv, OutputAtStage
  <2> QED
    BY <2>1, <2>2 DEF UnroutableIntentIsKept
<1> QED
  BY <1>1, Invariance, PTL

(* The types of the state, for every value of the constants.               *)
THEOREM TypeCorrect == Spec => []TypeOK
<1>1. IInv => TypeOK
  <2> SUFFICES ASSUME IInv PROVE TypeOK
    OBVIOUS
  <2>1. ASSUME Accepted PROVE HasOutputType(output)
    <3>1. Validates(output)
      BY <2>1, OutputIsValid
    <3> QED
      BY <3>1 DEF Validates, FieldsValid, HasOutputType, OutputType
  <2> QED
    BY <2>1 DEF IInv, TypeOK
<1> QED
  BY <1>1, Invariance, PTL
=============================================================================
