----------------------------- MODULE RequestLog -----------------------------
(***************************************************************************)
(* ApiRequestLogMiddleware (api_request_log_middleware.py) around one HTTP *)
(* call: the bodies are copied as they stream through, chunk by chunk and  *)
(* up to a cap, before they are passed on to a client that may be gone;    *)
(* when the application is through, whether it returned or raised, one     *)
(* entry is made of what was copied.                                       *)
(*                                                                         *)
(* A text is written with one glyph per byte: a character of two bytes is  *)
(* Character followed by Joined, which stands for no text at all.  That    *)
(* keeps the n-th glyph of a text at the n-th byte of its body.            *)
(***************************************************************************)
EXTENDS Integers, Sequences

CONSTANTS
  Bytes,         \* what bodies are sequences of
  Lead, Cont,    \* the two bytes of a character that has two
  Chunks,        \* the bodies of single ASGI messages
  MaxBodyBytes,  \* MAX_BODY_BYTES
  MaxStreamed,   \* bound on the length of a body, for model checking
  JsonTexts,     \* the texts that are JSON documents
  DeepTexts,     \* the texts whose nesting is too deep for json.loads
  ValidBodies,   \* the bodies of valid /classify-message requests
  Statuses,      \* the statuses the application answers with
  NotStarted,    \* the status before http.response.start
  None

ASSUME ChunksAssumption == Chunks \subseteq Seq(Bytes)
ASSUME CapAssumption == MaxBodyBytes \in Nat
ASSUME CharacterAssumption == Lead # Cont
ASSUME StatusAssumption == Statuses \subseteq Int /\ NotStarted \notin Int

VARIABLES
  stage,           \* "handling" in the application, "ending", and at last
                   \* "logged", or "raised" if making the entry raises
  json_type,       \* whether the request's content type says JSON
  received,        \* the request body the application has received
  request_body,    \* the copy of it
  response_start,  \* the copied status of the response that was started
  produced,        \* the response body the application has handed over
  response_body,   \* the copy of it
  connected,       \* whether the client still listens
  got_status,      \* the status it has got
  got_body,        \* the response body it has got
  entry            \* the ApiRequestLog, None before

request_vars == <<json_type, received, request_body>>
response_vars == <<response_start, produced, response_body>>
client_vars == <<connected, got_status, got_body>>
vars == <<stage, request_vars, response_vars, client_vars, entry>>

ServerError == 500
Character == "two-byte character"
Joined == ""
Replacement == "U+FFFD"
Glyphs == Bytes \cup {Character, Joined, Replacement}
LoggedBodies == [form : {"json", "text"}, text : Seq(Glyphs)]

ASSUME NoneAssumption == None \notin LoggedBodies

-----------------------------------------------------------------------------
(* Python's b[:n]; a negative n counts from the end.                       *)
Slice(b, n) ==
  LET least(x, y) == IF x <= y THEN x ELSE y
  IN  SubSeq(b, 1, IF n >= 0 THEN least(n, Len(b)) ELSE Len(b) + n)

(* Fault: the cap is applied to each chunk by itself.                      *)
Extended_perChunk(copy, chunk) == copy \o Slice(chunk, MaxBodyBytes)

(* Fault: what is copied is counted one byte short.                        *)
Extended_short(copy, chunk) == copy \o Slice(chunk, MaxBodyBytes - 1 - Len(copy))

(* copy.extend(chunk[: MAX_BODY_BYTES - len(copy)])                        *)
Extended(copy, chunk) == copy \o Slice(chunk, MaxBodyBytes - Len(copy))

(* Bytes i and i + 1 are a character.                                      *)
Paired(raw, i) == i \in 1..(Len(raw) - 1) /\ raw[i] = Lead /\ raw[i + 1] = Cont

(* Fault: raw.decode("utf-8", errors="ignore")                             *)
Text_ignoring(raw) ==
  [i \in 1..Len(raw) |->
     IF Paired(raw, i) THEN Character
     ELSE IF raw[i] \in {Lead, Cont} THEN Joined ELSE raw[i]]

(* raw.decode("utf-8", errors="replace"): half a character is replaced.    *)
Text(raw) ==
  [i \in 1..Len(raw) |->
     IF Paired(raw, i) THEN Character
     ELSE IF Paired(raw, i - 1) THEN Joined
     ELSE IF raw[i] \in {Lead, Cont} THEN Replacement ELSE raw[i]]

(* json.loads raises a RecursionError, which is no ValueError.             *)
Undecodable(raw, is_json) == is_json /\ Text(raw) \in DeepTexts

(* _decode_body: parsed if the type says JSON and the text is JSON, the    *)
(* text itself otherwise, nothing if there is none.                        *)
Decoded(raw, is_json) ==
  IF raw = << >> THEN None
  ELSE [form |-> IF is_json /\ Text(raw) \in JsonTexts THEN "json" ELSE "text",
        text |-> Text(raw)]

(* The service's own responses are all JSON.                               *)
response_is_json == response_start # NotStarted

Init ==
  /\ stage = "handling"
  /\ json_type \in BOOLEAN
  /\ received = << >> /\ request_body = << >>
  /\ response_start = NotStarted
  /\ produced = << >> /\ response_body = << >>
  /\ connected = TRUE
  /\ got_status = NotStarted
  /\ got_body = << >>
  /\ entry = None

(* receive_and_copy; the application need not read the body to its end,    *)
(* and a client that is gone sends no more of it.                          *)
Receive ==
  /\ stage = "handling"
  /\ connected
  /\ \E chunk \in Chunks :
       /\ Len(received) + Len(chunk) <= MaxStreamed
       /\ received' = received \o chunk
       /\ request_body' = Extended(request_body, chunk)
  /\ UNCHANGED <<stage, json_type, response_vars, client_vars, entry>>

(* The client closes its connection.                                       *)
ClientLeaves ==
  /\ connected
  /\ connected' = FALSE
  /\ UNCHANGED <<stage, request_vars, response_vars, got_status, got_body, entry>>

(* await send(message), after the copy was made: the message reaches the   *)
(* client, or, when that is gone, is dropped or ends the call by raising.  *)
Reaches == connected /\ UNCHANGED stage
IsLost == ~connected /\ stage' \in {"handling", "ending"}

(* send_and_copy of http.response.start                                    *)
StartResponse ==
  /\ stage = "handling"
  /\ response_start = NotStarted
  /\ response_start' \in Statuses
  /\ \/ Reaches /\ got_status' = response_start'
     \/ IsLost /\ UNCHANGED got_status
  /\ UNCHANGED <<request_vars, produced, response_body, connected, got_body, entry>>

(* send_and_copy of http.response.body                                     *)
SendBody ==
  /\ stage = "handling"
  /\ response_start # NotStarted
  /\ \E chunk \in Chunks :
       /\ Len(produced) + Len(chunk) <= MaxStreamed
       /\ produced' = produced \o chunk
       /\ response_body' = Extended(response_body, chunk)
       /\ \/ Reaches /\ got_body' = got_body \o chunk
          \/ IsLost /\ UNCHANGED got_body
  /\ UNCHANGED <<request_vars, response_start, connected, got_status, entry>>

(* The application returns, or raises at any point.                        *)
EndHandling ==
  /\ stage = "handling"
  /\ stage' = "ending"
  /\ UNCHANGED <<request_vars, response_vars, client_vars, entry>>

(* The finally clause: _decode_body raises, and no entry is made.          *)
EntryNotBuilt ==
  /\ stage = "ending"
  /\ \/ Undecodable(request_body, json_type)
     \/ Undecodable(response_body, response_is_json)
  /\ stage' = "raised"
  /\ UNCHANGED <<request_vars, response_vars, client_vars, entry>>

(* Fault: a call without a response is taken for a success.                *)
LogEntry_optimistic ==
  /\ stage = "ending"
  /\ ~Undecodable(request_body, json_type)
  /\ ~Undecodable(response_body, response_is_json)
  /\ entry' = [status_code |-> IF response_is_json THEN response_start ELSE 200,
               request_body |-> Decoded(request_body, json_type),
               response_body |-> Decoded(response_body, response_is_json)]
  /\ stage' = "logged"
  /\ UNCHANGED <<request_vars, response_vars, client_vars>>

(* The finally clause: the entry is made.                                  *)
LogEntry ==
  /\ stage = "ending"
  /\ ~Undecodable(request_body, json_type)
  /\ ~Undecodable(response_body, response_is_json)
  /\ entry' = [status_code |-> IF response_start = NotStarted THEN ServerError
                                                            ELSE response_start,
               request_body |-> Decoded(request_body, json_type),
               response_body |-> Decoded(response_body, response_is_json)]
  /\ stage' = "logged"
  /\ UNCHANGED <<request_vars, response_vars, client_vars>>

(* Outside the middleware, a call that ended without a response is given   *)
(* one: Starlette's ServerErrorMiddleware answers for an application that  *)
(* raised, uvicorn for one that returned.                                  *)
ServerAnswers ==
  /\ stage \in {"logged", "raised"}
  /\ connected
  /\ response_start = NotStarted
  /\ got_status = NotStarted
  /\ got_status' = ServerError
  /\ UNCHANGED <<stage, request_vars, response_vars, connected, got_body, entry>>

Next ==
  \/ Receive \/ StartResponse \/ SendBody \/ EndHandling
  \/ LogEntry \/ EntryNotBuilt
  \/ ClientLeaves \/ ServerAnswers

Spec == Init /\ [][Next]_vars

-----------------------------------------------------------------------------
BodyEntry == LoggedBodies \cup {None}

TypeOK ==
  /\ stage \in {"handling", "ending", "logged", "raised"}
  /\ json_type \in BOOLEAN
  /\ received \in Seq(Bytes)
  /\ request_body \in Seq(Bytes) /\ Len(request_body) <= MaxBodyBytes
  /\ response_start \in Statuses \cup {NotStarted}
  /\ produced \in Seq(Bytes)
  /\ response_body \in Seq(Bytes) /\ Len(response_body) <= MaxBodyBytes
  /\ connected \in BOOLEAN
  /\ got_status \in Statuses \cup {NotStarted, ServerError}
  /\ got_body \in Seq(Bytes)
  /\ entry \in [status_code : Statuses \cup {ServerError},
                request_body : BodyEntry, response_body : BodyEntry] \cup {None}

(* However a body is cut into chunks, the copy is the body up to the cap:  *)
(* the slice bound never goes negative and never drops a byte in between.  *)
CopiesArePrefixes ==
  /\ request_body = Slice(received, MaxBodyBytes)
  /\ response_body = Slice(produced, MaxBodyBytes)

(* The text an entry holds of a body.                                      *)
TextOf(logged) == IF logged = None THEN << >> ELSE logged.text

(* The entry never contradicts the client (db_clients/base.py:39).  It     *)
(* has the status the client gets, that of an answer the server gives only *)
(* after the entry was made among them, so no failed call reads as a       *)
(* success; and up to the cap it shows all the client got, but for a       *)
(* character at the end of that which may not have arrived as a whole.     *)
EntryAgreesWithTheClient ==
  entry # None =>
    /\ got_status # NotStarted => entry.status_code = got_status
    /\ \A i \in 1..(Len(got_body) - 1) :
         i < MaxBodyBytes => TextOf(entry.response_body)[i] = Text(got_body)[i]

(* A logged body reads as the whole body does, as far as the cap: glyph by *)
(* glyph, except that a character the cap cuts in two is replaced and so   *)
(* shows that something is missing.                                        *)
Reads(text, body) ==
  /\ Len(text) = Len(Slice(body, MaxBodyBytes))
  /\ \A i \in 1..Len(text) :
       \/ text[i] = Text(body)[i]
       \/ /\ i = MaxBodyBytes
          /\ Text(body)[i] = Character
          /\ text[i] = Replacement

(* Both bodies of the entry read as those that were exchanged              *)
(* (db_clients/base.py:51), in whatever chunks they came and also where a  *)
(* chunk or the cap divides a character.                                   *)
EntryReadsAsTheBodies ==
  entry # None =>
    /\ Reads(TextOf(entry.request_body), received)
    /\ Reads(TextOf(entry.response_body), produced)

(* api_request_log_middleware.py:15: "Guest messages are capped at 2,000   *)
(* characters, so real bodies stay far below this": a valid request is     *)
(* logged as the JSON it is (db_clients/base.py:51).                       *)
ValidBodiesAreLoggedAsJson ==
  entry # None /\ received \in ValidBodies /\ json_type =>
    entry.request_body = [form |-> "json", text |-> Text(received)]
=============================================================================
