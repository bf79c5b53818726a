------------------------- MODULE ConversationPrompt -------------------------
(***************************************************************************)
(* The other half of the message classifier agent: from a request to the   *)
(* prompts the LLM is asked with.  A request is validated (swagger_service *)
(* and schema.py), given its timestamp by MainProcessor.process, put into  *)
(* the template of prompt.py by MessageClassifierAgent.build_prompt, and   *)
(* asked once or, by the retry loop, several times; then process makes the *)
(* record of it.  Meanwhile the clock runs on.                             *)
(*                                                                         *)
(* A text keeps what a decision depends on: what it says, the white space  *)
(* around it, and how many angle brackets it has, of which the delimiters  *)
(* of the template are made.                                               *)
(***************************************************************************)
EXTENDS Integers, Sequences

CONSTANTS
  Requests,    \* [message, context]: the request bodies
  Words,       \* what texts can say
  Size,        \* Size[w]: in how many characters; a text can say nothing
  Windows,     \* values of MAX_CONTEXT_MESSAGES
  MaxLength,   \* of a text: 2000 characters
  MaxTurns,    \* of a conversation context: 50
  MaxAttempts, \* how often the retry loop asks
  Instants,    \* clock readings
  LocalTime,   \* LocalTime[t]: t on the wall clock of TIMEZONE, to the minute
  NoPrompt,
  NoRecord

Text == [words : Words, padding : Nat, brackets : Nat]
Turn == [role : {"guest", "agent"}, text : Text]
Body == [message : Text, context : Seq(Turn)]

ASSUME RequestsAssumption == Requests \subseteq Body
ASSUME SizeAssumption == Size \in [Words -> Nat]
ASSUME WindowsAssumption == Windows \subseteq Nat
ASSUME LimitsAssumption == MaxLength \in Nat /\ MaxTurns \in Nat
ASSUME ClockAssumption == Instants \subseteq Nat /\ DOMAIN LocalTime = Instants
ASSUME AttemptsAssumption == MaxAttempts \in Nat \ {0}

VARIABLES
  stage,                 \* "received", "refused", "accepted", "started",
                         \* "asking", "recorded"
  now,                   \* the clock of the worker
  request,               \* the body as it is after validation
  max_context_messages,  \* the setting of the worker
  created_at,            \* the time process has read, any before "started"
  prompt,                \* what run has built, NoPrompt before
  asked,                 \* the prompts the LLM has been asked with
  record                 \* the ClassificationRecord, NoRecord before

vars == <<stage, request, max_context_messages, now, created_at, prompt, asked,
          record>>

Length(text) == Size[text.words] + text.padding + text.brackets

-----------------------------------------------------------------------------
(* StringConstraints(strip_whitespace): before the lengths are looked at.  *)
Stripped(text) == [text EXCEPT !.padding = 0]

(* Fault: one turn too many is let in.                                     *)
Valid_oneMore(body) ==
  /\ Length(body.message) \in 1..MaxLength
  /\ Len(body.context) <= MaxTurns + 1
  /\ \A i \in DOMAIN body.context : Length(body.context[i].text) \in 1..MaxLength

(* ClassifyMessageInput: the message is stripped, the turns are not.       *)
Valid(body) ==
  /\ Length(body.message) \in 1..MaxLength
  /\ Len(body.context) <= MaxTurns
  /\ \A i \in DOMAIN body.context : Length(body.context[i].text) \in 1..MaxLength

(* Each bracket becomes an entity; nothing else changes.                   *)
escape_untrusted(text) == [text EXCEPT !.brackets = 0]

(* Python's s[i:], where a negative i counts from the end.                 *)
SliceFrom(s, i) ==
  LET from == CASE i >= 0                   -> i
                [] i < 0 /\ Len(s) + i >= 0 -> Len(s) + i
                [] OTHER                    -> 0
  IN  SubSeq(s, from + 1, Len(s))

EscapedTurn(turn) == [turn EXCEPT !.text = escape_untrusted(@)]

(* Fault: no guard before the slice, whose bound may be -0.                *)
format_conversation_context_unguarded(context) ==
  LET recent_turns == SliceFrom(context, -max_context_messages)
  IN  [i \in DOMAIN recent_turns |-> EscapedTurn(recent_turns[i])]

(* Fault: only the guest's latest message is taken for untrusted.          *)
format_conversation_context_trusting(context) ==
  IF max_context_messages <= 0 \/ context = << >> THEN << >>
  ELSE SliceFrom(context, -max_context_messages)

(* The most recent turns, one after the other; "(none)" is the empty       *)
(* sequence.                                                               *)
format_conversation_context(context) ==
  LET recent_turns == SliceFrom(context, -max_context_messages)
  IN  IF max_context_messages <= 0 \/ context = << >> THEN << >>
      ELSE [i \in DOMAIN recent_turns |-> EscapedTurn(recent_turns[i])]

build_prompt(body, reference_time) ==
  [reference |-> reference_time,
   context   |-> format_conversation_context(body.context),
   message   |-> escape_untrusted(body.message)]

-----------------------------------------------------------------------------
Init ==
  /\ stage = "received"
  /\ request \in Requests
  /\ max_context_messages \in Windows
  /\ now \in Instants
  /\ created_at = now
  /\ prompt = NoPrompt
  /\ asked = << >>
  /\ record = NoRecord

(* FastAPI validates the body, and answers 422 if it is not valid.         *)
Validate ==
  /\ stage = "received"
  /\ request' = [request EXCEPT !.message = Stripped(@)]
  /\ stage' = IF Valid(request') THEN "accepted" ELSE "refused"
  /\ UNCHANGED <<max_context_messages, now, created_at, prompt, asked, record>>

(* process reads the clock, once.                                          *)
Start ==
  /\ stage = "accepted"
  /\ created_at' = now
  /\ stage' = "started"
  /\ UNCHANGED <<request, max_context_messages, now, prompt, asked, record>>

(* Fault: run reads a clock of its own.                                    *)
Ask_ownClock ==
  /\ stage = "started"
  /\ prompt' = build_prompt(request, LocalTime[now])
  /\ asked' = <<prompt'>>
  /\ stage' = "asking"
  /\ UNCHANGED <<request, max_context_messages, now, created_at, record>>

(* run is given created_at.astimezone(self.timezone); it builds the prompt *)
(* before the retry loop asks with it.                                     *)
Ask ==
  /\ stage = "started"
  /\ prompt' = build_prompt(request, LocalTime[created_at])
  /\ asked' = <<prompt'>>
  /\ stage' = "asking"
  /\ UNCHANGED <<request, max_context_messages, now, created_at, record>>

(* An attempt has failed, and the loop asks again.                         *)
AskAgain ==
  /\ stage = "asking"
  /\ Len(asked) < MaxAttempts
  /\ asked' = Append(asked, prompt)
  /\ UNCHANGED <<stage, request, max_context_messages, now, created_at, prompt,
                 record>>

(* A success, or after the last attempt an LLMFailure: process makes the   *)
(* record of what it was given and of the time it has read.  (Another      *)
(* exception leaves none: see ClassifyService.)                            *)
Settle ==
  /\ stage = "asking"
  /\ record' = [message |-> request.message, context |-> request.context,
                created_at |-> created_at]
  /\ stage' = "recorded"
  /\ UNCHANGED <<request, max_context_messages, now, created_at, prompt, asked>>

(* The clock runs on, at every await and between any two lines.            *)
Tick ==
  /\ \E t \in Instants : t > now /\ now' = t
  /\ UNCHANGED <<stage, request, max_context_messages, created_at, prompt, asked,
                 record>>

Next == Validate \/ Start \/ Ask \/ AskAgain \/ Settle \/ Tick

Spec == Init /\ [][Next]_vars

-----------------------------------------------------------------------------
TypeOK ==
  /\ stage \in {"received", "refused", "accepted", "started", "asking",
                "recorded"}
  /\ request \in Body
  /\ max_context_messages \in Nat
  /\ now \in Instants /\ created_at \in Instants
  /\ stage \in {"asking", "recorded"} => prompt.context \in Seq(Turn)
  /\ stage \notin {"received", "refused"} => Len(request.context) <= MaxTurns
  /\ Len(asked) <= MaxAttempts

(* agent.py:51, config/__init__.py:35: the prompt shows the most recent    *)
(* turns, oldest first: as many as the window allows, none if it is zero,  *)
(* each as who said what, and the last one right before the message.       *)
ContextIsTheMostRecent ==
  prompt # NoPrompt =>
    LET shown == prompt.context
        turns == request.context
    IN  /\ Len(shown) <= max_context_messages
        /\ Len(shown) < max_context_messages => Len(shown) = Len(turns)
        /\ \A i \in 1..Len(shown) :
             LET original == turns[Len(turns) - Len(shown) + i]
             IN  /\ shown[i].role = original.role
                 /\ shown[i].text.words = original.text.words

(* docs/part_a/part_a_prompt_engineering.md:18: no text of the request     *)
(* brings an angle bracket into the prompt, so that the delimiters of the  *)
(* message are the template's.                                             *)
OnlyTheTemplateDelimits ==
  prompt # NoPrompt =>
    /\ prompt.message.brackets = 0
    /\ \A i \in 1..Len(prompt.context) : prompt.context[i].text.brackets = 0

(* agent.py:65, main_processor.py:62: a record tells what was asked.  The  *)
(* "now" that relative dates were resolved against is the timestamp of the *)
(* record, on the wall clock of the time zone, in each attempt, however    *)
(* long they took; and message and context are the record's.               *)
RecordTellsWhatWasAsked ==
  record # NoRecord =>
    /\ asked # << >>
    /\ \A i \in 1..Len(asked) :
         asked[i] = build_prompt(record, LocalTime[record.created_at])
=============================================================================
