---------------------- MODULE ConversationPromptProofs ----------------------
(***************************************************************************)
(* Proofs about ConversationPrompt, for every request, window, limit and   *)
(* time zone.                                                              *)
(***************************************************************************)
EXTENDS ConversationPrompt, SequenceTheorems, TLAPS

ThePrompt == build_prompt(request, LocalTime[created_at])

(* From the first attempt on, the prompt is the one build_prompt makes of  *)
(* the request and the time process has read, in every attempt so far.     *)
IInv ==
  /\ TypeOK
  /\ asked \in Seq({ThePrompt})
  /\ IF stage \in {"asking", "recorded"}
       THEN prompt = ThePrompt /\ asked # << >>
       ELSE prompt = NoPrompt /\ asked = << >>
  /\ record = IF stage = "recorded"
                THEN [message |-> request.message, context |-> request.context,
                      created_at |-> created_at]
                ELSE NoRecord

-----------------------------------------------------------------------------
LEMMA EscapedType ==
  ASSUME NEW text \in Text
  PROVE  /\ escape_untrusted(text) \in Text
         /\ escape_untrusted(text).words = text.words
         /\ escape_untrusted(text).brackets = 0
  BY DEF escape_untrusted, Text

(* s[-n:] of a list: its last n elements, or all of them.                  *)
LEMMA LastOnes ==
  ASSUME NEW s \in Seq(Turn), NEW n \in Nat, n > 0
  PROVE  LET last == SliceFrom(s, -n)
             start == Len(s) - Len(last)
         IN  /\ last \in Seq(Turn)
             /\ Len(last) = IF n <= Len(s) THEN n ELSE Len(s)
             /\ \A i \in 1..Len(last) :
                  last[i] = s[start + i] /\ start + i \in 1..Len(s)
<1> DEFINE m == Len(s)
           from == IF m - n >= 0 THEN m - n ELSE 0
           last == SubSeq(s, from + 1, m)
<1>1. m \in Nat
  BY LenProperties
<1>2. SliceFrom(s, -n) = last
  <2>1. -n \in Int /\ ~(-n >= 0) /\ -n < 0 /\ m + (-n) = m - n
    BY <1>1
  <2> QED
    BY <1>1, <2>1 DEF SliceFrom
<1>3. \A i \in 1..m : s[i] \in Turn
  BY LenProperties
<1> HIDE DEF m
<1>4. from \in Nat /\ from <= m
  BY <1>1
<1>5. m - from = IF n <= m THEN n ELSE m
  BY <1>1
<1> HIDE DEF from
<1>6. from + 1 \in Int /\ \A i \in (from + 1)..m : s[i] \in Turn
  BY <1>1, <1>3, <1>4
<1>7. /\ last \in Seq(Turn)
      /\ Len(last) = IF from + 1 <= m THEN m - (from + 1) + 1 ELSE 0
      /\ \A i \in 1..(m - (from + 1) + 1) : last[i] = s[(from + 1) + i - 1]
  BY <1>1, <1>6, SubSeqProperties
<1> HIDE DEF last
<1>8. Len(last) = m - from
  BY <1>1, <1>4, <1>7
<1>9. ASSUME NEW i \in 1..Len(last)
      PROVE  last[i] = s[m - Len(last) + i] /\ m - Len(last) + i \in 1..m
  <2>1. i \in 1..(m - (from + 1) + 1) /\ (from + 1) + i - 1 = m - Len(last) + i
    BY <1>1, <1>4, <1>8
  <2>2. last[i] = s[(from + 1) + i - 1]
    BY <2>1, <1>7
  <2> QED
    BY <1>1, <1>4, <1>8, <2>1, <2>2
<1> QED
  BY <1>2, <1>5, <1>7, <1>8, <1>9 DEF m

(* What format_conversation_context returns.                               *)
LEMMA Formatted ==
  ASSUME NEW context \in Seq(Turn), max_context_messages \in Nat
  PROVE  LET shown == format_conversation_context(context)
             start == Len(context) - Len(shown)
         IN  /\ shown \in Seq(Turn)
             /\ Len(shown) <= max_context_messages
             /\ Len(shown) < max_context_messages => Len(shown) = Len(context)
             /\ \A i \in 1..Len(shown) :
                  /\ shown[i].role = context[start + i].role
                  /\ shown[i].text.words = context[start + i].text.words
                  /\ shown[i].text.brackets = 0
<1> DEFINE n == max_context_messages
           last == SliceFrom(context, -n)
           shown == format_conversation_context(context)
<1>1. CASE n <= 0 \/ context = << >>
  <2>1. shown = << >>
    BY <1>1 DEF format_conversation_context
  <2>2. n = 0 \/ Len(context) = 0
    BY <1>1
  <2> QED
    BY <2>1, <2>2
<1>2. CASE ~(n <= 0 \/ context = << >>)
  <2>1. /\ last \in Seq(Turn)
        /\ Len(last) = IF n <= Len(context) THEN n ELSE Len(context)
        /\ \A i \in 1..Len(last) :
             /\ last[i] = context[Len(context) - Len(last) + i]
             /\ Len(context) - Len(last) + i \in 1..Len(context)
    <3>1. n \in Nat /\ n > 0
      BY <1>2
    <3> HIDE DEF n
    <3> QED
      BY <3>1, LastOnes
  <2>2. shown = [i \in DOMAIN last |-> EscapedTurn(last[i])]
    BY <1>2 DEF format_conversation_context
  <2> HIDE DEF last, shown
  <2>3. ASSUME NEW i \in 1..Len(last)
        PROVE  /\ EscapedTurn(last[i]) \in Turn
               /\ EscapedTurn(last[i]).role = last[i].role
               /\ EscapedTurn(last[i]).text.words = last[i].text.words
               /\ EscapedTurn(last[i]).text.brackets = 0
    <3>1. last[i] \in Turn
      BY <2>1
    <3> QED
      BY <3>1, EscapedType DEF EscapedTurn, Turn
  <2>4. DOMAIN last = 1..Len(last) /\ Len(last) \in Nat
    BY <2>1
  <2>5. shown \in [1..Len(last) -> Turn]
    BY <2>2, <2>3, <2>4
  <2>6. shown \in Seq(Turn) /\ Len(shown) = Len(last)
    BY <2>4, <2>5, SeqDef
  <2>7. \A i \in 1..Len(shown) : shown[i] = EscapedTurn(last[i])
    BY <2>2, <2>4, <2>6
  <2>8. Len(context) \in Nat /\ Len(last) \in Nat
    BY <2>4
  <2>9. Len(shown) <= n /\ (Len(shown) < n => Len(shown) = Len(context))
    BY <2>1, <2>6, <2>8
  <2>10. ASSUME NEW i \in 1..Len(shown)
         PROVE  LET original == context[Len(context) - Len(shown) + i]
                IN  /\ shown[i].role = original.role
                    /\ shown[i].text.words = original.text.words
                    /\ shown[i].text.brackets = 0
    BY <2>1, <2>3, <2>6, <2>7
  <2> QED
    BY <2>6, <2>9, <2>10 DEF shown
<1> QED
  BY <1>1, <1>2

-----------------------------------------------------------------------------
LEMMA InitIInv == Init => IInv
<1> SUFFICES ASSUME Init PROVE IInv
  OBVIOUS
<1>1. asked = << >> /\ Len(asked) <= MaxAttempts
  BY AttemptsAssumption DEF Init
<1> QED
  BY <1>1, RequestsAssumption, WindowsAssumption DEF Init, IInv, TypeOK

LEMMA ValidateStep == ASSUME IInv, Validate PROVE IInv'
<1> USE DEF IInv, TypeOK, Validate
<1>1. request.message \in Text /\ request.context \in Seq(Turn)
  BY DEF Body
<1>2. Stripped(request.message) \in Text
  BY <1>1 DEF Stripped, Text
<1>3. request' \in Body
  BY <1>2 DEF Body
<1>4. stage' = "accepted" => Len(request'.context) <= MaxTurns
  BY DEF Valid
<1>5. asked' = << >> /\ asked' \in Seq({ThePrompt'})
  OBVIOUS
<1> QED
  BY <1>3, <1>4, <1>5

LEMMA StartStep == ASSUME IInv, Start PROVE IInv'
<1>1. asked' = << >> /\ asked' \in Seq({ThePrompt'})
  BY DEF IInv, Start
<1> QED
  BY <1>1 DEF IInv, TypeOK, Start

LEMMA AskStep == ASSUME IInv, Ask PROVE IInv'
<1> USE DEF IInv, TypeOK, Ask
<1>1. request.context \in Seq(Turn)
  BY DEF Body
<1>2. format_conversation_context(request.context) \in Seq(Turn)
  BY <1>1, Formatted
<1>3. prompt'.context = format_conversation_context(request.context)
  BY DEF build_prompt
<1>4. prompt' = ThePrompt' /\ ThePrompt' = ThePrompt
  BY DEF ThePrompt, build_prompt, format_conversation_context
<1>5. asked' = <<ThePrompt'>>
  BY <1>4
<1>6. asked' \in Seq({ThePrompt'}) /\ asked' # << >> /\ Len(asked') <= MaxAttempts
  BY <1>5, AttemptsAssumption
<1> QED
  BY <1>2, <1>3, <1>4, <1>6

LEMMA AskAgainStep == ASSUME IInv, AskAgain PROVE IInv'
<1> USE DEF IInv, AskAgain
<1>1. ThePrompt' = ThePrompt
  BY DEF ThePrompt, build_prompt, format_conversation_context
<1>2. prompt = ThePrompt /\ asked \in Seq({ThePrompt})
  OBVIOUS
<1>3. asked' = Append(asked, ThePrompt)
  BY <1>2
<1>4. asked' \in Seq({ThePrompt}) /\ Len(asked') = Len(asked) + 1
  BY <1>2, <1>3, AppendProperties
<1>5. asked' # << >> /\ Len(asked') <= MaxAttempts
  BY <1>2, <1>4, AttemptsAssumption
<1> QED
  BY <1>1, <1>4, <1>5 DEF TypeOK

LEMMA SettleStep == ASSUME IInv, Settle PROVE IInv'
<1>1. ThePrompt' = ThePrompt
  BY DEF Settle, ThePrompt, build_prompt, format_conversation_context
<1> QED
  BY <1>1 DEF IInv, TypeOK, Settle

LEMMA TickStep == ASSUME IInv, Tick PROVE IInv'
<1>1. ThePrompt' = ThePrompt
  BY DEF Tick, ThePrompt, build_prompt, format_conversation_context
<1> QED
  BY <1>1 DEF IInv, TypeOK, Tick

THEOREM Invariance == Spec => []IInv
<1>1. Init => IInv
  BY InitIInv
<1>2. IInv /\ [Next]_vars => IInv'
  <2> SUFFICES ASSUME IInv, [Next]_vars PROVE IInv'
    OBVIOUS
  <2>1. CASE Validate
    BY <2>1, ValidateStep
  <2>2. CASE Start
    BY <2>2, StartStep
  <2>3. CASE Ask
    BY <2>3, AskStep
  <2>4. CASE AskAgain
    BY <2>4, AskAgainStep
  <2>5. CASE Settle
    BY <2>5, SettleStep
  <2>6. CASE Tick
    BY <2>6, TickStep
  <2>7. CASE UNCHANGED vars
    <3>1. ThePrompt' = ThePrompt
      BY <2>7 DEF vars, ThePrompt, build_prompt, format_conversation_context
    <3> QED
      BY <2>7, <3>1 DEF vars, IInv, TypeOK
  <2> QED
    BY <2>1, <2>2, <2>3, <2>4, <2>5, <2>6, <2>7 DEF Next
<1> QED
  BY <1>1, <1>2, PTL DEF Spec

-----------------------------------------------------------------------------
(* Every request, window and timestamp keeps its type, and a conversation  *)
(* that reaches the agent is within the limit of the API.                  *)
THEOREM TypeCorrect == Spec => []TypeOK
<1>1. IInv => TypeOK
  BY DEF IInv
<1> QED
  BY <1>1, Invariance, PTL

(* For every window and conversation: the prompt shows the last turns, in  *)
(* order, as many as the window allows, a window of zero included.         *)
THEOREM ContextIsRecent == Spec => []ContextIsTheMostRecent
<1>1. IInv => ContextIsTheMostRecent
  <2> SUFFICES ASSUME IInv, prompt # NoPrompt PROVE ContextIsTheMostRecent
    BY DEF ContextIsTheMostRecent
  <2>1. request.context \in Seq(Turn) /\ max_context_messages \in Nat
    BY DEF IInv, TypeOK, Body
  <2>2. prompt.context = format_conversation_context(request.context)
    BY DEF IInv, ThePrompt, build_prompt
  <2> DEFINE shown == prompt.context
             turns == request.context
  <2>3. /\ Len(shown) <= max_context_messages
        /\ Len(shown) < max_context_messages => Len(shown) = Len(turns)
        /\ \A i \in 1..Len(shown) :
             /\ shown[i].role = turns[Len(turns) - Len(shown) + i].role
             /\ shown[i].text.words
                  = turns[Len(turns) - Len(shown) + i].text.words
    BY <2>1, <2>2, Formatted
  <2> QED
    BY <2>3 DEF ContextIsTheMostRecent
<1> QED
  BY <1>1, Invariance, PTL

(* For every request: the angle brackets of a prompt are the template's.   *)
THEOREM TemplateDelimits == Spec => []OnlyTheTemplateDelimits
<1>1. IInv => OnlyTheTemplateDelimits
  <2> SUFFICES ASSUME IInv, prompt # NoPrompt PROVE OnlyTheTemplateDelimits
    BY DEF OnlyTheTemplateDelimits
  <2>1. /\ request.message \in Text
        /\ request.context \in Seq(Turn)
        /\ max_context_messages \in Nat
    BY DEF IInv, TypeOK, Body
  <2>2. /\ prompt.context = format_conversation_context(request.context)
        /\ prompt.message = escape_untrusted(request.message)
    BY DEF IInv, ThePrompt, build_prompt
  <2>3. prompt.message.brackets = 0
    BY <2>1, <2>2, EscapedType
  <2>4. \A i \in 1..Len(prompt.context) : prompt.context[i].text.brackets = 0
    BY <2>1, <2>2, Formatted
  <2> QED
    BY <2>3, <2>4 DEF OnlyTheTemplateDelimits
<1> QED
  BY <1>1, Invariance, PTL

(* For every time zone, clock and number of attempts: the record and the   *)
(* prompts tell the same time and the same conversation.                   *)
THEOREM RecordIsWhatWasAsked == Spec => []RecordTellsWhatWasAsked
<1>1. IInv => RecordTellsWhatWasAsked
  <2> SUFFICES ASSUME IInv, record # NoRecord PROVE RecordTellsWhatWasAsked
    BY DEF RecordTellsWhatWasAsked
  <2>1. /\ stage = "recorded"
        /\ record.message = request.message
        /\ record.context = request.context
        /\ record.created_at = created_at
    BY DEF IInv
  <2>2. build_prompt(record, LocalTime[record.created_at]) = ThePrompt
    BY <2>1 DEF ThePrompt, build_prompt
  <2>3. \A i \in 1..Len(asked) : asked[i] = ThePrompt
    <3>1. asked \in Seq({ThePrompt})
      BY DEF IInv
    <3> HIDE DEF ThePrompt
    <3> QED
      BY <3>1, LenProperties
  <2> QED
    BY <2>1, <2>2, <2>3 DEF IInv, RecordTellsWhatWasAsked
<1> QED
  BY <1>1, Invariance, PTL
=============================================================================
