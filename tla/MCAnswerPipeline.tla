-------------------------- MODULE MCAnswerPipeline --------------------------
(* AnswerPipeline for TLC: answers that reach every branch of the schema.  *)
EXTENDS AnswerPipeline

MCIntentValues == {"booking_inquiry", "out_of_scope", "unknown"}
MCText == MCIntentValues \cup {"Unknown ", " Booking_Inquiry", "Complaint",
                               "complaint", " ", ""}
MCNormalized ==
  [t \in MCText |->
     CASE t = "Unknown "         -> "unknown"
       [] t = " Booking_Inquiry" -> "booking_inquiry"
       [] t = "Complaint"        -> "complaint"
       [] t = " "                -> ""
       [] OTHER                  -> t]

Dates == {1, 2, None}
Stays == [check_in : Dates, check_out : Dates, new_check_out : Dates]

Bodies(stays) ==
  [intent : MCText \cup {NotAString},
   unrecognized_intent : {None, "complaint", NotAString},
   urgency : {"low", "high", "urgent"},
   confidence : {59, 60, 101, NotANumber},
   needs_human : BOOLEAN,
   stays : stays]

(* Every combination of decisive fields, and every stay on its own.        *)
MCRawAnswers ==
  [fences : {0}, complete : {TRUE}, body : Bodies({{}})]
    \cup [fences : 0..2, complete : BOOLEAN,
          body : {b \in Bodies({{s} : s \in Stays}) :
                    /\ b.intent \in {"Complaint", "booking_inquiry"}
                    /\ b.urgency = "low"
                    /\ b.confidence = 60
                    /\ b.unrecognized_intent = None}]
=============================================================================
