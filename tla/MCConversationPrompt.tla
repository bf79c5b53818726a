------------------------ MODULE MCConversationPrompt ------------------------
(* ConversationPrompt for TLC: conversations below, at and above the       *)
(* window and the limit, messages around the limits of their length, and a *)
(* day of 24 units on whose first the clock goes forward by one.           *)
EXTENDS ConversationPrompt

MCSize == [w \in {"", "a", "bb", "ccc"} |-> CASE w = "" -> 0 [] w = "a" -> 1
                                              [] w = "bb" -> 2 [] OTHER -> 3]

MCMessages == [words : {"", "bb", "ccc"}, padding : {0, 2}, brackets : 0..2]

MCTurns ==
  [role : {"guest"}, text : [words : {"a", "bb"}, padding : {0}, brackets : {0}]]
    \cup [role : {"agent"}, text : [words : {"", "a"}, padding : {0}, brackets : {1}]]

MCContexts == UNION {[1..n -> MCTurns] : n \in 0..4}

(* Every message on its own, and every conversation before one message.    *)
MCRequests ==
  [message : MCMessages, context : {<< >>}]
    \cup [message : {[words |-> "bb", padding |-> 2, brackets |-> 1]},
          context : MCContexts]

MCInstants == {16, 17, 41}

MCLocalTime ==
  [t \in MCInstants |->
     LET offset == IF t < 17 THEN 7 ELSE 8
         local == t + offset
     IN  [day |-> local \div 24, time |-> local % 24, offset |-> offset]]
=============================================================================
