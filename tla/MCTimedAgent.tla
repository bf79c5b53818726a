---------------------------- MODULE MCTimedAgent ----------------------------
(* TimedAgent for TLC: one usable answer and one parse refuses.            *)
EXTENDS TimedAgent

CONSTANTS o1, truncated

MCAnswers == {o1, truncated}
MCParsed == [a \in MCAnswers |-> IF a = truncated THEN Malformed ELSE a]
=============================================================================
