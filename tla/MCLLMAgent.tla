----------------------------- MODULE MCLLMAgent -----------------------------
(* LLMAgent for TLC: two usable answers and one parse refuses.             *)
EXTENDS LLMAgent, TLC

CONSTANTS o1, o2, truncated

MCAnswers == {o1, o2, truncated}
MCParsed == [a \in MCAnswers |-> IF a = truncated THEN Malformed ELSE a]

MCSymmetry == Permutations(Calls)
=============================================================================
