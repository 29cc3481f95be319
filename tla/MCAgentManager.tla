--------------------------- MODULE MCAgentManager ---------------------------
(* A small instance of AgentManager for TLC: an agent that says the right  *)
(* word, one whose last byte is wrong and one whose first byte is.         *)
EXTENDS AgentManager

SomeWords == {Right, [Right EXCEPT ![4] = FALSE], [Right EXCEPT ![1] = FALSE]}
=============================================================================
