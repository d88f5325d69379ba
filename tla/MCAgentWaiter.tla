--------------------------- MODULE MCAgentWaiter ---------------------------
(* Two instances; the real timeout and poll of 300 s and 5 s; a call to  *)
(* the manager and an overrun of the sleep taking up to 5 s each.       *)
EXTENDS AgentWaiter

CONSTANTS i1, i2

MCInstances == {i1, i2}
=============================================================================
