-------------------------- MODULE MCCommandRunner --------------------------
(* Model-checking instance of CommandRunner: two result messages, so that *)
(* the first and a later failing child can be told apart, up to two       *)
(* commands per generator and up to two children per command.             *)
EXTENDS CommandRunner

CONSTANTS m1, m2

MCMsgs == {m1, m2}
=============================================================================
