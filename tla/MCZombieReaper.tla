-------------------------- MODULE MCZombieReaper ---------------------------
(* Two job executions and the users named after them, a user named "job" *)
(* that does not match the prefix, and a user "job_3" left from a job    *)
(* execution that is no longer stored.                                   *)
EXTENDS ZombieReaper, TLC

CONSTANTS u1, u2, u3, u4

MCUsers == {u1, u2, u3, u4}

MCName ==
    (u1 :> <<"j", "o", "b", "_", "1">>) @@ (u2 :> <<"j", "o", "b", "_", "2">>)
    @@ (u3 :> <<"j", "o", "b">>) @@ (u4 :> <<"j", "o", "b", "_", "3">>)

MCJobExecIds == {<<"1">>, <<"2">>}
=============================================================================
