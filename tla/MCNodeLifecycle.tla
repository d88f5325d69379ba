-------------------------- MODULE MCNodeLifecycle --------------------------
(* Model-checking instance of NodeLifecycle: two instances, one of them   *)
(* the manager node, two HDFS/YARN role types, two provisioning threads.  *)
EXTENDS NodeLifecycle, TLC

CONSTANTS h1, h2, c1, c2

MCHosts == {h1, h2}
MCCallers == {c1, c2}

MCConvertRoleShowname ==
    [p \in {"CLOUDERA_MANAGER", "HDFS_DATANODE", "YARN_NODEMANAGER"} |->
        CASE p = "CLOUDERA_MANAGER" -> "MANAGER"
          [] p = "HDFS_DATANODE"    -> "DATANODE"
          [] p = "YARN_NODEMANAGER" -> "NODEMANAGER"]

MCNodeProcs ==
    (h1 :> <<"CLOUDERA_MANAGER", "HDFS_DATANODE">>) @@
    (h2 :> <<"HDFS_DATANODE", "YARN_NODEMANAGER">>)

MCRoleTypes == {"DATANODE", "NODEMANAGER"}

MCNewHosts == {h2}

\* The provisioning threads run the same code and are interchangeable.
MCSymmetry == Permutations(MCCallers)
=============================================================================
