--------------------------- MODULE ServiceRouter ---------------------------
(***************************************************************************)
(* ClouderaUtils.get_service_by_role of cloudera_utils.py: which Cloudera  *)
(* Manager service owns a role type.  A pure lookup: the chained           *)
(* conditional of the code becomes a function on the role types it names;  *)
(* a role type outside its domain is the ValueError branch.                *)
(***************************************************************************)

\* The service names of ClouderaUtils (lines 58-65).
HDFS_SERVICE_NAME      == "hdfs01"
YARN_SERVICE_NAME      == "yarn01"
OOZIE_SERVICE_NAME     == "oozie01"
HIVE_SERVICE_NAME      == "hive01"
HUE_SERVICE_NAME       == "hue01"
SPARK_SERVICE_NAME     == "spark_on_yarn01"
ZOOKEEPER_SERVICE_NAME == "zookeeper01"
HBASE_SERVICE_NAME     == "hbase01"

\* The role types of each branch of the conditional (lines 175-190).
ServiceTable ==
    { <<{"NAMENODE", "DATANODE", "SECONDARYNAMENODE"}, HDFS_SERVICE_NAME>>,
      <<{"RESOURCEMANAGER", "NODEMANAGER", "JOBHISTORY"}, YARN_SERVICE_NAME>>,
      <<{"OOZIE_SERVER"}, OOZIE_SERVICE_NAME>>,
      <<{"HIVESERVER2", "HIVEMETASTORE", "WEBHCAT"}, HIVE_SERVICE_NAME>>,
      <<{"HUE_SERVER"}, HUE_SERVICE_NAME>>,
      <<{"SPARK_YARN_HISTORY_SERVER"}, SPARK_SERVICE_NAME>>,
      <<{"SERVER"}, ZOOKEEPER_SERVICE_NAME>>,
      <<{"MASTER", "REGIONSERVER"}, HBASE_SERVICE_NAME>> }

\* The role types that do not fall through to the ValueError (line 192).
SupportedRoleTypes == UNION {row[1] : row \in ServiceTable}

\* The service a supported role type is routed to.
ServiceOf(process) ==
    (CHOOSE row \in ServiceTable : process \in row[1])[2]
=============================================================================
