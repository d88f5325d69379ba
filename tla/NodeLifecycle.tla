--------------------------- MODULE NodeLifecycle ---------------------------
(***************************************************************************)
(* The role and host operations of ClouderaUtils (cloudera_utils.py) that  *)
(* change what Cloudera Manager holds, run by several provisioning         *)
(* threads at once against one manager:                                    *)
(*   configure_instances / configure_instance / _add_role,                 *)
(*   decommission_nodes, delete_instances and update_configs.              *)
(* Every remote call is one atomic step of the manager; a caller may be    *)
(* interrupted between any two of its calls by the other callers.  The     *)
(* manager rejects what the real one rejects: a role name that exists      *)
(* already, a role or host that does not exist, a host that is not in the  *)
(* cluster.  Up to MaxFailures remote calls may also raise.              *)
(***************************************************************************)
EXTENDS Naturals, Sequences, FiniteSets, ServiceRouter

CONSTANTS
    Hosts,               \* the instances; a host is named by its fqdn
    Callers,             \* provisioning threads calling ClouderaUtils
    NodeProcs,           \* node_group.node_processes of each instance
    ConvertRoleShowname, \* plugin_utils.convert_role_showname
    RoleTypes,           \* the role types the node processes convert to
    NewHosts,            \* instances whose agent has not registered yet
    MaxFailures,         \* bound on the remote calls that raise
    None                 \* ApiCommand.children of a childless command

ASSUME NodeLifecycleAssumption ==
    /\ IsFiniteSet(Hosts)
    /\ NodeProcs \in [Hosts -> Seq(DOMAIN ConvertRoleShowname)]
    /\ \A h \in Hosts : Len(NodeProcs[h]) > 0
    /\ RoleTypes = {ConvertRoleShowname[p] : p \in DOMAIN ConvertRoleShowname}
                      \cap SupportedRoleTypes
    /\ NewHosts \subseteq Hosts
    /\ MaxFailures \in Nat

\* The result set of a command, and the check cloudera_cmd makes of it.
Cmd == INSTANCE CommandRunner WITH
           Msgs <- {"resultMessage"}, MaxCmds <- 0, MaxChildren <- 1,
           NoErr <- "none", results <- <<>>, phase <- "pull", err <- "none"

\* The role name pu.get_role_name(instance, process) is a function of the
\* instance and the role type: the role is named by that pair.
RoleIds == Hosts \X RoleTypes

RoleStates == {"absent", "commissioned", "decommissioned"}

\* Sequences of distinct elements of S: argument lists and host inventories.
Orderings(S) ==
    {s \in UNION {[1..n -> S] : n \in 0..Cardinality(S)} :
        \A k, l \in DOMAIN s : k # l => s[k] # s[l]}

VARIABLES
    \* Cloudera Manager
    roles,       \* state of each role the manager knows
    configured,  \* roles whose configuration was pushed by update_config
    clientCfg,   \* roles whose client configuration was deployed
    registered,  \* hosts in api.get_all_hosts()
    members,     \* hosts of the Cloudera cluster
    \* the provisioning layer around ClouderaUtils
    fresh,       \* new instances whose agent has not registered yet
    joining,     \* registered new instances not yet added to the cluster
    failures,    \* remote calls that have raised so far
    addRaised,   \* roles the manager has whose _add_role raised
    \* the provisioning threads
    thr          \* the frame of the call each thread is in

mgr  == <<roles, configured, clientCfg, registered, members>>
env  == <<fresh, joining, failures, addRaised>>
vars == <<mgr, env, thr>>

PCs == {"idle", "add_role", "update_config", "dec_submit", "dec_wait",
        "dec_delete", "del_list", "del_scan", "del_host", "upd_deploy",
        "upd_wait"}

(* The frame of a call: where it is, its arguments (instances for         *)
(* configure_instances and update_configs, the hosts of delete_instances, *)
(* process and role_names of decommission_nodes), the inventory           *)
(* delete_instances fetched, and its loop indices.                        *)
Frame == [pc : PCs, insts : Seq(Hosts), targets : SUBSET Hosts,
          proc : RoleTypes \cup {"none"}, names : Seq(RoleIds),
          snap : Seq(Hosts), i : Nat, j : Nat]

Idle == [pc |-> "idle", insts |-> <<>>, targets |-> {}, proc |-> "none",
         names |-> <<>>, snap |-> <<>>, i |-> 0, j |-> 0]

TypeOK ==
    /\ roles \in [RoleIds -> RoleStates]
    /\ configured \subseteq RoleIds
    /\ clientCfg \subseteq RoleIds
    /\ registered \subseteq Hosts
    /\ members \subseteq Hosts
    /\ fresh \subseteq Hosts
    /\ failures \in 0..MaxFailures
    /\ joining \subseteq Hosts
    /\ addRaised \subseteq RoleIds
    /\ thr \in [Callers -> Frame]

Init ==
    /\ roles = [r \in RoleIds |-> "absent"]
    /\ configured = {}
    /\ clientCfg = {}
    /\ registered = Hosts \ NewHosts
    /\ members = Hosts \ NewHosts
    /\ fresh = NewHosts
    /\ joining = {}
    /\ failures = 0
    /\ addRaised = {}
    /\ thr = [c \in Callers |-> Idle]

\* Leave the current call, normally or by an exception.
Return(c) == thr' = [thr EXCEPT ![c] = Idle]

Goto(c, l) == thr' = [thr EXCEPT ![c].pc = l]

-----------------------------------------------------------------------------
(***************************************************************************)
(* configure_instances(instances): for each instance, for each of its node *)
(* processes, _add_role.  Lines 220-237.                                   *)
(***************************************************************************)
ConfigureInstances(c, instances) ==
    /\ thr[c].pc = "idle"
    /\ thr' = [thr EXCEPT ![c].pc = "add_role", ![c].insts = instances,
                          ![c].i = 1, ![c].j = 1]
    /\ UNCHANGED <<mgr, env>>

CurInst(c) == thr[c].insts[thr[c].i]
CurProc(c) == NodeProcs[CurInst(c)][thr[c].j]
CurRole(c) == <<CurInst(c), ConvertRoleShowname[CurProc(c)]>>

\* The next process of configure_instance, or the next instance, or return.
NextProcess(c) ==
    IF thr[c].j < Len(NodeProcs[CurInst(c)])
    THEN thr' = [thr EXCEPT ![c].pc = "add_role", ![c].j = thr[c].j + 1]
    ELSE IF thr[c].i < Len(thr[c].insts)
    THEN thr' = [thr EXCEPT ![c].pc = "add_role", ![c].i = thr[c].i + 1,
                            ![c].j = 1]
    ELSE Return(c)

\* Does the manager accept create_role for c's process: get_service_by_role
\* routes the type, the name is free and the host is known?
CreateAccepted(c) ==
    /\ ConvertRoleShowname[CurProc(c)] \in SupportedRoleTypes
    /\ roles[CurRole(c)] = "absent"
    /\ CurInst(c) \in registered

\* _add_role for the manager process: nothing to create.
AddRoleSkip(c) ==
    /\ thr[c].pc = "add_role"
    /\ CurProc(c) = "CLOUDERA_MANAGER"
    /\ NextProcess(c)
    /\ UNCHANGED <<mgr, env>>

\* _add_role: get_service_by_role raises ValueError for a role type it
\* does not route, or create_role is rejected (the name exists, or the
\* host is unknown to the manager).
AddRoleRaise(c) ==
    /\ thr[c].pc = "add_role"
    /\ CurProc(c) # "CLOUDERA_MANAGER"
    /\ ~CreateAccepted(c)
    /\ Return(c)
    /\ UNCHANGED <<mgr, env>>

\* An _add_role that drops the role.update_config call.
AddRoleWithoutConfig(c) ==
    /\ thr[c].pc = "add_role"
    /\ CurProc(c) # "CLOUDERA_MANAGER"
    /\ CreateAccepted(c)
    /\ roles' = [roles EXCEPT ![CurRole(c)] = "commissioned"]
    /\ NextProcess(c)
    /\ UNCHANGED <<configured, clientCfg, registered, members, env>>

\* _add_role: service.create_role(name, process, fqdn).
AddRole(c) ==
    /\ thr[c].pc = "add_role"
    /\ CurProc(c) # "CLOUDERA_MANAGER"
    /\ CreateAccepted(c)
    /\ roles' = [roles EXCEPT ![CurRole(c)] = "commissioned"]
    /\ Goto(c, "update_config")
    /\ UNCHANGED <<configured, clientCfg, registered, members, env>>

\* _add_role: role.update_config(...), then on to the next process.  The
\* manager rejects it when the role has been deleted meanwhile.
UpdateConfig(c) ==
    /\ thr[c].pc = "update_config"
    /\ IF roles[CurRole(c)] = "absent"
       THEN Return(c) /\ UNCHANGED configured
       ELSE /\ configured' = configured \cup {CurRole(c)}
            /\ NextProcess(c)
    /\ UNCHANGED <<roles, clientCfg, registered, members, env>>

-----------------------------------------------------------------------------
(***************************************************************************)
(* decommission_nodes(cluster, process, role_names), lines 106-110.        *)
(***************************************************************************)
DecommissionNodes(c, process, roleNames) ==
    /\ thr[c].pc = "idle"
    /\ thr' = [thr EXCEPT ![c].pc = "dec_submit", ![c].proc = process,
                          ![c].names = roleNames]
    /\ UNCHANGED <<mgr, env>>

\* Does the manager accept a decommission of these names in this service?
DecommissionAccepted(c) ==
    \A k \in DOMAIN thr[c].names :
        /\ roles[thr[c].names[k]] # "absent"
        /\ ServiceOf(thr[c].names[k][2]) = ServiceOf(thr[c].proc)

\* get_service_by_role, then service.decommission(*role_names): the
\* manager starts the command, or rejects an unknown role name.
DecSubmit(c) ==
    /\ thr[c].pc = "dec_submit"
    /\ IF DecommissionAccepted(c) THEN Goto(c, "dec_wait") ELSE Return(c)
    /\ UNCHANGED <<mgr, env>>

\* The command's effect once the manager finishes it with success ok.
Decommissioned(c, ok) ==
    roles' = [r \in RoleIds |->
                 IF /\ ok
                    /\ roles[r] = "commissioned"
                    /\ \E k \in DOMAIN thr[c].names : thr[c].names[k] = r
                 THEN "decommissioned" ELSE roles[r]]

\* .wait() returns; its result is not looked at.  Then delete each role.
DecWait(c) ==
    /\ thr[c].pc = "dec_wait"
    /\ \E ok \in BOOLEAN : Decommissioned(c, ok)
    /\ thr' = [thr EXCEPT ![c].pc = "dec_delete", ![c].i = 1]
    /\ UNCHANGED <<configured, clientCfg, registered, members, env>>

\* service.delete_role(role_name) for the next name; an unknown name raises.
DecDelete(c) ==
    LET r == thr[c].names[thr[c].i] IN
    /\ thr[c].pc = "dec_delete"
    /\ IF roles[r] = "absent"
       THEN Return(c) /\ UNCHANGED <<roles, configured, clientCfg>>
       ELSE /\ roles' = [roles EXCEPT ![r] = "absent"]
            /\ configured' = configured \ {r}
            /\ clientCfg' = clientCfg \ {r}
            /\ IF thr[c].i < Len(thr[c].names)
               THEN thr' = [thr EXCEPT ![c].i = thr[c].i + 1]
               ELSE Return(c)
    /\ UNCHANGED <<registered, members, env>>

-----------------------------------------------------------------------------
(***************************************************************************)
(* delete_instances(cluster, instances), lines 96-104.                     *)
(***************************************************************************)
DeleteInstances(c, hs) ==
    /\ thr[c].pc = "idle"
    /\ thr' = [thr EXCEPT ![c].pc = "del_list", ![c].targets = hs]
    /\ UNCHANGED <<mgr, env>>

\* hosts = api.get_all_hosts(view='full'), in the manager's order.
DelList(c) ==
    /\ thr[c].pc = "del_list"
    /\ \E s \in Orderings(registered) :
           /\ {s[k] : k \in DOMAIN s} = registered
           /\ thr' = [thr EXCEPT ![c].pc = "del_scan", ![c].snap = s,
                                 ![c].i = 1]
    /\ UNCHANGED <<mgr, env>>

\* A loop that drops the cm_cluster.remove_host call.
DelScanWithoutRemove(c) ==
    LET h == thr[c].snap[thr[c].i] IN
    /\ thr[c].pc = "del_scan"
    /\ IF thr[c].i > Len(thr[c].snap)
       THEN Return(c)
       ELSE IF h \notin thr[c].targets
       THEN thr' = [thr EXCEPT ![c].i = thr[c].i + 1]
       ELSE Goto(c, "del_host")
    /\ UNCHANGED <<mgr, env>>

\* One turn of the loop over the inventory: skip a host that is not a
\* target; otherwise cm_cluster.remove_host, which raises when the host is
\* no longer in the cluster.  Past the end of the inventory, return.
DelScan(c) ==
    LET h == thr[c].snap[thr[c].i] IN
    /\ thr[c].pc = "del_scan"
    /\ IF thr[c].i > Len(thr[c].snap)
       THEN Return(c) /\ UNCHANGED members
       ELSE IF h \notin thr[c].targets
       THEN thr' = [thr EXCEPT ![c].i = thr[c].i + 1] /\ UNCHANGED members
       ELSE IF h \notin members
       THEN Return(c) /\ UNCHANGED members
       ELSE members' = members \ {h} /\ Goto(c, "del_host")
    /\ UNCHANGED <<roles, configured, clientCfg, registered, env>>

\* api.delete_host(host.hostId); an unknown host raises.
DelHost(c) ==
    LET h == thr[c].snap[thr[c].i] IN
    /\ thr[c].pc = "del_host"
    /\ IF h \notin registered
       THEN Return(c) /\ UNCHANGED registered
       ELSE /\ registered' = registered \ {h}
            /\ thr' = [thr EXCEPT ![c].pc = "del_scan", ![c].i = thr[c].i + 1]
    /\ UNCHANGED <<roles, configured, clientCfg, members, env>>

-----------------------------------------------------------------------------
(***************************************************************************)
(* update_configs(instance), lines 126-132, under cloudera_cmd: for each   *)
(* node process, deploy the client configuration of the instance's role,   *)
(* wait, and check the result before the generator goes on.                *)
(***************************************************************************)
UpdateConfigs(c, h) ==
    /\ thr[c].pc = "idle"
    /\ thr' = [thr EXCEPT ![c].pc = "upd_deploy", ![c].insts = <<h>>,
                          ![c].i = 1, ![c].j = 1]
    /\ UNCHANGED <<mgr, env>>

\* convert_role_showname, get_service_by_role (ValueError for a type it does
\* not route; the manager process is not skipped here), then
\* service.deploy_client_config(role_name), rejected for an unknown role.
UpdDeploy(c) ==
    /\ thr[c].pc = "upd_deploy"
    /\ IF /\ ConvertRoleShowname[CurProc(c)] \in SupportedRoleTypes
          /\ roles[CurRole(c)] # "absent"
       THEN Goto(c, "upd_wait")
       ELSE Return(c)
    /\ UNCHANGED <<mgr, env>>

\* cmd.wait() returns r; a successful command has deployed the client
\* configuration; the check of cloudera_cmd raises or the generator resumes.
UpdWait(c, r) ==
    /\ thr[c].pc = "upd_wait"
    /\ clientCfg' = IF r.success THEN clientCfg \cup {CurRole(c)}
                    ELSE clientCfg
    /\ IF Cmd!Raises(r) \/ thr[c].j = Len(NodeProcs[CurInst(c)])
       THEN Return(c)
       ELSE thr' = [thr EXCEPT ![c].pc = "upd_deploy", ![c].j = thr[c].j + 1]
    /\ UNCHANGED <<roles, configured, registered, members, env>>

-----------------------------------------------------------------------------
(***************************************************************************)
(* A remote call raises (connection lost, API error).  A command the      *)
(* caller was waiting on, or a role create_role was making, may still have *)
(* been carried out: the answer, not the request, was lost.                *)
(***************************************************************************)
\* Is the next step of c a call to the manager?  Skipping the manager
\* process and the loop of delete_instances over non-target hosts are not.
MakesRemoteCall(c) ==
    /\ thr[c].pc # "idle"
    /\ thr[c].pc = "add_role" => CurProc(c) # "CLOUDERA_MANAGER"
    /\ thr[c].pc = "del_scan" =>
           /\ thr[c].i <= Len(thr[c].snap)
           /\ thr[c].snap[thr[c].i] \in thr[c].targets

RemoteFails(c) ==
    /\ failures < MaxFailures
    /\ MakesRemoteCall(c)
    /\ failures' = failures + 1
    /\ CASE thr[c].pc = "dec_wait" -> \E ok \in BOOLEAN : Decommissioned(c, ok)
         [] thr[c].pc = "add_role" ->
               \/ UNCHANGED roles
               \/ CreateAccepted(c)
                  /\ roles' = [roles EXCEPT ![CurRole(c)] = "commissioned"]
         [] OTHER -> UNCHANGED roles
    /\ IF thr[c].pc = "upd_wait"
       THEN \E ok \in BOOLEAN :
               clientCfg' = IF ok THEN clientCfg \cup {CurRole(c)}
                            ELSE clientCfg
       ELSE UNCHANGED clientCfg
    /\ addRaised' = IF \/ thr[c].pc = "update_config"
                       \/ thr[c].pc = "add_role" /\ roles' # roles
                    THEN addRaised \cup {CurRole(c)} ELSE addRaised
    /\ Return(c)
    /\ UNCHANGED <<configured, registered, members, fresh, joining>>

(***************************************************************************)
(* The environment: the agent of a new instance registers its host with   *)
(* the manager, and the provisioning layer then adds the host to the       *)
(* cluster.  A deleted instance does not come back: a new one has a new    *)
(* fqdn.                                                                   *)
(***************************************************************************)
AgentRegisters(h) ==
    /\ h \in fresh
    /\ fresh' = fresh \ {h}
    /\ registered' = registered \cup {h}
    /\ joining' = joining \cup {h}
    /\ UNCHANGED <<roles, configured, clientCfg, members, failures,
                   addRaised, thr>>

AddHostToCluster(h) ==
    /\ h \in joining
    /\ joining' = joining \ {h}
    /\ members' = members \cup {h}
    /\ UNCHANGED <<roles, configured, clientCfg, registered, fresh, failures,
                   addRaised, thr>>

Next ==
    \/ \E c \in Callers :
          \/ \E s \in Orderings(Hosts) \ {<<>>} : ConfigureInstances(c, s)
          \/ \E t \in RoleTypes :
                \E s \in Orderings({<<h, t>> : h \in Hosts}) \ {<<>>} :
                   DecommissionNodes(c, t, s)
          \/ \E hs \in SUBSET Hosts \ {{}} : DeleteInstances(c, hs)
          \/ \E h \in Hosts : UpdateConfigs(c, h)
          \/ AddRoleSkip(c) \/ AddRoleRaise(c) \/ AddRole(c)
          \/ UpdateConfig(c)
          \/ DecSubmit(c) \/ DecWait(c) \/ DecDelete(c)
          \/ DelList(c) \/ DelScan(c) \/ DelHost(c)
          \/ UpdDeploy(c) \/ \E r \in Cmd!Result : UpdWait(c, r)
          \/ RemoteFails(c)
    \/ \E h \in Hosts : AgentRegisters(h) \/ AddHostToCluster(h)

Spec == Init /\ [][Next]_vars

-----------------------------------------------------------------------------
(***************************************************************************)
(* Properties.                                                             *)
(***************************************************************************)

(* Every host of the Cloudera cluster is still known to the manager: a    *)
(* host leaves the cluster before it is deleted, whatever the other       *)
(* threads do and whichever call fails.  This is about the order of       *)
(* remove_host and delete_host in delete_instances, lines 103-104.        *)
MembersRegistered == members \subseteq registered

(* Spec 4.3: roles are deleted only after the decommission command has    *)
(* succeeded, so a role goes from present to absent only once it is       *)
(* decommissioned.  This is about decommission_nodes, lines 108-110,      *)
(* which does not look at the result of the command.                      *)
DeleteOnlyDecommissioned ==
    [][\A r \in RoleIds :
          roles[r] # "absent" /\ roles'[r] = "absent"
              => roles[r] = "decommissioned"]_roles

(* Spec 4.3: the hosts of delete_instances are processed independently:  *)
(* a call never ends while a target host of the inventory it fetched is   *)
(* still ahead of it.  This is about the loop of delete_instances, lines  *)
(* 101-104, which has no exception handling.                              *)
DeleteVisitsEveryTarget ==
    [][\A c \in Callers :
          (thr[c].pc \in {"del_scan", "del_host"} /\ thr'[c].pc = "idle")
              => \A k \in thr[c].i + 1 .. Len(thr[c].snap) :
                     thr[c].snap[k] \notin thr[c].targets]_vars
(* Spec 3.2: a failure while configuring a process is never swallowed.    *)
(* A role that exists without the configuration _add_role pushes is one   *)
(* whose update_config is still to come, or one whose _add_role raised to *)
(* the caller (update_config failed, or create_role failed after the     *)
(* manager had created the role), whatever the other threads create,     *)
(* decommission and delete meanwhile.  This is about _add_role, lines     *)
(* 233-237, which creates the role and configures it in two calls.       *)
UnconfiguredRoleAccounted ==
    \A r \in RoleIds :
        roles[r] # "absent" /\ r \notin configured =>
            \/ \E c \in Callers : thr[c].pc = "update_config" /\ CurRole(c) = r
            \/ r \in addRaised
=============================================================================
