-------------------------- MODULE TransientReaper --------------------------
(***************************************************************************)
(* The periodic task terminate_unneeded_clusters of                        *)
(* sahara/service/periodic.py (lines 81-127), against the clusters and     *)
(* job executions that users and the provisioning engine change at the    *)
(* same time.                                                              *)
(*                                                                         *)
(* The task lists the Active clusters once, then for each transient one    *)
(* reads the live count of running job executions, compares the current   *)
(* time with the updated_at of the listed record, and terminates the      *)
(* cluster: with ops.terminate_cluster when the identity API v3 is used,   *)
(* otherwise by setting its status to AwaitingTermination.  Time is        *)
(* counted in ticks of the scheduler's granularity.                        *)
(***************************************************************************)
EXTENDS Naturals, Sequences, FiniteSets

CONSTANTS
    Clusters,        \* cluster ids
    Transient,       \* the clusters with is_transient set
    MinActiveTime,   \* CONF.min_transient_cluster_active_time, in ticks
    UseIdentityV3,   \* the values of CONF.use_identity_api_v3 considered
    Flaky,           \* may the keystone and conductor calls raise?
    MaxTime,         \* bound on the clock
    MaxJobs          \* bound on the running job executions of a cluster

ASSUME ReaperAssumption ==
    /\ Transient \subseteq Clusters
    /\ IsFiniteSet(Clusters)
    /\ MinActiveTime \in Nat
    /\ UseIdentityV3 \subseteq BOOLEAN
    /\ Flaky \in BOOLEAN
    /\ MaxTime \in Nat
    /\ MaxJobs \in Nat

Statuses == {"Spawning", "Active", "Scaling", "AwaitingTermination",
             "Deleting"}

\* Sequences of distinct elements of S, in any order.
Orderings(S) ==
    {s \in UNION {[1..n -> S] : n \in 0..Cardinality(S)} :
        \A k, l \in DOMAIN s : k # l => s[k] # s[l]}

VARIABLES
    now,        \* timeutils.utcnow(), in ticks
    status,     \* cluster.status in the database
    updatedAt,  \* cluster.updated_at in the database
    running,    \* job executions of the cluster with end_time None
    ctx,        \* the request context of the scheduler thread
    pc,         \* where the task is
    snap,       \* the list cluster_get_all(status='Active') returned
    k,          \* index of the cluster the loop is at
    activeFrom, \* when the cluster first became Active (history)
    useV3       \* CONF.use_identity_api_v3 of this process

vars == <<now, status, updatedAt, running, ctx, pc, snap, k, activeFrom,
          useV3>>

Never == MaxTime + 1

\* A listed cluster record: its id and the updated_at it was read with.
Listed == [id : Clusters, updated_at : 0..MaxTime]

TypeOK ==
    /\ now \in 0..MaxTime
    /\ status \in [Clusters -> Statuses]
    /\ updatedAt \in [Clusters -> 0..MaxTime]
    /\ running \in [Clusters -> 0..MaxJobs]
    /\ ctx \in {"none", "admin"}
    /\ pc \in {"idle", "loop", "count", "terminate"}
    /\ snap \in Seq(Listed)
    /\ k \in Nat
    /\ activeFrom \in [Clusters -> 0..Never]
    /\ useV3 \in BOOLEAN

Init ==
    /\ now = 0
    /\ status = [c \in Clusters |-> "Spawning"]
    /\ updatedAt = [c \in Clusters |-> 0]
    /\ running = [c \in Clusters |-> 0]
    /\ ctx = "none"
    /\ pc = "idle"
    /\ snap = <<>>
    /\ k = 0
    /\ activeFrom = [c \in Clusters |-> Never]
    /\ useV3 \in UseIdentityV3

-----------------------------------------------------------------------------
(***************************************************************************)
(* The task.                                                               *)
(***************************************************************************)

(* The scheduler runs the task: set the admin context and list the Active *)
(* clusters, in the database's order (lines 83-86).                       *)
ReaperStart ==
    /\ pc = "idle"
    /\ \E s \in Orderings({c \in Clusters : status[c] = "Active"}) :
          /\ {s[l] : l \in DOMAIN s} = {c \in Clusters : status[c] = "Active"}
          /\ snap' = [l \in DOMAIN s |->
                         [id |-> s[l], updated_at |-> updatedAt[s[l]]]]
    /\ ctx' = "admin"
    /\ k' = 1
    /\ pc' = "loop"
    /\ UNCHANGED <<now, status, updatedAt, running, activeFrom, useV3>>

\* A loop head that has lost the is_transient test of lines 87-88.
ReaperLoopAnyCluster ==
    /\ pc = "loop"
    /\ IF k > Len(snap)
       THEN /\ ctx' = "none"
            /\ pc' = "idle"
            /\ UNCHANGED k
       ELSE /\ pc' = "count"
            /\ UNCHANGED <<ctx, k, useV3>>
    /\ UNCHANGED <<now, status, updatedAt, running, snap, activeFrom, useV3>>

(* The head of the loop: past the last listed cluster, clear the context  *)
(* and end the task (line 127); skip a cluster that is not transient      *)
(* (lines 87-88).                                                          *)
ReaperLoop ==
    /\ pc = "loop"
    /\ IF k > Len(snap)
       THEN /\ ctx' = "none"
            /\ pc' = "idle"
            /\ UNCHANGED k
       ELSE IF snap[k].id \notin Transient
       THEN /\ k' = k + 1
            /\ UNCHANGED <<ctx, pc, useV3>>
       ELSE /\ pc' = "count"
            /\ UNCHANGED <<ctx, k, useV3>>
    /\ UNCHANGED <<now, status, updatedAt, running, snap, activeFrom, useV3>>

(* Read the live count of running job executions, and the time elapsed   *)
(* since the listed updated_at; skip a busy or a young cluster            *)
(* (lines 90-103).                                                         *)
ReaperCount ==
    LET c == snap[k].id IN
    /\ pc = "count"
    /\ IF running[c] > 0 \/ now - snap[k].updated_at < MinActiveTime
       THEN k' = k + 1 /\ pc' = "loop"
       ELSE pc' = "terminate" /\ UNCHANGED k
    /\ UNCHANGED <<now, status, updatedAt, running, ctx, snap, activeFrom,
                   useV3>>

(* The cluster row after ops.terminate_cluster or cluster_update.         *)
SetStatus(c, s) ==
    /\ status' = [status EXCEPT ![c] = s]
    /\ updatedAt' = [updatedAt EXCEPT ![c] = now]

(* Terminate the cluster (lines 105-126).  With the identity API v3:      *)
(* trusts.use_os_admin_auth_token, then ops.terminate_cluster, whose      *)
(* failure is logged; without it: cluster_update to AwaitingTermination   *)
(* (the listed status is Active, so the test of line 122 always passes).  *)
ReaperTerminate ==
    LET c == snap[k].id IN
    /\ pc = "terminate"
    /\ IF useV3
       THEN \/ /\ SetStatus(c, "Deleting")
               /\ k' = k + 1 /\ pc' = "loop"
            \/ /\ Flaky
               /\ k' = k + 1 /\ pc' = "loop"
               /\ UNCHANGED <<status, updatedAt, useV3>>
       ELSE /\ SetStatus(c, "AwaitingTermination")
            /\ k' = k + 1 /\ pc' = "loop"
    /\ UNCHANGED <<now, running, ctx, snap, activeFrom, useV3>>

(* An exception the task does not catch: use_os_admin_auth_token (line   *)
(* 106) or cluster_update (line 123) raises.  The task ends there and the *)
(* periodic-task runner logs it; set_ctx(None) of line 127 is skipped.    *)
ReaperRaises ==
    /\ pc = "terminate"
    /\ Flaky
    /\ pc' = "idle"
    /\ UNCHANGED <<now, status, updatedAt, running, ctx, snap, k, activeFrom,
                   useV3>>

-----------------------------------------------------------------------------
(***************************************************************************)
(* The rest of the system: the clock, the provisioning engine, users       *)
(* running jobs, and the process that finishes AwaitingTermination.        *)
(***************************************************************************)
Tick ==
    /\ now < MaxTime
    /\ now' = now + 1
    /\ UNCHANGED <<status, updatedAt, running, ctx, pc, snap, k, activeFrom,
                   useV3>>

ChangeStatus(c, from, to) ==
    /\ status[c] = from
    /\ SetStatus(c, to)
    /\ UNCHANGED <<now, running, ctx, pc, snap, k, useV3>>

\* The engine finishes provisioning, or starts and finishes a scaling.
Activate(c) ==
    /\ ChangeStatus(c, "Spawning", "Active")
    /\ activeFrom' = [activeFrom EXCEPT ![c] = now]

StartScaling(c)  == ChangeStatus(c, "Active", "Scaling") /\ UNCHANGED activeFrom
FinishScaling(c) == ChangeStatus(c, "Scaling", "Active") /\ UNCHANGED activeFrom

\* Termination is carried out for a cluster left AwaitingTermination.
FinishTermination(c) ==
    ChangeStatus(c, "AwaitingTermination", "Deleting") /\ UNCHANGED activeFrom

\* A user runs a job on an Active cluster; a job execution ends.
RunJob(c) ==
    /\ status[c] = "Active"
    /\ running[c] < MaxJobs
    /\ running' = [running EXCEPT ![c] = running[c] + 1]
    /\ UNCHANGED <<now, status, updatedAt, ctx, pc, snap, k, activeFrom,
                   useV3>>

JobEnds(c) ==
    /\ running[c] > 0
    /\ running' = [running EXCEPT ![c] = running[c] - 1]
    /\ UNCHANGED <<now, status, updatedAt, ctx, pc, snap, k, activeFrom,
                   useV3>>

Next ==
    \/ ReaperStart \/ ReaperLoop \/ ReaperCount \/ ReaperTerminate
    \/ ReaperRaises
    \/ Tick
    \/ \E c \in Clusters :
          \/ Activate(c) \/ StartScaling(c) \/ FinishScaling(c)
          \/ FinishTermination(c) \/ RunJob(c) \/ JobEnds(c)

Spec == Init /\ [][Next]_vars

-----------------------------------------------------------------------------
(***************************************************************************)
(* Properties.                                                             *)
(***************************************************************************)

\* The step in which the task terminates cluster c.
ReaperTerminates(c) ==
    /\ pc = "terminate" /\ pc' = "loop"
    /\ snap[k].id = c
    /\ status'[c] # status[c]

(* Spec 4.5: the task terminates a transient cluster only when it is     *)
(* Active, runs no job execution and was last updated at least           *)
(* MinActiveTime ago, at the moment it terminates it.  This is about the  *)
(* window between the reads of lines 86-103 and the termination of lines  *)
(* 105-126.                                                               *)
TerminatesOnlyIdleClusters ==
    [][\A c \in Clusters :
          ReaperTerminates(c) =>
              /\ status[c] = "Active"
              /\ running[c] = 0
              /\ now - updatedAt[c] >= MinActiveTime]_vars

(* The reaper's promise, ReaperPromise, seen through this module: the     *)
(* rows, the clock and the jobs are its variables; the task's context,    *)
(* program counter, listing, index and identity-API setting are hidden.   *)
Promise == INSTANCE ReaperPromise
    WITH now <- now, status <- status, updatedAt <- updatedAt,
         running <- running, activeFrom <- activeFrom

(* terminate_unneeded_clusters keeps ReaperPromise: every change it makes *)
(* to the cluster rows terminates a transient cluster that became Active  *)
(* at least MinActiveTime ago, whatever its listing, its job count and    *)
(* its termination calls saw; all its other steps leave the rows alone.   *)
ImplementsPromise == Promise!Spec

=============================================================================
