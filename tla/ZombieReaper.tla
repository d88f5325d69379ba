--------------------------- MODULE ZombieReaper ----------------------------
(***************************************************************************)
(* The periodic task check_for_zombie_proxy_users of                       *)
(* sahara/service/periodic.py (lines 129-142), against job executions that *)
(* start, finish and are deleted, and against the job's own cleanup of its *)
(* proxy user, all at the same time.                                       *)
(*                                                                         *)
(* The task lists the users of the proxy domain once; for each whose name  *)
(* starts with "job_" it takes the rest of the name as a job execution id, *)
(* reads that job execution, and deletes the user when the job execution   *)
(* is missing or has reached a terminal status.  Names are sequences of    *)
(* characters, so that the prefix test and the slice name[4:] are modelled *)
(* by what they do.                                                        *)
(***************************************************************************)
EXTENDS Naturals, Sequences, FiniteSets

CONSTANTS
    Users,       \* keystone user ids in the proxy domain
    Name,        \* Name[u]: the user's name, a sequence of characters
    JobExecIds,  \* ids of the job executions the database may hold
    Flaky        \* may the keystone calls raise?

\* The prefix of the names of job-bound proxy users (line 134).
JobPrefix == <<"j", "o", "b", "_">>

ASSUME ZombieAssumption ==
    /\ IsFiniteSet(Users)
    /\ Name \in [Users -> Seq(STRING)]
    /\ JobExecIds \subseteq Seq(STRING)
    /\ Flaky \in BOOLEAN

\* user.name.startswith('job_') (line 134).
StartsWithJob(u) ==
    /\ Len(Name[u]) >= Len(JobPrefix)
    /\ SubSeq(Name[u], 1, Len(JobPrefix)) = JobPrefix

\* A loop that slices one character too many off the name.
JobExecIdOfOffByOne(u) == SubSeq(Name[u], 6, Len(Name[u]))

\* je_id = user.name[4:] (line 135).
JobExecIdOf(u) == SubSeq(Name[u], 5, Len(Name[u]))

\* The job execution statuses; "absent" is a row that was never written or
\* was deleted, for which job_execution_get returns None.
JeStatuses == {"absent", "running", "terminal"}

\* The users a job creates for its executions: named job_<id>.
BoundUsers(j) == {u \in Users : Name[u] = JobPrefix \o j}

\* Sequences of distinct elements of S, in any order.
Orderings(S) ==
    {s \in UNION {[1..n -> S] : n \in 0..Cardinality(S)} :
        \A k, l \in DOMAIN s : k # l => s[k] # s[l]}

VARIABLES
    je,      \* je[j]: the status of job execution j in the database
    ended,   \* the job executions that have run and ended (history)
    users,   \* the users that exist in the proxy domain
    ctx,     \* the request context of the scheduler thread
    pc,      \* where the task is
    usnap,   \* the list proxy_domain_users_list() returned
    k        \* index of the user the loop is at

vars == <<je, ended, users, ctx, pc, usnap, k>>

TypeOK ==
    /\ je \in [JobExecIds -> JeStatuses]
    /\ ended \subseteq JobExecIds
    /\ users \subseteq Users
    /\ ctx \in {"none", "admin"}
    /\ pc \in {"idle", "loop", "delete"}
    /\ usnap \in Seq(Users)
    /\ k \in Nat

(* The users left from earlier runs exist; no job execution is stored.   *)
Init ==
    /\ je = [j \in JobExecIds |-> "absent"]
    /\ ended = {}
    /\ users = {u \in Users : \A j \in JobExecIds : u \notin BoundUsers(j)}
    /\ ctx = "none"
    /\ pc = "idle"
    /\ usnap = <<>>
    /\ k = 0

-----------------------------------------------------------------------------
(***************************************************************************)
(* The task.                                                               *)
(***************************************************************************)

(* Set the admin context and list the users of the domain (lines 131-133). *)
ZombieStart ==
    /\ pc = "idle"
    /\ \E s \in Orderings(users) :
          /\ {s[l] : l \in DOMAIN s} = users
          /\ usnap' = s
    /\ ctx' = "admin"
    /\ k' = 1
    /\ pc' = "loop"
    /\ UNCHANGED <<je, ended, users>>

\* job_execution_get of line 136: None, or the job execution's status.
IsZombie(u) ==
    LET j == JobExecIdOf(u) IN
    j \notin JobExecIds \/ je[j] \in {"absent", "terminal"}

(* The head of the loop: past the last user, clear the context and end   *)
(* the task (line 142); skip a user whose name does not match; read the  *)
(* job execution the name points to and go on to delete a zombie         *)
(* (lines 134-140).                                                      *)
ZombieLoop ==
    /\ pc = "loop"
    /\ IF k > Len(usnap)
       THEN /\ ctx' = "none"
            /\ pc' = "idle"
            /\ UNCHANGED k
       ELSE IF StartsWithJob(usnap[k]) /\ IsZombie(usnap[k])
       THEN /\ pc' = "delete"
            /\ UNCHANGED <<ctx, k>>
       ELSE /\ k' = k + 1
            /\ UNCHANGED <<ctx, pc>>
    /\ UNCHANGED <<je, ended, users, usnap>>

(* proxy_user_delete (line 141) removes the user.                        *)
ZombieDelete ==
    /\ pc = "delete"
    /\ usnap[k] \in users
    /\ users' = users \ {usnap[k]}
    /\ k' = k + 1
    /\ pc' = "loop"
    /\ UNCHANGED <<je, ended, ctx, usnap>>

(* proxy_user_delete raises: keystone is unreachable, or the user is     *)
(* already gone.  Nothing in the loop catches it: the task ends, the      *)
(* periodic-task runner logs it, and set_ctx(None) is skipped.            *)
ZombieDeleteRaises ==
    /\ pc = "delete"
    /\ Flaky \/ usnap[k] \notin users
    /\ pc' = "idle"
    /\ UNCHANGED <<je, ended, users, ctx, usnap, k>>

-----------------------------------------------------------------------------
(***************************************************************************)
(* The EDP engine and the API: a job execution is stored and runs, its     *)
(* proxy user is created for it, it ends, its user is cleaned up by the    *)
(* job, and the job execution is deleted.                                  *)
(***************************************************************************)
StartJob(j) ==
    /\ je[j] = "absent"
    /\ j \notin ended
    /\ je' = [je EXCEPT ![j] = "running"]
    /\ UNCHANGED <<ended, users, ctx, pc, usnap, k>>

CreateProxyUser(j, u) ==
    /\ je[j] = "running"
    /\ u \in BoundUsers(j) \ users
    /\ users' = users \cup {u}
    /\ UNCHANGED <<je, ended, ctx, pc, usnap, k>>

JobEnds(j) ==
    /\ je[j] = "running"
    /\ je' = [je EXCEPT ![j] = "terminal"]
    /\ ended' = ended \cup {j}
    /\ UNCHANGED <<users, ctx, pc, usnap, k>>

CleanupProxyUser(j, u) ==
    /\ je[j] = "terminal"
    /\ u \in BoundUsers(j) \cap users
    /\ users' = users \ {u}
    /\ UNCHANGED <<je, ended, ctx, pc, usnap, k>>

DeleteJobExecution(j) ==
    /\ je[j] = "terminal"
    /\ je' = [je EXCEPT ![j] = "absent"]
    /\ UNCHANGED <<ended, users, ctx, pc, usnap, k>>

Next ==
    \/ ZombieStart \/ ZombieLoop \/ ZombieDelete \/ ZombieDeleteRaises
    \/ \E j \in JobExecIds :
          \/ StartJob(j) \/ JobEnds(j) \/ DeleteJobExecution(j)
          \/ \E u \in Users : CreateProxyUser(j, u) \/ CleanupProxyUser(j, u)

Spec == Init /\ [][Next]_vars

-----------------------------------------------------------------------------
(***************************************************************************)
(* Properties.                                                             *)
(***************************************************************************)

(* Spec 4.5 and 8: the task never deletes the proxy user of a job         *)
(* execution that is still running, although the list of users is read   *)
(* once and the job executions start and end while it goes through it.   *)
(* This is about the prefix test, the slice and the status test of lines *)
(* 134-141.                                                               *)
NoLiveCredentialDeleted ==
    [][(pc = "delete" /\ pc' = "loop") =>
          \A j \in JobExecIds :
              usnap[k] \in BoundUsers(j) => je[j] # "running"]_vars

(* Spec 4.5 and 5: one bad credential does not keep the task from          *)
(* reconciling the others: a run of the task never ends before it has     *)
(* gone through every user it listed.  This is about line 141, outside    *)
(* any try block.                                                          *)
EvaluatesEveryListedUser ==
    [][(pc # "idle" /\ pc' = "idle") => k > Len(usnap)]_vars
=============================================================================
