--------------------------- MODULE ReaperPromise ---------------------------
(***************************************************************************)
(* What terminate_unneeded_clusters of sahara/service/periodic.py promises *)
(* to the rest of the system, without its listing, its loop or its         *)
(* reads: in one step it may move a transient cluster that is no longer    *)
(* Spawning, and that became Active at least MinActiveTime ago, to         *)
(* Deleting or AwaitingTermination, stamping its row; it changes nothing   *)
(* else.  Around it, the clock ticks, the engine moves clusters through    *)
(* their states and users run jobs, as in TransientReaper.                 *)
(***************************************************************************)
EXTENDS Naturals

CONSTANTS Clusters, Transient, MinActiveTime, MaxTime, MaxJobs

VARIABLES now, status, updatedAt, running, activeFrom

avars == <<now, status, updatedAt, running, activeFrom>>

Never == MaxTime + 1

Init ==
    /\ now = 0
    /\ status = [c \in Clusters |-> "Spawning"]
    /\ updatedAt = [c \in Clusters |-> 0]
    /\ running = [c \in Clusters |-> 0]
    /\ activeFrom = [c \in Clusters |-> Never]

\* The moves of a cluster's status that the engine and the termination
\* process make: provisioning, scaling and its end, and termination.
EngineMoves ==
    { <<"Spawning", "Active">>, <<"Active", "Scaling">>,
      <<"Scaling", "Active">>, <<"AwaitingTermination", "Deleting">> }

Tick ==
    /\ now < MaxTime
    /\ now' = now + 1
    /\ UNCHANGED <<status, updatedAt, running, activeFrom>>

\* A write of cluster c's row at the current time.
Stamp(c, s) ==
    /\ status' = [status EXCEPT ![c] = s]
    /\ updatedAt' = [updatedAt EXCEPT ![c] = now]

Move(c, m) ==
    /\ status[c] = m[1]
    /\ Stamp(c, m[2])
    /\ activeFrom' = IF m[1] = "Spawning"
                     THEN [activeFrom EXCEPT ![c] = now] ELSE activeFrom
    /\ UNCHANGED <<now, running>>

RunJob(c) ==
    /\ status[c] = "Active"
    /\ running[c] < MaxJobs
    /\ running' = [running EXCEPT ![c] = running[c] + 1]
    /\ UNCHANGED <<now, status, updatedAt, activeFrom>>

JobEnds(c) ==
    /\ running[c] > 0
    /\ running' = [running EXCEPT ![c] = running[c] - 1]
    /\ UNCHANGED <<now, status, updatedAt, activeFrom>>

(* The reaper's termination of c, on either path of lines 105-126.        *)
Terminate(c) ==
    /\ c \in Transient
    /\ status[c] # "Spawning"
    /\ now - activeFrom[c] >= MinActiveTime
    /\ \E s \in {"Deleting", "AwaitingTermination"} : Stamp(c, s)
    /\ UNCHANGED <<now, running, activeFrom>>

Next ==
    \/ Tick
    \/ \E c \in Clusters :
          \/ \E m \in EngineMoves : Move(c, m)
          \/ RunJob(c) \/ JobEnds(c)
          \/ Terminate(c)

Spec == Init /\ [][Next]_avars
=============================================================================
