------------------------ MODULE TransientReaperProofs -----------------------
(***************************************************************************)
(* Proofs about terminate_unneeded_clusters (TransientReaper), for every  *)
(* set of clusters, every MinActiveTime and every clock bound.             *)
(***************************************************************************)
EXTENDS TransientReaper, FiniteSetTheorems, TLAPS

(***************************************************************************)
(* ReaperPromise compares the clock with activeFrom, but the task          *)
(* compares it with the updated_at it listed.  The strengthening relates   *)
(* the two: a cluster's row is written only at the current time, a        *)
(* cluster never goes back to Spawning, so once Active its activeFrom is   *)
(* fixed and no later than any updated_at it gets; the listing copies      *)
(* updated_at of Active clusters only; and the young-cluster test of the   *)
(* count step stays true while the task waits to terminate.               *)
(***************************************************************************)
IInv ==
    /\ TypeOK
    /\ \A c \in Clusters : updatedAt[c] <= now
    /\ \A c \in Clusters : status[c] # "Spawning" => activeFrom[c] <= updatedAt[c]
    /\ \A l \in 1..Len(snap) : /\ status[snap[l].id] # "Spawning"
                                /\ activeFrom[snap[l].id] <= snap[l].updated_at
    /\ pc # "idle" => k >= 1
    /\ pc \in {"count", "terminate"} => k <= Len(snap)
    /\ pc = "terminate" => now - snap[k].updated_at >= MinActiveTime

\* A listed record names a cluster and a time on the clock.
LEMMA ListedFields ==
    ASSUME NEW r \in Listed
    PROVE  r.id \in Clusters /\ r.updated_at \in 0..MaxTime
BY DEF Listed

\* An entry of the listing is such a record.
LEMMA SnapEntry ==
    ASSUME TypeOK, NEW l \in 1..Len(snap)
    PROVE  /\ snap[l] \in Listed
           /\ snap[l].id \in Clusters /\ snap[l].updated_at \in 0..MaxTime
<1>1. snap[l] \in Listed
    BY DEF TypeOK
<1> QED
    BY <1>1, ListedFields

LEMMA InitIInv == Init => IInv
BY ReaperAssumption DEF Init, IInv, TypeOK, Never, Statuses

\* What cluster_get_all(status='Active') returns at the start of the task.
LEMMA ListingOK ==
    ASSUME IInv, ReaperStart
    PROVE  /\ snap' \in Seq(Listed)
           /\ \A l \in 1..Len(snap') :
                 /\ status[snap'[l].id] # "Spawning"
                 /\ activeFrom[snap'[l].id] <= snap'[l].updated_at
<1> DEFINE Act == {c \in Clusters : status[c] = "Active"}
<1>1. PICK s \in Orderings(Act) :
          /\ {s[l] : l \in DOMAIN s} = Act
          /\ snap' = [l \in DOMAIN s |->
                         [id |-> s[l], updated_at |-> updatedAt[s[l]]]]
    BY DEF ReaperStart
<1>2. Cardinality(Act) \in Nat
    <2>1. IsFiniteSet(Act)
        BY ReaperAssumption, FS_Subset
    <2> QED
        BY <2>1, FS_CardinalityType
<1>3. PICK n \in Nat : s \in [1..n -> Act]
    BY <1>1, <1>2 DEF Orderings
<1>4. \A l \in 1..n : [id |-> s[l], updated_at |-> updatedAt[s[l]]] \in Listed
    BY <1>3 DEF IInv, TypeOK, Listed
<1>5. snap' \in Seq(Listed) /\ Len(snap') = n
    BY <1>1, <1>3, <1>4
<1>6. \A l \in 1..n : snap'[l].id = s[l] /\ snap'[l].updated_at = updatedAt[s[l]]
    BY <1>1, <1>3
<1> QED
    BY <1>3, <1>5, <1>6 DEF IInv, TypeOK

(* A step that keeps the listing, moves the clock forward only, stamps a  *)
(* row with the current time, and neither sends an Active cluster back to *)
(* Spawning nor moves its activeFrom keeps the listed entries' relation.  *)
LEMMA RowsStep ==
    ASSUME IInv, snap' = snap, now <= now',
           \A c \in Clusters : status[c] # "Spawning" =>
                                 /\ status'[c] # "Spawning"
                                 /\ activeFrom'[c] = activeFrom[c]
    PROVE  \A l \in 1..Len(snap') :
              /\ status'[snap'[l].id] # "Spawning"
              /\ activeFrom'[snap'[l].id] <= snap'[l].updated_at
<1> SUFFICES ASSUME NEW l \in 1..Len(snap)
             PROVE  /\ status'[snap[l].id] # "Spawning"
                    /\ activeFrom'[snap[l].id] <= snap[l].updated_at
    OBVIOUS
<1>1. snap[l].id \in Clusters
    BY SnapEntry DEF IInv
<1> QED
    BY <1>1 DEF IInv

(* A step of the clock, the engine or a user keeps IInv when it has the  *)
(* properties RowsStep needs and writes rows of the right type.           *)
LEMMA EnvStep ==
    ASSUME IInv, UNCHANGED <<snap, k, pc, ctx, useV3>>,
           now' \in 0..MaxTime, now <= now',
           status' \in [Clusters -> Statuses],
           updatedAt' \in [Clusters -> 0..MaxTime],
           running' \in [Clusters -> 0..MaxJobs],
           activeFrom' \in [Clusters -> 0..Never],
           \A c \in Clusters : updatedAt'[c] <= now',
           \A c \in Clusters : status'[c] # "Spawning" =>
                                 activeFrom'[c] <= updatedAt'[c],
           \A c \in Clusters : status[c] # "Spawning" =>
                                 /\ status'[c] # "Spawning"
                                 /\ activeFrom'[c] = activeFrom[c]
    PROVE  IInv'
<1>1. \A l \in 1..Len(snap') :
         /\ status'[snap'[l].id] # "Spawning"
         /\ activeFrom'[snap'[l].id] <= snap'[l].updated_at
    BY RowsStep
<1>2. pc' = "terminate" => now' - snap'[k'].updated_at >= MinActiveTime
    <2> SUFFICES ASSUME pc = "terminate"
                 PROVE  now' - snap[k].updated_at >= MinActiveTime
        OBVIOUS
    <2>1. k \in 1..Len(snap)
        BY DEF IInv, TypeOK
    <2>2. snap[k].updated_at \in 0..MaxTime
        BY <2>1, SnapEntry DEF IInv
    <2> QED
        BY <2>2, ReaperAssumption DEF IInv, TypeOK
<1> QED
    BY <1>1, <1>2 DEF IInv, TypeOK

\* Every step keeps IInv.
LEMMA NextIInv == IInv /\ [Next]_vars => IInv'
<1> SUFFICES ASSUME IInv, [Next]_vars PROVE IInv'
    OBVIOUS
<1> USE ReaperAssumption, SnapEntry DEF IInv, TypeOK, Statuses, Never
<1>1. CASE ReaperStart
    <2>1. /\ snap' \in Seq(Listed)
          /\ \A l \in 1..Len(snap') :
                /\ status[snap'[l].id] # "Spawning"
                /\ activeFrom[snap'[l].id] <= snap'[l].updated_at
        BY <1>1, ListingOK
    <2>2. pc' = "loop" /\ k' = 1 /\ ctx' = "admin"
          /\ UNCHANGED <<now, status, updatedAt, running, activeFrom, useV3>>
        BY <1>1 DEF ReaperStart
    <2> QED
        BY <2>1, <2>2
<1>2. CASE ReaperLoop
    BY <1>2 DEF ReaperLoop
<1>3. CASE ReaperCount
    <2>1. pc = "count" /\ k \in 1..Len(snap)
        BY <1>3 DEF ReaperCount
    <2>2. snap[k].updated_at \in 0..MaxTime
        BY <2>1, SnapEntry
    <2>3. CASE running[snap[k].id] > 0 \/ now - snap[k].updated_at < MinActiveTime
        <3>1. k' = k + 1 /\ pc' = "loop"
              /\ UNCHANGED <<now, status, updatedAt, running, ctx, snap,
                             activeFrom, useV3>>
            BY <1>3, <2>3 DEF ReaperCount
        <3> QED
            BY <2>1, <3>1
    <2>4. CASE ~(running[snap[k].id] > 0 \/ now - snap[k].updated_at < MinActiveTime)
        <3>1. k' = k /\ pc' = "terminate"
              /\ UNCHANGED <<now, status, updatedAt, running, ctx, snap,
                             activeFrom, useV3>>
            BY <1>3, <2>4 DEF ReaperCount
        <3>2. now - snap[k].updated_at >= MinActiveTime
            BY <2>2, <2>4
        <3> QED
            BY <2>1, <3>1, <3>2
    <2> QED
        BY <2>3, <2>4
<1>4. CASE ReaperTerminate
    <2> DEFINE c == snap[k].id
    <2>1. pc = "terminate" /\ k \in 1..Len(snap)
        BY <1>4 DEF ReaperTerminate
    <2>2. c \in Clusters /\ status[c] # "Spawning"
        BY <2>1, SnapEntry
    <2>3. /\ pc' = "loop" /\ k' = k + 1
          /\ UNCHANGED <<now, running, ctx, snap, activeFrom, useV3>>
        BY <1>4, <2>1 DEF ReaperTerminate
    <2>4. \/ UNCHANGED <<status, updatedAt>>
          \/ \E to \in {"Deleting", "AwaitingTermination"} : SetStatus(c, to)
        BY <1>4 DEF ReaperTerminate
    <2>5. /\ status' \in [Clusters -> Statuses]
          /\ updatedAt' \in [Clusters -> 0..MaxTime]
          /\ \A d \in Clusters : updatedAt'[d] <= now'
          /\ \A d \in Clusters : status'[d] # "Spawning" =>
                                    activeFrom'[d] <= updatedAt'[d]
          /\ \A d \in Clusters : status[d] # "Spawning" =>
                                    /\ status'[d] # "Spawning"
                                    /\ activeFrom'[d] = activeFrom[d]
        <3>1. CASE UNCHANGED <<status, updatedAt>>
            BY <2>3, <3>1
        <3>2. CASE \E to \in {"Deleting", "AwaitingTermination"} : SetStatus(c, to)
            <4>1. PICK to \in {"Deleting", "AwaitingTermination"} : SetStatus(c, to)
                BY <3>2
            <4>2. /\ status' = [status EXCEPT ![c] = to]
                  /\ updatedAt' = [updatedAt EXCEPT ![c] = now]
                BY <4>1 DEF SetStatus
            <4> QED
                BY <2>2, <2>3, <4>2
        <3> QED
            BY <2>4, <3>1, <3>2
    <2>6. \A l \in 1..Len(snap') :
             /\ status'[snap'[l].id] # "Spawning"
             /\ activeFrom'[snap'[l].id] <= snap'[l].updated_at
        BY <2>3, <2>5, RowsStep
    <2> QED
        BY <2>1, <2>3, <2>5, <2>6
<1>5. CASE ReaperRaises
    BY <1>5 DEF ReaperRaises
<1>6. CASE Tick
    <2>1. /\ now < MaxTime /\ now' = now + 1
          /\ UNCHANGED <<status, updatedAt, running, ctx, pc, snap, k,
                         activeFrom, useV3>>
        BY <1>6 DEF Tick
    <2>2. now' \in 0..MaxTime /\ now <= now'
        BY <2>1
    <2>3. \A c \in Clusters : updatedAt'[c] <= now'
        BY <2>1
    <2> QED
        BY <2>1, <2>2, <2>3, EnvStep
<1>7. ASSUME NEW c \in Clusters, Activate(c) PROVE IInv'
    <2>1. /\ status[c] = "Spawning"
          /\ status' = [status EXCEPT ![c] = "Active"]
          /\ updatedAt' = [updatedAt EXCEPT ![c] = now]
          /\ activeFrom' = [activeFrom EXCEPT ![c] = now]
          /\ UNCHANGED <<now, running, ctx, pc, snap, k, useV3>>
        BY <1>7 DEF Activate, ChangeStatus, SetStatus
    <2> QED
        BY <2>1, EnvStep
<1>8. ASSUME NEW c \in Clusters, NEW from \in Statuses, NEW to \in Statuses,
             from # "Spawning", to # "Spawning", ChangeStatus(c, from, to),
             UNCHANGED activeFrom
      PROVE  IInv'
    <2>1. /\ status[c] = from
          /\ status' = [status EXCEPT ![c] = to]
          /\ updatedAt' = [updatedAt EXCEPT ![c] = now]
          /\ UNCHANGED <<now, running, ctx, pc, snap, k, useV3, activeFrom>>
        BY <1>8 DEF ChangeStatus, SetStatus
    <2>2. /\ status' \in [Clusters -> Statuses]
          /\ updatedAt' \in [Clusters -> 0..MaxTime]
        BY <1>8, <2>1
    <2>3. \A d \in Clusters : updatedAt'[d] <= now'
        BY <2>1
    <2>4. \A d \in Clusters : status'[d] # "Spawning" =>
                                 activeFrom'[d] <= updatedAt'[d]
        BY <1>8, <2>1
    <2>5. \A d \in Clusters : status[d] # "Spawning" =>
                                 /\ status'[d] # "Spawning"
                                 /\ activeFrom'[d] = activeFrom[d]
        BY <1>8, <2>1
    <2> QED
        BY <2>1, <2>2, <2>3, <2>4, <2>5, EnvStep
<1>9. ASSUME NEW c \in Clusters, RunJob(c) \/ JobEnds(c) PROVE IInv'
    <2>1. /\ running' \in [Clusters -> 0..MaxJobs]
          /\ UNCHANGED <<now, status, updatedAt, ctx, pc, snap, k, activeFrom,
                         useV3>>
        <3>1. CASE RunJob(c)
            <4>1. running[c] < MaxJobs
                  /\ running' = [running EXCEPT ![c] = running[c] + 1]
                  /\ UNCHANGED <<now, status, updatedAt, ctx, pc, snap, k,
                                 activeFrom, useV3>>
                BY <3>1 DEF RunJob
            <4> QED
                BY <4>1
        <3>2. CASE JobEnds(c)
            <4>1. running[c] > 0
                  /\ running' = [running EXCEPT ![c] = running[c] - 1]
                  /\ UNCHANGED <<now, status, updatedAt, ctx, pc, snap, k,
                                 activeFrom, useV3>>
                BY <3>2 DEF JobEnds
            <4> QED
                BY <4>1
        <3> QED
            BY <1>9, <3>1, <3>2
    <2> QED
        BY <2>1, EnvStep
<1>10. CASE UNCHANGED vars
    BY <1>10 DEF vars, IInv, TypeOK
<1> QED
    BY <1>1, <1>2, <1>3, <1>4, <1>5, <1>6, <1>7, <1>8, <1>9, <1>10
    DEF Next, StartScaling, FinishScaling, FinishTermination, Statuses

(* The task's state and the cluster rows always have their types:        *)
(* the listing copies only Active clusters, and every row write stamps    *)
(* the current time.                                                       *)
THEOREM ReaperTypeCorrect == Spec => []TypeOK
<1>1. IInv => TypeOK
    BY DEF IInv
<1> QED
    BY <1>1, InitIInv, NextIInv, PTL DEF Spec

-----------------------------------------------------------------------------
(***************************************************************************)
(* Refinement of ReaperPromise.  The promise needs one more fact than     *)
(* IInv: the loop sends the task to count and terminate only for a        *)
(* transient cluster (lines 87-88), and the index stays put until the     *)
(* termination.                                                           *)
(***************************************************************************)
TermInv == pc \in {"count", "terminate"} => snap[k].id \in Transient

LEMMA InitTermInv == Init => TermInv
BY DEF Init, TermInv

LEMMA NextTermInv == TermInv /\ [Next]_vars => TermInv'
<1> SUFFICES ASSUME TermInv, [Next]_vars PROVE TermInv'
    OBVIOUS
<1>1. CASE ReaperStart
    BY <1>1 DEF ReaperStart, TermInv
<1>2. CASE ReaperLoop
    BY <1>2 DEF ReaperLoop, TermInv
<1>3. CASE ReaperCount
    BY <1>3 DEF ReaperCount, TermInv
<1>4. CASE ReaperTerminate
    BY <1>4 DEF ReaperTerminate, TermInv
<1>5. CASE ReaperRaises
    BY <1>5 DEF ReaperRaises, TermInv
<1>6. CASE Tick
    BY <1>6 DEF Tick, TermInv
<1>7. ASSUME NEW c \in Clusters,
             \/ Activate(c) \/ StartScaling(c) \/ FinishScaling(c)
             \/ FinishTermination(c) \/ RunJob(c) \/ JobEnds(c)
      PROVE  TermInv'
    <2>1. UNCHANGED <<pc, snap, k>>
        BY <1>7 DEF Activate, StartScaling, FinishScaling, FinishTermination,
                    ChangeStatus, RunJob, JobEnds
    <2> QED
        BY <2>1 DEF TermInv
<1>8. CASE UNCHANGED vars
    BY <1>8 DEF vars, TermInv
<1> QED
    BY <1>1, <1>2, <1>3, <1>4, <1>5, <1>6, <1>7, <1>8 DEF Next

\* The initial rows are the promise's initial rows.
LEMMA InitRefines == Init => Promise!Init
BY DEF Init, Promise!Init, Promise!Never, Never


(* Every step of the detailed system is a step of ReaperPromise on the    *)
(* rows, the clock and the jobs, or leaves them alone.                   *)
LEMMA StepRefines ==
    IInv /\ TermInv /\ [Next]_vars => [Promise!Next]_Promise!avars
<1> SUFFICES ASSUME IInv, TermInv, [Next]_vars
             PROVE  [Promise!Next]_Promise!avars
    OBVIOUS
<1>1. CASE ReaperStart \/ ReaperLoop \/ ReaperCount \/ ReaperRaises
    \* The task's listing, loop head, count and uncaught exception write no row.
    BY <1>1 DEF ReaperStart, ReaperLoop, ReaperCount, ReaperRaises,
                Promise!avars
<1>2. CASE ReaperTerminate
    <2>1. pc = "terminate" /\ k \in 1..Len(snap)
        BY <1>2 DEF ReaperTerminate, IInv, TypeOK
    <2>2. /\ snap[k].id \in Clusters /\ snap[k].updated_at \in 0..MaxTime
          /\ snap[k].id \in Transient
        BY <2>1, SnapEntry DEF IInv, TermInv
    <2>3. /\ status[snap[k].id] # "Spawning"
          /\ activeFrom[snap[k].id] <= snap[k].updated_at
          /\ now - snap[k].updated_at >= MinActiveTime
        BY <2>1 DEF IInv
    <2>4. now - activeFrom[snap[k].id] >= MinActiveTime
        <3>1. now \in 0..MaxTime /\ activeFrom[snap[k].id] \in 0..Never
            BY <2>2 DEF IInv, TypeOK
        <3> QED
            BY <2>2, <2>3, <3>1, ReaperAssumption DEF Never
    <2>5. Promise!Terminate(snap[k].id) \/ UNCHANGED Promise!avars
        BY <1>2, <2>2, <2>3, <2>4
        DEF ReaperTerminate, SetStatus, Promise!Terminate, Promise!Stamp,
            Promise!avars
    <2> QED
        BY <2>2, <2>5 DEF Promise!Next
<1>3. CASE Tick
    BY <1>3 DEF Tick, Promise!Next, Promise!Tick
<1>4. ASSUME NEW c \in Clusters, Activate(c) PROVE Promise!Next
    <2>1. Promise!Move(c, <<"Spawning", "Active">>)
        BY <1>4 DEF Activate, ChangeStatus, SetStatus, Promise!Move,
                    Promise!Stamp
    <2> QED
        BY <2>1 DEF Promise!Next, Promise!EngineMoves
<1>5. ASSUME NEW c \in Clusters, StartScaling(c) PROVE Promise!Next
    <2>1. Promise!Move(c, <<"Active", "Scaling">>)
        BY <1>5 DEF StartScaling, ChangeStatus, SetStatus, Promise!Move,
                    Promise!Stamp
    <2> QED
        BY <2>1 DEF Promise!Next, Promise!EngineMoves
<1>6. ASSUME NEW c \in Clusters, FinishScaling(c) PROVE Promise!Next
    <2>1. Promise!Move(c, <<"Scaling", "Active">>)
        BY <1>6 DEF FinishScaling, ChangeStatus, SetStatus, Promise!Move,
                    Promise!Stamp
    <2> QED
        BY <2>1 DEF Promise!Next, Promise!EngineMoves
<1>7. ASSUME NEW c \in Clusters, FinishTermination(c) PROVE Promise!Next
    <2>1. Promise!Move(c, <<"AwaitingTermination", "Deleting">>)
        BY <1>7 DEF FinishTermination, ChangeStatus, SetStatus, Promise!Move,
                    Promise!Stamp
    <2> QED
        BY <2>1 DEF Promise!Next, Promise!EngineMoves
<1>8. ASSUME NEW c \in Clusters, RunJob(c) \/ JobEnds(c) PROVE Promise!Next
    BY <1>8 DEF RunJob, JobEnds, Promise!Next, Promise!RunJob, Promise!JobEnds
<1>9. CASE UNCHANGED vars
    BY <1>9 DEF vars, Promise!avars
<1> QED
    BY <1>1, <1>2, <1>3, <1>4, <1>5, <1>6, <1>7, <1>8, <1>9 DEF Next

(* terminate_unneeded_clusters implements ReaperPromise, for every set of *)
(* clusters, every clock bound and every MinActiveTime: hiding the task's *)
(* context, program counter, listing and index, each of its steps either  *)
(* leaves the cluster rows alone or terminates a transient cluster that   *)
(* became Active at least MinActiveTime ago, on either termination path. *)
THEOREM ReaperImplementsPromise == Spec => ImplementsPromise
<1>1. Spec => [](IInv /\ TermInv)
    BY InitIInv, NextIInv, InitTermInv, NextTermInv, PTL DEF Spec
<1> QED
    BY <1>1, InitRefines, StepRefines, PTL
    DEF Spec, ImplementsPromise, Promise!Spec

=============================================================================
